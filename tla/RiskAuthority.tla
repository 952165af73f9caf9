---------------------------- MODULE RiskAuthority ----------------------------
(***************************************************************************)
(* The hard risk authority (risk/authority.py) as a function of a          *)
(* snapshot: the state it is in, why, and what it objects to in an order.  *)
(* Fractions are in percent and money in the unit of the caller.           *)
(***************************************************************************)
EXTENDS Integers, Sequences, FiniteSets

CONSTANT Limits     \* RiskLimits and the execution limits of one deployment

NoCapitalLimit == -1

\* The larger of 0 and the fall from a level, against a percentage of it.
Fell(from, to, percent) == 100 * (IF from > to THEN from - to ELSE 0) >= percent * from

StaleReasons(s, now) ==
    {r \in {"public_data_stale", "private_data_stale"} :
        IF r = "public_data_stale" THEN now - s.publicAt > Limits.publicStale
                                   ELSE now - s.privateAt > Limits.privateStale}

EconomicReasons(s) ==
    {r \in {"daily_loss_limit", "drawdown_limit", "leverage_limit"} :
        CASE r = "daily_loss_limit" -> Fell(s.dayStart, s.equity, Limits.dailyLoss)
          [] r = "drawdown_limit" -> Fell(s.high, s.equity, Limits.drawdown)
          [] OTHER -> s.exposure > Limits.leverage * s.equity}

Rule(condition, state, reasons) == [holds |-> condition, state |-> state, reasons |-> reasons]

\* _state: the rules in the order they are tried.
Rules(s, now) ==
    <<Rule(s.kill, "halted", {"operator_kill"}),
      Rule(~ s.deployment, "halted", {"deployment_approval_invalid"}),
      Rule(s.capital # NoCapitalLimit /\ s.equity > s.capital, "halted", {"capital_limit"}),
      Rule(~ s.connected, "cancel_only", {"exchange_disconnected"}),
      Rule(~ s.reconciled, "cancel_only", {"reconciliation_incomplete"}),
      Rule(\E t \in {s.at, s.publicAt, s.privateAt} : t > now, "cancel_only",
           {"invalid_timestamp"}),
      Rule(StaleReasons(s, now) # {}, "cancel_only", StaleReasons(s, now)),
      Rule(s.equity <= 0 \/ s.dayStart <= 0 \/ s.high <= 0, "halted",
           {"invalid_account_state"}),
      Rule(s.flatten, "flattening", {"flatten_requested"}),
      Rule(EconomicReasons(s) # {}, "reduce_only", EconomicReasons(s)),
      Rule(TRUE, "active", {})>>

FirstHolding(rules) == rules[CHOOSE k \in DOMAIN rules :
                                /\ rules[k].holds
                                /\ \A j \in 1 .. k - 1 : ~ rules[j].holds]

Assess(s, now) == FirstHolding(Rules(s, now))

Size(n) == IF n < 0 THEN -n ELSE n

\* Position if the pending orders of a side and this one all fill.
Projected(s, intent) ==
    LET long == s.position + s.pendingBuy + (IF intent.side = "buy" THEN intent.quantity ELSE 0)
        short == s.position - s.pendingSell - (IF intent.side = "sell" THEN intent.quantity ELSE 0)
    IN  IF Size(long) > Size(short) THEN Size(long) ELSE Size(short)

Reducing(s, intent) ==
    Size(s.position + (IF intent.side = "buy" THEN intent.quantity ELSE 0 - intent.quantity))
        < Size(s.position)

\* What the state of the authority objects to.
StateObjections(intent, s, verdict) ==
    CASE verdict.state \in {"cancel_only", "halted"} -> verdict.reasons
      [] verdict.state = "active" -> {}
      [] ~ intent.reduceOnly -> verdict.reasons \cup {"reduce_only_required"}
      [] ~ Reducing(s, intent) -> verdict.reasons \cup {"not_position_reducing"}
      [] OTHER -> {}

\* evaluate: sent are the times of the submissions of the last second.
Objections(intent, s, inflight, sent, now) ==
    LET price == IF intent.limit = 0 THEN s.mark ELSE intent.limit
        base == Projected(s, intent)
        When(condition, reason) == IF condition THEN {reason} ELSE {}
    IN  UNION {
          When(intent.created > now, "invalid_timestamp"),
          When(intent.created <= now /\ now - intent.created > Limits.intentAge, "intent_too_old"),
          When(intent.quantity > Limits.orderSize, "order_size_limit"),
          When(intent.quantity * price > Limits.orderNotional, "order_notional_limit"),
          When(intent.reduceOnly /\ ~ Reducing(s, intent), "not_position_reducing"),
          When(inflight >= Limits.inflight, "inflight_request_limit"),
          IF intent.reduceOnly THEN {}
          ELSE UNION {When(base > Limits.position, "position_limit"),
                      When(base * s.mark > Limits.inventory, "inventory_limit"),
                      When(base * s.markValue > Limits.leverage * s.equity, "leverage_limit"),
                      When(s.open >= Limits.openOrders, "open_order_limit"),
                      When(Cardinality(sent) >= Limits.perSecond, "order_rate_limit")},
          StateObjections(intent, s, Assess(s, now))}

\* _rate_limited keeps the submissions of the last second.
Recent(sent, now) == {t \in sent : t.at > now - Limits.second}
=============================================================================
