----------------------------- MODULE PaperEngine -----------------------------
(***************************************************************************)
(* The engine of paper and shadow trading (paper/engine.py) and what its   *)
(* journal keeps (paper/journal.py). An engine is a value: the exchange it *)
(* simulates, the memory of the strategy and the rest of what is lost with *)
(* the process. A journal is a value too: every operator that stands for   *)
(* one of its transactions maps a journal to the next one.                 *)
(*                                                                         *)
(* What the strategy decides is an input: any order of Menu, and the       *)
(* cancellation of any of its open orders.                                 *)
(***************************************************************************)
EXTENDS PaperExchange, PaperMarket, RiskAuthority

CONSTANTS
    Capital,            \* initial_equity_usd
    MarkoutHorizon,     \* markout_horizon_ns
    Independence,       \* decision_independence_ns
    FundingInterval,    \* FUNDING_INTERVAL_NS
    Bar                 \* length of the shortest bar of the market structure

ASSUME CapitalAssumption == Capital \in Nat \ {0}

None == -1
NoMarket == [observed |-> None]

\* The causal market structure (features/market_structure.py), reduced to its
\* shortest bar: the revision counts closed bars.
NoStructure == [revision |-> 0, last |-> None, bucket |-> None, valid |-> TRUE]

\* CausalMarketStructureEngine.update, and its refusal of an observation that
\* is not later than the last one.
StructureRaises(s, t) == s.last # None /\ t <= s.last
StructureUpdate(s, t) ==
    LET turns == s.bucket # None /\ s.bucket # t \div Bar
        closes == turns /\ s.valid
    IN  [revision |-> s.revision + (IF closes THEN 1 ELSE 0), last |-> t,
         bucket |-> t \div Bar, valid |-> s.valid \/ turns]

-----------------------------------------------------------------------------
(* The journal                                                              *)

\* The memory of a strategy: the position it believes in and the number of its
\* next intent.
NewMemory == [position |-> 0, next |-> 1]

NoCheckpoint == [at |-> None, memory |-> NewMemory, sequence |-> 0, independentAt |-> None, rate |-> 0, nextFunding |-> None, source |-> None]

NewJournal == [start |-> None, account |-> Account(Capital, 0, 0), orders |-> <<>>,
               fills |-> {}, checkpoint |-> NoCheckpoint, structure |-> NoStructure,
               cycles |-> <<>>, approved |-> 0, denied |-> 0, independent |-> 0,
               submits |-> 0, markouts |-> {}, drills |-> {}, events |-> {}]

OpenInJournal(j) == {i \in DOMAIN j.orders : j.orders[i].state \notin Terminal}

\* Only the changed orders are written, over what is there.
WithOrders(j, x) == [i \in DOMAIN j.orders \cup x.changed |->
                        IF i \in x.changed THEN x.orders[i] ELSE j.orders[i]]

\* record_cycle: orders, fills and account in one transaction (the commands
\* that are recorded with them repeat what the orders say).
RecordCycle(j, x) ==
    [j EXCEPT !.orders = WithOrders(j, x), !.fills = @ \cup ToSet(x.fills),
              !.account = x.account]

RecordCheckpoint(j, c) == [j EXCEPT !.checkpoint = c]

\* record_engine_cycle: everything of one market state, and the checkpoint.
RecordEngineCycle(j, c) ==
    [RecordCycle(j, c.x) EXCEPT
        !.approved = @ + c.approved, !.denied = @ + c.denied,
        !.independent = @ + c.independent, !.submits = @ + c.approved,
        !.markouts = @ \cup c.markouts,
        !.cycles = [q \in DOMAIN @ \cup {c.source} |->
                        IF q = c.source THEN c.trades ELSE @[q]],
        !.checkpoint = c.checkpoint]

RecordEvent(j, kind) == [j EXCEPT !.events = @ \cup {kind}]
RecordDrills(j, drills) == [j EXCEPT !.drills = @ \cup drills]

\* pending_markout_fills
PendingMarkouts(j) == j.fills \ j.markouts

-----------------------------------------------------------------------------
(* The engine                                                               *)

Off == [on |-> FALSE]

\* Slip: a resumed strategy starts with an empty memory.
RestoredMemoryFresh(c) == NewMemory

\* _build_strategy
RestoredMemory(c) == c.memory

\* The constructor, from what the journal kept. The restored orders are those
\* that were open; the features warm up again.
Restore(j, t) ==
    LET c == j.checkpoint
    IN  [on |-> TRUE, startedAt |-> t,
         x |-> [orders |-> [i \in OpenInJournal(j) |-> j.orders[i]],
                account |-> j.account, fills |-> <<>>, changed |-> {}],
         memory |-> RestoredMemory(c), sequence |-> c.sequence,
         independentAt |-> c.independentAt, rate |-> c.rate,
         nextFunding |-> c.nextFunding, source |-> c.source,
         structure |-> [j.structure EXCEPT !.valid = j.structure = NoStructure],
         persisted |-> IF j.structure = NoStructure THEN None ELSE j.structure.revision,
         market |-> NoMarket, connected |-> TRUE,
         pending |-> PendingMarkouts(j), sent |-> {}]

\* A first start: begin_run records where in the source the run begins and
\* the account it starts from.
Begin(j, start, mark, t) ==
    LET begun == [j EXCEPT !.start = start, !.account = Account(Capital * Bp, mark, t)]
    IN  [journal |-> begun, engine |-> Restore(begun, t)]

\* A resume: every restored order is asked to be cancelled, in one transaction.
Resume(j, t) ==
    LET e == Restore(j, t)
        x == RequestCancelAll(e.x, t)
    IN  [journal |-> RecordEvent(RecordCycle(j, x), "restart_reconciliation"),
         engine |-> [e EXCEPT !.x = Fresh(x)]]

CheckpointOf(e, t) ==
    [at |-> t, memory |-> e.memory, sequence |-> e.sequence, independentAt |-> e.independentAt, rate |-> e.rate, nextFunding |-> e.nextFunding,
     source |-> e.source]

\* update_context
UpdateContext(e, rate, next) ==
    [e EXCEPT !.rate = rate,
              !.nextFunding = IF next # None /\ (@ = None \/ next > @) THEN next ELSE @]

FundingDue(e, t) == e.nextFunding # None /\ t >= e.nextFunding
FundingGap(e, t) == FundingDue(e, t) /\ t - e.nextFunding >= FundingInterval

\* _settle_funding_if_due: a settlement that was missed by a whole interval is
\* not made up for.
SettleIfDue(e, mark, t) ==
    IF FundingGap(e, t) THEN [e EXCEPT !.nextFunding = (t \div FundingInterval + 1) * FundingInterval]
    ELSE IF FundingDue(e, t)
    THEN [e EXCEPT !.x = SettleFunding(@, e.rate, mark, e.nextFunding),
                   !.nextFunding = @ + FundingInterval]
    ELSE e

\* _risk_snapshot: the only market price is the mark of the account.
Snapshot(e, kill, t) ==
    LET a == e.x.account
        equity == Greatest(a.equity, 1)
    IN  [at |-> t, publicAt |-> IF e.market = NoMarket THEN t ELSE e.market.observed,
         privateAt |-> Least(a.updated, t), kill |-> kill, deployment |-> TRUE,
         capital |-> NoCapitalLimit, connected |-> e.connected, reconciled |-> TRUE,
         flatten |-> FALSE, position |-> a.position, mark |-> a.mark,
         markValue |-> a.mark * Bp, equity |-> equity, dayStart |-> a.dayStart,
         high |-> a.high, exposure |-> Magnitude(a.position) * a.mark * Bp,
         pendingBuy |-> PendingExposure(e.x, "buy"),
         pendingSell |-> PendingExposure(e.x, "sell"), open |-> Cardinality(Open(e.x))]

\* _synchronize_memory
Synchronize(e) == [e EXCEPT !.memory.position = e.x.account.position]

\* _resolve_markouts
Resolved(e, t) == {f \in e.pending : t - f.at >= MarkoutHorizon}

\* _record_economic_drills: once nothing is open.
EconomicDrills(e, reasons) ==
    IF Open(e.x) # {} THEN {}
    ELSE {d \in {"daily_loss", "drawdown"} :
            (IF d = "daily_loss" THEN "daily_loss_limit" ELSE "drawdown_limit") \in reasons}

Independent(e, t) == e.independentAt = None \/ t - e.independentAt >= Independence

\* One intent of the decision, evaluated: counted, and submitted if allowed.
Evaluated(s, asked, sent, allowed, t) ==
    LET e == s.e
        counted == [e EXCEPT !.sequence = @ + 1, !.memory.next = @ + 1,
                             !.independentAt = IF Independent(e, t) THEN t ELSE @]
    IN  [e |-> IF allowed
               THEN [counted EXCEPT !.x = Submit(@, e.memory.next, asked, t),
                        !.sent = IF asked.reduceOnly THEN sent
                                 ELSE sent \cup {[at |-> t, intent |-> e.memory.next]}]
               ELSE counted,
         approved |-> s.approved + (IF allowed THEN 1 ELSE 0),
         denied |-> s.denied + (IF allowed THEN 0 ELSE 1),
         independent |-> s.independent + (IF Independent(e, t) THEN 1 ELSE 0)]

Decide(s, asked, kill, t) ==
    LET sent == Recent(s.e.sent, t)
    IN  Evaluated(s, asked, sent, Objections(asked, Snapshot(s.e, kill, t), 0, sent, t) = {}, t)

\* The exchange at a market state.
Advanced(e, m, mark) ==
    LET x == Advance(e.x, m, IF mark = None THEN Mid(m) ELSE mark)
    IN  Synchronize([e EXCEPT !.x = x, !.pending = @ \cup ToSet(x.fills)])

\* Everything is cancelled while the authority is not active.
Supervised(e, verdict, t) ==
    LET halted == [e EXCEPT !.x = RequestCancelAll(@, t)]
        active == verdict.state = "active"
    IN  [e |-> [(IF active THEN e ELSE halted) EXCEPT !.pending = @ \ Resolved(e, t)],
         markouts |-> Resolved(e, t),
         drills |-> IF active THEN {} ELSE EconomicDrills(halted, verdict.reasons)]

Assessed(e, kill, t) == Supervised(e, Assess(Snapshot(e, kill, t), t), t)

\* on_market up to the market structure: funding, the exchange, the authority
\* and the markouts.
Simulate(e, m, mark, connected, source, kill) ==
    LET t == m.observed
        settled == SettleIfDue([e EXCEPT !.market = m, !.connected = connected,
                                         !.source = source],
                               IF mark = None THEN e.x.account.mark ELSE mark, t)
    IN  Assessed(Advanced(settled, m, mark), kill, t)

CancelEach(x, cancels, t) == FoldSet(LAMBDA i, y : RequestCancel(y, i, t), x, cancels)

DecideEach(s, submits, kill, t) ==
    FoldLeft(LAMBDA r, intent : Decide(r, [intent EXCEPT !.created = t], kill, t), s, submits)

\* The decision of the strategy: its cancellations, then its submissions.
Decided(e, kill, cancels, submits, t) ==
    LET seen == [e EXCEPT !.structure = StructureUpdate(@, t)]
        freed == [seen EXCEPT !.x = CancelEach(@, cancels \cap Open(@), t)]
    IN  DecideEach([e |-> freed, approved |-> 0, denied |-> 0, independent |-> 0],
                   submits, kill, t)

\* The cycle to be committed, after what was simulated and decided.
Cycle(s, d, m, source) ==
    [x |-> d.e.x, source |-> source, markouts |-> s.markouts,
     trades |-> {m.trades[k].id : k \in DOMAIN m.trades},
     approved |-> d.approved, denied |-> d.denied, independent |-> d.independent,
     checkpoint |-> CheckpointOf(d.e, m.observed)]

\* The engine after it: what the next cycle starts from.
AfterCycle(d) == [d.e EXCEPT !.persisted = d.e.structure.revision, !.x = Fresh(@)]

\* What on_market refuses before it changes the exchange.
OutOfOrder(e, m, source) == \/ e.source # None /\ source <= e.source
                            \/ e.market # NoMarket /\ m.observed <= e.market.observed

\* Slip: cancel-all is requested before the due cancellations are applied.
WatchdogCancelsFirst(e, connected, kill, t) ==
    LET stale == e.market = NoMarket \/ t - e.market.observed > Limits.publicStale
        halted == stale \/ ~ connected \/ kill
        x == IF halted THEN Elapse(RequestCancelAll(Fresh(e.x), t), t)
             ELSE Elapse(ActivatePending(e.x, e.market, t), t)
    IN  [e |-> [e EXCEPT !.x = Fresh(x), !.connected = connected], x |-> x,
         stale |-> stale, drills |-> {}]

\* watchdog: latency passes also when no market state comes. Whatever is
\* stale, disconnected or killed has everything cancelled, at every call.
Watchdog(e, connected, kill, t) ==
    LET stale == e.market = NoMarket \/ t - e.market.observed > Limits.publicStale
        halted == stale \/ ~ connected \/ kill
        x1 == IF halted THEN Fresh(e.x) ELSE ActivatePending(e.x, e.market, t)
        x2 == Elapse(x1, t)
        x3 == IF halted THEN RequestCancelAll(x2, t) ELSE x2
        e3 == [e EXCEPT !.x = x3, !.connected = connected,
                        !.pending = @ \cup ToSet(x1.fills),
                        !.memory.position = IF halted THEN @ ELSE x1.account.position]
        verdict == Assess(Snapshot(e3, kill, t), t)
    IN  [e |-> [e3 EXCEPT !.x = Fresh(@)], x |-> x3,
         stale |-> stale,
         drills |-> IF e.market = NoMarket \/ Open(x3) # {} THEN {}
                    ELSE EconomicDrills(e3, verdict.reasons)
                         \cup {d \in {"operator_kill"} : kill /\ verdict.state = "halted"}
                         \cup {d \in {"stale_data"} :
                                    stale /\ "public_data_stale" \in verdict.reasons}]
=============================================================================
