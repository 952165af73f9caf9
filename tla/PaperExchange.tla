---------------------------- MODULE PaperExchange ----------------------------
(***************************************************************************)
(* The simulated exchange of paper and shadow trading                      *)
(* (paper/simulator.py): orders that become effective and are cancelled    *)
(* after a latency, and an account they move.                              *)
(*                                                                         *)
(* An exchange is a value: [orders, account, fills, changed], where orders *)
(* maps intents to orders and fills and changed are those of the operation *)
(* under way. Every operation of the simulator is an operator on it; the   *)
(* engine runs several of them between two commits. Prices are multiples   *)
(* of the tick, quantities of the lot, and money is counted in units of    *)
(* 1/10000, the basis points fees and rates are quoted in.                 *)
(***************************************************************************)
EXTENDS Integers, Sequences, SequencesExt, FiniteSetsExt

CONSTANTS
    Scenario,       \* latencies, fees, multipliers (in percent), partial fills
    Day             \* length of a UTC day in clock ticks

ASSUME ScenarioAssumption ==
    /\ {Scenario.entry, Scenario.response} \subseteq Nat
    /\ {Scenario.liquidity, Scenario.flow} \subseteq Nat
    /\ {Scenario.makerBps, Scenario.takerBps, Scenario.slippageBps,
        Scenario.fundingPercent} \subseteq Int
    /\ Scenario.partial \in BOOLEAN
    /\ Day \in Nat \ {0}

Bp == 10000
Never == -1

Terminal == {"filled", "canceled", "rejected"}
OrderStates == Terminal \cup {"pending_activation", "resting", "partially_filled",
                              "pending_cancel"}

\* What a strategy may ask for; a market order has no limit, which is 0 here.
Intents == [side : {"buy", "sell"}, kind : {"market", "post", "ioc", "gtc"}, limit : Nat,
            quantity : Nat \ {0}, onGrid : BOOLEAN, reduceOnly : BOOLEAN, created : Nat]

\* PaperOrder, without what the intent repeats.
Orders == [side : {"buy", "sell"}, kind : {"market", "post", "ioc", "gtc"}, limit : Nat,
           quantity : Nat \ {0}, filled : Nat, queue : Nat, state : OrderStates,
           accepted : Nat, effective : Nat, cancelAt : Nat \cup {Never}]

Sign(side) == IF side = "buy" THEN 1 ELSE -1
Magnitude(n) == IF n < 0 THEN -n ELSE n
Least(a, b) == IF a < b THEN a ELSE b
Greatest(a, b) == IF a < b THEN b ELSE a

Mid(m) == (m.bids[1].price + m.asks[1].price) \div 2
Shown(level) == (level.size * Scenario.liquidity) \div 100

-----------------------------------------------------------------------------
(* The account                                                              *)

Account(equity, mark, t) ==
    [cash |-> equity, position |-> 0, cost |-> 0, realized |-> 0, fees |-> 0,
     funding |-> 0, settled |-> Never, mark |-> mark, equity |-> equity,
     dayStart |-> equity, high |-> equity, day |-> t \div Day, updated |-> t]

\* _mark: a new day starts from the equity of its first mark.
Mark(x, price, t) ==
    LET a == x.account
        equity == a.cash + a.position * price * Bp
    IN  [x EXCEPT !.account =
            [a EXCEPT !.mark = price, !.equity = equity,
                      !.dayStart = IF t \div Day = a.day THEN @ ELSE Greatest(equity, 1),
                      !.high = Greatest(@, Greatest(equity, 1)),
                      !.day = t \div Day, !.updated = t]]

\* Slip: a fill that turns the position keeps the old entry cost.
ApplyFillKeepsEntry(a, f) ==
    [a EXCEPT !.position = @ + Sign(f.side) * f.quantity,
              !.cash = @ - Sign(f.side) * f.quantity * f.price * Bp - f.fee,
              !.fees = @ + f.fee,
              !.cost = IF @ = 0 THEN f.quantity * f.price * Bp ELSE @]

\* _apply_fill: cost is the position at its average entry price. What a fill
\* closes realises the difference to the average; what turns the position
\* enters at the price of the fill.
ApplyFill(a, f) ==
    LET held == Magnitude(a.position)
        opens == a.position = 0 \/ Sign(f.side) * a.position > 0
        closed == Least(held, f.quantity)
        released == (a.cost * closed) \div held
    IN  [a EXCEPT
            !.position = @ + Sign(f.side) * f.quantity,
            !.cash = @ - Sign(f.side) * f.quantity * f.price * Bp - f.fee,
            !.fees = @ + f.fee,
            !.cost = IF opens THEN @ + f.quantity * f.price * Bp
                     ELSE IF f.quantity > held THEN (f.quantity - held) * f.price * Bp
                     ELSE @ - released,
            !.realized = IF opens THEN @
                         ELSE @ - Sign(f.side) * (closed * f.price * Bp - released),
            !.updated = f.at]

\* settle_funding: the cash flow of a settlement at the given rate.
SettleFunding(x, rate, mark, t) ==
    LET flow == 0 - (x.account.position * mark * rate * Scenario.fundingPercent) \div 100
    IN  Mark([x EXCEPT !.account.cash = @ + flow, !.account.funding = @ + flow,
                       !.account.settled = t], mark, t)

-----------------------------------------------------------------------------
(* Orders                                                                   *)

Open(x) == {i \in DOMAIN x.orders : x.orders[i].state \notin Terminal}

\* Slip: what was filled already is not taken off.
RemainingAll(o) == o.quantity

\* remaining_quantity_base
Remaining(o) == o.quantity - o.filled

PendingExposure(x, side) ==
    FoldSet(LAMBDA i, n : n + Remaining(x.orders[i]), 0,
                          {i \in Open(x) : x.orders[i].side = side})

\* _store
Put(x, i, o) == [x EXCEPT !.orders[i] = o, !.changed = @ \cup {i}]

\* What one operation of the simulator changed, emptied before the next.
Fresh(x) == [x EXCEPT !.fills = <<>>, !.changed = {}]

\* submit, with _instruction_error: what is off the grid, or a resting limit
\* order that is not post-only, is rejected at once.
Submit(x, i, intent, t) ==
    LET wrong == ~ intent.onGrid \/ intent.kind = "gtc"
        o == [side |-> intent.side, kind |-> intent.kind, limit |-> intent.limit,
              quantity |-> intent.quantity, filled |-> 0, queue |-> 0,
              state |-> IF wrong THEN "rejected" ELSE "pending_activation",
              accepted |-> t, effective |-> t + Scenario.entry, cancelAt |-> Never]
    IN  [x EXCEPT !.orders = [j \in DOMAIN @ \cup {i} |-> IF j = i THEN o ELSE @[j]],
                  !.changed = @ \cup {i}]

\* request_cancel: a later request puts a pending cancellation off.
RequestCancel(x, i, t) ==
    IF i \notin Open(x) THEN x
    ELSE Put(x, i, [x.orders[i] EXCEPT !.state = "pending_cancel",
                                       !.cancelAt = t + Scenario.response])

RequestCancelAll(x, t) ==
    [x EXCEPT !.orders = [i \in DOMAIN @ |->
                            IF i \in Open(x) THEN [@[i] EXCEPT !.state = "pending_cancel",
                                                        !.cancelAt = t + Scenario.response]
                            ELSE @[i]],
              !.changed = @ \cup Open(x)]

\* elapse, and the first loop of advance and activate_pending.
Elapse(x, t) ==
    LET due == {i \in Open(x) : /\ x.orders[i].state = "pending_cancel"
                                /\ x.orders[i].cancelAt <= t}
    IN  [x EXCEPT !.orders = [i \in DOMAIN @ |-> IF i \in due
                                                 THEN [@[i] EXCEPT !.state = "canceled"]
                                                 ELSE @[i]],
                  !.changed = @ \cup due]

-----------------------------------------------------------------------------
(* Fills                                                                    *)

\* _fill: its identity is the order and what was filled of it before.
Fill(x, i, before, quantity, price, maker, t) ==
    LET o == x.orders[i]
        bps == IF maker THEN Scenario.makerBps ELSE Scenario.takerBps
        f == [order |-> i, before |-> before, side |-> o.side, quantity |-> quantity,
              price |-> price, maker |-> maker, at |-> t, fee |-> quantity * price * bps]
    IN  [x EXCEPT !.account = ApplyFill(@, f), !.fills = Append(@, f)]

\* _round_adverse after the slippage, bounded by the limit.
TakerPrice(o, price) ==
    LET slipped == price * (Bp + Sign(o.side) * Scenario.slippageBps)
        adverse == IF o.side = "buy" THEN (slipped + Bp - 1) \div Bp ELSE slipped \div Bp
    IN  IF o.kind = "market" THEN adverse
        ELSE IF o.side = "buy" THEN Least(adverse, o.limit) ELSE Greatest(adverse, o.limit)

Within(o, l) == \/ o.kind = "market"
                \/ o.side = "buy" /\ l.price <= o.limit
                \/ o.side = "sell" /\ l.price >= o.limit

\* The levels an order that takes looks at.
Facing(o, m) == IF o.side = "buy" THEN m.asks ELSE m.bids

Available(o, m) == FoldLeft(LAMBDA n, l : IF Within(o, l) THEN n + Shown(l) ELSE n, 0,
                            Facing(o, m))

\* One level of the sweep: s is [x, filled, left].
SweepLevel(s, i, o, l, t) ==
    LET q == Least(s.left, Shown(l))
    IN  IF ~ Within(o, l) \/ q <= 0 THEN s
        ELSE [x |-> Fill(s.x, i, s.filled, q, TakerPrice(o, l.price), FALSE, t),
              filled |-> s.filled + q, left |-> s.left - q]

Swept(x, i, m, t, target) ==
    FoldLeft(LAMBDA s, l : SweepLevel(s, i, x.orders[i], l, t),
             [x |-> x, filled |-> x.orders[i].filled, left |-> target], Facing(x.orders[i], m))

\* _execute_taker: sweep the visible levels; what is left is cancelled.
ExecuteTaker(x, i, m, t) ==
    LET o == x.orders[i]
        available == Available(o, m)
        target == IF Scenario.partial THEN Least(Remaining(o), available) ELSE Remaining(o)
        swept == Swept(x, i, m, t, target)
    IN  IF target <= 0 \/ (~ Scenario.partial /\ available < Remaining(o))
        THEN Put(x, i, [o EXCEPT !.state = "canceled"])
        ELSE Put(swept.x, i,
                 [o EXCEPT !.filled = swept.filled,
                           !.state = IF swept.filled = o.quantity THEN "filled" ELSE "canceled"])

\* _displayed_size: the first level at the price of the order.
DisplayedSize(m, o) ==
    LET levels == IF o.side = "buy" THEN m.bids ELSE m.asks
        at == {k \in DOMAIN levels : levels[k].price = o.limit}
    IN  IF at = {} THEN 0 ELSE Shown(levels[Min(at)])

Crossing(o, m) == \/ o.side = "buy" /\ o.limit >= m.asks[1].price
                  \/ o.side = "sell" /\ o.limit <= m.bids[1].price

\* _activate
Activate(x, i, m, t) ==
    LET o == x.orders[i]
    IN  CASE o.kind = "market" -> ExecuteTaker(x, i, m, t)
          [] o.kind = "post" /\ Crossing(o, m) -> Put(x, i, [o EXCEPT !.state = "rejected"])
          [] o.kind = "ioc" /\ Crossing(o, m) -> ExecuteTaker(x, i, m, t)
          [] o.kind = "ioc" /\ ~ Crossing(o, m) -> Put(x, i, [o EXCEPT !.state = "canceled"])
          [] OTHER -> Put(x, i, [o EXCEPT !.state = "resting",
                                          !.queue = DisplayedSize(m, o)])

DueOrders(x, t) == {i \in Open(x) : /\ x.orders[i].state = "pending_activation"
                                    /\ x.orders[i].effective <= t}

\* The second loop of advance and activate_pending: in the order the orders were
\* accepted, which is that of their numbers.
ActivateDue(x, m, t) ==
    MapThenFoldSet(LAMBDA i, y : Activate(y, i, m, t), x, LAMBDA i : i, LAMBDA T : Max(T),
                   DueOrders(x, t))

\* _trade_reaches_order
Reaches(trade, o) == \/ /\ o.side = "buy" /\ trade.aggressor = "sell"
                        /\ trade.price <= o.limit
                     \/ /\ o.side = "sell" /\ trade.aggressor = "buy"
                        /\ trade.price >= o.limit

Candidates(x, trade) ==
    {i \in Open(x) : /\ x.orders[i].state \in {"resting", "partially_filled", "pending_cancel"}
                     /\ x.orders[i].kind # "market"
                     /\ x.orders[i].effective <= trade.observed
                     /\ Reaches(trade, x.orders[i])}

\* The one that became effective last, the youngest of several.
Youngest(x, T) ==
    Max({i \in T : \A j \in T : x.orders[j].effective <= x.orders[i].effective})

\* One candidate of _match_trade: s is [x, left].
MatchOrder(s, i, t) ==
    LET o == s.x.orders[i]
        eaten == Least(o.queue, s.left)
        rest == s.left - eaten
        q == Least(Remaining(o), rest)
        filled == o.filled + q
        queued == [o EXCEPT !.queue = @ - eaten]
    IN  IF s.left <= 0 THEN s
        ELSE IF rest <= 0 THEN [x |-> Put(s.x, i, queued), left |-> rest]
        ELSE IF ~ Scenario.partial /\ q < Remaining(o) THEN [s EXCEPT !.left = rest]
        ELSE [x |-> Put(Fill(s.x, i, o.filled, q, o.limit, TRUE, t), i,
                        [queued EXCEPT !.filled = filled,
                            !.state = IF filled = o.quantity THEN "filled"
                                      ELSE IF @ = "pending_cancel" THEN @
                                      ELSE "partially_filled",
                            !.cancelAt = IF filled = o.quantity \/ o.state # "pending_cancel"
                                         THEN Never ELSE @]),
              left |-> rest - q]

\* _match_trade: the volume of a trade first consumes the queue ahead of an
\* order and then fills it, the oldest effective order first.
MatchTrade(x, trade, t) ==
    MapThenFoldSet(LAMBDA i, s : MatchOrder(s, i, t),
                   [x |-> x, left |-> (trade.size * Scenario.flow) \div 100],
                   LAMBDA i : i, LAMBDA T : Youngest(x, T), Candidates(x, trade)).x

-----------------------------------------------------------------------------
(* A market state                                                           *)

\* The third loop of advance.
MatchAll(x, m) == FoldLeft(LAMBDA y, trade : MatchTrade(y, trade, m.observed), x, m.trades)

\* advance
Advance(x, m, mark) ==
    LET active == ActivateDue(Elapse(Mark(Fresh(x), mark, m.observed), m.observed), m, m.observed)
    IN  Mark(MatchAll(active, m), mark, m.observed)

\* activate_pending: the latest book again, its trades not replayed.
ActivatePending(x, m, t) ==
    Mark(ActivateDue(Elapse(Mark(Fresh(x), Mid(m), t), t), m, t), Mid(m), t)
=============================================================================
