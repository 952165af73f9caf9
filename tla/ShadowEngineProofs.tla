------------------------- MODULE ShadowEngineProofs -------------------------
(***************************************************************************)
(* Proofs about shadow trading: type correctness, causal market states,    *)
(* orders that stay as they ended, an audit whose gaps can be counted, a   *)
(* journal whose books balance and trades that are simulated once, for     *)
(* every tape, menu, scenario and number of crashes.                       *)
(*                                                                         *)
(* The operations of the simulated exchange and of the engine are values   *)
(* of operators, many of them folds. Tracks says what such an operation    *)
(* may do to the orders, and the first part proves it of each of them; the *)
(* loops are taken from FoldFacts. The second part does the same for the   *)
(* assembler, the third for the engine. The fourth is the inductive        *)
(* invariant of the two processes. Then follows money: sums over fills,    *)
(* one fill on an account, and, operation by operation, that what an       *)
(* exchange reports explains its account (Explains), up to the invariant   *)
(* of the books and the theorem that the journal balances. The last part   *)
(* follows the trades of the log into the states that carry them.          *)
(***************************************************************************)
EXTENDS ShadowEngine, FiniteSetTheorems, SequenceTheorems, TLAPS

-----------------------------------------------------------------------------
(* The operations of the simulated exchange                                 *)

ExchangeFields == {"orders", "account", "fills", "changed"}

\* The orders of an exchange are typed and no order is overfilled.
OrdersOK(ids, x) == /\ DOMAIN x = ExchangeFields
                    /\ x.orders \in [ids -> Orders]
                    /\ \A i \in ids : x.orders[i].filled <= x.orders[i].quantity

\* What separates an exchange from the one x0 it came from: orders were added,
\* and what differs from before is listed as changed and was still open in x0.
Tracks(x0, ids, x) ==
    /\ OrdersOK(ids, x)
    /\ DOMAIN x0.orders \subseteq ids /\ x.changed \subseteq ids
    /\ \A i \in x.changed \cap DOMAIN x0.orders : x0.orders[i].state \notin Terminal
    /\ \A i \in ids \ x.changed : i \in DOMAIN x0.orders /\ x.orders[i] = x0.orders[i]

\* An order that is open is one that was open before, or is new: nothing in
\* paper/simulator.py opens an order again.
LEMMA OpenWasOpen ==
    ASSUME NEW x0, NEW ids, NEW x, Tracks(x0, ids, x), NEW i \in Open(x)
    PROVE  /\ i \in ids
           /\ x.orders[i] \in Orders /\ x.orders[i].filled <= x.orders[i].quantity
           /\ i \in DOMAIN x0.orders => x0.orders[i].state \notin Terminal
  BY DEF Tracks, OrdersOK, Open

\* Writing one order that was open, as every operation of the simulator does.
LEMMA PutTracks ==
    ASSUME NEW x0, NEW ids, NEW x, Tracks(x0, ids, x), NEW i \in ids,
           NEW o \in Orders, o.filled <= o.quantity,
           i \in DOMAIN x0.orders => x0.orders[i].state \notin Terminal
    PROVE  Tracks(x0, ids, Put(x, i, o))
  BY DEF Tracks, OrdersOK, Put, ExchangeFields

\* _mark values the account and touches no order.
LEMMA MarkTracks ==
    ASSUME NEW x0, NEW ids, NEW x, Tracks(x0, ids, x), NEW p, NEW t
    PROVE  Tracks(x0, ids, Mark(x, p, t)) /\ Mark(x, p, t).orders = x.orders
  BY DEF Tracks, OrdersOK, Mark, ExchangeFields

\* settle_funding moves cash and touches no order.
LEMMA FundingTracks ==
    ASSUME NEW x0, NEW ids, NEW x, Tracks(x0, ids, x), NEW r, NEW p, NEW t
    PROVE  Tracks(x0, ids, SettleFunding(x, r, p, t))
  BY DEF SettleFunding, Tracks, OrdersOK, Mark, ExchangeFields

\* _fill moves the account; the caller writes the order.
LEMMA FillTracks ==
    ASSUME NEW x0, NEW ids, NEW x, Tracks(x0, ids, x), NEW i, NEW before, NEW q,
           NEW price, NEW maker, NEW t
    PROVE  /\ Tracks(x0, ids, Fill(x, i, before, q, price, maker, t))
           /\ Fill(x, i, before, q, price, maker, t).orders = x.orders
  BY DEF Tracks, OrdersOK, Fill, ExchangeFields

\* elapse ends the cancellations that are due (paper/simulator.py).
LEMMA ElapseTracks ==
    ASSUME NEW x0, NEW ids, NEW x, Tracks(x0, ids, x), NEW t
    PROVE  Tracks(x0, ids, Elapse(x, t))
  BY DEF Tracks, OrdersOK, Elapse, ExchangeFields, Open, Orders, OrderStates, Terminal

\* The latencies and the shares of a scenario are natural numbers.
LEMMA Latencies == /\ Scenario.entry \in Nat /\ Scenario.response \in Nat
                   /\ Scenario.liquidity \in Nat /\ Scenario.flow \in Nat
  BY ScenarioAssumption

\* An order whose cancellation was asked for.
Asked(o, t) == [o EXCEPT !.state = "pending_cancel", !.cancelAt = t + Scenario.response]

\* request_cancel leaves an order one: only its state and its time change.
LEMMA AskedIsOrder ==
    ASSUME NEW o \in Orders, NEW t \in Nat
    PROVE  /\ Asked(o, t) \in Orders
           /\ Asked(o, t).filled = o.filled /\ Asked(o, t).quantity = o.quantity
<1>1. t + Scenario.response \in Nat
  BY Latencies
<1> QED
  BY <1>1 DEF Asked, Orders, OrderStates

\* request_cancel_all asks for the cancellation of what is open, and of nothing else.
LEMMA CancelAllTracks ==
    ASSUME NEW x0, NEW ids, NEW x, Tracks(x0, ids, x), NEW t \in Nat
    PROVE  Tracks(x0, ids, RequestCancelAll(x, t))
<1> DEFINE orders == [i \in DOMAIN x.orders |-> IF i \in Open(x) THEN Asked(x.orders[i], t)
                                               ELSE x.orders[i]]
<1>1. RequestCancelAll(x, t) = [x EXCEPT !.orders = orders, !.changed = @ \cup Open(x)]
  BY DEF RequestCancelAll, Asked
<1>2. \A i \in ids : orders[i] \in Orders /\ orders[i].filled <= orders[i].quantity
  BY AskedIsOrder DEF Tracks, OrdersOK
<1>3. DOMAIN orders = ids /\ \A i \in ids : i \notin Open(x) => orders[i] = x.orders[i]
  BY DEF Tracks, OrdersOK
<1> HIDE DEF orders
<1>4. orders \in [ids -> Orders]
  <2>1. orders = [i \in ids |-> orders[i]]
    BY DEF orders, Tracks, OrdersOK
  <2> QED
    BY <1>2, <2>1
<1>5. \A i \in Open(x) : i \in ids /\ (i \in DOMAIN x0.orders => x0.orders[i].state \notin Terminal)
  BY OpenWasOpen
<1> QED
  BY <1>1, <1>2, <1>3, <1>4, <1>5 DEF Tracks, OrdersOK, ExchangeFields

\* request_cancel of any number, whether or not such an order is open.
LEMMA CancelTracks ==
    ASSUME NEW x0, NEW ids, NEW x, Tracks(x0, ids, x), NEW t \in Nat, NEW i
    PROVE  Tracks(x0, ids, RequestCancel(x, i, t))
<1>1. CASE i \in Open(x)
  <2> DEFINE o == Asked(x.orders[i], t)
  <2>1. o \in Orders /\ o.filled <= o.quantity
    BY <1>1, OpenWasOpen, AskedIsOrder
  <2>2. RequestCancel(x, i, t) = Put(x, i, o)
    BY <1>1 DEF RequestCancel, Asked
  <2> HIDE DEF o
  <2> QED
    BY <1>1, <2>1, <2>2, OpenWasOpen, PutTracks
<1> QED
  BY <1>1 DEF RequestCancel

\* submit adds an order that nothing has been filled of.
LEMMA SubmitTracks ==
    ASSUME NEW x0, NEW ids, NEW x, Tracks(x0, ids, x), NEW t \in Nat, NEW i,
           i \notin ids, NEW intent \in Intents
    PROVE  Tracks(x0, ids \cup {i}, Submit(x, i, intent, t))
<1> DEFINE wrong == ~ intent.onGrid \/ intent.kind = "gtc"
           o == [side |-> intent.side, kind |-> intent.kind, limit |-> intent.limit,
                 quantity |-> intent.quantity, filled |-> 0, queue |-> 0,
                 state |-> IF wrong THEN "rejected" ELSE "pending_activation",
                 accepted |-> t, effective |-> t + Scenario.entry, cancelAt |-> Never]
           orders == [j \in DOMAIN x.orders \cup {i} |-> IF j = i THEN o ELSE x.orders[j]]
<1>1. t + Scenario.entry \in Nat
  BY Latencies
<1>2. o \in Orders /\ o.filled <= o.quantity
  BY <1>1 DEF Intents, Orders, OrderStates, Terminal
<1>3. Submit(x, i, intent, t) = [x EXCEPT !.orders = orders, !.changed = @ \cup {i}]
  BY DEF Submit
<1>4. DOMAIN x.orders = ids /\ \A j \in ids : x.orders[j] \in Orders
  BY DEF Tracks, OrdersOK
<1> HIDE DEF o
<1>5. DOMAIN orders = ids \cup {i} /\ orders[i] = o /\ \A j \in ids : orders[j] = x.orders[j]
  BY <1>4
<1>6. orders \in [ids \cup {i} -> Orders]
  BY <1>2, <1>4
<1> HIDE DEF orders
<1> QED
  BY <1>2, <1>3, <1>4, <1>5, <1>6 DEF Tracks, OrdersOK, ExchangeFields

\* An operation starts from an exchange that reports nothing.
LEMMA FreshTracks ==
    ASSUME NEW ids, NEW x, OrdersOK(ids, x)
    PROVE  OrdersOK(ids, Fresh(x)) /\ Tracks(x, ids, Fresh(x))
  BY DEF Tracks, OrdersOK, Fresh, ExchangeFields

-----------------------------------------------------------------------------
(* Types of what the exchange looks at                                      *)

Trades == [id : Nat, event : Nat, observed : Nat, price : Nat, size : Nat,
           aggressor : {"buy", "sell", "unknown"}]

MarketOK(m) == /\ m.observed \in Nat
               /\ m.bids \in Seq(Levels) /\ m.asks \in Seq(Levels) /\ m.trades \in Seq(Trades)
               /\ m.bids # <<>> /\ m.asks # <<>>

\* A percentage of a natural number, rounded down, is a natural number.
LEMMA Shares ==
    ASSUME NEW n \in Nat, NEW k \in Nat
    PROVE  (n * k) \div 100 \in Nat
<1> DEFINE j == n * k
<1>1. j \in Nat
  OBVIOUS
<1> HIDE DEF j
<1>2. j \div 100 \in Nat
  BY <1>1
<1> QED
  BY <1>2 DEF j

\* What a level shows of its size (paper/simulator.py, displayed liquidity).
LEMMA ShownIsNat == \A l \in Levels : Shown(l) \in Nat
  BY Shares, Latencies DEF Shown, Levels

Highest(p, T) == Max(T)

\* A sequence is a function on a finite set of integers.
LEMMA Positions ==
    ASSUME NEW S, NEW s \in Seq(S)
    PROVE  DOMAIN s \in SUBSET Int /\ IsFiniteSet(DOMAIN s) /\ \A k \in DOMAIN s : s[k] \in S
<1>1. DOMAIN s = 1 .. Len(s) /\ Len(s) \in Nat
  OBVIOUS
<1>2. IsFiniteSet(1 .. Len(s))
  BY <1>1, FS_Interval
<1> QED
  BY <1>1, <1>2

-----------------------------------------------------------------------------
(* A sweep                                                                  *)

\* What the sweep of an order over the levels of a book keeps.
SweepStep(p, s, k) == SweepLevel(s, p.i, p.o, p.levels[k], p.t)
SweepClaim(p, T, s) == /\ Tracks(p.x0, p.ids, s.x) /\ s.x.orders = p.x.orders
                       /\ s.filled \in Nat /\ s.left \in Nat /\ s.filled + s.left = p.sum
Sweeping == INSTANCE FoldFacts WITH Op <- SweepStep, Pick <- Highest, Holds <- SweepClaim

\* The highest number is the last of a loop in ascending order.
LEMMA HighestIsLast ==
    ASSUME NEW S \in SUBSET Int, IsFiniteSet(S), NEW T \in SUBSET S, T # {}
    PROVE  Max(T) \in T /\ \A y \in T : y <= Max(T)
<1>1. IsFiniteSet(T) /\ T \in SUBSET Int
  BY FS_Subset
<1>2. \E x \in T : \A y \in T : y <= x
  BY <1>1, Sweeping!GreatestElement DEF IsFiniteSet, Sweeping!IsFiniteSet
<1>3. \E x \in T : \A y \in T : x >= y
  BY <1>1, <1>2
<1> QED
  BY <1>1, <1>3 DEF Max

\* _execute_taker: a sweep fills at most what was to be filled, level by level,
\* and an order never more than its quantity.
LEMMA SweptTracks ==
    ASSUME NEW x0, NEW ids, NEW x, Tracks(x0, ids, x), NEW i \in ids, NEW m, MarketOK(m),
           NEW t, NEW target \in Nat
    PROVE  LET s == Swept(x, i, m, t, target)
           IN  /\ Tracks(x0, ids, s.x) /\ s.x.orders = x.orders
               /\ s.filled \in Nat /\ s.left \in Nat
               /\ s.filled + s.left = x.orders[i].filled + target
<1> DEFINE o == x.orders[i]
           levels == Facing(o, m)
           start == [x |-> x, filled |-> o.filled, left |-> target]
           p == [x0 |-> x0, ids |-> ids, x |-> x, i |-> i, o |-> o, levels |-> levels,
                 t |-> t, sum |-> o.filled + target]
           S == DOMAIN levels
<1>1. o \in Orders /\ o.filled \in Nat
  BY DEF Tracks, OrdersOK, Orders
<1>2. levels \in Seq(Levels)
  BY DEF Facing, MarketOK
<1>3. S \in SUBSET Int /\ IsFiniteSet(S) /\ \A k \in S : levels[k] \in Levels
  BY <1>2, Positions
<1>4. Swept(x, i, m, t, target) = Sweeping!Loop(p, start, S)
  BY DEF Swept, Sweeping!Loop, SweepStep, Highest, FoldLeft, MapThenFoldSet,
         Sweeping!MapThenFoldSet, Max
<1>5. Sweeping!Picks(p, S)
  BY <1>3, HighestIsLast DEF Sweeping!Picks, Highest
<1>6. SweepClaim(p, {}, start)
  BY <1>1 DEF SweepClaim
<1>7. ASSUME NEW k \in S, NEW s, NEW T, NEW T2, SweepClaim(p, T, s)
      PROVE  SweepClaim(p, T2, SweepStep(p, s, k))
  <2> DEFINE l == levels[k]
             q == Least(s.left, Shown(l))
             price == TakerPrice(o, l.price)
             maker == FALSE
             y == Fill(s.x, i, s.filled, q, price, maker, t)
  <2>1. CASE ~ Within(o, l) \/ q <= 0
    BY <1>7, <2>1 DEF SweepStep, SweepLevel, SweepClaim
  <2>2. CASE ~ (~ Within(o, l) \/ q <= 0)
    <3>1. Tracks(x0, ids, y) /\ y.orders = x.orders
      <4>1. Tracks(x0, ids, s.x) /\ s.x.orders = x.orders
        BY <1>7 DEF SweepClaim
      <4> HIDE DEF q, price, p, maker
      <4> QED
        BY <4>1, FillTracks
    <3>2. q \in Nat /\ q <= s.left /\ s.left \in Nat /\ s.filled \in Nat
      BY <1>3, <1>7, ShownIsNat DEF SweepClaim, Least
    <3>3. SweepStep(p, s, k) = [x |-> y, filled |-> s.filled + q, left |-> s.left - q]
      BY <2>2 DEF SweepStep, SweepLevel
    <3>4. s.filled + s.left = p.sum
      BY <1>7 DEF SweepClaim
    <3> HIDE DEF q, y, p, price
    <3>5. (s.filled + q) + (s.left - q) = p.sum /\ s.left - q \in Nat /\ s.filled + q \in Nat
      BY <3>2, <3>4
    <3> QED
      BY <3>1, <3>3, <3>5 DEF SweepClaim, p
  <2> QED
    BY <2>1, <2>2
<1>8. \A T \in SUBSET S : \A s : T # {} /\ SweepClaim(p, T \ {Highest(p, T)}, s)
                                   => SweepClaim(p, T, SweepStep(p, s, Highest(p, T)))
  BY <1>5, <1>7 DEF Sweeping!Picks
<1> HIDE DEF S, p, start
<1>9. SweepClaim(p, S, Sweeping!Loop(p, start, S))
  BY <1>3, <1>5, <1>6, <1>8, Sweeping!LoopKeeps DEF IsFiniteSet, Sweeping!IsFiniteSet
<1> QED
  BY <1>4, <1>9 DEF SweepClaim, p

-----------------------------------------------------------------------------
(* Orders that become effective                                             *)

\* What the levels of a book show in all.
TotalStep(p, n, k) == IF Within(p.o, p.levels[k]) THEN n + Shown(p.levels[k]) ELSE n
TotalClaim(p, T, n) == n \in Nat
Totalling == INSTANCE FoldFacts WITH Op <- TotalStep, Pick <- Highest, Holds <- TotalClaim

\* What the visible levels hold for an order is a natural number.
LEMMA AvailableIsNat ==
    ASSUME NEW o, NEW m, MarketOK(m)
    PROVE  Available(o, m) \in Nat
<1> DEFINE levels == Facing(o, m)
           p == [o |-> o, levels |-> levels]
           S == DOMAIN levels
<1>1. levels \in Seq(Levels)
  BY DEF Facing, MarketOK
<1>2. S \in SUBSET Int /\ IsFiniteSet(S) /\ \A k \in S : levels[k] \in Levels
  BY <1>1, Positions
<1>3. Available(o, m) = Totalling!Loop(p, 0, S)
  BY DEF Available, Totalling!Loop, TotalStep, Highest, FoldLeft, MapThenFoldSet,
         Totalling!MapThenFoldSet, Max
<1>4. Totalling!Picks(p, S)
  BY <1>2, HighestIsLast DEF Totalling!Picks, Highest
<1>5. ASSUME NEW k \in S, NEW n \in Nat
      PROVE  TotalStep(p, n, k) \in Nat
  BY <1>2, ShownIsNat DEF TotalStep
<1>6. \A T \in SUBSET S : \A n : T # {} /\ TotalClaim(p, T \ {Highest(p, T)}, n)
                                   => TotalClaim(p, T, TotalStep(p, n, Highest(p, T)))
  BY <1>4, <1>5 DEF Totalling!Picks, TotalClaim
<1> HIDE DEF S, p
<1>7. TotalClaim(p, S, Totalling!Loop(p, 0, S))
  <2>1. TotalClaim(p, {}, 0)
    BY DEF TotalClaim
  <2> QED
    BY <1>2, <1>4, <1>6, <2>1, Totalling!LoopKeeps DEF IsFiniteSet, Totalling!IsFiniteSet
<1> QED
  BY <1>3, <1>7 DEF TotalClaim

\* The queue an order joins is a natural number (_displayed_size).
LEMMA DisplayedIsNat ==
    ASSUME NEW o, NEW m, MarketOK(m)
    PROVE  DisplayedSize(m, o) \in Nat
<1> DEFINE levels == IF o.side = "buy" THEN m.bids ELSE m.asks
           at == {k \in DOMAIN levels : levels[k].price = o.limit}
<1>1. levels \in Seq(Levels)
  BY DEF MarketOK
<1>2. DOMAIN levels \in SUBSET Nat /\ \A k \in DOMAIN levels : levels[k] \in Levels
  BY <1>1
<1>3. ASSUME at # {} PROVE Min(at) \in at
  <2>1. \E k \in at : \A j \in at : k <= j
    BY <1>2, <1>3, Sweeping!LeastElement
  <2> QED
    BY <2>1 DEF Min
<1> QED
  BY <1>2, <1>3, ShownIsNat DEF DisplayedSize

\* An order that takes is filled or cancelled, never overfilled (_execute_taker).
LEMMA TakerTracks ==
    ASSUME NEW x0, NEW ids, NEW x, Tracks(x0, ids, x), NEW i \in ids, NEW m, MarketOK(m), NEW t,
           i \in DOMAIN x0.orders => x0.orders[i].state \notin Terminal
    PROVE  Tracks(x0, ids, ExecuteTaker(x, i, m, t))
<1> DEFINE o == x.orders[i]
           available == Available(o, m)
           target == IF Scenario.partial THEN Least(Remaining(o), available) ELSE Remaining(o)
           swept == Swept(x, i, m, t, target)
           none == target <= 0 \/ (~ Scenario.partial /\ available < Remaining(o))
           gone == [o EXCEPT !.state = "canceled"]
           done == [o EXCEPT !.filled = swept.filled,
                             !.state = IF swept.filled = o.quantity THEN "filled" ELSE "canceled"]
<1>1. o \in Orders /\ o.filled <= o.quantity
  BY DEF Tracks, OrdersOK
<1>2. available \in Nat
  BY AvailableIsNat
<1>3. o.filled \in Nat /\ Remaining(o) \in Nat /\ o.filled + Remaining(o) = o.quantity
      /\ o.quantity \in Nat
  BY <1>1 DEF Orders, Remaining
<1>4. ExecuteTaker(x, i, m, t) = IF none THEN Put(x, i, gone) ELSE Put(swept.x, i, done)
  BY DEF ExecuteTaker
<1>5. CASE none
  <2>1. gone \in Orders /\ gone.filled <= gone.quantity
    BY <1>1 DEF Orders, OrderStates, Terminal
  <2> HIDE DEF gone, none
  <2> QED
    BY <1>4, <1>5, <2>1, PutTracks
<1>6. CASE ~ none
  <2>1. target \in Nat /\ target <= Remaining(o)
    BY <1>2, <1>3, <1>6 DEF Least
  <2>2. /\ Tracks(x0, ids, swept.x)
        /\ swept.filled \in Nat /\ swept.left \in Nat /\ swept.filled + swept.left = o.filled + target
    <3> HIDE DEF target
    <3> QED
      BY <2>1, SweptTracks
  <2> HIDE DEF swept, target, none
  <2>3. swept.filled <= o.quantity
    BY <1>3, <2>1, <2>2
  <2>4. done \in Orders /\ done.filled <= done.quantity
    BY <1>1, <2>2, <2>3 DEF Orders, OrderStates, Terminal
  <2> HIDE DEF done
  <2> QED
    BY <1>4, <1>6, <2>2, <2>4, PutTracks
<1> QED
  BY <1>5, <1>6

\* Whatever kind of order becomes effective (_activate).
LEMMA ActivateTracks ==
    ASSUME NEW x0, NEW ids, NEW x, Tracks(x0, ids, x), NEW i \in ids, NEW m, MarketOK(m), NEW t,
           i \in DOMAIN x0.orders => x0.orders[i].state \notin Terminal
    PROVE  Tracks(x0, ids, Activate(x, i, m, t))
<1> DEFINE o == x.orders[i]
           With(s) == [o EXCEPT !.state = s]
           rests == [o EXCEPT !.state = "resting", !.queue = DisplayedSize(m, o)]
<1>1. o \in Orders /\ o.filled <= o.quantity
  BY DEF Tracks, OrdersOK
<1>2. \A s \in OrderStates : With(s) \in Orders /\ With(s).filled <= With(s).quantity
  BY <1>1 DEF Orders
<1>3. rests \in Orders /\ rests.filled <= rests.quantity
  BY <1>1, DisplayedIsNat DEF Orders, OrderStates
<1>4. \/ Activate(x, i, m, t) = ExecuteTaker(x, i, m, t)
      \/ Activate(x, i, m, t) = Put(x, i, With("rejected"))
      \/ Activate(x, i, m, t) = Put(x, i, With("canceled"))
      \/ Activate(x, i, m, t) = Put(x, i, rests)
  BY DEF Activate
<1>5. "rejected" \in OrderStates /\ "canceled" \in OrderStates
  BY DEF OrderStates, Terminal
<1> HIDE DEF With, rests
<1> QED
  BY <1>2, <1>3, <1>4, <1>5, TakerTracks, PutTracks

\* What the activation of the orders that are due keeps.
DueStep(p, y, i) == Activate(y, i, p.m, p.t)
DueClaim(p, T, y) == Tracks(p.x0, p.ids, y)
Activating == INSTANCE FoldFacts WITH Op <- DueStep, Pick <- Highest, Holds <- DueClaim

\* The orders that become effective, in the order of their numbers.
LEMMA ActivateDueTracks ==
    ASSUME NEW x0, NEW ids \in SUBSET Int, IsFiniteSet(ids), NEW x, Tracks(x0, ids, x),
           NEW m, MarketOK(m), NEW t
    PROVE  Tracks(x0, ids, ActivateDue(x, m, t))
<1> DEFINE p == [x0 |-> x0, ids |-> ids, m |-> m, t |-> t]
           S == DueOrders(x, t)
<1>1. \A i \in S : i \in ids /\ (i \in DOMAIN x0.orders => x0.orders[i].state \notin Terminal)
  BY OpenWasOpen DEF DueOrders
<1>2. S \in SUBSET Int /\ IsFiniteSet(S)
  BY <1>1, FS_Subset
<1>3. ActivateDue(x, m, t) = Activating!Loop(p, x, S)
  BY DEF ActivateDue, Activating!Loop, DueStep, Highest, MapThenFoldSet,
         Activating!MapThenFoldSet, Max
<1>4. Activating!Picks(p, S)
  BY <1>2, HighestIsLast DEF Activating!Picks, Highest
<1>5. ASSUME NEW i \in S, NEW y, Tracks(x0, ids, y)
      PROVE  Tracks(x0, ids, DueStep(p, y, i))
  BY <1>1, <1>5, ActivateTracks DEF DueStep
<1>6. \A T \in SUBSET S : \A y : T # {} /\ DueClaim(p, T \ {Highest(p, T)}, y)
                                   => DueClaim(p, T, DueStep(p, y, Highest(p, T)))
  BY <1>4, <1>5 DEF Activating!Picks, DueClaim
<1>7. DueClaim(p, {}, x)
  BY DEF DueClaim
<1> HIDE DEF S, p
<1>8. DueClaim(p, S, Activating!Loop(p, x, S))
  BY <1>2, <1>4, <1>6, <1>7, Activating!LoopKeeps DEF IsFiniteSet, Activating!IsFiniteSet
<1> QED
  BY <1>3, <1>8 DEF DueClaim, p

-----------------------------------------------------------------------------
(* Trades that reach resting orders                                         *)

\* One order and what is left of a trade: the fill is at most what remains of
\* the order (_match_trade).
LEMMA MatchTracks ==
    ASSUME NEW x0, NEW ids, NEW s, Tracks(x0, ids, s.x), s.left \in Int, NEW i \in ids, NEW t,
           i \in DOMAIN x0.orders => x0.orders[i].state \notin Terminal
    PROVE  LET r == MatchOrder(s, i, t) IN Tracks(x0, ids, r.x) /\ r.left \in Int
<1> DEFINE o == s.x.orders[i]
           eaten == Least(o.queue, s.left)
           rest == s.left - eaten
           q == Least(Remaining(o), rest)
           filled == o.filled + q
           queued == [o EXCEPT !.queue = @ - eaten]
           maker == TRUE
           y == Fill(s.x, i, o.filled, q, o.limit, maker, t)
           done == [queued EXCEPT !.filled = filled,
                            !.state = IF filled = o.quantity THEN "filled"
                                      ELSE IF @ = "pending_cancel" THEN @
                                      ELSE "partially_filled",
                            !.cancelAt = IF filled = o.quantity \/ o.state # "pending_cancel"
                                         THEN Never ELSE @]
           r == MatchOrder(s, i, t)
<1>1. o \in Orders /\ o.filled <= o.quantity
  BY DEF Tracks, OrdersOK
<1>2. CASE s.left <= 0
  BY <1>2 DEF MatchOrder
<1>3. CASE s.left > 0
  <2>1. eaten \in Nat /\ eaten <= o.queue /\ rest \in Nat
    BY <1>1, <1>3 DEF Orders, Least
  <2>2. queued \in Orders /\ queued.filled = o.filled /\ queued.quantity = o.quantity
        /\ queued.state = o.state /\ queued.cancelAt = o.cancelAt
    <3> HIDE DEF eaten
    <3>1. o.queue - eaten \in Nat
      BY <1>1, <2>1 DEF Orders
    <3> QED
      BY <1>1, <3>1 DEF Orders
  <2> HIDE DEF eaten
  <2>3. CASE rest <= 0
    <3>1. r = [x |-> Put(s.x, i, queued), left |-> rest]
      BY <1>3, <2>3 DEF MatchOrder, eaten
    <3> HIDE DEF queued, rest
    <3> QED
      BY <1>1, <2>1, <2>2, <3>1, PutTracks
  <2>4. CASE rest > 0 /\ ~ Scenario.partial /\ q < Remaining(o)
    <3>1. r = [s EXCEPT !.left = rest]
      BY <1>3, <2>1, <2>4 DEF MatchOrder, eaten
    <3>2. r.x = s.x /\ (r.left = rest \/ r.left = s.left)
      BY <3>1
    <3> QED
      BY <2>1, <3>2
  <2>5. CASE rest > 0 /\ ~ (~ Scenario.partial /\ q < Remaining(o))
    <3>1. r = [x |-> Put(y, i, done), left |-> rest - q]
      BY <1>3, <2>1, <2>5 DEF MatchOrder, eaten
    <3>2. q \in Nat /\ filled \in Nat /\ filled <= o.quantity /\ rest - q \in Int
      BY <1>1, <2>1, <2>5 DEF Orders, Remaining, Least
    <3>3. done \in Orders /\ done.filled <= done.quantity
      <4> HIDE DEF q, filled, queued
      <4> QED
        BY <1>1, <2>2, <3>2 DEF Orders, OrderStates, Terminal, Never
    <3>4. Tracks(x0, ids, y)
      <4> HIDE DEF q, maker
      <4> QED
        BY FillTracks
    <3> HIDE DEF y, done, q, rest
    <3> QED
      BY <3>1, <3>2, <3>3, <3>4, PutTracks
  <2> QED
    BY <2>1, <2>3, <2>4, <2>5
<1> QED
  BY <1>2, <1>3

\* What one trade keeps, over the orders it reaches.
TradeStep(p, s, i) == MatchOrder(s, i, p.t)
TradeClaim(p, T, s) == Tracks(p.x0, p.ids, s.x) /\ s.left \in Int
YoungestOf(p, T) == Youngest(p.x, T)
Matching == INSTANCE FoldFacts WITH Op <- TradeStep, Pick <- YoungestOf, Holds <- TradeClaim

\* The next order of a trade is one of those that it reaches.
LEMMA YoungestIsOne ==
    ASSUME NEW ids \in SUBSET Int, IsFiniteSet(ids), NEW x, OrdersOK(ids, x),
           NEW T \in SUBSET ids, T # {}
    PROVE  Youngest(x, T) \in T
<1> DEFINE at(i) == x.orders[i].effective
           times == {at(i) : i \in T}
           last == {i \in T : \A j \in T : at(j) <= at(i)}
<1>1. \A i \in T : at(i) \in Nat
  BY DEF OrdersOK, Orders
<1>2. IsFiniteSet(T)
  BY FS_Subset
<1>3. IsFiniteSet(times) /\ times \in SUBSET Int /\ times # {}
  <2>1. IsFiniteSet(times)
    <3> DEFINE f == [i \in T |-> at(i)]
    <3>1. f \in Surjection(T, times)
      BY DEF Surjection
    <3> QED
      BY <1>2, <3>1, FS_Surjection
  <2> QED
    BY <1>1, <2>1
<1>4. PICK n \in times : \A k \in times : k <= n
  BY <1>3, HighestIsLast
<1>5. last # {}
  BY <1>4
<1>6. Max(last) \in last
  BY <1>5, HighestIsLast
<1> QED
  BY <1>6 DEF Youngest

\* A trade against every order it reaches (_match_trade).
LEMMA MatchTradeTracks ==
    ASSUME NEW x0, NEW ids \in SUBSET Int, IsFiniteSet(ids), NEW x, Tracks(x0, ids, x),
           NEW trade \in Trades, NEW t
    PROVE  Tracks(x0, ids, MatchTrade(x, trade, t))
<1> DEFINE p == [x0 |-> x0, ids |-> ids, x |-> x, t |-> t]
           start == [x |-> x, left |-> (trade.size * Scenario.flow) \div 100]
           S == Candidates(x, trade)
<1>1. \A i \in S : i \in ids /\ (i \in DOMAIN x0.orders => x0.orders[i].state \notin Terminal)
  BY OpenWasOpen DEF Candidates
<1>2. S \in SUBSET ids /\ IsFiniteSet(S)
  BY <1>1, FS_Subset
<1>3. MatchTrade(x, trade, t) = Matching!Loop(p, start, S).x
  BY DEF MatchTrade, Matching!Loop, TradeStep, YoungestOf, MapThenFoldSet,
         Matching!MapThenFoldSet
<1>4. Matching!Picks(p, S)
  <2>1. OrdersOK(ids, x)
    BY DEF Tracks
  <2> QED
    BY <1>2, <2>1, YoungestIsOne DEF Matching!Picks, YoungestOf
<1>5. ASSUME NEW i \in S, NEW s, Tracks(x0, ids, s.x), s.left \in Int
      PROVE  Tracks(x0, ids, TradeStep(p, s, i).x) /\ TradeStep(p, s, i).left \in Int
  BY <1>1, <1>5, MatchTracks DEF TradeStep
<1>6. \A T \in SUBSET S : \A s : T # {} /\ TradeClaim(p, T \ {YoungestOf(p, T)}, s)
                                   => TradeClaim(p, T, TradeStep(p, s, YoungestOf(p, T)))
  <2> HIDE DEF S
  <2> QED
    BY <1>4, <1>5 DEF Matching!Picks, TradeClaim
<1>7. TradeClaim(p, {}, start)
  <2>1. (trade.size * Scenario.flow) \div 100 \in Nat
    BY Shares, Latencies DEF Trades
  <2> QED
    BY <2>1 DEF TradeClaim
<1> HIDE DEF S, p, start
<1>8. TradeClaim(p, S, Matching!Loop(p, start, S))
  BY <1>2, <1>4, <1>6, <1>7, Matching!LoopKeeps DEF IsFiniteSet, Matching!IsFiniteSet
<1> QED
  BY <1>3, <1>8 DEF TradeClaim, p

-----------------------------------------------------------------------------
(* A market state                                                           *)

\* What the trades of a market state keep, one after another.
TapeStep(p, y, k) == MatchTrade(y, p.m.trades[k], p.m.observed)
TapeClaim(p, T, y) == Tracks(p.x0, p.ids, y)
Trading == INSTANCE FoldFacts WITH Op <- TapeStep, Pick <- Highest, Holds <- TapeClaim

\* The trades of a market state, one after another (advance).
LEMMA MatchAllTracks ==
    ASSUME NEW x0, NEW ids \in SUBSET Int, IsFiniteSet(ids), NEW x, Tracks(x0, ids, x),
           NEW m, MarketOK(m)
    PROVE  Tracks(x0, ids, MatchAll(x, m))
<1> DEFINE p == [x0 |-> x0, ids |-> ids, m |-> m]
           S == DOMAIN m.trades
<1>1. S \in SUBSET Int /\ IsFiniteSet(S) /\ \A k \in S : m.trades[k] \in Trades
  BY Positions DEF MarketOK
<1>2. MatchAll(x, m) = Trading!Loop(p, x, S)
  BY DEF MatchAll, Trading!Loop, TapeStep, Highest, FoldLeft, MapThenFoldSet,
         Trading!MapThenFoldSet, Max
<1>3. Trading!Picks(p, S)
  BY <1>1, HighestIsLast DEF Trading!Picks, Highest
<1>4. ASSUME NEW k \in S, NEW y, Tracks(x0, ids, y)
      PROVE  Tracks(x0, ids, TapeStep(p, y, k))
  BY <1>1, <1>4, MatchTradeTracks DEF TapeStep
<1>5. \A T \in SUBSET S : \A y : T # {} /\ TapeClaim(p, T \ {Highest(p, T)}, y)
                                   => TapeClaim(p, T, TapeStep(p, y, Highest(p, T)))
  BY <1>3, <1>4 DEF Trading!Picks, TapeClaim
<1>6. TapeClaim(p, {}, x)
  BY DEF TapeClaim
<1> HIDE DEF S, p
<1>7. TapeClaim(p, S, Trading!Loop(p, x, S))
  BY <1>1, <1>3, <1>5, <1>6, Trading!LoopKeeps DEF IsFiniteSet, Trading!IsFiniteSet
<1> QED
  BY <1>2, <1>7 DEF TapeClaim, p

\* An exchange that was emptied of what it reported tracks the one it was.
LEMMA AdvanceTracks ==
    ASSUME NEW ids \in SUBSET Int, IsFiniteSet(ids), NEW x, OrdersOK(ids, x),
           NEW m, MarketOK(m), NEW mark
    PROVE  Tracks(x, ids, Advance(x, m, mark))
<1> DEFINE t == m.observed
           x1 == Mark(Fresh(x), mark, t)
           x2 == Elapse(x1, t)
           x3 == ActivateDue(x2, m, t)
           x4 == MatchAll(x3, m)
<1>1. Tracks(x, ids, Fresh(x))
  BY FreshTracks
<1>2. Tracks(x, ids, x1)
  BY <1>1, MarkTracks
<1>3. Tracks(x, ids, x2)
  BY <1>2, ElapseTracks
<1>4. Tracks(x, ids, x3)
  BY <1>3, ActivateDueTracks
<1>5. Tracks(x, ids, x4)
  BY <1>4, MatchAllTracks
<1>6. Advance(x, m, mark) = Mark(x4, mark, t)
  BY DEF Advance
<1> HIDE DEF x4
<1> QED
  BY <1>5, <1>6, MarkTracks

\* activate_pending of the watchdog: the same without the trades.
LEMMA ActivatePendingTracks ==
    ASSUME NEW ids \in SUBSET Int, IsFiniteSet(ids), NEW x, OrdersOK(ids, x),
           NEW m, MarketOK(m), NEW t
    PROVE  Tracks(x, ids, ActivatePending(x, m, t))
<1> DEFINE x1 == Mark(Fresh(x), Mid(m), t)
           x2 == Elapse(x1, t)
           x3 == ActivateDue(x2, m, t)
<1>1. Tracks(x, ids, x1)
  BY FreshTracks, MarkTracks
<1>2. Tracks(x, ids, x2)
  BY <1>1, ElapseTracks
<1>3. Tracks(x, ids, x3)
  BY <1>2, ActivateDueTracks
<1>4. ActivatePending(x, m, t) = Mark(x3, Mid(m), t)
  BY DEF ActivatePending
<1> HIDE DEF x3
<1> QED
  BY <1>3, <1>4, MarkTracks

-----------------------------------------------------------------------------
(* What the assembler makes of the tape                                     *)

\* A subsequence has the elements of its positions, in their order.
KeepStep(p, r, k) == Append(r, p.s[k])
KeepClaim(p, T, r) == /\ r \in Seq(p.S)
                      /\ \A j \in DOMAIN r : \E k \in T : r[j] = p.s[k]
                      /\ \A k \in T : \E j \in DOMAIN r : r[j] = p.s[k]
                      /\ Falling(p.s) => Falling(r)
                      /\ Rising(p.s) => Rising(r)
Keeping == INSTANCE FoldFacts WITH Op <- KeepStep, Pick <- Highest, Holds <- KeepClaim

\* Selecting positions keeps the elements and their order: a book stays sorted
\* (_expire_stale_trades and the levels behind a quote of paper/market.py).
LEMMA KeptIsSubsequence ==
    ASSUME NEW S, NEW s \in Seq(S), \A k \in DOMAIN s : s[k].price \in Nat,
           NEW K \in SUBSET DOMAIN s
    PROVE  LET r == Kept(s, K)
           IN  /\ r \in Seq(S)
               /\ \A j \in DOMAIN r : \E k \in K : r[j] = s[k]
               /\ \A k \in K : \E j \in DOMAIN r : r[j] = s[k]
               /\ Falling(s) => Falling(r)
               /\ Rising(s) => Rising(r)
<1> DEFINE p == [s |-> s, S |-> S]
<1>1. K \in SUBSET Int /\ IsFiniteSet(K) /\ \A k \in K : s[k] \in S
  BY Positions, FS_Subset
<1>2. Kept(s, K) = Keeping!Loop(p, <<>>, K)
  BY DEF Kept, Keeping!Loop, KeepStep, Highest, MapThenFoldSet, Keeping!MapThenFoldSet, Max
<1>3. Keeping!Picks(p, K)
  BY <1>1, HighestIsLast DEF Keeping!Picks, Highest
<1>4. KeepClaim(p, {}, <<>>)
  BY DEF KeepClaim, Falling, Rising
<1>5. ASSUME NEW T \in SUBSET K, T # {}, NEW r, KeepClaim(p, T \ {Max(T)}, r)
      PROVE  KeepClaim(p, T, Append(r, s[Max(T)]))
  <2> DEFINE last == Max(T)
             n == Len(r)
             w == Append(r, s[last])
  <2>1. last \in T /\ \A k \in T : k <= last
    BY <1>1, <1>5, HighestIsLast
  <2>2. r \in Seq(S) /\ s[last] \in S
    BY <1>1, <1>5, <2>1 DEF KeepClaim
  <2>3. /\ w \in Seq(S) /\ DOMAIN w = 1 .. n + 1 /\ DOMAIN r = 1 .. n /\ n \in Nat
        /\ w[n + 1] = s[last] /\ \A j \in 1 .. n : w[j] = r[j]
    BY <2>2
  <2> HIDE DEF w, n
  <2>4. \A j \in 1 .. n : \E k \in T \ {last} : r[j] = s[k]
    BY <1>5, <2>3 DEF KeepClaim
  <2>5. \A j \in 1 .. n : \E k \in T : k < last /\ w[j] = s[k]
    BY <1>1, <2>1, <2>3, <2>4
  <2>6. \A j \in DOMAIN w : \E k \in T : w[j] = s[k]
    BY <2>1, <2>3, <2>5
  <2>7. \A k \in T : \E j \in DOMAIN w : w[j] = s[k]
    <3>1. \A k \in T \ {last} : \E j \in 1 .. n : r[j] = s[k]
      BY <1>5, <2>3 DEF KeepClaim
    <3>2. ASSUME NEW k \in T PROVE \E j \in DOMAIN w : w[j] = s[k]
      <4>1. CASE k = last
        BY <2>3, <4>1
      <4>2. CASE k # last
        BY <2>3, <3>1, <4>2
      <4> QED
        BY <4>1, <4>2
    <3> QED
      BY <3>2
  <2>8. ASSUME Falling(s) PROVE Falling(w)
    <3>1. Falling(r)
      BY <1>5, <2>8 DEF KeepClaim
    <3>2. \A j \in 1 .. n : w[j].price > w[n + 1].price
      BY <1>1, <2>1, <2>3, <2>5, <2>8 DEF Falling
    <3> QED
      BY <2>3, <3>1, <3>2 DEF Falling
  <2>9. ASSUME Rising(s) PROVE Rising(w)
    <3>1. Rising(r)
      BY <1>5, <2>9 DEF KeepClaim
    <3>2. \A j \in 1 .. n : w[j].price < w[n + 1].price
      BY <1>1, <2>1, <2>3, <2>5, <2>9 DEF Rising
    <3> QED
      BY <2>3, <3>1, <3>2 DEF Rising
  <2> QED
    BY <2>3, <2>6, <2>7, <2>8, <2>9 DEF KeepClaim, w
<1>6. \A T \in SUBSET K : \A r : T # {} /\ KeepClaim(p, T \ {Highest(p, T)}, r)
                                   => KeepClaim(p, T, KeepStep(p, r, Highest(p, T)))
  BY <1>5 DEF Highest, KeepStep
<1> HIDE DEF p
<1>7. KeepClaim(p, K, Keeping!Loop(p, <<>>, K))
  BY <1>1, <1>3, <1>4, <1>6, Keeping!LoopKeeps DEF IsFiniteSet, Keeping!IsFiniteSet
<1> QED
  BY <1>2, <1>7 DEF KeepClaim, p

\* The latest of the exchange's times.
LatestStep(p, n, k) == IF p.trades[k].event > n THEN p.trades[k].event ELSE n
LatestClaim(p, T, n) == /\ n \in Nat /\ p.event <= n /\ n <= p.limit
                        /\ \A k \in T : p.trades[k].event <= n
Latest == INSTANCE FoldFacts WITH Op <- LatestStep, Pick <- Highest, Holds <- LatestClaim

\* The time of a state is not before any of its events, and not later than all
\* of them (_state).
LEMMA LatestIsBound ==
    ASSUME NEW trades \in Seq(TradeFrames), NEW event \in Nat, NEW limit \in Nat, event <= limit,
           \A k \in DOMAIN trades : trades[k].event <= limit
    PROVE  LET n == LatestEvent(trades, event)
           IN  /\ n \in Nat /\ event <= n /\ n <= limit
               /\ \A k \in DOMAIN trades : trades[k].event <= n
<1> DEFINE p == [trades |-> trades, event |-> event, limit |-> limit]
           S == DOMAIN trades
<1>1. S \in SUBSET Int /\ IsFiniteSet(S) /\ \A k \in S : trades[k].event \in Nat
  <2>1. \A k \in S : trades[k] \in TradeFrames
    BY Positions
  <2> QED
    BY <2>1, Positions DEF TradeFrames
<1>2. LatestEvent(trades, event) = Latest!Loop(p, event, S)
  BY DEF LatestEvent, Latest!Loop, LatestStep, Highest, FoldLeft, MapThenFoldSet, Latest!MapThenFoldSet, Max
<1>3. Latest!Picks(p, S)
  BY <1>1, HighestIsLast DEF Latest!Picks, Highest
<1>4. LatestClaim(p, {}, event)
  BY DEF LatestClaim
<1>5. ASSUME NEW T \in SUBSET S, NEW k \in T, NEW n, LatestClaim(p, T \ {k}, n)
      PROVE  LatestClaim(p, T, LatestStep(p, n, k))
  <2>1. trades[k].event \in Nat /\ trades[k].event <= limit
    BY <1>1
  <2>2. n \in Nat /\ event <= n /\ n <= limit /\ \A j \in T \ {k} : trades[j].event <= n
    BY <1>5 DEF LatestClaim
  <2>3. LatestStep(p, n, k) = IF trades[k].event > n THEN trades[k].event ELSE n
    BY DEF LatestStep
  <2>4. \A j \in T : trades[j].event \in Nat
    BY <1>1
  <2> QED
    BY <2>1, <2>2, <2>3, <2>4 DEF LatestClaim
<1>6. \A T \in SUBSET S : \A n : T # {} /\ LatestClaim(p, T \ {Highest(p, T)}, n)
                                   => LatestClaim(p, T, LatestStep(p, n, Highest(p, T)))
  BY <1>3, <1>5 DEF Latest!Picks
<1> HIDE DEF S, p
<1>7. LatestClaim(p, S, Latest!Loop(p, event, S))
  BY <1>1, <1>3, <1>4, <1>6, Latest!LoopKeeps DEF IsFiniteSet, Latest!IsFiniteSet
<1> QED
  BY <1>2, <1>7 DEF LatestClaim, p, S

\* What the assembler remembers when the last event was received at t.
AssemblerOK(a, t) ==
    /\ DOMAIN a = {"trades", "sequence", "lastState", "lastBook", "depth"}
    /\ a.trades \in Seq(TradeFrames)
    /\ \A k \in DOMAIN a.trades : a.trades[k].event <= a.trades[k].receive /\ a.trades[k].receive <= t
    /\ a.depth # NoDepth => /\ a.depth.event \in Nat
                            /\ a.depth.bids \in Seq(Levels) /\ a.depth.asks \in Seq(Levels)
                            /\ Uncrossed(a.depth.bids, a.depth.asks)

\* The first levels of a sorted side are sorted.
LEMMA FirstLevelsOK ==
    ASSUME NEW s \in Seq(Levels), NEW n \in Nat
    PROVE  LET r == FirstLevels(s, n)
           IN  /\ r \in Seq(Levels)
               /\ \A j \in DOMAIN r : j \in DOMAIN s /\ r[j] = s[j]
               /\ Falling(s) => Falling(r)
               /\ Rising(s) => Rising(r)
               /\ n > 0 /\ s # <<>> => r # <<>> /\ r[1] = s[1]
<1> DEFINE m == IF Len(s) < n THEN Len(s) ELSE n
           r == SubSeq(s, 1, m)
<1>1. m \in 0 .. Len(s)
  OBVIOUS
<1>2. n > 0 /\ s # <<>> => m > 0
  OBVIOUS
<1> HIDE DEF m
<1>3. r \in Seq(Levels) /\ DOMAIN r = 1 .. m /\ DOMAIN s = 1 .. Len(s)
      /\ \A j \in 1 .. m : r[j] = s[j]
  BY <1>1
<1>4. FirstLevels(s, n) = r
  BY DEF FirstLevels, m
<1> HIDE DEF r
<1>5. \A j \in DOMAIN r : j \in DOMAIN s /\ r[j] = s[j]
  BY <1>1, <1>3
<1>6. (Falling(s) => Falling(r)) /\ (Rising(s) => Rising(r))
  BY <1>5 DEF Falling, Rising
<1>7. m > 0 => r # <<>> /\ r[1] = s[1]
  BY <1>1, <1>3
<1> QED
  BY <1>2, <1>3, <1>4, <1>5, <1>6, <1>7

\* A side that begins with the level of a quote has that level at its top.
LEMMA Prefixed ==
    ASSUME NEW best \in Seq(Levels), Len(best) = 1, NEW some \in Seq(Levels)
    PROVE  LET s == best \o some
           IN  /\ s \in Seq(Levels) /\ s # <<>> /\ s[1] = best[1] /\ DOMAIN s = 1 .. 1 + Len(some)
               /\ DOMAIN some = 1 .. Len(some) /\ Len(some) \in Nat
               /\ \A j \in 1 .. Len(some) : s[1 + j] = some[j]
<1> DEFINE s == best \o some
<1>1. s \in Seq(Levels)
  OBVIOUS
<1>2. Len(s) = 1 + Len(some) /\ Len(some) \in Nat
  BY ConcatProperties, LenProperties
<1> HIDE DEF s
<1>3. \A j \in 1 .. Len(s) : s[j] = IF j <= Len(best) THEN best[j] ELSE some[j - Len(best)]
  BY ConcatProperties DEF s
<1>4. s[1] = best[1] /\ \A j \in 1 .. Len(some) : s[1 + j] = some[j]
  BY <1>2, <1>3
<1>5. DOMAIN s = 1 .. 1 + Len(some) /\ DOMAIN some = 1 .. Len(some)
  BY <1>1, <1>2
<1>6. s # <<>>
  BY <1>2
<1> QED
  BY <1>1, <1>2, <1>3, <1>4, <1>5, <1>6 DEF s

\* The quoted bid above the lower bids of an older book is a sorted side
\* (_state_from_bbo).
LEMMA LowerLevels ==
    ASSUME NEW best \in Seq(Levels), Len(best) = 1, NEW deep \in Seq(Levels), Falling(deep),
           NEW n \in Nat
    PROVE  LET s == best \o FirstLevels(Below(deep, best[1].price), n)
           IN  s \in Seq(Levels) /\ s # <<>> /\ s[1] = best[1] /\ Falling(s)
<1> DEFINE K == {k \in DOMAIN deep : deep[k].price < best[1].price}
           behind == Kept(deep, K)
           some == FirstLevels(behind, n)
           s == best \o some
<1>1. \A k \in DOMAIN deep : deep[k].price \in Nat
  <2>1. \A k \in DOMAIN deep : deep[k] \in Levels
    BY Positions
  <2> QED
    BY <2>1 DEF Levels
<1>2. behind \in Seq(Levels) /\ Falling(behind)
      /\ \A j \in DOMAIN behind : \E k \in K : behind[j] = deep[k]
  <2>1. K \in SUBSET DOMAIN deep
    OBVIOUS
  <2> HIDE DEF K
  <2> QED
    BY <1>1, <2>1, KeptIsSubsequence
<1>3. \A j \in DOMAIN behind : behind[j].price < best[1].price
  BY <1>2
<1>4. Below(deep, best[1].price) = behind
  BY DEF Below
<1> HIDE DEF behind
<1>5. some \in Seq(Levels) /\ Falling(some) /\ \A j \in DOMAIN some : some[j].price < best[1].price
  BY <1>2, <1>3, FirstLevelsOK
<1> HIDE DEF some
<1>6. /\ s \in Seq(Levels) /\ s # <<>> /\ s[1] = best[1] /\ DOMAIN s = 1 .. 1 + Len(some)
      /\ DOMAIN some = 1 .. Len(some) /\ Len(some) \in Nat
      /\ \A j \in 1 .. Len(some) : s[1 + j] = some[j]
  BY <1>5, Prefixed
<1> HIDE DEF s
<1>7. \A j \in DOMAIN s : j > 1 => j - 1 \in DOMAIN some /\ s[j] = some[j - 1]
  BY <1>6
<1>8. Falling(s)
  <2>1. ASSUME NEW j \in DOMAIN s, NEW k \in DOMAIN s, j < k
        PROVE  s[j].price > s[k].price
    <3>1. k > 1 /\ k - 1 \in DOMAIN some /\ s[k] = some[k - 1]
      BY <1>6, <1>7, <2>1
    <3>2. CASE j = 1
      <4>1. s[k].price < best[1].price
        BY <1>5, <3>1
      <4>2. s[k] \in Levels /\ best[1] \in Levels
        BY <1>6, Positions
      <4> QED
        BY <1>6, <3>2, <4>1, <4>2 DEF Levels
    <3>3. CASE j # 1
      <4>1. j - 1 \in DOMAIN some /\ s[j] = some[j - 1] /\ j - 1 < k - 1
        BY <1>6, <1>7, <2>1, <3>3
      <4> QED
        BY <1>5, <3>1, <4>1 DEF Falling
    <3> QED
      BY <3>2, <3>3
  <2> QED
    BY <2>1 DEF Falling
<1> QED
  BY <1>4, <1>6, <1>8 DEF s, some

\* The quoted ask below the higher asks of an older book is a sorted side
\* (_state_from_bbo).
LEMMA UpperLevels ==
    ASSUME NEW best \in Seq(Levels), Len(best) = 1, NEW deep \in Seq(Levels), Rising(deep),
           NEW n \in Nat
    PROVE  LET s == best \o FirstLevels(Above(deep, best[1].price), n)
           IN  s \in Seq(Levels) /\ s # <<>> /\ s[1] = best[1] /\ Rising(s)
<1> DEFINE K == {k \in DOMAIN deep : deep[k].price > best[1].price}
           behind == Kept(deep, K)
           some == FirstLevels(behind, n)
           s == best \o some
<1>1. \A k \in DOMAIN deep : deep[k].price \in Nat
  <2>1. \A k \in DOMAIN deep : deep[k] \in Levels
    BY Positions
  <2> QED
    BY <2>1 DEF Levels
<1>2. behind \in Seq(Levels) /\ Rising(behind)
      /\ \A j \in DOMAIN behind : \E k \in K : behind[j] = deep[k]
  <2>1. K \in SUBSET DOMAIN deep
    OBVIOUS
  <2> HIDE DEF K
  <2> QED
    BY <1>1, <2>1, KeptIsSubsequence
<1>3. \A j \in DOMAIN behind : behind[j].price > best[1].price
  BY <1>2
<1>4. Above(deep, best[1].price) = behind
  BY DEF Above
<1> HIDE DEF behind
<1>5. some \in Seq(Levels) /\ Rising(some) /\ \A j \in DOMAIN some : some[j].price > best[1].price
  BY <1>2, <1>3, FirstLevelsOK
<1> HIDE DEF some
<1>6. /\ s \in Seq(Levels) /\ s # <<>> /\ s[1] = best[1] /\ DOMAIN s = 1 .. 1 + Len(some)
      /\ DOMAIN some = 1 .. Len(some) /\ Len(some) \in Nat
      /\ \A j \in 1 .. Len(some) : s[1 + j] = some[j]
  BY <1>5, Prefixed
<1> HIDE DEF s
<1>7. \A j \in DOMAIN s : j > 1 => j - 1 \in DOMAIN some /\ s[j] = some[j - 1]
  BY <1>6
<1>8. Rising(s)
  <2>1. ASSUME NEW j \in DOMAIN s, NEW k \in DOMAIN s, j < k
        PROVE  s[j].price < s[k].price
    <3>1. k > 1 /\ k - 1 \in DOMAIN some /\ s[k] = some[k - 1]
      BY <1>6, <1>7, <2>1
    <3>2. CASE j = 1
      <4>1. s[k].price > best[1].price
        BY <1>5, <3>1
      <4>2. s[k] \in Levels /\ best[1] \in Levels
        BY <1>6, Positions
      <4> QED
        BY <1>6, <3>2, <4>1, <4>2 DEF Levels
    <3>3. CASE j # 1
      <4>1. j - 1 \in DOMAIN some /\ s[j] = some[j - 1] /\ j - 1 < k - 1
        BY <1>6, <1>7, <2>1, <3>3
      <4> QED
        BY <1>5, <3>1, <4>1 DEF Rising
    <3> QED
      BY <3>2, <3>3
  <2> QED
    BY <2>1 DEF Rising
<1> QED
  BY <1>4, <1>6, <1>8 DEF s, some

\* The book of a state is sorted and not crossed, also when a quote is completed
\* with the depth of an older book (_state_from_l2 and _state_from_bbo).
LEMMA BookOK ==
    ASSUME NEW a, NEW t, AssemblerOK(a, t), NEW e \in BookFrames, Validated(e)
    PROVE  LET b == Book(a, e)
           IN  /\ b.event \in Nat /\ b.event <= e.event
               /\ b.bids \in Seq(Levels) /\ b.asks \in Seq(Levels) /\ Uncrossed(b.bids, b.asks)
<1> USE DEF BookFrames
<1>1. /\ e.bids \in Seq(Levels) /\ e.asks \in Seq(Levels) /\ Uncrossed(e.bids, e.asks)
      /\ e.event \in Nat
      /\ e.kind = "bbo" => Len(e.bids) = 1 /\ Len(e.asks) = 1
  BY DEF Validated
<1>2. DepthLevels \in Nat /\ DepthLevels > 0 /\ DepthLevels - 1 \in Nat
  BY MarketAssumption
<1>3. CASE e.kind = "l2"
  <2> DEFINE bids == FirstLevels(e.bids, DepthLevels)
             asks == FirstLevels(e.asks, DepthLevels)
  <2>1. Book(a, e) = [event |-> e.event, bids |-> bids, asks |-> asks]
    BY <1>3 DEF Book
  <2>2. /\ bids \in Seq(Levels) /\ asks \in Seq(Levels) /\ Falling(bids) /\ Rising(asks)
        /\ bids # <<>> /\ asks # <<>> /\ bids[1] = e.bids[1] /\ asks[1] = e.asks[1]
    BY <1>1, <1>2, FirstLevelsOK DEF Uncrossed
  <2> HIDE DEF bids, asks
  <2> QED
    BY <1>1, <2>1, <2>2 DEF Uncrossed
<1>4. CASE e.kind # "l2" /\ DepthUsable(a, e)
  <2> DEFINE d == a.depth
             bids == e.bids \o FirstLevels(Below(d.bids, e.bids[1].price), DepthLevels - 1)
             asks == e.asks \o FirstLevels(Above(d.asks, e.asks[1].price), DepthLevels - 1)
  <2>1. Book(a, e) = [event |-> d.event, bids |-> bids, asks |-> asks]
    BY <1>4 DEF Book
  <2>2. /\ d.event \in Nat /\ d.event <= e.event
        /\ d.bids \in Seq(Levels) /\ d.asks \in Seq(Levels)
        /\ Falling(d.bids) /\ Rising(d.asks)
    BY <1>4 DEF AssemblerOK, DepthUsable, Uncrossed
  <2>3. Len(e.bids) = 1 /\ Len(e.asks) = 1
    BY <1>1, <1>4
  <2> HIDE DEF d
  <2>4. bids \in Seq(Levels) /\ bids # <<>> /\ bids[1] = e.bids[1] /\ Falling(bids)
    BY <1>1, <1>2, <2>2, <2>3, LowerLevels
  <2>5. asks \in Seq(Levels) /\ asks # <<>> /\ asks[1] = e.asks[1] /\ Rising(asks)
    BY <1>1, <1>2, <2>2, <2>3, UpperLevels
  <2> HIDE DEF bids, asks
  <2> QED
    BY <1>1, <2>1, <2>2, <2>4, <2>5 DEF Uncrossed
<1>5. CASE e.kind # "l2" /\ ~ DepthUsable(a, e)
  BY <1>1, <1>5 DEF Book
<1> QED
  BY <1>3, <1>4, <1>5

\* What is older than the input age is dropped, the order kept.
LEMMA ExpireKeeps ==
    ASSUME NEW trades \in Seq(TradeFrames), NEW t, NEW t2
    PROVE  /\ Expire(trades, t) \in Seq(TradeFrames)
           /\ \A j \in DOMAIN Expire(trades, t) : \E k \in DOMAIN trades :
                 Expire(trades, t)[j] = trades[k]
<1> DEFINE K == {k \in DOMAIN trades : trades[k].event >= t - MaxInputAge}
<1>1. K \in SUBSET DOMAIN trades /\ Expire(trades, t) = Kept(trades, K)
  BY DEF Expire
<1>2. \A k \in DOMAIN trades : trades[k].price \in Nat
  <2>1. \A k \in DOMAIN trades : trades[k] \in TradeFrames
    BY Positions
  <2> QED
    BY <2>1 DEF TradeFrames
<1> HIDE DEF K
<1> QED
  BY <1>1, <1>2, KeptIsSubsequence

\* The state made of a book and the trades that waited for it is causal (_state).
LEMMA StateOK ==
    ASSUME NEW a, NEW e \in BookFrames, Validated(e), e.event <= e.receive,
           AssemblerOK(a, e.receive)
    PROVE  LET m == State(a, e, Book(a, e))
           IN  MarketOK(m) /\ Causal(m) /\ m.observed = e.receive
<1> DEFINE b == Book(a, e)
           trade(k) == [id |-> a.trades[k].id, event |-> a.trades[k].event,
                        observed |-> a.trades[k].receive, price |-> a.trades[k].price,
                        size |-> a.trades[k].size, aggressor |-> a.trades[k].aggressor]
           trades == [k \in DOMAIN a.trades |-> trade(k)]
           m == State(a, e, b)
<1>1. /\ b.event \in Nat /\ b.event <= e.event
      /\ b.bids \in Seq(Levels) /\ b.asks \in Seq(Levels) /\ Uncrossed(b.bids, b.asks)
  BY BookOK
<1>2. e.event \in Nat /\ e.receive \in Nat
  BY DEF BookFrames
<1> HIDE DEF b
<1>3. /\ a.trades \in Seq(TradeFrames)
      /\ \A k \in DOMAIN a.trades : /\ a.trades[k].event <= a.trades[k].receive
                                    /\ a.trades[k].receive <= e.receive
  BY DEF AssemblerOK
<1>4. \A k \in DOMAIN a.trades : a.trades[k] \in TradeFrames
  BY <1>3, Positions
<1>5. \A k \in DOMAIN a.trades : a.trades[k].event \in Nat /\ a.trades[k].receive \in Nat
  BY <1>4 DEF TradeFrames
<1>6. \A k \in DOMAIN a.trades : a.trades[k].event <= e.receive
  BY <1>2, <1>3, <1>5
<1>7. LET n == LatestEvent(a.trades, e.event)
      IN  /\ n \in Nat /\ e.event <= n /\ n <= e.receive
          /\ \A k \in DOMAIN a.trades : a.trades[k].event <= n
  BY <1>2, <1>3, <1>6, LatestIsBound
<1>8. trades \in Seq(Trades)
  <2>1. \A k \in DOMAIN a.trades : trade(k) \in Trades
    BY <1>4 DEF TradeFrames, Trades
  <2>2. DOMAIN a.trades = 1 .. Len(a.trades) /\ Len(a.trades) \in Nat
    BY <1>3
  <2> HIDE DEF trade
  <2> QED
    BY <2>1, <2>2
<1>9. m = [exchange |-> LatestEvent(a.trades, e.event), book |-> b.event, observed |-> e.receive,
           sequence |-> a.sequence, bids |-> b.bids, asks |-> b.asks, trades |-> trades]
  BY DEF State
<1>10. \A k \in DOMAIN trades : trades[k].event = a.trades[k].event
                                /\ trades[k].observed = a.trades[k].receive
  OBVIOUS
<1>11. DOMAIN trades = DOMAIN a.trades
  OBVIOUS
<1> HIDE DEF trades, m
<1>12. MarketOK(m)
  BY <1>1, <1>2, <1>8, <1>9 DEF MarketOK, Uncrossed
<1>13. Causal(m)
  BY <1>1, <1>2, <1>3, <1>7, <1>9, <1>10, <1>11 DEF Causal
<1> QED
  BY <1>9, <1>12, <1>13 DEF m, b

\* A market state has its types and is one the kernels accept, whatever was
\* recorded before and however old it is.
LEMMA ObserveOK ==
    ASSUME NEW a, NEW t \in Nat, AssemblerOK(a, t), NEW e \in Frames, Validated(e),
           ~ Raises(a, e), t <= e.receive
    PROVE  LET o == Observe(a, e)
           IN  /\ AssemblerOK(o.a, e.receive)
               /\ o.states # <<>> => /\ MarketOK(o.states[1]) /\ Causal(o.states[1])
                                     /\ o.states[1].observed = e.receive
<1>1. e.receive \in Nat
  BY DEF Frames, TradeFrames, BookFrames, OtherFrames
<1>2. /\ a.trades \in Seq(TradeFrames)
      /\ \A k \in DOMAIN a.trades : a.trades[k] \in TradeFrames
      /\ \A k \in DOMAIN a.trades : a.trades[k].event <= a.trades[k].receive
                                    /\ a.trades[k].receive <= t
  BY Positions DEF AssemblerOK
<1>3. \A k \in DOMAIN a.trades : a.trades[k].receive \in Nat
  BY <1>2 DEF TradeFrames
<1> DEFINE kept == Expire(a.trades, e.receive)
<1>4. /\ kept \in Seq(TradeFrames)
      /\ \A j \in DOMAIN kept : \E k \in DOMAIN a.trades : kept[j] = a.trades[k]
  BY <1>2, ExpireKeeps
<1>5. \A j \in DOMAIN kept : kept[j].event <= kept[j].receive /\ kept[j].receive <= e.receive
  BY <1>1, <1>2, <1>3, <1>4
<1> HIDE DEF kept
<1>6. CASE e.kind = "trade"
  <2>1. e \in TradeFrames /\ e.event <= e.receive
    <3>1. e \in TradeFrames
      BY <1>6 DEF Frames, BookFrames, OtherFrames
    <3>2. e.event \in Nat /\ ~ (e.event > e.receive)
      BY <1>6, <3>1 DEF Raises, TradeFrames
    <3> QED
      BY <1>1, <3>1, <3>2
  <2> DEFINE trades == IF Stale(e) THEN kept ELSE Append(kept, e)
  <2>2. Observe(a, e) = [a |-> [a EXCEPT !.trades = trades], states |-> <<>>]
    BY <1>6 DEF Observe, kept
  <2>3. trades \in Seq(TradeFrames)
    BY <1>4, <2>1
  <2>4. \A k \in DOMAIN trades : trades[k].event <= trades[k].receive
                                 /\ trades[k].receive <= e.receive
    <3>1. \A k \in DOMAIN Append(kept, e) :
             Append(kept, e)[k] = e \/ \E j \in DOMAIN kept : Append(kept, e)[k] = kept[j]
      BY <1>4, <2>1
    <3> QED
      BY <1>1, <1>5, <2>1, <3>1
  <2> HIDE DEF trades
  <2> QED
    BY <2>2, <2>3, <2>4 DEF AssemblerOK
<1>7. CASE e.kind \in {"bbo", "l2"}
  <2>1. e \in BookFrames /\ e.event <= e.receive
    <3>1. e \in BookFrames
      BY <1>7 DEF Frames, TradeFrames, OtherFrames
    <3>2. e.event \in Nat /\ ~ (e.event > e.receive)
      BY <1>7, <3>1 DEF Raises, BookFrames
    <3> QED
      BY <1>1, <3>1, <3>2
  <2> DEFINE depth == [event |-> e.event, bids |-> e.bids, asks |-> e.asks]
             seen == [a EXCEPT !.lastBook = e.receive, !.trades = kept]
             deep == IF e.kind = "l2" /\ ~ Stale(e) THEN [seen EXCEPT !.depth = depth] ELSE seen
             next == [deep EXCEPT !.trades = <<>>, !.sequence = @ + 1, !.lastState = e.receive]
             m == State(deep, e, Book(deep, e))
  <2>2. Observe(a, e) = IF Stale(e) \/ ~ Due(seen, e.receive) THEN [a |-> deep, states |-> <<>>]
                        ELSE [a |-> next, states |-> <<m>>]
    BY <1>7 DEF Observe, kept
  <2>3. AssemblerOK(seen, e.receive)
    BY <1>4, <1>5 DEF AssemblerOK
  <2>4. /\ depth.event \in Nat /\ depth.bids \in Seq(Levels) /\ depth.asks \in Seq(Levels)
        /\ Uncrossed(depth.bids, depth.asks)
    BY <1>7, <2>1 DEF BookFrames, Validated
  <2> HIDE DEF seen, depth
  <2>5. AssemblerOK(deep, e.receive)
    BY <2>3, <2>4 DEF AssemblerOK
  <2> HIDE DEF deep
  <2>6. AssemblerOK(next, e.receive)
    BY <2>5 DEF AssemblerOK
  <2>7. MarketOK(m) /\ Causal(m) /\ m.observed = e.receive
    BY <2>1, <2>5, StateOK
  <2> HIDE DEF next, m
  <2> QED
    BY <2>2, <2>5, <2>6, <2>7
<1>8. CASE e.kind \notin {"trade", "bbo", "l2"}
  <2>1. Observe(a, e) = [a |-> a, states |-> <<>>]
    BY <1>8 DEF Observe
  <2>2. AssemblerOK(a, e.receive)
    BY <1>1, <1>2, <1>3 DEF AssemblerOK
  <2> QED
    BY <2>1, <2>2
<1> QED
  BY <1>6, <1>7, <1>8

-----------------------------------------------------------------------------
(* The operations of the engine                                             *)

EngineFields == {"on", "startedAt", "x", "memory", "sequence", "independentAt", "rate",
                 "nextFunding", "source", "structure", "persisted", "market", "connected",
                 "pending", "sent"}

MemoryOK(memory) == DOMAIN memory = {"position", "next"} /\ memory.next \in Nat \ {0}

\* An engine whose orders are typed and have numbers that were given out.
EngineOK(e) == /\ DOMAIN e = EngineFields /\ e.on = TRUE
               /\ MemoryOK(e.memory)
               /\ e.market # NoMarket => MarketOK(e.market)
               /\ OrdersOK(DOMAIN e.x.orders, e.x)
               /\ DOMAIN e.x.orders \subseteq 1 .. e.memory.next - 1

\* What an operation may do to an engine: numbers are given out once, orders are
\* added, and what differs is listed.
Follows(e0, e) == /\ EngineOK(e) /\ e.source = e0.source
                  /\ e.memory.next >= e0.memory.next
                  /\ Tracks(e0.x, DOMAIN e.x.orders, e.x)
                  /\ \A i \in DOMAIN e.x.orders \ DOMAIN e0.x.orders : i >= e0.memory.next

\* An engine has finitely many orders, their numbers are integers.
LEMMA IdsAreFinite ==
    ASSUME NEW e, EngineOK(e)
    PROVE  DOMAIN e.x.orders \in SUBSET Int /\ IsFiniteSet(DOMAIN e.x.orders)
<1>1. e.memory.next - 1 \in Int
  BY DEF EngineOK, MemoryOK
<1>2. IsFiniteSet(1 .. e.memory.next - 1) /\ 1 .. e.memory.next - 1 \in SUBSET Int
  BY <1>1, FS_Interval
<1> QED
  BY <1>2, FS_Subset DEF EngineOK

\* An operation that changes the exchange and keeps its orders, and nothing
\* else that matters here.
LEMMA ExchangeStep ==
    ASSUME NEW e0, NEW e, EngineOK(e), EngineOK(e0), NEW f, DOMAIN f = EngineFields, f.on = TRUE,
           f.source = e0.source, f.memory.next = e.memory.next,
           DOMAIN f.memory = {"position", "next"},
           f.market # NoMarket => MarketOK(f.market),
           NEW ids, ids = DOMAIN e.x.orders, Tracks(e0.x, ids, f.x),
           e.memory.next >= e0.memory.next,
           \A i \in ids \ DOMAIN e0.x.orders : i >= e0.memory.next
    PROVE  Follows(e0, f)
<1>1. DOMAIN f.x.orders = ids
  BY DEF Tracks, OrdersOK
<1>2. OrdersOK(ids, f.x)
  BY DEF Tracks
<1> QED
  BY <1>1, <1>2 DEF Follows, EngineOK, MemoryOK

\* _settle_funding_if_due touches no order.
LEMMA SettleOK ==
    ASSUME NEW e, EngineOK(e), NEW mark, NEW t
    PROVE  LET f == SettleIfDue(e, mark, t)
           IN  /\ EngineOK(f) /\ f.source = e.source /\ f.memory = e.memory
               /\ f.x.orders = e.x.orders /\ f.market = e.market
<1> DEFINE f == SettleIfDue(e, mark, t)
           n == (t \div FundingInterval + 1) * FundingInterval
           x == SettleFunding(e.x, e.rate, mark, e.nextFunding)
           n2 == e.nextFunding + FundingInterval
<1>1. \/ f = [e EXCEPT !.nextFunding = n]
      \/ f = [e EXCEPT !.x = x, !.nextFunding = n2]
      \/ f = e
  BY DEF SettleIfDue
<1>2. DOMAIN x = ExchangeFields /\ x.orders = e.x.orders
  BY DEF SettleFunding, Mark, EngineOK, OrdersOK, ExchangeFields
<1> HIDE DEF n, n2, x, f
<1>3. /\ DOMAIN f = EngineFields /\ f.on = e.on /\ f.source = e.source /\ f.memory = e.memory
      /\ f.market = e.market /\ (f.x = e.x \/ f.x = x)
  BY <1>1 DEF EngineOK, EngineFields
<1> QED
  BY <1>2, <1>3 DEF EngineOK, OrdersOK, f

\* The exchange at a market state, under the engine (paper/engine.py on_market).
LEMMA AdvancedOK ==
    ASSUME NEW e, EngineOK(e), NEW m, MarketOK(m), NEW mark
    PROVE  Follows(e, Advanced(e, m, mark))
<1> DEFINE x == Advance(e.x, m, IF mark = None THEN Mid(m) ELSE mark)
           pending == e.pending \cup ToSet(x.fills)
           f == [e EXCEPT !.x = x, !.pending = pending]
           g == [f EXCEPT !.memory.position = f.x.account.position]
           ids == DOMAIN e.x.orders
<1>1. Advanced(e, m, mark) = g
  BY DEF Advanced, Synchronize
<1>2. Tracks(e.x, ids, x)
  BY IdsAreFinite, AdvanceTracks DEF EngineOK
<1> HIDE DEF x, pending
<1>3. /\ DOMAIN f = EngineFields /\ f.on = TRUE /\ f.source = e.source /\ f.memory = e.memory
      /\ f.market = e.market /\ f.x = x
  BY DEF EngineOK, EngineFields
<1> HIDE DEF f
<1>4. /\ DOMAIN g = EngineFields /\ g.on = TRUE /\ g.source = e.source
      /\ DOMAIN g.memory = {"position", "next"} /\ g.memory.next = e.memory.next
      /\ g.market = e.market /\ g.x = x
  BY <1>3 DEF EngineOK, MemoryOK, EngineFields
<1> HIDE DEF g
<1>5. e.memory.next >= e.memory.next /\ (e.market # NoMarket => MarketOK(e.market))
  BY DEF EngineOK, MemoryOK
<1> QED
  BY <1>1, <1>2, <1>4, <1>5, ExchangeStep

\* The authority may have everything cancelled (paper/engine.py on_market).
LEMMA SupervisedOK ==
    ASSUME NEW e0, EngineOK(e0), NEW e, Follows(e0, e), NEW verdict, NEW t \in Nat
    PROVE  Follows(e0, Supervised(e, verdict, t).e)
<1> DEFINE x == RequestCancelAll(e.x, t)
           left == e.pending \ Resolved(e, t)
           h == [e EXCEPT !.x = x]
           f == [e EXCEPT !.pending = left]
           g == [h EXCEPT !.pending = e.pending \ Resolved(e, t)]
           ids == DOMAIN e.x.orders
<1>1. Supervised(e, verdict, t).e \in {f, g}
  BY DEF Supervised, EngineOK, Follows, EngineFields
<1>2. Tracks(e0.x, ids, e.x) /\ EngineOK(e)
  BY DEF Follows
<1>3. Tracks(e0.x, ids, x)
  BY <1>2, CancelAllTracks
<1> HIDE DEF x, left
<1>4. \A k \in {f, g} : /\ DOMAIN k = EngineFields /\ k.on = TRUE /\ k.source = e.source
                        /\ k.memory = e.memory /\ k.market = e.market /\ k.x \in {e.x, x}
  BY <1>2 DEF EngineOK, EngineFields
<1> HIDE DEF f, g
<1>5. \A k \in {f, g} : Tracks(e0.x, ids, k.x)
  BY <1>2, <1>3, <1>4
<1>6. /\ e.source = e0.source /\ DOMAIN e.memory = {"position", "next"}
      /\ e.market # NoMarket => MarketOK(e.market)
      /\ e.memory.next >= e0.memory.next
      /\ \A i \in ids \ DOMAIN e0.x.orders : i >= e0.memory.next
  BY <1>2 DEF Follows, EngineOK, MemoryOK
<1>7. ASSUME NEW k \in {f, g} PROVE Follows(e0, k)
  <2> HIDE DEF ids
  <2>1. /\ DOMAIN k = EngineFields /\ k.on = TRUE /\ k.source = e0.source
        /\ k.memory.next = e.memory.next /\ DOMAIN k.memory = {"position", "next"}
        /\ k.market # NoMarket => MarketOK(k.market)
    BY <1>4, <1>6
  <2>2. Tracks(e0.x, ids, k.x) /\ ids = DOMAIN e.x.orders
    BY <1>5 DEF ids
  <2> QED
    BY <1>2, <1>6, <2>1, <2>2, ExchangeStep
<1> QED
  BY <1>1, <1>7

\* An intent that is evaluated takes the next number, submitted or not.
LEMMA EvaluatedOK ==
    ASSUME NEW e0, EngineOK(e0), NEW s, Follows(e0, s.e), NEW asked \in Intents, NEW sent,
           NEW allowed \in BOOLEAN, NEW t \in Nat
    PROVE  Follows(e0, Evaluated(s, asked, sent, allowed, t).e)
<1> DEFINE e == s.e
           n == e.memory.next
           ids == DOMAIN e.x.orders
           at == IF Independent(e, t) THEN t ELSE e.independentAt
           counted == [e EXCEPT !.sequence = @ + 1, !.memory.next = @ + 1, !.independentAt = at]
           x == Submit(e.x, n, asked, t)
           sends == IF asked.reduceOnly THEN sent ELSE sent \cup {[at |-> t, intent |-> n]}
           y == Submit(counted.x, n, asked, t)
           f == [counted EXCEPT !.x = y, !.sent = sends]
<1>1. Evaluated(s, asked, sent, allowed, t).e = IF allowed THEN f ELSE counted
  BY DEF Evaluated
<1>2. Tracks(e0.x, ids, e.x) /\ EngineOK(e) /\ n \in Nat \ {0} /\ ids \subseteq 1 .. n - 1
  BY DEF Follows, EngineOK, MemoryOK
<1>3. n \notin ids
  BY <1>2
<1>4. Tracks(e0.x, ids \cup {n}, x)
  <2> HIDE DEF n, ids
  <2> QED
    BY <1>2, <1>3, SubmitTracks
<1> HIDE DEF at, sends
<1>5. /\ DOMAIN counted = EngineFields /\ counted.on = TRUE /\ counted.source = e.source
      /\ DOMAIN counted.memory = {"position", "next"} /\ counted.memory.next = n + 1
      /\ counted.market = e.market /\ counted.x = e.x
  BY <1>2 DEF EngineOK, EngineFields, MemoryOK
<1> HIDE DEF counted
<1>6. y = x
  BY <1>5
<1> HIDE DEF x, y
<1>7. /\ DOMAIN f = EngineFields /\ f.on = TRUE /\ f.source = e.source
      /\ DOMAIN f.memory = {"position", "next"} /\ f.memory.next = n + 1
      /\ f.market = e.market /\ f.x = x
  BY <1>5, <1>6 DEF EngineFields
<1> HIDE DEF f
<1>8. /\ e.source = e0.source /\ n >= e0.memory.next /\ e0.memory.next \in Nat
      /\ \A i \in ids \ DOMAIN e0.x.orders : i >= e0.memory.next
      /\ e.market # NoMarket => MarketOK(e.market)
  BY DEF Follows, EngineOK, MemoryOK
<1>9. DOMAIN x.orders = ids \cup {n} /\ OrdersOK(ids \cup {n}, x) /\ OrdersOK(ids, e.x)
  BY <1>2, <1>4 DEF Tracks, OrdersOK
<1> HIDE DEF n, ids
<1>10. /\ n + 1 \in Nat \ {0} /\ n + 1 >= e0.memory.next
       /\ ids \subseteq 1 .. n + 1 - 1 /\ ids \cup {n} \subseteq 1 .. n + 1 - 1
  <2>1. n + 1 \in Nat \ {0} /\ n + 1 >= e0.memory.next
    BY <1>2, <1>8
  <2>2. 1 .. n + 1 - 1 = 1 .. n /\ n \in 1 .. n /\ 1 .. n - 1 \subseteq 1 .. n
    BY <1>2
  <2> QED
    BY <1>2, <2>1, <2>2
<1>11. Follows(e0, counted)
  <2>1. EngineOK(counted)
    BY <1>5, <1>8, <1>9, <1>10 DEF EngineOK, MemoryOK, ids
  <2>2. Tracks(e0.x, DOMAIN counted.x.orders, counted.x)
    BY <1>2, <1>5 DEF ids
  <2>3. DOMAIN counted.x.orders = ids
    BY <1>5 DEF ids
  <2> QED
    BY <1>5, <1>8, <1>10, <2>1, <2>2, <2>3 DEF Follows
<1>12. Follows(e0, f)
  <2>1. DOMAIN f.x.orders = ids \cup {n}
    BY <1>7, <1>9
  <2>2. EngineOK(f)
    BY <1>7, <1>8, <1>9, <1>10, <2>1 DEF EngineOK, MemoryOK
  <2>3. Tracks(e0.x, DOMAIN f.x.orders, f.x)
    BY <1>4, <1>7, <2>1
  <2>4. \A i \in (ids \cup {n}) \ DOMAIN e0.x.orders : i >= e0.memory.next
    BY <1>8
  <2> QED
    BY <1>7, <1>8, <1>10, <2>1, <2>2, <2>3, <2>4 DEF Follows
<1> QED
  BY <1>1, <1>11, <1>12

\* The submissions of a decision, one after another.
SubmitStep(p, r, k) == Decide(r, [p.submits[k] EXCEPT !.created = p.t], p.kill, p.t)
SubmitClaim(p, T, r) == Follows(p.e0, r.e)
Submitting == INSTANCE FoldFacts WITH Op <- SubmitStep, Pick <- Highest, Holds <- SubmitClaim

\* The cancellations of a decision, in any order.
CancelStep(p, x, i) == RequestCancel(x, i, p.t)
AnyOf(p, T) == CHOOSE i \in T : TRUE
CancelClaim(p, T, x) == Tracks(p.x0, p.ids, x)
Canceling == INSTANCE FoldFacts WITH Op <- CancelStep, Pick <- AnyOf, Holds <- CancelClaim

\* The cancellations of a decision, in whatever order they are asked for.
LEMMA CanceledTracks ==
    ASSUME NEW x0, NEW ids \in SUBSET Int, IsFiniteSet(ids), NEW x, Tracks(x0, ids, x),
           NEW t \in Nat, NEW K
    PROVE  Tracks(x0, ids, CancelEach(x, K \cap Open(x), t))
<1> DEFINE p == [x0 |-> x0, ids |-> ids, t |-> t]
           S == K \cap Open(x)
<1>1. S \in SUBSET ids /\ IsFiniteSet(S)
  BY OpenWasOpen, FS_Subset
<1> HIDE DEF S
<1>2. CancelEach(x, S, t) = Canceling!Loop(p, x, S)
  BY DEF CancelEach, FoldSet, Canceling!Loop, CancelStep, AnyOf, MapThenFoldSet, Canceling!MapThenFoldSet
<1>3. Canceling!Picks(p, S)
  BY DEF Canceling!Picks, AnyOf
<1>4. CancelClaim(p, {}, x)
  BY DEF CancelClaim
<1>5. \A T \in SUBSET S : \A y : T # {} /\ CancelClaim(p, T \ {AnyOf(p, T)}, y)
                                   => CancelClaim(p, T, CancelStep(p, y, AnyOf(p, T)))
  BY CancelTracks DEF CancelClaim, CancelStep
<1> HIDE DEF p
<1>6. CancelClaim(p, S, Canceling!Loop(p, x, S))
  BY <1>1, <1>3, <1>4, <1>5, Canceling!LoopKeeps DEF IsFiniteSet, Canceling!IsFiniteSet
<1> QED
  BY <1>2, <1>6 DEF CancelClaim, p, S

\* The submissions of a decision, each evaluated after the one before it.
LEMMA DecidedEachOK ==
    ASSUME NEW e0, EngineOK(e0), NEW s, Follows(e0, s.e), NEW submits \in Seq(Intents),
           NEW killed, NEW t \in Nat
    PROVE  Follows(e0, DecideEach(s, submits, killed, t).e)
<1> DEFINE p == [e0 |-> e0, submits |-> submits, kill |-> killed, t |-> t]
           S == DOMAIN submits
<1>1. S \in SUBSET Int /\ IsFiniteSet(S) /\ \A k \in S : submits[k] \in Intents
  BY Positions
<1>2. DecideEach(s, submits, killed, t) = Submitting!Loop(p, s, S)
  BY DEF DecideEach, Submitting!Loop, SubmitStep, Highest, FoldLeft, MapThenFoldSet,
         Submitting!MapThenFoldSet, Max
<1>3. Submitting!Picks(p, S)
  BY <1>1, HighestIsLast DEF Submitting!Picks, Highest
<1>4. ASSUME NEW k \in S, NEW r, Follows(e0, r.e)
      PROVE  Follows(e0, SubmitStep(p, r, k).e)
  <2> DEFINE asked == [submits[k] EXCEPT !.created = t]
             sent == Recent(r.e.sent, t)
             allowed == Objections(asked, Snapshot(r.e, killed, t), 0, sent, t) = {}
  <2>1. asked \in Intents
    BY <1>1 DEF Intents
  <2>2. SubmitStep(p, r, k) = Evaluated(r, asked, sent, allowed, t)
    BY DEF SubmitStep, Decide
  <2>3. allowed \in BOOLEAN
    OBVIOUS
  <2> HIDE DEF asked, sent, allowed
  <2> QED
    BY <1>4, <2>1, <2>2, <2>3, EvaluatedOK
<1>5. \A T \in SUBSET S : \A r : T # {} /\ SubmitClaim(p, T \ {Highest(p, T)}, r)
                                   => SubmitClaim(p, T, SubmitStep(p, r, Highest(p, T)))
  BY <1>3, <1>4 DEF Submitting!Picks, SubmitClaim
<1>6. SubmitClaim(p, {}, s)
  BY DEF SubmitClaim
<1> HIDE DEF S, p
<1>7. SubmitClaim(p, S, Submitting!Loop(p, s, S))
  BY <1>1, <1>3, <1>5, <1>6, Submitting!LoopKeeps DEF IsFiniteSet, Submitting!IsFiniteSet
<1> QED
  BY <1>2, <1>7 DEF SubmitClaim, p

\* A decision of the strategy (paper/engine.py on_market, from the structure on).
LEMMA DecidedOK ==
    ASSUME NEW e0, EngineOK(e0), NEW e, Follows(e0, e), NEW killed, NEW cancels,
           NEW submits \in Seq(Intents), NEW t \in Nat
    PROVE  Follows(e0, Decided(e, killed, cancels, submits, t).e)
<1> DEFINE structure == StructureUpdate(e.structure, t)
           seen == [e EXCEPT !.structure = structure]
           x == CancelEach(seen.x, cancels \cap Open(seen.x), t)
           freed == [seen EXCEPT !.x = x]
           start == [e |-> freed, approved |-> 0, denied |-> 0, independent |-> 0]
           ids == DOMAIN e.x.orders
<1>1. Decided(e, killed, cancels, submits, t) = DecideEach(start, submits, killed, t)
  BY DEF Decided
<1>2. EngineOK(e) /\ Tracks(e0.x, ids, e.x)
  BY DEF Follows
<1> HIDE DEF structure
<1>3. /\ DOMAIN seen = EngineFields /\ seen.on = TRUE /\ seen.source = e.source
      /\ seen.memory = e.memory /\ seen.market = e.market /\ seen.x = e.x
  BY <1>2 DEF EngineOK, EngineFields
<1> HIDE DEF seen
<1>4. Tracks(e0.x, ids, x)
  BY <1>2, <1>3, IdsAreFinite, CanceledTracks
<1> HIDE DEF x
<1>5. /\ DOMAIN freed = EngineFields /\ freed.on = TRUE /\ freed.source = e.source
      /\ freed.memory = e.memory /\ freed.market = e.market /\ freed.x = x
  BY <1>3 DEF EngineFields
<1> HIDE DEF freed
<1>6. /\ e.source = e0.source /\ DOMAIN e.memory = {"position", "next"}
      /\ e.market # NoMarket => MarketOK(e.market)
      /\ e.memory.next >= e0.memory.next
      /\ \A i \in ids \ DOMAIN e0.x.orders : i >= e0.memory.next
  BY <1>2 DEF Follows, EngineOK, MemoryOK
<1>7. Follows(e0, freed)
  <2> HIDE DEF ids
  <2>1. ids = DOMAIN e.x.orders
    BY DEF ids
  <2> QED
    BY <1>2, <1>4, <1>5, <1>6, <2>1, ExchangeStep
<1> QED
  BY <1>1, <1>7, DecidedEachOK

\* A market state up to the market structure.
LEMMA SimulateOK ==
    ASSUME NEW e, EngineOK(e), NEW m, MarketOK(m), NEW mark, NEW connected, NEW source, NEW killed
    PROVE  LET f == Simulate(e, m, mark, connected, source, killed).e
           IN  Follows([e EXCEPT !.source = source], f)
<1> DEFINE t == m.observed
           price == IF mark = None THEN e.x.account.mark ELSE mark
           e0 == [e EXCEPT !.source = source]
           e1 == [e EXCEPT !.market = m, !.connected = connected, !.source = source]
           e2 == SettleIfDue(e1, price, t)
           e3 == Advanced(e2, m, mark)
           verdict == Assess(Snapshot(e3, killed, t), t)
<1>1. Simulate(e, m, mark, connected, source, killed) = Supervised(e3, verdict, t)
  BY DEF Simulate, Assessed
<1>2. EngineOK(e0) /\ e0.source = source /\ e0.memory = e.memory /\ e0.x = e.x
  BY DEF EngineOK, EngineFields
<1>3. EngineOK(e1) /\ e1.source = source /\ e1.memory = e.memory /\ e1.x = e.x
  BY DEF EngineOK, EngineFields
<1> HIDE DEF e0, e1, price
<1>4. EngineOK(e2) /\ e2.source = source /\ e2.memory = e.memory /\ e2.x.orders = e.x.orders
  BY <1>3, SettleOK
<1> HIDE DEF e2
<1>5. Follows(e2, e3)
  BY <1>4, AdvancedOK
<1> HIDE DEF e3, verdict
<1>6. Follows(e0, e3)
  BY <1>2, <1>4, <1>5 DEF Follows, Tracks
<1>7. t \in Nat
  BY DEF MarketOK
<1> QED
  BY <1>1, <1>2, <1>6, <1>7, SupervisedOK DEF e0
-----------------------------------------------------------------------------
(* The watchdog, restarts and commits                                       *)

\* What update_context keeps.
LEMMA ContextOK ==
    ASSUME NEW e, EngineOK(e), NEW rate, NEW next
    PROVE  LET f == UpdateContext(e, rate, next)
           IN  /\ EngineOK(f) /\ f.x = e.x /\ f.memory = e.memory /\ f.source = e.source
<1> DEFINE due == IF next # None /\ (e.nextFunding = None \/ next > e.nextFunding)
                  THEN next ELSE e.nextFunding
           f == [e EXCEPT !.rate = rate, !.nextFunding = due]
<1>1. UpdateContext(e, rate, next) = f
  BY DEF UpdateContext
<1> HIDE DEF due
<1>2. /\ DOMAIN f = EngineFields /\ f.on = e.on /\ f.x = e.x /\ f.memory = e.memory
      /\ f.source = e.source /\ f.market = e.market
  BY DEF EngineOK, EngineFields
<1> QED
  BY <1>1, <1>2 DEF EngineOK

\* The watchdog (paper/engine.py watchdog) gives out no number, and what it
\* changes was open.
LEMMA WatchdogOK ==
    ASSUME NEW e, EngineOK(e), NEW connected, NEW killed, NEW t \in Nat
    PROVE  LET w == Watchdog(e, connected, killed, t)
           IN  /\ Tracks(e.x, DOMAIN e.x.orders, w.x)
               /\ EngineOK(w.e) /\ w.e.x = Fresh(w.x)
               /\ w.e.memory.next = e.memory.next /\ w.e.source = e.source
<1> DEFINE ids == DOMAIN e.x.orders
           stale == e.market = NoMarket \/ t - e.market.observed > Limits.publicStale
           halted == stale \/ ~ connected \/ killed
           x1 == IF halted THEN Fresh(e.x) ELSE ActivatePending(e.x, e.market, t)
           x2 == Elapse(x1, t)
           x3 == IF halted THEN RequestCancelAll(x2, t) ELSE x2
           pending == e.pending \cup ToSet(x1.fills)
           position == IF halted THEN e.memory.position ELSE x1.account.position
           e3 == [e EXCEPT !.x = x3, !.connected = connected, !.pending = pending,
                           !.memory.position = position]
           e4 == [e3 EXCEPT !.x = Fresh(e3.x)]
           w == Watchdog(e, connected, killed, t)
<1>1. w.x = x3 /\ w.e = e4
  BY DEF Watchdog
<1>2. /\ ids \in SUBSET Int /\ IsFiniteSet(ids) /\ OrdersOK(ids, e.x)
      /\ ~ halted => MarketOK(e.market)
  BY IdsAreFinite DEF EngineOK
<1>3. Tracks(e.x, ids, x1)
  BY <1>2, FreshTracks, ActivatePendingTracks
<1> HIDE DEF x1, halted
<1>4. Tracks(e.x, ids, x2)
  BY <1>3, ElapseTracks
<1> HIDE DEF x2
<1>5. Tracks(e.x, ids, x3)
  BY <1>4, CancelAllTracks
<1> HIDE DEF x3, pending, position
<1>6. /\ DOMAIN e3 = EngineFields /\ e3.on = TRUE /\ e3.source = e.source
      /\ DOMAIN e3.memory = {"position", "next"} /\ e3.memory.next = e.memory.next
      /\ e3.market = e.market /\ e3.x = x3
  BY DEF EngineOK, MemoryOK, EngineFields
<1> HIDE DEF e3
<1>7. /\ DOMAIN e4 = EngineFields /\ e4.on = TRUE /\ e4.source = e.source
      /\ e4.memory = e3.memory /\ e4.market = e.market /\ e4.x = Fresh(x3)
  BY <1>6 DEF EngineFields
<1> HIDE DEF e4
<1>8. OrdersOK(ids, Fresh(x3)) /\ DOMAIN Fresh(x3).orders = ids
  <2> HIDE DEF ids
  <2>1. OrdersOK(ids, x3)
    BY <1>5 DEF Tracks
  <2>2. OrdersOK(ids, Fresh(x3))
    BY <2>1, FreshTracks
  <2> QED
    BY <2>2 DEF OrdersOK
<1>9. EngineOK(e4)
  BY <1>6, <1>7, <1>8 DEF EngineOK, MemoryOK
<1> HIDE DEF w
<1> QED
  BY <1>1, <1>5, <1>6, <1>7, <1>9 DEF w

\* The orders of a journal.
TypedOrders(orders) == /\ orders \in [DOMAIN orders -> Orders]
                       /\ \A i \in DOMAIN orders : orders[i].filled <= orders[i].quantity

\* An exchange x with something to be recorded in a journal that holds orders:
\* what changed is either new or was open there, and the rest is there.
Recordable(orders, x) ==
    /\ x.changed \subseteq DOMAIN x.orders
    /\ \A i \in x.changed \cap DOMAIN orders : orders[i].state \notin Terminal
    /\ \A i \in DOMAIN x.orders \ x.changed : i \in DOMAIN orders /\ orders[i] = x.orders[i]

\* Every order of the exchange is in the journal, as it is.
Recorded(orders, x) ==
    \A i \in DOMAIN x.orders : i \in DOMAIN orders /\ orders[i] = x.orders[i]

\* record_cycle and record_engine_cycle write only the changed orders
\* (paper/journal.py), and yet the journal has them all, each that ended as it
\* ended.
LEMMA RecordsAll ==
    ASSUME NEW j, TypedOrders(j.orders), NEW x, TypedOrders(x.orders), Recordable(j.orders, x)
    PROVE  LET r == WithOrders(j, x)
           IN  /\ TypedOrders(r) /\ Recorded(r, x)
               /\ DOMAIN r = DOMAIN j.orders \cup x.changed
               /\ \A i \in DOMAIN j.orders : j.orders[i].state \in Terminal => r[i] = j.orders[i]
  BY DEF WithOrders, TypedOrders, Recordable, Recorded

\* What an operation changed can be recorded: no order that ended before a
\* restart is hit by it, since numbers are given out once.
LEMMA TrackedIsRecordable ==
    ASSUME NEW orders, NEW x0, Recorded(orders, x0), NEW ids, NEW x, Tracks(x0, ids, x),
           \A i \in ids \ DOMAIN x0.orders : i \notin DOMAIN orders
    PROVE  Recordable(orders, x) /\ TypedOrders(x.orders) /\ DOMAIN x.orders = ids
<1>1. DOMAIN x.orders = ids /\ TypedOrders(x.orders)
  BY DEF Tracks, OrdersOK, TypedOrders
<1>2. \A i \in x.changed \cap DOMAIN orders : orders[i].state \notin Terminal
  BY DEF Tracks, Recorded
<1>3. \A i \in ids \ x.changed : i \in DOMAIN orders /\ orders[i] = x.orders[i]
  BY DEF Tracks, Recorded
<1> QED
  BY <1>1, <1>2, <1>3 DEF Recordable, Tracks

\* The engine that the constructor makes from a journal (paper/engine.py).
LEMMA RestoreOK ==
    ASSUME NEW j, TypedOrders(j.orders), MemoryOK(j.checkpoint.memory),
           DOMAIN j.orders \subseteq 1 .. j.checkpoint.memory.next - 1, NEW t
    PROVE  LET e == Restore(j, t)
           IN  /\ EngineOK(e) /\ Recorded(j.orders, e.x) /\ e.x.changed = {}
               /\ e.memory = j.checkpoint.memory /\ e.source = j.checkpoint.source
<1> DEFINE e == Restore(j, t)
           x == [orders |-> [i \in OpenInJournal(j) |-> j.orders[i]],
                 account |-> j.account, fills |-> <<>>, changed |-> {}]
<1>1. /\ DOMAIN e = EngineFields /\ e.on = TRUE /\ e.x = x /\ e.market = NoMarket
      /\ e.memory = j.checkpoint.memory /\ e.source = j.checkpoint.source
  BY DEF Restore, RestoredMemory, EngineFields
<1>2. OpenInJournal(j) \subseteq DOMAIN j.orders
  BY DEF OpenInJournal
<1>3. OrdersOK(OpenInJournal(j), x) /\ DOMAIN x.orders = OpenInJournal(j) /\ Recorded(j.orders, x)
  BY <1>2 DEF OrdersOK, TypedOrders, Recorded, ExchangeFields
<1>4. x.changed = {}
  OBVIOUS
<1> HIDE DEF e, x
<1>5. EngineOK(e)
  BY <1>1, <1>2, <1>3 DEF EngineOK
<1> QED
  BY <1>1, <1>3, <1>4, <1>5 DEF e

\* A resume asks for the cancellation of everything and records that
\* (paper/engine.py, restart_reconciliation).
LEMMA ResumeOK ==
    ASSUME NEW j, TypedOrders(j.orders), MemoryOK(j.checkpoint.memory),
           DOMAIN j.orders \subseteq 1 .. j.checkpoint.memory.next - 1, NEW t \in Nat
    PROVE  LET e == Restore(j, t)
               x == RequestCancelAll(e.x, t)
               f == Resume(j, t).engine
           IN  /\ Tracks(e.x, DOMAIN e.x.orders, x)
               /\ EngineOK(f) /\ f.x = Fresh(x) 
               /\ f.memory = j.checkpoint.memory /\ f.source = j.checkpoint.source
<1> DEFINE e == Restore(j, t)
           x == RequestCancelAll(e.x, t)
           f == [e EXCEPT !.x = Fresh(x)]
           ids == DOMAIN e.x.orders
<1>1. Resume(j, t).engine = f
  BY DEF Resume
<1>2. /\ EngineOK(e) /\ e.x.changed = {} /\ Recorded(j.orders, e.x)
      /\ e.memory = j.checkpoint.memory /\ e.source = j.checkpoint.source
  BY RestoreOK
<1> HIDE DEF e
<1>3. Tracks(e.x, ids, e.x)
  BY <1>2 DEF EngineOK, Tracks
<1>4. Tracks(e.x, ids, x)
  BY <1>3, CancelAllTracks
<1> HIDE DEF x
<1>5. OrdersOK(ids, Fresh(x)) /\ DOMAIN Fresh(x).orders = ids
  <2> HIDE DEF ids
  <2>1. OrdersOK(ids, x)
    BY <1>4 DEF Tracks
  <2>2. OrdersOK(ids, Fresh(x))
    BY <2>1, FreshTracks
  <2> QED
    BY <2>2 DEF OrdersOK
<1>6. /\ DOMAIN f = EngineFields /\ f.on = TRUE /\ f.source = e.source /\ f.memory = e.memory
      /\ f.market = e.market /\ f.x = Fresh(x)
  BY <1>2 DEF EngineOK, EngineFields
<1> HIDE DEF f
<1>7. EngineOK(f)
  BY <1>2, <1>5, <1>6 DEF EngineOK
<1> QED
  BY <1>1, <1>2, <1>4, <1>6, <1>7 DEF e, x, f
-----------------------------------------------------------------------------
(* The inductive invariant                                                  *)

\* What the log holds is received by now, in the order of its receipt.
LogOK == /\ now \in 0 .. MaxTime /\ tape \in Tapes /\ ingress \in 0 .. Len(tape)
         /\ \A q \in 1 .. ingress : tape[q].receive <= now
         /\ \A p, q \in 1 .. ingress : p <= q => tape[p].receive <= tape[q].receive

OperatorsOK == /\ DOMAIN kill = {"active", "since", "times"} /\ kill.active \in BOOLEAN
               /\ crashes \in 0 .. MaxCrashes

JournalFields == {"start", "account", "orders", "fills", "checkpoint", "structure", "cycles",
                  "approved", "denied", "independent", "submits", "markouts", "drills", "events"}

\* The orders of the journal have numbers that the memory of its checkpoint has
\* given out, and its cycles are not later than the checkpoint.
JournalOK == /\ DOMAIN journal = JournalFields
             /\ journal.start \in {None} \cup 0 .. ingress
             /\ TypedOrders(journal.orders)
             /\ MemoryOK(journal.checkpoint.memory)
             /\ DOMAIN journal.orders \subseteq 1 .. journal.checkpoint.memory.next - 1
             /\ journal.checkpoint.source \in {None} \cup 0 .. ingress
             /\ DOMAIN journal.cycles \subseteq 1 .. ingress
             /\ \A q \in DOMAIN journal.cycles : q <= journal.checkpoint.source

\* The samples that a crash between the two databases cost.
Unsampled == DOMAIN journal.cycles \ audit.cycles

AuditOK == /\ DOMAIN audit = {"cycles", "failures"}
           /\ audit.failures \subseteq {"service_failure"}
           /\ audit.cycles \subseteq DOMAIN journal.cycles
           /\ Cardinality(Unsampled) <= crashes + (IF step.at = "audit" THEN 1 ELSE 0)

ServiceFields == {"up", "a", "mark", "rate", "nextFunding", "contextAt", "receivedAt", "cursor",
                  "runStart", "nextWatchdog"}

\* When the last frame was received that the assembler has seen.
Reached == IF step.at \in {"market", "commit", "audit"} THEN service.cursor + 1
           ELSE service.cursor
Seen(q) == IF q = 0 THEN 0 ELSE tape[q].receive

\* A process that runs has consumed the log up to what it committed, or the
\* cursor follows at once.
RunningOK == /\ DOMAIN service = ServiceFields /\ service.up = TRUE
             /\ service.cursor \in 0 .. ingress /\ service.runStart \in 0 .. ingress
             /\ Reached \in 0 .. ingress
             /\ AssemblerOK(service.a, Seen(Reached))
             /\ journal.checkpoint.source
                   <= (IF step.at = "audit" THEN Reached ELSE service.cursor)

ServiceOK == \/ service = Down /\ step = Idle /\ engine = Off
             \/ RunningOK

\* The engine is what the journal says, or one cycle ahead of it.
EngineInv == \/ engine = Off
             \/ /\ EngineOK(engine) /\ service.up /\ journal.start # None
                /\ engine.x.changed = {}
                /\ step.at # "commit" => /\ engine.source = journal.checkpoint.source
                                         /\ engine.memory.next = journal.checkpoint.memory.next
                                         /\ Recorded(journal.orders, engine.x)

\* A cycle that is ready to be committed.
CycleOK(c) == /\ c.source = Reached
              /\ c.checkpoint.source = Reached /\ c.checkpoint.memory = engine.memory
              /\ engine.source = Reached
              /\ engine.memory.next >= journal.checkpoint.memory.next
              /\ c.x.orders = engine.x.orders
              /\ Recordable(journal.orders, c.x)

StepOK == /\ step.at \in {"idle", "market", "commit", "audit", "checkpoint"}
          /\ step.at = "market" => /\ MarketOK(step.market) /\ Causal(step.market)
                                   /\ step.source = Reached
          /\ step.at = "commit" => engine # Off /\ CycleOK(step.c)
          /\ step.at = "audit" => step.source = Reached /\ Reached \in Unsampled
          /\ step.at = "checkpoint" => engine # Off

ShadowInv == LogOK /\ OperatorsOK /\ JournalOK /\ AuditOK /\ ServiceOK /\ EngineInv /\ StepOK
\* What the log holds was validated (domain/market.py), and times are naturals.
LEMMA LogFacts ==
    ASSUME LogOK
    PROVE  /\ now \in Nat /\ MaxTime \in Nat /\ ingress \in Nat /\ Len(tape) \in Nat
           /\ \A q \in 1 .. Len(tape) : /\ tape[q] \in Frames /\ Validated(tape[q])
                                        /\ tape[q].receive \in Nat
<1>1. MaxTime \in Nat /\ tape \in Seq(Frames) /\ \A q \in DOMAIN tape : Validated(tape[q])
  BY ShadowAssumption DEF LogOK
<1>2. \A q \in 1 .. Len(tape) : tape[q] \in Frames /\ Validated(tape[q])
  BY <1>1
<1>3. \A e \in Frames : e.receive \in Nat
  BY DEF Frames, TradeFrames, BookFrames, OtherFrames
<1> QED
  BY <1>1, <1>2, <1>3 DEF LogOK

\* The gateway, the clock and the operators leave the process alone.
LEMMA OutsideKeeps ==
    ASSUME ShadowInv, LogOK', OperatorsOK', tape' = tape, ingress <= ingress', crashes' = crashes,
           UNCHANGED <<journal, audit, service, engine, step>>
    PROVE  ShadowInv'
<1>1. ingress \in Nat /\ ingress' \in Nat
  BY LogFacts DEF ShadowInv, LogOK
<1>2. Reached' = Reached /\ Unsampled' = Unsampled /\ Seen(Reached)' = Seen(Reached)
  BY DEF Reached, Unsampled, Seen
<1>3. \A n \in 0 .. ingress : n \in 0 .. ingress'
  BY <1>1
<1>4. JournalOK'
  BY <1>1, <1>3 DEF ShadowInv, JournalOK
<1>5. AuditOK'
  BY <1>2 DEF ShadowInv, AuditOK
<1>6. ServiceOK'
  BY <1>2, <1>3 DEF ShadowInv, ServiceOK, RunningOK
<1>7. EngineInv'
  BY DEF ShadowInv, EngineInv
<1>8. StepOK'
  BY <1>2 DEF ShadowInv, StepOK, CycleOK
<1> QED
  BY <1>4, <1>5, <1>6, <1>7, <1>8 DEF ShadowInv

\* The writer appends what is received now (shadow/ingress.py append).
LEMMA AppendKeeps ==
    ASSUME ShadowInv, Append1
    PROVE  ShadowInv'
<1>1. /\ LogOK /\ now \in Nat /\ ingress \in Nat /\ Len(tape) \in Nat
      /\ tape[ingress + 1].receive = now /\ ingress' = ingress + 1 /\ ingress < Len(tape)
      /\ tape' = tape /\ now' = now
  BY LogFacts DEF ShadowInv, Append1
<1>2. ingress' \in 0 .. Len(tape)
  BY <1>1
<1>3. \A q \in 1 .. ingress' : q \in 1 .. ingress \/ q = ingress + 1
  BY <1>1
<1>4. \A q \in 1 .. ingress' : tape[q].receive <= now
  BY <1>1, <1>3 DEF LogOK
<1>5. \A p, q \in 1 .. ingress' : p <= q => tape[p].receive <= tape[q].receive
  <2> SUFFICES ASSUME NEW p \in 1 .. ingress', NEW q \in 1 .. ingress', p <= q
               PROVE  tape[p].receive <= tape[q].receive
    OBVIOUS
  <2>1. CASE q = ingress + 1
    BY <1>1, <1>4, <2>1
  <2>2. CASE q \in 1 .. ingress
    <3>1. p \in 1 .. ingress
      BY <1>1, <2>2
    <3> QED
      BY <2>2, <3>1 DEF ShadowInv, LogOK
  <2> QED
    BY <1>3, <2>1, <2>2
<1>6. LogOK'
  BY <1>1, <1>2, <1>4, <1>5 DEF LogOK
<1>7. OperatorsOK' /\ ingress <= ingress'
  BY <1>1 DEF ShadowInv, OperatorsOK, Append1
<1> QED
  BY <1>6, <1>7, OutsideKeeps DEF Append1

\* Time passes, and the operators use their switch.
LEMMA OthersKeep ==
    ASSUME ShadowInv, Tick \/ Kill \/ Clear
    PROVE  ShadowInv'
<1>1. LogOK /\ now \in Nat /\ MaxTime \in Nat /\ ingress \in Nat
      /\ \A q \in 1 .. Len(tape) : tape[q].receive \in Nat
  BY LogFacts DEF ShadowInv
<1>2. now' \in 0 .. MaxTime /\ now <= now'
  BY <1>1 DEF LogOK, Tick, Kill, Clear
<1>3. \A q \in 1 .. ingress : q \in 1 .. Len(tape)
  BY <1>1 DEF LogOK
<1>4. \A q \in 1 .. ingress : tape[q].receive <= now'
  BY <1>1, <1>2, <1>3 DEF LogOK
<1>5. UNCHANGED <<tape, ingress, crashes, journal, audit, service, engine, step>>
  BY DEF Tick, Kill, Clear
<1>6. LogOK'
  BY <1>1, <1>2, <1>4, <1>5 DEF LogOK
<1>7. OperatorsOK'
  <2>1. DOMAIN kill = {"active", "since", "times"} /\ kill.active \in BOOLEAN
    BY DEF ShadowInv, OperatorsOK
  <2>2. \/ kill' = kill
        \/ kill' = [active |-> TRUE, since |-> now, times |-> kill.times + 1]
        \/ kill' = [kill EXCEPT !.active = FALSE]
    BY DEF Tick, Kill, Clear
  <2>3. ASSUME NEW b \in BOOLEAN
        PROVE  /\ DOMAIN [kill EXCEPT !.active = b] = {"active", "since", "times"}
               /\ [kill EXCEPT !.active = b].active \in BOOLEAN
    BY <2>1
  <2> DEFINE Typed(k) == DOMAIN k = {"active", "since", "times"} /\ k.active \in BOOLEAN
  <2>4. Typed([kill EXCEPT !.active = FALSE])
    BY <2>3
  <2>5. Typed([active |-> TRUE, since |-> now, times |-> kill.times + 1])
    OBVIOUS
  <2>6. Typed(kill')
    <3> HIDE DEF Typed
    <3>1. Typed(kill)
      BY <2>1 DEF Typed
    <3> QED
      BY <2>2, <2>4, <2>5, <3>1
  <2> QED
    BY <1>5, <2>6 DEF ShadowInv, OperatorsOK
<1> QED
  BY <1>1, <1>5, <1>6, <1>7, OutsideKeeps

\* What the assembler has seen by a time it has seen later on.
LEMMA AssemblerLater ==
    ASSUME NEW a, NEW t \in Nat, AssemblerOK(a, t), NEW u \in Nat, t <= u
    PROVE  AssemblerOK(a, u)
<1>1. \A k \in DOMAIN a.trades : a.trades[k] \in TradeFrames
  BY Positions DEF AssemblerOK
<1>2. \A k \in DOMAIN a.trades : a.trades[k].receive \in Nat
  BY <1>1 DEF TradeFrames
<1> QED
  BY <1>2 DEF AssemblerOK

\* The assembler of a new process has seen nothing (paper/market.py).
LEMMA EmptyOK ==
    ASSUME NEW t
    PROVE  AssemblerOK(EmptyAssembler, t)
  BY DEF AssemblerOK, EmptyAssembler

\* A process starts where the last one committed, or at the end of the log
\* (shadow/service.py _initial_cursor).
LEMMA StartKeeps ==
    ASSUME ShadowInv, Start
    PROVE  ShadowInv'
<1> DEFINE cursor == InitialCursor(journal, ingress)
<1>1. service = Down /\ step = Idle /\ engine = Off /\ ingress \in Nat
  BY LogFacts DEF ShadowInv, ServiceOK, RunningOK, Start
<1>2. cursor \in 0 .. ingress /\ journal.checkpoint.source <= cursor
  BY <1>1 DEF ShadowInv, JournalOK, InitialCursor, None
<1>3. /\ DOMAIN service' = ServiceFields /\ service'.up = TRUE /\ service'.cursor = cursor
      /\ service'.a = EmptyAssembler
      /\ service'.runStart = IF journal.start = None THEN ingress ELSE journal.start
  BY DEF Start, ServiceFields
<1>4. UNCHANGED <<now, tape, ingress, kill, journal, audit, engine, step, crashes>>
  BY DEF Start
<1> HIDE DEF cursor
<1>5. step.at = "idle"
  BY <1>1 DEF Idle
<1>6. Reached' = cursor /\ Unsampled' = Unsampled
  BY <1>3, <1>4, <1>5 DEF Reached, Unsampled
<1>7. service'.runStart \in 0 .. ingress
  BY <1>1, <1>3 DEF ShadowInv, JournalOK
<1>8. AssemblerOK(service'.a, Seen(Reached)')
  BY <1>3, EmptyOK
<1>9. RunningOK'
  BY <1>2, <1>3, <1>4, <1>5, <1>6, <1>7, <1>8 DEF RunningOK
<1>10. LogOK' /\ OperatorsOK' /\ JournalOK'
  BY <1>4 DEF ShadowInv, LogOK, OperatorsOK, JournalOK
<1>11. AuditOK'
  BY <1>4, <1>6 DEF ShadowInv, AuditOK
<1>12. EngineInv' /\ StepOK'
  BY <1>1, <1>4, <1>5 DEF EngineInv, StepOK
<1> QED
  BY <1>9, <1>10, <1>11, <1>12 DEF ShadowInv, ServiceOK

\* Two journals that differ in what no order and no cycle depends on.
SameBooks(j, k) == /\ DOMAIN k = JournalFields
                   /\ k.start = j.start /\ k.orders = j.orders
                   /\ k.checkpoint = j.checkpoint /\ k.cycles = j.cycles

\* The process ends with an exception, between two commits of a cycle.
LEMMA FailKeeps ==
    ASSUME ShadowInv, Fail, SameBooks(journal, journal'),
           UNCHANGED <<now, tape, ingress, kill, crashes>>, step.at # "audit"
    PROVE  ShadowInv'
<1>1. service' = Down /\ engine' = Off /\ step' = Idle /\ step'.at = "idle"
  BY DEF Fail, Idle
<1>2. /\ DOMAIN audit' = DOMAIN audit /\ audit'.cycles = audit.cycles
      /\ audit'.failures \subseteq {"service_failure"}
  BY DEF Fail, ShadowInv, AuditOK
<1>3. LogOK' /\ OperatorsOK'
  BY DEF ShadowInv, LogOK, OperatorsOK
<1>4. JournalOK'
  BY DEF ShadowInv, JournalOK, SameBooks
<1>5. Unsampled' = Unsampled
  BY <1>2 DEF Unsampled, SameBooks
<1>6. AuditOK'
  BY <1>1, <1>2, <1>5 DEF ShadowInv, AuditOK, SameBooks
<1>7. ServiceOK' /\ EngineInv' /\ StepOK'
  BY <1>1 DEF ServiceOK, EngineInv, StepOK
<1> QED
  BY <1>3, <1>4, <1>6, <1>7 DEF ShadowInv
\* Reading a frame: the cursor moves, or a market state waits for the engine
\* (shadow/service.py consume_record).
LEMMA ConsumeKeeps ==
    ASSUME ShadowInv, Consume
    PROVE  ShadowInv'
<1> DEFINE q == service.cursor + 1
           e == tape[q]
           seen == [Context(service, e) EXCEPT !.receivedAt = e.receive]
           o == Observe(service.a, e)
<1>1. /\ step.at = "idle" /\ service.cursor < ingress /\ RunningOK
      /\ UNCHANGED <<now, tape, ingress, kill, journal, crashes>>
  BY DEF Consume, Running, ShadowInv, ServiceOK, Down
<1>2. /\ ingress \in Nat /\ service.cursor \in 0 .. ingress /\ Reached = service.cursor
      /\ AssemblerOK(service.a, Seen(service.cursor))
  BY <1>1, LogFacts DEF RunningOK, Reached, ShadowInv
<1>3. /\ q \in 1 .. ingress /\ q \in 1 .. Len(tape)
      /\ e \in Frames /\ Validated(e) /\ e.receive \in Nat
  BY <1>1, <1>2, LogFacts DEF ShadowInv, LogOK
<1>4. Seen(service.cursor) \in Nat /\ Seen(service.cursor) <= e.receive /\ Seen(q) = e.receive
  <2>1. CASE service.cursor = 0
    BY <1>3, <2>1 DEF Seen
  <2>2. CASE service.cursor # 0
    <3>1. service.cursor \in 1 .. ingress /\ service.cursor \in 1 .. Len(tape)
      BY <1>2, <2>2, LogFacts DEF ShadowInv, LogOK
    <3>2. tape[service.cursor].receive <= tape[q].receive
      BY <1>2, <1>3, <3>1 DEF ShadowInv, LogOK
    <3> QED
      BY <1>2, <1>3, <2>2, <3>1, <3>2, LogFacts DEF Seen, ShadowInv
  <2> QED
    BY <2>1, <2>2
<1>5. ~ Raises(service.a, e) =>
         /\ AssemblerOK(o.a, e.receive)
         /\ o.states # <<>> => MarketOK(o.states[1]) /\ Causal(o.states[1])
  BY <1>2, <1>3, <1>4, ObserveOK
<1>6. AssemblerOK(service.a, e.receive)
  BY <1>2, <1>3, <1>4, AssemblerLater
<1>7. /\ DOMAIN seen = ServiceFields /\ seen.up = TRUE /\ seen.cursor = service.cursor
      /\ seen.runStart = service.runStart
  BY <1>1 DEF RunningOK, Context, ServiceFields
<1>8. \/ /\ service' = [service EXCEPT !.cursor = q, !.receivedAt = e.receive]
         /\ UNCHANGED <<audit, engine, step>>
      \/ Fail
      \/ /\ ~ Raises(service.a, e)
         /\ service' = [seen EXCEPT !.a = o.a, !.cursor = q]
         /\ UNCHANGED <<audit, engine, step>>
      \/ /\ ~ Raises(service.a, e) /\ o.states # <<>>
         /\ service' = [seen EXCEPT !.a = o.a]
         /\ step' = [at |-> "market", market |-> o.states[1], source |-> q]
         /\ UNCHANGED <<audit, engine>>
  BY DEF Consume
<1>9. LogOK' /\ OperatorsOK' /\ JournalOK' /\ SameBooks(journal, journal')
  BY <1>1 DEF ShadowInv, LogOK, OperatorsOK, JournalOK, SameBooks
<1>10. journal.checkpoint.source \in {None} \cup 0 .. ingress
       /\ journal.checkpoint.source <= service.cursor
  BY <1>1 DEF ShadowInv, JournalOK, RunningOK
<1> HIDE DEF e, o, seen
<1>11. ASSUME /\ DOMAIN service' = ServiceFields /\ service'.up = TRUE /\ service'.cursor = q
              /\ service'.runStart = service.runStart /\ AssemblerOK(service'.a, e.receive),
              UNCHANGED <<audit, engine, step>>
       PROVE  ShadowInv'
  <2>1. Reached' = q /\ Unsampled' = Unsampled /\ Seen(Reached)' = e.receive
    BY <1>1, <1>3, <1>11 DEF Reached, Unsampled, Seen, e
  <2>2. journal.checkpoint.source <= q
    BY <1>2, <1>10 DEF None
  <2>3. RunningOK'
    BY <1>1, <1>3, <1>11, <2>1, <2>2 DEF RunningOK
  <2>4. AuditOK'
    BY <1>1, <1>11, <2>1 DEF ShadowInv, AuditOK
  <2>5. EngineInv' /\ StepOK'
    BY <1>1, <1>11 DEF ShadowInv, EngineInv, StepOK
  <2> QED
    BY <1>9, <2>3, <2>4, <2>5 DEF ShadowInv, ServiceOK
<1>12. CASE /\ service' = [service EXCEPT !.cursor = q, !.receivedAt = e.receive]
            /\ UNCHANGED <<audit, engine, step>>
  <2>1. /\ DOMAIN service' = ServiceFields /\ service'.up = TRUE /\ service'.cursor = q
        /\ service'.runStart = service.runStart /\ service'.a = service.a
    BY <1>1, <1>12 DEF RunningOK, ServiceFields
  <2> QED
    BY <1>6, <1>11, <1>12, <2>1
<1>13. CASE Fail
  BY <1>1, <1>9, <1>13, FailKeeps
<1>14. CASE /\ ~ Raises(service.a, e)
            /\ service' = [seen EXCEPT !.a = o.a, !.cursor = q]
            /\ UNCHANGED <<audit, engine, step>>
  <2>1. /\ DOMAIN service' = ServiceFields /\ service'.up = TRUE /\ service'.cursor = q
        /\ service'.runStart = service.runStart /\ service'.a = o.a
    BY <1>7, <1>14 DEF ServiceFields
  <2> QED
    BY <1>5, <1>11, <1>14, <2>1
<1>15. CASE /\ ~ Raises(service.a, e) /\ o.states # <<>>
            /\ service' = [seen EXCEPT !.a = o.a]
            /\ step' = [at |-> "market", market |-> o.states[1], source |-> q]
            /\ UNCHANGED <<audit, engine>>
  <2>1. /\ DOMAIN service' = ServiceFields /\ service'.up = TRUE
        /\ service'.cursor = service.cursor
        /\ service'.runStart = service.runStart /\ service'.a = o.a
    BY <1>7, <1>15 DEF ServiceFields
  <2>2. step'.at = "market" /\ step'.market = o.states[1] /\ step'.source = q
    BY <1>15
  <2>3. Reached' = q /\ Unsampled' = Unsampled /\ Seen(Reached)' = e.receive
    BY <1>1, <1>3, <1>15, <2>1, <2>2 DEF Reached, Unsampled, Seen, e
  <2>4. RunningOK'
    BY <1>1, <1>3, <1>5, <1>10, <1>15, <2>1, <2>2, <2>3 DEF RunningOK
  <2>5. AuditOK'
    BY <1>1, <1>15, <2>2, <2>3 DEF ShadowInv, AuditOK
  <2>6. EngineInv'
    BY <1>1, <1>15, <2>1, <2>2 DEF ShadowInv, EngineInv
  <2>7. StepOK'
    BY <1>5, <1>15, <2>2, <2>3 DEF StepOK
  <2> QED
    BY <1>9, <2>4, <2>5, <2>6, <2>7 DEF ShadowInv, ServiceOK
<1> QED
  BY <1>8, <1>12, <1>13, <1>14, <1>15

\* An engine is made for the first market state, from nothing or from the
\* journal (paper/engine.py, __init__ and begin_run).
LEMMA StartEngineKeeps ==
    ASSUME ShadowInv, StartEngine
    PROVE  /\ ShadowInv'
           /\ \A i \in DOMAIN journal.orders :
                 journal.orders[i].state \in Terminal => journal'.orders[i] = journal.orders[i]
<1> DEFINE t == step.market.observed
           mark == IF service.mark = None THEN Mid(step.market) ELSE service.mark
           begun == [journal EXCEPT !.start = service.runStart,
                                    !.account = Account(Capital * Bp, mark, t)]
           made == IF journal.start = None THEN Begin(journal, service.runStart, mark, t)
                   ELSE Resume(journal, t)
<1>1. /\ step.at = "market" /\ service.up /\ RunningOK /\ ~ engine.on
      /\ journal' = made.journal /\ engine' = [made.engine EXCEPT !.startedAt = now]
      /\ UNCHANGED <<now, tape, ingress, kill, audit, service, step, crashes>>
  BY DEF StartEngine, Running, ShadowInv, ServiceOK, Down
<1>2. t \in Nat /\ engine = Off
  BY <1>1 DEF ShadowInv, StepOK, MarketOK, EngineInv, EngineOK
<1>3. /\ TypedOrders(journal.orders) /\ MemoryOK(journal.checkpoint.memory)
      /\ DOMAIN journal.orders \subseteq 1 .. journal.checkpoint.memory.next - 1
      /\ DOMAIN journal = JournalFields
  BY DEF ShadowInv, JournalOK
<1> DEFINE Good(f, k) == /\ EngineOK(f) /\ f.x.changed = {} /\ Recorded(k.orders, f.x)
                         /\ f.memory = journal.checkpoint.memory
                         /\ f.source = journal.checkpoint.source
                         /\ DOMAIN k = JournalFields /\ k.start # None
                         /\ k.start \in 0 .. ingress
                         /\ TypedOrders(k.orders) /\ DOMAIN k.orders = DOMAIN journal.orders
                         /\ k.checkpoint = journal.checkpoint /\ k.cycles = journal.cycles
                         /\ \A i \in DOMAIN journal.orders :
                               journal.orders[i].state \in Terminal
                               => k.orders[i] = journal.orders[i]
<1>4. Good(made.engine, made.journal)
  <2>1. CASE journal.start = None
    <3>1. made.journal = begun /\ made.engine = Restore(begun, t)
      BY <2>1 DEF Begin
    <3>2. /\ DOMAIN begun = JournalFields /\ begun.start = service.runStart
          /\ begun.orders = journal.orders /\ begun.checkpoint = journal.checkpoint
          /\ begun.cycles = journal.cycles
      BY <1>3 DEF JournalFields
    <3> HIDE DEF begun
    <3>3. begun.start \in 0 .. ingress /\ begun.start # None
      BY <1>1, <3>2 DEF RunningOK, None
    <3>4. /\ EngineOK(Restore(begun, t)) /\ Recorded(begun.orders, Restore(begun, t).x)
          /\ Restore(begun, t).x.changed = {}
          /\ Restore(begun, t).memory = begun.checkpoint.memory
          /\ Restore(begun, t).source = begun.checkpoint.source
      BY <1>3, <3>2, RestoreOK
    <3> HIDE DEF made
    <3> QED
      BY <1>3, <3>1, <3>2, <3>3, <3>4
  <2>2. CASE journal.start # None
    <3> DEFINE e == Restore(journal, t)
               x == RequestCancelAll(e.x, t)
               k == RecordCycle(journal, x)
    <3>1. made.journal = RecordEvent(k, "restart_reconciliation")
          /\ made.engine = Resume(journal, t).engine
      BY <2>2 DEF Resume
    <3>2. /\ Tracks(e.x, DOMAIN e.x.orders, x)
          /\ EngineOK(made.engine) /\ made.engine.x = Fresh(x)
          /\ made.engine.memory = journal.checkpoint.memory
          /\ made.engine.source = journal.checkpoint.source
      BY <1>2, <1>3, <3>1, ResumeOK
    <3>3. Recorded(journal.orders, e.x)
      BY <1>3, RestoreOK
    <3> HIDE DEF e, made
    <3>4. Recordable(journal.orders, x) /\ TypedOrders(x.orders) /\ DOMAIN x.orders = DOMAIN e.x.orders
      BY <3>2, <3>3, TrackedIsRecordable
    <3> HIDE DEF x
    <3>5. /\ TypedOrders(WithOrders(journal, x)) /\ Recorded(WithOrders(journal, x), x)
          /\ DOMAIN WithOrders(journal, x) = DOMAIN journal.orders \cup x.changed
          /\ \A i \in DOMAIN journal.orders : journal.orders[i].state \in Terminal
                                              => WithOrders(journal, x)[i] = journal.orders[i]
      BY <1>3, <3>4, RecordsAll
    <3>6. x.changed \subseteq DOMAIN journal.orders
      BY <3>3, <3>4 DEF Recordable, Recorded
    <3>7. /\ DOMAIN made.journal = JournalFields
          /\ made.journal.orders = WithOrders(journal, x)
          /\ made.journal.start = journal.start /\ made.journal.checkpoint = journal.checkpoint
          /\ made.journal.cycles = journal.cycles
      BY <1>3, <3>1 DEF RecordEvent, RecordCycle, JournalFields
    <3>8. Fresh(x).changed = {} /\ Fresh(x).orders = x.orders
      BY <3>2 DEF Fresh, Tracks, OrdersOK, ExchangeFields
    <3>9. journal.start \in 0 .. ingress
      BY <2>2 DEF ShadowInv, JournalOK
    <3>10. Recorded(WithOrders(journal, x), Fresh(x))
      BY <3>5, <3>8 DEF Recorded
    <3>11. DOMAIN WithOrders(journal, x) = DOMAIN journal.orders
      BY <3>5, <3>6
    <3> QED
      BY <2>2, <3>2, <3>5, <3>7, <3>8, <3>9, <3>10, <3>11
  <2> QED
    BY <2>1, <2>2
<1> HIDE DEF made
<1>5. /\ DOMAIN engine' = EngineFields /\ engine'.on = TRUE
      /\ engine'.x = made.engine.x /\ engine'.memory = made.engine.memory
      /\ engine'.source = made.engine.source /\ engine'.market = made.engine.market
  BY <1>1, <1>4 DEF EngineOK, EngineFields
<1>6. EngineOK(engine')
  BY <1>4, <1>5 DEF EngineOK
<1>7. LogOK' /\ OperatorsOK'
  BY <1>1 DEF ShadowInv, LogOK, OperatorsOK
<1>8. JournalOK'
  BY <1>1, <1>4 DEF ShadowInv, JournalOK
<1>9. Unsampled' = Unsampled /\ Reached' = Reached /\ Seen(Reached)' = Seen(Reached)
  BY <1>1, <1>4 DEF Unsampled, Reached, Seen
<1>10. AuditOK'
  BY <1>1, <1>4, <1>9 DEF ShadowInv, AuditOK
<1>11. RunningOK'
  BY <1>1, <1>4, <1>9 DEF RunningOK
<1>12. EngineInv'
  BY <1>1, <1>4, <1>5, <1>6 DEF EngineInv
<1>13. StepOK'
  BY <1>1, <1>9 DEF ShadowInv, StepOK
<1>14. \A i \in DOMAIN journal.orders :
          journal.orders[i].state \in Terminal => journal'.orders[i] = journal.orders[i]
  BY <1>1, <1>4
<1> QED
  BY <1>7, <1>8, <1>10, <1>11, <1>12, <1>13, <1>14 DEF ShadowInv, ServiceOK
\* Every number in orders was given out by the memory of e.
Numbered(orders, e) == DOMAIN orders \subseteq 1 .. e.memory.next - 1

\* What has to be recorded after a cycle of e that ended as d, and the engine f
\* that goes on from it.
CycleReady(orders, e, d, q, f) ==
    /\ Recordable(orders, d.x)
    /\ EngineOK(f) /\ f.x.changed = {} /\ f.x.orders = d.x.orders
    /\ f.memory = d.memory /\ f.source = q /\ d.source = q
    /\ f.memory.next >= e.memory.next

\* What a market state and a decision do to the engine: the cycle they make can
\* be recorded in the journal (paper/engine.py on_market).
LEMMA DecisionIsRecordable ==
    ASSUME NEW e, EngineOK(e), NEW m, MarketOK(m), NEW rate, NEW next, NEW mark, NEW connected,
           NEW q, NEW killed, NEW cancels, NEW submits \in Seq(Intents),
           NEW orders, Recorded(orders, e.x), Numbered(orders, e),
           NEW s, s = Simulate(UpdateContext(e, rate, next), m, mark, connected, q, killed),
           NEW d, d = Decided(s.e, killed, cancels, submits, m.observed),
           NEW f, f = AfterCycle(d)
    PROVE  CycleReady(orders, e, d.e, q, f)
<1> DEFINE u == UpdateContext(e, rate, next)
           e0 == [u EXCEPT !.source = q]
           revision == d.e.structure.revision
           g == [d.e EXCEPT !.persisted = revision, !.x = Fresh(d.e.x)]
           ids == DOMAIN d.e.x.orders
<1>1. EngineOK(u) /\ u.x = e.x /\ u.memory = e.memory
  BY ContextOK
<1> HIDE DEF u
<1>2. /\ DOMAIN e0 = EngineFields /\ e0.on = TRUE /\ e0.source = q /\ e0.x = e.x
      /\ e0.memory = e.memory /\ e0.market = u.market
  BY <1>1 DEF EngineOK, EngineFields
<1>3. Follows(e0, s.e)
  BY <1>1, SimulateOK DEF u
<1> HIDE DEF e0
<1>4. EngineOK(e0)
  BY <1>1, <1>2 DEF EngineOK
<1>5. m.observed \in Nat
  BY DEF MarketOK
<1>6. Follows(e0, d.e)
  BY <1>3, <1>4, <1>5, DecidedOK
<1>7. /\ EngineOK(d.e) /\ d.e.source = q /\ Tracks(e.x, ids, d.e.x)
      /\ d.e.memory.next >= e.memory.next
      /\ \A i \in ids \ DOMAIN e.x.orders : i >= e.memory.next
  BY <1>2, <1>6 DEF Follows
<1>8. \A i \in ids \ DOMAIN e.x.orders : i \notin DOMAIN orders
  <2>1. e.memory.next \in Nat
    BY DEF EngineOK, MemoryOK
  <2>2. \A i \in DOMAIN orders : i \in Nat /\ i < e.memory.next
    BY <2>1 DEF Numbered
  <2> QED
    BY <1>7, <2>1, <2>2
<1>9. Recordable(orders, d.e.x)
  BY <1>7, <1>8, TrackedIsRecordable
<1>10. f = g
  BY DEF AfterCycle
<1> HIDE DEF revision
<1>11. /\ DOMAIN f = EngineFields /\ f.on = TRUE /\ f.source = q /\ f.memory = d.e.memory
       /\ f.market = d.e.market /\ f.x = Fresh(d.e.x)
  BY <1>7, <1>10 DEF EngineOK, EngineFields
<1> HIDE DEF g
<1>12. OrdersOK(ids, d.e.x)
  BY <1>7 DEF EngineOK
<1>13. OrdersOK(ids, Fresh(d.e.x))
  BY <1>12, FreshTracks
<1>14. Fresh(d.e.x).orders = d.e.x.orders /\ Fresh(d.e.x).changed = {}
  BY <1>12 DEF Fresh, OrdersOK, ExchangeFields
<1>15. EngineOK(f)
  BY <1>7, <1>11, <1>13, <1>14, ZenonT(40) DEF EngineOK
<1> QED
  BY <1>7, <1>9, <1>11, <1>14, <1>15 DEF CycleReady

\* A market state is simulated and decided on, and the cycle waits for its
\* commit; or the engine refuses the state.
LEMMA DecisionKeeps ==
    ASSUME ShadowInv, NEW cancels, NEW submits \in Seq(Intents), Decision(cancels, submits)
    PROVE  ShadowInv' /\ journal'.orders = journal.orders
<1> DEFINE m == step.market
           q == step.source
           u == UpdateContext(engine, service.rate, service.nextFunding)
           connected == /\ service.contextAt # None
                        /\ m.observed - service.contextAt <= Limits.publicStale
                        /\ now - service.receivedAt <= MaxLag
           killed == kill.active
           s == Simulate(u, m, service.mark, connected, q, killed)
           early == RecordDrills(IF FundingGap(u, m.observed)
                                 THEN RecordEvent(journal, "funding_gap") ELSE journal, s.drills)
           d == Decided(s.e, killed, cancels, submits, m.observed)
<1>1. /\ step.at = "market" /\ RunningOK /\ engine # Off
      /\ UNCHANGED <<now, tape, ingress, kill, crashes>>
  BY SMTT(30) DEF Decision, Running, ShadowInv, ServiceOK, Down, Off
<1>2. /\ EngineOK(engine) /\ MarketOK(m) /\ q = Reached
      /\ engine.memory.next = journal.checkpoint.memory.next
      /\ Recorded(journal.orders, engine.x) /\ journal.start # None
      /\ DOMAIN journal.orders \subseteq 1 .. engine.memory.next - 1
  BY <1>1 DEF ShadowInv, EngineInv, StepOK, JournalOK
<1>3. \/ Fail /\ UNCHANGED journal
      \/ Fail /\ journal' = early
      \/ /\ journal' = early \/ journal' = [early EXCEPT !.structure = d.e.structure]
         /\ engine' = AfterCycle(d)
         /\ step' = [at |-> "commit", c |-> Cycle(s, d, m, q)]
         /\ UNCHANGED <<audit, service>>
  BY DEF Decision
<1>4. /\ Recordable(journal.orders, d.e.x)
      /\ EngineOK(AfterCycle(d)) /\ AfterCycle(d).x.changed = {}
      /\ AfterCycle(d).x.orders = d.e.x.orders
      /\ AfterCycle(d).memory = d.e.memory /\ AfterCycle(d).source = q /\ d.e.source = q
      /\ AfterCycle(d).memory.next >= engine.memory.next
  <2> DEFINE f == AfterCycle(d)
  <2>1. /\ s = Simulate(UpdateContext(engine, service.rate, service.nextFunding), m, service.mark,
                       connected, q, killed)
        /\ d = Decided(s.e, killed, cancels, submits, m.observed) /\ f = AfterCycle(d)
    OBVIOUS
  <2> HIDE DEF m, q, connected, killed, s, d, f
  <2>2. CycleReady(journal.orders, engine, d.e, q, f)
    <3>1. Numbered(journal.orders, engine)
      BY <1>2 DEF Numbered
    <3> QED
      BY <1>2, <2>1, <3>1, DecisionIsRecordable
  <2> QED
    BY <2>1, <2>2 DEF CycleReady
<1>5. SameBooks(journal, early)
  <2> DEFINE base == IF FundingGap(u, m.observed)
                     THEN RecordEvent(journal, "funding_gap") ELSE journal
  <2>1. DOMAIN journal = JournalFields
    BY DEF ShadowInv, JournalOK
  <2>2. SameBooks(journal, base)
    BY <2>1 DEF SameBooks, RecordEvent, JournalFields
  <2>3. early = RecordDrills(base, s.drills)
    OBVIOUS
  <2> HIDE DEF base, s, early
  <2> QED
    BY <2>2, <2>3 DEF SameBooks, RecordDrills, JournalFields
<1> HIDE DEF early
<1>6. SameBooks(journal, [early EXCEPT !.structure = d.e.structure])
  <2> DEFINE z == d.e.structure
  <2> HIDE DEF d, z
  <2>1. SameBooks(journal, [early EXCEPT !.structure = z])
    BY <1>5 DEF SameBooks, JournalFields
  <2> QED
    BY <2>1 DEF z
<1>7. SameBooks(journal, journal)
  BY DEF SameBooks, ShadowInv, JournalOK
<1>8. ASSUME Fail, SameBooks(journal, journal')
      PROVE  ShadowInv' /\ journal'.orders = journal.orders
  BY <1>1, <1>8, FailKeeps DEF SameBooks
<1>9. ASSUME SameBooks(journal, journal'), engine' = AfterCycle(d),
             step' = [at |-> "commit", c |-> Cycle(s, d, m, q)], UNCHANGED <<audit, service>>
      PROVE  ShadowInv' /\ journal'.orders = journal.orders
  <2> DEFINE c == Cycle(s, d, m, q)
  <2>1. /\ step'.at = "commit" /\ step'.c = c
        /\ c.x = d.e.x /\ c.source = q
        /\ c.checkpoint.memory = d.e.memory /\ c.checkpoint.source = d.e.source
    BY <1>9 DEF Cycle, CheckpointOf
  <2> HIDE DEF c, d, s, m, connected, killed
  <2>2. Reached' = Reached /\ Unsampled' = Unsampled /\ Seen(Reached)' = Seen(Reached)
    BY <1>1, <1>9, <2>1 DEF Reached, Unsampled, Seen, SameBooks
  <2>3. LogOK' /\ OperatorsOK'
    BY <1>1 DEF ShadowInv, LogOK, OperatorsOK
  <2>4. JournalOK'
    BY <1>1, <1>9 DEF ShadowInv, JournalOK, SameBooks
  <2>5. AuditOK'
    BY <1>1, <1>9, <2>1, <2>2 DEF ShadowInv, AuditOK, SameBooks
  <2>6. RunningOK'
    BY <1>1, <1>9, <2>1, <2>2 DEF RunningOK, SameBooks
  <2>7. EngineInv'
    BY <1>1, <1>2, <1>4, <1>9, <2>1, <2>6 DEF EngineInv, SameBooks, RunningOK
  <2>8. engine' # Off
    BY <1>4, <1>9 DEF EngineOK, Off, EngineFields
  <2>9. CycleOK(step.c)'
    BY <1>2, <1>4, <1>9, <2>1, <2>2 DEF CycleOK, SameBooks
  <2>10. StepOK'
    BY <2>1, <2>8, <2>9 DEF StepOK
  <2> QED
    BY <1>9, <2>3, <2>4, <2>5, <2>6, <2>7, <2>10 DEF ShadowInv, ServiceOK, SameBooks
<1> HIDE DEF d, s, m, q, connected, killed
<1> QED
  BY <1>3, <1>5, <1>6, <1>7, <1>8, <1>9

\* The strategy submits what is on the menu, or nothing.
LEMMA DecideKeeps ==
    ASSUME ShadowInv, Decide1
    PROVE  ShadowInv' /\ journal'.orders = journal.orders
<1>1. \A submits \in Submissions : submits \in Seq(Intents)
  <2>1. \A intent \in Menu : <<intent>> \in Seq(Intents)
    BY ShadowAssumption
  <2>2. <<>> \in Seq(Intents)
    OBVIOUS
  <2>3. ASSUME NEW submits \in Submissions
        PROVE  submits = <<>> \/ \E intent \in Menu : submits = <<intent>>
    BY DEF Submissions
  <2> QED
    BY <2>1, <2>2, <2>3
<1>2. PICK cancels \in {{}, Open(engine.x)}, submits \in Submissions : Decision(cancels, submits)
  BY DEF Decide1
<1> QED
  BY <1>1, <1>2, DecisionKeeps
\* There are finitely many cycles, so that samples can be counted.
LEMMA CyclesAreFinite ==
    ASSUME ShadowInv
    PROVE  /\ IsFiniteSet(DOMAIN journal.cycles) /\ IsFiniteSet(Unsampled)
           /\ Cardinality(Unsampled) \in Nat /\ crashes \in Nat
<1>1. ingress \in Nat /\ MaxCrashes \in Nat
  BY LogFacts, ShadowAssumption DEF ShadowInv
<1>2. IsFiniteSet(1 .. ingress)
  BY <1>1, FS_Interval
<1>3. IsFiniteSet(DOMAIN journal.cycles)
  BY <1>2, FS_Subset DEF ShadowInv, JournalOK
<1>4. IsFiniteSet(Unsampled)
  BY <1>3, FS_Subset DEF Unsampled
<1> QED
  BY <1>1, <1>3, <1>4, FS_CardinalityType DEF ShadowInv, OperatorsOK

\* The commit of a cycle (paper/journal.py record_engine_cycle): one transaction
\* with the orders, the cycle and the checkpoint.
LEMMA CommitKeeps ==
    ASSUME ShadowInv, CommitCycle
    PROVE  /\ ShadowInv'
           /\ \A i \in DOMAIN journal.orders :
                 journal.orders[i].state \in Terminal => journal'.orders[i] = journal.orders[i]
<1> DEFINE c == step.c
           r == WithOrders(journal, c.x)
<1>1. /\ step.at = "commit" /\ RunningOK /\ engine # Off
      /\ journal' = RecordEngineCycle(journal, c)
      /\ step' = [at |-> "audit", source |-> c.source]
      /\ UNCHANGED <<now, tape, ingress, kill, audit, service, engine, crashes>>
  BY DEF CommitCycle, Running, ShadowInv, ServiceOK, StepOK, Down
<1>2. /\ CycleOK(c) /\ EngineOK(engine) /\ journal.start # None /\ engine.x.changed = {}
  BY <1>1 DEF ShadowInv, StepOK, EngineInv
<1>3. /\ TypedOrders(journal.orders) /\ Recordable(journal.orders, c.x)
      /\ c.x.orders = engine.x.orders /\ TypedOrders(c.x.orders)
  BY <1>2 DEF ShadowInv, JournalOK, CycleOK, EngineOK, OrdersOK, TypedOrders
<1>4. /\ TypedOrders(r) /\ Recorded(r, c.x) /\ DOMAIN r = DOMAIN journal.orders \cup c.x.changed
      /\ \A i \in DOMAIN journal.orders : journal.orders[i].state \in Terminal
                                          => r[i] = journal.orders[i]
  BY <1>3, RecordsAll
<1>5. /\ DOMAIN journal' = JournalFields /\ journal'.orders = r
      /\ journal'.start = journal.start /\ journal'.checkpoint = c.checkpoint
      /\ DOMAIN journal'.cycles = DOMAIN journal.cycles \cup {c.source}
  <2>1. DOMAIN journal = JournalFields
    BY DEF ShadowInv, JournalOK
  <2> DEFINE fills == journal.fills \cup ToSet(c.x.fills)
             j == [journal EXCEPT !.orders = r, !.fills = fills, !.account = c.x.account]
             cycles == [q \in DOMAIN j.cycles \cup {c.source} |->
                           IF q = c.source THEN c.trades ELSE j.cycles[q]]
  <2>2. /\ DOMAIN j = JournalFields /\ j.orders = r /\ j.start = journal.start
        /\ j.cycles = journal.cycles
    BY <2>1 DEF JournalFields
  <2>3. journal' = [j EXCEPT
            !.approved = @ + c.approved, !.denied = @ + c.denied,
            !.independent = @ + c.independent, !.submits = @ + c.approved,
            !.markouts = @ \cup c.markouts, !.cycles = cycles, !.checkpoint = c.checkpoint]
    BY <1>1 DEF RecordEngineCycle, RecordCycle
  <2>4. DOMAIN cycles = DOMAIN journal.cycles \cup {c.source}
    BY <2>2
  <2> HIDE DEF j, cycles, c, r
  <2> QED
    BY <2>2, <2>3, <2>4 DEF JournalFields
<1> HIDE DEF r
<1>6. /\ c.source = Reached /\ c.checkpoint.source = Reached
      /\ c.checkpoint.memory = engine.memory /\ engine.source = Reached
      /\ engine.memory.next >= journal.checkpoint.memory.next
  BY <1>2 DEF CycleOK
<1> HIDE DEF c
<1>7. /\ ingress \in Nat /\ service.cursor \in 0 .. ingress /\ Reached = service.cursor + 1
      /\ Reached \in 1 .. ingress
  BY <1>1, LogFacts DEF ShadowInv, RunningOK, Reached
<1>8. Reached' = Reached /\ Seen(Reached)' = Seen(Reached) /\ step'.at = "audit"
      /\ step'.source = Reached
  BY <1>1, <1>6 DEF Reached, Seen
<1>9. \A q \in DOMAIN journal.cycles : q \in 1 .. ingress /\ q <= service.cursor /\ q # Reached
  <2>1. journal.checkpoint.source \in {None} \cup 0 .. ingress
        /\ journal.checkpoint.source <= service.cursor
        /\ \A q \in DOMAIN journal.cycles : q \in 1 .. ingress /\ q <= journal.checkpoint.source
    BY <1>1 DEF ShadowInv, JournalOK, RunningOK
  <2> QED
    BY <1>7, <2>1 DEF None
<1>10. DOMAIN r \subseteq 1 .. engine.memory.next - 1
  <2>1. c.x.changed \subseteq 1 .. engine.memory.next - 1
    BY <1>2, <1>3 DEF EngineOK, Recordable
  <2>2. DOMAIN journal.orders \subseteq 1 .. engine.memory.next - 1
    <3>1. DOMAIN journal.orders \subseteq 1 .. journal.checkpoint.memory.next - 1
          /\ journal.checkpoint.memory.next \in Nat /\ engine.memory.next \in Nat
      BY <1>2 DEF ShadowInv, JournalOK, EngineOK, MemoryOK
    <3> QED
      BY <1>6, <3>1
  <2> QED
    BY <1>4, <2>1, <2>2
<1>11. JournalOK'
  <2>1. MemoryOK(engine.memory)
    BY <1>2 DEF EngineOK
  <2>2. DOMAIN journal'.cycles \subseteq 1 .. ingress
    BY <1>5, <1>6, <1>7, <1>9
  <2>3. \A q \in DOMAIN journal'.cycles : q <= Reached
    BY <1>5, <1>6, <1>7, <1>9
  <2>4. journal.start \in {None} \cup 0 .. ingress /\ Reached \in 0 .. ingress
    BY <1>7 DEF ShadowInv, JournalOK
  <2> QED
    BY <1>1, <1>4, <1>5, <1>6, <1>10, <2>1, <2>2, <2>3, <2>4 DEF JournalOK
<1>12. AuditOK'
  <2>1. Unsampled' = Unsampled \cup {Reached} /\ Reached \notin Unsampled
    BY <1>1, <1>5, <1>6, <1>9 DEF Unsampled, ShadowInv, AuditOK
  <2>2. Cardinality(Unsampled') = Cardinality(Unsampled) + 1
    BY <2>1, CyclesAreFinite, FS_AddElement
  <2>3. Cardinality(Unsampled) <= crashes /\ Cardinality(Unsampled) \in Nat /\ crashes \in Nat
    BY <1>1, CyclesAreFinite DEF ShadowInv, AuditOK
  <2> QED
    BY <1>1, <1>5, <1>8, <2>2, <2>3 DEF ShadowInv, AuditOK
<1>13. RunningOK'
  BY <1>1, <1>5, <1>6, <1>7, <1>8 DEF RunningOK
<1>14. EngineInv'
  <2>1. Recorded(r, engine.x)
    BY <1>3, <1>4 DEF Recorded
  <2> QED
    BY <1>1, <1>2, <1>5, <1>6, <2>1 DEF EngineInv, RunningOK
<1>15. StepOK'
  <2>1. Reached \in Unsampled'
    BY <1>1, <1>5, <1>6, <1>9 DEF Unsampled, ShadowInv, AuditOK
  <2> QED
    BY <1>8, <2>1 DEF StepOK
<1>16. LogOK' /\ OperatorsOK'
  BY <1>1 DEF ShadowInv, LogOK, OperatorsOK
<1> QED
  BY <1>4, <1>5, <1>11, <1>12, <1>13, <1>14, <1>15, <1>16 DEF ShadowInv, ServiceOK

\* The sample in the other database (shadow/evidence.py record_cycle), after
\* which the cursor follows.
LEMMA AuditKeeps ==
    ASSUME ShadowInv, AuditCycle
    PROVE  ShadowInv'
<1>1. /\ step.at = "audit" /\ RunningOK
      /\ audit' = [audit EXCEPT !.cycles = @ \cup {step.source}]
      /\ service' = [service EXCEPT !.cursor = step.source]
      /\ step' = Idle
      /\ UNCHANGED <<now, tape, ingress, kill, journal, engine, crashes>>
  BY DEF AuditCycle, Running, ShadowInv, ServiceOK, Down
<1>2. step.source = Reached /\ Reached \in Unsampled
  BY <1>1 DEF ShadowInv, StepOK
<1>3. /\ DOMAIN service' = ServiceFields /\ service'.up = TRUE /\ service'.cursor = Reached
      /\ service'.runStart = service.runStart /\ service'.a = service.a
  BY <1>1, <1>2 DEF RunningOK, ServiceFields
<1>4. DOMAIN audit' = {"cycles", "failures"} /\ audit'.failures = audit.failures
      /\ audit'.cycles = audit.cycles \cup {Reached}
  BY <1>1, <1>2 DEF ShadowInv, AuditOK
<1>5. step'.at = "idle"
  BY <1>1 DEF Idle
<1>6. Reached' = Reached /\ Seen(Reached)' = Seen(Reached)
  BY <1>1, <1>3, <1>5 DEF Reached, Seen
<1>7. Unsampled' = Unsampled \ {Reached}
  BY <1>1, <1>4 DEF Unsampled
<1>8. AuditOK'
  <2>1. Cardinality(Unsampled') = Cardinality(Unsampled) - 1
    BY <1>2, <1>7, CyclesAreFinite, FS_RemoveElement
  <2>2. Cardinality(Unsampled) <= crashes + 1
    BY <1>1 DEF ShadowInv, AuditOK
  <2>3. Cardinality(Unsampled') <= crashes
    BY <2>1, <2>2, CyclesAreFinite
  <2>4. audit'.cycles \subseteq DOMAIN journal.cycles
    BY <1>2, <1>4 DEF ShadowInv, AuditOK, Unsampled
  <2>5. crashes + 0 = crashes
    BY CyclesAreFinite
  <2> QED
    BY <1>1, <1>4, <1>5, <2>3, <2>4, <2>5 DEF ShadowInv, AuditOK
<1>9. RunningOK'
  BY <1>1, <1>3, <1>5, <1>6 DEF RunningOK
<1>10. EngineInv' /\ StepOK'
  BY <1>1, <1>3, <1>5 DEF ShadowInv, EngineInv, StepOK
<1>11. LogOK' /\ OperatorsOK' /\ JournalOK'
  BY <1>1 DEF ShadowInv, LogOK, OperatorsOK, JournalOK
<1> QED
  BY <1>8, <1>9, <1>10, <1>11 DEF ShadowInv, ServiceOK

\* The watchdog of an idle process: what it changes is recorded at once
\* (shadow/service.py _watchdog).
LEMMA WatchdogKeeps ==
    ASSUME ShadowInv, WatchdogCall
    PROVE  /\ ShadowInv'
           /\ \A i \in DOMAIN journal.orders :
                 journal.orders[i].state \in Terminal => journal'.orders[i] = journal.orders[i]
<1> DEFINE connected == service.receivedAt # None /\ now - service.receivedAt <= MaxLag
           killed == kill.active
           w == Watchdog(engine, connected, killed, now)
<1>1. /\ step.at = "idle" /\ RunningOK
      /\ service' = [service EXCEPT !.nextWatchdog = now + WatchdogInterval]
      /\ UNCHANGED <<now, tape, ingress, kill, audit, crashes>>
  BY DEF WatchdogCall, Running, ShadowInv, ServiceOK, Down
<1>2. \/ UNCHANGED <<engine, journal, step>>
      \/ /\ engine.on /\ engine' = w.e /\ w.x.changed = {}
         /\ journal' = RecordDrills(journal, w.drills) /\ step' = step
      \/ /\ engine.on /\ engine' = w.e /\ journal' = RecordCycle(journal, w.x)
         /\ step' = [at |-> "checkpoint", drills |-> w.drills]
  BY DEF WatchdogCall
<1>3. /\ DOMAIN service' = ServiceFields /\ service'.up = TRUE /\ service'.a = service.a
      /\ service'.cursor = service.cursor /\ service'.runStart = service.runStart
  BY <1>1 DEF RunningOK, ServiceFields
<1>4. /\ DOMAIN journal = JournalFields /\ TypedOrders(journal.orders)
  BY DEF ShadowInv, JournalOK
<1> DEFINE Stays == \A i \in DOMAIN journal.orders :
                       journal.orders[i].state \in Terminal => journal'.orders[i] = journal.orders[i]
           Kin == /\ DOMAIN journal' = JournalFields /\ journal'.start = journal.start
                  /\ journal'.checkpoint = journal.checkpoint /\ journal'.cycles = journal.cycles
                  /\ TypedOrders(journal'.orders) /\ DOMAIN journal'.orders = DOMAIN journal.orders
<1>5. ASSUME engine.on
      PROVE  /\ EngineOK(engine) /\ Recorded(journal.orders, engine.x) /\ journal.start # None
             /\ engine.source = journal.checkpoint.source
             /\ engine.memory.next = journal.checkpoint.memory.next
             /\ Recordable(journal.orders, w.x) /\ TypedOrders(w.x.orders)
             /\ EngineOK(w.e) /\ w.e.x.changed = {} /\ w.e.x.orders = w.x.orders
             /\ w.e.memory.next = engine.memory.next /\ w.e.source = engine.source
             /\ DOMAIN w.x.orders \subseteq DOMAIN journal.orders
  <2> HIDE DEF connected, killed
  <2>1. /\ EngineOK(engine) /\ Recorded(journal.orders, engine.x) /\ journal.start # None
        /\ engine.source = journal.checkpoint.source
        /\ engine.memory.next = journal.checkpoint.memory.next
    BY <1>1, <1>5 DEF ShadowInv, EngineInv, Off
  <2>2. now \in Nat
    BY LogFacts DEF ShadowInv
  <2>3. /\ Tracks(engine.x, DOMAIN engine.x.orders, w.x)
        /\ EngineOK(w.e) /\ w.e.x = Fresh(w.x)
        /\ w.e.memory.next = engine.memory.next /\ w.e.source = engine.source
    BY <2>1, <2>2, WatchdogOK
  <2> HIDE DEF w
  <2>4. Recordable(journal.orders, w.x) /\ TypedOrders(w.x.orders)
        /\ DOMAIN w.x.orders = DOMAIN engine.x.orders
    BY <2>1, <2>3, TrackedIsRecordable
  <2>5. w.e.x.changed = {} /\ w.e.x.orders = w.x.orders
    BY <2>3 DEF Fresh, Tracks, OrdersOK, ExchangeFields
  <2> QED
    BY <2>1, <2>3, <2>4, <2>5 DEF Recorded
<1> HIDE DEF w, connected, killed
<1>6. ASSUME Kin, step'.at = "idle" \/ (step'.at = "checkpoint" /\ engine' # Off),
             EngineInv'
      PROVE  ShadowInv'
  <2>1. Reached' = Reached /\ Unsampled' = Unsampled /\ Seen(Reached)' = Seen(Reached)
    BY <1>1, <1>3, <1>6 DEF Reached, Unsampled, Seen
  <2>2. LogOK' /\ OperatorsOK'
    BY <1>1 DEF ShadowInv, LogOK, OperatorsOK
  <2>3. JournalOK'
    BY <1>1, <1>6 DEF ShadowInv, JournalOK
  <2>4. AuditOK'
    BY <1>1, <1>6, <2>1 DEF ShadowInv, AuditOK
  <2>5. RunningOK'
    BY <1>1, <1>3, <1>6, <2>1 DEF RunningOK
  <2>6. StepOK'
    BY <1>6 DEF StepOK
  <2> QED
    BY <1>6, <2>2, <2>3, <2>4, <2>5, <2>6 DEF ShadowInv, ServiceOK
<1>7. CASE UNCHANGED <<engine, journal, step>>
  <2>1. Kin /\ Stays
    BY <1>4, <1>7
  <2>2. EngineInv'
    BY <1>1, <1>3, <1>7 DEF ShadowInv, EngineInv
  <2> QED
    BY <1>1, <1>6, <1>7, <2>1, <2>2
<1>8. CASE /\ engine.on /\ engine' = w.e /\ w.x.changed = {}
           /\ journal' = RecordDrills(journal, w.drills) /\ step' = step
  <2>1. Kin /\ Stays /\ journal'.orders = journal.orders
    BY <1>4, <1>8 DEF RecordDrills, JournalFields
  <2>2. Recorded(journal.orders, w.e.x)
    BY <1>5, <1>8 DEF Recordable, Recorded
  <2>3. EngineInv'
    BY <1>3, <1>5, <1>8, <2>1, <2>2 DEF EngineInv
  <2> QED
    BY <1>1, <1>6, <1>8, <2>1, <2>3
<1>9. CASE /\ engine.on /\ engine' = w.e /\ journal' = RecordCycle(journal, w.x)
           /\ step' = [at |-> "checkpoint", drills |-> w.drills]
  <2> DEFINE r == WithOrders(journal, w.x)
  <2>1. /\ TypedOrders(r) /\ Recorded(r, w.x)
        /\ DOMAIN r = DOMAIN journal.orders \cup w.x.changed
        /\ \A i \in DOMAIN journal.orders : journal.orders[i].state \in Terminal
                                            => r[i] = journal.orders[i]
    <3> DEFINE x == w.x
    <3>1. Recordable(journal.orders, x) /\ TypedOrders(x.orders)
      BY <1>5, <1>9
    <3> HIDE DEF x
    <3>2. /\ TypedOrders(WithOrders(journal, x)) /\ Recorded(WithOrders(journal, x), x)
          /\ DOMAIN WithOrders(journal, x) = DOMAIN journal.orders \cup x.changed
          /\ \A i \in DOMAIN journal.orders : journal.orders[i].state \in Terminal
                                              => WithOrders(journal, x)[i] = journal.orders[i]
      BY <1>4, <3>1, RecordsAll
    <3> QED
      BY <3>2 DEF x
  <2>2. w.x.changed \subseteq DOMAIN journal.orders
    BY <1>5, <1>9 DEF Recordable
  <2>3. /\ DOMAIN journal' = JournalFields /\ journal'.start = journal.start
        /\ journal'.checkpoint = journal.checkpoint /\ journal'.cycles = journal.cycles
        /\ journal'.orders = r
    BY <1>4, <1>9 DEF RecordCycle, JournalFields
  <2> HIDE DEF r
  <2>4. Kin /\ Stays
    BY <2>1, <2>2, <2>3
  <2>5. Recorded(r, w.e.x)
    BY <1>5, <1>9, <2>1 DEF Recorded
  <2>6. EngineInv'
    BY <1>3, <1>5, <1>9, <2>3, <2>5 DEF EngineInv
  <2>7. engine' # Off /\ step'.at = "checkpoint"
    BY <1>5, <1>9 DEF EngineOK, Off, EngineFields
  <2> QED
    BY <1>6, <2>4, <2>6, <2>7
<1> QED
  BY <1>2, <1>7, <1>8, <1>9

\* The checkpoint of the watchdog, in a transaction of its own.
LEMMA CheckpointKeeps ==
    ASSUME ShadowInv, WatchdogCheckpoint
    PROVE  ShadowInv' /\ journal'.orders = journal.orders
<1> DEFINE c == CheckpointOf(engine, now)
<1>1. /\ step.at = "checkpoint" /\ RunningOK
      /\ journal' = RecordDrills(RecordCheckpoint(journal, c), step.drills)
      /\ step' = Idle
      /\ UNCHANGED <<now, tape, ingress, kill, audit, service, engine, crashes>>
  BY DEF WatchdogCheckpoint, Running, ShadowInv, ServiceOK, Down
<1>2. /\ EngineOK(engine) /\ engine.source = journal.checkpoint.source
      /\ engine.memory.next = journal.checkpoint.memory.next
  BY <1>1 DEF ShadowInv, StepOK, EngineInv
<1>3. c.memory = engine.memory /\ c.source = engine.source
  BY DEF CheckpointOf
<1> HIDE DEF c
<1>4. /\ DOMAIN journal' = JournalFields /\ journal'.start = journal.start
      /\ journal'.orders = journal.orders /\ journal'.cycles = journal.cycles
      /\ journal'.checkpoint = c
  BY <1>1 DEF ShadowInv, JournalOK, RecordDrills, RecordCheckpoint, JournalFields
<1>5. MemoryOK(c.memory)
  BY <1>2, <1>3 DEF EngineOK
<1>6. step'.at = "idle"
  BY <1>1 DEF Idle
<1>7. Reached' = Reached /\ Unsampled' = Unsampled /\ Seen(Reached)' = Seen(Reached)
  BY <1>1, <1>4, <1>6 DEF Reached, Unsampled, Seen
<1>8. LogOK' /\ OperatorsOK'
  BY <1>1 DEF ShadowInv, LogOK, OperatorsOK
<1>9. JournalOK'
  BY <1>1, <1>2, <1>3, <1>4, <1>5 DEF ShadowInv, JournalOK
<1>10. AuditOK'
  BY <1>1, <1>4, <1>6, <1>7 DEF ShadowInv, AuditOK
<1>11. RunningOK'
  BY <1>1, <1>2, <1>3, <1>4, <1>6, <1>7 DEF RunningOK
<1>12. EngineInv' /\ StepOK'
  BY <1>1, <1>2, <1>3, <1>4, <1>6 DEF ShadowInv, EngineInv, StepOK
<1> QED
  BY <1>4, <1>8, <1>9, <1>10, <1>11, <1>12 DEF ShadowInv, ServiceOK

\* A crash leaves what was committed, and may cost the sample of a cycle that
\* was committed just before.
LEMMA CrashKeeps ==
    ASSUME ShadowInv, Crash
    PROVE  ShadowInv'
<1>1. /\ crashes < MaxCrashes /\ crashes' = crashes + 1
      /\ service' = Down /\ engine' = Off /\ step' = Idle /\ step'.at = "idle"
      /\ UNCHANGED <<now, tape, ingress, kill, journal, audit>>
  BY DEF Crash, Idle
<1>2. crashes \in Nat /\ Cardinality(Unsampled) \in Nat /\ MaxCrashes \in Nat
  BY CyclesAreFinite, ShadowAssumption
<1>3. OperatorsOK'
  BY <1>1, <1>2 DEF ShadowInv, OperatorsOK
<1>4. Unsampled' = Unsampled
  BY <1>1 DEF Unsampled
<1>5. Cardinality(Unsampled) <= crashes + 1 + 0
  BY <1>2 DEF ShadowInv, AuditOK
<1>6. AuditOK'
  BY <1>1, <1>4, <1>5 DEF ShadowInv, AuditOK
<1>7. LogOK' /\ JournalOK'
  BY <1>1 DEF ShadowInv, LogOK, JournalOK
<1>8. ServiceOK' /\ EngineInv' /\ StepOK'
  BY <1>1 DEF ServiceOK, EngineInv, StepOK
<1> QED
  BY <1>3, <1>6, <1>7, <1>8 DEF ShadowInv
\* Nothing was received, recorded or started (shadow/service.py).
LEMMA ShadowInitially == Init => ShadowInv
<1> SUFFICES ASSUME Init
             PROVE  ShadowInv
  OBVIOUS
<1>1. tape \in Seq(Frames) /\ ingress = 0 /\ now = 0 /\ MaxTime \in Nat /\ MaxCrashes \in Nat
  BY ShadowAssumption DEF Init
<1>2. 1 .. 0 = {}
  OBVIOUS
<1>3. Len(tape) \in Nat
  BY <1>1
<1>4. LogOK
  BY <1>1, <1>2, <1>3 DEF Init, LogOK
<1>5. OperatorsOK
  BY <1>1 DEF Init, OperatorsOK
<1>6. /\ DOMAIN journal = JournalFields /\ journal.start = None /\ journal.orders = <<>>
      /\ journal.cycles = <<>> /\ journal.checkpoint = NoCheckpoint
  BY DEF Init, NewJournal, JournalFields
<1>7. /\ MemoryOK(journal.checkpoint.memory) /\ journal.checkpoint.memory.next = 1
      /\ journal.checkpoint.source = None
  BY <1>6 DEF NoCheckpoint, NewMemory, MemoryOK
<1>8. DOMAIN journal.orders = {} /\ DOMAIN journal.cycles = {}
  BY <1>2, <1>6
<1>9. TypedOrders(journal.orders)
  BY <1>6, <1>8 DEF TypedOrders
<1>10. JournalOK
  BY <1>6, <1>7, <1>8, <1>9 DEF JournalOK
<1>11. audit.cycles = {} /\ audit.failures = {} /\ DOMAIN audit = {"cycles", "failures"}
       /\ crashes = 0 /\ step = Idle /\ step.at = "idle" /\ service = Down /\ engine = Off
  BY DEF Init, Idle
<1>12. Cardinality(Unsampled) = 0
  BY <1>8, FS_EmptySet DEF Unsampled
<1>13. AuditOK
  BY <1>11, <1>12 DEF AuditOK
<1>14. ServiceOK /\ EngineInv /\ StepOK
  BY <1>11 DEF ServiceOK, EngineInv, StepOK
<1> QED
  BY <1>4, <1>5, <1>10, <1>13, <1>14 DEF ShadowInv

\* What a step may do to an order that ended.
EndedStays == \A i \in DOMAIN journal.orders :
                 journal.orders[i].state \in Terminal => journal'.orders[i] = journal.orders[i]

\* Every step of the gateway, the process and the operators.
LEMMA ShadowStep == ShadowInv /\ [Next]_vars => ShadowInv' /\ EndedStays
<1> SUFFICES ASSUME ShadowInv, [Next]_vars
             PROVE  ShadowInv' /\ EndedStays
  OBVIOUS
<1>1. CASE Append1
  BY <1>1, AppendKeeps DEF EndedStays, Append1
<1>2. CASE Tick \/ Kill \/ Clear
  BY <1>2, OthersKeep DEF EndedStays, Tick, Kill, Clear
<1>3. CASE Start
  BY <1>3, StartKeeps DEF EndedStays, Start
<1>4. CASE Consume
  BY <1>4, ConsumeKeeps DEF EndedStays, Consume
<1>5. CASE StartEngine
  BY <1>5, StartEngineKeeps DEF EndedStays
<1>6. CASE Decide1
  BY <1>6, DecideKeeps DEF EndedStays
<1>7. CASE CommitCycle
  BY <1>7, CommitKeeps DEF EndedStays
<1>8. CASE AuditCycle
  BY <1>8, AuditKeeps DEF EndedStays, AuditCycle
<1>9. CASE WatchdogCall
  BY <1>9, WatchdogKeeps DEF EndedStays
<1>10. CASE WatchdogCheckpoint
  BY <1>10, CheckpointKeeps DEF EndedStays
<1>11. CASE Crash
  BY <1>11, CrashKeeps DEF EndedStays, Crash
<1>12. CASE UNCHANGED vars
  <2>1. LogOK' /\ OperatorsOK'
    BY <1>12 DEF ShadowInv, LogOK, OperatorsOK, vars
  <2>2. ingress \in Nat
    BY LogFacts DEF ShadowInv
  <2> QED
    BY <1>12, <2>1, <2>2, OutsideKeeps DEF EndedStays, vars
<1> QED
  BY <1>1, <1>2, <1>3, <1>4, <1>5, <1>6, <1>7, <1>8, <1>9, <1>10, <1>11, <1>12 DEF Next, Process

-----------------------------------------------------------------------------
(* Theorems                                                                 *)

\* What makes recovery work, whatever the tape, the strategy, the latencies and
\* the crashes are: the journal is at most one cycle behind the engine, the
\* numbers of its orders were given out by the memory of its checkpoint, and the
\* cursor is never behind it (shadow/service.py with paper/engine.py).
THEOREM ShadowInvariance == Spec => []ShadowInv
<1>1. ShadowInv /\ [Next]_vars => ShadowInv'
  BY ShadowStep
<1> QED
  BY <1>1, ShadowInitially, PTL DEF Spec

\* Type correctness of shadow trading: in particular no order of the journal
\* (paper/journal.py) is ever overfilled.
THEOREM ShadowTypeCorrect == Spec => []TypeOK
<1>1. ShadowInv => TypeOK
  <2> SUFFICES ASSUME ShadowInv
               PROVE  TypeOK
    OBVIOUS
  <2>1. now \in 0 .. MaxTime /\ ingress \in 0 .. Len(tape)
    BY DEF ShadowInv, LogOK
  <2>2. kill.active \in BOOLEAN /\ crashes \in 0 .. MaxCrashes
    BY DEF ShadowInv, OperatorsOK
  <2>3. step.at \in {"idle", "market", "commit", "audit", "checkpoint"}
    BY DEF ShadowInv, StepOK
  <2>4. step # Idle => service.up
    BY DEF ShadowInv, ServiceOK, RunningOK
  <2>5. engine.on => service.up /\ journal.start # None
    BY DEF ShadowInv, EngineInv, Off
  <2>6. ASSUME NEW i \in DOMAIN journal.orders
        PROVE  /\ journal.orders[i].state \in OrderStates
               /\ journal.orders[i].filled \in 0 .. journal.orders[i].quantity
    <3>1. journal.orders[i] \in Orders /\ journal.orders[i].filled <= journal.orders[i].quantity
      BY DEF ShadowInv, JournalOK, TypedOrders
    <3> QED
      BY <3>1 DEF Orders
  <2>7. DOMAIN journal.cycles \subseteq 1 .. ingress /\ audit.failures \subseteq {"service_failure"}
    BY DEF ShadowInv, JournalOK, AuditOK
  <2> QED
    BY <2>1, <2>2, <2>3, <2>4, <2>5, <2>6, <2>7 DEF TypeOK
<1> QED
  BY <1>1, ShadowInvariance, PTL

\* Every market state the assembler hands to the kernels is one they accept
\* (paper/market.py observe with backtest/kernel.py validate_causal_book), for
\* every tape of validated frames and every place in it to start from.
THEOREM StatesStayCausal == Spec => []StatesAreCausal
<1>1. ShadowInv => StatesAreCausal
  BY DEF ShadowInv, StepOK, StatesAreCausal
<1> QED
  BY <1>1, ShadowInvariance, PTL

\* Counting is enough to find a sample that a crash between the two databases
\* cost, and there are at most as many as crashes (shadow/evidence.py).
THEOREM AuditGapStaysVisible == Spec => []AuditGapIsVisible
<1>1. ShadowInv => AuditGapIsVisible
  <2> SUFFICES ASSUME ShadowInv
               PROVE  AuditGapIsVisible
    OBVIOUS
  <2>1. audit.cycles \subseteq DOMAIN journal.cycles
        /\ Cardinality(Unsampled) <= crashes + (IF step.at = "audit" THEN 1 ELSE 0)
    BY DEF ShadowInv, AuditOK
  <2>2. SampleComplete <=> audit.cycles = DOMAIN journal.cycles
    BY <2>1, CyclesAreFinite, FS_Subset DEF SampleComplete
  <2> QED
    BY <2>1, <2>2 DEF AuditGapIsVisible, Unsampled
<1> QED
  BY <1>1, ShadowInvariance, PTL

\* An order that ended is never written again, whatever is replayed after a
\* restart: its number is not given out twice (the checkpoint of
\* paper/journal.py record_engine_cycle), and no operation of the simulated
\* exchange (paper/simulator.py) changes what is not open.
THEOREM TerminalOrdersAreFinal == Spec => TerminalOrdersStay
<1>1. ShadowInv /\ [Next]_vars => [EndedStays]_vars
  BY ShadowStep
<1>2. [EndedStays]_vars <=> [\A i \in DOMAIN journal.orders :
          journal.orders[i].state \in Terminal => journal'.orders[i] = journal.orders[i]]_vars
  BY DEF EndedStays
<1> QED
  BY <1>1, <1>2, ShadowInvariance, PTL DEF Spec, TerminalOrdersStay

-----------------------------------------------------------------------------
(* Sums over fills                                                          *)

\* What _fill makes (paper/simulator.py).
Fills == [order : Int, before : Nat, side : {"buy", "sell"}, quantity : Nat, price : Int,
          maker : BOOLEAN, at : Nat, fee : Int]

Fee(f) == f.fee
Quantity(f) == f.quantity

\* The position, the fees and the volume that fills make together.
Net(F) == Sum(F, Signed)
Charges(F) == Sum(F, Fee)
Volume(F) == Sum(F, Quantity)

NetStep(p, n, f) == n + Signed(f)
ChargeStep(p, n, f) == n + Fee(f)
VolumeStep(p, n, f) == n + Quantity(f)
AnyClaim(p, T, n) == TRUE
Netting == INSTANCE FoldFacts WITH Op <- NetStep, Pick <- AnyOf, Holds <- AnyClaim
Charging == INSTANCE FoldFacts WITH Op <- ChargeStep, Pick <- AnyOf, Holds <- AnyClaim
Measuring == INSTANCE FoldFacts WITH Op <- VolumeStep, Pick <- AnyOf, Holds <- AnyClaim

\* What a fill adds is an integer.
LEMMA FillValues ==
    ASSUME NEW f \in Fills
    PROVE  Signed(f) \in Int /\ Fee(f) \in Int /\ Quantity(f) \in Nat
  BY DEF Fills, Signed, Sign, Fee, Quantity

\* The position that fills make, with one more.
LEMMA NetAdds ==
    ASSUME NEW F, IsFiniteSet(F), F \subseteq Fills
    PROVE  /\ Net(F) \in Int
           /\ \A f \in Fills \ F : Net(F \cup {f}) = Net(F) + Signed(f)
<1>1. \A T : Net(T) = Netting!Loop(0, 0, T)
  BY DEF Net, Sum, FoldSet, Netting!Loop, NetStep, AnyOf, MapThenFoldSet, Netting!MapThenFoldSet
<1>2. \A T : Netting!Picks(0, T)
  BY DEF Netting!Picks, AnyOf
<1>3. \A T : T \subseteq Fills => Netting!Adds(0, T)
  BY FillValues DEF Netting!Adds, NetStep
<1>4. Net(F) \in Int
  BY <1>1, <1>2, <1>3, Netting!SumIsInt DEF IsFiniteSet, Netting!IsFiniteSet
<1>5. ASSUME NEW f \in Fills \ F
      PROVE  Net(F \cup {f}) = Net(F) + Signed(f)
  <2> DEFINE G == F \cup {f}
  <2>1. IsFiniteSet(G) /\ G \subseteq Fills /\ f \in G /\ G \ {f} = F
    BY FS_AddElement
  <2> HIDE DEF G
  <2>2. Netting!Loop(0, 0, G) = Netting!Loop(0, 0, G \ {f}) + NetStep(0, 0, f)
    BY <1>2, <1>3, <2>1, Netting!SumTakesOut DEF IsFiniteSet, Netting!IsFiniteSet
  <2>3. NetStep(0, 0, f) = Signed(f)
    BY FillValues DEF NetStep
  <2> QED
    BY <1>1, <2>1, <2>2, <2>3 DEF G
<1> QED
  BY <1>4, <1>5

\* The fees that fills make, with one more.
LEMMA ChargesAdd ==
    ASSUME NEW F, IsFiniteSet(F), F \subseteq Fills
    PROVE  /\ Charges(F) \in Int
           /\ \A f \in Fills \ F : Charges(F \cup {f}) = Charges(F) + Fee(f)
<1>1. \A T : Charges(T) = Charging!Loop(0, 0, T)
  BY DEF Charges, Sum, FoldSet, Charging!Loop, ChargeStep, AnyOf, MapThenFoldSet,
         Charging!MapThenFoldSet
<1>2. \A T : Charging!Picks(0, T)
  BY DEF Charging!Picks, AnyOf
<1>3. \A T : T \subseteq Fills => Charging!Adds(0, T)
  BY FillValues DEF Charging!Adds, ChargeStep
<1>4. Charges(F) \in Int
  BY <1>1, <1>2, <1>3, Charging!SumIsInt DEF IsFiniteSet, Charging!IsFiniteSet
<1>5. ASSUME NEW f \in Fills \ F
      PROVE  Charges(F \cup {f}) = Charges(F) + Fee(f)
  <2> DEFINE G == F \cup {f}
  <2>1. IsFiniteSet(G) /\ G \subseteq Fills /\ f \in G /\ G \ {f} = F
    BY FS_AddElement
  <2> HIDE DEF G
  <2>2. Charging!Loop(0, 0, G) = Charging!Loop(0, 0, G \ {f}) + ChargeStep(0, 0, f)
    BY <1>2, <1>3, <2>1, Charging!SumTakesOut DEF IsFiniteSet, Charging!IsFiniteSet
  <2>3. ChargeStep(0, 0, f) = Fee(f)
    BY FillValues DEF ChargeStep
  <2> QED
    BY <1>1, <2>1, <2>2, <2>3 DEF G
<1> QED
  BY <1>4, <1>5

\* The volume of fills, with one more.
LEMMA VolumeAdds ==
    ASSUME NEW F, IsFiniteSet(F), F \subseteq Fills
    PROVE  /\ Volume(F) \in Int
           /\ \A f \in Fills \ F : Volume(F \cup {f}) = Volume(F) + Quantity(f)
<1>1. \A T : Volume(T) = Measuring!Loop(0, 0, T)
  BY DEF Volume, Sum, FoldSet, Measuring!Loop, VolumeStep, AnyOf, MapThenFoldSet,
         Measuring!MapThenFoldSet
<1>2. \A T : Measuring!Picks(0, T)
  BY DEF Measuring!Picks, AnyOf
<1>3. \A T : T \subseteq Fills => Measuring!Adds(0, T)
  BY FillValues DEF Measuring!Adds, VolumeStep
<1>4. Volume(F) \in Int
  BY <1>1, <1>2, <1>3, Measuring!SumIsInt DEF IsFiniteSet, Measuring!IsFiniteSet
<1>5. ASSUME NEW f \in Fills \ F
      PROVE  Volume(F \cup {f}) = Volume(F) + Quantity(f)
  <2> DEFINE G == F \cup {f}
  <2>1. IsFiniteSet(G) /\ G \subseteq Fills /\ f \in G /\ G \ {f} = F
    BY FS_AddElement
  <2> HIDE DEF G
  <2>2. Measuring!Loop(0, 0, G) = Measuring!Loop(0, 0, G \ {f}) + VolumeStep(0, 0, f)
    BY <1>2, <1>3, <2>1, Measuring!SumTakesOut DEF IsFiniteSet, Measuring!IsFiniteSet
  <2>3. VolumeStep(0, 0, f) = Quantity(f)
    BY FillValues DEF VolumeStep
  <2> QED
    BY <1>1, <2>1, <2>2, <2>3 DEF G
<1> QED
  BY <1>4, <1>5

\* No fills make nothing.
LEMMA NothingFilled == Net({}) = 0 /\ Charges({}) = 0 /\ Volume({}) = 0
<1>1. IsFiniteSet({}) /\ Netting!Picks(0, {}) /\ Charging!Picks(0, {}) /\ Measuring!Picks(0, {})
  BY FS_EmptySet DEF Netting!Picks, Charging!Picks, Measuring!Picks
<1>2. Netting!Loop(0, 0, {}) = 0
  BY <1>1, Netting!LoopUnfolds DEF IsFiniteSet, Netting!IsFiniteSet
<1>3. Charging!Loop(0, 0, {}) = 0
  BY <1>1, Charging!LoopUnfolds DEF IsFiniteSet, Charging!IsFiniteSet
<1>4. Measuring!Loop(0, 0, {}) = 0
  BY <1>1, Measuring!LoopUnfolds DEF IsFiniteSet, Measuring!IsFiniteSet
<1>5. Net({}) = Netting!Loop(0, 0, {})
  BY DEF Net, Sum, FoldSet, Netting!Loop, NetStep, AnyOf, MapThenFoldSet, Netting!MapThenFoldSet
<1>6. Charges({}) = Charging!Loop(0, 0, {})
  BY DEF Charges, Sum, FoldSet, Charging!Loop, ChargeStep, AnyOf, MapThenFoldSet,
         Charging!MapThenFoldSet
<1>7. Volume({}) = Measuring!Loop(0, 0, {})
  BY DEF Volume, Sum, FoldSet, Measuring!Loop, VolumeStep, AnyOf, MapThenFoldSet,
         Measuring!MapThenFoldSet
<1> QED
  BY <1>2, <1>3, <1>4, <1>5, <1>6, <1>7


-----------------------------------------------------------------------------
(* The account                                                              *)

AccountFields == {"cash", "position", "cost", "realized", "fees", "funding", "settled", "mark",
                  "equity", "dayStart", "high", "day", "updated"}

\* The position at what was paid for it: what a short position owes is negative.
Carried(a) == IF a.position < 0 THEN 0 - a.cost ELSE a.cost

\* Cash moved only by what the account says of it, and nothing is carried for no
\* position.
Balanced(a) ==
    /\ DOMAIN a = AccountFields
    /\ a.cash \in Int /\ a.position \in Int /\ a.cost \in Int /\ a.realized \in Int
    /\ a.fees \in Int /\ a.funding \in Int /\ a.mark \in Int
    /\ a.position = 0 => a.cost = 0
    /\ a.cash + Carried(a) = Capital * Bp + a.realized - a.fees + a.funding

\* The whole of a position released at its average is its cost: dividing undoes
\* the multiplication.
LEMMA WholeIsReleased ==
    ASSUME NEW n \in Int, NEW d \in Nat \ {0}
    PROVE  (n * d) \div d = n
  OBVIOUS

\* An integer divided by a positive one, rounded down, is an integer.
LEMMA QuotientIsInt ==
    ASSUME NEW n \in Int, NEW d \in Nat \ {0}
    PROVE  n \div d \in Int
  OBVIOUS

\* The quantity of a fill at its price, in the unit of money.
Worth(q, price) == q * price * Bp

\* It is an integer, and that of nothing is nothing.
LEMMA WorthIsInt ==
    ASSUME NEW q \in Int, NEW price \in Int
    PROVE  Worth(q, price) \in Int /\ Worth(0, price) = 0
<1>1. q * price \in Int
  OBVIOUS
<1> QED
  BY <1>1 DEF Worth, Bp

\* What a part of a fill leaves is worth what the part does not.
LEMMA WorthSplits ==
    ASSUME NEW q \in Int, NEW k \in Int, NEW price \in Int
    PROVE  Worth(q - k, price) = Worth(q, price) - Worth(k, price)
<1>1. q * price \in Int /\ k * price \in Int /\ (q - k) * price = q * price - k * price
  OBVIOUS
<1> QED
  BY <1>1 DEF Worth, Bp

\* A side of a fill is a sign.
LEMMA Signs ==
    ASSUME NEW f \in Fills
    PROVE  /\ Sign(f.side) \in {1, -1}
           /\ Signed(f) = (IF Sign(f.side) = 1 THEN f.quantity ELSE 0 - f.quantity)
           /\ Sign(f.side) * f.quantity * f.price * Bp
                = (IF Sign(f.side) = 1 THEN Worth(f.quantity, f.price)
                   ELSE 0 - Worth(f.quantity, f.price))
<1>1. f.quantity \in Int /\ f.price \in Int
  BY DEF Fills
<1>2. CASE f.side = "buy"
  <2>1. Sign(f.side) = 1
    BY <1>2 DEF Sign
  <2> QED
    BY <1>1, <2>1 DEF Signed, Worth, Bp
<1>3. CASE f.side # "buy"
  <2>1. Sign(f.side) = -1
    BY <1>3 DEF Sign
  <2>2. (-1) * f.quantity * f.price = 0 - f.quantity * f.price /\ f.quantity * f.price \in Int
    BY <1>1
  <2> QED
    BY <1>1, <2>1, <2>2 DEF Signed, Worth, Bp
<1> QED
  BY <1>2, <1>3

\* _apply_fill keeps the account balanced (paper/simulator.py): what opens is
\* carried at its price, what closes realises the difference to what was carried,
\* and what turns the position does both.
LEMMA FillBalances ==
    ASSUME NEW a, Balanced(a), NEW f \in Fills
    PROVE  LET b == ApplyFill(a, f)
           IN  /\ Balanced(b)
               /\ b.position = a.position + Signed(f) /\ b.fees = a.fees + Fee(f)
<1> DEFINE s == Sign(f.side)
           q == f.quantity
           price == f.price
           fee == f.fee
           v == Worth(q, price)
           d == Signed(f)
           c == IF s = 1 THEN v ELSE 0 - v
           start == Capital * Bp
           cash0 == a.cash
           position0 == a.position
           cost0 == a.cost
           realized0 == a.realized
           fees0 == a.fees
           funding0 == a.funding
           held == Magnitude(position0)
           opens == position0 = 0 \/ s * position0 > 0
           closed == Least(held, q)
           released == (cost0 * closed) \div held
           w == Worth(closed, price)
           position == position0 + s * q
           cash == cash0 - s * q * price * Bp - fee
           fees == fees0 + fee
           cost == IF opens THEN cost0 + q * price * Bp
                   ELSE IF q > held THEN (q - held) * price * Bp
                   ELSE cost0 - released
           realized == IF opens THEN realized0
                       ELSE realized0 - s * (closed * price * Bp - released)
           b == ApplyFill(a, f)
<1>1. b = [a EXCEPT !.position = position, !.cash = cash, !.fees = fees, !.cost = cost,
                    !.realized = realized, !.updated = f.at]
  BY DEF ApplyFill
<1>2. /\ cash0 \in Int /\ position0 \in Int /\ cost0 \in Int /\ realized0 \in Int
      /\ fees0 \in Int /\ funding0 \in Int /\ a.mark \in Int
      /\ position0 = 0 => cost0 = 0
      /\ cash0 + (IF position0 < 0 THEN 0 - cost0 ELSE cost0)
           = start + realized0 - fees0 + funding0
  BY DEF Balanced, Carried
<1>3. start \in Int
  BY CapitalAssumption DEF Bp
<1>4. q \in Nat /\ price \in Int /\ fee \in Int
  BY DEF Fills
<1>5. s \in {1, -1}
  BY Signs
<1>6. d = (IF s = 1 THEN q ELSE 0 - q) /\ s * q = d /\ s * q * price * Bp = c
  BY Signs DEF Signed
<1>7. position = position0 + d /\ cash = cash0 - c - fee
  BY <1>6
<1>8. opens => cost = cost0 + v /\ realized = realized0
  BY DEF Worth
<1>9. ~ opens => /\ q > held => cost = Worth(q - held, price)
                 /\ ~ (q > held) => cost = cost0 - released
                 /\ realized = realized0 - s * (w - released)
  BY DEF Worth
<1>10. opens => position0 = 0 \/ (s = 1 /\ position0 > 0) \/ (s = -1 /\ position0 < 0)
  <2> HIDE DEF s, position0
  <2> QED
    BY <1>2, <1>5
<1>11. ~ opens => (s = 1 /\ position0 < 0) \/ (s = -1 /\ position0 > 0)
  <2> HIDE DEF s, position0
  <2> QED
    BY <1>2, <1>5
<1>12. /\ held \in Nat
       /\ position0 >= 0 => held = position0
       /\ position0 < 0 => held = 0 - position0
  <2> HIDE DEF position0
  <2> QED
    BY <1>2 DEF Magnitude
<1>13. /\ closed \in Nat
       /\ q > held => closed = held
       /\ ~ (q > held) => closed = q
  <2> HIDE DEF q, held
  <2> QED
    BY <1>4, <1>12 DEF Least
<1>14. v \in Int /\ w \in Int /\ (q = 0 => v = 0)
  <2> HIDE DEF q, price, closed
  <2>1. v \in Int
    BY <1>4, WorthIsInt
  <2>2. w \in Int
    BY <1>4, <1>13, WorthIsInt
  <2>3. q = 0 => v = 0
    BY <1>4, WorthIsInt
  <2> QED
    BY <2>1, <2>2, <2>3
<1>15. q > held => Worth(q - held, price) = v - w
  <2> HIDE DEF q, price, closed, held
  <2> QED
    BY <1>4, <1>12, <1>13, WorthSplits
<1>16. ~ opens => released \in Int /\ (closed = held => released = cost0)
  <2> SUFFICES ASSUME ~ opens
               PROVE  released \in Int /\ (closed = held => released = cost0)
    OBVIOUS
  <2> DEFINE product == cost0 * closed
  <2>1. held \in Nat \ {0}
    <3>1. position0 # 0
      BY <1>11
    <3> HIDE DEF position0, held
    <3> QED
      BY <1>2, <1>12, <3>1
  <2> HIDE DEF cost0, closed, held
  <2>2. product \in Int
    BY <1>2, <1>13
  <2>3. closed = held => released = cost0
    BY <1>2, <2>1, WholeIsReleased
  <2> HIDE DEF product
  <2>4. product \div held \in Int
    BY <2>1, <2>2, QuotientIsInt
  <2> QED
    BY <2>3, <2>4 DEF product
<1> HIDE DEF s, q, price, fee, v, d, cash0, position0, cost0, realized0, fees0, funding0, start,
             held, opens, closed, released, w, position, cash, cost, realized
<1>17. d \in Int /\ c \in Int
  BY <1>4, <1>6, <1>14
<1>18. ~ opens => realized = realized0 + (IF s = 1 THEN 0 - (w - released) ELSE w - released)
  <2> SUFFICES ASSUME ~ opens
               PROVE  realized = realized0 + (IF s = 1 THEN 0 - (w - released) ELSE w - released)
    OBVIOUS
  <2> DEFINE gain == w - released
  <2>1. gain \in Int /\ realized = realized0 - s * gain
    BY <1>9, <1>14, <1>16
  <2> HIDE DEF gain
  <2>2. s * gain = IF s = 1 THEN gain ELSE 0 - gain
    BY <1>5, <2>1
  <2> QED
    BY <1>2, <1>5, <2>1, <2>2 DEF gain
<1> DEFINE Good == /\ cost \in Int /\ realized \in Int /\ (position = 0 => cost = 0)
                   /\ cash + (IF position < 0 THEN 0 - cost ELSE cost)
                        = start + realized - fees + funding0
<1>19. ASSUME opens PROVE Good
  <2>1. (d >= 0 /\ position0 >= 0 /\ c = v) \/ (d <= 0 /\ position0 <= 0 /\ c = 0 - v)
    <3>1. q \in Nat /\ (d = q \/ d = 0 - q)
      BY <1>4, <1>6
    <3>2. d = (IF s = 1 THEN q ELSE 0 - q)
      BY <1>6
    <3> QED
      BY <1>2, <1>5, <1>10, <1>19, <3>1, <3>2
  <2>2. d = 0 => v = 0
    <3>1. d = (IF s = 1 THEN q ELSE 0 - q)
      BY <1>6
    <3> QED
      BY <1>4, <1>14, <3>1
  <2>3. cost = cost0 + v /\ realized = realized0
    BY <1>8, <1>19
  <2> HIDE DEF c
  <2> QED
    BY <1>2, <1>3, <1>4, <1>7, <1>14, <1>17, <2>1, <2>2, <2>3
<1>20. ASSUME ~ opens PROVE Good
  <2> DEFINE gained == IF s = 1 THEN 0 - (w - released) ELSE w - released
  <2>1. /\ released \in Int /\ gained \in Int /\ realized = realized0 + gained
        /\ closed = held => released = cost0
    BY <1>14, <1>16, <1>18, <1>20
  <2>2. d = (IF s = 1 THEN q ELSE 0 - q)
    BY <1>6
  <2>3. \/ d >= 0 /\ position0 < 0 /\ c = v /\ gained = 0 - (w - released)
        \/ d <= 0 /\ position0 > 0 /\ c = 0 - v /\ gained = w - released
    BY <1>4, <1>5, <1>11, <1>20, <2>2
  <2>4. (d = q /\ d >= 0) \/ (d = 0 - q /\ d <= 0)
    BY <1>4, <2>2
  <2>5. \/ /\ (position0 < 0 /\ position0 + d > 0) \/ (position0 > 0 /\ position0 + d < 0)
           /\ released = cost0 /\ cost = v - w
        \/ /\ (position0 < 0 /\ position0 + d <= 0) \/ (position0 > 0 /\ position0 + d >= 0)
           /\ w = v /\ cost = cost0 - released /\ (position0 + d = 0 => released = cost0)
    <3>1. CASE q > held
      <4>1. released = cost0 /\ cost = v - w
        BY <1>9, <1>13, <1>15, <1>20, <2>1, <3>1
      <4>2. (position0 < 0 /\ position0 + d > 0) \/ (position0 > 0 /\ position0 + d < 0)
        <5> HIDE DEF gained, c
        <5> QED
          BY <1>2, <1>4, <1>5, <1>11, <1>12, <1>20, <2>2, <3>1
      <4> QED
        BY <4>1, <4>2
    <3>2. CASE ~ (q > held)
      <4>1. w = v /\ cost = cost0 - released
        BY <1>9, <1>13, <1>20, <3>2 DEF v, w
      <4>2. (position0 < 0 /\ position0 + d <= 0) \/ (position0 > 0 /\ position0 + d >= 0)
        <5> HIDE DEF gained, c
        <5> QED
          BY <1>2, <1>4, <1>5, <1>11, <1>12, <1>20, <2>2, <3>2
      <4>3. position0 + d = 0 => q = held
        <5> HIDE DEF gained, c
        <5> QED
          BY <1>2, <1>4, <1>5, <1>11, <1>12, <1>20, <2>2, <3>2
      <4>4. position0 + d = 0 => released = cost0
        BY <1>13, <2>1, <3>2, <4>3
      <4> QED
        BY <4>1, <4>2, <4>4
    <3> QED
      BY <3>1, <3>2
  <2> HIDE DEF gained, c
  <2> QED
    BY <1>2, <1>3, <1>4, <1>7, <1>14, <1>17, <2>1, <2>3, <2>5
<1>21. Good
  BY <1>19, <1>20
<1>22. /\ cash \in Int /\ position \in Int /\ fees \in Int
  <2> HIDE DEF c
  <2> QED
    BY <1>2, <1>4, <1>7, <1>17
<1>23. /\ DOMAIN b = AccountFields
       /\ b.cash = cash /\ b.position = position /\ b.cost = cost /\ b.realized = realized
       /\ b.fees = fees /\ b.funding = funding0 /\ b.mark = a.mark
  <2> HIDE DEF fees, b
  <2> QED
    BY <1>1 DEF Balanced, AccountFields, funding0
<1> HIDE DEF b, fees
<1>24. Balanced(b)
  BY <1>2, <1>21, <1>22, <1>23 DEF Balanced, Carried, start
<1> QED
  BY <1>7, <1>23, <1>24 DEF Fee, b, d, position0, fees, fees0, fee

-----------------------------------------------------------------------------
(* What fills explain                                                       *)

OfOrder(F, i) == {f \in F : f.order = i}

\* The fills F explain the account a and what was filled of each order, and no
\* fill of an order reaches beyond that.
Books(F, a, got) ==
    /\ IsFiniteSet(F) /\ F \subseteq Fills
    /\ Balanced(a) /\ a.position = Net(F) /\ a.fees = Charges(F)
    /\ got \in [DOMAIN got -> Nat]
    /\ \A i \in DOMAIN got : got[i] = Volume(OfOrder(F, i))
    /\ \A f \in F : f.order \in DOMAIN got => f.before + f.quantity <= got[f.order]

\* The fills F and those the exchange reports explain its account, and what it
\* reports is of orders in hit.
Posted(F, x, got, hit) ==
    /\ x.fills \in Seq(Fills)
    /\ Books(F \cup ToSet(x.fills), x.account, got)
    /\ \A f \in ToSet(x.fills) : f.order \in hit

FilledIn(orders) == [i \in DOMAIN orders |-> orders[i].filled]

\* Between two operations, the fills F and those of the exchange explain all of it.
Explains(F, x) == Posted(F, x, FilledIn(x.orders), x.changed)

\* A fill begins at what was filled of its order before, so it is not one that
\* the books have, unless it is of nothing (paper/simulator.py _fill).
LEMMA FillBooks ==
    ASSUME NEW F, NEW a, NEW got, Books(F, a, got), NEW f \in Fills, f.order \in DOMAIN got,
           f.before = got[f.order], f.quantity = 0 => f.fee = 0
    PROVE  Books(F \cup {f}, ApplyFill(a, f), [got EXCEPT ![f.order] = @ + f.quantity])
<1> DEFINE b == ApplyFill(a, f)
           i == f.order
           q == f.quantity
           fee == f.fee
           n == got[i]
           more == [got EXCEPT ![i] = @ + q]
           G == F \cup {f}
<1>1. /\ IsFiniteSet(F) /\ F \subseteq Fills /\ Balanced(a)
      /\ a.position = Net(F) /\ a.fees = Charges(F) /\ got \in [DOMAIN got -> Nat]
  BY DEF Books
<1>2. q \in Nat /\ n \in Nat /\ fee \in Int /\ Signed(f) \in Int /\ f.before = n
  BY <1>1, FillValues DEF Fills
<1>3. Balanced(b) /\ b.position = Net(F) + Signed(f) /\ b.fees = Charges(F) + fee
  BY <1>1, FillBalances DEF Fee
<1>4. Net(F) \in Int /\ Charges(F) \in Int
  BY <1>1, NetAdds, ChargesAdd
<1>5. IsFiniteSet(G) /\ G \subseteq Fills
  BY <1>1, FS_AddElement
<1>6. /\ more \in [DOMAIN got -> Nat] /\ DOMAIN more = DOMAIN got
      /\ more[i] = n + q /\ \A k \in DOMAIN got : k # i => more[k] = got[k]
  BY <1>1, <1>2
<1> HIDE DEF b
<1>7. ASSUME f \in F PROVE Books(G, b, more)
  <2>1. f.before + q <= n
    BY <1>7 DEF Books
  <2>2. q = 0
    <3> HIDE DEF q, n
    <3> QED
      BY <1>2, <2>1
  <2>3. fee = 0
    BY <2>2
  <2>4. Signed(f) = 0
    BY <1>2, <2>2, Signs
  <2>5. G = F
    BY <1>7
  <2>6. more = got
    <3>1. \A k \in DOMAIN got : more[k] = got[k]
      <4> HIDE DEF more, q, n
      <4>1. more[i] = n
        BY <1>2, <1>6, <2>2
      <4> QED
        BY <1>6, <4>1 DEF n
    <3> HIDE DEF more
    <3> QED
      BY <1>1, <1>6, <3>1
  <2> HIDE DEF more, G, fee, q
  <2>7. b.position = Net(F) /\ b.fees = Charges(F)
    BY <1>3, <1>4, <2>3, <2>4
  <2>8. Books(F, b, got)
    BY <1>3, <2>7 DEF Books
  <2> QED
    BY <2>5, <2>6, <2>8
<1>8. ASSUME f \notin F PROVE Books(G, b, more)
  <2>1. Net(G) = Net(F) + Signed(f) /\ Charges(G) = Charges(F) + fee
    BY <1>1, <1>8, NetAdds, ChargesAdd DEF Fee
  <2>2. ASSUME NEW k \in DOMAIN got
        PROVE  more[k] = Volume(OfOrder(G, k))
    <3>1. got[k] = Volume(OfOrder(F, k))
      BY DEF Books
    <3>2. CASE k = i
      <4> DEFINE H == OfOrder(F, k)
      <4>1. OfOrder(G, k) = H \cup {f} /\ f \in Fills \ H
        BY <1>8, <3>2 DEF OfOrder
      <4>2. IsFiniteSet(H) /\ H \subseteq Fills
        BY <1>1, FS_Subset DEF OfOrder
      <4> HIDE DEF H
      <4>3. Volume(H \cup {f}) = Volume(H) + Quantity(f)
        BY <4>1, <4>2, VolumeAdds
      <4>4. more[k] = Volume(H) + Quantity(f)
        BY <1>6, <3>1, <3>2 DEF H, Quantity
      <4> QED
        BY <4>1, <4>3, <4>4
    <3>3. CASE k # i
      <4>1. OfOrder(G, k) = OfOrder(F, k)
        BY <3>3 DEF OfOrder
      <4>2. more[k] = got[k]
        BY <1>6, <3>3
      <4> QED
        BY <3>1, <4>1, <4>2
    <3> QED
      BY <3>2, <3>3
  <2>3. ASSUME NEW g \in G, g.order \in DOMAIN got
        PROVE  g.before + g.quantity <= more[g.order]
    <3>1. CASE g = f
      <4>1. more[g.order] = n + q
        BY <1>6, <3>1
      <4>2. g.before + g.quantity = n + q
        BY <1>2, <3>1
      <4> HIDE DEF q, n, more
      <4> QED
        BY <1>2, <4>1, <4>2
    <3>2. CASE g # f
      <4> DEFINE u == g.before + g.quantity
      <4>1. g \in F
        BY <3>2
      <4>2. u \in Int
        BY <1>1, <4>1 DEF Fills
      <4>3. u <= got[g.order]
        BY <2>3, <4>1 DEF Books
      <4>4. got[g.order] <= more[g.order]
        <5>1. CASE g.order = i
          BY <1>2, <1>6, <5>1
        <5>2. CASE g.order # i
          <6>1. more[g.order] = got[g.order] /\ got[g.order] \in Nat
            BY <1>1, <1>6, <2>3, <5>2
          <6> QED
            BY <6>1
        <5> QED
          BY <5>1, <5>2
      <4>5. got[g.order] \in Int /\ more[g.order] \in Int
        BY <1>1, <1>6, <2>3
      <4> HIDE DEF u, more
      <4> QED
        BY <4>2, <4>3, <4>4, <4>5 DEF u
    <3> QED
      BY <3>1, <3>2
  <2>4. b.position = Net(G) /\ b.fees = Charges(G)
    BY <1>3, <2>1
  <2> HIDE DEF more, G
  <2> QED
    BY <1>3, <1>5, <1>6, <2>2, <2>3, <2>4 DEF Books
<1> HIDE DEF b, more, G
<1> QED
  BY <1>7, <1>8 DEF b, more, G

\* The elements of a sequence with one more at its end.
LEMMA AppendedSet ==
    ASSUME NEW S, NEW s \in Seq(S), NEW e \in S
    PROVE  Append(s, e) \in Seq(S) /\ ToSet(Append(s, e)) = ToSet(s) \cup {e}
<1>1. /\ Len(s) \in Nat /\ DOMAIN s = 1 .. Len(s)
      /\ Append(s, e) \in Seq(S) /\ DOMAIN Append(s, e) = 1 .. Len(s) + 1
      /\ Append(s, e)[Len(s) + 1] = e
      /\ \A k \in 1 .. Len(s) : Append(s, e)[k] = s[k]
  OBVIOUS
<1>2. \A k \in 1 .. Len(s) + 1 : k \in 1 .. Len(s) \/ k = Len(s) + 1
  BY <1>1
<1>3. 1 .. Len(s) \subseteq 1 .. Len(s) + 1 /\ Len(s) + 1 \in 1 .. Len(s) + 1
  BY <1>1
<1> QED
  BY <1>1, <1>2, <1>3 DEF ToSet

\* The product of a quantity, a price and a rate is an integer, that of nothing
\* is nothing.
LEMMA FeeIsInt ==
    ASSUME NEW q \in Int, NEW price \in Int, NEW bps \in Int
    PROVE  q * price * bps \in Int /\ (q = 0 => q * price * bps = 0)
<1>1. q * price \in Int /\ (q = 0 => q * price = 0)
  OBVIOUS
<1> QED
  BY <1>1

\* The fees, the slippage and the funding of a scenario are integers.
LEMMA Rates == /\ Scenario.makerBps \in Int /\ Scenario.takerBps \in Int
               /\ Scenario.slippageBps \in Int /\ Scenario.fundingPercent \in Int
  BY ScenarioAssumption

\* What is filled of each order, with a quantity more of one.
Plus(got, i, q) == [got EXCEPT ![i] = @ + q]

\* _fill posts what was filled: the caller still has to write the order.
LEMMA FillPosts ==
    ASSUME NEW F, NEW x, NEW got, NEW hit, Posted(F, x, got, hit),
           NEW i \in Int, i \in DOMAIN got, NEW ids, OrdersOK(ids, x), i \in ids,
           NEW before, before = got[i], NEW q \in Nat,
           NEW price \in Int, NEW maker \in BOOLEAN, NEW t \in Nat,
           NEW y, y = Fill(x, i, before, q, price, maker, t)
    PROVE  /\ Posted(F, y, Plus(got, i, q), hit \cup {i})
           /\ DOMAIN y = ExchangeFields /\ y.orders = x.orders /\ y.changed = x.changed
<1> DEFINE o == x.orders[i]
           bps == IF maker THEN Scenario.makerBps ELSE Scenario.takerBps
           fee == q * price * bps
           side == o.side
           f == [order |-> i, before |-> before, side |-> side, quantity |-> q,
                 price |-> price, maker |-> maker, at |-> t, fee |-> fee]
           G == F \cup ToSet(x.fills)
<1>1. y = [x EXCEPT !.account = ApplyFill(@, f), !.fills = Append(@, f)]
  BY DEF Fill
<1>2. bps \in Int
  BY Rates
<1> HIDE DEF bps
<1>3. fee \in Int /\ (q = 0 => fee = 0)
  BY <1>2, FeeIsInt
<1>4. side \in {"buy", "sell"} /\ DOMAIN x = ExchangeFields
  BY DEF OrdersOK, Orders
<1>5. before \in Nat
  BY DEF Posted, Books
<1> HIDE DEF fee, side
<1>6. f \in Fills
  BY <1>3, <1>4, <1>5 DEF Fills
<1>7. f.order = i /\ f.before = got[i] /\ f.quantity = q /\ f.fee = fee
  OBVIOUS
<1> HIDE DEF f
<1>8. /\ DOMAIN y = ExchangeFields /\ y.orders = x.orders /\ y.changed = x.changed
      /\ y.account = ApplyFill(x.account, f) /\ y.fills = Append(x.fills, f)
  BY <1>1, <1>4 DEF ExchangeFields
<1>9. x.fills \in Seq(Fills) /\ Books(G, x.account, got)
  BY DEF Posted
<1> HIDE DEF G
<1>10. Books(G \cup {f}, ApplyFill(x.account, f), Plus(got, i, q))
  <2>1. Books(G \cup {f}, ApplyFill(x.account, f), [got EXCEPT ![f.order] = @ + f.quantity])
    BY <1>3, <1>6, <1>7, <1>9, FillBooks
  <2> QED
    BY <1>7, <2>1 DEF Plus
<1>11. y.fills \in Seq(Fills) /\ ToSet(y.fills) = ToSet(x.fills) \cup {f}
  BY <1>6, <1>8, <1>9, AppendedSet
<1>12. F \cup ToSet(y.fills) = G \cup {f}
  BY <1>11 DEF G
<1>13. \A g \in ToSet(y.fills) : g.order \in hit \cup {i}
  BY <1>7, <1>11 DEF Posted
<1>14. Posted(F, y, Plus(got, i, q), hit \cup {i})
  BY <1>8, <1>10, <1>11, <1>12, <1>13 DEF Posted
<1> QED
  BY <1>8, <1>14

-----------------------------------------------------------------------------
(* Operations of the exchange that fill nothing                             *)

\* An operation that neither fills nor touches the account leaves what is
\* explained.
LEMMA KeepsExplained ==
    ASSUME NEW F, NEW x, Explains(F, x), NEW y, y.fills = x.fills, y.account = x.account,
           x.changed \subseteq y.changed, DOMAIN y.orders = DOMAIN x.orders,
           \A i \in DOMAIN x.orders : y.orders[i].filled = x.orders[i].filled
    PROVE  Explains(F, y)
<1>1. FilledIn(y.orders) = FilledIn(x.orders)
  BY DEF FilledIn
<1> QED
  BY <1>1 DEF Explains, Posted

\* Writing an order of which nothing more was filled.
LEMMA PutExplains ==
    ASSUME NEW F, NEW x, Explains(F, x), NEW i, i \in DOMAIN x.orders,
           DOMAIN x = ExchangeFields, NEW o, o.filled = x.orders[i].filled
    PROVE  Explains(F, Put(x, i, o))
<1> DEFINE y == Put(x, i, o)
<1>1. /\ y.fills = x.fills /\ y.account = x.account /\ x.changed \subseteq y.changed
      /\ DOMAIN y.orders = DOMAIN x.orders
      /\ \A k \in DOMAIN x.orders : y.orders[k].filled = x.orders[k].filled
  BY DEF Put, ExchangeFields
<1> HIDE DEF y
<1>2. Explains(F, y)
  BY <1>1, KeepsExplained
<1> QED
  BY <1>2 DEF y

\* Writing an order with what its fills say.
LEMMA PutPosted ==
    ASSUME NEW F, NEW x, NEW i, i \in DOMAIN x.orders, DOMAIN x = ExchangeFields, NEW o,
           Posted(F, x, [FilledIn(x.orders) EXCEPT ![i] = o.filled], x.changed \cup {i})
    PROVE  Explains(F, Put(x, i, o))
<1> DEFINE y == Put(x, i, o)
<1>1. /\ y.fills = x.fills /\ y.account = x.account /\ y.changed = x.changed \cup {i}
      /\ y.orders = [x.orders EXCEPT ![i] = o]
  BY DEF Put, ExchangeFields
<1>2. FilledIn(y.orders) = [FilledIn(x.orders) EXCEPT ![i] = o.filled]
  BY <1>1 DEF FilledIn
<1> HIDE DEF y
<1>3. Explains(F, y)
  BY <1>1, <1>2 DEF Explains, Posted
<1> QED
  BY <1>3 DEF y

\* _mark values the account at a price; cash and fills are left alone.
LEMMA MarkExplains ==
    ASSUME NEW F, NEW x, Explains(F, x), DOMAIN x = ExchangeFields, NEW price \in Int, NEW t
    PROVE  Explains(F, Mark(x, price, t))
<1> DEFINE a == x.account
           equity == a.cash + a.position * price * Bp
           dayStart == IF t \div Day = a.day THEN a.dayStart ELSE Greatest(equity, 1)
           high == Greatest(a.high, Greatest(equity, 1))
           day == t \div Day
           b == [a EXCEPT !.mark = price, !.equity = equity, !.dayStart = dayStart,
                          !.high = high, !.day = day, !.updated = t]
           y == Mark(x, price, t)
<1>1. y = [x EXCEPT !.account = b]
  BY DEF Mark
<1> HIDE DEF equity, dayStart, high, day
<1>2. Balanced(a)
  BY DEF Explains, Posted, Books
<1>3. /\ DOMAIN b = AccountFields /\ b.cash = a.cash /\ b.position = a.position
      /\ b.cost = a.cost /\ b.realized = a.realized /\ b.fees = a.fees
      /\ b.funding = a.funding /\ b.mark = price
  BY <1>2 DEF Balanced, AccountFields
<1> HIDE DEF b
<1>4. Balanced(b)
  BY <1>2, <1>3 DEF Balanced, Carried
<1>5. y.fills = x.fills /\ y.account = b /\ y.changed = x.changed /\ y.orders = x.orders
  BY <1>1 DEF ExchangeFields
<1> HIDE DEF y
<1>6. Explains(F, y)
  BY <1>3, <1>4, <1>5 DEF Explains, Posted, Books
<1> QED
  BY <1>6 DEF y

\* settle_funding moves cash by what it accounts as funding.
LEMMA FundingExplains ==
    ASSUME NEW F, NEW x, Explains(F, x), DOMAIN x = ExchangeFields, NEW rate \in Int,
           NEW price \in Int, NEW t
    PROVE  Explains(F, SettleFunding(x, rate, price, t))
<1> DEFINE a == x.account
           position == a.position
           owed == (position * price * rate * Scenario.fundingPercent) \div 100
           flow == 0 - owed
           b == [a EXCEPT !.cash = @ + flow, !.funding = @ + flow, !.settled = t]
           y == [x EXCEPT !.account.cash = @ + flow, !.account.funding = @ + flow,
                          !.account.settled = t]
<1>1. SettleFunding(x, rate, price, t) = Mark(y, price, t)
  BY DEF SettleFunding
<1>2. Balanced(a)
  BY DEF Explains, Posted, Books
<1>3. flow \in Int
  <2> DEFINE product == position * price * rate * Scenario.fundingPercent
  <2>1. position \in Int
    BY <1>2 DEF Balanced
  <2> HIDE DEF position
  <2>2. position * price * rate \in Int
    BY <2>1, FeeIsInt
  <2>3. product \in Int
    BY <2>2, Rates
  <2> HIDE DEF product
  <2>4. product \div 100 \in Int
    BY <2>3, QuotientIsInt
  <2> QED
    BY <2>4 DEF product
<1> HIDE DEF flow
<1>4. /\ DOMAIN b = AccountFields /\ b.cash = a.cash + flow /\ b.position = a.position
      /\ b.cost = a.cost /\ b.realized = a.realized /\ b.fees = a.fees
      /\ b.funding = a.funding + flow /\ b.mark = a.mark
  BY <1>2 DEF Balanced, AccountFields
<1>5. /\ DOMAIN y = ExchangeFields /\ y.fills = x.fills /\ y.account = b
      /\ y.changed = x.changed /\ y.orders = x.orders
  BY <1>2 DEF ExchangeFields, Balanced, AccountFields
<1> HIDE DEF b, y
<1>6. Balanced(b)
  <2> DEFINE cash == a.cash
             funding == a.funding
             c == Carried(a)
             others == Capital * Bp + a.realized - a.fees
  <2>1. cash \in Int /\ funding \in Int /\ c \in Int /\ others \in Int /\ cash + c = others + funding
    BY <1>2, CapitalAssumption DEF Balanced, Carried, Bp
  <2>2. (cash + flow) + c = others + (funding + flow)
    <3> HIDE DEF cash, funding, c, others
    <3> QED
      BY <1>3, <2>1
  <2>3. Carried(b) = c
    BY <1>4 DEF Carried
  <2>4. b.cash + Carried(b) = Capital * Bp + b.realized - b.fees + b.funding
    <3> HIDE DEF c
    <3> QED
      BY <1>4, <2>2, <2>3
  <2>5. b.cash \in Int /\ b.funding \in Int
    BY <1>3, <1>4, <2>1
  <2> HIDE DEF c
  <2> QED
    BY <1>2, <1>4, <2>4, <2>5 DEF Balanced
<1>7. Explains(F, y)
  BY <1>4, <1>5, <1>6 DEF Explains, Posted, Books
<1> QED
  BY <1>1, <1>5, <1>7, MarkExplains

\* elapse ends cancellations.
LEMMA ElapseExplains ==
    ASSUME NEW F, NEW ids, NEW x, Explains(F, x), OrdersOK(ids, x), NEW t
    PROVE  Explains(F, Elapse(x, t))
<1> DEFINE y == Elapse(x, t)
<1>1. /\ y.fills = x.fills /\ y.account = x.account /\ x.changed \subseteq y.changed
      /\ DOMAIN y.orders = DOMAIN x.orders
      /\ \A k \in DOMAIN x.orders : y.orders[k].filled = x.orders[k].filled
  BY DEF Elapse, ExchangeFields, OrdersOK, Orders
<1> HIDE DEF y
<1>2. Explains(F, y)
  BY <1>1, KeepsExplained
<1> QED
  BY <1>2 DEF y

\* request_cancel_all asks for cancellations.
LEMMA CancelAllExplains ==
    ASSUME NEW F, NEW ids, NEW x, Explains(F, x), OrdersOK(ids, x), NEW t
    PROVE  Explains(F, RequestCancelAll(x, t))
<1> DEFINE y == RequestCancelAll(x, t)
<1>1. /\ y.fills = x.fills /\ y.account = x.account /\ x.changed \subseteq y.changed
      /\ DOMAIN y.orders = DOMAIN x.orders
      /\ \A k \in DOMAIN x.orders : y.orders[k].filled = x.orders[k].filled
  BY DEF RequestCancelAll, ExchangeFields, OrdersOK, Orders
<1> HIDE DEF y
<1>2. Explains(F, y)
  BY <1>1, KeepsExplained
<1> QED
  BY <1>2 DEF y

\* request_cancel asks for one.
LEMMA CancelExplains ==
    ASSUME NEW F, NEW ids, NEW x, Explains(F, x), OrdersOK(ids, x), NEW i, NEW t
    PROVE  Explains(F, RequestCancel(x, i, t))
<1>1. CASE i \in Open(x)
  <2> DEFINE o == [x.orders[i] EXCEPT !.state = "pending_cancel",
                                      !.cancelAt = t + Scenario.response]
  <2>1. RequestCancel(x, i, t) = Put(x, i, o)
    BY <1>1 DEF RequestCancel
  <2>2. i \in DOMAIN x.orders /\ x.orders[i] \in Orders /\ DOMAIN x = ExchangeFields
    BY <1>1 DEF Open, OrdersOK
  <2>3. o.filled = x.orders[i].filled
    BY <2>2 DEF Orders
  <2> HIDE DEF o
  <2> QED
    BY <2>1, <2>2, <2>3, PutExplains
<1>2. CASE i \notin Open(x)
  BY <1>2 DEF RequestCancel
<1> QED
  BY <1>1, <1>2

\* submit adds an order that nothing was filled of and that no fill is of.
LEMMA SubmitExplains ==
    ASSUME NEW F, NEW ids, NEW x, Explains(F, x), OrdersOK(ids, x), x.changed \subseteq ids,
           NEW i, i \notin ids, \A f \in F : f.order # i, NEW intent, NEW t
    PROVE  Explains(F, Submit(x, i, intent, t))
<1> DEFINE wrong == ~ intent.onGrid \/ intent.kind = "gtc"
           o == [side |-> intent.side, kind |-> intent.kind, limit |-> intent.limit,
                 quantity |-> intent.quantity, filled |-> 0, queue |-> 0,
                 state |-> IF wrong THEN "rejected" ELSE "pending_activation",
                 accepted |-> t, effective |-> t + Scenario.entry, cancelAt |-> Never]
           orders == [j \in DOMAIN x.orders \cup {i} |-> IF j = i THEN o ELSE x.orders[j]]
           y == Submit(x, i, intent, t)
           G == F \cup ToSet(x.fills)
           got == FilledIn(x.orders)
           more == FilledIn(y.orders)
<1>1. y = [x EXCEPT !.orders = orders, !.changed = @ \cup {i}]
  BY DEF Submit
<1>2. o.filled = 0
  OBVIOUS
<1> HIDE DEF o
<1>3. DOMAIN orders = ids \cup {i} /\ orders[i] = o /\ \A j \in ids : orders[j] = x.orders[j]
  BY DEF OrdersOK
<1>4. /\ y.fills = x.fills /\ y.account = x.account /\ y.changed = x.changed \cup {i}
      /\ y.orders = orders
  BY <1>1 DEF OrdersOK, ExchangeFields
<1> HIDE DEF orders, y
<1>5. DOMAIN more = ids \cup {i} /\ more[i] = 0
      /\ \A j \in ids : more[j] = got[j]
  BY <1>2, <1>3, <1>4 DEF FilledIn, OrdersOK
<1>6. DOMAIN got = ids
  BY DEF FilledIn, OrdersOK
<1>7. Books(G, x.account, got) /\ \A f \in ToSet(x.fills) : f.order \in x.changed
  BY DEF Explains, Posted
<1>8. \A f \in G : f.order # i
  BY <1>7
<1> HIDE DEF G, got
<1>9. more \in [ids \cup {i} -> Nat]
  <2>1. \A j \in ids \cup {i} : more[j] \in Nat
    BY <1>5, <1>6, <1>7 DEF Books
  <2>2. more = [j \in DOMAIN more |-> more[j]]
    BY DEF FilledIn
  <2> HIDE DEF more
  <2> QED
    BY <1>5, <2>1, <2>2
<1> HIDE DEF more
<1>10. \A j \in ids \cup {i} : more[j] = Volume(OfOrder(G, j))
  <2>1. OfOrder(G, i) = {}
    BY <1>8 DEF OfOrder
  <2> QED
    BY <1>5, <1>6, <1>7, <2>1, NothingFilled DEF Books
<1>11. \A f \in G : f.order \in ids \cup {i} => f.before + f.quantity <= more[f.order]
  BY <1>5, <1>6, <1>7, <1>8 DEF Books
<1>12. Books(G, x.account, more)
  BY <1>5, <1>7, <1>9, <1>10, <1>11 DEF Books
<1>13. Explains(F, y)
  <2>1. x.fills \in Seq(Fills)
    BY DEF Explains, Posted
  <2> QED
    BY <1>4, <1>7, <1>12, <2>1 DEF Explains, Posted, G, more
<1> QED
  BY <1>13 DEF y

\* An operation starts from an exchange whose last report is with the fills.
LEMMA FreshExplains ==
    ASSUME NEW F, NEW x, Explains(F, x), DOMAIN x = ExchangeFields
    PROVE  Explains(F \cup ToSet(x.fills), Fresh(x)) /\ Fresh(x).fills = <<>>
<1> DEFINE y == Fresh(x)
<1>1. y.fills = <<>> /\ y.account = x.account /\ y.orders = x.orders
  BY DEF Fresh, ExchangeFields
<1> HIDE DEF y
<1>2. ToSet(y.fills) = {} /\ y.fills \in Seq(Fills)
  BY <1>1 DEF ToSet
<1>3. Explains(F \cup ToSet(x.fills), y)
  <2>1. (F \cup ToSet(x.fills)) \cup {} = F \cup ToSet(x.fills)
    OBVIOUS
  <2> QED
    BY <1>1, <1>2, <2>1 DEF Explains, Posted
<1> QED
  BY <1>1, <1>3 DEF y

-----------------------------------------------------------------------------
(* Operations of the exchange that fill                                     *)

\* The price an order takes at is an integer (_round_adverse).
LEMMA TakerPriceIsInt ==
    ASSUME NEW o \in Orders, NEW price \in Int
    PROVE  TakerPrice(o, price) \in Int
<1> DEFINE rate == Bp + Sign(o.side) * Scenario.slippageBps
           slipped == price * rate
           up == (slipped + Bp - 1) \div Bp
           down == slipped \div Bp
           limit == o.limit
<1>1. rate \in Int
  BY Rates DEF Sign, Bp
<1> HIDE DEF rate
<1>2. slipped \in Int
  BY <1>1
<1> HIDE DEF slipped
<1>3. up \in Int /\ down \in Int
  BY <1>2, QuotientIsInt DEF Bp
<1>4. limit \in Int
  BY DEF Orders
<1>5. TakerPrice(o, price) \in {up, down, limit}
  BY DEF TakerPrice, Least, Greatest, slipped, rate
<1> HIDE DEF up, down, limit
<1> QED
  BY <1>3, <1>4, <1>5

\* What a sweep keeps of the books: got and hit are those of the order it fills.
SweptPosted(p, T, s) ==
    /\ DOMAIN s.x = ExchangeFields
    /\ s.x.orders = p.x.orders /\ s.x.changed = p.x.changed
    /\ s.filled \in Nat /\ s.left \in Nat
    /\ Posted(p.F, s.x, [p.got EXCEPT ![p.i] = s.filled], p.hit)
SweepingBooks == INSTANCE FoldFacts WITH Op <- SweepStep, Pick <- Highest, Holds <- SweptPosted

\* A sweep fills of the order what it says it filled (_execute_taker).
LEMMA SweptExplains ==
    ASSUME NEW F, NEW ids \in SUBSET Int, NEW x, Explains(F, x), OrdersOK(ids, x), NEW i \in ids,
           NEW m, MarketOK(m), NEW t \in Nat, NEW target \in Nat
    PROVE  LET s == Swept(x, i, m, t, target)
           IN  /\ DOMAIN s.x = ExchangeFields
               /\ s.x.orders = x.orders /\ s.x.changed = x.changed
               /\ Posted(F, s.x, [FilledIn(x.orders) EXCEPT ![i] = s.filled], x.changed \cup {i})
<1> DEFINE o == x.orders[i]
           levels == Facing(o, m)
           got == FilledIn(x.orders)
           hit == x.changed \cup {i}
           start == [x |-> x, filled |-> o.filled, left |-> target]
           p == [F |-> F, x |-> x, i |-> i, o |-> o, levels |-> levels, t |-> t,
                 got |-> got, hit |-> hit]
           S == DOMAIN levels
<1>1. o \in Orders /\ o.filled \in Nat /\ DOMAIN x.orders = ids /\ DOMAIN x = ExchangeFields
  BY DEF OrdersOK, Orders
<1>2. levels \in Seq(Levels)
  BY DEF Facing, MarketOK
<1>3. S \in SUBSET Int /\ IsFiniteSet(S) /\ \A k \in S : levels[k] \in Levels
  BY <1>2, Positions
<1>4. Swept(x, i, m, t, target) = SweepingBooks!Loop(p, start, S)
  BY DEF Swept, SweepingBooks!Loop, SweepStep, Highest, FoldLeft, MapThenFoldSet,
         SweepingBooks!MapThenFoldSet, Max
<1>5. SweepingBooks!Picks(p, S)
  BY <1>3, HighestIsLast DEF SweepingBooks!Picks, Highest
<1>6. i \in DOMAIN got /\ got[i] = o.filled /\ got = [k \in DOMAIN got |-> got[k]]
  BY <1>1 DEF FilledIn
<1>7. SweptPosted(p, {}, start)
  <2>1. [got EXCEPT ![i] = o.filled] = got
    BY <1>6
  <2>2. Posted(F, x, got, hit)
    BY DEF Explains, Posted
  <2> HIDE DEF got, hit
  <2> QED
    BY <1>1, <2>1, <2>2 DEF SweptPosted
<1> HIDE DEF got, hit
<1>8. ASSUME NEW k \in S, NEW s, NEW T, NEW T2, SweptPosted(p, T, s)
      PROVE  SweptPosted(p, T2, SweepStep(p, s, k))
  <2> DEFINE l == levels[k]
             left == s.left
             filled == s.filled
             q == Least(left, Shown(l))
             asked == l.price
             price == TakerPrice(o, asked)
             before == [got EXCEPT ![i] = filled]
             maker == FALSE
             z == s.x
             y == Fill(z, i, filled, q, price, maker, t)
  <2>1. /\ DOMAIN z = ExchangeFields /\ z.orders = x.orders /\ z.changed = x.changed
        /\ filled \in Nat /\ left \in Nat /\ Posted(F, z, before, hit)
    BY <1>8 DEF SweptPosted
  <2>2. CASE ~ Within(o, l) \/ q <= 0
    BY <1>8, <2>2 DEF SweepStep, SweepLevel, SweptPosted
  <2>3. CASE ~ (~ Within(o, l) \/ q <= 0)
    <3>1. SweepStep(p, s, k) = [x |-> y, filled |-> filled + q, left |-> left - q]
      BY <2>3 DEF SweepStep, SweepLevel
    <3>2. q \in Nat /\ q <= left
      BY <1>3, <2>1, ShownIsNat DEF Least
    <3>3. asked \in Int
      BY <1>3 DEF Levels
    <3> HIDE DEF asked
    <3>4. price \in Int
      BY <1>1, <3>3, TakerPriceIsInt
    <3>5. i \in Int /\ i \in DOMAIN before /\ before[i] = filled /\ OrdersOK(ids, z)
      BY <1>6, <2>1 DEF OrdersOK
    <3>6. maker \in BOOLEAN
      OBVIOUS
    <3> HIDE DEF price, q, left, filled, y, before, maker, z
    <3>7. /\ Posted(F, y, Plus(before, i, q), hit \cup {i})
          /\ DOMAIN y = ExchangeFields /\ y.orders = z.orders /\ y.changed = z.changed
      BY <2>1, <3>2, <3>4, <3>5, <3>6, FillPosts DEF y
    <3>8. Plus(before, i, q) = [got EXCEPT ![i] = filled + q]
      BY <1>6 DEF before, Plus
    <3>9. hit \cup {i} = hit
      BY DEF hit
    <3>10. filled + q \in Nat /\ left - q \in Nat
      BY <2>1, <3>2
    <3>11. Posted(F, y, [got EXCEPT ![i] = filled + q], hit)
      BY <3>7, <3>8, <3>9
    <3>12. p.F = F /\ p.x = x /\ p.i = i /\ p.got = got /\ p.hit = hit
      OBVIOUS
    <3> HIDE DEF p
    <3> QED
      BY <2>1, <3>1, <3>7, <3>10, <3>11, <3>12 DEF SweptPosted
  <2> QED
    BY <2>2, <2>3
<1>9. \A T \in SUBSET S : \A s : T # {} /\ SweptPosted(p, T \ {Highest(p, T)}, s)
                                   => SweptPosted(p, T, SweepStep(p, s, Highest(p, T)))
  BY <1>5, <1>8 DEF SweepingBooks!Picks
<1> HIDE DEF S, start
<1>10. /\ p.F = F /\ p.x = x /\ p.i = i /\ p.got = got /\ p.hit = hit
  OBVIOUS
<1> HIDE DEF p
<1>11. SweptPosted(p, S, SweepingBooks!Loop(p, start, S))
  BY <1>3, <1>5, <1>7, <1>9, SweepingBooks!LoopKeeps DEF IsFiniteSet, SweepingBooks!IsFiniteSet
<1> QED
  BY <1>4, <1>10, <1>11 DEF SweptPosted, got, hit

\* An order that takes is written with what it filled.
LEMMA TakerExplains ==
    ASSUME NEW F, NEW ids \in SUBSET Int, NEW x, Explains(F, x), OrdersOK(ids, x), NEW i \in ids,
           NEW m, MarketOK(m), NEW t \in Nat
    PROVE  Explains(F, ExecuteTaker(x, i, m, t))
<1> DEFINE o == x.orders[i]
           available == Available(o, m)
           target == IF Scenario.partial THEN Least(Remaining(o), available) ELSE Remaining(o)
           swept == Swept(x, i, m, t, target)
           none == target <= 0 \/ (~ Scenario.partial /\ available < Remaining(o))
           gone == [o EXCEPT !.state = "canceled"]
           done == [o EXCEPT !.filled = swept.filled,
                             !.state = IF swept.filled = o.quantity THEN "filled" ELSE "canceled"]
<1>1. o \in Orders /\ o.filled <= o.quantity /\ DOMAIN x = ExchangeFields /\ DOMAIN x.orders = ids
  BY DEF OrdersOK
<1>2. available \in Nat
  BY AvailableIsNat
<1>3. Remaining(o) \in Nat
  BY <1>1 DEF Orders, Remaining
<1>4. ExecuteTaker(x, i, m, t) = IF none THEN Put(x, i, gone) ELSE Put(swept.x, i, done)
  BY DEF ExecuteTaker
<1>5. CASE none
  <2>1. gone.filled = o.filled
    BY <1>1 DEF Orders
  <2> HIDE DEF gone, none
  <2> QED
    BY <1>1, <1>4, <1>5, <2>1, PutExplains
<1>6. CASE ~ none
  <2>1. target \in Nat
    BY <1>2, <1>3 DEF Least
  <2>2. /\ DOMAIN swept.x = ExchangeFields
        /\ swept.x.orders = x.orders /\ swept.x.changed = x.changed
        /\ Posted(F, swept.x, [FilledIn(x.orders) EXCEPT ![i] = swept.filled], x.changed \cup {i})
    <3> HIDE DEF target
    <3> QED
      BY <2>1, SweptExplains
  <2> HIDE DEF swept, target, none
  <2>3. done.filled = swept.filled
    BY <1>1 DEF Orders
  <2> HIDE DEF done
  <2>4. Explains(F, Put(swept.x, i, done))
    <3> DEFINE z == swept.x
    <3>1. i \in DOMAIN z.orders /\ DOMAIN z = ExchangeFields
      BY <1>1, <2>2
    <3>2. Posted(F, z, [FilledIn(z.orders) EXCEPT ![i] = done.filled], z.changed \cup {i})
      BY <2>2, <2>3
    <3> HIDE DEF z
    <3> QED
      BY <3>1, <3>2, PutPosted DEF z
  <2> QED
    BY <1>4, <1>6, <2>4
<1> QED
  BY <1>5, <1>6

\* Whatever kind of order becomes effective.
LEMMA ActivateExplains ==
    ASSUME NEW F, NEW ids \in SUBSET Int, NEW x, Explains(F, x), OrdersOK(ids, x), NEW i \in ids,
           NEW m, MarketOK(m), NEW t \in Nat
    PROVE  Explains(F, Activate(x, i, m, t))
<1> DEFINE o == x.orders[i]
           With(s) == [o EXCEPT !.state = s]
           rests == [o EXCEPT !.state = "resting", !.queue = DisplayedSize(m, o)]
<1>1. o \in Orders /\ DOMAIN x = ExchangeFields /\ DOMAIN x.orders = ids
  BY DEF OrdersOK
<1>2. rests.filled = o.filled /\ \A s : With(s).filled = o.filled
  BY <1>1 DEF Orders
<1>3. \/ Activate(x, i, m, t) = ExecuteTaker(x, i, m, t)
      \/ Activate(x, i, m, t) = Put(x, i, With("rejected"))
      \/ Activate(x, i, m, t) = Put(x, i, With("canceled"))
      \/ Activate(x, i, m, t) = Put(x, i, rests)
  BY DEF Activate
<1>4. Explains(F, ExecuteTaker(x, i, m, t))
  BY TakerExplains
<1> HIDE DEF With, rests
<1>5. \A z : z.filled = o.filled => Explains(F, Put(x, i, z))
  BY <1>1, PutExplains
<1> QED
  BY <1>2, <1>3, <1>4, <1>5

\* What the activation of the orders that are due keeps.
DueExplained(p, T, y) == Tracks(p.x0, p.ids, y) /\ Explains(p.F, y)
ActivatingBooks == INSTANCE FoldFacts WITH Op <- DueStep, Pick <- Highest, Holds <- DueExplained

\* The orders that become effective, in the order of their numbers.
LEMMA ActivateDueExplains ==
    ASSUME NEW F, NEW x0, NEW ids \in SUBSET Int, IsFiniteSet(ids), NEW x, Tracks(x0, ids, x),
           Explains(F, x), NEW m, MarketOK(m), NEW t \in Nat
    PROVE  Explains(F, ActivateDue(x, m, t))
<1> DEFINE p == [F |-> F, x0 |-> x0, ids |-> ids, m |-> m, t |-> t]
           S == DueOrders(x, t)
<1>1. \A i \in S : i \in ids /\ (i \in DOMAIN x0.orders => x0.orders[i].state \notin Terminal)
  BY OpenWasOpen DEF DueOrders
<1>2. S \in SUBSET Int /\ IsFiniteSet(S)
  BY <1>1, FS_Subset
<1>3. ActivateDue(x, m, t) = ActivatingBooks!Loop(p, x, S)
  BY DEF ActivateDue, ActivatingBooks!Loop, DueStep, Highest, MapThenFoldSet,
         ActivatingBooks!MapThenFoldSet, Max
<1>4. ActivatingBooks!Picks(p, S)
  BY <1>2, HighestIsLast DEF ActivatingBooks!Picks, Highest
<1>5. ASSUME NEW i \in S, NEW y, Tracks(x0, ids, y), Explains(F, y)
      PROVE  Tracks(x0, ids, DueStep(p, y, i)) /\ Explains(F, DueStep(p, y, i))
  <2>1. OrdersOK(ids, y)
    BY <1>5 DEF Tracks
  <2>2. Tracks(x0, ids, Activate(y, i, m, t))
    BY <1>1, <1>5, ActivateTracks
  <2>3. Explains(F, Activate(y, i, m, t))
    BY <1>1, <1>5, <2>1, ActivateExplains
  <2> QED
    BY <2>2, <2>3 DEF DueStep
<1>6. \A T \in SUBSET S : \A y : T # {} /\ DueExplained(p, T \ {Highest(p, T)}, y)
                                   => DueExplained(p, T, DueStep(p, y, Highest(p, T)))
  BY <1>4, <1>5 DEF ActivatingBooks!Picks, DueExplained
<1>7. DueExplained(p, {}, x)
  BY DEF DueExplained
<1> HIDE DEF S, p
<1>8. DueExplained(p, S, ActivatingBooks!Loop(p, x, S))
  BY <1>2, <1>4, <1>6, <1>7, ActivatingBooks!LoopKeeps
  DEF IsFiniteSet, ActivatingBooks!IsFiniteSet
<1> QED
  BY <1>3, <1>8 DEF DueExplained, p

\* One order that a trade reaches is written with what the trade fills of it
\* (_match_trade).
LEMMA MatchExplains ==
    ASSUME NEW F, NEW ids \in SUBSET Int, NEW s, Explains(F, s.x), OrdersOK(ids, s.x),
           s.left \in Int, NEW i \in ids, NEW t \in Nat
    PROVE  Explains(F, MatchOrder(s, i, t).x)
<1> DEFINE x == s.x
           left == s.left
           o == x.orders[i]
           eaten == Least(o.queue, left)
           rest == left - eaten
           q == Least(Remaining(o), rest)
           before == o.filled
           price == o.limit
           filled == before + q
           queued == [o EXCEPT !.queue = @ - eaten]
           maker == TRUE
           y == Fill(x, i, before, q, price, maker, t)
           done == [queued EXCEPT !.filled = filled,
                            !.state = IF filled = o.quantity THEN "filled"
                                      ELSE IF @ = "pending_cancel" THEN @
                                      ELSE "partially_filled",
                            !.cancelAt = IF filled = o.quantity \/ o.state # "pending_cancel"
                                         THEN Never ELSE @]
           r == MatchOrder(s, i, t)
           got == FilledIn(x.orders)
<1>1. /\ o \in Orders /\ o.filled <= o.quantity /\ DOMAIN x = ExchangeFields
      /\ DOMAIN x.orders = ids /\ left \in Int
  BY DEF OrdersOK
<1>2. CASE left <= 0
  BY <1>2 DEF MatchOrder
<1>3. CASE left > 0
  <2>1. eaten \in Nat /\ rest \in Nat
    <3> HIDE DEF left
    <3> QED
      BY <1>1, <1>3 DEF Orders, Least
  <2>2. queued.filled = before /\ DOMAIN queued = DOMAIN o
    <3> HIDE DEF eaten
    <3> QED
      BY <1>1 DEF Orders
  <2> HIDE DEF eaten
  <2>3. CASE rest <= 0
    <3>1. r.x = Put(x, i, queued)
      BY <1>3, <2>3 DEF MatchOrder, eaten
    <3> HIDE DEF queued, rest, x
    <3>2. i \in DOMAIN x.orders /\ Explains(F, x)
      BY <1>1 DEF x
    <3> QED
      BY <1>1, <2>2, <3>1, <3>2, PutExplains
  <2>4. CASE rest > 0 /\ ~ Scenario.partial /\ q < Remaining(o)
    <3>1. r = [s EXCEPT !.left = rest]
      BY <1>3, <2>1, <2>4 DEF MatchOrder, eaten
    <3>2. r.x = x
      BY <3>1
    <3> QED
      BY <3>2
  <2>5. CASE rest > 0 /\ ~ (~ Scenario.partial /\ q < Remaining(o))
    <3>1. r.x = Put(y, i, done)
      <4>1. r = [x |-> Put(y, i, done), left |-> rest - q]
        BY <1>3, <2>1, <2>5 DEF MatchOrder, eaten
      <4> HIDE DEF r, y, done
      <4> QED
        BY <4>1
    <3>2. q \in Nat /\ before \in Nat
      BY <1>1, <2>1, <2>5 DEF Orders, Remaining, Least
    <3>3. done.filled = filled
      <4> HIDE DEF filled, queued
      <4> QED
        BY <1>1, <2>2 DEF Orders
    <3>4. price \in Int
      BY <1>1 DEF Orders
    <3>5. maker \in BOOLEAN
      OBVIOUS
    <3>6. i \in Int /\ i \in DOMAIN got /\ before = got[i]
      BY <1>1 DEF FilledIn
    <3>7. Posted(F, x, got, x.changed) /\ OrdersOK(ids, x)
      BY DEF Explains
    <3> HIDE DEF done, q, price, maker, got, before, x
    <3>8. /\ Posted(F, y, Plus(got, i, q), x.changed \cup {i})
          /\ DOMAIN y = ExchangeFields /\ y.orders = x.orders /\ y.changed = x.changed
      BY <3>2, <3>4, <3>5, <3>6, <3>7, FillPosts
    <3>9. Plus(got, i, q) = [FilledIn(x.orders) EXCEPT ![i] = done.filled]
      BY <3>3, <3>6 DEF got, Plus
    <3> HIDE DEF y
    <3>10. Posted(F, y, [FilledIn(y.orders) EXCEPT ![i] = done.filled], y.changed \cup {i})
      BY <3>8, <3>9
    <3>11. i \in DOMAIN y.orders
      BY <1>1, <3>8
    <3>12. Explains(F, Put(y, i, done))
      BY <3>8, <3>10, <3>11, PutPosted
    <3> QED
      BY <3>1, <3>12
  <2> QED
    BY <2>1, <2>3, <2>4, <2>5
<1> QED
  BY <1>1, <1>2, <1>3

\* What one trade keeps, over the orders it reaches.
TradeExplained(p, T, s) == TradeClaim(p, T, s) /\ Explains(p.F, s.x)
MatchingBooks == INSTANCE FoldFacts WITH Op <- TradeStep, Pick <- YoungestOf,
                                         Holds <- TradeExplained

\* A trade against every order it reaches.
LEMMA MatchTradeExplains ==
    ASSUME NEW F, NEW x0, NEW ids \in SUBSET Int, IsFiniteSet(ids), NEW x, Tracks(x0, ids, x),
           Explains(F, x), NEW trade \in Trades, NEW t \in Nat
    PROVE  Explains(F, MatchTrade(x, trade, t))
<1> DEFINE p == [F |-> F, x0 |-> x0, ids |-> ids, x |-> x, t |-> t]
           start == [x |-> x, left |-> (trade.size * Scenario.flow) \div 100]
           S == Candidates(x, trade)
<1>1. \A i \in S : i \in ids /\ (i \in DOMAIN x0.orders => x0.orders[i].state \notin Terminal)
  BY OpenWasOpen DEF Candidates
<1>2. S \in SUBSET ids /\ IsFiniteSet(S)
  BY <1>1, FS_Subset
<1>3. MatchTrade(x, trade, t) = MatchingBooks!Loop(p, start, S).x
  BY DEF MatchTrade, MatchingBooks!Loop, TradeStep, YoungestOf, MapThenFoldSet,
         MatchingBooks!MapThenFoldSet
<1>4. MatchingBooks!Picks(p, S)
  <2>1. OrdersOK(ids, x)
    BY DEF Tracks
  <2> QED
    BY <1>2, <2>1, YoungestIsOne DEF MatchingBooks!Picks, YoungestOf
<1>5. ASSUME NEW i \in S, NEW s, Tracks(x0, ids, s.x), s.left \in Int, Explains(F, s.x)
      PROVE  LET r == TradeStep(p, s, i)
             IN  Tracks(x0, ids, r.x) /\ r.left \in Int /\ Explains(F, r.x)
  <2>1. OrdersOK(ids, s.x)
    BY <1>5 DEF Tracks
  <2>2. Explains(F, MatchOrder(s, i, t).x)
    BY <1>1, <1>5, <2>1, MatchExplains
  <2>3. Tracks(x0, ids, MatchOrder(s, i, t).x) /\ MatchOrder(s, i, t).left \in Int
    BY <1>1, <1>5, MatchTracks
  <2> QED
    BY <2>2, <2>3 DEF TradeStep
<1>6. \A T \in SUBSET S : \A s : T # {} /\ TradeExplained(p, T \ {YoungestOf(p, T)}, s)
                                   => TradeExplained(p, T, TradeStep(p, s, YoungestOf(p, T)))
  <2> HIDE DEF S
  <2> QED
    BY <1>4, <1>5 DEF MatchingBooks!Picks, TradeClaim, TradeExplained
<1>7. TradeExplained(p, {}, start)
  <2>1. (trade.size * Scenario.flow) \div 100 \in Nat
    BY Shares, Latencies DEF Trades
  <2> QED
    BY <2>1 DEF TradeClaim, TradeExplained
<1> HIDE DEF S, p, start
<1>8. TradeExplained(p, S, MatchingBooks!Loop(p, start, S))
  BY <1>2, <1>4, <1>6, <1>7, MatchingBooks!LoopKeeps
  DEF IsFiniteSet, MatchingBooks!IsFiniteSet
<1> QED
  BY <1>3, <1>8 DEF TradeExplained, p

\* What the trades of a market state keep, one after another.
TapeExplained(p, T, y) == Tracks(p.x0, p.ids, y) /\ Explains(p.F, y)
TradingBooks == INSTANCE FoldFacts WITH Op <- TapeStep, Pick <- Highest, Holds <- TapeExplained

\* The trades of a market state, one after another.
LEMMA MatchAllExplains ==
    ASSUME NEW F, NEW x0, NEW ids \in SUBSET Int, IsFiniteSet(ids), NEW x, Tracks(x0, ids, x),
           Explains(F, x), NEW m, MarketOK(m)
    PROVE  Explains(F, MatchAll(x, m))
<1> DEFINE p == [F |-> F, x0 |-> x0, ids |-> ids, m |-> m]
           S == DOMAIN m.trades
           t == m.observed
<1>1. S \in SUBSET Int /\ IsFiniteSet(S) /\ \A k \in S : m.trades[k] \in Trades
  BY Positions DEF MarketOK
<1>2. MatchAll(x, m) = TradingBooks!Loop(p, x, S)
  BY DEF MatchAll, TradingBooks!Loop, TapeStep, Highest, FoldLeft, MapThenFoldSet,
         TradingBooks!MapThenFoldSet, Max
<1>3. TradingBooks!Picks(p, S)
  BY <1>1, HighestIsLast DEF TradingBooks!Picks, Highest
<1>4. ASSUME NEW k \in S, NEW y, Tracks(x0, ids, y), Explains(F, y)
      PROVE  Tracks(x0, ids, TapeStep(p, y, k)) /\ Explains(F, TapeStep(p, y, k))
  <2> DEFINE trade == m.trades[k]
  <2>1. trade \in Trades /\ t \in Nat
    BY <1>1 DEF MarketOK
  <2>2. TapeStep(p, y, k) = MatchTrade(y, trade, t)
    BY DEF TapeStep
  <2> HIDE DEF trade, t
  <2>3. Tracks(x0, ids, MatchTrade(y, trade, t))
    BY <1>4, <2>1, MatchTradeTracks
  <2>4. Explains(F, MatchTrade(y, trade, t))
    BY <1>4, <2>1, MatchTradeExplains
  <2> QED
    BY <2>2, <2>3, <2>4
<1>5. \A T \in SUBSET S : \A y : T # {} /\ TapeExplained(p, T \ {Highest(p, T)}, y)
                                   => TapeExplained(p, T, TapeStep(p, y, Highest(p, T)))
  BY <1>3, <1>4 DEF TradingBooks!Picks, TapeExplained
<1>6. TapeExplained(p, {}, x)
  BY DEF TapeExplained
<1> HIDE DEF S, p
<1>7. TapeExplained(p, S, TradingBooks!Loop(p, x, S))
  BY <1>1, <1>3, <1>5, <1>6, TradingBooks!LoopKeeps DEF IsFiniteSet, TradingBooks!IsFiniteSet
<1> QED
  BY <1>2, <1>7 DEF TapeExplained, p

\* The middle of a book is an integer.
LEMMA MidIsInt ==
    ASSUME NEW m, MarketOK(m)
    PROVE  Mid(m) \in Int
<1> DEFINE bid == m.bids[1].price
           ask == m.asks[1].price
<1>1. m.bids[1] \in Levels /\ m.asks[1] \in Levels
  BY DEF MarketOK
<1>2. bid \in Int /\ ask \in Int
  BY <1>1 DEF Levels
<1> HIDE DEF bid, ask
<1>3. (bid + ask) \div 2 \in Int
  BY <1>2, QuotientIsInt
<1> QED
  BY <1>3 DEF Mid, bid, ask

\* An exchange at a market state reports what explains it (advance).
LEMMA AdvanceExplains ==
    ASSUME NEW F, NEW ids \in SUBSET Int, IsFiniteSet(ids), NEW x, OrdersOK(ids, x),
           Explains(F, x), NEW m, MarketOK(m), NEW mark \in Int
    PROVE  Explains(F \cup ToSet(x.fills), Advance(x, m, mark))
<1> DEFINE G == F \cup ToSet(x.fills)
           t == m.observed
           x1 == Mark(Fresh(x), mark, t)
           x2 == Elapse(x1, t)
           x3 == ActivateDue(x2, m, t)
           x4 == MatchAll(x3, m)
<1>1. t \in Nat /\ DOMAIN x = ExchangeFields
  BY DEF MarketOK, OrdersOK
<1>2. Tracks(x, ids, Fresh(x)) /\ DOMAIN Fresh(x) = ExchangeFields
  BY FreshTracks DEF OrdersOK
<1>3. Explains(G, Fresh(x))
  BY <1>1, FreshExplains
<1>4. Advance(x, m, mark) = Mark(x4, mark, t)
  BY DEF Advance
<1> HIDE DEF G, t
<1>5. Tracks(x, ids, x1) /\ Explains(G, x1)
  BY <1>2, <1>3, MarkTracks, MarkExplains
<1> HIDE DEF x1
<1>6. Tracks(x, ids, x2) /\ Explains(G, x2)
  <2>1. OrdersOK(ids, x1)
    BY <1>5 DEF Tracks
  <2> QED
    BY <1>5, <2>1, ElapseTracks, ElapseExplains
<1> HIDE DEF x2
<1>7. Tracks(x, ids, x3) /\ Explains(G, x3)
  BY <1>1, <1>6, ActivateDueTracks, ActivateDueExplains
<1> HIDE DEF x3
<1>8. Tracks(x, ids, x4) /\ Explains(G, x4)
  BY <1>7, MatchAllTracks, MatchAllExplains
<1> HIDE DEF x4
<1>9. DOMAIN x4 = ExchangeFields
  BY <1>8 DEF Tracks, OrdersOK
<1>10. Explains(G, Mark(x4, mark, t))
  BY <1>8, <1>9, MarkExplains
<1> QED
  BY <1>4, <1>10 DEF G

\* The same without the trades (activate_pending).
LEMMA ActivatePendingExplains ==
    ASSUME NEW F, NEW ids \in SUBSET Int, IsFiniteSet(ids), NEW x, OrdersOK(ids, x),
           Explains(F, x), NEW m, MarketOK(m), NEW t \in Nat
    PROVE  Explains(F \cup ToSet(x.fills), ActivatePending(x, m, t))
<1> DEFINE G == F \cup ToSet(x.fills)
           mark == Mid(m)
           x1 == Mark(Fresh(x), mark, t)
           x2 == Elapse(x1, t)
           x3 == ActivateDue(x2, m, t)
<1>1. mark \in Int /\ DOMAIN x = ExchangeFields
  BY MidIsInt DEF OrdersOK
<1>2. Tracks(x, ids, Fresh(x)) /\ DOMAIN Fresh(x) = ExchangeFields
  BY FreshTracks DEF OrdersOK
<1>3. Explains(G, Fresh(x))
  BY <1>1, FreshExplains
<1>4. ActivatePending(x, m, t) = Mark(x3, mark, t)
  BY DEF ActivatePending
<1> HIDE DEF G, mark
<1>5. Tracks(x, ids, x1) /\ Explains(G, x1)
  BY <1>1, <1>2, <1>3, MarkTracks, MarkExplains
<1> HIDE DEF x1
<1>6. Tracks(x, ids, x2) /\ Explains(G, x2)
  <2>1. OrdersOK(ids, x1)
    BY <1>5 DEF Tracks
  <2> QED
    BY <1>5, <2>1, ElapseTracks, ElapseExplains
<1> HIDE DEF x2
<1>7. Tracks(x, ids, x3) /\ Explains(G, x3)
  BY <1>6, ActivateDueTracks, ActivateDueExplains
<1> HIDE DEF x3
<1>8. DOMAIN x3 = ExchangeFields
  BY <1>7 DEF Tracks, OrdersOK
<1>9. Explains(G, Mark(x3, mark, t))
  BY <1>1, <1>7, <1>8, MarkExplains
<1> QED
  BY <1>4, <1>9 DEF G

-----------------------------------------------------------------------------
(* What an engine reports explains its exchange                             *)

\* A settlement fills nothing (_settle_funding_if_due).
LEMMA SettleExplains ==
    ASSUME NEW F, NEW e, EngineOK(e), Explains(F, e.x), e.rate \in Int, NEW mark \in Int, NEW t
    PROVE  LET f == SettleIfDue(e, mark, t)
           IN  Explains(F, f.x) /\ f.x.fills = e.x.fills
<1> DEFINE f == SettleIfDue(e, mark, t)
           rate == e.rate
           due == e.nextFunding
           old == e.x
           x == SettleFunding(old, rate, mark, due)
           n == (t \div FundingInterval + 1) * FundingInterval
           n2 == due + FundingInterval
<1>1. \/ f = [e EXCEPT !.nextFunding = n]
      \/ f = [e EXCEPT !.x = x, !.nextFunding = n2]
      \/ f = e
  BY DEF SettleIfDue
<1>2. DOMAIN old = ExchangeFields /\ Explains(F, old) /\ rate \in Int
  BY DEF EngineOK, OrdersOK
<1>3. x.fills = old.fills
  BY <1>2 DEF SettleFunding, Mark, ExchangeFields
<1> HIDE DEF rate, due, old
<1>4. Explains(F, x)
  BY <1>2, FundingExplains
<1> HIDE DEF n, n2, x, f
<1>5. f.x = old \/ f.x = x
  BY <1>1 DEF EngineOK, EngineFields, old
<1>6. Explains(F, f.x) /\ f.x.fills = old.fills
  BY <1>2, <1>3, <1>4, <1>5
<1> QED
  BY <1>6 DEF f, old

\* The exchange at a market state, under the engine.
LEMMA AdvancedExplains ==
    ASSUME NEW F, NEW e, EngineOK(e), Explains(F, e.x), e.x.fills = <<>>, NEW m, MarketOK(m),
           NEW mark \in Int
    PROVE  Explains(F, Advanced(e, m, mark).x)
<1> DEFINE price == IF mark = None THEN Mid(m) ELSE mark
           old == e.x
           ids == DOMAIN old.orders
           x == Advance(old, m, price)
           pending == e.pending \cup ToSet(x.fills)
           f == [e EXCEPT !.x = x, !.pending = pending]
           g == [f EXCEPT !.memory.position = f.x.account.position]
<1>1. Advanced(e, m, mark) = g
  BY DEF Advanced, Synchronize
<1>2. ids \in SUBSET Int /\ IsFiniteSet(ids) /\ OrdersOK(ids, old)
  BY IdsAreFinite DEF EngineOK
<1>3. price \in Int
  BY MidIsInt
<1>4. Explains(F, old) /\ F \cup ToSet(old.fills) = F
  BY DEF ToSet
<1> HIDE DEF price, old
<1>5. Explains(F, x)
  <2>1. Explains(F \cup ToSet(old.fills), x)
    BY <1>2, <1>3, <1>4, AdvanceExplains
  <2> QED
    BY <1>4, <2>1
<1> HIDE DEF x, pending
<1>6. DOMAIN f = EngineFields /\ f.x = x
  BY DEF EngineOK, EngineFields
<1> HIDE DEF f
<1>7. g.x = x
  BY <1>6 DEF EngineFields
<1> HIDE DEF g
<1> QED
  BY <1>1, <1>5, <1>7

\* A market state up to the market structure.
LEMMA SimulateExplains ==
    ASSUME NEW F, NEW e, EngineOK(e), Explains(F, e.x), e.x.fills = <<>>, e.rate \in Int,
           NEW m, MarketOK(m), NEW mark \in Int, NEW connected, NEW source, NEW killed
    PROVE  Explains(F, Simulate(e, m, mark, connected, source, killed).e.x)
<1> DEFINE t == m.observed
           price == IF mark = None THEN e.x.account.mark ELSE mark
           e1 == [e EXCEPT !.market = m, !.connected = connected, !.source = source]
           e2 == SettleIfDue(e1, price, t)
           e3 == Advanced(e2, m, mark)
           verdict == Assess(Snapshot(e3, killed, t), t)
           x3 == e3.x
           k == Supervised(e3, verdict, t).e
<1>1. Simulate(e, m, mark, connected, source, killed).e = k
  BY DEF Simulate, Assessed
<1>2. EngineOK(e1) /\ e1.x = e.x /\ e1.rate = e.rate
  BY DEF EngineOK, EngineFields
<1>3. price \in Int
  BY DEF Explains, Posted, Books, Balanced
<1> DEFINE x1 == e1.x
           r1 == e1.rate
<1>3a. x1 = e.x /\ r1 = e.rate /\ EngineOK(e1)
  BY <1>2
<1> HIDE DEF e1, price
<1>4. EngineOK(e2) /\ Explains(F, e2.x) /\ e2.x.fills = <<>>
  <2>1. EngineOK(e2)
    BY <1>2, SettleOK
  <2>2. Explains(F, x1) /\ r1 \in Int /\ x1.fills = <<>>
    BY <1>3a
  <2>3. Explains(F, e2.x) /\ e2.x.fills = x1.fills
    BY <1>2, <1>3, <2>2, SettleExplains, ZenonT(40)
  <2> QED
    BY <2>1, <2>2, <2>3
<1> HIDE DEF e2
<1>5. EngineOK(e3)
  BY <1>4, AdvancedOK DEF Follows
<1>6. Explains(F, x3)
  BY <1>4, AdvancedExplains
<1>7. OrdersOK(DOMAIN x3.orders, x3) /\ DOMAIN e3 = EngineFields
  BY <1>5 DEF EngineOK
<1> HIDE DEF e3, verdict, t
<1>8. k.x = x3 \/ k.x = RequestCancelAll(x3, t)
  <2> DEFINE y == RequestCancelAll(x3, t)
             left == e3.pending \ Resolved(e3, t)
             h == [e3 EXCEPT !.x = y]
             f1 == [e3 EXCEPT !.pending = left]
             f2 == [h EXCEPT !.pending = e3.pending \ Resolved(e3, t)]
  <2>1. k \in {f1, f2}
    BY <1>7 DEF Supervised, EngineFields
  <2> HIDE DEF left, y
  <2>2. f1.x = x3 /\ f2.x = y
    BY <1>7 DEF EngineFields
  <2> HIDE DEF f1, f2, k, x3
  <2> QED
    BY <2>1, <2>2 DEF y
<1> HIDE DEF x3
<1>9. Explains(F, RequestCancelAll(x3, t))
  BY <1>6, <1>7, CancelAllExplains
<1> HIDE DEF k
<1> QED
  BY <1>1, <1>6, <1>8, <1>9

\* The cancellations of a decision, in any order.
CancelExplained(p, T, x) == Tracks(p.x0, p.ids, x) /\ Explains(p.F, x)
CancelingBooks == INSTANCE FoldFacts WITH Op <- CancelStep, Pick <- AnyOf, Holds <- CancelExplained

\* What a decision cancels.
LEMMA CanceledExplains ==
    ASSUME NEW F, NEW x0, NEW ids \in SUBSET Int, IsFiniteSet(ids), NEW x, Tracks(x0, ids, x),
           Explains(F, x), NEW t \in Nat, NEW K
    PROVE  Explains(F, CancelEach(x, K \cap Open(x), t))
<1> DEFINE p == [F |-> F, x0 |-> x0, ids |-> ids, t |-> t]
           S == K \cap Open(x)
<1>1. S \in SUBSET ids /\ IsFiniteSet(S)
  BY OpenWasOpen, FS_Subset
<1> HIDE DEF S
<1>2. CancelEach(x, S, t) = CancelingBooks!Loop(p, x, S)
  BY DEF CancelEach, FoldSet, CancelingBooks!Loop, CancelStep, AnyOf, MapThenFoldSet,
         CancelingBooks!MapThenFoldSet
<1>3. CancelingBooks!Picks(p, S)
  BY DEF CancelingBooks!Picks, AnyOf
<1>4. CancelExplained(p, {}, x)
  BY DEF CancelExplained
<1>5. ASSUME NEW y, Tracks(x0, ids, y), Explains(F, y), NEW i
      PROVE  Tracks(x0, ids, CancelStep(p, y, i)) /\ Explains(F, CancelStep(p, y, i))
  <2>1. OrdersOK(ids, y)
    BY <1>5 DEF Tracks
  <2>2. Tracks(x0, ids, RequestCancel(y, i, t)) /\ Explains(F, RequestCancel(y, i, t))
    BY <1>5, <2>1, CancelTracks, CancelExplains
  <2> QED
    BY <2>2 DEF CancelStep
<1>6. \A T \in SUBSET S : \A y : T # {} /\ CancelExplained(p, T \ {AnyOf(p, T)}, y)
                                   => CancelExplained(p, T, CancelStep(p, y, AnyOf(p, T)))
  BY <1>5 DEF CancelExplained
<1> HIDE DEF p
<1>7. CancelExplained(p, S, CancelingBooks!Loop(p, x, S))
  BY <1>1, <1>3, <1>4, <1>6, CancelingBooks!LoopKeeps
  DEF IsFiniteSet, CancelingBooks!IsFiniteSet
<1> QED
  BY <1>2, <1>7 DEF CancelExplained, p, S

\* An intent that is evaluated takes a number that no fill has.
LEMMA EvaluatedExplains ==
    ASSUME NEW F, NEW e0, EngineOK(e0), \A f \in F : f.order \in 1 .. e0.memory.next - 1,
           NEW s, Follows(e0, s.e), Explains(F, s.e.x), NEW asked \in Intents, NEW sent,
           NEW allowed \in BOOLEAN, NEW t \in Nat
    PROVE  Explains(F, Evaluated(s, asked, sent, allowed, t).e.x)
<1> DEFINE e == s.e
           n == e.memory.next
           old == e.x
           ids == DOMAIN old.orders
           at == IF Independent(e, t) THEN t ELSE e.independentAt
           counted == [e EXCEPT !.sequence = @ + 1, !.memory.next = @ + 1, !.independentAt = at]
           x == Submit(old, n, asked, t)
           sends == IF asked.reduceOnly THEN sent ELSE sent \cup {[at |-> t, intent |-> n]}
           y == Submit(counted.x, n, asked, t)
           f == [counted EXCEPT !.x = y, !.sent = sends]
<1>1. Evaluated(s, asked, sent, allowed, t).e = IF allowed THEN f ELSE counted
  BY DEF Evaluated
<1>2. /\ OrdersOK(ids, old) /\ old.changed \subseteq ids /\ n \notin ids
      /\ n \in Nat /\ e0.memory.next \in Nat /\ n >= e0.memory.next /\ DOMAIN e = EngineFields
      /\ Explains(F, old)
  BY DEF Follows, EngineOK, MemoryOK, Tracks
<1> HIDE DEF at, sends
<1>3. DOMAIN counted = EngineFields /\ counted.x = old
  BY <1>2 DEF EngineFields
<1> HIDE DEF counted
<1>4. f.x = x
  BY <1>3 DEF EngineFields
<1> HIDE DEF f
<1>5. \A g \in F : g.order # n
  <2> DEFINE n0 == e0.memory.next
  <2>1. \A g \in F : g.order \in 1 .. n0 - 1
    OBVIOUS
  <2> HIDE DEF n0
  <2>2. ASSUME NEW g \in F, g.order = n PROVE FALSE
    <3>1. n \in 1 .. n0 - 1
      BY <2>1, <2>2
    <3> HIDE DEF n
    <3> QED
      BY <1>2, <3>1 DEF n0
  <2> QED
    BY <2>2
<1> HIDE DEF n, old
<1>6. Explains(F, x)
  BY <1>2, <1>5, SubmitExplains
<1> HIDE DEF x
<1> QED
  BY <1>1, <1>2, <1>3, <1>4, <1>6

\* The submissions of a decision, one after another.
SubmitExplained(p, T, r) == Follows(p.e0, r.e) /\ Explains(p.F, r.e.x)
SubmittingBooks == INSTANCE FoldFacts WITH Op <- SubmitStep, Pick <- Highest,
                                           Holds <- SubmitExplained

\* What a decision submits.
LEMMA DecidedEachExplains ==
    ASSUME NEW F, NEW e0, EngineOK(e0), \A f \in F : f.order \in 1 .. e0.memory.next - 1,
           NEW s, Follows(e0, s.e), Explains(F, s.e.x), NEW submits \in Seq(Intents),
           NEW killed, NEW t \in Nat
    PROVE  Explains(F, DecideEach(s, submits, killed, t).e.x)
<1> DEFINE p == [F |-> F, e0 |-> e0, submits |-> submits, kill |-> killed, t |-> t]
           S == DOMAIN submits
<1>1. S \in SUBSET Int /\ IsFiniteSet(S) /\ \A k \in S : submits[k] \in Intents
  BY Positions
<1>2. DecideEach(s, submits, killed, t) = SubmittingBooks!Loop(p, s, S)
  BY DEF DecideEach, SubmittingBooks!Loop, SubmitStep, Highest, FoldLeft, MapThenFoldSet,
         SubmittingBooks!MapThenFoldSet, Max
<1>3. SubmittingBooks!Picks(p, S)
  BY <1>1, HighestIsLast DEF SubmittingBooks!Picks, Highest
<1>4. ASSUME NEW k \in S, NEW r, Follows(e0, r.e), Explains(F, r.e.x)
      PROVE  Follows(e0, SubmitStep(p, r, k).e) /\ Explains(F, SubmitStep(p, r, k).e.x)
  <2> DEFINE asked == [submits[k] EXCEPT !.created = t]
             sent == Recent(r.e.sent, t)
             allowed == Objections(asked, Snapshot(r.e, killed, t), 0, sent, t) = {}
  <2>1. asked \in Intents
    BY <1>1 DEF Intents
  <2>2. SubmitStep(p, r, k) = Evaluated(r, asked, sent, allowed, t)
    BY DEF SubmitStep, Decide
  <2>3. allowed \in BOOLEAN
    OBVIOUS
  <2> HIDE DEF asked, sent, allowed
  <2>4. Follows(e0, Evaluated(r, asked, sent, allowed, t).e)
    BY <1>4, <2>1, <2>3, EvaluatedOK
  <2>5. Explains(F, Evaluated(r, asked, sent, allowed, t).e.x)
    BY <1>4, <2>1, <2>3, EvaluatedExplains
  <2> QED
    BY <2>2, <2>4, <2>5
<1>5. \A T \in SUBSET S : \A r : T # {} /\ SubmitExplained(p, T \ {Highest(p, T)}, r)
                                   => SubmitExplained(p, T, SubmitStep(p, r, Highest(p, T)))
  BY <1>3, <1>4 DEF SubmittingBooks!Picks, SubmitExplained
<1>6. SubmitExplained(p, {}, s)
  BY DEF SubmitExplained
<1> HIDE DEF S, p
<1>7. SubmitExplained(p, S, SubmittingBooks!Loop(p, s, S))
  BY <1>1, <1>3, <1>5, <1>6, SubmittingBooks!LoopKeeps
  DEF IsFiniteSet, SubmittingBooks!IsFiniteSet
<1> QED
  BY <1>2, <1>7 DEF SubmitExplained, p

\* A decision of the strategy.
LEMMA DecidedExplains ==
    ASSUME NEW F, NEW e0, EngineOK(e0), \A f \in F : f.order \in 1 .. e0.memory.next - 1,
           NEW e, Follows(e0, e), Explains(F, e.x), NEW killed, NEW cancels,
           NEW submits \in Seq(Intents), NEW t \in Nat
    PROVE  Explains(F, Decided(e, killed, cancels, submits, t).e.x)
<1> DEFINE structure == StructureUpdate(e.structure, t)
           seen == [e EXCEPT !.structure = structure]
           x == CancelEach(seen.x, cancels \cap Open(seen.x), t)
           freed == [seen EXCEPT !.x = x]
           start == [e |-> freed, approved |-> 0, denied |-> 0, independent |-> 0]
           ids == DOMAIN e.x.orders
<1>1. Decided(e, killed, cancels, submits, t) = DecideEach(start, submits, killed, t)
  BY DEF Decided
<1>2. EngineOK(e) /\ Tracks(e0.x, ids, e.x)
  BY DEF Follows
<1> HIDE DEF structure
<1>3. /\ DOMAIN seen = EngineFields /\ seen.on = TRUE /\ seen.source = e.source
      /\ seen.memory = e.memory /\ seen.market = e.market /\ seen.x = e.x
  BY <1>2 DEF EngineOK, EngineFields
<1> HIDE DEF seen
<1>4. Tracks(e0.x, ids, x) /\ Explains(F, x)
  <2>1. x = CancelEach(e.x, cancels \cap Open(e.x), t)
    BY <1>3
  <2>2. ids \in SUBSET Int /\ IsFiniteSet(ids)
    BY <1>2, IdsAreFinite
  <2> HIDE DEF x, ids
  <2> QED
    BY <1>2, <2>1, <2>2, CanceledTracks, CanceledExplains
<1> HIDE DEF x
<1>5. /\ DOMAIN freed = EngineFields /\ freed.on = TRUE /\ freed.source = e.source
      /\ freed.memory = e.memory /\ freed.market = e.market /\ freed.x = x
  BY <1>3 DEF EngineFields
<1> HIDE DEF freed
<1>6. /\ e.source = e0.source /\ DOMAIN e.memory = {"position", "next"}
      /\ e.market # NoMarket => MarketOK(e.market)
      /\ e.memory.next >= e0.memory.next
      /\ \A i \in ids \ DOMAIN e0.x.orders : i >= e0.memory.next
  BY <1>2 DEF Follows, EngineOK, MemoryOK
<1>7. Follows(e0, freed)
  <2> HIDE DEF ids
  <2>1. ids = DOMAIN e.x.orders
    BY DEF ids
  <2> QED
    BY <1>2, <1>4, <1>5, <1>6, <2>1, ExchangeStep
<1>8. Explains(F, freed.x)
  BY <1>4, <1>5
<1>9. start.e = freed
  OBVIOUS
<1> HIDE DEF start
<1> QED
  BY <1>1, <1>7, <1>8, <1>9, DecidedEachExplains

\* The watchdog.
LEMMA WatchdogExplains ==
    ASSUME NEW F, NEW e, EngineOK(e), Explains(F, e.x), e.x.fills = <<>>, NEW connected,
           NEW killed, NEW t \in Nat
    PROVE  Explains(F, Watchdog(e, connected, killed, t).x)
<1> DEFINE old == e.x
           ids == DOMAIN old.orders
           market == e.market
           stale == market = NoMarket \/ t - market.observed > Limits.publicStale
           halted == stale \/ ~ connected \/ killed
           x1 == IF halted THEN Fresh(old) ELSE ActivatePending(old, market, t)
           x2 == Elapse(x1, t)
           x3 == IF halted THEN RequestCancelAll(x2, t) ELSE x2
<1>1. Watchdog(e, connected, killed, t).x = x3
  BY DEF Watchdog
<1>2. /\ ids \in SUBSET Int /\ IsFiniteSet(ids) /\ OrdersOK(ids, old)
      /\ ~ halted => MarketOK(market)
      /\ DOMAIN old = ExchangeFields
  BY IdsAreFinite DEF EngineOK, OrdersOK
<1>3. Explains(F, old) /\ F \cup ToSet(old.fills) = F
  BY DEF ToSet
<1> HIDE DEF old, market, halted
<1>4. Tracks(old, ids, x1) /\ Explains(F, x1)
  <2>1. CASE halted
    <3>1. x1 = Fresh(old)
      BY <2>1
    <3> HIDE DEF x1
    <3>2. Explains(F \cup ToSet(old.fills), Fresh(old)) /\ Tracks(old, ids, Fresh(old))
      BY <1>2, <1>3, FreshTracks, FreshExplains
    <3> QED
      BY <1>3, <3>1, <3>2
  <2>2. CASE ~ halted
    <3>1. x1 = ActivatePending(old, market, t)
      BY <2>2
    <3> HIDE DEF x1
    <3>2. Explains(F \cup ToSet(old.fills), ActivatePending(old, market, t))
      BY <1>2, <1>3, <2>2, ActivatePendingExplains
    <3>3. Tracks(old, ids, ActivatePending(old, market, t))
      BY <1>2, <2>2, ActivatePendingTracks
    <3> QED
      BY <1>3, <3>1, <3>2, <3>3
  <2> QED
    BY <2>1, <2>2
<1> HIDE DEF x1
<1>5. Tracks(old, ids, x2) /\ Explains(F, x2)
  <2>1. OrdersOK(ids, x1)
    BY <1>4 DEF Tracks
  <2> QED
    BY <1>4, <2>1, ElapseTracks, ElapseExplains
<1> HIDE DEF x2
<1>6. Explains(F, RequestCancelAll(x2, t))
  <2>1. OrdersOK(ids, x2)
    BY <1>5 DEF Tracks
  <2> QED
    BY <1>5, <2>1, CancelAllExplains
<1> QED
  BY <1>1, <1>5, <1>6

-----------------------------------------------------------------------------
(* The books of the journal                                                 *)

\* The fills F explain the account and what was filled of each order, and are
\* fills of these orders.
Ledger(F, a, orders) == /\ Books(F, a, FilledIn(orders))
                        /\ \A f \in F : f.order \in DOMAIN orders

\* record_cycle (paper/journal.py) writes the fills, the account and the changed
\* orders: an order that it does not write was not filled.
LEMMA LedgerCommits ==
    ASSUME NEW F, NEW a, NEW orders, Ledger(F, a, orders),
           NEW x, Explains(F, x), x.changed \subseteq DOMAIN x.orders,
           NEW r, r = [i \in DOMAIN orders \cup x.changed |->
                          IF i \in x.changed THEN x.orders[i] ELSE orders[i]]
    PROVE  Ledger(F \cup ToSet(x.fills), x.account, r)
<1> DEFINE more == ToSet(x.fills)
           G == F \cup more
           old == FilledIn(orders)
           mid == FilledIn(x.orders)
           got == FilledIn(r)
           hit == x.changed
<1>1. /\ Books(F, a, old) /\ \A f \in F : f.order \in DOMAIN orders
      /\ Books(G, x.account, mid) /\ \A f \in more : f.order \in hit
  BY DEF Ledger, Explains, Posted
<1>2. /\ DOMAIN got = DOMAIN orders \cup hit /\ DOMAIN old = DOMAIN orders
      /\ \A i \in hit : got[i] = mid[i] /\ i \in DOMAIN mid
      /\ \A i \in DOMAIN orders \ hit : got[i] = old[i]
      /\ got = [i \in DOMAIN got |-> got[i]]
  BY DEF FilledIn
<1> HIDE DEF more, hit, got, old, mid
<1>3. got \in [DOMAIN got -> Nat]
  <2>1. \A i \in DOMAIN got : got[i] \in Nat
    BY <1>1, <1>2 DEF Books
  <2> QED
    BY <1>2, <2>1
<1>4. \A i \in DOMAIN got : got[i] = Volume(OfOrder(G, i))
  <2>1. ASSUME NEW i \in DOMAIN orders \ hit
        PROVE  got[i] = Volume(OfOrder(G, i))
    <3>1. OfOrder(G, i) = OfOrder(F, i)
      BY <1>1 DEF OfOrder
    <3>2. old[i] = Volume(OfOrder(F, i))
      BY <1>1, <1>2 DEF Books
    <3> QED
      BY <1>2, <3>1, <3>2
  <2>2. ASSUME NEW i \in hit
        PROVE  got[i] = Volume(OfOrder(G, i))
    BY <1>1, <1>2 DEF Books
  <2> QED
    BY <1>2, <2>1, <2>2
<1>5. \A f \in G : f.order \in DOMAIN got => f.before + f.quantity <= got[f.order]
  <2> SUFFICES ASSUME NEW f \in G, f.order \in DOMAIN got
               PROVE  f.before + f.quantity <= got[f.order]
    OBVIOUS
  <2>1. CASE f.order \in hit
    BY <1>1, <1>2, <2>1 DEF Books
  <2>2. CASE f.order \notin hit
    <3>1. f \in F /\ f.order \in DOMAIN orders
      BY <1>1, <2>2
    <3> QED
      BY <1>1, <1>2, <2>2, <3>1 DEF Books
  <2> QED
    BY <2>1, <2>2
<1>6. \A f \in G : f.order \in DOMAIN r
  <2>1. DOMAIN r = DOMAIN got
    BY DEF got, FilledIn
  <2> QED
    BY <1>1, <1>2, <2>1
<1>7. Books(G, x.account, got)
  BY <1>1, <1>3, <1>4, <1>5 DEF Books
<1> QED
  BY <1>6, <1>7 DEF Ledger, got, G, more

\* A run begins with nothing filled (begin_run of paper/journal.py).
LEMMA LedgerBegins ==
    ASSUME NEW mark \in Int, NEW t, NEW orders, DOMAIN orders = {}
    PROVE  Ledger({}, Account(Capital * Bp, mark, t), orders)
<1> DEFINE a == Account(Capital * Bp, mark, t)
           start == Capital * Bp
<1>1. start \in Int
  BY CapitalAssumption DEF Bp
<1> HIDE DEF start
<1>2. a = Account(start, mark, t)
  BY DEF start
<1> HIDE DEF a
<1>3. DOMAIN a = AccountFields /\ a.cash = start /\ a.position = 0 /\ a.cost = 0 /\ a.realized = 0
      /\ a.fees = 0 /\ a.funding = 0 /\ a.mark = mark
  BY <1>2 DEF Account, AccountFields
<1>4. a.cash + Carried(a) = start + a.realized - a.fees + a.funding
  BY <1>1, <1>3 DEF Carried
<1>5. Balanced(a)
  BY <1>1, <1>3, <1>4 DEF Balanced, start
<1>6. FilledIn(orders) \in [DOMAIN FilledIn(orders) -> Nat] /\ DOMAIN FilledIn(orders) = {}
  BY DEF FilledIn
<1>7. IsFiniteSet({})
  BY FS_EmptySet
<1>8. Books({}, a, FilledIn(orders))
  BY <1>3, <1>5, <1>6, <1>7, NothingFilled DEF Books
<1> QED
  BY <1>8 DEF Ledger, a

\* What the engine restores is explained by the journal: it leaves out only
\* orders that ended.
LEMMA RestoreExplains ==
    ASSUME NEW j, Ledger(j.fills, j.account, j.orders), NEW t
    PROVE  LET x == Restore(j, t).x
           IN  /\ Explains(j.fills, x) /\ x.fills = <<>> /\ x.changed = {}
               /\ DOMAIN x = ExchangeFields
<1> DEFINE F == j.fills
           kept == [i \in OpenInJournal(j) |-> j.orders[i]]
           x == [orders |-> kept, account |-> j.account, fills |-> <<>>, changed |-> {}]
           old == FilledIn(j.orders)
           got == FilledIn(kept)
<1>1. Restore(j, t).x = x
  BY DEF Restore
<1>2. DOMAIN got \subseteq DOMAIN old /\ \A i \in DOMAIN got : got[i] = old[i]
  BY DEF FilledIn, OpenInJournal
<1>3. got = [i \in DOMAIN got |-> got[i]]
  BY DEF FilledIn
<1>4. Books(F, j.account, old)
  BY DEF Ledger
<1> HIDE DEF got, old, F
<1>5. got \in [DOMAIN got -> Nat]
  <2>1. \A i \in DOMAIN got : got[i] \in Nat
    BY <1>2, <1>4 DEF Books
  <2> QED
    BY <1>3, <2>1
<1>6. Books(F, j.account, got)
  BY <1>2, <1>4, <1>5 DEF Books
<1> HIDE DEF kept
<1>7. x.fills = <<>> /\ ToSet(x.fills) = {} /\ x.fills \in Seq(Fills)
  BY DEF ToSet
<1>8. x.changed = {} /\ DOMAIN x = ExchangeFields /\ x.account = j.account /\ x.orders = kept
  BY DEF ExchangeFields
<1> HIDE DEF x
<1>9. F \cup ToSet(x.fills) = F
  BY <1>7
<1>10. Explains(F, x)
  BY <1>6, <1>7, <1>8, <1>9 DEF Explains, Posted, got
<1> QED
  BY <1>1, <1>7, <1>8, <1>10 DEF F

\* Every fill is of a number that the memory of e has given out.
FillsNumbered(F, e) == \A f \in F : f.order \in 1 .. e.memory.next - 1

\* An engine that reports nothing, and that the fills F explain.
Settled(F, e) == EngineOK(e) /\ Explains(F, e.x) /\ e.x.fills = <<>> /\ FillsNumbered(F, e)

\* The fills F and those of the cycle of d explain d.
CycleExplains(F, d) == /\ Explains(F, d.e.x) /\ DOMAIN d.e.x = ExchangeFields
                       /\ AfterCycle(d).x = Fresh(d.e.x)

\* What a market state and a decision do to the engine is explained by what they
\* report.
LEMMA DecisionExplains ==
    ASSUME NEW F, NEW e, Settled(F, e), NEW m, MarketOK(m),
           NEW rate \in Int, NEW next, NEW mark \in Int, NEW connected, NEW q, NEW killed,
           NEW cancels, NEW submits \in Seq(Intents),
           NEW s, s = Simulate(UpdateContext(e, rate, next), m, mark, connected, q, killed),
           NEW d, d = Decided(s.e, killed, cancels, submits, m.observed)
    PROVE  CycleExplains(F, d)
<1> USE DEF Settled, FillsNumbered
<1> DEFINE u == UpdateContext(e, rate, next)
           e0 == [u EXCEPT !.source = q]
           due == IF next # None /\ (e.nextFunding = None \/ next > e.nextFunding)
                  THEN next ELSE e.nextFunding
           t == m.observed
           revision == d.e.structure.revision
           x == Fresh(d.e.x)
<1>1. EngineOK(u) /\ u.x = e.x /\ u.memory = e.memory
  BY ContextOK
<1>2. u.rate = rate
  <2>1. u = [e EXCEPT !.rate = rate, !.nextFunding = due]
    BY DEF UpdateContext
  <2> HIDE DEF due, u
  <2> QED
    BY <2>1 DEF EngineOK, EngineFields
<1>3. Follows(e0, s.e)
  BY <1>1, SimulateOK DEF u
<1>4. Explains(F, s.e.x)
  <2> DEFINE y == u.x
             r == u.rate
  <2>1. Explains(F, y) /\ y.fills = <<>> /\ r \in Int
    BY <1>1, <1>2
  <2>2. s = Simulate(u, m, mark, connected, q, killed)
    OBVIOUS
  <2> HIDE DEF u
  <2> QED
    BY <1>1, <2>1, <2>2, SimulateExplains
<1> HIDE DEF u
<1>5. /\ DOMAIN e0 = EngineFields /\ e0.on = TRUE /\ e0.x = e.x
      /\ e0.memory = e.memory /\ e0.market = u.market
  BY <1>1 DEF EngineOK, EngineFields
<1> HIDE DEF e0
<1>6. EngineOK(e0) /\ \A f \in F : f.order \in 1 .. e0.memory.next - 1
  BY <1>1, <1>5 DEF EngineOK
<1>7. t \in Nat
  BY DEF MarketOK
<1>8. Follows(e0, d.e)
  BY <1>3, <1>6, <1>7, DecidedOK
<1>9. Explains(F, d.e.x)
  BY <1>3, <1>4, <1>6, <1>7, DecidedExplains
<1>10. EngineOK(d.e)
  BY <1>8 DEF Follows
<1>11. DOMAIN d.e = EngineFields /\ DOMAIN d.e.x = ExchangeFields
  BY <1>10 DEF EngineOK, OrdersOK
<1>12. AfterCycle(d) = [d.e EXCEPT !.persisted = revision, !.x = x]
  BY DEF AfterCycle
<1> HIDE DEF revision, x
<1>13. AfterCycle(d).x = x
  BY <1>11, <1>12 DEF EngineFields
<1> QED
  BY <1>9, <1>11, <1>13 DEF x, CycleExplains

-----------------------------------------------------------------------------
(* The invariant of the books                                               *)

\* Before a run nothing is filled, after that the journal's fills explain it.
LedgerOK(j) == /\ j.start = None => j.fills = {} /\ DOMAIN j.orders = {}
               /\ j.start # None => Ledger(j.fills, j.account, j.orders)

\* A price that funding is settled at, and its rate.
ContextTyped == service.up => service.mark \in Int /\ service.rate \in Int

\* The engine reports nothing that is not about to be committed.
EngineExplained == engine.on => /\ engine.x.fills = <<>>
                                /\ step.at # "commit" => Explains(journal.fills, engine.x)

\* A cycle that is about to be committed explains the engine that goes on from it.
CycleExplained == step.at = "commit" => /\ Explains(journal.fills, step.c.x)
                                        /\ DOMAIN step.c.x = ExchangeFields
                                        /\ engine.x = Fresh(step.c.x)

BookInv == LedgerOK(journal) /\ ContextTyped /\ EngineExplained /\ CycleExplained

\* Two journals with the same books.
SameLedger(j, k) == /\ k.start = j.start /\ k.fills = j.fills
                    /\ k.account = j.account /\ k.orders = j.orders

\* Events and drills are in other tables.
LEMMA EventsKeepBooks ==
    ASSUME NEW j, DOMAIN j = JournalFields, NEW kind, NEW drills, NEW gap
    PROVE  LET k == RecordDrills(IF gap THEN RecordEvent(j, kind) ELSE j, drills)
           IN  SameLedger(j, k) /\ DOMAIN k = JournalFields
  BY DEF SameLedger, RecordDrills, RecordEvent, JournalFields

\* Outside of the process nothing happens to the books.
LEMMA OutsideBooks ==
    ASSUME BookInv, SameLedger(journal, journal'), UNCHANGED <<service, engine, step>>
    PROVE  BookInv'
<1>1. LedgerOK(journal)' /\ ContextTyped'
  BY DEF BookInv, LedgerOK, SameLedger, ContextTyped
<1>2. EngineExplained' /\ CycleExplained'
  BY DEF BookInv, SameLedger, EngineExplained, CycleExplained
<1> QED
  BY <1>1, <1>2 DEF BookInv

\* A process that is gone takes nothing along but what it had not committed.
LEMMA DownBooks ==
    ASSUME BookInv, SameLedger(journal, journal'), engine' = Off, step' = Idle,
           service' = Down
    PROVE  BookInv'
<1>1. LedgerOK(journal)'
  BY DEF BookInv, LedgerOK, SameLedger
<1>2. ContextTyped' /\ EngineExplained' /\ CycleExplained'
  BY DEF ContextTyped, EngineExplained, CycleExplained, Down, Off, Idle
<1> QED
  BY <1>1, <1>2 DEF BookInv

\* A new process knows no mark, and no rate (shadow/service.py).
LEMMA StartBooks ==
    ASSUME ShadowInv, BookInv, Start
    PROVE  BookInv'
<1>1. UNCHANGED <<journal, engine, step>> /\ service'.mark = None /\ service'.rate = 0
  BY DEF Start
<1>2. ContextTyped'
  BY <1>1 DEF ContextTyped, None
<1>3. LedgerOK(journal)' /\ EngineExplained' /\ CycleExplained'
  BY <1>1 DEF BookInv, LedgerOK, EngineExplained, CycleExplained
<1> QED
  BY <1>2, <1>3 DEF BookInv

\* What is consumed before the engine sees it changes no books.
LEMMA ConsumeBooks ==
    ASSUME ShadowInv, BookInv, Consume
    PROVE  BookInv'
<1> DEFINE q == service.cursor + 1
           e == tape[q]
           base == Context(service, e)
           seen == [base EXCEPT !.receivedAt = e.receive]
           o == Observe(service.a, e)
           asm == o.a
           state == o.states[1]
<1>1. /\ step.at = "idle" /\ service.cursor < ingress /\ RunningOK /\ journal' = journal
  BY DEF Consume, Running, ShadowInv, ServiceOK, Down
<1>2. e \in Frames
  <2>1. q \in 1 .. Len(tape)
    BY <1>1, LogFacts DEF RunningOK, ShadowInv, LogOK
  <2> QED
    BY <2>1, LogFacts DEF ShadowInv
<1>3. /\ service.up = TRUE /\ DOMAIN service = ServiceFields
      /\ service.mark \in Int /\ service.rate \in Int
  BY <1>1 DEF BookInv, ContextTyped, RunningOK
<1>4. \/ /\ service' = [service EXCEPT !.cursor = q, !.receivedAt = e.receive]
         /\ UNCHANGED <<engine, step>>
      \/ Fail
      \/ /\ service' = [seen EXCEPT !.a = asm, !.cursor = q]
         /\ UNCHANGED <<engine, step>>
      \/ /\ service' = [seen EXCEPT !.a = asm]
         /\ step' = [at |-> "market", market |-> state, source |-> q]
         /\ UNCHANGED engine
  BY DEF Consume
<1>5. e.kind = "context" => e.mark \in Int /\ e.rate \in Int
  BY <1>2 DEF Frames, TradeFrames, BookFrames, OtherFrames
<1> HIDE DEF e, asm, state, o, q
<1>6. DOMAIN base = ServiceFields /\ base.mark \in Int /\ base.rate \in Int
  BY <1>3, <1>5 DEF Context, ServiceFields
<1> HIDE DEF base
<1>7. DOMAIN seen = ServiceFields /\ seen.mark \in Int /\ seen.rate \in Int
  BY <1>6 DEF ServiceFields
<1> HIDE DEF seen
<1>8. SameLedger(journal, journal')
  BY <1>1 DEF SameLedger
<1>9. CASE Fail
  BY <1>8, <1>9, DownBooks DEF Fail
<1>10. ASSUME engine' = engine, step'.at \in {"idle", "market"},
              service'.mark \in Int, service'.rate \in Int
       PROVE  BookInv'
  BY <1>1, <1>10
  DEF BookInv, LedgerOK, ContextTyped, EngineExplained, CycleExplained
<1>11. CASE /\ service' = [service EXCEPT !.cursor = q, !.receivedAt = e.receive]
            /\ UNCHANGED <<engine, step>>
  <2>1. service'.mark \in Int /\ service'.rate \in Int
    BY <1>3, <1>11 DEF ServiceFields
  <2> QED
    BY <1>1, <1>10, <1>11, <2>1
<1>12. CASE /\ service' = [seen EXCEPT !.a = asm, !.cursor = q]
            /\ UNCHANGED <<engine, step>>
  <2>1. service'.mark \in Int /\ service'.rate \in Int
    BY <1>7, <1>12 DEF ServiceFields
  <2> QED
    BY <1>1, <1>10, <1>12, <2>1
<1>13. CASE /\ service' = [seen EXCEPT !.a = asm]
            /\ step' = [at |-> "market", market |-> state, source |-> q]
            /\ UNCHANGED engine
  <2>1. service'.mark \in Int /\ service'.rate \in Int
    BY <1>7, <1>13 DEF ServiceFields
  <2> QED
    BY <1>10, <1>13, <2>1
<1> QED
  BY <1>4, <1>9, <1>11, <1>12, <1>13

\* An engine begins with empty books, or with those of the journal: what a
\* resume writes changes no fill and no account (paper/engine.py).
LEMMA StartEngineBooks ==
    ASSUME ShadowInv, BookInv, StartEngine
    PROVE  BookInv'
<1> DEFINE t == step.market.observed
           mark == IF service.mark = None THEN Mid(step.market) ELSE service.mark
           account == Account(Capital * Bp, mark, t)
           begun == [journal EXCEPT !.start = service.runStart, !.account = account]
           made == IF journal.start = None THEN Begin(journal, service.runStart, mark, t)
                   ELSE Resume(journal, t)
<1>1. /\ step.at = "market" /\ service.up /\ RunningOK
      /\ journal' = made.journal /\ engine' = [made.engine EXCEPT !.startedAt = now]
      /\ UNCHANGED <<service, step>>
  BY DEF StartEngine, Running, ShadowInv, ServiceOK, Down
<1>2. /\ TypedOrders(journal.orders) /\ MemoryOK(journal.checkpoint.memory)
      /\ DOMAIN journal.orders \subseteq 1 .. journal.checkpoint.memory.next - 1
      /\ DOMAIN journal = JournalFields
  BY DEF ShadowInv, JournalOK
<1>3. t \in Nat /\ mark \in Int
  <2>1. MarketOK(step.market)
    BY <1>1 DEF ShadowInv, StepOK
  <2> QED
    BY <1>1, <2>1, MidIsInt DEF BookInv, ContextTyped, MarketOK
<1> HIDE DEF mark, t
<1> DEFINE Good(f, k) == /\ DOMAIN f = EngineFields
                         /\ f.x.fills = <<>> /\ Explains(k.fills, f.x) /\ LedgerOK(k)
<1>4. Good(made.engine, made.journal)
  <2>1. CASE journal.start = None
    <3>1. made.journal = begun /\ made.engine = Restore(begun, t)
      BY <2>1 DEF Begin
    <3>2. journal.fills = {} /\ DOMAIN journal.orders = {}
      BY <2>1 DEF BookInv, LedgerOK
    <3>3. Ledger({}, account, journal.orders)
      BY <1>3, <3>2, LedgerBegins
    <3> HIDE DEF account
    <3>4. /\ begun.orders = journal.orders /\ begun.fills = {} /\ begun.account = account
          /\ begun.start = service.runStart
      BY <1>2, <3>2 DEF JournalFields
    <3>5. begun.start # None
      BY <1>1, <3>4 DEF RunningOK, None
    <3> HIDE DEF begun
    <3>6. Ledger(begun.fills, begun.account, begun.orders)
      BY <3>3, <3>4
    <3>7. Explains(begun.fills, Restore(begun, t).x) /\ Restore(begun, t).x.fills = <<>>
      BY <3>6, RestoreExplains
    <3>8. DOMAIN Restore(begun, t) = EngineFields
      BY DEF Restore, EngineFields
    <3> HIDE DEF made
    <3> QED
      BY <3>1, <3>5, <3>6, <3>7, <3>8 DEF LedgerOK
  <2>2. CASE journal.start # None
    <3> DEFINE e == Restore(journal, t)
               x == RequestCancelAll(e.x, t)
               F == journal.fills
               orders == WithOrders(journal, x)
               fills == F \cup ToSet(x.fills)
               k == [journal EXCEPT !.orders = orders, !.fills = fills, !.account = x.account]
    <3>1. made.journal = RecordEvent(k, "restart_reconciliation")
          /\ made.engine = Resume(journal, t).engine
      BY <2>2 DEF Resume, RecordCycle
    <3>2. /\ Tracks(e.x, DOMAIN e.x.orders, x)
          /\ EngineOK(made.engine) /\ made.engine.x = Fresh(x)
      BY <1>2, <1>3, <3>1, ResumeOK
    <3>3. Ledger(F, journal.account, journal.orders)
      BY <2>2 DEF BookInv, LedgerOK
    <3>4. Explains(F, e.x) /\ OrdersOK(DOMAIN e.x.orders, e.x)
      <4>1. EngineOK(e)
        BY <1>2, RestoreOK
      <4> QED
        BY <3>3, <4>1, RestoreExplains DEF EngineOK
    <3> HIDE DEF e, made
    <3>5. Explains(F, x)
      BY <3>4, CancelAllExplains
    <3>6. DOMAIN x = ExchangeFields /\ x.changed \subseteq DOMAIN x.orders
      BY <3>2 DEF Tracks, OrdersOK
    <3> HIDE DEF x
    <3>7. orders = [i \in DOMAIN journal.orders \cup x.changed |->
                       IF i \in x.changed THEN x.orders[i] ELSE journal.orders[i]]
      BY DEF WithOrders
    <3> HIDE DEF orders, F
    <3>8. Ledger(fills, x.account, orders)
      BY <3>3, <3>5, <3>6, <3>7, LedgerCommits
    <3>9. Explains(fills, Fresh(x)) /\ Fresh(x).fills = <<>>
      BY <3>5, <3>6, FreshExplains
    <3> HIDE DEF fills
    <3>10. /\ DOMAIN k = JournalFields /\ k.fills = fills /\ k.account = x.account
           /\ k.orders = orders /\ k.start = journal.start
      BY <1>2 DEF JournalFields
    <3> HIDE DEF k
    <3>11. /\ made.journal.fills = fills /\ made.journal.account = x.account
           /\ made.journal.orders = orders /\ made.journal.start = journal.start
      BY <3>1, <3>10 DEF RecordEvent, JournalFields
    <3> QED
      BY <2>2, <3>2, <3>8, <3>9, <3>11 DEF LedgerOK, EngineOK
  <2> QED
    BY <2>1, <2>2
<1> HIDE DEF made
<1>5. engine'.x = made.engine.x
  BY <1>1, <1>4 DEF EngineFields
<1>6. LedgerOK(journal)' /\ ContextTyped'
  BY <1>1, <1>4 DEF BookInv, ContextTyped, LedgerOK
<1>7. EngineExplained' /\ CycleExplained'
  BY <1>1, <1>4, <1>5 DEF EngineExplained, CycleExplained
<1> QED
  BY <1>6, <1>7 DEF BookInv


\* A decision is explained by the cycle it leaves to be committed, and the
\* engine may go on from it before it is.
LEMMA DecisionBooks ==
    ASSUME ShadowInv, BookInv, NEW cancels, NEW submits \in Seq(Intents),
           Decision(cancels, submits)
    PROVE  BookInv'
<1> DEFINE m == step.market
           q == step.source
           rate == service.rate
           mark == service.mark
           next == service.nextFunding
           u == UpdateContext(engine, rate, next)
           connected == /\ service.contextAt # None
                        /\ m.observed - service.contextAt <= Limits.publicStale
                        /\ now - service.receivedAt <= MaxLag
           killed == kill.active
           s == Simulate(u, m, mark, connected, q, killed)
           gap == FundingGap(u, m.observed)
           drills == s.drills
           early == RecordDrills(IF gap THEN RecordEvent(journal, "funding_gap") ELSE journal,
                                 drills)
           d == Decided(s.e, killed, cancels, submits, m.observed)
           structure == d.e.structure
           c == Cycle(s, d, m, q)
           F == journal.fills
<1>1. /\ step.at = "market" /\ RunningOK /\ service.up /\ engine.on /\ engine # Off
  BY SMTT(30) DEF Decision, Running, ShadowInv, ServiceOK, Down, Off
<1>2. /\ EngineOK(engine) /\ MarketOK(m) /\ journal.start # None
      /\ DOMAIN journal.orders \subseteq 1 .. engine.memory.next - 1
      /\ DOMAIN journal = JournalFields
  BY <1>1 DEF ShadowInv, EngineInv, StepOK, JournalOK
<1>3. \/ Fail /\ journal' = journal
      \/ Fail /\ journal' = early
      \/ /\ journal' = early \/ journal' = [early EXCEPT !.structure = structure]
         /\ engine' = AfterCycle(d)
         /\ step' = [at |-> "commit", c |-> c]
         /\ service' = service
  BY DEF Decision
<1>4. /\ Explains(F, engine.x) /\ engine.x.fills = <<>>
      /\ \A f \in F : f.order \in 1 .. engine.memory.next - 1
      /\ rate \in Int /\ mark \in Int
  BY <1>1, <1>2 DEF BookInv, LedgerOK, Ledger, ContextTyped, EngineExplained
<1>5. /\ s = Simulate(UpdateContext(engine, rate, next), m, mark, connected, q, killed)
      /\ d = Decided(s.e, killed, cancels, submits, m.observed)
  OBVIOUS
<1>6. c.x = d.e.x
  BY DEF Cycle
<1>7. early = RecordDrills(IF gap THEN RecordEvent(journal, "funding_gap") ELSE journal, drills)
  OBVIOUS
<1> HIDE DEF m, q, rate, mark, next, connected, killed, s, d, gap, drills, early, structure, c, F
<1>8. Explains(F, d.e.x) /\ DOMAIN d.e.x = ExchangeFields /\ AfterCycle(d).x = Fresh(d.e.x)
  <2>1. Settled(F, engine)
    BY <1>2, <1>4 DEF Settled, FillsNumbered
  <2>2. CycleExplains(F, d)
    BY <1>2, <1>4, <1>5, <2>1, DecisionExplains
  <2> QED
    BY <2>2 DEF CycleExplains
<1>9. SameLedger(journal, early) /\ DOMAIN early = JournalFields
  BY <1>2, <1>7, EventsKeepBooks
<1>10. SameLedger(journal, [early EXCEPT !.structure = structure])
  BY <1>9 DEF SameLedger, JournalFields
<1>11. SameLedger(journal, journal)
  BY DEF SameLedger
<1>12. CASE Fail
  <2>1. SameLedger(journal, journal') \/ service' = service
    BY <1>3, <1>9, <1>10, <1>11
  <2>2. service' # service
    BY <1>1, <1>12 DEF Fail, Down, RunningOK, ServiceFields
  <2> QED
    BY <1>12, <2>1, <2>2, DownBooks DEF Fail
<1>13. CASE /\ journal' = early \/ journal' = [early EXCEPT !.structure = structure]
            /\ engine' = AfterCycle(d)
            /\ step' = [at |-> "commit", c |-> c]
            /\ service' = service
  <2>1. SameLedger(journal, journal')
    BY <1>9, <1>10, <1>13
  <2>2. step'.at = "commit" /\ step'.c = c
    BY <1>13
  <2>3. engine'.x = Fresh(d.e.x) /\ Fresh(d.e.x).fills = <<>>
    BY <1>8, <1>13, FreshExplains
  <2>4. journal'.fills = F
    BY <2>1 DEF SameLedger, F
  <2>5. LedgerOK(journal)' /\ ContextTyped'
    BY <1>13, <2>1 DEF BookInv, LedgerOK, SameLedger, ContextTyped
  <2>6. EngineExplained' /\ CycleExplained'
    BY <1>6, <1>8, <2>2, <2>3, <2>4 DEF EngineExplained, CycleExplained
  <2> QED
    BY <2>5, <2>6 DEF BookInv
<1> QED
  BY <1>3, <1>12, <1>13

\* The strategy submits what is on the menu, or nothing.
LEMMA DecideBooks ==
    ASSUME ShadowInv, BookInv, Decide1
    PROVE  BookInv'
<1>1. \A submits \in Submissions : submits \in Seq(Intents)
  <2>1. \A intent \in Menu : <<intent>> \in Seq(Intents)
    BY ShadowAssumption
  <2>2. <<>> \in Seq(Intents)
    OBVIOUS
  <2>3. ASSUME NEW submits \in Submissions
        PROVE  submits = <<>> \/ \E intent \in Menu : submits = <<intent>>
    BY DEF Submissions
  <2> QED
    BY <2>1, <2>2, <2>3
<1>2. PICK cancels \in {{}, Open(engine.x)}, submits \in Submissions : Decision(cancels, submits)
  BY DEF Decide1
<1> QED
  BY <1>1, <1>2, DecisionBooks

\* The commit writes what explains the engine (paper/journal.py
\* record_engine_cycle).
LEMMA CommitBooks ==
    ASSUME ShadowInv, BookInv, CommitCycle
    PROVE  BookInv'
<1> DEFINE c == step.c
           x == c.x
           F == journal.fills
           orders == WithOrders(journal, x)
           fills == F \cup ToSet(x.fills)
           cycles == [q \in DOMAIN journal.cycles \cup {c.source} |->
                         IF q = c.source THEN c.trades ELSE journal.cycles[q]]
           j == [journal EXCEPT !.orders = orders, !.fills = fills, !.account = x.account]
           k == [j EXCEPT
                    !.approved = @ + c.approved, !.denied = @ + c.denied,
                    !.independent = @ + c.independent, !.submits = @ + c.approved,
                    !.markouts = @ \cup c.markouts,
                    !.cycles = [q \in DOMAIN @ \cup {c.source} |->
                                   IF q = c.source THEN c.trades ELSE @[q]],
                    !.checkpoint = c.checkpoint]
<1>1. /\ step.at = "commit" /\ engine # Off
      /\ journal' = RecordEngineCycle(journal, c)
      /\ step' = [at |-> "audit", source |-> c.source]
      /\ UNCHANGED <<service, engine>>
  BY DEF CommitCycle, Running, ShadowInv, StepOK
<1>2. /\ CycleOK(c) /\ journal.start # None /\ DOMAIN journal = JournalFields
  BY <1>1 DEF ShadowInv, StepOK, EngineInv, JournalOK
<1>3. x.changed \subseteq DOMAIN x.orders
  BY <1>2 DEF CycleOK, Recordable
<1>4. Explains(F, x) /\ DOMAIN x = ExchangeFields /\ engine.x = Fresh(x)
      /\ Ledger(F, journal.account, journal.orders)
  BY <1>1, <1>2 DEF BookInv, CycleExplained, LedgerOK
<1>5. journal' = k
  BY <1>1 DEF RecordEngineCycle, RecordCycle
<1>6. step'.at = "audit"
  BY <1>1
<1>7. orders = [i \in DOMAIN journal.orders \cup x.changed |->
                   IF i \in x.changed THEN x.orders[i] ELSE journal.orders[i]]
  BY DEF WithOrders
<1> HIDE DEF x, orders, F
<1>8. Ledger(fills, x.account, orders)
  BY <1>3, <1>4, <1>7, LedgerCommits
<1>9. Explains(fills, Fresh(x)) /\ Fresh(x).fills = <<>>
  BY <1>4, FreshExplains
<1> HIDE DEF fills, c
<1>10. /\ DOMAIN j = JournalFields /\ j.fills = fills /\ j.account = x.account
       /\ j.orders = orders /\ j.start = journal.start
  BY <1>2 DEF JournalFields
<1> HIDE DEF j
<1>11. /\ k.fills = fills /\ k.account = x.account /\ k.orders = orders
       /\ k.start = journal.start
  BY <1>10 DEF JournalFields
<1> HIDE DEF k
<1>12. LedgerOK(journal)' /\ ContextTyped'
  BY <1>1, <1>2, <1>5, <1>8, <1>11 DEF BookInv, LedgerOK, ContextTyped
<1>13. EngineExplained' /\ CycleExplained'
  BY <1>1, <1>4, <1>5, <1>6, <1>9, <1>11 DEF EngineExplained, CycleExplained
<1> QED
  BY <1>12, <1>13 DEF BookInv

\* The sample is in the other database.
LEMMA AuditBooks ==
    ASSUME ShadowInv, BookInv, AuditCycle
    PROVE  BookInv'
<1>1. /\ step.at = "audit" /\ RunningOK
      /\ service' = [service EXCEPT !.cursor = step.source]
      /\ step' = Idle /\ UNCHANGED <<journal, engine>>
  BY DEF AuditCycle, Running, ShadowInv, ServiceOK, Down
<1>2. step'.at = "idle"
  BY <1>1 DEF Idle
<1>3. service'.mark = service.mark /\ service'.rate = service.rate /\ service.up = TRUE
  BY <1>1 DEF RunningOK, ServiceFields
<1>4. LedgerOK(journal)' /\ ContextTyped'
  BY <1>1, <1>3 DEF BookInv, LedgerOK, ContextTyped
<1>5. EngineExplained' /\ CycleExplained'
  BY <1>1, <1>2 DEF BookInv, EngineExplained, CycleExplained
<1> QED
  BY <1>4, <1>5 DEF BookInv

\* The watchdog writes what it changed at once, and reports no fill unless it
\* changed an order (paper/engine.py watchdog).
LEMMA WatchdogBooks ==
    ASSUME ShadowInv, BookInv, WatchdogCall
    PROVE  BookInv'
<1> DEFINE connected == service.receivedAt # None /\ now - service.receivedAt <= MaxLag
           killed == kill.active
           w == Watchdog(engine, connected, killed, now)
           x == w.x
           F == journal.fills
           orders == WithOrders(journal, x)
           fills == F \cup ToSet(x.fills)
           k == [journal EXCEPT !.orders = orders, !.fills = fills, !.account = x.account]
           drills == w.drills
<1>1. /\ step.at = "idle" /\ RunningOK /\ DOMAIN journal = JournalFields
      /\ service' = [service EXCEPT !.nextWatchdog = now + WatchdogInterval]
  BY DEF WatchdogCall, Running, ShadowInv, ServiceOK, Down, JournalOK
<1>2. \/ UNCHANGED <<engine, journal, step>>
      \/ /\ engine.on /\ engine' = w.e /\ x.changed = {}
         /\ journal' = RecordDrills(journal, drills) /\ step' = step
      \/ /\ engine.on /\ engine' = w.e /\ journal' = RecordCycle(journal, x)
         /\ step' = [at |-> "checkpoint", drills |-> drills]
  BY DEF WatchdogCall
<1>3. service'.mark = service.mark /\ service'.rate = service.rate /\ service.up = TRUE
  BY <1>1 DEF RunningOK, ServiceFields
<1>4. ContextTyped'
  BY <1>3 DEF BookInv, ContextTyped
<1>5. ASSUME engine.on
      PROVE  /\ Explains(F, x) /\ DOMAIN x = ExchangeFields /\ x.changed \subseteq DOMAIN x.orders
             /\ w.e.x = Fresh(x) /\ journal.start # None
             /\ Ledger(F, journal.account, journal.orders)
  <2> HIDE DEF connected, killed, F
  <2>1. EngineOK(engine) /\ journal.start # None
    BY <1>5 DEF ShadowInv, EngineInv, Off
  <2>2. now \in Nat
    BY LogFacts DEF ShadowInv
  <2>3. Explains(F, engine.x) /\ engine.x.fills = <<>>
    BY <1>1, <1>5 DEF BookInv, EngineExplained, F
  <2>4. Tracks(engine.x, DOMAIN engine.x.orders, x) /\ w.e.x = Fresh(x)
    BY <2>1, <2>2, WatchdogOK
  <2>5. Explains(F, x)
    BY <2>1, <2>2, <2>3, WatchdogExplains
  <2>6. Ledger(F, journal.account, journal.orders)
    BY <2>1 DEF BookInv, LedgerOK, F
  <2> HIDE DEF w
  <2> QED
    BY <2>1, <2>4, <2>5, <2>6 DEF Tracks, OrdersOK
<1> HIDE DEF connected, killed, w, drills
<1>6. CASE UNCHANGED <<engine, journal, step>>
  BY <1>4, <1>6 DEF BookInv, LedgerOK, EngineExplained, CycleExplained
<1>7. CASE /\ engine.on /\ engine' = w.e /\ x.changed = {}
           /\ journal' = RecordDrills(journal, drills) /\ step' = step
  <2>1. SameLedger(journal, journal')
    BY <1>1, <1>7 DEF SameLedger, RecordDrills, JournalFields
  <2>2. ToSet(x.fills) = {}
    BY <1>5, <1>7 DEF Explains, Posted
  <2>3. Explains(F, Fresh(x)) /\ Fresh(x).fills = <<>>
    <3>1. F \cup ToSet(x.fills) = F
      BY <2>2
    <3> HIDE DEF x, F
    <3> QED
      BY <1>5, <1>7, <3>1, FreshExplains
  <2>4. engine'.x = Fresh(x)
    BY <1>5, <1>7
  <2> HIDE DEF x
  <2>5. LedgerOK(journal)'
    BY <2>1 DEF BookInv, LedgerOK, SameLedger
  <2>6. EngineExplained' /\ CycleExplained'
    BY <1>1, <1>7, <2>1, <2>3, <2>4 DEF EngineExplained, CycleExplained, SameLedger, F
  <2> QED
    BY <1>4, <2>5, <2>6 DEF BookInv
<1>8. CASE /\ engine.on /\ engine' = w.e /\ journal' = RecordCycle(journal, x)
           /\ step' = [at |-> "checkpoint", drills |-> drills]
  <2>1. orders = [i \in DOMAIN journal.orders \cup x.changed |->
                     IF i \in x.changed THEN x.orders[i] ELSE journal.orders[i]]
    BY DEF WithOrders
  <2>2. journal' = k
    BY <1>8 DEF RecordCycle
  <2> HIDE DEF x, F, orders
  <2>3. Ledger(fills, x.account, orders)
    BY <1>5, <1>8, <2>1, LedgerCommits
  <2>4. Explains(fills, Fresh(x)) /\ Fresh(x).fills = <<>>
    BY <1>5, <1>8, FreshExplains
  <2> HIDE DEF fills
  <2>5. /\ k.fills = fills /\ k.account = x.account /\ k.orders = orders
        /\ k.start = journal.start
    BY <1>1 DEF JournalFields
  <2> HIDE DEF k
  <2>6. LedgerOK(journal)'
    BY <1>5, <1>8, <2>2, <2>3, <2>5 DEF LedgerOK
  <2>7. EngineExplained' /\ CycleExplained'
    BY <1>5, <1>8, <2>2, <2>4, <2>5 DEF EngineExplained, CycleExplained
  <2> QED
    BY <1>4, <2>6, <2>7 DEF BookInv
<1> QED
  BY <1>2, <1>6, <1>7, <1>8

\* The checkpoint after a watchdog call.
LEMMA CheckpointBooks ==
    ASSUME ShadowInv, BookInv, WatchdogCheckpoint
    PROVE  BookInv'
<1> DEFINE c == CheckpointOf(engine, now)
           drills == step.drills
<1>1. /\ step.at = "checkpoint" /\ DOMAIN journal = JournalFields
      /\ journal' = RecordDrills(RecordCheckpoint(journal, c), drills)
      /\ step' = Idle /\ UNCHANGED <<service, engine>>
  BY DEF WatchdogCheckpoint, Running, ShadowInv, JournalOK
<1>2. step'.at = "idle"
  BY <1>1 DEF Idle
<1> HIDE DEF c, drills
<1>3. SameLedger(journal, journal')
  BY <1>1 DEF SameLedger, RecordDrills, RecordCheckpoint, JournalFields
<1>4. LedgerOK(journal)' /\ ContextTyped'
  BY <1>1, <1>3 DEF BookInv, LedgerOK, SameLedger, ContextTyped
<1>5. EngineExplained' /\ CycleExplained'
  BY <1>1, <1>2, <1>3 DEF BookInv, EngineExplained, CycleExplained, SameLedger
<1> QED
  BY <1>4, <1>5 DEF BookInv

\* Every step of the gateway, the process and the operators.
LEMMA BookStep == ShadowInv /\ BookInv /\ [Next]_vars => BookInv'
<1> SUFFICES ASSUME ShadowInv, BookInv, [Next]_vars
             PROVE  BookInv'
  OBVIOUS
<1>1. CASE Append1 \/ Tick \/ Kill \/ Clear \/ UNCHANGED vars
  BY <1>1, OutsideBooks DEF Append1, Tick, Kill, Clear, vars, SameLedger
<1>2. CASE Start
  BY <1>2, StartBooks
<1>3. CASE Consume
  BY <1>3, ConsumeBooks
<1>4. CASE StartEngine
  BY <1>4, StartEngineBooks
<1>5. CASE Decide1
  BY <1>5, DecideBooks
<1>6. CASE CommitCycle
  BY <1>6, CommitBooks
<1>7. CASE AuditCycle
  BY <1>7, AuditBooks
<1>8. CASE WatchdogCall
  BY <1>8, WatchdogBooks
<1>9. CASE WatchdogCheckpoint
  BY <1>9, CheckpointBooks
<1>10. CASE Crash
  BY <1>10, DownBooks DEF Crash, SameLedger
<1> QED
  BY <1>1, <1>2, <1>3, <1>4, <1>5, <1>6, <1>7, <1>8, <1>9, <1>10 DEF Next, Process

\* At first no run has begun, and nothing runs.
LEMMA BooksInitially == Init => BookInv
<1> SUFFICES ASSUME Init PROVE BookInv
  OBVIOUS
<1>1. journal.start = None /\ journal.fills = {} /\ DOMAIN journal.orders = {}
  BY DEF Init, NewJournal
<1>2. service.up = FALSE /\ engine.on = FALSE /\ step.at = "idle"
  BY DEF Init, Down, Off, Idle
<1> QED
  BY <1>1, <1>2 DEF BookInv, LedgerOK, ContextTyped, EngineExplained, CycleExplained

\* At every moment the fills of the journal and those the engine is about to
\* commit explain the account and what was filled of each order: a crash loses
\* both or neither (paper/engine.py with paper/journal.py record_cycle).
THEOREM BookInvariance == Spec => []BookInv
<1>1. ShadowInv /\ BookInv /\ [Next]_vars => BookInv'
  BY BookStep
<1> QED
  BY <1>1, BooksInitially, ShadowInvariance, PTL DEF Spec

\* What the journal says always adds up: the position and the fees are those of
\* its fills, every order has filled what its fills say, and the cash is the
\* capital with what was realized, paid and funded (paper/simulator.py
\* _apply_fill and settle_funding), for every tape, strategy, scenario, latency
\* and crash.
THEOREM JournalStaysBalanced == Spec => []JournalBalances
<1>1. BookInv => JournalBalances
  <2> SUFFICES ASSUME BookInv, journal.start # None
               PROVE  JournalBalances
    BY DEF JournalBalances
  <2> DEFINE a == journal.account
             F == journal.fills
             orders == journal.orders
  <2>1. Ledger(F, a, orders)
    BY DEF BookInv, LedgerOK
  <2>2. /\ a.position = Net(F) /\ a.fees = Charges(F) /\ Balanced(a)
        /\ \A i \in DOMAIN orders : orders[i].filled = Volume(OfOrder(F, i))
    BY <2>1 DEF Ledger, Books, FilledIn
  <2>3. a.cash + (IF a.position < 0 THEN 0 - a.cost ELSE a.cost)
          = Capital * Bp + a.realized - a.fees + a.funding
    BY <2>2 DEF Balanced, Carried
  <2> QED
    BY <2>2, <2>3
    DEF JournalBalances, Net, Charges, Volume, OfOrder, Fee, Quantity, Sum
<1> QED
  BY <1>1, BookInvariance, PTL

-----------------------------------------------------------------------------
(* The trades of the log                                                    *)

\* A trade of the tape that was not too old when it was received.
Useful(T, p) == T[p].kind = "trade" /\ ~ Stale(T[p])

\* The trades are of the frames at S, and of what was received in time there
\* none is missing that at t is not too old.
Waits(T, trades, S, t) ==
    /\ \A k \in DOMAIN trades : \E p \in S : trades[k] = T[p]
    /\ \A p \in S : Useful(T, p) /\ t - T[p].event <= MaxInputAge
                    => \E k \in DOMAIN trades : trades[k] = T[p]

\* The same of the identities that a market state carries.
Bearing(T, ids, S, t) ==
    /\ \A n \in ids : \E p \in S : T[p].kind = "trade" /\ T[p].id = n
    /\ \A p \in S : Useful(T, p) /\ t - T[p].event <= MaxInputAge => T[p].id \in ids

Ids(trades) == {trades[k].id : k \in DOMAIN trades}

\* Frames and the times in them.
LEMMA FrameTimes ==
    ASSUME LogOK, NEW q \in 1 .. Len(tape)
    PROVE  /\ tape[q] \in Frames /\ tape[q].receive \in Nat /\ tape[q].event \in Nat
           /\ MaxInputAge \in Nat
  BY LogFacts, MarketAssumption DEF Frames, TradeFrames, BookFrames, OtherFrames

\* What waits is not more later on.
LEMMA WaitsLonger ==
    ASSUME LogOK, NEW S, S \subseteq 1 .. Len(tape), NEW trades,
           NEW t \in Nat, Waits(tape, trades, S, t), NEW u \in Nat, t <= u
    PROVE  Waits(tape, trades, S, u)
<1>1. \A p \in S : tape[p].event \in Nat /\ MaxInputAge \in Nat
  BY FrameTimes
<1>2. \A p \in S : u - tape[p].event <= MaxInputAge => t - tape[p].event <= MaxInputAge
  BY <1>1
<1> QED
  BY <1>2 DEF Waits

\* A frame that is no trade, or one that was too old, adds nothing.
LEMMA NothingAdded ==
    ASSUME NEW T, NEW q, ~ Useful(T, q), NEW S, NEW trades, NEW t, Waits(T, trades, S, t)
    PROVE  Waits(T, trades, S \cup {q}, t)
  BY DEF Waits

\* _expire_stale_trades drops only what is too old by then.
LEMMA ExpireWaits ==
    ASSUME LogOK, NEW S, S \subseteq 1 .. Len(tape), NEW trades \in Seq(TradeFrames),
           NEW t \in Nat, Waits(tape, trades, S, t), NEW u \in Nat, t <= u
    PROVE  Waits(tape, Expire(trades, u), S, u) /\ Expire(trades, u) \in Seq(TradeFrames)
<1> DEFINE K == {k \in DOMAIN trades : trades[k].event >= u - MaxInputAge}
           kept == Kept(trades, K)
<1>1. Expire(trades, u) = kept /\ K \in SUBSET DOMAIN trades
  BY DEF Expire
<1>2. \A k \in DOMAIN trades : trades[k].price \in Nat /\ trades[k].event \in Nat
  <2>1. \A k \in DOMAIN trades : trades[k] \in TradeFrames
    BY Positions
  <2> QED
    BY <2>1 DEF TradeFrames
<1>3. \A p \in S : tape[p].event \in Nat /\ MaxInputAge \in Nat
  BY FrameTimes
<1>4. \A k \in DOMAIN trades : \E p \in S : trades[k] = tape[p]
  BY DEF Waits
<1>5. ASSUME NEW p \in S, Useful(tape, p), u - tape[p].event <= MaxInputAge
      PROVE  \E k \in K : trades[k] = tape[p]
  <2>1. t - tape[p].event <= MaxInputAge /\ tape[p].event >= u - MaxInputAge
    BY <1>3, <1>5
  <2>2. PICK k \in DOMAIN trades : trades[k] = tape[p]
    BY <1>5, <2>1 DEF Waits
  <2> QED
    BY <2>1, <2>2
<1> HIDE DEF K
<1>6. /\ kept \in Seq(TradeFrames)
      /\ \A j \in DOMAIN kept : \E k \in K : kept[j] = trades[k]
      /\ \A k \in K : \E j \in DOMAIN kept : kept[j] = trades[k]
  BY <1>1, <1>2, KeptIsSubsequence
<1> HIDE DEF kept
<1>7. \A j \in DOMAIN kept : \E p \in S : kept[j] = tape[p]
  <2> SUFFICES ASSUME NEW j \in DOMAIN kept
               PROVE  \E p \in S : kept[j] = tape[p]
    OBVIOUS
  <2>1. PICK k \in K : kept[j] = trades[k]
    BY <1>6
  <2>2. k \in DOMAIN trades
    BY <1>1
  <2>3. PICK p \in S : trades[k] = tape[p]
    BY <1>4, <2>2
  <2> QED
    BY <2>1, <2>3
<1>8. \A p \in S : Useful(tape, p) /\ u - tape[p].event <= MaxInputAge
                   => \E j \in DOMAIN kept : kept[j] = tape[p]
  <2> SUFFICES ASSUME NEW p \in S, Useful(tape, p), u - tape[p].event <= MaxInputAge
               PROVE  \E j \in DOMAIN kept : kept[j] = tape[p]
    OBVIOUS
  <2>1. PICK k \in K : trades[k] = tape[p]
    BY <1>5
  <2> QED
    BY <1>6, <2>1
<1> QED
  BY <1>1, <1>6, <1>7, <1>8 DEF Waits

\* A market state carries what waited.
LEMMA WaitingIsCarried ==
    ASSUME NEW S, NEW trades \in Seq(TradeFrames), NEW t, Waits(tape, trades, S, t)
    PROVE  Bearing(tape, Ids(trades), S, t)
<1>1. \A k \in DOMAIN trades : trades[k] \in TradeFrames
  BY Positions
<1>2. \A k \in DOMAIN trades : trades[k].kind = "trade"
  BY <1>1 DEF TradeFrames
<1> QED
  BY <1>2 DEF Waits, Bearing, Ids

\* After a frame either what waits is complete up to it, or a state carries it and
\* nothing waits (paper/market.py observe).
LEMMA ObserveWaits ==
    ASSUME LogOK, NEW q \in 1 .. Len(tape), NEW e, e = tape[q],
           NEW S, S \subseteq 1 .. Len(tape), NEW t \in Nat, t <= e.receive,
           NEW a, AssemblerOK(a, t), Waits(tape, a.trades, S, t)
    PROVE  LET o == Observe(a, e)
           IN  \/ o.states = <<>> /\ Waits(tape, o.a.trades, S \cup {q}, e.receive)
               \/ /\ o.states # <<>> /\ o.a.trades = <<>> /\ e.kind # "trade"
                  /\ Bearing(tape, Ids(o.states[1].trades), S \cup {q}, e.receive)
<1> DEFINE u == e.receive
           kept == Expire(a.trades, u)
           S2 == S \cup {q}
<1>1. /\ e \in Frames /\ u \in Nat /\ S2 \subseteq 1 .. Len(tape)
      /\ a.trades \in Seq(TradeFrames)
      /\ DOMAIN a = {"trades", "sequence", "lastState", "lastBook", "depth"}
  BY FrameTimes DEF AssemblerOK
<1>2. Waits(tape, kept, S, u) /\ kept \in Seq(TradeFrames)
  BY <1>1, ExpireWaits
<1> HIDE DEF kept
<1>3. CASE e.kind = "trade"
  <2> DEFINE trades == IF Stale(e) THEN kept ELSE Append(kept, e)
  <2>1. Observe(a, e) = [a |-> [a EXCEPT !.trades = trades], states |-> <<>>]
    BY <1>3 DEF Observe, kept
  <2>2. Waits(tape, trades, S2, u)
    <3>1. CASE Stale(e)
      <4>1. ~ Useful(tape, q)
        BY <3>1 DEF Useful
      <4>2. Waits(tape, kept, S2, u)
        BY <1>2, <4>1, NothingAdded
      <4> QED
        BY <3>1, <4>2
    <3>2. CASE ~ Stale(e)
      <4>1. e \in TradeFrames
        BY <1>1, <1>3 DEF Frames, BookFrames, OtherFrames
      <4> DEFINE n == Len(kept)
                 w == Append(kept, e)
      <4>2. /\ n \in Nat /\ DOMAIN kept = 1 .. n /\ DOMAIN w = 1 .. n + 1 /\ w[n + 1] = e
            /\ \A k \in 1 .. n : w[k] = kept[k]
        BY <1>2, <4>1
      <4>3. \A k \in 1 .. n + 1 : k \in 1 .. n \/ k = n + 1
        BY <4>2
      <4>4. n + 1 \in 1 .. n + 1 /\ 1 .. n \subseteq 1 .. n + 1
        BY <4>2
      <4> HIDE DEF w, n
      <4>5. \A k \in 1 .. n + 1 : \E p \in S2 : w[k] = tape[p]
        <5>1. \A k \in 1 .. n : \E p \in S : kept[k] = tape[p]
          BY <1>2, <4>2 DEF Waits
        <5>2. w[n + 1] = tape[q] /\ q \in S2
          BY <4>2
        <5> QED
          BY <4>2, <4>3, <5>1, <5>2
      <4>6. \A p \in S2 : Useful(tape, p) /\ u - tape[p].event <= MaxInputAge
                         => \E k \in 1 .. n + 1 : w[k] = tape[p]
        <5> SUFFICES ASSUME NEW p \in S2, Useful(tape, p), u - tape[p].event <= MaxInputAge
                     PROVE  \E k \in 1 .. n + 1 : w[k] = tape[p]
          OBVIOUS
        <5>1. CASE p = q
          BY <4>2, <4>4, <5>1
        <5>2. CASE p \in S
          <6>1. PICK k \in 1 .. n : kept[k] = tape[p]
            BY <1>2, <4>2, <5>2 DEF Waits
          <6> QED
            BY <4>2, <4>4, <6>1
        <5> QED
          BY <5>1, <5>2
      <4>7. Waits(tape, w, S2, u)
        BY <4>2, <4>5, <4>6 DEF Waits
      <4> QED
        BY <3>2, <4>7 DEF w
    <3> QED
      BY <3>1, <3>2
  <2> HIDE DEF trades
  <2> QED
    BY <1>1, <2>1, <2>2
<1>4. CASE e.kind \in {"bbo", "l2"}
  <2> DEFINE depth == [event |-> e.event, bids |-> e.bids, asks |-> e.asks]
             seen == [a EXCEPT !.lastBook = u, !.trades = kept]
             deep == IF e.kind = "l2" /\ ~ Stale(e) THEN [seen EXCEPT !.depth = depth] ELSE seen
             more == deep.sequence + 1
             next == [deep EXCEPT !.trades = <<>>, !.sequence = more, !.lastState = u]
             m == State(deep, e, Book(deep, e))
  <2>1. \/ Observe(a, e) = [a |-> deep, states |-> <<>>]
        \/ Observe(a, e) = [a |-> next, states |-> <<m>>]
    BY <1>4 DEF Observe, kept
  <2>2. DOMAIN seen = DOMAIN a /\ seen.trades = kept
    BY <1>1
  <2> HIDE DEF seen, depth
  <2>3. DOMAIN deep = DOMAIN a /\ deep.trades = kept
    BY <1>1, <2>2
  <2> HIDE DEF deep, more
  <2>4. next.trades = <<>>
    BY <1>1, <2>3
  <2>5. Ids(m.trades) = Ids(kept)
    <3> DEFINE trade(k) == [id |-> deep.trades[k].id, event |-> deep.trades[k].event,
                            observed |-> deep.trades[k].receive,
                            price |-> deep.trades[k].price, size |-> deep.trades[k].size,
                            aggressor |-> deep.trades[k].aggressor]
               trades == [k \in DOMAIN deep.trades |-> trade(k)]
    <3>1. m.trades = trades
      BY DEF State
    <3>2. DOMAIN trades = DOMAIN kept /\ \A k \in DOMAIN kept : trades[k].id = kept[k].id
      BY <2>3
    <3> HIDE DEF trades, m
    <3> QED
      BY <3>1, <3>2 DEF Ids
  <2>6. Waits(tape, kept, S2, u)
    <3>1. ~ Useful(tape, q)
      BY <1>4 DEF Useful
    <3> QED
      BY <1>2, <3>1, NothingAdded
  <2>7. Bearing(tape, Ids(kept), S2, u)
    BY <1>2, <2>6, WaitingIsCarried
  <2> HIDE DEF next, m
  <2>8. <<m>> # <<>> /\ <<m>>[1] = m
    OBVIOUS
  <2>9. CASE Observe(a, e) = [a |-> deep, states |-> <<>>]
    BY <2>3, <2>6, <2>9
  <2>10. CASE Observe(a, e) = [a |-> next, states |-> <<m>>]
    BY <1>4, <2>4, <2>5, <2>7, <2>8, <2>10
  <2> QED
    BY <2>1, <2>9, <2>10
<1>5. CASE e.kind \notin {"trade", "bbo", "l2"}
  <2>1. Observe(a, e) = [a |-> a, states |-> <<>>]
    BY <1>5 DEF Observe
  <2>2. Waits(tape, a.trades, S2, u)
    <3>1. ~ Useful(tape, q)
      BY <1>5 DEF Useful
    <3>2. Waits(tape, a.trades, S, u)
      BY <1>1, WaitsLonger
    <3> QED
      BY <3>1, <3>2, NothingAdded
  <2> QED
    BY <2>1, <2>2
<1> QED
  BY <1>3, <1>4, <1>5
-----------------------------------------------------------------------------
(* Every trade once                                                         *)

\* Where the log was consumed to when the journal last committed a state.
Consumed(j, s) == IF j.checkpoint.source = None THEN s.runStart ELSE j.checkpoint.source

\* The frames of the log between the last state before c and c itself.
Stretch(j, c) == {p \in 1 .. c : /\ p > j.start
                                 /\ \A d \in DOMAIN j.cycles : d < c => d < p}

\* What each committed state carried are the trades of its stretch.
CyclesBear(T, j) == \A c \in DOMAIN j.cycles :
    T[c].kind # "trade" /\ Bearing(T, j.cycles[c], Stretch(j, c), T[c].receive)

\* The checkpoint is at the last of them.
Begun(j) == j.checkpoint.source # None => /\ j.checkpoint.source \in DOMAIN j.cycles
                                          /\ j.start # None /\ j.start <= j.checkpoint.source

\* What was consumed after c up to r waits, or is in the state that is under way.
Carries(T, j, s, st, c, r) ==
    /\ c \in 0 .. r
    /\ j.start # None => s.runStart = j.start
    /\ st.at \in {"idle", "checkpoint"}
         => Waits(T, s.a.trades, c + 1 .. r, IF r = 0 THEN 0 ELSE T[r].receive)
    /\ st.at \in {"market", "commit", "audit"} => (s.a.trades = <<>> /\ T[r].kind # "trade")
    /\ st.at = "market" => Bearing(T, Ids(st.market.trades), c + 1 .. r, T[r].receive)
    /\ st.at = "commit" => Bearing(T, st.c.trades, c + 1 .. r, T[r].receive)
    /\ st.at = "audit" => c = r

TapeInv == /\ CyclesBear(tape, journal) /\ Begun(journal)
           /\ service.up => Carries(tape, journal, service, step, Consumed(journal, service), Reached)

\* Two journals with the same cycles.
SameCycles(j, k) == k.start = j.start /\ k.cycles = j.cycles /\ k.checkpoint.source = j.checkpoint.source

\* Such journals bear the same.
LEMMA SameCyclesBear ==
    ASSUME NEW T, NEW j, NEW k, SameCycles(j, k), CyclesBear(T, j), Begun(j)
    PROVE  CyclesBear(T, k) /\ Begun(k) /\ \A s : Consumed(k, s) = Consumed(j, s)
<1>1. \A c : Stretch(k, c) = Stretch(j, c)
  BY DEF Stretch, SameCycles
<1> QED
  BY <1>1 DEF SameCycles, CyclesBear, Begun, Consumed

\* The gateway, the clock and the operators leave all of it alone, and so does
\* what a process does that touches neither its log nor the cycles.
LEMMA OutsideBears ==
    ASSUME TapeInv, tape' = tape, SameCycles(journal, journal'), step'.at = step.at,
           step.at = "market" => step'.market = step.market,
           step.at = "commit" => step'.c = step.c,
           service'.up => /\ service.up /\ service'.a = service.a
                          /\ service'.runStart = service.runStart
                          /\ service'.cursor = service.cursor
    PROVE  TapeInv'
<1>1. CyclesBear(tape, journal)' /\ Begun(journal)'
  BY SameCyclesBear DEF TapeInv
<1>2. ASSUME service'.up
      PROVE  Carries(tape, journal, service, step, Consumed(journal, service), Reached)'
  <2>1. Consumed(journal, service)' = Consumed(journal, service) /\ Reached' = Reached
    BY <1>2 DEF Consumed, SameCycles, Reached
  <2>2. Carries(tape, journal, service, step, Consumed(journal, service), Reached)
    BY <1>2 DEF TapeInv
  <2> DEFINE c == Consumed(journal, service)
             r == Reached
  <2>3. c' = c /\ r' = r
    BY <2>1
  <2> HIDE DEF c, r
  <2>4. Carries(tape, journal, service, step, c, r)
    BY <2>2 DEF c, r
  <2>5. Carries(tape', journal', service', step', c, r)
    BY <1>2, <2>4 DEF Carries, SameCycles
  <2> QED
    BY <2>3, <2>5 DEF c, r
<1> QED
  BY <1>1, <1>2 DEF TapeInv

\* A process that is gone loses what waited.
LEMMA DownBears ==
    ASSUME TapeInv, tape' = tape, SameCycles(journal, journal'), service' = Down
    PROVE  TapeInv'
<1>1. CyclesBear(tape, journal)' /\ Begun(journal)'
  BY SameCyclesBear DEF TapeInv
<1> QED
  BY <1>1 DEF TapeInv, Down

\* A new one begins where the journal ended (shadow/service.py _initial_cursor).
LEMMA StartBears ==
    ASSUME ShadowInv, TapeInv, Start
    PROVE  TapeInv'
<1>1. /\ service' = [up |-> TRUE, a |-> EmptyAssembler, mark |-> None, rate |-> 0,
                     nextFunding |-> None, contextAt |-> None, receivedAt |-> None,
                     cursor |-> InitialCursor(journal, ingress),
                     runStart |-> IF journal.start = None THEN ingress ELSE journal.start,
                     nextWatchdog |-> now + WatchdogInterval]
      /\ UNCHANGED <<tape, ingress, journal, step>>
  BY DEF Start
<1>2. step.at = "idle" /\ step'.at = "idle"
  BY <1>1 DEF Start, ShadowInv, ServiceOK, RunningOK, Idle
<1>3. /\ service'.cursor = InitialCursor(journal, ingress) /\ service'.a.trades = <<>>
      /\ service'.runStart = (IF journal.start = None THEN ingress ELSE journal.start)
  BY <1>1 DEF EmptyAssembler
<1>4. Reached' = service'.cursor
  BY <1>2 DEF Reached
<1>5. Consumed(journal, service)' = service'.cursor
  BY <1>1, <1>3 DEF Consumed, InitialCursor, TapeInv, Begun
<1>6. service'.cursor \in Nat
  <2>1. ingress \in Nat
    BY LogFacts DEF ShadowInv
  <2> QED
    BY <1>3, <2>1 DEF InitialCursor, ShadowInv, JournalOK
<1> DEFINE c == service'.cursor
<1>7. Waits(tape, <<>>, c + 1 .. c, IF c = 0 THEN 0 ELSE tape[c].receive)
  BY <1>6 DEF Waits
<1>8. Carries(tape, journal, service', step, c, c)
  BY <1>2, <1>3, <1>6, <1>7 DEF Carries
<1>9. CyclesBear(tape, journal)' /\ Begun(journal)'
  BY <1>1 DEF TapeInv
<1> QED
  BY <1>1, <1>4, <1>5, <1>8, <1>9 DEF TapeInv

\* A trade waits, a book takes along what waited (shadow/service.py
\* consume_record with paper/market.py observe).
LEMMA ConsumeBears ==
    ASSUME ShadowInv, TapeInv, Consume
    PROVE  TapeInv'
<1> DEFINE p == service.cursor
           q == p + 1
           e == tape[q]
           base == Context(service, e)
           seen == [base EXCEPT !.receivedAt = e.receive]
           asm == service.a
           o == Observe(asm, e)
           oa == o.a
           state == o.states[1]
           c == Consumed(journal, service)
           S == c + 1 .. p
           t == IF p = 0 THEN 0 ELSE tape[p].receive
           u == e.receive
<1>1. /\ step.at = "idle" /\ p < ingress /\ RunningOK /\ service.up
      /\ UNCHANGED <<now, tape, ingress, kill, journal, crashes>>
  BY DEF Consume, Running, ShadowInv, ServiceOK, Down
<1>2. /\ ingress \in Nat /\ p \in 0 .. ingress /\ Reached = p
      /\ AssemblerOK(asm, t) /\ Len(tape) \in Nat /\ ingress <= Len(tape)
  BY <1>1, LogFacts DEF RunningOK, Reached, ShadowInv, Seen, LogOK
<1>3. q \in 1 .. ingress /\ q \in 1 .. Len(tape) /\ u \in Nat
  BY <1>1, <1>2, LogFacts DEF ShadowInv
<1>4. t \in Nat /\ t <= u
  <2>1. CASE p = 0
    BY <1>3, <2>1
  <2>2. CASE p # 0
    <3>1. p \in 1 .. ingress /\ p \in 1 .. Len(tape) /\ p <= q
      BY <1>2, <2>2
    <3>2. tape[p].receive <= tape[q].receive
      BY <1>3, <3>1 DEF ShadowInv, LogOK
    <3> QED
      BY <2>2, <3>1, <3>2, LogFacts DEF ShadowInv
  <2> QED
    BY <2>1, <2>2
<1>5. /\ Carries(tape, journal, service, step, c, p) /\ c \in 0 .. p
      /\ Waits(tape, asm.trades, S, t)
  <2>1. Carries(tape, journal, service, step, c, p)
    BY <1>1, <1>2 DEF TapeInv
  <2> HIDE DEF c
  <2>2. c \in 0 .. p /\ Waits(tape, asm.trades, c + 1 .. p, t)
    BY <1>1, <2>1 DEF Carries
  <2> QED
    BY <2>1, <2>2
<1>6. S \subseteq 1 .. Len(tape) /\ S \cup {q} = c + 1 .. q /\ c \in 0 .. q /\ q # 0
  BY <1>2, <1>3, <1>5
<1>7. \/ o.states = <<>> /\ Waits(tape, oa.trades, c + 1 .. q, u)
      \/ /\ o.states # <<>> /\ oa.trades = <<>> /\ e.kind # "trade"
         /\ Bearing(tape, Ids(state.trades), c + 1 .. q, u)
  <2> HIDE DEF S, t, q, c, asm
  <2>1. e = tape[q] /\ u = e.receive
    OBVIOUS
  <2> HIDE DEF e
  <2>2. LogOK /\ q \in 1 .. Len(tape) /\ S \subseteq 1 .. Len(tape) /\ t \in Nat
        /\ AssemblerOK(asm, t) /\ Waits(tape, asm.trades, S, t) /\ t <= e.receive
    BY <1>2, <1>3, <1>4, <1>5, <1>6, <2>1 DEF ShadowInv
  <2>3. \/ o.states = <<>> /\ Waits(tape, oa.trades, S \cup {q}, e.receive)
        \/ /\ o.states # <<>> /\ oa.trades = <<>> /\ e.kind # "trade"
           /\ Bearing(tape, Ids(state.trades), S \cup {q}, e.receive)
    BY <2>1, <2>2, ObserveWaits
  <2> QED
    BY <1>6, <2>1, <2>3
<1>8. e.kind = "control" => o.states = <<>> /\ oa = asm
  BY DEF Observe
<1>9. \/ /\ e.kind = "control"
         /\ service' = [service EXCEPT !.cursor = q, !.receivedAt = u]
         /\ step' = step
      \/ Fail
      \/ /\ o.states = <<>>
         /\ service' = [seen EXCEPT !.a = oa, !.cursor = q]
         /\ step' = step
      \/ /\ o.states # <<>>
         /\ service' = [seen EXCEPT !.a = oa]
         /\ step' = [at |-> "market", market |-> state, source |-> q]
  BY DEF Consume
<1>10. DOMAIN service = ServiceFields /\ service.up = TRUE
  BY <1>1 DEF RunningOK
<1>11. DOMAIN base = ServiceFields /\ base.runStart = service.runStart /\ base.cursor = p
       /\ base.up = TRUE
  BY <1>10 DEF Context, ServiceFields
<1> HIDE DEF base
<1>12. DOMAIN seen = ServiceFields /\ seen.runStart = service.runStart /\ seen.cursor = p
       /\ seen.up = TRUE
  BY <1>11 DEF ServiceFields
<1> HIDE DEF seen, o, e
<1>13. SameCycles(journal, journal')
  BY <1>1 DEF SameCycles
<1>14. CyclesBear(tape, journal)' /\ Begun(journal)'
  BY <1>1 DEF TapeInv
<1>15. ASSUME service'.runStart = service.runStart,
              Reached' = q, Carries(tape, journal, service', step', c, q)
       PROVE  TapeInv'
  <2>1. Consumed(journal, service)' = c
    BY <1>1, <1>15 DEF Consumed
  <2> HIDE DEF c, q
  <2> QED
    BY <1>1, <1>14, <1>15, <2>1 DEF TapeInv
<1>16. journal.start # None => service.runStart = journal.start
  BY <1>5 DEF Carries
<1>17. CASE Fail
  BY <1>1, <1>13, <1>17, DownBears DEF Fail
<1>18. ASSUME o.states = <<>>, step' = step, service'.runStart = service.runStart,
              service'.cursor = q, service'.a = oa
       PROVE  TapeInv'
  <2>1. Reached' = q /\ step'.at = "idle"
    BY <1>1, <1>18 DEF Reached
  <2> HIDE DEF c, q, oa
  <2>2. Waits(tape, oa.trades, c + 1 .. q, IF q = 0 THEN 0 ELSE tape[q].receive)
    BY <1>6, <1>7, <1>18 DEF e
  <2>3. Carries(tape, journal, service', step', c, q)
    BY <1>6, <1>16, <1>18, <2>1, <2>2 DEF Carries
  <2> QED
    BY <1>15, <1>18, <2>1, <2>3
<1>19. CASE /\ e.kind = "control" /\ step' = step
            /\ service' = [service EXCEPT !.cursor = q, !.receivedAt = u]
  <2>1. service'.runStart = service.runStart /\ service'.cursor = q /\ service'.a = asm
    BY <1>10, <1>19 DEF ServiceFields
  <2> QED
    BY <1>8, <1>18, <1>19, <2>1
<1>20. CASE /\ o.states = <<>> /\ step' = step
            /\ service' = [seen EXCEPT !.a = oa, !.cursor = q]
  <2>1. service'.runStart = service.runStart /\ service'.cursor = q /\ service'.a = oa
    BY <1>12, <1>20 DEF ServiceFields
  <2> QED
    BY <1>18, <1>20, <2>1
<1>21. CASE /\ o.states # <<>> /\ service' = [seen EXCEPT !.a = oa]
            /\ step' = [at |-> "market", market |-> state, source |-> q]
  <2>1. service'.runStart = service.runStart /\ service'.cursor = p /\ service'.a = oa
    BY <1>12, <1>21 DEF ServiceFields
  <2>2. step'.at = "market" /\ step'.market = state /\ Reached' = q
    BY <1>21, <2>1 DEF Reached
  <2> HIDE DEF c, q, oa, state
  <2>3. /\ oa.trades = <<>> /\ tape[q].kind # "trade"
        /\ Bearing(tape, Ids(state.trades), c + 1 .. q, tape[q].receive)
    BY <1>7, <1>21 DEF e
  <2>4. Carries(tape, journal, service', step', c, q)
    BY <1>6, <1>16, <2>1, <2>2, <2>3 DEF Carries
  <2> QED
    BY <1>15, <2>1, <2>2, <2>4
<1> QED
  BY <1>9, <1>17, <1>19, <1>20, <1>21

\* A run begins where its process did, before any state of it is committed.
LEMMA StartEngineBears ==
    ASSUME ShadowInv, TapeInv, StartEngine
    PROVE  TapeInv'
<1> DEFINE t == step.market.observed
           mark == IF service.mark = None THEN Mid(step.market) ELSE service.mark
           account == Account(Capital * Bp, mark, t)
           begun == [journal EXCEPT !.start = service.runStart, !.account = account]
           x == RequestCancelAll(Restore(journal, t).x, t)
           made == IF journal.start = None THEN Begin(journal, service.runStart, mark, t)
                   ELSE Resume(journal, t)
<1>1. /\ step.at = "market" /\ service.up /\ RunningOK /\ journal' = made.journal
      /\ UNCHANGED <<now, tape, ingress, kill, audit, service, step, crashes>>
      /\ DOMAIN journal = JournalFields
  BY DEF StartEngine, Running, ShadowInv, ServiceOK, Down, JournalOK
<1>2. CASE journal.start = None
  <2>1. journal' = begun
    BY <1>1, <1>2 DEF Begin
  <2> HIDE DEF account, made
  <2>2. /\ journal'.start = service.runStart /\ journal'.cycles = journal.cycles
        /\ journal'.checkpoint = journal.checkpoint
    BY <1>1, <2>1 DEF JournalFields
  <2>3. journal.checkpoint.source = None /\ DOMAIN journal.cycles = {}
    <3>1. journal.checkpoint.source = None
      BY <1>2 DEF TapeInv, Begun
    <3> QED
      BY <3>1, LogFacts DEF ShadowInv, JournalOK, None
  <2>4. CyclesBear(tape, journal)' /\ Begun(journal)'
    BY <1>1, <2>2, <2>3 DEF CyclesBear, Begun
  <2> DEFINE c == Consumed(journal, service)
             r == Reached
  <2>5. Consumed(journal, service)' = c /\ Reached' = r
    BY <1>1, <2>2 DEF Consumed, Reached
  <2>6. Carries(tape, journal, service, step, c, r)
    BY <1>1 DEF TapeInv
  <2> HIDE DEF c, r
  <2>7. Carries(tape, journal', service, step, c, r)
    BY <2>2, <2>6 DEF Carries
  <2>8. Carries(tape, journal, service, step, Consumed(journal, service), Reached)'
    BY <1>1, <2>5, <2>7
  <2> QED
    BY <2>4, <2>8 DEF TapeInv
<1>3. CASE journal.start # None
  <2>1. journal' = RecordEvent(RecordCycle(journal, x), "restart_reconciliation")
    BY <1>1, <1>3 DEF Resume
  <2> HIDE DEF x, made
  <2>2. SameCycles(journal, journal')
    BY <1>1, <2>1 DEF SameCycles, RecordEvent, RecordCycle, JournalFields
  <2> QED
    BY <1>1, <2>2, OutsideBears
<1> QED
  BY <1>2, <1>3

\* The decision carries on what its market state brought (paper/engine.py
\* on_market).
LEMMA DecisionBears ==
    ASSUME ShadowInv, TapeInv, NEW cancels, NEW submits, Decision(cancels, submits)
    PROVE  TapeInv'
<1> DEFINE m == step.market
           q == step.source
           u == UpdateContext(engine, service.rate, service.nextFunding)
           connected == /\ service.contextAt # None
                        /\ m.observed - service.contextAt <= Limits.publicStale
                        /\ now - service.receivedAt <= MaxLag
           killed == kill.active
           s == Simulate(u, m, service.mark, connected, q, killed)
           gap == FundingGap(u, m.observed)
           early == RecordDrills(IF gap THEN RecordEvent(journal, "funding_gap") ELSE journal,
                                 s.drills)
           d == Decided(s.e, killed, cancels, submits, m.observed)
           next == Cycle(s, d, m, q)
           structure == d.e.structure
           drills == s.drills
<1>1. /\ step.at = "market" /\ RunningOK /\ service.up /\ DOMAIN journal = JournalFields
      /\ UNCHANGED <<now, tape, ingress, kill, crashes>>
  BY SMTT(30) DEF Decision, Running, ShadowInv, ServiceOK, Down, JournalOK
<1>2. \/ Fail /\ UNCHANGED journal
      \/ Fail /\ journal' = early
      \/ /\ journal' = early \/ journal' = [early EXCEPT !.structure = structure]
         /\ step' = [at |-> "commit", c |-> next]
         /\ UNCHANGED <<audit, service>>
  BY DEF Decision
<1>3. next.trades = Ids(m.trades)
  BY DEF Cycle, Ids
<1>4. SameCycles(journal, early) /\ DOMAIN early = JournalFields
  <2> HIDE DEF gap, drills
  <2> DEFINE k == RecordDrills(IF gap THEN RecordEvent(journal, "funding_gap") ELSE journal, drills)
  <2>1. SameCycles(journal, k) /\ DOMAIN k = JournalFields
    BY <1>1 DEF SameCycles, RecordDrills, RecordEvent, JournalFields
  <2> QED
    BY <2>1 DEF drills
<1> HIDE DEF early, structure, next
<1>5. SameCycles(journal, [early EXCEPT !.structure = structure])
  BY <1>4 DEF SameCycles, JournalFields
<1>6. CASE Fail
  <2>1. SameCycles(journal, journal')
    BY <1>2, <1>4, <1>5 DEF SameCycles
  <2> QED
    BY <1>1, <1>6, <2>1, DownBears DEF Fail
<1>7. CASE /\ journal' = early \/ journal' = [early EXCEPT !.structure = structure]
           /\ step' = [at |-> "commit", c |-> next]
           /\ UNCHANGED <<audit, service>>
  <2>1. SameCycles(journal, journal')
    BY <1>4, <1>5, <1>7
  <2>2. CyclesBear(tape, journal)' /\ Begun(journal)'
    BY <1>1, <2>1, SameCyclesBear DEF TapeInv
  <2>3. step'.at = "commit" /\ step'.c = next
    BY <1>7
  <2> DEFINE c == Consumed(journal, service)
             r == Reached
  <2>4. Consumed(journal, service)' = c /\ Reached' = r
    BY <1>1, <1>7, <2>1, <2>3 DEF Consumed, SameCycles, Reached
  <2>5. Carries(tape, journal, service, step, c, r)
    BY <1>1 DEF TapeInv
  <2> HIDE DEF c, r
  <2>6. Carries(tape, journal', service, step', c, r)
    BY <1>1, <1>3, <2>1, <2>3, <2>5 DEF Carries, SameCycles
  <2>7. Carries(tape, journal, service, step, Consumed(journal, service), Reached)'
    BY <1>1, <1>7, <2>4, <2>6
  <2> QED
    BY <2>2, <2>7 DEF TapeInv
<1> HIDE DEF m, q
<1> QED
  BY <1>2, <1>6, <1>7

\* A state is committed with the trades after the state before, and with the
\* checkpoint that a later process begins at (paper/journal.py
\* record_engine_cycle).
LEMMA CommitBears ==
    ASSUME ShadowInv, TapeInv, CommitCycle
    PROVE  TapeInv'
<1> DEFINE next == step.c
           r == Reached
           c == Consumed(journal, service)
           x == next.x
           trades == next.trades
           checkpoint == next.checkpoint
           source == next.source
           orders == WithOrders(journal, x)
           fills == journal.fills \cup ToSet(x.fills)
           j == [journal EXCEPT !.orders = orders, !.fills = fills, !.account = x.account]
           cycles == [q \in DOMAIN j.cycles \cup {source} |->
                         IF q = source THEN trades ELSE j.cycles[q]]
           approved == next.approved
           denied == next.denied
           independent == next.independent
           markouts == next.markouts
           k == [j EXCEPT !.approved = @ + approved, !.denied = @ + denied,
                          !.independent = @ + independent, !.submits = @ + approved,
                          !.markouts = @ \cup markouts, !.cycles = cycles,
                          !.checkpoint = checkpoint]
<1>1. /\ step.at = "commit" /\ RunningOK /\ service.up /\ engine # Off
      /\ journal' = RecordEngineCycle(journal, next)
      /\ step' = [at |-> "audit", source |-> source]
      /\ UNCHANGED <<now, tape, ingress, kill, audit, service, engine, crashes>>
      /\ DOMAIN journal = JournalFields
  BY DEF CommitCycle, Running, ShadowInv, ServiceOK, StepOK, Down, JournalOK
<1>2. /\ CycleOK(next) /\ journal.start # None
  BY <1>1 DEF ShadowInv, StepOK, EngineInv
<1>3. source = r /\ checkpoint.source = r
  BY <1>2 DEF CycleOK
<1>4. journal' = k
  BY <1>1 DEF RecordEngineCycle, RecordCycle
<1> HIDE DEF x, orders, fills, approved, denied, independent, markouts, checkpoint, source, trades,
            next, r
<1>5. DOMAIN j = JournalFields /\ j.cycles = journal.cycles /\ j.start = journal.start
  BY <1>1 DEF JournalFields
<1> HIDE DEF j, cycles
<1>6. k.cycles = cycles /\ k.start = journal.start /\ k.checkpoint = checkpoint
  BY <1>5 DEF JournalFields
<1> HIDE DEF k
<1>7. /\ journal'.start = journal.start /\ journal'.checkpoint.source = r
      /\ DOMAIN journal'.cycles = DOMAIN journal.cycles \cup {r}
      /\ journal'.cycles[r] = trades
      /\ \A q \in DOMAIN journal.cycles : q # r => journal'.cycles[q] = journal.cycles[q]
  BY <1>3, <1>4, <1>5, <1>6 DEF cycles
<1>8. /\ Carries(tape, journal, service, step, c, r)
  BY <1>1 DEF TapeInv, r
<1> HIDE DEF c
<1>9. /\ c \in 0 .. r /\ service.runStart = journal.start /\ service.a.trades = <<>>
      /\ tape[r].kind # "trade" /\ Bearing(tape, trades, c + 1 .. r, tape[r].receive)
  BY <1>1, <1>2, <1>8 DEF Carries, trades, next
<1>10. /\ ingress \in Nat /\ service.cursor \in 0 .. ingress /\ r = service.cursor + 1
       /\ r \in 1 .. ingress /\ journal.checkpoint.source <= service.cursor
       /\ journal.start \in 0 .. ingress
       /\ journal.checkpoint.source \in {None} \cup 0 .. ingress
  BY <1>1, <1>2, LogFacts DEF ShadowInv, RunningOK, Reached, r, JournalOK
<1>11. \A q \in DOMAIN journal.cycles : q \in 1 .. ingress /\ q <= journal.checkpoint.source
  BY DEF ShadowInv, JournalOK
<1>12. \A q \in DOMAIN journal.cycles : q \in 1 .. ingress /\ q < r /\ q <= c
  BY <1>10, <1>11 DEF c, Consumed, None
<1>13. journal.start <= c /\ (c > journal.start => c \in DOMAIN journal.cycles)
  BY <1>9, <1>10 DEF TapeInv, Begun, c, Consumed
<1>14. Stretch(journal', r) = c + 1 .. r
  <2>1. ASSUME NEW p \in 1 .. r, p > journal.start,
               \A d \in DOMAIN journal.cycles : d < p
        PROVE  p > c
    BY <1>9, <1>10, <1>13, <2>1
  <2>2. ASSUME NEW p \in c + 1 .. r
        PROVE  /\ p \in 1 .. r /\ p > journal.start
               /\ \A d \in DOMAIN journal'.cycles : d < r => d < p
    BY <1>7, <1>9, <1>10, <1>12, <1>13, <2>2
  <2>3. ASSUME NEW p \in Stretch(journal', r)
        PROVE  p \in c + 1 .. r
    <3>1. /\ p \in 1 .. r /\ p > journal.start
          /\ \A d \in DOMAIN journal.cycles : d < p
      BY <1>7, <1>12, <2>3 DEF Stretch
    <3>2. p > c
      BY <2>1, <3>1
    <3> QED
      BY <1>9, <3>1, <3>2
  <2>4. \A p \in c + 1 .. r : p \in Stretch(journal', r)
    BY <1>7, <2>2 DEF Stretch
  <2> QED
    BY <2>3, <2>4
<1>15. ASSUME NEW q \in DOMAIN journal.cycles
       PROVE  Stretch(journal', q) = Stretch(journal, q)
  BY <1>7, <1>10, <1>12 DEF Stretch
<1>16. CyclesBear(tape, journal')
  <2>1. ASSUME NEW q \in DOMAIN journal.cycles
        PROVE  /\ tape[q].kind # "trade"
               /\ Bearing(tape, journal'.cycles[q], Stretch(journal', q), tape[q].receive)
    <3>1. q # r
      BY <1>10, <1>12
    <3> QED
      BY <1>7, <1>15, <3>1 DEF TapeInv, CyclesBear
  <2>2. /\ tape[r].kind # "trade"
        /\ Bearing(tape, journal'.cycles[r], Stretch(journal', r), tape[r].receive)
    BY <1>7, <1>9, <1>14
  <2> QED
    BY <1>7, <2>1, <2>2 DEF CyclesBear
<1>17. Begun(journal')
  <2>1. journal.start <= r
    BY <1>9, <1>10, <1>13
  <2> QED
    BY <1>2, <1>7, <2>1 DEF Begun
<1>18. step'.at = "audit"
  BY <1>1
<1>19. Reached' = r /\ Consumed(journal', service) = r
  BY <1>1, <1>7, <1>10, <1>18 DEF Reached, r, Consumed, None
<1>20. Carries(tape, journal', service, step', r, r)
  BY <1>7, <1>9, <1>10, <1>18 DEF Carries
<1> QED
  BY <1>1, <1>16, <1>17, <1>19, <1>20 DEF TapeInv

\* The cursor follows the checkpoint.
LEMMA AuditBears ==
    ASSUME ShadowInv, TapeInv, AuditCycle
    PROVE  TapeInv'
<1> DEFINE c == Consumed(journal, service)
           r == Reached
<1>1. /\ step.at = "audit" /\ RunningOK /\ service.up /\ step.source = r
      /\ service' = [service EXCEPT !.cursor = step.source]
      /\ step' = Idle
      /\ UNCHANGED <<now, tape, ingress, kill, journal, engine, crashes>>
  BY DEF AuditCycle, Running, ShadowInv, ServiceOK, Down, StepOK
<1>2. /\ service'.up /\ service'.cursor = r /\ service'.a = service.a
      /\ service'.runStart = service.runStart
  BY <1>1 DEF RunningOK, ServiceFields
<1>3. step'.at = "idle" /\ Reached' = r /\ Consumed(journal, service)' = c
  BY <1>1, <1>2 DEF Idle, Reached, Consumed
<1>4. Carries(tape, journal, service, step, c, r)
  BY <1>1 DEF TapeInv
<1> HIDE DEF c, r
<1>5. /\ c = r /\ c \in 0 .. r /\ service.a.trades = <<>>
      /\ journal.start # None => service.runStart = journal.start
  BY <1>1, <1>4 DEF Carries
<1>6. c + 1 .. r = {}
  BY <1>5
<1>7. Waits(tape, <<>>, c + 1 .. r, IF r = 0 THEN 0 ELSE tape[r].receive)
  BY <1>6 DEF Waits
<1>8. Carries(tape, journal, service', step', c, r)
  BY <1>2, <1>3, <1>5, <1>7 DEF Carries
<1>9. CyclesBear(tape, journal)' /\ Begun(journal)'
  BY <1>1 DEF TapeInv
<1> QED
  BY <1>1, <1>3, <1>8, <1>9 DEF TapeInv

\* The watchdog commits what it changed, but no state.
LEMMA WatchdogBears ==
    ASSUME ShadowInv, TapeInv, WatchdogCall
    PROVE  TapeInv'
<1> DEFINE connected == service.receivedAt # None /\ now - service.receivedAt <= MaxLag
           w == Watchdog(engine, connected, kill.active, now)
           x == w.x
           drills == w.drills
<1>1. /\ step.at = "idle" /\ RunningOK /\ DOMAIN journal = JournalFields /\ tape' = tape
      /\ service' = [service EXCEPT !.nextWatchdog = now + WatchdogInterval]
  BY DEF WatchdogCall, Running, ShadowInv, ServiceOK, Down, JournalOK
<1>2. \/ UNCHANGED <<journal, step>>
      \/ journal' = RecordDrills(journal, drills) /\ step' = step
      \/ /\ journal' = RecordCycle(journal, x)
         /\ step' = [at |-> "checkpoint", drills |-> drills]
  BY DEF WatchdogCall
<1> HIDE DEF x, drills
<1>3. /\ service'.up /\ service.up /\ service'.a = service.a
      /\ service'.runStart = service.runStart /\ service'.cursor = service.cursor
  BY <1>1 DEF RunningOK, ServiceFields
<1>4. SameCycles(journal, journal')
  BY <1>1, <1>2 DEF SameCycles, RecordDrills, RecordCycle, JournalFields
<1>5. step'.at \in {"idle", "checkpoint"}
  BY <1>1, <1>2
<1> DEFINE c == Consumed(journal, service)
           r == Reached
<1>6. Consumed(journal, service)' = c /\ Reached' = r
  BY <1>1, <1>3, <1>4, <1>5 DEF Consumed, SameCycles, Reached
<1>7. Carries(tape, journal, service, step, c, r)
  BY <1>3 DEF TapeInv
<1> HIDE DEF c, r
<1>8. Carries(tape, journal', service', step', c, r)
  BY <1>1, <1>3, <1>4, <1>5, <1>7 DEF Carries, SameCycles
<1>9. CyclesBear(tape, journal)' /\ Begun(journal)'
  BY <1>1, <1>4, SameCyclesBear DEF TapeInv
<1> QED
  BY <1>1, <1>6, <1>8, <1>9 DEF TapeInv

\* Its checkpoint is at the state that was committed last.
LEMMA CheckpointBears ==
    ASSUME ShadowInv, TapeInv, WatchdogCheckpoint
    PROVE  TapeInv'
<1> DEFINE k == CheckpointOf(engine, now)
           drills == step.drills
<1>1. /\ step.at = "checkpoint" /\ DOMAIN journal = JournalFields /\ RunningOK /\ engine # Off
      /\ journal' = RecordDrills(RecordCheckpoint(journal, k), drills)
      /\ step' = Idle /\ UNCHANGED <<tape, service>>
  BY DEF WatchdogCheckpoint, Running, ShadowInv, JournalOK, ServiceOK, StepOK, Down
<1>2. k.source = journal.checkpoint.source
  <2>1. engine.source = journal.checkpoint.source
    BY <1>1 DEF ShadowInv, EngineInv
  <2> QED
    BY <2>1 DEF CheckpointOf
<1> HIDE DEF k, drills
<1>3. SameCycles(journal, journal')
  BY <1>1, <1>2 DEF SameCycles, RecordDrills, RecordCheckpoint, JournalFields
<1>4. step'.at = "idle"
  BY <1>1 DEF Idle
<1> DEFINE c == Consumed(journal, service)
           r == Reached
<1>5. Consumed(journal, service)' = c /\ Reached' = r /\ service.up
  BY <1>1, <1>3, <1>4 DEF Consumed, SameCycles, Reached, RunningOK
<1>6. Carries(tape, journal, service, step, c, r)
  BY <1>5 DEF TapeInv
<1> HIDE DEF c, r
<1>7. Carries(tape, journal', service, step', c, r)
  BY <1>1, <1>3, <1>4, <1>6 DEF Carries, SameCycles
<1>8. CyclesBear(tape, journal)' /\ Begun(journal)'
  BY <1>1, <1>3, SameCyclesBear DEF TapeInv
<1> QED
  BY <1>1, <1>5, <1>7, <1>8 DEF TapeInv

\* Every step of the gateway, the process and the operators.
LEMMA TapeStays == ShadowInv /\ TapeInv /\ [Next]_vars => TapeInv'
<1> SUFFICES ASSUME ShadowInv, TapeInv, [Next]_vars
             PROVE  TapeInv'
  OBVIOUS
<1>1. CASE Append1 \/ Tick \/ Kill \/ Clear \/ UNCHANGED vars
  <2>1. UNCHANGED <<tape, journal, service, step>>
    BY <1>1 DEF Append1, Tick, Kill, Clear, vars
  <2> QED
    BY <2>1, OutsideBears DEF SameCycles
<1>2. CASE Start
  BY <1>2, StartBears
<1>3. CASE Consume
  BY <1>3, ConsumeBears
<1>4. CASE StartEngine
  BY <1>4, StartEngineBears
<1>5. CASE Decide1
  BY <1>5, DecisionBears DEF Decide1
<1>6. CASE CommitCycle
  BY <1>6, CommitBears
<1>7. CASE AuditCycle
  BY <1>7, AuditBears
<1>8. CASE WatchdogCall
  BY <1>8, WatchdogBears
<1>9. CASE WatchdogCheckpoint
  BY <1>9, CheckpointBears
<1>10. CASE Crash
  BY <1>10, DownBears DEF Crash, SameCycles
<1> QED
  BY <1>1, <1>2, <1>3, <1>4, <1>5, <1>6, <1>7, <1>8, <1>9, <1>10 DEF Next, Process

\* At first no state was committed, and nothing runs.
LEMMA TapeInitially == Init => TapeInv
<1> SUFFICES ASSUME Init PROVE TapeInv
  OBVIOUS
<1>1. journal.checkpoint.source = None /\ DOMAIN journal.cycles = {}
  BY DEF Init, NewJournal, NoCheckpoint
<1>2. service.up = FALSE
  BY DEF Init, Down
<1> QED
  BY <1>1, <1>2 DEF TapeInv, CyclesBear, Begun

\* Each state in the journal carried the trades between the state before it and
\* itself, and what a process has consumed since then waits in it or is in the
\* state under way, so that a crash loses no more than is consumed again
\* (shadow/service.py _initial_cursor and consume_record).
THEOREM TapeInvariance == Spec => []TapeInv
<1>1. ShadowInv /\ TapeInv /\ [Next]_vars => TapeInv'
  BY TapeStays
<1> QED
  BY <1>1, TapeInitially, ShadowInvariance, PTL DEF Spec

\* The exchange uses no identity for two trades of a tape.
TradesAreNamed == \A t \in Tapes : \A p, q \in DOMAIN t :
    t[p].kind = "trade" /\ t[q].kind = "trade" /\ t[p].id = t[q].id => p = q

\* The first state after a trade is the least of those after it.
LEMMA FirstLater ==
    ASSUME ShadowInv, NEW q \in 1 .. Len(tape), Later(q) # {}
    PROVE  /\ Min(Later(q)) \in Later(q)
           /\ \A c \in Later(q) : Min(Later(q)) <= c
<1>1. Later(q) \subseteq Nat
  BY DEF Later, ShadowInv, JournalOK
<1>2. \E n \in Later(q) : \A c \in Later(q) : n <= c
  BY <1>1, Sweeping!LeastElement
<1> QED
  BY <1>2 DEF Min

\* If the exchange uses no identity twice, then for every tape, strategy and
\* crash a trade that was received in time is in the first state committed after
\* it, unless it was too old by then, and in no other (paper/market.py observe
\* with shadow/service.py _initial_cursor).
THEOREM TradesArriveOnce ==
    ASSUME TradesAreNamed
    PROVE  Spec => []TapeOnce
<1>1. ShadowInv /\ TapeInv => TapeOnce
  <2> SUFFICES ASSUME ShadowInv, TapeInv
               PROVE  TapeOnce
    OBVIOUS
  <2>1. DOMAIN journal.cycles \subseteq 1 .. ingress /\ ingress \in Nat /\ ingress <= Len(tape)
        /\ Len(tape) \in Nat /\ CyclesBear(tape, journal)
    BY LogFacts DEF ShadowInv, JournalOK, LogOK, TapeInv
  <2>2. \A p, q \in 1 .. Len(tape) : tape[p].kind = "trade" /\ tape[q].kind = "trade"
                                     /\ tape[p].id = tape[q].id => p = q
    <3>1. tape \in Tapes /\ DOMAIN tape = 1 .. Len(tape)
      BY ShadowAssumption DEF ShadowInv, LogOK
    <3> QED
      BY <3>1 DEF TradesAreNamed
  <2>3. ASSUME NEW c \in DOMAIN journal.cycles, NEW d \in DOMAIN journal.cycles, c < d
        PROVE  journal.cycles[c] \cap journal.cycles[d] = {}
    <3> SUFFICES ASSUME NEW n \in journal.cycles[c], n \in journal.cycles[d]
                 PROVE  FALSE
      OBVIOUS
    <3>1. PICK p \in Stretch(journal, c) : tape[p].kind = "trade" /\ tape[p].id = n
      BY <2>1 DEF CyclesBear, Bearing
    <3>2. PICK q \in Stretch(journal, d) : tape[q].kind = "trade" /\ tape[q].id = n
      BY <2>1 DEF CyclesBear, Bearing
    <3>3. p \in 1 .. c /\ q \in 1 .. d /\ c < q
      BY <2>3 DEF Stretch
    <3>4. p \in 1 .. Len(tape) /\ q \in 1 .. Len(tape) /\ p # q
      BY <2>1, <3>3
    <3> QED
      BY <2>2, <3>1, <3>2, <3>4
  <2>4. \A c, d \in DOMAIN journal.cycles : c # d => journal.cycles[c] \cap journal.cycles[d] = {}
    <3> SUFFICES ASSUME NEW c \in DOMAIN journal.cycles, NEW d \in DOMAIN journal.cycles, c # d
                 PROVE  journal.cycles[c] \cap journal.cycles[d] = {}
      OBVIOUS
    <3>1. c < d \/ d < c
      BY <2>1
    <3> QED
      BY <2>3, <3>1
  <2>5. ASSUME NEW q \in 1 .. Len(tape), q > journal.start, Received(q), Later(q) # {},
               tape[Min(Later(q))].receive - tape[q].event <= MaxInputAge
        PROVE  tape[q].id \in journal.cycles[Min(Later(q))]
    <3> DEFINE c == Min(Later(q))
    <3>1. c \in Later(q) /\ \A d \in Later(q) : c <= d
      BY <2>5, FirstLater
    <3> HIDE DEF c
    <3>2. c \in DOMAIN journal.cycles /\ c > q /\ c \in 1 .. ingress
      BY <2>1, <3>1 DEF Later
    <3>3. ASSUME NEW d \in DOMAIN journal.cycles, d < c
          PROVE  d < q
      <4>1. d \in Nat /\ ~ (d > q)
        BY <2>1, <3>1, <3>2, <3>3 DEF Later
      <4>2. d # q
        BY <2>1, <2>5, <3>3 DEF CyclesBear, Received
      <4> QED
        BY <2>1, <4>1, <4>2
    <3>4. q \in Stretch(journal, c)
      BY <2>1, <2>5, <3>2, <3>3 DEF Stretch
    <3>5. tape[c].receive - tape[q].event <= MaxInputAge /\ Useful(tape, q)
      BY <2>5 DEF c, Useful, Received
    <3>6. tape[q].id \in journal.cycles[c]
      BY <2>1, <3>2, <3>4, <3>5 DEF CyclesBear, Bearing
    <3> QED
      BY <3>6 DEF c
  <2> QED
    BY <2>4, <2>5 DEF TapeOnce
<1> QED
  BY <1>1, ShadowInvariance, TapeInvariance, PTL
=============================================================================
