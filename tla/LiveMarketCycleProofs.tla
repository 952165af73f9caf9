------------------------ MODULE LiveMarketCycleProofs ------------------------
(***************************************************************************)
(* Proofs about LiveMarketCycle for any sets of intents: the invariant     *)
(* CycleInv is inductive, so two quotes of one side never work at the same *)
(* time, and a cycle submits only when nothing works any more.             *)
(***************************************************************************)
EXTENDS LiveMarketCycle, TLAPS

\* An empty book and an empty memory satisfy the invariant.
LEMMA InitHolds == Init => CycleInv
  BY CycleAssumption
  DEF Init, CycleInv, TypeOK, MemoryIsGone, MemoryIsLive, WorkingIsKnown, NoOverlap, Working, Remembered,
      Intents, Sides, OfSide

\* A memory that keeps each quote or forgets it still names quotes of its side.
LEMMA Forgetting ==
  ASSUME TypeOK, memory' \in [Sides -> Intents \cup {NoQuote}],
         \A s \in Sides : memory'[s] = memory[s] \/ memory'[s] = NoQuote
  PROVE  \A s \in Sides : memory'[s] \in OfSide(s) \cup {NoQuote}
  BY DEF TypeOK

\* A terminal event takes the order out of the book and out of the memory.
LEMMA TerminalKeeps ==
  ASSUME CycleInv, NEW i \in Intents, up, Terminal(i), riskCancelPending' \in BOOLEAN
  PROVE  CycleInv'
<1> USE DEF CycleInv
<1>1. TypeOK'
  <2>1. /\ memory' \in [Sides -> Intents \cup {NoQuote}]
        /\ \A s \in Sides : memory'[s] = memory[s] \/ memory'[s] = NoQuote
    BY DEF Terminal, Released, TypeOK
  <2>2. \A s \in Sides : memory'[s] \in OfSide(s) \cup {NoQuote}
    BY <2>1, Forgetting
  <2> QED
    BY <2>1, <2>2 DEF Terminal, Released, TypeOK
<1>2. \A j \in Intents : order'[j] = IF j = i THEN "none" ELSE order[j]
  BY DEF Terminal, TypeOK
<1>3. Remembered' = Remembered \ {i}
  BY CycleAssumption DEF Terminal, Released, TypeOK, Remembered, Intents
<1>4. MemoryIsLive'
  BY <1>2, <1>3 DEF MemoryIsLive, Working, Remembered
<1>5. WorkingIsKnown'
  BY <1>2, <1>3 DEF WorkingIsKnown, Terminal
<1>6. NoOverlap'
  BY <1>2 DEF NoOverlap, Working, OfSide, Sides, Intents
<1>7. MemoryIsGone'
  BY <1>3 DEF MemoryIsGone, Terminal
<1> QED
  BY <1>1, <1>4, <1>5, <1>6, <1>7

\* What changes neither the memory nor the book keeps what is said of them.
LEMMA Undisturbed ==
  ASSUME CycleInv, TypeOK', UNCHANGED <<up, memory, order>>,
         startupOrderDrain => startupOrderDrain' \/ OpenOrders = {}
  PROVE  CycleInv'
<1>1. Remembered' = Remembered
  BY DEF Remembered
<1> QED
  BY <1>1 DEF CycleInv, MemoryIsGone, MemoryIsLive, WorkingIsKnown, NoOverlap, Working, OpenOrders

\* The drains ask for cancels and change nothing else.
LEMMA DrainsKeep == CycleInv /\ (RiskDrain \/ StartupDrain) => CycleInv'
<1> SUFFICES ASSUME CycleInv, RiskDrain \/ StartupDrain PROVE CycleInv'
  OBVIOUS
<1>1. OpenOrders \subseteq Intents
  BY DEF OpenOrders
<1>2. TypeOK'
  BY <1>1 DEF CycleInv, TypeOK, RiskDrain, StartupDrain
<1> QED
  BY <1>2, Undisturbed DEF RiskDrain, StartupDrain

\* A cycle that submits nothing keeps the invariant.
LEMMA QuietKeeps == CycleInv /\ CycleQuiet => CycleInv'
<1> SUFFICES ASSUME CycleInv, CycleQuiet PROVE CycleInv'
  OBVIOUS
<1>1. TypeOK'
  BY DEF CycleInv, TypeOK, CycleQuiet, ReachesAlpha
<1> QED
  BY <1>1, Undisturbed DEF CycleQuiet, ReachesAlpha

\* A cancel request is no outcome: every quote that works stays remembered.
LEMMA CancelsKeep == CycleInv /\ CycleCancels => CycleInv'
<1> SUFFICES ASSUME CycleInv, CycleCancels PROVE CycleInv'
  OBVIOUS
<1>1. memory' = memory
  BY DEF CycleCancels, AfterCancels, CycleInv, TypeOK, MemoryIsLive, Remembered, Working
<1>2. TypeOK'
  BY <1>1 DEF CycleInv, TypeOK, CycleCancels, ReachesAlpha, Remembered
<1> QED
  BY <1>1, <1>2, Undisturbed DEF CycleCancels, ReachesAlpha

\* Past both drains and with an empty memory, nothing works any more.
LEMMA EmptyBook ==
  ASSUME CycleInv, ReachesAlpha, Remembered = {}
  PROVE  \A i \in Intents : ~ Working(i)
  BY DEF CycleInv, ReachesAlpha, WorkingIsKnown, Working, OpenOrders

\* So what a cycle submits is all that works, at most one quote per side.
LEMMA SubmitsKeep == CycleInv /\ CycleSubmits => CycleInv'
<1> SUFFICES ASSUME CycleInv, CycleSubmits PROVE CycleInv'
  OBVIOUS
<1>1. \A i \in Intents : ~ Working(i)
  BY EmptyBook DEF CycleSubmits
<1>9. MemoryIsGone'
  BY DEF MemoryIsGone, CycleSubmits, ReachesAlpha
<1>2. PICK quotes \in [Sides -> Intents \cup {NoQuote}] :
        /\ \A s \in Sides : \/ quotes[s] = NoQuote
                            \/ quotes[s] \in OfSide(s) /\ Unused(quotes[s])
        /\ order' = [i \in Intents |->
                       IF \E s \in Sides : quotes[s] = i THEN "inflight" ELSE order[i]]
        /\ memory' = Committed(quotes)
  BY DEF CycleSubmits
<1>3. memory' = quotes
  <2>1. \A s \in Sides : memory[s] = NoQuote
    BY DEF CycleSubmits, Remembered, CycleInv, TypeOK
  <2> QED
    BY <1>2, <2>1 DEF Committed
<1>4. TypeOK'
  <2>1. order' \in [Intents -> {"none", "inflight", "open", "lost"}]
    BY <1>2 DEF CycleInv, TypeOK
  <2>2. \A s \in Sides : memory'[s] \in OfSide(s) \cup {NoQuote}
    BY <1>2, <1>3
  <2> QED
    BY <1>2, <1>3, <2>1, <2>2 DEF CycleInv, TypeOK, CycleSubmits, ReachesAlpha
<1>5. \A i \in Intents : /\ Working(i)' <=> i \in Remembered'
                         /\ order'[i] # "open"
  BY <1>1, <1>2, <1>3 DEF Working, Remembered
<1>6. MemoryIsLive'
  BY <1>5 DEF MemoryIsLive, Remembered
<1>7. WorkingIsKnown'
  BY <1>5 DEF WorkingIsKnown, Working
<1>8. NoOverlap'
  <2> SUFFICES ASSUME NEW s \in Sides, NEW i \in OfSide(s), NEW j \in OfSide(s),
                      Working(i)', Working(j)'
               PROVE  i = j
    BY DEF NoOverlap
  <2>1. i \in Intents /\ j \in Intents
    BY DEF OfSide, Intents
  <2>2. \A q \in OfSide(s) : q \in Remembered' => memory'[s] = q
    BY <1>4, CycleAssumption DEF Remembered, TypeOK, OfSide, Sides, Intents
  <2> QED
    BY <1>5, <2>1, <2>2
<1> QED
  BY <1>4, <1>6, <1>7, <1>8, <1>9 DEF CycleInv

\* The callbacks: an order in flight opens, or a terminal event releases it.
LEMMA CallbackKeeps ==
  ASSUME CycleInv, NEW i \in Intents, Callback(i)
  PROVE  CycleInv'
<1>1. CASE OrderAccepted(i)
  <2>1. \A j \in Intents : order'[j] = IF j = i THEN "open" ELSE order[j]
    BY <1>1 DEF OrderAccepted, CycleInv, TypeOK
  <2>2. TypeOK'
    BY <1>1 DEF flags, OrderAccepted, CycleInv, TypeOK
  <2>3. Remembered' = Remembered /\ i \in Remembered
    BY <1>1 DEF OrderAccepted, Remembered, CycleInv, WorkingIsKnown
  <2>4. \A j \in Intents : Working(j)' <=> Working(j)
    BY <1>1, <2>1 DEF Working, OrderAccepted
  <2>5. MemoryIsLive'
    BY <2>3, <2>4 DEF CycleInv, MemoryIsLive, Remembered
  <2>6. WorkingIsKnown'
    BY <1>1, <2>1, <2>3 DEF flags, CycleInv, WorkingIsKnown, OrderAccepted
  <2>7. NoOverlap'
    BY <2>4 DEF CycleInv, NoOverlap, OfSide, Intents
  <2>8. MemoryIsGone'
    BY <1>1 DEF MemoryIsGone, OrderAccepted
  <2> QED
    BY <2>2, <2>5, <2>6, <2>7, <2>8 DEF CycleInv
<1>2. CASE OrderRejected(i)
  BY <1>2, TerminalKeeps DEF OrderRejected, CycleInv, TypeOK
<1>3. CASE OrderFilled(i)
  BY <1>3, TerminalKeeps DEF OrderFilled, CycleInv, TypeOK
<1>4. CASE OrderCanceled(i)
  BY <1>4, TerminalKeeps DEF OrderCanceled
<1>5. CASE CancelRejected(i)
  <2>1. TypeOK'
    BY <1>5 DEF CancelRejected, CycleInv, TypeOK
  <2> QED
    BY <1>5, <2>1, Undisturbed DEF CancelRejected
<1> QED
  BY <1>1, <1>2, <1>3, <1>4, <1>5 DEF Callback

\* A stopped node remembers nothing, and what works meanwhile only ends.
LEMMA WorldKeeps ==
  ASSUME CycleInv, NEW i \in Intents, TimesOut(i) \/ EndsUnseen(i) \/ OpensUnseen(i)
  PROVE  CycleInv'
<1>1. CASE TimesOut(i)
  <2>1. TypeOK'
    BY <1>1 DEF flags, TimesOut, CycleInv, TypeOK
  <2> QED
    BY <1>1, <2>1, Undisturbed DEF flags, TimesOut
<1>2. CASE EndsUnseen(i) \/ OpensUnseen(i)
  <2>1. TypeOK' /\ ~ up'
    BY <1>2 DEF flags, EndsUnseen, OpensUnseen, CycleInv, TypeOK
  <2>2. \A j \in Intents : Working(j)' => Working(j)
    BY <1>2 DEF EndsUnseen, OpensUnseen, CycleInv, TypeOK, Working
  <2>3. Remembered' = {}
    BY <1>2 DEF EndsUnseen, OpensUnseen, CycleInv, MemoryIsGone, Remembered
  <2>4. WorkingIsKnown'
    BY <2>1 DEF WorkingIsKnown
  <2>5. NoOverlap'
    BY <2>2 DEF CycleInv, NoOverlap, OfSide, Intents
  <2> QED
    BY <2>1, <2>3, <2>4, <2>5 DEF CycleInv, MemoryIsLive, MemoryIsGone
<1> QED
  BY <1>1, <1>2

\* A process that ends or starts: startup knows every order it finds open.
LEMMA ProcessKeeps == CycleInv /\ (NodeStops \/ NodeStarts \/ BreakerChanges) => CycleInv'
<1> SUFFICES ASSUME CycleInv, NodeStops \/ NodeStarts \/ BreakerChanges PROVE CycleInv'
  OBVIOUS
<1>1. CASE NodeStops
  <2>1. TypeOK'
    BY <1>1 DEF NodeStops, CycleInv, TypeOK
  <2>2. Remembered' = {}
    BY <1>1, CycleAssumption DEF NodeStops, Remembered, Intents
  <2> QED
    BY <1>1, <2>1, <2>2 DEF NodeStops, CycleInv, MemoryIsGone, MemoryIsLive, WorkingIsKnown,
                            NoOverlap, Working
<1>2. CASE NodeStarts
  <2>1. TypeOK'
    BY <1>2 DEF NodeStarts, CycleInv, TypeOK, OpenOrders
  <2>2. Remembered' = {}
    BY <1>2 DEF NodeStarts, Remembered, CycleInv, MemoryIsGone
  <2>3. WorkingIsKnown'
    BY <1>2 DEF NodeStarts, WorkingIsKnown, OpenOrders
  <2> QED
    BY <1>2, <2>1, <2>2, <2>3 DEF NodeStarts, CycleInv, MemoryIsGone, MemoryIsLive, NoOverlap,
                                  Working
<1>3. CASE BreakerChanges
  <2>1. TypeOK'
    BY <1>3 DEF flags, BreakerChanges, CycleInv, TypeOK
  <2> QED
    BY <1>3, <2>1, Undisturbed DEF flags, BreakerChanges
<1> QED
  BY <1>1, <1>2, <1>3

\* Every step of the specification keeps the invariant.
LEMMA StepKeeps == CycleInv /\ [Next]_vars => CycleInv'
<1> SUFFICES ASSUME CycleInv, [Next]_vars PROVE CycleInv'
  OBVIOUS
<1>1. CASE Cycle
  BY <1>1, DrainsKeep, QuietKeeps, CancelsKeep, SubmitsKeep DEF Cycle
<1>2. CASE \E i \in Intents : Callback(i) \/ TimesOut(i) \/ EndsUnseen(i) \/ OpensUnseen(i)
  BY <1>2, CallbackKeeps, WorldKeeps
<1>3. CASE NodeStops \/ NodeStarts \/ BreakerChanges
  BY <1>3, ProcessKeeps
<1>4. CASE UNCHANGED vars
  <2>1. TypeOK'
    BY <1>4 DEF vars, flags, CycleInv, TypeOK
  <2> QED
    BY <1>4, <2>1, Undisturbed DEF vars, flags
<1> QED
  BY <1>1, <1>2, <1>3, <1>4 DEF Next

\* The inductive invariant the runs check holds of every instance.
THEOREM CycleInvariance == Spec => []CycleInv
<1> QED
  BY InitHolds, StepKeeps, PTL DEF Spec

\* Every variable of the cycle keeps its type.
THEOREM CycleTypeCorrect == Spec => []TypeOK
<1>1. CycleInv => TypeOK
  BY DEF CycleInv
<1> QED
  BY <1>1, CycleInvariance, PTL

\* A quote the kernel remembers is an order it still has, so asking for its cancel
\* cannot fail for want of an order (synchronize_order_memory before each cycle).
THEOREM RememberedQuotesLive == Spec => []MemoryIsLive
<1>1. CycleInv => MemoryIsLive
  BY DEF CycleInv
<1> QED
  BY <1>1, CycleInvariance, PTL

\* Two quotes of one side never work at the same time
\* (cancel-confirm-before-replace), for any sets of intents.
THEOREM QuotesNeverOverlap == Spec => []NoOverlap
<1>1. CycleInv => NoOverlap
  BY DEF CycleInv
<1> QED
  BY <1>1, CycleInvariance, PTL

\* A cycle submits only when nothing works any more.
THEOREM SubmissionsWait == Spec => SubmitsIntoEmptyBook
<1>1. ASSUME CycleInv, [Next]_vars,
             NEW i \in Intents, order[i] = "none", order'[i] = "inflight"
      PROVE  \A j \in Intents : ~ Working(j)
  <2>1. CycleSubmits
    BY <1>1 DEF Next, vars, flags, Cycle, Callback, RiskDrain, StartupDrain, CycleQuiet,
                CycleCancels, OrderAccepted, OrderRejected, OrderFilled, OrderCanceled,
                CancelRejected, Terminal, TimesOut, EndsUnseen, OpensUnseen, NodeStops,
                NodeStarts, BreakerChanges, CycleInv, TypeOK
  <2> QED
    BY <1>1, <2>1, EmptyBook DEF CycleSubmits
<1>2. CycleInv /\ [Next]_vars =>
        [(\E i \in Intents : order[i] = "none" /\ order'[i] = "inflight") =>
            \A j \in Intents : ~ Working(j)]_vars
  BY <1>1
<1> QED
  BY <1>2, CycleInvariance, PTL DEF Spec, SubmitsIntoEmptyBook
=============================================================================
