------------------------- MODULE SafetySentinelProofs -------------------------
(***************************************************************************)
(* Proofs about SafetySentinel for every value of its parameters: types,   *)
(* the bound on an unsupervised dead-man timer, and the distance a         *)
(* supervised timer keeps. The inductive invariant is SentinelInv.         *)
(***************************************************************************)
EXTENDS SafetySentinel, TLAPS

USE DEF beatVars, node, heartbeat, authority, sentinel, clocks, call, memory, deadman, vars

\* The parameters as arithmetic needs them.
LEMMA Parameters ==
    /\ Lease \in Nat /\ StaleAfter \in Nat \ {0} /\ Timeout \in Nat \ {0}
    /\ MaxRenewals \in Nat /\ MaxFaults \in Nat
    /\ Poll \in Nat \ {0} /\ Renew \in Nat \ {0} /\ Latency \in Nat
    /\ CancelRetries \in Nat \ {0} /\ SafetyMargin \in Nat
    /\ Renew < Timeout
    /\ Horizon \in Nat /\ Horizon = Lease + StaleAfter + Timeout
<1>1. Renew < Timeout
  BY HeartbeatAssumption, SentinelAssumption
<1> QED BY <1>1, HeartbeatAssumption, SentinelAssumption DEF Horizon

-----------------------------------------------------------------------------
(* Types                                                                    *)

\* A saturating age stays in its range.
LEMMA OlderType == \A limit \in Nat : \A age \in 0..limit : Older(age, limit) \in 0..limit
BY DEF Older

\* Truth-valued variables, which the provers treat apart.
NodeFlags == /\ nodeUp \in BOOLEAN /\ health \in BOOLEAN
             /\ kill \in BOOLEAN /\ active \in BOOLEAN
SentinelFlags == /\ sentinelUp \in BOOLEAN /\ tookEffect \in BOOLEAN
                 /\ watching \in BOOLEAN /\ armed \in BOOLEAN

LEMMA InitTypes == Init => TypeOK
<1> SUFFICES ASSUME Init PROVE TypeOK
  OBVIOUS
<1>1. NodeFlags /\ SentinelFlags
  BY DEF Init, HeartbeatInit, NodeFlags, SentinelFlags
<1>2. file \in [healthy : BOOLEAN, expiry : 0..MaxRenewals]
  BY Parameters DEF Init, HeartbeatInit
<1> QED BY <1>1, <1>2, Parameters DEF Init, HeartbeatInit, TypeOK, HeartbeatTypeOK, Calls,
       NodeFlags, SentinelFlags

\* The node, its thread and the other processes.
LEMMA NodeTypes == TypeOK /\ NodeStep => TypeOK'
<1> SUFFICES ASSUME TypeOK, NodeStep PROVE TypeOK'
  OBVIOUS
<1> USE DEF TypeOK, HeartbeatTypeOK, NodeStep, HeartbeatNext
<1>1. UNCHANGED <<sentinel, deadman, orders>>
  OBVIOUS
<1>2. HeartbeatTypeOK'
  <2>1. CASE JudgeHealth
    BY <2>1 DEF JudgeHealth
  <2>2. CASE ReportHealth
    BY <2>2, Parameters DEF ReportHealth
  <2>3. CASE CheckAuthority
    BY <2>3 DEF CheckAuthority
  <2>4. CASE Publish
    BY <2>4, Parameters DEF Publish, WriteFile
  <2>5. CASE PublisherDies
    BY <2>5, Parameters DEF PublisherDies, Fault
  <2>6. CASE NodeStops
    <3>1. NodeFlags'
      BY <2>6 DEF NodeStops, NodeIsGone, NodeFlags
    <3> QED BY <2>6, <3>1, Parameters DEF NodeStops, NodeIsGone, WriteFile, NodeFlags
  <2>7. CASE NodeCrashes
    <3>1. NodeFlags'
      BY <2>7 DEF NodeCrashes, NodeIsGone, NodeFlags
    <3> QED BY <2>7, <3>1, Parameters DEF NodeCrashes, NodeIsGone, Fault, NodeFlags
  <2>8. CASE NodeStarts
    BY <2>8, Parameters DEF NodeStarts, WriteFile
  <2>9. CASE OperatorKill
    BY <2>9 DEF OperatorKill
  <2>10. CASE RenewAuthority
    BY <2>10, Parameters DEF RenewAuthority
  <2>11. CASE EndAuthority
    BY <2>11 DEF EndAuthority
  <2> QED BY <2>1, <2>2, <2>3, <2>4, <2>5, <2>6, <2>7, <2>8, <2>9, <2>10, <2>11
<1> QED BY <1>1, <1>2

\* Orders, the sentinel, its calls and the timer.
LEMMA SentinelTypes ==
    ASSUME TypeOK,
           \/ \E o \in Orders : PlaceOrder(o) \/ OrderArrives(o) \/ OrderEnds(o)
           \/ SentinelStep \/ VenueAnswers \/ CallReturns
           \/ CallFails \/ SentinelStops \/ SentinelStarts
           \/ TimerFires
    PROVE  TypeOK'
<1> USE DEF TypeOK, HeartbeatTypeOK
<1>1. ASSUME NEW o \in Orders, PlaceOrder(o) \/ OrderArrives(o) \/ OrderEnds(o)
      PROVE  TypeOK'
  BY <1>1 DEF PlaceOrder, OrderArrives, OrderEnds
<1>2. CASE SentinelStep
  <2>1. SentinelFlags'
    BY <1>2 DEF SentinelStep, StepQuiet, StepRenews, StepHolds, StepCancels,
       StepEnds, Begin, Elsewhere, SentinelFlags
  <2> QED BY <1>2, <2>1, Parameters DEF SentinelStep, StepQuiet, StepRenews, StepHolds,
         StepCancels, StepEnds, Begin, Elsewhere, Calls, SentinelFlags
<1>3. CASE VenueAnswers
  <2>1. CASE VenueSchedules
    BY <2>1, Parameters DEF VenueSchedules, Deadline
  <2>2. CASE VenueListsOrders
    BY <2>2 DEF VenueListsOrders, Resting
  <2>3. CASE VenueCancels
    BY <2>3 DEF VenueCancels, Without
  <2> QED BY <1>3, <2>1, <2>2, <2>3 DEF VenueAnswers
<1>4. CASE CallReturns
  <2>1. SentinelFlags'
    BY <1>4 DEF CallReturns, RenewReturns, QueryReturns, CancelReturns,
       StepEnds, Begin, Elsewhere, SentinelFlags
  <2> QED BY <1>4, <2>1, Parameters DEF CallReturns, RenewReturns, QueryReturns,
         CancelReturns, StepEnds, Begin, Elsewhere, Calls, SentinelFlags
<1>5. CASE CallFails
  <2>1. SentinelFlags'
    BY <1>5 DEF CallFails, SentinelGone, StepEnds, Begin, SentinelFlags
  <2> QED BY <1>5, <2>1, Parameters DEF CallFails, Fault, RetryLeft, SentinelGone,
         StepEnds, Begin, Calls, SentinelFlags
<1>6. CASE SentinelStops
  <2>1. SentinelFlags'
    BY <1>6 DEF SentinelStops, SentinelGone, StepEnds, SentinelFlags
  <2> QED BY <1>6, <2>1, Parameters DEF SentinelStops, Fault, SentinelGone, StepEnds,
         Calls, SentinelFlags
<1>7. CASE SentinelStarts
  BY <1>7 DEF SentinelStarts
<1>8. CASE TimerFires
  <2>1. SentinelFlags'
    BY <1>8 DEF TimerFires, SentinelFlags
  <2> QED BY <1>8, <2>1 DEF TimerFires, Without, SentinelFlags
<1> QED BY <1>1, <1>2, <1>3, <1>4, <1>5, <1>6, <1>7, <1>8

LEMMA TickTypes == TypeOK /\ Tick => TypeOK'
<1> SUFFICES ASSUME TypeOK, Tick PROVE TypeOK'
  OBVIOUS
<1> USE DEF TypeOK, HeartbeatTypeOK, Tick, Aging, Calling
<1>1. HeartbeatTypeOK'
  <2>1. leaseAge' \in 0..(Lease + 1) /\ fileAge' \in 0..(StaleAfter + 1) /\ neglect' \in 0..Horizon
    BY Parameters DEF Older
  <2> QED BY <2>1
<1>2. /\ stepAge' \in 0..Renew /\ sinceRenew' \in 0..Renew /\ sinceCancel' \in 0..Renew
      /\ sincePoll' \in 0..Poll /\ callAge' \in 0..Latency /\ timer' \in 0..Timeout
  <2>1. sincePoll' \in 0..Poll
    BY Parameters
  <2>2. callAge' \in 0..Latency
    BY Parameters
  <2>3. timer' \in 0..Timeout
    BY Parameters
  <2> QED BY <2>1, <2>2, <2>3, Parameters DEF Older
<1> QED BY <1>1, <1>2

LEMMA NextTypes == TypeOK /\ [Next]_vars => TypeOK'
<1> SUFFICES ASSUME TypeOK, [Next]_vars PROVE TypeOK'
  OBVIOUS
<1>1. CASE UNCHANGED vars
  BY <1>1 DEF TypeOK, HeartbeatTypeOK
<1>2. CASE Next
  BY <1>2, NodeTypes, SentinelTypes, TickTypes DEF Next
<1> QED BY <1>1, <1>2

\* Every variable keeps its type: ages saturate, attempts stop at
\* cancel_retry_count, the timer never passes its timeout.
THEOREM SentinelTypeCorrect == Spec => []TypeOK
BY InitTypes, NextTypes, PTL DEF Spec

-----------------------------------------------------------------------------
(* The chain from the event loop to the timer                               *)

Chain == HeartbeatsAreHonest /\ DeadManBound

LEMMA InitChain == Init => Chain
BY Parameters DEF Init, HeartbeatInit, Chain, HeartbeatsAreHonest, DeadManBound

\* Only a fresh report resets the neglect; what is published afterwards is no
\* better than the lease it was copied from.
LEMMA NodeChain == TypeOK /\ Chain /\ NodeStep => Chain'
<1> SUFFICES ASSUME TypeOK, Chain, NodeStep PROVE Chain'
  OBVIOUS
<1> USE DEF TypeOK, HeartbeatTypeOK, Chain, HeartbeatsAreHonest, DeadManBound
<1>1. UNCHANGED <<doing, callAge, armed, timer>>
  BY DEF NodeStep
<1>2. CASE UNCHANGED <<health, leaseAge, heartbeat>>
  BY <1>1, <1>2
<1>3. CASE ReportHealth
  <2>1. health' => judged = "well"
    BY <1>3 DEF ReportHealth
  <2> QED BY <1>1, <1>3, <2>1, Parameters DEF ReportHealth
<1>4. CASE CheckAuthority
  BY <1>1, <1>4 DEF CheckAuthority
<1>5. CASE Publish
  <2>1. file'.healthy => health /\ leaseAge <= Lease
    BY <1>5 DEF Publish, WriteFile
  <2> QED BY <1>1, <1>5, <2>1, Parameters DEF Publish, WriteFile
<1>6. CASE NodeStops
  <2>1. ~ file'.healthy /\ ~ health'
    BY <1>6 DEF NodeStops, NodeIsGone, WriteFile
  <2> QED BY <1>1, <1>6, <2>1 DEF NodeStops, WriteFile
<1>7. CASE NodeCrashes
  <2>1. ~ health'
    BY <1>7 DEF NodeCrashes, NodeIsGone
  <2> QED BY <1>1, <1>7, <2>1 DEF NodeCrashes
<1>8. CASE NodeStarts
  <2>1. ~ file'.healthy
    BY <1>8 DEF NodeStarts, WriteFile
  <2> QED BY <1>1, <1>8, <2>1 DEF NodeStarts, WriteFile
<1> QED BY <1>2, <1>3, <1>4, <1>5, <1>6, <1>7, <1>8
        DEF NodeStep, HeartbeatNext, JudgeHealth, PublisherDies, OperatorKill,
            RenewAuthority, EndAuthority

\* A renewal begins only from a heartbeat that looks well, and the deadline it
\* sets is counted from that moment.
LEMMA SentinelChain ==
    ASSUME TypeOK, Chain,
           \/ \E o \in Orders : PlaceOrder(o) \/ OrderArrives(o) \/ OrderEnds(o)
           \/ SentinelStep \/ VenueAnswers \/ CallReturns
           \/ CallFails \/ SentinelStops \/ SentinelStarts
           \/ TimerFires
    PROVE  Chain'
<1> USE DEF TypeOK, HeartbeatTypeOK, Chain, HeartbeatsAreHonest, DeadManBound
<1>1. UNCHANGED <<node, heartbeat>>
  BY DEF PlaceOrder, OrderArrives, OrderEnds,
         SentinelStep, StepQuiet, StepRenews, StepHolds, StepCancels, Elsewhere,
         VenueAnswers, VenueSchedules, VenueListsOrders, VenueCancels,
         CallReturns, RenewReturns, QueryReturns, CancelReturns,
         CallFails, SentinelStops, SentinelStarts, TimerFires
<1>2. CASE UNCHANGED <<doing, callAge, armed, timer>>
  BY <1>1, <1>2
<1>3. CASE StepRenews
  BY <1>1, <1>3, Parameters DEF StepRenews, Stepping, Well, Begin, Elsewhere
<1>4. CASE VenueSchedules
  BY <1>1, <1>4, Parameters DEF VenueSchedules, Deadline
<1>5. CASE TimerFires
  <2>1. ~ armed'
    BY <1>5 DEF TimerFires
  <2> QED BY <1>1, <1>5, <2>1 DEF TimerFires
<1>6. CASE doing' # "renew" /\ UNCHANGED deadman
  BY <1>1, <1>6
<1> QED BY <1>2, <1>3, <1>4, <1>5, <1>6
        DEF PlaceOrder, OrderArrives, OrderEnds,
            SentinelStep, StepQuiet, StepHolds, StepCancels, StepEnds, Begin, Elsewhere,
            VenueAnswers, VenueListsOrders, VenueCancels,
            CallReturns, RenewReturns, QueryReturns, CancelReturns,
            CallFails, SentinelGone, SentinelStops, SentinelStarts

\* Arithmetic: what one side may gain the other has lost.
LEMMA TradeOff == \A a, b, c, h \in Int : a <= b + 1 /\ b + c <= h => a + (c - 1) <= h
OBVIOUS

\* All ages grow together and the timer shrinks with them.
LEMMA TickChain == TypeOK /\ Chain /\ Tick => Chain'
<1> SUFFICES ASSUME TypeOK, Chain, Tick PROVE Chain'
  OBVIOUS
<1> USE DEF TypeOK, HeartbeatTypeOK, Chain, HeartbeatsAreHonest, DeadManBound
<1>1. UNCHANGED <<health, file, doing, armed>>
  BY DEF Tick, Aging
<1>2. neglect' <= neglect + 1 /\ neglect' \in Nat
  BY Parameters DEF Tick, Aging, Older
<1>3. health' /\ leaseAge' <= Lease => neglect' <= leaseAge'
  BY <1>1, <1>2, Parameters DEF Tick, Aging, Older
<1>4. file'.healthy /\ fileAge' <= StaleAfter => neglect' <= Lease + fileAge'
  BY <1>1, <1>2, Parameters DEF Tick, Aging, Older
<1>5. doing' = "renew" => neglect' <= Lease + StaleAfter + callAge'
  BY <1>1, <1>2, Parameters DEF Tick, Calling, Calls
<1>6. armed' => neglect' + timer' <= Horizon
  <2>1. neglect \in Int /\ neglect' \in Int /\ timer \in Int /\ Horizon \in Int
    BY <1>2, Parameters
  <2>2. armed' => neglect + timer <= Horizon /\ timer' = timer - 1
    BY <1>1 DEF Tick
  <2>3. neglect + timer <= Horizon => neglect' + (timer - 1) <= Horizon
    BY <1>2, <2>1, TradeOff
  <2> QED BY <2>2, <2>3
<1> QED BY <1>3, <1>4, <1>5, <1>6

LEMMA NextChain == TypeOK /\ Chain /\ [Next]_vars => Chain'
<1>1. TypeOK /\ Chain /\ UNCHANGED vars => Chain'
  BY DEF Chain, HeartbeatsAreHonest, DeadManBound
<1> QED BY <1>1, NodeChain, SentinelChain, TickChain DEF Next

\* Whatever dies or hangs, the scheduled cancel fires at most lease, stale
\* threshold and timeout after the event loop was last well.
THEOREM DeadManFires == Spec => []DeadManBound
<1>1. Spec => []Chain
  BY InitTypes, InitChain, NextTypes, NextChain, PTL DEF Spec
<1> QED BY <1>1, PTL DEF Chain

-----------------------------------------------------------------------------
(* What the sentinel remembers of its own renewals                          *)

Covered == Lapse < Timeout

LEMMA Sums == /\ Rested \in Nat /\ Lapse \in Nat /\ Lapse = Rested + Poll + Latency
              /\ Latency <= Rested /\ Renew - 1 <= Rested
BY Parameters DEF Rested, Lapse

LEMMA InitRemembered == Init => TimerRemembered
BY Parameters DEF Init, TimerRemembered

\* Steps that leave the sentinel and the timer alone.
LEMMA BystandersRemember ==
    ASSUME TimerRemembered, UNCHANGED <<sentinel, deadman>>
    PROVE  TimerRemembered'
BY DEF TimerRemembered

LEMMA StepsRemember ==
    ASSUME TypeOK, TimerRemembered, SentinelStep
    PROVE  TimerRemembered'
<1> USE DEF TypeOK, TimerRemembered
<1>1. UNCHANGED <<armed, timer, sentinelUp>> /\ sentinelUp
  BY DEF SentinelStep, StepQuiet, StepRenews, StepHolds, StepCancels, Stepping, Elsewhere
<1>2. CASE StepQuiet
  <2>1. armed /\ timer >= Timeout - sinceRenew /\ sinceRenew <= Renew - 1
    BY <1>2, Parameters DEF StepQuiet
  <2>2. timer >= Timeout - (Rested + 0)
    BY <2>1, Parameters, Sums
  <2> QED BY <1>1, <1>2, <2>1, <2>2 DEF StepQuiet, StepEnds
<1>3. CASE StepRenews
  <2>1. watching => armed /\ timer >= Timeout - (Rested + Poll)
    BY <1>3 DEF StepRenews, Stepping
  <2>2. timer >= Timeout - (Rested + Poll) => timer >= Timeout - (Rested + Poll + 0)
    BY Parameters, Sums
  <2>3. ~ tookEffect'
    BY <1>3 DEF StepRenews, Begin
  <2>4. /\ doing' = "renew" /\ sincePoll' = sincePoll /\ callAge' = 0
        /\ UNCHANGED <<sinceRenew, watching, stepAge>> /\ sinceRenew = Renew
    BY <1>3, Parameters DEF StepRenews, Begin
  <2>5. stepAge' = 0
    BY <1>3, <2>4 DEF StepRenews, Stepping
  <2> QED BY <1>1, <2>1, <2>2, <2>3, <2>4, <2>5, Parameters
<1>4. CASE StepHolds \/ StepCancels
  <2>1. ~ watching' /\ doing' # "renew" /\ sinceRenew' = sinceRenew
        /\ (doing' = "waiting" => stepAge' = 0)
    BY <1>4 DEF StepHolds, StepCancels, StepEnds, Begin
  <2> QED BY <1>1, <2>1
<1> QED BY <1>2, <1>3, <1>4 DEF SentinelStep

LEMMA AnswersRemember ==
    ASSUME TypeOK, TimerRemembered, VenueAnswers
    PROVE  TimerRemembered'
<1> USE DEF TypeOK, TimerRemembered
<1>1. CASE VenueSchedules
  <2>1. armed' /\ timer' >= Timeout - callAge
    BY <1>1, Parameters DEF VenueSchedules, Deadline
  <2>2. timer' >= Timeout - (Rested + Poll + callAge)
    BY <1>1, <2>1, Parameters, Sums DEF VenueSchedules, Deadline
  <2>3. doing' = "renew" /\ sinceRenew' = Renew /\ sentinelUp'
        /\ UNCHANGED <<callAge, stepAge, watching>>
    BY <1>1 DEF VenueSchedules
  <2>4. callAge' = callAge /\ sinceRenew' >= Renew
    BY <2>3, Parameters
  <2>5. armed' /\ timer' >= Timeout - callAge' /\ timer' >= Timeout - (Rested + Poll + callAge')
    BY <2>1, <2>2, <2>4
  <2> QED BY <1>1, <2>3, <2>4, <2>5, Parameters DEF VenueSchedules
<1>2. CASE VenueListsOrders \/ VenueCancels
  <2>1. UNCHANGED <<sentinelUp, doing, clocks, memory, deadman>> /\ doing # "renew"
    BY <1>2 DEF VenueListsOrders, VenueCancels
  <2> QED BY <2>1
<1> QED BY <1>1, <1>2 DEF VenueAnswers

LEMMA ReturnsRemember ==
    ASSUME TypeOK, TimerRemembered, CallReturns
    PROVE  TimerRemembered'
<1> USE DEF TypeOK, TimerRemembered
<1>1. UNCHANGED <<armed, timer, sentinelUp>> /\ sentinelUp
  BY DEF CallReturns, RenewReturns, QueryReturns, CancelReturns, Elsewhere
<1>2. CASE RenewReturns
  <2>1. armed /\ timer >= Timeout - callAge
    BY <1>2 DEF RenewReturns, ResponseOk
  <2>2. timer >= Timeout - (Rested + 0)
    BY <2>1, Parameters, Sums
  <2>3. doing' = "waiting" /\ sincePoll' = 0 /\ sinceRenew' = stepAge /\ stepAge' = 0
    BY <1>2 DEF RenewReturns, StepEnds
  <2>4. stepAge < Renew => timer >= Timeout - stepAge
    BY <1>2, <2>1 DEF RenewReturns
  <2> QED BY <1>1, <2>1, <2>2, <2>3, <2>4
<1>3. CASE QueryReturns \/ CancelReturns
  <2>1. ~ watching' /\ doing' # "renew" /\ sinceRenew' = sinceRenew
        /\ (doing' = "waiting" => stepAge' = 0)
    BY <1>3 DEF QueryReturns, CancelReturns, StepEnds, Begin
  <2> QED BY <1>1, <2>1
<1> QED BY <1>2, <1>3 DEF CallReturns

\* A process that ends forgets; the next one begins with a renewal due.
LEMMA EndsRemember ==
    ASSUME TypeOK, TimerRemembered, CallFails \/ SentinelStops \/ SentinelStarts
    PROVE  TimerRemembered'
<1> USE DEF TypeOK, TimerRemembered
<1>1. CASE SentinelGone
  <2>1. ~ watching' /\ doing' = "waiting" /\ sinceRenew' = Renew /\ stepAge' = 0
    BY <1>1 DEF SentinelGone, StepEnds
  <2> QED BY <2>1, Parameters
<1>2. CASE CallFails /\ ~ SentinelGone
  <2>1. /\ UNCHANGED <<sentinelUp, memory, deadman>>
        /\ doing # "renew" /\ doing' = "query" /\ doing \in Calls
    BY <1>2 DEF CallFails, Begin, Calling
  <2>2. ~ watching /\ sentinelUp
    BY <2>1 DEF Calls
  <2> QED BY <2>1, <2>2
<1>3. CASE SentinelStarts
  <2>1. ~ watching' /\ doing' = "waiting" /\ sinceRenew' = Renew /\ stepAge' = 0
    BY <1>3 DEF SentinelStarts
  <2> QED BY <2>1, Parameters
<1> QED BY <1>1, <1>2, <1>3 DEF SentinelStops

\* A timer that fires cannot be one this process still relies on.
LEMMA FiringRemembers ==
    ASSUME Covered, TypeOK, TimerRemembered, TimerFires
    PROVE  TimerRemembered'
<1> USE DEF TypeOK, TimerRemembered
<1>1. timer = 0 /\ UNCHANGED <<sentinel, timer>>
  BY DEF TimerFires
<1>2. Rested + Poll + Latency < Timeout
  BY Sums DEF Covered
<1>3. sinceRenew >= Renew
  BY <1>1, Parameters
<1>4. ~ (watching /\ doing = "waiting")
  BY <1>1, <1>2, Parameters, Sums
<1>5. ~ (watching /\ doing = "renew")
  BY <1>1, <1>2, Parameters, Sums
<1>6. ~ (doing = "renew" /\ tookEffect)
  BY <1>1, <1>2, Parameters, Sums
<1>7. ~ (sinceRenew' < Renew)
  BY <1>1, <1>3, Parameters
<1>8. UNCHANGED <<doing, watching, tookEffect, stepAge, callAge, sinceRenew, sentinelUp>>
  BY <1>1
<1> QED BY <1>4, <1>5, <1>6, <1>7, <1>8

\* Arithmetic: a clock and the timer move one tick each.
LEMMA OneTick == \A t, a \in Int : t >= Timeout - a => t - 1 >= Timeout - (a + 1)
BY Parameters

LEMMA TickRemembers ==
    ASSUME TypeOK, TimerRemembered, Tick
    PROVE  TimerRemembered'
<1> USE DEF TypeOK, TimerRemembered
<1>1. UNCHANGED <<sentinelUp, doing, tookEffect, watching, armed>>
  BY DEF Tick
<1>2. timer \in Int /\ (armed => timer' = timer - 1)
  BY Parameters DEF Tick
<1>3. sinceRenew' < Renew => armed /\ timer - 1 >= Timeout - sinceRenew'
  <2>1. sinceRenew' < Renew => sinceRenew < Renew /\ sinceRenew' = sinceRenew + 1
    BY Parameters DEF Tick, Older
  <2> QED BY <1>2, <2>1, OneTick, Parameters
<1>4. watching /\ doing = "waiting" => armed /\ timer - 1 >= Timeout - (Rested + sincePoll')
  <2>1. watching /\ doing = "waiting" => sincePoll' = sincePoll + 1
    BY DEF Tick, Calling, Calls
  <2>2. Rested + (sincePoll + 1) = (Rested + sincePoll) + 1 /\ Rested + sincePoll \in Int
    BY Parameters, Sums
  <2> QED BY <1>2, <2>1, <2>2, OneTick
<1>5. doing = "renew" => callAge' = callAge + 1 /\ stepAge' = Older(stepAge, Renew)
  BY DEF Tick, Calling, Calls
<1>6. watching /\ doing = "renew" =>
         armed /\ timer - 1 >= Timeout - (Rested + Poll + callAge')
  <2>1. Rested + Poll + (callAge + 1) = (Rested + Poll + callAge) + 1
        /\ Rested + Poll + callAge \in Int
    BY Parameters, Sums
  <2> QED BY <1>2, <1>5, <2>1, OneTick
<1>7. doing = "renew" /\ tookEffect => armed /\ timer - 1 >= Timeout - callAge'
  BY <1>2, <1>5, OneTick, Parameters
<1>8. doing = "renew" => sinceRenew' = Renew /\ (stepAge' < Renew => callAge' = stepAge')
  BY <1>5, Parameters DEF Tick, Older
<1>9. ~ sentinelUp => sinceRenew' = Renew
  BY Parameters DEF Tick, Older
<1>10. doing = "waiting" => stepAge' = 0
  BY DEF Tick, Calling, Calls
<1> QED BY <1>1, <1>2, <1>3, <1>4, <1>6, <1>7, <1>8, <1>9, <1>10

LEMMA NextRemembers ==
    ASSUME Covered, TypeOK, TimerRemembered, [Next]_vars
    PROVE  TimerRemembered'
<1>1. CASE UNCHANGED <<sentinel, deadman>>
  BY <1>1, BystandersRemember
<1> QED BY <1>1, StepsRemember, AnswersRemember, ReturnsRemember, EndsRemember,
        FiringRemembers, TickRemembers
        DEF Next, NodeStep, PlaceOrder, OrderArrives, OrderEnds

-----------------------------------------------------------------------------
\* The inductive invariant TLC checks on the small instance holds of all.
THEOREM SentinelInvariance == Spec => []SentinelInv
<1>1. Init => SentinelInv
  BY InitTypes, InitChain, InitRemembered DEF SentinelInv, Chain
<1>2. SentinelInv /\ [Next]_vars => SentinelInv'
  <2>1. SentinelInv /\ [Next]_vars => TypeOK' /\ Chain'
    BY NextTypes, NextChain DEF SentinelInv, Chain
  <2>2. SentinelInv /\ [Next]_vars /\ Covered => TimerRemembered'
    BY NextRemembers DEF SentinelInv, Covered
  <2> QED BY <2>1, <2>2 DEF SentinelInv, Chain, Covered
<1> QED BY <1>1, <1>2, PTL DEF Spec

\* While this process finds the node well, the deadline stays ahead of any
\* renewal, poll and two slow calls that the timeout covers.
THEOREM TimerStaysAhead == Spec => []TimerAhead
<1>1. SentinelInv => TimerAhead
  <2> SUFFICES ASSUME SentinelInv, watching, Lapse < Timeout
               PROVE  armed /\ timer >= Timeout - Lapse
    BY DEF TimerAhead
  <2> USE DEF SentinelInv, TypeOK, TimerRemembered
  <2>1. doing = "waiting" \/ doing = "renew"
    BY DEF Calls
  <2>2. CASE doing = "waiting"
    BY <2>2, Parameters, Sums
  <2>3. CASE doing = "renew"
    BY <2>3, Parameters, Sums
  <2> QED BY <2>1, <2>2, <2>3
<1> QED BY <1>1, SentinelInvariance, PTL
=============================================================================
