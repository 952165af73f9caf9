--------------------------- MODULE SafetySentinel ---------------------------
(***************************************************************************)
(* The independent safety sentinel (sentinel/service.py, sentinel/cli.py)  *)
(* beside the trading node of Heartbeat. It polls the heartbeat file:      *)
(* while the node is well it keeps pushing the exchange's scheduled cancel *)
(* (the dead-man timer) ahead; otherwise it stops doing so and cancels all *)
(* open orders, again and again. Its calls block the poll loop, may fail   *)
(* after they took effect, and an exception ends the process, which the    *)
(* container runtime starts again. Orders and the timer live at the venue. *)
(***************************************************************************)
EXTENDS Heartbeat

CONSTANTS
    Orders,         \* identities of orders that may be open at one time
    Poll,           \* poll_interval_ms, in ticks
    Renew,          \* deadman_renew_interval_ms, in ticks
    Latency,        \* adapter_http_timeout_seconds, in ticks
    CancelRetries,  \* cancel_retry_count
    SafetyMargin    \* the five seconds of validate_deadman_timing, in ticks

ASSUME SentinelAssumption == /\ Poll \in Nat \ {0} /\ Poll < StaleAfter
                             /\ Renew \in Nat \ {0}
                             /\ Latency \in Nat
                             /\ CancelRetries \in Nat \ {0}
                             /\ SafetyMargin \in Nat
                             /\ Renew < Timeout - SafetyMargin

VARIABLES
    sentinelUp,     \* the sentinel process runs
    doing,          \* the call its step is blocked in
    sincePoll,      \* ticks since the poll loop began to wait
    callAge,        \* ticks the call takes so far
    stepAge,        \* ticks since the step read its clock, saturates
    attempt,        \* cancel-all attempts of this step
    found,          \* what open_orders returned to that attempt
    tookEffect,     \* the venue has carried out the call
    sinceRenew,     \* ticks since _last_renew_ns, saturates
    sinceCancel,    \* ticks since _last_emergency_cancel_ns, saturates; None counts as due
    watching,       \* history: this process renewed and its last step found the node well
    armed, timer,   \* the exchange's scheduled cancel and the ticks left to it
    orders          \* each order at the venue

clocks   == <<sincePoll, callAge, stepAge>>
call     == <<doing, attempt, found, tookEffect>>
memory   == <<sinceRenew, sinceCancel, watching>>
sentinel == <<sentinelUp, clocks, call, memory>>
deadman  == <<armed, timer>>
vars     == <<beatVars, sentinel, deadman, orders>>

Resting == {o \in Orders : orders[o] = "resting"}

-----------------------------------------------------------------------------
(* The venue (external)                                                     *)

\* The gateway submits whenever its risk authority permits; it asks neither the
\* sentinel nor the dead-man timer.
PlaceOrder(o) == /\ nodeUp /\ ~ kill /\ active
                 /\ orders[o] = "none" /\ o \notin found   \* a fresh identity
                 /\ orders' = [orders EXCEPT ![o] = "flying"]
                 /\ UNCHANGED <<beatVars, sentinel, deadman>>

OrderArrives(o) == /\ orders[o] = "flying"
                   /\ \/ orders' = [orders EXCEPT ![o] = "resting"]
                      \/ orders' = [orders EXCEPT ![o] = "none"]
                   /\ UNCHANGED <<beatVars, sentinel, deadman>>

\* Filled, or canceled by the gateway.
OrderEnds(o) == /\ orders[o] = "resting"
                /\ orders' = [orders EXCEPT ![o] = "none"]
                /\ UNCHANGED <<beatVars, sentinel, deadman>>

Without(canceled) == [o \in Orders |-> IF o \in canceled THEN "none" ELSE orders[o]]

\* The scheduled cancel fires once and is then gone.
TimerFires == /\ armed /\ timer = 0
              /\ armed' = FALSE
              /\ orders' = Without(Resting)
              /\ UNCHANGED <<timer, beatVars, sentinel>>

-----------------------------------------------------------------------------
(* One step of the sentinel                                                 *)

\* Slip: the age of the heartbeat is not checked.
WellAnyAge == active /\ file.healthy /\ file.expiry = expiry
\* _classify
Well == active /\ file.healthy /\ file.expiry = expiry /\ fileAge <= StaleAfter

\* Slip: orders are canceled only when the node turns unwell.
CancelOnChange == watching
\* The first step of an emergency cancels, and then one step in each interval.
CancelDue == sinceCancel >= Renew

Stepping == sentinelUp /\ doing = "waiting" /\ sincePoll = Poll

Calls == {"renew", "query", "cancel"}
Calling == doing \in Calls

\* The loop waits again.
StepEnds == /\ doing' = "waiting" /\ sincePoll' = 0
            /\ callAge' = 0 /\ stepAge' = 0 /\ attempt' = 0
            /\ found' = {} /\ tookEffect' = FALSE

Begin(what, n, named) == /\ doing' = what /\ callAge' = 0 /\ attempt' = n
                         /\ found' = named /\ tookEffect' = FALSE
                         /\ UNCHANGED <<sincePoll, stepAge>>

Elsewhere == UNCHANGED <<beatVars, sentinelUp, deadman, orders>>

\* Well, and the deadline was moved recently enough.
StepQuiet == /\ Stepping /\ Well /\ sinceRenew < Renew
             /\ sinceCancel' = Renew
             /\ watching' = TRUE
             /\ StepEnds
             /\ UNCHANGED sinceRenew /\ Elsewhere

StepRenews == /\ Stepping /\ Well /\ sinceRenew >= Renew
              /\ sinceCancel' = Renew
              /\ Begin("renew", 0, {})
              /\ UNCHANGED <<sinceRenew, watching>> /\ Elsewhere

\* Unwell, and the last emergency cancel is recent.
StepHolds == /\ Stepping /\ ~ Well /\ ~ CancelDue
             /\ watching' = FALSE
             /\ StepEnds
             /\ UNCHANGED <<sinceRenew, sinceCancel>> /\ Elsewhere

StepCancels == /\ Stepping /\ ~ Well /\ CancelDue
               /\ watching' = FALSE
               /\ Begin("query", 1, {})
               /\ UNCHANGED <<sinceRenew, sinceCancel>> /\ Elsewhere

-----------------------------------------------------------------------------
(* The venue carries out a call at some moment before it returns            *)

\* deadline_ms, as the ticks left to it
Deadline == Timeout - callAge

VenueSchedules == /\ doing = "renew" /\ ~ tookEffect
                  /\ tookEffect' = TRUE
                  /\ armed' = TRUE
                  /\ timer' = IF Deadline > 0 THEN Deadline ELSE 0
                  /\ UNCHANGED <<beatVars, sentinelUp, clocks, doing, attempt, found,
                                 memory, orders>>

VenueListsOrders == /\ doing = "query" /\ ~ tookEffect
                    /\ tookEffect' = TRUE
                    /\ found' = Resting
                    /\ UNCHANGED <<beatVars, sentinelUp, clocks, doing, attempt,
                                   memory, deadman, orders>>

VenueCancels == /\ doing = "cancel" /\ ~ tookEffect
                /\ tookEffect' = TRUE
                /\ orders' = Without(found \cap Resting)
                /\ UNCHANGED <<beatVars, sentinelUp, clocks, doing, attempt, found,
                               memory, deadman>>

-----------------------------------------------------------------------------
(* The call returns                                                         *)

\* Slip: the response is not checked (_ensure_ok).
AnyResponse == TRUE
ResponseOk == tookEffect

RenewReturns == /\ doing = "renew" /\ ResponseOk
                /\ sinceRenew' = stepAge
                /\ watching' = TRUE
                /\ StepEnds
                /\ UNCHANGED sinceCancel /\ Elsewhere

\* cancel_all: nothing to cancel, or the orders listed are canceled next.
QueryReturns == /\ doing = "query" /\ ResponseOk
                /\ \/ found # {} /\ Begin("cancel", attempt, found) /\ UNCHANGED sinceCancel
                   \/ found = {} /\ StepEnds /\ sinceCancel' = stepAge
                /\ UNCHANGED <<sinceRenew, watching>> /\ Elsewhere

CancelReturns == /\ doing = "cancel" /\ ResponseOk
                 /\ sinceCancel' = stepAge
                 /\ StepEnds
                 /\ UNCHANGED <<sinceRenew, watching>> /\ Elsewhere

-----------------------------------------------------------------------------
(* Exceptions, the end of the process and its next start                    *)

SentinelGone == /\ sentinelUp' = FALSE
                /\ StepEnds
                /\ sinceRenew' = Renew /\ sinceCancel' = Renew
                /\ watching' = FALSE

\* Slip: one attempt too many.
OneMoreRetry == attempt <= CancelRetries
RetryLeft == attempt < CancelRetries

\* A failed schedule_cancel, or the last attempt to cancel, is raised: main
\* returns 2. An earlier attempt is repeated at once.
CallFails == /\ Calling /\ Fault
             /\ \/ /\ doing # "renew" /\ RetryLeft
                   /\ Begin("query", attempt + 1, {})
                   /\ UNCHANGED <<sentinelUp, memory>>
                \/ /\ doing = "renew" \/ ~ RetryLeft
                   /\ SentinelGone
             /\ UNCHANGED <<node, heartbeat, kill, authority, deadman, orders>>

SentinelStops == /\ sentinelUp /\ Fault
                 /\ SentinelGone
                 /\ UNCHANGED <<node, heartbeat, kill, authority, deadman, orders>>

\* admission_guard.require_active() in main
StartPermitted == active

SentinelStarts == /\ ~ sentinelUp /\ StartPermitted
                  /\ sentinelUp' = TRUE
                  /\ UNCHANGED <<beatVars, clocks, call, memory, deadman, orders>>

-----------------------------------------------------------------------------
Tick == /\ armed => timer > 0
        /\ sentinelUp /\ ~ Calling => sincePoll < Poll
        /\ Calling => callAge < Latency
        /\ Aging
        /\ sincePoll' = IF sentinelUp /\ ~ Calling THEN sincePoll + 1 ELSE sincePoll
        /\ callAge' = IF Calling THEN callAge + 1 ELSE callAge
        /\ stepAge' = IF Calling THEN Older(stepAge, Renew) ELSE stepAge
        /\ sinceRenew'  = Older(sinceRenew, Renew)
        /\ sinceCancel' = Older(sinceCancel, Renew)
        /\ timer' = IF armed THEN timer - 1 ELSE timer
        /\ UNCHANGED <<sentinelUp, call, watching, armed, orders>>

NodeStep == HeartbeatNext /\ UNCHANGED <<sentinel, deadman, orders>>

SentinelStep == StepQuiet \/ StepRenews \/ StepHolds \/ StepCancels
CallReturns  == RenewReturns \/ QueryReturns \/ CancelReturns
VenueAnswers == VenueSchedules \/ VenueListsOrders \/ VenueCancels

Init == /\ HeartbeatInit
        /\ sentinelUp = FALSE
        /\ doing = "waiting" /\ attempt = 0 /\ found = {} /\ tookEffect = FALSE
        /\ sincePoll = 0 /\ callAge = 0 /\ stepAge = 0
        /\ sinceRenew = Renew /\ sinceCancel = Renew /\ watching = FALSE
        /\ armed = FALSE /\ timer = 0
        /\ orders = [o \in Orders |-> "none"]

Next == \/ NodeStep
        \/ \E o \in Orders : PlaceOrder(o) \/ OrderArrives(o) \/ OrderEnds(o)
        \/ SentinelStep \/ VenueAnswers \/ CallReturns
        \/ CallFails \/ SentinelStops \/ SentinelStarts
        \/ TimerFires \/ Tick

Spec == Init /\ [][Next]_vars

\* Time passes, the poll loop and the heartbeat thread run, the runtime starts
\* the sentinel again (restart: unless-stopped), the venue answers (external).
Fairness == /\ WF_vars(Tick) /\ WF_vars(TimerFires)
            /\ WF_vars(SentinelStep) /\ WF_vars(VenueAnswers) /\ WF_vars(CallReturns)
            /\ WF_vars(SentinelStarts)
            /\ WF_vars(NodeStep /\ CheckAuthority) /\ WF_vars(NodeStep /\ Publish)
            /\ \A o \in Orders : WF_vars(OrderArrives(o))

FairSpec == Spec /\ Fairness

-----------------------------------------------------------------------------
(* Properties                                                               *)

TypeOK == /\ HeartbeatTypeOK
          /\ sentinelUp \in BOOLEAN
          /\ doing \in Calls \cup {"waiting"}
          /\ sincePoll \in 0..Poll /\ callAge \in 0..Latency /\ stepAge \in 0..Renew
          /\ attempt \in 0..CancelRetries
          /\ found \subseteq Orders
          /\ tookEffect \in BOOLEAN
          /\ sinceRenew \in 0..Renew /\ sinceCancel \in 0..Renew
          /\ watching \in BOOLEAN
          /\ armed \in BOOLEAN /\ timer \in 0..Timeout
          /\ orders \in [Orders -> {"none", "flying", "resting"}]

\* The scheduled cancel never outlives supervision: whatever happens to node,
\* thread, file or sentinel, it fires at most heartbeat_stale_after plus
\* deadman_timeout after the lease the event loop was last granted ran out.
DeadManBound == armed => neglect + timer <= Horizon

\* The most that passes from the start of a renewal to the end of the last step
\* that relies on it, and to the arrival of the next deadline.
Rested == IF Latency < Renew THEN Renew - 1 ELSE Latency
Lapse  == Rested + Poll + Latency

\* A node that is found well is not canceled by the timer, if the timeout
\* covers the renewal interval, the poll and two slow calls.
TimerAhead == watching /\ Lapse < Timeout => armed /\ timer >= Timeout - Lapse

\* In an emergency that lasts, no order stays at the venue: cancels repeat, are
\* retried, and catch the orders that were in flight.
Emergency == kill \/ ~ nodeUp
NoOrders  == \A o \in Orders : orders[o] = "none"
EmergencyClears == <>[](Emergency /\ active) => <>[]NoOrders

\* "Expiry, rollback, revoke, or ledger mismatch cannot block cancellation"
\* (NATIVE_PLATFORM_THREAT_MODEL.md:76).
ExpiryCannotBlockCancel == <>[]Emergency => <>[]NoOrders

\* "dead-man renewal must leave at least five seconds of safety margin"
\* (config/models.py:150).
RenewalKeepsMargin == watching => armed /\ timer >= SafetyMargin

-----------------------------------------------------------------------------
(* The inductive strengthening                                              *)

\* Lease, file and a renewal in progress each tell how long ago, at most, the
\* event loop was well.
HeartbeatsAreHonest ==
    /\ health /\ leaseAge <= Lease => neglect <= leaseAge
    /\ file.healthy /\ fileAge <= StaleAfter => neglect <= Lease + fileAge
    /\ doing = "renew" => neglect <= Lease + StaleAfter + callAge

\* What this process knows of the timer from its own renewals.
TimerRemembered ==
    /\ sinceRenew < Renew => armed /\ timer >= Timeout - sinceRenew
    /\ watching /\ doing = "waiting" =>
          armed /\ timer >= Timeout - (Rested + sincePoll)
    /\ watching /\ doing = "renew" =>
          armed /\ timer >= Timeout - (Rested + Poll + callAge)
    /\ doing = "renew" /\ tookEffect => armed /\ timer >= Timeout - callAge
    /\ doing = "renew" => sinceRenew = Renew /\ (stepAge < Renew => callAge = stepAge)
    /\ doing = "waiting" => stepAge = 0
    /\ doing \in {"query", "cancel"} => ~ watching
    /\ ~ sentinelUp => doing = "waiting" /\ ~ watching /\ sinceRenew = Renew

SentinelInv == /\ TypeOK /\ HeartbeatsAreHonest /\ DeadManBound
               /\ Lapse < Timeout => TimerRemembered
=============================================================================
