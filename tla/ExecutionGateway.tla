-------------------------- MODULE ExecutionGateway --------------------------
(***************************************************************************)
(* The sole order gateway (execution/strategy.py) over the durable journal,*)
(* with everything that runs beside it:                                    *)
(*                                                                         *)
(*  - the event-loop thread executes one gateway call or callback at a     *)
(*    time; pc is the point it reached between two journal transactions;   *)
(*  - the heartbeat thread (execution/node.py) may mark stale commands     *)
(*    UNKNOWN between any two of those points;                             *)
(*  - the operator's kill file may change at any time;                     *)
(*  - Nautilus and the venue (external) transmit commands, fill and cancel *)
(*    orders, and queue events for the gateway's callbacks;                *)
(*  - the process may crash anywhere and is started again.                 *)
(***************************************************************************)
EXTENDS ExecutionJournal, Sequences

CONSTANTS
    NoIntent,       \* no call is being executed
    ApprovalTTL,    \* approval_ttl_ms, in ticks
    MaxInflight,    \* max_inflight_requests
    MaxCrashes,     \* bound: crashes of the process
    MaxModifies     \* bound: replacements per order

ASSUME GatewayAssumption == /\ NoIntent \notin Intents
                            /\ ApprovalTTL \in Nat
                            /\ MaxInflight \in Nat \ {0}
                            /\ MaxCrashes \in Nat
                            /\ MaxModifies \in Nat

VARIABLES
    up,             \* the trading node process runs
    pc,             \* where the event-loop thread is inside a call
    cur,            \* the intent of that call
    readState,      \* row["state"] as replace_order read it
    approvalAge,    \* ticks since the risk decision was issued
    kill,           \* operator kill, re-read by the authority on every use
    cache,          \* status of each order in the Nautilus cache
    events,         \* events of each order not yet delivered to a callback
    reply,          \* rejected cancel or modify, answered on its own channel
    venue,          \* where each order really is
    venueFilled,    \* lots really filled
    cancelSent,     \* orders with a cancel under way
    modifySent,     \* orders with a modify under way
    dispatches,     \* how often each order was handed to Nautilus
    modifies, crashes    \* counters of the bounds

thread == <<pc, cur, readState, approvalAge>>
queues == <<cache, events, reply>>
market == <<venue, venueFilled>>
wire   == <<cancelSent, modifySent>>
bounds == <<modifies, crashes>>
vars   == <<rows, up, thread, kill, queues, market, wire, dispatches, bounds>>

Lots == 0..Size

ThreadPoints ==
    {"idle", "deny", "reserved", "refused", "approved", "dispatch", "command_failed",
     "cancel_dispatch", "replace_denied", "modify_approved", "modify_dispatch"}

VenueStates == {"none", "queued", "lost", "denied", "sent", "open",
                "filled", "canceled", "rejected"}

EventKinds == {"submitted", "accepted", "updated", "fill", "canceled",
               "rejected", "denied"}

CacheOpen == {i \in Intents : cache[i] = "open"}

Free  == up /\ pc = "idle"
At(p) == up /\ pc = p

GoTo(p, i) == /\ pc' = p
              /\ cur' = i
              /\ readState' = "absent"
              /\ approvalAge' = 0
Return == GoTo("idle", NoIntent)

-----------------------------------------------------------------------------
(* The process ends: calls, cache, undelivered events and commands Nautilus *)
(* had not transmitted are gone; the journal and the venue are not.         *)

NodeGone == /\ up' = FALSE
            /\ Return
            /\ cache'  = [i \in Intents |-> "none"]
            /\ events' = [i \in Intents |-> <<>>]
            /\ reply'  = [i \in Intents |-> "none"]
            /\ venue'  = [i \in Intents |-> IF venue[i] = "queued" THEN "lost" ELSE venue[i]]
            /\ UNCHANGED <<kill, venueFilled, modifySent, dispatches, modifies>>

\* An exception leaves the market-data callback: cancel all that is open, if
\* that still works, and let the engines shut the node down.
FailClosed == /\ NodeGone
              /\ \/ UNCHANGED cancelSent
                 \/ cancelSent' = cancelSent \cup CacheOpen
              /\ UNCHANGED crashes

\* A call raises before it changed anything: a duplicate intent, a refused or
\* rate-limited cancel, a terminal or uncached order, an invalid book.
CallRaises == Free /\ FailClosed /\ UNCHANGED rows

Crash == /\ up /\ crashes < MaxCrashes
         /\ NodeGone
         /\ crashes' = crashes + 1
         /\ UNCHANGED <<rows, cancelSent>>

\* What Nautilus's startup reconciliation reports of an order (external).
Reconciled(i) ==
    CASE venue[i] = "open" /\ venueFilled[i] = 0 -> << <<"accepted", 0>> >>
      [] venue[i] = "open" /\ venueFilled[i] > 0 -> << <<"fill", venueFilled[i]>> >>
      [] venue[i] = "filled"   -> << <<"fill", Size>> >>
      [] venue[i] = "canceled" -> << <<"canceled", venueFilled[i]>> >>
      [] venue[i] = "rejected" -> << <<"rejected", 0>> >>
      [] OTHER -> <<>>

\* The process starts: stale commands become UNKNOWN, Nautilus reconciles, and
\* on_start cancels every order found open.
Restart == /\ ~up
           /\ up' = TRUE
           /\ StaleMarked
           /\ cache'  = [i \in Intents |-> IF venue[i] = "open" THEN "open" ELSE "none"]
           /\ events' = [i \in Intents |-> Reconciled(i)]
           /\ cancelSent' = cancelSent \cup {i \in Intents : venue[i] = "open"}
           /\ UNCHANGED <<thread, kill, reply, market, modifySent, dispatches, bounds>>

-----------------------------------------------------------------------------
(* execute_intent                                                           *)

RiskPermits == ~kill /\ UnknownCount = 0 /\ UnresolvedCount < MaxInflight

Calm == UNCHANGED <<up, kill, queues, market, wire, dispatches, bounds>>

\* The authority approves and the intent is reserved durably.
ExecuteAllowed(i) == /\ Free
                     /\ RiskPermits
                     /\ JournalBegin(i)
                     /\ GoTo("reserved", i)
                     /\ Calm

\* Any limit may deny; the denial is journaled in two transactions.
ExecuteDenied(i) == /\ Free
                    /\ JournalBegin(i)
                    /\ GoTo("deny", i)
                    /\ Calm

RecordDenial == /\ At("deny")
                /\ JournalAppend(cur, "denied", 0)
                /\ Return
                /\ Calm

\* Slip: consume trusts the count the evaluation saw.
ConsumedUnchecked == /\ At("reserved")
                     /\ approvalAge <= ApprovalTTL
                     /\ ~kill
                     /\ GoTo("approved", cur)
                     /\ Calm /\ UNCHANGED rows

\* consume: the approval is fresh, the kill still off, and the intent's own
\* reservation counts among the commands in flight.
ApprovalConsumed == /\ At("reserved")
                    /\ approvalAge <= ApprovalTTL
                    /\ ~kill
                    /\ UnresolvedCount < MaxInflight
                    /\ GoTo("approved", cur)
                    /\ Calm /\ UNCHANGED rows

\* One of those fails, or the admission or the rate limit does.
ApprovalRefused == /\ At("reserved")
                   /\ GoTo("refused", cur)
                   /\ Calm /\ UNCHANGED rows

RecordRefusal == /\ At("refused")
                 /\ JournalAppend(cur, "denied", 0)
                 /\ FailClosed

\* Slip: SUBMITTED is left to the venue's first callback.
SubmittedLater == /\ At("approved")
                  /\ GoTo("dispatch", cur)
                  /\ Calm /\ UNCHANGED rows

RecordSubmitted == /\ At("approved")
                   /\ JournalAppend(cur, "submitted", 0)
                   /\ GoTo("dispatch", cur)
                   /\ Calm

HandOver(i) == /\ cache' = [cache EXCEPT ![i] = "initialized"]
               /\ venue' = [venue EXCEPT ![i] = "queued"]
               /\ dispatches' = [dispatches EXCEPT ![i] = @ + 1]
               /\ UNCHANGED <<events, reply, venueFilled>>

Dispatch == /\ At("dispatch")
            /\ HandOver(cur)
            /\ Return
            /\ UNCHANGED <<rows, up, kill, wire, bounds>>

\* Slip: an adapter error is retried on the spot.
DispatchRetried == /\ At("dispatch")
                   /\ \/ HandOver(cur)
                      \/ UNCHANGED <<queues, market, dispatches>>
                   /\ UNCHANGED <<rows, thread, up, kill, wire, bounds>>

\* submit_order raises; the order may or may not have been handed over.
DispatchRaises == /\ At("dispatch")
                  /\ \/ HandOver(cur)
                     \/ UNCHANGED <<queues, market, dispatches>>
                  /\ GoTo("command_failed", cur)
                  /\ UNCHANGED <<rows, up, kill, wire, bounds>>

RecordCommandUnknown == /\ At("command_failed")
                        /\ JournalAppend(cur, "unknown", 0)
                        /\ FailClosed

-----------------------------------------------------------------------------
(* cancel, cancel_all and replace_order                                     *)

\* _require_order and _cached_order
Commandable(i) == /\ Free
                  /\ Journaled(i) /\ ~Terminal(i)
                  /\ cache[i] # "none"

CancelOrder(i) == /\ Commandable(i)
                  /\ JournalAppend(i, "pending_cancel", 0)
                  /\ GoTo("cancel_dispatch", i)
                  /\ Calm

CancelDispatch == /\ At("cancel_dispatch")
                  /\ cancelSent' = cancelSent \cup {cur}
                  /\ Return
                  /\ UNCHANGED <<rows, up, kill, queues, market, modifySent,
                                 dispatches, bounds>>

CancelDispatchRaises == /\ At("cancel_dispatch")
                        /\ \/ UNCHANGED cancelSent
                           \/ cancelSent' = cancelSent \cup {cur}
                        /\ GoTo("command_failed", cur)
                        /\ UNCHANGED <<rows, up, kill, queues, market, modifySent,
                                       dispatches, bounds>>

\* cancel_all writes no journal row.
CancelAll == /\ Free
             /\ ~ (CacheOpen \subseteq cancelSent)
             /\ cancelSent' = cancelSent \cup CacheOpen
             /\ UNCHANGED <<rows, up, thread, kill, queues, market, modifySent,
                            dispatches, bounds>>

\* A denied replacement writes back the state it read before the evaluation.
ReplaceDenied(i) == /\ Commandable(i)
                    /\ pc' = "replace_denied" /\ cur' = i
                    /\ readState' = state[i]
                    /\ UNCHANGED <<rows, approvalAge>>
                    /\ Calm

RecordReplaceDenied == /\ At("replace_denied")
                       /\ JournalAppend(cur, readState, 0)
                       /\ Return
                       /\ Calm

ReplaceApproved(i) == /\ Commandable(i)
                      /\ RiskPermits
                      /\ modifies[i] < MaxModifies
                      /\ modifies' = [modifies EXCEPT ![i] = @ + 1]
                      /\ GoTo("modify_approved", i)
                      /\ UNCHANGED <<rows, up, kill, queues, market, wire, dispatches, crashes>>

RecordModify == /\ At("modify_approved")
                /\ JournalAppend(cur, "pending_modify", 0)
                /\ GoTo("modify_dispatch", cur)
                /\ Calm

ModifyDispatch == /\ At("modify_dispatch")
                  /\ modifySent' = modifySent \cup {cur}
                  /\ Return
                  /\ UNCHANGED <<rows, up, kill, queues, market, cancelSent,
                                 dispatches, bounds>>

ModifyDispatchRaises == /\ At("modify_dispatch")
                        /\ \/ UNCHANGED modifySent
                           \/ modifySent' = modifySent \cup {cur}
                        /\ GoTo("command_failed", cur)
                        /\ UNCHANGED <<rows, up, kill, queues, market, cancelSent,
                                       dispatches, bounds>>

\* The state the thread is about to append at its current point.
AppendTarget == CASE pc \in {"deny", "refused"} -> "denied"
                  [] pc = "approved"            -> "submitted"
                  [] pc = "command_failed"      -> "unknown"
                  [] pc = "replace_denied"      -> readState
                  [] pc = "modify_approved"     -> "pending_modify"

\* InvalidTransitionError: meanwhile the heartbeat thread moved the row.
JournalRefuses == /\ up
                  /\ pc \in {"deny", "refused", "approved", "command_failed",
                             "replace_denied", "modify_approved"}
                  /\ ~ CanAppend(cur, AppendTarget)
                  /\ FailClosed
                  /\ UNCHANGED rows

-----------------------------------------------------------------------------
(* Callbacks of the event loop                                              *)

\* Slip: every fill is taken for the last one.
EventStateFinal(e) == IF e[1] = "fill" THEN "filled"
                      ELSE IF e[1] = "updated" THEN "accepted" ELSE e[1]

\* The state each on_order_* handler records; a fill is final when it closes
\* the cached order.
EventState(e) == CASE e[1] \in {"accepted", "updated"} -> "accepted"
                   [] e[1] = "fill" /\ e[2] = Size     -> "filled"
                   [] e[1] = "fill" /\ e[2] # Size     -> "partially_filled"
                   [] OTHER -> e[1]

\* Slips: the order's quantity is recorded, or the fill is added twice.
EventFilledWhole(e)   == IF e[1] = "fill" THEN Size ELSE 0
EventFilledDoubled(e) == IF e[1] = "fill" THEN 2 * e[2] ELSE 0

EventFilled(e) == IF e[1] = "fill" THEN e[2] ELSE 0

CachedAfter(e) == CASE EventState(e) = "submitted"   -> "submitted"
                    [] EventState(e) \in TerminalStates -> "closed"
                    [] OTHER -> "open"

DeliverEvent(i) == /\ Free
                   /\ events[i] # <<>>
                   /\ LET e == Head(events[i])
                      IN  /\ JournalAppend(i, EventState(e), EventFilled(e))
                          /\ cache' = [cache EXCEPT ![i] = CachedAfter(e)]
                   /\ events' = [events EXCEPT ![i] = Tail(@)]
                   /\ UNCHANGED <<up, thread, kill, reply, market, wire, dispatches, bounds>>

\* on_order_cancel_rejected and on_order_modify_rejected
DeliverReply(i) == /\ Free
                   /\ reply[i] # "none"
                   /\ JournalAppend(i, "accepted", 0)
                   /\ reply' = [reply EXCEPT ![i] = "none"]
                   /\ UNCHANGED <<up, thread, kill, cache, events, market, wire,
                                  dispatches, bounds>>

\* The journal refuses the transition and the callback's exception stops the
\* node; no cancel-all precedes it.
CallbackRaises(i) == /\ Free
                     /\ \/ events[i] # <<>> /\ ~ CanAppend(i, EventState(Head(events[i])))
                        \/ reply[i] # "none" /\ ~ CanAppend(i, "accepted")
                     /\ NodeGone
                     /\ UNCHANGED <<rows, cancelSent, crashes>>

-----------------------------------------------------------------------------
(* The heartbeat thread, the operator and the clock                         *)

MarkStaleSubmissions == /\ up
                        /\ MarkStale
                        /\ UNCHANGED <<up, thread, kill, queues, market, wire,
                                       dispatches, bounds>>

OperatorKill == /\ kill' = ~ kill
                /\ UNCHANGED <<rows, up, thread, queues, market, wire, dispatches, bounds>>

Tick == /\ Elapse
        /\ approvalAge' = IF pc = "reserved" /\ approvalAge <= ApprovalTTL
                          THEN approvalAge + 1 ELSE approvalAge
        /\ UNCHANGED <<up, pc, cur, readState, kill, queues, market, wire,
                       dispatches, bounds>>

-----------------------------------------------------------------------------
(* Nautilus and the venue (external)                                        *)

\* An event reaches the queue of a running node; a node that is down learns of
\* it from reconciliation.
Notify(i, kind, q) ==
    events' = IF up THEN [events EXCEPT ![i] = Append(@, <<kind, q>>)] ELSE events

Quiet == UNCHANGED <<rows, up, thread, kill, cache, dispatches, crashes>>

Move(i, from, to, kind) == /\ venue[i] = from
                           /\ venue' = [venue EXCEPT ![i] = to]
                           /\ Notify(i, kind, 0)
                           /\ Quiet /\ UNCHANGED <<reply, venueFilled, wire, modifies>>

Transmit(i)     == Move(i, "queued", "sent", "submitted")
NautilusDeny(i) == Move(i, "queued", "denied", "denied")
VenueAccept(i)  == Move(i, "sent", "open", "accepted")
VenueReject(i)  == Move(i, "sent", "rejected", "rejected")

VenueFill(i) == /\ venue[i] = "open"
                /\ venueFilled' = [venueFilled EXCEPT ![i] = @ + 1]
                /\ venue' = [venue EXCEPT ![i] = IF venueFilled'[i] = Size
                                                 THEN "filled" ELSE "open"]
                /\ Notify(i, "fill", venueFilled'[i])
                /\ Quiet /\ UNCHANGED <<reply, wire, modifies>>

\* Asked for by the gateway, the sentinel or the dead-man timer, or the unfilled
\* remainder of an IOC order.
VenueCancel(i) == /\ venue[i] = "open"
                  /\ venue' = [venue EXCEPT ![i] = "canceled"]
                  /\ cancelSent' = cancelSent \ {i}
                  /\ Notify(i, "canceled", venueFilled[i])
                  /\ Quiet /\ UNCHANGED <<reply, venueFilled, modifySent, modifies>>

VenueRefuseCancel(i) == /\ i \in cancelSent
                        /\ reply[i] = "none"
                        /\ cancelSent' = cancelSent \ {i}
                        /\ reply' = IF up THEN [reply EXCEPT ![i] = "cancel_rejected"] ELSE reply
                        /\ Quiet /\ UNCHANGED <<events, market, modifySent, modifies>>

VenueModify(i) == /\ i \in modifySent
                  /\ venue[i] = "open"
                  /\ modifySent' = modifySent \ {i}
                  /\ Notify(i, "updated", 0)
                  /\ Quiet /\ UNCHANGED <<reply, market, cancelSent, modifies>>

VenueRefuseModify(i) == /\ i \in modifySent
                        /\ reply[i] = "none"
                        /\ modifySent' = modifySent \ {i}
                        /\ reply' = IF up THEN [reply EXCEPT ![i] = "modify_rejected"] ELSE reply
                        /\ Quiet /\ UNCHANGED <<events, market, cancelSent, modifies>>

-----------------------------------------------------------------------------
Init == /\ JournalInit
        /\ up = TRUE
        /\ pc = "idle" /\ cur = NoIntent /\ readState = "absent" /\ approvalAge = 0
        /\ kill = FALSE
        /\ cache  = [i \in Intents |-> "none"]
        /\ events = [i \in Intents |-> <<>>]
        /\ reply  = [i \in Intents |-> "none"]
        /\ venue  = [i \in Intents |-> "none"]
        /\ venueFilled = [i \in Intents |-> 0]
        /\ cancelSent = {}
        /\ modifySent = {}
        /\ dispatches = [i \in Intents |-> 0]
        /\ modifies = [i \in Intents |-> 0]
        /\ crashes = 0

\* Steps inside a call that has begun
CallStep == \/ RecordDenial \/ ApprovalConsumed \/ ApprovalRefused \/ RecordRefusal
            \/ RecordSubmitted \/ Dispatch \/ DispatchRaises \/ RecordCommandUnknown
            \/ CancelDispatch \/ CancelDispatchRaises
            \/ RecordReplaceDenied \/ RecordModify \/ ModifyDispatch \/ ModifyDispatchRaises
            \/ JournalRefuses

Call(i) == \/ ExecuteAllowed(i) \/ ExecuteDenied(i)
           \/ CancelOrder(i) \/ ReplaceDenied(i) \/ ReplaceApproved(i)

Callback(i) == DeliverEvent(i) \/ DeliverReply(i) \/ CallbackRaises(i)

VenueStep(i) == \/ Transmit(i) \/ NautilusDeny(i) \/ VenueAccept(i) \/ VenueReject(i)
                \/ VenueFill(i) \/ VenueCancel(i) \/ VenueRefuseCancel(i)
                \/ VenueModify(i) \/ VenueRefuseModify(i)

Next == \/ \E i \in Intents : Call(i) \/ Callback(i) \/ VenueStep(i)
        \/ CallStep \/ CancelAll \/ CallRaises
        \/ MarkStaleSubmissions \/ OperatorKill \/ Tick
        \/ Crash \/ Restart

Spec == Init /\ [][Next]_vars

\* Time passes, the heartbeat thread runs and a call that began continues; a
\* process that died is started again (compose restart policy); Nautilus drains
\* its event queue, or reports again after each restart (external).
Fairness == /\ WF_vars(Tick) /\ WF_vars(MarkStaleSubmissions)
            /\ WF_vars(CallStep) /\ WF_vars(Restart)
            /\ \A i \in Intents : /\ SF_vars(DeliverEvent(i)) /\ SF_vars(DeliverReply(i))
                                  /\ SF_vars(CallbackRaises(i))
                                  /\ WF_vars(Transmit(i))
                                  /\ WF_vars(VenueAccept(i) \/ VenueReject(i))

FairSpec == Spec /\ Fairness

-----------------------------------------------------------------------------
(* Properties                                                               *)

TypeOK == /\ JournalTypeOK
          /\ up \in BOOLEAN /\ kill \in BOOLEAN
          /\ pc \in ThreadPoints
          /\ cur \in Intents \cup {NoIntent}
          /\ pc # "idle" <=> cur # NoIntent
          /\ readState \in ExecutionState \cup {"absent"}
          /\ approvalAge \in 0..(ApprovalTTL + 1)
          /\ cache \in [Intents -> {"none", "initialized", "submitted", "open", "closed"}]
          /\ events \in [Intents -> Seq(EventKinds \X Lots)]
          /\ reply \in [Intents -> {"none", "cancel_rejected", "modify_rejected"}]
          /\ venue \in [Intents -> VenueStates]
          /\ venueFilled \in [Intents -> Lots]
          /\ cancelSent \subseteq Intents
          /\ modifySent \subseteq Intents
          /\ dispatches \in [Intents -> Nat]
          /\ modifies \in [Intents -> 0..MaxModifies]
          /\ crashes \in 0..MaxCrashes

\* Write-ahead: whatever Nautilus or the venue holds has a row that got past
\* its reservation, so a crash at any point leaves a record to reconcile by.
WriteAhead == \A i \in Intents :
    venue[i] # "none" => Journaled(i) /\ state[i] # "pending_submit"

\* An order is handed over at most once in the life of its intent, across
\* timeouts, adapter errors, crashes and repeated proposals.
AtMostOneDispatch == \A i \in Intents : dispatches[i] <= 1

\* A final journal state is never ahead of the venue: nothing settled still
\* works there, whichever of the racing events was recorded last.
SettledIsSettled == \A i \in Intents :
    Terminal(i) => venue[i] \notin {"queued", "sent", "open"}

\* A recorded fill never exceeds the real one nor a report still to come, so no
\* fill report lowers it, and FILLED means all of it.
RecordedFillsAreReal == \A i \in Intents :
    /\ filled[i] <= venueFilled[i]
    /\ state[i] = "filled" => filled[i] = Size
    /\ \A k \in DOMAIN events[i] : events[i][k][1] = "fill" => filled[i] <= events[i][k][2]

\* consume counts the intent's own reservation, so submissions without an
\* answer stay strictly below the configured limit.
SubmissionsBelowLimit ==
    Cardinality({i \in Intents : state[i] = "submitted"}) < MaxInflight

\* The gateway keeps the promise of SubmitOnce.
phase == [i \in Intents |-> IF Terminal(i) THEN "settled"
                            ELSE IF dispatches[i] > 0 THEN "sent"
                            ELSE IF Journaled(i) THEN "reserved" ELSE "idle"]
Promise == INSTANCE SubmitOnce WITH Intents <- Intents, phase <- phase
SubmitsOnce == Promise!Spec

\* A command without an answer is declared UNKNOWN or answered, unless the
\* caller repeats commands for the intent for ever: every one of them refreshes
\* updated_ts_ns and postpones the timeout.
CommandsTimeOut == \A i \in Intents :
    \/ []<>(cur = i /\ pc \in {"cancel_dispatch", "replace_denied", "modify_dispatch"})
    \/ state[i] \in PendingStates ~> state[i] \notin PendingStates

\* An order the venue has finished is settled in the journal in the end, even
\* when the transition table refuses the first report and stops the node.
VenueOutcomeRecorded == \A i \in Intents :
    venue[i] \in {"filled", "canceled", "rejected"} ~> Terminal(i)

\* What the code's own detail line says of a stale command: "Nautilus
\* reconciliation must resolve it" (node.py:261), for one never handed over.
UndispatchedUnknownResolved == \A i \in Intents :
    state[i] = "unknown" /\ dispatches[i] = 0 ~> state[i] # "unknown"

\* "cancellation is always available" (strategy.py:310): an order that is in the
\* Nautilus cache and not settled can be canceled.
CancellationAvailable == \A i \in Intents :
    Commandable(i) => CanAppend(i, "pending_cancel")

\* "cumulative fill exact" (EXECUTION_RISK_RUNBOOK.md:94): the recorded fill of
\* an order never goes down.
FillsAccumulate == [][\A i \in Intents : filled'[i] >= filled[i]]_vars

-----------------------------------------------------------------------------
(* The inductive strengthening of the safety properties                     *)

\* Handing over, the venue's knowledge and the dispatch counter go together,
\* and only then can the cache or an event speak of the order.
VenueMeansDispatched == \A i \in Intents :
    /\ venue[i] = "none" <=> dispatches[i] = 0
    /\ dispatches[i] <= 1
    /\ cache[i] # "none" => venue[i] # "none"
    /\ events[i] # <<>>  => venue[i] # "none"

\* What the event-loop thread may rely on about its intent between two
\* transactions, whatever the heartbeat thread did to the row in between.
ThreadKnows ==
    /\ ~up => pc = "idle"
    /\ pc \in {"deny", "reserved", "refused", "approved", "dispatch"} =>
          /\ venue[cur] = "none"
          /\ state[cur] \in {"pending_submit", "unknown",
                             IF pc = "dispatch" THEN "submitted" ELSE "unknown"}
    /\ pc = "dispatch" => state[cur] # "pending_submit"
    /\ pc \notin {"idle", "deny", "reserved", "refused", "approved"} =>
          /\ Journaled(cur) /\ ~Terminal(cur)
          /\ state[cur] # "pending_submit"
    /\ pc = "replace_denied" => readState \notin TerminalStates \cup {"pending_submit", "absent"}
    /\ pc = "approved" => UnresolvedCount < MaxInflight

\* A queued event tells the truth about a venue state v with q lots filled.
ReportIsTrue(e, v, q) == /\ e[1] = "fill" => e[2] <= q
                         /\ EventState(e) = "filled" => v = "filled"
                         /\ EventState(e) \in {"canceled", "rejected", "denied"} =>
                               v = EventState(e)

EventsTellTruth == \A i \in Intents : \A k \in DOMAIN events[i] :
    ReportIsTrue(events[i][k], venue[i], venueFilled[i])

\* The venue finishes an order by filling it exactly when all lots are filled.
VenueFillsComplete == \A i \in Intents : venueFilled[i] = Size <=> venue[i] = "filled"

\* The fills of an order are reported in the order they happened.
FillsComeInOrder == \A i \in Intents : \A j, k \in DOMAIN events[i] :
    j < k /\ events[i][j][1] = "fill" /\ events[i][k][1] = "fill" =>
        events[i][j][2] <= events[i][k][2]

IInv == /\ TypeOK /\ VenueMeansDispatched /\ ThreadKnows /\ EventsTellTruth
        /\ VenueFillsComplete /\ FillsComeInOrder
        /\ WriteAhead /\ SettledIsSettled /\ RecordedFillsAreReal
        /\ SubmissionsBelowLimit
=============================================================================
