----------------------- MODULE ExecutionGatewayProofs -----------------------
(***************************************************************************)
(* Proofs, for every set of intents and every value of the limits, that    *)
(* the gateway keeps its safety properties and implements SubmitOnce.      *)
(*                                                                         *)
(* The inductive invariant IInv joins the safety properties with what they *)
(* rest on: the venue, cache, queue and counter agree on what was handed   *)
(* over (Outside), the thread knows enough of its row between two          *)
(* transactions (ThreadKnows), and the fills of an order are reported in   *)
(* their order (ReportsFollow).                                            *)
(***************************************************************************)
EXTENDS ExecutionGateway, FiniteSetTheorems, TLAPS

USE JournalAssumption, GatewayAssumption

-----------------------------------------------------------------------------
(* The transition table                                                     *)

\* What the proofs need of the table: nothing leaves a terminal state, nothing
\* enters pending_submit, and only a reservation becomes submitted or denied
\* besides a submission that is denied.
LEMMA TransitionFacts ==
    ASSUME NEW s \in ExecutionState, NEW t \in AllowedTransitions[s]
    PROVE  /\ t \in ExecutionState \ {"pending_submit"}
           /\ s \notin TerminalStates
           /\ t = "submitted" => s = "pending_submit"
  BY DEF AllowedTransitions, ExecutionState, PendingStates, TerminalStates

\* Whatever the journal appends is an execution state.
LEMMA AppendedState ==
    ASSUME JournalTypeOK, NEW i \in Intents, NEW s, CanAppend(i, s)
    PROVE  s \in ExecutionState /\ state[i] \in ExecutionState
  <1>1. state[i] \in ExecutionState
    BY DEF CanAppend, Journaled, JournalTypeOK
  <1> QED
    BY <1>1, TransitionFacts DEF CanAppend

-----------------------------------------------------------------------------
(* Type correctness                                                         *)

LEMMA JournalAppendType ==
    ASSUME JournalTypeOK, NEW i \in Intents, NEW s, NEW q \in 0..Size, JournalAppend(i, s, q)
    PROVE  JournalTypeOK'
  <1>1. s \in ExecutionState
    BY AppendedState DEF JournalAppend
  <1> QED
    BY <1>1 DEF JournalAppend, Put, JournalTypeOK

LEMMA JournalBeginType ==
    ASSUME JournalTypeOK, NEW i \in Intents, JournalBegin(i)
    PROVE  JournalTypeOK'
  BY DEF JournalBegin, Put, JournalTypeOK, ExecutionState, PendingStates

LEMMA StaleMarkedType ==
    ASSUME JournalTypeOK, StaleMarked
    PROVE  JournalTypeOK'
  BY DEF StaleMarked, JournalTypeOK, ExecutionState, PendingStates

LEMMA ElapseType ==
    ASSUME JournalTypeOK, Elapse
    PROVE  JournalTypeOK'
  BY DEF Elapse, JournalTypeOK

\* The process ending leaves a typed state.
LEMMA NodeGoneType ==
    ASSUME TypeOK, NodeGone, JournalTypeOK', cancelSent' \subseteq Intents,
           crashes' \in 0..MaxCrashes
    PROVE  TypeOK'
  <1>1. venue' \in [Intents -> VenueStates]
    BY DEF NodeGone, TypeOK, VenueStates
  <1>2. events' \in [Intents -> Seq(EventKinds \X Lots)]
    BY DEF NodeGone
  <1>3. /\ cache' \in [Intents -> {"none", "initialized", "submitted", "open", "closed"}]
        /\ reply' \in [Intents -> {"none", "cancel_rejected", "modify_rejected"}]
    BY DEF NodeGone
  <1>4. up' \in BOOLEAN /\ kill' \in BOOLEAN
    BY DEF NodeGone, TypeOK
  <1> QED
    BY <1>1, <1>2, <1>3, <1>4 DEF NodeGone, TypeOK, Return, GoTo, ThreadPoints

LEMMA FailClosedType ==
    ASSUME TypeOK, FailClosed, JournalTypeOK'
    PROVE  TypeOK'
  <1>1. cancelSent' \subseteq Intents
    BY DEF FailClosed, TypeOK, CacheOpen
  <1>2. crashes' \in 0..MaxCrashes
    BY DEF FailClosed, TypeOK
  <1> QED
    BY <1>1, <1>2, NodeGoneType DEF FailClosed

\* The part of TypeOK about the event-loop thread.
ThreadTypeOK == /\ pc \in ThreadPoints
                /\ cur \in Intents \cup {NoIntent}
                /\ pc # "idle" <=> cur # NoIntent
                /\ readState \in ExecutionState \cup {"absent"}
                /\ approvalAge \in 0..(ApprovalTTL + 1)

LEMMA GoToType ==
    ASSUME NEW p \in ThreadPoints \ {"idle"}, NEW i \in Intents, GoTo(p, i)
    PROVE  ThreadTypeOK'
  BY DEF GoTo, ThreadTypeOK

LEMMA ReturnType ==
    ASSUME Return
    PROVE  ThreadTypeOK'
  BY DEF Return, GoTo, ThreadTypeOK, ThreadPoints

\* The intent of a call in progress.
LEMMA CallIntent ==
    ASSUME TypeOK, NEW p, At(p), p # "idle"
    PROVE  cur \in Intents
  BY DEF TypeOK, At

\* A step of the thread that touches only itself and the journal.
LEMMA CalmType ==
    ASSUME TypeOK, Calm, JournalTypeOK', ThreadTypeOK'
    PROVE  TypeOK'
  BY DEF TypeOK, Calm, queues, market, wire, bounds, ThreadTypeOK

LEMMA HandOverType ==
    ASSUME TypeOK, NEW i \in Intents, HandOver(i)
    PROVE  /\ (cache \in [Intents -> {"none", "initialized", "submitted", "open", "closed"}])'
           /\ (venue \in [Intents -> VenueStates])'
           /\ (dispatches \in [Intents -> Nat])'
           /\ UNCHANGED <<events, reply, venueFilled>>
  BY DEF HandOver, TypeOK, VenueStates

LEMMA CallType ==
    ASSUME TypeOK, NEW i \in Intents, Call(i)
    PROVE  TypeOK'
  <1>0. JournalTypeOK
    BY DEF TypeOK
  <1>1. CASE ExecuteAllowed(i)
    BY <1>0, <1>1, JournalBeginType, GoToType, CalmType DEF ExecuteAllowed, ThreadPoints
  <1>2. CASE ExecuteDenied(i)
    BY <1>0, <1>2, JournalBeginType, GoToType, CalmType DEF ExecuteDenied, ThreadPoints
  <1>3. CASE CancelOrder(i)
    BY <1>0, <1>3, JournalAppendType, GoToType, CalmType DEF CancelOrder, ThreadPoints
  <1>4. CASE ReplaceDenied(i)
    <2>1. JournalTypeOK'
      BY <1>0, <1>4 DEF ReplaceDenied, rows, JournalTypeOK
    <2>2. ThreadTypeOK'
      BY <1>0, <1>4 DEF ReplaceDenied, TypeOK, ThreadTypeOK, ThreadPoints, JournalTypeOK
    <2> QED
      BY <1>4, <2>1, <2>2, CalmType DEF ReplaceDenied
  <1>5. CASE ReplaceApproved(i)
    <2>1. JournalTypeOK'
      BY <1>0, <1>5 DEF ReplaceApproved, rows, JournalTypeOK
    <2>2. ThreadTypeOK'
      BY <1>5, GoToType DEF ReplaceApproved, ThreadPoints
    <2>3. modifies' \in [Intents -> 0..MaxModifies]
      BY <1>5 DEF ReplaceApproved, TypeOK
    <2> QED
      BY <1>5, <2>1, <2>2, <2>3 DEF ReplaceApproved, TypeOK, ThreadTypeOK, queues, market, wire
  <1> QED
    BY <1>1, <1>2, <1>3, <1>4, <1>5 DEF Call

LEMMA CallStepType ==
    ASSUME TypeOK, CallStep
    PROVE  TypeOK'
  <1>0. JournalTypeOK
    BY DEF TypeOK
  <1>a. ASSUME UNCHANGED rows PROVE JournalTypeOK'
    BY <1>0, <1>a DEF rows, JournalTypeOK
  <1>b. ASSUME NEW p \in ThreadPoints \ {"idle"}, At(p) PROVE cur \in Intents
    BY <1>b, CallIntent
  <1>1. CASE RecordDenial
    BY <1>0, <1>1, <1>b, JournalAppendType, ReturnType, CalmType DEF RecordDenial, ThreadPoints
  <1>2. CASE ApprovalConsumed
    BY <1>a, <1>b, <1>2, GoToType, CalmType DEF ApprovalConsumed, ThreadPoints
  <1>3. CASE ApprovalRefused
    BY <1>a, <1>b, <1>3, GoToType, CalmType DEF ApprovalRefused, ThreadPoints
  <1>4. CASE RecordRefusal
    BY <1>0, <1>b, <1>4, JournalAppendType, FailClosedType DEF RecordRefusal, ThreadPoints
  <1>5. CASE RecordSubmitted
    BY <1>0, <1>b, <1>5, JournalAppendType, GoToType, CalmType DEF RecordSubmitted, ThreadPoints
  <1>6. CASE Dispatch
    <2>1. cur \in Intents
      BY <1>6, <1>b DEF Dispatch, ThreadPoints
    <2> QED
      BY <1>a, <1>6, <2>1, HandOverType, ReturnType
      DEF Dispatch, TypeOK, ThreadTypeOK, wire, bounds
  <1>7. CASE DispatchRaises
    <2>1. cur \in Intents
      BY <1>7, <1>b DEF DispatchRaises, ThreadPoints
    <2>2. ThreadTypeOK'
      BY <1>7, <2>1, GoToType DEF DispatchRaises, ThreadPoints
    <2>3. CASE HandOver(cur)
      BY <1>a, <1>7, <2>1, <2>2, <2>3, HandOverType
      DEF DispatchRaises, TypeOK, ThreadTypeOK, wire, bounds
    <2>4. CASE UNCHANGED <<queues, market, dispatches>>
      BY <1>a, <1>7, <2>1, <2>2, <2>4
      DEF DispatchRaises, TypeOK, ThreadTypeOK, wire, bounds, queues, market
    <2> QED
      BY <1>7, <2>3, <2>4 DEF DispatchRaises
  <1>8. CASE RecordCommandUnknown
    BY <1>0, <1>b, <1>8, JournalAppendType, FailClosedType DEF RecordCommandUnknown, ThreadPoints
  <1>9. CASE CancelDispatch \/ ModifyDispatch
    <2>1. cur \in Intents
      BY <1>9, <1>b DEF CancelDispatch, ModifyDispatch, ThreadPoints
    <2>2. cancelSent' \subseteq Intents /\ modifySent' \subseteq Intents
      BY <1>9, <2>1 DEF CancelDispatch, ModifyDispatch, TypeOK
    <2> QED
      BY <1>a, <1>9, <2>1, <2>2, ReturnType
      DEF CancelDispatch, ModifyDispatch, TypeOK, ThreadTypeOK, queues, market, bounds
  <1>10. CASE CancelDispatchRaises \/ ModifyDispatchRaises
    <2>1. cur \in Intents
      BY <1>10, <1>b DEF CancelDispatchRaises, ModifyDispatchRaises, ThreadPoints
    <2>2. ThreadTypeOK'
      BY <1>10, <2>1, GoToType DEF CancelDispatchRaises, ModifyDispatchRaises, ThreadPoints
    <2>3. cancelSent' \subseteq Intents /\ modifySent' \subseteq Intents
      BY <1>10, <2>1 DEF CancelDispatchRaises, ModifyDispatchRaises, TypeOK
    <2> QED
      BY <1>a, <1>10, <2>2, <2>3
      DEF CancelDispatchRaises, ModifyDispatchRaises, TypeOK, ThreadTypeOK,
          queues, market, bounds
  <1>11. CASE RecordReplaceDenied
    BY <1>0, <1>11, <1>b, JournalAppendType, ReturnType, CalmType
    DEF RecordReplaceDenied, ThreadPoints
  <1>12. CASE RecordModify
    BY <1>0, <1>12, <1>b, JournalAppendType, GoToType, CalmType DEF RecordModify, ThreadPoints
  <1>13. CASE JournalRefuses
    BY <1>a, <1>13, FailClosedType DEF JournalRefuses
  <1> QED
    BY <1>1, <1>2, <1>3, <1>4, <1>5, <1>6, <1>7, <1>8, <1>9, <1>10, <1>11, <1>12, <1>13
    DEF CallStep

\* Taking the first event keeps a typed queue, adding one does too.
LEMMA QueueType ==
    ASSUME events \in [Intents -> Seq(EventKinds \X Lots)], NEW i \in Intents,
           events[i] # <<>>
    PROVE  /\ Head(events[i]) \in EventKinds \X Lots
           /\ Tail(events[i]) \in Seq(EventKinds \X Lots)
  OBVIOUS

LEMMA NotifyType ==
    ASSUME TypeOK, NEW i \in Intents, NEW kind \in EventKinds, NEW q \in Lots,
           Notify(i, kind, q)
    PROVE  events' \in [Intents -> Seq(EventKinds \X Lots)]
  <1>1. events \in [Intents -> Seq(EventKinds \X Lots)]
    BY DEF TypeOK
  <1>2. Append(events[i], <<kind, q>>) \in Seq(EventKinds \X Lots)
    BY <1>1
  <1> QED
    BY <1>1, <1>2 DEF Notify

LEMMA CallbackType ==
    ASSUME TypeOK, NEW i \in Intents, Callback(i)
    PROVE  TypeOK'
  <1>0. JournalTypeOK
    BY DEF TypeOK
  <1>1. CASE DeliverEvent(i)
    <2> DEFINE e == Head(events[i])
    <2>1. e \in EventKinds \X Lots /\ Tail(events[i]) \in Seq(EventKinds \X Lots)
      BY <1>1, QueueType DEF DeliverEvent, TypeOK
    <2>2. EventFilled(e) \in 0..Size
      BY <2>1 DEF EventFilled, Lots
    <2>3. JournalTypeOK'
      BY <1>0, <1>1, <2>2, JournalAppendType DEF DeliverEvent
    <2>4. CachedAfter(e) \in {"none", "initialized", "submitted", "open", "closed"}
      BY DEF CachedAfter
    <2>5. cache' \in [Intents -> {"none", "initialized", "submitted", "open", "closed"}]
      BY <1>1, <2>4 DEF DeliverEvent, TypeOK
    <2>6. events' \in [Intents -> Seq(EventKinds \X Lots)]
      BY <1>1, <2>1 DEF DeliverEvent, TypeOK
    <2> QED
      BY <1>1, <2>3, <2>5, <2>6 DEF DeliverEvent, TypeOK, thread, market, wire, bounds
  <1>2. CASE DeliverReply(i)
    <2>1. JournalTypeOK'
      BY <1>0, <1>2, JournalAppendType DEF DeliverReply
    <2> QED
      BY <1>2, <2>1 DEF DeliverReply, TypeOK, thread, market, wire, bounds
  <1>3. CASE CallbackRaises(i)
    <2>1. JournalTypeOK'
      BY <1>0, <1>3 DEF CallbackRaises, rows, JournalTypeOK
    <2> QED
      BY <1>3, <2>1, NodeGoneType DEF CallbackRaises, TypeOK
  <1> QED
    BY <1>1, <1>2, <1>3 DEF Callback

\* Nothing the venue does to an order touches the row or the thread.
LEMMA QuietType ==
    ASSUME TypeOK, Quiet,
           events' \in [Intents -> Seq(EventKinds \X Lots)],
           reply' \in [Intents -> {"none", "cancel_rejected", "modify_rejected"}],
           venue' \in [Intents -> VenueStates],
           venueFilled' \in [Intents -> Lots],
           cancelSent' \subseteq Intents, modifySent' \subseteq Intents,
           UNCHANGED modifies
    PROVE  TypeOK'
  BY DEF TypeOK, Quiet, rows, thread, JournalTypeOK

LEMMA MoveType ==
    ASSUME TypeOK, NEW i \in Intents, NEW from, NEW to \in VenueStates,
           NEW kind \in EventKinds, Move(i, from, to, kind)
    PROVE  TypeOK'
  <1>1. events' \in [Intents -> Seq(EventKinds \X Lots)]
    BY NotifyType DEF Move, Lots
  <1>2. venue' \in [Intents -> VenueStates]
    BY DEF Move, TypeOK
  <1> QED
    BY <1>1, <1>2, QuietType DEF Move, TypeOK, wire

LEMMA VenueStepType ==
    ASSUME TypeOK, VenueFillsComplete, NEW i \in Intents, VenueStep(i)
    PROVE  TypeOK'
  <1>1. CASE Transmit(i) \/ NautilusDeny(i) \/ VenueAccept(i) \/ VenueReject(i)
    BY <1>1, MoveType DEF Transmit, NautilusDeny, VenueAccept, VenueReject,
                          VenueStates, EventKinds
  <1>2. CASE VenueFill(i)
    <2>1. venueFilled[i] + 1 \in Lots
      BY <1>2 DEF VenueFill, TypeOK, Lots, VenueFillsComplete
    <2>2. venueFilled' \in [Intents -> Lots] /\ venueFilled'[i] \in Lots
      BY <1>2, <2>1 DEF VenueFill, TypeOK
    <2>3. venue' \in [Intents -> VenueStates]
      BY <1>2 DEF VenueFill, TypeOK, VenueStates
    <2>4. events' \in [Intents -> Seq(EventKinds \X Lots)]
      BY <1>2, <2>2, NotifyType DEF VenueFill, EventKinds
    <2> QED
      BY <1>2, <2>2, <2>3, <2>4, QuietType DEF VenueFill, TypeOK, wire
  <1>3. CASE VenueCancel(i)
    <2>1. events' \in [Intents -> Seq(EventKinds \X Lots)]
      BY <1>3, NotifyType DEF VenueCancel, EventKinds, TypeOK
    <2>2. venue' \in [Intents -> VenueStates]
      BY <1>3 DEF VenueCancel, TypeOK, VenueStates
    <2>3. cancelSent' \subseteq Intents
      BY <1>3 DEF VenueCancel, TypeOK
    <2> QED
      BY <1>3, <2>1, <2>2, <2>3, QuietType DEF VenueCancel, TypeOK
  <1>4. CASE VenueRefuseCancel(i)
    <2>1. cancelSent' \subseteq Intents
      BY <1>4 DEF VenueRefuseCancel, TypeOK
    <2>2. reply' \in [Intents -> {"none", "cancel_rejected", "modify_rejected"}]
      BY <1>4 DEF VenueRefuseCancel, TypeOK
    <2> QED
      BY <1>4, <2>1, <2>2, QuietType DEF VenueRefuseCancel, TypeOK, market
  <1>5. CASE VenueModify(i)
    <2>1. events' \in [Intents -> Seq(EventKinds \X Lots)]
      BY <1>5, NotifyType DEF VenueModify, EventKinds, Lots
    <2>2. modifySent' \subseteq Intents
      BY <1>5 DEF VenueModify, TypeOK
    <2> QED
      BY <1>5, <2>1, <2>2, QuietType DEF VenueModify, TypeOK, market
  <1>6. CASE VenueRefuseModify(i)
    <2>1. modifySent' \subseteq Intents
      BY <1>6 DEF VenueRefuseModify, TypeOK
    <2>2. reply' \in [Intents -> {"none", "cancel_rejected", "modify_rejected"}]
      BY <1>6 DEF VenueRefuseModify, TypeOK
    <2> QED
      BY <1>6, <2>1, <2>2, QuietType DEF VenueRefuseModify, TypeOK, market
  <1> QED
    BY <1>1, <1>2, <1>3, <1>4, <1>5, <1>6 DEF VenueStep

LEMMA EnvironmentType ==
    ASSUME TypeOK,
           CancelAll \/ CallRaises \/ MarkStaleSubmissions \/ OperatorKill \/ Tick
             \/ Crash \/ Restart
    PROVE  TypeOK'
  <1>0. JournalTypeOK
    BY DEF TypeOK
  <1>a. ASSUME UNCHANGED rows PROVE JournalTypeOK'
    BY <1>0, <1>a DEF rows, JournalTypeOK
  <1>1. CASE CancelAll
    <2>1. cancelSent' \subseteq Intents
      BY <1>1 DEF CancelAll, CacheOpen, TypeOK
    <2> QED
      BY <1>a, <1>1, <2>1 DEF CancelAll, TypeOK, thread, queues, market, bounds
  <1>2. CASE CallRaises
    BY <1>a, <1>2, FailClosedType DEF CallRaises
  <1>3. CASE MarkStaleSubmissions
    <2>1. JournalTypeOK'
      BY <1>0, <1>3, StaleMarkedType DEF MarkStaleSubmissions, MarkStale
    <2> QED
      BY <1>3, <2>1 DEF MarkStaleSubmissions, TypeOK, thread, queues, market, wire, bounds
  <1>4. CASE OperatorKill
    BY <1>a, <1>4 DEF OperatorKill, TypeOK, thread, queues, market, wire, bounds
  <1>5. CASE Tick
    <2>1. JournalTypeOK'
      BY <1>0, <1>5, ElapseType DEF Tick
    <2>2. approvalAge' \in 0..(ApprovalTTL + 1)
      BY <1>5 DEF Tick, TypeOK
    <2> QED
      BY <1>5, <2>1, <2>2 DEF Tick, TypeOK, queues, market, wire, bounds
  <1>6. CASE Crash
    <2>1. crashes' \in 0..MaxCrashes
      BY <1>6 DEF Crash, TypeOK
    <2>2. cancelSent' \subseteq Intents
      BY <1>6 DEF Crash, TypeOK
    <2> QED
      BY <1>a, <1>6, <2>1, <2>2, NodeGoneType DEF Crash
  <1>7. CASE Restart
    <2>1. JournalTypeOK'
      BY <1>0, <1>7, StaleMarkedType DEF Restart
    <2>2. ASSUME NEW i \in Intents PROVE Reconciled(i) \in Seq(EventKinds \X Lots)
      <3>1. venueFilled[i] \in Lots /\ 0 \in Lots /\ Size \in Lots
        BY DEF TypeOK, Lots
      <3>2. ASSUME NEW e \in EventKinds \X Lots
            PROVE  <<e>> \in Seq(EventKinds \X Lots)
        OBVIOUS
      <3>3. /\ <<"accepted", 0>> \in EventKinds \X Lots
            /\ <<"fill", venueFilled[i]>> \in EventKinds \X Lots
            /\ <<"fill", Size>> \in EventKinds \X Lots
            /\ <<"canceled", venueFilled[i]>> \in EventKinds \X Lots
            /\ <<"rejected", 0>> \in EventKinds \X Lots
        BY <3>1 DEF EventKinds
      <3>4. << >> \in Seq(EventKinds \X Lots)
        OBVIOUS
      <3> QED
        BY <3>2, <3>3, <3>4 DEF Reconciled
    <2>3. events' \in [Intents -> Seq(EventKinds \X Lots)]
      BY <1>7, <2>2 DEF Restart
    <2>4. cache' \in [Intents -> {"none", "initialized", "submitted", "open", "closed"}]
      BY <1>7 DEF Restart
    <2>5. cancelSent' \subseteq Intents
      BY <1>7 DEF Restart, TypeOK
    <2> QED
      BY <1>7, <2>1, <2>3, <2>4, <2>5 DEF Restart, TypeOK, thread, market, bounds
  <1> QED
    BY <1>1, <1>2, <1>3, <1>4, <1>5, <1>6, <1>7


-----------------------------------------------------------------------------
(* What lies outside the journal                                            *)

Outside == VenueMeansDispatched /\ EventsTellTruth /\ VenueFillsComplete

\* What a delivered event records, from its kind and quantity.
LEMMA EventStateFacts ==
    ASSUME NEW kind \in EventKinds, NEW q \in Lots
    PROVE  LET e == <<kind, q>>
           IN  /\ EventState(e) = "filled" <=> kind = "fill" /\ q = Size
               /\ EventState(e) \in {"canceled", "rejected", "denied"} =>
                     kind = EventState(e)
               /\ EventState(e) = "submitted" => kind = "submitted"
  BY DEF EventState, EventKinds, Lots

\* Nothing outside moves when only the row, the thread or a request does.
LEMMA OutsideFrame ==
    ASSUME Outside, UNCHANGED <<cache, events, venue, venueFilled, dispatches>>
    PROVE  Outside'
  BY DEF Outside, VenueMeansDispatched, EventsTellTruth, VenueFillsComplete

LEMMA OutsideNodeGone ==
    ASSUME TypeOK, Outside, NodeGone
    PROVE  Outside'
  <1>1. VenueMeansDispatched'
    BY DEF NodeGone, TypeOK, Outside, VenueMeansDispatched
  <1>2. EventsTellTruth'
    <2>1. \A i \in Intents : events'[i] = << >>
      BY DEF NodeGone
    <2>2. \A i \in Intents : DOMAIN events'[i] = {}
      BY <2>1
    <2> QED
      BY <2>2 DEF EventsTellTruth
  <1>3. VenueFillsComplete'
    BY DEF NodeGone, TypeOK, Outside, VenueFillsComplete
  <1> QED
    BY <1>1, <1>2, <1>3 DEF Outside

LEMMA OutsideHandOver ==
    ASSUME TypeOK, Outside, NEW i \in Intents, venue[i] = "none", HandOver(i)
    PROVE  Outside'
  <1>0. dispatches[i] = 0 /\ dispatches'[i] = 1
    BY DEF TypeOK, Outside, VenueMeansDispatched, HandOver
  <1>1. VenueMeansDispatched'
    BY <1>0 DEF HandOver, TypeOK, Outside, VenueMeansDispatched
  <1>2. EventsTellTruth'
    <2>1. events[i] = << >>
      BY DEF Outside, VenueMeansDispatched
    <2>2. DOMAIN events[i] = {}
      BY <2>1
    <2>3. \A j \in Intents \ {i} : venue'[j] = venue[j]
      BY DEF HandOver, TypeOK
    <2> QED
      BY <2>2, <2>3 DEF HandOver, Outside, EventsTellTruth
  <1>3. VenueFillsComplete'
    BY DEF HandOver, TypeOK, Outside, VenueFillsComplete
  <1> QED
    BY <1>1, <1>2, <1>3 DEF Outside

LEMMA OutsideRestart ==
    ASSUME TypeOK, Outside, Restart
    PROVE  Outside'
  <1>0. UNCHANGED <<venue, venueFilled, dispatches>>
    BY DEF Restart, market
  <1>1. VenueMeansDispatched'
    <2>1. ASSUME NEW i \in Intents, venue[i] = "none" PROVE events'[i] = << >>
      BY <2>1 DEF Restart, Reconciled
    <2>2. ASSUME NEW i \in Intents, venue[i] = "none" PROVE cache'[i] = "none"
      BY <2>2 DEF Restart
    <2> QED
      BY <1>0, <2>1, <2>2 DEF Outside, VenueMeansDispatched
  <1>2. EventsTellTruth'
    <2> SUFFICES ASSUME NEW i \in Intents, NEW k \in DOMAIN events'[i]
                 PROVE  ReportIsTrue(events'[i][k], venue'[i], venueFilled'[i])
      BY DEF EventsTellTruth
    <2>1. events'[i] = Reconciled(i)
      BY DEF Restart
    <2>2. venueFilled[i] \in Lots /\ (venueFilled[i] = Size <=> venue[i] = "filled")
      BY DEF TypeOK, Outside, VenueFillsComplete
    <2>3. CASE venue[i] = "open"
      <3>1. \/ events'[i] = << <<"accepted", 0>> >>
            \/ events'[i] = << <<"fill", venueFilled[i]>> >> /\ venueFilled[i] < Size
        BY <2>1, <2>2, <2>3 DEF Reconciled, Lots
      <3>2. k = 1
        BY <3>1
      <3> QED
        BY <1>0, <2>2, <3>1, <3>2 DEF ReportIsTrue, EventState, Lots
    <2>4. CASE venue[i] = "filled"
      <3>1. events'[i] = << <<"fill", Size>> >>
        BY <2>1, <2>4 DEF Reconciled
      <3>2. k = 1
        BY <3>1
      <3> QED
        BY <1>0, <2>2, <2>4, <3>1, <3>2 DEF ReportIsTrue, EventState, Lots
    <2>5. CASE venue[i] = "canceled"
      <3>1. events'[i] = << <<"canceled", venueFilled[i]>> >>
        BY <2>1, <2>5 DEF Reconciled
      <3>2. k = 1
        BY <3>1
      <3> QED
        BY <1>0, <2>2, <2>5, <3>1, <3>2 DEF ReportIsTrue, EventState, Lots
    <2>6. CASE venue[i] = "rejected"
      <3>1. events'[i] = << <<"rejected", 0>> >>
        BY <2>1, <2>6 DEF Reconciled
      <3>2. k = 1
        BY <3>1
      <3> QED
        BY <1>0, <2>2, <2>6, <3>1, <3>2 DEF ReportIsTrue, EventState, Lots
    <2>7. CASE venue[i] \notin {"open", "filled", "canceled", "rejected"}
      <3>1. events'[i] = << >>
        BY <2>1, <2>7 DEF Reconciled
      <3> QED
        BY <3>1
    <2> QED
      BY <2>3, <2>4, <2>5, <2>6, <2>7
  <1>3. VenueFillsComplete'
    BY <1>0 DEF Outside, VenueFillsComplete
  <1> QED
    BY <1>1, <1>2, <1>3 DEF Outside

\* Delivering an event keeps the rest of its queue.
LEMMA OutsideDeliver ==
    ASSUME TypeOK, Outside, NEW i \in Intents, DeliverEvent(i)
    PROVE  Outside'
  <1>0. UNCHANGED <<venue, venueFilled, dispatches>> /\ venue[i] # "none"
    BY DEF DeliverEvent, market, Outside, VenueMeansDispatched
  <1>1. /\ events' = [events EXCEPT ![i] = Tail(@)]
        /\ \A j \in Intents \ {i} : cache'[j] = cache[j] /\ events'[j] = events[j]
    BY DEF DeliverEvent, TypeOK
  <1>2. VenueMeansDispatched'
    BY <1>0, <1>1 DEF Outside, VenueMeansDispatched
  <1>3. EventsTellTruth'
    <2> SUFFICES ASSUME NEW j \in Intents, NEW k \in DOMAIN events'[j]
                 PROVE  ReportIsTrue(events'[j][k], venue'[j], venueFilled'[j])
      BY DEF EventsTellTruth
    <2>1. CASE j # i
      BY <1>0, <1>1, <2>1 DEF Outside, EventsTellTruth
    <2>2. CASE j = i
      <3>1. events[i] \in Seq(EventKinds \X Lots) /\ events[i] # << >>
        BY DEF TypeOK, DeliverEvent
      <3>2. events'[i] = Tail(events[i])
        BY <1>1 DEF TypeOK
      <3>3. k + 1 \in DOMAIN events[i] /\ events'[i][k] = events[i][k + 1]
        BY <2>2, <3>1, <3>2
      <3> QED
        BY <1>0, <2>2, <3>3 DEF Outside, EventsTellTruth
    <2> QED
      BY <2>1, <2>2
  <1>4. VenueFillsComplete'
    BY <1>0 DEF Outside, VenueFillsComplete
  <1> QED
    BY <1>2, <1>3, <1>4 DEF Outside

\* A true report keeps the queue truthful, if the venue's own step breaks none
\* of the reports already queued.
LEMMA OutsideNotify ==
    ASSUME TypeOK, Outside, NEW i \in Intents,
           NEW kind \in EventKinds, NEW q \in Lots, Notify(i, kind, q),
           ReportIsTrue(<<kind, q>>, venue'[i], venueFilled'[i]),
           \A e \in EventKinds \X Lots :
              ReportIsTrue(e, venue[i], venueFilled[i]) =>
              ReportIsTrue(e, venue'[i], venueFilled'[i]),
           \A j \in Intents \ {i} : venue'[j] = venue[j] /\ venueFilled'[j] = venueFilled[j]
    PROVE  EventsTellTruth'
  <1> SUFFICES ASSUME NEW j \in Intents, NEW k \in DOMAIN events'[j]
               PROVE  ReportIsTrue(events'[j][k], venue'[j], venueFilled'[j])
    BY DEF EventsTellTruth
  <1>0. events \in [Intents -> Seq(EventKinds \X Lots)]
    BY DEF TypeOK
  <1>1. CASE events'[j] = events[j]
    <2>1. events[j][k] \in EventKinds \X Lots
      BY <1>0, <1>1
    <2>2. ReportIsTrue(events[j][k], venue[j], venueFilled[j])
      BY <1>1 DEF Outside, EventsTellTruth
    <2>3. CASE j = i
      BY <1>1, <2>1, <2>2, <2>3
    <2>4. CASE j # i
      BY <1>1, <2>2, <2>4
    <2> QED
      BY <2>3, <2>4
  <1>2. CASE events'[j] # events[j]
    <2>1. j = i /\ events'[i] = Append(events[i], <<kind, q>>)
      BY <1>0, <1>2 DEF Notify
    <2>2. \/ k \in DOMAIN events[i] /\ events'[i][k] = events[i][k]
          \/ events'[i][k] = <<kind, q>>
      <3>1. events[i] \in Seq(EventKinds \X Lots) /\ <<kind, q>> \in EventKinds \X Lots
        BY <1>0
      <3> QED
        BY <2>1, <3>1
    <2>3. CASE k \in DOMAIN events[i] /\ events'[i][k] = events[i][k]
      <3>1. events[i][k] \in EventKinds \X Lots
        BY <1>0, <2>3
      <3> QED
        BY <2>1, <2>3, <3>1 DEF Outside, EventsTellTruth
    <2> QED
      BY <2>1, <2>2, <2>3
  <1> QED
    BY <1>1, <1>2

\* The queue of an order grows only where the venue knows the order.
LEMMA DispatchedNotify ==
    ASSUME TypeOK, Outside, NEW i \in Intents, venue[i] # "none",
           NEW kind, NEW q, Notify(i, kind, q),
           NEW to \in VenueStates \ {"none"}, venue' = [venue EXCEPT ![i] = to],
           UNCHANGED <<cache, dispatches>>
    PROVE  VenueMeansDispatched'
  <1>1. \A j \in Intents \ {i} : venue'[j] = venue[j] /\ events'[j] = events[j]
    BY DEF TypeOK, Notify
  <1>2. venue'[i] # "none"
    BY DEF TypeOK
  <1> QED
    BY <1>1, <1>2 DEF Outside, VenueMeansDispatched

LEMMA OutsideMove ==
    ASSUME TypeOK, Outside, NEW i \in Intents,
           NEW from \in {"queued", "sent"}, NEW to \in {"sent", "denied", "open", "rejected"},
           NEW kind \in {"submitted", "denied", "accepted", "rejected"}, Move(i, from, to, kind),
           kind \in {"denied", "rejected"} => to = kind
    PROVE  Outside'
  <1>0. UNCHANGED <<venueFilled, cache, dispatches>> /\ venue[i] = from /\ from # "none"
    BY DEF Move, Quiet
  <1>1. venue' = [venue EXCEPT ![i] = to] /\ venue'[i] = to
    BY DEF Move, TypeOK
  <1>2. Notify(i, kind, 0) /\ kind \in EventKinds /\ 0 \in Lots
    BY DEF Move, EventKinds, Lots
  <1>3. ReportIsTrue(<<kind, 0>>, venue'[i], venueFilled'[i])
    BY <1>1, <1>2, EventStateFacts DEF ReportIsTrue
  <1>4. VenueMeansDispatched'
    BY <1>0, <1>1, <1>2, DispatchedNotify DEF VenueStates
  <1>5. EventsTellTruth'
    <2>1. \A e \in EventKinds \X Lots :
             ReportIsTrue(e, venue[i], venueFilled[i]) =>
             ReportIsTrue(e, venue'[i], venueFilled'[i])
      BY <1>0 DEF ReportIsTrue
    <2> QED
      BY <1>0, <1>1, <1>2, <1>3, <2>1, OutsideNotify DEF TypeOK
  <1>6. VenueFillsComplete'
    BY <1>0, <1>1 DEF Outside, VenueFillsComplete, TypeOK
  <1> QED
    BY <1>4, <1>5, <1>6 DEF Outside

LEMMA OutsideVenueStep ==
    ASSUME TypeOK, Outside, NEW i \in Intents, VenueStep(i)
    PROVE  Outside'
  <1>1. CASE Transmit(i) \/ NautilusDeny(i) \/ VenueAccept(i) \/ VenueReject(i)
    BY <1>1, OutsideMove DEF Transmit, NautilusDeny, VenueAccept, VenueReject
  <1>2. CASE VenueFill(i)
    <2>0. UNCHANGED <<cache, dispatches>> /\ venue[i] = "open"
      BY <1>2 DEF VenueFill, Quiet
    <2>1. /\ venueFilled'[i] = venueFilled[i] + 1 /\ venueFilled'[i] \in Lots
          /\ venueFilled[i] \in Nat
          /\ venue' = [venue EXCEPT ![i] = IF venueFilled'[i] = Size THEN "filled" ELSE "open"]
          /\ venue'[i] = IF venueFilled'[i] = Size THEN "filled" ELSE "open"
          /\ \A j \in Intents \ {i} : venue'[j] = venue[j] /\ venueFilled'[j] = venueFilled[j]
      BY <1>2 DEF VenueFill, TypeOK, Lots, Outside, VenueFillsComplete
    <2>2. Notify(i, "fill", venueFilled'[i]) /\ "fill" \in EventKinds
      BY <1>2 DEF VenueFill, EventKinds
    <2>3. ReportIsTrue(<<"fill", venueFilled'[i]>>, venue'[i], venueFilled'[i])
      BY <2>1, <2>2, EventStateFacts DEF ReportIsTrue, Lots
    <2>4. VenueMeansDispatched'
      BY <2>0, <2>1, <2>2, DispatchedNotify DEF VenueStates
    <2>5. EventsTellTruth'
      <3>1. ASSUME NEW e \in EventKinds \X Lots, ReportIsTrue(e, venue[i], venueFilled[i])
            PROVE  ReportIsTrue(e, venue'[i], venueFilled'[i])
        <4>1. e[2] \in Nat
          BY DEF Lots
        <4> QED
          BY <2>0, <2>1, <3>1, <4>1 DEF ReportIsTrue
      <3> QED
        BY <2>1, <2>2, <2>3, <3>1, OutsideNotify
    <2>6. VenueFillsComplete'
      BY <2>1 DEF Outside, VenueFillsComplete
    <2> QED
      BY <2>4, <2>5, <2>6 DEF Outside
  <1>3. CASE VenueCancel(i)
    <2>0. /\ UNCHANGED <<cache, dispatches, venueFilled>> /\ venue[i] = "open"
          /\ venue' = [venue EXCEPT ![i] = "canceled"] /\ venue'[i] = "canceled"
      BY <1>3 DEF VenueCancel, Quiet, TypeOK
    <2>1. /\ Notify(i, "canceled", venueFilled[i])
          /\ "canceled" \in EventKinds /\ venueFilled[i] \in Lots
      BY <1>3 DEF VenueCancel, EventKinds, TypeOK
    <2>2. ReportIsTrue(<<"canceled", venueFilled[i]>>, venue'[i], venueFilled'[i])
      BY <2>0, <2>1, EventStateFacts DEF ReportIsTrue
    <2>3. VenueMeansDispatched'
      BY <2>0, <2>1, DispatchedNotify DEF VenueStates
    <2>4. EventsTellTruth'
      <3>1. \A e \in EventKinds \X Lots :
               ReportIsTrue(e, venue[i], venueFilled[i]) =>
               ReportIsTrue(e, venue'[i], venueFilled'[i])
        BY <2>0 DEF ReportIsTrue
      <3> QED
        BY <2>0, <2>1, <2>2, <3>1, OutsideNotify DEF TypeOK
    <2>5. VenueFillsComplete'
      BY <2>0 DEF Outside, VenueFillsComplete, TypeOK
    <2> QED
      BY <2>3, <2>4, <2>5 DEF Outside
  <1>4. CASE VenueModify(i)
    <2>0. UNCHANGED <<cache, dispatches, venue, venueFilled>> /\ venue[i] = "open"
      BY <1>4 DEF VenueModify, Quiet, market
    <2>1. Notify(i, "updated", 0) /\ "updated" \in EventKinds /\ 0 \in Lots
      BY <1>4 DEF VenueModify, EventKinds, Lots
    <2>2. ReportIsTrue(<<"updated", 0>>, venue'[i], venueFilled'[i])
      BY <2>0, <2>1, EventStateFacts DEF ReportIsTrue
    <2>3. VenueMeansDispatched'
      <3>1. venue' = [venue EXCEPT ![i] = "open"]
        BY <2>0 DEF TypeOK
      <3> QED
        BY <2>0, <2>1, <3>1, DispatchedNotify DEF VenueStates
    <2>4. EventsTellTruth'
      BY <2>0, <2>1, <2>2, OutsideNotify
    <2>5. VenueFillsComplete'
      BY <2>0 DEF Outside, VenueFillsComplete
    <2> QED
      BY <2>3, <2>4, <2>5 DEF Outside
  <1>5. CASE VenueRefuseCancel(i) \/ VenueRefuseModify(i)
    BY <1>5, OutsideFrame DEF VenueRefuseCancel, VenueRefuseModify, Quiet, market
  <1> QED
    BY <1>1, <1>2, <1>3, <1>4, <1>5 DEF VenueStep

\* Only a hand-over, a delivery, the venue and the ends of the process reach
\* outside; the order handed over was never handed over before.
LEMMA OutsideNext ==
    ASSUME TypeOK, Outside, ThreadKnows, [Next]_vars
    PROVE  Outside'
  <1>1. CASE Dispatch \/ DispatchRaises
    <2>1. cur \in Intents /\ venue[cur] = "none"
      BY <1>1, CallIntent DEF Dispatch, DispatchRaises, ThreadKnows, At
    <2> QED
      BY <1>1, <2>1, OutsideHandOver, OutsideFrame
      DEF Dispatch, DispatchRaises, queues, market
  <1>2. CASE \E i \in Intents : DeliverEvent(i)
    BY <1>2, OutsideDeliver
  <1>3. CASE \E i \in Intents : VenueStep(i)
    BY <1>3, OutsideVenueStep
  <1>4. CASE NodeGone
    BY <1>4, OutsideNodeGone
  <1>5. CASE Restart
    BY <1>5, OutsideRestart
  <1>6. CASE UNCHANGED <<cache, events, venue, venueFilled, dispatches>>
    BY <1>6, OutsideFrame
  <1>7. ASSUME NEW i \in Intents, Call(i) \/ DeliverReply(i)
        PROVE  UNCHANGED <<cache, events, venue, venueFilled, dispatches>>
    BY <1>7 DEF Call, ExecuteAllowed, ExecuteDenied, CancelOrder, ReplaceDenied,
                ReplaceApproved, DeliverReply, Calm, queues, market
  <1>8. ASSUME CallStep, ~ (Dispatch \/ DispatchRaises)
        PROVE  NodeGone \/ UNCHANGED <<cache, events, venue, venueFilled, dispatches>>
    BY <1>8 DEF CallStep, RecordDenial, ApprovalConsumed, ApprovalRefused, RecordRefusal,
                RecordSubmitted, RecordCommandUnknown, CancelDispatch, CancelDispatchRaises,
                RecordReplaceDenied, RecordModify, ModifyDispatch, ModifyDispatchRaises,
                JournalRefuses, FailClosed, Calm, queues, market
  <1>9. ASSUME CancelAll \/ CallRaises \/ MarkStaleSubmissions \/ OperatorKill \/ Tick
                 \/ Crash \/ UNCHANGED vars
        PROVE  NodeGone \/ UNCHANGED <<cache, events, venue, venueFilled, dispatches>>
    BY <1>9 DEF CancelAll, CallRaises, MarkStaleSubmissions, OperatorKill, Tick, Crash,
                FailClosed, vars, queues, market
  <1>10. ASSUME NEW i \in Intents, CallbackRaises(i)
         PROVE  NodeGone
    BY <1>10 DEF CallbackRaises
  <1> QED
    BY <1>1, <1>2, <1>3, <1>4, <1>5, <1>6, <1>7, <1>8, <1>9, <1>10 DEF Next, Callback

-----------------------------------------------------------------------------
(* The journal against the venue                                            *)

\* What the journal says of an order's fills against what the venue knows.
FillsTrue == \A i \in Intents : /\ filled[i] <= venueFilled[i]
                                /\ state[i] = "filled" => filled[i] = Size

Records == WriteAhead /\ SettledIsSettled /\ FillsTrue

\* What the gateway's steps do to the venue besides handing over: nothing, or
\* untransmitted commands lapse with the process.
Lapses == /\ UNCHANGED venueFilled
          /\ \A i \in Intents : \/ venue'[i] = venue[i]
                                \/ venue[i] = "queued" /\ venue'[i] = "lost"

LEMMA FailClosedLapses ==
    ASSUME TypeOK, FailClosed \/ NodeGone \/ Calm \/ UNCHANGED market
    PROVE  Lapses
  BY DEF FailClosed, NodeGone, Calm, market, Lapses, TypeOK

LEMMA RecordsFrame ==
    ASSUME Records, UNCHANGED <<state, filled>>, Lapses
    PROVE  Records'
  <1>1. WriteAhead'
    BY DEF Records, WriteAhead, Journaled, Lapses
  <1>2. SettledIsSettled'
    BY DEF Records, SettledIsSettled, Terminal, Lapses
  <1>3. FillsTrue'
    BY DEF Records, FillsTrue, Lapses
  <1> QED
    BY <1>1, <1>2, <1>3 DEF Records

\* One append keeps the records true when it is not premature: a final state
\* only for an order that is finished, a fill only as large as the real one.
LEMMA RecordsAppend ==
    ASSUME TypeOK, Records, NEW i \in Intents, NEW s, NEW q \in Lots,
           JournalAppend(i, s, q), Lapses,
           s = "pending_submit" => venue[i] = "none",
           s \in TerminalStates => venue[i] \notin {"queued", "sent", "open"},
           q <= venueFilled[i],
           s = "filled" => q = Size
    PROVE  Records'
  <1>0. s \in ExecutionState /\ state \in [Intents -> ExecutionState \cup {"absent"}]
    BY AppendedState DEF JournalAppend, TypeOK, JournalTypeOK
  <1>1. /\ state'[i] = s /\ filled'[i] = q
        /\ \A j \in Intents \ {i} : state'[j] = state[j] /\ filled'[j] = filled[j]
    BY DEF JournalAppend, Put, TypeOK, JournalTypeOK
  <1>2. s # "absent"
    BY <1>0 DEF ExecutionState, PendingStates, TerminalStates
  <1>3. WriteAhead'
    BY <1>1, <1>2 DEF Records, WriteAhead, Journaled, Lapses
  <1>4. SettledIsSettled'
    BY <1>1 DEF Records, SettledIsSettled, Terminal, Lapses
  <1>5. FillsTrue'
    BY <1>1 DEF Records, FillsTrue, Lapses
  <1> QED
    BY <1>3, <1>4, <1>5 DEF Records

\* A non-final, later state without a fill is always a true record.
LEMMA RecordsMild ==
    ASSUME TypeOK, Records, NEW i \in Intents,
           NEW s, s \notin TerminalStates \cup {"pending_submit"},
           JournalAppend(i, s, 0), Lapses
    PROVE  Records'
  <1>1. 0 \in Lots /\ 0 <= venueFilled[i] /\ s # "filled"
    BY DEF Lots, TypeOK, TerminalStates
  <1> QED
    BY <1>1, RecordsAppend

LEMMA RecordsBegin ==
    ASSUME TypeOK, Records, NEW i \in Intents, JournalBegin(i), UNCHANGED market
    PROVE  Records'
  <1>1. /\ state'[i] = "pending_submit" /\ filled'[i] = 0
        /\ \A j \in Intents \ {i} : state'[j] = state[j] /\ filled'[j] = filled[j]
    BY DEF JournalBegin, Put, TypeOK, JournalTypeOK
  <1>2. venue[i] = "none" /\ 0 <= venueFilled[i]
    BY DEF Records, WriteAhead, JournalBegin, TypeOK, Lots
  <1>3. WriteAhead'
    BY <1>1, <1>2 DEF Records, WriteAhead, Journaled, market
  <1>4. SettledIsSettled'
    BY <1>1, <1>2 DEF Records, SettledIsSettled, Terminal, TerminalStates, market
  <1>5. FillsTrue'
    BY <1>1, <1>2 DEF Records, FillsTrue, market
  <1> QED
    BY <1>3, <1>4, <1>5 DEF Records

LEMMA RecordsCallStep ==
    ASSUME TypeOK, ThreadKnows, Records, CallStep
    PROVE  Records'
  <1>1. CASE RecordDenial \/ RecordRefusal
    <2>1. cur \in Intents /\ venue[cur] = "none" /\ JournalAppend(cur, "denied", 0)
      BY <1>1, CallIntent DEF RecordDenial, RecordRefusal, ThreadKnows, At
    <2>2. 0 \in Lots /\ 0 <= venueFilled[cur]
      BY <2>1 DEF Lots, TypeOK
    <2>3. Lapses
      BY <1>1, FailClosedLapses DEF RecordDenial, RecordRefusal
    <2> QED
      BY <2>1, <2>2, <2>3, RecordsAppend
  <1>2. CASE RecordSubmitted \/ RecordCommandUnknown \/ RecordModify
    <2>1. PICK s \in {"submitted", "unknown", "pending_modify"} :
             cur \in Intents /\ JournalAppend(cur, s, 0)
      BY <1>2, CallIntent DEF RecordSubmitted, RecordCommandUnknown, RecordModify
    <2>2. Lapses
      BY <1>2, FailClosedLapses DEF RecordSubmitted, RecordCommandUnknown, RecordModify
    <2> QED
      BY <2>1, <2>2, RecordsMild DEF TerminalStates
  <1>3. CASE RecordReplaceDenied
    <2>1. /\ cur \in Intents /\ JournalAppend(cur, readState, 0)
          /\ readState \notin TerminalStates \cup {"pending_submit"}
      BY <1>3, CallIntent DEF RecordReplaceDenied, ThreadKnows, At
    <2>2. Lapses
      BY <1>3, FailClosedLapses DEF RecordReplaceDenied
    <2> QED
      BY <2>1, <2>2, RecordsMild
  <1>4. CASE (Dispatch \/ DispatchRaises) /\ HandOver(cur)
    <2>0. At("dispatch") /\ UNCHANGED rows
      BY <1>4 DEF Dispatch, DispatchRaises
    <2>1. /\ cur \in Intents /\ venue[cur] = "none"
          /\ Journaled(cur) /\ ~Terminal(cur) /\ state[cur] # "pending_submit"
      BY <2>0, CallIntent DEF ThreadKnows, At
    <2>2. /\ venue' = [venue EXCEPT ![cur] = "queued"]
          /\ UNCHANGED <<state, filled, venueFilled>>
      BY <1>4, <2>0 DEF HandOver, rows
    <2>3. WriteAhead'
      BY <2>1, <2>2 DEF Records, WriteAhead, Journaled, TypeOK
    <2>4. SettledIsSettled'
      BY <2>1, <2>2 DEF Records, SettledIsSettled, Terminal, TypeOK
    <2>5. FillsTrue'
      BY <2>2 DEF Records, FillsTrue
    <2> QED
      BY <2>3, <2>4, <2>5 DEF Records
  <1>5. CASE UNCHANGED rows /\ ~ ((Dispatch \/ DispatchRaises) /\ HandOver(cur))
    <2>1. Lapses
      BY <1>5, FailClosedLapses
      DEF CallStep, RecordDenial, ApprovalConsumed, ApprovalRefused, RecordRefusal,
          RecordSubmitted, RecordCommandUnknown, CancelDispatch, CancelDispatchRaises,
          RecordReplaceDenied, RecordModify, ModifyDispatch, ModifyDispatchRaises,
          Dispatch, DispatchRaises, JournalRefuses
    <2> QED
      BY <1>5, <2>1, RecordsFrame DEF rows
  <1> QED
    BY <1>1, <1>2, <1>3, <1>4, <1>5
    DEF CallStep, ApprovalConsumed, ApprovalRefused, CancelDispatch, CancelDispatchRaises,
        ModifyDispatch, ModifyDispatchRaises, Dispatch, DispatchRaises, JournalRefuses

LEMMA RecordsDeliver ==
    ASSUME TypeOK, Outside, Records, NEW i \in Intents, DeliverEvent(i)
    PROVE  Records'
  <1> DEFINE e == Head(events[i])
  <1>1. /\ e \in EventKinds \X Lots
        /\ JournalAppend(i, EventState(e), EventFilled(e)) /\ UNCHANGED market
    BY QueueType DEF DeliverEvent, TypeOK
  <1>2. ReportIsTrue(e, venue[i], venueFilled[i]) /\ venue[i] # "none"
    <2>1. events[i] # << >> /\ events[i] \in Seq(EventKinds \X Lots)
      BY DEF DeliverEvent, TypeOK
    <2>2. e = events[i][1] /\ 1 \in DOMAIN events[i]
      BY <2>1
    <2> QED
      BY <2>1, <2>2 DEF Outside, EventsTellTruth, VenueMeansDispatched
  <1>3. EventFilled(e) \in Lots /\ EventFilled(e) <= venueFilled[i]
    BY <1>1, <1>2 DEF EventFilled, ReportIsTrue, Lots, TypeOK
  <1>4. EventState(e) = "filled" => EventFilled(e) = Size
    BY <1>1 DEF EventState, EventFilled, EventKinds
  <1>5. EventState(e) \in TerminalStates => venue[i] \notin {"queued", "sent", "open"}
    BY <1>2 DEF ReportIsTrue, TerminalStates
  <1>6. EventState(e) # "pending_submit"
    BY <1>1 DEF EventState, EventKinds
  <1>7. Lapses
    BY <1>1, FailClosedLapses
  <1> QED
    BY <1>1, <1>3, <1>4, <1>5, <1>6, <1>7, RecordsAppend

LEMMA RecordsVenueStep ==
    ASSUME TypeOK, Records, NEW i \in Intents, VenueStep(i)
    PROVE  Records'
  <1>0. UNCHANGED <<state, filled>>
    BY DEF VenueStep, Transmit, NautilusDeny, VenueAccept, VenueReject, Move, VenueFill,
           VenueCancel, VenueRefuseCancel, VenueModify, VenueRefuseModify, Quiet, rows
  <1>1. CASE UNCHANGED market
    BY <1>0, <1>1, FailClosedLapses, RecordsFrame
  <1>2. CASE ~ UNCHANGED market
    <2>1. /\ venue[i] \in {"queued", "sent", "open"}
          /\ \A j \in Intents \ {i} : venue'[j] = venue[j] /\ venueFilled'[j] = venueFilled[j]
          /\ venueFilled'[i] >= venueFilled[i]
      BY <1>2 DEF VenueStep, Transmit, NautilusDeny, VenueAccept, VenueReject, Move, VenueFill,
           VenueCancel, VenueRefuseCancel, VenueModify, VenueRefuseModify, market, TypeOK, Lots
    <2>2. WriteAhead'
      BY <1>0, <2>1 DEF Records, WriteAhead, Journaled
    <2>3. SettledIsSettled'
      BY <1>0, <2>1 DEF Records, SettledIsSettled, Terminal
    <2>4. FillsTrue'
      <3>1. filled[i] \in Lots /\ venueFilled[i] \in Lots
        BY DEF TypeOK, JournalTypeOK, Lots
      <3>2. venueFilled'[i] \in Int
        BY <1>2 DEF VenueStep, Transmit, NautilusDeny, VenueAccept, VenueReject, Move,
                    VenueFill, VenueCancel, VenueRefuseCancel, VenueModify,
                    VenueRefuseModify, market, TypeOK, Lots
      <3>3. filled[i] <= venueFilled'[i]
        BY <2>1, <3>1, <3>2 DEF Records, FillsTrue, Lots
      <3> QED
        BY <1>0, <2>1, <3>3 DEF Records, FillsTrue
    <2> QED
      BY <2>2, <2>3, <2>4 DEF Records
  <1> QED
    BY <1>1, <1>2

\* Marking a command UNKNOWN is never a final record.
LEMMA RecordsStale ==
    ASSUME TypeOK, Records, StaleMarked, UNCHANGED market
    PROVE  Records'
  <1>1. \A i \in Intents : \/ state'[i] = state[i]
                           \/ state'[i] = "unknown" /\ state[i] \in PendingStates
    BY DEF StaleMarked, Stale
  <1>2. WriteAhead'
    BY <1>1 DEF Records, WriteAhead, Journaled, PendingStates, market
  <1>3. SettledIsSettled'
    BY <1>1 DEF Records, SettledIsSettled, Terminal, TerminalStates, market
  <1>4. FillsTrue'
    BY <1>1 DEF Records, FillsTrue, StaleMarked, market
  <1> QED
    BY <1>2, <1>3, <1>4 DEF Records

LEMMA RecordsNext ==
    ASSUME TypeOK, Outside, ThreadKnows, Records, [Next]_vars
    PROVE  Records'
  <1>1. CASE CallStep
    BY <1>1, RecordsCallStep
  <1>2. CASE \E i \in Intents : DeliverEvent(i)
    BY <1>2, RecordsDeliver
  <1>3. CASE \E i \in Intents : VenueStep(i)
    BY <1>3, RecordsVenueStep
  <1>4. CASE MarkStaleSubmissions \/ Restart
    BY <1>4, RecordsStale DEF MarkStaleSubmissions, MarkStale, Restart, market
  <1>5. CASE \E i \in Intents : ExecuteAllowed(i) \/ ExecuteDenied(i)
    BY <1>5, RecordsBegin DEF ExecuteAllowed, ExecuteDenied, Calm
  <1>6. CASE \E i \in Intents : CancelOrder(i) \/ DeliverReply(i)
    <2>1. PICK i \in Intents, s \in {"pending_cancel", "accepted"} : JournalAppend(i, s, 0)
      BY <1>6 DEF CancelOrder, DeliverReply
    <2>2. Lapses
      BY <1>6, FailClosedLapses DEF CancelOrder, DeliverReply
    <2> QED
      BY <2>1, <2>2, RecordsMild DEF TerminalStates
  <1>7. CASE UNCHANGED <<state, filled>> /\ (NodeGone \/ UNCHANGED market)
    BY <1>7, FailClosedLapses, RecordsFrame
  <1>8. ASSUME NEW i \in Intents, ReplaceDenied(i) \/ ReplaceApproved(i) \/ CallbackRaises(i)
        PROVE  UNCHANGED <<state, filled>> /\ (NodeGone \/ UNCHANGED market)
    BY <1>8 DEF ReplaceDenied, ReplaceApproved, CallbackRaises, Calm, rows
  <1>9. ASSUME CancelAll \/ CallRaises \/ OperatorKill \/ Tick \/ Crash \/ UNCHANGED vars
        PROVE  UNCHANGED <<state, filled>> /\ (NodeGone \/ UNCHANGED market)
    BY <1>9 DEF CancelAll, CallRaises, OperatorKill, Tick, Elapse, Crash, FailClosed, vars, rows
  <1> QED
    BY <1>1, <1>2, <1>3, <1>4, <1>5, <1>6, <1>7, <1>8, <1>9 DEF Next, Call, Callback

-----------------------------------------------------------------------------
(* The journal against the reports that wait                                *)

IsFill(e) == e[1] = "fill"

\* The fills of a queue in their order, none below what is recorded.
InOrder(q) == \A j, k \in DOMAIN q : j < k /\ IsFill(q[j]) /\ IsFill(q[k]) => q[j][2] <= q[k][2]
NoneBelow(q, recorded) == \A k \in DOMAIN q : IsFill(q[k]) => recorded <= q[k][2]

ReportsFollow == \A i \in Intents : InOrder(events[i]) /\ NoneBelow(events[i], filled[i])

LEMMA ReportsAgain ==
    ReportsFollow <=> /\ FillsComeInOrder
                      /\ \A i \in Intents : NoneBelow(events[i], filled[i])
  BY DEF ReportsFollow, FillsComeInOrder, InOrder, NoneBelow, IsFill

\* A queue nobody added to, and a record that was kept or overwritten with zero.
LEMMA QueueKept ==
    ASSUME NEW q \in Seq(EventKinds \X Lots), NEW recorded, InOrder(q), NoneBelow(q, recorded),
           NEW r \in {recorded, 0}
    PROVE  InOrder(q) /\ NoneBelow(q, r)
  <1>1. \A k \in DOMAIN q : q[k][2] \in Nat
    BY DEF Lots
  <1> QED
    BY <1>1 DEF NoneBelow

\* The first report is taken: a fill is recorded, anything else records zero.
LEMMA QueueTaken ==
    ASSUME NEW q \in Seq(EventKinds \X Lots), q # <<>>, InOrder(q)
    PROVE  InOrder(Tail(q)) /\ NoneBelow(Tail(q), EventFilled(Head(q)))
  <1>1. /\ Len(q) \in Nat /\ Len(q) > 0 /\ DOMAIN q = 1 .. Len(q)
        /\ \A k \in DOMAIN q : q[k][2] \in Nat
    BY DEF Lots
  <1>2. DOMAIN Tail(q) = 1 .. Len(q) - 1 /\ \A k \in DOMAIN Tail(q) : Tail(q)[k] = q[k + 1]
    BY <1>1
  <1>3. Head(q) = q[1]
    BY <1>1
  <1>4. InOrder(Tail(q))
    <2> SUFFICES ASSUME NEW j \in DOMAIN Tail(q), NEW k \in DOMAIN Tail(q), j < k,
                        IsFill(Tail(q)[j]), IsFill(Tail(q)[k])
                 PROVE  Tail(q)[j][2] <= Tail(q)[k][2]
      BY DEF InOrder
    <2>1. j + 1 \in DOMAIN q /\ k + 1 \in DOMAIN q /\ j + 1 < k + 1
      BY <1>1, <1>2
    <2> QED
      BY <1>2, <2>1 DEF InOrder
  <1>5. ASSUME NEW k \in DOMAIN Tail(q), IsFill(Tail(q)[k])
        PROVE  EventFilled(Head(q)) <= Tail(q)[k][2]
    <2>1. 1 \in DOMAIN q /\ k + 1 \in DOMAIN q /\ 1 < k + 1 /\ Tail(q)[k] = q[k + 1]
      BY <1>1, <1>2
    <2>2. CASE IsFill(q[1])
      BY <1>3, <1>5, <2>1, <2>2 DEF InOrder, EventFilled, IsFill
    <2>3. CASE ~ IsFill(q[1])
      BY <1>1, <1>3, <2>1, <2>3 DEF EventFilled, IsFill
    <2> QED
      BY <2>2, <2>3
  <1> QED
    BY <1>4, <1>5 DEF NoneBelow

\* A report is added: a fill no smaller than all before it and than the record.
LEMMA QueueGrows ==
    ASSUME NEW q \in Seq(EventKinds \X Lots), NEW recorded, InOrder(q), NoneBelow(q, recorded),
           NEW e \in EventKinds \X Lots,
           IsFill(e) => recorded <= e[2] /\ \A k \in DOMAIN q : IsFill(q[k]) => q[k][2] <= e[2]
    PROVE  InOrder(Append(q, e)) /\ NoneBelow(Append(q, e), recorded)
  <1> DEFINE r == Append(q, e)
  <1>1. /\ Len(q) \in Nat /\ DOMAIN q = 1 .. Len(q) /\ DOMAIN r = 1 .. Len(q) + 1
        /\ \A k \in DOMAIN q : r[k] = q[k]
        /\ r[Len(q) + 1] = e
    OBVIOUS
  <1> HIDE DEF r
  <1>2. \A k \in DOMAIN r : k \in DOMAIN q \/ k = Len(q) + 1
    BY <1>1
  <1>3. \A j, k \in DOMAIN r : j < k => j \in DOMAIN q
    BY <1>1
  <1>4. InOrder(r)
    BY <1>1, <1>2, <1>3 DEF InOrder
  <1>5. NoneBelow(r, recorded)
    BY <1>1, <1>2 DEF NoneBelow
  <1> QED
    BY <1>4, <1>5 DEF r

\* One report, or none, is in order.
LEMMA QueueOfOne ==
    ASSUME NEW q, DOMAIN q \subseteq {1}, NEW recorded,
           1 \in DOMAIN q /\ IsFill(q[1]) => recorded <= q[1][2]
    PROVE  InOrder(q) /\ NoneBelow(q, recorded)
  <1>1. \A j, k \in DOMAIN q : ~ (j < k)
    OBVIOUS
  <1> QED
    BY <1>1 DEF InOrder, NoneBelow

\* The venue reports a fill with all that is filled by then.
LEMMA ReportsVenueStep ==
    ASSUME TypeOK, Outside, Records, ReportsFollow, NEW i \in Intents, VenueStep(i)
    PROVE  ReportsFollow'
  <1>1. UNCHANGED filled
    BY DEF VenueStep, Transmit, NautilusDeny, VenueAccept, VenueReject, Move, VenueFill,
           VenueCancel, VenueRefuseCancel, VenueModify, VenueRefuseModify, Quiet, rows
  <1>2. CASE UNCHANGED events
    BY <1>1, <1>2 DEF ReportsFollow
  <1>3. ASSUME NEW e \in EventKinds \X Lots, Notify(i, e[1], e[2]), IsFill(e) => venueFilled[i] <= e[2]
        PROVE  ReportsFollow'
    <2>1. /\ events[i] \in Seq(EventKinds \X Lots) /\ e = <<e[1], e[2]>>
          /\ filled[i] \in Nat /\ venueFilled[i] \in Nat /\ e[2] \in Nat
          /\ \A k \in DOMAIN events[i] : events[i][k][2] \in Nat
      <3>1. events[i] \in Seq(EventKinds \X Lots) /\ filled[i] \in Nat /\ venueFilled[i] \in Nat
        BY DEF TypeOK, JournalTypeOK, Lots
      <3>2. \A k \in DOMAIN events[i] : events[i][k] \in EventKinds \X Lots
        BY <3>1
      <3> QED
        BY <3>1, <3>2 DEF Lots
    <2>2. IsFill(e) => filled[i] <= e[2]
      BY <1>3, <2>1 DEF Records, FillsTrue
    <2>3. IsFill(e) => \A k \in DOMAIN events[i] : IsFill(events[i][k]) => events[i][k][2] <= e[2]
      BY <1>3, <2>1 DEF Outside, EventsTellTruth, ReportIsTrue, IsFill
    <2>4. events'[i] = events[i] \/ events'[i] = Append(events[i], e)
      BY <1>3, <2>1 DEF Notify, TypeOK
    <2>5. \A j \in Intents \ {i} : events'[j] = events[j]
      BY <1>3 DEF Notify, TypeOK
    <2>6. InOrder(Append(events[i], e)) /\ NoneBelow(Append(events[i], e), filled[i])
      BY <2>1, <2>2, <2>3, QueueGrows DEF ReportsFollow
    <2> QED
      BY <1>1, <2>4, <2>5, <2>6 DEF ReportsFollow
  <1>4. CASE Transmit(i) \/ NautilusDeny(i) \/ VenueAccept(i) \/ VenueReject(i) \/ VenueModify(i)
    <2>1. PICK kind \in {"submitted", "denied", "accepted", "rejected", "updated"} :
              Notify(i, kind, 0)
      BY <1>4 DEF Transmit, NautilusDeny, VenueAccept, VenueReject, Move, VenueModify
    <2> DEFINE e == <<kind, 0>>
    <2>2. e \in EventKinds \X Lots /\ e[1] = kind /\ e[2] = 0 /\ ~ IsFill(e)
      BY DEF EventKinds, Lots, IsFill
    <2> QED
      BY <1>3, <2>1, <2>2
  <1>5. CASE VenueCancel(i)
    <2> DEFINE e == <<"canceled", venueFilled[i]>>
    <2>1. e \in EventKinds \X Lots /\ e[1] = "canceled" /\ e[2] = venueFilled[i] /\ ~ IsFill(e)
      BY DEF EventKinds, TypeOK, IsFill
    <2> QED
      BY <1>3, <1>5, <2>1 DEF VenueCancel
  <1>6. CASE VenueFill(i)
    <2> DEFINE e == <<"fill", venueFilled'[i]>>
    <2>1. venueFilled'[i] = venueFilled[i] + 1 /\ venueFilled'[i] \in Lots /\ venueFilled[i] \in Nat
      BY <1>6 DEF VenueFill, TypeOK, Lots, Outside, VenueFillsComplete
    <2>2. e \in EventKinds \X Lots /\ e[1] = "fill" /\ e[2] = venueFilled'[i]
      BY <2>1 DEF EventKinds
    <2>3. venueFilled[i] <= e[2]
      BY <2>1, <2>2
    <2> HIDE DEF e
    <2> QED
      BY <1>3, <1>6, <2>2, <2>3 DEF VenueFill
  <1>7. CASE VenueRefuseCancel(i) \/ VenueRefuseModify(i)
    BY <1>2, <1>7 DEF VenueRefuseCancel, VenueRefuseModify
  <1> QED
    BY <1>4, <1>5, <1>6, <1>7 DEF VenueStep

\* Reconciliation reports what the venue filled, whatever is recorded of it.
LEMMA ReportsRestart ==
    ASSUME TypeOK, Outside, Records, Restart
    PROVE  ReportsFollow'
  <1> SUFFICES ASSUME NEW i \in Intents
               PROVE  InOrder(events'[i]) /\ NoneBelow(events'[i], filled'[i])
    BY DEF ReportsFollow
  <1>1. events'[i] = Reconciled(i) /\ filled'[i] = filled[i]
    BY DEF Restart, StaleMarked
  <1>2. /\ filled[i] \in Nat /\ venueFilled[i] \in Nat /\ Size \in Nat
        /\ filled[i] <= venueFilled[i] /\ venueFilled[i] <= Size
    BY DEF TypeOK, JournalTypeOK, Lots, Records, FillsTrue
  <1>3. \/ Reconciled(i) = <<>>
        \/ \E e \in {<<"accepted", 0>>, <<"fill", venueFilled[i]>>, <<"fill", Size>>,
                     <<"canceled", venueFilled[i]>>, <<"rejected", 0>>} : Reconciled(i) = <<e>>
    BY DEF Reconciled
  <1>4. CASE Reconciled(i) = <<>>
    <2>1. DOMAIN events'[i] = {}
      BY <1>1, <1>4
    <2> QED
      BY <2>1, QueueOfOne
  <1>5. ASSUME NEW e, e[1] = "fill" => filled[i] <= e[2], Reconciled(i) = <<e>>
        PROVE  InOrder(events'[i]) /\ NoneBelow(events'[i], filled'[i])
    <2>1. DOMAIN events'[i] = {1} /\ events'[i][1] = e
      BY <1>1, <1>5
    <2> QED
      BY <1>1, <1>5, <2>1, QueueOfOne DEF IsFill
  <1> QED
    BY <1>2, <1>3, <1>4, <1>5

\* Besides a delivery, a report and a restart, the queue is kept or gone with the
\* process, and a record is kept or overwritten with zero.
LEMMA ReportsKept ==
    ASSUME TypeOK, ReportsFollow,
           \A i \in Intents : events'[i] = events[i] \/ events'[i] = <<>>,
           \A i \in Intents : filled'[i] \in {filled[i], 0}
    PROVE  ReportsFollow'
  <1> SUFFICES ASSUME NEW i \in Intents
               PROVE  InOrder(events'[i]) /\ NoneBelow(events'[i], filled'[i])
    BY DEF ReportsFollow
  <1>1. CASE events'[i] = <<>>
    <2>1. DOMAIN events'[i] = {}
      BY <1>1
    <2> QED
      BY <2>1, QueueOfOne
  <1>2. CASE events'[i] = events[i]
    <2>1. events[i] \in Seq(EventKinds \X Lots)
      BY DEF TypeOK
    <2> QED
      BY <1>2, <2>1, QueueKept DEF ReportsFollow
  <1> QED
    BY <1>1, <1>2

LEMMA ReportsDeliver ==
    ASSUME TypeOK, ReportsFollow, NEW i \in Intents, DeliverEvent(i)
    PROVE  ReportsFollow'
  <1>1. /\ events[i] \in Seq(EventKinds \X Lots) /\ events[i] # <<>>
        /\ events'[i] = Tail(events[i]) /\ filled'[i] = EventFilled(Head(events[i]))
        /\ \A j \in Intents \ {i} : events'[j] = events[j] /\ filled'[j] = filled[j]
    BY DEF DeliverEvent, TypeOK, JournalAppend, Put, JournalTypeOK
  <1>2. InOrder(events'[i]) /\ NoneBelow(events'[i], filled'[i])
    BY <1>1, QueueTaken DEF ReportsFollow
  <1> QED
    BY <1>1, <1>2 DEF ReportsFollow

LEMMA ReportsNext ==
    ASSUME TypeOK, Outside, Records, ReportsFollow, [Next]_vars
    PROVE  ReportsFollow'
  <1> DEFINE QueueStays == \A i \in Intents : events'[i] = events[i] \/ events'[i] = <<>>
             RecordStays == \A i \in Intents : filled'[i] \in {filled[i], 0}
  <1>1. CASE \E i \in Intents : DeliverEvent(i)
    BY <1>1, ReportsDeliver
  <1>2. CASE \E i \in Intents : VenueStep(i)
    BY <1>2, ReportsVenueStep
  <1>3. CASE Restart
    BY <1>3, ReportsRestart
  <1>4. ASSUME \/ \E i \in Intents : Call(i) \/ DeliverReply(i) \/ CallbackRaises(i)
               \/ CallStep \/ CancelAll \/ CallRaises \/ MarkStaleSubmissions \/ OperatorKill
               \/ Tick \/ Crash \/ UNCHANGED vars
        PROVE  QueueStays /\ RecordStays
    <2>1. NodeGone \/ UNCHANGED events => QueueStays
      BY DEF NodeGone
    <2>2. ASSUME \/ UNCHANGED filled
                 \/ \E i \in Intents : JournalBegin(i) \/ \E s : JournalAppend(i, s, 0)
          PROVE  RecordStays
      BY <2>2 DEF JournalBegin, JournalAppend, Put, TypeOK, JournalTypeOK
    <2>3. CASE \E i \in Intents : Call(i) \/ DeliverReply(i) \/ CallbackRaises(i)
      <3>1. NodeGone \/ UNCHANGED events
        BY <2>3 DEF Call, ExecuteAllowed, ExecuteDenied, CancelOrder, ReplaceDenied,
                    ReplaceApproved, DeliverReply, CallbackRaises, Calm, queues
      <3>2. \/ UNCHANGED filled
            \/ \E i \in Intents : JournalBegin(i) \/ \E s : JournalAppend(i, s, 0)
        BY <2>3 DEF Call, ExecuteAllowed, ExecuteDenied, CancelOrder, ReplaceDenied,
                    ReplaceApproved, DeliverReply, CallbackRaises, rows
      <3> QED
        BY <2>1, <2>2, <3>1, <3>2
    <2>4. CASE CallStep
      <3>1. NodeGone \/ UNCHANGED events
        BY <2>4 DEF CallStep, RecordDenial, ApprovalConsumed, ApprovalRefused, RecordRefusal,
                RecordSubmitted, Dispatch, DispatchRaises, HandOver, RecordCommandUnknown,
                CancelDispatch, CancelDispatchRaises, RecordReplaceDenied, RecordModify,
                ModifyDispatch, ModifyDispatchRaises, JournalRefuses, FailClosed, Calm, queues
      <3>2. UNCHANGED filled \/ \E s : cur \in Intents /\ JournalAppend(cur, s, 0)
        BY <2>4, CallIntent
        DEF CallStep, RecordDenial, ApprovalConsumed, ApprovalRefused, RecordRefusal,
            RecordSubmitted, Dispatch, DispatchRaises, RecordCommandUnknown,
            CancelDispatch, CancelDispatchRaises, RecordReplaceDenied, RecordModify,
            ModifyDispatch, ModifyDispatchRaises, JournalRefuses, rows
      <3> QED
        BY <2>1, <2>2, <3>1, <3>2
    <2>5. CASE CancelAll \/ CallRaises \/ MarkStaleSubmissions \/ OperatorKill \/ Tick \/ Crash
                 \/ UNCHANGED vars
      <3>1. NodeGone \/ UNCHANGED events
        BY <2>5 DEF CancelAll, CallRaises, MarkStaleSubmissions, OperatorKill, Tick, Crash,
                    FailClosed, vars, queues
      <3>2. UNCHANGED filled
        BY <2>5 DEF CancelAll, CallRaises, MarkStaleSubmissions, MarkStale, StaleMarked,
                    OperatorKill, Tick, Elapse, Crash, vars, rows
      <3> QED
        BY <2>1, <2>2, <3>1, <3>2
    <2> QED
      BY <1>4, <2>3, <2>4, <2>5
  <1>5. QueueStays /\ RecordStays => ReportsFollow'
    BY ReportsKept
  <1> HIDE DEF QueueStays, RecordStays
  <1> QED
    BY <1>1, <1>2, <1>3, <1>4, <1>5 DEF Next, Callback

-----------------------------------------------------------------------------
(* What the event-loop thread knows between two transactions                *)

\* A thread that is not inside a call has nothing to know.
LEMMA ThreadIdle ==
    ASSUME pc' = "idle"
    PROVE  ThreadKnows'
  BY DEF ThreadKnows

LEMMA ThreadFrame ==
    ASSUME ThreadKnows, UNCHANGED <<up, pc, cur, readState, state, venue>>
    PROVE  ThreadKnows'
  BY DEF ThreadKnows, Journaled, Terminal, UnresolvedCount

LEMMA ThreadCall ==
    ASSUME TypeOK, Outside, Records, NEW i \in Intents, Call(i)
    PROVE  ThreadKnows'
  <1>0. state \in [Intents -> ExecutionState \cup {"absent"}]
    BY DEF TypeOK, JournalTypeOK
  <1>1. CASE ExecuteAllowed(i) \/ ExecuteDenied(i)
    <2>1. JournalBegin(i) /\ UNCHANGED <<up, venue>> /\ up
      BY <1>1 DEF ExecuteAllowed, ExecuteDenied, Calm, market, Free
    <2>2. venue[i] = "none"
      BY <2>1 DEF JournalBegin, Records, WriteAhead
    <2>3. state'[i] = "pending_submit"
      BY <1>0, <2>1 DEF JournalBegin, Put
    <2>4. pc' \in {"reserved", "deny"} /\ cur' = i
      BY <1>1 DEF ExecuteAllowed, ExecuteDenied, GoTo
    <2> QED
      BY <2>1, <2>2, <2>3, <2>4 DEF ThreadKnows
  <1>2. ASSUME Commandable(i)
        PROVE  Journaled(i) /\ ~Terminal(i) /\ state[i] # "pending_submit"
    BY <1>2 DEF Commandable, Outside, VenueMeansDispatched, Records, WriteAhead
  <1>3. CASE CancelOrder(i)
    <2>1. state'[i] = "pending_cancel" /\ pc' = "cancel_dispatch" /\ cur' = i /\ up'
      BY <1>0, <1>3 DEF CancelOrder, JournalAppend, Put, GoTo, Commandable, Free, Calm
    <2> QED
      BY <2>1 DEF ThreadKnows, Journaled, Terminal, TerminalStates
  <1>4. CASE ReplaceDenied(i) \/ ReplaceApproved(i)
    <2>1. Commandable(i) /\ cur' = i /\ up' /\ UNCHANGED state
      BY <1>4 DEF ReplaceDenied, ReplaceApproved, GoTo, Commandable, Free, Calm, rows
    <2>2. \/ pc' = "replace_denied" /\ readState' = state[i]
          \/ pc' = "modify_approved"
      BY <1>4 DEF ReplaceDenied, ReplaceApproved, GoTo
    <2> QED
      BY <1>2, <2>1, <2>2 DEF ThreadKnows, Journaled, Terminal
  <1> QED
    BY <1>1, <1>3, <1>4 DEF Call

LEMMA ThreadCallStep ==
    ASSUME TypeOK, ThreadKnows, CallStep
    PROVE  ThreadKnows'
  <1>0. state \in [Intents -> ExecutionState \cup {"absent"}]
    BY DEF TypeOK, JournalTypeOK
  <1>1. CASE RecordDenial \/ Dispatch \/ CancelDispatch \/ RecordReplaceDenied
               \/ ModifyDispatch \/ RecordRefusal \/ RecordCommandUnknown \/ JournalRefuses
    BY <1>1, ThreadIdle
    DEF RecordDenial, Dispatch, CancelDispatch, RecordReplaceDenied, ModifyDispatch,
        RecordRefusal, RecordCommandUnknown, JournalRefuses, FailClosed, NodeGone,
        Return, GoTo
  <1>2. CASE ApprovalConsumed \/ ApprovalRefused
    BY <1>2 DEF ApprovalConsumed, ApprovalRefused, At, GoTo, Calm, market, rows,
                ThreadKnows, Journaled, Terminal, UnresolvedCount
  <1>3. CASE RecordSubmitted
    <2>1. cur \in Intents /\ venue[cur] = "none"
      BY <1>3, CallIntent DEF RecordSubmitted, ThreadKnows, At
    <2>2. state'[cur] = "submitted" /\ pc' = "dispatch" /\ cur' = cur /\ up' /\ venue' = venue
      BY <1>0, <1>3, <2>1 DEF RecordSubmitted, JournalAppend, Put, GoTo, At, Calm, market
    <2> QED
      BY <2>1, <2>2 DEF ThreadKnows, Journaled, Terminal, TerminalStates
  <1>4. CASE RecordModify
    <2>1. cur \in Intents
      BY <1>4, CallIntent DEF RecordModify
    <2>2. state'[cur] = "pending_modify" /\ pc' = "modify_dispatch" /\ cur' = cur /\ up'
      BY <1>0, <1>4, <2>1 DEF RecordModify, JournalAppend, Put, GoTo, At, Calm
    <2> QED
      BY <2>1, <2>2 DEF ThreadKnows, Journaled, Terminal, TerminalStates
  <1>5. CASE DispatchRaises \/ CancelDispatchRaises \/ ModifyDispatchRaises
    <2>1. Journaled(cur) /\ ~Terminal(cur) /\ state[cur] # "pending_submit" /\ up
      BY <1>5 DEF DispatchRaises, CancelDispatchRaises, ModifyDispatchRaises, At, ThreadKnows
    <2>2. pc' = "command_failed" /\ cur' = cur /\ UNCHANGED <<up, state>>
      BY <1>5 DEF DispatchRaises, CancelDispatchRaises, ModifyDispatchRaises, GoTo, rows
    <2> QED
      BY <2>1, <2>2 DEF ThreadKnows, Journaled, Terminal
  <1> QED
    BY <1>1, <1>2, <1>3, <1>4, <1>5 DEF CallStep

\* The heartbeat thread only turns pending commands UNKNOWN: the commands
\* without an outcome stay the same ones.
LEMMA StaleUnresolved ==
    ASSUME TypeOK, StaleMarked
    PROVE  /\ UNCHANGED UnresolvedCount
           /\ \A i \in Intents : \/ state'[i] = state[i]
                                 \/ state'[i] = "unknown" /\ state[i] \in PendingStates
  <1>1. \A i \in Intents : \/ state'[i] = state[i]
                           \/ state'[i] = "unknown" /\ state[i] \in PendingStates
    BY DEF StaleMarked, Stale
  <1>2. {i \in Intents : state'[i] \in PendingStates \cup {"unknown"}}
          = {i \in Intents : state[i] \in PendingStates \cup {"unknown"}}
    BY <1>1
  <1> QED
    BY <1>1, <1>2 DEF UnresolvedCount

LEMMA ThreadStale ==
    ASSUME TypeOK, ThreadKnows, MarkStaleSubmissions
    PROVE  ThreadKnows'
  <1>1. StaleMarked /\ UNCHANGED <<up, pc, cur, readState, venue>>
    BY DEF MarkStaleSubmissions, MarkStale, thread, market
  <1>2. CASE pc = "idle"
    BY <1>1, <1>2, ThreadIdle
  <1>3. CASE pc # "idle"
    <2>1. cur \in Intents
      BY <1>3 DEF TypeOK
    <2>2. \/ state'[cur] = state[cur]
          \/ state'[cur] = "unknown" /\ state[cur] \in PendingStates
      BY <1>1, <2>1, StaleUnresolved
    <2>3. UnresolvedCount' = UnresolvedCount
      BY <1>1, StaleUnresolved
    <2> QED
      BY <1>1, <2>2, <2>3
      DEF ThreadKnows, Journaled, Terminal, TerminalStates, PendingStates
  <1> QED
    BY <1>2, <1>3

\* The venue moves only orders it has been handed.
LEMMA ThreadVenueStep ==
    ASSUME TypeOK, ThreadKnows, NEW i \in Intents, VenueStep(i)
    PROVE  ThreadKnows'
  <1>1. UNCHANGED <<up, pc, cur, readState, state>>
    BY DEF VenueStep, Transmit, NautilusDeny, VenueAccept, VenueReject, Move, VenueFill,
           VenueCancel, VenueRefuseCancel, VenueModify, VenueRefuseModify, Quiet, rows, thread
  <1>2. \A j \in Intents : venue[j] = "none" => venue'[j] = "none"
    BY DEF VenueStep, Transmit, NautilusDeny, VenueAccept, VenueReject, Move, VenueFill,
           VenueCancel, VenueRefuseCancel, VenueModify, VenueRefuseModify, market, TypeOK
  <1>3. CASE pc = "idle"
    BY <1>1, <1>3, ThreadIdle
  <1>4. CASE pc # "idle"
    <2>1. cur \in Intents
      BY <1>4 DEF TypeOK
    <2> QED
      BY <1>1, <1>2, <2>1 DEF ThreadKnows, Journaled, Terminal, UnresolvedCount
  <1> QED
    BY <1>3, <1>4

LEMMA ThreadNext ==
    ASSUME TypeOK, Outside, ThreadKnows, Records, [Next]_vars
    PROVE  ThreadKnows'
  <1>1. ASSUME NEW i \in Intents, Callback(i)
        PROVE  pc' = "idle"
    BY <1>1 DEF Callback, DeliverEvent, DeliverReply, CallbackRaises, Free, thread,
                NodeGone, Return, GoTo
  <1>2. ASSUME CallRaises \/ Crash
        PROVE  pc' = "idle"
    BY <1>2 DEF CallRaises, Crash, FailClosed, NodeGone, Return, GoTo
  <1>3. ASSUME Restart
        PROVE  pc' = "idle"
    BY <1>3 DEF Restart, thread, ThreadKnows
  <1>4. CASE CancelAll \/ OperatorKill \/ Tick \/ UNCHANGED vars
    BY <1>4, ThreadFrame DEF CancelAll, OperatorKill, Tick, Elapse, vars, rows, thread, market
  <1> QED
    BY <1>1, <1>2, <1>3, <1>4, ThreadIdle, ThreadCall, ThreadCallStep, ThreadStale,
       ThreadVenueStep DEF Next

-----------------------------------------------------------------------------
(* The limit on commands in flight                                          *)

Submitted == {i \in Intents : state[i] = "submitted"}

LEMMA Fewer ==
    ASSUME NEW T \in SUBSET Intents, NEW S \in SUBSET T
    PROVE  /\ Cardinality(S) <= Cardinality(T)
           /\ Cardinality(S) \in Nat /\ Cardinality(T) \in Nat
  <1>1. IsFiniteSet(T) /\ IsFiniteSet(S)
    BY FS_Subset DEF JournalAssumption
  <1> QED
    BY <1>1, FS_Subset, FS_CardinalityType

\* A step that submits nothing new keeps the limit.
LEMMA LimitKept ==
    ASSUME SubmissionsBelowLimit, Submitted' \subseteq Submitted
    PROVE  SubmissionsBelowLimit'
  <1>1. Cardinality(Submitted') <= Cardinality(Submitted)
    BY Fewer DEF Submitted
  <1>2. Cardinality(Submitted') \in Nat /\ Cardinality(Submitted) \in Nat
    BY Fewer DEF Submitted
  <1> QED
    BY <1>1, <1>2 DEF SubmissionsBelowLimit, Submitted, GatewayAssumption

\* Appending to a row that was never a reservation submits nothing new.
LEMMA LimitAppend ==
    ASSUME TypeOK, NEW i \in Intents, NEW s, NEW q, JournalAppend(i, s, q),
           s = "submitted" => state[i] # "pending_submit"
    PROVE  Submitted' \subseteq Submitted
  <1>1. /\ state'[i] = s
        /\ \A j \in Intents \ {i} : state'[j] = state[j]
    BY DEF JournalAppend, Put, TypeOK, JournalTypeOK
  <1>2. state[i] \in ExecutionState
    BY AppendedState DEF JournalAppend, TypeOK
  <1>3. s = "submitted" => state[i] = "submitted"
    BY <1>2, TransitionFacts DEF JournalAppend, CanAppend
  <1> QED
    BY <1>1, <1>3 DEF Submitted

LEMMA LimitNext ==
    ASSUME TypeOK, Outside, ThreadKnows, Records, SubmissionsBelowLimit, [Next]_vars
    PROVE  SubmissionsBelowLimit'
  <1>1. CASE RecordSubmitted
    <2>1. cur \in Intents /\ JournalAppend(cur, "submitted", 0) /\ UnresolvedCount < MaxInflight
      BY <1>1, CallIntent DEF RecordSubmitted, ThreadKnows, At
    <2>2. state[cur] \in {"submitted", "pending_submit"}
      BY <2>1, AppendedState, TransitionFacts DEF JournalAppend, CanAppend, TypeOK
    <2>3. \A j \in Intents \ {cur} : state'[j] = state[j]
      BY <2>1 DEF JournalAppend, Put, TypeOK, JournalTypeOK
    <2>4. Submitted' \subseteq {i \in Intents : state[i] \in PendingStates \cup {"unknown"}}
      BY <2>2, <2>3 DEF Submitted, PendingStates
    <2>5. Cardinality(Submitted') <= UnresolvedCount
      BY <2>4, Fewer DEF UnresolvedCount
    <2>6. Cardinality(Submitted') \in Nat /\ UnresolvedCount \in Nat
      BY <2>4, Fewer DEF UnresolvedCount
    <2> QED
      BY <2>1, <2>5, <2>6 DEF SubmissionsBelowLimit, Submitted, GatewayAssumption
  <1>2. CASE CallStep /\ ~ RecordSubmitted /\ ~ UNCHANGED rows
    <2>1. PICK s : cur \in Intents /\ JournalAppend(cur, s, 0)
                   /\ (s = "submitted" => state[cur] # "pending_submit")
      <3>1. CASE RecordDenial \/ RecordRefusal \/ RecordCommandUnknown \/ RecordModify
        BY <3>1, CallIntent DEF RecordDenial, RecordRefusal, RecordCommandUnknown, RecordModify
      <3>2. CASE RecordReplaceDenied
        BY <3>2, CallIntent DEF RecordReplaceDenied, ThreadKnows, At
      <3> QED
        BY <1>2, <3>1, <3>2
        DEF CallStep, ApprovalConsumed, ApprovalRefused, CancelDispatch, CancelDispatchRaises,
            ModifyDispatch, ModifyDispatchRaises, Dispatch, DispatchRaises, JournalRefuses
    <2> QED
      BY <2>1, LimitAppend, LimitKept
  <1>3. CASE \E i \in Intents : DeliverEvent(i)
    <2>1. PICK i \in Intents : DeliverEvent(i)
      BY <1>3
    <2>2. venue[i] # "none" /\ state[i] # "pending_submit"
      BY <2>1 DEF DeliverEvent, Outside, VenueMeansDispatched, Records, WriteAhead
    <2>3. \E s, q : JournalAppend(i, s, q)
      BY <2>1 DEF DeliverEvent
    <2> QED
      BY <2>2, <2>3, LimitAppend, LimitKept
  <1>4. CASE \E i \in Intents : DeliverReply(i) \/ CancelOrder(i)
    <2>1. PICK i \in Intents, s \in {"accepted", "pending_cancel"} : JournalAppend(i, s, 0)
      BY <1>4 DEF DeliverReply, CancelOrder
    <2> QED
      BY <2>1, LimitAppend, LimitKept
  <1>5. CASE \E i \in Intents : ExecuteAllowed(i) \/ ExecuteDenied(i)
    <2>1. PICK i \in Intents : JournalBegin(i)
      BY <1>5 DEF ExecuteAllowed, ExecuteDenied
    <2> QED
      BY <2>1, LimitKept DEF JournalBegin, Put, Submitted, TypeOK, JournalTypeOK
  <1>6. CASE MarkStaleSubmissions \/ Restart
    BY <1>6, StaleUnresolved, LimitKept DEF MarkStaleSubmissions, MarkStale, Restart, Submitted
  <1>7. CASE UNCHANGED state
    BY <1>7, LimitKept DEF Submitted
  <1>8. ASSUME NEW i \in Intents, VenueStep(i)
        PROVE  UNCHANGED state
    BY <1>8 DEF VenueStep, Transmit, NautilusDeny, VenueAccept, VenueReject, Move, VenueFill,
                VenueCancel, VenueRefuseCancel, VenueModify, VenueRefuseModify, Quiet, rows
  <1>9. ASSUME NEW i \in Intents, ReplaceDenied(i) \/ ReplaceApproved(i) \/ CallbackRaises(i)
        PROVE  UNCHANGED state
    BY <1>9 DEF ReplaceDenied, ReplaceApproved, CallbackRaises, rows
  <1>10. ASSUME CancelAll \/ CallRaises \/ OperatorKill \/ Tick \/ Crash \/ UNCHANGED vars
                  \/ (CallStep /\ UNCHANGED rows)
         PROVE  UNCHANGED state
    BY <1>10 DEF CancelAll, CallRaises, OperatorKill, Tick, Elapse, Crash, vars, rows
  <1> QED
    BY <1>1, <1>2, <1>3, <1>4, <1>5, <1>6, <1>7, <1>8, <1>9, <1>10 DEF Next, Call, Callback

-----------------------------------------------------------------------------
(* The inductive invariant and the theorems                                 *)

LEMMA InitIInv == Init => IInv
  <1> SUFFICES ASSUME Init PROVE IInv
    OBVIOUS
  <1>1. TypeOK
    <2>1. JournalTypeOK
      BY DEF Init, JournalInit, JournalTypeOK
    <2>2. events \in [Intents -> Seq(EventKinds \X Lots)]
      BY DEF Init
    <2>3. venue \in [Intents -> VenueStates] /\ venueFilled \in [Intents -> Lots]
      BY DEF Init, VenueStates, Lots
    <2>4. pc \in ThreadPoints /\ (pc # "idle" <=> cur # NoIntent)
      BY DEF Init, ThreadPoints
    <2>5. up \in BOOLEAN /\ kill \in BOOLEAN
      BY DEF Init
    <2> QED
      BY <2>1, <2>2, <2>3, <2>4, <2>5 DEF Init, TypeOK
  <1>2. VenueMeansDispatched /\ VenueFillsComplete
    BY DEF Init, VenueMeansDispatched, VenueFillsComplete
  <1>3. EventsTellTruth
    <2>1. \A i \in Intents : DOMAIN events[i] = {}
      BY DEF Init
    <2> QED
      BY <2>1 DEF EventsTellTruth
  <1>4. ThreadKnows
    BY DEF Init, ThreadKnows
  <1>5. WriteAhead /\ SettledIsSettled /\ RecordedFillsAreReal /\ FillsComeInOrder
    <2>1. \A i \in Intents : DOMAIN events[i] = {}
      BY DEF Init
    <2> QED
      BY <2>1 DEF Init, JournalInit, WriteAhead, SettledIsSettled, RecordedFillsAreReal,
                  FillsComeInOrder, Terminal, TerminalStates
  <1>6. SubmissionsBelowLimit
    <2>1. Submitted = {}
      BY DEF Init, JournalInit, Submitted
    <2> QED
      BY <2>1, FS_EmptySet DEF SubmissionsBelowLimit, Submitted, GatewayAssumption
  <1> QED
    BY <1>1, <1>2, <1>3, <1>4, <1>5, <1>6 DEF IInv

LEMMA NextIInv == IInv /\ [Next]_vars => IInv'
  <1> SUFFICES ASSUME IInv, [Next]_vars PROVE IInv'
    OBVIOUS
  <1>1. /\ Outside /\ Records /\ TypeOK /\ ThreadKnows /\ SubmissionsBelowLimit
        /\ ReportsFollow
    BY ReportsAgain DEF IInv, Outside, Records, RecordedFillsAreReal, FillsTrue, NoneBelow, IsFill
  <1>2. TypeOK'
    <2>1. CASE UNCHANGED vars
      BY <1>1, <2>1 DEF vars, rows, thread, queues, market, wire, bounds, TypeOK, JournalTypeOK
    <2>2. CASE Next
      BY <1>1, <2>2, CallType, CallbackType, VenueStepType, CallStepType, EnvironmentType
      DEF Next, Outside
    <2> QED
      BY <2>1, <2>2
  <1>3. Outside'
    BY <1>1, OutsideNext
  <1>4. Records'
    BY <1>1, RecordsNext
  <1>5. ThreadKnows'
    BY <1>1, ThreadNext
  <1>6. SubmissionsBelowLimit'
    BY <1>1, LimitNext
  <1>7. FillsComeInOrder' /\ RecordedFillsAreReal'
    <2>1. ReportsFollow'
      BY <1>1, ReportsNext
    <2> QED
      BY <1>4, <2>1 DEF ReportsFollow, InOrder, NoneBelow, IsFill, FillsComeInOrder, Records,
                        FillsTrue, RecordedFillsAreReal
  <1> QED
    BY <1>2, <1>3, <1>4, <1>5, <1>6, <1>7 DEF IInv, Outside, Records

\* The inductive invariant the runs check holds of every instance: in every
\* reachable state of execution/strategy.py, between any two of its statements
\* that another thread can come between.
THEOREM Invariance == Spec => []IInv
  BY InitIInv, NextIInv, PTL DEF Spec

\* Every variable keeps its type: no call, callback, venue event, crash or
\* timeout of execution/strategy.py leaves a row with an unknown state, an age
\* past the timeout or a fill larger than the order.
THEOREM TypeCorrect == Spec => []TypeOK
  <1>1. IInv => TypeOK
    BY DEF IInv
  <1> QED
    BY <1>1, Invariance, PTL

\* execute_intent writes SUBMITTED before it hands the order over, so whatever
\* Nautilus or the venue holds has a row past its reservation.
THEOREM WrittenAhead == Spec => []WriteAhead
  <1>1. IInv => WriteAhead
    BY DEF IInv
  <1> QED
    BY <1>1, Invariance, PTL

\* However often an intent is proposed, timed out, refused or lost in a crash,
\* execute_intent hands its order over at most once.
THEOREM DispatchedOnce == Spec => []AtMostOneDispatch
  <1>1. IInv => AtMostOneDispatch
    BY DEF IInv, VenueMeansDispatched, AtMostOneDispatch
  <1> QED
    BY <1>1, Invariance, PTL

\* A final journal state is recorded only for an order that is finished at the
\* venue or never reached it.
THEOREM FinalStatesAreTrue == Spec => []SettledIsSettled
  <1>1. IInv => SettledIsSettled
    BY DEF IInv
  <1> QED
    BY <1>1, Invariance, PTL

\* on_order_filled never records more than was filled, FILLED only when every lot
\* was, and no fill report lowers what is recorded.
THEOREM FillsAreReal == Spec => []RecordedFillsAreReal
  <1>1. IInv => RecordedFillsAreReal
    BY DEF IInv
  <1> QED
    BY <1>1, Invariance, PTL

\* consume's recheck keeps the submissions without an answer below
\* max_inflight_requests, for any number of intents and any limit.
THEOREM LimitHolds == Spec => []SubmissionsBelowLimit
  <1>1. IInv => SubmissionsBelowLimit
    BY DEF IInv
  <1> QED
    BY <1>1, Invariance, PTL

-----------------------------------------------------------------------------
(* The gateway implements SubmitOnce                                        *)

\* The phase of one intent moves with its own row and counter.
LEMMA PhaseChange ==
    ASSUME NEW i \in Intents, NEW p, phase'[i] = p,
           \A j \in Intents \ {i} : state'[j] = state[j] /\ dispatches'[j] = dispatches[j]
    PROVE  phase' = [phase EXCEPT ![i] = p]
  <1>1. \A j \in Intents \ {i} : phase'[j] = phase[j]
    BY DEF phase, Terminal, Journaled
  <1>2. phase = [j \in Intents |-> phase[j]] /\ phase' = [j \in Intents |-> phase'[j]]
    BY DEF phase
  <1> QED
    BY <1>1, <1>2

LEMMA InitMaps == Init => Promise!Init
  BY DEF Init, JournalInit, Promise!Init, phase, Terminal, TerminalStates, Journaled

\* A row that opens is a reservation.
LEMMA BeginMaps ==
    ASSUME IInv, NEW i \in Intents, JournalBegin(i), UNCHANGED dispatches
    PROVE  Promise!Next
  <1>1. dispatches[i] = 0 /\ phase[i] = "idle"
    BY DEF IInv, VenueMeansDispatched, WriteAhead, JournalBegin, phase, Terminal,
           TerminalStates, Journaled
  <1>2. state' = [state EXCEPT ![i] = "pending_submit"] /\ state'[i] = "pending_submit"
    BY DEF JournalBegin, Put, IInv, TypeOK, JournalTypeOK
  <1>3. phase'[i] = "reserved"
    BY <1>1, <1>2 DEF phase, Terminal, TerminalStates, Journaled
  <1>4. phase' = [phase EXCEPT ![i] = "reserved"]
    BY <1>2, <1>3, PhaseChange DEF IInv, TypeOK, JournalTypeOK
  <1> QED
    BY <1>1, <1>4 DEF Promise!Next, Promise!Reserve

\* An append settles an intent or leaves its phase.
LEMMA AppendMaps ==
    ASSUME IInv, NEW i \in Intents, NEW s, NEW q, JournalAppend(i, s, q),
           UNCHANGED dispatches
    PROVE  [Promise!Next]_phase
  <1>1. /\ state' = [state EXCEPT ![i] = s] /\ state'[i] = s
        /\ Journaled(i) /\ s \in ExecutionState
    BY AppendedState DEF JournalAppend, CanAppend, Put, IInv, TypeOK, JournalTypeOK
  <1>2. CASE Terminal(i)
    <2>1. s = state[i]
      BY <1>2, AppendedState, TransitionFacts
      DEF JournalAppend, CanAppend, Terminal, IInv, TypeOK
    <2> QED
      BY <1>1, <2>1 DEF phase, Terminal, Journaled, IInv, TypeOK, JournalTypeOK
  <1>3. CASE ~Terminal(i) /\ s \in TerminalStates
    <2>1. phase[i] \in {"reserved", "sent"}
      BY <1>1, <1>3 DEF phase
    <2>2. phase'[i] = "settled"
      BY <1>1, <1>3 DEF phase, Terminal
    <2>3. phase' = [phase EXCEPT ![i] = "settled"]
      BY <1>1, <2>2, PhaseChange DEF IInv, TypeOK, JournalTypeOK
    <2> QED
      BY <2>1, <2>3 DEF Promise!Next, Promise!Settle
  <1>4. CASE ~Terminal(i) /\ s \notin TerminalStates
    <2>1. s # "absent"
      BY <1>1 DEF ExecutionState, PendingStates, TerminalStates
    <2>2. phase' = phase
      BY <1>1, <1>4, <2>1 DEF phase, Terminal, Journaled
    <2> QED
      BY <2>2
  <1> QED
    BY <1>2, <1>3, <1>4

\* Handing an order over sends a reserved intent.
LEMMA HandOverMaps ==
    ASSUME IInv, At("dispatch"), HandOver(cur), UNCHANGED state
    PROVE  Promise!Next
  <1>1. cur \in Intents /\ Journaled(cur) /\ ~Terminal(cur) /\ dispatches[cur] = 0
    BY CallIntent DEF IInv, ThreadKnows, VenueMeansDispatched, At
  <1>2. dispatches' = [dispatches EXCEPT ![cur] = 1]
    BY <1>1 DEF HandOver, IInv, TypeOK
  <1>3. phase[cur] = "reserved"
    BY <1>1 DEF phase
  <1>4. phase'[cur] = "sent"
    BY <1>1, <1>2 DEF phase, Terminal, Journaled, IInv, TypeOK
  <1>5. phase' = [phase EXCEPT ![cur] = "sent"]
    BY <1>1, <1>2, <1>4, PhaseChange DEF IInv, TypeOK
  <1> QED
    BY <1>1, <1>3, <1>5 DEF Promise!Next, Promise!Send

\* Marking commands UNKNOWN changes no phase.
LEMMA StaleMaps ==
    ASSUME IInv, StaleMarked, UNCHANGED dispatches
    PROVE  UNCHANGED phase
  <1>1. \A i \in Intents : \/ state'[i] = state[i]
                           \/ state'[i] = "unknown" /\ state[i] \in PendingStates
    BY StaleUnresolved DEF IInv
  <1> QED
    BY <1>1 DEF phase, Terminal, TerminalStates, Journaled, PendingStates

LEMMA StepMaps ==
    ASSUME IInv, [Next]_vars
    PROVE  [Promise!Next]_phase
  <1>1. CASE UNCHANGED <<state, dispatches>>
    BY <1>1 DEF phase, Terminal, Journaled
  <1>2. CASE (Dispatch \/ DispatchRaises) /\ HandOver(cur)
    BY <1>2, HandOverMaps DEF Dispatch, DispatchRaises, rows
  <1>3. CASE MarkStaleSubmissions \/ Restart
    BY <1>3, StaleMaps DEF MarkStaleSubmissions, MarkStale, Restart
  <1>4. CASE \E i \in Intents : JournalBegin(i) /\ UNCHANGED dispatches
    BY <1>4, BeginMaps
  <1>5. CASE \E i \in Intents : UNCHANGED dispatches /\ \E s, q : JournalAppend(i, s, q)
    BY <1>5, AppendMaps
  <1>6. ASSUME NEW i \in Intents, Call(i) \/ Callback(i)
        PROVE  \/ JournalBegin(i) /\ UNCHANGED dispatches
               \/ UNCHANGED dispatches /\ \E s, q : JournalAppend(i, s, q)
               \/ UNCHANGED <<state, dispatches>>
    BY <1>6 DEF Call, Callback, ExecuteAllowed, ExecuteDenied, CancelOrder, ReplaceDenied,
                ReplaceApproved, DeliverEvent, DeliverReply, CallbackRaises, NodeGone, Calm, rows
  <1>7. ASSUME CallStep
        PROVE  \/ (Dispatch \/ DispatchRaises) /\ HandOver(cur)
               \/ cur \in Intents /\ UNCHANGED dispatches /\ \E s, q : JournalAppend(cur, s, q)
               \/ UNCHANGED <<state, dispatches>>
    <2>1. pc # "idle" => cur \in Intents
      BY DEF IInv, TypeOK
    <2> QED
      BY <1>7, <2>1
      DEF CallStep, RecordDenial, ApprovalConsumed, ApprovalRefused, RecordRefusal,
          RecordSubmitted, RecordCommandUnknown, CancelDispatch, CancelDispatchRaises,
          RecordReplaceDenied, RecordModify, ModifyDispatch, ModifyDispatchRaises,
          Dispatch, DispatchRaises, JournalRefuses, FailClosed, NodeGone, Calm, At, rows
  <1>8. ASSUME NEW i \in Intents, VenueStep(i)
        PROVE  UNCHANGED <<state, dispatches>>
    BY <1>8 DEF VenueStep, Transmit, NautilusDeny, VenueAccept, VenueReject, Move, VenueFill,
                VenueCancel, VenueRefuseCancel, VenueModify, VenueRefuseModify, Quiet, rows
  <1>9. ASSUME CancelAll \/ CallRaises \/ OperatorKill \/ Tick \/ Crash \/ UNCHANGED vars
        PROVE  UNCHANGED <<state, dispatches>>
    BY <1>9 DEF CancelAll, CallRaises, OperatorKill, Tick, Elapse, Crash, FailClosed,
                NodeGone, vars, rows
  <1> QED
    BY <1>1, <1>2, <1>3, <1>4, <1>5, <1>6, <1>7, <1>8, <1>9 DEF Next

\* The gateway with its journal keeps the promise of SubmitOnce: reserved
\* durably first, sent at most once, never reopened once settled.
THEOREM Implements == Spec => SubmitsOnce
  <1>1. IInv /\ [Next]_vars => [Promise!Next]_phase
    BY StepMaps
  <1> QED
    BY <1>1, InitMaps, Invariance, PTL DEF Spec, SubmitsOnce, Promise!Spec
=============================================================================
