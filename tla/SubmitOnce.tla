----------------------------- MODULE SubmitOnce -----------------------------
(***************************************************************************)
(* What the execution path promises about one trading intent, whatever     *)
(* crashes, timeouts, adapter errors and late venue events happen:         *)
(*                                                                         *)
(*    idle --Reserve--> reserved --Send--> sent --Settle--> settled        *)
(*                          \---------------Settle----------/              *)
(*                                                                         *)
(* An intent is reserved durably before it is sent, is sent to the venue   *)
(* at most once, and is never reopened once its outcome is recorded.       *)
(***************************************************************************)
CONSTANT Intents

VARIABLE phase      \* what the outside world may know of each intent

Phases == {"idle", "reserved", "sent", "settled"}

Init == phase = [i \in Intents |-> "idle"]

\* The intent and its client order identity become durable.
Reserve(i) == /\ phase[i] = "idle"
              /\ phase' = [phase EXCEPT ![i] = "reserved"]

\* The order leaves for the venue; it may never do so again.
Send(i) == /\ phase[i] = "reserved"
           /\ phase' = [phase EXCEPT ![i] = "sent"]

\* A final outcome is recorded; a reserved intent may be refused unsent.
Settle(i) == /\ phase[i] \in {"reserved", "sent"}
             /\ phase' = [phase EXCEPT ![i] = "settled"]

Next == \E i \in Intents : Reserve(i) \/ Send(i) \/ Settle(i)

Spec == Init /\ [][Next]_phase
=============================================================================
