-------------------------- MODULE ExecutionJournal --------------------------
(***************************************************************************)
(* The durable order journal (execution/journal.py): one row per intent,   *)
(* every write one SQLite transaction under the journal's lock, so each    *)
(* action below is atomic and survives a crash of the process.             *)
(*                                                                         *)
(* A row's updated_ts_ns is kept as its age, saturating at StaleAge (the   *)
(* unknown-outcome timeout): the code only compares it with the cutoff.    *)
(* The client order id is bound one to one to the intent, and a quantity   *)
(* is counted in lots.                                                     *)
(***************************************************************************)
EXTENDS Naturals, FiniteSets

CONSTANTS
    Intents,        \* identities of the trading intents
    Size,           \* lots of every order
    StaleAge        \* unknown_order_timeout_ms, in ticks

ASSUME JournalAssumption == /\ IsFiniteSet(Intents)
                            /\ Size \in Nat \ {0}
                            /\ StaleAge \in Nat \ {0}

VARIABLES
    state,          \* recorded execution state of each intent; "absent": no row
    filled,         \* recorded filled_quantity_base
    age             \* ticks since updated_ts_ns, at most StaleAge

rows == <<state, filled, age>>

TerminalStates == {"filled", "canceled", "rejected", "denied"}

\* Commands that mark_stale_submissions_unknown declares UNKNOWN once too old.
PendingStates == {"pending_submit", "submitted", "pending_modify", "pending_cancel"}

ExecutionState ==
    PendingStates \cup TerminalStates \cup {"accepted", "partially_filled", "unknown"}

AllowedTransitions ==
    [s \in ExecutionState |->
       CASE s = "pending_submit" -> {"submitted", "denied", "unknown"}
         [] s = "submitted" -> {"accepted", "partially_filled", "unknown"} \cup TerminalStates
         [] s = "accepted" -> {"pending_modify", "partially_filled", "filled",
                               "pending_cancel", "canceled", "rejected", "unknown"}
         [] s = "partially_filled" -> {"pending_modify", "partially_filled", "filled",
                                       "pending_cancel", "canceled", "unknown"}
         [] s = "pending_cancel" -> {"canceled", "filled", "partially_filled",
                                     "accepted", "unknown"}
         [] s = "pending_modify" -> {"accepted", "partially_filled", "filled",
                                     "canceled", "rejected", "unknown"}
         [] s = "unknown" -> {"accepted", "partially_filled", "filled", "pending_cancel",
                              "canceled", "rejected", "unknown", "pending_modify"}
         [] OTHER -> {}]

Journaled(i) == state[i] # "absent"
Terminal(i)  == state[i] \in TerminalStates

\* unresolved_command_count and unknown_command_count
UnresolvedCount == Cardinality({i \in Intents : state[i] \in PendingStates \cup {"unknown"}})
UnknownCount    == Cardinality({i \in Intents : state[i] = "unknown"})

Put(i, s, q) == /\ state'  = [state EXCEPT ![i] = s]
                /\ filled' = [filled EXCEPT ![i] = q]
                /\ age'    = [age EXCEPT ![i] = 0]

\* Slip: INSERT OR REPLACE instead of refusing a known intent.
BeginAnew(i) == Put(i, "pending_submit", 0)

\* A known intent is a DuplicateIntentError and changes nothing.
JournalBegin(i) == /\ ~Journaled(i)
                   /\ Put(i, "pending_submit", 0)

\* Slip: an append that only requires the row.
CanAppendAny(i, s) == Journaled(i)

\* Slip: a table without the way out of UNKNOWN.
CanAppendKnown(i, s) ==
    /\ Journaled(i)
    /\ s = state[i] \/ (state[i] # "unknown" /\ s \in AllowedTransitions[state[i]])

\* The transition table lets every state repeat itself, a terminal one too.
CanAppend(i, s) == /\ Journaled(i)
                   /\ s = state[i] \/ s \in AllowedTransitions[state[i]]

\* The event's own quantity overwrites the recorded one: only fill events
\* carry one, every other event writes the default 0.
JournalAppend(i, s, q) == /\ CanAppend(i, s)
                          /\ Put(i, s, q)

\* Slip: the sweep selects submissions only.
StaleSubmission(i) == state[i] \in {"pending_submit", "submitted"} /\ age[i] >= StaleAge

Stale(i) == state[i] \in PendingStates /\ age[i] >= StaleAge

\* mark_stale_submissions_unknown: one transaction over all stale rows.
StaleMarked == /\ state' = [i \in Intents |-> IF Stale(i) THEN "unknown" ELSE state[i]]
               /\ age'   = [i \in Intents |-> IF Stale(i) THEN 0 ELSE age[i]]
               /\ UNCHANGED filled

MarkStale == /\ \E i \in Intents : Stale(i)
             /\ StaleMarked

\* Time passes whether or not the process runs.
Elapse == /\ age' = [i \in Intents |-> IF Journaled(i) /\ age[i] < StaleAge
                                       THEN age[i] + 1 ELSE age[i]]
          /\ UNCHANGED <<state, filled>>

JournalInit == /\ state  = [i \in Intents |-> "absent"]
               /\ filled = [i \in Intents |-> 0]
               /\ age    = [i \in Intents |-> 0]

JournalTypeOK == /\ state  \in [Intents -> ExecutionState \cup {"absent"}]
                 /\ filled \in [Intents -> 0..Size]
                 /\ age    \in [Intents -> 0..StaleAge]
=============================================================================
