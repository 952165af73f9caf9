------------------------------ MODULE Heartbeat ------------------------------
(***************************************************************************)
(* How the trading node tells the sentinel that it is well                 *)
(* (execution/heartbeat.py, execution/node.py): the event loop grants      *)
(* itself a health lease after each risk evaluation, a thread copies it    *)
(* into the heartbeat file, and the operator's kill file and the admission *)
(* ledger, which other processes write, are read on the way.               *)
(* Only the file survives the process.                                     *)
(***************************************************************************)
EXTENDS Integers

CONSTANTS
    Lease,          \* min(public, private data_stale_after_ms), in ticks
    StaleAfter,     \* heartbeat_stale_after_ms, in ticks
    Timeout,        \* deadman_timeout_ms, in ticks
    MaxRenewals,    \* bound: renewals of the authorization
    MaxFaults       \* bound: crashes, dead threads and failed calls

ASSUME HeartbeatAssumption == /\ Lease \in Nat
                              /\ StaleAfter \in Nat \ {0}
                              /\ Timeout \in Nat \ {0}
                              /\ MaxRenewals \in Nat
                              /\ MaxFaults \in Nat

VARIABLES
    nodeUp,         \* the trading node process runs
    judged,         \* verdict of a risk evaluation not yet reported
    health,         \* _execution_healthy and _reconciliation_complete
    leaseAge,       \* ticks since that was granted
    publisher,      \* the heartbeat thread
    file,           \* the heartbeat file
    fileAge,        \* its age, which saturates
    kill,           \* the operator's kill switch
    active,         \* the ledger holds an active, unexpired authorization
    expiry,         \* which expiry it holds: renewals so far
    neglect,        \* history: ticks since the event loop last reported well
    faults          \* counter of the bound

node      == <<nodeUp, judged, health, leaseAge, publisher>>
heartbeat == <<file, fileAge, neglect>>
authority == <<active, expiry>>
beatVars  == <<node, heartbeat, kill, authority, faults>>

\* The longest that a well event loop's report may keep an order alive.
Horizon == Lease + StaleAfter + Timeout

\* Ages stop counting where nothing distinguishes them any more.
Older(age, limit) == IF age < limit THEN age + 1 ELSE age

Fault == faults < MaxFaults /\ faults' = faults + 1

-----------------------------------------------------------------------------
(* The event loop                                                           *)

\* A market event: the snapshot and the risk state are read, and only a node
\* that may hold exposure is well.
JudgeHealth == /\ nodeUp /\ judged = "none"
               /\ \/ judged' = "unwell"
                  \/ judged' = "well" /\ ~ kill /\ active
               /\ UNCHANGED <<nodeUp, health, leaseAge, publisher, heartbeat,
                              kill, authority, faults>>

\* update_risk_health, with what was read before
ReportHealth == /\ nodeUp /\ judged # "none"
                /\ health' = (judged = "well")
                /\ leaseAge' = 0
                /\ judged' = "none"
                /\ neglect' = IF judged = "well" THEN 0 ELSE neglect
                /\ UNCHANGED <<nodeUp, publisher, file, fileAge, kill, authority, faults>>

-----------------------------------------------------------------------------
(* The heartbeat thread                                                     *)

CheckAuthority == /\ publisher = "waiting"
                  /\ publisher' = "publishing"
                  /\ health' = (health /\ active)
                  /\ UNCHANGED <<nodeUp, judged, leaseAge, heartbeat, kill, authority, faults>>

\* Slip: the lease is not looked at.
WriteFileUnleased(well) ==
    /\ file' = [healthy |-> well /\ ~ kill, expiry |-> expiry]
    /\ fileAge' = 0
    /\ UNCHANGED neglect

\* publish: the lease must not have run out and no kill be in force.
WriteFile(well) == /\ file' = [healthy |-> well /\ leaseAge <= Lease /\ ~ kill,
                               expiry  |-> expiry]
                   /\ fileAge' = 0
                   /\ UNCHANGED neglect

Publish == /\ publisher = "publishing"
           /\ publisher' = "waiting"
           /\ WriteFile(health)
           /\ UNCHANGED <<nodeUp, judged, health, leaseAge, kill, authority, faults>>

\* An exception ends the daemon thread; nobody notices and the node goes on.
PublisherDies == /\ publisher # "dead"
                 /\ publisher' = "dead"
                 /\ Fault
                 /\ UNCHANGED <<nodeUp, judged, health, leaseAge, heartbeat, kill, authority>>

-----------------------------------------------------------------------------
(* The process                                                              *)

NodeIsGone == /\ nodeUp' = FALSE
              /\ judged' = "none"
              /\ health' = FALSE
              /\ leaseAge' = 0
              /\ publisher' = "dead"

\* A stop, and every exception that stops the node, publishes a last heartbeat.
NodeStops == /\ nodeUp
             /\ NodeIsGone
             /\ WriteFile(FALSE)
             /\ UNCHANGED <<kill, authority, faults>>

NodeCrashes == /\ nodeUp
               /\ NodeIsGone
               /\ Fault
               /\ UNCHANGED <<heartbeat, kill, authority>>

\* cli.run requires an active admission before anything else.
NodeStarts == /\ ~ nodeUp /\ active
              /\ nodeUp' = TRUE
              /\ publisher' = "waiting"
              /\ WriteFile(FALSE)
              /\ UNCHANGED <<judged, health, leaseAge, kill, authority, faults>>

-----------------------------------------------------------------------------
(* Other processes: the operator and the controller of the ledger           *)

OperatorKill == kill' = ~ kill /\ UNCHANGED <<node, heartbeat, authority, faults>>

\* Only an authorization that is still active is renewed.
RenewAuthority == /\ active /\ expiry < MaxRenewals
                  /\ expiry' = expiry + 1
                  /\ UNCHANGED <<node, heartbeat, kill, active, faults>>

\* Expiry, revocation, rollback or supersession: none of them is undone.
EndAuthority == /\ active
                /\ active' = FALSE
                /\ UNCHANGED <<node, heartbeat, kill, expiry, faults>>

-----------------------------------------------------------------------------
Aging == /\ leaseAge' = IF health THEN Older(leaseAge, Lease + 1) ELSE leaseAge
         /\ fileAge' = Older(fileAge, StaleAfter + 1)
         /\ neglect' = Older(neglect, Horizon)
         /\ UNCHANGED <<nodeUp, judged, health, publisher, file, kill, authority, faults>>

HeartbeatInit ==
    /\ nodeUp = FALSE /\ judged = "none" /\ health = FALSE /\ leaseAge = 0
    /\ publisher = "dead"
    /\ file = [healthy |-> FALSE, expiry |-> 0]   \* none, or from a former run
    /\ fileAge = StaleAfter + 1
    /\ kill = FALSE
    /\ active = TRUE /\ expiry = 0
    /\ neglect = Horizon
    /\ faults = 0

HeartbeatNext == \/ JudgeHealth \/ ReportHealth
                 \/ CheckAuthority \/ Publish \/ PublisherDies
                 \/ NodeStops \/ NodeCrashes \/ NodeStarts
                 \/ OperatorKill \/ RenewAuthority \/ EndAuthority

HeartbeatTypeOK ==
    /\ nodeUp \in BOOLEAN /\ health \in BOOLEAN
    /\ judged \in {"none", "well", "unwell"}
    /\ leaseAge \in 0..(Lease + 1)
    /\ publisher \in {"dead", "waiting", "publishing"}
    /\ file \in [healthy : BOOLEAN, expiry : 0..MaxRenewals]
    /\ fileAge \in 0..(StaleAfter + 1)
    /\ kill \in BOOLEAN /\ active \in BOOLEAN
    /\ expiry \in 0..MaxRenewals
    /\ neglect \in 0..Horizon
    /\ faults \in 0..MaxFaults
=============================================================================
