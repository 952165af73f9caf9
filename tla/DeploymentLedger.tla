-------------------------- MODULE DeploymentLedger --------------------------
(***************************************************************************)
(* The admission ledger (governance/ledger.py) with the verification of    *)
(* signed approvals and renewals (governance/approval.py) in front of it.  *)
(*                                                                         *)
(* The controller's commands are separate processes on one SQLite file.    *)
(* A command reads the clock and verifies what it was given, and then      *)
(* waits for the write lock: between the two other commands commit and     *)
(* time passes, up to the busy timeout LockWait. The transaction itself is *)
(* one action. There is one account; a second one shares nothing with it.  *)
(*                                                                         *)
(* A build stands for everything a release binds by digest: commit, image, *)
(* configuration, lock, risk policy and capital. A bundle is a prepared    *)
(* release; its admission identity is the bundle itself.                   *)
(***************************************************************************)
EXTENDS Naturals, FiniteSets

CONSTANTS
    Builds,         \* what may be released
    Approvals,      \* approval identities
    Deployments,    \* deployment identities
    Specs,          \* the release specifications an operator writes
    Controllers,    \* command processes that may run at the same time
    TTL,            \* longest window of an approval or a renewal (7 days)
    LockWait,       \* how long a transaction waits for the lock (5 s)
    MaxRenewals,    \* bound: renewals signed
    MaxTime         \* bound: the clock

NoDeployment == "no deployment"
Stages == {"canary", "production"}
States == {"absent", "active", "superseded", "rolled_back", "revoked"}

\* ReleaseBundleSpec: production continues exactly one canary, a canary none.
\* Every release names a deployment to roll back to, known to the ledger or not.
SpecType == [approval : Approvals, deployment : Deployments, build : Builds,
             stage : Stages, priorApproval : Approvals \cup {NoDeployment},
             rollback : Deployments \cup {NoDeployment}]

WellFormed(s) == /\ s.deployment # s.rollback
                 /\ s.stage = "production" <=> s.priorApproval # NoDeployment

ASSUME LedgerAssumption ==
    /\ TTL \in Nat \ {0} /\ LockWait \in Nat
    /\ MaxRenewals \in Nat /\ MaxTime \in Nat
    /\ NoDeployment \notin Deployments \cup Approvals
    /\ Specs \subseteq SpecType
    /\ \A s \in Specs : WellFormed(s)

Bundles  == [spec : Specs, from : Nat, until : Nat]
Renewals == [deployment : Deployments, build : Builds, prior : 0 .. MaxRenewals,
             from : Nat, until : Nat]

VARIABLES
    now,        \* the clock of every process
    signed,     \* approvals with a valid signature of the trusted key
    renewal,    \* the signed renewals, numbered; a number is an authorization id
    ledger,     \* table admissions, by deployment
    applied,    \* table renewals: the authorization ids consumed
    command     \* what each controller has verified and not yet committed

NoRow  == [state |-> "absent", auth |-> 0, count |-> 0, admitted |-> 0, expires |-> 0]
Idle   == [op |-> "idle"]
NoRenewal == [deployment |-> NoDeployment]

ledgerVars == <<now, signed, renewal, ledger, applied, command>>

-----------------------------------------------------------------------------
(* Who has authority                                                        *)

Active(d) == ledger[d].state = "active"

\* require_active: what a trading process asks before every command.
InForce(d) == Active(d) /\ now < ledger[d].expires

IsActive(w, t) == w.from <= t /\ t < w.until

\* The row of a deployment whose approval or identity was already consumed.
Consumed(b) == \E d \in Deployments :
                  /\ ledger[d].state # "absent"
                  /\ \/ d = b.spec.deployment
                     \/ ledger[d].bundle.spec.approval = b.spec.approval

-----------------------------------------------------------------------------
(* Admission                                                                *)

\* verify_deployment_admission: the release that is mounted and running is the
\* one the signed approval names, and, for an admission, the approval is valid.
VerifiedAdmission(b, running, instant) ==
    /\ b \in signed
    /\ b.spec.build = running
    /\ IsActive(b, instant)

BeginAdmit(c, b, running) ==
    /\ command[c] = Idle
    /\ VerifiedAdmission(b, running, now)
    /\ command' = [command EXCEPT ![c] = [op |-> "admit", bundle |-> b, at |-> now]]
    /\ UNCHANGED <<now, signed, renewal, ledger, applied>>

AdmittedRow(b, instant) == [state |-> "active", auth |-> 0, count |-> 0, bundle |-> b,
                            admitted |-> instant, expires |-> b.until]

\* Slip: production replaces whatever canary is active.
BindsCanaryAny(b, p) == /\ ledger[p].bundle.spec.stage = "canary"

\* Production names the canary it continues, by approval and by deployment.
BindsCanary(b, p) == /\ ledger[p].bundle.spec.stage = "canary"
                     /\ ledger[p].bundle.spec.approval = b.spec.priorApproval
                     /\ p = b.spec.rollback

\* admit. An expired admission that is still ACTIVE owns the account all the same.
AdmitCanary(c) ==
    /\ command[c].op = "admit" /\ command[c].bundle.spec.stage = "canary"
    /\ ~ Consumed(command[c].bundle)
    /\ \A d \in Deployments : ~ Active(d)
    /\ ledger' = [ledger EXCEPT ![command[c].bundle.spec.deployment] =
                      AdmittedRow(command[c].bundle, command[c].at)]
    /\ command' = [command EXCEPT ![c] = Idle]
    /\ UNCHANGED <<now, signed, renewal, applied>>

AdmitProduction(c) ==
    /\ command[c].op = "admit" /\ command[c].bundle.spec.stage = "production"
    /\ ~ Consumed(command[c].bundle)
    /\ \E p \in Deployments :
          /\ Active(p) /\ BindsCanary(command[c].bundle, p)
          /\ ledger' = [ledger EXCEPT ![p].state = "superseded",
                                      ![command[c].bundle.spec.deployment] =
                                          AdmittedRow(command[c].bundle, command[c].at)]
    /\ command' = [command EXCEPT ![c] = Idle]
    /\ UNCHANGED <<now, signed, renewal, applied>>

-----------------------------------------------------------------------------
(* Renewal                                                                  *)

Signed == {n \in 1 .. MaxRenewals : renewal[n] # NoRenewal}

\* The approver signs a renewal offline, against any authorization there was.
SignRenewal(d, prior) ==
    /\ ledger[d].state # "absent" /\ ledger[d].bundle.spec.stage = "production"
    /\ prior \in {0} \cup Signed
    /\ \E n \in (1 .. MaxRenewals) \ Signed :
          /\ \A m \in 1 .. MaxRenewals : m < n => m \in Signed
          /\ renewal' = [renewal EXCEPT ![n] =
                [deployment |-> d, build |-> ledger[d].bundle.spec.build,
                 prior |-> prior, from |-> now, until |-> now + TTL]]
    /\ UNCHANGED <<now, signed, ledger, applied, command>>

\* What verify_deployment_renewal asks of the row it was given, and renew asks
\* again of the row in its transaction.
Extends(n, row) == /\ row.state = "active"
                   /\ row.bundle.spec.stage = "production"
                   /\ renewal[n].prior = row.auth
                   /\ renewal[n].build = row.bundle.spec.build
                   /\ renewal[n].until > row.expires
                   /\ renewal[n].from >= row.admitted

BeginRenew(c, n) ==
    /\ command[c] = Idle /\ n \in Signed
    /\ now < ledger[renewal[n].deployment].expires
    /\ IsActive(renewal[n], now)
    /\ Extends(n, ledger[renewal[n].deployment])
    /\ command' = [command EXCEPT ![c] = [op |-> "renew", renewal |-> n, at |-> now]]
    /\ UNCHANGED <<now, signed, renewal, ledger, applied>>

Renew(n, at, row) == /\ at < row.expires
                     /\ n \notin applied

\* Slip: the transaction trusts what was verified before it waited.
CommitRenewStale(c) ==
    /\ command[c].op = "renew"
    /\ LET n == command[c].renewal
           d == renewal[n].deployment
       IN  /\ Active(d) /\ Renew(n, command[c].at, ledger[d])
           /\ ledger' = [ledger EXCEPT ![d].auth = n, ![d].count = @ + 1,
                                       ![d].expires = renewal[n].until]
           /\ applied' = applied \cup {n}
    /\ command' = [command EXCEPT ![c] = Idle]
    /\ UNCHANGED <<now, signed, renewal>>

\* Slip: the state of the row is looked at before the transaction only.
CommitRenewRevives(c) ==
    /\ command[c].op = "renew"
    /\ LET n == command[c].renewal
           d == renewal[n].deployment
       IN  /\ Renew(n, command[c].at, ledger[d])
           /\ Extends(n, [ledger[d] EXCEPT !.state = "active"])
           /\ ledger' = [ledger EXCEPT ![d].auth = n, ![d].count = @ + 1,
                                       ![d].state = "active",
                                       ![d].expires = renewal[n].until]
           /\ applied' = applied \cup {n}
    /\ command' = [command EXCEPT ![c] = Idle]
    /\ UNCHANGED <<now, signed, renewal>>

\* renew: one transaction on the row as it is now, with the instant read before
\* the transaction waited for its lock.
CommitRenew(c) ==
    /\ command[c].op = "renew"
    /\ LET n == command[c].renewal
           d == renewal[n].deployment
       IN  /\ Renew(n, command[c].at, ledger[d])
           /\ Extends(n, ledger[d])
           /\ ledger' = [ledger EXCEPT ![d].auth = n, ![d].count = @ + 1,
                                       ![d].expires = renewal[n].until]
           /\ applied' = applied \cup {n}
    /\ command' = [command EXCEPT ![c] = Idle]
    /\ UNCHANGED <<now, signed, renewal>>

-----------------------------------------------------------------------------
(* The rest                                                                 *)

\* A check of the transaction fails, the lock is not had in time, or the
\* process dies: rollback.
CommandFails(c) ==
    /\ command[c] # Idle
    /\ command' = [command EXCEPT ![c] = Idle]
    /\ UNCHANGED <<now, signed, renewal, ledger, applied>>

\* Slip: the operator may set any state.
DeactivateTo(d, target) ==
    /\ Active(d)
    /\ ledger' = [ledger EXCEPT ![d].state = target]
    /\ UNCHANGED <<now, signed, renewal, applied, command>>

Deactivate(d, target) ==
    /\ Active(d)
    /\ target \in {"rolled_back", "revoked"}
    /\ ledger' = [ledger EXCEPT ![d].state = target]
    /\ UNCHANGED <<now, signed, renewal, applied, command>>

\* A transaction that waits longer than LockWait fails.
Tick == /\ now < MaxTime
        /\ \A c \in Controllers : command[c] # Idle => now < command[c].at + LockWait
        /\ now' = now + 1
        /\ UNCHANGED <<signed, renewal, ledger, applied, command>>

LedgerInit == /\ now = 0
              /\ signed = {}
              /\ renewal = [n \in 1 .. MaxRenewals |-> NoRenewal]
              /\ ledger = [d \in Deployments |-> NoRow]
              /\ applied = {}
              /\ command = [c \in Controllers |-> Idle]

LedgerNext == \/ \E c \in Controllers :
                    \/ \E b \in signed, running \in Builds : BeginAdmit(c, b, running)
                    \/ AdmitCanary(c) \/ AdmitProduction(c)
                    \/ \E n \in 1 .. MaxRenewals : BeginRenew(c, n)
                    \/ CommitRenew(c)
                    \/ CommandFails(c)
              \/ \E d \in Deployments :
                    \/ \E prior \in 0 .. MaxRenewals : SignRenewal(d, prior)
                    \/ \E target \in States : Deactivate(d, target)
              \/ Tick

-----------------------------------------------------------------------------
(* Properties                                                               *)

Rows == [state : States \ {"absent"}, auth : 0 .. MaxRenewals, count : Nat,
         bundle : Bundles, admitted : Nat, expires : Nat]

\* The values of every variable. A type invariant.
LedgerTypeOK ==
    /\ now \in Nat
    /\ signed \subseteq Bundles
    /\ renewal \in [1 .. MaxRenewals -> Renewals \cup {NoRenewal}]
    /\ ledger \in [Deployments -> {NoRow} \cup Rows]
    /\ applied \subseteq Signed
    /\ command \in [Controllers -> {Idle} \cup [op : {"admit"}, bundle : Bundles, at : Nat]
                                   \cup [op : {"renew"}, renewal : Signed, at : Nat]]

\* The renewals a deployment has consumed.
Chain(d) == {n \in applied : renewal[n].deployment = d}

\* Controllers that renew at the same time, and replays of older renewals, never
\* fork the chain of authorizations (renew in governance/ledger.py): the consumed
\* renewals of a deployment continue each other from its admission to the row's
\* authorization, one for each count, and end where the row's expiry says.
ChainIsLinear ==
    \A d \in Deployments :
        /\ ledger[d].count = Cardinality(Chain(d))
        /\ \A m, n \in Chain(d) : renewal[m].prior = renewal[n].prior => m = n
        /\ \A n \in Chain(d) : renewal[n].prior \in {0} \cup (Chain(d) \ {n})
        /\ ledger[d].auth \in {0} \cup Chain(d)
        /\ \A n \in Chain(d) : /\ renewal[n].prior # ledger[d].auth
                                /\ renewal[n].until <= ledger[d].expires

\* Every production admission took over from the canary it names, which is
\* superseded and no one else's predecessor (admit in governance/ledger.py).
ProductionContinuesCanary ==
    \A d \in Deployments :
        (ledger[d].state # "absent" /\ ledger[d].bundle.spec.stage = "production") =>
            LET p == ledger[d].bundle.spec.rollback
            IN  /\ p \in Deployments /\ ledger[p].state = "superseded"
                /\ ledger[p].bundle.spec.approval = ledger[d].bundle.spec.priorApproval
                /\ \A e \in Deployments \ {d} :
                      ~ (/\ ledger[e].state # "absent"
                         /\ ledger[e].bundle.spec.stage = "production"
                         /\ ledger[e].bundle.spec.rollback = p)

AuthorityOf(d) == IF ledger[d].state = "absent" THEN "none"
                  ELSE IF Active(d) /\ now < ledger[d].expires + LockWait THEN "held"
                  ELSE "ended"

authority == [d \in Deployments |-> AuthorityOf(d)]

Authority == INSTANCE DeploymentAuthority WITH Deployments <- Deployments, authority <- authority

\* Authority is held by one deployment at a time and never comes back, whatever
\* commands race: a renewal that began in time may commit up to LockWait after
\* the expiry (renew in governance/ledger.py reads the clock before its
\* transaction), and nothing else extends what has ended.
AuthorityNeverReturns == Authority!Spec
=============================================================================
