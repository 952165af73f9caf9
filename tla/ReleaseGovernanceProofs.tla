---------------------- MODULE ReleaseGovernanceProofs ----------------------
(***************************************************************************)
(* Proofs about ReleaseGovernance for any release specifications, renewals *)
(* and controllers. Governed is inductive; it says who may be active, what *)
(* a command that waits for the lock still knows, and where the rows of    *)
(* the ledger come from. From it follow the safety properties of the runs  *)
(* and that the ledger implements DeploymentAuthority.                     *)
(***************************************************************************)
EXTENDS ReleaseGovernance, FiniteSetTheorems, TLAPS

\* The account has one active deployment at most.
OneActive == \A d, e \in Deployments : Active(d) /\ Active(e) => d = e

\* A command that waits for the lock has waited LockWait at most, and what it
\* admits was signed and valid when it began.
CommandsWait ==
    \A c \in Controllers :
        command[c] # Idle =>
            /\ command[c].at <= now /\ now <= command[c].at + LockWait
            /\ command[c].op = "admit" => /\ command[c].bundle \in signed
                                          /\ command[c].at < command[c].bundle.until

\* Renewals are consumed for a row that exists.
AppliedIsKnown == \A n \in applied : ledger[renewal[n].deployment].state # "absent"

\* Rows come from signed bundles, these from prepared ones, and what was prepared
\* has its evidence.
RowsAreSigned == \A d \in Deployments : ledger[d].state # "absent" => ledger[d].bundle \in signed
SignedIsPrepared == signed \subseteq prepared
PreparedIsBound == \A b \in prepared : EvidenceBinds(b.spec)

Governed == /\ OneActive /\ CommandsWait /\ AppliedIsKnown /\ ChainIsLinear
            /\ ProductionContinuesCanary
            /\ RowsAreSigned /\ SignedIsPrepared /\ PreparedIsBound

-----------------------------------------------------------------------------
(* Types                                                                    *)

\* A verified command is a typed one.
LEMMA CommandTypes ==
  ASSUME LedgerTypeOK, NEW c \in Controllers
  PROVE  /\ command[c].op = "admit" => /\ command[c].bundle \in Bundles
                                       /\ command[c].at \in Nat
                                       /\ command[c] # Idle
         /\ command[c].op = "renew" => /\ command[c].renewal \in Signed
                                       /\ command[c].at \in Nat
                                       /\ command[c] # Idle
  BY DEF LedgerTypeOK, Idle

\* A row is absent or complete.
LEMMA RowTypes ==
  ASSUME LedgerTypeOK, NEW d \in Deployments
  PROVE  /\ ledger[d].state # "absent" => ledger[d] \in Rows
         /\ ledger[d].state = "absent" => ledger[d] = NoRow
  BY DEF LedgerTypeOK, Rows, NoRow

\* A signed renewal is a typed one.
LEMMA RenewalTypes ==
  ASSUME LedgerTypeOK, NEW n \in Signed
  PROVE  /\ n \in 1 .. MaxRenewals
         /\ renewal[n] \in Renewals
         /\ renewal[n].deployment \in Deployments
         /\ renewal[n].until \in Nat
  BY DEF LedgerTypeOK, Signed, Renewals

\* An admission writes a complete row.
LEMMA AdmittedRowType ==
  ASSUME NEW b \in Bundles, NEW t \in Nat
  PROVE  AdmittedRow(b, t) \in Rows
  BY LedgerAssumption DEF AdmittedRow, Rows, States, Bundles

\* A renewal leaves one.
LEMMA ExtendedRowType ==
  ASSUME NEW r \in Rows, NEW n \in 1 .. MaxRenewals, NEW t \in Nat
  PROVE  [[[r EXCEPT !.auth = n] EXCEPT !.count = @ + 1] EXCEPT !.expires = t] \in Rows
<1>1. n \in 0 .. MaxRenewals
  BY LedgerAssumption
<1> DEFINE q == [r EXCEPT !.auth = n]
           p == [q EXCEPT !.count = @ + 1]
<1>2. q \in Rows
  BY <1>1 DEF Rows
<1> HIDE DEF q
<1>3. p \in Rows
  BY <1>2 DEF Rows
<1> HIDE DEF p
<1>4. [p EXCEPT !.expires = t] \in Rows
  BY <1>3 DEF Rows
<1> QED
  BY <1>4 DEF p, q

\* The initial state has its types.
LEMMA InitTypes == Init => TypeOK
  BY LedgerAssumption DEF Init, LedgerInit, TypeOK, LedgerTypeOK, Signed

\* Every command of the controllers keeps the types of the ledger.
LEMMA LedgerTypes ==
  ASSUME LedgerTypeOK, LedgerNext
  PROVE  LedgerTypeOK'
<1>1. ASSUME NEW c \in Controllers, NEW b \in signed, NEW running \in Builds,
             BeginAdmit(c, b, running)
      PROVE  LedgerTypeOK'
  BY <1>1 DEF BeginAdmit, LedgerTypeOK, Signed
<1>2. ASSUME NEW c \in Controllers, AdmitCanary(c)
      PROVE  LedgerTypeOK'
  <2>1. command[c].bundle \in Bundles /\ command[c].at \in Nat
    BY <1>2, CommandTypes DEF AdmitCanary
  <2>2. AdmittedRow(command[c].bundle, command[c].at) \in Rows
    BY <2>1, AdmittedRowType
  <2> QED
    BY <1>2, <2>2 DEF AdmitCanary, LedgerTypeOK, Signed
<1>3. ASSUME NEW c \in Controllers, AdmitProduction(c)
      PROVE  LedgerTypeOK'
  <2>1. command[c].bundle \in Bundles /\ command[c].at \in Nat
    BY <1>3, CommandTypes DEF AdmitProduction
  <2>2. AdmittedRow(command[c].bundle, command[c].at) \in Rows
    BY <2>1, AdmittedRowType
  <2>3. PICK p \in Deployments :
           /\ Active(p)
           /\ ledger' = [ledger EXCEPT ![p].state = "superseded",
                                       ![command[c].bundle.spec.deployment] =
                                           AdmittedRow(command[c].bundle, command[c].at)]
    BY <1>3 DEF AdmitProduction
  <2>4. [ledger[p] EXCEPT !.state = "superseded"] \in Rows
    BY <2>3, RowTypes DEF Active, Rows, States
  <2>5. ledger' \in [Deployments -> {NoRow} \cup Rows]
    BY <2>2, <2>3, <2>4 DEF LedgerTypeOK
  <2> QED
    BY <1>3, <2>5 DEF AdmitProduction, LedgerTypeOK, Signed
<1>4. ASSUME NEW c \in Controllers, NEW n \in 1 .. MaxRenewals, BeginRenew(c, n)
      PROVE  LedgerTypeOK'
  BY <1>4 DEF BeginRenew, LedgerTypeOK, Signed
<1>5. ASSUME NEW c \in Controllers, CommitRenew(c)
      PROVE  LedgerTypeOK'
  <2> DEFINE n == command[c].renewal
             d == renewal[n].deployment
  <2>1. n \in Signed
    BY <1>5, CommandTypes DEF CommitRenew
  <2>2. n \in 1 .. MaxRenewals /\ d \in Deployments /\ renewal[n].until \in Nat
    BY <2>1, RenewalTypes
  <2>3. ledger[d] \in Rows
    BY <1>5, <2>2, RowTypes DEF CommitRenew, Extends
  <2> HIDE DEF n, d
  <2>4. [[[ledger[d] EXCEPT !.auth = n] EXCEPT !.count = @ + 1] EXCEPT !.expires = renewal[n].until]
           \in Rows
    BY <2>2, <2>3, ExtendedRowType
  <2>5. ledger' \in [Deployments -> {NoRow} \cup Rows]
    BY <1>5, <2>2, <2>4, ZenonT(40) DEF CommitRenew, LedgerTypeOK, n, d
  <2>6. applied' \subseteq Signed' /\ Signed' = Signed
    BY <1>5, <2>1 DEF CommitRenew, Signed, LedgerTypeOK, n
  <2>7. command' = [command EXCEPT ![c] = Idle] /\ UNCHANGED <<now, signed, renewal>>
    BY <1>5 DEF CommitRenew
  <2> QED
    BY <2>5, <2>6, <2>7 DEF LedgerTypeOK
<1>6. ASSUME NEW c \in Controllers, CommandFails(c)
      PROVE  LedgerTypeOK'
  BY <1>6 DEF CommandFails, LedgerTypeOK, Signed
<1>7. ASSUME NEW d \in Deployments, NEW prior \in 0 .. MaxRenewals, SignRenewal(d, prior)
      PROVE  LedgerTypeOK'
  <2>1. ledger[d].bundle.spec.build \in Builds
    BY <1>7, RowTypes, LedgerAssumption DEF SignRenewal, Rows, Bundles, SpecType
  <2>2. now + TTL \in Nat
    BY LedgerAssumption DEF LedgerTypeOK
  <2>3. PICK n \in (1 .. MaxRenewals) \ Signed :
           renewal' = [renewal EXCEPT ![n] =
                         [deployment |-> d, build |-> ledger[d].bundle.spec.build,
                          prior |-> prior, from |-> now, until |-> now + TTL]]
    BY <1>7 DEF SignRenewal
  <2>4. renewal'[n] \in Renewals
    BY <2>1, <2>2, <2>3 DEF LedgerTypeOK, Renewals
  <2>5. renewal' \in [1 .. MaxRenewals -> Renewals \cup {NoRenewal}]
    BY <2>3, <2>4 DEF LedgerTypeOK
  <2>6. Signed \subseteq Signed'
    BY <2>3, <2>5 DEF LedgerTypeOK, Signed
  <2> QED
    BY <1>7, <2>5, <2>6 DEF SignRenewal, LedgerTypeOK
<1>8. ASSUME NEW d \in Deployments, NEW target \in States, Deactivate(d, target)
      PROVE  LedgerTypeOK'
  <2>1. [ledger[d] EXCEPT !.state = target] \in Rows
    BY <1>8, RowTypes DEF Deactivate, Active, Rows, States
  <2> QED
    BY <1>8, <2>1 DEF Deactivate, LedgerTypeOK, Signed
<1>9. ASSUME Tick PROVE LedgerTypeOK'
  BY <1>9 DEF Tick, LedgerTypeOK, Signed
<1> QED
  BY <1>1, <1>2, <1>3, <1>4, <1>5, <1>6, <1>7, <1>8, <1>9 DEF LedgerNext

\* Evidence and preparation keep the types of what they write.
LEMMA StepTypes ==
  ASSUME TypeOK, [Next]_vars
  PROVE  TypeOK'
<1>1. ASSUME LedgerNext, UNCHANGED evidenceVars PROVE TypeOK'
  BY <1>1, LedgerTypes DEF TypeOK, evidenceVars
<1>2. ASSUME UNCHANGED ledgerVars PROVE LedgerTypeOK'
  BY <1>2 DEF TypeOK, ledgerVars, LedgerTypeOK, Signed
<1>3. ASSUME NEW b \in Builds, ShadowPasses(b) PROVE TypeOK'
  BY <1>2, <1>3 DEF TypeOK, ShadowPasses
<1>4. ASSUME NEW b \in Builds, NEW o \in TestnetObservations, EvaluateTestnet(b, o)
      PROVE  TypeOK'
  BY <1>2, <1>4 DEF TypeOK, EvaluateTestnet
<1>5. ASSUME NEW d \in Deployments, NEW o \in CanaryObservations, EvaluateCanary(d, o)
      PROVE  TypeOK'
  BY <1>2, <1>5 DEF TypeOK, EvaluateCanary
<1>6. ASSUME NEW s \in Specs, PrepareRelease(s) PROVE TypeOK'
  <2>1. [spec |-> s, from |-> now, until |-> now + TTL] \in Bundles
    BY LedgerAssumption DEF TypeOK, LedgerTypeOK, Bundles
  <2> QED
    BY <1>2, <1>6, <2>1 DEF TypeOK, PrepareRelease
<1>7. ASSUME NEW b \in prepared, SignApproval(b) PROVE TypeOK'
  BY <1>7 DEF TypeOK, LedgerTypeOK, Signed, SignApproval, evidenceVars
<1>8. ASSUME UNCHANGED vars PROVE TypeOK'
  BY <1>2, <1>8 DEF TypeOK, vars, evidenceVars
<1> QED
  BY <1>1, <1>3, <1>4, <1>5, <1>6, <1>7, <1>8 DEF Next

-----------------------------------------------------------------------------
(* What a step of the ledger does to its rows                               *)

\* An admission writes the row of a deployment that had none; the canary it
\* continues, if any, is superseded, and no other row changes.
Admits(c, d, b) ==
    /\ command[c].op = "admit" /\ b = command[c].bundle /\ d = b.spec.deployment
    /\ b \in signed /\ command[c].at < b.until
    /\ command[c].at <= now /\ now <= command[c].at + LockWait
    /\ ledger[d].state = "absent"
    /\ ledger'[d] = AdmittedRow(b, command[c].at)
    /\ \A e \in Deployments : ~ Active(e)' \/ e = d
    /\ \A e \in Deployments \ {d} :
          \/ ledger'[e] = ledger[e]
          \/ /\ Active(e) /\ ledger'[e] = [ledger[e] EXCEPT !.state = "superseded"]
             /\ ledger[e].bundle.spec.stage = "canary"
             /\ b.spec.stage = "production" /\ BindsCanary(b, e)
    /\ b.spec.stage = "production" =>
          \E p \in Deployments \ {d} : /\ Active(p) /\ BindsCanary(b, p)
                                       /\ ledger'[p] = [ledger[p] EXCEPT !.state = "superseded"]
    /\ UNCHANGED <<now, signed, renewal, applied, evidenceVars>>
    /\ command' = [command EXCEPT ![c] = Idle]

\* A renewal consumes its authorization and extends the row it was signed for.
Prolongs(c, n, d) ==
    /\ command[c].op = "renew" /\ n = command[c].renewal /\ d = renewal[n].deployment
    /\ command[c].at <= now /\ now <= command[c].at + LockWait
    /\ command[c].at < ledger[d].expires
    /\ n \in Signed \ applied /\ applied' = applied \cup {n}
    /\ Active(d) /\ renewal[n].prior = ledger[d].auth
    /\ renewal[n].until > ledger[d].expires
    /\ ledger'[d].state = ledger[d].state /\ ledger'[d].bundle = ledger[d].bundle
    /\ ledger'[d].auth = n /\ ledger'[d].count = ledger[d].count + 1
    /\ ledger'[d].expires = renewal[n].until
    /\ \A e \in Deployments \ {d} : ledger'[e] = ledger[e]
    /\ UNCHANGED <<now, signed, renewal, evidenceVars>>
    /\ command' = [command EXCEPT ![c] = Idle]

\* An admission of either stage has that effect.
LEMMA CanaryAdmits ==
  ASSUME TypeOK, Governed, NEW c \in Controllers, AdmitCanary(c), UNCHANGED evidenceVars
  PROVE  \E d \in Deployments, b \in Bundles : Admits(c, d, b)
<1> DEFINE b == command[c].bundle
           d == b.spec.deployment
<1>1. b \in Bundles /\ command[c].at \in Nat /\ command[c] # Idle
  BY CommandTypes DEF AdmitCanary, TypeOK
<1>2. d \in Deployments
  BY <1>1, LedgerAssumption DEF Bundles, SpecType
<1>3. ledger[d].state = "absent"
  BY <1>2 DEF AdmitCanary, Consumed
<1>4. /\ ledger'[d] = AdmittedRow(b, command[c].at)
      /\ \A e \in Deployments \ {d} : ledger'[e] = ledger[e]
  BY <1>2 DEF AdmitCanary, TypeOK, LedgerTypeOK
<1>5. \A e \in Deployments : ~ Active(e)' \/ e = d
  BY <1>4 DEF AdmitCanary, Active
<1>6. b \in signed /\ command[c].at < b.until /\ command[c].at <= now
      /\ now <= command[c].at + LockWait
  BY <1>1 DEF Governed, CommandsWait, AdmitCanary
<1>7. b.spec.stage # "production"
  BY DEF AdmitCanary
<1> HIDE DEF b, d
<1>8. Admits(c, d, b)
  BY <1>3, <1>4, <1>5, <1>6, <1>7 DEF AdmitCanary, Admits, b, d
<1> QED
  BY <1>1, <1>2, <1>8

LEMMA ProductionAdmits ==
  ASSUME TypeOK, Governed, NEW c \in Controllers, AdmitProduction(c), UNCHANGED evidenceVars
  PROVE  \E d \in Deployments, b \in Bundles : Admits(c, d, b)
<1> DEFINE b == command[c].bundle
           d == b.spec.deployment
<1>1. b \in Bundles /\ command[c].at \in Nat /\ command[c] # Idle
  BY CommandTypes DEF AdmitProduction, TypeOK
<1>2. d \in Deployments
  BY <1>1, LedgerAssumption DEF Bundles, SpecType
<1>3. ledger[d].state = "absent"
  BY <1>2 DEF AdmitProduction, Consumed
<1>4. PICK p \in Deployments :
         /\ Active(p) /\ BindsCanary(b, p)
         /\ ledger' = [ledger EXCEPT ![p].state = "superseded",
                                     ![d] = AdmittedRow(b, command[c].at)]
  BY DEF AdmitProduction
<1>5. p # d
  BY <1>3, <1>4 DEF Active
<1>6. /\ ledger'[d] = AdmittedRow(b, command[c].at)
      /\ ledger'[p] = [ledger[p] EXCEPT !.state = "superseded"]
      /\ \A e \in Deployments \ {d, p} : ledger'[e] = ledger[e]
  BY <1>2, <1>4, <1>5 DEF TypeOK, LedgerTypeOK
<1>7. ledger'[p].state = "superseded"
  BY <1>4, <1>6, RowTypes DEF Active, TypeOK, Rows
<1>8. \A e \in Deployments : ~ Active(e)' \/ e = d
  BY <1>4, <1>6, <1>7 DEF Active, Governed, OneActive
<1>9. b \in signed /\ command[c].at < b.until /\ command[c].at <= now
      /\ now <= command[c].at + LockWait
  BY <1>1 DEF Governed, CommandsWait, AdmitProduction
<1>10. /\ b.spec.stage = "production"
       /\ ledger[p].bundle.spec.stage = "canary"
  BY <1>4 DEF AdmitProduction, BindsCanary
<1> HIDE DEF b, d
<1>11. Admits(c, d, b)
  BY <1>3, <1>4, <1>5, <1>6, <1>8, <1>9, <1>10 DEF AdmitProduction, Admits, b, d
<1> QED
  BY <1>1, <1>2, <1>11

\* A renewal that commits has its effect.
LEMMA RenewProlongs ==
  ASSUME TypeOK, Governed, NEW c \in Controllers, CommitRenew(c), UNCHANGED evidenceVars
  PROVE  \E n \in Signed, d \in Deployments : Prolongs(c, n, d)
<1> DEFINE n == command[c].renewal
           d == renewal[n].deployment
<1>1. n \in Signed /\ command[c].at \in Nat /\ command[c] # Idle
  BY CommandTypes DEF CommitRenew, TypeOK
<1>2. d \in Deployments
  BY <1>1, RenewalTypes DEF TypeOK
<1>3. /\ command[c].at < ledger[d].expires /\ n \notin applied
      /\ ledger[d].state = "active" /\ renewal[n].prior = ledger[d].auth
      /\ renewal[n].until > ledger[d].expires
      /\ ledger' = [ledger EXCEPT ![d].auth = n, ![d].count = @ + 1,
                                  ![d].expires = renewal[n].until]
      /\ applied' = applied \cup {n}
      /\ command[c].op = "renew"
      /\ command' = [command EXCEPT ![c] = Idle]
      /\ UNCHANGED <<now, signed, renewal>>
  BY DEF CommitRenew, Renew, Extends
<1>4. ledger[d] \in Rows
  BY <1>2, <1>3, RowTypes DEF TypeOK
<1> HIDE DEF n, d
<1>5. /\ ledger'[d] = [[[ledger[d] EXCEPT !.auth = n] EXCEPT !.count = @ + 1]
                            EXCEPT !.expires = renewal[n].until]
      /\ \A e \in Deployments \ {d} : ledger'[e] = ledger[e]
  BY <1>2, <1>3 DEF TypeOK, LedgerTypeOK
<1>6. /\ ledger'[d].state = ledger[d].state /\ ledger'[d].bundle = ledger[d].bundle
      /\ ledger'[d].auth = n /\ ledger'[d].count = ledger[d].count + 1
      /\ ledger'[d].expires = renewal[n].until
  BY <1>4, <1>5 DEF Rows
<1>7. command[c].at <= now /\ now <= command[c].at + LockWait
  BY <1>1 DEF Governed, CommandsWait
<1>8. Prolongs(c, n, d)
  BY <1>1, <1>3, <1>5, <1>6, <1>7 DEF Prolongs, Active, n, d
<1> QED
  BY <1>1, <1>2, <1>8

-----------------------------------------------------------------------------
(* The invariant: what is said of the ledger                                *)

LedgerInv == OneActive /\ AppliedIsKnown /\ ChainIsLinear /\ ProductionContinuesCanary

\* What leaves ledger, renewals and consumed authorizations alone keeps it.
LEMMA LedgerKept ==
  ASSUME LedgerInv, UNCHANGED <<ledger, renewal, applied>>
  PROVE  LedgerInv'
<1>1. \A e \in Deployments : Chain(e)' = Chain(e)
  BY DEF Chain
<1>2. ChainIsLinear'
  BY <1>1 DEF LedgerInv, ChainIsLinear
<1>3. OneActive' /\ AppliedIsKnown'
  BY DEF LedgerInv, OneActive, Active, AppliedIsKnown
<1>4. ProductionContinuesCanary'
  BY DEF LedgerInv, ProductionContinuesCanary
<1> QED
  BY <1>2, <1>3, <1>4 DEF LedgerInv

\* Bundles that stay, and canaries that stay superseded, keep the succession.
LEMMA SuccessionKept ==
  ASSUME ProductionContinuesCanary,
         \A e \in Deployments : /\ ledger'[e].bundle = ledger[e].bundle
                                /\ ledger'[e].state = "absent" <=> ledger[e].state = "absent"
                                /\ ledger[e].state = "superseded" => ledger'[e].state = "superseded"
  PROVE  ProductionContinuesCanary'
<1> SUFFICES ASSUME NEW d \in Deployments, ledger[d].state # "absent",
                    ledger[d].bundle.spec.stage = "production",
                    NEW p, p = ledger[d].bundle.spec.rollback
             PROVE  /\ p \in Deployments /\ ledger'[p].state = "superseded"
                    /\ ledger'[p].bundle.spec.approval = ledger[d].bundle.spec.priorApproval
                    /\ \A e \in Deployments \ {d} :
                          ~ (/\ ledger'[e].state # "absent"
                             /\ ledger'[e].bundle.spec.stage = "production"
                             /\ ledger'[e].bundle.spec.rollback = p)
  BY SMTT(30) DEF ProductionContinuesCanary
<1>1. /\ p \in Deployments /\ ledger[p].state = "superseded"
      /\ ledger[p].bundle.spec.approval = ledger[d].bundle.spec.priorApproval
      /\ \A e \in Deployments \ {d} :
            ~ (/\ ledger[e].state # "absent"
               /\ ledger[e].bundle.spec.stage = "production"
               /\ ledger[e].bundle.spec.rollback = p)
  BY DEF ProductionContinuesCanary
<1>2. \A e \in Deployments \ {d} :
         ~ (/\ ledger'[e].state # "absent"
            /\ ledger'[e].bundle.spec.stage = "production"
            /\ ledger'[e].bundle.spec.rollback = p)
  <2> TAKE e \in Deployments \ {d}
  <2>1. /\ ledger'[e].bundle = ledger[e].bundle
        /\ ledger'[e].state = "absent" <=> ledger[e].state = "absent"
    OBVIOUS
  <2> QED
    BY <1>1, <2>1
<1> QED
  BY <1>1, <1>2

\* A chain is finite, because its numbers are bounded.
LEMMA ChainFinite ==
  ASSUME TypeOK, NEW d \in Deployments
  PROVE  IsFiniteSet(Chain(d)) /\ Chain(d) \subseteq 1 .. MaxRenewals
<1>1. Chain(d) \subseteq 1 .. MaxRenewals
  BY DEF TypeOK, LedgerTypeOK, Signed, Chain
<1>2. IsFiniteSet(1 .. MaxRenewals)
  BY FS_Interval, LedgerAssumption
<1> QED
  BY <1>1, <1>2, FS_Subset

LEMMA AdmissionKeepsLedger ==
  ASSUME TypeOK, LedgerInv, NEW c \in Controllers, NEW d \in Deployments, NEW b \in Bundles,
         Admits(c, d, b)
  PROVE  LedgerInv'
<1>1. \A e \in Deployments \ {d} : /\ ledger'[e].bundle = ledger[e].bundle
                                   /\ ledger'[e].auth = ledger[e].auth
                                   /\ ledger'[e].count = ledger[e].count
                                   /\ ledger'[e].expires = ledger[e].expires
                                   /\ ledger'[e].state = "absent" <=> ledger[e].state = "absent"
                                   /\ ~ Active(e) => ledger'[e] = ledger[e]
  <2> TAKE e \in Deployments \ {d}
  <2>1. CASE ledger'[e] = ledger[e]
    BY <2>1
  <2>2. CASE Active(e) /\ ledger'[e] = [ledger[e] EXCEPT !.state = "superseded"]
    <3>1. ledger[e] \in Rows
      BY <2>2, RowTypes DEF Active, TypeOK
    <3> QED
      BY <2>2, <3>1 DEF Active, Rows
  <2> QED
    BY <2>1, <2>2 DEF Admits
<1>2. /\ ledger'[d].state = "active" /\ ledger'[d].bundle = b
      /\ ledger'[d].auth = 0 /\ ledger'[d].count = 0
      /\ ledger[d].state = "absent"
  BY DEF Admits, AdmittedRow
<1>3. OneActive'
  BY DEF Admits, OneActive
<1>4. AppliedIsKnown'
  <2> SUFFICES ASSUME NEW n \in applied
               PROVE  ledger'[renewal[n].deployment].state # "absent"
    BY DEF AppliedIsKnown, Admits
  <2>1. renewal[n].deployment \in Deployments
    BY RenewalTypes DEF TypeOK, LedgerTypeOK
  <2> QED
    BY <1>1, <1>2, <2>1 DEF LedgerInv, AppliedIsKnown
<1>5. ChainIsLinear'
  <2>1. Chain(d) = {}
    BY <1>2 DEF LedgerInv, AppliedIsKnown, Chain
  <2>2. \A e \in Deployments : Chain(e)' = Chain(e)
    BY DEF Admits, Chain
  <2>3. Cardinality(Chain(d)) = 0
    BY <2>1, FS_EmptySet
  <2>4. renewal' = renewal
    BY DEF Admits
  <2> SUFFICES ASSUME NEW e \in Deployments
               PROVE  /\ ledger'[e].count = Cardinality(Chain(e))
                      /\ \A m, n \in Chain(e) : renewal[m].prior = renewal[n].prior => m = n
                      /\ \A n \in Chain(e) : renewal[n].prior \in {0} \cup (Chain(e) \ {n})
                      /\ ledger'[e].auth \in {0} \cup Chain(e)
                      /\ \A n \in Chain(e) : /\ renewal[n].prior # ledger'[e].auth
                                             /\ renewal[n].until <= ledger'[e].expires
    BY <2>2, <2>4 DEF ChainIsLinear
  <2>5. CASE e = d
    BY <1>2, <2>1, <2>3, <2>5
  <2>6. CASE e # d
    BY <1>1, <2>6 DEF LedgerInv, ChainIsLinear
  <2> QED
    BY <2>5, <2>6
<1>6. ProductionContinuesCanary'
  <2> SUFFICES ASSUME NEW e \in Deployments, ledger'[e].state # "absent",
                      ledger'[e].bundle.spec.stage = "production",
                      NEW p, p = ledger'[e].bundle.spec.rollback
               PROVE  /\ p \in Deployments /\ ledger'[p].state = "superseded"
                      /\ ledger'[p].bundle.spec.approval = ledger'[e].bundle.spec.priorApproval
                      /\ \A f \in Deployments \ {e} :
                            ~ (/\ ledger'[f].state # "absent"
                               /\ ledger'[f].bundle.spec.stage = "production"
                               /\ ledger'[f].bundle.spec.rollback = p)
    BY DEF ProductionContinuesCanary
  <2>1. CASE e = d
    <3>0. PICK q \in Deployments \ {d} :
             /\ Active(q) /\ BindsCanary(b, q)
             /\ ledger'[q] = [ledger[q] EXCEPT !.state = "superseded"]
      BY <1>2, <2>1 DEF Admits
    <3>1. p \in Deployments \ {d} /\ Active(p) /\ BindsCanary(b, p)
          /\ ledger'[p] = [ledger[p] EXCEPT !.state = "superseded"]
      BY <1>2, <2>1, <3>0 DEF BindsCanary
    <3>2. ledger[p] \in Rows
      BY <3>1, RowTypes DEF Active, TypeOK
    <3>3. ledger'[p].state = "superseded" /\ ledger'[p].bundle = ledger[p].bundle
      BY <3>1, <3>2 DEF Rows
    <3>4. \A f \in Deployments \ {d} :
             ~ (/\ ledger[f].state # "absent"
                /\ ledger[f].bundle.spec.stage = "production"
                /\ ledger[f].bundle.spec.rollback = p)
      BY <3>1 DEF LedgerInv, ProductionContinuesCanary, Active
    <3>5. /\ p \in Deployments /\ ledger'[p].state = "superseded"
          /\ ledger'[p].bundle.spec.approval = ledger'[e].bundle.spec.priorApproval
      BY <1>2, <2>1, <3>1, <3>3 DEF BindsCanary
    <3>6. \A f \in Deployments \ {e} :
             ~ (/\ ledger'[f].state # "absent"
                /\ ledger'[f].bundle.spec.stage = "production"
                /\ ledger'[f].bundle.spec.rollback = p)
      <4> TAKE f \in Deployments \ {e}
      <4>1. /\ ledger'[f].bundle = ledger[f].bundle
            /\ ledger'[f].state = "absent" <=> ledger[f].state = "absent"
        BY <1>1, <2>1
      <4> QED
        BY <2>1, <3>4, <4>1
    <3> QED
      BY <3>5, <3>6
  <2>2. CASE e # d
    <3>1. /\ ledger[e].state # "absent" /\ ledger[e].bundle.spec.stage = "production"
          /\ p = ledger[e].bundle.spec.rollback
      BY <1>1, <2>2
    <3>2. /\ p \in Deployments /\ ledger[p].state = "superseded"
          /\ ledger[p].bundle.spec.approval = ledger[e].bundle.spec.priorApproval
          /\ \A f \in Deployments \ {e} :
                ~ (/\ ledger[f].state # "absent"
                   /\ ledger[f].bundle.spec.stage = "production"
                   /\ ledger[f].bundle.spec.rollback = p)
      BY <3>1 DEF LedgerInv, ProductionContinuesCanary
    <3>3. p # d /\ ~ Active(p) /\ ledger'[p] = ledger[p]
      BY <1>1, <1>2, <3>2 DEF Active
    <3>4. b.spec.stage = "production" => \E q \in Deployments : Active(q) /\ BindsCanary(b, q)
      BY DEF Admits
    <3>5. ~ (b.spec.stage = "production" /\ b.spec.rollback = p)
      BY <3>3, <3>4 DEF BindsCanary
    <3>6. /\ p \in Deployments /\ ledger'[p].state = "superseded"
          /\ ledger'[p].bundle.spec.approval = ledger'[e].bundle.spec.priorApproval
      BY <1>1, <2>2, <3>2, <3>3
    <3>7. \A f \in Deployments \ {e} :
             ~ (/\ ledger'[f].state # "absent"
                /\ ledger'[f].bundle.spec.stage = "production"
                /\ ledger'[f].bundle.spec.rollback = p)
      <4> TAKE f \in Deployments \ {e}
      <4>1. CASE f = d
        BY <1>2, <3>5, <4>1
      <4>2. CASE f # d
        <5>1. /\ ledger'[f].bundle = ledger[f].bundle
              /\ ledger'[f].state = "absent" <=> ledger[f].state = "absent"
          BY <1>1, <4>2
        <5> QED
          BY <3>2, <5>1
      <4> QED
        BY <4>1, <4>2
    <3> QED
      BY <3>6, <3>7
  <2> QED
    BY <2>1, <2>2
<1> QED
  BY <1>3, <1>4, <1>5, <1>6 DEF LedgerInv

LEMMA RenewalKeepsLedger ==
  ASSUME TypeOK, LedgerInv, NEW c \in Controllers, NEW n \in Signed, NEW d \in Deployments,
         Prolongs(c, n, d)
  PROVE  LedgerInv'
<1>1. \A e \in Deployments : /\ ledger'[e].bundle = ledger[e].bundle
                             /\ ledger'[e].state = ledger[e].state
  BY DEF Prolongs
<1>2. OneActive'
  BY <1>1 DEF LedgerInv, OneActive, Active
<1>3. AppliedIsKnown'
  <2>1. \A m \in applied' : renewal[m].deployment \in Deployments
    BY RenewalTypes DEF Prolongs, TypeOK, LedgerTypeOK
  <2> QED
    BY <1>1, <2>1 DEF LedgerInv, AppliedIsKnown, Prolongs, Active
<1>4. ProductionContinuesCanary'
  BY <1>1, SuccessionKept DEF LedgerInv
<1>5. ChainIsLinear'
  <2>1. \A e \in Deployments \ {d} : Chain(e)' = Chain(e)
    BY DEF Prolongs, Chain
  <2>2. Chain(d)' = Chain(d) \cup {n} /\ n \notin Chain(d)
    BY DEF Prolongs, Chain
  <2>3. /\ \A m \in Chain(d) : /\ renewal[m].prior \in {0} \cup (Chain(d) \ {m})
                               /\ renewal[m].prior # renewal[n].prior
                               /\ renewal[m].until <= ledger[d].expires
        /\ \A m, k \in Chain(d) : renewal[m].prior = renewal[k].prior => m = k
        /\ renewal[n].prior \in {0} \cup Chain(d)
        /\ ledger[d].count = Cardinality(Chain(d))
    <3>1. renewal[n].prior = ledger[d].auth
      BY DEF Prolongs
    <3> QED
      BY <3>1 DEF LedgerInv, ChainIsLinear
  <2>4. n \in 1 .. MaxRenewals /\ renewal[n].until \in Nat /\ ledger[d].expires \in Nat
    BY RenewalTypes, RowTypes DEF TypeOK, Prolongs, Active, Rows
  <2>5. \A m \in Chain(d) : renewal[m].until \in Nat
    BY RenewalTypes DEF Chain, TypeOK, LedgerTypeOK
  <2>6. Cardinality(Chain(d)') = Cardinality(Chain(d)) + 1
    BY <2>2, ChainFinite, FS_AddElement
  <2>7. /\ ledger'[d].count = Cardinality(Chain(d)')
        /\ ledger'[d].auth \in Chain(d)'
    BY <2>2, <2>3, <2>6 DEF Prolongs
  <2>8. \A m \in Chain(d)' : /\ renewal[m].prior \in {0} \cup (Chain(d)' \ {m})
                             /\ renewal[m].prior # n
    BY <2>2, <2>3, <2>4
  <2>9. \A m \in Chain(d)' : renewal[m].until <= renewal[n].until
    <3>1. renewal[n].until > ledger[d].expires
      BY DEF Prolongs
    <3> QED
      BY <2>2, <2>3, <2>4, <2>5, <3>1
  <2>10. \A m, k \in Chain(d)' : renewal[m].prior = renewal[k].prior => m = k
    BY <2>2, <2>3
  <2>11. /\ renewal' = renewal /\ ledger'[d].auth = n /\ ledger'[d].expires = renewal[n].until
         /\ \A e \in Deployments \ {d} : ledger'[e] = ledger[e]
    BY DEF Prolongs
  <2> SUFFICES ASSUME NEW e \in Deployments
               PROVE  /\ ledger'[e].count = Cardinality(Chain(e)')
                      /\ \A m, k \in Chain(e)' : renewal[m].prior = renewal[k].prior => m = k
                      /\ \A m \in Chain(e)' : renewal[m].prior \in {0} \cup (Chain(e)' \ {m})
                      /\ ledger'[e].auth \in {0} \cup Chain(e)'
                      /\ \A m \in Chain(e)' : /\ renewal[m].prior # ledger'[e].auth
                                             /\ renewal[m].until <= ledger'[e].expires
    BY <2>11 DEF ChainIsLinear
  <2>12. CASE e = d
    BY <2>7, <2>8, <2>9, <2>10, <2>11, <2>12
  <2>13. CASE e # d
    BY <2>1, <2>11, <2>13 DEF LedgerInv, ChainIsLinear
  <2> QED
    BY <2>12, <2>13
<1> QED
  BY <1>2, <1>3, <1>4, <1>5 DEF LedgerInv

LEMMA DeactivationKeepsLedger ==
  ASSUME TypeOK, LedgerInv, NEW d \in Deployments, NEW target \in States, Deactivate(d, target)
  PROVE  LedgerInv'
<1>1. ledger[d] \in Rows
  BY RowTypes DEF Deactivate, Active, TypeOK
<1>2. \A e \in Deployments : /\ ledger'[e].bundle = ledger[e].bundle
                             /\ ledger'[e].auth = ledger[e].auth
                             /\ ledger'[e].count = ledger[e].count
                             /\ ledger'[e].expires = ledger[e].expires
                             /\ ledger'[e].state = IF e = d THEN target ELSE ledger[e].state
  BY <1>1 DEF Deactivate, TypeOK, LedgerTypeOK, Rows
<1>3. OneActive'
  BY <1>2 DEF LedgerInv, OneActive, Active, Deactivate
<1>4. AppliedIsKnown'
  <2>1. \A m \in applied : renewal[m].deployment \in Deployments
    BY RenewalTypes DEF TypeOK, LedgerTypeOK
  <2> QED
    BY <1>2, <2>1 DEF LedgerInv, AppliedIsKnown, Deactivate
<1>5. ChainIsLinear'
  <2>1. \A e \in Deployments : Chain(e)' = Chain(e)
    BY DEF Deactivate, Chain
  <2> QED
    BY <1>2, <2>1 DEF LedgerInv, ChainIsLinear, Deactivate
<1>6. ProductionContinuesCanary'
  BY <1>2, SuccessionKept DEF LedgerInv, Deactivate, Active
<1> QED
  BY <1>3, <1>4, <1>5, <1>6 DEF LedgerInv

\* A renewal that is signed is not one of those consumed.
LEMMA SigningKeepsLedger ==
  ASSUME TypeOK, LedgerInv, NEW d \in Deployments, NEW prior, SignRenewal(d, prior)
  PROVE  LedgerInv'
<1>1. \A n \in applied : renewal'[n] = renewal[n]
  BY DEF SignRenewal, TypeOK, LedgerTypeOK
<1>2. UNCHANGED <<ledger, applied>>
  BY DEF SignRenewal
<1>3. \A e \in Deployments : Chain(e)' = Chain(e)
  BY <1>1, <1>2 DEF Chain
<1>4. AppliedIsKnown'
  BY <1>1, <1>2 DEF LedgerInv, AppliedIsKnown
<1>5. ChainIsLinear'
  <2>1. \A e \in Deployments : Chain(e) \subseteq applied
    BY DEF Chain
  <2> QED
    BY <1>1, <1>2, <1>3, <2>1 DEF LedgerInv, ChainIsLinear
<1> QED
  BY <1>2, <1>4, <1>5, SuccessionKept DEF LedgerInv, OneActive, Active

-----------------------------------------------------------------------------
(* The invariant: commands and evidence                                     *)

\* What was bound once stays bound.
LEMMA EvidenceStays ==
  ASSUME NEW s, EvidenceBinds(s),
         shadow \subseteq shadow', testnet \subseteq testnet', canaryReport \subseteq canaryReport'
  PROVE  EvidenceBinds(s)'
  BY DEF EvidenceBinds

EvidenceInv == RowsAreSigned /\ SignedIsPrepared /\ PreparedIsBound

\* The rows of a step come from where rows came from, or from a signed bundle.
LEMMA EvidenceKept ==
  ASSUME EvidenceInv, UNCHANGED <<signed, evidenceVars>>,
         \A d \in Deployments : \/ ledger'[d].state = "absent"
                                \/ ledger'[d].bundle \in signed
  PROVE  EvidenceInv'
<1>1. PreparedIsBound'
  BY EvidenceStays DEF EvidenceInv, PreparedIsBound, evidenceVars
<1> QED
  BY <1>1 DEF EvidenceInv, RowsAreSigned, SignedIsPrepared, evidenceVars

\* A controller that finishes, or another one's signature, disturbs no command.
LEMMA CommandsKept ==
  ASSUME CommandsWait, UNCHANGED now, signed \subseteq signed',
         \A c \in Controllers : command'[c] = command[c] \/ command'[c] = Idle
  PROVE  CommandsWait'
  BY DEF CommandsWait

LEMMA LedgerStep ==
  ASSUME TypeOK, Governed, LedgerNext, UNCHANGED evidenceVars
  PROVE  Governed'
<1> USE DEF Governed
<1>0. LedgerInv /\ EvidenceInv
  BY DEF LedgerInv, EvidenceInv
<1>a. ASSUME LedgerInv', EvidenceInv', CommandsWait' PROVE Governed'
  BY <1>a DEF LedgerInv, EvidenceInv
<1>b. ASSUME NEW c \in Controllers, NEW d \in Deployments, NEW b \in Bundles, Admits(c, d, b)
      PROVE  Governed'
  <2>1. LedgerInv'
    BY <1>0, <1>b, AdmissionKeepsLedger
  <2>2. \A e \in Deployments : \/ ledger'[e].state = "absent"
                               \/ ledger'[e].bundle \in signed
    <3> TAKE e \in Deployments
    <3>1. CASE e = d
      BY <1>b, <3>1 DEF Admits, AdmittedRow
    <3>2. CASE e # d /\ ledger'[e] = ledger[e]
      BY <3>2 DEF RowsAreSigned
    <3>3. CASE Active(e) /\ ledger'[e] = [ledger[e] EXCEPT !.state = "superseded"]
      <4>1. ledger[e] \in Rows /\ ledger[e].bundle \in signed
        BY <3>3, RowTypes DEF Active, TypeOK, RowsAreSigned
      <4> QED
        BY <3>3, <4>1 DEF Rows
    <3> QED
      BY <1>b, <3>1, <3>2, <3>3 DEF Admits
  <2>3. EvidenceInv'
    BY <1>0, <1>b, <2>2, EvidenceKept DEF Admits
  <2>4. \A k \in Controllers : command'[k] = command[k] \/ command'[k] = Idle
    BY <1>b DEF Admits, TypeOK, LedgerTypeOK
  <2>5. UNCHANGED <<now, signed>>
    BY <1>b DEF Admits
  <2> QED
    BY <1>a, <2>1, <2>3, <2>4, <2>5, CommandsKept
<1>c. ASSUME UNCHANGED <<now, ledger, renewal, applied, signed>>,
             CommandsWait'
      PROVE  Governed'
  <2>1. LedgerInv'
    BY <1>0, <1>c, LedgerKept
  <2>2. EvidenceInv'
    BY <1>0, <1>c, EvidenceKept DEF RowsAreSigned
  <2> QED
    BY <1>a, <1>c, <2>1, <2>2
<1>1. ASSUME NEW c \in Controllers, NEW b \in signed, NEW running \in Builds,
             BeginAdmit(c, b, running)
      PROVE  Governed'
  <2>1. \A k \in Controllers :
           command'[k] = IF k = c THEN [op |-> "admit", bundle |-> b, at |-> now] ELSE command[k]
    BY <1>1 DEF BeginAdmit, TypeOK, LedgerTypeOK
  <2>2. now < b.until /\ now \in Nat /\ LockWait \in Nat
    BY <1>1, LedgerAssumption DEF BeginAdmit, VerifiedAdmission, IsActive, TypeOK, LedgerTypeOK
  <2>3. UNCHANGED <<now, ledger, renewal, applied, signed>>
    BY <1>1 DEF BeginAdmit
  <2>4. CommandsWait'
    BY <2>1, <2>2, <2>3 DEF CommandsWait
  <2> QED
    BY <1>c, <2>3, <2>4
<1>2. ASSUME NEW c \in Controllers, AdmitCanary(c) PROVE Governed'
  BY <1>2, <1>b, CanaryAdmits
<1>3. ASSUME NEW c \in Controllers, AdmitProduction(c) PROVE Governed'
  BY <1>3, <1>b, ProductionAdmits
<1>4. ASSUME NEW c \in Controllers, NEW n \in 1 .. MaxRenewals, BeginRenew(c, n)
      PROVE  Governed'
  <2>1. \A k \in Controllers :
           command'[k] = IF k = c THEN [op |-> "renew", renewal |-> n, at |-> now] ELSE command[k]
    BY <1>4 DEF BeginRenew, TypeOK, LedgerTypeOK
  <2>2. now \in Nat /\ LockWait \in Nat
    BY LedgerAssumption DEF TypeOK, LedgerTypeOK
  <2>3. UNCHANGED <<now, ledger, renewal, applied, signed>>
    BY <1>4 DEF BeginRenew
  <2>4. CommandsWait'
    BY <2>1, <2>2, <2>3 DEF CommandsWait
  <2> QED
    BY <1>c, <2>3, <2>4
<1>5. ASSUME NEW c \in Controllers, CommitRenew(c) PROVE Governed'
  <2>1. PICK n \in Signed, d \in Deployments : Prolongs(c, n, d)
    BY <1>5, RenewProlongs
  <2>2. LedgerInv'
    BY <1>0, <2>1, RenewalKeepsLedger
  <2>3. \A e \in Deployments : /\ ledger'[e].bundle = ledger[e].bundle
                               /\ ledger'[e].state = ledger[e].state
    BY <2>1 DEF Prolongs
  <2>4. EvidenceInv'
    BY <1>0, <2>1, <2>3, EvidenceKept DEF Prolongs, RowsAreSigned
  <2>5. \A k \in Controllers : command'[k] = command[k] \/ command'[k] = Idle
    BY <2>1 DEF Prolongs, TypeOK, LedgerTypeOK
  <2>6. UNCHANGED <<now, signed>>
    BY <2>1 DEF Prolongs
  <2> QED
    BY <1>a, <2>2, <2>4, <2>5, <2>6, CommandsKept
<1>6. ASSUME NEW c \in Controllers, CommandFails(c) PROVE Governed'
  <2>1. UNCHANGED <<now, ledger, renewal, applied, signed>>
    BY <1>6 DEF CommandFails
  <2>2. \A k \in Controllers : command'[k] = command[k] \/ command'[k] = Idle
    BY <1>6 DEF CommandFails, TypeOK, LedgerTypeOK
  <2> QED
    BY <1>c, <2>1, <2>2, CommandsKept
<1>7. ASSUME NEW d \in Deployments, NEW prior \in 0 .. MaxRenewals, SignRenewal(d, prior)
      PROVE  Governed'
  <2>1. LedgerInv'
    BY <1>0, <1>7, SigningKeepsLedger
  <2>2. UNCHANGED <<now, ledger, signed, command>>
    BY <1>7 DEF SignRenewal
  <2>3. EvidenceInv'
    BY <1>0, <2>2, EvidenceKept DEF RowsAreSigned
  <2> QED
    BY <1>a, <2>1, <2>2, <2>3, CommandsKept
<1>8. ASSUME NEW d \in Deployments, NEW target \in States, Deactivate(d, target)
      PROVE  Governed'
  <2>1. LedgerInv'
    BY <1>0, <1>8, DeactivationKeepsLedger
  <2>2. ledger[d] \in Rows /\ ledger[d].bundle \in signed
    BY <1>8, RowTypes DEF Deactivate, Active, TypeOK, RowsAreSigned
  <2>3. \A e \in Deployments : \/ ledger'[e].state = "absent"
                               \/ ledger'[e].bundle \in signed
    BY <1>8, <2>2 DEF Deactivate, TypeOK, LedgerTypeOK, Rows, RowsAreSigned
  <2>4. UNCHANGED <<now, signed, command>>
    BY <1>8 DEF Deactivate
  <2>5. EvidenceInv'
    BY <1>0, <2>3, <2>4, EvidenceKept
  <2> QED
    BY <1>a, <2>1, <2>4, <2>5, CommandsKept
<1>9. ASSUME Tick PROVE Governed'
  <2>1. /\ now' = now + 1 /\ now \in Nat /\ LockWait \in Nat
        /\ \A c \in Controllers : command[c] # Idle => now < command[c].at + LockWait
        /\ UNCHANGED <<signed, renewal, ledger, applied, command>>
    BY <1>9, LedgerAssumption DEF Tick, TypeOK, LedgerTypeOK
  <2>2. \A c \in Controllers : command[c] # Idle => command[c].at \in Nat
    BY DEF TypeOK, LedgerTypeOK, Idle
  <2>3. CommandsWait'
    BY <2>1, <2>2 DEF CommandsWait
  <2>4. LedgerInv' /\ EvidenceInv'
    BY <1>0, <2>1, LedgerKept, EvidenceKept DEF RowsAreSigned
  <2> QED
    BY <1>a, <2>3, <2>4
<1> QED
  BY <1>1, <1>2, <1>3, <1>4, <1>5, <1>6, <1>7, <1>8, <1>9 DEF LedgerNext

\* Evidence grows, bundles are prepared from it and signed after that.
LEMMA GovernedStep ==
  ASSUME TypeOK, Governed, [Next]_vars
  PROVE  Governed'
<1>1. ASSUME UNCHANGED <<now, ledger, renewal, applied, command>>, signed \subseteq signed',
             EvidenceInv'
      PROVE  Governed'
  <2>1. LedgerInv'
    BY <1>1, LedgerKept DEF Governed, LedgerInv
  <2>2. CommandsWait'
    BY <1>1, CommandsKept DEF Governed
  <2> QED
    BY <1>1, <2>1, <2>2 DEF Governed, LedgerInv, EvidenceInv
<1>2. ASSUME UNCHANGED ledgerVars, prepared' = prepared,
             shadow \subseteq shadow', testnet \subseteq testnet',
             canaryReport \subseteq canaryReport'
      PROVE  Governed'
  <2>1. PreparedIsBound'
    BY <1>2, EvidenceStays DEF Governed, PreparedIsBound
  <2> QED
    BY <1>1, <1>2, <2>1 DEF ledgerVars, Governed, EvidenceInv, RowsAreSigned, SignedIsPrepared
<1>3. ASSUME NEW b \in Builds, ShadowPasses(b) PROVE Governed'
  BY <1>2, <1>3 DEF ShadowPasses
<1>4. ASSUME NEW b \in Builds, NEW o \in TestnetObservations, EvaluateTestnet(b, o)
      PROVE  Governed'
  BY <1>2, <1>4 DEF EvaluateTestnet
<1>5. ASSUME NEW d \in Deployments, NEW o \in CanaryObservations, EvaluateCanary(d, o)
      PROVE  Governed'
  BY <1>2, <1>5 DEF EvaluateCanary
<1>6. ASSUME NEW s \in Specs, PrepareRelease(s) PROVE Governed'
  <2>1. PreparedIsBound'
    BY <1>6 DEF PrepareRelease, Governed, PreparedIsBound, EvidenceBinds
  <2> QED
    BY <1>1, <1>6, <2>1
    DEF PrepareRelease, ledgerVars, Governed, EvidenceInv, RowsAreSigned, SignedIsPrepared
<1>7. ASSUME NEW b \in prepared, SignApproval(b) PROVE Governed'
  <2>1. PreparedIsBound'
    BY <1>7, EvidenceStays DEF SignApproval, evidenceVars, Governed, PreparedIsBound
  <2> QED
    BY <1>1, <1>7, <2>1
    DEF SignApproval, evidenceVars, Governed, EvidenceInv, RowsAreSigned, SignedIsPrepared
<1>8. CASE UNCHANGED vars
  BY <1>2, <1>8 DEF vars, evidenceVars
<1>9. CASE LedgerNext /\ UNCHANGED evidenceVars
  BY <1>9, LedgerStep
<1> QED
  BY <1>3, <1>4, <1>5, <1>6, <1>7, <1>8, <1>9 DEF Next

\* Before anything was admitted.
LEMMA InitGoverned == Init => Governed
<1> SUFFICES ASSUME Init PROVE Governed
  OBVIOUS
<1>1. \A d \in Deployments : ledger[d].state = "absent" /\ ledger[d].count = 0 /\ ledger[d].auth = 0
  BY DEF Init, LedgerInit, NoRow
<1>2. \A d \in Deployments : Chain(d) = {}
  BY DEF Init, LedgerInit, Chain
<1>3. ChainIsLinear
  BY <1>1, <1>2, FS_EmptySet DEF ChainIsLinear
<1>4. OneActive /\ ProductionContinuesCanary /\ RowsAreSigned
  BY <1>1 DEF OneActive, Active, ProductionContinuesCanary, RowsAreSigned
<1> QED
  BY <1>3, <1>4
  DEF Governed, Init, LedgerInit, CommandsWait, AppliedIsKnown, SignedIsPrepared, PreparedIsBound

-----------------------------------------------------------------------------
(* The theorems                                                             *)

\* Every variable keeps its type, for any specifications, renewals and controllers.
THEOREM GovernanceTypeCorrect == Spec => []TypeOK
<1>1. TypeOK /\ [Next]_vars => TypeOK'
  BY StepTypes
<1> QED
  BY <1>1, InitTypes, PTL DEF Spec

\* Governed is an invariant of the specification.
THEOREM AlwaysGoverned == Spec => [](TypeOK /\ Governed)
<1>1. Init => TypeOK /\ Governed
  BY InitTypes, InitGoverned
<1>2. TypeOK /\ Governed /\ [Next]_vars => (TypeOK /\ Governed)'
  BY StepTypes, GovernedStep
<1> QED
  BY <1>1, <1>2, PTL DEF Spec

\* The chain of renewals never forks, whatever controllers race
\* (renew in governance/ledger.py).
THEOREM ChainsStayLinear == Spec => []ChainIsLinear
<1>1. Governed => ChainIsLinear
  BY DEF Governed
<1> QED
  BY <1>1, AlwaysGoverned, PTL

\* Production always continues the superseded canary it names
\* (admit in governance/ledger.py).
THEOREM SuccessionHolds == Spec => []ProductionContinuesCanary
<1>1. Governed => ProductionContinuesCanary
  BY DEF Governed
<1> QED
  BY <1>1, AlwaysGoverned, PTL

\* Whatever is in the ledger was rehearsed with the admitted build
\* (governance/bundle.py with governance/ledger.py).
THEOREM RehearsalHolds == Spec => []AdmittedWasRehearsed
<1>1. Governed => AdmittedWasRehearsed
  BY DEF Governed, AdmittedWasRehearsed, RowsAreSigned, SignedIsPrepared, PreparedIsBound,
         EvidenceBinds, ProductionContinuesCanary
<1> QED
  BY <1>1, AlwaysGoverned, PTL

-----------------------------------------------------------------------------
(* The ledger implements DeploymentAuthority                                *)

\* Nobody's authority changes.
LEMMA NoneChanges ==
  ASSUME \A e \in Deployments : AuthorityOf(e)' = AuthorityOf(e)
  PROVE  UNCHANGED authority
  BY DEF authority

\* One deployment's authority ends and nobody else's changes.
LEMMA OneEnds ==
  ASSUME NEW d \in Deployments,
         \A e \in Deployments \ {d} : AuthorityOf(e)' = AuthorityOf(e),
         \/ AuthorityOf(d)' = AuthorityOf(d)
         \/ AuthorityOf(d) = "held" /\ AuthorityOf(d)' = "ended"
  PROVE  [Authority!Next]_authority
<1>1. CASE AuthorityOf(d)' = AuthorityOf(d)
  BY <1>1, NoneChanges
<1>2. CASE AuthorityOf(d) = "held" /\ AuthorityOf(d)' = "ended"
  BY <1>2 DEF authority, Authority!Next, Authority!End
<1> QED
  BY <1>1, <1>2

\* An admission grants authority, which whoever had it loses.
LEMMA AdmissionGrants ==
  ASSUME TypeOK, Governed, NEW c \in Controllers, NEW d \in Deployments, NEW b \in Bundles,
         Admits(c, d, b)
  PROVE  [Authority!Next]_authority
<1>1. AuthorityOf(d) = "none"
  BY DEF Admits, AuthorityOf
<1>2. AuthorityOf(d)' = "held"
  <2>1. /\ ledger'[d].state = "active" /\ ledger'[d].expires = b.until /\ now' = now
        /\ command[c].at < b.until /\ now <= command[c].at + LockWait
    BY DEF Admits, AdmittedRow
  <2>2. command[c].at \in Nat /\ b.until \in Nat /\ now \in Nat /\ LockWait \in Nat
    BY CommandTypes, LedgerAssumption DEF Admits, TypeOK, LedgerTypeOK, Bundles
  <2> QED
    BY <2>1, <2>2 DEF AuthorityOf, Active
<1>3. \A e \in Deployments \ {d} :
         AuthorityOf(e)' = IF AuthorityOf(e) = "held" THEN "ended" ELSE AuthorityOf(e)
  <2> TAKE e \in Deployments \ {d}
  <2>1. ~ Active(e)' /\ now' = now
    BY DEF Admits
  <2>2. CASE ledger'[e] = ledger[e]
    BY <2>1, <2>2 DEF AuthorityOf, Active
  <2>3. CASE Active(e) /\ ledger'[e] = [ledger[e] EXCEPT !.state = "superseded"]
    <3>1. ledger'[e].state = "superseded"
      BY <2>3, RowTypes DEF Active, TypeOK, Rows
    <3> QED
      BY <2>3, <3>1 DEF AuthorityOf, Active
  <2> QED
    BY <2>2, <2>3 DEF Admits
<1>4. Authority!Grant(d)
  BY <1>1, <1>2, <1>3 DEF authority, Authority!Grant
<1> QED
  BY <1>4 DEF Authority!Next

\* Rows and clock alone decide.
LEMMA RowsDecide ==
  ASSUME UNCHANGED <<now, ledger>>
  PROVE  [Authority!Next]_authority
  BY NoneChanges DEF AuthorityOf, Active

LEMMA StepRefines ==
  ASSUME TypeOK, Governed, [Next]_vars
  PROVE  [Authority!Next]_authority
<1>1. ASSUME NEW c \in Controllers, AdmitCanary(c), UNCHANGED evidenceVars
      PROVE  [Authority!Next]_authority
  BY <1>1, CanaryAdmits, AdmissionGrants
<1>2. ASSUME NEW c \in Controllers, AdmitProduction(c), UNCHANGED evidenceVars
      PROVE  [Authority!Next]_authority
  BY <1>2, ProductionAdmits, AdmissionGrants
<1>3. ASSUME NEW c \in Controllers, CommitRenew(c), UNCHANGED evidenceVars
      PROVE  [Authority!Next]_authority
  <2>1. PICK n \in Signed, d \in Deployments : Prolongs(c, n, d)
    BY <1>3, RenewProlongs
  <2>2. /\ command[c].at \in Nat /\ now \in Nat /\ LockWait \in Nat
        /\ ledger[d].expires \in Nat /\ renewal[n].until \in Nat
    BY <2>1, CommandTypes, RenewalTypes, RowTypes, LedgerAssumption
    DEF Prolongs, TypeOK, LedgerTypeOK, Active, Rows
  <2>3. /\ command[c].at < ledger[d].expires /\ now <= command[c].at + LockWait
        /\ renewal[n].until > ledger[d].expires /\ ledger'[d].expires = renewal[n].until
        /\ ledger[d].state = "active" /\ ledger'[d].state = "active" /\ now' = now
        /\ \A e \in Deployments \ {d} : ledger'[e] = ledger[e]
    BY <2>1 DEF Prolongs, Active
  <2>4. AuthorityOf(d)' = AuthorityOf(d)
    BY <2>2, <2>3 DEF AuthorityOf, Active
  <2>5. \A e \in Deployments \ {d} : AuthorityOf(e)' = AuthorityOf(e)
    BY <2>3 DEF AuthorityOf, Active
  <2>6. \A e \in Deployments : AuthorityOf(e)' = AuthorityOf(e)
    BY <2>4, <2>5
  <2> QED
    BY <2>6, NoneChanges
<1>4. ASSUME NEW d \in Deployments, NEW target \in States, Deactivate(d, target)
      PROVE  [Authority!Next]_authority
  <2>1. ledger[d] \in Rows
    BY <1>4, RowTypes DEF Deactivate, Active, TypeOK
  <2>2. /\ ledger[d].state = "active" /\ ledger'[d].state \in {"rolled_back", "revoked"}
        /\ \A e \in Deployments \ {d} : ledger'[e] = ledger[e]
        /\ now' = now
    BY <1>4, <2>1 DEF Deactivate, Active, TypeOK, LedgerTypeOK, Rows
  <2>3. AuthorityOf(d) \in {"held", "ended"} /\ AuthorityOf(d)' = "ended"
    BY <2>2 DEF AuthorityOf, Active
  <2>4. \A e \in Deployments \ {d} : AuthorityOf(e)' = AuthorityOf(e)
    BY <2>2 DEF AuthorityOf, Active
  <2> QED
    BY <2>3, <2>4, OneEnds
<1>5. ASSUME Tick
      PROVE  [Authority!Next]_authority
  <2>1. now' = now + 1 /\ ledger' = ledger /\ now \in Nat /\ LockWait \in Nat
    BY <1>5, LedgerAssumption DEF Tick, TypeOK, LedgerTypeOK
  <2>2. \A e \in Deployments : ~ Active(e) => AuthorityOf(e)' = AuthorityOf(e)
    BY <2>1 DEF AuthorityOf, Active
  <2>3. CASE \A e \in Deployments : ~ Active(e)
    BY <2>2, <2>3, NoneChanges
  <2>4. ASSUME NEW d \in Deployments, Active(d)
        PROVE  [Authority!Next]_authority
    <3>1. \A e \in Deployments \ {d} : AuthorityOf(e)' = AuthorityOf(e)
      BY <2>2, <2>4 DEF Governed, OneActive
    <3>2. ledger[d].expires \in Nat
      BY <2>4, RowTypes DEF Active, TypeOK, Rows
    <3>3. \/ AuthorityOf(d)' = AuthorityOf(d)
          \/ AuthorityOf(d) = "held" /\ AuthorityOf(d)' = "ended"
      BY <2>1, <2>4, <3>2 DEF AuthorityOf, Active
    <3>4. CASE AuthorityOf(d)' = AuthorityOf(d)
      <4>1. \A e \in Deployments : AuthorityOf(e)' = AuthorityOf(e)
        BY <3>1, <3>4
      <4> QED
        BY <4>1, NoneChanges
    <3>5. CASE AuthorityOf(d) = "held" /\ AuthorityOf(d)' = "ended"
      BY <3>1, <3>5, OneEnds
    <3> QED
      BY <3>3, <3>4, <3>5
  <2> QED
    BY <2>3, <2>4
<1>6. CASE UNCHANGED <<now, ledger>>
  BY <1>6, RowsDecide
<1>7. ASSUME LedgerNext, UNCHANGED evidenceVars
      PROVE  [Authority!Next]_authority
  BY <1>1, <1>2, <1>3, <1>4, <1>5, <1>6, <1>7
  DEF LedgerNext, BeginAdmit, BeginRenew, CommandFails, SignRenewal
<1>8. ASSUME [Next]_vars, ~ (LedgerNext /\ UNCHANGED evidenceVars)
      PROVE  UNCHANGED <<now, ledger>>
  BY <1>8 DEF Next, ShadowPasses, EvaluateTestnet, EvaluateCanary, PrepareRelease, SignApproval,
              vars, ledgerVars
<1> QED
  BY <1>6, <1>7, <1>8

\* The ledger implements its promise: authority is held by one deployment at a
\* time and never returns (renew, admit and deactivate in governance/ledger.py).
THEOREM LedgerRefines == Spec => AuthorityNeverReturns
<1>1. Init => Authority!Init
  BY DEF Init, LedgerInit, NoRow, AuthorityOf, authority, Authority!Init
<1>2. TypeOK /\ Governed /\ [Next]_vars
         => [Authority!Next]_authority
  BY StepRefines
<1> QED
  BY <1>1, <1>2, AlwaysGoverned, PTL DEF Spec, AuthorityNeverReturns, Authority!Spec
=============================================================================
