-------------------------- MODULE ReleaseGovernance --------------------------
(***************************************************************************)
(* How a build comes to trade: a shadow deployment and a testnet rehearsal *)
(* produce reports (governance/evidence.py), a release is prepared from    *)
(* them (governance/bundle.py), signed offline and admitted to the ledger. *)
(* A canary run produces the report that production needs.                 *)
(*                                                                         *)
(* Reports are files that stay. Each binds a build, or the canary it was   *)
(* observed on; what the numbers in an observation are worth is decided by *)
(* the gates of a frozen policy.                                           *)
(***************************************************************************)
EXTENDS DeploymentLedger

CONSTANTS
    Policy,                 \* the thresholds frozen before the observation
    TestnetObservations,    \* inputs of evaluate-testnet
    CanaryObservations      \* inputs of evaluate-canary

VARIABLES
    shadow,         \* builds with a shadow report that passed every gate
    testnet,        \* builds with a rehearsal report that passed every gate
    canaryReport,   \* deployments with a canary report that passed every gate
    prepared        \* unsigned bundles on the operator's disk

evidenceVars == <<shadow, testnet, canaryReport, prepared>>
vars == <<ledgerVars, evidenceVars>>

-----------------------------------------------------------------------------
(* The gates                                                                *)

\* evaluate_testnet_evidence
TestnetGates(o) ==
    /\ Policy.frozen <= o.started
    /\ o.ended - o.started >= Policy.duration
    /\ o.orders >= Policy.orders /\ o.fills >= Policy.fills
    /\ o.scenarios = Policy.scenarios
    /\ o.failed \cap Policy.scenarios = {}
    /\ o.resolved = o.unknown
    /\ o.reconciliationFailures = 0 /\ o.duplicates = 0 /\ o.breaches = 0
    /\ o.cancelAlls >= Policy.cancelAlls
    /\ o.deadman >= Policy.deadman
    /\ o.position = 0 /\ o.openOrders = 0
    /\ ~ o.mainnetCredentials

\* TestnetDressRehearsalObservation and CanaryObservation: the counts reconcile.
Reconciles(o) == /\ o.ended > o.started
                 /\ o.fills <= o.orders
                 /\ "unknown" \in DOMAIN o => o.resolved <= o.unknown
                 /\ "makerFills" \in DOMAIN o => o.makerFills <= o.fills
                 /\ "rejected" \in DOMAIN o => o.rejected <= o.orders

\* evaluate_canary_evidence: the fraction of rejections in hundredths
CanaryGates(o, b) ==
    /\ o.ended - o.started >= Policy.duration
    /\ o.orders >= Policy.orders /\ o.fills >= Policy.fills
    /\ o.makerFills >= Policy.makerFills
    /\ o.orders > 0 /\ 100 * o.rejected <= Policy.rejectedPercent * o.orders
    /\ o.unknowns = 0 /\ o.reconciliationFailures = 0
    /\ o.feeEvents >= o.fills /\ o.fundingEvents >= 1
    /\ Policy.positivePnl => o.pnl > 0
    /\ o.drawdown <= Policy.drawdown
    /\ o.markout >= 0 - Policy.markout
    /\ o.equity <= Policy.capital[b]
    /\ Policy.drills \subseteq o.drills

-----------------------------------------------------------------------------
(* Evidence                                                                 *)

\* The shadow component reaches its approval boundary (shadow/evidence.py).
ShadowPasses(b) == /\ shadow' = shadow \cup {b}
                   /\ UNCHANGED <<ledgerVars, testnet, canaryReport, prepared>>

EvaluateTestnet(b, o) == /\ Reconciles(o) /\ TestnetGates(o)
                         /\ testnet' = testnet \cup {b}
                         /\ UNCHANGED <<ledgerVars, shadow, canaryReport, prepared>>

\* Only a canary that is ACTIVE in the ledger is evaluated, expired or not.
EvaluateCanary(d, o) ==
    /\ Active(d) /\ ledger[d].bundle.spec.stage = "canary"
    /\ Reconciles(o) /\ CanaryGates(o, ledger[d].bundle.spec.build)
    /\ canaryReport' = canaryReport \cup {d}
    /\ UNCHANGED <<ledgerVars, shadow, testnet, prepared>>

-----------------------------------------------------------------------------
(* The release                                                              *)

\* Slip: the report of any canary will do.
EvidenceBindsAny(s) == /\ s.build \in shadow
                       /\ s.build \in testnet
                       /\ s.stage = "production" => canaryReport # {}

\* _validate_semantics: each report binds what is released, and the canary
\* report the deployment that production would roll back to.
EvidenceBinds(s) == /\ s.build \in shadow
                    /\ s.build \in testnet
                    /\ s.stage = "production" => s.rollback \in canaryReport

\* prepare_release_bundle: the directory appears by one rename or not at all.
PrepareRelease(s) ==
    /\ EvidenceBinds(s)
    /\ \A b \in prepared : b.spec # s       \* the output directory is new
    /\ prepared' = prepared \cup {[spec |-> s, from |-> now, until |-> now + TTL]}
    /\ UNCHANGED <<ledgerVars, shadow, testnet, canaryReport>>

\* The approver signs the canonical bytes of the unsigned approval.
SignApproval(b) == /\ b \in prepared
                   /\ signed' = signed \cup {b}
                   /\ UNCHANGED <<now, renewal, ledger, applied, command, evidenceVars>>

-----------------------------------------------------------------------------
Init == /\ LedgerInit
        /\ shadow = {} /\ testnet = {} /\ canaryReport = {} /\ prepared = {}

Next == \/ LedgerNext /\ UNCHANGED evidenceVars
        \/ \E b \in Builds : \/ ShadowPasses(b)
                             \/ \E o \in TestnetObservations : EvaluateTestnet(b, o)
        \/ \E d \in Deployments, o \in CanaryObservations : EvaluateCanary(d, o)
        \/ \E s \in Specs : PrepareRelease(s)
        \/ \E b \in prepared : SignApproval(b)

Spec == Init /\ [][Next]_vars

-----------------------------------------------------------------------------
(* Properties                                                               *)

\* The values of every variable. A type invariant.
TypeOK == /\ LedgerTypeOK
          /\ shadow \subseteq Builds /\ testnet \subseteq Builds
          /\ canaryReport \subseteq Deployments
          /\ prepared \subseteq Bundles

\* Nothing is admitted that was not rehearsed: across prepare, sign, verify and
\* admit the evidence is of the admitted build, and production's is of the very
\* canary it took over from (governance/bundle.py with governance/ledger.py).
AdmittedWasRehearsed ==
    \A d \in Deployments : ledger[d].state # "absent" =>
        LET s == ledger[d].bundle.spec
        IN  /\ s.build \in shadow \cap testnet
            /\ s.stage = "production" => /\ s.rollback \in canaryReport
                                         /\ ledger[s.rollback].state = "superseded"
=============================================================================
