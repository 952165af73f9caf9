--------------------------- MODULE LegacyCleanup ---------------------------
(***************************************************************************)
(* What remains of the old trader, put in writing before it is removed.  A *)
(* cleanup bundle holds an inventory audit, the state of every target, raw *)
(* captures and a credential scan.  It is used twice: once to assemble the *)
(* manifest a person approves, and again right before the work, when the   *)
(* preflight demands that nothing approved has changed since.  The action  *)
(* plan orders the targets by stage.                                       *)
(***************************************************************************)
EXTENDS LegacyDisabled, SequencesExt

Scopes == {"mql5_source", "legacy_lifecycle", "legacy_research", "legacy_operations",
           "legacy_tests_and_docs", "runtime_state", "host_dependencies",
           "credentials_and_sessions", "native_package_migration"}
PathKinds == {"repository_path", "runtime_path"}
HostKinds == {"host_integration", "host_package"}
Stages == <<"credential_revocation", "runtime_retirement", "host_integration_removal",
            "host_package_removal", "native_repository_migration",
            "repository_retirement">>

CleanupBundleIsSound(b) == IsSound(b, MaxFiles)

-----------------------------------------------------------------------------
(* Targets.  A locator is a path, as the sequence of its parts, or the one *)
(* name of a secret or package.                                            *)

Inside(inner, outer) == IsStrictPrefix(outer, inner)
Overlaps(a, b) == a = b \/ Inside(a, b) \/ Inside(b, a)

LocatorIsBounded(kind, locator) ==
    CASE kind = "repository_path" -> locator # <<>> /\ locator[1] # "/"
      [] kind \in {"runtime_path", "host_integration"} -> Len(locator) >= 4 /\ locator[1] = "/"
      [] OTHER -> Len(locator) = 1

\* Which actions a kind of target admits.
ActionFits(kind, action) ==
    CASE kind = "secret_reference" -> action = "revoke"
      [] kind \in HostKinds -> action = "remove"
      [] kind = "runtime_path" -> action \in {"remove", "retain_archive_only"}
      [] OTHER -> action \in {"remove", "retain_archive_only", "migrate_native"}

TargetIsActionable(t) ==
    /\ LocatorIsBounded(t.kind, t.locator)
    /\ ActionFits(t.kind, t.action)
    /\ IF t.action = "migrate_native"
       THEN t.destination # <<>> /\ t.destination # t.locator
       ELSE t.destination = <<>>

\* No target lies inside another one, no migration ends inside a source.
TargetsAreDisjoint(targets) ==
    /\ \A t, u \in targets : t # u =>
          /\ t.id # u.id
          /\ t.kind = u.kind => t.locator # u.locator
          /\ t.kind = u.kind /\ t.kind \in PathKinds \union {"host_integration"}
                => ~Overlaps(t.locator, u.locator)
          /\ t.destination # <<>> => t.destination # u.destination
    /\ \A t, u \in targets :
          t.destination # <<>> /\ u.kind = "repository_path"
             => ~Overlaps(t.destination, u.locator)

StageOf(t) == IF t.action = "revoke" THEN "credential_revocation"
              ELSE IF t.kind = "runtime_path" THEN "runtime_retirement"
              ELSE IF t.kind = "host_integration" THEN "host_integration_removal"
              ELSE IF t.kind = "host_package" THEN "host_package_removal"
              ELSE IF t.action = "migrate_native" THEN "native_repository_migration"
              ELSE "repository_retirement"
StageRank(t) == CHOOSE i \in DOMAIN Stages : Stages[i] = StageOf(t)

OutcomeOf(t) == CASE t.action = "revoke" -> "revoked_secret"
                  [] t.action = "migrate_native" -> "native_migration"
                  [] t.action = "retain_archive_only" -> "archive_only"
                  [] t.kind \in PathKinds -> "removed_path"
                  [] OTHER -> "removed_host"

-----------------------------------------------------------------------------
(* The evidence of a target's state.  proof holds what its raw captures    *)
(* must show: the inventory of a path, the configuration and the ownership *)
(* of a host dependency, the record and the sessions of a secret.          *)

ExpectedState(s) == [kind |-> s.kind, locator |-> s.locator, proof |-> s.proof]

CleanupTarget(id, e) ==
    [id |-> id, kind |-> e.state.kind, locator |-> e.state.locator, action |-> e.action,
     destination |-> e.destination, expected |-> ExpectedState(e.state)]

TargetEvidenceIsValid(id, e) ==
    /\ IsIndependent(e) /\ e.invalidating = {}
    /\ Cardinality(Range(e.state.artifacts)) = Len(e.state.artifacts)
    /\ Len(e.state.artifacts) = IF e.state.kind \in PathKinds THEN 1 ELSE 2
    /\ TargetIsActionable(CleanupTarget(id, e))

PathInventory(s, m) ==
    [kind |-> s.kind, locator |-> s.locator, captured |-> s.captured, content |-> s.proof[1],
     commit |-> IF s.kind = "repository_path" THEN m.commit ELSE "none"]

StateIsProven(s, f, m) ==
    /\ Range(s.artifacts) \subseteq DOMAIN f.raw
    /\ IF s.kind \in PathKinds
       THEN f.raw[s.artifacts[1]] = PathInventory(s, m)
       ELSE [i \in DOMAIN s.artifacts |-> f.raw[s.artifacts[i]]] = s.proof

\* Every scope is audited, every target belongs to exactly one of them, and
\* every raw capture is evidence of a scope or of a target.
AuditIsExact(a, m) ==
    /\ a.observed <= a.reviewed /\ IsIndependent(a) /\ a.invalidating = {}
    /\ DOMAIN a.targets = Scopes /\ DOMAIN a.evidence = Scopes
    /\ \A s, u \in Scopes : s # u => a.targets[s] \cap a.targets[u] = {}
    /\ \A s \in Scopes : a.evidence[s] # {}

ScopesAndRawAreProven(f, m) ==
    LET scopeRaw == UNION {f.audit.evidence[s] : s \in Scopes}
        targetRaw == UNION {Range(f.targets[t].state.artifacts) : t \in DOMAIN f.targets}
    IN  /\ UNION {f.audit.targets[s] : s \in Scopes} = DOMAIN f.targets
        /\ scopeRaw \subseteq DOMAIN f.raw
        /\ \A t \in DOMAIN f.targets : StateIsProven(f.targets[t].state, f, m)
        /\ scopeRaw \union targetRaw = DOMAIN f.raw

CleanupManifestIsExact(m, f) ==
    /\ DOMAIN m.captured = DOMAIN f.raw
    /\ \A r \in DOMAIN m.captured : m.captured[r] <= m.created
    /\ m.controls <= m.created

\* The evidence follows a disabled report that passed, and its archive.
CleanupLineage(m, f, report, archive, assembled) ==
    /\ report.awaitingCleanup
    /\ m.retirement = report.observation.retirement /\ m.retirement = archive.retirement
    /\ f.audit.retirement = m.retirement /\ f.scan.retirement = m.retirement
    /\ \A t \in DOMAIN f.targets : f.targets[t].retirement = m.retirement
    /\ m.commit = archive.commit /\ f.audit.commit = m.commit /\ archive.tag = m.commit
    /\ m.archive = archive.id /\ m.report = report.id
    /\ report.observation.archive = archive.id
    /\ archive.retention >= assembled + Policy.minRetention
    /\ report.generated <= m.created
    /\ f.audit.reviewed <= m.created /\ f.scan.reviewed <= m.created
    /\ \A t \in DOMAIN f.targets : f.targets[t].state.captured <= m.created

\* The scan read every document but itself.
CleanupScanIsProven(f) ==
    /\ IsReviewed(f.scan) /\ f.scan.policy = ScanPolicy.id /\ f.scan.findings = {}
    /\ f.scan.checks = <<f.raw, f.targets, f.audit>>

CleanupManifest(b, assembled) ==
    [id |-> <<"manifest", b.sha, assembled>>, bundle |-> b.sha, created |-> assembled, retirement |-> b.manifest.retirement,
     commit |-> b.manifest.commit, archive |-> b.manifest.archive,
     report |-> b.manifest.report,
     targets |-> {CleanupTarget(t, b.files.targets[t]) : t \in DOMAIN b.files.targets}]

CleanupIsAssembled(b, report, archive, assembled) ==
    LET f == b.files  m == b.manifest IN
    /\ m.created <= assembled
    /\ CleanupManifestIsExact(m, f)
    /\ CleanupBundleIsSound(b)
    /\ AuditIsExact(f.audit, m)
    /\ \A t \in DOMAIN f.targets : TargetEvidenceIsValid(t, f.targets[t])
    /\ CleanupLineage(m, f, report, archive, assembled)
    /\ ScopesAndRawAreProven(f, m)
    /\ CleanupScanIsProven(f)
    /\ TargetsAreDisjoint(CleanupManifest(b, assembled).targets)

CleanupIsVerified(b, c, report, archive, now) ==
    /\ c.created <= now
    /\ CleanupIsAssembled(b, report, archive, c.created)
    /\ CleanupManifest(b, c.created) = c

EvidenceTimes(b) ==
    LET f == b.files IN
    {b.manifest.created, b.manifest.controls, f.audit.observed, f.audit.reviewed,
     f.scan.from, f.scan.to, f.scan.reviewed}
    \union Range(b.manifest.captured)
    \union {f.targets[t].state.captured : t \in DOMAIN f.targets}

-----------------------------------------------------------------------------
(* Preflight: the second bundle, captured after the approval, describes    *)
(* the approved targets in the approved state and is not yet stale.        *)

CleanupBindings(c, report) ==
    [retirement |-> c.retirement, scope |-> "remove_and_clean",
     report |-> report.id, manifest |-> c.id]

TargetInventory(t) == [f \in DOMAIN t \ {"expected"} |-> t[f]]

ApprovalFollowsManifest(approval, c) == c.created <= approval.approved
EvidenceFollowsApproval(action, approval) == approval.approved <= Min(EvidenceTimes(action))
StateExpiry(action) == Min(EvidenceTimes(action)) + Policy.maxCaptureSkew

PreflightReceipt(b, action, c, approval, evaluated) ==
    [id |-> <<"receipt", approval, c.id, action.sha, evaluated>>, evaluated |-> evaluated,
     approval |-> approval, manifest |-> c.id,
     snapshot |-> CleanupManifest(action, evaluated).id, bundle |-> action.sha,
     captureFrom |-> Min(EvidenceTimes(action)), captureTo |-> Max(EvidenceTimes(action)),
     validUntil |-> Min({StateExpiry(action), approval.expires}),
     targets |-> c.targets]

PreflightPasses(b, action, c, report, archive, approval, evaluated, now) ==
    /\ report.awaitingCleanup
    /\ CleanupIsVerified(b, c, report, archive, now)
    /\ CleanupIsAssembled(action, report, archive, evaluated)
    /\ ApprovalIsVerified(approval, CleanupBindings(c, report), evaluated)
    /\ ApprovalFollowsManifest(approval, c)
    /\ EvidenceFollowsApproval(action, approval)
    /\ evaluated < StateExpiry(action)
    /\ LET seen == CleanupManifest(action, evaluated).targets IN
          /\ {TargetInventory(t) : t \in seen} = {TargetInventory(t) : t \in c.targets}
          /\ {t.expected : t \in seen} = {t.expected : t \in c.targets}

ReceiptIsOrderly(r) == /\ r.captureFrom <= r.captureTo /\ r.captureTo <= r.evaluated
                       /\ r.evaluated < r.validUntil

PreflightIsVerified(b, action, r, c, report, archive, approval, now) ==
    /\ r.evaluated <= now /\ now < r.validUntil
    /\ PreflightPasses(b, action, c, report, archive, approval, r.evaluated, now)
    /\ PreflightReceipt(b, action, c, approval, r.evaluated) = r

-----------------------------------------------------------------------------
(* The plan: the approved targets in the order of their stages.            *)

\* The code orders the targets of one stage by their names.
PutByStage(t, steps) ==
    SelectSeq(steps, LAMBDA u : StageRank(u) <= StageRank(t)) \o <<t>>
    \o SelectSeq(steps, LAMBDA u : StageRank(u) > StageRank(t))

ActionPlan(r, c, prepared) ==
    [id |-> <<"plan", r.id, prepared>>, prepared |-> prepared, evaluated |-> r.evaluated, validUntil |-> r.validUntil,
     receipt |-> r.id, manifest |-> c.id,
     steps |-> FoldSet(PutByStage, <<>>, c.targets)]

PlanIsPermitted(r, c, prepared) ==
    /\ r.evaluated <= prepared /\ prepared < r.validUntil
    /\ r.manifest = c.id /\ r.targets = c.targets

StepIsTyped(step) == TargetIsActionable(step)
PlanIsOrderly(p) ==
    /\ p.evaluated <= p.prepared /\ p.prepared < p.validUntil
    /\ \A i \in DOMAIN p.steps : StepIsTyped(p.steps[i])
    /\ \A i \in 1..Len(p.steps) - 1 : StageRank(p.steps[i]) <= StageRank(p.steps[i + 1])

\* prepared is a second reading of the clock, after the receipt was verified.
PlanIsPrepared(b, action, r, c, report, archive, approval, now, prepared) ==
    /\ PreflightIsVerified(b, action, r, c, report, archive, approval, now)
    /\ PlanIsPermitted(r, c, prepared)
    /\ PlanIsOrderly(ActionPlan(r, c, prepared))

PlanIsVerified(b, action, p, r, c, report, archive, approval, now) ==
    /\ p.prepared <= now /\ now < p.validUntil
    /\ PreflightIsVerified(b, action, r, c, report, archive, approval, now)
    /\ PlanIsPermitted(r, c, p.prepared)
    /\ ActionPlan(r, c, p.prepared) = p
=============================================================================
