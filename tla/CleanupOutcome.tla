--------------------------- MODULE CleanupOutcome ---------------------------
(***************************************************************************)
(* What the operators did to the targets, and the end of the retirement.   *)
(* An outcome bundle holds one outcome per step of the plan, raw captures  *)
(* that back the outcomes, and a credential scan of all of it.  The        *)
(* completion report replays the whole chain from the approved evidence    *)
(* on; the closeout ledger replays the completion report.                  *)
(***************************************************************************)
EXTENDS LegacyCleanup

OutcomeBundleIsSound(b) == IsSound(b, MaxFiles)

-----------------------------------------------------------------------------
(* The result of one action: what it claims (kind, about, destination), and *)
(* the raw captures it names.                                              *)

ResultKinds == {"removed_path", "removed_host", "revoked_secret",
                "native_migration", "archive_only"}

ResultIsWellFormed(r) ==
    /\ r.result \in ResultKinds
    /\ r.result \in {"removed_path", "archive_only"}
          => (r.kind = "repository_path" <=> r.commit # "none")
    /\ Cardinality(Range(r.artifacts)) = Len(r.artifacts)
    /\ Len(r.artifacts) = IF r.result \in {"removed_path", "archive_only"} THEN 1 ELSE 2
    /\ r.result = "native_migration" => r.locator # r.destination

\* An outcome o is about the step it names, and someone else reviewed it.
OutcomeIsWellFormed(o) ==
    /\ o.started <= o.completed /\ o.completed <= o.captured
    /\ IsIndependent(o) /\ o.invalidating = {}
    /\ ResultIsWellFormed(o.result)
    /\ o.result.kind = o.step.target.kind /\ o.result.locator = o.step.target.locator
    /\ o.result.result = OutcomeOf(o.step.target)
    /\ o.result.destination = o.step.target.destination

OutcomeManifestIsExact(m, f) ==
    /\ DOMAIN m.captured = DOMAIN f.raw /\ DOMAIN f.raw # {}
    /\ \A r \in DOMAIN m.captured : m.captured[r] <= m.created
    /\ m.controls <= m.created
    /\ DOMAIN f.outcomes # {}

OutcomeLineage(m, f, r, p, c, report, archive, generated) ==
    /\ {m.retirement, f.scan.retirement} \union
       {f.outcomes[t].retirement : t \in DOMAIN f.outcomes} = {c.retirement}
    /\ f.scan.policy = ScanPolicy.id
    /\ m.commit = c.commit /\ m.archive = archive.id /\ m.report = report.id
    /\ m.manifest = c.id /\ m.receipt = r.id /\ m.plan = p.id
    /\ r.evaluated <= m.created
    /\ archive.retention >= generated + Policy.minRetention
    /\ f.scan.reviewed <= m.created
    /\ \A t \in DOMAIN f.outcomes : f.outcomes[t].captured <= m.created

-----------------------------------------------------------------------------
(* Each outcome against the approval, the plan and its raw captures.       *)

PlanSteps(p) == [i \in DOMAIN p.steps |-> [sequence |-> i, target |-> p.steps[i]]]

\* One outcome per approved target, and each is the outcome of its step.
OutcomesFollowThePlan(f, p, c) ==
    /\ DOMAIN f.outcomes = {t.id : t \in c.targets}
    /\ \A step \in Range(PlanSteps(p)) : f.outcomes[step.target.id].step = step

StateWasApproved(o, r, c) ==
    /\ o.step.target \in c.targets
    /\ o.step.target \in r.targets

\* Slip: an action may begin as long as the approval is not used too early.
StartedAfterPreflight(o, r) == r.evaluated <= o.started

StartedWhileAuthorized(o, r) == r.evaluated <= o.started /\ o.started < r.validUntil

RawIsTimely(o, f, m) ==
    /\ Range(o.result.artifacts) \subseteq DOMAIN f.raw
    /\ \A a \in Range(o.result.artifacts) :
          o.completed <= m.captured[a] /\ m.captured[a] <= o.captured

\* What a capture must hold that shows a path or a host dependency is gone.
PathIsAbsent(raw, captured, result, commit) ==
    raw = [shows |-> "absent", kind |-> result.kind, locator |-> result.locator,
           commit |-> commit, captured |-> captured]

HostIsAbsent(f, m, result) ==
    /\ \A a \in Range(result.artifacts) :
          /\ f.raw[a].shows = "absent" /\ f.raw[a].kind = result.kind
          /\ f.raw[a].locator = result.locator /\ f.raw[a].captured = m.captured[a]
    /\ Cardinality({f.raw[a].source : a \in Range(result.artifacts)}) = 2

DestinationHolds(raw, captured, result) ==
    raw = [shows |-> "inventory", kind |-> result.kind, locator |-> result.destination,
           commit |-> result.commit, content |-> result.inventory, captured |-> captured]

\* approved is the approved evidence of the same target.
SecretIsRevoked(f, result, approved) ==
    /\ result.provider = approved.state.provider
    /\ [i \in DOMAIN result.artifacts |-> f.raw[result.artifacts[i]]] = result.proof

PostconditionHolds(o, f, m, approved, archive) ==
    LET r == o.result  a == r.artifacts IN
    CASE r.result \in {"removed_path", "archive_only"} ->
             /\ PathIsAbsent(f.raw[a[1]], m.captured[a[1]], r, r.commit)
             /\ r.result = "archive_only" => r.archive = archive.id
      [] r.result = "removed_host" -> HostIsAbsent(f, m, r)
      [] r.result = "native_migration" ->
             /\ PathIsAbsent(f.raw[a[1]], m.captured[a[1]], r, r.commit)
             /\ DestinationHolds(f.raw[a[2]], m.captured[a[2]], r)
      [] r.result = "revoked_secret" -> SecretIsRevoked(f, r, approved)

OutcomesAreProven(f, m, r, p, c, approvedFiles, archive) ==
    /\ OutcomesFollowThePlan(f, p, c)
    /\ \A t \in DOMAIN f.outcomes : LET o == f.outcomes[t] IN
          /\ StateWasApproved(o, r, c)
          /\ StartedWhileAuthorized(o, r)
          /\ RawIsTimely(o, f, m)
          /\ PostconditionHolds(o, f, m, approvedFiles.targets[t], archive)
    /\ UNION {Range(f.outcomes[t].result.artifacts) : t \in DOMAIN f.outcomes}
          = DOMAIN f.raw

OutcomeScanIsProven(f) ==
    /\ IsReviewed(f.scan) /\ f.scan.policy = ScanPolicy.id /\ f.scan.findings = {}
    /\ f.scan.checks = <<f.raw, f.outcomes>>
    /\ \A t \in DOMAIN f.outcomes : f.outcomes[t].captured <= f.scan.from

OutcomeIsReplayed(b, approvedFiles, r, p, c, report, archive, generated) ==
    LET f == b.files  m == b.manifest IN
    /\ OutcomeManifestIsExact(m, f)
    /\ m.created <= generated
    /\ OutcomeBundleIsSound(b)
    /\ \A t \in DOMAIN f.outcomes : OutcomeIsWellFormed(f.outcomes[t])
    /\ OutcomeLineage(m, f, r, p, c, report, archive, generated)
    /\ OutcomesAreProven(f, m, r, p, c, approvedFiles, archive)
    /\ OutcomeScanIsProven(f)

-----------------------------------------------------------------------------
(* The completion report, and the ledger that closes the retirement.       *)

CompletionReport(b, r, p, c, report, archive, generated) ==
    [id |-> <<"completion", b.sha, generated>>, generated |-> generated,
     retirement |-> c.retirement, archive |-> archive.id, report |-> report.id,
     manifest |-> c.id, receipt |-> r.id, plan |-> p.id, bundle |-> b.sha,
     targets |-> [i \in DOMAIN p.steps |-> LET o == b.files.outcomes[p.steps[i].id] IN
                    [step |-> o.step, postcondition |-> o.result,
                     started |-> o.started, completed |-> o.completed]],
     complete |-> TRUE]

\* The receipt and the plan are rebuilt at their own times; now is the clock.
CompletionIsAssembled(b, approved, action, r, p, c, report, archive, approval, generated, now) ==
    /\ PreflightPasses(approved, action, c, report, archive, approval, r.evaluated, now)
    /\ PreflightReceipt(approved, action, c, approval, r.evaluated) = r
    /\ PlanIsPermitted(r, c, p.prepared) /\ ActionPlan(r, c, p.prepared) = p
    /\ CleanupIsAssembled(approved, report, archive, c.created)
    /\ CleanupManifest(approved, c.created) = c
    /\ OutcomeIsReplayed(b, approved.files, r, p, c, report, archive, generated)

CompletionIsVerified(b, approved, action, d, r, p, c, report, archive, approval, now) ==
    /\ d.generated <= now
    /\ CompletionIsAssembled(b, approved, action, r, p, c, report, archive, approval,
                             d.generated, now)
    /\ CompletionReport(b, r, p, c, report, archive, d.generated) = d

OperatorLedger(b, d, r, p, approval, generated) ==
    [generated |-> generated, completion |-> d.id, receipt |-> r.id, plan |-> p.id,
     approval |-> approval, bundle |-> b.sha,
     entries |-> [i \in DOMAIN p.steps |-> LET o == b.files.outcomes[p.steps[i].id] IN
                    [target |-> p.steps[i], stage |-> StageOf(p.steps[i]),
                     started |-> o.started, completed |-> o.completed,
                     by |-> o.by, reviewer |-> o.reviewer]]]

LedgerEntryIsValid(e) ==
    /\ e.started <= e.completed /\ IsIndependent(e) /\ TargetIsActionable(e.target)
    /\ e.stage = StageOf(e.target)

\* The stages of the entries rise; the times of the actions need not.
LedgerIsOrderly(l) ==
    /\ \A i \in DOMAIN l.entries : LedgerEntryIsValid(l.entries[i])
    /\ \A i \in 1..Len(l.entries) - 1 :
          StageRank(l.entries[i].target) <= StageRank(l.entries[i + 1].target)
    /\ \A i \in DOMAIN l.entries : l.entries[i].completed <= l.generated

CloseoutIsAssembled(b, approved, action, d, r, p, c, report, archive, approval, generated, now) ==
    /\ d.generated <= generated
    /\ archive.retention >= generated + Policy.minRetention
    /\ CompletionIsAssembled(b, approved, action, r, p, c, report, archive, approval,
                             d.generated, now)
    /\ CompletionReport(b, r, p, c, report, archive, d.generated) = d /\ d.complete
    /\ LedgerIsOrderly(OperatorLedger(b, d, r, p, approval, generated))

CloseoutIsVerified(b, approved, action, l, d, r, p, c, report, archive, approval, now) ==
    /\ l.generated <= now
    /\ CloseoutIsAssembled(b, approved, action, d, r, p, c, report, archive, approval,
                           l.generated, now)
    /\ OperatorLedger(b, d, r, p, approval, l.generated) = l
=============================================================================
