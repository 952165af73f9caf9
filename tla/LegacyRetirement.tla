-------------------------- MODULE LegacyRetirement --------------------------
(***************************************************************************)
(* The retirement of the old trader from the first archive to the closeout *)
(* ledger.  Honest people pause it, stop it, fill evidence bundles, sign   *)
(* approvals and remove what is left, at any time and in any order the     *)
(* documents let them; every command of the retirement CLI reads the       *)
(* bundles and the earlier documents again and writes one new document, or *)
(* none.  A document is a file that is never replaced: the state keeps the *)
(* instant it was written, and its content is what the command derived.    *)
(* Bounds: MaxTime, MaxMishaps for what goes wrong by itself, and MaxDelay *)
(* for the ticks the work may be late against the shortest schedule.       *)
(***************************************************************************)
EXTENDS RetirementEvidence

CONSTANTS MaxTime, MaxMishaps, MaxDelay,
          Apart,      \* the targets that may drift, or be done apart from the others
          Alterable   \* the bundles that somebody may alter

ASSUME ClockAssumption == {MaxTime, MaxMishaps, MaxDelay} \subseteq Nat

VARIABLES now,       \* the clock
          legacy,    \* the old trader
          native,    \* the new trader's authorization and its outages
          states,    \* the state of every target
          drifted,   \* when a target left the state it had
          roots,     \* the evidence bundles that exist
          docs,      \* the documents that exist, with their instants
          done,      \* when each finished cleanup action was done
          mishaps    \* how much went wrong by itself

vars == <<now, legacy, native, states, drifted, roots, docs, done, mishaps>>
people == <<legacy, native, states, drifted, done, mishaps>>

Has(d) == d \in DOMAIN docs
Exists(r) == r \in DOMAIN roots
Retained(r) == [roots[r] EXCEPT !.altered = FALSE]

-----------------------------------------------------------------------------
(* The documents, with the content they were written with.                 *)

Native(r) == NativeObservation(NativeRoot(Retained(r)), docs[r])
Archive == ArchiveManifest(ArchiveRoot(Retained("archive")), docs.archive)
Final == FinalState(ArchiveRoot(Retained("archive")), Archive, docs.final)
Readiness == ReadinessObservation(Native("native"), Archive, Final, docs.readiness)
Report == ReadinessReport(Readiness, docs.report)
Approve(bindings, at) ==
    Joined([approved |-> at, expires |-> at + ApprovalLifetime, key |-> RetirementKey], bindings)
StopApproval(report) == Approve(StopBindings(report), docs.stopApproval)
Disabled(report, archive) ==
    DisabledObservation(DisabledRoot(Retained("disabled"), report, StopApproval(report), archive),
                        report, Native("later"), archive, docs.disabled)
DisabledReportDoc == DisabledReport(Disabled(Report, Archive), docs.disabledReport)

Root(r, report, archive) == CleanupRoot(roots[r], report, archive)
Manifest(report, archive) ==
    CleanupManifest(CleanupRoot(Retained("approved"), report, archive), docs.manifest)
CleanupApproval(c, report) == Approve(CleanupBindings(c, report), docs.cleanupApproval)
Receipt(c, report, archive, approval) ==
    PreflightReceipt(CleanupRoot(Retained("action"), report, archive),
                     CleanupRoot(Retained("action"), report, archive), c, approval, docs.receipt)

-----------------------------------------------------------------------------
\* The old trader is paused and flat, or both were forgotten.
Init == /\ now = 0
        /\ \E quiet \in BOOLEAN :
              legacy = [paused |-> quiet, flat |-> quiet, stopping |-> -1, stopped |-> -1,
                        orders |-> {}]
        /\ native = [renewals |-> 0, renewed |-> -1, outages |-> {}]
        /\ states = [t \in Targets |-> "kept"]
        /\ drifted = [t \in {} |-> 0]
        /\ roots = [r \in {} |-> 0]
        /\ docs = [d \in {} |-> 0]
        /\ done = [t \in {} |-> 0]
        /\ mishaps = 0

\* The tick at which the next milestone is reached if nothing is lost.
Due == LET stopped == 2 + Policy.minDisabled
       IN  CASE ~Has("report") -> 1
             [] Has("report") /\ legacy.stopped < 0 -> 2
             [] legacy.stopped >= 0 /\ ~Exists("disabled") -> stopped
             [] Exists("disabled") /\ ~Has("disabledReport") -> stopped + 1
             [] Has("disabledReport") /\ ~Has("manifest") -> stopped + 2
             [] Has("manifest") /\ ~Has("plan") -> stopped + 3
             [] OTHER -> stopped + 4

Tick == /\ now < MaxTime /\ now < Due + MaxDelay /\ now' = now + 1
        /\ UNCHANGED <<people, roots, docs>>

(* What people and the machines do. ---------------------------------------*)

StopBegins == /\ Has("report") /\ legacy.stopping = -1
              /\ legacy' = [legacy EXCEPT !.stopping = now]
              /\ UNCHANGED <<now, native, states, drifted, roots, docs, done, mishaps>>

StopEnds == /\ legacy.stopping >= 0 /\ legacy.stopping < now /\ legacy.stopped = -1
            /\ legacy' = [legacy EXCEPT !.stopped = now]
            /\ UNCHANGED <<now, native, states, drifted, roots, docs, done, mishaps>>

\* The authorization of the new trader is extended while the old one stops.
Renew == /\ legacy.stopping >= 0 /\ legacy.stopped < 0
         /\ native.renewals = 0 /\ now < FirstExpiry
         /\ native' = [native EXCEPT !.renewals = 1, !.renewed = now]
         /\ UNCHANGED <<now, legacy, states, drifted, roots, docs, done, mishaps>>

Mishap == mishaps < MaxMishaps /\ mishaps' = mishaps + 1

\* A watchdog nobody found starts MT5 once more, and it sends an order.
Revive == /\ Mishap /\ legacy.stopping >= 0 /\ ~Exists("disabled")
          /\ legacy' = [legacy EXCEPT !.orders = @ \union {now}]
          /\ UNCHANGED <<now, native, states, drifted, roots, docs, done>>

NativeFails == /\ Mishap /\ legacy.stopped >= 0 /\ ~Exists("disabled")
               /\ native' = [native EXCEPT !.outages = @ \union {now}]
               /\ UNCHANGED <<now, legacy, states, drifted, roots, docs, done>>

Drift(t) == /\ Mishap /\ Exists("approved") /\ ~Has("receipt") /\ t \notin DOMAIN done
            /\ states' = [states EXCEPT ![t] = "changed"]
            /\ drifted' = Joined(drifted, [u \in {t} |-> now])
            /\ UNCHANGED <<now, legacy, native, roots, docs, done>>

Alter(r) == /\ Mishap /\ Exists(r) /\ Has("disabled") /\ ~Has("closeout")
            /\ roots' = [roots EXCEPT ![r].altered = TRUE]
            /\ UNCHANGED <<now, legacy, native, states, drifted, docs, done>>

\* One target is done apart from the others, or all that are left are done.
Perform(ts) ==
    /\ Has("manifest") /\ ~Exists("outcome")
    /\ ts # {}
    /\ done = <<>> \/ ts = Targets \ DOMAIN done
    /\ done' = Joined(done, [t \in ts |-> now])
    /\ states' = [t \in Targets |-> IF t \in ts THEN "gone" ELSE states[t]]
    /\ UNCHANGED <<now, legacy, native, drifted, roots, docs, mishaps>>

(* Evidence is captured, and some of it is finished later. ----------------*)

Capture(r, facts) == /\ ~Exists(r)
                     /\ roots' = Joined(roots, [s \in {r} |-> Joined(facts, [altered |-> FALSE])])
                     /\ UNCHANGED <<now, people, docs>>

Finish(r, field) == /\ Exists(r) /\ roots[r][field] = -1
                    /\ roots' = [roots EXCEPT ![r][field] = now]
                    /\ UNCHANGED <<now, people, docs>>

\* The interval of the last tick, with the authorization of this moment.
CaptureNative(r) ==
    /\ now > 0
    /\ r = "later" => Exists("disabled")
    /\ Capture(r, Joined([from |-> now - 1, to |-> now], native))

CaptureArchive == Capture("archive", [captured |-> now, finished |-> -1,
                                      paused |-> legacy.paused, flat |-> legacy.flat])

\* Sampled at the ends only and exported from the first stop action on, or
\* sampled at every tick and exported from the last stop action on.
CaptureDisabled ==
    /\ legacy.stopped >= 0 /\ legacy.stopped < now /\ Has("stopApproval")
    /\ \E query \in {legacy.stopping, legacy.stopped} :
          Capture("disabled",
                  [stopping |-> legacy.stopping, stopped |-> legacy.stopped, to |-> now,
                   samples |-> IF query = legacy.stopping THEN {legacy.stopped, now}
                                                          ELSE legacy.stopped..now,
                   active |-> legacy.orders, query |-> query,
                   orders |-> {t \in legacy.orders : query <= t}, scanned |-> -1,
                   outages |-> {t \in native.outages : legacy.stopped <= t}])

CaptureTargets(r) ==
    /\ Has(IF r = "approved" THEN "disabledReport" ELSE "manifest")
    /\ DOMAIN done = {}
    /\ Capture(r, [captured |-> now, scanned |-> -1, states |-> states])

CaptureOutcome == /\ Has("plan") /\ done # <<>>
                  /\ Capture("outcome", [captured |-> now, scanned |-> -1, done |-> done])

CapturedAt(r) == IF r = "disabled" THEN roots[r].to ELSE roots[r].captured
Scan(r) == /\ Exists(r) /\ CapturedAt(r) < now /\ Finish(r, "scanned")
FinishArchive == /\ Exists("archive") /\ roots.archive.captured < now
                 /\ Finish("archive", "finished")

(* The commands.  Each writes one document, at the clock it reads; a       *)
(* person who signs an approval dates it with the same clock.              *)

Write(d, at) == /\ ~Has(d) /\ at \in now..MaxTime /\ at <= now + 1 /\ now' = at
                /\ docs' = Joined(docs, [e \in {d} |-> at])
                /\ UNCHANGED <<people, roots>>

AssembleNative(r) == /\ Exists(r) /\ ~Has(r)
                     /\ NativeIsAssembled(NativeRoot(roots[r]), now)
                     /\ Write(r, now)

AssembleArchive == /\ Exists("archive") /\ ~Has("archive") /\ roots.archive.finished >= 0
                   /\ ArchiveIsAssembled(ArchiveRoot(roots.archive), now)
                   /\ Write("archive", now)

AssembleFinalState == /\ Has("archive") /\ ~Has("final")
                      /\ FinalStateIsAssembled(ArchiveRoot(roots.archive), Archive, now, now)
                      /\ Write("final", now)

AssembleReadiness ==
    /\ Has("native") /\ Has("final") /\ ~Has("readiness")
    /\ \E observed \in now..now + 1 :
          /\ ReadinessIsAssembled(NativeRoot(roots.native), ArchiveRoot(roots.archive),
                                  Native("native"), Archive, Final, now, observed)
          /\ Write("readiness", observed)

EvaluateReadiness ==
    /\ Has("readiness") /\ ~Has("report")
    /\ ReadinessIsVerified(NativeRoot(roots.native), ArchiveRoot(roots.archive), Readiness, now)
    /\ Write("report", now)

SignStop == Has("report") /\ Write("stopApproval", now)

AssembleDisabled ==
    /\ Exists("disabled") /\ roots.disabled.scanned >= 0 /\ Has("later") /\ ~Has("disabled")
    /\ \E report \in {Report}, archive \in {Archive} :
       \E approval \in {StopApproval(report)} :
          DisabledIsAssembled(DisabledRoot(roots.disabled, report, approval, archive),
                              NativeRoot(roots.later), ArchiveRoot(roots.archive), report,
                              Native("later"), archive, approval, now, now)
    /\ Write("disabled", now)

\* Every later command verifies the disabled observation first.
DisabledReplays ==
    \E report \in {Report}, archive \in {Archive} :
    \E approval \in {StopApproval(report)} :
       DisabledIsVerified(DisabledRoot(roots.disabled, report, approval, archive),
                          NativeRoot(roots.later), ArchiveRoot(roots.archive),
                          Disabled(report, archive), report, Native("later"), archive,
                          approval, now)

EvaluateDisabled == /\ Has("disabled") /\ ~Has("disabledReport")
                    /\ DisabledReplays
                    /\ Write("disabledReport", now)

CleanupSourcesReplay == Has("disabledReport") /\ DisabledReplays

AssembleCleanupManifest ==
    /\ Exists("approved") /\ roots.approved.scanned >= 0 /\ ~Has("manifest")
    /\ CleanupSourcesReplay
    /\ \E report \in {DisabledReportDoc}, archive \in {Archive} :
          CleanupIsAssembled(Root("approved", report, archive), report, archive, now)
    /\ Write("manifest", now)

SignCleanup == Has("manifest") /\ Write("cleanupApproval", now)

PreparePreflight ==
    /\ Exists("action") /\ roots.action.scanned >= 0 /\ Has("cleanupApproval") /\ ~Has("receipt")
    /\ CleanupSourcesReplay
    /\ \E report \in {DisabledReportDoc}, archive \in {Archive} :
       \E c \in {Manifest(report, archive)}, approved \in {Root("approved", report, archive)},
          action \in {Root("action", report, archive)} :
       \E approval \in {CleanupApproval(c, report)} :
          /\ PreflightPasses(approved, action, c, report, archive, approval, now, now)
          /\ ReceiptIsOrderly(PreflightReceipt(approved, action, c, approval, now))
    /\ Write("receipt", now)

PreparePlan ==
    /\ Has("receipt") /\ ~Has("plan")
    /\ CleanupSourcesReplay
    /\ \E prepared \in now..now + 1 :
          /\ \E report \in {DisabledReportDoc}, archive \in {Archive} :
             \E c \in {Manifest(report, archive)} :
             \E approval \in {CleanupApproval(c, report)} :
             \E r \in {Receipt(c, report, archive, approval)} :
                PlanIsPrepared(Root("approved", report, archive), Root("action", report, archive),
                               r, c, report, archive, approval, now, prepared)
          /\ Write("plan", prepared)

\* The four commands that replay the completion, from the same sources.
CompletionPasses(command) ==
    \E report \in {DisabledReportDoc}, archive \in {Archive} :
    \E approved \in {Root("approved", report, archive)},
       action \in {Root("action", report, archive)}, c \in {Manifest(report, archive)} :
    \E approval \in {CleanupApproval(c, report)} :
    \E r \in {Receipt(c, report, archive, approval)} :
    \E p \in {ActionPlan(r, c, docs.plan)} :
    \E b \in {OutcomeRoot(roots.outcome, approved.files, r, p, c, report, archive)},
       \* the outcomes as they were when the report was written
       pristine \in {OutcomeRoot(Retained("outcome"), approved.files, r, p, c, report, archive)} :
    LET d == CompletionReport(pristine, r, p, c, report, archive, docs.completion)
        l == OperatorLedger(pristine, d, r, p, approval, docs.closeout)
    IN  CASE command = "assemble completion" ->
                 CompletionIsAssembled(b, approved, action, r, p, c, report, archive,
                                       approval, now, now)
          [] command = "verify completion" ->
                 CompletionIsVerified(b, approved, action, d, r, p, c, report, archive,
                                      approval, now)
          [] command = "assemble closeout" ->
                 CloseoutIsAssembled(b, approved, action, d, r, p, c, report, archive,
                                     approval, now, now)
          [] command = "verify closeout" ->
                 CloseoutIsVerified(b, approved, action, l, d, r, p, c, report, archive,
                                    approval, now)

AssembleCompletion ==
    /\ Exists("outcome") /\ roots.outcome.scanned >= 0 /\ ~Has("completion")
    /\ CleanupSourcesReplay /\ CompletionPasses("assemble completion")
    /\ Write("completion", now)

AssembleCloseout ==
    /\ Has("completion") /\ ~Has("closeout")
    /\ CleanupSourcesReplay /\ CompletionPasses("assemble closeout")
    /\ Write("closeout", now)

\* The commands that verify a document again; they write nothing.
PreflightPassesAgain(command) ==
    \E report \in {DisabledReportDoc}, archive \in {Archive} :
    \E approved \in {Root("approved", report, archive)},
       action \in {Root("action", report, archive)}, c \in {Manifest(report, archive)} :
    \E approval \in {CleanupApproval(c, report)} :
    \E r \in {Receipt(c, report, archive, approval)} :
       CASE command = "verify preflight" ->
                PreflightIsVerified(approved, action, r, c, report, archive, approval, now)
         [] command = "verify plan" ->
                PlanIsVerified(approved, action, ActionPlan(r, c, docs.plan), r, c, report,
                               archive, approval, now)

Verifiable == {"native", "later", "archive", "final", "readiness", "disabled", "manifest",
               "receipt", "plan", "completion", "closeout"}
Verifies(d) ==
    CASE d \in {"native", "later"} -> NativeIsVerified(NativeRoot(roots[d]), Native(d), now)
      [] d = "archive" -> ArchiveIsVerified(ArchiveRoot(roots.archive), Archive, now)
      [] d = "final" -> FinalStateIsVerified(ArchiveRoot(roots.archive), Archive, Final, now)
      [] d = "readiness" -> ReadinessIsVerified(NativeRoot(roots.native),
                                ArchiveRoot(roots.archive), Readiness, now)
      [] d = "disabled" -> DisabledReplays
      [] OTHER ->
             /\ CleanupSourcesReplay
             /\ CASE d = "manifest" ->
                         \E report \in {DisabledReportDoc}, archive \in {Archive} :
                            CleanupIsVerified(Root("approved", report, archive),
                                              Manifest(report, archive), report, archive, now)
                  [] d = "receipt" -> PreflightPassesAgain("verify preflight")
                  [] d = "plan" -> PreflightPassesAgain("verify plan")
                  [] d = "completion" -> CompletionPasses("verify completion")
                  [] d = "closeout" -> CompletionPasses("verify closeout")

-----------------------------------------------------------------------------
People ==
    \/ StopBegins \/ StopEnds \/ Renew \/ Revive \/ NativeFails
    \/ \E t \in Apart : Drift(t)
    \/ \E r \in Alterable : Alter(r)
    \/ \E ts \in {{t} : t \in Apart} \union {Targets \ DOMAIN done} : Perform(ts)
Evidence ==
    \/ \E r \in {"native", "later"} : CaptureNative(r)
    \/ CaptureArchive \/ FinishArchive \/ CaptureDisabled
    \/ \E r \in {"approved", "action"} : CaptureTargets(r)
    \/ CaptureOutcome
    \/ \E r \in {"disabled", "approved", "action", "outcome"} : Scan(r)
Commands ==
    \/ \E r \in {"native", "later"} : AssembleNative(r)
    \/ AssembleArchive \/ AssembleFinalState \/ AssembleReadiness \/ EvaluateReadiness
    \/ SignStop \/ AssembleDisabled \/ EvaluateDisabled \/ AssembleCleanupManifest
    \/ SignCleanup \/ PreparePreflight \/ PreparePlan \/ AssembleCompletion
    \/ AssembleCloseout

Next == Tick \/ People \/ Evidence \/ Commands
Spec == Init /\ [][Next]_vars

-----------------------------------------------------------------------------
\* The report of the disabled window was just written, and lets cleanup begin.
StopApproved == /\ Has("disabledReport") /\ docs.disabledReport = now
                /\ DisabledReportDoc.awaitingCleanup

\* A report that lets cleanup begin means that the old trader was stopped
\* under an approval that was valid from the first stop action to the last,
\* after a passing report on an account that was flat and paused when its
\* archive was captured, no longer ago than the policy allows.
StopWasAuthorized ==
    StopApproved =>
        /\ docs.stopApproval <= legacy.stopping
        /\ legacy.stopped < docs.stopApproval + ApprovalLifetime
        /\ roots.archive.flat /\ roots.archive.paused
        /\ docs.report <= roots.archive.captured + Policy.maxFinalAge

\* ... and that afterwards, for as long as the policy demands, the old
\* trader sent no order, not even between two samples of its processes, and
\* the new one did not fail.
DisabledWindowIsQuiet ==
    StopApproved =>
        LET window == legacy.stopped..roots.disabled.to IN
        /\ roots.disabled.to >= legacy.stopped + Policy.minDisabled
        /\ legacy.orders \cap legacy.stopping..roots.disabled.to = {}
        /\ native.outages \cap window = {}

\* A closed retirement means that every target was acted on, after the
\* cleanup approval and the preflight, before either expired, and in the
\* state that was approved when the evidence for the action was captured;
\* and that no bundle was altered on the way, but for the native evidence of
\* the readiness report, which no command reads again after that report.
CleanupWasAuthorized ==
    Has("closeout") =>
        /\ DOMAIN done = Targets
        /\ \A r \in DOMAIN roots \ {"native"} : ~roots[r].altered
        /\ \A t \in Targets :
              /\ docs.cleanupApproval <= roots.action.captured
              /\ docs.receipt <= done[t]
              /\ done[t] < docs.cleanupApproval + ApprovalLifetime
              /\ done[t] < roots.action.captured + Policy.maxCaptureSkew
              /\ t \in DOMAIN drifted => drifted[t] >= roots.action.captured
                                         \/ drifted[t] <= roots.approved.captured

\* Two commands read the clock again after they verified their sources. Both
\* look then at what they were about (action_plan.py, readiness.py), and not at
\* the retention of the archive; the plan not at the native evidence either.
RanOut(d) ==
    /\ d \in {"readiness", "plan"}
    /\ \/ ~(Archive.retention >= now + Policy.minRetention)
       \/ d = "plan" /\ ~(now < Native("later").expires)

\* What a command writes, the verifying command accepts at the same instant,
\* as long as no bundle was altered, and unless the sources ran out between the
\* two readings: neither command asks for less than the other.
WrittenIsVerified ==
    (\A r \in DOMAIN roots : ~roots[r].altered)
       => \A d \in DOMAIN docs \cap Verifiable : docs[d] = now /\ ~RanOut(d) => Verifies(d)
=============================================================================
