------------------------ MODULE LegacyRetirementProofs ------------------------
(***************************************************************************)
(* What the documents of a retirement prove, for any inventory, policy,    *)
(* clock and number of mishaps, and whichever bundles people alter.        *)
(***************************************************************************)
EXTENDS LegacyRetirement, FiniteSetTheorems, TLAPS

-----------------------------------------------------------------------------
(* What the evidence of the disabled window says.                          *)

\* The fields of a record that another one is joined to, and those it adds.
LEMMA FieldsKept == ASSUME NEW a, NEW b, NEW f \in DOMAIN a
                    PROVE  Joined(a, b)[f] = a[f]
  BY DEF Joined

\* Joining adds the fields that only the second record has.
LEMMA FieldsAdded == ASSUME NEW a, NEW b, NEW f \in DOMAIN b \ DOMAIN a
                     PROVE  Joined(a, b)[f] = b[f]
  BY DEF Joined

\* A signed approval is dated with the clock of the person who signs it, and
\* bound to expire.
LEMMA ApprovalDates ==
    ASSUME NEW bindings, NEW at
    PROVE  /\ Approve(bindings, at).approved = at
           /\ Approve(bindings, at).expires = at + ApprovalLifetime
  BY FieldsKept DEF Approve

\* The stop is recorded with the instants and the approval it had, and MT5
\* is among the processes stopped first.
LEMMA StopIsRecorded ==
    ASSUME NEW d, NEW report, NEW approval
    PROVE  LET stop == StopEvidence(d, report, approval) IN
           /\ stop.from = d.stopping /\ stop.to = d.stopped
           /\ stop.approval = approval
           /\ MT5Stopped(stop) = d.stopping
<1> DEFINE W == [DisabledWindow(d) EXCEPT !.from = d.stopping, !.to = d.stopped]
           A == [i \in DOMAIN StopActions |->
                    [action |-> StopActions[i], evidence |-> "stops",
                     at |-> IF i <= 3 THEN d.stopping ELSE d.stopped]]
           X == [readiness |-> report.id, approval |-> approval, invalidating |-> {},
                 actions |-> A]
           stop == StopEvidence(d, report, approval)
<1>1. stop = Joined(W, X)
  BY DEF StopEvidence
<1>2. /\ W.from = d.stopping /\ W.to = d.stopped
      /\ DOMAIN W = {"retirement", "by", "reviewer", "from", "to", "reviewed"}
  BY DEF DisabledWindow
<1>3. /\ DOMAIN X = {"readiness", "approval", "invalidating", "actions"}
      /\ X.approval = approval /\ X.actions = A
  OBVIOUS
<1> HIDE DEF W, X, stop
<1>4. stop.from = d.stopping /\ stop.to = d.stopped
  BY <1>1, <1>2, FieldsKept
<1>5. stop.approval = approval /\ stop.actions = A
  BY <1>1, <1>2, <1>3, FieldsAdded
<1>6. DOMAIN StopActions = 1..13 /\ StopActions[3] = "stop_mt5"
      /\ \A i \in 1..13 : StopActions[i] = "stop_mt5" => i = 3
  BY DEF StopActions
<1>7. StoppedAt(stop) = 3
  <2>1. \A i \in DOMAIN A : A[i].action = StopActions[i]
    OBVIOUS
  <2>2. DOMAIN A = 1..13
    BY <1>6
  <2> HIDE DEF A
  <2> QED
    BY <2>1, <2>2, <1>5, <1>6 DEF StoppedAt
<1>8. MT5Stopped(stop) = d.stopping
  BY <1>5, <1>6, <1>7 DEF MT5Stopped
<1> QED
  BY <1>4, <1>5, <1>8 DEF stop

\* The broker's export holds the orders it was asked for, from the instant it
\* was asked for.
LEMMA BrokerIsRecorded ==
    ASSUME NEW d
    PROVE  /\ BrokerEvidence(d).from = d.query
           /\ BrokerEvidence(d).orders = d.orders
<1> DEFINE W == [DisabledWindow(d) EXCEPT !.from = d.query]
           X == [captured |-> d.to, account |-> "demo-1", complete |-> TRUE,
                 orders |-> d.orders, evidence |-> "orders"]
<1>1. BrokerEvidence(d) = Joined(W, X)
  BY DEF BrokerEvidence
<1>2. /\ W.from = d.query
      /\ DOMAIN W = {"retirement", "by", "reviewer", "from", "to", "reviewed"}
  BY DEF DisabledWindow
<1>3. /\ DOMAIN X = {"captured", "account", "complete", "orders", "evidence"}
      /\ X.orders = d.orders
  OBVIOUS
<1> HIDE DEF W, X
<1> QED
  BY <1>1, <1>2, <1>3, FieldsKept, FieldsAdded

\* The audit of the new trader counts its outages.
LEMMA StabilityIsRecorded ==
    ASSUME NEW d
    PROVE  LET s == StabilityEvidence(d) IN
           s.critical + s.reconciliationFailures + s.breaches = Cardinality(d.outages) + 0 + 0
<1> DEFINE X == [deployment |-> "native", admission |-> Admission, continuous |-> TRUE,
                 evidence |-> {"health"}, critical |-> Cardinality(d.outages),
                 reconciliationFailures |-> 0, breaches |-> 0]
           W == DisabledWindow(d)
<1>1. StabilityEvidence(d) = Joined(W, X)
  BY DEF StabilityEvidence
<1>2. DOMAIN W = {"retirement", "by", "reviewer", "from", "to", "reviewed"}
  BY DEF DisabledWindow
<1>3. /\ {"critical", "reconciliationFailures", "breaches"} \subseteq DOMAIN X
      /\ X.critical = Cardinality(d.outages)
      /\ X.reconciliationFailures = 0 /\ X.breaches = 0
  OBVIOUS
<1> HIDE DEF W, X
<1>4. /\ Joined(W, X).critical = Cardinality(d.outages)
      /\ Joined(W, X).reconciliationFailures = 0 /\ Joined(W, X).breaches = 0
  BY <1>2, <1>3, FieldsAdded
<1> QED
  BY <1>1, <1>4

\* A bundle holds its documents, whether they are the bound ones or not.
LEMMA DisabledDocuments ==
    ASSUME NEW d, NEW report, NEW approval, NEW archive
    PROVE  LET b == DisabledRoot(d, report, approval, archive) IN
           /\ b.files.stop = StopEvidence(d, report, approval)
           /\ b.files.broker = BrokerEvidence(d)
           /\ b.files.stability = StabilityEvidence(d)
           /\ b.manifest.from = d.stopped /\ b.manifest.to = d.to
  BY DEF DisabledRoot, Bundle

\* The last gates of a report that passes: the window was long enough, the
\* broker's export complete and empty, and the new trader did not fail.
LEMMA PassingWindow ==
    ASSUME NEW d, NEW report, NEW approval, NEW nativeDoc, NEW archive, NEW assembled, NEW at,
           DisabledReport(DisabledObservation(DisabledRoot(d, report, approval, archive), report,
                          nativeDoc, archive, assembled), at).awaitingCleanup
    PROVE  /\ d.to - d.stopped >= Policy.minDisabled
           /\ d.query <= d.stopping
           /\ {t \in d.orders : t >= d.stopping} = {}
           /\ Cardinality(d.outages) + 0 + 0 = 0
<1> DEFINE b == DisabledRoot(d, report, approval, archive)
           o == DisabledObservation(b, report, nativeDoc, archive, assembled)
           gates == DisabledGates(o)
<1>1. Range(gates) = {TRUE}
  BY DEF DisabledReport
<1>2. \A g \in DOMAIN gates : gates[g] = TRUE
  BY <1>1 DEF Range
<1>3. {"observation_window", "no_legacy_orders", "native_stable"} \subseteq DOMAIN gates
  BY DEF DisabledGates
<1>4. /\ gates.observation_window = (o.to - o.from >= Policy.minDisabled)
      /\ gates.no_legacy_orders = (o.brokerComplete /\ o.ordersAfterStop = {})
      /\ gates.native_stable = (o.nativeContinuous /\ o.nativeEvents = 0)
  BY DEF DisabledGates
<1> HIDE DEF gates
<1>5. /\ o.to - o.from >= Policy.minDisabled
      /\ o.brokerComplete /\ o.ordersAfterStop = {}
      /\ o.nativeEvents = 0
  <2>1. gates.observation_window /\ gates.no_legacy_orders /\ gates.native_stable
    BY <1>2, <1>3
  <2> QED
    BY <2>1, <1>4
<1>6. /\ o.to = b.manifest.to /\ o.from = b.manifest.from
      /\ o.brokerComplete = BrokerAuditIsComplete(b.files, b.manifest, report.observation.legacy)
      /\ o.ordersAfterStop = OrdersAfterStop(b.files)
      /\ o.nativeEvents = b.files.stability.critical + b.files.stability.reconciliationFailures
                          + b.files.stability.breaches
  BY DEF DisabledObservation
<1> HIDE DEF o
<1>7. /\ b.files.stop = StopEvidence(d, report, approval)
      /\ b.files.broker = BrokerEvidence(d)
      /\ b.files.stability = StabilityEvidence(d)
      /\ b.manifest.from = d.stopped /\ b.manifest.to = d.to
  BY DisabledDocuments
<1> HIDE DEF b
<1>8. d.to - d.stopped >= Policy.minDisabled
  BY <1>5, <1>6, <1>7
<1>9. MT5Stopped(b.files.stop) = d.stopping
  BY <1>7, StopIsRecorded
<1>10. b.files.broker.from = d.query /\ b.files.broker.orders = d.orders
  BY <1>7, BrokerIsRecorded
<1>11. d.query <= d.stopping
  BY <1>5, <1>6, <1>9, <1>10 DEF BrokerAuditIsComplete
<1>12. {t \in d.orders : t >= d.stopping} = {}
  BY <1>5, <1>6, <1>9, <1>10 DEF OrdersAfterStop
<1>13. Cardinality(d.outages) + 0 + 0 = 0
  BY <1>5, <1>6, <1>7, StabilityIsRecorded
<1> QED
  BY <1>8, <1>11, <1>12, <1>13

-----------------------------------------------------------------------------
(* What the archive says of the old trader.                                *)

\* The three archives the final state is read from hold what was captured:
\* whether the old trader was paused, and which positions it held.
LEMMA ArchiveIsRecorded ==
    ASSUME NEW a
    PROVE  LET f == ArchiveRoot(a).files
               report == f.final_trade_report.fact
               broker == f.broker_account_state.fact
               service == f.service_configuration.fact
           IN  /\ report.captured = a.captured /\ broker.captured = a.captured
               /\ service.captured = a.captured
               /\ report.paused = a.paused
               /\ DOMAIN report.managed = IF a.flat THEN {} ELSE {"position"}
<1> DEFINE held == IF a.flat THEN {} ELSE {"position"}
           sources == IF a.paused THEN [status |-> "status", entry_pause |-> "pause"]
                                  ELSE [status |-> "status"]
           common == [retirement |-> "mt5", captured |-> a.captured, by |-> "collector",
                      reviewer |-> "reviewer", sources |-> sources]
           report == [account |-> "demo-1", openPositions |-> Cardinality(held),
                      managed |-> [p \in held |-> "gold"], paused |-> a.paused,
                      status |-> "status"]
           broker == [account |-> "demo-1", mode |-> "demo",
                      positions |-> [p \in held |-> "gold"], orders |-> {}]
           service == [paused |-> a.paused, status |-> "status", pauseFile |-> a.paused,
                       writers |-> [s \in WriterSurfaces |-> IF a.paused THEN {} ELSE {"ea"}]]
           Tar(fact) == [odd |-> {}, members |-> sources, fact |-> fact]
           artifact == [k \in RequiredArtifacts |->
                           CASE k = "final_trade_report" -> Tar(Joined(common, report))
                             [] k = "broker_account_state" -> Tar(Joined(common, broker))
                             [] k = "service_configuration" -> Tar(Joined(common, service))
                             [] OTHER -> [odd |-> {}, members |-> k, fact |-> k]]
           f == ArchiveRoot(a).files
<1>1. \E control : f = Joined(artifact, control)
  BY DEF ArchiveRoot, Bundle
<1>2. {"final_trade_report", "broker_account_state", "service_configuration"}
         \subseteq DOMAIN artifact
  BY DEF RequiredArtifacts
<1>3. /\ artifact["final_trade_report"] = Tar(Joined(common, report))
      /\ artifact["broker_account_state"] = Tar(Joined(common, broker))
      /\ artifact["service_configuration"] = Tar(Joined(common, service))
  BY DEF RequiredArtifacts
<1>4. /\ common.captured = a.captured
      /\ DOMAIN common = {"retirement", "captured", "by", "reviewer", "sources"}
      /\ {"paused", "managed"} \subseteq DOMAIN report
      /\ report.paused = a.paused /\ DOMAIN report.managed = held
  OBVIOUS
<1> HIDE DEF artifact, f
<1>5. /\ f.final_trade_report = artifact["final_trade_report"]
      /\ f.broker_account_state = artifact["broker_account_state"]
      /\ f.service_configuration = artifact["service_configuration"]
  BY <1>1, <1>2, FieldsKept
<1>6. /\ f.final_trade_report.fact = Joined(common, report)
      /\ f.broker_account_state.fact = Joined(common, broker)
      /\ f.service_configuration.fact = Joined(common, service)
  BY <1>3, <1>5
<1> HIDE DEF common, report, broker, service
<1> QED
  BY <1>4, <1>6, FieldsKept, FieldsAdded DEF f

\* The final state repeats them.
LEMMA FinalStateIsRecorded ==
    ASSUME NEW a, NEW archive, NEW assembled, a.captured \in Nat
    PROVE  LET s == FinalState(ArchiveRoot(a), archive, assembled) IN
           /\ s.captured = a.captured
           /\ s.paused => a.paused
           /\ s.managed = 0 => a.flat
<1> DEFINE f == ArchiveRoot(a).files
           report == f.final_trade_report.fact
           broker == f.broker_account_state.fact
           service == f.service_configuration.fact
           s == FinalState(ArchiveRoot(a), archive, assembled)
<1>1. /\ s.captured = Max({report.captured, broker.captured, service.captured})
      /\ s.managed = Cardinality(DOMAIN report.managed)
      /\ s.paused = (report.paused /\ service.pauseFile)
  BY DEF FinalState
<1> HIDE DEF s
<1>2. /\ report.captured = a.captured /\ broker.captured = a.captured
      /\ service.captured = a.captured
      /\ report.paused = a.paused
      /\ DOMAIN report.managed = IF a.flat THEN {} ELSE {"position"}
  BY ArchiveIsRecorded
<1> HIDE DEF report, broker, service
<1>3. s.captured = a.captured
  <2>1. {report.captured, broker.captured, service.captured} = {a.captured}
    BY <1>2
  <2>2. Max({a.captured}) = a.captured
    BY DEF Max
  <2> QED
    BY <1>1, <2>1, <2>2
<1>4. s.paused => a.paused
  BY <1>1, <1>2
<1>5. s.managed = 0 => a.flat
  <2>1. Cardinality({"position"}) = 1
    BY FS_Singleton
  <2> QED
    BY <1>1, <1>2, <2>1
<1> QED
  BY <1>3, <1>4, <1>5 DEF s

\* A readiness report that passes its gates speaks of an old trader that was
\* paused and held no position when its archive was captured.
LEMMA PassingReadiness ==
    ASSUME NEW a, NEW nativeDoc, NEW archive, NEW assembled, NEW observed, NEW at,
           a.captured \in Nat,
           ReadinessReport(ReadinessObservation(nativeDoc, archive,
               FinalState(ArchiveRoot(a), archive, assembled), observed), at).awaitingStop
    PROVE  a.paused /\ a.flat
<1> DEFINE final == FinalState(ArchiveRoot(a), archive, assembled)
           o == ReadinessObservation(nativeDoc, archive, final, observed)
           gates == ReadinessGates(o)
<1>1. \A g \in DOMAIN gates : gates[g] = TRUE
  BY DEF ReadinessReport, Range
<1>2. /\ {"entry_pause", "flat_account"} \subseteq DOMAIN gates
      /\ gates.entry_pause = o.legacy.paused
      /\ gates.flat_account = (/\ o.legacy.managed = 0 /\ o.legacy.unmanaged = 0
                               /\ o.legacy.orders = 0)
  BY DEF ReadinessGates
<1> HIDE DEF gates
<1>3. o.legacy = final
  BY DEF ReadinessObservation
<1> HIDE DEF o
<1>4. final.paused /\ final.managed = 0
  BY <1>1, <1>2, <1>3
<1> QED
  BY <1>4, FinalStateIsRecorded

-----------------------------------------------------------------------------
(* What the verifications prove of the facts the evidence was filled from. *)

\* A verified window was begun with an approval that covers the stop, after a
\* readiness report that passed.
LEMMA VerifiedStop ==
    ASSUME NEW d, NEW report, NEW at, NEW archive, NEW nativeRoot, NEW archiveRoot, NEW nativeDoc,
           NEW o, NEW clock,
           DisabledIsVerified(
               DisabledRoot(d, report, Approve(StopBindings(report), at), archive), nativeRoot,
               archiveRoot, o, report, nativeDoc, archive, Approve(StopBindings(report), at), clock)
    PROVE  /\ at <= d.stopping /\ d.stopped < at + ApprovalLifetime
           /\ report.awaitingStop
<1> DEFINE approval == Approve(StopBindings(report), at)
           b == DisabledRoot(d, report, approval, archive)
<1>1. DisabledIsAssembled(b, nativeRoot, archiveRoot, report, nativeDoc, archive, approval,
                          o.assembled, clock)
  BY DEF DisabledIsVerified
<1>2. /\ ReadinessLineage(b.manifest, b.files, report, archive)
      /\ StopIsApproved(b.files.stop, report, approval)
  BY <1>1 DEF DisabledIsAssembled
<1>3. report.awaitingStop
  BY <1>2 DEF ReadinessLineage
<1>4. b.files.stop.from = d.stopping /\ b.files.stop.to = d.stopped
  BY DisabledDocuments, StopIsRecorded
<1>5. approval.approved = at /\ approval.expires = at + ApprovalLifetime
  BY ApprovalDates
<1> HIDE DEF approval, b
<1>6. /\ approval.approved <= b.files.stop.from
      /\ b.files.stop.to < approval.expires
  BY <1>2 DEF StopIsApproved, ApprovalIsVerified, ApprovalIsActive
<1> QED
  BY <1>3, <1>4, <1>5, <1>6

\* The final state a readiness report speaks of was recent at that moment.
LEMMA VerifiedReadiness ==
    ASSUME NEW a, NEW nativeRoot, NEW archiveRoot, NEW nativeDoc, NEW archive, NEW assembled,
           NEW observed, NEW clock, a.captured \in Nat,
           ReadinessIsVerified(nativeRoot, archiveRoot,
               ReadinessObservation(nativeDoc, archive,
                   FinalState(ArchiveRoot(a), archive, assembled), observed), clock)
    PROVE  clock <= a.captured + Policy.maxFinalAge
<1> DEFINE final == FinalState(ArchiveRoot(a), archive, assembled)
           o == ReadinessObservation(nativeDoc, archive, final, observed)
<1>1. o.legacy = final
  BY DEF ReadinessObservation
<1>2. final.captured = a.captured
  BY FinalStateIsRecorded
<1> HIDE DEF o, final
<1>3. ReadinessIsVerified(nativeRoot, archiveRoot, o, clock)
  BY DEF o, final
<1>4. clock <= o.legacy.captured + Policy.maxFinalAge
  BY <1>3 DEF ReadinessIsVerified, ReadinessSourcesVerify, FinalStateIsVerified
<1> QED
  BY <1>1, <1>2, <1>4

-----------------------------------------------------------------------------
(* The inductive invariant.                                                *)

RootFields ==
    [native   |-> {"from", "to", "renewals", "renewed", "outages", "altered"},
     later    |-> {"from", "to", "renewals", "renewed", "outages", "altered"},
     archive  |-> {"captured", "finished", "paused", "flat", "altered"},
     disabled |-> {"stopping", "stopped", "to", "samples", "active", "query", "orders",
                   "scanned", "outages", "altered"},
     approved |-> {"captured", "scanned", "states", "altered"},
     action   |-> {"captured", "scanned", "states", "altered"},
     outcome  |-> {"captured", "scanned", "done", "altered"}]

\* The shape of the state; what evidence says of the time it was captured.
TypeCorrect ==
    /\ now \in Nat
    /\ legacy \in [paused : BOOLEAN, flat : BOOLEAN, stopping : Int, stopped : Int,
                   orders : SUBSET Nat]
    /\ DOMAIN native = {"renewals", "renewed", "outages"}
    /\ native.outages \in SUBSET Nat /\ IsFiniteSet(native.outages)
    /\ \A d \in DOMAIN docs : docs[d] \in Nat
    /\ \A r \in DOMAIN roots : /\ r \in DOMAIN RootFields
                               /\ DOMAIN roots[r] = RootFields[r]
    /\ \A r \in {"archive", "approved", "action"} : Exists(r) => roots[r].captured \in Nat

\* Documents and evidence come in one order.
DocumentsFollow ==
    /\ \A r \in {"native", "later"} : Has(r) => Exists(r)
    /\ Has("archive") => Exists("archive")
    /\ Has("final") => Has("archive")
    /\ Has("readiness") => Has("final") /\ Has("native")
    /\ Has("report") => Has("readiness")
    /\ Has("stopApproval") => Has("report")
    /\ Exists("disabled") => Has("stopApproval")
    /\ Has("disabled") => Exists("disabled") /\ Has("later")
    /\ Has("disabledReport") => Has("disabled")
    /\ Exists("approved") => Has("disabledReport")
    /\ Has("manifest") => Exists("approved")
    /\ Has("cleanupApproval") => Has("manifest")
    /\ Exists("action") => Has("manifest")
    /\ Has("receipt") => Exists("action") /\ Has("cleanupApproval")
    /\ Has("plan") => Has("receipt")
    /\ Exists("outcome") => Has("plan")
    /\ Has("completion") => Exists("outcome")
    /\ Has("closeout") => Has("completion")

\* The old trader is stopped once, and the stop takes time.
StopsOnce == legacy.stopped # -1 => 0 <= legacy.stopping /\ legacy.stopping < legacy.stopped

\* The evidence of the window holds what had happened until then, and the old
\* trader does nothing after it.
WindowIsRecorded ==
    Exists("disabled") =>
        LET d == roots.disabled IN
        /\ 0 <= legacy.stopping /\ legacy.stopping < legacy.stopped /\ d.to \in Nat
        /\ d.stopping = legacy.stopping /\ d.stopped = legacy.stopped
        /\ d.query \in {legacy.stopping, legacy.stopped}
        /\ d.orders = {t \in legacy.orders : d.query <= t}
        /\ d.outages = {t \in native.outages : legacy.stopped <= t}

\* The readiness report was written soon after the archive was captured.
ReportIsFresh ==
    Has("report") => docs.report <= roots.archive.captured + Policy.maxFinalAge

\* Who replayed the window knows that the stop was approved, and why.
StopIsVouched ==
    Has("disabledReport") =>
        /\ docs.stopApproval <= legacy.stopping
        /\ legacy.stopped < docs.stopApproval + ApprovalLifetime
        /\ roots.archive.flat /\ roots.archive.paused

\* The targets are in the state the log of their changes says, as long as
\* nothing was done to them; an outcome bundle holds all that was done.
WorkIsRecorded ==
    /\ DOMAIN states = Targets
    /\ \A t \in DOMAIN done : done[t] \in Nat
    /\ DOMAIN done = {} =>
          \A t \in Targets : states[t] = IF t \in DOMAIN drifted THEN "changed" ELSE "kept"
    /\ Exists("outcome") => roots.outcome.done = done

\* Every target was kept when it was approved; one that was changed between
\* the approval and the inventory for the work is shown changed there.
InventoriesAreRecorded ==
    /\ ~Exists("approved") => DOMAIN drifted = {}
    /\ Exists("approved") => \A t \in Targets : roots.approved.states[t] = "kept"
    /\ Exists("action") =>
          /\ roots.action.captured <= now /\ roots.action.scanned \in Int
          /\ \A t \in Targets \cap DOMAIN drifted :
                drifted[t] >= roots.action.captured \/ roots.action.states[t] = "changed"

-----------------------------------------------------------------------------
(* What one step may change.                                               *)

Wrote(d) == ~Has(d) /\ Has(d)'
Captured(r) == ~Exists(r) /\ Exists(r)'

\* A command writes one document and nothing else.
Adds(d, at) == /\ DOMAIN docs' = DOMAIN docs \union {d} /\ ~Has(d)
               /\ docs'[d] = at /\ now' = at
               /\ at \in Nat /\ (at = now \/ at = now + 1)
               /\ \A e \in DOMAIN docs : docs'[e] = docs[e]
               /\ UNCHANGED <<legacy, native, states, drifted, done, mishaps>>
               /\ UNCHANGED roots

\* What Write does, without the record it is written with.
LEMMA WriteAdds == ASSUME TypeCorrect, NEW d, NEW at, Write(d, at)
                   PROVE  Adds(d, at)
<1>1. /\ ~Has(d) /\ at \in now..MaxTime /\ at <= now + 1 /\ now' = at
      /\ docs' = Joined(docs, [e \in {d} |-> at])
      /\ UNCHANGED <<legacy, native, states, drifted, done, mishaps>> /\ UNCHANGED roots
  BY DEF Write, people
<1>2. DOMAIN docs' = DOMAIN docs \union {d}
  BY <1>1 DEF Joined
<1>3. \A e \in DOMAIN docs : docs'[e] = docs[e]
  BY <1>1 DEF Joined
<1>4. docs'[d] = at
  BY <1>1 DEF Joined, Has
<1>5. at \in Nat /\ (at = now \/ at = now + 1)
  BY <1>1, ClockAssumption DEF TypeCorrect
<1> QED
  BY <1>1, <1>2, <1>3, <1>4, <1>5 DEF Adds

\* Evidence that is captured is a new bundle.
AddsRoot(r, facts) ==
    /\ DOMAIN roots' = DOMAIN roots \union {r} /\ ~Exists(r)
    /\ roots'[r] = Joined(facts, [altered |-> FALSE])
    /\ \A s \in DOMAIN roots : roots'[s] = roots[s]
    /\ UNCHANGED <<legacy, native, states, drifted, done, mishaps>>
    /\ UNCHANGED now /\ UNCHANGED docs

\* What Capture does.
LEMMA CaptureAdds == ASSUME NEW r, NEW facts, Capture(r, facts)
                     PROVE  AddsRoot(r, facts)
<1>1. /\ ~Exists(r)
      /\ roots' = Joined(roots, [s \in {r} |-> Joined(facts, [altered |-> FALSE])])
      /\ UNCHANGED <<legacy, native, states, drifted, done, mishaps>>
      /\ UNCHANGED now /\ UNCHANGED docs
  BY DEF Capture, people
<1> QED
  BY <1>1 DEF Joined, Exists, AddsRoot

\* Finishing or altering a bundle leaves what was captured in it.
LEMMA BundleKeeps ==
    ASSUME NEW r \in DOMAIN roots, NEW field, NEW v,
           roots' = [roots EXCEPT ![r] = [@ EXCEPT ![field] = v]]
    PROVE  /\ DOMAIN roots' = DOMAIN roots
           /\ \A s \in DOMAIN roots :
                 /\ DOMAIN roots'[s] = DOMAIN roots[s]
                 /\ \A f \in DOMAIN roots[s] :
                       roots'[s][f] = roots[s][f] \/ (s = r /\ f = field /\ roots'[s][f] = v)
  OBVIOUS

\* Every command writes; evidence is captured or finished; people leave the
\* clock and the documents alone, and alter bundles at the most.
LEMMA StepKinds ==
    ASSUME Next
    PROVE  \/ Tick
           \/ \E d, at : Write(d, at)
           \/ \E r, facts : Capture(r, facts)
           \/ \E r : Finish(r, "scanned") \/ Finish(r, "finished")
           \/ \E r : Alter(r)
           \/ UNCHANGED <<now, roots, docs>>
<1>1. Commands => \E d, at : Write(d, at)
  BY Zenon DEF Commands, AssembleNative, AssembleArchive, AssembleFinalState,
     AssembleReadiness, EvaluateReadiness, SignStop, AssembleDisabled, EvaluateDisabled,
     AssembleCleanupManifest, SignCleanup, PreparePreflight, PreparePlan,
     AssembleCompletion, AssembleCloseout
<1>2. Evidence => \/ \E r, facts : Capture(r, facts)
                  \/ \E r : Finish(r, "scanned") \/ Finish(r, "finished")
  BY Zenon DEF Evidence, CaptureNative, CaptureArchive, FinishArchive, CaptureDisabled,
     CaptureTargets, CaptureOutcome, Scan
<1>3. People => \/ \E r : Alter(r)
                \/ UNCHANGED <<now, roots, docs>>
  BY DEF People, StopBegins, StopEnds, Renew, Revive, NativeFails, Drift, Perform
<1> QED
  BY <1>1, <1>2, <1>3 DEF Next

\* Nothing is ever taken back: the clock, the documents and what was captured
\* in a bundle stay.
Kept == /\ now \in Nat /\ now' \in Nat /\ now <= now'
        /\ \A d \in DOMAIN docs : d \in DOMAIN docs' /\ docs'[d] = docs[d]
        /\ \A r \in DOMAIN roots :
              /\ r \in DOMAIN roots' /\ DOMAIN roots'[r] = DOMAIN roots[r]
              /\ \A f \in DOMAIN roots[r] \ {"altered", "scanned", "finished"} :
                    roots'[r][f] = roots[r][f]

\* No command and nobody replaces a document or recaptures a bundle.
LEMMA NothingIsTakenBack ==
    ASSUME TypeCorrect, [Next]_vars
    PROVE  Kept
<1>1. now \in Nat
  BY DEF TypeCorrect
<1>2. ASSUME UNCHANGED <<now, roots, docs>> PROVE Kept
  BY <1>1, <1>2 DEF Kept
<1>3. CASE Tick
  BY <1>1, <1>3 DEF Tick, Kept
<1>4. ASSUME NEW d, NEW at, Write(d, at) PROVE Kept
  <2>1. Adds(d, at)
    BY <1>4, WriteAdds
  <2> QED
    BY <1>1, <2>1 DEF Kept, Adds
<1>5. ASSUME NEW r, NEW facts, Capture(r, facts) PROVE Kept
  <2>1. AddsRoot(r, facts)
    BY <1>5, CaptureAdds
  <2> QED
    BY <1>1, <2>1 DEF Kept, AddsRoot
<1>6. ASSUME NEW r, NEW field \in {"scanned", "finished"}, Finish(r, field) PROVE Kept
  <2>1. /\ r \in DOMAIN roots /\ UNCHANGED <<now, docs>>
        /\ roots' = [roots EXCEPT ![r] = [@ EXCEPT ![field] = now]]
    BY <1>6 DEF Finish, Exists
  <2>2. /\ DOMAIN roots' = DOMAIN roots
        /\ \A s \in DOMAIN roots :
              /\ DOMAIN roots'[s] = DOMAIN roots[s]
              /\ \A f \in DOMAIN roots[s] : f # field => roots'[s][f] = roots[s][f]
    BY <2>1, BundleKeeps
  <2> QED
    BY <1>1, <2>1, <2>2 DEF Kept
<1>7. ASSUME NEW r, Alter(r) PROVE Kept
  <2> DEFINE field == "altered"
  <2>1. /\ r \in DOMAIN roots /\ UNCHANGED <<now, docs>>
        /\ roots' = [roots EXCEPT ![r] = [@ EXCEPT ![field] = TRUE]]
    BY <1>7 DEF Alter, Exists
  <2>0. field \in {"altered", "scanned", "finished"}
    OBVIOUS
  <2> HIDE DEF field
  <2>3. UNCHANGED now /\ UNCHANGED docs
    BY <2>1
  <2>2. /\ DOMAIN roots' = DOMAIN roots
        /\ \A s \in DOMAIN roots :
              /\ DOMAIN roots'[s] = DOMAIN roots[s]
              /\ \A f \in DOMAIN roots[s] : f # field => roots'[s][f] = roots[s][f]
    BY <2>1, BundleKeeps
  <2> QED
    BY <1>1, <2>0, <2>2, <2>3 DEF Kept
<1>8. CASE UNCHANGED vars
  BY <1>2, <1>8 DEF vars
<1>9. CASE Next
  BY <1>2, <1>3, <1>4, <1>5, <1>6, <1>7, <1>9, StepKinds
<1> QED
  BY <1>8, <1>9

\* Each document has one command, or one person, that writes it, and each
\* bundle one occasion at which it is captured.
Authors ==
    /\ \A d \in {"native", "later"} : Wrote(d) => AssembleNative(d)
    /\ Wrote("archive") => AssembleArchive
    /\ Wrote("final") => AssembleFinalState
    /\ Wrote("readiness") => AssembleReadiness
    /\ Wrote("report") => EvaluateReadiness
    /\ Wrote("stopApproval") => SignStop
    /\ Wrote("disabled") => AssembleDisabled
    /\ Wrote("disabledReport") => EvaluateDisabled
    /\ Wrote("manifest") => AssembleCleanupManifest
    /\ Wrote("cleanupApproval") => SignCleanup
    /\ Wrote("receipt") => PreparePreflight
    /\ Wrote("plan") => PreparePlan
    /\ Wrote("completion") => AssembleCompletion
    /\ Wrote("closeout") => AssembleCloseout

Collectors ==
    /\ \A r \in {"native", "later"} : Captured(r) => CaptureNative(r)
    /\ Captured("archive") => CaptureArchive
    /\ Captured("disabled") => CaptureDisabled
    /\ \A r \in {"approved", "action"} : Captured(r) => CaptureTargets(r)
    /\ Captured("outcome") => CaptureOutcome

\* A write writes one document.
LEMMA OneIsWritten == ASSUME TypeCorrect, NEW d, NEW at, Write(d, at), NEW e, Wrote(e)
                      PROVE  e = d
<1>1. Adds(d, at)
  BY WriteAdds
<1> QED
  BY <1>1 DEF Adds, Wrote, Has

\* Every document that appears is written by its own command.
LEMMA DocumentsHaveAuthors ==
    ASSUME TypeCorrect, [Next]_vars
    PROVE  Authors
<1>1. CASE Commands
  <2>1. ASSUME NEW r \in {"native", "later"}, AssembleNative(r) PROVE Authors
    <3>1. Write(r, now)
      BY <2>1 DEF AssembleNative
    <3>2. \A e : Wrote(e) => e = r
      BY <3>1, OneIsWritten
    <3> QED
      BY <2>1, <3>2 DEF Authors
  <2>2. CASE AssembleArchive
    <3>1. \A e : Wrote(e) => e = "archive"
      BY <2>2, OneIsWritten DEF AssembleArchive
    <3> QED
      BY <2>2, <3>1 DEF Authors
  <2>3. CASE AssembleFinalState
    <3>1. \A e : Wrote(e) => e = "final"
      BY <2>3, OneIsWritten DEF AssembleFinalState
    <3> QED
      BY <2>3, <3>1 DEF Authors
  <2>4. CASE AssembleReadiness
    <3>1. \A e : Wrote(e) => e = "readiness"
      BY <2>4, OneIsWritten DEF AssembleReadiness
    <3> QED
      BY <2>4, <3>1 DEF Authors
  <2>5. CASE EvaluateReadiness
    <3>1. \A e : Wrote(e) => e = "report"
      BY <2>5, OneIsWritten DEF EvaluateReadiness
    <3> QED
      BY <2>5, <3>1 DEF Authors
  <2>6. CASE SignStop
    <3>1. \A e : Wrote(e) => e = "stopApproval"
      BY <2>6, OneIsWritten DEF SignStop
    <3> QED
      BY <2>6, <3>1 DEF Authors
  <2>7. CASE AssembleDisabled
    <3>1. \A e : Wrote(e) => e = "disabled"
      BY <2>7, OneIsWritten DEF AssembleDisabled
    <3> QED
      BY <2>7, <3>1 DEF Authors
  <2>8. CASE EvaluateDisabled
    <3>1. \A e : Wrote(e) => e = "disabledReport"
      BY <2>8, OneIsWritten DEF EvaluateDisabled
    <3> QED
      BY <2>8, <3>1 DEF Authors
  <2>9. CASE AssembleCleanupManifest
    <3>1. \A e : Wrote(e) => e = "manifest"
      BY <2>9, OneIsWritten DEF AssembleCleanupManifest
    <3> QED
      BY <2>9, <3>1 DEF Authors
  <2>10. CASE SignCleanup
    <3>1. \A e : Wrote(e) => e = "cleanupApproval"
      BY <2>10, OneIsWritten DEF SignCleanup
    <3> QED
      BY <2>10, <3>1 DEF Authors
  <2>11. CASE PreparePreflight
    <3>1. \A e : Wrote(e) => e = "receipt"
      BY <2>11, OneIsWritten DEF PreparePreflight
    <3> QED
      BY <2>11, <3>1 DEF Authors
  <2>12. CASE PreparePlan
    <3>1. \A e : Wrote(e) => e = "plan"
      BY <2>12, OneIsWritten DEF PreparePlan
    <3> QED
      BY <2>12, <3>1 DEF Authors
  <2>13. CASE AssembleCompletion
    <3>1. \A e : Wrote(e) => e = "completion"
      BY <2>13, OneIsWritten DEF AssembleCompletion
    <3> QED
      BY <2>13, <3>1 DEF Authors
  <2>14. CASE AssembleCloseout
    <3>1. \A e : Wrote(e) => e = "closeout"
      BY <2>14, OneIsWritten DEF AssembleCloseout
    <3> QED
      BY <2>14, <3>1 DEF Authors
  <2> QED
    BY <1>1, <2>1, <2>2, <2>3, <2>4, <2>5, <2>6, <2>7, <2>8, <2>9, <2>10, <2>11, <2>12,
       <2>13, <2>14 DEF Commands
<1>2. CASE UNCHANGED docs
  <2>1. \A e : ~Wrote(e)
    BY <1>2 DEF Wrote, Has
  <2> QED
    BY <2>1 DEF Authors
<1>3. Evidence => UNCHANGED docs
  BY DEF Evidence, CaptureNative, CaptureArchive, FinishArchive, CaptureDisabled,
     CaptureTargets, CaptureOutcome, Scan, Capture, Finish
<1>4. Tick \/ People => UNCHANGED docs
  BY DEF Tick, People, StopBegins, StopEnds, Renew, Revive, NativeFails, Drift, Perform, Alter
<1> QED
  BY <1>1, <1>2, <1>3, <1>4 DEF Next, vars

\* A capture captures one bundle.
LEMMA OneIsCaptured == ASSUME NEW r, NEW facts, Capture(r, facts), NEW s, Captured(s)
                       PROVE  s = r
<1>1. AddsRoot(r, facts)
  BY CaptureAdds
<1> QED
  BY <1>1 DEF AddsRoot, Captured, Exists

\* Every bundle that appears is captured by its own action.
LEMMA BundlesHaveCollectors ==
    ASSUME [Next]_vars
    PROVE  Collectors
<1>1. ASSUME NEW r \in {"native", "later"}, CaptureNative(r) PROVE Collectors
  <2>1. \A s : Captured(s) => s = r
    BY <1>1, OneIsCaptured DEF CaptureNative
  <2> QED
    BY <1>1, <2>1 DEF Collectors
<1>2. CASE CaptureArchive
  <2>1. \A s : Captured(s) => s = "archive"
    BY <1>2, OneIsCaptured DEF CaptureArchive
  <2> QED
    BY <1>2, <2>1 DEF Collectors
<1>3. CASE CaptureDisabled
  <2>1. \A s : Captured(s) => s = "disabled"
    BY <1>3, OneIsCaptured DEF CaptureDisabled
  <2> QED
    BY <1>3, <2>1 DEF Collectors
<1>4. ASSUME NEW r \in {"approved", "action"}, CaptureTargets(r) PROVE Collectors
  <2>1. \A s : Captured(s) => s = r
    BY <1>4, OneIsCaptured DEF CaptureTargets
  <2> QED
    BY <1>4, <2>1 DEF Collectors
<1>5. CASE CaptureOutcome
  <2>1. \A s : Captured(s) => s = "outcome"
    BY <1>5, OneIsCaptured DEF CaptureOutcome
  <2> QED
    BY <1>5, <2>1 DEF Collectors
<1>6. CASE DOMAIN roots' = DOMAIN roots
  <2>1. \A s : ~Captured(s)
    BY <1>6 DEF Captured, Exists
  <2> QED
    BY <2>1 DEF Collectors
<1>7. \A r, field : Finish(r, field) => DOMAIN roots' = DOMAIN roots
  BY DEF Finish
<1>8. FinishArchive \/ (\E r \in {"disabled", "approved", "action", "outcome"} : Scan(r))
         => DOMAIN roots' = DOMAIN roots
  BY <1>7 DEF FinishArchive, Scan
<1>9. CASE Evidence
  BY <1>1, <1>2, <1>3, <1>4, <1>5, <1>6, <1>8, <1>9 DEF Evidence
<1>10. Tick \/ People => DOMAIN roots' = DOMAIN roots
  BY DEF Tick, People, StopBegins, StopEnds, Renew, Revive, NativeFails, Drift, Perform, Alter
<1>11. Commands => UNCHANGED roots
  BY DEF Commands, AssembleNative, AssembleArchive, AssembleFinalState,
     AssembleReadiness, EvaluateReadiness, SignStop, AssembleDisabled, EvaluateDisabled,
     AssembleCleanupManifest, SignCleanup, PreparePreflight, PreparePlan,
     AssembleCompletion, AssembleCloseout, Write
<1> QED
  BY <1>6, <1>9, <1>10, <1>11 DEF Next, vars

\* Each command and each capture asks for the documents it follows.
LEMMA OrderIsKept ==
    ASSUME TypeCorrect, DocumentsFollow, [Next]_vars
    PROVE  DocumentsFollow'
<1>1. /\ \A d : Has(d) => Has(d)'
      /\ \A r : Exists(r) => Exists(r)'
  BY NothingIsTakenBack DEF Kept, Has, Exists
<1>2. /\ \A d : Has(d)' => Has(d) \/ Wrote(d)
      /\ \A r : Exists(r)' => Exists(r) \/ Captured(r)
  BY DEF Wrote, Captured
<1>3. Authors /\ Collectors
  BY DocumentsHaveAuthors, BundlesHaveCollectors
<1>4. Has("archive")' => Exists("archive")'
  BY <1>1, <1>2, <1>3 DEF DocumentsFollow, Authors, AssembleArchive
<1>5. Has("final")' => Has("archive")'
  BY <1>1, <1>2, <1>3 DEF DocumentsFollow, Authors, AssembleFinalState
<1>6. Has("readiness")' => Has("final")' /\ Has("native")'
  BY <1>1, <1>2, <1>3 DEF DocumentsFollow, Authors, AssembleReadiness
<1>7. Has("report")' => Has("readiness")'
  BY <1>1, <1>2, <1>3 DEF DocumentsFollow, Authors, EvaluateReadiness
<1>8. Has("stopApproval")' => Has("report")'
  BY <1>1, <1>2, <1>3 DEF DocumentsFollow, Authors, SignStop
<1>9. Exists("disabled")' => Has("stopApproval")'
  BY <1>1, <1>2, <1>3 DEF DocumentsFollow, Collectors, CaptureDisabled
<1>10. Has("disabled")' => Exists("disabled")' /\ Has("later")'
  BY <1>1, <1>2, <1>3 DEF DocumentsFollow, Authors, AssembleDisabled
<1>11. Has("disabledReport")' => Has("disabled")'
  BY <1>1, <1>2, <1>3 DEF DocumentsFollow, Authors, EvaluateDisabled
<1>12. Exists("approved")' => Has("disabledReport")'
  BY <1>1, <1>2, <1>3 DEF DocumentsFollow, Collectors, CaptureTargets
<1>13. Has("manifest")' => Exists("approved")'
  BY <1>1, <1>2, <1>3 DEF DocumentsFollow, Authors, AssembleCleanupManifest
<1>14. Has("cleanupApproval")' => Has("manifest")'
  BY <1>1, <1>2, <1>3 DEF DocumentsFollow, Authors, SignCleanup
<1>15. Exists("action")' => Has("manifest")'
  BY <1>1, <1>2, <1>3 DEF DocumentsFollow, Collectors, CaptureTargets
<1>16. Has("receipt")' => Exists("action")' /\ Has("cleanupApproval")'
  BY <1>1, <1>2, <1>3 DEF DocumentsFollow, Authors, PreparePreflight
<1>17. Has("plan")' => Has("receipt")'
  BY <1>1, <1>2, <1>3 DEF DocumentsFollow, Authors, PreparePlan
<1>18. Exists("outcome")' => Has("plan")'
  BY <1>1, <1>2, <1>3 DEF DocumentsFollow, Collectors, CaptureOutcome
<1>19. Has("completion")' => Exists("outcome")'
  BY <1>1, <1>2, <1>3 DEF DocumentsFollow, Authors, AssembleCompletion
<1>20. Has("closeout")' => Has("completion")'
  BY <1>1, <1>2, <1>3 DEF DocumentsFollow, Authors, AssembleCloseout
<1>21. \A r \in {"native", "later"} : Has(r)' => Exists(r)'
  BY <1>1, <1>2, <1>3 DEF DocumentsFollow, Authors, AssembleNative
<1> QED
  BY <1>21, <1>4, <1>5, <1>6, <1>7, <1>8, <1>9, <1>10, <1>11, <1>12, <1>13, <1>14, <1>15,
     <1>16, <1>17, <1>18, <1>19, <1>20 DEF DocumentsFollow

\* Only what people do changes the two traders and the targets.
Actors ==
    /\ legacy' # legacy => StopBegins \/ StopEnds \/ Revive
    /\ native' # native => Renew \/ NativeFails
    /\ states' # states => (\E t : Drift(t)) \/ (\E ts : Perform(ts))
    /\ drifted' # drifted => \E t : Drift(t)
    /\ done' # done => \E ts : Perform(ts)

\* No command and no capture touches the traders or the targets.
LEMMA TheWorldHasActors ==
    ASSUME [Next]_vars
    PROVE  Actors
<1>1. UNCHANGED <<legacy, native, states, drifted, done>> => Actors
  BY DEF Actors
<1>2. Commands => UNCHANGED <<legacy, native, states, drifted, done>>
  BY DEF Commands, AssembleNative, AssembleArchive, AssembleFinalState,
     AssembleReadiness, EvaluateReadiness, SignStop, AssembleDisabled, EvaluateDisabled,
     AssembleCleanupManifest, SignCleanup, PreparePreflight, PreparePlan,
     AssembleCompletion, AssembleCloseout, Write, people
<1>3. Evidence => UNCHANGED <<legacy, native, states, drifted, done>>
  BY DEF Evidence, CaptureNative, CaptureArchive, FinishArchive, CaptureDisabled,
     CaptureTargets, CaptureOutcome, Scan, Capture, Finish, people
<1>4. Tick => UNCHANGED <<legacy, native, states, drifted, done>>
  BY DEF Tick, people
<1>5. ASSUME NEW r, Alter(r) PROVE Actors
  BY <1>1, <1>5 DEF Alter
<1>6. ASSUME NEW t, Drift(t) PROVE Actors
  <2>1. UNCHANGED <<legacy, native, done>>
    BY <1>6 DEF Drift
  <2> QED
    BY <1>6, <2>1 DEF Actors
<1>7. ASSUME NEW ts, Perform(ts) PROVE Actors
  <2>1. UNCHANGED <<legacy, native, drifted>>
    BY <1>7 DEF Perform
  <2> QED
    BY <1>7, <2>1 DEF Actors
<1>8. CASE StopBegins \/ StopEnds \/ Revive
  <2>1. UNCHANGED <<native, states, drifted, done>>
    BY <1>8 DEF StopBegins, StopEnds, Revive
  <2> QED
    BY <1>8, <2>1 DEF Actors
<1>9. CASE Renew \/ NativeFails
  <2>1. UNCHANGED <<legacy, states, drifted, done>>
    BY <1>9 DEF Renew, NativeFails
  <2> QED
    BY <1>9, <2>1 DEF Actors
<1>10. People => Actors
  BY <1>5, <1>6, <1>7, <1>8, <1>9 DEF People
<1> QED
  BY <1>1, <1>2, <1>3, <1>4, <1>10 DEF Next, vars

\* Only who alters a bundle changes whether it is.
LEMMA OnlyAltering ==
    ASSUME TypeCorrect, [Next]_vars, NEW r \in DOMAIN roots
    PROVE  roots'[r].altered = roots[r].altered \/ Alter(r)
<1>0. "altered" \in DOMAIN roots[r]
  BY DEF TypeCorrect, RootFields
<1>1. CASE UNCHANGED roots
  BY <1>1
<1>2. ASSUME NEW d, NEW at, Write(d, at) PROVE UNCHANGED roots
  BY <1>2 DEF Write
<1>3. ASSUME NEW s, NEW facts, Capture(s, facts) PROVE roots'[r].altered = roots[r].altered
  <2>1. AddsRoot(s, facts)
    BY <1>3, CaptureAdds
  <2> QED
    BY <2>1 DEF AddsRoot
<1>4. ASSUME NEW s, NEW field \in {"scanned", "finished"}, Finish(s, field)
      PROVE  roots'[r].altered = roots[r].altered
  <2>1. /\ s \in DOMAIN roots
        /\ roots' = [roots EXCEPT ![s] = [@ EXCEPT ![field] = now]]
    BY <1>4 DEF Finish, Exists
  <2>2. \A f \in DOMAIN roots[r] : f # field => roots'[r][f] = roots[r][f]
    BY <2>1, BundleKeeps
  <2>3. field # "altered"
    OBVIOUS
  <2> QED
    BY <1>0, <2>2, <2>3
<1>5. ASSUME NEW s, Alter(s), s # r PROVE roots'[r].altered = roots[r].altered
  <2> DEFINE field == "altered"
             v == TRUE
  <2>1. /\ s \in DOMAIN roots
        /\ roots' = [roots EXCEPT ![s] = [@ EXCEPT ![field] = v]]
    BY <1>5 DEF Alter, Exists
  <2> HIDE DEF v
  <2>2. \A f \in DOMAIN roots[r] : roots'[r][f] = roots[r][f]
    BY <1>5, <2>1, BundleKeeps
  <2> QED
    BY <1>0, <2>2
<1>6. CASE Next
  BY <1>1, <1>2, <1>3, <1>4, <1>5, <1>6, StepKinds DEF Tick
<1> QED
  BY <1>1, <1>6 DEF vars

\* What is captured holds these facts.
LEMMA NewBundle ==
    ASSUME NEW r, NEW facts, Capture(r, facts), "altered" \notin DOMAIN facts
    PROVE  /\ DOMAIN roots'[r] = DOMAIN facts \union {"altered"}
           /\ \A f \in DOMAIN facts : roots'[r][f] = facts[f]
<1>1. roots'[r] = Joined(facts, [altered |-> FALSE])
  BY CaptureAdds DEF AddsRoot
<1>2. \A f \in DOMAIN facts : roots'[r][f] = facts[f]
  BY <1>1, FieldsKept
<1>3. DOMAIN roots'[r] = DOMAIN facts \union {"altered"}
  BY <1>1 DEF Joined
<1> QED
  BY <1>2, <1>3

\* What is captured has the fields of its kind of bundle.
LEMMA NewShapes ==
    ASSUME TypeCorrect, [Next]_vars, NEW r, Captured(r)
    PROVE  /\ r \in DOMAIN RootFields /\ DOMAIN roots'[r] = RootFields[r]
           /\ r \in {"archive", "approved", "action"} => roots'[r].captured \in Nat
<1> DEFINE Goal == /\ r \in DOMAIN RootFields /\ DOMAIN roots'[r] = RootFields[r]
                   /\ r \in {"archive", "approved", "action"} => roots'[r].captured \in Nat
<1>0. now \in Nat
  BY DEF TypeCorrect
<1>1. ASSUME NEW s \in {"native", "later"}, CaptureNative(s) PROVE Goal
  <2> DEFINE facts == Joined([from |-> now - 1, to |-> now], native)
  <2>1. Capture(s, facts)
    BY <1>1 DEF CaptureNative
  <2>2. r = s
    BY <2>1, OneIsCaptured
  <2>3. DOMAIN facts = {"from", "to", "renewals", "renewed", "outages"}
    BY DEF Joined, TypeCorrect
  <2>4. DOMAIN roots'[s] = {"from", "to", "renewals", "renewed", "outages", "altered"}
    BY <2>1, <2>3, NewBundle
  <2> QED
    BY <2>2, <2>4 DEF RootFields
<1>2. CASE CaptureArchive
  <2> DEFINE facts == [captured |-> now, finished |-> -1, paused |-> legacy.paused,
                       flat |-> legacy.flat]
  <2>1. Capture("archive", facts)
    BY <1>2 DEF CaptureArchive
  <2>2. r = "archive"
    BY <2>1, OneIsCaptured
  <2>3. DOMAIN facts = {"captured", "finished", "paused", "flat"} /\ facts.captured = now
    OBVIOUS
  <2> HIDE DEF facts
  <2>4. /\ DOMAIN roots'["archive"] = {"captured", "finished", "paused", "flat", "altered"}
        /\ roots'["archive"].captured = now
    BY <2>1, <2>3, NewBundle
  <2> QED
    BY <1>0, <2>2, <2>4 DEF RootFields
<1>3. CASE CaptureDisabled
  <2>1. PICK query \in {legacy.stopping, legacy.stopped} :
          Capture("disabled",
                  [stopping |-> legacy.stopping, stopped |-> legacy.stopped, to |-> now,
                   samples |-> IF query = legacy.stopping THEN {legacy.stopped, now}
                                                          ELSE legacy.stopped..now,
                   active |-> legacy.orders, query |-> query,
                   orders |-> {t \in legacy.orders : query <= t}, scanned |-> -1,
                   outages |-> {t \in native.outages : legacy.stopped <= t}])
    BY <1>3 DEF CaptureDisabled
  <2>2. r = "disabled"
    BY <2>1, OneIsCaptured
  <2>3. DOMAIN roots'["disabled"] = {"stopping", "stopped", "to", "samples", "active",
                                     "query", "orders", "scanned", "outages"} \union {"altered"}
    BY <2>1, NewBundle
  <2> QED
    BY <2>2, <2>3 DEF RootFields
<1>4. ASSUME NEW s \in {"approved", "action"}, CaptureTargets(s) PROVE Goal
  <2> DEFINE facts == [captured |-> now, scanned |-> -1, states |-> states]
  <2>1. Capture(s, facts)
    BY <1>4 DEF CaptureTargets
  <2>2. r = s
    BY <2>1, OneIsCaptured
  <2>3. DOMAIN facts = {"captured", "scanned", "states"} /\ facts.captured = now
    OBVIOUS
  <2> HIDE DEF facts
  <2>4. /\ DOMAIN roots'[s] = {"captured", "scanned", "states", "altered"}
        /\ roots'[s].captured = now
    BY <2>1, <2>3, NewBundle
  <2> QED
    BY <1>0, <2>2, <2>4 DEF RootFields
<1>5. CASE CaptureOutcome
  <2> DEFINE facts == [captured |-> now, scanned |-> -1, done |-> done]
  <2>1. Capture("outcome", facts)
    BY <1>5 DEF CaptureOutcome
  <2>2. r = "outcome"
    BY <2>1, OneIsCaptured
  <2>3. DOMAIN roots'["outcome"] = {"captured", "scanned", "done"} \union {"altered"}
    BY <2>1, NewBundle
  <2> QED
    BY <2>2, <2>3 DEF RootFields
<1>6. DOMAIN roots' = DOMAIN roots => Goal
  BY DEF Captured, Exists
<1>7. FinishArchive \/ (\E s \in {"disabled", "approved", "action", "outcome"} : Scan(s))
         => DOMAIN roots' = DOMAIN roots
  BY DEF FinishArchive, Scan, Finish
<1>8. CASE Evidence
  BY <1>1, <1>2, <1>3, <1>4, <1>5, <1>6, <1>7, <1>8 DEF Evidence
<1>9. Tick \/ People => DOMAIN roots' = DOMAIN roots
  BY DEF Tick, People, StopBegins, StopEnds, Renew, Revive, NativeFails, Drift, Perform, Alter
<1>10. Commands => UNCHANGED roots
  BY DEF Commands, AssembleNative, AssembleArchive, AssembleFinalState,
     AssembleReadiness, EvaluateReadiness, SignStop, AssembleDisabled, EvaluateDisabled,
     AssembleCleanupManifest, SignCleanup, PreparePreflight, PreparePlan,
     AssembleCompletion, AssembleCloseout, Write
<1> QED
  BY <1>6, <1>8, <1>9, <1>10 DEF Next, vars

\* The state keeps its shape.
LEMMA ShapeIsKept ==
    ASSUME TypeCorrect, [Next]_vars
    PROVE  TypeCorrect'
<1>1. Kept
  BY NothingIsTakenBack
<1>2. Actors
  BY TheWorldHasActors
<1>3. Collectors
  BY BundlesHaveCollectors
<1>4. (/\ now \in Nat
       /\ legacy \in [paused : BOOLEAN, flat : BOOLEAN, stopping : Int, stopped : Int,
                       orders : SUBSET Nat])'
  <2>1. now' \in Nat
    BY <1>1 DEF Kept
  <2>2. CASE legacy' = legacy
    BY <2>1, <2>2 DEF TypeCorrect
  <2>3. CASE StopBegins \/ StopEnds \/ Revive
    BY <2>1, <2>3 DEF TypeCorrect, StopBegins, StopEnds, Revive
  <2> QED
    BY <1>2, <2>2, <2>3 DEF Actors
<1>5. (/\ DOMAIN native = {"renewals", "renewed", "outages"}
       /\ native.outages \in SUBSET Nat /\ IsFiniteSet(native.outages))'
  <2>1. CASE native' = native
    BY <2>1 DEF TypeCorrect
  <2>2. CASE Renew
    BY <2>2 DEF TypeCorrect, Renew
  <2>3. CASE NativeFails
    <3>1. /\ native' = [native EXCEPT !.outages = @ \union {now}]
          /\ now \in Nat
      BY <2>3 DEF NativeFails, TypeCorrect
    <3>2. IsFiniteSet(native.outages \union {now})
      BY FS_AddElement DEF TypeCorrect
    <3> QED
      BY <3>1, <3>2 DEF TypeCorrect
  <2> QED
    BY <1>2, <2>1, <2>2, <2>3 DEF Actors
<1>6. \A d \in DOMAIN docs' : docs'[d] \in Nat
  <2>1. CASE UNCHANGED docs
    BY <2>1 DEF TypeCorrect
  <2>2. ASSUME NEW d, NEW at, Write(d, at) PROVE \A e \in DOMAIN docs' : docs'[e] \in Nat
    <3>1. Adds(d, at)
      BY <2>2, WriteAdds
    <3> QED
      BY <3>1 DEF TypeCorrect, Adds
  <2>3. CASE Next
    BY <2>1, <2>2, <2>3, StepKinds DEF Tick, Capture, Finish, Alter
  <2> QED
    BY <2>1, <2>3 DEF vars
<1>7. ASSUME NEW r \in DOMAIN roots', r \notin DOMAIN roots
      PROVE  r \in DOMAIN RootFields /\ DOMAIN roots'[r] = RootFields[r]
  BY <1>7, NewShapes DEF Captured, Exists
<1>8. ASSUME NEW r \in {"archive", "approved", "action"}, Exists(r)'
      PROVE  roots'[r].captured \in Nat
  <2>1. CASE Exists(r)
    <3>1. "captured" \in DOMAIN roots[r] /\ roots[r].captured \in Nat
      BY <2>1 DEF TypeCorrect, RootFields, Exists
    <3> QED
      BY <1>1, <2>1, <3>1 DEF Kept, Exists
  <2>2. CASE ~Exists(r)
    BY <1>8, <2>2, NewShapes DEF Captured
  <2> QED
    BY <2>1, <2>2
<1>9. \A r \in DOMAIN roots' : r \in DOMAIN RootFields /\ DOMAIN roots'[r] = RootFields[r]
  BY <1>1, <1>7 DEF TypeCorrect, Kept
<1> QED
  BY <1>4, <1>5, <1>6, <1>8, <1>9 DEF TypeCorrect

\* A stop that has ended is not begun or ended again.
LEMMA StopIsKept ==
    ASSUME TypeCorrect, StopsOnce, [Next]_vars
    PROVE  StopsOnce'
<1>1. CASE legacy' = legacy
  BY <1>1 DEF StopsOnce
<1>2. CASE StopBegins
  BY <1>2 DEF StopBegins, StopsOnce, TypeCorrect
<1>3. CASE StopEnds
  BY <1>3 DEF StopEnds, StopsOnce, TypeCorrect
<1>4. CASE Revive
  BY <1>4 DEF Revive, StopsOnce, TypeCorrect
<1> QED
  BY <1>1, <1>2, <1>3, <1>4, TheWorldHasActors DEF Actors

\* The window's evidence is true when it is captured, and nothing of what it
\* speaks of happens afterwards.
LEMMA WindowIsKept ==
    ASSUME TypeCorrect, StopsOnce, WindowIsRecorded, [Next]_vars
    PROVE  WindowIsRecorded'
<1>1. Kept
  BY NothingIsTakenBack
<1>2. CASE Captured("disabled")
  <2>1. CaptureDisabled
    BY <1>2, BundlesHaveCollectors DEF Collectors
  <2>2. PICK query \in {legacy.stopping, legacy.stopped} :
          Capture("disabled",
                  [stopping |-> legacy.stopping, stopped |-> legacy.stopped, to |-> now,
                   samples |-> IF query = legacy.stopping THEN {legacy.stopped, now}
                                                          ELSE legacy.stopped..now,
                   active |-> legacy.orders, query |-> query,
                   orders |-> {t \in legacy.orders : query <= t}, scanned |-> -1,
                   outages |-> {t \in native.outages : legacy.stopped <= t}])
    BY <2>1 DEF CaptureDisabled
  <2>3. /\ roots'["disabled"].stopping = legacy.stopping
        /\ roots'["disabled"].stopped = legacy.stopped
        /\ roots'["disabled"].to = now /\ roots'["disabled"].query = query
        /\ roots'["disabled"].orders = {t \in legacy.orders : query <= t}
        /\ roots'["disabled"].outages = {t \in native.outages : legacy.stopped <= t}
    BY <2>2, NewBundle
  <2>4. UNCHANGED legacy /\ UNCHANGED native
    BY <2>2, CaptureAdds DEF AddsRoot
  <2>5. 0 <= legacy.stopping /\ legacy.stopping < legacy.stopped /\ now \in Nat
    BY <2>1 DEF CaptureDisabled, StopsOnce, TypeCorrect
  <2> QED
    BY <2>3, <2>4, <2>5 DEF WindowIsRecorded
<1>3. CASE Exists("disabled")
  <2>1. UNCHANGED native.outages
    <3>1. ~NativeFails
      BY <1>3 DEF NativeFails
    <3>2. Renew => UNCHANGED native.outages
      BY DEF Renew, TypeCorrect
    <3> QED
      BY <3>1, <3>2, TheWorldHasActors DEF Actors
  <2>2. UNCHANGED legacy
    <3>1. ~Revive
      BY <1>3 DEF Revive
    <3>2. ~StopBegins /\ ~StopEnds
      BY <1>3 DEF StopBegins, StopEnds, WindowIsRecorded, TypeCorrect
    <3> QED
      BY <3>1, <3>2, TheWorldHasActors DEF Actors
  <2>3. \A f \in {"stopping", "stopped", "to", "query", "orders", "outages"} :
           roots'["disabled"][f] = roots["disabled"][f]
    BY <1>1, <1>3 DEF Kept, TypeCorrect, RootFields, Exists
  <2> QED
    BY <1>3, <2>1, <2>2, <2>3 DEF WindowIsRecorded
<1>4. Exists("disabled")' => Exists("disabled") \/ Captured("disabled")
  BY DEF Captured
<1> QED
  BY <1>2, <1>3, <1>4 DEF WindowIsRecorded

\* The archive is what it was when it was captured.
LEMMA ArchiveIsRetained ==
    ASSUME TypeCorrect, Exists("archive")
    PROVE  /\ Retained("archive").captured = roots.archive.captured
           /\ Retained("archive").paused = roots.archive.paused
           /\ Retained("archive").flat = roots.archive.flat
           /\ roots.archive.captured \in Nat
  BY DEF Retained, TypeCorrect, RootFields, Exists

\* A readiness report is written while the final state is recent.
LEMMA FreshnessIsKept ==
    ASSUME TypeCorrect, DocumentsFollow, ReportIsFresh, [Next]_vars
    PROVE  ReportIsFresh'
<1>1. Kept
  BY NothingIsTakenBack
<1>2. Has("report")' => Exists("archive")
  BY DocumentsHaveAuthors
     DEF Wrote, Authors, EvaluateReadiness, DocumentsFollow
<1>3. CASE Has("report")
  <2>1. docs'["report"] = docs["report"]
    BY <1>1, <1>3 DEF Kept, Has
  <2>2. roots'["archive"].captured = roots["archive"].captured
    BY <1>1, <1>3, <1>2 DEF Kept, Has, Exists, TypeCorrect, RootFields, DocumentsFollow
  <2> QED
    BY <1>3, <2>1, <2>2 DEF ReportIsFresh
<1>4. CASE Wrote("report")
  <2>1. EvaluateReadiness
    BY <1>4, DocumentsHaveAuthors DEF Authors
  <2>2. /\ ReadinessIsVerified(NativeRoot(roots.native), ArchiveRoot(roots.archive), Readiness,
                               now)
        /\ Write("report", now)
    BY <2>1 DEF EvaluateReadiness
  <2>3. Exists("archive")
    BY <1>2, <1>4 DEF Wrote
  <2>4. Retained("archive").captured = roots.archive.captured /\ roots.archive.captured \in Nat
    BY <2>3, ArchiveIsRetained
  <2>5. now <= Retained("archive").captured + Policy.maxFinalAge
    BY <2>2, <2>4, VerifiedReadiness DEF Readiness, Final
  <2>6. docs'["report"] = now /\ UNCHANGED roots
    BY <2>2, WriteAdds DEF Adds
  <2> QED
    BY <2>4, <2>5, <2>6 DEF ReportIsFresh
<1> QED
  BY <1>3, <1>4 DEF Wrote, ReportIsFresh

\* The report of the disabled window is written after a replay that proves
\* the approval, and with it the readiness report, of the stop.
LEMMA VouchingIsKept ==
    ASSUME TypeCorrect, DocumentsFollow, WindowIsRecorded, StopIsVouched, [Next]_vars
    PROVE  StopIsVouched'
<1>1. Kept
  BY NothingIsTakenBack
<1>2. ASSUME Exists("disabled")
      PROVE  UNCHANGED legacy
  <2>1. ~Revive
    BY <1>2 DEF Revive
  <2>2. ~StopBegins /\ ~StopEnds
    BY <1>2 DEF StopBegins, StopEnds, WindowIsRecorded, TypeCorrect
  <2> QED
    BY <2>1, <2>2, TheWorldHasActors DEF Actors
<1>3. Has("disabledReport")' => /\ Has("stopApproval") /\ Has("report")
                                /\ Exists("archive") /\ Exists("disabled")
  BY DocumentsHaveAuthors DEF Wrote, Authors, EvaluateDisabled, DocumentsFollow
<1>4. ASSUME Has("disabledReport")'
      PROVE  /\ docs'["stopApproval"] = docs["stopApproval"] /\ UNCHANGED legacy
             /\ roots'["archive"].flat = roots["archive"].flat
             /\ roots'["archive"].paused = roots["archive"].paused
  <2>1. docs'["stopApproval"] = docs["stopApproval"]
    BY <1>1, <1>3, <1>4 DEF Kept, Has
  <2>2. {"flat", "paused"} \subseteq DOMAIN roots["archive"]
    BY <1>3, <1>4 DEF TypeCorrect, RootFields, Exists
  <2> QED
    BY <1>1, <1>2, <1>3, <1>4, <2>1, <2>2 DEF Kept, Exists
<1>5. CASE Has("disabledReport")
  BY <1>1, <1>4, <1>5 DEF StopIsVouched, Kept, Has
<1>6. CASE Wrote("disabledReport")
  <2>1. DisabledReplays
    BY <1>6, DocumentsHaveAuthors DEF Authors, EvaluateDisabled
  <2>2. DisabledIsVerified(
            DisabledRoot(roots.disabled, Report,
                         Approve(StopBindings(Report), docs.stopApproval), Archive),
            NativeRoot(roots.later), ArchiveRoot(roots.archive), Disabled(Report, Archive),
            Report, Native("later"), Archive, Approve(StopBindings(Report), docs.stopApproval),
            now)
    BY <2>1 DEF DisabledReplays, StopApproval
  <2>3. /\ docs.stopApproval <= roots.disabled.stopping
        /\ roots.disabled.stopped < docs.stopApproval + ApprovalLifetime
        /\ Report.awaitingStop
    BY <2>2, VerifiedStop
  <2>4. Retained("archive").paused /\ Retained("archive").flat
    <3>1. Retained("archive").captured \in Nat
      BY <1>3, <1>6, ArchiveIsRetained DEF Wrote
    <3> QED
      BY <2>3, <3>1, PassingReadiness DEF Report, Readiness, Final
  <2>5. roots.archive.paused /\ roots.archive.flat
    BY <2>4, <1>3, <1>6, ArchiveIsRetained DEF Wrote
  <2>6. /\ roots.disabled.stopping = legacy.stopping
        /\ roots.disabled.stopped = legacy.stopped
    BY <1>3, <1>6 DEF Wrote, WindowIsRecorded
  <2> QED
    BY <1>4, <1>6, <2>3, <2>5, <2>6 DEF Wrote, StopIsVouched
<1> QED
  BY <1>5, <1>6 DEF Wrote, StopIsVouched

-----------------------------------------------------------------------------
(* What a closed retirement proves.  First, a bundle that was altered is    *)
(* not sound.                                                              *)

IsBundle(b, altered, document) ==
    b.bound = IF altered THEN [b.files EXCEPT ![document] = Other] ELSE b.files

\* The hashes of the manifest give an altered document away.
LEMMA SoundIsUnaltered ==
    ASSUME NEW b, NEW altered, NEW document \in DOMAIN b.files, NEW field, NEW limit,
           IsBundle(b, altered, document),
           field \in DOMAIN b.files[document], field # "other",
           IsSound(b, limit)
    PROVE  ~altered
<1>1. SUFFICES ASSUME altered PROVE FALSE
  OBVIOUS
<1>2. b.files = [b.files EXCEPT ![document] = Other]
  BY <1>1 DEF IsSound, IsBundle
<1>3. b.files[document] = Other
  BY <1>2
<1> QED
  BY <1>3 DEF Other

\* Archive and native evidence are read again with every window ...
LEMMA ArchiveUnaltered ==
    ASSUME NEW a, NEW archive, NEW clock, ArchiveIsVerified(ArchiveRoot(a), archive, clock)
    PROVE  ~a.altered
<1> DEFINE b == ArchiveRoot(a)
<1>1. IsBundle(b, a.altered, "operator_timeline")
  BY DEF ArchiveRoot, Bundle, IsBundle
<1>2. \E artifact, control :
         /\ b.files = Joined(artifact, control)
         /\ "operator_timeline" \in DOMAIN artifact
         /\ "odd" \in DOMAIN artifact["operator_timeline"]
  <2> DEFINE held == IF a.flat THEN {} ELSE {"position"}
             sources == IF a.paused THEN [status |-> "status", entry_pause |-> "pause"]
                                    ELSE [status |-> "status"]
             common == [retirement |-> "mt5", captured |-> a.captured, by |-> "collector",
                        reviewer |-> "reviewer", sources |-> sources]
             report == [account |-> "demo-1", openPositions |-> Cardinality(held),
                        managed |-> [p \in held |-> "gold"], paused |-> a.paused,
                        status |-> "status"]
             broker == [account |-> "demo-1", mode |-> "demo",
                        positions |-> [p \in held |-> "gold"], orders |-> {}]
             service == [paused |-> a.paused, status |-> "status", pauseFile |-> a.paused,
                         writers |-> [s \in WriterSurfaces |-> IF a.paused THEN {} ELSE {"ea"}]]
             Tar(fact) == [odd |-> {}, members |-> sources, fact |-> fact]
             artifact == [k \in RequiredArtifacts |->
                             CASE k = "final_trade_report" -> Tar(Joined(common, report))
                               [] k = "broker_account_state" -> Tar(Joined(common, broker))
                               [] k = "service_configuration" -> Tar(Joined(common, service))
                               [] OTHER -> [odd |-> {}, members |-> k, fact |-> k]]
  <2>1. \E control : b.files = Joined(artifact, control)
    BY DEF ArchiveRoot, Bundle
  <2>2. /\ "operator_timeline" \in DOMAIN artifact
        /\ "odd" \in DOMAIN artifact["operator_timeline"]
    BY DEF RequiredArtifacts
  <2> HIDE DEF artifact, b
  <2> QED
    BY <2>1, <2>2
<1>3. IsSound(b, MaxFiles)
  BY DEF ArchiveIsVerified, ArchiveIsAssembled, ArchiveBundleIsSound
<1> HIDE DEF b
<1>4. "operator_timeline" \in DOMAIN b.files /\ "odd" \in DOMAIN b.files["operator_timeline"]
  BY <1>2, FieldsKept DEF Joined
<1> QED
  BY <1>1, <1>3, <1>4, SoundIsUnaltered

\* The native evidence that is read is unaltered.
LEMMA NativeUnaltered ==
    ASSUME NEW n, NEW nativeDoc, NEW clock, NativeIsVerified(NativeRoot(n), nativeDoc, clock)
    PROVE  ~n.altered
<1> DEFINE b == NativeRoot(n)
<1>1. IsBundle(b, n.altered, "register")
  BY DEF NativeRoot, NativeBundle, Bundle, IsBundle
<1>2. "register" \in DOMAIN b.files /\ "from" \in DOMAIN b.files["register"]
  BY DEF NativeRoot, NativeBundle, Bundle
<1>3. IsSound(b, MaxFiles)
  BY DEF NativeIsVerified, NativeIsAssembled, ProductionBundleIsSound
<1> HIDE DEF b
<1> QED
  BY <1>1, <1>2, <1>3, SoundIsUnaltered

\* So is the evidence of the disabled window.
LEMMA WindowUnaltered ==
    ASSUME NEW d, NEW report, NEW approval, NEW archive,
           DisabledBundleIsSound(DisabledRoot(d, report, approval, archive))
    PROVE  ~d.altered
<1> DEFINE b == DisabledRoot(d, report, approval, archive)
<1>1. IsBundle(b, d.altered, "stability")
  BY DEF DisabledRoot, Bundle, IsBundle
<1>2. "stability" \in DOMAIN b.files
  BY DEF DisabledRoot, Bundle
<1>3. "deployment" \in DOMAIN b.files["stability"]
  <2>1. b.files["stability"] = StabilityEvidence(d)
    BY DisabledDocuments
  <2> QED
    BY <2>1 DEF StabilityEvidence, Joined
<1>4. IsSound(b, MaxFiles)
  BY DEF DisabledBundleIsSound
<1> HIDE DEF b
<1> QED
  BY <1>1, <1>2, <1>3, <1>4, SoundIsUnaltered

\* ... and both inventories, and the outcomes, with the completion.
LEMMA InventoryUnaltered ==
    ASSUME NEW e, NEW report, NEW archive, CleanupBundleIsSound(CleanupRoot(e, report, archive))
    PROVE  ~e.altered
<1> DEFINE b == CleanupRoot(e, report, archive)
<1>1. IsBundle(b, e.altered, "audit")
  BY DEF CleanupRoot, Bundle, IsBundle
<1>2. "audit" \in DOMAIN b.files /\ "commit" \in DOMAIN b.files["audit"]
  BY DEF CleanupRoot, Bundle
<1>3. IsSound(b, MaxFiles)
  BY DEF CleanupBundleIsSound
<1> HIDE DEF b
<1> QED
  BY <1>1, <1>2, <1>3, SoundIsUnaltered

\* So are the outcomes.
LEMMA OutcomeUnaltered ==
    ASSUME NEW o, NEW approvedFiles, NEW r, NEW p, NEW c, NEW report, NEW archive,
           OutcomeBundleIsSound(OutcomeRoot(o, approvedFiles, r, p, c, report, archive))
    PROVE  ~o.altered
<1> DEFINE b == OutcomeRoot(o, approvedFiles, r, p, c, report, archive)
<1>1. IsBundle(b, o.altered, "scan")
  BY DEF OutcomeRoot, Bundle, IsBundle
<1>2. "scan" \in DOMAIN b.files /\ "policy" \in DOMAIN b.files["scan"]
  BY DEF OutcomeRoot, Bundle
<1>3. IsSound(b, MaxFiles)
  BY DEF OutcomeBundleIsSound
<1> HIDE DEF b
<1> QED
  BY <1>1, <1>2, <1>3, SoundIsUnaltered

-----------------------------------------------------------------------------
(* Second, inventories and outcomes say what was done, when and to what.    *)

\* An inventory has every target, in the state the target had.
ProofOf(t, e) ==
    IF Inventory[t].kind \in PathKinds THEN <<e.states[t]>>
    ELSE <<[part |-> 1, state |-> e.states[t]], [part |-> 2, state |-> e.states[t]]>>

\* The inventory names the targets with the states they had.
LEMMA InventoryIsRecorded ==
    ASSUME NEW e, NEW report, NEW archive
    PROVE  LET f == CleanupRoot(e, report, archive).files IN
           /\ DOMAIN f.targets = Targets
           /\ \A t \in Targets : /\ f.targets[t].state.kind = Inventory[t].kind
                                  /\ f.targets[t].state.locator = Inventory[t].locator
                                  /\ f.targets[t].state.captured = e.captured
                                  /\ f.targets[t].state.proof = ProofOf(t, e)
  BY ZenonT(40) DEF CleanupRoot, Bundle, ProofOf

\* Its times are those of the capture and of the scan.
LEMMA InventoryTimes ==
    ASSUME NEW e, NEW report, NEW archive, e.captured \in Int, e.scanned \in Int
    PROVE  LET first == Min(EvidenceTimes(CleanupRoot(e, report, archive))) IN
           first \in Int /\ first <= e.captured
<1> DEFINE b == CleanupRoot(e, report, archive)
           times == EvidenceTimes(b)
<1>1. /\ b.manifest.created = e.scanned /\ b.manifest.controls = e.scanned
      /\ b.files.audit.observed = e.captured /\ b.files.audit.reviewed = e.captured
      /\ b.files.scan.from = e.captured /\ b.files.scan.to = e.scanned
      /\ b.files.scan.reviewed = e.scanned
  BY DEF CleanupRoot, Bundle
<1>2. Range(b.manifest.captured) \subseteq {e.captured}
  BY DEF CleanupRoot, Bundle, Range
<1>3. \A t \in DOMAIN b.files.targets : b.files.targets[t].state.captured = e.captured
  BY InventoryIsRecorded
<1> HIDE DEF b
<1>4. e.captured \in times /\ times \subseteq {e.captured, e.scanned}
  BY <1>1, <1>2, <1>3 DEF EvidenceTimes
<1> HIDE DEF times
<1>5. \E x \in times : \A y \in times : x <= y
  BY <1>4
<1>6. /\ Min(times) \in times
      /\ \A y \in times : Min(times) <= y
  BY <1>5 DEF Min
<1> QED
  BY <1>4, <1>6 DEF times, b

\* An outcome bundle has an outcome for every target that was done, with the
\* instant it was done.
LEMMA OutcomeIsRecorded ==
    ASSUME NEW o, NEW approvedFiles, NEW r, NEW p, NEW c, NEW report, NEW archive
    PROVE  LET f == OutcomeRoot(o, approvedFiles, r, p, c, report, archive).files IN
           /\ DOMAIN f.outcomes = DOMAIN o.done
           /\ \A t \in DOMAIN o.done : f.outcomes[t].started = o.done[t]
  BY DEF OutcomeRoot, Bundle

\* A cleanup manifest names the targets of its inventory.
LEMMA ManifestTargets ==
    ASSUME NEW e, NEW report, NEW archive, NEW assembled
    PROVE  LET b == CleanupRoot(e, report, archive)
               ts == CleanupManifest(b, assembled).targets
           IN  /\ ts = {CleanupTarget(t, b.files.targets[t]) : t \in Targets}
               /\ {t.id : t \in ts} = Targets
<1> DEFINE b == CleanupRoot(e, report, archive)
           ts == CleanupManifest(b, assembled).targets
<1>1. DOMAIN b.files.targets = Targets
  BY InventoryIsRecorded
<1> HIDE DEF b
<1>2. ts = {CleanupTarget(t, b.files.targets[t]) : t \in Targets}
  BY <1>1 DEF CleanupManifest
<1>3. \A t \in Targets : CleanupTarget(t, b.files.targets[t]).id = t
  BY DEF CleanupTarget
<1> HIDE DEF ts
<1>4. {t.id : t \in ts} = Targets
  BY <1>2, <1>3
<1> QED
  BY <1>2, <1>4 DEF b, ts

\* Two inventories of disjoint targets that expect the same saw every target
\* in the same state.
LEMMA SameExpectations ==
    ASSUME NEW e, NEW a, NEW report, NEW archive, NEW at1, NEW at2,
           TargetsAreDisjoint(CleanupManifest(CleanupRoot(e, report, archive), at1).targets),
           {t.expected : t \in CleanupManifest(CleanupRoot(a, report, archive), at2).targets}
              = {t.expected : t \in CleanupManifest(CleanupRoot(e, report, archive), at1).targets}
    PROVE  \A t \in Targets : a.states[t] = e.states[t]
<1> DEFINE be == CleanupRoot(e, report, archive)
           ba == CleanupRoot(a, report, archive)
           te == CleanupManifest(be, at1).targets
           ta == CleanupManifest(ba, at2).targets
           E(t) == CleanupTarget(t, be.files.targets[t])
           A(t) == CleanupTarget(t, ba.files.targets[t])
<1>1. te = {E(t) : t \in Targets} /\ ta = {A(t) : t \in Targets}
  BY ManifestTargets
<1>2. ASSUME NEW t \in Targets
      PROVE  /\ E(t).id = t /\ E(t).kind = Inventory[t].kind
             /\ E(t).locator = Inventory[t].locator
             /\ E(t).expected = [kind |-> Inventory[t].kind, locator |-> Inventory[t].locator,
                                 proof |-> ProofOf(t, e)]
             /\ A(t).expected = [kind |-> Inventory[t].kind, locator |-> Inventory[t].locator,
                                 proof |-> ProofOf(t, a)]
  BY InventoryIsRecorded DEF CleanupTarget, ExpectedState
<1>3. TargetsAreDisjoint(te) /\ {t.expected : t \in ta} = {t.expected : t \in te}
  OBVIOUS
<1> HIDE DEF te, ta, E, A, be, ba
<1>4. ASSUME NEW t \in Targets PROVE a.states[t] = e.states[t]
  <2>1. A(t) \in ta
    BY <1>1
  <2>2. PICK x \in te : x.expected = A(t).expected
    BY <1>3, <2>1
  <2>3. PICK u \in Targets : x = E(u)
    BY <1>1, <2>2
  <2>4. /\ Inventory[u].kind = Inventory[t].kind /\ Inventory[u].locator = Inventory[t].locator
        /\ ProofOf(u, e) = ProofOf(t, a)
    <3>1. E(u).expected = A(t).expected
      BY <2>2, <2>3
    <3>2. [kind |-> Inventory[u].kind, locator |-> Inventory[u].locator, proof |-> ProofOf(u, e)]
          = [kind |-> Inventory[t].kind, locator |-> Inventory[t].locator,
             proof |-> ProofOf(t, a)]
      BY <1>2, <2>3, <3>1
    <3> QED
      BY <3>2
  <2>5. u = t
    <3>1. E(u) \in te /\ E(t) \in te
      BY <1>1
    <3>2. E(u).kind = E(t).kind /\ E(u).locator = E(t).locator
      BY <1>2, <2>4
    <3>3. E(u) = E(t)
      BY <1>3, <3>1, <3>2 DEF TargetsAreDisjoint
    <3> QED
      BY <1>2, <3>3
  <2>6. ProofOf(t, e) = ProofOf(t, a)
    BY <2>4, <2>5
  <2> QED
    BY <2>6 DEF ProofOf
<1> QED
  BY <1>4

-----------------------------------------------------------------------------
(* Third, the replay of the completion, which ends in the closeout ledger.  *)

\* Who closes the retirement replays the completion from the evidence on,
\* with the documents as they were written and the bundles as they are.
LEMMA CloseoutReplays ==
    ASSUME CompletionPasses("assemble closeout")
    PROVE  LET report == DisabledReportDoc
               approved == Root("approved", report, Archive)
               action == Root("action", report, Archive)
               c == Manifest(report, Archive)
               approval == CleanupApproval(c, report)
               r == Receipt(c, report, Archive, approval)
           IN  \E p, at :
                 CompletionIsAssembled(
                     OutcomeRoot(roots.outcome, approved.files, r, p, c, report, Archive),
                     approved, action, r, p, c, report, Archive, approval, at, now)
<1>1. PICK report \in {DisabledReportDoc}, archive \in {Archive} :
      \E approved \in {Root("approved", report, archive)},
         action \in {Root("action", report, archive)}, c \in {Manifest(report, archive)} :
      \E approval \in {CleanupApproval(c, report)} :
      \E r \in {Receipt(c, report, archive, approval)} :
      \E p : \E b \in {OutcomeRoot(roots.outcome, approved.files, r, p, c, report, archive)} :
      \E d : CloseoutIsAssembled(b, approved, action, d, r, p, c, report, archive, approval,
                                 now, now)
  BY DEF CompletionPasses
<1>2. PICK p, d :
      LET approved == Root("approved", report, archive)
          action == Root("action", report, archive)
          c == Manifest(report, archive)
          approval == CleanupApproval(c, report)
          r == Receipt(c, report, archive, approval)
      IN  CloseoutIsAssembled(
              OutcomeRoot(roots.outcome, approved.files, r, p, c, report, archive), approved,
              action, d, r, p, c, report, archive, approval, now, now)
  BY <1>1
<1>3. report = DisabledReportDoc /\ archive = Archive
  BY <1>1
<1> QED
  BY <1>2, <1>3 DEF CloseoutIsAssembled

\* The state of a target that an inventory saw, whoever altered the bundle.
LEMMA InventoryIsRetained ==
    ASSUME TypeCorrect, NEW r \in {"approved", "action"}, Exists(r)
    PROVE  /\ Retained(r).captured = roots[r].captured
           /\ Retained(r).scanned = roots[r].scanned
           /\ Retained(r).states = roots[r].states
           /\ roots[r].captured \in Nat
  BY DEF Retained, TypeCorrect, RootFields, Exists

\* A replay that passes shows that every target was acted on, after the
\* preflight, while the approval and the inventory taken for it still held,
\* in the state that had been approved, and that no bundle was altered.
LEMMA VerifiedCompletion ==
    ASSUME NEW e, NEW e0, NEW a, NEW a0, NEW o, NEW report, NEW archive, NEW p,
           NEW written, NEW signed, NEW evaluated, NEW at, NEW clock,
           a.captured \in Int /\ a.scanned \in Int,
           a0.captured = a.captured /\ a0.scanned = a.scanned,
           signed \in Int, \A t \in DOMAIN o.done : o.done[t] \in Int,
           LET approved == CleanupRoot(e, report, archive)
               action == CleanupRoot(a, report, archive)
               action0 == CleanupRoot(a0, report, archive)
               c == CleanupManifest(CleanupRoot(e0, report, archive), written)
               approval == Approve(CleanupBindings(c, report), signed)
               r == PreflightReceipt(action0, action0, c, approval, evaluated)
           IN  CompletionIsAssembled(
                   OutcomeRoot(o, approved.files, r, p, c, report, archive),
                   approved, action, r, p, c, report, archive, approval, at, clock)
    PROVE  /\ ~e.altered /\ ~a.altered /\ ~o.altered
           /\ DOMAIN o.done = Targets
           /\ signed <= a.captured
           /\ \A t \in Targets :
                 /\ e0.states[t] = a.states[t]
                 /\ evaluated <= o.done[t]
                 /\ o.done[t] < signed + ApprovalLifetime
                 /\ o.done[t] < a.captured + Policy.maxCaptureSkew
<1> DEFINE approved == CleanupRoot(e, report, archive)
           action == CleanupRoot(a, report, archive)
           action0 == CleanupRoot(a0, report, archive)
           c == CleanupManifest(CleanupRoot(e0, report, archive), written)
           approval == Approve(CleanupBindings(c, report), signed)
           r == PreflightReceipt(action0, action0, c, approval, evaluated)
           b == OutcomeRoot(o, approved.files, r, p, c, report, archive)
<1>1. CompletionIsAssembled(b, approved, action, r, p, c, report, archive, approval, at, clock)
  OBVIOUS
<1>2. r.evaluated = evaluated /\ r.validUntil = Min({StateExpiry(action0), approval.expires})
  BY DEF PreflightReceipt
<1>3. approval.approved = signed /\ approval.expires = signed + ApprovalLifetime
  BY ApprovalDates
<1>4. /\ Min(EvidenceTimes(action)) \in Int /\ Min(EvidenceTimes(action)) <= a.captured
      /\ Min(EvidenceTimes(action0)) \in Int /\ Min(EvidenceTimes(action0)) <= a.captured
  BY InventoryTimes
<1>5. DOMAIN b.files.outcomes = DOMAIN o.done
      /\ \A t \in DOMAIN o.done : b.files.outcomes[t].started = o.done[t]
  BY OutcomeIsRecorded
<1>6. {t.id : t \in c.targets} = Targets
  BY ManifestTargets
<1>7. OutcomeBundleIsSound(b) => ~o.altered
  BY OutcomeUnaltered
<1>8. /\ CleanupBundleIsSound(approved) => ~e.altered
      /\ CleanupBundleIsSound(action) => ~a.altered
  BY InventoryUnaltered
<1>9. ASSUME TargetsAreDisjoint(CleanupManifest(action, evaluated).targets),
             {t.expected : t \in c.targets}
                = {t.expected : t \in CleanupManifest(action, evaluated).targets}
      PROVE  \A t \in Targets : e0.states[t] = a.states[t]
  BY <1>9, SameExpectations
<1> HIDE DEF approved, action, action0, c, approval, r, b
<1>10. /\ PreflightPasses(approved, action, c, report, archive, approval, evaluated, clock)
       /\ CleanupIsAssembled(approved, report, archive, c.created)
       /\ OutcomeIsReplayed(b, approved.files, r, p, c, report, archive, at)
  BY <1>1, <1>2 DEF CompletionIsAssembled
<1>11. /\ CleanupIsAssembled(action, report, archive, evaluated)
       /\ EvidenceFollowsApproval(action, approval)
       /\ {t.expected : t \in CleanupManifest(action, evaluated).targets}
             = {t.expected : t \in c.targets}
  BY <1>10 DEF PreflightPasses
<1>12. \A t \in Targets : e0.states[t] = a.states[t]
  BY <1>9, <1>11 DEF CleanupIsAssembled
<1>13. ~e.altered /\ ~a.altered
  BY <1>8, <1>10, <1>11 DEF CleanupIsAssembled
<1>14. /\ OutcomeBundleIsSound(b)
       /\ OutcomesAreProven(b.files, b.manifest, r, p, c, approved.files, archive)
  BY <1>10 DEF OutcomeIsReplayed
<1>15. DOMAIN o.done = Targets
  BY <1>5, <1>6, <1>14 DEF OutcomesAreProven, OutcomesFollowThePlan
<1>16. signed <= a.captured
  BY <1>3, <1>4, <1>11 DEF EvidenceFollowsApproval
<1>17. ASSUME NEW t \in Targets
       PROVE  /\ evaluated <= o.done[t]
              /\ o.done[t] < signed + ApprovalLifetime
              /\ o.done[t] < a.captured + Policy.maxCaptureSkew
  <2>1. evaluated <= o.done[t] /\ o.done[t] < r.validUntil
    BY <1>2, <1>5, <1>14, <1>15 DEF OutcomesAreProven, StartedWhileAuthorized
  <2>2. o.done[t] \in Int
    BY <1>15
  <2> DEFINE x == StateExpiry(action0)
             y == signed + ApprovalLifetime
  <2>3. x \in Int /\ x <= a.captured + Policy.maxCaptureSkew
    BY <1>4, PolicyAssumption DEF StateExpiry
  <2>4. y \in Int
    BY ApprovalAssumption
  <2>5. r.validUntil = Min({x, y})
    BY <1>2, <1>3
  <2> HIDE DEF x, y
  <2>6. Min({x, y}) \in Int /\ Min({x, y}) <= x /\ Min({x, y}) <= y
    <3>1. \E z \in {x, y} : \A w \in {x, y} : z <= w
      BY <2>3, <2>4
    <3>2. Min({x, y}) \in {x, y} /\ \A w \in {x, y} : Min({x, y}) <= w
      BY <3>1 DEF Min
    <3> QED
      BY <2>3, <2>4, <3>2
  <2>7. o.done[t] < x /\ o.done[t] < y
    BY <2>1, <2>2, <2>3, <2>4, <2>5, <2>6
  <2>8. o.done[t] < a.captured + Policy.maxCaptureSkew
    BY <2>2, <2>3, <2>7, PolicyAssumption
  <2> QED
    BY <2>1, <2>7, <2>8 DEF y
<1> QED
  BY <1>7, <1>12, <1>13, <1>14, <1>15, <1>16, <1>17

\* Targets drift and are acted on, and are not touched once the outcomes are
\* recorded.
LEMMA WorkIsKept ==
    ASSUME TypeCorrect, WorkIsRecorded, [Next]_vars
    PROVE  WorkIsRecorded'
<1>1. Kept
  BY NothingIsTakenBack
<1>2. Actors
  BY TheWorldHasActors
<1>3. (DOMAIN states = Targets)'
  BY <1>2 DEF Actors, Drift, Perform, WorkIsRecorded
<1>4. ASSUME NEW t \in DOMAIN done' PROVE done'[t] \in Nat
  <2>1. CASE done' = done
    BY <1>4, <2>1 DEF WorkIsRecorded
  <2>2. ASSUME NEW ts, Perform(ts) PROVE done'[t] \in Nat
    <3>1. done' = Joined(done, [u \in ts |-> now])
      BY <2>2 DEF Perform
    <3>2. t \in DOMAIN done \union ts
      BY <1>4, <3>1 DEF Joined
    <3>3. done'[t] = IF t \in DOMAIN done THEN done[t] ELSE now
      BY <3>1, <3>2 DEF Joined
    <3> QED
      BY <3>2, <3>3 DEF WorkIsRecorded, TypeCorrect
  <2> QED
    BY <1>2, <2>1, <2>2 DEF Actors
<1>5. ASSUME DOMAIN done' = {}, NEW t \in Targets
      PROVE  states'[t] = IF t \in DOMAIN drifted' THEN "changed" ELSE "kept"
  <2>1. \A ts : ~Perform(ts)
    <3>1. SUFFICES ASSUME NEW ts, Perform(ts) PROVE FALSE
      OBVIOUS
    <3>2. ts # {} /\ DOMAIN done' = DOMAIN done \union ts
      BY <3>1 DEF Perform, Joined
    <3> QED
      BY <1>5, <3>2
  <2>2. done' = done
    BY <1>2, <2>1 DEF Actors
  <2>3. CASE states' = states /\ drifted' = drifted
    BY <1>5, <2>2, <2>3 DEF WorkIsRecorded
  <2>4. ASSUME NEW u, Drift(u)
        PROVE  states'[t] = IF t \in DOMAIN drifted' THEN "changed" ELSE "kept"
    <3>1. states' = [states EXCEPT ![u] = "changed"]
          /\ drifted' = Joined(drifted, [v \in {u} |-> now])
      BY <2>4 DEF Drift
    <3>2. DOMAIN drifted' = DOMAIN drifted \union {u}
      BY <3>1 DEF Joined
    <3>3. t \in DOMAIN states
          /\ states[t] = IF t \in DOMAIN drifted THEN "changed" ELSE "kept"
      BY <1>5, <2>2 DEF WorkIsRecorded
    <3> QED
      BY <3>1, <3>2, <3>3
  <2> QED
    BY <1>2, <2>1, <2>3, <2>4 DEF Actors
<1>6. ASSUME Exists("outcome")' PROVE roots'["outcome"].done = done'
  <2>1. CASE Exists("outcome")
    <3>1. \A ts : ~Perform(ts)
      BY <2>1 DEF Perform
    <3>2. done' = done
      BY <1>2, <3>1 DEF Actors
    <3>3. "done" \in DOMAIN roots["outcome"]
      BY <2>1 DEF TypeCorrect, RootFields, Exists
    <3>4. roots'["outcome"].done = roots["outcome"].done
      BY <1>1, <2>1, <3>3 DEF Kept, Exists
    <3> QED
      BY <2>1, <3>2, <3>4 DEF WorkIsRecorded
  <2>2. CASE Captured("outcome")
    <3>1. CaptureOutcome
      BY <2>2, BundlesHaveCollectors DEF Collectors
    <3>2. Capture("outcome", [captured |-> now, scanned |-> -1, done |-> done])
      BY <3>1 DEF CaptureOutcome
    <3>3. roots'["outcome"].done = done
      BY <3>2, NewBundle
    <3>4. done' = done
      BY <3>2, CaptureAdds DEF AddsRoot
    <3> QED
      BY <3>3, <3>4
  <2> QED
    BY <1>6, <2>1, <2>2 DEF Captured
<1> QED
  BY <1>3, <1>4, <1>5, <1>6 DEF WorkIsRecorded

\* A scan is dated when it ends.
LEMMA ScanIsDated ==
    ASSUME TypeCorrect, [Next]_vars, Exists("action"), roots.action.scanned \in Int
    PROVE  roots'["action"].scanned \in Int
<1>0. "scanned" \in DOMAIN roots["action"] /\ now \in Int
  BY DEF TypeCorrect, RootFields, Exists
<1>1. CASE UNCHANGED roots
  BY <1>1
<1>2. ASSUME NEW d, NEW at, Write(d, at) PROVE UNCHANGED roots
  BY <1>2 DEF Write
<1>3. ASSUME NEW s, NEW facts, Capture(s, facts) PROVE roots'["action"].scanned \in Int
  <2>1. AddsRoot(s, facts)
    BY <1>3, CaptureAdds
  <2> QED
    BY <2>1 DEF AddsRoot, Exists
<1>4. ASSUME NEW s, NEW field, NEW v, s \in DOMAIN roots,
             roots' = [roots EXCEPT ![s] = [@ EXCEPT ![field] = v]],
             field = "scanned" => v = now
      PROVE  roots'["action"].scanned \in Int
  <2>1. \A f \in DOMAIN roots["action"] :
           \/ roots'["action"][f] = roots["action"][f]
           \/ f = field /\ roots'["action"][f] = v
    BY <1>4, BundleKeeps DEF Exists
  <2> QED
    BY <1>0, <1>4, <2>1
<1>5. ASSUME NEW s, NEW field, Finish(s, field) PROVE roots'["action"].scanned \in Int
  <2>1. /\ s \in DOMAIN roots
        /\ roots' = [roots EXCEPT ![s] = [@ EXCEPT ![field] = now]]
    BY <1>5 DEF Finish, Exists
  <2> QED
    BY <1>4, <2>1
<1>6. ASSUME NEW s, Alter(s) PROVE roots'["action"].scanned \in Int
  <2> DEFINE field == "altered"
             v == TRUE
  <2>1. /\ s \in DOMAIN roots
        /\ roots' = [roots EXCEPT ![s] = [@ EXCEPT ![field] = v]]
    BY <1>6 DEF Alter, Exists
  <2>2. field # "scanned"
    OBVIOUS
  <2> HIDE DEF field, v
  <2> QED
    BY <1>4, <2>1, <2>2
<1>7. CASE Next
  BY <1>1, <1>2, <1>3, <1>5, <1>6, <1>7, StepKinds DEF Tick
<1> QED
  BY <1>1, <1>7 DEF vars

\* Targets drift after they were approved only, and an inventory shows what
\* had drifted until then.
LEMMA InventoriesAreKept ==
    ASSUME TypeCorrect, DocumentsFollow, WorkIsRecorded, InventoriesAreRecorded, [Next]_vars
    PROVE  InventoriesAreRecorded'
<1>1. Kept
  BY NothingIsTakenBack
<1>2. Actors
  BY TheWorldHasActors
<1>3. ASSUME NEW r \in {"approved", "action"}, Captured(r)
      PROVE  /\ roots'[r].captured = now /\ roots'[r].scanned = -1
             /\ roots'[r].states = states
             /\ DOMAIN done = {} /\ drifted' = drifted /\ now' = now
  <2> DEFINE facts == [captured |-> now, scanned |-> -1, states |-> states]
  <2>1. CaptureTargets(r)
    BY <1>3, BundlesHaveCollectors DEF Collectors
  <2>2. Capture(r, facts) /\ DOMAIN done = {}
    BY <2>1 DEF CaptureTargets
  <2>3. AddsRoot(r, facts)
    BY <2>2, CaptureAdds
  <2>4. DOMAIN facts = {"captured", "scanned", "states"}
        /\ facts.captured = now /\ facts.scanned = -1 /\ facts.states = states
    OBVIOUS
  <2> HIDE DEF facts
  <2>5. \A f \in DOMAIN facts : roots'[r][f] = facts[f]
    BY <2>2, <2>4, NewBundle
  <2> QED
    BY <2>2, <2>3, <2>4, <2>5 DEF AddsRoot
<1>4. ASSUME NEW r \in {"approved", "action"}, Exists(r)
      PROVE  /\ roots'[r].captured = roots[r].captured
             /\ roots'[r].states = roots[r].states
  <2>1. {"captured", "states"} \subseteq DOMAIN roots[r]
    BY <1>4 DEF TypeCorrect, RootFields, Exists
  <2> QED
    BY <1>1, <1>4, <2>1 DEF Kept, Exists
<1>5. ASSUME ~Exists("approved")' PROVE DOMAIN drifted' = {}
  <2>1. ~Exists("approved")
    BY <1>1, <1>5 DEF Kept, Exists
  <2>2. drifted' = drifted
    BY <1>2, <2>1 DEF Actors, Drift
  <2> QED
    BY <2>1, <2>2 DEF InventoriesAreRecorded
<1>6. ASSUME Exists("approved")', NEW t \in Targets PROVE roots'["approved"].states[t] = "kept"
  <2>1. CASE Exists("approved")
    BY <1>4, <2>1 DEF InventoriesAreRecorded
  <2>2. CASE Captured("approved")
    <3>1. roots'["approved"].states = states /\ DOMAIN done = {}
      BY <1>3, <2>2
    <3>2. DOMAIN drifted = {}
      BY <2>2 DEF Captured, InventoriesAreRecorded
    <3> QED
      BY <3>1, <3>2 DEF WorkIsRecorded
  <2> QED
    BY <1>6, <2>1, <2>2 DEF Captured
<1>7. ASSUME Exists("action")'
      PROVE  roots'["action"].captured <= now' /\ roots'["action"].scanned \in Int
  <2>1. CASE Exists("action")
    <3>1. /\ roots.action.captured <= now /\ roots.action.scanned \in Int
          /\ roots.action.captured \in Nat
      BY <2>1 DEF InventoriesAreRecorded, TypeCorrect
    <3> QED
      BY <1>1, <1>4, <2>1, <3>1, ScanIsDated DEF Kept
  <2>2. CASE Captured("action")
    BY <1>3, <2>2 DEF TypeCorrect
  <2> QED
    BY <1>7, <2>1, <2>2 DEF Captured
<1>8. ASSUME Exists("action")', NEW t \in Targets \cap DOMAIN drifted'
      PROVE  drifted'[t] >= roots'["action"].captured \/ roots'["action"].states[t] = "changed"
  <2>1. CASE Captured("action")
    <3>1. /\ roots'["action"].states = states /\ DOMAIN done = {} /\ drifted' = drifted
      BY <1>3, <2>1
    <3> QED
      BY <1>8, <3>1 DEF WorkIsRecorded
  <2>2. CASE Exists("action") /\ drifted' = drifted
    BY <1>4, <1>8, <2>2 DEF InventoriesAreRecorded
  <2>3. ASSUME Exists("action"), NEW u, Drift(u)
        PROVE  \/ drifted'[t] >= roots'["action"].captured
               \/ roots'["action"].states[t] = "changed"
    <3>1. drifted' = Joined(drifted, [v \in {u} |-> now])
      BY <2>3 DEF Drift
    <3>2. t \in DOMAIN drifted \/ (t = u /\ t \notin DOMAIN drifted)
      BY <1>8, <3>1 DEF Joined
    <3>3. drifted'[t] = IF t \in DOMAIN drifted THEN drifted[t] ELSE now
      BY <1>8, <3>1, <3>2 DEF Joined
    <3>4. /\ roots.action.captured \in Nat /\ roots.action.captured <= now /\ now \in Nat
      BY <2>3 DEF InventoriesAreRecorded, TypeCorrect
    <3> QED
      BY <1>4, <1>8, <2>3, <3>2, <3>3, <3>4 DEF InventoriesAreRecorded
  <2> QED
    BY <1>2, <1>8, <2>1, <2>2, <2>3 DEF Actors, Captured
<1> QED
  BY <1>5, <1>6, <1>7, <1>8 DEF InventoriesAreRecorded

\* Whoever closes the retirement has read again all that the property speaks
\* of: the window with the archive and the native evidence of then, both
\* inventories and the outcomes.
LEMMA ClosingVouches ==
    ASSUME TypeCorrect, DocumentsFollow, WorkIsRecorded, InventoriesAreRecorded,
           AssembleCloseout
    PROVE  CleanupWasAuthorized'
<1>1. /\ Has("completion") /\ DisabledReplays /\ CompletionPasses("assemble closeout")
      /\ Write("closeout", now)
  BY DEF AssembleCloseout, CleanupSourcesReplay
<1>2. Adds("closeout", now)
  BY <1>1, WriteAdds
<1>3. /\ Exists("outcome") /\ Exists("action") /\ Exists("approved")
      /\ Has("cleanupApproval") /\ Has("receipt")
  BY <1>1 DEF DocumentsFollow
<1>4. /\ UNCHANGED roots /\ UNCHANGED done /\ UNCHANGED drifted
      /\ docs'["cleanupApproval"] = docs["cleanupApproval"]
      /\ docs'["receipt"] = docs["receipt"]
  BY <1>2, <1>3 DEF Adds, Has
<1>5. PICK report, approval : DisabledIsVerified(
          DisabledRoot(roots.disabled, report, approval, Archive), NativeRoot(roots.later),
          ArchiveRoot(roots.archive), Disabled(report, Archive), report, Native("later"),
          Archive, approval, now)
  BY <1>1 DEF DisabledReplays
<1>6. ~roots.disabled.altered /\ ~roots.later.altered /\ ~roots.archive.altered
  <2>1. /\ DisabledBundleIsSound(DisabledRoot(roots.disabled, report, approval, Archive))
        /\ NativeIsVerified(NativeRoot(roots.later), Native("later"), now)
        /\ ArchiveIsVerified(ArchiveRoot(roots.archive), Archive, now)
    BY <1>5 DEF DisabledIsVerified, DisabledIsAssembled
  <2> QED
    BY <2>1, WindowUnaltered, NativeUnaltered, ArchiveUnaltered
<1> DEFINE e == roots["approved"]
           a == roots["action"]
           o == roots["outcome"]
           e0 == Retained("approved")
           a0 == Retained("action")
<1>7. PICK p, at :
      LET approved == CleanupRoot(e, DisabledReportDoc, Archive)
          action == CleanupRoot(a, DisabledReportDoc, Archive)
          action0 == CleanupRoot(a0, DisabledReportDoc, Archive)
          c == CleanupManifest(CleanupRoot(e0, DisabledReportDoc, Archive), docs.manifest)
          approval1 == Approve(CleanupBindings(c, DisabledReportDoc), docs.cleanupApproval)
          r == PreflightReceipt(action0, action0, c, approval1, docs.receipt)
      IN  CompletionIsAssembled(
              OutcomeRoot(o, approved.files, r, p, c, DisabledReportDoc, Archive),
              approved, action, r, p, c, DisabledReportDoc, Archive, approval1, at, now)
  BY <1>1, CloseoutReplays DEF Root, Manifest, CleanupApproval, Receipt
<1>8. /\ a0.captured = a.captured /\ a0.scanned = a.scanned
      /\ e0.states = e.states /\ a.captured \in Nat /\ a.scanned \in Int
  BY <1>3, InventoryIsRetained DEF InventoriesAreRecorded
<1>9. docs.cleanupApproval \in Nat
  BY <1>3 DEF TypeCorrect, Has
<1>10. o.done = done /\ \A t \in DOMAIN done : done[t] \in Nat
  BY <1>3 DEF WorkIsRecorded
<1> HIDE DEF e, a, o, e0, a0
<1>11. /\ ~e.altered /\ ~a.altered /\ ~o.altered
       /\ DOMAIN o.done = Targets
       /\ docs.cleanupApproval <= a.captured
       /\ \A t \in Targets :
             /\ e0.states[t] = a.states[t]
             /\ docs.receipt <= o.done[t]
             /\ o.done[t] < docs.cleanupApproval + ApprovalLifetime
             /\ o.done[t] < a.captured + Policy.maxCaptureSkew
  <2>1. a.captured \in Int /\ a.scanned \in Int /\ docs.cleanupApproval \in Int
        /\ \A t \in DOMAIN o.done : o.done[t] \in Int
    BY <1>8, <1>9, <1>10
  <2> QED
    BY <1>7, <1>8, <2>1, VerifiedCompletion
<1>12. \A t \in Targets : t \in DOMAIN drifted => drifted[t] >= a.captured
  <2> SUFFICES ASSUME NEW t \in Targets, t \in DOMAIN drifted PROVE drifted[t] >= a.captured
    OBVIOUS
  <2>1. e.states[t] = "kept" /\ (drifted[t] >= a.captured \/ a.states[t] = "changed")
    BY <1>3 DEF InventoriesAreRecorded, e, a
  <2>2. e.states[t] = a.states[t]
    BY <1>8, <1>11
  <2> QED
    BY <2>1, <2>2
<1>13. \A r \in DOMAIN roots \ {"native"} : ~roots[r].altered
  BY <1>6, <1>11 DEF TypeCorrect, RootFields, e, a, o
<1> QED
  BY <1>4, <1>10, <1>11, <1>12, <1>13 DEF CleanupWasAuthorized, a

\* After the closeout nobody touches what it speaks of.
LEMMA ClosingIsKept ==
    ASSUME TypeCorrect, DocumentsFollow, WorkIsRecorded, InventoriesAreRecorded,
           CleanupWasAuthorized, [Next]_vars
    PROVE  CleanupWasAuthorized'
<1>1. Kept
  BY NothingIsTakenBack
<1>2. CASE Wrote("closeout")
  BY <1>2, DocumentsHaveAuthors, ClosingVouches DEF Authors
<1>3. CASE Has("closeout")
  <2>1. /\ DOMAIN RootFields \subseteq DOMAIN roots
        /\ Has("receipt") /\ Has("cleanupApproval")
    BY <1>3 DEF DocumentsFollow, RootFields, Exists
  <2>2. DOMAIN roots' = DOMAIN roots
    <3>1. \A r \in DOMAIN roots' : r \in DOMAIN RootFields
      BY ShapeIsKept DEF TypeCorrect
    <3> QED
      BY <1>1, <2>1, <3>1 DEF Kept
  <2>3. \A r \in DOMAIN roots : roots'[r].altered = roots[r].altered
    BY <1>3, OnlyAltering DEF Alter
  <2>4. drifted' = drifted /\ done' = done
    <3>1. \A t : ~Drift(t)
      BY <2>1 DEF Drift
    <3>2. \A ts : ~Perform(ts)
      BY <2>1 DEF Perform, RootFields, Exists
    <3> QED
      BY <3>1, <3>2, TheWorldHasActors DEF Actors
  <2>5. /\ docs'["cleanupApproval"] = docs["cleanupApproval"]
        /\ docs'["receipt"] = docs["receipt"]
    BY <1>1, <2>1 DEF Kept, Has
  <2>6. ASSUME NEW r \in {"approved", "action"}
        PROVE  roots'[r].captured = roots[r].captured
    <3>1. r \in DOMAIN roots /\ "captured" \in DOMAIN roots[r]
      BY <2>1 DEF TypeCorrect, RootFields
    <3> QED
      BY <1>1, <3>1 DEF Kept
  <2> QED
    BY <1>3, <2>2, <2>3, <2>4, <2>5, <2>6 DEF CleanupWasAuthorized
<1> QED
  BY <1>2, <1>3 DEF Wrote, CleanupWasAuthorized

-----------------------------------------------------------------------------
(* The theorems.                                                           *)

RetirementInv == /\ TypeCorrect /\ DocumentsFollow
                 /\ StopsOnce /\ WindowIsRecorded
                 /\ ReportIsFresh /\ StopIsVouched
                 /\ WorkIsRecorded /\ InventoriesAreRecorded
                 /\ CleanupWasAuthorized

\* The invariant holds before anything is written.
LEMMA RetirementStarts == Init => RetirementInv
<1> SUFFICES ASSUME Init PROVE RetirementInv
  OBVIOUS
<1>1. DOMAIN docs = {} /\ DOMAIN roots = {}
  BY DEF Init
<1>2. TypeCorrect
  <2>1. IsFiniteSet({})
    BY FS_EmptySet
  <2> QED
    BY <1>1, <2>1 DEF Init, TypeCorrect, Exists
<1>3. DocumentsFollow /\ StopsOnce /\ WindowIsRecorded /\ ReportIsFresh /\ StopIsVouched
  BY <1>1 DEF Init, DocumentsFollow, StopsOnce, WindowIsRecorded, ReportIsFresh,
     StopIsVouched, Has, Exists
<1>4. WorkIsRecorded /\ InventoriesAreRecorded /\ CleanupWasAuthorized
  BY <1>1 DEF Init, WorkIsRecorded, InventoriesAreRecorded, CleanupWasAuthorized, Has, Exists
<1> QED
  BY <1>2, <1>3, <1>4 DEF RetirementInv

\* Every step keeps it.
LEMMA RetirementSteps == RetirementInv /\ [Next]_vars => RetirementInv'
  BY ShapeIsKept, OrderIsKept, StopIsKept, WindowIsKept, FreshnessIsKept, VouchingIsKept,
     WorkIsKept, InventoriesAreKept, ClosingIsKept DEF RetirementInv

\* The invariant of the retirement: the shape of evidence and documents, the
\* order they come in, and what those that exist prove of the past.
THEOREM RetirementInvariance == Spec => []RetirementInv
  BY RetirementStarts, RetirementSteps, PTL DEF Spec

\* A report that lets cleanup begin means an approved stop of a paused and
\* flat trader: approvals, ages and gates of the code hold together, at any
\* number of mishaps and for every bundle that somebody altered.
THEOREM StopIsAuthorized == Spec => []StopWasAuthorized
<1>1. RetirementInv => StopWasAuthorized
  BY DEF RetirementInv, StopWasAuthorized, StopApproved, StopIsVouched, ReportIsFresh,
     DocumentsFollow
<1> QED
  BY <1>1, RetirementInvariance, PTL

\* ... and a window without an order of the old trader or a failure of the new
\* one, as long as the policy demands.
THEOREM WindowIsQuiet == Spec => []DisabledWindowIsQuiet
<1>1. ASSUME RetirementInv, StopApproved
      PROVE  /\ roots.disabled.to >= legacy.stopped + Policy.minDisabled
             /\ legacy.orders \cap legacy.stopping..roots.disabled.to = {}
             /\ native.outages \cap legacy.stopped..roots.disabled.to = {}
  <2> DEFINE d == Retained("disabled")
  <2>1. Exists("disabled")
    BY <1>1 DEF RetirementInv, StopApproved, DocumentsFollow
  <2>2. DisabledReport(DisabledObservation(
            DisabledRoot(d, Report, StopApproval(Report), Archive), Report, Native("later"),
            Archive, docs.disabled), docs.disabledReport).awaitingCleanup
    BY <1>1 DEF StopApproved, DisabledReportDoc, Disabled
  <2>3. /\ d.to - d.stopped >= Policy.minDisabled
        /\ d.query <= d.stopping
        /\ {t \in d.orders : t >= d.stopping} = {}
        /\ Cardinality(d.outages) + 0 + 0 = 0
    BY <2>2, PassingWindow
  <2>4. \A f \in {"stopping", "stopped", "to", "query", "orders", "outages"} :
           d[f] = roots["disabled"][f]
    BY <1>1, <2>1 DEF Retained, RetirementInv, TypeCorrect, RootFields, Exists
  <2> HIDE DEF d
  <2>5. /\ 0 <= legacy.stopping /\ legacy.stopping < legacy.stopped
        /\ roots.disabled.to \in Nat
        /\ d.stopping = legacy.stopping /\ d.stopped = legacy.stopped
        /\ d.to = roots.disabled.to
        /\ d.orders = {t \in legacy.orders : d.query <= t}
        /\ d.outages = {t \in native.outages : legacy.stopped <= t}
    BY <1>1, <2>1, <2>4 DEF RetirementInv, WindowIsRecorded
  <2>6. /\ legacy.stopping \in Int /\ legacy.stopped \in Int
        /\ legacy.orders \subseteq Nat /\ native.outages \subseteq Nat
        /\ IsFiniteSet(native.outages) /\ Policy.minDisabled \in Nat
        /\ d.query \in Int
    <3>1. /\ legacy.stopping \in Int /\ legacy.stopped \in Int
          /\ legacy.orders \subseteq Nat
          /\ native.outages \subseteq Nat /\ IsFiniteSet(native.outages)
      BY <1>1 DEF RetirementInv, TypeCorrect
    <3>2. d.query \in {legacy.stopping, legacy.stopped}
      BY <1>1, <2>1, <2>4 DEF RetirementInv, WindowIsRecorded
    <3> QED
      BY <3>1, <3>2, PolicyAssumption
  <2>7. roots.disabled.to >= legacy.stopped + Policy.minDisabled
    BY <2>3, <2>5, <2>6
  <2>8. ASSUME NEW t \in legacy.orders, t \in legacy.stopping..roots.disabled.to
        PROVE  FALSE
    <3>1. t \in d.orders /\ t >= d.stopping
      BY <2>3, <2>5, <2>6, <2>8
    <3> QED
      BY <2>3, <3>1
  <2>9. d.outages = {}
    <3>1. IsFiniteSet(d.outages)
      BY <2>5, <2>6, FS_Subset
    <3>2. Cardinality(d.outages) = 0
      BY <2>3, <3>1, FS_CardinalityType
    <3> QED
      BY <3>1, <3>2, FS_EmptySet
  <2>10. ASSUME NEW t \in native.outages, t \in legacy.stopped..roots.disabled.to
         PROVE  FALSE
    BY <2>5, <2>6, <2>9, <2>10
  <2> QED
    BY <2>7, <2>8, <2>10
<1>2. RetirementInv => DisabledWindowIsQuiet
  BY <1>1 DEF DisabledWindowIsQuiet
<1> QED
  BY <1>2, RetirementInvariance, PTL

\* A closed retirement means that every target was acted on with an approval
\* and a preflight that were still good, in the state that was approved, and
\* from evidence nobody altered: five commands, two inventories and every
\* order of drift, work and alteration, for any inventory and any bounds.
THEOREM CleanupIsAuthorized == Spec => []CleanupWasAuthorized
<1>1. RetirementInv => CleanupWasAuthorized
  BY DEF RetirementInv
<1> QED
  BY <1>1, RetirementInvariance, PTL

-----------------------------------------------------------------------------
(* What is written verifies. The sources of every document, by one name     *)
(* each; what is not touched stays what it is.                              *)

NativeThen == Native("native")
NativeLater == Native("later")
TheStopApproval == StopApproval(Report)
WindowRoot == DisabledRoot(roots.disabled, Report, TheStopApproval, Archive)
Window == Disabled(Report, Archive)
ApprovedRoot == Root("approved", DisabledReportDoc, Archive)
TheManifest == Manifest(DisabledReportDoc, Archive)
TheApproval == CleanupApproval(TheManifest, DisabledReportDoc)
ActionRoot == Root("action", DisabledReportDoc, Archive)
TheReceipt == Receipt(TheManifest, DisabledReportDoc, Archive, TheApproval)
ThePlan == ActionPlan(TheReceipt, TheManifest, docs.plan)
Outcome(o) == OutcomeRoot(o, ApprovedRoot.files, TheReceipt, ThePlan, TheManifest,
                          DisabledReportDoc, Archive)
OutcomeNow == Outcome(roots.outcome)
OutcomeThen == Outcome(Retained("outcome"))
TheCompletion == CompletionReport(OutcomeThen, TheReceipt, ThePlan, TheManifest,
                                  DisabledReportDoc, Archive, docs.completion)
TheLedger == OperatorLedger(OutcomeThen, TheCompletion, TheReceipt, ThePlan, TheApproval,
                            docs.closeout)

RootsStay(rs) == \A r \in rs : roots'[r] = roots[r]
DocsStay(ds) == \A d \in ds : docs'[d] = docs[d]

ReportRoots == {"native", "archive"}
ReportDocs == {"native", "archive", "final", "readiness", "report"}
WindowRoots == ReportRoots \union {"disabled", "later"}
WindowDocs == ReportDocs \union {"stopApproval", "later", "disabled"}

\* A native observation depends on its bundle and its date.
LEMMA NativeStays ==
    ASSUME NEW r, RootsStay({r}), DocsStay({r})
    PROVE  Native(r)' = Native(r)
  BY DEF RootsStay, DocsStay, Native, Retained

\* So does the manifest of the archive.
LEMMA ArchiveStays ==
    ASSUME RootsStay({"archive"}), DocsStay({"archive"})
    PROVE  Archive' = Archive
  BY DEF RootsStay, DocsStay, Archive, Retained

\* The final state depends on the archive.
LEMMA FinalStays ==
    ASSUME RootsStay({"archive"}), DocsStay({"archive", "final"})
    PROVE  Final' = Final /\ Archive' = Archive
<1>1. Archive' = Archive
  BY ArchiveStays DEF DocsStay
<1> QED
  BY <1>1 DEF RootsStay, DocsStay, Final, Retained

\* The readiness observation depends on all three.
LEMMA ReadinessStays ==
    ASSUME RootsStay(ReportRoots), DocsStay(ReportDocs \ {"report"})
    PROVE  /\ Archive' = Archive /\ Final' = Final /\ NativeThen' = NativeThen
           /\ Readiness' = Readiness
<1>1. Archive' = Archive /\ Final' = Final
  BY FinalStays DEF RootsStay, DocsStay, ReportRoots, ReportDocs
<1>2. NativeThen' = NativeThen
  BY NativeStays DEF RootsStay, DocsStay, ReportRoots, ReportDocs, NativeThen
<1>3. docs'["readiness"] = docs["readiness"]
  BY DEF DocsStay, ReportDocs
<1> QED
  BY <1>1, <1>2, <1>3 DEF Readiness, NativeThen

\* The window depends on the report, on the archive and on later evidence.
LEMMA WindowSourcesStay ==
    ASSUME RootsStay(WindowRoots), DocsStay(WindowDocs \ {"disabled"})
    PROVE  /\ Archive' = Archive /\ Report' = Report /\ NativeLater' = NativeLater
           /\ TheStopApproval' = TheStopApproval
           /\ WindowRoot' = WindowRoot
<1>1. Archive' = Archive /\ Readiness' = Readiness
  BY ReadinessStays DEF RootsStay, DocsStay, WindowRoots, WindowDocs, ReportRoots, ReportDocs
<1>2. NativeLater' = NativeLater
  BY NativeStays DEF RootsStay, DocsStay, WindowRoots, WindowDocs, NativeLater
<1>3. Report' = Report
  BY <1>1 DEF DocsStay, WindowDocs, ReportDocs, Report
<1>4. TheStopApproval' = TheStopApproval
  BY <1>3 DEF DocsStay, WindowDocs, TheStopApproval, StopApproval
<1>5. WindowRoot' = WindowRoot
  BY <1>1, <1>3, <1>4 DEF WindowRoot, RootsStay, WindowRoots
<1> QED
  BY <1>1, <1>2, <1>3, <1>4, <1>5

\* And on its date.
LEMMA WindowStays ==
    ASSUME RootsStay(WindowRoots), DocsStay(WindowDocs)
    PROVE  /\ Archive' = Archive /\ Report' = Report /\ NativeLater' = NativeLater
           /\ TheStopApproval' = TheStopApproval
           /\ WindowRoot' = WindowRoot /\ Window' = Window
<1>1. /\ Archive' = Archive /\ Report' = Report /\ NativeLater' = NativeLater
      /\ TheStopApproval' = TheStopApproval /\ WindowRoot' = WindowRoot
  BY WindowSourcesStay DEF DocsStay
<1>2. roots'["disabled"] = roots["disabled"] /\ docs'["disabled"] = docs["disabled"]
  BY DEF RootsStay, DocsStay, WindowRoots, WindowDocs
<1>3. Window' = Window
  BY <1>1, <1>2 DEF Window, Disabled, Retained, TheStopApproval, NativeLater
<1> QED
  BY <1>1, <1>3

\* The report on the window depends on it.
LEMMA DisabledReportStays ==
    ASSUME RootsStay(WindowRoots), DocsStay(WindowDocs), docs'["disabledReport"] = docs["disabledReport"]
    PROVE  DisabledReportDoc' = DisabledReportDoc /\ Archive' = Archive
<1>1. Window' = Window /\ Archive' = Archive
  BY WindowStays
<1> QED
  BY <1>1 DEF DisabledReportDoc, Window

ManifestRoots == WindowRoots \union {"approved"}
ManifestDocs == WindowDocs \union {"disabledReport", "manifest"}
ReceiptRoots == ManifestRoots \union {"action"}
ReceiptDocs == ManifestDocs \union {"cleanupApproval", "receipt"}
CompletionRoots == ReceiptRoots \union {"outcome"}
CompletionDocs == ReceiptDocs \union {"plan", "completion"}

\* The first inventory depends on the report that permits it, and the manifest on it.
LEMMA ApprovedStays ==
    ASSUME RootsStay(ManifestRoots), DocsStay(ManifestDocs \ {"manifest"})
    PROVE  ApprovedRoot' = ApprovedRoot /\ DisabledReportDoc' = DisabledReportDoc
           /\ Archive' = Archive
<1>1. DisabledReportDoc' = DisabledReportDoc /\ Archive' = Archive
  BY DisabledReportStays DEF RootsStay, DocsStay, ManifestRoots, ManifestDocs, WindowDocs, ReportDocs
<1>2. roots'["approved"] = roots["approved"]
  BY DEF RootsStay, ManifestRoots
<1> QED
  BY <1>1, <1>2 DEF ApprovedRoot, Root

\* The manifest depends on them and on its date.
LEMMA ManifestStays ==
    ASSUME RootsStay(ManifestRoots), DocsStay(ManifestDocs)
    PROVE  TheManifest' = TheManifest
<1>1. DisabledReportDoc' = DisabledReportDoc /\ Archive' = Archive
  BY ApprovedStays DEF DocsStay
<1>2. roots'["approved"] = roots["approved"] /\ docs'["manifest"] = docs["manifest"]
  BY DEF RootsStay, ManifestRoots, DocsStay, ManifestDocs
<1> QED
  BY <1>1, <1>2 DEF TheManifest, Manifest, Retained

\* The second inventory and the approval depend on the manifest.
LEMMA ActionStays ==
    ASSUME RootsStay(ReceiptRoots), DocsStay(ReceiptDocs \ {"receipt"})
    PROVE  /\ ActionRoot' = ActionRoot /\ TheApproval' = TheApproval
           /\ ApprovedRoot' = ApprovedRoot /\ TheManifest' = TheManifest
           /\ DisabledReportDoc' = DisabledReportDoc /\ Archive' = Archive
<1>1. /\ ApprovedRoot' = ApprovedRoot /\ TheManifest' = TheManifest
      /\ DisabledReportDoc' = DisabledReportDoc /\ Archive' = Archive
  BY ApprovedStays, ManifestStays
     DEF RootsStay, DocsStay, ReceiptRoots, ReceiptDocs, ManifestDocs, WindowDocs, ReportDocs
<1>2. roots'["action"] = roots["action"]
      /\ docs'["cleanupApproval"] = docs["cleanupApproval"]
  BY DEF RootsStay, ReceiptRoots, DocsStay, ReceiptDocs
<1>3. ActionRoot' = ActionRoot
  BY <1>1, <1>2 DEF ActionRoot, Root
<1>4. TheApproval' = TheApproval
  BY <1>1, <1>2 DEF TheApproval, CleanupApproval
<1> QED
  BY <1>1, <1>3, <1>4

\* The receipt depends on all of them.
LEMMA ReceiptStays ==
    ASSUME RootsStay(ReceiptRoots), DocsStay(ReceiptDocs)
    PROVE  TheReceipt' = TheReceipt
<1>1. /\ TheApproval' = TheApproval /\ TheManifest' = TheManifest
      /\ DisabledReportDoc' = DisabledReportDoc /\ Archive' = Archive
  BY ActionStays DEF DocsStay
<1>2. roots'["action"] = roots["action"] /\ docs'["receipt"] = docs["receipt"]
  BY DEF RootsStay, ReceiptRoots, DocsStay, ReceiptDocs
<1> QED
  BY <1>1, <1>2 DEF TheReceipt, Receipt, Retained

\* The outcomes depend on the plan.
LEMMA OutcomeStays ==
    ASSUME RootsStay(CompletionRoots), DocsStay(CompletionDocs \ {"completion"})
    PROVE  /\ ThePlan' = ThePlan /\ OutcomeNow' = OutcomeNow /\ OutcomeThen' = OutcomeThen
           /\ TheReceipt' = TheReceipt
<1>1. /\ ActionRoot' = ActionRoot /\ ApprovedRoot' = ApprovedRoot /\ TheManifest' = TheManifest
      /\ DisabledReportDoc' = DisabledReportDoc /\ Archive' = Archive
      /\ TheReceipt' = TheReceipt
  BY ActionStays, ReceiptStays DEF RootsStay, DocsStay, CompletionRoots, CompletionDocs,
     ReceiptDocs, ManifestDocs, WindowDocs, ReportDocs
<1>2. roots'["outcome"] = roots["outcome"] /\ docs'["plan"] = docs["plan"]
  BY DEF RootsStay, CompletionRoots, DocsStay, CompletionDocs
<1>3. ThePlan' = ThePlan
  BY <1>1, <1>2 DEF ThePlan
<1> QED
  BY <1>1, <1>2, <1>3 DEF OutcomeNow, OutcomeThen, Outcome, Retained

\* The completion report depends on everything before it.
LEMMA CompletionStays ==
    ASSUME RootsStay(CompletionRoots), DocsStay(CompletionDocs)
    PROVE  TheCompletion' = TheCompletion
<1>1. /\ ThePlan' = ThePlan /\ OutcomeThen' = OutcomeThen /\ TheReceipt' = TheReceipt
  BY OutcomeStays DEF DocsStay
<1>2. TheManifest' = TheManifest /\ DisabledReportDoc' = DisabledReportDoc /\ Archive' = Archive
  BY ActionStays DEF RootsStay, DocsStay, CompletionRoots, CompletionDocs
<1>3. docs'["completion"] = docs["completion"]
  BY DEF DocsStay, CompletionDocs
<1> QED
  BY <1>1, <1>2, <1>3 DEF TheCompletion
-----------------------------------------------------------------------------
(* The commands, with their sources by name.                               *)

DisabledAt(t) == DisabledIsVerified(WindowRoot, NativeRoot(roots.later),
    ArchiveRoot(roots.archive), Window, Report, NativeLater, Archive, TheStopApproval, t)
PreflightAt(t) == PreflightIsVerified(ApprovedRoot, ActionRoot, TheReceipt, TheManifest,
    DisabledReportDoc, Archive, TheApproval, t)

\* The window that is replayed.
LEMMA ReplaysWindow == DisabledReplays <=> DisabledAt(now)
  BY DEF DisabledReplays, DisabledAt, WindowRoot, Window, TheStopApproval, NativeLater

\* The receipt that is verified.
LEMMA VerifiesReceipt == PreflightPassesAgain("verify preflight") <=> PreflightAt(now)
  BY DEF PreflightPassesAgain, PreflightAt, ApprovedRoot, ActionRoot, TheReceipt, TheManifest,
     TheApproval

\* The plan that is verified.
LEMMA VerifiesPlan ==
    PreflightPassesAgain("verify plan") <=>
        PlanIsVerified(ApprovedRoot, ActionRoot, ThePlan, TheReceipt, TheManifest,
                       DisabledReportDoc, Archive, TheApproval, now)
  BY DEF PreflightPassesAgain, ThePlan, ApprovedRoot, ActionRoot, TheReceipt, TheManifest,
     TheApproval

\* The completion that is assembled, or verified, and the closeout.
LEMMA PassesCompletion ==
    /\ CompletionPasses("assemble completion") <=>
           CompletionIsAssembled(OutcomeNow, ApprovedRoot, ActionRoot, TheReceipt, ThePlan,
               TheManifest, DisabledReportDoc, Archive, TheApproval, now, now)
    /\ CompletionPasses("verify completion") <=>
           CompletionIsVerified(OutcomeNow, ApprovedRoot, ActionRoot, TheCompletion,
               TheReceipt, ThePlan, TheManifest, DisabledReportDoc, Archive, TheApproval, now)
    /\ CompletionPasses("assemble closeout") <=>
           CloseoutIsAssembled(OutcomeNow, ApprovedRoot, ActionRoot, TheCompletion, TheReceipt,
               ThePlan, TheManifest, DisabledReportDoc, Archive, TheApproval, now, now)
    /\ CompletionPasses("verify closeout") <=>
           CloseoutIsVerified(OutcomeNow, ApprovedRoot, ActionRoot, TheLedger, TheCompletion,
               TheReceipt, ThePlan, TheManifest, DisabledReportDoc, Archive, TheApproval, now)
  BY DEF CompletionPasses, ThePlan, ApprovedRoot, ActionRoot, TheReceipt, TheManifest,
     TheApproval, OutcomeNow, OutcomeThen, Outcome, TheCompletion, TheLedger

-----------------------------------------------------------------------------
(* The invariant: bundles are records, documents are not dated ahead of the *)
(* clock, and no bundle is written to once a document was made of it.       *)

AreRecords == \A r \in DOMAIN roots : roots[r] = [f \in DOMAIN roots[r] |-> roots[r][f]]
DatedBefore == \A d \in DOMAIN docs : docs[d] <= now
AreFinished ==
    /\ Has("archive") => roots.archive.finished # -1
    /\ Has("disabled") => roots.disabled.scanned # -1
    /\ Has("manifest") => roots.approved.scanned # -1
    /\ Has("receipt") => roots.action.scanned # -1
    /\ Has("completion") => roots.outcome.scanned # -1
NoneAltered == \A r \in DOMAIN roots : ~roots[r].altered

\* The bundle a person looks at is the one that was captured.
LEMMA RetainedIsUnaltered ==
    ASSUME TypeCorrect, AreRecords, NEW r \in DOMAIN roots, ~roots[r].altered
    PROVE  Retained(r) = roots[r]
<1>1. "altered" \in DOMAIN roots[r] /\ roots[r] = [f \in DOMAIN roots[r] |-> roots[r][f]]
  BY DEF TypeCorrect, RootFields, AreRecords
<1> QED
  BY <1>1 DEF Retained

\* Every bundle is written as a record.
LEMMA RecordsAreKept ==
    ASSUME AreRecords, [Next]_vars
    PROVE  AreRecords'
<1>1. CASE UNCHANGED roots
  BY <1>1 DEF AreRecords
<1>2. ASSUME NEW d, NEW at, Write(d, at) PROVE UNCHANGED roots
  BY <1>2 DEF Write
<1>3. ASSUME NEW s, NEW facts, Capture(s, facts) PROVE AreRecords'
  <2>1. AddsRoot(s, facts)
    BY <1>3, CaptureAdds
  <2> DEFINE new == Joined(facts, [altered |-> FALSE])
  <2>2. new = [f \in DOMAIN new |-> new[f]]
    BY DEF Joined
  <2>3. roots'[s] = new
    BY <2>1 DEF AddsRoot
  <2> HIDE DEF new
  <2> QED
    BY <2>1, <2>2, <2>3 DEF AddsRoot, AreRecords
<1>4. ASSUME NEW s \in DOMAIN roots, NEW field, NEW v,
             roots' = [roots EXCEPT ![s] = [@ EXCEPT ![field] = v]]
      PROVE  AreRecords'
  <2> DEFINE old == roots[s]
             new == [old EXCEPT ![field] = v]
  <2>1. new = [f \in DOMAIN new |-> new[f]]
    OBVIOUS
  <2>2. /\ DOMAIN roots' = DOMAIN roots /\ roots'[s] = new
        /\ \A r \in DOMAIN roots : r # s => roots'[r] = roots[r]
    BY <1>4
  <2> HIDE DEF new
  <2> QED
    BY <2>1, <2>2 DEF AreRecords
<1>5. ASSUME NEW s, NEW field, Finish(s, field) PROVE AreRecords'
  BY <1>4, <1>5 DEF Finish, Exists
<1>6. ASSUME NEW s, Alter(s) PROVE AreRecords'
  <2> DEFINE field == "altered"
             v == TRUE
  <2>1. s \in DOMAIN roots /\ roots' = [roots EXCEPT ![s] = [@ EXCEPT ![field] = v]]
    BY <1>6 DEF Alter, Exists
  <2> HIDE DEF field, v
  <2> QED
    BY <1>4, <2>1
<1>7. CASE Next
  BY <1>1, <1>2, <1>3, <1>5, <1>6, <1>7, StepKinds DEF Tick
<1> QED
  BY <1>1, <1>7 DEF vars

\* A document bears the time of the command that wrote it.
LEMMA DatesAreKept ==
    ASSUME TypeCorrect, DatedBefore, [Next]_vars
    PROVE  DatedBefore'
<1>1. /\ Kept /\ \A d \in DOMAIN docs : docs[d] \in Nat
  BY NothingIsTakenBack DEF TypeCorrect
<1>2. CASE UNCHANGED docs
  BY <1>1, <1>2 DEF DatedBefore, Kept
<1>3. ASSUME NEW d, NEW at, Write(d, at) PROVE DatedBefore'
  <2>1. Adds(d, at)
    BY <1>3, WriteAdds
  <2> QED
    BY <1>1, <2>1 DEF DatedBefore, Kept, Adds
<1>4. Next => \/ UNCHANGED docs
              \/ \E d, at : Write(d, at)
  BY StepKinds DEF Tick, Capture, Finish, Alter
<1> QED
  BY <1>2, <1>3, <1>4 DEF vars

\* Nobody touches a bundle that is finished, and that is not altered.
LEMMA FinishedStays ==
    ASSUME TypeCorrect, [Next]_vars, NoneAltered', NEW r \in DOMAIN roots
    PROVE  \/ roots'[r] = roots[r]
           \/ Finish(r, "finished") \/ Finish(r, "scanned")
<1>1. CASE UNCHANGED roots
  BY <1>1
<1>2. ASSUME NEW d, NEW at, Write(d, at) PROVE UNCHANGED roots
  BY <1>2 DEF Write
<1>3. ASSUME NEW s, NEW facts, Capture(s, facts) PROVE roots'[r] = roots[r]
  BY <1>3, CaptureAdds DEF AddsRoot
<1>4. ASSUME NEW s, NEW field, Finish(s, field), s # r PROVE roots'[r] = roots[r]
  BY <1>4 DEF Finish, Exists
<1>5. ASSUME NEW s, Alter(s) PROVE FALSE
  <2> DEFINE field == "altered"
             v == TRUE
  <2>1. s \in DOMAIN roots /\ roots' = [roots EXCEPT ![s] = [@ EXCEPT ![field] = v]]
    BY <1>5 DEF Alter, Exists
  <2>2. field \in DOMAIN roots[s]
    BY <2>1 DEF TypeCorrect, RootFields
  <2>3. s \in DOMAIN roots' /\ ~roots'[s].altered
    BY <2>1 DEF NoneAltered
  <2>4. roots'[s][field] = v
    <3> HIDE DEF field, v
    <3> QED
      BY <2>1, <2>2
  <2> QED
    BY <2>3, <2>4
<1>6. CASE Next
  BY <1>1, <1>2, <1>3, <1>4, <1>5, <1>6, StepKinds DEF Tick
<1> QED
  BY <1>1, <1>6 DEF vars

\* Whether a bundle is finished, whichever of the two scans it has.
Finished(r) == \A field \in {"finished", "scanned"} \cap DOMAIN roots[r] : roots[r][field] # -1

\* A finished bundle stays, unless somebody alters it.
LEMMA BundlesStay ==
    ASSUME TypeCorrect, AreRecords, [Next]_vars, NoneAltered', NEW r \in DOMAIN roots, Finished(r)
    PROVE  roots'[r] = roots[r]
<1>1. ASSUME NEW field \in {"finished", "scanned"}, Finish(r, field)
      PROVE  roots'[r] = roots[r]
  <2>1. roots[r][field] = -1 /\ roots' = [roots EXCEPT ![r] = [@ EXCEPT ![field] = now]]
    BY <1>1 DEF Finish
  <2>2. field \notin DOMAIN roots[r]
    BY <2>1 DEF Finished
  <2>3. [roots[r] EXCEPT ![field] = now] = [f \in DOMAIN roots[r] |-> roots[r][f]]
    BY <2>2
  <2> QED
    BY <2>1, <2>3 DEF AreRecords
<1> QED
  BY <1>1, FinishedStays

\* What was finished is not finished again.
LEMMA FinishIsFinal ==
    ASSUME TypeCorrect, [Next]_vars, NEW r \in DOMAIN roots,
           NEW f \in {"finished", "scanned"} \cap DOMAIN roots[r], roots[r][f] # -1
    PROVE  roots'[r][f] # -1
<1>1. CASE UNCHANGED roots
  BY <1>1
<1>2. ASSUME NEW d, NEW at, Write(d, at) PROVE UNCHANGED roots
  BY <1>2 DEF Write
<1>3. ASSUME NEW s, NEW facts, Capture(s, facts) PROVE roots'[r] = roots[r]
  BY <1>3, CaptureAdds DEF AddsRoot
<1>4. ASSUME NEW s, NEW field, Finish(s, field) PROVE roots'[r][f] = roots[r][f]
  <2>1. /\ s \in DOMAIN roots /\ roots[s][field] = -1
        /\ roots' = [roots EXCEPT ![s] = [@ EXCEPT ![field] = now]]
    BY <1>4 DEF Finish, Exists
  <2>2. roots'[r][f] = roots[r][f] \/ (s = r /\ f = field)
    BY <2>1, BundleKeeps
  <2> QED
    BY <2>1, <2>2
<1>5. ASSUME NEW s, Alter(s) PROVE roots'[r][f] = roots[r][f]
  <2> DEFINE field == "altered"
             v == TRUE
  <2>1. /\ s \in DOMAIN roots
        /\ roots' = [roots EXCEPT ![s] = [@ EXCEPT ![field] = v]]
    BY <1>5 DEF Alter, Exists
  <2>2. f # field
    OBVIOUS
  <2> HIDE DEF field, v
  <2> QED
    BY <2>1, <2>2, BundleKeeps
<1>6. CASE Next
  BY <1>1, <1>2, <1>3, <1>4, <1>5, <1>6, StepKinds DEF Tick
<1> QED
  BY <1>1, <1>6 DEF vars

\* The five commands that need a finished bundle find it finished.
LEMMA FinishedAreKept ==
    ASSUME TypeCorrect, DocumentsFollow, AreFinished, [Next]_vars
    PROVE  AreFinished'
<1>1. Authors /\ Kept
  BY DocumentsHaveAuthors, NothingIsTakenBack
<1>2. /\ Wrote("archive") => roots.archive.finished # -1 /\ UNCHANGED roots
      /\ Wrote("disabled") => roots.disabled.scanned # -1 /\ UNCHANGED roots
      /\ Wrote("manifest") => roots.approved.scanned # -1 /\ UNCHANGED roots
      /\ Wrote("receipt") => roots.action.scanned # -1 /\ UNCHANGED roots
      /\ Wrote("completion") => roots.outcome.scanned # -1 /\ UNCHANGED roots
  <2>1. \A d, at : Write(d, at) => UNCHANGED roots
    BY DEF Write
  <2>2. \A x : x >= 0 => x # -1
    OBVIOUS
  <2> QED
    BY <1>1, <2>1, <2>2 DEF Authors, AssembleArchive, AssembleDisabled,
       AssembleCleanupManifest, PreparePreflight, AssembleCompletion
<1>3. /\ Has("archive") => "archive" \in DOMAIN roots /\ "finished" \in DOMAIN roots.archive
      /\ Has("disabled") => "disabled" \in DOMAIN roots /\ "scanned" \in DOMAIN roots.disabled
      /\ Has("manifest") => "approved" \in DOMAIN roots /\ "scanned" \in DOMAIN roots.approved
      /\ Has("receipt") => "action" \in DOMAIN roots /\ "scanned" \in DOMAIN roots.action
      /\ Has("completion") => "outcome" \in DOMAIN roots /\ "scanned" \in DOMAIN roots.outcome
  BY DEF DocumentsFollow, TypeCorrect, RootFields, Exists
<1>4. /\ Has("archive") => roots'["archive"].finished # -1
      /\ Has("disabled") => roots'["disabled"].scanned # -1
      /\ Has("manifest") => roots'["approved"].scanned # -1
      /\ Has("receipt") => roots'["action"].scanned # -1
      /\ Has("completion") => roots'["outcome"].scanned # -1
  BY <1>3, FinishIsFinal DEF AreFinished
<1> QED
  BY <1>2, <1>4 DEF AreFinished, Wrote

\* What the evidence of a document is finished.
LEMMA SourcesFinished ==
    ASSUME TypeCorrect, DocumentsFollow, AreFinished
    PROVE  /\ \A r \in {"native", "later"} : Exists(r) => Finished(r)
           /\ Has("archive") => Exists("archive") /\ Finished("archive")
           /\ Has("disabled") => Exists("disabled") /\ Finished("disabled")
           /\ Has("manifest") => Exists("approved") /\ Finished("approved")
           /\ Has("receipt") => Exists("action") /\ Finished("action")
           /\ Has("completion") => Exists("outcome") /\ Finished("outcome")
  BY DEF TypeCorrect, DocumentsFollow, AreFinished, Finished, RootFields, Exists

\* So the sources of every document stay what they were, as long as nobody
\* alters them.
LEMMA SourcesStay ==
    ASSUME TypeCorrect, DocumentsFollow, AreRecords, AreFinished, [Next]_vars, NoneAltered'
    PROVE  /\ DocsStay(DOMAIN docs)
           /\ \A r \in {"native", "later"} : Has(r) => RootsStay({r})
           /\ Has("archive") => RootsStay({"archive"})
           /\ Has("readiness") => RootsStay(ReportRoots) /\ ReportDocs \ {"report"} \subseteq DOMAIN docs
           /\ Has("disabled") => RootsStay(WindowRoots) /\ WindowDocs \subseteq DOMAIN docs
           /\ Has("manifest") => RootsStay(ManifestRoots) /\ ManifestDocs \subseteq DOMAIN docs
           /\ Has("receipt") => RootsStay(ReceiptRoots) /\ ReceiptDocs \subseteq DOMAIN docs
           /\ Has("plan") => RootsStay(ReceiptRoots) /\ ReceiptDocs \subseteq DOMAIN docs
           /\ Has("completion") => RootsStay(CompletionRoots) /\ CompletionDocs \subseteq DOMAIN docs
<1>1. DocsStay(DOMAIN docs)
  BY NothingIsTakenBack DEF Kept, DocsStay
<1>2. \A r \in DOMAIN roots : Finished(r) => roots'[r] = roots[r]
  BY BundlesStay
<1>3. /\ \A r \in {"native", "later"} : Has(r) => RootsStay({r})
      /\ Has("archive") => RootsStay({"archive"})
      /\ Has("disabled") => RootsStay({"disabled"})
      /\ Has("manifest") => RootsStay({"approved"})
      /\ Has("receipt") => RootsStay({"action"})
      /\ Has("completion") => RootsStay({"outcome"})
  BY <1>2, SourcesFinished DEF DocumentsFollow, RootsStay, Exists
<1>4. /\ Has("completion") => Has("plan") /\ Has("receipt")
      /\ Has("plan") => Has("receipt")
      /\ Has("receipt") => Has("manifest") /\ Has("cleanupApproval")
      /\ Has("manifest") => Has("disabled") /\ Has("disabledReport")
      /\ Has("disabled") => /\ Has("readiness") /\ Has("later") /\ Has("report")
                            /\ Has("stopApproval")
      /\ Has("readiness") => Has("native") /\ Has("archive") /\ Has("final")
  BY DEF DocumentsFollow
<1>5. /\ Has("readiness") => RootsStay(ReportRoots) /\ ReportDocs \ {"report"} \subseteq DOMAIN docs
      /\ Has("disabled") => RootsStay(WindowRoots) /\ WindowDocs \subseteq DOMAIN docs
  BY <1>3, <1>4 DEF RootsStay, ReportRoots, ReportDocs, WindowRoots, WindowDocs, Has
<1>6. /\ Has("manifest") => RootsStay(ManifestRoots) /\ ManifestDocs \subseteq DOMAIN docs
  BY <1>3, <1>4, <1>5 DEF RootsStay, ManifestRoots, ManifestDocs, Has
<1>7. /\ Has("receipt") => RootsStay(ReceiptRoots) /\ ReceiptDocs \subseteq DOMAIN docs
  BY <1>3, <1>4, <1>6 DEF RootsStay, ReceiptRoots, ReceiptDocs, Has
<1>8. /\ Has("completion") => RootsStay(CompletionRoots) /\ CompletionDocs \subseteq DOMAIN docs
  BY <1>3, <1>4, <1>7 DEF RootsStay, CompletionRoots, CompletionDocs, Has
<1> QED
  BY <1>1, <1>3, <1>4, <1>5, <1>6, <1>7, <1>8

-----------------------------------------------------------------------------
(* What each verifying command asks, with its sources by name.             *)

CleanupAt(t) == CleanupIsVerified(ApprovedRoot, TheManifest, DisabledReportDoc, Archive, t)
PlanAt(t) == PlanIsVerified(ApprovedRoot, ActionRoot, ThePlan, TheReceipt, TheManifest,
    DisabledReportDoc, Archive, TheApproval, t)
CompletionAt(t) == CompletionIsVerified(OutcomeNow, ApprovedRoot, ActionRoot, TheCompletion,
    TheReceipt, ThePlan, TheManifest, DisabledReportDoc, Archive, TheApproval, t)
CloseoutAt(t) == CloseoutIsVerified(OutcomeNow, ApprovedRoot, ActionRoot, TheLedger,
    TheCompletion, TheReceipt, ThePlan, TheManifest, DisabledReportDoc, Archive, TheApproval, t)
Replayed(t) == Has("disabledReport") /\ DisabledAt(t)

Asked ==
    /\ Verifies("native") <=> NativeIsVerified(NativeRoot(roots.native), NativeThen, now)
    /\ Verifies("later") <=> NativeIsVerified(NativeRoot(roots.later), NativeLater, now)
    /\ Verifies("archive") <=> ArchiveIsVerified(ArchiveRoot(roots.archive), Archive, now)
    /\ Verifies("final") <=>
           FinalStateIsVerified(ArchiveRoot(roots.archive), Archive, Final, now)
    /\ Verifies("readiness") <=>
           ReadinessIsVerified(NativeRoot(roots.native), ArchiveRoot(roots.archive), Readiness, now)
    /\ Verifies("disabled") <=> DisabledAt(now)
    /\ Verifies("manifest") <=> Replayed(now) /\ CleanupAt(now)
    /\ Verifies("receipt") <=> Replayed(now) /\ PreflightAt(now)
    /\ Verifies("plan") <=> Replayed(now) /\ PlanAt(now)
    /\ Verifies("completion") <=> Replayed(now) /\ CompletionAt(now)
    /\ Verifies("closeout") <=> Replayed(now) /\ CloseoutAt(now)

\* The eleven cases of the verification.
LEMMA VerificationAsks == Asked
<1>1. /\ Verifies("native") <=> NativeIsVerified(NativeRoot(roots.native), NativeThen, now)
      /\ Verifies("later") <=> NativeIsVerified(NativeRoot(roots.later), NativeLater, now)
      /\ Verifies("archive") <=> ArchiveIsVerified(ArchiveRoot(roots.archive), Archive, now)
      /\ Verifies("final") <=>
             FinalStateIsVerified(ArchiveRoot(roots.archive), Archive, Final, now)
      /\ Verifies("readiness") <=> ReadinessIsVerified(NativeRoot(roots.native),
                                       ArchiveRoot(roots.archive), Readiness, now)
      /\ Verifies("disabled") <=> DisabledReplays
  BY DEF Verifies, NativeThen, NativeLater
<1>2. Verifies("manifest") <=> CleanupSourcesReplay /\ CleanupAt(now)
  BY DEF Verifies, CleanupAt, ApprovedRoot, TheManifest
<1>3. /\ Verifies("receipt") <=> CleanupSourcesReplay /\ PreflightPassesAgain("verify preflight")
      /\ Verifies("plan") <=> CleanupSourcesReplay /\ PreflightPassesAgain("verify plan")
      /\ Verifies("completion") <=>
             CleanupSourcesReplay /\ CompletionPasses("verify completion")
      /\ Verifies("closeout") <=> CleanupSourcesReplay /\ CompletionPasses("verify closeout")
  BY DEF Verifies
<1>4. CleanupSourcesReplay <=> Replayed(now)
  BY ReplaysWindow DEF CleanupSourcesReplay, Replayed
<1> QED
  BY <1>1, <1>2, <1>3, <1>4, ReplaysWindow, VerifiesReceipt, VerifiesPlan, PassesCompletion
     DEF Asked, PlanAt, CompletionAt, CloseoutAt

\* A document that verifies still does in the next step, at the same time.
LEMMA VerifiedStays ==
    ASSUME TypeCorrect, DocumentsFollow, AreRecords, AreFinished, [Next]_vars, NoneAltered',
           now' = now, NEW d \in DOMAIN docs \cap Verifiable, Verifies(d)
    PROVE  Verifies(d)'
<1>1. Asked /\ Asked'
  <2>1. Asked
    BY VerificationAsks
  <2>2. Asked'
    BY VerificationAsks, PTL
  <2> QED
    BY <2>1, <2>2
<1>2. DocsStay(DOMAIN docs)
  BY SourcesStay
<1>3. CASE d = "native"
  <2>1. NativeThen' = NativeThen /\ roots'["native"] = roots["native"]
    <3>1. RootsStay({"native"}) /\ DocsStay({"native"})
      BY <1>2, <1>3, SourcesStay DEF DocsStay, Has
    <3> QED
      BY <3>1, NativeStays DEF NativeThen, RootsStay
  <2> QED
    BY <1>1, <1>3, <2>1 DEF Asked
<1>4. CASE d = "later"
  <2>1. NativeLater' = NativeLater /\ roots'["later"] = roots["later"]
    <3>1. RootsStay({"later"}) /\ DocsStay({"later"})
      BY <1>2, <1>4, SourcesStay DEF DocsStay, Has
    <3> QED
      BY <3>1, NativeStays DEF NativeLater, RootsStay
  <2> QED
    BY <1>1, <1>4, <2>1 DEF Asked
<1>5. CASE d \in {"archive", "final"}
  <2>1. Has("archive") /\ RootsStay({"archive"}) /\ DocsStay({"archive"})
    BY <1>2, <1>5, SourcesStay DEF DocsStay, Has, DocumentsFollow
  <2>2. d = "final" => DocsStay({"archive", "final"})
    BY <1>2, <1>5, <2>1 DEF DocsStay
  <2>3. Archive' = Archive /\ (d = "final" => Final' = Final)
        /\ roots'["archive"] = roots["archive"]
    BY <2>1, <2>2, ArchiveStays, FinalStays DEF RootsStay
  <2> QED
    BY <1>1, <1>5, <2>3 DEF Asked
<1>6. CASE d = "readiness"
  <2>1. RootsStay(ReportRoots) /\ DocsStay(ReportDocs \ {"report"})
    BY <1>2, <1>6, SourcesStay DEF DocsStay, Has
  <2>2. Readiness' = Readiness /\ roots'["archive"] = roots["archive"]
        /\ roots'["native"] = roots["native"]
    BY <2>1, ReadinessStays DEF RootsStay, ReportRoots
  <2> QED
    BY <1>1, <1>6, <2>2 DEF Asked
<1>7. ASSUME Has("disabled") PROVE DisabledAt(now) => DisabledAt(now)'
  <2>1. RootsStay(WindowRoots) /\ DocsStay(WindowDocs)
    BY <1>2, <1>7, SourcesStay DEF DocsStay
  <2>2. /\ roots'["later"] = roots["later"] /\ roots'["archive"] = roots["archive"]
    BY <2>1 DEF RootsStay, WindowRoots, ReportRoots
  <2> QED
    BY <2>1, <2>2, WindowStays DEF DisabledAt
<1>8. CASE d = "disabled"
  BY <1>1, <1>7, <1>8 DEF Asked, Has
<1>9. ASSUME d \notin {"native", "later", "archive", "final", "readiness", "disabled"}
      PROVE  Has("manifest") /\ (Replayed(now) => Replayed(now)')
  <2>1. Has("manifest") /\ Has("disabled") /\ Has("disabledReport")
    BY <1>9 DEF Verifiable, Has, DocumentsFollow
  <2> QED
    BY <1>7, <2>1, NothingIsTakenBack DEF Replayed, Kept, Has
<1>10. CASE d = "manifest"
  <2>1. RootsStay(ManifestRoots) /\ DocsStay(ManifestDocs)
    BY <1>2, <1>10, SourcesStay DEF DocsStay, Has
  <2>2. /\ ApprovedRoot' = ApprovedRoot /\ DisabledReportDoc' = DisabledReportDoc
        /\ Archive' = Archive /\ TheManifest' = TheManifest
    BY <2>1, ApprovedStays, ManifestStays DEF DocsStay
  <2> QED
    BY <1>1, <1>9, <1>10, <2>2 DEF Asked, CleanupAt
<1>11. ASSUME Has("receipt")
       PROVE  /\ ActionRoot' = ActionRoot /\ TheApproval' = TheApproval
              /\ ApprovedRoot' = ApprovedRoot /\ TheManifest' = TheManifest
              /\ DisabledReportDoc' = DisabledReportDoc /\ Archive' = Archive
              /\ TheReceipt' = TheReceipt
  <2>1. RootsStay(ReceiptRoots) /\ DocsStay(ReceiptDocs)
    BY <1>2, <1>11, SourcesStay DEF DocsStay
  <2> QED
    BY <2>1, ActionStays, ReceiptStays DEF DocsStay
<1>12. CASE d = "receipt"
  BY <1>1, <1>9, <1>11, <1>12 DEF Asked, PreflightAt, Has
<1>13. CASE d = "plan"
  <2>1. Has("receipt") /\ docs'["plan"] = docs["plan"]
    BY <1>2, <1>13 DEF DocsStay, Has, DocumentsFollow
  <2>2. ThePlan' = ThePlan
    BY <1>11, <2>1 DEF ThePlan
  <2> QED
    BY <1>1, <1>9, <1>11, <1>13, <2>1, <2>2 DEF Asked, PlanAt
<1>14. CASE d \in {"completion", "closeout"}
  <2>1. Has("completion") /\ Has("receipt")
    BY <1>14 DEF Has, DocumentsFollow
  <2>2. RootsStay(CompletionRoots) /\ DocsStay(CompletionDocs)
    BY <1>2, <2>1, SourcesStay DEF DocsStay
  <2>3. /\ ThePlan' = ThePlan /\ OutcomeNow' = OutcomeNow /\ OutcomeThen' = OutcomeThen
        /\ TheCompletion' = TheCompletion
    BY <2>2, OutcomeStays, CompletionStays DEF DocsStay
  <2>4. d = "completion" => Verifies(d)'
    BY <1>1, <1>9, <1>11, <1>14, <2>1, <2>3 DEF Asked, CompletionAt
  <2>5. d = "closeout" => Verifies(d)'
    <3>1. d = "closeout" => TheLedger' = TheLedger
      BY <1>2, <1>11, <2>1, <2>3 DEF TheLedger, DocsStay
    <3> QED
      BY <1>1, <1>9, <1>11, <1>14, <2>1, <2>3, <3>1 DEF Asked, CloseoutAt
  <2> QED
    BY <1>14, <2>4, <2>5
<1> QED
  BY <1>3, <1>4, <1>5, <1>6, <1>8, <1>10, <1>12, <1>13, <1>14 DEF Verifiable

-----------------------------------------------------------------------------
(* What each writing command has asked before.                             *)

\* A command that writes leaves its sources as they are.
LEMMA WritingStays ==
    ASSUME TypeCorrect, AreRecords, NoneAltered', NEW d, NEW at, Write(d, at)
    PROVE  /\ Adds(d, at) /\ \A rs : RootsStay(rs)
           /\ \A ds : ds \subseteq DOMAIN docs => DocsStay(ds)
           /\ docs'[d] = at /\ now' = at /\ Has(d)'
           /\ roots' = roots
           /\ \A r \in DOMAIN roots : Retained(r) = roots[r]
<1>1. Adds(d, at)
  BY WriteAdds
<1>2. roots' = roots
  BY DEF Write
<1>3. \A r \in DOMAIN roots : ~roots[r].altered
  BY <1>2 DEF NoneAltered
<1>4. \A r \in DOMAIN roots : Retained(r) = roots[r]
  BY <1>3, RetainedIsUnaltered
<1> QED
  BY <1>1, <1>2, <1>4 DEF Adds, RootsStay, DocsStay, Has

\* The native evidence verifies at once.
LEMMA NativeWritten ==
    ASSUME TypeCorrect, AreRecords, NoneAltered', NEW r \in {"native", "later"}, AssembleNative(r)
    PROVE  Verifies(r)'
<1>1. /\ Exists(r) /\ NativeIsAssembled(NativeRoot(roots[r]), now) /\ Write(r, now)
  BY DEF AssembleNative
<1>2. /\ docs'[r] = now /\ now' = now /\ roots' = roots /\ Retained(r) = roots[r]
  BY <1>1, WritingStays DEF Exists
<1> DEFINE b == NativeRoot(roots[r])
           o == NativeObservation(b, now)
<1>3. Native(r)' = o
  BY <1>2 DEF Native, Retained
<1>4. now \in Nat
  BY DEF TypeCorrect
<1>5. o.key = b.files.key /\ o.assembled = now
  BY DEF NativeObservation
<1>6. b.files.key = PinnedKey
  BY DEF NativeRoot, NativeBundle, Bundle
<1>7. now < o.expires
  <2>1. ObservationIsConsistent(o)
    BY <1>1 DEF NativeIsAssembled
  <2> HIDE DEF o
  <2> QED
    BY <1>5, <2>1 DEF ObservationIsConsistent
<1>8. NativeIsVerified(b, o, now)
  <2> HIDE DEF b
  <2>1. NativeObservation(b, o.assembled) = o /\ NativeIsAssembled(b, o.assembled)
    <3>1. NativeIsAssembled(b, now)
      BY <1>1 DEF b
    <3> QED
      BY <1>5, <3>1
  <2> HIDE DEF o
  <2> QED
    BY <1>4, <1>5, <1>6, <1>7, <2>1 DEF NativeIsVerified
<1> HIDE DEF o
<1>9. Asked'
  BY VerificationAsks, PTL
<1>10. roots'[r] = roots[r]
  BY <1>2
<1>11. r = "native" => NativeThen' = o
  BY <1>3 DEF NativeThen
<1>12. r = "later" => NativeLater' = o
  BY <1>3 DEF NativeLater
<1> QED
  BY <1>2, <1>8, <1>9, <1>11, <1>12 DEF Asked

\* So does the manifest of the archive.
LEMMA ArchiveWritten ==
    ASSUME TypeCorrect, AreRecords, NoneAltered', AssembleArchive
    PROVE  Verifies("archive")'
<1>1. /\ Exists("archive") /\ ArchiveIsAssembled(ArchiveRoot(roots.archive), now)
      /\ Write("archive", now)
  BY DEF AssembleArchive
<1>2. /\ docs'["archive"] = now /\ now' = now /\ roots' = roots
      /\ Retained("archive") = roots["archive"]
  BY <1>1, WritingStays DEF Exists
<1> DEFINE b == ArchiveRoot(roots.archive)
           a == ArchiveManifest(b, now)
<1>3. Archive' = a
  BY <1>2 DEF Archive, Retained
<1>4. now \in Nat
  BY DEF TypeCorrect
<1>5. a.assembled = now /\ a.retention = b.manifest.retention
  BY DEF ArchiveManifest
<1> HIDE DEF b
<1>6. a.retention >= now + Policy.minRetention
  BY <1>1, <1>5 DEF ArchiveIsAssembled, b
<1>7. ArchiveManifest(b, a.assembled) = a /\ ArchiveIsAssembled(b, a.assembled)
  BY <1>1, <1>5 DEF b
<1> HIDE DEF a
<1>8. ArchiveIsVerified(b, a, now)
  BY <1>4, <1>5, <1>6, <1>7 DEF ArchiveIsVerified
<1>9. Asked'
  BY VerificationAsks, PTL
<1> QED
  BY <1>2, <1>3, <1>8, <1>9 DEF Asked, b

\* The final state is not too old when it is written.
LEMMA FinalWritten ==
    ASSUME TypeCorrect, AreRecords, NoneAltered', DocumentsFollow, AssembleFinalState
    PROVE  Verifies("final")'
<1>1. /\ Has("archive") /\ FinalStateIsAssembled(ArchiveRoot(roots.archive), Archive, now, now)
      /\ Write("final", now)
  BY DEF AssembleFinalState
<1>2. /\ docs'["final"] = now /\ now' = now /\ roots' = roots
      /\ Retained("archive") = roots["archive"] /\ Archive' = Archive
  <2>1. Exists("archive")
    BY <1>1 DEF DocumentsFollow
  <2>2. RootsStay({"archive"}) /\ DocsStay({"archive"})
    BY <1>1, WritingStays DEF Has
  <2> QED
    BY <1>1, <2>1, <2>2, WritingStays, ArchiveStays DEF Exists
<1> DEFINE b == ArchiveRoot(roots.archive)
           s == FinalState(b, Archive, now)
<1>3. Final' = s
  BY <1>2 DEF Final, Retained
<1>4. now \in Nat
  BY DEF TypeCorrect
<1>5. s.assembled = now
  BY DEF FinalState
<1>6. now <= s.captured + Policy.maxFinalAge
  <2>1. CapturesAgree(b.files, b.manifest, now)
    BY <1>1 DEF FinalStateIsAssembled
  <2> HIDE DEF b
  <2> QED
    BY <2>1 DEF CapturesAgree, FinalState
<1> HIDE DEF b
<1>7. FinalState(b, Archive, s.assembled) = s
      /\ FinalStateIsAssembled(b, Archive, s.assembled, now)
  BY <1>1, <1>5 DEF b
<1> HIDE DEF s
<1>8. FinalStateIsVerified(b, Archive, s, now)
  BY <1>4, <1>5, <1>6, <1>7 DEF FinalStateIsVerified
<1>9. Asked'
  BY VerificationAsks, PTL
<1> QED
  BY <1>2, <1>3, <1>8, <1>9 DEF Asked, b

\* Evidence that was verified still is later, until it runs out.
LEMMA NativeLasts ==
    ASSUME NEW b, NEW o, NEW t \in Nat, NEW u \in Nat, t <= u, o.assembled \in Nat,
           NativeIsVerified(b, o, t), u < o.expires
    PROVE  NativeIsVerified(b, o, u)
  BY DEF NativeIsVerified

\* So is the archive, while it is retained.
LEMMA ArchiveLasts ==
    ASSUME NEW b, NEW a, NEW t \in Nat, NEW u \in Nat, t <= u, a.assembled \in Nat,
           ArchiveIsVerified(b, a, t), a.retention >= u + Policy.minRetention
    PROVE  ArchiveIsVerified(b, a, u)
  BY DEF ArchiveIsVerified

\* And the window, with both.
LEMMA WindowLasts ==
    ASSUME NEW t \in Nat, NEW u \in Nat, t <= u, DisabledAt(t),
           Window.assembled \in Nat, NativeLater.assembled \in Nat, Archive.assembled \in Nat,
           u < NativeLater.expires, Archive.retention >= u + Policy.minRetention
    PROVE  DisabledAt(u)
<1> DEFINE Checked(v) == DisabledIsAssembled(WindowRoot, NativeRoot(roots.later),
               ArchiveRoot(roots.archive), Report, NativeLater, Archive, TheStopApproval,
               Window.assembled, v)
<1>1. Checked(t) /\ Window.assembled <= t
  BY DEF DisabledAt, DisabledIsVerified
<1>2. NativeIsVerified(NativeRoot(roots.later), NativeLater, t)
      /\ ArchiveIsVerified(ArchiveRoot(roots.archive), Archive, t)
  BY <1>1 DEF DisabledIsAssembled
<1>3. NativeIsVerified(NativeRoot(roots.later), NativeLater, u)
      /\ ArchiveIsVerified(ArchiveRoot(roots.archive), Archive, u)
  <2>1. NativeIsVerified(NativeRoot(roots.later), NativeLater, u)
    BY <1>2, NativeLasts
  <2>2. ArchiveIsVerified(ArchiveRoot(roots.archive), Archive, u)
    BY <1>2, ArchiveLasts
  <2> QED
    BY <2>1, <2>2
<1>4. Checked(u)
  BY <1>1, <1>3 DEF DisabledIsAssembled
<1> QED
  BY <1>1, <1>4 DEF DisabledAt, DisabledIsVerified

\* The date of a document is in it.
LEMMA DatesAreWritten ==
    /\ NativeThen.assembled = docs.native /\ NativeLater.assembled = docs.later
    /\ Archive.assembled = docs.archive /\ Final.assembled = docs.final
    /\ Readiness.observed = docs.readiness /\ Window.assembled = docs.disabled
    /\ TheManifest.created = docs.manifest /\ TheReceipt.evaluated = docs.receipt
    /\ ThePlan.prepared = docs.plan /\ TheCompletion.generated = docs.completion
    /\ TheLedger.generated = docs.closeout
<1>1. NativeThen.assembled = docs.native /\ NativeLater.assembled = docs.later
  BY DEF NativeThen, NativeLater, Native, NativeObservation
<1>2. Archive.assembled = docs.archive
  BY DEF Archive, ArchiveManifest
<1>3. Final.assembled = docs.final
  BY DEF Final, FinalState
<1>4. Readiness.observed = docs.readiness
  BY DEF Readiness, ReadinessObservation
<1>5. Window.assembled = docs.disabled
  BY DEF Window, Disabled, DisabledObservation
<1>6. TheManifest.created = docs.manifest
  BY DEF TheManifest, Manifest, CleanupManifest
<1>7. TheReceipt.evaluated = docs.receipt
  BY DEF TheReceipt, Receipt, PreflightReceipt
<1>8. ThePlan.prepared = docs.plan
  BY DEF ThePlan, ActionPlan
<1>9. TheCompletion.generated = docs.completion
  BY DEF TheCompletion, CompletionReport
<1>10. TheLedger.generated = docs.closeout
  BY DEF TheLedger, OperatorLedger
<1> QED
  BY <1>1, <1>2, <1>3, <1>4, <1>5, <1>6, <1>7, <1>8, <1>9, <1>10

\* The readiness observation is dated after its sources were verified, and
\* looks at their age again.
LEMMA ReadinessWritten ==
    ASSUME TypeCorrect, AreRecords, NoneAltered', DocumentsFollow, DatedBefore,
           AssembleReadiness, ~RanOut("readiness")'
    PROVE  Verifies("readiness")'
<1>1. /\ Has("native") /\ Has("final") /\ ~Has("readiness")
  BY DEF AssembleReadiness
<1>2. PICK at \in now..now + 1 :
         /\ ReadinessIsAssembled(NativeRoot(roots.native), ArchiveRoot(roots.archive),
                                 NativeThen, Archive, Final, now, at)
         /\ Write("readiness", at)
  BY DEF AssembleReadiness, NativeThen
<1>3. /\ docs'["readiness"] = at /\ now' = at /\ roots' = roots
      /\ Archive' = Archive /\ Final' = Final /\ NativeThen' = NativeThen
  <2>1. Has("archive")
    BY <1>1 DEF DocumentsFollow
  <2>2. /\ RootsStay({"native"}) /\ RootsStay({"archive"})
        /\ DocsStay({"native"}) /\ DocsStay({"archive", "final"})
    BY <1>1, <1>2, <2>1, WritingStays DEF Has
  <2> QED
    BY <1>2, <2>2, WritingStays, NativeStays, FinalStays DEF NativeThen
<1> DEFINE o == ReadinessObservation(NativeThen, Archive, Final, at)
<1>4. Readiness' = o
  BY <1>3 DEF Readiness, NativeThen
<1>5. o.native = NativeThen /\ o.archive = Archive /\ o.legacy = Final /\ o.observed = at
  BY DEF ReadinessObservation
<1>6. /\ now \in Nat /\ at \in Nat /\ now <= at
      /\ docs.native \in Nat /\ docs.archive \in Nat /\ docs.final \in Nat
      /\ docs.archive <= now /\ docs.final <= now
  <2>1. now \in Nat /\ at \in Nat /\ now <= at
    BY <1>2 DEF TypeCorrect
  <2>2. {"native", "archive", "final"} \subseteq DOMAIN docs
    BY <1>1 DEF DocumentsFollow, Has
  <2> QED
    BY <2>1, <2>2 DEF TypeCorrect, DatedBefore
<1>7. /\ NativeIsVerified(NativeRoot(roots.native), NativeThen, now)
      /\ FinalStateIsVerified(ArchiveRoot(roots.archive), Archive, Final, now)
      /\ SourcesAreCurrent(NativeThen, Final, at)
      /\ ReadinessBinds(o)
  BY <1>2 DEF ReadinessIsAssembled, ReadinessSourcesVerify
<1>8. Archive.retention >= at + Policy.minRetention
  <2>1. Archive'.retention >= now' + Policy.minRetention
    BY DEF RanOut
  <2> QED
    BY <1>3, <2>1
<1>9. NativeIsVerified(NativeRoot(roots.native), NativeThen, at)
  BY <1>6, <1>7, NativeLasts, DatesAreWritten DEF SourcesAreCurrent
<1>10. FinalStateIsVerified(ArchiveRoot(roots.archive), Archive, Final, at)
  <2>1. ArchiveIsVerified(ArchiveRoot(roots.archive), Archive, at)
    <3>1. ArchiveIsVerified(ArchiveRoot(roots.archive), Archive, now)
      BY <1>7 DEF FinalStateIsVerified, FinalStateIsAssembled
    <3> QED
      BY <1>6, <1>8, <3>1, ArchiveLasts, DatesAreWritten
  <2>2. FinalStateIsAssembled(ArchiveRoot(roots.archive), Archive, Final.assembled, at)
    BY <1>7, <2>1 DEF FinalStateIsVerified, FinalStateIsAssembled
  <2>3. Final.assembled <= at
    BY <1>6, DatesAreWritten
  <2> QED
    BY <1>7, <2>2, <2>3 DEF FinalStateIsVerified, SourcesAreCurrent
<1>11. ReadinessIsVerified(NativeRoot(roots.native), ArchiveRoot(roots.archive), o, at)
  <2> HIDE DEF o
  <2> QED
    BY <1>5, <1>6, <1>7, <1>9, <1>10 DEF ReadinessIsVerified, ReadinessSourcesVerify
<1>12. Asked'
  BY VerificationAsks, PTL
<1> QED
  BY <1>3, <1>4, <1>11, <1>12 DEF Asked

\* The window verifies when it is observed.
LEMMA DisabledWritten ==
    ASSUME TypeCorrect, AreRecords, NoneAltered', DocumentsFollow, AssembleDisabled
    PROVE  Verifies("disabled")'
<1>1. /\ Exists("disabled") /\ Has("later")
      /\ DisabledIsAssembled(WindowRoot, NativeRoot(roots.later), ArchiveRoot(roots.archive),
                             Report, NativeLater, Archive, TheStopApproval, now, now)
      /\ Write("disabled", now)
  BY DEF AssembleDisabled, WindowRoot, NativeLater, TheStopApproval
<1>2. WindowDocs \ {"disabled"} \subseteq DOMAIN docs
  BY <1>1 DEF DocumentsFollow, WindowDocs, ReportDocs, Has
<1>3. /\ docs'["disabled"] = now /\ now' = now /\ roots' = roots
      /\ Retained("disabled") = roots["disabled"]
      /\ Archive' = Archive /\ Report' = Report /\ NativeLater' = NativeLater
      /\ TheStopApproval' = TheStopApproval /\ WindowRoot' = WindowRoot
  BY <1>1, <1>2, WritingStays, WindowSourcesStay DEF Exists
<1> DEFINE o == DisabledObservation(WindowRoot, Report, NativeLater, Archive, now)
<1>4. Window' = o
  BY <1>3 DEF Window, Disabled, WindowRoot, TheStopApproval, NativeLater, Retained
<1>5. o.assembled = now
  BY DEF DisabledObservation
<1>6. now <= now
  BY DEF TypeCorrect
<1>7. DisabledIsVerified(WindowRoot, NativeRoot(roots.later), ArchiveRoot(roots.archive), o,
                         Report, NativeLater, Archive, TheStopApproval, now)
  <2>1. DisabledObservation(WindowRoot, Report, NativeLater, Archive, o.assembled) = o
    BY <1>5
  <2> HIDE DEF o
  <2> QED
    BY <1>1, <1>5, <1>6, <2>1 DEF DisabledIsVerified
<1> HIDE DEF o
<1>8. DisabledAt(now)'
  BY <1>3, <1>4, <1>7 DEF DisabledAt
<1>9. Asked'
  BY VerificationAsks, PTL
<1> QED
  BY <1>8, <1>9 DEF Asked

\* The later commands replay the window before they write.
LEMMA ReplayIsWritten ==
    ASSUME TypeCorrect, AreRecords, NoneAltered', DocumentsFollow,
           NEW d, NEW at \in Nat, Write(d, at), now <= at, Replayed(at)
    PROVE  /\ Replayed(at)' /\ WindowDocs \union {"disabledReport"} \subseteq DOMAIN docs
           /\ roots' = roots /\ docs'[d] = at /\ now' = at
<1>1. WindowDocs \union {"disabledReport"} \subseteq DOMAIN docs
  BY DEF Replayed, DocumentsFollow, WindowDocs, ReportDocs, Has
<1>2. /\ roots' = roots /\ docs'[d] = at /\ now' = at
      /\ RootsStay(WindowRoots) /\ DocsStay(WindowDocs) /\ DocsStay({"disabledReport"})
      /\ Has("disabledReport")'
  BY <1>1, WritingStays DEF Adds, Has
<1>3. DisabledAt(at)'
  BY <1>2, WindowStays DEF DisabledAt, Replayed
<1> QED
  BY <1>1, <1>2, <1>3 DEF Replayed

\* The cleanup manifest verifies when it is assembled.
LEMMA ManifestWritten ==
    ASSUME TypeCorrect, AreRecords, NoneAltered', DocumentsFollow, AssembleCleanupManifest
    PROVE  Verifies("manifest")'
<1>1. /\ Exists("approved") /\ Replayed(now)
      /\ CleanupIsAssembled(ApprovedRoot, DisabledReportDoc, Archive, now)
      /\ Write("manifest", now)
  BY ReplaysWindow DEF AssembleCleanupManifest, CleanupSourcesReplay, Replayed, ApprovedRoot
<1>2. now \in Nat /\ now <= now
  BY DEF TypeCorrect
<1>3. /\ Replayed(now)' /\ ManifestDocs \ {"manifest"} \subseteq DOMAIN docs
      /\ roots' = roots /\ docs'["manifest"] = now /\ now' = now
  BY <1>1, <1>2, ReplayIsWritten DEF ManifestDocs
<1>4. /\ ApprovedRoot' = ApprovedRoot /\ DisabledReportDoc' = DisabledReportDoc
      /\ Archive' = Archive /\ Retained("approved") = roots["approved"]
  BY <1>1, <1>3, WritingStays, ApprovedStays DEF Exists
<1> DEFINE c == CleanupManifest(ApprovedRoot, now)
<1>5. TheManifest' = c
  BY <1>3, <1>4 DEF TheManifest, Manifest, ApprovedRoot, Root, Retained
<1>6. c.created = now
  BY DEF CleanupManifest
<1>7. CleanupIsVerified(ApprovedRoot, c, DisabledReportDoc, Archive, now)
  <2>1. CleanupManifest(ApprovedRoot, c.created) = c
    BY <1>6
  <2> HIDE DEF c
  <2> QED
    BY <1>1, <1>2, <1>6, <2>1 DEF CleanupIsVerified
<1> HIDE DEF c
<1>8. CleanupAt(now)'
  BY <1>3, <1>4, <1>5, <1>7 DEF CleanupAt
<1>9. Asked'
  BY VerificationAsks, PTL
<1> QED
  BY <1>3, <1>8, <1>9 DEF Asked

\* The receipt verifies when the preflight passes.
LEMMA ReceiptWritten ==
    ASSUME TypeCorrect, AreRecords, NoneAltered', DocumentsFollow, PreparePreflight
    PROVE  Verifies("receipt")'
<1>1. /\ Exists("action") /\ Has("cleanupApproval") /\ Replayed(now)
      /\ PreflightPasses(ApprovedRoot, ActionRoot, TheManifest, DisabledReportDoc, Archive,
                         TheApproval, now, now)
      /\ ReceiptIsOrderly(PreflightReceipt(ApprovedRoot, ActionRoot, TheManifest,
                                           TheApproval, now))
      /\ Write("receipt", now)
  BY ReplaysWindow DEF PreparePreflight, CleanupSourcesReplay, Replayed, ApprovedRoot,
     ActionRoot, TheManifest, TheApproval
<1>2. now \in Nat /\ now <= now
  BY DEF TypeCorrect
<1>3. /\ Replayed(now)' /\ ReceiptDocs \ {"receipt"} \subseteq DOMAIN docs
      /\ roots' = roots /\ docs'["receipt"] = now /\ now' = now
  <2>1. Has("manifest")
    BY <1>1 DEF DocumentsFollow
  <2> QED
    BY <1>1, <1>2, <2>1, ReplayIsWritten DEF ReceiptDocs, ManifestDocs, Has
<1>4. /\ ActionRoot' = ActionRoot /\ TheApproval' = TheApproval
      /\ ApprovedRoot' = ApprovedRoot /\ TheManifest' = TheManifest
      /\ DisabledReportDoc' = DisabledReportDoc /\ Archive' = Archive
      /\ Retained("action") = roots["action"]
  BY <1>1, <1>3, WritingStays, ActionStays DEF Exists
<1> DEFINE r == PreflightReceipt(ApprovedRoot, ActionRoot, TheManifest, TheApproval, now)
<1>5. TheReceipt' = r
  <2>1. TheReceipt' = PreflightReceipt(ActionRoot, ActionRoot, TheManifest, TheApproval, now)
    BY <1>3, <1>4 DEF TheReceipt, Receipt, ActionRoot, Root, Retained
  <2> QED
    BY <2>1 DEF PreflightReceipt
<1>6. r.evaluated = now
  BY DEF PreflightReceipt
<1>7. PreflightIsVerified(ApprovedRoot, ActionRoot, r, TheManifest, DisabledReportDoc, Archive,
                          TheApproval, now)
  <2>1. PreflightReceipt(ApprovedRoot, ActionRoot, TheManifest, TheApproval, r.evaluated) = r
        /\ ReceiptIsOrderly(r)
    BY <1>1, <1>6
  <2> HIDE DEF r
  <2>2. now < r.validUntil
    BY <1>6, <2>1 DEF ReceiptIsOrderly
  <2> QED
    BY <1>1, <1>2, <1>6, <2>1, <2>2 DEF PreflightIsVerified
<1> HIDE DEF r
<1>8. PreflightAt(now)'
  BY <1>3, <1>4, <1>5, <1>7 DEF PreflightAt
<1>9. Asked'
  BY VerificationAsks, PTL
<1> QED
  BY <1>3, <1>8, <1>9 DEF Asked

\* The plan is dated after the receipt was verified, and not after its end.
LEMMA PlanWritten ==
    ASSUME TypeCorrect, AreRecords, NoneAltered', DocumentsFollow, DatedBefore, PreparePlan,
           ~RanOut("plan")'
    PROVE  Verifies("plan")'
<1>1. PICK at \in now..now + 1 :
         /\ Has("receipt") /\ Replayed(now)
         /\ PlanIsPrepared(ApprovedRoot, ActionRoot, TheReceipt, TheManifest, DisabledReportDoc,
                           Archive, TheApproval, now, at)
         /\ Write("plan", at)
  BY ReplaysWindow DEF PreparePlan, CleanupSourcesReplay, Replayed, ApprovedRoot, ActionRoot,
     TheManifest, TheApproval, TheReceipt
<1>2. /\ now \in Nat /\ at \in Nat /\ now <= at
      /\ ReceiptDocs \subseteq DOMAIN docs
  <2>1. ReceiptDocs \subseteq DOMAIN docs
    BY <1>1 DEF DocumentsFollow, ReceiptDocs, ManifestDocs, WindowDocs, ReportDocs, Has
  <2> QED
    BY <1>1, <2>1 DEF TypeCorrect
<1>3. /\ docs.receipt \in Nat /\ docs.manifest \in Nat /\ docs.later \in Nat
      /\ docs.archive \in Nat /\ docs.disabled \in Nat
      /\ docs.receipt <= now /\ docs.manifest <= now
  BY <1>2 DEF TypeCorrect, DatedBefore, ReceiptDocs, ManifestDocs, WindowDocs, ReportDocs
<1>4. /\ docs'["plan"] = at /\ now' = at
      /\ ActionRoot' = ActionRoot /\ TheApproval' = TheApproval
      /\ ApprovedRoot' = ApprovedRoot /\ TheManifest' = TheManifest
      /\ DisabledReportDoc' = DisabledReportDoc /\ Archive' = Archive
      /\ TheReceipt' = TheReceipt /\ NativeLater' = NativeLater
  <2>1. /\ docs'["plan"] = at /\ now' = at
        /\ RootsStay(ReceiptRoots) /\ DocsStay(ReceiptDocs)
    BY <1>1, <1>2, WritingStays
  <2>2. NativeLater' = NativeLater
    BY <2>1, NativeStays DEF RootsStay, DocsStay, NativeLater, ReceiptRoots, ManifestRoots,
       WindowRoots, ReceiptDocs, ManifestDocs, WindowDocs
  <2> QED
    BY <2>1, <2>2, ActionStays, ReceiptStays DEF DocsStay
<1>5. Replayed(at)
  <2>1. Archive'.retention >= now' + Policy.minRetention /\ now' < NativeLater'.expires
    BY DEF RanOut, NativeLater
  <2> QED
    BY <1>1, <1>2, <1>3, <1>4, <2>1, WindowLasts, DatesAreWritten DEF Replayed
<1>6. Replayed(at)'
  BY <1>1, <1>2, <1>5, ReplayIsWritten
<1> DEFINE p == ActionPlan(TheReceipt, TheManifest, at)
<1>7. ThePlan' = p
  BY <1>4 DEF ThePlan
<1>8. p.prepared = at /\ p.validUntil = TheReceipt.validUntil
  BY DEF ActionPlan
<1>9. PreflightIsVerified(ApprovedRoot, ActionRoot, TheReceipt, TheManifest, DisabledReportDoc,
                          Archive, TheApproval, now)
      /\ PlanIsPermitted(TheReceipt, TheManifest, at)
  BY <1>1 DEF PlanIsPrepared
<1>10. TheReceipt.evaluated <= at /\ at < TheReceipt.validUntil
  BY <1>9 DEF PlanIsPermitted
<1>11. CleanupIsVerified(ApprovedRoot, TheManifest, DisabledReportDoc, Archive, at)
  <2>1. CleanupIsVerified(ApprovedRoot, TheManifest, DisabledReportDoc, Archive, now)
    BY <1>9 DEF PreflightIsVerified, PreflightPasses
  <2>2. TheManifest.created <= at
    BY <1>2, <1>3, DatesAreWritten
  <2> QED
    BY <2>1, <2>2 DEF CleanupIsVerified
<1>12. PreflightIsVerified(ApprovedRoot, ActionRoot, TheReceipt, TheManifest, DisabledReportDoc,
                           Archive, TheApproval, at)
  BY <1>9, <1>10, <1>11 DEF PreflightIsVerified, PreflightPasses
<1>13. PlanIsVerified(ApprovedRoot, ActionRoot, p, TheReceipt, TheManifest, DisabledReportDoc,
                      Archive, TheApproval, at)
  <2>1. ActionPlan(TheReceipt, TheManifest, p.prepared) = p /\ at <= at
    BY <1>2, <1>8
  <2> HIDE DEF p
  <2> QED
    BY <1>8, <1>9, <1>10, <1>12, <2>1 DEF PlanIsVerified
<1> HIDE DEF p
<1>14. PlanAt(at)'
  BY <1>4, <1>7, <1>13 DEF PlanAt
<1>15. Asked'
  BY VerificationAsks, PTL
<1> QED
  BY <1>4, <1>6, <1>14, <1>15 DEF Asked

\* The completion report verifies when it is assembled.
LEMMA CompletionWritten ==
    ASSUME TypeCorrect, AreRecords, NoneAltered', DocumentsFollow, AssembleCompletion
    PROVE  Verifies("completion")'
<1>1. /\ Exists("outcome") /\ Replayed(now)
      /\ CompletionIsAssembled(OutcomeNow, ApprovedRoot, ActionRoot, TheReceipt, ThePlan,
             TheManifest, DisabledReportDoc, Archive, TheApproval, now, now)
      /\ Write("completion", now)
  BY ReplaysWindow, PassesCompletion DEF AssembleCompletion, CleanupSourcesReplay, Replayed
<1>2. now \in Nat /\ now <= now
  BY DEF TypeCorrect
<1>3. /\ Replayed(now)' /\ CompletionDocs \ {"completion"} \subseteq DOMAIN docs
      /\ ReceiptDocs \subseteq DOMAIN docs
      /\ roots' = roots /\ docs'["completion"] = now /\ now' = now
  <2>1. ReceiptDocs \subseteq DOMAIN docs /\ Has("plan")
    BY <1>1 DEF DocumentsFollow, ReceiptDocs, ManifestDocs, WindowDocs, ReportDocs, Has
  <2> QED
    BY <1>1, <1>2, <2>1, ReplayIsWritten DEF CompletionDocs, Has
<1>4. /\ RootsStay(CompletionRoots) /\ DocsStay(CompletionDocs \ {"completion"})
      /\ RootsStay(ReceiptRoots) /\ DocsStay(ReceiptDocs)
      /\ Retained("outcome") = roots["outcome"]
  BY <1>1, <1>3, WritingStays DEF Exists
<1>5. /\ ActionRoot' = ActionRoot /\ TheApproval' = TheApproval
      /\ ApprovedRoot' = ApprovedRoot /\ TheManifest' = TheManifest
      /\ DisabledReportDoc' = DisabledReportDoc /\ Archive' = Archive
      /\ ThePlan' = ThePlan /\ OutcomeNow' = OutcomeNow /\ OutcomeThen' = OutcomeNow
      /\ TheReceipt' = TheReceipt
  <2>1. OutcomeThen = OutcomeNow
    BY <1>4 DEF OutcomeThen, OutcomeNow
  <2> QED
    BY <1>4, <2>1, ActionStays, OutcomeStays DEF DocsStay
<1> DEFINE d == CompletionReport(OutcomeNow, TheReceipt, ThePlan, TheManifest,
                                 DisabledReportDoc, Archive, now)
<1>6. TheCompletion' = d
  BY <1>3, <1>5 DEF TheCompletion
<1>7. d.generated = now
  BY DEF CompletionReport
<1>8. CompletionIsVerified(OutcomeNow, ApprovedRoot, ActionRoot, d, TheReceipt, ThePlan,
                           TheManifest, DisabledReportDoc, Archive, TheApproval, now)
  <2>1. CompletionReport(OutcomeNow, TheReceipt, ThePlan, TheManifest, DisabledReportDoc,
                         Archive, d.generated) = d
    BY <1>7
  <2> HIDE DEF d
  <2> QED
    BY <1>1, <1>2, <1>7, <2>1 DEF CompletionIsVerified
<1> HIDE DEF d
<1>9. CompletionAt(now)'
  BY <1>3, <1>5, <1>6, <1>8 DEF CompletionAt
<1>10. Asked'
  BY VerificationAsks, PTL
<1> QED
  BY <1>3, <1>9, <1>10 DEF Asked

\* The closeout ledger verifies when it is written.
LEMMA CloseoutWritten ==
    ASSUME TypeCorrect, AreRecords, NoneAltered', DocumentsFollow, AssembleCloseout
    PROVE  Verifies("closeout")'
<1>1. /\ Has("completion") /\ Replayed(now)
      /\ CloseoutIsAssembled(OutcomeNow, ApprovedRoot, ActionRoot, TheCompletion, TheReceipt,
             ThePlan, TheManifest, DisabledReportDoc, Archive, TheApproval, now, now)
      /\ Write("closeout", now)
  BY ReplaysWindow, PassesCompletion DEF AssembleCloseout, CleanupSourcesReplay, Replayed
<1>2. now \in Nat /\ now <= now
  BY DEF TypeCorrect
<1>3. /\ Replayed(now)' /\ CompletionDocs \subseteq DOMAIN docs
      /\ ReceiptDocs \subseteq DOMAIN docs /\ Exists("outcome")
      /\ roots' = roots /\ docs'["closeout"] = now /\ now' = now
  <2>1. ReceiptDocs \subseteq DOMAIN docs /\ Has("plan") /\ Exists("outcome")
    BY <1>1 DEF DocumentsFollow, ReceiptDocs, ManifestDocs, WindowDocs, ReportDocs, Has
  <2> QED
    BY <1>1, <1>2, <2>1, ReplayIsWritten DEF CompletionDocs, Has
<1>4. /\ RootsStay(CompletionRoots) /\ DocsStay(CompletionDocs)
      /\ RootsStay(ReceiptRoots) /\ DocsStay(ReceiptDocs)
      /\ Retained("outcome") = roots["outcome"]
  BY <1>1, <1>3, WritingStays DEF Exists
<1>5. /\ ActionRoot' = ActionRoot /\ TheApproval' = TheApproval
      /\ ApprovedRoot' = ApprovedRoot /\ TheManifest' = TheManifest
      /\ DisabledReportDoc' = DisabledReportDoc /\ Archive' = Archive
      /\ ThePlan' = ThePlan /\ OutcomeNow' = OutcomeNow /\ OutcomeThen' = OutcomeNow
      /\ TheReceipt' = TheReceipt /\ TheCompletion' = TheCompletion
  <2>1. OutcomeThen = OutcomeNow
    BY <1>4 DEF OutcomeThen, OutcomeNow
  <2> QED
    BY <1>4, <2>1, ActionStays, OutcomeStays, CompletionStays DEF DocsStay
<1> DEFINE l == OperatorLedger(OutcomeNow, TheCompletion, TheReceipt, ThePlan, TheApproval, now)
<1>6. TheLedger' = l
  BY <1>3, <1>5 DEF TheLedger
<1>7. l.generated = now
  BY DEF OperatorLedger
<1>8. CloseoutIsVerified(OutcomeNow, ApprovedRoot, ActionRoot, l, TheCompletion, TheReceipt,
                         ThePlan, TheManifest, DisabledReportDoc, Archive, TheApproval, now)
  <2>1. OperatorLedger(OutcomeNow, TheCompletion, TheReceipt, ThePlan, TheApproval,
                       l.generated) = l
    BY <1>7
  <2> HIDE DEF l
  <2> QED
    BY <1>1, <1>2, <1>7, <2>1 DEF CloseoutIsVerified
<1> HIDE DEF l
<1>9. CloseoutAt(now)'
  BY <1>3, <1>5, <1>6, <1>8 DEF CloseoutAt
<1>10. Asked'
  BY VerificationAsks, PTL
<1> QED
  BY <1>3, <1>9, <1>10 DEF Asked

\* Whatever a step writes, verifies.
LEMMA NewVerifies ==
    ASSUME TypeCorrect, AreRecords, DocumentsFollow, DatedBefore, [Next]_vars, NoneAltered',
           NEW d \in Verifiable, Wrote(d), ~RanOut(d)'
    PROVE  Verifies(d)'
<1>1. Authors
  BY DocumentsHaveAuthors
<1>2. CASE d \in {"native", "later"}
  BY <1>1, <1>2, NativeWritten DEF Authors
<1>3. CASE d = "archive"
  BY <1>1, <1>3, ArchiveWritten DEF Authors
<1>4. CASE d = "final"
  BY <1>1, <1>4, FinalWritten DEF Authors
<1>5. CASE d = "readiness"
  BY <1>1, <1>5, ReadinessWritten DEF Authors
<1>6. CASE d = "disabled"
  BY <1>1, <1>6, DisabledWritten DEF Authors
<1>7. CASE d = "manifest"
  BY <1>1, <1>7, ManifestWritten DEF Authors
<1>8. CASE d = "receipt"
  BY <1>1, <1>8, ReceiptWritten DEF Authors
<1>9. CASE d = "plan"
  BY <1>1, <1>9, PlanWritten DEF Authors
<1>10. CASE d = "completion"
  BY <1>1, <1>10, CompletionWritten DEF Authors
<1>11. CASE d = "closeout"
  BY <1>1, <1>11, CloseoutWritten DEF Authors
<1> QED
  BY <1>2, <1>3, <1>4, <1>5, <1>6, <1>7, <1>8, <1>9, <1>10, <1>11 DEF Verifiable

\* Sources that had run out at this instant still have.
LEMMA RunningOutStays ==
    ASSUME TypeCorrect, DocumentsFollow, AreRecords, AreFinished, [Next]_vars, NoneAltered',
           now' = now, NEW d \in DOMAIN docs, ~RanOut(d)'
    PROVE  ~RanOut(d)
<1>1. CASE d = "readiness"
  <2>1. Archive' = Archive
    BY <1>1, SourcesStay, ArchiveStays DEF DocsStay, Has, DocumentsFollow
  <2> QED
    BY <1>1, <2>1 DEF RanOut
<1>2. CASE d = "plan"
  <2>1. RootsStay(ReceiptRoots) /\ DocsStay(ReceiptDocs)
    BY <1>2, SourcesStay DEF DocsStay, Has
  <2>2. Archive' = Archive /\ Native("later")' = Native("later")
    BY <2>1, ArchiveStays, NativeStays DEF RootsStay, DocsStay, ReceiptRoots, ManifestRoots,
       WindowRoots, ReportRoots, ReceiptDocs, ManifestDocs, WindowDocs, ReportDocs
  <2> QED
    BY <1>2, <2>2 DEF RanOut
<1> QED
  BY <1>1, <1>2 DEF RanOut

WrittenInv == AreRecords /\ DatedBefore /\ AreFinished /\ WrittenIsVerified

\* Nothing is written yet.
LEMMA WrittenStarts == Init => WrittenInv
<1> SUFFICES ASSUME Init PROVE WrittenInv
  OBVIOUS
<1>1. DOMAIN docs = {} /\ DOMAIN roots = {}
  BY DEF Init
<1> QED
  BY <1>1 DEF WrittenInv, AreRecords, DatedBefore, AreFinished, WrittenIsVerified, Has

\* A document that bears the time of the clock was just written, or was
\* written before at the same time and from the same evidence.
LEMMA WrittenSteps == RetirementInv /\ WrittenInv /\ [Next]_vars => WrittenInv'
<1> SUFFICES ASSUME RetirementInv, WrittenInv, [Next]_vars PROVE WrittenInv'
  OBVIOUS
<1>1. /\ TypeCorrect /\ DocumentsFollow
      /\ AreRecords /\ DatedBefore /\ AreFinished /\ WrittenIsVerified
  BY DEF RetirementInv, WrittenInv
<1>2. AreRecords' /\ DatedBefore' /\ AreFinished'
  BY <1>1, RecordsAreKept, DatesAreKept, FinishedAreKept
<1>3. ASSUME NoneAltered', NEW d \in DOMAIN docs' \cap Verifiable, docs'[d] = now', ~RanOut(d)'
      PROVE  Verifies(d)'
  <2>1. CASE d \notin DOMAIN docs
    BY <1>1, <1>3, <2>1, NewVerifies DEF Wrote, Has
  <2>2. CASE d \in DOMAIN docs
    <3>1. Kept
      BY <1>1, NothingIsTakenBack
    <3>2. now' = now /\ docs[d] = now
      <4>1. docs[d] \in Nat /\ docs[d] <= now /\ docs'[d] = docs[d]
        BY <1>1, <2>2, <3>1 DEF DatedBefore, TypeCorrect, Kept
      <4> QED
        BY <1>3, <3>1, <4>1 DEF Kept
    <3>3. NoneAltered
      <4>1. ASSUME NEW r \in DOMAIN roots PROVE ~roots[r].altered
        <5>1. roots'[r] = roots[r] \/ Finish(r, "finished") \/ Finish(r, "scanned")
          BY <1>1, <1>3, FinishedStays
        <5>2. r \in DOMAIN roots'
          BY <3>1 DEF Kept
        <5>3. ASSUME NEW field \in {"finished", "scanned"}, Finish(r, field)
              PROVE  roots'[r].altered = roots[r].altered
          BY <1>1, <5>3, <4>1 DEF Finish, TypeCorrect, RootFields
        <5> QED
          BY <1>3, <5>1, <5>2, <5>3 DEF NoneAltered
      <4> QED
        BY <4>1 DEF NoneAltered
    <3>4. ~RanOut(d)
      BY <1>1, <1>3, <2>2, <3>2, RunningOutStays
    <3>5. Verifies(d)
      BY <1>1, <1>3, <2>2, <3>2, <3>3, <3>4 DEF WrittenIsVerified, NoneAltered
    <3> QED
      BY <1>1, <1>3, <2>2, <3>2, <3>5, VerifiedStays
  <2> QED
    BY <2>1, <2>2
<1>4. WrittenIsVerified'
  BY <1>3 DEF WrittenIsVerified, NoneAltered
<1> QED
  BY <1>2, <1>4 DEF WrittenInv

\* What a command of the retirement writes, the command that verifies it
\* accepts at the same instant, unless a bundle was altered or the sources ran
\* out between two readings of the clock: neither asks for less than the other.
THEOREM WrittenVerifies == Spec => []WrittenIsVerified
<1>1. WrittenInv => WrittenIsVerified
  BY DEF WrittenInv
<1> QED
  BY <1>1, WrittenStarts, WrittenSteps, RetirementInvariance, PTL DEF Spec
=============================================================================
