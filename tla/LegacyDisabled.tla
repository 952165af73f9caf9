--------------------------- MODULE LegacyDisabled ---------------------------
(***************************************************************************)
(* The window in which the old trader is stopped and watched.  The         *)
(* evidence says how it was stopped, samples every capability it had,      *)
(* audits the broker's orders, the quarantine of its credentials and the   *)
(* health of the new trader meanwhile; raw captures back all of it.  Eight *)
(* gates judge the observation; a report that passes them all may be put   *)
(* before the person who signs the approval to remove what is left.  (The  *)
(* code has a ninth gate, archive_reverified, whose field admits no value  *)
(* but true: the archive is verified again for the observation.)           *)
(***************************************************************************)
EXTENDS RetirementReadiness

StopActions ==
    <<"stop_watchdog", "stop_review", "stop_mt5", "stop_dashboard", "remove_pm2_startup",
      "disable_cron", "disable_nginx_route", "disable_logrotate", "disable_mt5_autostart",
      "quarantine_credentials", "verify_zero_mt5_processes",
      "verify_zero_command_writers", "verify_zero_broker_orders">>

RawKinds == {"stop_output", "capability_snapshot", "broker_export",
             "credential_audit", "native_audit"}
DisabledControls == {"stop", "capability", "broker", "credentials", "stability", "scan"}

DisabledBundleIsSound(b) == IsSound(b, MaxFiles)

IsIndependent(e) == e.by # e.reviewer

\* All actions, in the order of the plan, inside the interval.
StopIsOrderly(e) ==
    /\ IsPositive(e) /\ IsIndependent(e) /\ e.invalidating = {}
    /\ [i \in DOMAIN e.actions |-> e.actions[i].action] = StopActions
    /\ \A i \in 1..Len(e.actions) - 1 : e.actions[i].at <= e.actions[i + 1].at
    /\ e.from <= e.actions[1].at /\ e.actions[Len(e.actions)].at <= e.to

StoppedAt(stop) == (CHOOSE i \in DOMAIN stop.actions : stop.actions[i].action = "stop_mt5")
MT5Stopped(stop) == stop.actions[StoppedAt(stop)].at

\* samples is a function from sampling times to what was seen.
CapabilityAuditIsValid(e) ==
    /\ IsReviewed(e) /\ IsIndependent(e)
    /\ Cardinality(DOMAIN e.samples) >= 2
    /\ \A t \in DOMAIN e.samples : /\ e.from <= t /\ t <= e.to
                                   /\ DOMAIN e.samples[t].active = RequiredCapabilities

\* orders are the creation times of the orders the export holds.
BrokerAuditIsValid(e) ==
    /\ IsPositive(e) /\ e.to <= e.captured /\ e.captured <= e.reviewed
    /\ IsIndependent(e)
    /\ \A t \in e.orders : e.from <= t /\ t <= e.to

QuarantineIsValid(e) == IsReviewed(e) /\ IsIndependent(e) /\ DOMAIN e.checks # {}
StabilityIsValid(e) == IsReviewed(e) /\ IsIndependent(e) /\ e.evidence # {}

DisabledManifestIsExact(m, f) ==
    /\ IsPositive(m) /\ m.to <= m.created
    /\ {f.raw[r].kind : r \in DOMAIN f.raw} = RawKinds
    /\ DOMAIN m.captured = DisabledControls
    /\ \A r \in DOMAIN f.raw : f.raw[r].from <= f.raw[r].to /\ f.raw[r].to <= m.created
    /\ \A c \in DisabledControls : m.captured[c] <= m.created

\* The controls are of this window and were captured after their review.
DisabledLineage(m, f) ==
    /\ \A c \in DisabledControls : f[c].retirement = m.retirement
    /\ f.stability.deployment = m.deployment /\ f.stability.admission = m.admission
    /\ f.stop.to = m.from
    /\ f.capability.from = m.from /\ f.capability.to = m.to
    /\ f.stability.from = m.from /\ f.stability.to = m.to
    /\ m.to <= f.broker.to
    /\ Covers(f.credentials, m)
    /\ f.stop.to <= m.captured.stop
    /\ \A c \in DisabledControls \ {"stop"} : f[c].reviewed <= m.captured[c]

DisabledScanIsProven(m, f) ==
    /\ IsReviewed(f.scan) /\ f.scan.policy = ScanPolicy.id /\ f.scan.findings = {}
    /\ \A r \in DOMAIN f.raw : f.raw[r].to <= f.scan.from
    /\ f.scan.reviewed <= m.created
    /\ f.scan.checks = [r \in DOMAIN f.raw |-> f.raw[r].content]

\* The manifest and the stop name the report, which passed, and its lineage.
ReadinessLineage(m, f, report, archive) ==
    /\ report.awaitingStop
    /\ report.observation.archive.id = archive.id
    /\ m.readiness = report.id /\ f.stop.readiness = report.id
    /\ m.stopApproval = f.stop.approval
    /\ m.archive = archive.id
    /\ m.deployment = report.observation.native.deployment
    /\ m.admission = report.observation.native.admission
    /\ m.retirement = report.observation.retirement
    /\ report.generated <= f.stop.from

StopBindings(report) ==
    [retirement |-> report.observation.retirement, scope |-> "stop_and_observe",
     report |-> report.id, manifest |-> NoManifest]

\* Slip: an approval that is valid when the stop ends covers all of it.
StopIsApprovedAtItsEnd(stop, report, approval) ==
    /\ ApprovalIsVerified(approval, StopBindings(report), stop.to)
    /\ approval = stop.approval

\* The approval covers the stop from its start to its completion.
StopIsApproved(stop, report, approval) ==
    /\ ApprovalIsVerified(approval, StopBindings(report), stop.to)
    /\ approval = stop.approval
    /\ approval.approved <= stop.from

\* The native observation may be newer than the one of the report.
NativeAndArchiveLineage(m, report, native, archive) ==
    /\ native.deployment = m.deployment /\ native.admission = m.admission
    /\ archive.id = m.archive

\* Raw capture r is of this kind and covers interval i.
RequireArtifact(f, r, kind, i) ==
    /\ r \in DOMAIN f.raw
    /\ f.raw[r].kind = kind /\ Covers(f.raw[r], i)
At(t) == [from |-> t, to |-> t]

RawIsReferenced(f) ==
    /\ \A i \in DOMAIN f.stop.actions : LET a == f.stop.actions[i] IN
          RequireArtifact(f, a.evidence, "stop_output", At(a.at))
    /\ \A t \in DOMAIN f.capability.samples :
          RequireArtifact(f, f.capability.samples[t].evidence, "capability_snapshot", At(t))
    /\ RequireArtifact(f, f.broker.evidence, "broker_export", f.broker)
    /\ \A c \in DOMAIN f.credentials.checks : RequireArtifact(
          f, f.credentials.checks[c].evidence, "credential_audit", f.credentials)
    /\ \A r \in f.stability.evidence : RequireArtifact(f, r, "native_audit", f.stability)
    /\ DOMAIN f.raw = {f.stop.actions[i].evidence : i \in DOMAIN f.stop.actions}
                      \union {f.capability.samples[t].evidence :
                                t \in DOMAIN f.capability.samples}
                      \union {f.broker.evidence} \union f.stability.evidence
                      \union {f.credentials.checks[c].evidence :
                                c \in DOMAIN f.credentials.checks}

CapabilityGap(e) == LongestGap({e.from, e.to} \union DOMAIN e.samples)
\* The most instances of a capability that any sample saw, and whether one
\* of them saw it enabled.
MostActive(e, c) == Max({e.samples[t].active[c] : t \in DOMAIN e.samples})
EverEnabled(e) == UNION {e.samples[t].enabled : t \in DOMAIN e.samples}

\* Slip: an export that begins with the window is complete.
BrokerAuditCoversTheWindow(f, m, final) ==
    /\ f.broker.complete /\ m.to <= f.broker.to
    /\ f.broker.account = final.account

\* The orders from the moment MT5 was stopped to the end of the window.
BrokerAuditIsComplete(f, m, final) ==
    /\ f.broker.complete
    /\ f.broker.from <= MT5Stopped(f.stop) /\ m.to <= f.broker.to
    /\ f.broker.account = final.account
OrdersAfterStop(f) == {t \in f.broker.orders : t >= MT5Stopped(f.stop)}

CredentialsAreQuarantined(f, m) ==
    /\ Covers(f.credentials, m)
    /\ f.credentials.inventoryComplete /\ f.credentials.continuous
    /\ \A c \in DOMAIN f.credentials.checks :
          f.credentials.checks[c].quarantined /\ f.credentials.checks[c].readers = 0

DisabledObservation(b, report, native, archive, assembled) ==
    LET f == b.files  m == b.manifest IN
    [id |-> <<"disabled", b.sha, native.id, archive.id, assembled>>, bundle |-> b.sha,
     report |-> report.id, native |-> native.id, archive |-> archive.id,
     approval |-> f.stop.approval, assembled |-> assembled, from |-> m.from, to |-> m.to,
     retirement |-> m.retirement,
     gap |-> CapabilityGap(f.capability),
     invalidating |-> f.capability.invalidating,
     enabled |-> EverEnabled(f.capability),
     active |-> [c \in RequiredCapabilities |-> MostActive(f.capability, c)],
     brokerComplete |-> BrokerAuditIsComplete(f, m, report.observation.legacy),
     ordersAfterStop |-> OrdersAfterStop(f),
     nativeContinuous |-> f.stability.continuous,
     nativeEvents |-> f.stability.critical + f.stability.reconciliationFailures
                      + f.stability.breaches,
     quarantined |-> CredentialsAreQuarantined(f, m)]

\* now is the clock of the native and archive verification, which a replay
\* of an old observation reads anew; the rest is judged at assembled.
DisabledIsAssembled(b, nativeRoot, archiveRoot, report, native, archive, approval, assembled, now) ==
    LET f == b.files  m == b.manifest IN
    /\ DisabledManifestIsExact(m, f)
    /\ m.created <= assembled /\ m.to <= assembled
    /\ Policy.frozen <= m.from
    /\ DisabledBundleIsSound(b)
    /\ StopIsOrderly(f.stop) /\ CapabilityAuditIsValid(f.capability)
    /\ BrokerAuditIsValid(f.broker) /\ QuarantineIsValid(f.credentials)
    /\ StabilityIsValid(f.stability)
    /\ DisabledLineage(m, f)
    /\ ReadinessLineage(m, f, report, archive)
    /\ StopIsApproved(f.stop, report, approval)
    /\ NativeIsVerified(nativeRoot, native, now)
    /\ ArchiveIsVerified(archiveRoot, archive, now)
    /\ NativeAndArchiveLineage(m, report, native, archive)
    /\ RawIsReferenced(f)
    /\ DisabledScanIsProven(m, f)

DisabledIsVerified(b, nativeRoot, archiveRoot, o, report, native, archive, approval, now) ==
    /\ o.assembled <= now
    /\ DisabledIsAssembled(b, nativeRoot, archiveRoot, report, native, archive,
                           approval, o.assembled, now)
    /\ DisabledObservation(b, report, native, archive, o.assembled) = o

-----------------------------------------------------------------------------
DisabledGates(o) ==
    [policy_frozen             |-> Policy.frozen <= o.from,
     observation_window        |-> o.to - o.from >= Policy.minDisabled,
     evidence_continuity       |-> o.gap <= Policy.maxDisabledGap,
     all_capabilities_disabled |-> o.enabled = {} /\ o.invalidating = {},
     zero_active_instances     |-> \A c \in Policy.capabilities : o.active[c] = 0,
     no_legacy_orders          |-> o.brokerComplete /\ o.ordersAfterStop = {},
     native_stable             |-> o.nativeContinuous /\ o.nativeEvents = 0,
     credentials_quarantined   |-> o.quarantined]

DisabledReport(o, generated) ==
    [id |-> <<"disabled report", o.id, generated>>,
     observation |-> o, generated |-> generated,
     awaitingCleanup |-> Range(DisabledGates(o)) = {TRUE}]
=============================================================================
