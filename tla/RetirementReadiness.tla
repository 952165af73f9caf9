------------------------ MODULE RetirementReadiness ------------------------
(***************************************************************************)
(* From evidence to the first approval: the readiness observation binds    *)
(* the native observation, the archive and the final state; thirteen gates *)
(* judge it; a report that passes them all may be put before the person    *)
(* who signs the approval to stop the old trader.  The same verification   *)
(* of signed approvals is used again before cleanup.  (The code has a      *)
(* fourteenth gate, archive_restore, whose field admits no value but true; *)
(* the restored copies are compared where the archive is verified.)        *)
(***************************************************************************)
EXTENDS ProductionEvidence, LegacyArchive

CONSTANT ApprovalLifetime    \* the longest validity of an approval

ASSUME ApprovalAssumption == ApprovalLifetime \in Nat

RequiredCapabilities ==
    {"pm2_mt5", "pm2_watchdog", "pm2_review", "pm2_dashboard", "cron", "nginx_route",
     "logrotate", "mt5_autostart", "wine_mt5_process", "command_file_writer"}

PolicyIsComplete == /\ Policy.artifacts = RequiredArtifacts
                    /\ Policy.capabilities = RequiredCapabilities
                    /\ Policy.drills = RequiredDrills

\* Both evidence roots are verified again, each at the clock it reads.
ReadinessSourcesVerify(nativeRoot, archiveRoot, native, archive, final, now) ==
    /\ NativeIsVerified(nativeRoot, native, now)
    /\ FinalStateIsVerified(archiveRoot, archive, final, now)

SourcesAreCurrent(native, final, checked) ==
    /\ checked < native.expires
    /\ final.captured <= checked /\ checked <= final.captured + Policy.maxFinalAge

ReadinessObservation(native, archive, final, observed) ==
    [id |-> <<"readiness", native.id, archive.id, final.id, observed>>,
     retirement |-> archive.retirement, observed |-> observed,
     native |-> native, archive |-> archive, legacy |-> final]

ReadinessBinds(o) ==
    /\ o.native.to <= o.observed /\ o.observed < o.native.expires
    /\ o.archive.created <= o.observed /\ o.archive.assembled <= o.observed
    /\ o.legacy.captured <= o.observed /\ o.legacy.assembled <= o.observed
    /\ o.legacy.retirement = o.retirement
    /\ o.legacy.archive = o.archive.id
    /\ o.legacy.facts = <<o.archive.artifacts.final_trade_report,
                          o.archive.artifacts.broker_account_state,
                          o.archive.artifacts.service_configuration>>

\* observed is a second reading of the clock, after the verification at now.
ReadinessIsAssembled(nativeRoot, archiveRoot, native, archive, final, now, observed) ==
    /\ ReadinessSourcesVerify(nativeRoot, archiveRoot, native, archive, final, now)
    /\ SourcesAreCurrent(native, final, observed)
    /\ ReadinessBinds(ReadinessObservation(native, archive, final, observed))

ReadinessIsVerified(nativeRoot, archiveRoot, o, now) ==
    /\ ReadinessSourcesVerify(nativeRoot, archiveRoot, o.native, o.archive, o.legacy, now)
    /\ o.observed <= now
    /\ SourcesAreCurrent(o.native, o.legacy, now)
    /\ ReadinessBinds(o)

-----------------------------------------------------------------------------
ReadinessGates(o) ==
    [policy_frozen          |-> Policy.frozen <= o.native.from,
     native_observation     |-> /\ o.native.to - o.native.from >= Policy.minNative
                                /\ o.native.gap <= Policy.maxNativeGap,
     native_clean           |-> /\ o.native.critical = 0 /\ o.native.breaches = 0
                                /\ o.native.reconciliationFailures = 0,
     native_drills          |-> o.native.drills = Policy.drills,
     archive_inventory      |-> /\ DOMAIN o.archive.artifacts = Policy.artifacts
                                /\ Policy.artifacts = RequiredArtifacts,
     archive_retention      |-> o.archive.retention >= o.observed + Policy.minRetention,
     archive_no_credentials |-> ScanPolicy.id = Policy.scan,
     final_tag              |-> o.archive.tag = o.archive.commit,
     final_state_freshness  |-> /\ o.legacy.captured <= o.observed
                                /\ o.observed <= o.legacy.captured + Policy.maxFinalAge,
     demo_account           |-> o.legacy.mode = "demo",
     entry_pause            |-> o.legacy.paused,
     flat_account           |-> /\ o.legacy.managed = 0 /\ o.legacy.unmanaged = 0
                                /\ o.legacy.orders = 0,
     no_command_writers     |-> o.legacy.writers = 0]

ReadinessReport(o, generated) ==
    [id |-> <<"readiness report", o.id, generated>>,
     observation |-> o, generated |-> generated, gates |-> ReadinessGates(o),
     awaitingStop |-> Range(ReadinessGates(o)) = {TRUE}]

-----------------------------------------------------------------------------
(* Signed approvals.                                                       *)

\* A stop approval binds no cleanup manifest, a cleanup approval binds one.
NoManifest == [none |-> TRUE]
ApprovalIsWellFormed(a) ==
    /\ a.approved < a.expires /\ a.expires <= a.approved + ApprovalLifetime
    /\ a.scope = "stop_and_observe" => a.manifest = NoManifest
    /\ a.scope = "remove_and_clean" => a.manifest # NoManifest

ApprovalIsActive(a, at) == a.approved <= at /\ at < a.expires

\* expected has the fields an approval must bind to count for this action.
Bindings(a) == [f \in DOMAIN a \ {"approved", "expires", "key"} |-> a[f]]

ApprovalIsVerified(a, expected, at) ==
    /\ ApprovalIsWellFormed(a)
    /\ a.key = RetirementKey
    /\ ApprovalIsActive(a, at)
    /\ Bindings(a) = expected
=============================================================================
