--------------------------- MODULE LegacyArchive ---------------------------
(***************************************************************************)
(* The final archive of the old trader, and the final state read out of    *)
(* it.  An archive bundle holds one archive per category, the evidence of  *)
(* a restore, of a credential scan and of the final tag; three categories  *)
(* contain the facts the final state is derived from: the MT5 report, the  *)
(* broker's account state and the service configuration.                   *)
(***************************************************************************)
EXTENDS EvidenceBundle, FiniteSetsExt

RequiredArtifacts ==
    {"final_trade_report", "broker_account_state", "deployed_release",
     "runtime_configuration", "common_files", "deal_order_history",
     "strategy_research", "service_configuration", "operational_logs",
     "restore_test", "operator_timeline"}
RequiredControls == {"restore", "credentialScan", "finalTag"}
RequiredDetectors ==
    {"api_token", "password", "private_key", "seed_phrase", "session_credential"}
WriterSurfaces == {"process_table", "pm2", "cron", "systemd", "command_file_handles"}

ArchiveBundleIsSound(b) == IsSound(b, MaxFiles)

\* m.captured gives the capture time of every artifact and control.
ArchiveManifestIsExact(m, b) ==
    /\ DOMAIN b.bound = RequiredArtifacts \union RequiredControls
    /\ DOMAIN m.captured = DOMAIN b.bound
    /\ \A k \in DOMAIN m.captured : m.captured[k] <= m.created
    /\ m.created < m.retention
    /\ m.tag = m.commit

LastCapture(m) == Max({m.captured[k] : k \in RequiredArtifacts})

\* Work on the finished artifacts, reviewed before the manifest is written.
FollowsTheCaptures(e, m, control) ==
    /\ IsReviewed(e)
    /\ LastCapture(m) <= e.from /\ e.reviewed <= m.created
    /\ e.reviewed <= m.captured[control]

\* restore.checks gives, per category, what was read and what was restored.
RestoreIsProven(f, m) ==
    LET e == f.restore IN
    /\ FollowsTheCaptures(e, m, "restore")
    /\ e.retirement = m.retirement /\ e.invalidating = {}
    /\ DOMAIN e.checks = RequiredArtifacts
    /\ \A k \in RequiredArtifacts :
          e.checks[k].source = f[k] /\ e.checks[k].restored = e.checks[k].source

ScanPolicyIsBound == /\ Policy.scan = ScanPolicy.id
                     /\ ScanPolicy.detectors = RequiredDetectors

ScanIsProven(f, m) ==
    LET e == f.credentialScan IN
    /\ FollowsTheCaptures(e, m, "credentialScan")
    /\ e.retirement = m.retirement /\ e.policy = ScanPolicy.id
    /\ DOMAIN e.checks = RequiredArtifacts
    /\ \A k \in RequiredArtifacts : e.checks[k] = f[k]
    /\ e.findings = {}

TagIsProven(f, m) ==
    LET e == f.finalTag IN
    /\ e.retirement = m.retirement
    /\ e.commit = m.commit /\ e.tag = m.tag /\ e.tag = e.commit
    /\ e.object # e.tag
    /\ e.captured <= m.created /\ e.captured <= m.captured.finalTag

ArchiveManifest(b, assembled) ==
    [id |-> <<"archive", b.sha, assembled>>, bundle |-> b.sha, retirement |-> b.manifest.retirement, created |-> b.manifest.created,
     assembled |-> assembled, retention |-> b.manifest.retention,
     commit |-> b.manifest.commit, tag |-> b.manifest.tag,
     artifacts |-> [k \in RequiredArtifacts |-> b.files[k]]]

ArchiveIsAssembled(b, assembled) ==
    LET f == b.files  m == b.manifest IN
    /\ ArchiveManifestIsExact(m, b)
    /\ m.created <= assembled
    /\ ScanPolicyIsBound
    /\ m.retention >= assembled + Policy.minRetention
    /\ ArchiveBundleIsSound(b)
    /\ RestoreIsProven(f, m) /\ ScanIsProven(f, m) /\ TagIsProven(f, m)

ArchiveIsVerified(b, a, now) ==
    /\ a.assembled <= now
    /\ a.retention >= now + Policy.minRetention
    /\ ArchiveIsAssembled(b, a.assembled)
    /\ ArchiveManifest(b, a.assembled) = a

-----------------------------------------------------------------------------
(* The final state.  A fact is a member of its category's archive; its     *)
(* sources (the report, the export, the status, the writer checks, the     *)
(* pause file) are members too and have the hashes the fact names.         *)

\* Members are unique, regular, of safe names and of bounded size.
TarIsSafe(artifact) == artifact.odd = {}

MembersMatch(artifact) == /\ TarIsSafe(artifact)
                          /\ artifact.members = artifact.fact.sources

ReportIsValid(r) == /\ r.by # r.reviewer
                    /\ Cardinality(DOMAIN r.managed) <= r.openPositions
BrokerStateIsValid(s) == s.by # s.reviewer
ServiceIsValid(s) == /\ s.by # s.reviewer
                     /\ s.pauseFile <=> "entry_pause" \in DOMAIN s.sources
                     /\ DOMAIN s.writers = WriterSurfaces

\* Slip: the age of the captures is left to the verification.
CapturesAgreeAtAnyAge(f, m, assembled) ==
    LET report == f.final_trade_report.fact
        broker == f.broker_account_state.fact
        service == f.service_configuration.fact
        captures == {report.captured, broker.captured, service.captured}
    IN  /\ {report.retirement, broker.retirement, service.retirement} = {m.retirement}
        /\ report.account = broker.account
        /\ Max(captures) <= assembled
        /\ Max(captures) <= Min(captures) + Policy.maxCaptureSkew

\* The three captures are of one account, close together and recent.
CapturesAgree(f, m, assembled) ==
    LET report == f.final_trade_report.fact
        broker == f.broker_account_state.fact
        service == f.service_configuration.fact
        captures == {report.captured, broker.captured, service.captured}
    IN  /\ {report.retirement, broker.retirement, service.retirement} = {m.retirement}
        /\ report.account = broker.account
        /\ report.captured = m.captured.final_trade_report
        /\ broker.captured = m.captured.broker_account_state
        /\ service.captured = m.captured.service_configuration
        /\ Max(captures) <= assembled
        /\ Max(captures) <= Min(captures) + Policy.maxCaptureSkew
        /\ assembled <= Max(captures) + Policy.maxFinalAge

\* managed and positions give the instrument of every open position.
AccountsAgree(report, broker, service) ==
    /\ report.openPositions = Cardinality(DOMAIN broker.positions)
    /\ DOMAIN report.managed \subseteq DOMAIN broker.positions
    /\ \A p \in DOMAIN report.managed : broker.positions[p] = report.managed[p]
    /\ report.paused = service.paused
    /\ report.status = service.status

FinalState(b, archive, assembled) ==
    LET report == b.files.final_trade_report.fact
        broker == b.files.broker_account_state.fact
        service == b.files.service_configuration.fact
    IN  [id |-> <<"final", archive.id, assembled>>,
         archive |-> archive.id, retirement |-> archive.retirement,
         captured |-> Max({report.captured, broker.captured, service.captured}),
         assembled |-> assembled, mode |-> broker.mode, account |-> broker.account,
         managed |-> Cardinality(DOMAIN report.managed),
         unmanaged |-> Cardinality(DOMAIN broker.positions \ DOMAIN report.managed),
         orders |-> Cardinality(broker.orders),
         paused |-> report.paused /\ service.pauseFile,
         writers |-> Cardinality(UNION {service.writers[s] : s \in WriterSurfaces}),
         facts |-> <<b.files.final_trade_report, b.files.broker_account_state,
                     b.files.service_configuration>>]

\* now is the clock of the archive's verification; a replay keeps assembled.
FinalStateIsAssembled(b, archive, assembled, now) ==
    LET f == b.files IN
    /\ ArchiveIsVerified(b, archive, now)
    /\ archive.assembled <= assembled
    /\ \A k \in {"final_trade_report", "broker_account_state", "service_configuration"} :
          MembersMatch(f[k])
    /\ ReportIsValid(f.final_trade_report.fact)
    /\ BrokerStateIsValid(f.broker_account_state.fact)
    /\ ServiceIsValid(f.service_configuration.fact)
    /\ CapturesAgree(f, b.manifest, assembled)
    /\ AccountsAgree(f.final_trade_report.fact, f.broker_account_state.fact,
                     f.service_configuration.fact)

FinalStateIsVerified(b, archive, s, now) ==
    /\ s.assembled <= now
    /\ now <= s.captured + Policy.maxFinalAge
    /\ FinalStateIsAssembled(b, archive, s.assembled, now)
    /\ FinalState(b, archive, s.assembled) = s
=============================================================================
