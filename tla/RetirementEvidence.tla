------------------------- MODULE RetirementEvidence -------------------------
(***************************************************************************)
(* What honest people put into the evidence bundles: each operator writes  *)
(* a bundle from the few facts that were true when it was captured.  The   *)
(* retirement code never writes these bundles, it only reads them.  A      *)
(* bundle that was altered after its capture holds one document that       *)
(* differs from the one its manifest binds.                                *)
(***************************************************************************)
EXTENDS CleanupOutcome

CONSTANTS Inventory,       \* targets: scope, kind, locator, action, destination
          FirstExpiry,     \* expiry of the admission's authorization
          RenewedExpiry,   \* expiry of the renewed one
          RetentionUntil   \* how long the archive is kept

Targets == DOMAIN Inventory
Other == [other |-> TRUE]

Bundle(files, manifest, sha, altered, document) ==
    [files |-> files, manifest |-> manifest, sha |-> sha, odd |-> {},
     bound |-> IF altered THEN [files EXCEPT ![document] = Other] ELSE files]

-----------------------------------------------------------------------------
(* Production evidence of the interval n.from..n.to; n.renewals is 0 or 1, *)
(* n.outages are the times at which the live pipeline failed.              *)

Artifacts == [stage |-> "production", created |-> 0, fields |-> "fields",
              content |-> [k \in ReleaseKinds |-> k]]
Approval == [id |-> "approval", identity |-> "release", stage |-> "production", approved |-> 0,
             expires |-> FirstExpiry, artifacts |-> Artifacts, fields |-> "fields"]
Signature(payload) == [key |-> PinnedKey, payload |-> payload]
Admission == <<Approval, Artifacts, PinnedKey, Signature(Approval)>>
Renewal(at) == [id |-> "renewal", prior |-> Admission, approved |-> at, expires |-> RenewedExpiry,
                identity |-> "release", initial |-> "approval", admission |-> Admission,
                artifacts |-> Artifacts]
Renewed(renewal) == <<renewal, PinnedKey, Signature(renewal)>>

Pulse(at) == [at |-> at, kind |-> "deadman_schedule", success |-> TRUE, reasons |-> {}]
Reconciled(at) == [at |-> at, kind |-> "reconciliation", success |-> TRUE, reasons |-> {}]
Outage(at) == [at |-> at, kind |-> "live_pipeline_fault", success |-> FALSE, reasons |-> {}]

NativeBundle(n, renewal, admission) ==
    LET renewed == n.renewals = 1
        history == IF renewed THEN {[renewal |-> renewal, verified |-> n.renewed,
                                     authorization |-> Renewed(renewal), key |-> PinnedKey]}
                              ELSE {}
        ids == IF renewed THEN {renewal.id} ELSE {}
        outages == SetToSortSeq({t \in n.outages : n.from <= t /\ t <= n.to}, <)
        span == [from |-> n.from, to |-> n.to]
        record == [state |-> "active", stage |-> "production", deployment |-> "native",
                   admission |-> admission, identity |-> "release", approval |-> "approval",
                   artifacts |-> Artifacts, admitted |-> 0, renewals |-> n.renewals,
                   authorization |-> IF renewed THEN Renewed(renewal) ELSE admission,
                   expires |-> IF renewed THEN RenewedExpiry ELSE FirstExpiry, key |-> PinnedKey]
        Drill(d) == [drill |-> d, from |-> n.from, to |-> n.to, evidence |-> {"execution"},
                     checks |-> [c \in DrillChecks[d] |-> TRUE], invalidating |-> {}]
        files == [approval |-> Approval, artifacts |-> Artifacts, key |-> PinnedKey,
                  signature |-> Signature(Approval), release |-> Artifacts.content,
                  ledger |-> [intact |-> TRUE, schema |-> 2, history |-> history,
                              record |-> record],
                  renewals |-> [r \in ids |-> renewal],
                  renewalSignatures |-> [r \in ids |-> Signature(renewal)],
                  drills |-> [d \in RequiredDrills |-> Drill(d)],
                  register |-> [from |-> n.from, to |-> n.to, reviewed |-> n.to,
                                deployment |-> "native", admission |-> admission,
                                incidents |-> {}],
                  execution |-> <<Reconciled(n.from)>>
                                \o [i \in DOMAIN outages |-> Outage(outages[i])],
                  sentinel |-> [i \in 1..n.to - n.from + 1 |-> Pulse(n.from + i - 1)]]
    IN  Bundle(files, [from |-> n.from, to |-> n.to, created |-> n.to, deployment |-> "native",
                       admission |-> admission,
                       captured |-> [d \in {"execution", "sentinel", "register"} |-> span]],
               [n EXCEPT !.altered = FALSE], n.altered, "register")
NativeRoot(n) == NativeBundle(n, Renewal(n.renewed), Admission)

-----------------------------------------------------------------------------
(* The archive, captured at a.captured from an old trader that was paused  *)
(* and flat or not, and finished at a.finished.                            *)

ArchiveRoot(a) ==
    LET held == IF a.flat THEN {} ELSE {"position"}
        sources == IF a.paused THEN [status |-> "status", entry_pause |-> "pause"]
                               ELSE [status |-> "status"]
        common == [retirement |-> "mt5", captured |-> a.captured, by |-> "collector",
                   reviewer |-> "reviewer", sources |-> sources]
        report == [account |-> "demo-1", openPositions |-> Cardinality(held),
                   managed |-> [p \in held |-> "gold"], paused |-> a.paused, status |-> "status"]
        broker == [account |-> "demo-1", mode |-> "demo", positions |-> [p \in held |-> "gold"],
                   orders |-> {}]
        service == [paused |-> a.paused, status |-> "status", pauseFile |-> a.paused,
                    writers |-> [s \in WriterSurfaces |-> IF a.paused THEN {} ELSE {"ea"}]]
        Tar(fact) == [odd |-> {}, members |-> sources, fact |-> fact]
        artifact == [k \in RequiredArtifacts |->
                        CASE k = "final_trade_report" -> Tar(Joined(common, report))
                          [] k = "broker_account_state" -> Tar(Joined(common, broker))
                          [] k = "service_configuration" -> Tar(Joined(common, service))
                          [] OTHER -> [odd |-> {}, members |-> k, fact |-> k]]
        work == [retirement |-> "mt5", from |-> a.captured, to |-> a.finished,
                 reviewed |-> a.finished]
        control ==
          [restore |-> Joined(work, [invalidating |-> {},
                checks |-> [k \in RequiredArtifacts |->
                              [source |-> artifact[k], restored |-> artifact[k]]]]),
           credentialScan |-> Joined(work, [policy |-> ScanPolicy.id, findings |-> {},
                checks |-> [k \in RequiredArtifacts |-> artifact[k]]]),
           finalTag |-> [retirement |-> "mt5", commit |-> "c0", tag |-> "c0", object |-> "t0",
                         captured |-> a.finished]]
    IN  Bundle(Joined(artifact, control),
               [retirement |-> "mt5", created |-> a.finished, retention |-> RetentionUntil,
                commit |-> "c0", tag |-> "c0",
                captured |-> [k \in RequiredArtifacts \union RequiredControls |->
                                IF k \in RequiredArtifacts THEN a.captured ELSE a.finished]],
               [a EXCEPT !.altered = FALSE], a.altered, "operator_timeline")

-----------------------------------------------------------------------------
(* The disabled window d.stopped..d.to.  d.samples are the sampling times, *)
(* d.active those at which a process of the old trader was seen, d.query   *)
(* the start of the broker's export and d.orders what it holds.            *)

DisabledWindow(d) == [retirement |-> "mt5", by |-> "collector", reviewer |-> "reviewer",
                      from |-> d.stopped, to |-> d.to, reviewed |-> d.to]

StopEvidence(d, report, approval) ==
    LET At0(i) == IF i <= 3 THEN d.stopping ELSE d.stopped IN
    Joined([DisabledWindow(d) EXCEPT !.from = d.stopping, !.to = d.stopped],
           [readiness |-> report.id, approval |-> approval, invalidating |-> {},
            actions |-> [i \in DOMAIN StopActions |->
               [action |-> StopActions[i], at |-> At0(i), evidence |-> "stops"]]])

BrokerEvidence(d) ==
    Joined([DisabledWindow(d) EXCEPT !.from = d.query],
           [captured |-> d.to, account |-> "demo-1", complete |-> TRUE,
            orders |-> d.orders, evidence |-> "orders"])

StabilityEvidence(d) ==
    Joined(DisabledWindow(d),
           [deployment |-> "native", admission |-> Admission, continuous |-> TRUE,
            evidence |-> {"health"}, critical |-> Cardinality(d.outages),
            reconciliationFailures |-> 0, breaches |-> 0])

DisabledRoot(d, report, approval, archive) ==
    LET seen == {t \in d.samples : t \in d.active}
        Raw(kind, from, to) == [kind |-> kind, from |-> from, to |-> to, content |-> kind]
        Sample(t) == [active |-> [c \in RequiredCapabilities |->
                                    IF c = "wine_mt5_process" /\ t \in seen THEN 1 ELSE 0],
                      enabled |-> {}, evidence |-> "capabilities"]
        raw == [stops |-> Raw("stop_output", d.stopping, d.stopped),
                capabilities |-> Raw("capability_snapshot", d.stopped, d.to),
                orders |-> Raw("broker_export", d.query, d.to),
                credentials |-> Raw("credential_audit", d.stopped, d.to),
                health |-> Raw("native_audit", d.stopped, d.to)]
        files ==
          [raw |-> raw, stop |-> StopEvidence(d, report, approval),
           capability |-> Joined(DisabledWindow(d),
                      [samples |-> [t \in d.samples |-> Sample(t)], invalidating |-> {}]),
           broker |-> BrokerEvidence(d),
           credentials |-> Joined(DisabledWindow(d),
                      [inventoryComplete |-> TRUE, continuous |-> TRUE,
                       checks |-> [c \in {"key"} |-> [quarantined |-> TRUE, readers |-> 0,
                                                      evidence |-> "credentials"]]]),
           stability |-> StabilityEvidence(d),
           scan |-> Joined([DisabledWindow(d) EXCEPT !.from = d.to, !.to = d.scanned,
                                                     !.reviewed = d.scanned],
                      [policy |-> ScanPolicy.id, findings |-> {},
                       checks |-> [r \in DOMAIN raw |-> raw[r].content]])]
    IN  Bundle(files, [retirement |-> "mt5", from |-> d.stopped, to |-> d.to,
                       created |-> d.scanned, readiness |-> report.id, stopApproval |-> approval,
                       archive |-> archive.id, deployment |-> "native", admission |-> Admission,
                       captured |-> [c \in DisabledControls |-> d.scanned]],
               <<[d EXCEPT !.altered = FALSE], report.id>>, d.altered, "stability")

-----------------------------------------------------------------------------
(* A cleanup bundle: the states e.states of the targets at e.captured.     *)

CleanupRoot(e, report, archive) ==
    LET Proof(t) == LET k == Inventory[t].kind IN
            IF k \in PathKinds THEN <<e.states[t]>>
            ELSE <<[part |-> 1, state |-> e.states[t]], [part |-> 2, state |-> e.states[t]]>>
        State(t) == [kind |-> Inventory[t].kind, locator |-> Inventory[t].locator,
                     captured |-> e.captured, proof |-> Proof(t), provider |-> "provider",
                     artifacts |-> [i \in DOMAIN (IF Len(Proof(t)) = 1 THEN <<1>> ELSE <<1, 2>>)
                                      |-> <<t, i>>]]
        evidence == [t \in Targets |->
            [retirement |-> "mt5", by |-> "collector", reviewer |-> "reviewer",
             invalidating |-> {}, action |-> Inventory[t].action,
             destination |-> Inventory[t].destination, state |-> State(t)]]
        m0 == [commit |-> "c0"]
        raw == [r \in {<<s, 0>> : s \in Scopes} \union
                      UNION {Range(State(t).artifacts) : t \in Targets} |->
                   IF r[2] = 0 THEN [scope |-> r[1]]
                   ELSE IF Inventory[r[1]].kind \in PathKinds
                   THEN PathInventory(State(r[1]), m0) ELSE Proof(r[1])[r[2]]]
        audit == [retirement |-> "mt5", by |-> "collector", reviewer |-> "reviewer",
                  invalidating |-> {}, commit |-> "c0", observed |-> e.captured,
                  reviewed |-> e.captured, evidence |-> [s \in Scopes |-> {<<s, 0>>}],
                  targets |-> [s \in Scopes |-> {t \in Targets : Inventory[t].scope = s}]]
        files == [raw |-> raw, targets |-> evidence, audit |-> audit,
                  scan |-> [retirement |-> "mt5", policy |-> ScanPolicy.id, findings |-> {},
                            from |-> e.captured, to |-> e.scanned, reviewed |-> e.scanned,
                            checks |-> <<raw, evidence, audit>>]]
    IN  Bundle(files, [retirement |-> "mt5", created |-> e.scanned, controls |-> e.scanned,
                       commit |-> "c0", archive |-> archive.id, report |-> report.id,
                       captured |-> [r \in DOMAIN raw |-> e.captured]],
               <<[e EXCEPT !.altered = FALSE], report.id>>, e.altered, "audit")

-----------------------------------------------------------------------------
(* An outcome bundle: o.done gives when each finished action was done.     *)

OutcomeRoot(o, approvedFiles, r, p, c, report, archive) ==
    LET finished == DOMAIN o.done
        Step(t) == CHOOSE s \in Range(PlanSteps(p)) : s.target.id = t
        Commit(t) == IF Inventory[t].kind = "repository_path" THEN "c1" ELSE "none"
        Gone(t, commit) == [shows |-> "absent", kind |-> Inventory[t].kind,
                            locator |-> Inventory[t].locator, commit |-> commit,
                            captured |-> o.captured]
        Proof(t) ==
            CASE OutcomeOf(Step(t).target) \in {"removed_path", "archive_only"} ->
                     <<Gone(t, Commit(t))>>
              [] OutcomeOf(Step(t).target) = "removed_host" ->
                     [i \in 1..2 |-> Joined(Gone(t, "none"), [source |-> i])]
              [] OutcomeOf(Step(t).target) = "native_migration" ->
                     <<Gone(t, Commit(t)),
                       [shows |-> "inventory", kind |-> Inventory[t].kind,
                        locator |-> Inventory[t].destination, commit |-> Commit(t),
                        content |-> "kept", captured |-> o.captured]>>
              [] OTHER -> [i \in 1..2 |-> [shows |-> "revoked", part |-> i]]
        Result(t) == [result |-> OutcomeOf(Step(t).target), kind |-> Inventory[t].kind,
                      locator |-> Inventory[t].locator, destination |-> Inventory[t].destination,
                      commit |-> Commit(t), inventory |-> "kept", archive |-> archive.id,
                      provider |-> approvedFiles.targets[t].state.provider, proof |-> Proof(t),
                      artifacts |-> [i \in DOMAIN Proof(t) |-> <<t, i>>]]
        outcomes == [t \in finished |->
            [retirement |-> "mt5", by |-> "collector", reviewer |-> "reviewer",
             invalidating |-> {}, step |-> Step(t), started |-> o.done[t],
             completed |-> o.done[t], captured |-> o.captured, result |-> Result(t)]]
        raw == [a \in UNION {Range(outcomes[t].result.artifacts) : t \in finished} |->
                   Proof(a[1])[a[2]]]
        files == [raw |-> raw, outcomes |-> outcomes,
                  scan |-> [retirement |-> "mt5", policy |-> ScanPolicy.id, findings |-> {},
                            from |-> o.captured, to |-> o.scanned, reviewed |-> o.scanned,
                            checks |-> <<raw, outcomes>>]]
    IN  Bundle(files, [retirement |-> "mt5", created |-> o.scanned, controls |-> o.scanned,
                       commit |-> "c0", archive |-> archive.id, report |-> report.id,
                       manifest |-> c.id, receipt |-> r.id, plan |-> p.id,
                       captured |-> [a \in DOMAIN raw |-> o.captured]],
               <<[o EXCEPT !.altered = FALSE], p.id>>, o.altered, "scan")
=============================================================================
