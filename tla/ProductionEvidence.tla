------------------------- MODULE ProductionEvidence -------------------------
(***************************************************************************)
(* The evidence that the new trader runs production: a retained copy of    *)
(* the admission ledger with the signed chain of authorizations, the       *)
(* operational audits of the trader and of the sentinel, four drills and   *)
(* the incident register.  NativeObservation is the document the collector *)
(* derives from a bundle; NativeIsAssembled says when it may.              *)
(***************************************************************************)
EXTENDS EvidenceBundle, Sequences, FiniteSetsExt

CONSTANTS ReleaseKinds,  \* kinds of release artifacts a deployment is made of
          BreachReasons  \* risk reasons that count as a breach

DrillChecks ==
    [native_rollback |-> {"orders_canceled", "authorization_denied",
                          "state_reconciled", "no_duplicate_orders"},
     backup_restore  |-> {"backup_verified", "isolated_restore_completed",
                          "restored_hashes_match"},
     alert_delivery  |-> {"critical_route_delivered",
                          "operator_acknowledged_within_slo"},
     operator_access |-> {"break_glass_authenticated", "least_privilege_verified",
                          "audit_event_retained"}]
RequiredDrills == DOMAIN DrillChecks

\* The documents of a native bundle that support a report instead of being one.
ReferencesAreBound(paths, b) ==
    /\ paths # {}
    /\ paths \subseteq DOMAIN b.bound \ {"drills", "register"}

ManifestIsComplete(m, b) ==
    /\ IsPositive(m) /\ m.to <= m.created
    /\ DOMAIN b.bound.release = ReleaseKinds
    /\ DOMAIN b.bound.drills = RequiredDrills
    /\ DOMAIN b.bound.renewals = DOMAIN b.bound.renewalSignatures
    /\ \A d \in {"execution", "sentinel", "register"} : Covers(m.captured[d], m)

ProductionBundleIsSound(b) == IsSound(b, MaxFiles)

-----------------------------------------------------------------------------
(* The authority chain: admission, then renewals, each within the last.    *)

\* A detached signature of a payload by the pinned key.
IsSigned(payload, s) == s = [key |-> PinnedKey, payload |-> payload]

\* Identities are hashes of what they identify.
AdmissionIdentity(f) == <<f.approval, f.artifacts, f.key, f.signature>>
RenewalIdentity(f, r) == <<f.renewals[r], f.key, f.renewalSignatures[r]>>

RetainedLedgerIsReadable(l) == l.intact /\ l.schema = 2

RecordMatchesApproval(record, approval, artifacts) ==
    /\ record.identity = approval.identity
    /\ record.approval = approval.id
    /\ record.artifacts = artifacts

RenewalKeepsIdentity(record, renewal) ==
    /\ renewal.identity = record.identity
    /\ renewal.initial = record.approval
    /\ renewal.admission = record.admission
    /\ renewal.artifacts = record.artifacts

ReleaseIsApproved(artifacts, release) ==
    /\ DOMAIN artifacts.content = ReleaseKinds
    /\ release = artifacts.content

\* The history in order from the admission on: every renewal extends exactly
\* one predecessor, before that one expires, and none is left out.
RenewalChains(f) ==
    LET history == f.ledger.history
        record == f.ledger.record
        Prior(c, i) == IF i = 1 THEN record.admission ELSE c[i - 1].authorization
        Expiry(c, i) == IF i = 0 THEN f.approval.expires ELSE c[i].renewal.expires
    IN  {c \in [1..Cardinality(history) -> history] :
            \A i \in DOMAIN c : LET r == c[i].renewal IN
                /\ r.prior = Prior(c, i)
                /\ r.approved <= Expiry(c, i - 1) /\ c[i].verified < Expiry(c, i - 1)
                /\ r.approved >= record.admitted
                /\ r.expires > Expiry(c, i - 1)
                /\ RenewalKeepsIdentity(record, r)}

HistoryIsSigned(f) ==
    /\ {h.renewal.id : h \in f.ledger.history} = DOMAIN f.renewals
    /\ Cardinality(f.ledger.history) = Cardinality(DOMAIN f.renewals)
    /\ \A h \in f.ledger.history : LET r == h.renewal.id IN
          /\ f.renewals[r] = h.renewal
          /\ IsSigned(f.renewals[r], f.renewalSignatures[r])
          /\ h.authorization = RenewalIdentity(f, r)
          /\ h.key = f.key

AuthorityIsProven(f, m, assembled) ==
    LET record == f.ledger.record IN
    /\ RetainedLedgerIsReadable(f.ledger)
    /\ record.state = "active" /\ record.stage = "production"
    /\ record.deployment = m.deployment /\ record.admission = m.admission
    /\ f.key = PinnedKey /\ IsSigned(f.approval, f.signature)
    /\ f.approval.stage = "production" /\ f.artifacts.stage = "production"
    /\ f.artifacts.created <= f.approval.approved
    /\ f.approval.artifacts = f.artifacts /\ f.approval.fields = f.artifacts.fields
    /\ ReleaseIsApproved(f.artifacts, f.release)
    /\ record.admission = AdmissionIdentity(f) /\ record.key = f.key
    /\ f.approval.approved <= record.admitted /\ record.admitted < f.approval.expires
    /\ RecordMatchesApproval(record, f.approval, f.artifacts)
    /\ record.admitted <= m.from
    /\ HistoryIsSigned(f)
    /\ \E c \in RenewalChains(f) : LET n == Len(c) IN
          /\ \A i, j \in 1..n : c[i] = c[j] => i = j
          /\ record.renewals = n
          /\ record.authorization = IF n = 0 THEN record.admission ELSE c[n].authorization
          /\ record.expires = IF n = 0 THEN f.approval.expires ELSE c[n].renewal.expires
    /\ record.expires > assembled

-----------------------------------------------------------------------------
(* Drills, incidents and the operational audits.                           *)

DrillPasses(drill, d, m, b) ==
    /\ d.drill = drill /\ IsPositive(d) /\ Covers(m, d)
    /\ DOMAIN d.checks = DrillChecks[drill]
    /\ d.invalidating = {} /\ \A c \in DOMAIN d.checks : d.checks[c]
    /\ ReferencesAreBound(d.evidence, b)

\* An incident is over exactly when it is resolved.
IncidentIsWithin(i, r, b) ==
    /\ i.resolved <=> i.to # "open"
    /\ r.from <= i.from
    /\ i.resolved => i.from <= i.to /\ i.to <= r.to
    /\ ReferencesAreBound(i.evidence, b)

RegisterIsValid(r, m, b) ==
    /\ IsReviewed(r) /\ r.reviewed <= m.created
    /\ r.deployment = m.deployment /\ r.admission = m.admission
    /\ r.from = m.from /\ r.to = m.to
    /\ \A i \in r.incidents : IncidentIsWithin(i, r, b)

\* Events of an audit inside the interval; its times never go back.
TimesRise(audit) == \A i \in 1..Len(audit) - 1 : audit[i].at <= audit[i + 1].at
EventsWithin(audit, m) ==
    {i \in DOMAIN audit : m.from <= audit[i].at /\ audit[i].at <= m.to}

Successes(audit, m, kind) ==
    {i \in EventsWithin(audit, m) : audit[i].kind = kind /\ audit[i].success}
Failures(audit, m, kinds) ==
    {i \in EventsWithin(audit, m) : audit[i].kind \in kinds /\ ~audit[i].success}

HealthSamples(f, m) ==
    {f.sentinel[i].at : i \in Successes(f.sentinel, m, "deadman_schedule")}

\* The longest stretch between neighbours of a set of points in time.
LongestGap(points) ==
    Max({Min({q \in points : q > p}) - p : p \in points \ {Max(points)}})
OperationalGap(f, m) == LongestGap({m.from, m.to} \union HealthSamples(f, m))

CriticalIncidents(f, m) ==
    Cardinality(Failures(f.execution, m, {"live_pipeline_fault"}))
    + Cardinality(Failures(f.sentinel, m, {"deadman_schedule", "emergency_cancel"}))
    + Cardinality({i \in f.register.incidents : i.severity = "critical"})

RiskBreaches(f, m) ==
    {i \in EventsWithin(f.execution, m) :
        f.execution[i].kind = "risk_state" /\ f.execution[i].reasons \cap BreachReasons # {}}

-----------------------------------------------------------------------------
(* The observation.                                                        *)

NativeObservation(b, assembled) ==
    LET f == b.files  m == b.manifest IN
    [id |-> <<"native", b.sha, assembled>>, bundle |-> b.sha, key |-> f.key, assembled |-> assembled, from |-> m.from, to |-> m.to,
     deployment |-> m.deployment, admission |-> m.admission,
     authorization |-> f.ledger.record.authorization,
     renewals |-> f.ledger.record.renewals, expires |-> f.ledger.record.expires,
     samples |-> Cardinality(HealthSamples(f, m)), gap |-> OperationalGap(f, m),
     critical |-> CriticalIncidents(f, m),
     reconciliationFailures |-> Cardinality(Failures(f.execution, m, {"reconciliation"})),
     breaches |-> Cardinality(RiskBreaches(f, m)),
     drills |-> DOMAIN f.drills]

\* What the observation itself insists on.
ObservationIsConsistent(o) ==
    /\ IsPositive(o) /\ o.to <= o.assembled
    /\ o.to < o.expires /\ o.assembled < o.expires
    /\ o.samples >= Max({1, (o.to - o.from + o.gap - 1) \div o.gap - 1})
    /\ o.renewals = 0 <=> o.authorization = o.admission
    /\ o.drills = RequiredDrills

NativeIsAssembled(b, assembled) ==
    LET f == b.files  m == b.manifest IN
    /\ ManifestIsComplete(m, b)
    /\ m.created <= assembled
    /\ Policy.frozen <= m.from
    /\ ProductionBundleIsSound(b)
    /\ AuthorityIsProven(f, m, assembled)
    /\ RegisterIsValid(f.register, m, b)
    /\ \A d \in RequiredDrills : DrillPasses(d, f.drills[d], m, b)
    /\ TimesRise(f.execution) /\ TimesRise(f.sentinel)
    /\ Successes(f.execution, m, "reconciliation") # {}
    /\ HealthSamples(f, m) # {}
    /\ OperationalGap(f, m) <= Policy.maxNativeGap
    /\ ObservationIsConsistent(NativeObservation(b, assembled))

\* A retained observation o is checked against the bundle as it is now.
NativeIsVerified(b, o, now) ==
    /\ o.key = PinnedKey
    /\ o.assembled <= now /\ now < o.expires
    /\ NativeIsAssembled(b, o.assembled)
    /\ NativeObservation(b, o.assembled) = o
=============================================================================
