--------------------------- MODULE DatasetAdmission ---------------------------
(***************************************************************************)
(* What is admitted as a dataset (market_data/admission.py) and the gates  *)
(* of a soak report (market_data/evidence.py).  A segment is its raw       *)
(* manifest joined with what was normalized from it:                       *)
(* [id, started, ended, records, reason, issues, excluded].                *)
(***************************************************************************)
EXTENDS FrameIntegrity

CONSTANTS
    QualityPolicy,  \* data_quality_policy: limits by issue kind, maxGap, rejectUnexplained
    SoakPolicy      \* MarketDataSoakPolicy

ASSUME PolicyAssumption ==
    /\ QualityPolicy.maxGap \in Nat
    /\ SoakPolicy.minObservation \in Nat \ {0}
    /\ SoakPolicy.minSegments \in Nat \ {0}
    /\ SoakPolicy.reasons # {}

Reasons == {"rotation", "disconnect", "shutdown", "stale_feed", "disk_pressure", "error"}

-----------------------------------------------------------------------------
(* build_dataset_manifest *)

\* A gap is named after the way the segment before it ended.
Classification(reason) ==
    [rotation |-> "planned_rotation", disconnect |-> "venue_disconnect",
     shutdown |-> "recorder_restart", stale_feed |-> "stale_feed_recovery",
     disk_pressure |-> "disk_pressure", error |-> "unexplained"][reason]

Before(s, t) == s.started < t.started \/ (s.started = t.started /\ s.id < t.id)
InOrder(segments) ==
    [n \in 1 .. Cardinality(segments) |->
        CHOOSE s \in segments : Cardinality({t \in segments : Before(t, s)}) = n - 1]

Neighbours(ordered) == {i \in 1 .. Len(ordered) - 1 : ordered[i + 1].started > ordered[i].ended}

GapAfter(ordered, i) ==
    [start |-> ordered[i].ended, end |-> ordered[i + 1].started,
     class |-> Classification(ordered[i].reason)]

Gaps(ordered) == {GapAfter(ordered, i) : i \in Neighbours(ordered)}

IssueTotal(segments, kind) == MapThenSumSet(LAMBDA s : s.issues[kind], segments)

\* Kinds a dataset is limited in.
LimitedKinds == {"schema_error", "crossed_book", "timestamp_regression", "duplicate"}

Admitted(segments) ==
    /\ segments # {}
    /\ \A kind \in LimitedKinds : IssueTotal(segments, kind) <= QualityPolicy.limits[kind]
    /\ \A gap \in Gaps(InOrder(segments)) :
        /\ ~(gap.class = "unexplained" /\ QualityPolicy.rejectUnexplained)
        /\ gap.end - gap.start <= QualityPolicy.maxGap

-----------------------------------------------------------------------------
(* evaluate_market_data_soak.  The evidence e joins what the operator      *)
(* hands in (start, captured metrics, restart counts, configuration) with  *)
(* what is on disk when the report is made.                                *)

ObservationStart(e) ==
    IF e.segments = {} THEN e.requested ELSE InOrder(e.segments)[1].started
ObservationEnd(e) ==
    IF e.segments = {} THEN e.requested
    ELSE InOrder(e.segments)[Cardinality(e.segments)].ended

Overlaps(ordered) == {i \in 1 .. Len(ordered) - 1 : ordered[i + 1].started < ordered[i].ended}

\* Kinds whose metric has a limit of its own, and the kinds that must be absent.
MetricLimit(kind) ==
    IF kind \in LimitedKinds THEN QualityPolicy.limits[kind] ELSE 0

ConfigurationGates(e) ==
    /\ e.sameConfiguration
    /\ e.publicMainnetOnly
    /\ e.startFree >= SoakPolicy.minFree
    /\ e.endFree >= SoakPolicy.minFree

WindowGates(e) ==
    /\ ObservationStart(e) - e.requested <= SoakPolicy.maxStartLag
    /\ ObservationEnd(e) - ObservationStart(e) >= SoakPolicy.minObservation
    /\ Cardinality(e.segments) >= SoakPolicy.minSegments
    /\ Overlaps(InOrder(e.segments)) = {}

ArtifactGates(e) ==
    /\ {s.reason : s \in e.segments} \subseteq SoakPolicy.reasons
    /\ MapThenSumSet(LAMBDA s : s.excluded, e.segments) <= SoakPolicy.maxExcluded
    /\ e.incomplete = {} /\ e.corrupt = {}
    /\ Admitted(e.segments)

Fresh(age, limit) == 0 <= age /\ age <= limit

RecorderGates(e) ==
    /\ e.metrics.connected
    /\ e.metrics.reconnects <= SoakPolicy.maxReconnects
    /\ e.recorder.reconnects = e.metrics.reconnects
    /\ e.recorder.status = "connected"
    /\ e.recorder.error = "none"
    /\ Fresh(e.metrics.captured - e.recorder.heartbeat, SoakPolicy.recorderStale)
    /\ Fresh(e.metrics.captured - e.metrics.lastFrame, SoakPolicy.recorderStale)
    /\ e.recorderRestarts <= SoakPolicy.maxRestarts

NormalizerGates(e) ==
    /\ e.normalizer.status = "running"
    /\ e.normalizer.quarantined = 0
    /\ e.normalizer.error = "none"
    /\ Fresh(e.metrics.captured - e.normalizer.heartbeat, SoakPolicy.normalizerStale)
    /\ e.normalizerRestarts <= SoakPolicy.maxRestarts

\* Slip: the counters are compared with one segment at a time.
CountersCoverEach(e) ==
    \A s \in e.segments : e.metrics.frames >= s.records /\ e.metrics.finalized >= 1

\* The recorder's counters start at zero with its process: they cover the
\* segments only if all of them were written by the process that was asked.
CountersCover(e) ==
    /\ e.metrics.frames >= MapThenSumSet(LAMBDA s : s.records, e.segments)
    /\ e.metrics.finalized >= Cardinality(e.segments)

MetricGates(e) == \A kind \in IssueKinds \ {"cadence_anomaly"} :
                      e.metrics.issues[kind] <= MetricLimit(kind)

SoakAccepted(e) ==
    /\ ConfigurationGates(e)
    /\ WindowGates(e)
    /\ ArtifactGates(e)
    /\ RecorderGates(e)
    /\ NormalizerGates(e)
    /\ CountersCover(e)
    /\ MetricGates(e)
=============================================================================
