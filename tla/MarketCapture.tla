----------------------------- MODULE MarketCapture -----------------------------
(***************************************************************************)
(* Public market data from the wire to an accepted soak: the recorder      *)
(* (market_data/recorder.py and raw.py), the normalizer (normalizer.py and *)
(* storage.py), the offline operator commands (cli.py) and the soak        *)
(* evaluator (evidence.py).  The recorder and the normalizer are processes *)
(* that may be killed anywhere, and the host may lose power: then a        *)
(* directory entry that was not synced may be as it was before.            *)
(* Connections are numbered in the order they are opened; files[c] tells   *)
(* where the data and the manifest of connection c are.                    *)
(***************************************************************************)
EXTENDS DatasetAdmission

CONSTANTS
    Wire,               \* what the exchange may send
    StaleAfter,         \* stale_after_seconds
    SegmentDuration,    \* segment_duration_seconds
    Requests,           \* what operators hand to the soak evaluator
    MaxTime,            \* bound on the clock
    MaxConnections,     \* bound on connections opened
    MaxFrames,          \* bound on frames received in all
    MaxMishaps          \* bound on crashes, failures, damage and bad frames

ASSUME CaptureAssumption == /\ StaleAfter \in Nat \ {0}
                            /\ SegmentDuration \in Nat \ {0}
                            /\ {MaxTime, MaxConnections, MaxFrames, MaxMishaps} \subseteq Nat
                            /\ \A request \in Requests : request.start \in Nat
                            /\ \A w \in Wire : /\ "items" \in DOMAIN w
                                               /\ w.items \in Seq(ToSet(w.items))
                                               /\ \A item \in ToSet(w.items) : item.fault \in Faults

VARIABLES
    now,
    connections,    \* for each: when it was opened, its frames, what the parser and the
                    \* tracker make of them, why it ended.  (The recorder and the normalizer
                    \* differ only in the silence they call an anomaly, which no gate limits.)
    files,          \* where its data and its manifest are, and where they surely are
    recorder,       \* the recorder's process
    stop,           \* its stop event
    recorderState,  \* recorder-state.json
    restarts,       \* the container runtime's restart counters
    normalizer,     \* the normalizer's process
    normalizerState,    \* normalizer-state.json
    tables,         \* tables[c]: the Parquet files of c, by event type
    normalized,     \* normalized[c]: the normalized manifest of c
    catalogs,       \* what the raw and the normalized catalog list
    evidence,       \* the metrics an operator captured
    mishaps

vars == <<now, connections, files, recorder, stop, recorderState, restarts, normalizer,
          normalizerState, tables, normalized, catalogs, evidence, mishaps>>

recorderVars == <<connections, recorder, stop, recorderState>>
normalizerVars == <<normalizer, normalizerState, tables, normalized>>

None == [none |-> TRUE]
Opened == 1 .. Len(connections)
Current == Len(connections)
Frames(c) == connections[c].frames
FrameTotal == FoldLeft(LAMBDA n, c : n + Len(c.frames), 0, connections)

-----------------------------------------------------------------------------
(* Artifacts.  A segment is "partial" while it is written, then "raw"; what *)
(* is moved away is "incomplete" or "corrupt".                              *)

NewFiles == [data |-> "partial", dataSafe |-> "gone", manifest |-> "gone",
             manifestSafe |-> "gone", damaged |-> FALSE]

\* RawSegmentReader.verify: the manifest describes the data it lies beside.
Verifies(c) == files[c].data = "raw" /\ ~files[c].damaged

\* A rename into a directory that is synced afterwards.
Move(file, place) ==
    [file EXCEPT !.data = IF @ \in {"raw", "partial"} THEN place ELSE @,
                 !.dataSafe = IF file.data \in {"raw", "partial"} THEN place ELSE @]
MoveManifest(file, place) == [file EXCEPT !.manifest = place, !.manifestSafe = place]

LastFrame(c) == IF Frames(c) = <<>> THEN connections[c].started
                ELSE Frames(c)[Len(Frames(c))].at

\* Segments without a frame are byte for byte the same.
SameBytes(c, d) == c = d \/ (Frames(c) = <<>> /\ Frames(d) = <<>>)

-----------------------------------------------------------------------------
(* The recorder.                                                           *)

NoIssues == [kind \in IssueKinds |-> 0]
Down == [pc |-> "down", outcome |-> "none", reconnects |-> 0, frames |-> 0, finalized |-> 0,
         lastFrame |-> 0, heard |-> 0, opened |-> 0, issues |-> NoIssues]

\* _write_state: the segment is the one of the latest connection of this process.
WriteState(r, status, error) ==
    recorderState' = [status |-> status, heartbeat |-> now, segment |-> r.opened,
                      reconnects |-> r.reconnects, error |-> error]

\* The process starts anew: its counters are zero.  The container runtime
\* counts the restarts it makes itself, and forgets them on a manual start.
StartRecorder(automatic) ==
    LET started == [Down EXCEPT !.pc = "idle"]
    IN  /\ recorder.pc = "down"
        /\ automatic => recorderState # None
        /\ recorder' = started
        /\ stop' = FALSE
        /\ WriteState(started, "starting", "none")
        /\ restarts' = [restarts EXCEPT !.recorder = IF automatic THEN @ + 1 ELSE 0]
        /\ UNCHANGED <<now, connections, files, normalizerVars, catalogs, evidence, mishaps>>

\* The writer and the tracker of a connection exist before its socket does.
Open == /\ recorder.pc = "idle"
        /\ ~stop
        /\ Len(connections) < MaxConnections
        /\ connections' = Append(connections, [started |-> now, frames |-> <<>>, reason |-> "none",
                                               tracked |-> NothingTracked])
        /\ files' = Append(files, NewFiles)
        /\ recorder' = [recorder EXCEPT !.pc = "opening", !.opened = Len(connections) + 1]
        /\ UNCHANGED <<now, stop, recorderState, restarts, normalizerVars, catalogs, evidence,
                       mishaps>>

\* The socket is open and the subscriptions are sent.
Connect == /\ recorder.pc = "opening"
           /\ recorder' = [recorder EXCEPT !.pc = "connected", !.heard = now]
           /\ WriteState(recorder, "connected", "none")
           /\ UNCHANGED <<now, connections, files, stop, restarts, normalizerVars, catalogs,
                          evidence, mishaps>>

\* The connection ends for a reason; its footer is written and synced.
End(r, log, reason, outcome) ==
    /\ recorder' = [r EXCEPT !.pc = "sealed", !.outcome = outcome]
    /\ connections' = [log EXCEPT ![Current].reason = reason]

Received(w) == Joined([at |-> now], w)

\* The frame is in the archive; nothing has looked at it.
Archived(w) == [connections EXCEPT ![Current].frames = Append(@, Received(w)),
                                   ![Current].tracked = Track(@, Received(w))]

\* The counters after one more frame, with the issues it raises.
Counted(before, after) ==
    [recorder EXCEPT !.frames = @ + 1, !.lastFrame = now, !.heard = now,
                     !.issues = [k \in IssueKinds |-> @[k] + CountKinds(after)[k]
                                                           - CountKinds(before)[k]]]

\* A frame is archived before anything looks at it.  Then the free space is
\* checked, the frame is parsed and observed, and the segment is rotated when
\* it has become old enough.
Receive(w) ==
    /\ recorder.pc = "connected"
    /\ FrameTotal < MaxFrames
    /\ LET log == Archived(w)
           counted == Counted(connections[Current].tracked.tracker.issues,
                              log[Current].tracked.tracker.issues)
       IN  IF now >= connections[Current].started + SegmentDuration
           THEN End(counted, log, IF stop THEN "shutdown" ELSE "rotation", "return")
           ELSE recorder' = counted /\ connections' = log
    /\ WriteState(recorder, "connected", "none")
    /\ IF Parse(Received(w)).ok THEN UNCHANGED mishaps
                                ELSE mishaps < MaxMishaps /\ mishaps' = mishaps + 1
    /\ UNCHANGED <<now, files, stop, restarts, normalizerVars, catalogs, evidence>>

\* Too little space is found after the frame was archived and before it is observed.
RunOutOfSpace(w) ==
    /\ recorder.pc = "connected"
    /\ FrameTotal < MaxFrames /\ mishaps < MaxMishaps
    /\ End([recorder EXCEPT !.frames = @ + 1, !.lastFrame = now, !.issues["disk_pressure"] = @ + 1],
           Archived(w), "disk_pressure", "disk_pressure")
    /\ mishaps' = mishaps + 1
    /\ UNCHANGED <<now, files, stop, recorderState, restarts, normalizerVars, catalogs, evidence>>

\* The consumer of parsed frames fails: the recorder stops with it.
FailConsumer(w) ==
    /\ recorder.pc = "connected"
    /\ FrameTotal < MaxFrames /\ mishaps < MaxMishaps
    /\ Parse(Received(w)).ok
    /\ LET log == Archived(w)
       IN  End(Counted(connections[Current].tracked.tracker.issues,
                       log[Current].tracked.tracker.issues), log, "error", "frame_consumer_error")
    /\ mishaps' = mishaps + 1
    /\ UNCHANGED <<now, files, stop, recorderState, restarts, normalizerVars, catalogs, evidence>>

\* The connection breaks: the network's doing, or an error nobody foresaw.
Break(reason) ==
    /\ recorder.pc \in {"opening", "connected"}
    /\ mishaps < MaxMishaps
    /\ End(recorder, connections, reason, "connection_error")
    /\ mishaps' = mishaps + 1
    /\ UNCHANGED <<now, files, stop, recorderState, restarts, normalizerVars, catalogs, evidence>>

\* Nothing was received for too long.
GoStale ==
    /\ recorder.pc = "connected"
    /\ now >= recorder.heard + StaleAfter
    /\ End([recorder EXCEPT !.issues["silence"] = @ + 1], connections, "stale_feed", "stale_feed")
    /\ UNCHANGED <<now, files, stop, recorderState, restarts, normalizerVars, catalogs, evidence,
                   mishaps>>

\* A signal, and the loop that sees it.
RequestStop == /\ recorder.pc # "down"
               /\ ~stop
               /\ mishaps < MaxMishaps
               /\ stop' = TRUE
               /\ mishaps' = mishaps + 1
               /\ UNCHANGED <<now, connections, files, recorder, recorderState, restarts,
                              normalizerVars, catalogs, evidence>>
Halt == /\ recorder.pc = "connected"
        /\ stop
        /\ End(recorder, connections, "shutdown", "return")
        /\ UNCHANGED <<now, files, stop, recorderState, restarts, normalizerVars, catalogs,
                       evidence, mishaps>>

-----------------------------------------------------------------------------
(* RawSegmentWriter.finalize, one file-system call after the other.        *)

FileStep(from, to, file) ==
    /\ recorder.pc = from
    /\ recorder' = [recorder EXCEPT !.pc = to]
    /\ files' = [files EXCEPT ![Current] = file]
    /\ UNCHANGED <<now, connections, stop, recorderState, restarts, normalizerVars, catalogs,
                   evidence, mishaps>>

Rename == FileStep("sealed", "renamed", [files[Current] EXCEPT !.data = "raw"])

\* Slip: the manifest is written before the rename is on disk.
SkipSync == FileStep("renamed", "synced", files[Current])

SyncRename == FileStep("renamed", "synced", [files[Current] EXCEPT !.dataSafe = "raw"])
WriteManifest == FileStep("synced", "manifested", [files[Current] EXCEPT !.manifest = "raw"])

\* What run does with the way a connection ended.
Settle(r, outcome) ==
    LET next == [r EXCEPT !.outcome = "none"]
        again == [next EXCEPT !.reconnects = @ + 1]
    IN  CASE outcome = "return" /\ ~stop ->
               recorder' = [next EXCEPT !.pc = "idle"] /\ UNCHANGED recorderState
          [] outcome = "return" /\ stop ->
               recorder' = Down /\ WriteState(next, "stopped", "none")
          [] outcome \in {"disk_pressure", "frame_consumer_error"} ->
               recorder' = Down /\ WriteState(next, "failed", outcome)
          [] outcome \in {"stale_feed", "connection_error"} /\ ~stop ->
               recorder' = [again EXCEPT !.pc = "waiting"]
               /\ WriteState(again, "reconnecting", outcome)
          [] OTHER ->
               recorder' = Down /\ WriteState(again, "stopped", "none")

\* The manifest's directory is synced and the segment registered.  The catalog
\* takes no second segment with the same bytes: that is an error of the
\* connection, whatever ended it.
Publish ==
    LET collides == \E c \in catalogs.raw : SameBytes(c, Current)
        counted == [recorder EXCEPT !.finalized = @ + 1]
    IN  /\ recorder.pc = "manifested"
        /\ files' = [files EXCEPT ![Current] =
                        [@ EXCEPT !.dataSafe = files[Current].data,
                                  !.manifestSafe = files[Current].manifest]]
        /\ catalogs' = IF collides THEN catalogs ELSE [catalogs EXCEPT !.raw = @ \union {Current}]
        /\ Settle(counted, IF collides THEN "connection_error" ELSE recorder.outcome)
        /\ UNCHANGED <<now, connections, stop, restarts, normalizerVars, evidence, mishaps>>

\* A write of finalize fails: that too is an error of the connection.
FailFinalize ==
    /\ recorder.pc \in {"sealed", "synced"}
    /\ mishaps < MaxMishaps
    /\ Settle(recorder, "connection_error")
    /\ mishaps' = mishaps + 1
    /\ UNCHANGED <<now, connections, files, stop, restarts, normalizerVars, catalogs, evidence>>

\* The delay before the next connection is random; a stop does not shorten it.
Reconnect == /\ recorder.pc = "waiting"
             /\ recorder' = IF stop THEN Down ELSE [recorder EXCEPT !.pc = "idle"]
             /\ IF stop THEN WriteState(recorder, "stopped", "none") ELSE UNCHANGED recorderState
             /\ UNCHANGED <<now, connections, files, stop, restarts, normalizerVars, catalogs,
                            evidence, mishaps>>

\* The stop event was set between two connections.
LeaveLoop == /\ recorder.pc = "idle"
             /\ stop
             /\ recorder' = Down
             /\ WriteState(recorder, "stopped", "none")
             /\ UNCHANGED <<now, connections, files, stop, restarts, normalizerVars, catalogs,
                            evidence, mishaps>>

-----------------------------------------------------------------------------
(* The normalizer: one batch after the other over the manifests it finds.  *)

WriteNormalizerState(status, quarantined, error) ==
    normalizerState' = [status |-> status, heartbeat |-> now, quarantined |-> quarantined,
                        error |-> error]

StartNormalizer(automatic) ==
    /\ normalizer = "down"
    /\ automatic => normalizerState # None
    /\ normalizer' = "up"
    /\ WriteNormalizerState("starting", 0, "none")
    /\ restarts' = [restarts EXCEPT !.normalizer = IF automatic THEN @ + 1 ELSE 0]
    /\ UNCHANGED <<now, recorderVars, files, tables, normalized, catalogs, evidence, mishaps>>

\* A row knows its place, so a table is the set of its rows.
Rows(c) == LET events == connections[c].tracked.events
           IN  {events[i] @@ [order |-> i] : i \in DOMAIN events}
RowTypes(c) == {row.type : row \in Rows(c)}
RowsOf(c, type) == {row \in Rows(c) : row.type = type}
TablesOf(c) == [type \in RowTypes(c) |-> RowsOf(c, type)]

ManifestOf(c) == [types |-> RowTypes(c),
                  issues |-> CountKinds(connections[c].tracked.tracker.issues),
                  excluded |-> connections[c].tracked.excluded]

\* validate_normalized_files
FilesValid(c) == normalized[c].types \subseteq DOMAIN tables[c]

\* The manifests a batch finds; those that are cataloged are complete.
Pending == {c \in Opened : files[c].manifest = "raw" /\ c \notin catalogs.normalized}

\* A batch so far: its writes, and whether it met something it cannot handle.
Batch == [files |-> files, tables |-> tables, normalized |-> normalized,
          cataloged |-> catalogs.normalized, quarantined |-> 0, failed |-> FALSE]

\* A table that is there already must be the same.
Conflict(c) == \E type \in RowTypes(c) \cap DOMAIN tables[c] :
                   tables[c][type] # TablesOf(c)[type]

\* run_once for one manifest.  What was normalized before a crash is validated
\* and cataloged; a segment that verifies is parsed in one pass, its tables are
\* written, then the manifest that names them; anything else is moved away.
Process(batch, c) ==
    IF batch.failed THEN batch
    ELSE IF normalized[c] # None
    THEN IF FilesValid(c) THEN [batch EXCEPT !.cataloged = @ \union {c}]
                          ELSE [batch EXCEPT !.failed = TRUE]
    ELSE IF ~Verifies(c)
    THEN [batch EXCEPT !.files[c] = MoveManifest(Move(@, "corrupt"), "corrupt"),
                       !.quarantined = @ + 1]
    ELSE IF Conflict(c) THEN [batch EXCEPT !.failed = TRUE]
    ELSE [batch EXCEPT !.tables[c] = TablesOf(c), !.normalized[c] = ManifestOf(c),
                       !.cataloged = @ \union {c}]

\* One segment after the other, the oldest first.
ProcessAll(batch, segments) ==
    MapThenFoldSet(LAMBDA c, done : Process(done, c), batch, LAMBDA c : c, LAMBDA T : Max(T),
                   segments)

Write(batch) == /\ files' = batch.files
                /\ tables' = batch.tables
                /\ normalized' = batch.normalized
                /\ catalogs' = [catalogs EXCEPT !.normalized = batch.cataloged]

RunBatch ==
    LET batch == ProcessAll(Batch, Pending)
    IN  /\ normalizer = "up"
        /\ Write(batch)
        /\ IF batch.failed
           THEN normalizer' = "down" /\ WriteNormalizerState("failed", batch.quarantined, "invalid")
           ELSE /\ UNCHANGED normalizer
                /\ WriteNormalizerState("running", batch.quarantined, "none")
        /\ UNCHANGED <<now, recorderVars, restarts, evidence, mishaps>>

\* Some of its tables are written anew.
WithTables(c, written) ==
    [type \in written \union DOMAIN tables[c] |->
        IF type \in written THEN RowsOf(c, type) ELSE tables[c][type]]

\* What a kill leaves of the segment the batch was at: some of its tables, or
\* all of them and the manifest, or data that was moved without its manifest.
Torn(c) ==
    IF normalized[c] # None THEN {Batch}
    ELSE IF ~Verifies(c) THEN {Batch, [Batch EXCEPT !.files[c] = Move(@, "corrupt")]}
    ELSE {[Batch EXCEPT !.tables[c] = WithTables(c, written)] : written \in SUBSET RowTypes(c)}
         \union {[Batch EXCEPT !.tables[c] = TablesOf(c), !.normalized[c] = ManifestOf(c)]}

-----------------------------------------------------------------------------
(* What happens to processes and files.                                    *)

Mishap == mishaps < MaxMishaps /\ mishaps' = mishaps + 1

CrashRecorder == /\ Mishap
                 /\ recorder.pc # "down"
                 /\ recorder' = Down
                 /\ UNCHANGED <<now, connections, files, stop, recorderState, restarts,
                                normalizerVars, catalogs, evidence>>

\* The segments before the one it was at are done.
CrashNormalizer ==
    /\ Mishap
    /\ normalizer = "up"
    /\ normalizer' = "down"
    /\ \E c \in Pending : \E torn \in Torn(c) :
           Write(ProcessAll(torn, {d \in Pending : d < c}))
    /\ UNCHANGED <<now, recorderVars, restarts, normalizerState, evidence>>

\* Both processes die; an entry that was not synced may be as it was before.
Remains(file, data, manifest) ==
    [file EXCEPT !.data = IF data THEN @ ELSE file.dataSafe,
                 !.dataSafe = IF data THEN file.data ELSE @,
                 !.manifest = IF manifest THEN @ ELSE file.manifestSafe,
                 !.manifestSafe = IF manifest THEN file.manifest ELSE @]

LosePower ==
    /\ Mishap
    /\ recorder.pc # "down"
    /\ recorder' = Down
    /\ normalizer' = "down"
    /\ \E data \in SUBSET {c \in Opened : files[c].data # files[c].dataSafe},
          manifests \in SUBSET {c \in Opened : files[c].manifest # files[c].manifestSafe} :
           files' = [c \in Opened |-> Remains(files[c], c \in data, c \in manifests)]
    /\ UNCHANGED <<now, connections, stop, recorderState, restarts, normalizerState, tables,
                   normalized, catalogs, evidence>>

\* A finished segment rots on its disk.
Damage(c) == /\ Mishap
             /\ files[c].data = "raw" /\ files[c].manifest = "raw" /\ ~files[c].damaged
             /\ files' = [files EXCEPT ![c].damaged = TRUE]
             /\ UNCHANGED <<now, recorderVars, restarts, normalizerVars, catalogs, evidence>>

\* recover: an offline command, to be run while the recorder is down.
Recover ==
    LET clean(file) ==
            IF file.data = "partial" \/ (file.data = "raw" /\ file.manifest # "raw")
            THEN Move(file, "incomplete")
            ELSE IF file.manifest = "raw" /\ file.data # "raw"
            THEN MoveManifest(file, "incomplete") ELSE file
    IN  /\ recorder.pc = "down"
        /\ files' = [c \in DOMAIN files |-> clean(files[c])]
        /\ files' # files
        /\ UNCHANGED <<now, recorderVars, restarts, normalizerVars, catalogs, evidence, mishaps>>

-----------------------------------------------------------------------------
(* The offline commands that read the artifacts.                           *)

\* A manifest build-dataset can name: it, and what was normalized, are valid.
Readable(c) == files[c].manifest = "raw" /\ normalized[c] # None /\ FilesValid(c)

SegmentOf(c) == [id |-> c, started |-> connections[c].started, ended |-> LastFrame(c),
                 records |-> Len(Frames(c)), reason |-> connections[c].reason,
                 issues |-> normalized[c].issues, excluded |-> normalized[c].excluded]

\* The operator keeps the recorder's metrics and writes the time down after.
\* (What is captured while no connection is open is refused: one such state
\* stands for all.)
CaptureMetrics ==
    /\ evidence = None
    /\ recorder.pc \in {"connected", "waiting"}
    /\ evidence' = [captured |-> now, connected |-> recorder.pc = "connected",
                    reconnects |-> recorder.reconnects, frames |-> recorder.frames,
                    finalized |-> recorder.finalized, lastFrame |-> recorder.lastFrame,
                    issues |-> recorder.issues]
    /\ UNCHANGED <<now, recorderVars, files, restarts, normalizerVars, catalogs, mishaps>>

\* Finished segments that lie within the window: each must verify and be normalized.
Window(request, captured) ==
    {c \in Opened : /\ files[c].manifest = "raw"
                    /\ connections[c].started >= request.start
                    /\ LastFrame(c) <= captured}
Usable(c) == Verifies(c) /\ Readable(c)

\* Artifacts that were opened within the window and never finished; the
\* partial one the recorder last wrote of is not counted.
Incomplete(opened) ==
    {c \in opened : \/ files[c].data = "partial" /\ c # recorderState.segment
                    \/ files[c].data = "incomplete"
                    \/ files[c].manifest = "incomplete"}
Corrupt(opened) == {c \in opened : "corrupt" \in {files[c].data, files[c].manifest}}

Evidence(request) ==
    LET metrics == evidence
        opened == {c \in Opened : /\ connections[c].started >= request.start
                                  /\ connections[c].started <= metrics.captured}
    IN  [requested |-> request.start, segments |-> {SegmentOf(c) :
                                                     c \in Window(request, metrics.captured)},
         metrics |-> metrics, startFree |-> request.startFree, endFree |-> request.endFree,
         sameConfiguration |-> request.sameConfiguration,
         publicMainnetOnly |-> request.publicMainnetOnly,
         incomplete |-> Incomplete(opened), corrupt |-> Corrupt(opened),
         recorder |-> recorderState, normalizer |-> normalizerState,
         recorderRestarts |-> restarts.recorder, normalizerRestarts |-> restarts.normalizer]

\* evaluate-soak makes no report when anything it needs cannot be read.
Reports(request) ==
    /\ evidence # None
    /\ request.start <= evidence.captured
    /\ recorderState # None /\ normalizerState # None
    /\ \A c \in Window(request, evidence.captured) : Usable(c)

Accepts(request) == Reports(request) /\ SoakAccepted(Evidence(request))

-----------------------------------------------------------------------------
\* The clock starts with the first recorder; opening a connection
\* and finalizing a segment take no time.
Tick == /\ now < MaxTime
        /\ recorderState # None
        /\ recorder.pc \in {"down", "connected", "waiting"}
        /\ now' = now + 1
        /\ UNCHANGED <<recorderVars, files, restarts, normalizerVars, catalogs, evidence, mishaps>>

Init ==
    /\ now = 0
    /\ connections = <<>> /\ files = <<>>
    /\ recorder = Down /\ stop = FALSE /\ recorderState = None
    /\ restarts = [recorder |-> 0, normalizer |-> 0]
    /\ normalizer = "down" /\ normalizerState = None
    /\ tables = [c \in 1 .. MaxConnections |-> <<>>]
    /\ normalized = [c \in 1 .. MaxConnections |-> None]
    /\ catalogs = [raw |-> {}, normalized |-> {}]
    /\ evidence = None
    /\ mishaps = 0

Recording ==
    \/ \E automatic \in BOOLEAN : StartRecorder(automatic)
    \/ Open \/ Connect \/ Halt \/ GoStale \/ RequestStop \/ Reconnect \/ LeaveLoop
    \/ \E w \in Wire : Receive(w) \/ RunOutOfSpace(w) \/ FailConsumer(w)
    \/ \E reason \in {"disconnect", "error"} : Break(reason)
    \/ Rename \/ SyncRename \/ WriteManifest \/ Publish \/ FailFinalize

Normalizing ==
    \/ \E automatic \in BOOLEAN : StartNormalizer(automatic)
    \/ RunBatch

Next ==
    \/ Recording
    \/ Normalizing
    \/ CrashRecorder \/ CrashNormalizer \/ LosePower \/ Recover
    \/ \E c \in Opened : Damage(c)
    \/ CaptureMetrics
    \/ Tick

Spec == Init /\ [][Next]_vars

-----------------------------------------------------------------------------
\* Whatever is killed and wherever the power fails, a segment is quarantined
\* as corrupt only if its own data was damaged, whatever became of the others:
\* a manifest on disk has its segment beside it.  The normalizer never gives
\* up: what it or a kill left behind is no conflict, and a damaged segment is
\* set aside and does not stop the batch.
OnlyDamageIsCorrupt ==
    /\ \A c \in Corrupt(Opened) : files[c].damaged
    /\ normalizerState # None => normalizerState.status # "failed"

\* The soak policy that is shipped (configs/market-data/soak-v1.toml) allows no
\* reconnect, and no segment that ended for another reason than its age.
StrictPolicy == SoakPolicy.maxReconnects = 0 /\ SoakPolicy.reasons = {"rotation"}

\* An accepted soak has no hole: every frame received between its first and
\* its last instant is in its dataset, although the evaluator sees only the
\* artifacts that are there, metrics that a restart resets and a restart
\* counter that a manual start resets.  (A policy that allows a reconnect is
\* too weak for this: a segment whose manifest could not be written is counted
\* nowhere but in the reconnect that followed.)
SoakIsUnbroken ==
    StrictPolicy =>
    \A request \in Requests : Accepts(request) =>
        LET e == Evidence(request)
        IN  \A c \in Opened : \A i \in 1 .. Len(Frames(c)) :
                (ObservationStart(e) < Frames(c)[i].at /\ Frames(c)[i].at < ObservationEnd(e)) =>
                    c \in {s.id : s \in e.segments}

-----------------------------------------------------------------------------
(* A reference for what the tracker lets through: a trade is a repetition  *)
(* if its identity was seen before and at most DuplicateWindow identities, *)
(* it included, were seen from there on.                                   *)

Parsed(frames) == FoldLeft(LAMBDA all, frame : all \o Parse(frame).events, <<>>, frames)

Repeats(events, i) ==
    /\ events[i].type = "trade"
    /\ \E j \in 1 .. i - 1 :
          /\ events[j].type = "trade" /\ events[j].id = events[i].id
          /\ Cardinality({events[m].id : m \in {m \in j .. i - 1 : events[m].type = "trade"}})
                 <= DuplicateWindow

\* The events that are not repetitions, each with its place among them.
Novel(events) == {i \in DOMAIN events : ~Repeats(events, i)}
Placed(events, kept) ==
    {events[i] @@ [order |-> Cardinality({j \in kept : j <= i})] : i \in kept}

Contents(c) == UNION {tables[c][type] : type \in normalized[c].types}
\* (The bound variables hold values that are computed once.)
HoldsTheRecord(c) == \A events \in {Parsed(Frames(c))} : \A kept \in {Novel(events)} :
                         Contents(c) = Placed(events, kept)

\* What a dataset may name holds, from the moment it may, exactly the events
\* of the frames that were received on its connection, in their order and each
\* trade once, wherever the normalizer was killed before it wrote them.
DatasetIsTheRecord ==
    [][\A c \in Opened : (~Readable(c) /\ Readable(c)') => HoldsTheRecord(c)']_vars
=============================================================================
