-------------------------- MODULE MarketCaptureProofs --------------------------
(***************************************************************************)
(* Only damage is ever called corrupt, for every wire, segment length and  *)
(* number of mishaps. The invariant says of every segment where its data   *)
(* and its manifest are and where they are after a loss of power: unless   *)
(* its own data was damaged, a manifest, on disk or possibly lost, has its *)
(* data beside it, because the rename of the data is synced before the     *)
(* manifest is written. It says as well, of all segments, that the tables a*)
(* normalizer left behind, finished or torn, are those the segment is      *)
(* parsed to again, so that another attempt meets no conflict, and that a  *)
(* normalized manifest names all of them. What the normalizer does in one  *)
(* batch is a loop over the manifests it found (FoldFacts).                *)
(*                                                                         *)
(* An accepted soak has no hole, under the policy that is shipped: what    *)
(* the recorder counted since it started stands for segments that follow   *)
(* one another, so the evaluator would miss one in its count.              *)
(*                                                                         *)
(* A dataset is the record: the tracker of a connection let through those  *)
(* of its events that the reference calls no repetitions, in their order,  *)
(* because the identities it remembers are the ones that were last seen.   *)
(***************************************************************************)
EXTENDS MarketCapture, FiniteSetTheorems, SequenceTheorems, TLAPS

Places == {"partial", "raw", "gone", "incomplete", "corrupt"}
Files == [data : Places, dataSafe : Places, manifest : Places, manifestSafe : Places,
          damaged : BOOLEAN]

\* A sequence, whatever its elements are.
IsSequence(s) == s \in Seq({s[i] : i \in DOMAIN s})

\* The states of a recorder that has a segment under way.
Writing == {"opening", "connected", "sealed", "renamed", "synced", "manifested"}

FilesOK == files \in Seq(Files) /\ Len(files) = Len(connections)
ConnectionsOK == IsSequence(connections) /\ Len(connections) <= MaxConnections
RecorderOK == /\ DOMAIN recorder = DOMAIN Down
              /\ recorder.pc \in Writing => connections # <<>>
TablesOK == DOMAIN tables = 1 .. MaxConnections /\ DOMAIN normalized = 1 .. MaxConnections
Shape == FilesOK /\ ConnectionsOK /\ RecorderOK /\ TablesOK

\* A manifest has its segment beside it, and still has after a loss of power.
Sound(file) ==
    /\ "corrupt" \notin {file.data, file.dataSafe, file.manifest, file.manifestSafe}
    /\ file.manifest = "raw" => file.data = "raw" /\ file.dataSafe = "raw"
    /\ file.manifestSafe = "raw" => file.manifest = "raw"

\* How far finalize has come with the segment under way.
Finalized(pc, file) ==
    /\ pc = "renamed" => file.data = "raw"
    /\ pc \in {"synced", "manifested"} => file.data = "raw" /\ file.dataSafe = "raw"
    /\ pc = "manifested" => file.manifest = "raw"
Finalizing == files[Current].damaged \/ Finalized(recorder.pc, files[Current])

\* A segment without a manifest: nothing was normalized of it.
Unfinished(c) == \/ c > Len(connections)
                 \/ c = Len(connections) /\ recorder.pc \in Writing \ {"manifested"}
Untouched == \A c \in 1 .. MaxConnections : Unfinished(c) =>
                 /\ c \in DOMAIN files => files[c].manifest = "gone"
                 /\ DOMAIN tables[c] = {} /\ normalized[c] = None

\* The tables of a segment are those it is parsed to, and its manifest names all of them.
Fit(t, n, c) == /\ \A type \in DOMAIN t[c] : type \in RowTypes(c) /\ t[c][type] = RowsOf(c, type)
                /\ n[c] # None => n[c].types = RowTypes(c) /\ RowTypes(c) \subseteq DOMAIN t[c]

\* What is normalized is that, whatever was damaged.
Faithful == Untouched /\ \A c \in DOMAIN files : Fit(tables, normalized, c)

NotFailed == normalizerState # None => normalizerState.status # "failed"

\* Of every segment whose own data is whole, whatever became of the others.
Clean == /\ \A c \in DOMAIN files : ~ files[c].damaged => Sound(files[c])
         /\ Finalizing
         /\ NotFailed

CaptureInv == Shape /\ Faithful /\ Clean

\* The places of a manifest that was written: it is on disk, moved away or not.
Written == {"raw", "corrupt", "incomplete"}

\* It is, whatever a loss of power takes back.
Filed(file) == file.manifest \in Written /\ file.manifestSafe \in Written
StaysWritten(before, after) ==
    /\ before.manifest \in Written => after.manifest \in Written
    /\ Filed(before) => Filed(after)

-----------------------------------------------------------------------------
(* Sequences                                                                *)

\* The positions of a sequence are the numbers up to its length.
LEMMA SequenceDomain ==
    ASSUME NEW s, IsSequence(s)
    PROVE  Len(s) \in Nat /\ DOMAIN s = 1 .. Len(s) /\ (Len(s) = 0 <=> s = <<>>)
  BY DEF IsSequence

\* Opening a connection adds it behind those that were opened.
LEMMA SequenceAppended ==
    ASSUME NEW s, IsSequence(s), NEW e
    PROVE  /\ IsSequence(Append(s, e)) /\ Len(Append(s, e)) = Len(s) + 1
           /\ \A i \in DOMAIN s : Append(s, e)[i] = s[i]
<1> DEFINE elements == {s[i] : i \in DOMAIN s}
           all == elements \cup {e}
           r == Append(s, e)
<1>1. s \in Seq(all) /\ e \in all
  BY DEF IsSequence
<1> HIDE DEF elements, all
<1>2. r \in Seq(all) /\ Len(r) = Len(s) + 1 /\ \A i \in 1 .. Len(s) : r[i] = s[i]
  BY <1>1, AppendProperties
<1> HIDE DEF r
<1>3. IsSequence(r)
  <2>1. r \in [1 .. Len(r) -> {r[i] : i \in DOMAIN r}] /\ Len(r) \in Nat /\ DOMAIN r = 1 .. Len(r)
    BY <1>2
  <2> QED
    BY <2>1, SeqDef DEF IsSequence
<1> QED
  BY <1>1, <1>2, <1>3 DEF r

\* What is known of a connection changes in its place.
LEMMA SequenceChanged ==
    ASSUME NEW s, IsSequence(s), NEW r, r = [i \in DOMAIN s |-> r[i]]
    PROVE  IsSequence(r) /\ Len(r) = Len(s)
<1>1. Len(s) \in Nat /\ DOMAIN s = 1 .. Len(s)
  BY SequenceDomain
<1>2. r \in [1 .. Len(s) -> {r[i] : i \in DOMAIN r}]
  BY <1>1
<1>3. r \in Seq({r[i] : i \in DOMAIN r})
  BY <1>1, <1>2, SeqDef
<1> QED
  BY <1>1, <1>2, <1>3 DEF IsSequence

\* The same for where the files of the segments are.
LEMMA FilesChanged ==
    ASSUME NEW f \in Seq(Files), NEW g \in [DOMAIN f -> Files]
    PROVE  g \in Seq(Files) /\ Len(g) = Len(f)
<1>1. Len(f) \in Nat /\ DOMAIN f = 1 .. Len(f)
  OBVIOUS
<1>2. g \in Seq(Files)
  BY <1>1, SeqDef
<1> QED
  BY <1>1, <1>2

\* The files of one segment are changed.
LEMMA FileReplaced ==
    ASSUME NEW f \in Seq(Files), NEW c \in DOMAIN f, NEW x \in Files
    PROVE  /\ [f EXCEPT ![c] = x] \in Seq(Files) /\ Len([f EXCEPT ![c] = x]) = Len(f)
           /\ [f EXCEPT ![c] = x][c] = x
           /\ \A d \in DOMAIN f : d # c => [f EXCEPT ![c] = x][d] = f[d]
<1>1. DOMAIN f = 1 .. Len(f) /\ \A d \in 1 .. Len(f) : f[d] \in Files
  OBVIOUS
<1>2. [f EXCEPT ![c] = x] \in [DOMAIN f -> Files]
  BY <1>1
<1> QED
  BY <1>2, FilesChanged

\* The last element of a sequence that was extended.
LEMMA SequenceEnds ==
    ASSUME NEW s, IsSequence(s), NEW e
    PROVE  Append(s, e)[Len(s) + 1] = e
<1> DEFINE all == {s[i] : i \in DOMAIN s} \cup {e}
<1>1. s \in Seq(all) /\ e \in all
  BY DEF IsSequence
<1> HIDE DEF all
<1> QED
  BY <1>1, AppendProperties
\* A sequence of elements of some set is a sequence.
LEMMA SequenceOf ==
    ASSUME NEW S, NEW r \in Seq(S)
    PROVE  IsSequence(r)
<1>1. r \in [1 .. Len(r) -> {r[i] : i \in DOMAIN r}] /\ Len(r) \in Nat
  OBVIOUS
<1> QED
  BY <1>1, SeqDef DEF IsSequence

\* A sequence that is followed by another.
LEMMA SequenceJoined ==
    ASSUME NEW s, IsSequence(s), NEW t, IsSequence(t)
    PROVE  /\ IsSequence(s \o t) /\ Len(s \o t) = Len(s) + Len(t)
           /\ \A i \in 1 .. Len(s) : (s \o t)[i] = s[i]
           /\ \A i \in 1 .. Len(t) : (s \o t)[Len(s) + i] = t[i]
<1> DEFINE all == {s[i] : i \in DOMAIN s} \cup {t[i] : i \in DOMAIN t}
           r == s \o t
<1>1. s \in Seq(all) /\ t \in Seq(all)
  BY DEF IsSequence
<1> HIDE DEF all
<1>2. /\ r \in Seq(all) /\ Len(r) = Len(s) + Len(t)
      /\ \A i \in 1 .. Len(s) + Len(t) : r[i] = IF i <= Len(s) THEN s[i] ELSE t[i - Len(s)]
  BY <1>1, ConcatProperties
<1>3. Len(s) \in Nat /\ Len(t) \in Nat
  BY <1>1
<1> HIDE DEF r
<1>4. IsSequence(r)
  BY <1>2, SequenceOf
<1>5. \A i \in 1 .. Len(s) : r[i] = s[i]
  BY <1>2, <1>3
<1>6. ASSUME NEW i \in 1 .. Len(t)
      PROVE  r[Len(s) + i] = t[i]
  <2>1. Len(s) + i \in 1 .. Len(s) + Len(t) /\ ~ (Len(s) + i <= Len(s)) /\ (Len(s) + i) - Len(s) = i
    BY <1>3
  <2> QED
    BY <1>2, <2>1
<1> QED
  BY <1>2, <1>4, <1>5, <1>6 DEF r

\* What follows two sequences follows the second.
LEMMA SequencesAssociate ==
    ASSUME NEW s, IsSequence(s), NEW t, IsSequence(t), NEW u, IsSequence(u)
    PROVE  (s \o t) \o u = s \o (t \o u)
<1> DEFINE all == {s[i] : i \in DOMAIN s} \cup {t[i] : i \in DOMAIN t} \cup {u[i] : i \in DOMAIN u}
<1>1. s \in Seq(all) /\ t \in Seq(all) /\ u \in Seq(all)
  BY DEF IsSequence
<1> HIDE DEF all
<1> QED
  BY <1>1, ConcatAssociative

\* One more element.
LEMMA SequenceExtended ==
    ASSUME NEW s, IsSequence(s), NEW e
    PROVE  s \o <<e>> = Append(s, e) /\ IsSequence(<<e>>)
<1> DEFINE all == {s[i] : i \in DOMAIN s} \cup {e}
<1>1. s \in Seq(all) /\ e \in all
  BY DEF IsSequence
<1> HIDE DEF all
<1>2. <<e>> \in Seq(all)
  BY <1>1
<1> QED
  BY <1>1, <1>2, AppendIsConcat, SequenceOf

\* Nothing is added.
LEMMA SequenceAlone ==
    ASSUME NEW s, IsSequence(s)
    PROVE  s \o <<>> = s /\ <<>> \o s = s
<1> DEFINE all == {s[i] : i \in DOMAIN s}
<1>1. s \in Seq(all)
  BY DEF IsSequence
<1> HIDE DEF all
<1> QED
  BY <1>1, ConcatEmptySeq

\* The elements of a sequence after its first.
LEMMA SequenceTail ==
    ASSUME NEW s, IsSequence(s), Len(s) > 0
    PROVE  /\ IsSequence(Tail(s)) /\ Len(Tail(s)) = Len(s) - 1
           /\ \A i \in 1 .. Len(s) - 1 : Tail(s)[i] = s[i + 1]
<1> DEFINE all == {s[i] : i \in DOMAIN s}
           r == Tail(s)
<1>1. s \in Seq(all) /\ s # <<>>
  BY SequenceDomain DEF IsSequence
<1> HIDE DEF all
<1>2. r \in Seq(all) /\ Len(r) = Len(s) - 1 /\ \A i \in 1 .. Len(r) : r[i] = s[i + 1]
  BY <1>1, HeadTailProperties
<1> HIDE DEF r
<1>3. IsSequence(r)
  BY <1>2, SequenceOf
<1> QED
  BY <1>2, <1>3 DEF r

\* A sequence without repetitions is as long as the set of its elements is large.
LEMMA DistinctElements ==
    ASSUME NEW s, IsSequence(s), \A j, k \in DOMAIN s : s[j] = s[k] => j = k
    PROVE  IsFiniteSet(ToSet(s)) /\ Cardinality(ToSet(s)) = Len(s)
<1>1. Len(s) \in Nat /\ DOMAIN s = 1 .. Len(s)
  BY SequenceDomain
<1>2. s \in [1 .. Len(s) -> ToSet(s)]
  <2>1. s \in Seq(ToSet(s))
    BY DEF IsSequence, ToSet
  <2> QED
    BY <1>1, <2>1
<1>3. s \in Bijection(1 .. Len(s), ToSet(s))
  <2>1. s \in Injection(1 .. Len(s), ToSet(s))
    BY <1>1, <1>2 DEF Injection, IsInjective
  <2>2. \A t \in ToSet(s) : \E i \in 1 .. Len(s) : s[i] = t
    BY <1>1 DEF ToSet
  <2>3. s \in Surjection(1 .. Len(s), ToSet(s))
    BY <1>2, <2>2 DEF Surjection
  <2> QED
    BY <2>1, <2>3 DEF Bijection
<1>4. ExistsBijection(1 .. Len(s), ToSet(s))
  BY <1>3 DEF ExistsBijection
<1>5. Cardinality(ToSet(s)) = Len(s)
  BY <1>1, <1>4, FS_CountingElements
<1>6. IsFiniteSet(ToSet(s))
  BY <1>1, <1>4, FS_NatBijection
<1> QED
  BY <1>5, <1>6

-----------------------------------------------------------------------------
(* One batch of the normalizer                                              *)

BatchFields == {"files", "tables", "normalized", "cataloged", "quarantined", "failed"}

\* What a batch did so far: it damages nothing, writes what fits, and is about
\* what is pending. It moves nothing away but what is damaged and fails at nothing.
BatchOK(b) ==
    /\ DOMAIN b = BatchFields
    /\ b.files \in Seq(Files) /\ Len(b.files) = Len(files)
    /\ \A c \in DOMAIN files : /\ b.files[c].damaged = files[c].damaged
                              /\ StaysWritten(files[c], b.files[c])
    /\ DOMAIN b.tables = 1 .. MaxConnections /\ DOMAIN b.normalized = 1 .. MaxConnections
    /\ \A c \in DOMAIN files : Fit(b.tables, b.normalized, c)
    /\ \A c \in DOMAIN files \ Pending : b.files[c] = files[c]
    /\ \A c \in 1 .. MaxConnections \ Pending :
           b.tables[c] = tables[c] /\ b.normalized[c] = normalized[c]
    /\ \A c \in DOMAIN files : ~ files[c].damaged => b.files[c] = files[c]
    /\ b.failed = FALSE

LastOf(p, T) == Max(T)
ProcessStep(p, b, c) == Process(b, c)
ProcessClaim(p, T, b) == BatchOK(b)
Processing == INSTANCE FoldFacts WITH Op <- ProcessStep, Pick <- LastOf, Holds <- ProcessClaim

\* A batch starts with nothing done.
LEMMA BatchStarts ==
    ASSUME CaptureInv
    PROVE  BatchOK(Batch)
  BY DEF BatchOK, BatchFields, Batch, CaptureInv, Faithful, Shape, FilesOK, TablesOK,
         StaysWritten

\* A segment that is pending is one whose files are known.
LEMMA PendingIsOpened ==
    ASSUME CaptureInv
    PROVE  Pending \in SUBSET DOMAIN files /\ DOMAIN files \in SUBSET (1 .. MaxConnections)
<1>1. Len(connections) \in Nat /\ Len(connections) <= MaxConnections /\ MaxConnections \in Nat
  BY SequenceDomain, CaptureAssumption DEF CaptureInv, Shape, ConnectionsOK
<1>2. DOMAIN files = 1 .. Len(connections)
  BY DEF CaptureInv, Shape, FilesOK
<1> QED
  BY <1>1, <1>2 DEF Pending, Opened

\* Moving a segment away keeps what its files are, and whether they are damaged.
LEMMA MovedAway ==
    ASSUME NEW f \in Files, NEW place \in Places
    PROVE  /\ Move(f, place) \in Files /\ Move(f, place).damaged = f.damaged
           /\ MoveManifest(f, place) \in Files /\ MoveManifest(f, place).damaged = f.damaged
           /\ StaysWritten(f, Move(f, place))
           /\ place \in Written => StaysWritten(f, MoveManifest(f, place))
  BY DEF Move, MoveManifest, Files, Places, StaysWritten, Filed

\* The loop of run_once goes through the manifests from the oldest.
LEMMA LastOfLoop ==
    ASSUME NEW S \in SUBSET Int, IsFiniteSet(S)
    PROVE  Processing!Picks({}, S)
<1> SUFFICES ASSUME NEW T \in SUBSET S, T # {} PROVE Max(T) \in T
  BY DEF Processing!Picks, LastOf
<1>1. IsFiniteSet(T) /\ T \in SUBSET Int
  BY FS_Subset
<1>2. \E x \in T : \A y \in T : y <= x
  BY <1>1, Processing!GreatestElement DEF IsFiniteSet, Processing!IsFiniteSet
<1>3. \E x \in T : \A y \in T : x >= y
  BY <1>1, <1>2
<1> QED
  BY <1>1, <1>3 DEF Max

\* The one segment a batch is at. What was normalized before is complete, what
\* was not verifies unless it is damaged, and its tables meet no other.
LEMMA ProcessKeeps ==
    ASSUME CaptureInv, NEW b, BatchOK(b), NEW c \in Pending
    PROVE  BatchOK(Process(b, c))
<1> DEFINE moved == [b EXCEPT !.files[c] = MoveManifest(Move(@, "corrupt"), "corrupt"),
                              !.quarantined = @ + 1]
           done == [b EXCEPT !.cataloged = @ \union {c}]
           written == [b EXCEPT !.tables[c] = TablesOf(c), !.normalized[c] = ManifestOf(c),
                                !.cataloged = @ \union {c}]
<1>1. c \in DOMAIN files /\ c \in 1 .. MaxConnections /\ files[c].manifest = "raw"
  BY PendingIsOpened DEF Pending
<1>2. ~ Conflict(c) /\ (normalized[c] # None => FilesValid(c))
  BY <1>1 DEF CaptureInv, Faithful, Conflict, Fit, FilesValid, TablesOf
<1>3. ~ Verifies(c) => files[c].damaged
  BY <1>1 DEF CaptureInv, Clean, Sound, Verifies
<1>4. BatchOK(done)
  BY DEF BatchOK, BatchFields
<1>5. ASSUME files[c].damaged PROVE BatchOK(moved)
  <2> DEFINE f == MoveManifest(Move(b.files[c], "corrupt"), "corrupt")
             all == [b.files EXCEPT ![c] = f]
  <2>1. b.files \in Seq(Files) /\ DOMAIN b.files = DOMAIN files /\ b.files[c] \in Files
    BY <1>1 DEF BatchOK, CaptureInv, Shape, FilesOK
  <2>2. f \in Files /\ f.damaged = files[c].damaged /\ StaysWritten(files[c], f)
    <3> DEFINE g == b.files[c]
               h == Move(g, "corrupt")
    <3>1. "corrupt" \in Places /\ "corrupt" \in Written
      BY DEF Places, Written
    <3>2. g.damaged = files[c].damaged /\ StaysWritten(files[c], g) /\ g \in Files
      BY <1>1, <2>1 DEF BatchOK
    <3> HIDE DEF g
    <3>3. h \in Files /\ h.damaged = g.damaged /\ StaysWritten(g, h)
      BY <3>1, <3>2, MovedAway
    <3>4. f = MoveManifest(h, "corrupt")
      BY DEF g
    <3> HIDE DEF h, f
    <3>5. f \in Files /\ f.damaged = h.damaged /\ StaysWritten(h, f)
      BY <3>1, <3>3, <3>4, MovedAway
    <3> QED
      BY <3>2, <3>3, <3>5 DEF StaysWritten
  <2>3. moved.files = all /\ moved.tables = b.tables /\ moved.normalized = b.normalized
        /\ DOMAIN moved = BatchFields /\ moved.failed = FALSE
    BY DEF BatchOK, BatchFields
  <2> HIDE DEF f
  <2>4. /\ all \in Seq(Files) /\ Len(all) = Len(b.files)
        /\ all[c] = f /\ \A d \in DOMAIN b.files : d # c => all[d] = b.files[d]
    BY <1>1, <2>1, <2>2, FileReplaced
  <2> HIDE DEF all
  <2>5. \A d \in DOMAIN files : all[d].damaged = files[d].damaged /\ StaysWritten(files[d], all[d])
    BY <2>1, <2>2, <2>4 DEF BatchOK
  <2>6. all \in Seq(Files) /\ Len(all) = Len(files)
    BY <2>4 DEF BatchOK
  <2>7. /\ \A d \in DOMAIN files \ Pending : all[d] = files[d]
        /\ \A d \in DOMAIN files : ~ files[d].damaged => all[d] = files[d]
    BY <1>5, <2>1, <2>4 DEF BatchOK
  <2> HIDE DEF moved
  <2> QED
    BY <2>3, <2>5, <2>6, <2>7 DEF BatchOK
<1>6. BatchOK(written)
  <2> DEFINE t == [b.tables EXCEPT ![c] = TablesOf(c)]
             n == [b.normalized EXCEPT ![c] = ManifestOf(c)]
  <2>1. /\ written.files = b.files /\ written.tables = t /\ written.normalized = n
        /\ written.failed = b.failed /\ DOMAIN written = BatchFields
    BY DEF BatchOK, BatchFields
  <2>2. DOMAIN t = 1 .. MaxConnections /\ DOMAIN n = 1 .. MaxConnections
    BY DEF BatchOK
  <2>3. t[c] = TablesOf(c) /\ n[c] = ManifestOf(c)
    BY <1>1 DEF BatchOK
  <2>4. \A d \in 1 .. MaxConnections \ {c} : t[d] = b.tables[d] /\ n[d] = b.normalized[d]
    BY DEF BatchOK
  <2>5. Fit(t, n, c)
    BY <2>3 DEF Fit, TablesOf, ManifestOf
  <2>6. ASSUME NEW d \in DOMAIN files
        PROVE  Fit(t, n, d)
    <3>1. d \in 1 .. MaxConnections
      BY PendingIsOpened
    <3>2. CASE d # c
      BY <2>4, <3>1, <3>2 DEF Fit, BatchOK
    <3> QED
      BY <2>5, <3>2
  <2>7. \A d \in 1 .. MaxConnections \ Pending : t[d] = tables[d] /\ n[d] = normalized[d]
    BY <2>4 DEF BatchOK
  <2> HIDE DEF t, n, written
  <2> QED
    BY <2>1, <2>2, <2>6, <2>7 DEF BatchOK
<1> HIDE DEF moved, done, written
<1>7. Process(b, c) \in {b, done, written} \/ (files[c].damaged /\ Process(b, c) = moved)
  BY <1>2, <1>3 DEF Process, done, written, moved
<1> QED
  BY <1>4, <1>5, <1>6, <1>7

\* What is true of a batch that is under way is true of it at its end, and of
\* the part of it that a kill left.
LEMMA ProcessAllKeeps ==
    ASSUME CaptureInv, NEW b, BatchOK(b), NEW S \in SUBSET Pending
    PROVE  BatchOK(ProcessAll(b, S))
<1> DEFINE p == {}
<1>1. S \in SUBSET Int /\ IsFiniteSet(S)
  <2>1. DOMAIN files = 1 .. Len(files) /\ Len(files) \in Nat
    BY DEF CaptureInv, Shape, FilesOK
  <2>2. IsFiniteSet(1 .. Len(files))
    BY <2>1, FS_Interval
  <2> QED
    BY <2>1, <2>2, PendingIsOpened, FS_Subset
<1>2. ProcessAll(b, S) = Processing!Loop(p, b, S)
  BY DEF ProcessAll, Processing!Loop, ProcessStep, LastOf, MapThenFoldSet,
         Processing!MapThenFoldSet, Max
<1>3. Processing!Picks(p, S)
  BY <1>1, LastOfLoop
<1>4. ASSUME NEW c \in S, NEW x, BatchOK(x)
      PROVE  BatchOK(ProcessStep(p, x, c))
  BY <1>4, ProcessKeeps DEF ProcessStep
<1>5. \A T \in SUBSET S : \A x : T # {} /\ ProcessClaim(p, T \ {LastOf(p, T)}, x)
                                   => ProcessClaim(p, T, ProcessStep(p, x, LastOf(p, T)))
  BY <1>3, <1>4 DEF Processing!Picks, ProcessClaim
<1>6. ProcessClaim(p, {}, b)
  BY DEF ProcessClaim
<1> HIDE DEF p
<1>7. ProcessClaim(p, S, Processing!Loop(p, b, S))
  BY <1>1, <1>3, <1>5, <1>6, Processing!LoopKeeps DEF IsFiniteSet, Processing!IsFiniteSet
<1> QED
  BY <1>2, <1>7 DEF ProcessClaim

\* What a kill leaves of the segment the batch was at: tables that are right
\* and not yet named, or data that was damaged.
LEMMA TornKeeps ==
    ASSUME CaptureInv, NEW c \in Pending, NEW b \in Torn(c)
    PROVE  BatchOK(b)
<1>1. c \in DOMAIN files /\ c \in 1 .. MaxConnections /\ files[c].manifest = "raw"
  BY PendingIsOpened DEF Pending
<1>2. BatchOK(Batch)
  BY BatchStarts
<1> DEFINE moved == [Batch EXCEPT !.files[c] = Move(@, "corrupt")]
           torn(names) == [Batch EXCEPT !.tables[c] = WithTables(c, names)]
           whole == [Batch EXCEPT !.tables[c] = TablesOf(c), !.normalized[c] = ManifestOf(c)]
<1>3. CASE normalized[c] # None
  BY <1>2, <1>3 DEF Torn
<1>4. CASE normalized[c] = None /\ ~ Verifies(c)
  <2>1. files[c].damaged
    BY <1>1, <1>4 DEF CaptureInv, Clean, Sound, Verifies
  <2> DEFINE f == Move(files[c], "corrupt")
             all == [files EXCEPT ![c] = f]
  <2>2. files \in Seq(Files) /\ files[c] \in Files
    BY <1>1 DEF CaptureInv, Shape, FilesOK
  <2>3. f \in Files /\ f.damaged = files[c].damaged /\ StaysWritten(files[c], f)
    <3>1. "corrupt" \in Places
      BY DEF Places
    <3> QED
      BY <2>2, <3>1, MovedAway
  <2>4. moved.files = all /\ moved.tables = tables /\ moved.normalized = normalized
        /\ DOMAIN moved = BatchFields /\ moved.failed = FALSE
    BY DEF Batch, BatchFields
  <2> HIDE DEF f
  <2>5. /\ all \in Seq(Files) /\ Len(all) = Len(files)
        /\ all[c] = f /\ \A d \in DOMAIN files : d # c => all[d] = files[d]
    BY <1>1, <2>2, <2>3, FileReplaced
  <2> HIDE DEF all
  <2>6. \A d \in DOMAIN files : all[d].damaged = files[d].damaged /\ StaysWritten(files[d], all[d])
    BY <2>3, <2>5 DEF StaysWritten
  <2>8. /\ \A d \in DOMAIN files \ Pending : all[d] = files[d]
        /\ \A d \in DOMAIN files : ~ files[d].damaged => all[d] = files[d]
    BY <2>1, <2>5
  <2> HIDE DEF moved
  <2>7. BatchOK(moved)
    BY <2>4, <2>5, <2>6, <2>8 DEF BatchOK, CaptureInv, Faithful, Shape, TablesOK
  <2> QED
    BY <1>2, <1>4, <2>7 DEF Torn, moved
<1>5. CASE normalized[c] = None /\ Verifies(c)
  <2>1. ASSUME NEW u, NEW n, NEW b0, DOMAIN b0 = BatchFields, b0.files = files, b0.failed = FALSE,
               b0.tables = [tables EXCEPT ![c] = u], DOMAIN b0.normalized = 1 .. MaxConnections,
               b0.normalized[c] = n,
               \A d \in 1 .. MaxConnections \ {c} : b0.normalized[d] = normalized[d],
               \A type \in DOMAIN u : type \in RowTypes(c) /\ u[type] = RowsOf(c, type),
               n # None => n.types = RowTypes(c) /\ RowTypes(c) \subseteq DOMAIN u
        PROVE  BatchOK(b0)
    <3>1. b0.tables[c] = u /\ b0.normalized[c] = n
          /\ DOMAIN b0.tables = 1 .. MaxConnections /\ DOMAIN b0.normalized = 1 .. MaxConnections
      BY <1>1, <2>1 DEF CaptureInv, Shape, TablesOK
    <3>2. \A d \in 1 .. MaxConnections \ {c} :
              b0.tables[d] = tables[d] /\ b0.normalized[d] = normalized[d]
      BY <2>1 DEF CaptureInv, Shape, TablesOK
    <3>3. ASSUME NEW d \in DOMAIN files
          PROVE  Fit(b0.tables, b0.normalized, d)
      <4>1. d \in 1 .. MaxConnections /\ Fit(tables, normalized, d)
        BY PendingIsOpened DEF CaptureInv, Faithful
      <4>2. CASE d # c
        BY <3>2, <4>1, <4>2 DEF Fit
      <4>3. CASE d = c
        BY <2>1, <3>1, <4>3 DEF Fit
      <4> QED
        BY <4>2, <4>3
    <3>4. b0.files \in Seq(Files)
      BY <2>1 DEF CaptureInv, Shape, FilesOK
    <3>5. \A d \in DOMAIN files : StaysWritten(files[d], b0.files[d])
      BY <2>1 DEF StaysWritten
    <3> QED
      BY <2>1, <3>1, <3>2, <3>3, <3>4, <3>5 DEF BatchOK
  <2>2. ASSUME NEW names \in SUBSET RowTypes(c)
        PROVE  BatchOK(torn(names))
    <3> DEFINE u == WithTables(c, names)
    <3>1. /\ DOMAIN u = names \cup DOMAIN tables[c]
          /\ \A type \in names : u[type] = RowsOf(c, type)
          /\ \A type \in DOMAIN tables[c] \ names : u[type] = tables[c][type]
      BY DEF WithTables
    <3> HIDE DEF u
    <3>2. DOMAIN normalized = 1 .. MaxConnections
      BY DEF CaptureInv, Shape, TablesOK
    <3>4. DOMAIN torn(names) = BatchFields /\ torn(names).files = files
          /\ torn(names).failed = FALSE /\ torn(names).tables = [tables EXCEPT ![c] = u]
          /\ torn(names).normalized = normalized
      BY DEF Batch, BatchFields, u
    <3> HIDE DEF torn
    <3>5. \A type \in DOMAIN u : type \in RowTypes(c) /\ u[type] = RowsOf(c, type)
      BY <1>1, <3>1 DEF CaptureInv, Faithful, Fit
    <3> QED
      BY <1>5, <2>1, <3>2, <3>4, <3>5
  <2>3. BatchOK(whole)
    <3>1. DOMAIN whole = BatchFields /\ whole.files = files /\ whole.failed = FALSE
          /\ whole.tables = [tables EXCEPT ![c] = TablesOf(c)]
          /\ whole.normalized = [normalized EXCEPT ![c] = ManifestOf(c)]
      BY DEF Batch, BatchFields
    <3> HIDE DEF whole
    <3>3. DOMAIN whole.normalized = 1 .. MaxConnections /\ whole.normalized[c] = ManifestOf(c)
          /\ \A d \in 1 .. MaxConnections \ {c} : whole.normalized[d] = normalized[d]
      BY <1>1, <3>1 DEF CaptureInv, Shape, TablesOK
    <3>2. DOMAIN TablesOf(c) = RowTypes(c) /\ ManifestOf(c).types = RowTypes(c)
          /\ \A type \in RowTypes(c) : TablesOf(c)[type] = RowsOf(c, type)
      BY DEF TablesOf, ManifestOf
    <3> DEFINE u == TablesOf(c)
               n == ManifestOf(c)
    <3>4. DOMAIN u = RowTypes(c) /\ n.types = RowTypes(c)
          /\ \A type \in RowTypes(c) : u[type] = RowsOf(c, type)
      BY <3>2
    <3>5. whole.tables = [tables EXCEPT ![c] = u] /\ whole.normalized[c] = n
      BY <3>1, <3>3
    <3> HIDE DEF u, n
    <3>6. /\ \A type \in DOMAIN u : type \in RowTypes(c) /\ u[type] = RowsOf(c, type)
          /\ n # None => n.types = RowTypes(c) /\ RowTypes(c) \subseteq DOMAIN u
      BY <3>4
    <3> DEFINE w == whole
    <3>7. w.files = files /\ w.failed = FALSE /\ DOMAIN w = BatchFields
      BY <3>1
    <3>8. DOMAIN w.normalized = 1 .. MaxConnections
          /\ \A d \in 1 .. MaxConnections \ {c} : w.normalized[d] = normalized[d]
      BY <3>3
    <3>9. w.tables = [tables EXCEPT ![c] = u] /\ w.normalized[c] = n
      BY <3>5
    <3> HIDE DEF w
    <3>10. BatchOK(w)
      BY ONLY <2>1, <3>6, <3>7, <3>8, <3>9
    <3> QED
      BY <3>10 DEF w
  <2>4. b = whole \/ \E names \in SUBSET RowTypes(c) : b = torn(names)
    BY <1>5 DEF Torn
  <2> QED
    BY <2>2, <2>3, <2>4
<1> QED
  BY <1>3, <1>4, <1>5
-----------------------------------------------------------------------------
(* Steps that leave the tables alone                                        *)

\* The files of the segments may change, damage is for ever.
FilesFollow == /\ FilesOK' /\ DOMAIN files \subseteq DOMAIN files'
               /\ \A c \in DOMAIN files : files[c].damaged => files'[c].damaged

\* What the files of a step must show.
FilesClean == /\ \A c \in DOMAIN files' : ~ files'[c].damaged => Sound(files'[c])
              /\ Finalizing'

\* A segment that is not finished has no manifest.
Unnamed == \A c \in DOMAIN files' : Unfinished(c)' => files'[c].manifest = "gone"

\* A finished segment stays finished and is parsed to what it was parsed to.
RowsStay == /\ \A c \in 1 .. MaxConnections : Unfinished(c)' => Unfinished(c)
            /\ \A c \in DOMAIN files' : ~ Unfinished(c) =>
                   c \in DOMAIN files /\ connections'[c].tracked = connections[c].tracked

\* Positions of the segments are connections that were opened.
LEMMA OpenedSegments ==
    ASSUME Shape
    PROVE  /\ Len(connections) \in Nat /\ DOMAIN connections = 1 .. Len(connections)
           /\ Opened = DOMAIN connections /\ Opened = DOMAIN files
           /\ Len(connections) <= MaxConnections /\ MaxConnections \in Nat
           /\ recorder.pc \in Writing => Current \in DOMAIN files
<1>1. /\ Len(connections) \in Nat /\ DOMAIN connections = 1 .. Len(connections)
      /\ (Len(connections) = 0 <=> connections = <<>>)
  BY SequenceDomain DEF Shape, ConnectionsOK
<1>2. DOMAIN files = 1 .. Len(connections)
  BY DEF Shape, FilesOK
<1>3. recorder.pc \in Writing => Len(connections) # 0
  BY <1>1 DEF Shape, RecorderOK
<1>4. recorder.pc \in Writing => Current \in 1 .. Len(connections)
  BY <1>1, <1>3 DEF Current
<1> QED
  BY <1>1, <1>2, <1>4, CaptureAssumption DEF Opened, Shape, ConnectionsOK

\* The invariant of such a step.
LEMMA RecorderStep ==
    ASSUME CaptureInv, UNCHANGED <<tables, normalized>>, NotFailed => NotFailed',
           FilesFollow, ConnectionsOK', RecorderOK', RowsStay, Unnamed,
           FilesClean
    PROVE  CaptureInv'
<1>1. Shape'
  BY DEF CaptureInv, Shape, FilesFollow, TablesOK
<1>3. Untouched'
  BY DEF CaptureInv, Faithful, RowsStay, Unnamed, Untouched
<1>4. ASSUME NEW c \in DOMAIN files'
      PROVE  Fit(tables, normalized, c)'
  <2>1. CASE Unfinished(c)
    <3>1. c \in 1 .. MaxConnections
      <4>1. Opened' = DOMAIN files' /\ Len(connections)' <= MaxConnections /\ Len(connections)' \in Nat
            /\ MaxConnections \in Nat /\ DOMAIN connections' = 1 .. Len(connections)'
        BY <1>1, OpenedSegments, CaptureAssumption, SequenceDomain DEF Shape, ConnectionsOK, FilesOK, Opened
      <4> QED
        BY <4>1 DEF Opened
    <3> QED
      BY <2>1, <3>1 DEF CaptureInv, Faithful, Untouched, Fit
  <2>2. CASE ~ Unfinished(c)
    <3>1. c \in DOMAIN files /\ connections'[c].tracked = connections[c].tracked
      BY <2>2 DEF RowsStay
    <3>2. Rows(c)' = Rows(c)
      BY <3>1 DEF Rows
    <3>3. RowTypes(c)' = RowTypes(c) /\ \A type : RowsOf(c, type)' = RowsOf(c, type)
      BY <3>2 DEF RowTypes, RowsOf
    <3>4. Fit(tables, normalized, c)
      BY <3>1 DEF CaptureInv, Faithful
    <3> QED
      BY <3>3, <3>4 DEF Fit
  <2> QED
    BY <2>1, <2>2
<1>5. Clean'
  BY DEF CaptureInv, Clean, FilesClean
<1> QED
  BY <1>1, <1>3, <1>4, <1>5 DEF CaptureInv, Faithful

\* A step that touches no file: the recorder goes on, or it ends the connection
\* it has, and only that connection is written about.
LogKept == /\ connections' = [i \in DOMAIN connections |-> connections'[i]]
           /\ \A i \in DOMAIN connections :
                  connections'[i].tracked = connections[i].tracked \/ Unfinished(i)

Early == {"opening", "connected", "sealed"}
Idle == {"idle", "waiting", "down"}
PcKept == /\ DOMAIN recorder' = DOMAIN Down
          /\ \/ recorder'.pc \in Idle
             \/ recorder'.pc = recorder.pc
             \/ recorder'.pc \in Early /\ recorder.pc \in Early

LEMMA LogStep ==
    ASSUME CaptureInv, UNCHANGED <<files, tables, normalized>>, NotFailed => NotFailed',
           LogKept, PcKept
    PROVE  CaptureInv'
<1>1. Shape
  BY DEF CaptureInv
<1>2. IsSequence(connections') /\ Len(connections') = Len(connections)
  BY <1>1, SequenceChanged DEF Shape, ConnectionsOK, LogKept
<1>3. ConnectionsOK'
  BY <1>1, <1>2 DEF Shape, ConnectionsOK
<1>4. FilesFollow
  BY <1>1, <1>2 DEF Shape, FilesOK, FilesFollow
<1>5. recorder'.pc \in Writing => recorder.pc \in Writing
  BY DEF PcKept, Writing, Early, Idle
<1>6. connections' = <<>> <=> connections = <<>>
  BY <1>1, <1>2, SequenceDomain DEF Shape, ConnectionsOK
<1>7. RecorderOK'
  BY <1>1, <1>5, <1>6 DEF Shape, RecorderOK, PcKept
<1>8. \A c \in 1 .. MaxConnections : Unfinished(c)' => Unfinished(c)
  BY <1>2 DEF Unfinished, PcKept, Writing, Early, Idle
<1>9. RowsStay
  BY <1>1, <1>8, OpenedSegments DEF RowsStay, LogKept
<1>10. FilesClean
  <2>1. Finalizing'
    BY <1>2 DEF CaptureInv, Clean, Finalizing, Finalized, Current, PcKept, Early, Idle
  <2> QED
    BY <2>1 DEF FilesClean, CaptureInv, Clean
<1>11. Unnamed
  BY <1>1, <1>8, OpenedSegments DEF CaptureInv, Faithful, Untouched, Unnamed, Opened
<1> QED
  BY <1>3, <1>4, <1>7, <1>9, <1>10, <1>11, RecorderStep
-----------------------------------------------------------------------------
(* The recorder                                                             *)

\* A segment whose footer is not yet renamed has a connection under way.
LEMMA Underway ==
    ASSUME Shape, recorder.pc \in Writing \ {"manifested"}
    PROVE  Unfinished(Current) /\ Current \in DOMAIN connections /\ Current \in DOMAIN files
  BY OpenedSegments DEF Unfinished, Current

\* A connection that nothing is written about is as it was.
LEMMA LogSame ==
    ASSUME Shape, UNCHANGED connections
    PROVE  LogKept
  BY OpenedSegments DEF LogKept, Shape, ConnectionsOK, IsSequence

\* The end of a connection writes its reason down and seals its segment.
LEMMA EndKeeps ==
    ASSUME Shape, recorder.pc \in {"opening", "connected"}, NEW r, DOMAIN r = DOMAIN Down,
           NEW log, DOMAIN log = DOMAIN connections,
           \A i \in DOMAIN connections : log[i] = connections[i] \/ i = Current,
           NEW reason, NEW outcome, End(r, log, reason, outcome)
    PROVE  LogKept /\ PcKept
<1>1. Unfinished(Current)
  BY Underway DEF Writing
<1>2. connections' = [log EXCEPT ![Current].reason = reason]
  BY DEF End
<1>3. DOMAIN connections' = DOMAIN connections
      /\ connections' = [i \in DOMAIN connections |-> connections'[i]]
  BY <1>2
<1>4. \A i \in DOMAIN connections : i # Current => connections'[i] = connections[i]
  BY <1>2
<1>5. LogKept
  BY <1>1, <1>3, <1>4 DEF LogKept
<1>6. recorder' = [r EXCEPT !.pc = "sealed", !.outcome = outcome]
  BY DEF End
<1>7. DOMAIN recorder' = DOMAIN Down /\ recorder'.pc = "sealed"
  BY <1>6 DEF Down
<1> QED
  BY <1>5, <1>7 DEF PcKept, Early

\* What is archived is written about the connection under way.
LEMMA ArchivedKeeps ==
    ASSUME NEW w
    PROVE  /\ DOMAIN Archived(w) = DOMAIN connections
           /\ Archived(w) = [i \in DOMAIN connections |-> Archived(w)[i]]
           /\ \A i \in DOMAIN connections : Archived(w)[i] = connections[i] \/ i = Current
  BY DEF Archived

\* A recorder keeps its fields when it counts.
LEMMA CountedKeeps ==
    ASSUME DOMAIN recorder = DOMAIN Down, NEW before, NEW after
    PROVE  /\ DOMAIN Counted(before, after) = DOMAIN Down
           /\ Counted(before, after).pc = recorder.pc
<1>1. DOMAIN Down = {"pc", "outcome", "reconnects", "frames", "finalized", "lastFrame",
                     "heard", "opened", "issues"}
  BY DEF Down
<1> QED
  BY <1>1 DEF Counted

\* The process starts, and stops for whatever reason, with no segment.
LEMMA StartKeeps ==
    ASSUME CaptureInv, NEW automatic \in BOOLEAN, StartRecorder(automatic)
    PROVE  CaptureInv'
<1>1. PcKept
  BY DEF StartRecorder, PcKept, Idle, Down
<1>2. (NotFailed => NotFailed') /\ LogKept
  BY LogSame DEF StartRecorder, CaptureInv, normalizerVars, NotFailed
<1> QED
  BY <1>1, <1>2, LogStep DEF StartRecorder, normalizerVars
\* The socket, the counters and the signals of the recorder.
LEMMA ConnectKeeps ==
    ASSUME CaptureInv, Connect \/ RequestStop \/ Reconnect \/ LeaveLoop \/ CrashRecorder
    PROVE  CaptureInv'
<1>1. DOMAIN recorder = DOMAIN Down
  BY DEF CaptureInv, Shape, RecorderOK
<1>2. PcKept
  <2>1. CASE Connect
    BY <1>1, <2>1 DEF Connect, PcKept, Early
  <2>2. CASE RequestStop
    BY <1>1, <2>2 DEF RequestStop, PcKept
  <2>3. CASE Reconnect
    <3>1. recorder' = Down \/ recorder' = [recorder EXCEPT !.pc = "idle"]
      BY <2>3 DEF Reconnect
    <3> QED
      BY <1>1, <3>1 DEF PcKept, Idle, Down
  <2>4. CASE LeaveLoop \/ CrashRecorder
    BY <2>4 DEF LeaveLoop, CrashRecorder, PcKept, Idle, Down
  <2> QED
    BY <2>1, <2>2, <2>3, <2>4
<1>3. LogKept /\ (NotFailed => NotFailed')
  <2>1. UNCHANGED connections /\ UNCHANGED normalizerState
    BY DEF Connect, RequestStop, Reconnect, LeaveLoop, CrashRecorder, normalizerVars
  <2> QED
    BY <2>1, LogSame DEF CaptureInv, NotFailed
<1>4. UNCHANGED <<files, tables, normalized>>
  BY DEF Connect, RequestStop, Reconnect, LeaveLoop, CrashRecorder, normalizerVars
<1> QED
  BY <1>2, <1>3, <1>4, LogStep

\* The frame that is received, and what may follow it at once.
LEMMA FrameKeeps ==
    ASSUME CaptureInv, NEW w, Receive(w) \/ RunOutOfSpace(w) \/ FailConsumer(w)
    PROVE  CaptureInv'
<1>1. Shape /\ DOMAIN recorder = DOMAIN Down
  BY DEF CaptureInv, Shape, RecorderOK
<1>2. UNCHANGED <<files, tables, normalized>> /\ (NotFailed => NotFailed')
  BY DEF Receive, RunOutOfSpace, FailConsumer, normalizerVars, NotFailed
<1>3. recorder.pc = "connected" /\ recorder.pc \in {"opening", "connected"}
  BY DEF Receive, RunOutOfSpace, FailConsumer
<1> DEFINE before == connections[Current].tracked.tracker.issues
           log == Archived(w)
           after == log[Current].tracked.tracker.issues
           counted == Counted(before, after)
           short == [recorder EXCEPT !.frames = @ + 1, !.lastFrame = now,
                                     !.issues["disk_pressure"] = @ + 1]
<1>4. DOMAIN counted = DOMAIN Down /\ counted.pc = recorder.pc
  BY <1>1, CountedKeeps
<1>5. DOMAIN short = DOMAIN Down
  <2>1. DOMAIN short = DOMAIN recorder
    OBVIOUS
  <2> QED
    BY <1>1, <2>1
<1>6. LogKept /\ PcKept
  <2>1. ASSUME NEW r, DOMAIN r = DOMAIN Down, NEW reason, NEW outcome,
               End(r, log, reason, outcome)
        PROVE  LogKept /\ PcKept
    <3>1. DOMAIN log = DOMAIN connections
          /\ \A i \in DOMAIN connections : log[i] = connections[i] \/ i = Current
      BY ArchivedKeeps
    <3> HIDE DEF log
    <3> QED
      BY <1>1, <1>3, <2>1, <3>1, EndKeeps
  <2>2. ASSUME recorder' = counted, connections' = log
        PROVE  LogKept /\ PcKept
    <3>1. Unfinished(Current)
      BY <1>1, <1>3, Underway DEF Writing
    <3>2. LogKept
      BY <2>2, <3>1, ArchivedKeeps DEF LogKept
    <3>3. PcKept
      BY <1>4, <2>2 DEF PcKept
    <3> QED
      BY <3>2, <3>3
  <2>3. CASE RunOutOfSpace(w)
    BY <1>5, <2>1, <2>3 DEF RunOutOfSpace
  <2>4. CASE FailConsumer(w)
    BY <1>4, <2>1, <2>4 DEF FailConsumer
  <2>5. CASE Receive(w)
    BY <1>4, <2>1, <2>2, <2>5 DEF Receive
  <2> QED
    BY <2>3, <2>4, <2>5
<1> QED
  BY <1>2, <1>6, LogStep

\* A connection that ends without another frame.
LEMMA BreakKeeps ==
    ASSUME CaptureInv, Halt \/ GoStale \/ \E reason \in {"disconnect", "error"} : Break(reason)
    PROVE  CaptureInv'
<1>1. Shape /\ DOMAIN recorder = DOMAIN Down
  BY DEF CaptureInv, Shape, RecorderOK
<1>2. UNCHANGED <<files, tables, normalized>> /\ (NotFailed => NotFailed')
  BY DEF Halt, GoStale, Break, normalizerVars, NotFailed
<1>3. recorder.pc \in {"opening", "connected"}
  BY DEF Halt, GoStale, Break
<1>4. ASSUME NEW r, DOMAIN r = DOMAIN Down, NEW reason, NEW outcome,
             End(r, connections, reason, outcome)
      PROVE  LogKept /\ PcKept
  BY <1>1, <1>3, <1>4, EndKeeps
<1>5. DOMAIN [recorder EXCEPT !.issues["silence"] = @ + 1] = DOMAIN Down
  BY <1>1
<1>6. LogKept /\ PcKept
  BY <1>1, <1>4, <1>5 DEF Halt, GoStale, Break
<1> QED
  BY <1>2, <1>6, LogStep

\* A connection is opened: its segment is new, no table is there.
LEMMA OpenKeeps ==
    ASSUME CaptureInv, Open
    PROVE  CaptureInv'
<1> DEFINE log == [started |-> now, frames |-> <<>>, reason |-> "none",
                   tracked |-> NothingTracked]
           n == Len(connections) + 1
<1>1. Shape /\ DOMAIN recorder = DOMAIN Down
  BY DEF CaptureInv, Shape, RecorderOK
<1>2. connections' = Append(connections, log) /\ files' = Append(files, NewFiles)
      /\ Len(connections) < MaxConnections
  BY DEF Open
<1>3. NewFiles \in Files /\ Sound(NewFiles) /\ NewFiles.manifest = "gone"
  BY DEF NewFiles, Files, Places, Sound
<1>4. IsSequence(connections') /\ Len(connections') = n
      /\ \A i \in DOMAIN connections : connections'[i] = connections[i]
  BY <1>1, <1>2, SequenceAppended DEF Shape, ConnectionsOK
<1>5. files' \in Seq(Files) /\ Len(files') = n /\ files'[n] = NewFiles
      /\ \A c \in DOMAIN files : files'[c] = files[c]
  <2>1. files \in Seq(Files) /\ Len(files) = Len(connections)
    BY <1>1 DEF Shape, FilesOK
  <2> QED
    BY <1>2, <1>3, <2>1, AppendProperties
<1>6. /\ Len(connections) \in Nat /\ DOMAIN connections = 1 .. Len(connections)
      /\ MaxConnections \in Nat
  BY <1>1, OpenedSegments
<1>7. DOMAIN files = 1 .. Len(connections) /\ DOMAIN files' = 1 .. n
  BY <1>1, <1>5 DEF Shape, FilesOK
<1>8. recorder'.pc = "opening" /\ DOMAIN recorder' = DOMAIN Down
  BY <1>1 DEF Open, Down
<1> HIDE DEF log, n
<1>9. ConnectionsOK'
  BY <1>2, <1>4, <1>6 DEF ConnectionsOK, n
<1>10. RecorderOK'
  <2>1. connections' # <<>>
    BY <1>4, <1>6, SequenceDomain DEF n
  <2> QED
    BY <1>8, <2>1 DEF RecorderOK
<1>11. FilesFollow
  BY <1>4, <1>5, <1>6, <1>7 DEF FilesFollow, FilesOK, n
<1>12. RowsStay
  <2>1. \A c \in 1 .. MaxConnections : Unfinished(c)' => Unfinished(c)
    <3>1. ASSUME NEW c \in 1 .. MaxConnections, Unfinished(c)'
          PROVE  c > Len(connections)
      <4>1. c > Len(connections') \/ c = Len(connections')
        BY <3>1 DEF Unfinished
      <4>2. c \in Int /\ Len(connections') = Len(connections) + 1
        BY <1>4 DEF n
      <4> QED
        BY <1>6, <4>1, <4>2
    <3> QED
      BY <3>1 DEF Unfinished
  <2>2. ASSUME NEW c \in DOMAIN files', ~ Unfinished(c)
        PROVE  c \in DOMAIN files /\ connections'[c].tracked = connections[c].tracked
    <3>1. c \in 1 .. n /\ ~ (c > Len(connections))
      BY <1>7, <2>2 DEF Unfinished
    <3>2. c \in 1 .. Len(connections)
      BY <1>6, <3>1 DEF n
    <3> QED
      BY <1>4, <1>6, <1>7, <3>2
  <2> QED
    BY <2>1, <2>2 DEF RowsStay
<1>13. FilesClean
  <2>1. \A c \in DOMAIN files' : c = n \/ c \in DOMAIN files
    BY <1>6, <1>7 DEF n
  <2>2. \A c \in DOMAIN files' : ~ files'[c].damaged => Sound(files'[c])
    BY <1>3, <1>5, <2>1 DEF CaptureInv, Clean
  <2>3. Finalizing'
    BY <1>8 DEF Finalizing, Finalized
  <2> QED
    BY <2>2, <2>3 DEF FilesClean
<1>14. UNCHANGED <<tables, normalized>> /\ (NotFailed => NotFailed')
  BY DEF Open, normalizerVars, NotFailed
<1>15. ASSUME NEW c \in DOMAIN files', Unfinished(c)'
       PROVE  files'[c].manifest = "gone"
  <2>1. c = n
    BY <1>4, <1>6, <1>7, <1>15 DEF Unfinished, n
  <2> QED
    BY <1>3, <1>5, <2>1
<1>16. Unnamed
  BY <1>15 DEF Unnamed
<1> QED
  BY <1>9, <1>10, <1>11, <1>12, <1>13, <1>14, <1>16, RecorderStep
-----------------------------------------------------------------------------
(* finalize                                                                 *)

\* Only a segment under way has its files written.
LEMMA FileStepKeeps ==
    ASSUME CaptureInv, recorder.pc \in Writing, UNCHANGED <<connections, tables, normalized>>,
           NotFailed => NotFailed', DOMAIN recorder' = DOMAIN Down,
           recorder'.pc \in Idle \cup {"renamed", "synced", "manifested"},
           recorder'.pc \in {"renamed", "synced"} => recorder.pc # "manifested",
           NEW file \in Files, files' = [files EXCEPT ![Current] = file],
           files[Current].damaged => file.damaged,
           recorder'.pc \in {"renamed", "synced"} => file.manifest = "gone",
           ~ file.damaged => Sound(file) /\ Finalized(recorder'.pc, file)
    PROVE  CaptureInv'
<1>1. Shape
  BY DEF CaptureInv
<1>2. Current \in DOMAIN files /\ files \in Seq(Files)
  BY <1>1, OpenedSegments DEF Shape, FilesOK
<1>3. /\ files' \in Seq(Files) /\ Len(files') = Len(files) /\ files'[Current] = file
      /\ \A c \in DOMAIN files : c # Current => files'[c] = files[c]
  BY <1>2, FileReplaced
<1>4. DOMAIN files' = DOMAIN files /\ Current' = Current
  BY <1>2, <1>3 DEF Current
<1>5. FilesFollow
  BY <1>1, <1>3, <1>4 DEF FilesFollow, Shape, FilesOK
<1>6. ConnectionsOK' /\ RecorderOK'
  BY <1>1 DEF Shape, ConnectionsOK, RecorderOK
<1>7. \A c : Unfinished(c)' => Unfinished(c)
  BY DEF Unfinished, Writing, Idle
<1>8. RowsStay
  <2>1. \A c \in DOMAIN files' : c \in DOMAIN files /\ connections'[c].tracked = connections[c].tracked
    BY <1>4
  <2> QED
    BY <1>7, <2>1 DEF RowsStay
<1>9. FilesClean
  <2>1. \A c \in DOMAIN files' : ~ files'[c].damaged => Sound(files'[c])
    BY <1>3, <1>4 DEF CaptureInv, Clean
  <2>2. Finalizing'
    BY <1>3, <1>4, file.damaged \in BOOLEAN DEF Finalizing, Files
  <2> QED
    BY <2>1, <2>2 DEF FilesClean
<1>10. ASSUME NEW c \in DOMAIN files', Unfinished(c)'
       PROVE  files'[c].manifest = "gone"
  <2>1. c = Current /\ recorder'.pc \in {"renamed", "synced"}
    <3>1. Len(connections)' = Len(connections) /\ DOMAIN files = 1 .. Len(connections)
          /\ Len(connections) \in Nat
      BY <1>1, OpenedSegments DEF Shape, FilesOK
    <3>2. ~ (c > Len(connections))
      BY <1>4, <3>1
    <3> QED
      BY <1>10, <3>1, <3>2 DEF Unfinished, Current, Idle, Writing
  <2> QED
    BY <1>3, <2>1
<1>11. Unnamed
  BY <1>10 DEF Unnamed
<1> QED
  BY <1>5, <1>6, <1>8, <1>9, <1>11, RecorderStep

\* The rename, its sync and the manifest, in this order: the manifest is written
\* when the data is where it cannot be lost.
LEMMA FinalizeKeeps ==
    ASSUME CaptureInv, Rename \/ SyncRename \/ WriteManifest
    PROVE  CaptureInv'
<1>1. Shape /\ DOMAIN recorder = DOMAIN Down
  BY DEF CaptureInv, Shape, RecorderOK
<1>2. recorder.pc \in Writing /\ UNCHANGED <<connections, tables, normalized>>
      /\ (NotFailed => NotFailed')
  BY DEF Rename, SyncRename, WriteManifest, FileStep, Writing, normalizerVars, NotFailed
<1>3. files[Current] \in Files /\ Current \in DOMAIN files
  BY <1>1, <1>2, OpenedSegments DEF Shape, FilesOK
<1> DEFINE f == files[Current]
<1>4. ~ f.damaged => Sound(f) /\ Finalized(recorder.pc, f)
  BY <1>3 DEF CaptureInv, Clean, Finalizing
<1>5. ASSUME recorder.pc # "manifested"
      PROVE  f.manifest = "gone"
  <2>1. Unfinished(Current) /\ Current \in 1 .. MaxConnections
    BY <1>1, <1>2, <1>5, Underway, OpenedSegments DEF Opened
  <2> QED
    BY <1>3, <2>1 DEF CaptureInv, Faithful, Untouched
<1>6. CASE Rename
  <2> DEFINE g == [f EXCEPT !.data = "raw"]
  <2>1. g \in Files /\ g.damaged = f.damaged
    BY <1>3 DEF Files, Places
  <2>2. files' = [files EXCEPT ![Current] = g] /\ recorder'.pc = "renamed"
        /\ DOMAIN recorder' = DOMAIN Down /\ recorder.pc = "sealed"
    BY <1>1, <1>6 DEF Rename, FileStep, Down
  <2>3. ~ g.damaged => Sound(g) /\ Finalized(recorder'.pc, g)
    BY <1>3, <1>4, <1>5, <2>1, <2>2 DEF Sound, Finalized, Files
  <2>4. g.manifest = "gone"
    BY <1>5, <2>2
  <2> HIDE DEF g
  <2> QED
    BY <1>2, <2>1, <2>2, <2>3, <2>4, FileStepKeeps
<1>7. CASE SyncRename
  <2> DEFINE g == [f EXCEPT !.dataSafe = "raw"]
  <2>1. g \in Files /\ g.damaged = f.damaged
    BY <1>3 DEF Files, Places
  <2>2. files' = [files EXCEPT ![Current] = g] /\ recorder'.pc = "synced"
        /\ DOMAIN recorder' = DOMAIN Down /\ recorder.pc = "renamed"
    BY <1>1, <1>7 DEF SyncRename, FileStep, Down
  <2>3. ~ f.damaged => f.data = "raw"
    BY <1>4, <2>2 DEF Finalized
  <2>4. ~ g.damaged => Sound(g) /\ Finalized(recorder'.pc, g)
    BY <1>3, <1>4, <1>5, <2>1, <2>2, <2>3 DEF Sound, Finalized, Files
  <2>5. g.manifest = "gone"
    BY <1>5, <2>2
  <2> HIDE DEF g
  <2> QED
    BY <1>2, <2>1, <2>2, <2>4, <2>5, FileStepKeeps
<1>8. CASE WriteManifest
  <2> DEFINE g == [f EXCEPT !.manifest = "raw"]
  <2>1. g \in Files /\ g.damaged = f.damaged
    BY <1>3 DEF Files, Places
  <2>2. files' = [files EXCEPT ![Current] = g] /\ recorder'.pc = "manifested"
        /\ DOMAIN recorder' = DOMAIN Down /\ recorder.pc = "synced"
    BY <1>1, <1>8 DEF WriteManifest, FileStep, Down
  <2>3. ~ f.damaged => f.data = "raw" /\ f.dataSafe = "raw"
    BY <1>4, <2>2 DEF Finalized
  <2>4. ~ g.damaged => Sound(g) /\ Finalized(recorder'.pc, g)
    BY <1>3, <1>4, <1>5, <2>1, <2>2, <2>3 DEF Sound, Finalized, Files
  <2> HIDE DEF g
  <2> QED
    BY <1>2, <2>1, <2>2, <2>4, FileStepKeeps
<1> QED
  BY <1>6, <1>7, <1>8

\* Whatever ended a connection, the recorder has no segment afterwards.
LEMMA SettleKeeps ==
    ASSUME NEW r, DOMAIN r = DOMAIN Down, NEW outcome, Settle(r, outcome)
    PROVE  DOMAIN recorder' = DOMAIN Down /\ recorder'.pc \in Idle
<1> DEFINE next == [r EXCEPT !.outcome = "none"]
           again == [next EXCEPT !.reconnects = @ + 1]
<1>1. DOMAIN next = DOMAIN Down /\ DOMAIN again = DOMAIN Down
  OBVIOUS
<1>2. recorder' \in {[next EXCEPT !.pc = "idle"], Down, [again EXCEPT !.pc = "waiting"]}
  BY DEF Settle
<1>3. "pc" \in DOMAIN Down /\ Down.pc = "down"
  BY DEF Down
<1> HIDE DEF next, again
<1> QED
  BY <1>1, <1>2, <1>3 DEF Idle

\* The manifest is synced and the segment registered, or finalize fails.
LEMMA PublishKeeps ==
    ASSUME CaptureInv, Publish \/ FailFinalize
    PROVE  CaptureInv'
<1>1. Shape /\ DOMAIN recorder = DOMAIN Down
  BY DEF CaptureInv, Shape, RecorderOK
<1>2. UNCHANGED <<connections, tables, normalized>> /\ (NotFailed => NotFailed')
  BY DEF Publish, FailFinalize, normalizerVars, NotFailed
<1>3. DOMAIN recorder' = DOMAIN Down /\ recorder'.pc \in Idle
  <2>1. DOMAIN [recorder EXCEPT !.finalized = @ + 1] = DOMAIN Down
    BY <1>1
  <2> QED
    BY <1>1, <2>1, SettleKeeps DEF Publish, FailFinalize
<1>4. CASE FailFinalize
  <2>1. LogKept /\ UNCHANGED files
    BY <1>1, <1>4, LogSame DEF FailFinalize
  <2> QED
    BY <1>2, <1>3, <2>1, LogStep DEF PcKept
<1>5. CASE Publish
  <2> DEFINE f == files[Current]
             g == [f EXCEPT !.dataSafe = f.data, !.manifestSafe = f.manifest]
  <2>1. recorder.pc = "manifested" /\ recorder.pc \in Writing
    BY <1>5 DEF Publish, Writing
  <2>2. f \in Files /\ Current \in DOMAIN files
    BY <1>1, <2>1, OpenedSegments DEF Shape, FilesOK
  <2>3. files' = [files EXCEPT ![Current] = g]
    BY <1>5, <2>2 DEF Publish
  <2>4. g \in Files /\ g.damaged = f.damaged
    BY <2>2 DEF Files, Places
  <2>5. ASSUME ~ g.damaged PROVE Sound(g) /\ Finalized(recorder'.pc, g)
    <3>1. Sound(f) /\ f.data = "raw" /\ f.dataSafe = "raw" /\ f.manifest = "raw"
      BY <2>1, <2>2, <2>4, <2>5 DEF CaptureInv, Clean, Finalizing, Finalized
    <3>2. Sound(g)
      BY <2>2, <3>1 DEF Sound, Files
    <3> QED
      BY <1>3, <3>2 DEF Finalized, Idle
  <2> HIDE DEF g
  <2> QED
    BY <1>2, <1>3, <2>1, <2>3, <2>4, <2>5, FileStepKeeps DEF Idle
<1> QED
  BY <1>4, <1>5
-----------------------------------------------------------------------------
(* The normalizer, the commands and what goes wrong                         *)

\* Whatever a batch got to is written: tables and manifests that fit, of segments
\* that were pending, and what is damaged is moved away.
LEMMA WriteKeeps ==
    ASSUME CaptureInv, NEW b, BatchOK(b), Write(b), UNCHANGED recorderVars,
           NotFailed => NotFailed'
    PROVE  CaptureInv'
<1>1. Shape
  BY DEF CaptureInv
<1>2. files' = b.files /\ tables' = b.tables /\ normalized' = b.normalized
      /\ UNCHANGED <<connections, recorder>>
  BY DEF Write, recorderVars
<1>3. Shape'
  BY <1>1, <1>2 DEF Shape, FilesOK, ConnectionsOK, RecorderOK, TablesOK, BatchOK
<1>4. DOMAIN files' = DOMAIN files
  BY <1>1, <1>2 DEF Shape, FilesOK, BatchOK
<1>6. ASSUME NEW c \in 1 .. MaxConnections, Unfinished(c)'
      PROVE  /\ c \in DOMAIN files' => files'[c].manifest = "gone"
             /\ DOMAIN tables'[c] = {} /\ normalized'[c] = None
  <2>1. Unfinished(c)
    BY <1>2, <1>6 DEF Unfinished
  <2>2. /\ c \in DOMAIN files => files[c].manifest = "gone"
        /\ DOMAIN tables[c] = {} /\ normalized[c] = None
    BY <2>1 DEF CaptureInv, Faithful, Untouched
  <2>3. c \notin Pending
    BY <1>1, <2>2, OpenedSegments DEF Pending
  <2> QED
    BY <1>2, <1>4, <2>2, <2>3 DEF BatchOK
<1>7. ASSUME NEW c \in DOMAIN files'
      PROVE  Fit(tables, normalized, c)'
  <2>1. Fit(b.tables, b.normalized, c)
    BY <1>4, <1>7 DEF BatchOK
  <2>2. Rows(c)' = Rows(c)
    BY <1>2 DEF Rows
  <2> QED
    BY <1>2, <2>1, <2>2 DEF Fit, RowTypes, RowsOf
<1>8. Faithful'
  BY <1>6, <1>7 DEF Faithful, Untouched
<1>9. Clean'
  <2>1. ASSUME NEW c \in DOMAIN files, ~ files[c].damaged
        PROVE  files'[c] = files[c]
    BY <1>2, <2>1 DEF BatchOK
  <2>2. \A c \in DOMAIN files' : ~ files'[c].damaged => Sound(files'[c])
    BY <1>2, <1>4, <2>1 DEF CaptureInv, Clean, BatchOK
  <2>3. Finalizing'
    <3>1. CASE recorder.pc \in Writing
      <4>1. Current \in DOMAIN files /\ files[Current] \in Files
        BY <1>1, <3>1, OpenedSegments DEF Shape, FilesOK
      <4>2. files'[Current].damaged = files[Current].damaged
        BY <1>2, <4>1 DEF BatchOK
      <4> QED
        BY <1>2, <2>1, <4>1, <4>2 DEF CaptureInv, Clean, Finalizing, Current
    <3>2. CASE recorder.pc \notin Writing
      BY <1>2, <3>2 DEF Finalizing, Finalized, Writing
    <3> QED
      BY <3>1, <3>2
  <2> QED
    BY <2>2, <2>3 DEF CaptureInv, Clean
<1> QED
  BY <1>3, <1>8, <1>9 DEF CaptureInv

\* A batch, and one that was killed.
LEMMA BatchKeeps ==
    ASSUME CaptureInv, RunBatch \/ CrashNormalizer
    PROVE  CaptureInv'
<1>1. CASE RunBatch
  <2> DEFINE b == ProcessAll(Batch, Pending)
  <2>1. BatchOK(b)
    BY BatchStarts, ProcessAllKeeps
  <2>2. Write(b) /\ UNCHANGED recorderVars
    BY <1>1 DEF RunBatch
  <2>3. NotFailed'
    <3>1. b.failed = FALSE
      BY <2>1 DEF BatchOK
    <3> QED
      BY <1>1, <3>1 DEF RunBatch, WriteNormalizerState, NotFailed
  <2> HIDE DEF b
  <2> QED
    BY <2>1, <2>2, <2>3, WriteKeeps
<1>2. CASE CrashNormalizer
  <2>1. PICK c \in Pending : \E torn \in Torn(c) :
            Write(ProcessAll(torn, {d \in Pending : d < c}))
    BY <1>2 DEF CrashNormalizer
  <2>2. PICK torn \in Torn(c) : Write(ProcessAll(torn, {d \in Pending : d < c}))
    BY <2>1
  <2> DEFINE S == {d \in Pending : d < c}
             b == ProcessAll(torn, S)
  <2>3. BatchOK(torn) /\ S \in SUBSET Pending
    BY <2>1, <2>2, TornKeeps
  <2>4. Write(b)
    BY <2>2
  <2> HIDE DEF S
  <2>5. BatchOK(b)
    BY <2>3, ProcessAllKeeps
  <2> HIDE DEF b
  <2>6. UNCHANGED recorderVars /\ (NotFailed => NotFailed')
    BY <1>2 DEF CrashNormalizer, NotFailed
  <2> QED
    BY <2>4, <2>5, <2>6, WriteKeeps
<1> QED
  BY <1>1, <1>2

\* A normalizer that starts, an operator that looks, time that goes by.
LEMMA QuietKeeps ==
    ASSUME CaptureInv,
           (\E automatic \in BOOLEAN : StartNormalizer(automatic)) \/ CaptureMetrics \/ Tick
    PROVE  CaptureInv'
<1>1. UNCHANGED <<files, tables, normalized, connections, recorder>>
  BY DEF StartNormalizer, CaptureMetrics, Tick, normalizerVars, recorderVars
<1>2. NotFailed => NotFailed'
  BY DEF StartNormalizer, CaptureMetrics, Tick, normalizerVars, NotFailed, WriteNormalizerState
<1>3. LogKept /\ PcKept
  BY <1>1, LogSame DEF CaptureInv, Shape, RecorderOK, PcKept
<1> QED
  BY <1>1, <1>2, <1>3, LogStep

\* A step that changes nothing but files, and leaves the recorder without any.
LEMMA FilesOnlyKeep ==
    ASSUME CaptureInv, UNCHANGED <<connections, tables, normalized>>, NotFailed => NotFailed',
           PcKept, recorder'.pc \in Idle,
           NEW g \in [DOMAIN files -> Files], files' = g,
           \A c \in DOMAIN files : files[c].damaged => g[c].damaged,
           \A c \in DOMAIN files : ~ g[c].damaged => Sound(g[c])
    PROVE  CaptureInv'
<1>1. Shape
  BY DEF CaptureInv
<1>2. files' \in Seq(Files) /\ Len(files') = Len(files) /\ DOMAIN files' = DOMAIN files
  BY <1>1, FilesChanged DEF Shape, FilesOK
<1>3. FilesFollow
  BY <1>1, <1>2 DEF Shape, FilesOK, FilesFollow
<1>4. ConnectionsOK' /\ RecorderOK'
  BY <1>1 DEF Shape, ConnectionsOK, RecorderOK, PcKept, Idle, Writing
<1>5. \A c : Unfinished(c)' => Unfinished(c)
  BY DEF Unfinished, Writing, Idle
<1>6. RowsStay
  BY <1>2, <1>5 DEF RowsStay
<1>7. FilesClean
  BY <1>2 DEF FilesClean, Finalizing, Finalized, Idle
<1>8. ASSUME NEW c \in DOMAIN files' PROVE ~ Unfinished(c)'
  <2>1. c \in 1 .. Len(connections) /\ Len(connections) \in Nat
    BY <1>1, <1>2, OpenedSegments DEF Opened
  <2>2. ~ (c > Len(connections))
    BY <2>1
  <2> QED
    BY <2>2 DEF Unfinished, Writing, Idle
<1>9. Unnamed
  BY <1>8 DEF Unnamed
<1> QED
  BY <1>3, <1>4, <1>6, <1>7, <1>9, RecorderStep

\* A loss of power takes back what was not synced: a manifest never, unless with
\* it nothing but itself is lost.
LEMMA RemainsSound ==
    ASSUME NEW f \in Files, NEW data \in BOOLEAN, NEW manifest \in BOOLEAN
    PROVE  /\ Remains(f, data, manifest) \in Files
           /\ Remains(f, data, manifest).damaged = f.damaged
           /\ Sound(f) => Sound(Remains(f, data, manifest))
  BY DEF Remains, Files, Places, Sound

LEMMA LosePowerKeeps ==
    ASSUME CaptureInv, LosePower
    PROVE  CaptureInv'
<1>1. Shape
  BY DEF CaptureInv
<1>2. PICK data \in SUBSET Opened, manifests \in SUBSET Opened :
          files' = [c \in Opened |-> Remains(files[c], c \in data, c \in manifests)]
  BY DEF LosePower
<1>3. Opened = DOMAIN files /\ files \in Seq(Files)
  BY <1>1, OpenedSegments DEF Shape, FilesOK
<1> DEFINE g == [c \in Opened |-> Remains(files[c], c \in data, c \in manifests)]
<1>4. ASSUME NEW c \in DOMAIN files
      PROVE  /\ g[c] \in Files /\ g[c].damaged = files[c].damaged
             /\ Sound(files[c]) => Sound(g[c])
  <2> DEFINE d == c \in data
             m == c \in manifests
  <2>1. d \in BOOLEAN /\ m \in BOOLEAN /\ files[c] \in Files
    BY <1>3
  <2>2. g[c] = Remains(files[c], d, m)
    BY <1>3
  <2> HIDE DEF d, m, g
  <2> QED
    BY <2>1, <2>2, RemainsSound
<1>5. g \in [DOMAIN files -> Files] /\ files' = g
  BY <1>2, <1>3, <1>4
<1> HIDE DEF g
<1>6. recorder' = Down /\ UNCHANGED <<connections, tables, normalized>>
      /\ (NotFailed => NotFailed')
  BY DEF LosePower, NotFailed
<1>7. recorder'.pc \in Idle /\ PcKept
  BY <1>6 DEF Down, Idle, PcKept
<1>8. \A c \in DOMAIN files : ~ g[c].damaged => Sound(g[c])
  BY <1>4 DEF CaptureInv, Clean
<1> QED
  BY <1>4, <1>5, <1>6, <1>7, <1>8, FilesOnlyKeep

\* recover: what is not finished is put aside, what is finished stays.
LEMMA RecoverKeeps ==
    ASSUME CaptureInv, Recover
    PROVE  CaptureInv'
<1> DEFINE clean(file) ==
               IF file.data = "partial" \/ (file.data = "raw" /\ file.manifest # "raw")
               THEN Move(file, "incomplete")
               ELSE IF file.manifest = "raw" /\ file.data # "raw"
               THEN MoveManifest(file, "incomplete") ELSE file
           g == [c \in DOMAIN files |-> clean(files[c])]
<1>1. Shape
  BY DEF CaptureInv
<1>2. \A c \in DOMAIN files : files[c] \in Files
  BY <1>1 DEF Shape, FilesOK
<1>3. ASSUME NEW f \in Files
      PROVE  clean(f) \in Files /\ clean(f).damaged = f.damaged /\ (Sound(f) => Sound(clean(f)))
  <2>1. "incomplete" \in Places
    BY DEF Places
  <2>2. clean(f) \in Files /\ clean(f).damaged = f.damaged
    BY <2>1, MovedAway
  <2>3. Sound(f) => Sound(clean(f))
    BY DEF Sound, Move, MoveManifest, Files, Places
  <2> QED
    BY <2>2, <2>3
<1>4. files' = g
  BY DEF Recover
<1> HIDE DEF clean
<1>5. g \in [DOMAIN files -> Files]
  BY <1>2, <1>3
<1>6. \A c \in DOMAIN files : g[c].damaged = files[c].damaged /\ (Sound(files[c]) => Sound(g[c]))
  BY <1>2, <1>3
<1> HIDE DEF g
<1>7. recorder.pc = "down" /\ UNCHANGED <<recorder, connections, tables, normalized>>
      /\ (NotFailed => NotFailed')
  BY DEF Recover, recorderVars, normalizerVars, NotFailed
<1>8. recorder'.pc \in Idle /\ PcKept
  BY <1>1, <1>7 DEF Idle, PcKept, Shape, RecorderOK
<1>9. \A c \in DOMAIN files : ~ g[c].damaged => Sound(g[c])
  BY <1>6 DEF CaptureInv, Clean
<1> QED
  BY <1>4, <1>5, <1>6, <1>7, <1>8, <1>9, FilesOnlyKeep

\* A segment that rots: from here on nothing is promised of it, and the others
\* are as they were.
LEMMA DamageKeeps ==
    ASSUME CaptureInv, NEW c \in Opened, Damage(c)
    PROVE  CaptureInv'
<1>1. Shape
  BY DEF CaptureInv
<1> DEFINE f == [files[c] EXCEPT !.damaged = TRUE]
<1>2. c \in DOMAIN files /\ files \in Seq(Files) /\ files[c] \in Files
  BY <1>1, OpenedSegments DEF Shape, FilesOK
<1>3. f \in Files /\ f.damaged
  BY <1>2 DEF Files
<1>4. files' = [files EXCEPT ![c] = f]
  BY DEF Damage
<1> HIDE DEF f
<1>5. /\ files' \in Seq(Files) /\ Len(files') = Len(files) /\ files'[c] = f
      /\ DOMAIN files' = DOMAIN files
  BY <1>2, <1>3, <1>4, FileReplaced
<1>6. \A d \in DOMAIN files : d # c => files'[d] = files[d]
  BY <1>2, <1>3, <1>4, FileReplaced
<1>7. UNCHANGED <<recorder, connections, tables, normalized, normalizerState>>
  BY DEF Damage, recorderVars, normalizerVars
<1>8. Shape'
  BY <1>1, <1>5, <1>7 DEF Shape, FilesOK, ConnectionsOK, RecorderOK, TablesOK
<1>9. \A d \in DOMAIN files : files'[d].manifest = files[d].manifest
  <2>1. f.manifest = files[c].manifest
    BY <1>2 DEF f, Files
  <2> QED
    BY <1>2, <1>3, <1>4, <1>5, <2>1, FileReplaced
<1>10. Untouched'
  BY <1>5, <1>7, <1>9 DEF CaptureInv, Faithful, Untouched, Unfinished
<1>11. ASSUME NEW d \in DOMAIN files'
       PROVE  Fit(tables, normalized, d)'
  <2>1. Rows(d)' = Rows(d) /\ Fit(tables, normalized, d)
    BY <1>5, <1>7 DEF Rows, CaptureInv, Faithful
  <2> QED
    BY <1>7, <2>1 DEF Fit, RowTypes, RowsOf
<1>12. Clean'
  <2>1. \A d \in DOMAIN files' : ~ files'[d].damaged => Sound(files'[d])
    BY <1>3, <1>5, <1>6 DEF CaptureInv, Clean
  <2>2. Finalizing'
    <3>1. CASE recorder.pc \in Writing
      <4>1. Current \in DOMAIN files
        BY <1>1, <3>1, OpenedSegments
      <4>2. Current' = Current /\ recorder' = recorder
        BY <1>7 DEF Current
      <4>3. CASE Current = c
        BY <1>3, <1>5, <4>2, <4>3 DEF Finalizing
      <4>4. CASE Current # c
        BY <1>6, <4>1, <4>2, <4>4 DEF CaptureInv, Clean, Finalizing
      <4> QED
        BY <4>3, <4>4
    <3>2. CASE recorder.pc \notin Writing
      BY <1>7, <3>2 DEF Finalizing, Finalized, Writing
    <3> QED
      BY <3>1, <3>2
  <2> QED
    BY <1>7, <2>1, <2>2 DEF CaptureInv, Clean, NotFailed
<1> QED
  BY <1>8, <1>10, <1>11, <1>12 DEF CaptureInv, Faithful

-----------------------------------------------------------------------------
(* The invariant                                                            *)

\* At first nothing was opened.
LEMMA CaptureStarts == Init => CaptureInv
<1> SUFFICES ASSUME Init PROVE CaptureInv
  OBVIOUS
<1>1. FilesOK
  BY EmptySeq DEF Init, FilesOK
<1>2. ConnectionsOK
  <2>1. IsSequence(<<>>)
    BY EmptySeq DEF IsSequence
  <2> QED
    BY <2>1, CaptureAssumption DEF Init, ConnectionsOK
<1>3. RecorderOK /\ TablesOK /\ recorder.pc = "down"
  BY DEF Init, RecorderOK, TablesOK, Down, Writing
<1>4. Clean /\ Faithful
  <2>1. DOMAIN files = {}
    BY DEF Init
  <2>2. DOMAIN <<>> = {}
    OBVIOUS
  <2> QED
    BY <1>3, <2>1, <2>2 DEF Init, Clean, Finalizing, Finalized, Faithful, Untouched, NotFailed
<1> QED
  BY <1>1, <1>2, <1>3, <1>4 DEF CaptureInv, Shape

LEMMA CaptureSteps == CaptureInv /\ [Next]_vars => CaptureInv'
<1> SUFFICES ASSUME CaptureInv, [Next]_vars PROVE CaptureInv'
  OBVIOUS
<1>1. CASE Recording
  BY <1>1, StartKeeps, ConnectKeeps, FrameKeeps, BreakKeeps, OpenKeeps, FinalizeKeeps,
     PublishKeeps DEF Recording
<1>2. CASE Normalizing \/ CrashNormalizer \/ CaptureMetrics \/ Tick
  BY <1>2, BatchKeeps, QuietKeeps DEF Normalizing
<1>3. CASE CrashRecorder \/ LosePower \/ Recover \/ \E c \in Opened : Damage(c)
  BY <1>3, ConnectKeeps, LosePowerKeeps, RecoverKeeps, DamageKeeps
<1>4. CASE UNCHANGED vars
  <2>1. LogKept /\ PcKept
    BY <1>4, LogSame DEF vars, CaptureInv, Shape, RecorderOK, PcKept
  <2> QED
    BY <1>4, <2>1, LogStep DEF vars, NotFailed
<1> QED
  BY <1>1, <1>2, <1>3, <1>4 DEF Next

\* The invariant of capture and normalization: segments and manifests on disk and
\* what a loss of power leaves of them, and tables that another attempt repeats.
THEOREM CaptureInvariance == Spec => []CaptureInv
<1>1. CaptureInv /\ [Next]_vars => CaptureInv'
  BY CaptureSteps
<1> QED
  BY <1>1, CaptureStarts, PTL DEF Spec

\* Whatever is killed, whenever the power fails and however often an operator
\* recovers, a segment whose own data was not damaged is never quarantined as
\* corrupt, whatever became of the others, and the normalizer never gives up
\* (raw.py finalize, normalizer.py run_once).
THEOREM DamageAloneCorrupts == Spec => []OnlyDamageIsCorrupt
<1>1. ASSUME CaptureInv PROVE OnlyDamageIsCorrupt
  <2>1. Opened = DOMAIN files
    BY <1>1, OpenedSegments DEF CaptureInv
  <2>2. \A c \in Corrupt(Opened) : files[c].damaged
    BY <1>1, <2>1 DEF CaptureInv, Clean, Sound, Corrupt
  <2> QED
    BY <1>1, <2>2 DEF CaptureInv, Clean, NotFailed, OnlyDamageIsCorrupt
<1> QED
  BY <1>1, CaptureInvariance, PTL

-----------------------------------------------------------------------------
(* An accepted soak has no hole.  While the recorder has not reconnected,   *)
(* the segments it counted as finalized are the last ones, without a gap,   *)
(* and their manifests were written and can only be moved away.  What an    *)
(* operator captured says the same of the segments before the one that was  *)
(* under way then.  So a segment that is missing from an accepted window is *)
(* older than the process that was asked, and the segments it counted are   *)
(* too few; or it is younger than the metrics, and a segment behind it is   *)
(* too young to have been rotated.                                          *)

LogFields == {"started", "frames", "reason", "tracked"}

\* LastFrame, of what is known of a connection.
Latest(l) == IF l.frames = <<>> THEN l.started ELSE l.frames[Len(l.frames)].at

\* The frames of a connection lie between its start and the last of them; it was
\* rotated only when it was old enough.
Timed(l) ==
    /\ DOMAIN l = LogFields /\ IsSequence(l.frames)
    /\ l.started \in Nat /\ Latest(l) \in Nat
    /\ l.started <= Latest(l)
    /\ \A i \in DOMAIN l.frames : /\ l.frames[i].at \in Nat
                                  /\ l.started <= l.frames[i].at /\ l.frames[i].at <= Latest(l)
    /\ l.reason = "rotation" => Latest(l) >= l.started + SegmentDuration

\* One connection is opened after the last frame of the other.
TimesOK ==
    /\ now \in Nat
    /\ \A c \in DOMAIN connections : Timed(connections[c]) /\ Latest(connections[c]) <= now
    /\ \A c, d \in DOMAIN connections :
           c < d => Latest(connections[c]) <= connections[d].started

CountersOK ==
    /\ recorder.pc \in Writing \cup {"idle", "waiting", "down"}
    /\ recorder.reconnects \in Nat /\ recorder.finalized \in Nat
    /\ recorder.pc = "waiting" => recorder.reconnects > 0
    /\ recorder.pc = "manifested" => files[Current].manifest \in Written

\* As many segments as were finalized, one behind the other, have a manifest.
Unbroken(placed, first, last, finalized) ==
    /\ first \in Nat \ {0} /\ last \in Int /\ finalized = last + 1 - first
    /\ \A c \in first .. last : c \in DOMAIN placed /\ Filed(placed[c])

\* The last segment that is not under way.
LastDone == IF recorder.pc = "idle" THEN Len(connections) ELSE Len(connections) - 1

CountIsUnbroken ==
    recorder.pc # "down" /\ recorder.reconnects = 0 =>
        \E first \in Nat : Unbroken(files, first, LastDone, recorder.finalized)

\* The connection that was open when the metrics were captured is n.
EvidenceOK ==
    evidence # None =>
        /\ evidence.captured \in Nat /\ evidence.captured <= now
        /\ evidence.reconnects \in Nat
        /\ evidence.connected /\ evidence.reconnects = 0 =>
               \E first \in Nat : \E n \in DOMAIN connections :
                   /\ Unbroken(files, first, n - 1, evidence.finalized)
                   /\ connections[n].started <= evidence.captured
                   /\ \A c \in DOMAIN connections :
                          c > n => connections[c].started >= evidence.captured

SoakInv == TimesOK /\ CountersOK /\ CountIsUnbroken /\ EvidenceOK

\* One more frame, not older than the last one.
LEMMA FrameAppended ==
    ASSUME NEW l, Timed(l), NEW f, f.at \in Nat, Latest(l) <= f.at,
           NEW m, DOMAIN m = LogFields, m.started = l.started, m.reason = l.reason,
           m.frames = Append(l.frames, f)
    PROVE  Timed(m) /\ Latest(m) = f.at
<1>1. IsSequence(l.frames)
  BY DEF Timed
<1>2. /\ IsSequence(m.frames) /\ Len(m.frames) = Len(l.frames) + 1
      /\ \A i \in DOMAIN l.frames : m.frames[i] = l.frames[i]
      /\ Len(l.frames) \in Nat /\ DOMAIN l.frames = 1 .. Len(l.frames)
  BY <1>1, SequenceAppended, SequenceDomain
<1>3. DOMAIN m.frames = 1 .. Len(l.frames) + 1 /\ m.frames # <<>>
  BY <1>2, SequenceDomain
<1>4. m.frames[Len(l.frames) + 1] = f
  <2> DEFINE all == {l.frames[i] : i \in DOMAIN l.frames} \cup {f}
  <2>1. l.frames \in Seq(all) /\ f \in all
    BY <1>1 DEF IsSequence
  <2> HIDE DEF all
  <2> QED
    BY <2>1, AppendProperties
<1>5. Latest(m) = f.at
  BY <1>2, <1>3, <1>4 DEF Latest
<1>6. l.started \in Nat /\ Latest(l) \in Nat /\ l.started <= Latest(l)
  BY DEF Timed
<1>7. ASSUME NEW i \in DOMAIN m.frames
      PROVE  m.frames[i].at \in Nat /\ l.started <= m.frames[i].at /\ m.frames[i].at <= f.at
  <2>1. CASE i = Len(l.frames) + 1
    BY <1>4, <1>6, <2>1
  <2>2. CASE i # Len(l.frames) + 1
    <3>1. i \in DOMAIN l.frames
      BY <1>2, <1>3, <2>2
    <3>2. l.frames[i].at \in Nat /\ l.started <= l.frames[i].at /\ l.frames[i].at <= Latest(l)
      BY <3>1 DEF Timed
    <3> QED
      BY <1>2, <1>6, <3>1, <3>2
  <2> QED
    BY <2>1, <2>2
<1>8. m.reason = "rotation" => f.at >= l.started + SegmentDuration
  BY <1>6, CaptureAssumption DEF Timed
<1> QED
  BY <1>2, <1>5, <1>6, <1>7, <1>8 DEF Timed

\* A connection ends: only if it is old enough it is rotated.
LEMMA ReasonWritten ==
    ASSUME NEW l, Timed(l), NEW reason,
           reason = "rotation" => Latest(l) >= l.started + SegmentDuration
    PROVE  LET m == [l EXCEPT !.reason = reason]
           IN  Timed(m) /\ Latest(m) = Latest(l) /\ m.started = l.started
<1> DEFINE m == [l EXCEPT !.reason = reason]
<1>1. DOMAIN m = LogFields /\ m.started = l.started /\ m.frames = l.frames /\ m.reason = reason
  BY DEF Timed, LogFields
<1> HIDE DEF m
<1>2. Latest(m) = Latest(l)
  BY <1>1 DEF Latest
<1>3. Timed(m)
  BY <1>1, <1>2 DEF Timed
<1> QED
  BY <1>1, <1>2, <1>3 DEF m

\* The frame that was just received is the latest.
LEMMA ArchivedIsTimed ==
    ASSUME CaptureInv, TimesOK, Current \in DOMAIN connections, NEW w
    PROVE  /\ Timed(Archived(w)[Current]) /\ Latest(Archived(w)[Current]) = now
           /\ Archived(w)[Current].started = connections[Current].started
<1> DEFINE l == connections[Current]
           f == Received(w)
           m == [[l EXCEPT !.frames = Append(@, f)] EXCEPT !.tracked = Track(@, f)]
<1>1. Timed(l) /\ Latest(l) <= now /\ now \in Nat
  BY DEF TimesOK
<1>2. Archived(w)[Current] = m
  BY DEF Archived
<1>3. f.at = now
  BY DEF Received, Joined
<1> HIDE DEF f
<1>4. DOMAIN m = LogFields /\ m.started = l.started /\ m.reason = l.reason
      /\ m.frames = Append(l.frames, f)
  BY <1>1 DEF Timed, LogFields
<1> HIDE DEF m, l
<1>5. Timed(m) /\ Latest(m) = f.at
  BY <1>1, <1>3, <1>4, FrameAppended
<1> QED
  BY <1>2, <1>3, <1>4, <1>5 DEF l

\* No connection forgets when it was opened, a new one is opened now.
StartsStay == /\ DOMAIN connections \subseteq DOMAIN connections'
              /\ \A c \in DOMAIN connections : connections'[c].started = connections[c].started
              /\ \A c \in DOMAIN connections' \ DOMAIN connections :
                     connections'[c].started \in Nat /\ connections'[c].started >= now
              /\ now' \in Nat /\ now <= now'

\* What is written about the connection under way keeps the order of times.
LEMMA UnderwayIsTimed ==
    ASSUME CaptureInv, TimesOK, Current \in DOMAIN connections, UNCHANGED now,
           DOMAIN connections' = DOMAIN connections,
           \A c \in DOMAIN connections : c # Current => connections'[c] = connections[c],
           Timed(connections'[Current]), Latest(connections'[Current]) <= now,
           connections'[Current].started = connections[Current].started
    PROVE  TimesOK' /\ StartsStay
<1>1. Len(connections) \in Nat /\ DOMAIN connections = 1 .. Len(connections)
  BY OpenedSegments DEF CaptureInv
<1>2. \A c \in DOMAIN connections : connections'[c].started = connections[c].started
  OBVIOUS
<1>3. \A c, d \in DOMAIN connections : c < d => c # Current
  BY <1>1 DEF Current
<1>4. \A c \in DOMAIN connections : Timed(connections'[c]) /\ Latest(connections'[c]) <= now
  BY DEF TimesOK
<1>5. \A c, d \in DOMAIN connections :
          c < d => Latest(connections'[c]) <= connections'[d].started
  BY <1>2, <1>3 DEF TimesOK
<1>6. now \in Nat
  BY DEF TimesOK
<1> QED
  BY <1>2, <1>4, <1>5, <1>6 DEF TimesOK, StartsStay, Timed

\* Its end is written down.
LEMMA EndIsTimed ==
    ASSUME CaptureInv, TimesOK, recorder.pc \in Writing, UNCHANGED now, NEW log,
           DOMAIN log = DOMAIN connections,
           \A c \in DOMAIN connections : log[c] = connections[c] \/ c = Current,
           Timed(log[Current]), Latest(log[Current]) <= now,
           log[Current].started = connections[Current].started,
           NEW r, NEW outcome, NEW reason, End(r, log, reason, outcome),
           reason = "rotation" =>
               Latest(log[Current]) >= log[Current].started + SegmentDuration
    PROVE  TimesOK' /\ StartsStay
<1> DEFINE l == log[Current]
           m == [l EXCEPT !.reason = reason]
<1>1. Current \in DOMAIN connections
  BY OpenedSegments DEF CaptureInv, Shape
<1>2. Timed(m) /\ Latest(m) = Latest(l) /\ m.started = l.started
  BY ReasonWritten
<1>3. connections' = [log EXCEPT ![Current] = m]
  BY <1>1 DEF End
<1> HIDE DEF m
<1>4. DOMAIN connections' = DOMAIN connections /\ connections'[Current] = m
      /\ \A c \in DOMAIN connections : c # Current => connections'[c] = connections[c]
  BY <1>1, <1>3
<1> QED
  BY <1>1, <1>2, <1>4, UnderwayIsTimed

\* Manifests that were written, and surely are on disk, only move.
FilesStay == \A c \in DOMAIN files : c \in DOMAIN files' /\ (Filed(files[c]) => Filed(files'[c]))

\* Segments that follow one another with a manifest each go on doing so.
LEMMA UnbrokenStays ==
    ASSUME FilesStay, NEW first, NEW last, NEW finalized, Unbroken(files, first, last, finalized)
    PROVE  Unbroken(files', first, last, finalized)
  BY DEF Unbroken, FilesStay

\* What was captured stays true, whatever is opened and moved afterwards.
LEMMA EvidenceStays ==
    ASSUME TimesOK, EvidenceOK, FilesStay, StartsStay, UNCHANGED evidence
    PROVE  EvidenceOK'
<1> SUFFICES ASSUME evidence # None
             PROVE  EvidenceOK'
  BY DEF EvidenceOK
<1>1. evidence.captured \in Nat /\ evidence.captured <= now /\ evidence.reconnects \in Nat
  BY DEF EvidenceOK
<1>2. now \in Nat /\ now' \in Nat /\ now <= now'
  BY DEF TimesOK, StartsStay
<1>3. ASSUME evidence.connected, evidence.reconnects = 0
      PROVE  \E first \in Nat : \E n \in DOMAIN connections' :
                 /\ Unbroken(files', first, n - 1, evidence.finalized)
                 /\ connections'[n].started <= evidence.captured
                 /\ \A c \in DOMAIN connections' :
                        c > n => connections'[c].started >= evidence.captured
  <2>1. PICK first \in Nat, n \in DOMAIN connections :
            /\ Unbroken(files, first, n - 1, evidence.finalized)
            /\ connections[n].started <= evidence.captured
            /\ \A c \in DOMAIN connections :
                   c > n => connections[c].started >= evidence.captured
    BY <1>3 DEF EvidenceOK
  <2>2. Unbroken(files', first, n - 1, evidence.finalized)
    BY <2>1 DEF Unbroken, FilesStay
  <2>3. n \in DOMAIN connections' /\ connections'[n].started <= evidence.captured
    BY <2>1 DEF StartsStay
  <2>4. ASSUME NEW c \in DOMAIN connections', c > n
        PROVE  connections'[c].started >= evidence.captured
    <3>1. CASE c \in DOMAIN connections
      BY <2>1, <2>4, <3>1 DEF StartsStay
    <3>2. CASE c \notin DOMAIN connections
      <4>1. connections'[c].started \in Nat /\ connections'[c].started >= now
        BY <3>2 DEF StartsStay
      <4> QED
        BY <1>1, <1>2, <4>1
    <3> QED
      BY <3>1, <3>2
  <2> QED
    BY <2>2, <2>3, <2>4
<1> QED
  BY <1>1, <1>2, <1>3 DEF EvidenceOK

\* The count of a process that goes on, or that no longer counts.
LEMMA CountStays ==
    ASSUME CountIsUnbroken, FilesStay,
           \/ recorder'.pc = "down"
           \/ recorder'.reconnects # 0
           \/ /\ recorder.pc # "down" /\ LastDone' = LastDone
              /\ recorder'.reconnects = recorder.reconnects
              /\ recorder'.finalized = recorder.finalized
    PROVE  CountIsUnbroken'
<1> SUFFICES ASSUME recorder'.pc # "down", recorder'.reconnects = 0
             PROVE  \E first \in Nat : Unbroken(files', first, LastDone', recorder'.finalized)
  BY DEF CountIsUnbroken, Unbroken
<1>1. PICK first \in Nat : Unbroken(files, first, LastDone, recorder.finalized)
  BY DEF CountIsUnbroken
<1>2. Unbroken(files', first, LastDone', recorder'.finalized)
  BY <1>1 DEF Unbroken, FilesStay
<1> QED
  BY <1>2

\* A process that is about a segment goes on with it.
LEMMA WritingGoesOn ==
    ASSUME SoakInv, TimesOK', StartsStay, FilesStay, UNCHANGED evidence,
           recorder.pc \in Writing, recorder'.pc \in Writing,
           Len(connections') = Len(connections),
           recorder'.reconnects = recorder.reconnects,
           recorder'.finalized = recorder.finalized,
           recorder'.pc = "manifested" => files'[Current'].manifest \in Written
    PROVE  SoakInv'
<1>1. recorder.pc \notin {"idle", "down", "waiting"} /\ recorder'.pc \notin {"idle", "down", "waiting"}
  BY DEF Writing
<1>2. LastDone' = LastDone
  BY <1>1 DEF LastDone
<1>3. CountersOK'
  BY <1>1 DEF SoakInv, CountersOK
<1>4. EvidenceOK'
  BY EvidenceStays DEF SoakInv
<1>5. CountIsUnbroken'
  BY <1>1, <1>2, CountStays DEF SoakInv
<1> QED
  BY <1>3, <1>4, <1>5 DEF SoakInv

\* A process that stops, or that has reconnected, counts no more.
LEMMA CountingEnds ==
    ASSUME SoakInv, TimesOK', StartsStay, FilesStay, UNCHANGED evidence,
           recorder'.pc \in {"idle", "waiting", "down"},
           recorder'.reconnects \in Nat, recorder'.finalized \in Nat,
           recorder'.pc # "down" => recorder'.reconnects > 0
    PROVE  SoakInv'
<1>1. recorder'.pc = "down" \/ recorder'.reconnects # 0
  OBVIOUS
<1>2. CountersOK'
  BY DEF CountersOK
<1>3. EvidenceOK'
  BY EvidenceStays DEF SoakInv
<1>4. CountIsUnbroken'
  BY <1>1, CountStays DEF SoakInv
<1> QED
  BY <1>2, <1>3, <1>4 DEF SoakInv

\* Nothing is written about connections, time may go by.
LEMMA TimesStay ==
    ASSUME TimesOK, UNCHANGED connections, now' \in Nat, now <= now'
    PROVE  TimesOK' /\ StartsStay
<1>1. now \in Nat /\ \A c \in DOMAIN connections : Timed(connections[c]) /\ Latest(connections[c]) <= now
  BY DEF TimesOK
<1>2. \A c \in DOMAIN connections : Latest(connections[c]) <= now'
  BY <1>1 DEF Timed
<1> QED
  BY <1>1, <1>2 DEF TimesOK, StartsStay

\* What others do to the files while the recorder does nothing.
LEMMA RecorderRests ==
    ASSUME CaptureInv, SoakInv, UNCHANGED <<connections, recorder, evidence>>,
           now' \in Nat, now <= now',
           \A c \in DOMAIN files : c \in DOMAIN files' /\ StaysWritten(files[c], files'[c])
    PROVE  SoakInv'
<1>1. TimesOK' /\ StartsStay
  BY TimesStay DEF SoakInv
<1>2. FilesStay
  BY DEF FilesStay, StaysWritten
<1>3. EvidenceOK'
  BY <1>1, <1>2, EvidenceStays DEF SoakInv
<1>4. CountIsUnbroken'
  BY <1>2, CountStays DEF SoakInv, LastDone, CountIsUnbroken
<1>5. CountersOK'
  <2>1. recorder.pc = "manifested" => files'[Current].manifest \in Written
    <3> SUFFICES ASSUME recorder.pc = "manifested" PROVE files'[Current].manifest \in Written
      OBVIOUS
    <3>1. Current \in DOMAIN files
      BY OpenedSegments DEF CaptureInv, Writing
    <3> QED
      BY <3>1 DEF SoakInv, CountersOK, StaysWritten
  <2> QED
    BY <2>1 DEF SoakInv, CountersOK, Current
<1> QED
  BY <1>1, <1>3, <1>4, <1>5 DEF SoakInv

\* A frame, and whatever ends a connection.
LEMMA FrameIsCounted ==
    ASSUME CaptureInv, SoakInv,
           \/ Halt \/ GoStale \/ \E reason \in {"disconnect", "error"} : Break(reason)
           \/ \E w \in Wire : Receive(w) \/ RunOutOfSpace(w) \/ FailConsumer(w)
    PROVE  SoakInv'
<1>1. Shape /\ DOMAIN recorder = DOMAIN Down
  BY DEF CaptureInv, Shape, RecorderOK
<1>2. recorder.pc \in {"opening", "connected"} /\ recorder.pc \in Writing
      /\ UNCHANGED <<now, files, evidence>>
  BY DEF Halt, GoStale, Break, Receive, RunOutOfSpace, FailConsumer, Writing
<1>3. Current \in DOMAIN connections /\ TimesOK
  BY <1>1, <1>2, OpenedSegments DEF SoakInv
<1>4. FilesStay
  BY <1>2 DEF FilesStay
<1>5. DOMAIN Down = {"pc", "outcome", "reconnects", "frames", "finalized", "lastFrame",
                     "heard", "opened", "issues"}
  BY DEF Down
<1>6. \A before, after : LET r == Counted(before, after)
                         IN  /\ r.reconnects = recorder.reconnects
                             /\ r.finalized = recorder.finalized /\ r.pc = recorder.pc
                             /\ DOMAIN r = DOMAIN Down
  BY <1>1, <1>5 DEF Counted
<1>7. LET r == [recorder EXCEPT !.frames = @ + 1, !.lastFrame = now,
                                !.issues["disk_pressure"] = @ + 1]
          q == [recorder EXCEPT !.issues["silence"] = @ + 1]
      IN  /\ r.reconnects = recorder.reconnects /\ q.reconnects = recorder.reconnects
          /\ r.finalized = recorder.finalized /\ q.finalized = recorder.finalized
          /\ DOMAIN r = DOMAIN Down /\ DOMAIN q = DOMAIN Down
  BY <1>1, <1>5
<1> DEFINE Same(r) == /\ DOMAIN r = DOMAIN Down /\ r.reconnects = recorder.reconnects
                      /\ r.finalized = recorder.finalized
           Ended(r, log, reason, outcome) ==
               /\ End(r, log, reason, outcome) /\ Same(r)
               /\ reason = "rotation" => now >= log[Current].started + SegmentDuration
           Goes == /\ TimesOK' /\ StartsStay
                   /\ recorder'.pc \in Writing \ {"manifested"} /\ Same(recorder')
                   /\ Len(connections') = Len(connections)
<1>8. ASSUME NEW log, DOMAIN log = DOMAIN connections,
             log = [i \in DOMAIN connections |-> log[i]],
             \A c \in DOMAIN connections : log[c] = connections[c] \/ c = Current,
             Timed(log[Current]), Latest(log[Current]) <= now,
             log[Current].started = connections[Current].started,
             NEW r, NEW reason, NEW outcome, Ended(r, log, reason, outcome),
             reason = "rotation" => Latest(log[Current]) = now
      PROVE  Goes
  <2>1. TimesOK' /\ StartsStay
    BY <1>2, <1>3, <1>8, EndIsTimed
  <2>2. recorder' = [r EXCEPT !.pc = "sealed", !.outcome = outcome]
    BY <1>8 DEF End
  <2>3. recorder'.pc \in Writing \ {"manifested"} /\ Same(recorder')
    BY <1>5, <1>8, <2>2 DEF Writing
  <2>4. DOMAIN connections' = DOMAIN connections
        /\ connections' = [i \in DOMAIN connections |-> connections'[i]]
    BY <1>8 DEF End
  <2>5. Len(connections') = Len(connections)
    BY <1>1, <2>4, SequenceChanged DEF Shape, ConnectionsOK
  <2> QED
    BY <2>1, <2>3, <2>5
<1>9. ASSUME NEW r, NEW reason, NEW outcome, reason # "rotation",
             End(r, connections, reason, outcome), Same(r)
      PROVE  Goes
  <2>1. Timed(connections[Current]) /\ Latest(connections[Current]) <= now
    BY <1>3 DEF TimesOK
  <2>2. connections = [i \in DOMAIN connections |-> connections[i]]
    BY <1>1, LogSame DEF Shape, ConnectionsOK, IsSequence
  <2>3. Ended(r, connections, reason, outcome)
    BY <1>9
  <2> HIDE DEF Ended, Goes
  <2> QED
    BY <1>8, <1>9, <2>1, <2>2, <2>3
<1>10. ASSUME NEW w, NEW r, NEW reason, NEW outcome, Ended(r, Archived(w), reason, outcome)
       PROVE  Goes
  <2> DEFINE log == Archived(w)
  <2>1. /\ Timed(log[Current]) /\ Latest(log[Current]) = now
        /\ log[Current].started = connections[Current].started
    BY <1>3, ArchivedIsTimed
  <2>2. /\ DOMAIN log = DOMAIN connections /\ log = [i \in DOMAIN connections |-> log[i]]
        /\ \A i \in DOMAIN connections : log[i] = connections[i] \/ i = Current
    BY ArchivedKeeps
  <2>3. now <= now
    BY <1>3 DEF TimesOK
  <2> HIDE DEF Ended, Goes, log
  <2>4. Ended(r, log, reason, outcome)
    BY <1>10 DEF log
  <2> QED
    BY <1>8, <2>1, <2>2, <2>3, <2>4
<1>11. ASSUME NEW w, connections' = Archived(w), Same(recorder'), recorder'.pc = recorder.pc
       PROVE  Goes
  <2> DEFINE log == Archived(w)
  <2>1. /\ Timed(log[Current]) /\ Latest(log[Current]) = now
        /\ log[Current].started = connections[Current].started
    BY <1>3, ArchivedIsTimed
  <2>2. /\ DOMAIN log = DOMAIN connections /\ log = [i \in DOMAIN connections |-> log[i]]
        /\ \A i \in DOMAIN connections : i # Current => log[i] = connections[i]
    BY ArchivedKeeps
  <2> HIDE DEF log
  <2>3. connections' = log
    BY <1>11 DEF log
  <2>4. now <= now
    BY <1>3 DEF TimesOK
  <2>5. TimesOK' /\ StartsStay
    BY <1>2, <1>3, <2>1, <2>2, <2>3, <2>4, UnderwayIsTimed
  <2>6. Len(connections') = Len(connections)
    BY <1>1, <2>2, <2>3, SequenceChanged DEF Shape, ConnectionsOK
  <2> QED
    BY <1>2, <1>11, <2>5, <2>6
<1>12. Goes
  <2>1. CASE Halt \/ GoStale \/ \E reason \in {"disconnect", "error"} : Break(reason)
    <3> HIDE DEF Goes
    <3>1. Same(recorder)
      BY <1>1
    <3>2. Same([recorder EXCEPT !.issues["silence"] = @ + 1])
      BY <1>7
    <3> HIDE DEF Same
    <3> QED
      BY <1>9, <2>1, <3>1, <3>2 DEF Halt, GoStale, Break
  <2>2. ASSUME NEW w \in Wire, Receive(w) \/ RunOutOfSpace(w) \/ FailConsumer(w)
        PROVE  Goes
    <3> DEFINE log == Archived(w)
               before == connections[Current].tracked.tracker.issues
               after == log[Current].tracked.tracker.issues
               counted == Counted(before, after)
               short == [recorder EXCEPT !.frames = @ + 1, !.lastFrame = now,
                                         !.issues["disk_pressure"] = @ + 1]
    <3>1. Same(counted) /\ Same(short) /\ counted.pc = recorder.pc
      BY <1>6, <1>7
    <3>2. log[Current].started = connections[Current].started
      BY <1>3, ArchivedIsTimed
    <3>3. \/ End(short, log, "disk_pressure", "disk_pressure")
          \/ End(counted, log, "error", "frame_consumer_error")
          \/ /\ now >= connections[Current].started + SegmentDuration
             /\ \E reason \in {"shutdown", "rotation"} : End(counted, log, reason, "return")
          \/ recorder' = counted /\ connections' = log
      BY <2>2 DEF Receive, RunOutOfSpace, FailConsumer
    <3> HIDE DEF Goes, Same, counted, short
    <3>4. CASE recorder' = counted /\ connections' = log
      BY <1>11, <3>1, <3>4
    <3>5. ASSUME NEW r, NEW reason, NEW outcome, End(r, log, reason, outcome), Same(r),
                 reason = "rotation" => now >= connections[Current].started + SegmentDuration
          PROVE  Goes
      <4>1. Ended(r, log, reason, outcome)
        BY <3>2, <3>5
      <4> HIDE DEF Ended
      <4> QED
        BY <1>10, <4>1
    <3> HIDE DEF log
    <3> QED
      BY <3>1, <3>3, <3>4, <3>5
  <2> HIDE DEF Goes
  <2> QED
    BY <2>1, <2>2
<1> QED
  BY <1>2, <1>4, <1>12, WritingGoesOn

\* The steps of a process about its segment that say nothing of its connection.
LEMMA SegmentGoesOn ==
    ASSUME CaptureInv, SoakInv, Connect \/ Rename \/ SyncRename \/ WriteManifest
    PROVE  SoakInv'
<1>1. Shape /\ DOMAIN recorder = DOMAIN Down
  BY DEF CaptureInv, Shape, RecorderOK
<1>2. recorder.pc \in Writing /\ UNCHANGED <<now, connections, evidence>>
  BY DEF Connect, Rename, SyncRename, WriteManifest, FileStep, Writing
<1>3. now \in Nat /\ now <= now
  BY DEF SoakInv, TimesOK
<1>4. TimesOK' /\ StartsStay
  BY <1>2, <1>3, TimesStay DEF SoakInv
<1>5. /\ recorder'.pc \in Writing /\ recorder'.reconnects = recorder.reconnects
      /\ recorder'.finalized = recorder.finalized
      /\ recorder'.pc = "manifested" => WriteManifest
  <2>2. "pc" \in DOMAIN recorder
    BY <1>1 DEF Down
  <2>3. ASSUME NEW pc, recorder' = [recorder EXCEPT !.pc = pc]
        PROVE  /\ recorder'.pc = pc /\ recorder'.reconnects = recorder.reconnects
               /\ recorder'.finalized = recorder.finalized
    BY <2>2, <2>3
  <2>4. CASE WriteManifest
    <3>1. recorder' = [recorder EXCEPT !.pc = "manifested"]
      BY <2>4 DEF WriteManifest, FileStep
    <3> QED
      BY <2>3, <2>4, <3>1 DEF Writing
  <2>5. CASE ~ WriteManifest
    <3>1. \/ recorder' = [recorder EXCEPT !.pc = "connected", !.heard = now]
          \/ \E pc \in {"renamed", "synced"} : recorder' = [recorder EXCEPT !.pc = pc]
      BY <2>5 DEF Connect, Rename, SyncRename, FileStep
    <3>2. recorder'.pc \in Writing \ {"manifested"} /\ recorder'.reconnects = recorder.reconnects
          /\ recorder'.finalized = recorder.finalized
      <4>1. CASE recorder' = [recorder EXCEPT !.pc = "connected", !.heard = now]
        BY <1>1, <4>1 DEF Writing, Down
      <4>2. CASE \E pc \in {"renamed", "synced"} : recorder' = [recorder EXCEPT !.pc = pc]
        BY <2>3, <4>2 DEF Writing
      <4> QED
        BY <3>1, <4>1, <4>2
    <3> QED
      BY <3>2
  <2> QED
    BY <2>4, <2>5
<1>6. Current \in DOMAIN files /\ files \in Seq(Files) /\ files[Current] \in Files
  BY <1>1, <1>2, OpenedSegments DEF Shape, FilesOK
<1>7. FilesStay /\ (WriteManifest => files'[Current].manifest \in Written)
  <2>1. CASE Connect
    <3>1. ~ WriteManifest
      BY <2>1 DEF Connect, WriteManifest, FileStep
    <3> QED
      BY <2>1, <3>1 DEF Connect, FilesStay
  <2>2. CASE ~ Connect
    <3>1. PICK f : /\ files' = [files EXCEPT ![Current] = f]
                   /\ StaysWritten(files[Current], f)
                   /\ WriteManifest => f.manifest \in Written
      <4>1. CASE Rename
        BY <1>6, <4>1 DEF Rename, WriteManifest, FileStep, StaysWritten, Filed, Files
      <4>2. CASE SyncRename
        BY <1>6, <4>2 DEF SyncRename, WriteManifest, FileStep, StaysWritten, Filed, Files
      <4>3. CASE WriteManifest
        <5> DEFINE f == [files[Current] EXCEPT !.manifest = "raw"]
        <5>1. files' = [files EXCEPT ![Current] = f]
          BY <4>3 DEF WriteManifest, FileStep
        <5>2. f.manifest \in Written /\ f.manifestSafe = files[Current].manifestSafe
          BY <1>6 DEF Written, Files
        <5> HIDE DEF f
        <5> QED
          BY <5>1, <5>2 DEF StaysWritten, Filed
      <4> QED
        BY <2>2, <4>1, <4>2, <4>3
    <3> QED
      BY <1>6, <3>1 DEF FilesStay, StaysWritten
  <2> QED
    BY <2>1, <2>2
<1>8. Current' = Current
  BY <1>2 DEF Current
<1> QED
  BY <1>2, <1>4, <1>5, <1>7, <1>8, WritingGoesOn

\* A process starts with no segment to its count.
LEMMA StartCounts ==
    ASSUME CaptureInv, SoakInv, NEW automatic \in BOOLEAN, StartRecorder(automatic)
    PROVE  SoakInv'
<1>1. UNCHANGED <<now, connections, files, evidence>>
  BY DEF StartRecorder
<1>2. recorder'.pc = "idle" /\ recorder'.reconnects = 0 /\ recorder'.finalized = 0
  BY DEF StartRecorder, Down
<1>3. now \in Nat /\ now <= now
  BY DEF SoakInv, TimesOK
<1>4. TimesOK' /\ StartsStay
  BY <1>1, <1>3, TimesStay DEF SoakInv
<1>5. FilesStay
  BY <1>1 DEF FilesStay
<1>6. EvidenceOK'
  BY <1>1, <1>4, <1>5, EvidenceStays DEF SoakInv
<1>7. CountersOK'
  BY <1>2 DEF CountersOK
<1>8. CountIsUnbroken'
  <2> DEFINE n == Len(connections)
  <2>1. n \in Nat
    BY OpenedSegments DEF CaptureInv
  <2>2. LastDone' = n
    BY <1>1, <1>2 DEF LastDone
  <2>3. Unbroken(files', n + 1, LastDone', recorder'.finalized)
    BY <1>2, <2>1, <2>2 DEF Unbroken
  <2>4. n + 1 \in Nat
    BY <2>1
  <2> QED
    BY <2>3, <2>4 DEF CountIsUnbroken
<1> QED
  BY <1>4, <1>6, <1>7, <1>8 DEF SoakInv

\* A connection is opened behind those that were.
LEMMA OpenCounts ==
    ASSUME CaptureInv, SoakInv, Open
    PROVE  SoakInv'
<1> DEFINE log == [started |-> now, frames |-> <<>>, reason |-> "none",
                   tracked |-> NothingTracked]
           n == Len(connections) + 1
<1>1. Shape /\ DOMAIN recorder = DOMAIN Down
  BY DEF CaptureInv, Shape, RecorderOK
<1>2. connections' = Append(connections, log) /\ files' = Append(files, NewFiles)
      /\ UNCHANGED <<now, evidence>> /\ recorder.pc = "idle"
      /\ recorder' = [recorder EXCEPT !.pc = "opening", !.opened = n]
  BY DEF Open
<1>3. Timed(log) /\ Latest(log) = now /\ log.started = now
  <2>1. IsSequence(<<>>)
    BY EmptySeq DEF IsSequence
  <2>2. now \in Nat
    BY DEF SoakInv, TimesOK
  <2>3. DOMAIN log = LogFields /\ log.frames = <<>> /\ log.started = now /\ log.reason = "none"
    BY DEF LogFields
  <2>4. DOMAIN <<>> = {}
    OBVIOUS
  <2> HIDE DEF log
  <2>5. Latest(log) = now
    BY <2>3 DEF Latest
  <2> QED
    BY <2>1, <2>2, <2>3, <2>4, <2>5 DEF Timed
<1> HIDE DEF log
<1>4. IsSequence(connections') /\ Len(connections') = n
      /\ \A i \in DOMAIN connections : connections'[i] = connections[i]
  BY <1>1, <1>2, SequenceAppended DEF Shape, ConnectionsOK
<1>5. Len(connections) \in Nat /\ DOMAIN connections = 1 .. Len(connections)
      /\ DOMAIN connections' = 1 .. n /\ DOMAIN files = DOMAIN connections
  BY <1>1, <1>4, OpenedSegments, SequenceDomain
<1>6. connections'[n] = log
  <2> DEFINE all == {connections[i] : i \in DOMAIN connections} \cup {log}
  <2>1. connections \in Seq(all) /\ log \in all
    BY <1>1 DEF Shape, ConnectionsOK, IsSequence
  <2> HIDE DEF all
  <2> QED
    BY <1>2, <2>1, AppendProperties
<1>7. FilesStay
  <2>1. files \in Seq(Files) /\ NewFiles \in Files
    BY <1>1 DEF Shape, FilesOK, NewFiles, Files, Places
  <2>2. \A c \in DOMAIN files : c \in DOMAIN files' /\ files'[c] = files[c]
    BY <1>2, <2>1, AppendProperties
  <2> QED
    BY <2>2 DEF FilesStay
<1>8. \A c \in DOMAIN connections' : c = n \/ c \in DOMAIN connections
  BY <1>5
<1>9. now \in Nat /\ now' = now
  BY <1>2 DEF SoakInv, TimesOK
<1> HIDE DEF n
<1>10. StartsStay
  <2>1. DOMAIN connections \subseteq DOMAIN connections'
    BY <1>5 DEF n
  <2> QED
    BY <1>3, <1>4, <1>6, <1>8, <1>9, <2>1 DEF StartsStay
<1>11. TimesOK'
  <2>1. ASSUME NEW c \in DOMAIN connections'
        PROVE  Timed(connections'[c]) /\ Latest(connections'[c]) <= now
    BY <1>3, <1>4, <1>6, <1>8, <1>9 DEF SoakInv, TimesOK
  <2>2. ASSUME NEW c \in DOMAIN connections', NEW d \in DOMAIN connections', c < d
        PROVE  Latest(connections'[c]) <= connections'[d].started
    <3>1. CASE d = n
      BY <1>3, <1>6, <2>1, <3>1
    <3>2. CASE d # n
      <4>1. c \in DOMAIN connections /\ d \in DOMAIN connections
        BY <1>5, <1>8, <2>2, <3>2 DEF n
      <4> QED
        BY <1>4, <2>2, <4>1 DEF SoakInv, TimesOK
    <3> QED
      BY <3>1, <3>2
  <2> QED
    BY <1>9, <2>1, <2>2 DEF TimesOK
<1>12. /\ recorder'.pc = "opening" /\ recorder'.reconnects = recorder.reconnects
       /\ recorder'.finalized = recorder.finalized
  BY <1>1, <1>2 DEF Down
<1>13. CountersOK'
  BY <1>12 DEF SoakInv, CountersOK, Writing
<1>14. LastDone' = LastDone
  BY <1>2, <1>4, <1>5, <1>12 DEF LastDone, n
<1>15. CountIsUnbroken'
  BY <1>2, <1>7, <1>12, <1>14, CountStays DEF SoakInv
<1>16. EvidenceOK'
  BY <1>2, <1>7, <1>10, EvidenceStays DEF SoakInv
<1> QED
  BY <1>11, <1>13, <1>15, <1>16 DEF SoakInv

\* What ends a process, or finds it waiting.
LEMMA RecorderStops ==
    ASSUME CaptureInv, SoakInv, Reconnect \/ LeaveLoop \/ CrashRecorder \/ LosePower
    PROVE  SoakInv'
<1>1. Shape /\ DOMAIN recorder = DOMAIN Down
  BY DEF CaptureInv, Shape, RecorderOK
<1>2. UNCHANGED <<now, connections, evidence>>
  BY DEF Reconnect, LeaveLoop, CrashRecorder, LosePower
<1>3. now \in Nat /\ now <= now
  BY DEF SoakInv, TimesOK
<1>4. TimesOK' /\ StartsStay
  BY <1>2, <1>3, TimesStay DEF SoakInv
<1>5. FilesStay
  <2>1. CASE ~ LosePower
    BY <2>1 DEF Reconnect, LeaveLoop, CrashRecorder, FilesStay
  <2>2. CASE LosePower
    <3>1. PICK data \in SUBSET Opened, manifests \in SUBSET Opened :
              files' = [c \in Opened |-> Remains(files[c], c \in data, c \in manifests)]
      BY <2>2 DEF LosePower
    <3>2. Opened = DOMAIN files /\ files \in Seq(Files)
      BY <1>1, OpenedSegments DEF Shape, FilesOK
    <3>3. ASSUME NEW c \in DOMAIN files, Filed(files[c])
          PROVE  Filed(files'[c])
      <4> DEFINE d == c \in data
                 m == c \in manifests
      <4>1. d \in BOOLEAN /\ m \in BOOLEAN /\ files[c] \in Files
        BY <3>2
      <4>2. files'[c] = Remains(files[c], d, m)
        BY <3>1, <3>2
      <4> HIDE DEF d, m
      <4> QED
        BY <3>3, <4>1, <4>2 DEF Remains, Files, Filed
    <3> QED
      BY <3>1, <3>2, <3>3 DEF FilesStay
  <2> QED
    BY <2>1, <2>2
<1>6. recorder' = Down \/ (recorder.pc = "waiting" /\ recorder' = [recorder EXCEPT !.pc = "idle"])
  BY DEF Reconnect, LeaveLoop, CrashRecorder, LosePower
<1>7. /\ recorder'.pc \in {"idle", "waiting", "down"}
      /\ recorder'.reconnects \in Nat /\ recorder'.finalized \in Nat
      /\ recorder'.pc # "down" => recorder'.reconnects > 0
  <2>1. CASE recorder' = Down
    BY <2>1 DEF Down
  <2>2. CASE recorder.pc = "waiting" /\ recorder' = [recorder EXCEPT !.pc = "idle"]
    <3>1. /\ recorder'.pc = "idle" /\ recorder'.reconnects = recorder.reconnects
          /\ recorder'.finalized = recorder.finalized
      BY <1>1, <2>2 DEF Down
    <3> QED
      BY <2>2, <3>1 DEF SoakInv, CountersOK
  <2> QED
    BY <1>6, <2>1, <2>2
<1> QED
  BY <1>2, <1>4, <1>5, <1>7, CountingEnds

\* What run makes of the end of a connection: it stops, it counts a reconnect, or
\* it opens the next connection.
LEMMA SettleCounts ==
    ASSUME NEW r, DOMAIN r = DOMAIN Down, r.reconnects \in Nat, r.finalized \in Nat,
           NEW outcome, Settle(r, outcome)
    PROVE  /\ recorder'.pc \in {"idle", "waiting", "down"}
           /\ recorder'.reconnects \in Nat /\ recorder'.finalized \in Nat
           /\ \/ recorder'.pc = "down"
              \/ recorder'.reconnects > 0
              \/ /\ outcome = "return" /\ recorder'.pc = "idle"
                 /\ recorder'.reconnects = r.reconnects
                 /\ recorder'.finalized = r.finalized
<1> DEFINE next == [r EXCEPT !.outcome = "none"]
           again == [next EXCEPT !.reconnects = @ + 1]
           idle == [next EXCEPT !.pc = "idle"]
           waiting == [again EXCEPT !.pc = "waiting"]
<1>1. /\ idle.pc = "idle" /\ idle.reconnects = r.reconnects /\ idle.finalized = r.finalized
      /\ waiting.pc = "waiting" /\ waiting.reconnects = r.reconnects + 1
      /\ waiting.finalized = r.finalized
      /\ Down.pc = "down" /\ Down.reconnects = 0 /\ Down.finalized = 0
  BY DEF Down
<1>2. \/ outcome = "return" /\ recorder' = idle
      \/ recorder' = Down
      \/ recorder' = waiting
  BY DEF Settle
<1> HIDE DEF idle, waiting
<1> QED
  BY <1>1, <1>2

\* A segment that is registered is one more of those that follow one another.
LEMMA PublishCounts ==
    ASSUME CaptureInv, SoakInv, Publish \/ FailFinalize
    PROVE  SoakInv'
<1>1. Shape /\ DOMAIN recorder = DOMAIN Down
  BY DEF CaptureInv, Shape, RecorderOK
<1>2. UNCHANGED <<now, connections, evidence>>
  BY DEF Publish, FailFinalize
<1>3. now \in Nat /\ now <= now
  BY DEF SoakInv, TimesOK
<1>4. TimesOK' /\ StartsStay
  BY <1>2, <1>3, TimesStay DEF SoakInv
<1>5. recorder.reconnects \in Nat /\ recorder.finalized \in Nat
  BY DEF SoakInv, CountersOK
<1>6. CASE FailFinalize
  <2>1. FilesStay
    BY <1>6 DEF FailFinalize, FilesStay
  <2>2. Settle(recorder, "connection_error")
    BY <1>6 DEF FailFinalize
  <2>3. /\ recorder'.pc \in {"idle", "waiting", "down"}
        /\ recorder'.reconnects \in Nat /\ recorder'.finalized \in Nat
        /\ recorder'.pc # "down" => recorder'.reconnects > 0
    BY <1>1, <1>5, <2>2, SettleCounts
  <2> QED
    BY <1>2, <1>4, <2>1, <2>3, CountingEnds
<1>7. CASE Publish
  <2> DEFINE f == files[Current]
             g == [f EXCEPT !.dataSafe = f.data, !.manifestSafe = f.manifest]
             counted == [recorder EXCEPT !.finalized = @ + 1]
             n == Len(connections)
  <2>1. recorder.pc = "manifested" /\ recorder.pc \in Writing
    BY <1>7 DEF Publish, Writing
  <2>2. /\ f \in Files /\ Current \in DOMAIN files /\ DOMAIN files = 1 .. n
        /\ n \in Nat /\ Current = n
    BY <1>1, <2>1, OpenedSegments DEF Shape, FilesOK, Current, Opened
  <2>3. files' = [files EXCEPT ![Current] = g]
    BY <1>7, <2>2 DEF Publish
  <2>4. Filed(g) /\ f.manifest \in Written
    <3>1. f.manifest \in Written
      BY <2>1 DEF SoakInv, CountersOK
    <3>2. g.manifest = f.manifest /\ g.manifestSafe = f.manifest
      BY <2>2 DEF Files
    <3> QED
      BY <3>1, <3>2 DEF Filed
  <2> HIDE DEF g
  <2>5. FilesStay /\ DOMAIN files' = DOMAIN files /\ Filed(files'[n])
    BY <2>2, <2>3, <2>4 DEF FilesStay
  <2>6. /\ DOMAIN counted = DOMAIN Down /\ counted.reconnects = recorder.reconnects
        /\ counted.finalized = recorder.finalized + 1
    BY <1>1 DEF Down
  <2>7. PICK outcome : Settle(counted, outcome)
    BY <1>7 DEF Publish
  <2> HIDE DEF counted
  <2>8. /\ recorder'.pc \in {"idle", "waiting", "down"}
        /\ recorder'.reconnects \in Nat /\ recorder'.finalized \in Nat
        /\ \/ recorder'.pc = "down"
           \/ recorder'.reconnects > 0
           \/ /\ recorder'.pc = "idle" /\ recorder'.reconnects = recorder.reconnects
              /\ recorder'.finalized = recorder.finalized + 1
    BY <1>5, <2>6, <2>7, SettleCounts
  <2>9. CASE recorder'.pc = "down" \/ recorder'.reconnects > 0
    BY <1>2, <1>4, <2>5, <2>8, <2>9, CountingEnds
  <2>10. CASE ~ (recorder'.pc = "down" \/ recorder'.reconnects > 0)
    <3>1. recorder'.pc = "idle" /\ recorder'.finalized = recorder.finalized + 1
          /\ recorder'.reconnects = 0 /\ recorder.reconnects = 0
      BY <1>5, <2>8, <2>10
    <3>2. LastDone = n - 1 /\ LastDone' = n
      BY <1>2, <2>1, <3>1 DEF LastDone
    <3>3. PICK first \in Nat : Unbroken(files, first, n - 1, recorder.finalized)
      BY <2>1, <3>1, <3>2 DEF SoakInv, CountIsUnbroken
    <3>4. Unbroken(files', first, n, recorder'.finalized)
      <4>1. /\ first \in Nat \ {0} /\ n \in Int
            /\ recorder.finalized = n - 1 + 1 - first
            /\ \A c \in first .. n - 1 : c \in DOMAIN files /\ Filed(files[c])
        BY <2>2, <3>3 DEF Unbroken
      <4>2. \A c \in first .. n : c = n \/ c \in first .. n - 1
        BY <2>2, <4>1
      <4>3. \A c \in first .. n : c \in DOMAIN files' /\ Filed(files'[c])
        BY <2>2, <2>5, <4>1, <4>2 DEF FilesStay
      <4>4. recorder'.finalized = n + 1 - first
        BY <2>2, <3>1, <4>1
      <4> QED
        BY <4>1, <4>3, <4>4 DEF Unbroken
    <3>5. CountIsUnbroken'
      BY <3>2, <3>4 DEF CountIsUnbroken
    <3>6. CountersOK'
      BY <2>8, <3>1 DEF CountersOK
    <3>7. EvidenceOK'
      BY <1>2, <1>4, <2>5, EvidenceStays DEF SoakInv
    <3> QED
      BY <1>4, <3>5, <3>6, <3>7 DEF SoakInv
  <2> QED
    BY <2>9, <2>10
<1> QED
  BY <1>6, <1>7

\* What an operator captures is what the process counts.
LEMMA MetricsAreCaptured ==
    ASSUME CaptureInv, SoakInv, CaptureMetrics
    PROVE  SoakInv'
<1>1. UNCHANGED <<now, connections, files, recorder>> /\ recorder.pc \in {"connected", "waiting"}
  BY DEF CaptureMetrics, recorderVars
<1>2. /\ evidence'.captured = now /\ evidence'.connected = (recorder.pc = "connected")
      /\ evidence'.reconnects = recorder.reconnects
      /\ evidence'.finalized = recorder.finalized
  BY DEF CaptureMetrics
<1>3. now \in Nat /\ now <= now
  BY DEF SoakInv, TimesOK
<1>4. TimesOK' /\ CountersOK' /\ CountIsUnbroken'
  BY <1>1 DEF SoakInv, TimesOK, CountersOK, CountIsUnbroken, LastDone, Current
<1>5. ASSUME recorder.pc = "connected", recorder.reconnects = 0
      PROVE  \E first \in Nat : \E n \in DOMAIN connections :
                 /\ Unbroken(files, first, n - 1, recorder.finalized)
                 /\ connections[n].started <= now
                 /\ \A c \in DOMAIN connections : c > n => connections[c].started >= now
  <2> DEFINE n == Len(connections)
  <2>1. n \in DOMAIN connections /\ DOMAIN connections = 1 .. n /\ n \in Nat
    BY <1>5, OpenedSegments DEF CaptureInv, Writing, Current
  <2>2. LastDone = n - 1
    BY <1>5 DEF LastDone
  <2>3. PICK first \in Nat : Unbroken(files, first, n - 1, recorder.finalized)
    BY <1>5, <2>2 DEF SoakInv, CountIsUnbroken
  <2>4. connections[n].started <= now
    <3>1. Timed(connections[n]) /\ Latest(connections[n]) <= now
      BY <2>1 DEF SoakInv, TimesOK
    <3> QED
      BY <1>3, <3>1 DEF Timed
  <2>5. \A c \in DOMAIN connections : ~ (c > n)
    BY <2>1
  <2> QED
    BY <2>1, <2>3, <2>4, <2>5
<1>6. EvidenceOK'
  <2>1. recorder.reconnects \in Nat
    BY DEF SoakInv, CountersOK
  <2> QED
    BY <1>1, <1>2, <1>3, <1>5, <2>1 DEF EvidenceOK
<1> QED
  BY <1>4, <1>6 DEF SoakInv

\* The normalizer and the commands move manifests that were written, and write none.
LEMMA OthersKeep ==
    ASSUME CaptureInv, SoakInv,
           \/ RequestStop \/ Tick \/ Recover
           \/ RunBatch \/ CrashNormalizer
           \/ \E automatic \in BOOLEAN : StartNormalizer(automatic)
           \/ \E c \in Opened : Damage(c)
    PROVE  SoakInv'
<1>1. Shape
  BY DEF CaptureInv
<1>2. UNCHANGED <<connections, recorder, evidence>>
  BY DEF RequestStop, Tick, Recover, RunBatch, CrashNormalizer, StartNormalizer, Damage,
         recorderVars
<1>3. now' \in Nat /\ now <= now'
  <2>1. now \in Nat
    BY DEF SoakInv, TimesOK
  <2>2. now' = now \/ now' = now + 1
    BY DEF RequestStop, Tick, Recover, RunBatch, CrashNormalizer, StartNormalizer, Damage
  <2> QED
    BY <2>1, <2>2
<1>4. files \in Seq(Files) /\ Opened = DOMAIN files /\ \A c \in DOMAIN files : files[c] \in Files
  BY <1>1, OpenedSegments DEF Shape, FilesOK
<1>5. \A c \in DOMAIN files : c \in DOMAIN files' /\ StaysWritten(files[c], files'[c])
  <2>1. CASE UNCHANGED files
    BY <2>1 DEF StaysWritten
  <2>2. ASSUME NEW b, BatchOK(b), Write(b)
        PROVE  \A c \in DOMAIN files : c \in DOMAIN files' /\ StaysWritten(files[c], files'[c])
    <3>1. files' = b.files /\ DOMAIN b.files = DOMAIN files
      BY <1>4, <2>2 DEF Write, BatchOK
    <3> QED
      BY <2>2, <3>1 DEF BatchOK
  <2>3. CASE RunBatch
    <3> DEFINE b == ProcessAll(Batch, Pending)
    <3>1. BatchOK(b)
      BY BatchStarts, ProcessAllKeeps
    <3>2. Write(b)
      BY <2>3 DEF RunBatch
    <3> HIDE DEF b
    <3> QED
      BY <2>2, <3>1, <3>2
  <2>4. CASE CrashNormalizer
    <3>1. PICK c \in Pending : \E torn \in Torn(c) :
              Write(ProcessAll(torn, {d \in Pending : d < c}))
      BY <2>4 DEF CrashNormalizer
    <3>2. PICK torn \in Torn(c) : Write(ProcessAll(torn, {d \in Pending : d < c}))
      BY <3>1
    <3> DEFINE S == {d \in Pending : d < c}
               b == ProcessAll(torn, S)
    <3>3. BatchOK(torn) /\ S \in SUBSET Pending
      BY <3>1, <3>2, TornKeeps
    <3>4. Write(b)
      BY <3>2
    <3> HIDE DEF S
    <3>5. BatchOK(b)
      BY <3>3, ProcessAllKeeps
    <3> HIDE DEF b
    <3> QED
      BY <2>2, <3>4, <3>5
  <2>5. CASE Recover
    <3> DEFINE clean(file) ==
                   IF file.data = "partial" \/ (file.data = "raw" /\ file.manifest # "raw")
                   THEN Move(file, "incomplete")
                   ELSE IF file.manifest = "raw" /\ file.data # "raw"
                   THEN MoveManifest(file, "incomplete") ELSE file
    <3>1. files' = [c \in DOMAIN files |-> clean(files[c])]
      BY <2>5 DEF Recover
    <3>2. ASSUME NEW f \in Files
          PROVE  StaysWritten(f, clean(f))
      <4>1. "incomplete" \in Places /\ "incomplete" \in Written
        BY DEF Places, Written
      <4>2. StaysWritten(f, Move(f, "incomplete")) /\ StaysWritten(f, MoveManifest(f, "incomplete"))
        BY <4>1, MovedAway
      <4>3. StaysWritten(f, f)
        BY DEF StaysWritten
      <4> QED
        BY <4>2, <4>3
    <3> HIDE DEF clean
    <3> QED
      BY <1>4, <3>1, <3>2
  <2>6. ASSUME NEW c \in Opened, Damage(c)
        PROVE  \A d \in DOMAIN files : d \in DOMAIN files' /\ StaysWritten(files[d], files'[d])
    <3>1. files' = [files EXCEPT ![c].damaged = TRUE]
      BY <2>6 DEF Damage
    <3>2. \A d \in DOMAIN files : /\ d \in DOMAIN files'
                                  /\ files'[d].manifest = files[d].manifest
                                  /\ files'[d].manifestSafe = files[d].manifestSafe
      BY <1>4, <3>1 DEF Files
    <3> QED
      BY <3>2 DEF StaysWritten, Filed
  <2> QED
    BY <2>1, <2>3, <2>4, <2>5, <2>6 DEF RequestStop, Tick, StartNormalizer
<1> QED
  BY <1>2, <1>3, <1>5, RecorderRests

\* At first nothing was opened, counted or captured.
LEMMA SoakStarts == Init => SoakInv
<1> SUFFICES ASSUME Init PROVE SoakInv
  OBVIOUS
<1>1. now = 0 /\ DOMAIN connections = {} /\ recorder = Down /\ evidence = None
  BY DEF Init
<1>2. TimesOK
  BY <1>1 DEF TimesOK
<1>3. CountersOK
  BY <1>1 DEF CountersOK, Down, Writing
<1>4. CountIsUnbroken /\ EvidenceOK
  BY <1>1 DEF CountIsUnbroken, EvidenceOK, Down
<1> QED
  BY <1>2, <1>3, <1>4 DEF SoakInv

\* Every step keeps the order of times, the counters and what was captured.
LEMMA SoakSteps == CaptureInv /\ SoakInv /\ [Next]_vars => SoakInv'
<1> SUFFICES ASSUME CaptureInv, SoakInv, [Next]_vars PROVE SoakInv'
  OBVIOUS
<1>1. CASE Recording
  BY <1>1, StartCounts, OpenCounts, SegmentGoesOn, FrameIsCounted, OthersKeep, RecorderStops,
     PublishCounts DEF Recording
<1>2. CASE Normalizing \/ CrashNormalizer \/ CaptureMetrics \/ Tick
  BY <1>2, OthersKeep, MetricsAreCaptured DEF Normalizing
<1>3. CASE CrashRecorder \/ LosePower \/ Recover \/ \E c \in Opened : Damage(c)
  BY <1>3, RecorderStops, OthersKeep
<1>4. CASE UNCHANGED vars
  <2>1. now' = now /\ now \in Nat
    BY <1>4 DEF vars, SoakInv, TimesOK
  <2>2. \A c \in DOMAIN files : c \in DOMAIN files' /\ StaysWritten(files[c], files'[c])
    BY <1>4 DEF vars, StaysWritten
  <2>3. now' \in Nat /\ now <= now' /\ UNCHANGED <<connections, recorder, evidence>>
    BY <1>4, <2>1 DEF vars
  <2> QED
    BY <2>2, <2>3, RecorderRests
<1> QED
  BY <1>1, <1>2, <1>3, <1>4 DEF Next

\* The invariant of a soak: the order of times, and the segments that the counters
\* of the recorder, and those that were captured, stand for.
THEOREM SoakInvariance == Spec => [](CaptureInv /\ SoakInv)
<1>1. CaptureInv /\ SoakInv /\ [Next]_vars => (CaptureInv /\ SoakInv)'
  BY CaptureSteps, SoakSteps
<1> QED
  BY <1>1, CaptureStarts, SoakStarts, PTL DEF Spec

-----------------------------------------------------------------------------
(* The segments of a report                                                 *)

\* What the segments of a report are: named by their connection, and started in
\* the order in which they were opened.
Ordered(S) ==
    /\ IsFiniteSet(S) /\ S # {}
    /\ \A s \in S : s.id \in Nat /\ s.started \in Nat
    /\ \A s, t \in S : s.id = t.id => s = t
    /\ \A s, t \in S : s.id < t.id => s.started <= t.started

Ids(S) == {s.id : s \in S}

\* There are as many as connections they are of.
LEMMA IdsAreFewer ==
    ASSUME NEW S, IsFiniteSet(S)
    PROVE  IsFiniteSet(Ids(S)) /\ Cardinality(Ids(S)) <= Cardinality(S)
<1> DEFINE f == [s \in S |-> s.id]
<1>1. f \in [S -> Ids(S)] /\ \A x \in Ids(S) : \E s \in S : f[s] = x
  BY DEF Ids
<1> HIDE DEF f
<1>2. f \in Surjection(S, Ids(S))
  BY <1>1 DEF Surjection
<1> QED
  BY <1>2, FS_Surjection

\* The first and the last of them are among them.
LEMMA EndsOfOrder ==
    ASSUME NEW S, Ordered(S)
    PROVE  InOrder(S)[1] \in S /\ InOrder(S)[Cardinality(S)] \in S
<1> DEFINE earlier(s) == {t \in S : Before(t, s)}
           N == Cardinality(S)
<1>1. N \in Nat /\ N # 0
  BY FS_CardinalityType, FS_EmptySet DEF Ordered
<1>2. \A s, t \in S : Before(t, s) <=> t.id < s.id
  BY DEF Ordered, Before
<1>3. Ids(S) \in SUBSET Nat /\ Ids(S) # {} /\ IsFiniteSet(Ids(S))
  BY IdsAreFewer DEF Ordered, Ids
<1>4. \E s \in S : Cardinality(earlier(s)) = 1 - 1
  <2>1. PICK x \in Ids(S) : \A y \in Ids(S) : x <= y
    BY <1>3, Processing!LeastElement
  <2>2. PICK s \in S : s.id = x
    BY DEF Ids
  <2>3. \A t \in S : ~ (t.id < s.id)
    <3>1. ASSUME NEW t \in S PROVE ~ (t.id < s.id)
      <4>1. t.id \in Ids(S)
        BY DEF Ids
      <4>2. s.id <= t.id
        BY <2>1, <2>2, <4>1
      <4> QED
        BY <4>2 DEF Ordered
    <3> QED
      BY <3>1
  <2>4. earlier(s) = {}
    BY <1>2, <2>3
  <2> HIDE DEF earlier
  <2> QED
    BY <2>4, FS_EmptySet
<1>5. \E s \in S : Cardinality(earlier(s)) = N - 1
  <2>1. PICK x \in Ids(S) : \A y \in Ids(S) : y <= x
    <3>1. Ids(S) \in SUBSET Int
      BY <1>3
    <3> QED
      BY <1>3, <3>1, Processing!GreatestElement DEF IsFiniteSet, Processing!IsFiniteSet
  <2>2. PICK s \in S : s.id = x
    BY DEF Ids
  <2>3. \A t \in S : t # s => t.id < s.id
    <3>1. ASSUME NEW t \in S, t # s PROVE t.id < s.id
      <4>1. t.id \in Ids(S)
        BY DEF Ids
      <4>2. t.id <= s.id /\ t.id # s.id
        BY <2>1, <2>2, <3>1, <4>1 DEF Ordered
      <4> QED
        BY <4>2 DEF Ordered
    <3> QED
      BY <3>1
  <2>4. ~ (s.id < s.id)
    BY DEF Ordered
  <2>5. earlier(s) = S \ {s}
    BY <1>2, <2>3, <2>4
  <2> HIDE DEF earlier
  <2>6. Cardinality(S \ {s}) = N - 1
    BY FS_RemoveElement DEF Ordered
  <2> QED
    BY <2>5, <2>6
<1>6. ASSUME NEW n \in 1 .. N, \E s \in S : Cardinality(earlier(s)) = n - 1
      PROVE  InOrder(S)[n] \in S
  <2>1. InOrder(S)[n] = CHOOSE s \in S : Cardinality(earlier(s)) = n - 1
    BY DEF InOrder
  <2> HIDE DEF earlier
  <2> QED
    BY <1>6, <2>1
<1>7. 1 \in 1 .. N /\ N \in 1 .. N
  BY <1>1
<1> HIDE DEF earlier, N
<1> QED
  BY <1>4, <1>5, <1>6, <1>7 DEF N

\* The segments of a report are those of its window.
LEMMA SegmentsAreOrdered ==
    ASSUME CaptureInv, SoakInv, NEW W \in SUBSET Opened, W # {}
    PROVE  /\ Ordered({SegmentOf(c) : c \in W})
           /\ Ids({SegmentOf(c) : c \in W}) = W
<1> DEFINE S == {SegmentOf(c) : c \in W}
<1>1. /\ Opened = DOMAIN connections /\ Opened = 1 .. Len(connections)
      /\ Len(connections) \in Nat
  BY OpenedSegments DEF CaptureInv
<1>2. IsFiniteSet(W)
  <2>1. IsFiniteSet(1 .. Len(connections))
    BY <1>1, FS_Interval
  <2> QED
    BY <1>1, <2>1, FS_Subset
<1>3. \A c \in W : SegmentOf(c).id = c /\ SegmentOf(c).started = connections[c].started
  BY DEF SegmentOf
<1> DEFINE f == [c \in W |-> SegmentOf(c)]
<1>4. f \in [W -> S] /\ \A s \in S : \E c \in W : f[c] = s
  OBVIOUS
<1> HIDE DEF f
<1>5. f \in Surjection(W, S)
  BY <1>4 DEF Surjection
<1>6. IsFiniteSet(S)
  BY <1>2, <1>5, FS_Surjection
<1>7. \A s \in S : s.id \in W /\ s = SegmentOf(s.id)
  BY <1>3
<1>8. \A c \in W : c \in Nat /\ connections[c].started \in Nat
  BY <1>1 DEF SoakInv, TimesOK, Timed
<1>9. \A c, d \in W : c < d => connections[c].started <= connections[d].started
  <2>1. ASSUME NEW c \in W, NEW d \in W, c < d
        PROVE  connections[c].started <= connections[d].started
    <3>1. Timed(connections[c]) /\ Timed(connections[d])
          /\ Latest(connections[c]) <= connections[d].started
      BY <1>1, <2>1 DEF SoakInv, TimesOK
    <3> QED
      BY <3>1 DEF Timed
  <2> QED
    BY <2>1
<1>10. S # {}
  OBVIOUS
<1>11. Ids(S) = W
  BY <1>3 DEF Ids
<1> HIDE DEF S
<1>12. \A s \in S : s.started = connections[s.id].started
  BY <1>3, <1>7
<1>13. \A s, t \in S : s.id = t.id => s = t
  <2>1. ASSUME NEW s \in S, NEW t \in S, s.id = t.id
        PROVE  s = t
    <3>1. s = SegmentOf(s.id) /\ t = SegmentOf(t.id)
      BY <1>7
    <3> QED
      BY <2>1, <3>1
  <2> QED
    BY <2>1
<1>14. Ordered(S)
  BY <1>6, <1>7, <1>8, <1>9, <1>10, <1>12, <1>13 DEF Ordered
<1> QED
  BY <1>11, <1>14 DEF S

-----------------------------------------------------------------------------
(* The counters and the window                                              *)

\* A segment that is missing from an accepted window was finalized before the
\* process that was asked began to count, or is younger than its metrics.
LEMMA MissingSegment ==
    ASSUME CaptureInv, SoakInv, StrictPolicy, NEW request \in Requests, Accepts(request),
           NEW first \in Nat, NEW n \in DOMAIN connections,
           Unbroken(files, first, n - 1, evidence.finalized),
           connections[n].started <= evidence.captured,
           NEW c \in Opened, c \notin Window(request, evidence.captured),
           connections[c].started >= request.start,
           first <= c, c < n
    PROVE  FALSE
<1> DEFINE captured == evidence.captured
           e == Evidence(request)
<1>1. Filed(files[c])
  BY OpenedSegments DEF Unbroken, CaptureInv, Opened
<1>2. /\ connections[c].started \in Nat /\ Latest(connections[c]) <= connections[n].started
      /\ connections[n].started \in Nat /\ connections[c].started <= Latest(connections[c])
      /\ Latest(connections[c]) \in Nat
  BY OpenedSegments DEF SoakInv, TimesOK, Timed, CaptureInv
<1>3. captured \in Nat
  BY DEF SoakInv, EvidenceOK, Accepts, Reports
<1>4. Latest(connections[c]) <= captured /\ connections[c].started <= captured
  BY <1>2, <1>3
<1>5. LastFrame(c) = Latest(connections[c])
  BY DEF LastFrame, Frames, Latest
<1>6. e.incomplete = {} /\ e.corrupt = {}
  BY DEF Accepts, SoakAccepted, ArtifactGates
<1> DEFINE opened == {d \in Opened : /\ connections[d].started >= request.start
                                     /\ connections[d].started <= captured}
<1>7. c \in opened
  BY <1>4
<1>8. e.incomplete = Incomplete(opened) /\ e.corrupt = Corrupt(opened)
  BY DEF Evidence
<1> HIDE DEF opened, e
<1>9. files[c].manifest # "incomplete" /\ files[c].manifest # "corrupt"
  BY <1>6, <1>7, <1>8 DEF Incomplete, Corrupt
<1>10. files[c].manifest = "raw"
  BY <1>1, <1>9 DEF Filed, Written
<1> QED
  BY <1>4, <1>5, <1>10 DEF Window

\* A frame between the ends of an accepted soak is of one of its segments.
LEMMA AcceptedIsUnbroken ==
    ASSUME CaptureInv, SoakInv
    PROVE  SoakIsUnbroken
<1> SUFFICES ASSUME StrictPolicy, NEW request \in Requests, Accepts(request),
                    NEW c \in Opened, NEW i \in 1 .. Len(Frames(c)),
                    ObservationStart(Evidence(request)) < Frames(c)[i].at,
                    Frames(c)[i].at < ObservationEnd(Evidence(request)),
                    c \notin {s.id : s \in Evidence(request).segments}
             PROVE  FALSE
  BY DEF SoakIsUnbroken
<1> DEFINE e == Evidence(request)
           captured == evidence.captured
           W == Window(request, captured)
           S == {SegmentOf(d) : d \in W}
           N == Cardinality(S)
           head == InOrder(S)[1]
           tail == InOrder(S)[N]
           at == Frames(c)[i].at
<1>1. evidence # None /\ SoakAccepted(e)
  BY DEF Accepts, Reports
<1>2. /\ e.segments = S /\ e.requested = request.start /\ e.metrics = evidence
  BY DEF Evidence
<1>3. /\ Opened = DOMAIN connections /\ Opened = 1 .. Len(connections)
      /\ Len(connections) \in Nat
  BY OpenedSegments DEF CaptureInv
<1>4. W \in SUBSET Opened
  BY DEF Window
<1>5. \A d \in Opened : /\ LastFrame(d) = Latest(connections[d])
                        /\ Timed(connections[d])
                        /\ connections[d].started \in Nat /\ LastFrame(d) \in Nat
  BY <1>3 DEF SoakInv, TimesOK, Timed, LastFrame, Frames, Latest
<1>6. at \in Nat /\ connections[c].started <= at /\ at <= LastFrame(c)
  <2>1. Timed(connections[c]) /\ LastFrame(c) = Latest(connections[c])
    BY <1>5
  <2>2. i \in DOMAIN connections[c].frames
    BY <2>1, SequenceDomain DEF Timed, Frames
  <2> QED
    BY <2>1, <2>2 DEF Timed, Frames
<1>7. W # {}
  <2>1. SUFFICES ASSUME W = {} PROVE FALSE
    OBVIOUS
  <2>2. e.segments = {}
    BY <1>2, <2>1
  <2>3. ObservationStart(e) = e.requested /\ ObservationEnd(e) = e.requested
    BY <2>2 DEF ObservationStart, ObservationEnd
  <2>4. e.requested < at /\ at < e.requested /\ e.requested \in Nat
    BY <1>2, <2>3, CaptureAssumption
  <2> HIDE DEF e, at
  <2> QED
    BY <1>6, <2>4
<1>8. Ordered(S) /\ Ids(S) = W /\ c \notin W
  <2>1. Ordered(S) /\ Ids(S) = W
    BY <1>4, <1>7, SegmentsAreOrdered
  <2> QED
    BY <1>2, <2>1 DEF Ids
<1>9. head \in S /\ tail \in S
  BY <1>8, EndsOfOrder
<1>10. S # {}
  BY <1>7
<1>11. ObservationStart(e) = head.started /\ ObservationEnd(e) = tail.ended
  BY <1>2, <1>10 DEF ObservationStart, ObservationEnd
<1>12. PICK h \in W : head = SegmentOf(h)
  BY <1>9
<1>13. PICK t \in W : tail = SegmentOf(t)
  BY <1>9
<1>14. connections[h].started < at /\ at < LastFrame(t)
  <2>1. head.started = connections[h].started /\ tail.ended = LastFrame(t)
    BY <1>12, <1>13 DEF SegmentOf
  <2>2. ObservationStart(e) < at /\ at < ObservationEnd(e)
    OBVIOUS
  <2> HIDE DEF e, head, tail, at
  <2> QED
    BY <1>11, <2>1, <2>2
<1> HIDE DEF e, W, S, N, head, tail, at
<1>15. c \in Nat /\ h \in Opened /\ t \in Opened /\ h \in Nat /\ t \in Nat
  BY <1>3, <1>4
<1>16. h < c
  <2>1. c # h
    BY <1>8
  <2>2. CASE c < h
    <3>1. LastFrame(c) <= connections[h].started
      BY <1>3, <1>5, <1>15, <2>2 DEF SoakInv, TimesOK
    <3> QED
      BY <1>5, <1>6, <1>14, <1>15, <3>1
  <2> QED
    BY <1>15, <2>1, <2>2
<1>17. c < t
  <2>1. c # t
    BY <1>8
  <2>2. CASE t < c
    <3>1. LastFrame(t) <= connections[c].started
      BY <1>3, <1>5, <1>15, <2>2 DEF SoakInv, TimesOK
    <3> QED
      BY <1>5, <1>6, <1>14, <1>15, <3>1
  <2> QED
    BY <1>15, <2>1, <2>2
<1>18. /\ captured \in Nat /\ evidence.reconnects \in Nat
       /\ evidence.connected /\ evidence.reconnects = 0
  <2>1. captured \in Nat /\ evidence.reconnects \in Nat
    BY <1>1 DEF SoakInv, EvidenceOK
  <2>2. evidence.connected /\ evidence.reconnects <= 0
    BY <1>1, <1>2 DEF SoakAccepted, RecorderGates, StrictPolicy
  <2> QED
    BY <2>1, <2>2
<1>19. PICK first \in Nat, n \in DOMAIN connections :
           /\ Unbroken(files, first, n - 1, evidence.finalized)
           /\ connections[n].started <= captured
           /\ \A d \in DOMAIN connections : d > n => connections[d].started >= captured
  BY <1>1, <1>18 DEF SoakInv, EvidenceOK
<1>20. \A d \in W : /\ files[d].manifest = "raw" /\ connections[d].started >= request.start
                    /\ LastFrame(d) <= captured
  BY DEF W, Window
<1>21. request.start <= captured
  BY DEF Accepts, Reports
<1>22. c < n
  <2>1. SUFFICES ASSUME n <= c PROVE FALSE
    BY <1>3, <1>15
  <2>2. t > n /\ n \in Nat
    BY <1>3, <1>15, <1>17, <2>1
  <2>3. connections[t].started >= captured
    BY <1>3, <1>15, <1>19, <2>2
  <2>4. connections[t].reason = "rotation"
    <3>1. {s.reason : s \in S} \subseteq {"rotation"}
      BY <1>1, <1>2 DEF SoakAccepted, ArtifactGates, StrictPolicy
    <3>2. tail \in S /\ tail.reason = connections[t].reason
      BY <1>9, <1>13 DEF SegmentOf
    <3> QED
      BY <3>1, <3>2
  <2>5. LastFrame(t) >= connections[t].started + SegmentDuration
    BY <1>5, <1>15, <2>4 DEF Timed
  <2>6. LastFrame(t) <= captured
    BY <1>20
  <2>7. connections[t].started \in Nat /\ LastFrame(t) \in Nat
    BY <1>5, <1>15
  <2>8. SegmentDuration \in Nat \ {0}
    BY CaptureAssumption
  <2> QED
    BY <1>18, <2>3, <2>5, <2>6, <2>7, <2>8
<1>23. \A d \in Opened : h < d => connections[d].started >= request.start
  <2>1. SUFFICES ASSUME NEW d \in Opened, h < d
                 PROVE  connections[d].started >= request.start
    OBVIOUS
  <2>2. LastFrame(h) <= connections[d].started
    BY <1>3, <1>5, <1>15, <2>1 DEF SoakInv, TimesOK
  <2>3. connections[h].started >= request.start /\ connections[h].started <= LastFrame(h)
    BY <1>5, <1>15, <1>20 DEF Timed
  <2>4. connections[h].started \in Nat /\ LastFrame(h) \in Nat /\ connections[d].started \in Nat
        /\ request.start \in Nat
    BY <1>5, <1>15, CaptureAssumption
  <2> QED
    BY <2>2, <2>3, <2>4
<1>24. c < first
  <2>1. SUFFICES ASSUME first <= c PROVE FALSE
    BY <1>15
  <2> QED
    BY <1>8, <1>16, <1>19, <1>22, <1>23, <2>1, MissingSegment DEF W, captured
<1>25. first \in Nat \ {0} /\ evidence.finalized = n - first /\ n \in Nat
  BY <1>3, <1>19 DEF Unbroken
<1>26. first .. n - 1 \subseteq W
  <2>1. SUFFICES ASSUME NEW d \in first .. n - 1, d \notin W PROVE FALSE
    OBVIOUS
  <2>2. d \in Opened /\ d \in Nat /\ first <= d /\ d < n /\ h < d
    BY <1>3, <1>15, <1>16, <1>24, <1>25, <2>1
  <2>3. connections[d].started >= request.start
    BY <1>23, <2>2
  <2> QED
    BY <1>19, <2>1, <2>2, <2>3, MissingSegment DEF W, captured
<1>27. Cardinality(W) >= n - first + 1
  <2> DEFINE counted == first .. n - 1
  <2>1. IsFiniteSet(counted) /\ Cardinality(counted) = IF first > n - 1 THEN 0 ELSE n - first
    <3>1. first \in Int /\ n - 1 \in Int /\ n - 1 - first + 1 = n - first
      BY <1>25
    <3>2. IsFiniteSet(counted)
          /\ Cardinality(counted) = IF first > n - 1 THEN 0 ELSE n - 1 - first + 1
      BY <3>1, FS_Interval
    <3> QED
      BY <3>1, <3>2
  <2>2. h \notin counted
    BY <1>15, <1>16, <1>24, <1>25
  <2>3. Cardinality(counted \cup {h}) = Cardinality(counted) + 1
        /\ IsFiniteSet(counted \cup {h})
    BY <2>1, <2>2, FS_AddElement
  <2>4. counted \cup {h} \subseteq W
    BY <1>26
  <2>5. IsFiniteSet(W)
    <3>1. IsFiniteSet(1 .. Len(connections))
      BY <1>3, FS_Interval
    <3> QED
      BY <1>3, <1>4, <3>1, FS_Subset
  <2> HIDE DEF counted
  <2>6. Cardinality(counted \cup {h}) <= Cardinality(W) /\ Cardinality(W) \in Nat
    BY <2>4, <2>5, FS_Subset, FS_CardinalityType
  <2> QED
    BY <1>25, <2>1, <2>3, <2>6
<1>28. N >= Cardinality(W) /\ N \in Nat /\ Cardinality(W) \in Nat
  <2>1. IsFiniteSet(S) /\ Ids(S) = W
    BY <1>8 DEF Ordered
  <2>2. IsFiniteSet(W) /\ Cardinality(W) <= Cardinality(S)
    BY <2>1, IdsAreFewer
  <2> QED
    BY <2>1, <2>2, FS_CardinalityType DEF N
<1>29. evidence.finalized >= N
  BY <1>1, <1>2 DEF SoakAccepted, CountersCover, N
<1> QED
  BY <1>25, <1>27, <1>28, <1>29

\* No soak that the shipped policy accepts has a hole, for every segment length,
\* every schedule of crashes, losses of power and manual restarts and every time
\* an operator looks (evidence.py; configs/market-data/soak-v1.toml).
THEOREM SoakHasNoHole == Spec => []SoakIsUnbroken
<1>1. CaptureInv /\ SoakInv => SoakIsUnbroken
  BY AcceptedIsUnbroken
<1> QED
  BY <1>1, SoakInvariance, PTL

-----------------------------------------------------------------------------
(* What the tracker remembers                                               *)

\* The trades among the first n events.
Trades(A, n) == {m \in 1 .. n : A[m].type = "trade"}

\* The remembered identities were last seen at these events, in this order. Every
\* other trade is of one of them, or older than all of them and there is no room.
SeenAt(A, n, keys, at) ==
    /\ at \in [DOMAIN keys -> Trades(A, n)]
    /\ \A j \in DOMAIN keys : A[at[j]].id = keys[j]
    /\ \A j, k \in DOMAIN keys : j < k => at[j] < at[k]
    /\ \A m \in Trades(A, n) :
           \/ \E k \in DOMAIN keys : A[m].id = keys[k] /\ m <= at[k]
           \/ Len(keys) = DuplicateWindow /\ \A k \in DOMAIN keys : m < at[k]

\* The tracker after n events: the identities last seen, each once.
Remembers(A, n, keys) ==
    /\ IsSequence(keys) /\ Len(keys) <= DuplicateWindow
    /\ \A j, k \in DOMAIN keys : keys[j] = keys[k] => j = k
    /\ \E at : SeenAt(A, n, keys, at)

\* What _is_duplicate_trade answers is what the reference says: the identity is
\* remembered if and only if at most DuplicateWindow were seen since it was.
LEMMA RepeatsAreRemembered ==
    ASSUME NEW A, NEW n \in Nat, NEW keys, Remembers(A, n, keys), A[n + 1].type = "trade"
    PROVE  Repeats(A, n + 1) <=> Contains(keys, A[n + 1].id)
<1> DEFINE x == A[n + 1].id
           Since(j) == {A[m].id : m \in {m \in j .. n : A[m].type = "trade"}}
<1>1. PICK at : SeenAt(A, n, keys, at)
  BY DEF Remembers
<1>2. /\ IsSequence(keys) /\ Len(keys) <= DuplicateWindow
      /\ \A j, k \in DOMAIN keys : keys[j] = keys[k] => j = k
      /\ Len(keys) \in Nat /\ DOMAIN keys = 1 .. Len(keys)
      /\ DuplicateWindow \in Nat \ {0}
  BY SequenceDomain, IntegrityAssumption DEF Remembers
<1>3. IsFiniteSet(ToSet(keys)) /\ Cardinality(ToSet(keys)) = Len(keys)
  BY <1>2, DistinctElements
<1>4. Repeats(A, n + 1) <=> \E j \in 1 .. n : /\ A[j].type = "trade" /\ A[j].id = x
                                              /\ Cardinality(Since(j)) <= DuplicateWindow
  <2>1. (n + 1) - 1 = n
    OBVIOUS
  <2> QED
    BY <2>1 DEF Repeats
<1>5. \A j \in 1 .. n : IsFiniteSet(Since(j)) /\ Cardinality(Since(j)) \in Nat
  <2> SUFFICES ASSUME NEW j \in 1 .. n
               PROVE  IsFiniteSet(Since(j))
    BY FS_CardinalityType
  <2> DEFINE M == {m \in j .. n : A[m].type = "trade"}
             f == [m \in M |-> A[m].id]
  <2>1. IsFiniteSet(M)
    <3>1. IsFiniteSet(j .. n)
      BY FS_Interval
    <3> QED
      BY <3>1, FS_Subset
  <2>2. f \in Surjection(M, Since(j))
    BY DEF Surjection
  <2> HIDE DEF M, f
  <2> QED
    BY <2>1, <2>2, FS_Surjection
<1>6. ASSUME NEW k \in DOMAIN keys, keys[k] = x
      PROVE  Repeats(A, n + 1)
  <2>1. at[k] \in 1 .. n /\ A[at[k]].type = "trade" /\ A[at[k]].id = x
    BY <1>1, <1>6 DEF SeenAt, Trades
  <2>2. ASSUME NEW m \in at[k] .. n, A[m].type = "trade"
        PROVE  A[m].id \in ToSet(keys)
    <3>1. m \in Trades(A, n) /\ ~ (m < at[k])
      BY <2>1, <2>2 DEF Trades
    <3>2. \E h \in DOMAIN keys : A[m].id = keys[h]
      BY <1>1, <3>1 DEF SeenAt
    <3> QED
      BY <3>2 DEF ToSet
  <2>3. Since(at[k]) \in SUBSET ToSet(keys)
    BY <2>2
  <2> HIDE DEF Since
  <2>4. Cardinality(Since(at[k])) <= Len(keys)
    BY <1>3, <2>3, FS_Subset
  <2>5. Cardinality(Since(at[k])) <= DuplicateWindow
    BY <1>2, <1>5, <2>1, <2>4
  <2> QED
    BY <1>4, <2>1, <2>5
<1>7. ASSUME NEW j \in 1 .. n, A[j].type = "trade", A[j].id = x,
             Cardinality(Since(j)) <= DuplicateWindow, \A k \in DOMAIN keys : keys[k] # x
      PROVE  FALSE
  <2>1. Len(keys) = DuplicateWindow /\ \A k \in DOMAIN keys : j < at[k]
    <3>1. j \in Trades(A, n)
      BY <1>7 DEF Trades
    <3> QED
      BY <1>1, <1>7, <3>1 DEF SeenAt
  <2>2. \A k \in DOMAIN keys : keys[k] \in Since(j)
    <3> SUFFICES ASSUME NEW k \in DOMAIN keys
                 PROVE  keys[k] \in Since(j)
      OBVIOUS
    <3>1. at[k] \in 1 .. n /\ A[at[k]].type = "trade" /\ A[at[k]].id = keys[k] /\ j < at[k]
      BY <1>1, <2>1 DEF SeenAt, Trades
    <3>2. at[k] \in j .. n
      BY <3>1
    <3> QED
      BY <3>1, <3>2
  <2>3. x \in Since(j)
    BY <1>7
  <2> HIDE DEF Since, x
  <2>4. ToSet(keys) \cup {x} \in SUBSET Since(j) /\ x \notin ToSet(keys)
    BY <1>7, <2>2, <2>3 DEF ToSet
  <2>5. Cardinality(ToSet(keys) \cup {x}) = Len(keys) + 1
    BY <1>3, <2>4, FS_AddElement
  <2>6. Cardinality(ToSet(keys) \cup {x}) <= Cardinality(Since(j))
    BY <1>5, <2>4, FS_Subset
  <2> QED
    BY <1>2, <1>5, <1>7, <2>1, <2>5, <2>6
<1>8. Contains(keys, x) <=> \E k \in DOMAIN keys : keys[k] = x
  BY <1>2 DEF Contains
<1> QED
  BY <1>4, <1>6, <1>7, <1>8

\* Identities that stay keep their order, the new one comes last, and what is
\* forgotten is the new one's older place, or the oldest where there is no room.
LEMMA Forwards ==
    ASSUME NEW A, NEW n \in Nat, NEW keys, Remembers(A, n, keys), A[n + 1].type = "trade",
           NEW r, IsSequence(r), Len(r) <= DuplicateWindow, NEW l \in Nat \ {0}, Len(r) = l,
           NEW old \in [1 .. l - 1 -> DOMAIN keys],
           \A j, k \in 1 .. l - 1 : j < k => old[j] < old[k],
           \A j \in 1 .. l - 1 : r[j] = keys[old[j]] /\ r[j] # A[n + 1].id,
           r[l] = A[n + 1].id,
           Len(keys) = DuplicateWindow => l = DuplicateWindow,
           \A k \in DOMAIN keys : \/ \E j \in 1 .. l - 1 : old[j] = k
                                  \/ keys[k] = A[n + 1].id
                                  \/ l = DuplicateWindow /\ \A j \in 1 .. l - 1 : k < old[j]
    PROVE  Remembers(A, n + 1, r)
<1>1. PICK at : SeenAt(A, n, keys, at)
  BY DEF Remembers
<1> DEFINE key == A[n + 1].id
           since == [j \in 1 .. l |-> IF j = l THEN n + 1 ELSE at[old[j]]]
<1>2. /\ DOMAIN r = 1 .. l
      /\ Len(keys) \in Nat /\ DOMAIN keys = 1 .. Len(keys)
      /\ \A j, k \in DOMAIN keys : keys[j] = keys[k] => j = k
  BY SequenceDomain DEF Remembers
<1>3. \A j \in 1 .. l - 1 : j \in 1 .. l /\ j # l /\ j < l /\ old[j] \in DOMAIN keys
  OBVIOUS
<1>4. \A k \in DOMAIN keys : at[k] \in 1 .. n /\ A[at[k]].type = "trade" /\ A[at[k]].id = keys[k]
  BY <1>1 DEF SeenAt, Trades
<1>5. \A j \in 1 .. l : j = l \/ j \in 1 .. l - 1
  OBVIOUS
<1>6. \A j \in 1 .. l - 1 : since[j] = at[old[j]]
  BY <1>3
<1>7. since[l] = n + 1 /\ since = [j \in 1 .. l |-> since[j]]
  OBVIOUS
<1> HIDE DEF since
<1>8. \A j \in 1 .. l : since[j] \in 1 .. n + 1 /\ A[since[j]].type = "trade" /\ A[since[j]].id = r[j]
  <2> SUFFICES ASSUME NEW j \in 1 .. l
               PROVE  since[j] \in 1 .. n + 1 /\ A[since[j]].type = "trade" /\ A[since[j]].id = r[j]
    OBVIOUS
  <2>1. CASE j = l
    BY <1>7, <2>1
  <2>2. CASE j \in 1 .. l - 1
    <3>1. at[old[j]] \in 1 .. n /\ A[at[old[j]]].type = "trade" /\ A[at[old[j]]].id = keys[old[j]]
      BY <1>3, <1>4, <2>2
    <3> QED
      BY <1>6, <2>2, <3>1
  <2> QED
    BY <1>5, <2>1, <2>2
<1>9. since \in [DOMAIN r -> Trades(A, n + 1)]
  BY <1>2, <1>7, <1>8 DEF Trades
<1>10. \A j, k \in DOMAIN r : j < k => since[j] < since[k]
  <2> SUFFICES ASSUME NEW j \in 1 .. l, NEW k \in 1 .. l, j < k
               PROVE  since[j] < since[k]
    BY <1>2
  <2>1. j \in 1 .. l - 1
    OBVIOUS
  <2>2. CASE k = l
    <3>1. at[old[j]] \in 1 .. n
      BY <1>3, <1>4, <2>1
    <3>2. since[j] = at[old[j]]
      BY <1>6, <2>1
    <3>3. since[k] = n + 1
      BY <1>7, <2>2
    <3> HIDE DEF since
    <3> QED
      BY <3>1, <3>2, <3>3
  <2>3. CASE k \in 1 .. l - 1
    <3>1. old[j] < old[k] /\ old[j] \in DOMAIN keys /\ old[k] \in DOMAIN keys
      BY <2>1, <2>3
    <3>2. at[old[j]] < at[old[k]]
      BY <1>1, <3>1 DEF SeenAt
    <3> QED
      BY <1>6, <2>1, <2>3, <3>2
  <2> QED
    BY <1>5, <2>2, <2>3
<1>11. \A j, k \in DOMAIN r : r[j] = r[k] => j = k
  <2> SUFFICES ASSUME NEW j \in 1 .. l, NEW k \in 1 .. l, j < k, r[j] = r[k]
               PROVE  FALSE
    BY <1>2
  <2>1. j \in 1 .. l - 1
    OBVIOUS
  <2>2. k # l
    BY <2>1
  <2>3. k \in 1 .. l - 1 /\ old[j] < old[k] /\ old[j] \in DOMAIN keys /\ old[k] \in DOMAIN keys
    BY <1>5, <2>1, <2>2
  <2>4. keys[old[j]] = keys[old[k]]
    BY <2>1, <2>3
  <2> QED
    BY <1>2, <2>3, <2>4
<1>12. ASSUME NEW m \in Trades(A, n + 1)
       PROVE  \/ \E k \in DOMAIN r : A[m].id = r[k] /\ m <= since[k]
              \/ Len(r) = DuplicateWindow /\ \A k \in DOMAIN r : m < since[k]
  <2>1. m \in 1 .. n + 1 /\ A[m].type = "trade"
    BY DEF Trades
  <2>2. CASE m = n + 1
    BY <1>2, <1>7, <2>2
  <2>3. CASE m \in 1 .. n
    <3>1. m \in Trades(A, n)
      BY <2>1, <2>3 DEF Trades
    <3>2. CASE \E k \in DOMAIN keys : A[m].id = keys[k] /\ m <= at[k]
      <4>1. PICK k \in DOMAIN keys : A[m].id = keys[k] /\ m <= at[k]
        BY <3>2
      <4>2. CASE \E j \in 1 .. l - 1 : old[j] = k
        <5>1. PICK j \in 1 .. l - 1 : old[j] = k
          BY <4>2
        <5>2. A[m].id = r[j] /\ m <= since[j]
          BY <1>6, <4>1, <5>1
        <5> QED
          BY <1>2, <1>3, <5>1, <5>2
      <4>3. CASE keys[k] = key
        <5>1. A[m].id = r[l]
          BY <4>1, <4>3
        <5>2. since[l] = n + 1 /\ l \in DOMAIN r
          BY <1>2, <1>7
        <5>3. m <= since[l]
          BY <2>3, <5>2
        <5> QED
          BY <5>1, <5>2, <5>3
      <4>4. CASE l = DuplicateWindow /\ \A j \in 1 .. l - 1 : k < old[j]
        <5> SUFFICES ASSUME NEW j \in 1 .. l
                     PROVE  m < since[j]
          BY <1>2, <4>4
        <5>1. CASE j = l
          BY <1>7, <2>3, <5>1
        <5>2. CASE j \in 1 .. l - 1
          <6>1. k < old[j] /\ old[j] \in DOMAIN keys
            BY <4>4, <5>2
          <6>2. at[k] < at[old[j]]
            BY <1>1, <6>1 DEF SeenAt
          <6>3. at[k] \in 1 .. n /\ at[old[j]] \in 1 .. n
            BY <1>4, <6>1
          <6> QED
            BY <1>6, <2>3, <4>1, <5>2, <6>2, <6>3
        <5> QED
          BY <1>5, <5>1, <5>2
      <4> QED
        BY <4>2, <4>3, <4>4
    <3>3. CASE Len(keys) = DuplicateWindow /\ \A k \in DOMAIN keys : m < at[k]
      <4> SUFFICES ASSUME NEW j \in 1 .. l
                   PROVE  m < since[j]
        BY <1>2, <3>3
      <4>1. CASE j = l
        BY <1>7, <2>3, <4>1
      <4>2. CASE j \in 1 .. l - 1
        BY <1>3, <1>6, <3>3, <4>2
      <4> QED
        BY <1>5, <4>1, <4>2
    <3> QED
      BY <1>1, <3>1, <3>2, <3>3 DEF SeenAt
  <2> QED
    BY <2>1, <2>2, <2>3
<1>13. \A j \in DOMAIN r : A[since[j]].id = r[j]
  BY <1>2, <1>8
<1>14. SeenAt(A, n + 1, r, since)
  BY <1>9, <1>10, <1>12, <1>13 DEF SeenAt
<1> QED
  BY <1>11, <1>14 DEF Remembers

\* An identity that is remembered is taken out where it is.
LEMMA TakenOut ==
    ASSUME NEW s, IsSequence(s), NEW k, Contains(s, k)
    PROVE  \E i \in 1 .. Len(s) :
               LET r == RemoveFirst(s, k)
               IN  /\ s[i] = k /\ IsSequence(r) /\ Len(r) = Len(s) - 1
                   /\ \A j \in 1 .. Len(s) - 1 : r[j] = IF j < i THEN s[j] ELSE s[j + 1]
<1> DEFINE I == {i \in 1 .. Len(s) : s[i] = k}
           i == Min(I)
           r == RemoveFirst(s, k)
           S == ToSet(s)
<1>1. Len(s) \in Nat /\ DOMAIN s = 1 .. Len(s) /\ s \in Seq(S)
  BY SequenceDomain DEF IsSequence, ToSet
<1>2. I # {} /\ I \in SUBSET Nat
  BY DEF Contains
<1>3. i \in I
  <2>1. \E x \in I : \A y \in I : x <= y
    BY <1>2, Processing!LeastElement
  <2> QED
    BY <2>1 DEF Min
<1>4. r = RemoveAt(s, i)
  BY <1>2 DEF RemoveFirst, SelectInSeq
<1> HIDE DEF i, I, r
<1>5. i \in 1 .. Len(s) /\ s[i] = k
  BY <1>3 DEF I
<1> DEFINE head == SubSeq(s, 1, i - 1)
           tail == SubSeq(s, i + 1, Len(s))
           L == Len(s)
<1>6. /\ head \in Seq(S) /\ Len(head) = i - 1
      /\ \A j \in 1 .. i - 1 : head[j] = s[j]
  <2>1. \A j \in 1 .. i - 1 : s[j] \in S
    BY <1>1, <1>5
  <2>2. 1 \in Int /\ i - 1 \in Int
    BY <1>5
  <2>3. /\ head \in Seq(S) /\ Len(head) = IF 1 <= i - 1 THEN (i - 1) - 1 + 1 ELSE 0
        /\ \A j \in 1 .. (i - 1) - 1 + 1 : head[j] = s[1 + j - 1]
    BY <2>1, <2>2, SubSeqProperties
  <2> HIDE DEF head
  <2>4. \A j \in 1 .. i - 1 : j \in 1 .. (i - 1) - 1 + 1 /\ 1 + j - 1 = j
    BY <1>5
  <2>5. Len(head) = i - 1
    BY <1>5, <2>3
  <2>6. \A j \in 1 .. i - 1 : head[j] = s[j]
    BY <2>3, <2>4
  <2> QED
    BY <2>3, <2>5, <2>6
<1>7. /\ tail \in Seq(S) /\ Len(tail) = L - i
      /\ \A j \in 1 .. L - i : tail[j] = s[i + j]
  <2>1. \A j \in i + 1 .. L : s[j] \in S
    BY <1>1, <1>5
  <2>2. i + 1 \in Int /\ L \in Int
    BY <1>1, <1>5
  <2>3. /\ tail \in Seq(S) /\ Len(tail) = IF i + 1 <= L THEN L - (i + 1) + 1 ELSE 0
        /\ \A j \in 1 .. L - (i + 1) + 1 : tail[j] = s[(i + 1) + j - 1]
    BY <2>1, <2>2, SubSeqProperties
  <2> HIDE DEF tail, L
  <2>4. i \in Int /\ L \in Int /\ i <= L
    BY <1>1, <1>5 DEF L
  <2>5. \A j \in 1 .. L - i : j \in 1 .. L - (i + 1) + 1 /\ (i + 1) + j - 1 = i + j
    BY <2>4
  <2>6. Len(tail) = L - i
    BY <2>3, <2>4
  <2>7. \A j \in 1 .. L - i : tail[j] = s[i + j]
    BY <2>3, <2>5
  <2> QED
    BY <2>3, <2>6, <2>7
<1>8. r = head \o tail
  BY <1>4 DEF RemoveAt
<1> HIDE DEF head, tail
<1>9. /\ r \in Seq(S) /\ Len(r) = Len(head) + Len(tail)
      /\ \A j \in 1 .. Len(head) + Len(tail) :
             r[j] = IF j <= Len(head) THEN head[j] ELSE tail[j - Len(head)]
  BY <1>6, <1>7, <1>8, ConcatProperties
<1>10. Len(r) = L - 1
  BY <1>1, <1>5, <1>6, <1>7, <1>9
<1>11. \A j \in 1 .. L - 1 : r[j] = IF j < i THEN s[j] ELSE s[j + 1]
  <2> SUFFICES ASSUME NEW j \in 1 .. L - 1
               PROVE  r[j] = IF j < i THEN s[j] ELSE s[j + 1]
    OBVIOUS
  <2>1. j \in 1 .. Len(head) + Len(tail) /\ Len(head) = i - 1 /\ i \in Int /\ L \in Int
    BY <1>1, <1>5, <1>6, <1>7
  <2>2. CASE j < i
    <3>1. j <= Len(head) /\ j \in 1 .. i - 1
      BY <2>1, <2>2
    <3> QED
      BY <1>6, <1>9, <2>1, <2>2, <3>1
  <2>3. CASE ~ (j < i)
    <3>1. ~ (j <= Len(head)) /\ j - Len(head) = j + 1 - i /\ j + 1 - i \in 1 .. L - i
          /\ i + (j + 1 - i) = j + 1
      BY <2>1, <2>3
    <3>2. r[j] = tail[j + 1 - i]
      BY <1>9, <2>1, <3>1
    <3>3. tail[j + 1 - i] = s[i + (j + 1 - i)]
      BY <1>7, <3>1
    <3>4. r[j] = s[j + 1]
      BY <3>1, <3>2, <3>3
    <3> QED
      BY <2>3, <3>4
  <2> QED
    BY <2>2, <2>3
<1>12. IsSequence(r)
  <2>1. r \in [1 .. Len(r) -> {r[j] : j \in DOMAIN r}] /\ Len(r) \in Nat
    BY <1>9
  <2> QED
    BY <2>1, SeqDef DEF IsSequence
<1> QED
  BY <1>5, <1>10, <1>11, <1>12 DEF L, r

\* _is_duplicate_trade keeps the identities in the order they were last seen.
LEMMA RememberKeeps ==
    ASSUME NEW A, NEW n \in Nat, NEW keys, Remembers(A, n, keys), A[n + 1].type = "trade"
    PROVE  Remembers(A, n + 1, Remember(keys, A[n + 1].id))
<1> DEFINE key == A[n + 1].id
           L == Len(keys)
           rest == RemoveFirst(keys, key)
           all == Append(rest, key)
           r == Remember(keys, key)
<1>1. /\ IsSequence(keys) /\ L \in Nat /\ DOMAIN keys = 1 .. L /\ L <= DuplicateWindow
      /\ \A j, k \in DOMAIN keys : keys[j] = keys[k] => j = k
      /\ DuplicateWindow \in Nat \ {0}
  BY SequenceDomain, IntegrityAssumption DEF Remembers
<1>2. r = IF Len(all) > DuplicateWindow THEN Tail(all) ELSE all
  BY DEF Remember
<1> HIDE DEF key, rest, all, r
<1>5. L = Len(keys) /\ (L < DuplicateWindow \/ L = DuplicateWindow)
  <2>1. L \in Nat /\ DuplicateWindow \in Nat /\ L <= DuplicateWindow
    BY <1>1
  <2> QED
    BY <2>1
<1> HIDE DEF L
<1>3. CASE Contains(keys, key)
  <2>1. PICK i \in 1 .. L : /\ keys[i] = key /\ IsSequence(rest) /\ Len(rest) = L - 1
                            /\ \A j \in 1 .. L - 1 : rest[j] = IF j < i THEN keys[j] ELSE keys[j + 1]
    <3>1. IsSequence(keys) /\ Contains(keys, key)
      BY <1>1, <1>3
    <3> HIDE <1>1, <1>2, <1>5
    <3> QED
      BY <3>1, TakenOut DEF rest, L
  <2>2. /\ IsSequence(all) /\ Len(all) = L /\ all[L] = key
        /\ \A j \in 1 .. L - 1 : all[j] = rest[j]
    <3>1. IsSequence(all) /\ Len(all) = (L - 1) + 1 /\ \A j \in DOMAIN rest : all[j] = rest[j]
      BY <2>1, SequenceAppended DEF all
    <3>2. all[(L - 1) + 1] = key
      BY <2>1, SequenceEnds DEF all
    <3>3. (L - 1) + 1 = L /\ DOMAIN rest = 1 .. L - 1
      BY <1>1, <2>1, SequenceDomain
    <3> QED
      BY <3>1, <3>2, <3>3
  <2>3. r = all
    BY <1>1, <1>2, <2>2
  <2> DEFINE old == [j \in 1 .. L - 1 |-> IF j < i THEN j ELSE j + 1]
  <2>4. old \in [1 .. L - 1 -> DOMAIN keys]
    BY <1>1
  <2>5. \A j, k \in 1 .. L - 1 : j < k => old[j] < old[k]
    BY <1>1
  <2>6. \A j \in 1 .. L - 1 : old[j] # i /\ old[j] \in DOMAIN keys
    BY <1>1
  <2>7. \A j \in 1 .. L - 1 : rest[j] = keys[old[j]]
    BY <1>1, <2>1
  <2>8. \A k \in DOMAIN keys : k = i \/ \E j \in 1 .. L - 1 : old[j] = k
    <3> SUFFICES ASSUME NEW k \in 1 .. L, k # i
                 PROVE  \E j \in 1 .. L - 1 : old[j] = k
      BY <1>1
    <3>1. CASE k < i
      <4>1. k \in 1 .. L - 1 /\ old[k] = k
        BY <1>1, <3>1
      <4> QED
        BY <4>1
    <3>2. CASE k > i
      <4>1. k - 1 \in 1 .. L - 1 /\ old[k - 1] = k
        BY <1>1, <3>2
      <4> QED
        BY <4>1
    <3> QED
      BY <1>1, <3>1, <3>2
  <2> HIDE DEF old
  <2>9. ASSUME NEW j \in 1 .. L - 1
        PROVE  r[j] = keys[old[j]] /\ r[j] # key
    <3>1. r[j] = keys[old[j]]
      BY <2>2, <2>3, <2>7
    <3>2. keys[old[j]] # keys[i] /\ keys[i] = key
      BY <1>1, <2>1, <2>6
    <3> QED
      BY <3>1, <3>2
  <2>10. L \in Nat \ {0} /\ IsSequence(r) /\ Len(r) = L /\ r[L] = key
    BY <1>1, <2>2, <2>3
  <2>11. \A k \in DOMAIN keys : \/ \E j \in 1 .. L - 1 : old[j] = k
                                \/ keys[k] = key
                                \/ L = DuplicateWindow /\ \A j \in 1 .. L - 1 : k < old[j]
    BY <2>1, <2>8
  <2>12. Len(r) <= DuplicateWindow /\ (Len(keys) = DuplicateWindow => L = DuplicateWindow)
    BY <1>1, <1>5, <2>10
  <2> QED
    BY <2>4, <2>5, <2>9, <2>10, <2>11, <2>12, Forwards DEF key, r
<1>4. CASE ~ Contains(keys, key)
  <2>1. rest = keys /\ \A k \in DOMAIN keys : keys[k] # key
    BY <1>1, <1>4 DEF Contains, RemoveFirst, rest
  <2>2. /\ IsSequence(all) /\ Len(all) = L + 1 /\ all[L + 1] = key
        /\ \A j \in 1 .. L : all[j] = keys[j]
    BY <1>1, <2>1, SequenceAppended, SequenceEnds DEF all
  <2>3. CASE L < DuplicateWindow
    <3> DEFINE old == [j \in 1 .. L |-> j]
               l == L + 1
    <3>1. r = all
      BY <1>1, <1>2, <2>2, <2>3
    <3>2. l - 1 = L /\ l \in Nat \ {0} /\ Len(r) = l /\ r[l] = key /\ IsSequence(r)
      BY <1>1, <2>2, <3>1
    <3>3. /\ old \in [1 .. l - 1 -> DOMAIN keys]
          /\ \A j, k \in 1 .. l - 1 : j < k => old[j] < old[k]
          /\ \A j \in 1 .. l - 1 : r[j] = keys[old[j]] /\ r[j] # key
      BY <1>1, <2>1, <2>2, <3>1, <3>2
    <3>4. Len(r) <= DuplicateWindow /\ Len(keys) # DuplicateWindow
      <4>1. L \in Nat /\ DuplicateWindow \in Nat /\ l = L + 1 /\ Len(keys) = L /\ Len(r) = l
        BY <1>1, <1>5, <3>2
      <4> HIDE DEF l
      <4> QED
        BY <2>3, <4>1
    <3>5. \A k \in DOMAIN keys : \E j \in 1 .. l - 1 : old[j] = k
      BY <1>1, <3>2
    <3> HIDE DEF old, l
    <3>6. \A k \in DOMAIN keys : \/ \E j \in 1 .. l - 1 : old[j] = k
                                 \/ keys[k] = key
                                 \/ l = DuplicateWindow /\ \A j \in 1 .. l - 1 : k < old[j]
      BY <3>5
    <3>7. Len(keys) = DuplicateWindow => l = DuplicateWindow
      BY <3>4
    <3> QED
      BY <3>2, <3>3, <3>4, <3>6, <3>7, Forwards DEF key, r
  <2>4. CASE L = DuplicateWindow
    <3> DEFINE old == [j \in 1 .. L - 1 |-> j + 1]
               l == L
    <3>1. r = Tail(all) /\ Len(all) > 0
      BY <1>1, <1>2, <2>2, <2>4
    <3>2. IsSequence(r) /\ Len(r) = L /\ \A j \in 1 .. L : r[j] = all[j + 1]
      <4>1. Len(all) - 1 = L
        BY <1>1, <2>2
      <4> QED
        BY <2>2, <3>1, <4>1, SequenceTail
    <3>3. r[L] = key
      BY <1>1, <2>2, <2>4, <3>2
    <3>4. \A j \in 1 .. L - 1 : r[j] = keys[j + 1]
      <4>1. \A j \in 1 .. L - 1 : j \in 1 .. L /\ j + 1 \in 1 .. L
        BY <1>1
      <4> QED
        BY <2>2, <3>2, <4>1
    <3>5. /\ old \in [1 .. l - 1 -> DOMAIN keys]
          /\ \A j, k \in 1 .. l - 1 : j < k => old[j] < old[k]
          /\ \A j \in 1 .. l - 1 : r[j] = keys[old[j]]
      BY <1>1, <3>4
    <3>6. \A j \in 1 .. l - 1 : r[j] # key
      BY <2>1, <3>5
    <3>7. ASSUME NEW k \in DOMAIN keys
          PROVE  \/ \E j \in 1 .. l - 1 : old[j] = k
                 \/ \A j \in 1 .. l - 1 : k < old[j]
      <4>1. CASE k = 1
        BY <1>1, <4>1
      <4>2. CASE k # 1
        <5>1. k - 1 \in 1 .. l - 1 /\ old[k - 1] = k
          BY <1>1, <3>7, <4>2
        <5> QED
          BY <5>1
      <4> QED
        BY <4>1, <4>2
    <3>8. l \in Nat \ {0} /\ l = DuplicateWindow /\ Len(r) = l /\ r[l] = key
          /\ Len(r) <= DuplicateWindow
      BY <1>1, <2>4, <3>2, <3>3
    <3> HIDE DEF old, l
    <3> QED
      BY <3>2, <3>5, <3>6, <3>7, <3>8, Forwards DEF key, r
  <2> QED
    BY <1>5, <2>3, <2>4
<1> QED
  BY <1>3, <1>4 DEF key, r

-----------------------------------------------------------------------------
(* What the tracker lets through                                            *)

\* The events among the first n that are no repetitions.
Kept(A, n) == {i \in 1 .. n : ~ Repeats(A, i)}
Rank(A, n) == Cardinality(Kept(A, n))

\* They were let through, in their order, and nothing else was.
Passed(A, n, out) ==
    /\ IsSequence(out) /\ Len(out) = Rank(A, n)
    /\ \A i \in Kept(A, n) : Rank(A, i) \in DOMAIN out /\ out[Rank(A, i)] = A[i]
    /\ \A r \in DOMAIN out : \E i \in Kept(A, n) : Rank(A, i) = r

\* A tracker after n events.
Observed(A, n, keys, out) == Remembers(A, n, keys) /\ Passed(A, n, out)

\* One more event is one more of them, or a repetition.
LEMMA RankGrows ==
    ASSUME NEW A, NEW n \in Nat
    PROVE  /\ IsFiniteSet(Kept(A, n)) /\ Rank(A, n) \in Nat
           /\ Repeats(A, n + 1) => Kept(A, n + 1) = Kept(A, n) /\ Rank(A, n + 1) = Rank(A, n)
           /\ ~ Repeats(A, n + 1) => /\ Kept(A, n + 1) = Kept(A, n) \cup {n + 1}
                                     /\ Rank(A, n + 1) = Rank(A, n) + 1
<1>1. IsFiniteSet(Kept(A, n))
  <2>1. IsFiniteSet(1 .. n)
    BY FS_Interval
  <2> QED
    BY <2>1, FS_Subset DEF Kept
<1>2. Rank(A, n) \in Nat
  BY <1>1, FS_CardinalityType DEF Rank
<1>3. \A i \in 1 .. n + 1 : i = n + 1 \/ i \in 1 .. n
  OBVIOUS
<1>4. \A i \in 1 .. n : i \in 1 .. n + 1
  OBVIOUS
<1>5. n + 1 \in 1 .. n + 1 /\ n + 1 \notin 1 .. n
  OBVIOUS
<1>6. Repeats(A, n + 1) => Kept(A, n + 1) = Kept(A, n)
  BY <1>3, <1>4 DEF Kept
<1>7. ~ Repeats(A, n + 1) => Kept(A, n + 1) = Kept(A, n) \cup {n + 1}
  BY <1>3, <1>4, <1>5 DEF Kept
<1>8. n + 1 \notin Kept(A, n)
  BY <1>5 DEF Kept
<1>9. Cardinality(Kept(A, n) \cup {n + 1}) = Cardinality(Kept(A, n)) + 1
  BY <1>1, <1>8, FS_AddElement
<1> QED
  BY <1>1, <1>2, <1>6, <1>7, <1>9 DEF Rank

LEMMA EventPasses ==
    ASSUME NEW A, NEW n \in Nat, NEW out, Passed(A, n, out)
    PROVE  Passed(A, n + 1, IF Repeats(A, n + 1) THEN out ELSE Append(out, A[n + 1]))
<1>1. CASE Repeats(A, n + 1)
  BY <1>1, RankGrows DEF Passed
<1>2. CASE ~ Repeats(A, n + 1)
  <2> DEFINE r == Append(out, A[n + 1])
             h == Rank(A, n)
  <2>1. /\ IsSequence(out) /\ Len(out) = h /\ h \in Nat /\ DOMAIN out = 1 .. h
        /\ \A i \in Kept(A, n) : Rank(A, i) \in 1 .. h /\ out[Rank(A, i)] = A[i]
        /\ \A k \in 1 .. h : \E i \in Kept(A, n) : Rank(A, i) = k
    BY RankGrows, SequenceDomain DEF Passed
  <2>2. Kept(A, n + 1) = Kept(A, n) \cup {n + 1} /\ Rank(A, n + 1) = h + 1
    BY <1>2, RankGrows
  <2> HIDE DEF h
  <2>3. IsSequence(r) /\ Len(r) = h + 1 /\ \A k \in 1 .. h : r[k] = out[k]
    BY <2>1, SequenceAppended
  <2>4. r[h + 1] = A[n + 1]
    BY <2>1, SequenceEnds
  <2>5. DOMAIN r = 1 .. h + 1
    BY <2>3, SequenceDomain
  <2> HIDE DEF r
  <2>6. ASSUME NEW i \in Kept(A, n + 1)
        PROVE  Rank(A, i) \in 1 .. h + 1 /\ r[Rank(A, i)] = A[i]
    <3>1. CASE i = n + 1
      BY <2>1, <2>2, <2>4, <3>1
    <3>2. CASE i \in Kept(A, n)
      <4>1. Rank(A, i) \in 1 .. h /\ out[Rank(A, i)] = A[i]
        BY <2>1, <3>2
      <4>2. r[Rank(A, i)] = out[Rank(A, i)]
        BY <2>3, <4>1
      <4>3. Rank(A, i) \in 1 .. h + 1
        BY <2>1, <4>1
      <4> QED
        BY <4>1, <4>2, <4>3
    <3> QED
      BY <2>2, <3>1, <3>2
  <2>7. ASSUME NEW k \in 1 .. h + 1
        PROVE  \E i \in Kept(A, n + 1) : Rank(A, i) = k
    <3>1. CASE k = h + 1
      BY <2>2, <3>1
    <3>2. CASE k \in 1 .. h
      BY <2>1, <2>2, <3>2
    <3> QED
      BY <2>1, <3>1, <3>2
  <2>8. Passed(A, n + 1, r)
    BY <2>2, <2>3, <2>5, <2>6, <2>7 DEF Passed
  <2> QED
    BY <1>2, <2>8 DEF r
<1> QED
  BY <1>1, <1>2

\* What is a repetition depends on what came before it, on nothing that comes after.
LEMMA RepeatsDepend ==
    ASSUME NEW A, NEW B, NEW n \in Nat, \A m \in 1 .. n : B[m] = A[m], NEW i \in 1 .. n
    PROVE  Repeats(B, i) <=> Repeats(A, i)
<1> DEFINE Since(E, j) == {E[m].id : m \in {m \in j .. i - 1 : E[m].type = "trade"}}
<1>1. \A j \in 1 .. i - 1 : j \in 1 .. n /\ B[j] = A[j]
  OBVIOUS
<1>2. B[i] = A[i]
  OBVIOUS
<1>3. ASSUME NEW j \in 1 .. i - 1
      PROVE  Since(B, j) = Since(A, j)
  <2>1. \A m \in j .. i - 1 : B[m] = A[m]
    BY <1>1
  <2> QED
    BY <2>1
<1>4. \A E : Repeats(E, i) <=> /\ E[i].type = "trade"
                               /\ \E j \in 1 .. i - 1 : /\ E[j].type = "trade" /\ E[j].id = E[i].id
                                                        /\ Cardinality(Since(E, j)) <= DuplicateWindow
  BY DEF Repeats
<1> HIDE DEF Since
<1> QED
  BY <1>1, <1>2, <1>3, <1>4

LEMMA ObservedDepends ==
    ASSUME NEW A, NEW B, NEW n \in Nat, \A m \in 1 .. n : B[m] = A[m],
           NEW keys, NEW out, Observed(A, n, keys, out)
    PROVE  Observed(B, n, keys, out)
<1>1. Trades(B, n) = Trades(A, n)
  BY DEF Trades
<1>2. \A m \in Trades(A, n) : m \in 1 .. n /\ B[m] = A[m]
  BY DEF Trades
<1>3. ASSUME NEW at, SeenAt(A, n, keys, at)
      PROVE  SeenAt(B, n, keys, at)
  <2>1. \A j \in DOMAIN keys : at[j] \in Trades(A, n) /\ B[at[j]] = A[at[j]]
    BY <1>2, <1>3 DEF SeenAt
  <2> QED
    BY <1>1, <1>2, <1>3, <2>1 DEF SeenAt
<1>4. Remembers(B, n, keys)
  BY <1>3 DEF Remembers, Observed
<1>5. \A m \in 1 .. n : Kept(B, m) = Kept(A, m) /\ Rank(B, m) = Rank(A, m)
  <2> SUFFICES ASSUME NEW m \in 1 .. n
               PROVE  Kept(B, m) = Kept(A, m)
    BY DEF Rank
  <2>1. \A i \in 1 .. m : i \in 1 .. n
    OBVIOUS
  <2>2. \A i \in 1 .. m : Repeats(B, i) <=> Repeats(A, i)
    BY <2>1, RepeatsDepend
  <2> QED
    BY <2>2 DEF Kept
<1>6. Kept(B, n) = Kept(A, n) /\ Rank(B, n) = Rank(A, n)
  <2>1. CASE n = 0
    BY <2>1 DEF Kept, Rank
  <2>2. CASE n \in 1 .. n
    BY <1>5, <2>2
  <2> QED
    BY <2>1, <2>2
<1>7. \A i \in Kept(A, n) : i \in 1 .. n
  BY DEF Kept
<1>8. Passed(B, n, out)
  BY <1>5, <1>6, <1>7 DEF Passed, Observed
<1> QED
  BY <1>4, <1>8 DEF Observed

\* One event: a trade that is a repetition is dropped, nothing else is, and an
\* event that is no trade is not remembered.
LEMMA ObserveEventKeeps ==
    ASSUME NEW A, NEW n \in Nat, NEW tracker, DOMAIN tracker = DOMAIN EmptyTracker, NEW out,
           Observed(A, n, tracker.keys, out), NEW channel
    PROVE  LET seen == ObserveEvent(tracker, channel, A[n + 1])
           IN  /\ DOMAIN seen.tracker = DOMAIN EmptyTracker /\ IsSequence(seen.accepted)
               /\ Observed(A, n + 1, seen.tracker.keys, out \o seen.accepted)
<1> DEFINE e == A[n + 1]
           seen == ObserveEvent(tracker, channel, e)
           keys == tracker.keys
           repeated == e.type = "trade" /\ Contains(keys, e.id)
<1>1. /\ DOMAIN seen.tracker = DOMAIN EmptyTracker
      /\ seen.tracker.keys = IF e.type = "trade" THEN Remember(keys, e.id) ELSE keys
      /\ seen.accepted = IF repeated THEN <<>> ELSE <<e>>
  BY DEF ObserveEvent, EmptyTracker
<1> HIDE DEF seen
<1>2. Remembers(A, n, keys) /\ Passed(A, n, out) /\ IsSequence(out)
  BY DEF Observed, Passed
<1> HIDE DEF keys
<1>3. Repeats(A, n + 1) <=> repeated
  <2>1. CASE e.type = "trade"
    BY <1>2, <2>1, RepeatsAreRemembered
  <2>2. CASE e.type # "trade"
    BY <2>2 DEF Repeats
  <2> QED
    BY <2>1, <2>2
<1>4. Remembers(A, n + 1, seen.tracker.keys)
  <2>1. CASE e.type = "trade"
    BY <1>1, <1>2, <2>1, RememberKeeps
  <2>2. CASE e.type # "trade"
    <3>1. Trades(A, n + 1) = Trades(A, n)
      BY <2>2 DEF Trades
    <3> QED
      BY <1>1, <1>2, <2>2, <3>1 DEF Remembers, SeenAt
  <2> QED
    BY <2>1, <2>2
<1> DEFINE next == IF Repeats(A, n + 1) THEN out ELSE Append(out, e)
<1>5. Passed(A, n + 1, next)
  BY <1>2, EventPasses
<1>6. out \o seen.accepted = next /\ IsSequence(seen.accepted)
  <2>1. CASE repeated
    <3>1. IsSequence(<<>>)
      BY EmptySeq DEF IsSequence
    <3> QED
      BY <1>1, <1>2, <1>3, <2>1, <3>1, SequenceAlone
  <2>2. CASE ~ repeated
    BY <1>1, <1>2, <1>3, <2>2, SequenceExtended
  <2> QED
    BY <2>1, <2>2
<1> QED
  BY <1>1, <1>4, <1>5, <1>6 DEF Observed, seen

-----------------------------------------------------------------------------
(* A frame                                                                  *)

\* The loop of observe_frame, over the events of one frame.
ObserveStep(p, x, i) ==
    LET seen == ObserveEvent(x.tracker, p.parsed.channel, p.parsed.events[i])
    IN  [tracker |-> seen.tracker, accepted |-> x.accepted \o seen.accepted]
ObserveClaim(p, T, x) ==
    \A h \in Nat : T = 1 .. h =>
        /\ DOMAIN x.tracker = DOMAIN EmptyTracker /\ IsSequence(x.accepted)
        /\ Observed(p.all, p.before + h, x.tracker.keys, p.out \o x.accepted)
Observing == INSTANCE FoldFacts WITH Op <- ObserveStep, Pick <- LastOf, Holds <- ObserveClaim

\* The loop of parse_frame, over the items of one frame.
ItemStep(p, x, i) == x \o ItemEvents(p, p.items[i])
ItemClaim(p, T, x) == IsSequence(x)
Itemizing == INSTANCE FoldFacts WITH Op <- ItemStep, Pick <- LastOf, Holds <- ItemClaim

\* The loop over the frames of a connection.
ParseStep(p, x, i) == x \o Parse(p[i]).events
Parsing == INSTANCE FoldFacts WITH Op <- ParseStep, Pick <- LastOf, Holds <- ItemClaim

\* These loops go from the first to the last.
LEMMA LoopsInOrder ==
    ASSUME NEW n \in Nat, NEW p
    PROVE  /\ IsFiniteSet(1 .. n) /\ Observing!IsFiniteSet(1 .. n) /\ Itemizing!IsFiniteSet(1 .. n)
           /\ Parsing!IsFiniteSet(1 .. n)
           /\ Observing!Picks(p, 1 .. n) /\ Itemizing!Picks(p, 1 .. n) /\ Parsing!Picks(p, 1 .. n)
<1>1. IsFiniteSet(1 .. n)
  BY FS_Interval
<1>2. Processing!Picks({}, 1 .. n)
  BY <1>1, LastOfLoop
<1> QED
  BY <1>1, <1>2 DEF IsFiniteSet, Observing!IsFiniteSet, Itemizing!IsFiniteSet,
     Parsing!IsFiniteSet, Processing!Picks, Observing!Picks, Itemizing!Picks, Parsing!Picks, LastOf

\* What is left of the numbers up to n without the last.
LEMMA IntervalLast ==
    ASSUME NEW n \in Nat, n # 0
    PROVE  Max(1 .. n) = n /\ (1 .. n) \ {n} = 1 .. n - 1
<1>1. n \in 1 .. n /\ \A x \in 1 .. n : n >= x
  OBVIOUS
<1>2. \A x \in 1 .. n : (\A y \in 1 .. n : x >= y) => x = n
  BY <1>1
<1>3. Max(1 .. n) = n
  BY <1>1, <1>2 DEF Max
<1> QED
  BY <1>3

\* observe_frame continues what the tracker knew.
LEMMA ObserveKeeps ==
    ASSUME NEW A, IsSequence(A), NEW tracker, DOMAIN tracker = DOMAIN EmptyTracker, NEW out,
           Observed(A, Len(A), tracker.keys, out), NEW parsed, IsSequence(parsed.events), NEW at
    PROVE  LET seen == Observe(tracker, parsed, at)
               B == A \o parsed.events
           IN  /\ DOMAIN seen.tracker = DOMAIN EmptyTracker
               /\ IsSequence(B) /\ Observed(B, Len(B), seen.tracker.keys, out \o seen.accepted)
<1> DEFINE B == A \o parsed.events
           n == Len(A)
           k == Len(parsed.events)
           last == At(tracker.lastReceive, parsed.channel, at)
           heard == [tracker EXCEPT
                       !.issues = IF at - last > CadenceThreshold
                                  THEN Append(@, Issue("cadence_anomaly", parsed.channel, at)) ELSE @,
                       !.lastReceive = (parsed.channel :> at) @@ @]
           start == [tracker |-> heard, accepted |-> <<>>]
           p == [parsed |-> parsed, all |-> B, before |-> n, out |-> out]
           end == Observing!Loop(p, start, 1 .. k)
<1>1. /\ IsSequence(B) /\ Len(B) = n + k /\ n \in Nat /\ k \in Nat
      /\ \A m \in 1 .. n : B[m] = A[m]
      /\ \A m \in 1 .. k : B[n + m] = parsed.events[m]
      /\ DOMAIN parsed.events = 1 .. k
  <2>1. n \in Nat /\ k \in Nat /\ DOMAIN parsed.events = 1 .. k
    BY SequenceDomain
  <2>2. /\ IsSequence(B) /\ Len(B) = n + k
        /\ \A m \in 1 .. n : B[m] = A[m]
        /\ \A m \in 1 .. k : B[n + m] = parsed.events[m]
    BY SequenceJoined
  <2> QED
    BY <2>1, <2>2
<1>2. Observe(tracker, parsed, at) = end
  BY <1>1 DEF Observe, Observing!Loop, ObserveStep, LastOf, FoldLeft, MapThenFoldSet,
     Observing!MapThenFoldSet, Max
<1>3. DOMAIN start.tracker = DOMAIN EmptyTracker /\ start.tracker.keys = tracker.keys
      /\ start.accepted = <<>>
  BY DEF EmptyTracker
<1>4. p.parsed = parsed /\ p.all = B /\ p.before = n /\ p.out = out
  OBVIOUS
<1>5. Observed(B, n, tracker.keys, out) /\ IsSequence(out)
  <2>1. Observed(A, n, tracker.keys, out) /\ n \in Nat /\ \A m \in 1 .. n : B[m] = A[m]
    BY <1>1
  <2>2. IsSequence(out)
    BY <2>1 DEF Observed, Passed
  <2> HIDE DEF B, n
  <2>3. Observed(B, n, tracker.keys, out)
    BY <2>1, ObservedDepends
  <2> QED
    BY <2>2, <2>3
<1> HIDE DEF B, start, p, n, k
<1>6. ObserveClaim(p, {}, start)
  <2>1. \A h \in Nat : {} = 1 .. h => h = 0
    <3>1. \A h \in Nat : h # 0 => 1 \in 1 .. h
      OBVIOUS
    <3> QED
      BY <3>1
  <2>2. IsSequence(<<>>) /\ out \o <<>> = out /\ n + 0 = n
    BY <1>1, <1>5, EmptySeq, SequenceAlone DEF IsSequence
  <2> QED
    BY <1>3, <1>4, <1>5, <2>1, <2>2 DEF ObserveClaim
<1>7. ASSUME NEW T \in SUBSET (1 .. k), NEW x, T # {}, ObserveClaim(p, T \ {LastOf(p, T)}, x)
      PROVE  ObserveClaim(p, T, ObserveStep(p, x, LastOf(p, T)))
  <2> SUFFICES ASSUME NEW h \in Nat, T = 1 .. h
               PROVE  LET y == ObserveStep(p, x, LastOf(p, T))
                      IN  /\ DOMAIN y.tracker = DOMAIN EmptyTracker /\ IsSequence(y.accepted)
                          /\ Observed(p.all, p.before + h, y.tracker.keys, p.out \o y.accepted)
    BY DEF ObserveClaim
  <2>1. h # 0 /\ h \in 1 .. k
    <3>1. h # 0
      BY <1>7
    <3>2. h \in 1 .. h
      BY <3>1
    <3> QED
      BY <3>1, <3>2
  <2>2. LastOf(p, T) = h /\ T \ {LastOf(p, T)} = 1 .. h - 1 /\ h - 1 \in Nat
    BY <2>1, IntervalLast DEF LastOf
  <2>3. /\ DOMAIN x.tracker = DOMAIN EmptyTracker /\ IsSequence(x.accepted)
        /\ Observed(B, n + (h - 1), x.tracker.keys, out \o x.accepted)
    BY <1>4, <1>7, <2>2 DEF ObserveClaim
  <2>4. B[(n + (h - 1)) + 1] = parsed.events[h] /\ n + (h - 1) \in Nat
        /\ (n + (h - 1)) + 1 = n + h
    BY <1>1, <2>1
  <2> DEFINE e == parsed.events[h]
             seen == ObserveEvent(x.tracker, parsed.channel, e)
             y == ObserveStep(p, x, h)
  <2>5. y = [tracker |-> seen.tracker, accepted |-> x.accepted \o seen.accepted]
    BY <1>4 DEF ObserveStep
  <2>6. y.tracker = seen.tracker /\ y.accepted = x.accepted \o seen.accepted
    <3> HIDE DEF seen, y
    <3> QED
      BY <2>5
  <2> DEFINE m == n + (h - 1)
  <2>7. m \in Nat /\ B[m + 1] = e /\ m + 1 = n + h /\ Observed(B, m, x.tracker.keys, out \o x.accepted)
    BY <2>3, <2>4
  <2> HIDE DEF m, y
  <2>8. /\ DOMAIN seen.tracker = DOMAIN EmptyTracker /\ IsSequence(seen.accepted)
        /\ Observed(B, m + 1, seen.tracker.keys, (out \o x.accepted) \o seen.accepted)
    <3> DEFINE o == out \o x.accepted
               q == ObserveEvent(x.tracker, parsed.channel, B[m + 1])
    <3>1. Observed(B, m, x.tracker.keys, o)
      BY <2>7
    <3> HIDE DEF o
    <3>2. /\ DOMAIN q.tracker = DOMAIN EmptyTracker /\ IsSequence(q.accepted)
          /\ Observed(B, m + 1, q.tracker.keys, o \o q.accepted)
      BY <2>3, <2>7, <3>1, ObserveEventKeeps
    <3>3. q = seen
      BY <2>7
    <3> HIDE DEF q, seen
    <3> QED
      BY <3>2, <3>3 DEF o
  <2> HIDE DEF seen, e
  <2>9. IsSequence(y.accepted) /\ out \o y.accepted = (out \o x.accepted) \o seen.accepted
    <3>1. IsSequence(out) /\ IsSequence(x.accepted) /\ IsSequence(seen.accepted)
      BY <1>5, <2>3, <2>8
    <3>2. IsSequence(x.accepted \o seen.accepted)
      BY <3>1, SequenceJoined
    <3>3. (out \o x.accepted) \o seen.accepted = out \o (x.accepted \o seen.accepted)
      <4> DEFINE t == x.accepted
                 u == seen.accepted
      <4>1. IsSequence(out) /\ IsSequence(t) /\ IsSequence(u)
        BY <3>1
      <4> HIDE DEF t, u
      <4>2. (out \o t) \o u = out \o (t \o u)
        BY ONLY <4>1, SequencesAssociate
      <4> QED
        BY <4>2 DEF t, u
    <3> QED
      BY <2>6, <3>2, <3>3
  <2>10. Observed(B, n + h, y.tracker.keys, out \o y.accepted)
    BY <2>6, <2>7, <2>8, <2>9
  <2>11. DOMAIN y.tracker = DOMAIN EmptyTracker
    BY <2>6, <2>8
  <2> QED
    BY <1>4, <2>2, <2>9, <2>10, <2>11 DEF y
<1> HIDE DEF end
<1>8. ObserveClaim(p, 1 .. k, end)
  <2>1. Observing!IsFiniteSet(1 .. k) /\ Observing!Picks(p, 1 .. k)
    BY <1>1, LoopsInOrder
  <2>2. \A T \in SUBSET (1 .. k) : \A x : T # {} /\ ObserveClaim(p, T \ {LastOf(p, T)}, x)
                                   => ObserveClaim(p, T, ObserveStep(p, x, LastOf(p, T)))
    BY <1>7
  <2> QED
    BY <1>6, <2>1, <2>2, Observing!LoopKeeps DEF end
<1>9. /\ DOMAIN end.tracker = DOMAIN EmptyTracker
      /\ Observed(B, n + k, end.tracker.keys, out \o end.accepted)
  BY <1>1, <1>4, <1>8 DEF ObserveClaim
<1> QED
  BY <1>1, <1>2, <1>9 DEF B

\* A frame becomes a sequence of events.
LEMMA FrameIsSequence ==
    ASSUME NEW frame, frame.items \in Seq(ToSet(frame.items))
    PROVE  IsSequence(Parse(frame).events)
<1> DEFINE k == Len(frame.items)
<1>1. k \in Nat /\ DOMAIN frame.items = 1 .. k
  OBVIOUS
<1>2. IsSequence(<<>>)
  BY EmptySeq DEF IsSequence
<1>3. ASSUME frame.channel \in Channels
      PROVE  IsSequence(FrameEvents(frame))
  <2>1. FrameEvents(frame) = Itemizing!Loop(frame, <<>>, 1 .. k)
    BY <1>1 DEF FrameEvents, Itemizing!Loop, ItemStep, LastOf, FoldLeft, MapThenFoldSet,
       Itemizing!MapThenFoldSet, Max
  <2>2. ASSUME NEW item
        PROVE  IsSequence(ItemEvents(frame, item))
    <3> DEFINE types == EventTypes(frame, item)
               events == ItemEvents(frame, item)
    <3>1. Len(types) \in Nat
      BY <1>3 DEF Channels, EventTypes, FillTypes, UserTypes
    <3> HIDE DEF types
    <3>2. events = [i \in 1 .. Len(types) |-> events[i]]
      BY DEF ItemEvents, types
    <3> HIDE DEF events
    <3>3. events \in [1 .. Len(types) -> {events[i] : i \in 1 .. Len(types)}]
      BY <3>2
    <3>4. events \in Seq({events[i] : i \in 1 .. Len(types)})
      BY <3>1, <3>3, SeqDef
    <3> QED
      BY <3>4, SequenceOf DEF events
  <2>3. \A T \in SUBSET (1 .. k) : \A x : T # {} /\ ItemClaim(frame, T \ {LastOf(frame, T)}, x)
                                   => ItemClaim(frame, T, ItemStep(frame, x, LastOf(frame, T)))
    BY <2>2, SequenceJoined DEF ItemClaim, ItemStep
  <2>4. Itemizing!IsFiniteSet(1 .. k) /\ Itemizing!Picks(frame, 1 .. k)
    BY <1>1, LoopsInOrder
  <2>5. ItemClaim(frame, {}, <<>>)
    BY <1>2 DEF ItemClaim
  <2> HIDE DEF k
  <2>6. ItemClaim(frame, 1 .. k, Itemizing!Loop(frame, <<>>, 1 .. k))
    BY <2>3, <2>4, <2>5, Itemizing!LoopKeeps
  <2> QED
    BY <2>1, <2>6 DEF ItemClaim
<1>4. \/ Parse(frame).events = <<>>
      \/ frame.channel \in Channels /\ Parse(frame).events = FrameEvents(frame)
  BY DEF Parse, Failure
<1> QED
  BY <1>2, <1>3, <1>4

\* One more frame: its events follow those of the frames before it.
LEMMA ParsedExtends ==
    ASSUME NEW frames, IsSequence(frames), NEW frame
    PROVE  Parsed(Append(frames, frame)) = Parsed(frames) \o Parse(frame).events
<1> DEFINE n == Len(frames)
           next == Append(frames, frame)
<1>1. /\ n \in Nat /\ DOMAIN frames = 1 .. n
      /\ IsSequence(next) /\ Len(next) = n + 1 /\ next[n + 1] = frame
      /\ \A i \in 1 .. n : next[i] = frames[i]
  BY SequenceDomain, SequenceAppended, SequenceEnds
<1>2. DOMAIN next = 1 .. n + 1
  BY <1>1, SequenceDomain
<1> HIDE DEF next, n
<1>3. ASSUME NEW f, NEW m \in Nat, DOMAIN f = 1 .. m
      PROVE  Parsed(f) = Parsing!Loop(f, <<>>, 1 .. m)
  BY <1>3 DEF Parsed, Parsing!Loop, ParseStep, LastOf, FoldLeft, MapThenFoldSet,
     Parsing!MapThenFoldSet, Max
<1>4. Parsed(frames) = Parsing!Loop(frames, <<>>, 1 .. n)
  BY <1>1, <1>3
<1>5. Parsed(next) = Parsing!Loop(next, <<>>, 1 .. n + 1)
  BY <1>1, <1>2, <1>3
<1>6. LastOf(next, 1 .. n + 1) = n + 1 /\ (1 .. n + 1) \ {n + 1} = 1 .. n /\ 1 .. n + 1 # {}
  <2> DEFINE m == n + 1
  <2>1. m \in Nat /\ m # 0 /\ m - 1 = n /\ m \in 1 .. m
    BY <1>1
  <2> HIDE DEF m
  <2>2. Max(1 .. m) = m /\ (1 .. m) \ {m} = 1 .. n
    BY <2>1, IntervalLast
  <2> QED
    BY <2>1, <2>2 DEF m, LastOf
<1>7. Parsing!Loop(next, <<>>, 1 .. n + 1) = Parsing!Loop(next, <<>>, 1 .. n) \o Parse(frame).events
  <2>1. n + 1 \in Nat
    BY <1>1
  <2>2. Parsing!IsFiniteSet(1 .. n + 1) /\ Parsing!Picks(next, 1 .. n + 1)
    BY <2>1, LoopsInOrder
  <2> DEFINE S == 1 .. n + 1
             last == LastOf(next, S)
  <2>4. S # {} /\ last = n + 1 /\ S \ {last} = 1 .. n
    BY <1>6
  <2>5. Parsing!IsFiniteSet(S) /\ Parsing!Picks(next, S)
    BY <2>2
  <2>6. Parsing!Loop(next, <<>>, S) = ParseStep(next, Parsing!Loop(next, <<>>, S \ {last}), last)
    <3> HIDE DEF S
    <3> QED
      BY <2>4, <2>5, Parsing!LoopUnfolds
  <2> HIDE DEF last
  <2>3. Parsing!Loop(next, <<>>, 1 .. n + 1)
            = ParseStep(next, Parsing!Loop(next, <<>>, 1 .. n), n + 1)
    BY <2>4, <2>6
  <2> QED
    BY <1>1, <2>3 DEF ParseStep
<1>8. Parsing!Loop(next, <<>>, 1 .. n) = Parsing!Loop(frames, <<>>, 1 .. n)
  <2> DEFINE S == 1 .. n
  <2>1. Parsing!IsFiniteSet(S) /\ Parsing!Picks(frames, S)
    BY <1>1, LoopsInOrder
  <2>2. \A T \in SUBSET S : LastOf(next, T) = LastOf(frames, T)
    BY DEF LastOf
  <2>3. \A i \in S : \A x : ParseStep(next, x, i) = ParseStep(frames, x, i)
    BY <1>1 DEF ParseStep
  <2> HIDE DEF S
  <2>4. Parsing!Loop(next, <<>>, S) = Parsing!Loop(frames, <<>>, S)
    BY <2>1, <2>2, <2>3, Parsing!LoopsAgree
  <2> QED
    BY <2>4 DEF S
<1> QED
  BY <1>4, <1>5, <1>7, <1>8 DEF next

-----------------------------------------------------------------------------
(* What is recorded of a connection                                         *)

\* The tracker of a connection knows what its frames hold.
Tracked(l) ==
    /\ DOMAIN l = LogFields
    /\ DOMAIN l.tracked = DOMAIN NothingTracked
    /\ DOMAIN l.tracked.tracker = DOMAIN EmptyTracker
    /\ IsSequence(l.frames) /\ IsSequence(Parsed(l.frames))
    /\ Observed(Parsed(l.frames), Len(Parsed(l.frames)), l.tracked.tracker.keys, l.tracked.events)

RecordInv == \A c \in DOMAIN connections : Tracked(connections[c])

\* A frame, whether it is excluded or not.
LEMMA TrackKeeps ==
    ASSUME NEW l, Tracked(l), NEW frame, frame.items \in Seq(ToSet(frame.items)),
           NEW m, DOMAIN m = LogFields, m.frames = Append(l.frames, frame),
           m.tracked = Track(l.tracked, frame)
    PROVE  Tracked(m)
<1> DEFINE A == Parsed(l.frames)
           parsed == Parse(frame)
           B == Parsed(m.frames)
           tracker == l.tracked.tracker
           out == l.tracked.events
           seen == Observe(tracker, parsed, frame.at)
<1>1. /\ IsSequence(l.frames) /\ IsSequence(A) /\ Observed(A, Len(A), tracker.keys, out)
      /\ DOMAIN tracker = DOMAIN EmptyTracker /\ DOMAIN l.tracked = DOMAIN NothingTracked
  BY DEF Tracked
<1>2. IsSequence(m.frames)
  BY <1>1, SequenceAppended
<1>3. B = A \o parsed.events
  BY <1>1, ParsedExtends
<1>4. IsSequence(parsed.events)
  BY FrameIsSequence
<1>5. CASE parsed.ok
  <2>1. m.tracked = [l.tracked EXCEPT !.tracker = seen.tracker, !.events = @ \o seen.accepted]
    BY <1>5 DEF Track
  <2>2. /\ DOMAIN seen.tracker = DOMAIN EmptyTracker
        /\ IsSequence(B) /\ Observed(B, Len(B), seen.tracker.keys, out \o seen.accepted)
    <3> DEFINE at == frame.at
               C == A \o parsed.events
    <3>1. seen = Observe(tracker, parsed, at) /\ B = C
      BY <1>3
    <3> HIDE DEF A, parsed, tracker, out, at, B, seen
    <3>2. /\ DOMAIN Observe(tracker, parsed, at).tracker = DOMAIN EmptyTracker
          /\ IsSequence(C)
          /\ Observed(C, Len(C), Observe(tracker, parsed, at).tracker.keys,
                      out \o Observe(tracker, parsed, at).accepted)
      BY ONLY <1>1, <1>4, ObserveKeeps
    <3> HIDE DEF C
    <3> QED
      BY <3>1, <3>2
  <2> HIDE DEF seen, B
  <2>3. /\ DOMAIN m.tracked = DOMAIN NothingTracked /\ m.tracked.tracker = seen.tracker
        /\ m.tracked.events = out \o seen.accepted
    BY <1>1, <2>1 DEF NothingTracked
  <2> QED
    BY <1>2, <2>2, <2>3 DEF Tracked, B
<1>6. CASE ~ parsed.ok
  <2>1. parsed.events = <<>>
    BY <1>6 DEF Parse, Failure
  <2>2. B = A
    BY <1>1, <1>3, <2>1, SequenceAlone
  <2>3. m.tracked = [l.tracked EXCEPT !.tracker.issues =
                         Append(@, Issue(parsed.kind, parsed.channel, frame.at)),
                                      !.excluded = @ + 1]
    BY <1>6 DEF Track
  <2> HIDE DEF parsed, A, B
  <2>4. /\ DOMAIN m.tracked = DOMAIN NothingTracked /\ m.tracked.events = out
        /\ DOMAIN m.tracked.tracker = DOMAIN EmptyTracker /\ m.tracked.tracker.keys = tracker.keys
    BY <1>1, <2>3 DEF NothingTracked, EmptyTracker
  <2> QED
    BY <1>1, <1>2, <2>2, <2>4 DEF Tracked, B
<1> QED
  BY <1>5, <1>6

\* A connection that is opened knows nothing yet.
LEMMA NothingIsTracked ==
    ASSUME NEW l, DOMAIN l = LogFields, l.frames = <<>>, l.tracked = NothingTracked
    PROVE  Tracked(l)
<1> DEFINE empty == <<>>
<1>1. IsSequence(empty) /\ Len(empty) = 0 /\ DOMAIN empty = {} /\ 1 .. 0 = {}
  BY EmptySeq DEF IsSequence
<1>2. Parsed(empty) = empty
  <2>1. Parsed(empty) = Parsing!Loop(empty, empty, 1 .. 0)
    BY <1>1 DEF Parsed, Parsing!Loop, ParseStep, LastOf, FoldLeft, MapThenFoldSet,
       Parsing!MapThenFoldSet, Max
  <2>2. Parsing!IsFiniteSet(1 .. 0) /\ Parsing!Picks(empty, 1 .. 0)
    BY LoopsInOrder
  <2>3. Parsing!Loop(empty, empty, 1 .. 0) = empty
    BY <1>1, <2>2, Parsing!LoopUnfolds
  <2> QED
    BY <2>1, <2>3
<1>3. Remembers(empty, 0, empty)
  <2>1. Trades(empty, 0) = {}
    BY DEF Trades
  <2>2. [x \in {} |-> x] \in [DOMAIN empty -> Trades(empty, 0)]
    BY <1>1
  <2>3. SeenAt(empty, 0, empty, [x \in {} |-> x])
    BY <1>1, <2>1, <2>2 DEF SeenAt
  <2> QED
    BY <1>1, <2>3, IntegrityAssumption DEF Remembers
<1>4. Passed(empty, 0, empty)
  <2>1. Kept(empty, 0) = {}
    BY DEF Kept
  <2>2. Rank(empty, 0) = 0
    BY <2>1, FS_EmptySet DEF Rank
  <2> QED
    BY <1>1, <2>1, <2>2 DEF Passed
<1>5. Observed(empty, 0, empty, empty)
  BY <1>3, <1>4 DEF Observed
<1>6. DOMAIN l.tracked = DOMAIN NothingTracked /\ l.tracked.tracker = EmptyTracker
      /\ l.tracked.events = empty /\ l.tracked.tracker.keys = empty
  BY DEF NothingTracked, EmptyTracker
<1> HIDE DEF empty
<1> QED
  BY <1>1, <1>2, <1>5, <1>6 DEF Tracked, empty

\* Why a connection ended is written beside it.
LEMMA ReasonIsBeside ==
    ASSUME NEW l, Tracked(l), NEW reason
    PROVE  Tracked([l EXCEPT !.reason = reason])
<1> DEFINE m == [l EXCEPT !.reason = reason]
<1>1. DOMAIN m = LogFields /\ m.frames = l.frames /\ m.tracked = l.tracked
  BY DEF Tracked, LogFields
<1> HIDE DEF m
<1>2. Tracked(m)
  BY <1>1 DEF Tracked
<1> QED
  BY <1>2 DEF m

\* What is received is tracked as it is archived.
LEMMA ArchivedIsTracked ==
    ASSUME RecordInv, NEW w \in Wire, Current \in DOMAIN connections
    PROVE  DOMAIN Archived(w) = DOMAIN connections /\ \A c \in DOMAIN connections : Tracked(Archived(w)[c])
<1> DEFINE log == Archived(w)
           l == connections[Current]
           m == [l EXCEPT !.frames = Append(@, Received(w)), !.tracked = Track(@, Received(w))]
<1>1. log = [connections EXCEPT ![Current] = m]
  BY DEF Archived
<1>2. Tracked(l)
  BY DEF RecordInv
<1>3. DOMAIN m = LogFields /\ m.frames = Append(l.frames, Received(w))
      /\ m.tracked = Track(l.tracked, Received(w))
  BY <1>2 DEF Tracked, LogFields
<1>4. Received(w).items \in Seq(ToSet(Received(w).items))
  <2>1. Received(w).items = w.items
    BY CaptureAssumption DEF Received, Joined
  <2> QED
    BY <2>1, CaptureAssumption
<1> HIDE DEF m, l
<1>5. Tracked(m)
  BY <1>2, <1>3, <1>4, TrackKeeps
<1> QED
  BY <1>1, <1>5 DEF RecordInv

\* Only the recorder writes about a connection, and it forgets none.
LEMMA RecordSteps ==
    ASSUME CaptureInv, RecordInv, [Next]_vars
    PROVE  RecordInv' /\ DOMAIN connections \subseteq DOMAIN connections'
<1>1. IsSequence(connections) /\ Shape
  BY DEF CaptureInv, Shape, ConnectionsOK
<1>2. recorder.pc \in Writing => Current \in DOMAIN connections
  BY <1>1, OpenedSegments DEF Shape, FilesOK
<1>3. ASSUME NEW log, DOMAIN log = DOMAIN connections,
             \A c \in DOMAIN connections : Tracked(log[c]),
             \/ connections' = log
             \/ \E reason : connections' = [log EXCEPT ![Current].reason = reason]
      PROVE  RecordInv' /\ DOMAIN connections \subseteq DOMAIN connections'
  <2>1. CASE connections' = log
    BY <1>3, <2>1 DEF RecordInv
  <2>2. CASE \E reason : connections' = [log EXCEPT ![Current].reason = reason]
    <3>1. PICK reason : connections' = [log EXCEPT ![Current].reason = reason]
      BY <2>2
    <3>2. DOMAIN connections' = DOMAIN connections
          /\ \A c \in DOMAIN connections :
                 connections'[c] = IF c = Current THEN [log[c] EXCEPT !.reason = reason] ELSE log[c]
      BY <1>3, <3>1
    <3>3. \A c \in DOMAIN connections : Tracked([log[c] EXCEPT !.reason = reason])
      BY <1>3, ReasonIsBeside
    <3> QED
      BY <1>3, <3>2, <3>3 DEF RecordInv
  <2> QED
    BY <1>3, <2>1, <2>2
<1>4. CASE UNCHANGED connections
  BY <1>4 DEF RecordInv
<1>5. CASE Open
  <2> DEFINE l == [started |-> now, frames |-> <<>>, reason |-> "none", tracked |-> NothingTracked]
  <2>1. connections' = Append(connections, l)
    BY <1>5 DEF Open
  <2>2. Tracked(l)
    <3>1. DOMAIN l = LogFields /\ l.frames = <<>> /\ l.tracked = NothingTracked
      BY DEF LogFields
    <3> HIDE DEF l
    <3> QED
      BY <3>1, NothingIsTracked
  <2> HIDE DEF l
  <2>3. /\ IsSequence(connections') /\ Len(connections') = Len(connections) + 1
        /\ \A c \in DOMAIN connections : connections'[c] = connections[c]
        /\ connections'[Len(connections) + 1] = l
    BY <1>1, <2>1, SequenceAppended, SequenceEnds
  <2>4. Len(connections) \in Nat /\ DOMAIN connections = 1 .. Len(connections)
        /\ DOMAIN connections' = 1 .. Len(connections) + 1
    BY <1>1, <2>3, SequenceDomain
  <2>5. ASSUME NEW c \in DOMAIN connections' PROVE Tracked(connections'[c])
    <3>1. c = Len(connections) + 1 \/ c \in DOMAIN connections
      BY <2>4
    <3> QED
      BY <2>2, <2>3, <3>1 DEF RecordInv
  <2> QED
    BY <2>4, <2>5 DEF RecordInv
<1>6. CASE \E w \in Wire : Receive(w) \/ RunOutOfSpace(w) \/ FailConsumer(w)
  <2>1. PICK w \in Wire : Receive(w) \/ RunOutOfSpace(w) \/ FailConsumer(w)
    BY <1>6
  <2>2. Current \in DOMAIN connections
    BY <1>2, <2>1 DEF Receive, RunOutOfSpace, FailConsumer, Writing
  <2> DEFINE log == Archived(w)
  <2>3. \/ connections' = log
        \/ \E reason : connections' = [log EXCEPT ![Current].reason = reason]
    BY <2>1 DEF Receive, RunOutOfSpace, FailConsumer, End
  <2>4. DOMAIN log = DOMAIN connections /\ \A c \in DOMAIN connections : Tracked(log[c])
    BY <2>2, ArchivedIsTracked
  <2> HIDE DEF log
  <2> QED
    BY <1>3, <2>3, <2>4
<1>7. CASE Halt \/ GoStale \/ \E reason \in {"disconnect", "error"} : Break(reason)
  <2>1. \E reason : connections' = [connections EXCEPT ![Current].reason = reason]
    BY <1>7 DEF Halt, GoStale, Break, End
  <2> QED
    BY <1>3, <2>1 DEF RecordInv
<1>8. CASE UNCHANGED vars
  BY <1>4, <1>8 DEF vars
<1>9. CASE \/ (\E automatic \in BOOLEAN : StartRecorder(automatic))
           \/ Connect \/ RequestStop \/ Reconnect \/ LeaveLoop
           \/ Rename \/ SyncRename \/ WriteManifest \/ Publish \/ FailFinalize
  BY <1>4, <1>9 DEF StartRecorder, Connect, RequestStop, Reconnect, LeaveLoop, Rename, SyncRename,
     WriteManifest, FileStep, Publish, FailFinalize
<1>10. CASE Normalizing \/ CrashRecorder \/ CrashNormalizer \/ LosePower \/ Recover
            \/ (\E c \in Opened : Damage(c)) \/ CaptureMetrics \/ Tick
  BY <1>4, <1>10 DEF Normalizing, StartNormalizer, RunBatch, CrashRecorder, CrashNormalizer,
     LosePower, Recover, Damage, CaptureMetrics, Tick, recorderVars
<1> QED
  BY <1>5, <1>6, <1>7, <1>8, <1>9, <1>10 DEF Next, Recording

\* What may be named holds what was received.
RecordShown == \A c \in DOMAIN connections : Readable(c) => HoldsTheRecord(c)

LEMMA ReadableIsTheRecord ==
    ASSUME CaptureInv, RecordInv
    PROVE  RecordShown
<1> SUFFICES ASSUME NEW c \in DOMAIN connections, Readable(c)
             PROVE  HoldsTheRecord(c)
  BY DEF RecordShown
<1> DEFINE A == Parsed(Frames(c))
           kept == Novel(A)
           out == connections[c].tracked.events
           n == Len(A)
<1>1. c \in DOMAIN files /\ c \in DOMAIN connections
  BY OpenedSegments DEF CaptureInv
<1>2. IsSequence(A) /\ Passed(A, n, out)
  BY <1>1 DEF RecordInv, Tracked, Observed, Frames
<1>3. n \in Nat /\ DOMAIN A = 1 .. n
  BY <1>2, SequenceDomain
<1>4. Contents(c) = Rows(c)
  <2>1. /\ normalized[c].types = RowTypes(c)
        /\ \A type \in RowTypes(c) : tables[c][type] = RowsOf(c, type)
    BY <1>1 DEF CaptureInv, Faithful, Fit, Readable
  <2>2. Contents(c) = UNION {RowsOf(c, type) : type \in RowTypes(c)}
    BY <2>1 DEF Contents
  <2> QED
    BY <2>2 DEF RowsOf, RowTypes
<1>5. Rows(c) = {out[r] @@ [order |-> r] : r \in DOMAIN out}
  BY DEF Rows
<1> HIDE DEF A, n, out
<1>6. kept = Kept(A, n)
  BY <1>3 DEF Novel, Kept
<1>7. \A i \in kept : i \in 1 .. n /\ {j \in kept : j <= i} = Kept(A, i)
  <2> SUFFICES ASSUME NEW i \in Kept(A, n)
               PROVE  i \in 1 .. n /\ {j \in Kept(A, n) : j <= i} = Kept(A, i)
    BY <1>6
  <2>1. i \in 1 .. n
    BY DEF Kept
  <2>2. \A j : j \in 1 .. n /\ j <= i <=> j \in 1 .. i
    BY <1>3, <2>1
  <2> QED
    BY <2>1, <2>2 DEF Kept
<1>8. Placed(A, kept) = {A[i] @@ [order |-> Rank(A, i)] : i \in Kept(A, n)}
  BY <1>6, <1>7 DEF Placed, Rank
<1>9. Rows(c) = Placed(A, kept)
  <2>1. \A i \in Kept(A, n) : Rank(A, i) \in DOMAIN out /\ out[Rank(A, i)] = A[i]
    BY <1>2 DEF Passed
  <2>2. \A r \in DOMAIN out : \E i \in Kept(A, n) : Rank(A, i) = r /\ out[r] = A[i]
    BY <1>2, <2>1 DEF Passed
  <2> QED
    BY <1>5, <1>8, <2>1, <2>2
<1> QED
  BY <1>4, <1>9 DEF HoldsTheRecord, A

\* At first nothing was opened.
LEMMA RecordStarts == Init => RecordInv
  BY DEF Init, RecordInv

\* The tracker of every connection knows what the frames received on it hold
\* (recorder.py, integrity.py).
THEOREM RecordInvariance == Spec => [](CaptureInv /\ RecordInv)
<1>1. CaptureInv /\ RecordInv /\ [Next]_vars => RecordInv'
  BY RecordSteps
<1> QED
  BY <1>1, RecordStarts, CaptureInvariance, PTL DEF Spec

\* A dataset holds, from the moment it may be named, exactly the events of the
\* frames received on its connection, in their order and each trade once, for
\* every wire, every size of the tracker's memory, and wherever the recorder or
\* the normalizer was killed (protocol.py, integrity.py, normalizer.py).
THEOREM DatasetHoldsTheRecord == Spec => DatasetIsTheRecord
<1>1. CaptureInv /\ RecordInv => RecordShown
  BY ReadableIsTheRecord
<1>2. CaptureInv /\ RecordInv /\ RecordShown' /\ [Next]_vars
          => \A c \in Opened : (~ Readable(c) /\ Readable(c)') => HoldsTheRecord(c)'
  <2> SUFFICES ASSUME CaptureInv, RecordInv, RecordShown', [Next]_vars,
                      NEW c \in Opened, Readable(c)'
               PROVE  HoldsTheRecord(c)'
    OBVIOUS
  <2>1. DOMAIN connections \subseteq DOMAIN connections'
    BY RecordSteps
  <2>2. c \in DOMAIN connections'
    BY <2>1, OpenedSegments DEF CaptureInv
  <2> QED
    BY <2>2 DEF RecordShown
<1> QED
  BY <1>1, <1>2, RecordInvariance, PTL DEF Spec, DatasetIsTheRecord
=============================================================================
