--------------------------- MODULE EvidenceBundle ---------------------------
(***************************************************************************)
(* An evidence bundle of the retirement of the old trader: a directory     *)
(* that people fill and that every command reads again from nothing.  A    *)
(* bundle b has the documents on disk (b.files, one value per document),   *)
(* the ones its manifest binds by hash and size (b.bound), the set of what *)
(* is odd about the directory or a file of it (b.odd), and the hash over   *)
(* the whole inventory (b.sha).  A hash is modelled by a value that        *)
(* identifies the content: two documents have one hash only if they are    *)
(* the same.  A document d that others refer to has its hash in d.id.      *)
(***************************************************************************)
EXTENDS Naturals, FiniteSets

CONSTANTS Policy,        \* the frozen retirement policy
          ScanPolicy,    \* the credential scan policy given on the command line
          PinnedKey,     \* the deployment key the operator pins
          RetirementKey, \* the key of retirement approvals the operator pins
          MaxFiles       \* documents a bundle may hold

ASSUME PolicyAssumption == {Policy.minDisabled, Policy.maxFinalAge, Policy.maxCaptureSkew}
                               \subseteq Nat

\* A root that is relative or a link, a file that is a link, special, empty
\* or writable by others, a path that leaves its directory, a file that
\* changes while it is read, a document not written in the canonical form.
Oddities == {"root", "link", "special", "writable", "escapes", "moving", "form"}

\* Exactly the bound documents are there, each with the bound content, and
\* nothing about them is odd; limit is the largest number of files.
IsSound(b, limit) == /\ b.odd = {}
                     /\ Cardinality(DOMAIN b.bound) < limit
                     /\ b.files = b.bound

\* An interval of an evidence document, and its review after it.
IsPositive(e) == e.from < e.to
IsReviewed(e) == IsPositive(e) /\ e.to <= e.reviewed

Covers(outer, inner) == outer.from <= inner.from /\ inner.to <= outer.to

\* The fields of a record and, of those it lacks, the ones of another.
Joined(a, b) == [x \in DOMAIN a \union DOMAIN b |-> IF x \in DOMAIN a THEN a[x] ELSE b[x]]
=============================================================================
