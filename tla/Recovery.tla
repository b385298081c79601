------------------------------ MODULE Recovery ------------------------------
(***************************************************************************)
(* What opening a Camus root derives from its files, as operators on a    *)
(* disk image: the authoritative checkpoint c (MANIFEST.chk), the         *)
(* manifest log l (MANIFEST.log), the set D of canonical segment files    *)
(* and their contents f.  The module has no state; Storage.tla takes the  *)
(* steps of an open and uses these operators for their conditions.        *)
(*                                                                         *)
(* Data abstraction.  A record is its identity (stream, sequence).  A     *)
(* segment file is the sequence of its complete chunks: an epoch is the   *)
(* set of its records and the footer is the empty set.  Release ranges    *)
(* and bitmaps are the sets of records they denote.                       *)
(***************************************************************************)
EXTENDS Integers, Sequences, FiniteSets, FiniteSetsExt

CONSTANTS Stream,     \* logical streams
          MaxSeq,     \* greatest record sequence (u64::MAX in the code)
          MaxSegId    \* the segment ID that is never allocated (u64::MAX)

ASSUME BoundsAssumption == MaxSeq \in Nat /\ MaxSegId \in Nat

\* Stream states are the entries of one in-memory map.
ASSUME StreamAssumption == IsFiniteSet(Stream)

Seqno    == 0 .. MaxSeq
SegId    == 0 .. MaxSegId - 1
Record   == Stream \X Seqno
NoSeq    == -1                  \* a stream without a high-water (None)
NoSeg    == -1                  \* no active segment (None)
HighWater == Seqno \cup {NoSeq}
Highwaters == [Stream -> HighWater]
NoHighwaters == [s \in Stream |-> NoSeq]

Footer == {}
Chunk  == SUBSET Record

Frame == [seq : Nat, kind : {"release", "sealed", "removed"}, id : SegId \cup {NoSeg},
          recs : SUBSET Record, hw : Highwaters]

ReleaseFrame(S)    == [seq |-> 0, kind |-> "release", id |-> NoSeg, recs |-> S, hw |-> NoHighwaters]
SealedFrame(i)     == [seq |-> 0, kind |-> "sealed", id |-> i, recs |-> {}, hw |-> NoHighwaters]
RemovedFrame(i, h) == [seq |-> 0, kind |-> "removed", id |-> i, recs |-> {}, hw |-> h]

File       == [chunks : Seq(Chunk), synced : Nat]
Log        == [base : Nat \ {0}, frames : Seq(Frame), synced : Nat]
Checkpoint == [last : Nat, next : 0 .. MaxSegId, hw : Highwaters, ids : SUBSET SegId,
               sealed : SUBSET SegId, count : [SegId -> Nat], rel : SUBSET Record]

-----------------------------------------------------------------------------
(* Segment files. *)

RecordsOf(file) == UNION {file.chunks[k] : k \in DOMAIN file.chunks}

RecordsThrough(file, k) == UNION {file.chunks[j] : j \in 1 .. k}

HasFooter(file) == \E k \in DOMAIN file.chunks : file.chunks[k] = Footer

HasCheckpointBoundary(file, n) ==
    \E k \in DOMAIN file.chunks : Cardinality(RecordsThrough(file, k)) = n

\* The records below a checkpoint's record count: whole epochs, in file order.
BaselineRecords(file, n) ==
    UNION {file.chunks[k] : k \in {j \in DOMAIN file.chunks :
                                     Cardinality(RecordsThrough(file, j)) <= n}}

\* Epochs of one stream continue one another inside a segment.
EpochsContiguous(file) ==
    \A s \in Stream :
      LET q == {r[2] : r \in {x \in RecordsOf(file) : x[1] = s}}
      IN  q # {} => q = Min(q) .. Max(q)

-----------------------------------------------------------------------------
(* Manifest control state: the checkpoint and the frames it does not cover. *)

Applied(c, l) == {k \in DOMAIN l.frames : l.frames[k].seq > c.last}

AppliedFrames(c, l, kind) ==
    {l.frames[k] : k \in {j \in Applied(c, l) : l.frames[j].kind = kind}}

RecoveredLastSeq(c, l) ==
    IF Applied(c, l) = {} THEN c.last ELSE l.frames[Len(l.frames)].seq

RemovedIds(c, l) == {g.id : g \in AppliedFrames(c, l, "removed")}

SealedIds(c, l) == c.sealed \cup {g.id : g \in AppliedFrames(c, l, "sealed")}

LiveIds(c, l) == (c.ids \cup SealedIds(c, l)) \ RemovedIds(c, l)

ReleasedBy(c, l) == UNION {g.recs : g \in AppliedFrames(c, l, "release")}

\* apply_frame accepts frame k after the applied frames before it.
FrameAccepted(c, l, k) ==
    LET g == l.frames[k]
        Before(kind) == {l.frames[j] : j \in {i \in Applied(c, l) :
                                          i < k /\ l.frames[i].kind = kind}}
        SealedBefore == g.id \in c.sealed \/ \E x \in Before("sealed") : x.id = g.id
        RemovedBefore == \E x \in Before("removed") : x.id = g.id
    IN  /\ g.kind = "sealed" => ~RemovedBefore /\ ~SealedBefore
        /\ g.kind = "removed" =>
             /\ ~RemovedBefore /\ SealedBefore
             /\ \A s \in Stream : g.hw[s] # NoSeq =>
                  /\ g.hw[s] > c.hw[s]
                  /\ \A x \in Before("removed") : g.hw[s] > x.hw[s]

ControlAccepted(c, l) ==
    /\ l.base <= c.last + 1
    /\ \A k \in DOMAIN l.frames : l.frames[k].seq = l.base + k - 1
    /\ \A k \in Applied(c, l) : FrameAccepted(c, l, k)

-----------------------------------------------------------------------------
(* Segment enumeration, after the files of removed segments are deleted. *)

PostCheckpointIds(c, l, D) ==
    {i \in LiveIds(c, l) \ c.ids : i >= c.next}
      \cup {i \in RemovedIds(c, l) : i >= c.next}
      \cup (D \ LiveIds(c, l))

EnumerationAccepted(c, l, D) ==
    /\ \A i \in D \ LiveIds(c, l) : i >= c.next
    /\ \A i \in PostCheckpointIds(c, l, D) : c.next .. i \subseteq PostCheckpointIds(c, l, D)

ActiveCandidates(D, f) == {i \in D : ~HasFooter(f[i])}

\* An incomplete tail after the first n chunks of segment i may be truncated.
TailRepairAllowed(c, l, i, file, n) ==
    /\ i \notin SealedIds(c, l)
    /\ n # 0
    /\ i \in c.ids => \E k \in 1 .. n : Cardinality(RecordsThrough(file, k)) = c.count[i]

MissingSeals(c, l, D, f) == {i \in D : HasFooter(f[i])} \ SealedIds(c, l)

ScanAccepted(c, l, D, f) ==
    /\ \A i \in D : f[i].chunks # << >> /\ EpochsContiguous(f[i])
    /\ D \cap SealedIds(c, l) \subseteq {i \in D : HasFooter(f[i])}
    /\ LiveIds(c, l) \subseteq D
    /\ \A i \in ActiveCandidates(D, f) : \A j \in D : j <= i

RecoveredActive(D, f) ==
    IF ActiveCandidates(D, f) = {} THEN NoSeg ELSE Max(ActiveCandidates(D, f))

\* Mutant: the IDs of removed segments are forgotten.
NextIdFromFiles(c, l, D) == Max({c.next} \cup {i + 1 : i \in D})

RecoveredNextId(c, l, D) == Max({c.next} \cup {i + 1 : i \in D \cup RemovedIds(c, l)})

-----------------------------------------------------------------------------
(* Index reconstruction.  R is the set of segments whose missing seal this   *)
(* open has just published: their control entry was replaced by one without *)
(* a checkpoint baseline.                                                   *)

HasBaseline(c, R, i) == i \in c.ids \ R

Baseline(c, R, i, f) ==
    IF HasBaseline(c, R, i) THEN BaselineRecords(f[i], c.count[i]) ELSE {}

NewRecords(c, R, i, f) == RecordsOf(f[i]) \ Baseline(c, R, i, f)

BoundariesAccepted(c, R, D, f) ==
    \A i \in D : HasBaseline(c, R, i) /\ c.count[i] # 0 =>
       HasCheckpointBoundary(f[i], c.count[i])

\* A segment the manifest calls sealed holds exactly its checkpointed records.
SealedBaselinesAccepted(c, l, R, D, f) ==
    \A i \in D \cap SealedIds(c, l) :
       HasBaseline(c, R, i) => c.count[i] = Cardinality(RecordsOf(f[i]))

\* What the running high-water of stream s has seen before sequence q of
\* segment i: the checkpoint, earlier records past their baseline, and the
\* high-waters of removed segments with smaller IDs.
Evidence(c, l, R, D, f, s, i, q) ==
    {c.hw[s]}
      \cup {r[2] : r \in {x \in UNION {NewRecords(c, R, j, f) : j \in {k \in D : k < i}} :
                             x[1] = s}}
      \cup {r[2] : r \in {x \in (IF i \in D THEN NewRecords(c, R, i, f) ELSE {}) :
                             x[1] = s /\ x[2] < q}}
      \cup {g.hw[s] : g \in {x \in AppliedFrames(c, l, "removed") : x.id < i}}

SequencesAdvance(c, l, R, D, f) ==
    \A i \in D : \A r \in NewRecords(c, R, i, f) :
       r[2] = Max(Evidence(c, l, R, D, f, r[1], i, r[2])) + 1

RemovalsAdvance(c, l, R, D, f) ==
    \A g \in AppliedFrames(c, l, "removed") : \A s \in Stream :
       g.hw[s] # NoSeq => g.hw[s] > Max(Evidence(c, l, R, D, f, s, g.id, 0))

BaselinesAccepted(c, R, D, f) ==
    /\ \A i \in D : \A r \in Baseline(c, R, i, f) : r[2] <= c.hw[r[1]]
    /\ \A i, j \in D : i < j =>
         \A r \in Baseline(c, R, i, f), t \in Baseline(c, R, j, f) :
            r[1] = t[1] => r[2] < t[2]

IdentitiesUnique(D, f) ==
    \A i, j \in D : i # j => RecordsOf(f[i]) \cap RecordsOf(f[j]) = {}

RecoveredHighwater(c, l, R, D, f) ==
    [s \in Stream |->
       Max({c.hw[s]}
             \cup {r[2] : r \in {x \in UNION {NewRecords(c, R, i, f) : i \in D} : x[1] = s}}
             \cup {g.hw[s] : g \in AppliedFrames(c, l, "removed")})]

ReleasesKnown(c, l, R, D, f) ==
    \A r \in ReleasedBy(c, l) : r[2] <= RecoveredHighwater(c, l, R, D, f)[r[1]]

\* Mutant: replayed removals do not count as persisted.
PersistedFromCheckpoint(c, l) == c.hw

RecoveredPersisted(c, l) ==
    [s \in Stream |-> Max({c.hw[s]} \cup {g.hw[s] : g \in AppliedFrames(c, l, "removed")})]

\* Checkpoint releases apply to the baseline they were encoded over, release
\* frames to every record that is still stored.
RecoveredReleased(c, l, R, D, f) ==
    (UNION {c.rel \cap Baseline(c, R, i, f) : i \in D})
      \cup (ReleasedBy(c, l) \cap UNION {RecordsOf(f[i]) : i \in D})

RecoveredRecords(D, f) ==
    [i \in SegId |-> IF i \in D THEN RecordsOf(f[i]) ELSE {}]

IndexesAccepted(c, l, R, D, f) ==
    /\ BoundariesAccepted(c, R, D, f)
    /\ IdentitiesUnique(D, f)
    /\ BaselinesAccepted(c, R, D, f)
    /\ RemovalsAdvance(c, l, R, D, f)
    /\ ReleasesKnown(c, l, R, D, f)

=============================================================================
