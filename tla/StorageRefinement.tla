------------------------- MODULE StorageRefinement --------------------------
(***************************************************************************)
(* The storage core implements the buffer of Buffer.tla.  While the root   *)
(* is open the buffer is what the in-memory indexes call pending; while it *)
(* is closed, what an open would recover from the files.                   *)
(***************************************************************************)
EXTENDS StorageInvariant

RecoverablePending ==
    LET kept == dir \ RemovedIds(chk, log)
    IN  (UNION {RecordsOf(file[i]) : i \in kept}) \ RecoveredReleased(chk, log, {}, kept, file)

Contents == IF Up THEN Pending ELSE RecoverablePending

Appending == IF job.op = "append" THEN job.group ELSE {}

B == INSTANCE Buffer WITH
        Sequence <- Seqno, open <- Up, pending <- Contents, inflight <- Appending,
        acked <- promised, released <- gone

\* Every step of append_group, release_group, reclaim, compaction, open, shutdown and of a
\* failure is a step of the buffer, or changes nothing a caller can tell: in particular
\* open gives back exactly what the files held when it began, shutdown leaves exactly what
\* was pending, and reclaim and compaction leave it alone at every one of their steps.
RefinesBuffer == B!Spec

-----------------------------------------------------------------------------
(* Why the mapping holds under power losses: what the files would give back, *)
(* at any point of any job, beside what memory says.                         *)

\* Only the steps before a sync leave something to sync: chunks of the active
\* segment, frames of the running job.
FilesFlushed ==
    \A i \in dir \cup durDir :
       \/ file[i].synced = Len(file[i].chunks)
       \/ i = active /\ pc \in {"append_write", "append_sync", "seal_sync"}

LogFlushed ==
    \/ log.synced = Len(log.frames)
    \/ pc \in {"seal_publish", "release_write", "release_sync", "remove_write", "remove_sync"}
    \/ /\ pc = "reseal_sync"
       /\ \A k \in DOMAIN log.frames : k > log.synced => log.frames[k].kind = "sealed"

\* New frames are numbered past the checkpoint, a compaction checkpoints what
\* memory holds until it is over, and an entry that is deleted but may come
\* back belongs to a segment the manifest removed.
ControlExact ==
    /\ pc \notin {"closed", "failed"} => chk.last <= lastSeq
    /\ pc \in {"chk_sync", "log_rename", "log_sync"} => chk = CheckpointFromState
    /\ durDir \ dir \subseteq RemovedIds(chk, log)

\* The index holds no record that the files do not, and none twice.
IndexExact ==
    Up => /\ \A i \in SegId \ live : records[i] = {}
          /\ \A i \in live : records[i] \subseteq RecordsOf(file[i])
          /\ \A i, j \in live : i # j => records[i] \cap records[j] = {}

\* An append has a group; a release is the job of its own steps and of the
\* compaction after them, and its group is in its work list or in the log
\* until it is flagged.
GroupJob ==
    /\ job.op = "append" => job.group # {}
    /\ job.op = "release" => pc \in {"release_write", "release_sync", "chk_rename", "chk_sync",
                                    "log_rename", "log_sync"}
    /\ pc \in {"release_write", "release_sync"} =>
         job.group \cap Pending \subseteq TodoRecords \cup ReleasedBy(chk, log)
    /\ pc = "release_sync" => job.todo = << >>
    /\ job.op = "release" /\ pc \notin {"release_write", "release_sync"} =>
         job.group \cap Pending = {}

\* Segments to reclaim are live and fully released, and those whose frame was
\* written are removed for the manifest.
RemovalJob ==
    /\ pc \in ReclaimPcs => job.queue \cap job.batch = {}
    /\ pc \in ReclaimPcs => \A i \in job.queue \cup Removing : i \in live /\ FullyReleased(i)
    /\ pc = "remove_write" => job.batch \ job.left \subseteq RemovedIds(chk, log)
    /\ pc = "remove_sync" => job.batch \subseteq RemovedIds(chk, log)
    /\ pc = "delete" => job.left \subseteq job.batch \cap RemovedIds(chk, log)

\* A record that a checkpoint releases lies in the synced part of its segment
\* and below the count the checkpoint has of it: whatever a power loss leaves,
\* recovery applies the release.
CheckpointReleasesApply ==
    \A c \in Checkpoints : \A i \in dir \cup durDir : \A r \in c.rel \cap RecordsOf(file[i]) :
       /\ i \in c.ids
       /\ \E k \in 1 .. file[i].synced :
            r \in file[i].chunks[k] /\ Cardinality(RecordsThrough(file[i], k)) <= c.count[i]

SyncedRelease(c, l, r) ==
    \E k \in Applied(c, l) : k <= l.synced /\ l.frames[k].kind = "release" /\ r \in l.frames[k].recs

\* A release flag is set only for what every image of the control files
\* releases, and for everything that the current one releases.
FlagsRecoverable ==
    Up => \A i \in live : \A r \in RecordsOf(file[i]) \cap released :
            \A c \in Checkpoints, l \in Logs : r \in c.rel \/ SyncedRelease(c, l, r)

FlagsComplete ==
    Up => \A i \in live : (chk.rel \cup ReleasedBy(chk, log)) \cap RecordsOf(file[i]) \subseteq
                           released \cup (IF job.op = "release" THEN job.group ELSE {})

\* Removal frame k, or one before it, or the checkpoint, has a high-water as
\* great as every record of the segment that the frame removes.
RemovalsCovered ==
    \A c \in Checkpoints, l \in Logs : \A k \in Applied(c, l) :
       l.frames[k].kind = "removed" /\ l.frames[k].id \in dir \cup durDir =>
          \A r \in RecordsOf(file[l.frames[k].id]) :
             \/ r[2] <= c.hw[r[1]]
             \/ \E j \in Applied(c, l) :
                  j <= k /\ l.frames[j].kind = "removed" /\ r[2] <= l.frames[j].hw[r[1]]

SyncedRemoval(c, l, s, q) ==
    \E k \in Applied(c, l) : k <= l.synced /\ l.frames[k].kind = "removed" /\ q <= l.frames[k].hw[s]

\* persisted_highwater is what every image of the control files has.
PersistedRecoverable ==
    Up => \A s \in Stream :
            /\ persisted[s] <= highwater[s]
            /\ \A c \in Checkpoints, l \in Logs :
                 persisted[s] <= c.hw[s] \/ SyncedRemoval(c, l, s, persisted[s])

StoredMark(s, q) ==
    \E i \in dir \cap durDir : \E r \in RecordsThrough(file[i], file[i].synced) :
       r[1] = s /\ q <= r[2]

\* Recovery from any image gives stream s a high-water of at least q.
MarkKept(s, q) ==
    \/ StoredMark(s, q)
    \/ \A c \in Checkpoints, l \in Logs : q <= c.hw[s] \/ SyncedRemoval(c, l, s, q)

\* No sequence that a caller was told, and none up to a stream's high-water,
\* is given out again after any failure.
MarksRecoverable ==
    /\ \A r \in gone : MarkKept(r[1], r[2])
    /\ Up => /\ UpTo(gone \cup promised, highwater)
             /\ \A s \in Stream : MarkKept(s, highwater[s])

\* With DurabilityInv, inductive: at every point of every job, the files that
\* any power loss may leave give back what the caller was told, no more than
\* memory and the running append hold, and high-waters that are no smaller.
RefinementInv ==
    /\ DurabilityInv
    /\ FilesFlushed /\ LogFlushed /\ ControlExact
    /\ IndexExact /\ GroupJob /\ RemovalJob
    /\ CheckpointReleasesApply /\ FlagsRecoverable /\ FlagsComplete
    /\ RemovalsCovered /\ PersistedRecoverable /\ MarksRecoverable

=============================================================================
