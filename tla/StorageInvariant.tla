-------------------------- MODULE StorageInvariant --------------------------
(***************************************************************************)
(* The inductive invariant behind AckedAppendDurable: what has to hold    *)
(* between any two steps of Storage, under power losses, for a reported   *)
(* append to be on durable media until its release is requested.          *)
(***************************************************************************)
EXTENDS Storage

OpenPcs    == {"closed", "enumerate", "reseal", "reseal_sync", "failed"}
SealPcs    == {"seal_footer", "seal_sync", "seal_frame", "seal_publish"}
WritePcs   == {"append_write", "append_sync"}
CreatePcs  == {"create", "create_sync"}
ReclaimPcs == {"reclaim_batch", "remove_write", "remove_sync", "delete", "delete_sync"}

\* A method that writes has something to write, and somewhere to write it.
JobReady ==
    /\ pc \in SealPcs \cup WritePcs => active # NoSeg
    /\ pc \in {"append_write", "release_write"} => job.todo # << >>
    /\ pc = "create_sync" => nextId > 0

Up == pc \notin OpenPcs

Checkpoints == {chk} \cup chkOld
Logs        == {log} \cup logOld

UpTo(S, hw) == \A r \in S : r[2] <= hw[r[1]]

\* Only the step after a rename leaves the root directory unsettled, and only
\* a creation or a deletion in progress the segment directory.
EntriesSettled ==
    /\ pc # "chk_sync" => chkOld = {}
    /\ pc # "log_sync" => logOld = {}
    /\ pc \notin {"create_sync", "delete", "delete_sync", "enumerate"} => durDir = dir
    /\ pc = "enumerate" /\ job.done = {} => durDir = dir

Settled ==
    /\ \A i \in SegId : file[i].synced <= Len(file[i].chunks)
    /\ \A l \in Logs : l.synced <= Len(l.frames)
    /\ EntriesSettled

\* Removed segments that the running batch has not deleted yet.
Removing == IF pc \in {"remove_write", "remove_sync"} THEN job.batch
            ELSE IF pc = "delete" THEN job.left ELSE {}

\* The frames of the log are numbered up to last_seq, and segments that the
\* manifest removed are no longer live once their deletion is over.
Control ==
    /\ pc \notin {"closed", "failed"} =>
         \A k \in DOMAIN log.frames : log.frames[k].seq <= lastSeq
    /\ pc \in {"reseal", "reseal_sync"} => dir \cap RemovedIds(chk, log) = {}
    /\ Up => live \cap RemovedIds(chk, log) \subseteq Removing
    /\ Up => \A i \in RemovedIds(chk, log) : i < nextId
    /\ pc = "create_sync" => nextId - 1 \notin RemovedIds(chk, log)

\* The index covers the files: every live file's records are indexed (but for
\* the group being written), and no sequence exceeds its stream's high-water.
Index ==
    Up => /\ dir = live \cup (IF pc = "create_sync" THEN {nextId - 1} ELSE {})
          /\ \A i \in dir : i < nextId
          /\ \A i \in live : RecordsOf(file[i]) \subseteq
                records[i] \cup (IF i = active /\ pc \in WritePcs THEN job.group ELSE {})
          /\ \A i \in SegId : UpTo(records[i], highwater)
          /\ UpTo(released, highwater)
          /\ UpTo(ReleasedBy(chk, log), highwater)
          /\ \A s \in Stream : chk.hw[s] <= highwater[s]
          /\ footers \subseteq live
          /\ active # NoSeg => active \in live
          /\ active # NoSeg /\ pc \notin {"seal_frame", "seal_publish"} => active \notin footers

TodoRecords == UNION {job.todo[k] : k \in DOMAIN job.todo}

\* The group being appended is new, and is in the work list or in the file.
AppendJob ==
    /\ job.op = "append" => /\ pc \in SealPcs \cup WritePcs \cup CreatePcs
                            /\ \A r \in job.group : r[2] > highwater[r[1]]
    /\ pc \in WritePcs \cup CreatePcs => job.op = "append"
    /\ job.op = "append" /\ pc # "create_sync" => TodoRecords \subseteq job.group
    /\ job.op = "append" /\ pc \in SealPcs \cup {"create"} => job.group \subseteq TodoRecords
    /\ pc \in WritePcs => job.group \subseteq RecordsOf(file[active]) \cup TodoRecords
    /\ pc = "append_sync" => job.todo = << >>
    /\ pc = "create_sync" => /\ nextId - 1 \notin live
                             /\ file[nextId - 1].synced = Len(file[nextId - 1].chunks)
                             /\ RecordsOf(file[nextId - 1]) = job.group

\* A release in progress names records that nobody relies on any more.
ReleaseJob ==
    /\ job.op = "release" => /\ job.group \cap promised = {}
                             /\ UpTo(job.group, highwater)
                             /\ TodoRecords \subseteq job.group
    /\ pc \in {"release_write", "release_sync"} => job.op = "release"

\* Nor does anyone rely on a segment that is being reclaimed.
ReclaimJob ==
    /\ pc \in ReclaimPcs =>
         \A i \in job.queue \cup job.batch \cup job.left :
            i < nextId /\ i # active /\ RecordsOf(file[i]) \cap promised = {}
    /\ pc = "remove_write" => job.left \subseteq job.batch

JobInv == AppendJob /\ ReleaseJob /\ ReclaimJob

\* No control image and no flag releases a promised record, and no image
\* removes a file that holds one.
CheckpointsSafe == \A c \in Checkpoints : c.rel \cap promised = {} /\ UpTo(c.rel, c.hw)
ReleasesSafe    == \A c \in Checkpoints, l \in Logs : ReleasedBy(c, l) \cap promised = {}
RemovalsSafe    == \A c \in Checkpoints, l \in Logs :
                     \A i \in RemovedIds(c, l) \cap (dir \cup durDir) :
                        RecordsOf(file[i]) \cap promised = {}
FlagsSafe       == Up => released \cap promised = {}

Promises == CheckpointsSafe /\ ReleasesSafe /\ RemovalsSafe /\ FlagsSafe /\ AckedAppendDurable

\* Between any two steps of append_group, seal_active, release_group, reclaim,
\* compact_manifest or open, whatever power losses struck before: directories
\* are settled outside the steps that change them, the index covers the files,
\* jobs work on what they may work on, and nothing on disk or in memory
\* releases or removes a promised record, which has a durable copy.
DurabilityInv == TypeOK /\ JobReady /\ Settled /\ Control /\ Index /\ JobInv /\ Promises

=============================================================================
