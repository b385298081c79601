------------------------------- MODULE Storage -------------------------------
(***************************************************************************)
(* The storage core of Camus (src/storage): one exclusive Storage value   *)
(* over MANIFEST.chk, MANIFEST.log and the segment directory.  Each       *)
(* method is a job that advances through the points at which it changes   *)
(* a file, makes a file durable or changes memory; a failure may strike   *)
(* between any two of them.                                               *)
(*                                                                         *)
(* Files.  Bytes written are visible at once and durable after sync_data; *)
(* creations, renames and unlinks are visible at once and durable after   *)
(* the directory is synced.  A process crash (or a poisoning I/O error)   *)
(* loses memory only.  A power loss also keeps, of every file, some       *)
(* prefix of its chunks that contains the synced ones, and of every       *)
(* unsynced directory change either outcome.  A chunk cut short by a      *)
(* crash is an incomplete tail, which recovery truncates: it is absent.   *)
(***************************************************************************)
EXTENDS Recovery

CONSTANTS MaxUnit,        \* most records in one append unit
          MaxGroup,       \* most units in one commit group
          SegCapacity,    \* records that fit one segment (segment_bytes)
          ReclaimBatch,   \* AUTOMATIC_RECLAIM_SEGMENTS_PER_JOB
          MaxFailures     \* failures in one behaviour

ASSUME SizesAssumption ==
    /\ MaxUnit \in Nat \ {0} /\ MaxGroup \in Nat \ {0}
    /\ SegCapacity \in Nat \ {0} /\ ReclaimBatch \in Nat \ {0} /\ MaxFailures \in Nat

VARIABLES
    chk, chkOld,     \* checkpoint; older images the durable entry may name
    log, logOld,     \* manifest log; older images the durable entry may name
    dir, durDir,     \* segment directory: visible and durable entries
    file,            \* contents of segment files
    records,         \* Storage.segments: the records indexed per live segment
    live,            \* the keys of Storage.segments
    footers,         \* live segments whose footer is set
    released,        \* records whose released flag is set
    active,          \* active_segment
    highwater, persisted,   \* StreamState.highwater, .persisted_highwater
    nextId,          \* next_segment_id
    lastSeq,         \* manifest.last_seq
    pc, job,         \* the running job and its next point
    promised,        \* records whose append was reported and whose release
                     \* was not requested yet
    gone,            \* records whose release was reported
    failures         \* process crashes and power losses so far

diskVars == <<chk, chkOld, log, logOld, dir, durDir, file>>
memVars  == <<records, live, footers, released, active, highwater, persisted,
              nextId, lastSeq>>
histVars == <<promised, gone, failures>>
vars     == <<diskVars, memVars, pc, job, histVars>>

\* op: the running method; todo: chunks or record sets still to write; group:
\* the records the caller's units name; queue: segments still to reclaim;
\* batch: segments of the current group of frames; left: those of batch that
\* still wait for the current step; done: segment files deleted so far.
NoJob == [op |-> "none", todo |-> << >>, group |-> {}, queue |-> {}, batch |-> {},
          left |-> {}, done |-> {}]

Stored  == UNION {records[i] : i \in live}
Pending == Stored \ released

NoFile == [chunks |-> << >>, synced |-> 0]

-----------------------------------------------------------------------------
(* Initial state: a root whose control files were just created, not open.   *)

InitMemory ==
    /\ records = [i \in SegId |-> {}] /\ live = {} /\ footers = {} /\ released = {}
    /\ active = NoSeg /\ highwater = NoHighwaters /\ persisted = NoHighwaters
    /\ nextId = 0 /\ lastSeq = 0 /\ job = NoJob

Init ==
    /\ chk = [last |-> 0, next |-> 0, hw |-> NoHighwaters, ids |-> {}, sealed |-> {},
              count |-> [i \in SegId |-> 0], rel |-> {}]
    /\ log = [base |-> 1, frames |-> << >>, synced |-> 0]
    /\ chkOld = {} /\ logOld = {}
    /\ dir = {} /\ durDir = {} /\ file = [i \in SegId |-> NoFile]
    /\ InitMemory
    /\ pc = "closed"
    /\ promised = {} /\ gone = {} /\ failures = 0

-----------------------------------------------------------------------------
(* Writing and syncing. *)

\* Manifest::append_group numbers its frames from last_seq; last_seq itself
\* moves after the sync, and nothing reads it before.
AppendFrame(g) ==
    /\ log' = [log EXCEPT !.frames = Append(@, [g EXCEPT !.seq = lastSeq + 1])]
    /\ lastSeq' = lastSeq + 1

\* Mutant: the log is not synced.
SkipLogSync == UNCHANGED log

SyncLog == log' = [log EXCEPT !.synced = Len(log.frames)]

AppendChunk(i, c) == file' = [file EXCEPT ![i].chunks = Append(@, c)]

\* Mutant: the segment file is not synced.
SkipFileSync(i) == UNCHANGED file

SyncFile(i) == file' = [file EXCEPT ![i].synced = Len(file[i].chunks)]

\* Mutant: the segment directory is not synced.
SkipSegmentsSync == UNCHANGED durDir

SyncSegments == durDir' = dir

SyncRoot == chkOld' = {} /\ logOld' = {}

Goto(label) == pc' = label /\ UNCHANGED job

\* The method returns Ok: appends and releases are reported to their callers.
Finish ==
    /\ pc' = "idle"
    /\ job' = NoJob
    /\ promised' = IF job.op = "append" THEN promised \cup job.group ELSE promised
    /\ gone' = IF job.op = "release" THEN gone \cup job.group ELSE gone
    /\ UNCHANGED failures

\* maybe_compact_manifest: the size thresholds ask for a compaction or not.
MaybeCompact ==
    \/ Finish
    \/ Goto("chk_rename") /\ UNCHANGED histVars

Least(i, S) == i \in S /\ \A j \in S : i <= j

FirstIds(S, n) == {i \in S : Cardinality({j \in S : j < i}) < n}

FullyReleased(i) == records[i] \subseteq released

\* Mutant: a sealed segment is reclaimed without looking at its releases.
EligibleUnreleased == live \cap footers

Eligible == {i \in live \cap footers : FullyReleased(i)}

ReclaimKind == {"automatic", "explicit"}

\* An automatic pass takes one batch, an explicit one every eligible segment.
StartBatches(kind) ==
    /\ pc' = "reclaim_batch"
    /\ job' = [NoJob EXCEPT !.op = kind,
                !.queue = IF kind = "automatic" THEN FirstIds(Eligible, ReclaimBatch)
                                                 ELSE Eligible]

-----------------------------------------------------------------------------
(* append_group, allocate_segment_id, Segment::append, Segment::create *)

Unit == [stream : Stream, size : 1 .. MaxUnit]

\* Unit k starts right after the greatest sequence of its stream, stored or
\* taken by an earlier unit of the group.
Assigned(units, first) ==
    \A k \in DOMAIN units :
       first[k] = 1 + Max({highwater[units[k].stream]} \cup
                          {first[j] + units[j].size - 1 :
                             j \in {i \in 1 .. k - 1 : units[i].stream = units[k].stream}})

UnitRecords(u, q) == {u.stream} \X (q .. q + u.size - 1)

\* Rotation because the active segment expired (its age is any) or is full.
AppendTargets(n) ==
    CASE active = NoSeg -> {"create"}
      [] active # NoSeg /\ Cardinality(records[active]) + n <= SegCapacity
           -> {"append_write", "seal_footer"}
      [] OTHER -> {"seal_footer"}

AppendStart(units, first) ==
    LET epochs == [k \in DOMAIN units |-> UnitRecords(units[k], first[k])]
        group  == UNION {epochs[k] : k \in DOMAIN epochs}
    IN  /\ pc = "idle"
        /\ Assigned(units, first)
        /\ group \subseteq Record                  \* else SequenceExhausted
        /\ Cardinality(group) <= SegCapacity
        /\ pc' \in AppendTargets(Cardinality(group))
        /\ job' = [NoJob EXCEPT !.op = "append", !.todo = epochs, !.group = group]
        /\ UNCHANGED <<diskVars, memVars, histVars>>

AppendWrite ==
    /\ pc = "append_write"
    /\ AppendChunk(active, Head(job.todo))
    /\ job' = [job EXCEPT !.todo = Tail(@)]
    /\ pc' = IF Len(job.todo) = 1 THEN "append_sync" ELSE "append_write"
    /\ UNCHANGED <<chk, chkOld, log, logOld, dir, durDir, memVars, histVars>>

\* index_durable_records
IndexDurableRecords(i) ==
    /\ records' = [records EXCEPT ![i] = @ \cup job.group]
    /\ highwater' = [s \in Stream |->
                       Max({highwater[s]} \cup {r[2] : r \in {x \in job.group : x[1] = s}})]

AppendSync ==
    /\ pc = "append_sync"
    /\ SyncFile(active)
    /\ IndexDurableRecords(active)
    /\ Finish
    /\ UNCHANGED <<chk, chkOld, log, logOld, dir, durDir, live, footers, released, active,
                   persisted, nextId, lastSeq>>

\* Mutant: allocate_segment_id does not check for exhaustion.
CreateRenameUnchecked ==
    /\ pc = "create"
    /\ file' = [file EXCEPT ![nextId] = [chunks |-> job.todo, synced |-> Len(job.todo)]]
    /\ dir' = dir \cup {nextId}
    /\ nextId' = nextId + 1
    /\ Goto("create_sync")
    /\ UNCHANGED <<chk, chkOld, log, logOld, durDir, records, live, footers, released, active,
                   highwater, persisted, lastSeq, histVars>>

\* The temporary file is written and synced before the rename publishes it.
CreateRename ==
    /\ pc = "create"
    /\ nextId < MaxSegId
    /\ file' = [file EXCEPT ![nextId] = [chunks |-> job.todo, synced |-> Len(job.todo)]]
    /\ dir' = dir \cup {nextId}
    /\ nextId' = nextId + 1
    /\ Goto("create_sync")
    /\ UNCHANGED <<chk, chkOld, log, logOld, durDir, records, live, footers, released, active,
                   highwater, persisted, lastSeq, histVars>>

CreateSync ==
    /\ pc = "create_sync"
    /\ SyncSegments
    /\ live' = live \cup {nextId - 1}
    /\ active' = nextId - 1
    /\ IndexDurableRecords(nextId - 1)
    /\ Finish
    /\ UNCHANGED <<chk, chkOld, log, logOld, dir, file, footers, released, persisted, nextId,
                   lastSeq>>

\* The append fails after any rotation it needed; the rotation stays.
SegmentIdExhausted ==
    /\ pc = "create"
    /\ nextId = MaxSegId
    /\ pc' = "idle" /\ job' = NoJob
    /\ UNCHANGED <<diskVars, memVars, histVars>>

-----------------------------------------------------------------------------
(* seal_active: the footer is durable before its manifest publication. *)

SealExpired ==
    /\ pc = "idle"
    /\ active # NoSeg
    /\ pc' = "seal_footer"
    /\ job' = [NoJob EXCEPT !.op = "age"]
    /\ UNCHANGED <<diskVars, memVars, histVars>>

SealFooter ==
    /\ pc = "seal_footer"
    /\ AppendChunk(active, Footer)
    /\ Goto("seal_sync")
    /\ UNCHANGED <<chk, chkOld, log, logOld, dir, durDir, memVars, histVars>>

SealSync ==
    /\ pc = "seal_sync"
    /\ SyncFile(active)
    /\ footers' = footers \cup {active}
    /\ Goto("seal_frame")
    /\ UNCHANGED <<chk, chkOld, log, logOld, dir, durDir, records, live, released, active,
                   highwater, persisted, nextId, lastSeq, histVars>>

SealFrame ==
    /\ pc = "seal_frame"
    /\ AppendFrame(SealedFrame(active))
    /\ Goto("seal_publish")
    /\ UNCHANGED <<chk, chkOld, logOld, dir, durDir, file, records, live, footers, released, active,
                   highwater, persisted, nextId, histVars>>

\* What the method that rotated does next.
AfterSeal ==
    \/ job.op = "append" /\ Goto("create") /\ UNCHANGED histVars
    \/ job.op = "age" /\ MaybeCompact
    \/ job.op \in ReclaimKind /\ StartBatches(job.op) /\ UNCHANGED histVars

SealPublish ==
    /\ pc = "seal_publish"
    /\ SyncLog
    /\ active' = NoSeg
    /\ AfterSeal
    /\ UNCHANGED <<chk, chkOld, logOld, dir, durDir, file, records, live, footers, released,
                   highwater, persisted, nextId, lastSeq>>

-----------------------------------------------------------------------------
(* release_group *)

\* Records a caller may name: sequences up to the stream's high-water.
KnownIds(s) == {s} \X (0 .. highwater[s])

ReleaseUnits == UNION {(SUBSET KnownIds(s)) \ {{}} : s \in Stream}

\* Unit k contributes its pending records that no earlier unit scheduled.
Scheduled(units, k) == (units[k] \cap Pending) \ UNION {units[j] : j \in 1 .. k - 1}

ReleaseStart(units) ==
    LET group == UNION {units[k] : k \in DOMAIN units}
    IN  /\ pc = "idle"
        /\ group \cap Pending # {}
        /\ pc' = "release_write"
        /\ job' = [NoJob EXCEPT !.op = "release", !.group = group,
                                !.todo = [k \in DOMAIN units |-> Scheduled(units, k)]]
        /\ promised' = promised \ group
        /\ UNCHANGED <<diskVars, memVars, gone, failures>>

\* Nothing named is pending: success without a manifest frame.
ReleaseNothing(units) ==
    LET group == UNION {units[k] : k \in DOMAIN units}
    IN  /\ pc = "idle"
        /\ group \cap Pending = {}
        /\ promised' = promised \ group
        /\ gone' = gone \cup group
        /\ UNCHANGED <<diskVars, memVars, pc, job, failures>>

ReleaseWrite ==
    /\ pc = "release_write"
    /\ IF Head(job.todo) = {} THEN UNCHANGED <<log, lastSeq>>
                            ELSE AppendFrame(ReleaseFrame(Head(job.todo)))
    /\ job' = [job EXCEPT !.todo = Tail(@)]
    /\ pc' = IF Len(job.todo) = 1 THEN "release_sync" ELSE "release_write"
    /\ UNCHANGED <<chk, chkOld, logOld, dir, durDir, file, records, live, footers, released, active,
                   highwater, persisted, nextId, histVars>>

ReleaseSync ==
    /\ pc = "release_sync"
    /\ SyncLog
    /\ released' = released \cup (job.group \cap Stored)
    /\ MaybeCompact
    /\ UNCHANGED <<chk, chkOld, logOld, dir, durDir, file, records, live, footers, active,
                   highwater, persisted, nextId, lastSeq>>

-----------------------------------------------------------------------------
(* reclaim, reclaim_batch, removal_body *)

\* The reactor starts an automatic pass only if there is something to reclaim.
HasAutomaticReclaimWork == Eligible # {} \/ (active # NoSeg /\ FullyReleased(active))

ReclaimStart(kind) ==
    /\ pc = "idle"
    /\ kind = "automatic" => HasAutomaticReclaimWork
    /\ \/ /\ active # NoSeg /\ FullyReleased(active)
          /\ pc' = "seal_footer"
          /\ job' = [NoJob EXCEPT !.op = kind]
       \/ /\ ~(active # NoSeg /\ FullyReleased(active))
          /\ StartBatches(kind)
    /\ UNCHANGED <<diskVars, memVars, histVars>>

ReclaimNextBatch ==
    /\ pc = "reclaim_batch"
    /\ job.queue # {}
    /\ LET batch == FirstIds(job.queue, ReclaimBatch)
       IN  job' = [job EXCEPT !.queue = @ \ batch, !.batch = batch, !.left = batch]
    /\ pc' = "remove_write"
    /\ UNCHANGED <<diskVars, memVars, histVars>>

\* Per stream, the greatest sequence of segment i that advances what the
\* manifest (and earlier frames of the batch) already records.
RemovalHighwaters(i, batch) ==
    [s \in Stream |->
       LET mine  == {r[2] : r \in {x \in records[i] : x[1] = s}}
           prior == {persisted[s]} \cup {r[2] : r \in
                      {x \in UNION {records[j] : j \in {k \in batch : k < i}} : x[1] = s}}
       IN  IF mine # {} /\ Max(mine) > Max(prior) THEN Max(mine) ELSE NoSeq]

RemoveWrite ==
    /\ pc = "remove_write"
    /\ \E i \in job.left :
         /\ Least(i, job.left)
         /\ AppendFrame(RemovedFrame(i, RemovalHighwaters(i, job.batch)))
         /\ job' = [job EXCEPT !.left = @ \ {i}]
         /\ pc' = IF job.left = {i} THEN "remove_sync" ELSE "remove_write"
    /\ UNCHANGED <<chk, chkOld, logOld, dir, durDir, file, records, live, footers, released, active,
                   highwater, persisted, nextId, histVars>>

RemoveSync ==
    /\ pc = "remove_sync"
    /\ SyncLog
    /\ persisted' = [s \in Stream |-> Max({persisted[s]} \cup {r[2] : r \in
                       {x \in UNION {records[i] : i \in job.batch} : x[1] = s}})]
    /\ job' = [job EXCEPT !.left = job.batch]
    /\ pc' = "delete"
    /\ UNCHANGED <<chk, chkOld, logOld, dir, durDir, file, records, live, footers, released,
                   active, highwater, nextId, lastSeq, histVars>>

Delete ==
    /\ pc = "delete"
    /\ \E i \in job.left :
         /\ Least(i, job.left)
         /\ dir' = dir \ {i}
         /\ live' = live \ {i}
         /\ footers' = footers \ {i}
         /\ released' = released \ records[i]
         /\ records' = [records EXCEPT ![i] = {}]
         /\ job' = [job EXCEPT !.left = @ \ {i}, !.done = @ \cup {i}]
         /\ pc' = IF job.left = {i} THEN "delete_sync" ELSE "delete"
    /\ UNCHANGED <<chk, chkOld, log, logOld, durDir, file, active, highwater, persisted,
                   nextId, lastSeq, histVars>>

DeleteSync ==
    /\ pc = "delete_sync"
    /\ SyncSegments
    /\ Goto("reclaim_batch")
    /\ UNCHANGED <<chk, chkOld, log, logOld, dir, file, memVars, histVars>>

ReclaimDone ==
    /\ pc = "reclaim_batch"
    /\ job.queue = {}
    /\ IF job.done # {} /\ live = {} THEN Goto("chk_rename") /\ UNCHANGED histVars
                                     ELSE MaybeCompact
    /\ UNCHANGED <<diskVars, memVars>>

-----------------------------------------------------------------------------
(* compact_manifest, Manifest::compact *)

\* Mutant: release flags are not checkpointed.
CheckpointWithoutReleases ==
    [last |-> lastSeq, next |-> nextId, hw |-> highwater, ids |-> live, sealed |-> footers,
     count |-> [i \in SegId |-> Cardinality(records[i])], rel |-> {}]

\* Mutant: the checkpoint forgets the high-waters of streams without records.
CheckpointStoredHighwaters ==
    [last |-> lastSeq, next |-> nextId,
     hw |-> [s \in Stream |-> Max({NoSeq} \cup {r[2] : r \in {x \in Stored : x[1] = s}})],
     ids |-> live, sealed |-> footers,
     count |-> [i \in SegId |-> Cardinality(records[i])], rel |-> released]

\* Mutant: a segment's pending records are counted instead of all of them.
CheckpointPendingCounts ==
    [last |-> lastSeq, next |-> nextId, hw |-> highwater, ids |-> live, sealed |-> footers,
     count |-> [i \in SegId |-> Cardinality(records[i] \ released)], rel |-> released]

CheckpointFromState ==
    [last |-> lastSeq, next |-> nextId, hw |-> highwater, ids |-> live, sealed |-> footers,
     count |-> [i \in SegId |-> Cardinality(records[i])], rel |-> released]

CheckpointRename ==
    /\ pc = "chk_rename"
    /\ chk' = CheckpointFromState
    /\ chkOld' = chkOld \cup {chk}
    /\ Goto("chk_sync")
    /\ UNCHANGED <<log, logOld, dir, durDir, file, memVars, histVars>>

CheckpointSync ==
    /\ pc = "chk_sync"
    /\ SyncRoot
    /\ Goto("log_rename")
    /\ UNCHANGED <<chk, log, dir, durDir, file, memVars, histVars>>

LogRename ==
    /\ pc = "log_rename"
    /\ log' = [base |-> lastSeq + 1, frames |-> << >>, synced |-> 0]
    /\ logOld' = logOld \cup {log}
    /\ Goto("log_sync")
    /\ UNCHANGED <<chk, chkOld, dir, durDir, file, memVars, histVars>>

LogSync ==
    /\ pc = "log_sync"
    /\ SyncRoot
    /\ persisted' = highwater
    /\ Finish
    /\ UNCHANGED <<chk, log, dir, durDir, file, records, live, footers, released, active,
                   highwater, nextId, lastSeq>>

-----------------------------------------------------------------------------
(* Storage::open: manifest::recover, enumerate_segments, recover_segments and *)
(* rebuild_indexes.                                                           *)

OpenControl ==
    /\ pc = "closed"
    /\ ControlAccepted(chk, log)
    /\ lastSeq' = RecoveredLastSeq(chk, log)
    /\ pc' = "enumerate"
    /\ job' = [NoJob EXCEPT !.op = "open"]
    /\ UNCHANGED <<diskVars, records, live, footers, released, active, highwater, persisted,
                   nextId, histVars>>

OpenDelete ==
    /\ pc = "enumerate"
    /\ \E i \in dir \cap RemovedIds(chk, log) :
         /\ dir' = dir \ {i}
         /\ job' = [job EXCEPT !.done = @ \cup {i}]
    /\ UNCHANGED <<chk, chkOld, log, logOld, durDir, file, memVars, pc, histVars>>

EnumerationDone == pc = "enumerate" /\ dir \cap RemovedIds(chk, log) = {}

\* The directory is synced only if this open deleted something.
OpenScan ==
    /\ EnumerationDone
    /\ EnumerationAccepted(chk, log, dir)
    /\ ScanAccepted(chk, log, dir, file)
    /\ durDir' = IF job.done # {} THEN dir ELSE durDir
    /\ LET missing == MissingSeals(chk, log, dir, file)
       IN  job' = [job EXCEPT !.batch = missing, !.left = missing]
    /\ pc' = "reseal"
    /\ UNCHANGED <<chk, chkOld, log, logOld, dir, file, memVars, histVars>>

OpenReseal ==
    /\ pc = "reseal"
    /\ \E i \in job.left :
         /\ Least(i, job.left)
         /\ AppendFrame(SealedFrame(i))
         /\ job' = [job EXCEPT !.left = @ \ {i}]
    /\ pc' = "reseal_sync"
    /\ UNCHANGED <<chk, chkOld, logOld, dir, durDir, file, records, live, footers, released, active,
                   highwater, persisted, nextId, histVars>>

OpenResealSync ==
    /\ pc = "reseal_sync"
    /\ SyncLog
    /\ Goto("reseal")
    /\ UNCHANGED <<chk, chkOld, logOld, dir, durDir, file, records, live, footers, released,
                   active, highwater, persisted, nextId, lastSeq, histVars>>

OpenRebuild ==
    /\ pc = "reseal" /\ job.left = {}
    /\ SealedBaselinesAccepted(chk, log, job.batch, dir, file)
    /\ SequencesAdvance(chk, log, job.batch, dir, file)
    /\ IndexesAccepted(chk, log, job.batch, dir, file)
    /\ records' = RecoveredRecords(dir, file)
    /\ live' = dir
    /\ footers' = {i \in dir : HasFooter(file[i])}
    /\ released' = RecoveredReleased(chk, log, job.batch, dir, file)
    /\ active' = RecoveredActive(dir, file)
    /\ highwater' = RecoveredHighwater(chk, log, job.batch, dir, file)
    /\ persisted' = RecoveredPersisted(chk, log)
    /\ nextId' = RecoveredNextId(chk, log, dir)
    /\ pc' = "idle" /\ job' = NoJob
    /\ UNCHANGED <<diskVars, lastSeq, histVars>>

SealsPublished == pc = "reseal" /\ job.left = {}

\* The checks that an open fails at its present point.
Rejections ==
    {why \in {"control", "enumeration", "scan", "baseline", "sequence", "index"} :
       CASE why = "control"     -> pc = "closed" /\ ~ControlAccepted(chk, log)
         [] why = "enumeration" -> EnumerationDone /\ ~EnumerationAccepted(chk, log, dir)
         [] why = "scan"        -> EnumerationDone /\ ~ScanAccepted(chk, log, dir, file)
         [] why = "baseline"    -> SealsPublished /\
                                   ~SealedBaselinesAccepted(chk, log, job.batch, dir, file)
         [] why = "sequence"    -> SealsPublished /\
                                   ~SequencesAdvance(chk, log, job.batch, dir, file)
         [] why = "index"       -> SealsPublished /\
                                   ~IndexesAccepted(chk, log, job.batch, dir, file)}

ForgetMemory ==
    /\ records' = [i \in SegId |-> {}] /\ live' = {} /\ footers' = {} /\ released' = {}
    /\ active' = NoSeg /\ highwater' = NoHighwaters /\ persisted' = NoHighwaters
    /\ nextId' = 0 /\ lastSeq' = 0

\* Open returns an error; job.op keeps the reason and job.batch the seals it
\* published.
OpenReject ==
    /\ Rejections # {}
    /\ durDir' = IF pc = "enumerate" /\ job.done # {} THEN dir ELSE durDir
    /\ \E why \in Rejections : job' = [NoJob EXCEPT !.op = why, !.batch = job.batch]
    /\ pc' = "failed"
    /\ ForgetMemory
    /\ UNCHANGED <<chk, chkOld, log, logOld, dir, file, histVars>>

\* The application opens the root again.
OpenRetry ==
    /\ pc = "failed"
    /\ pc' = "closed" /\ job' = NoJob
    /\ UNCHANGED <<diskVars, memVars, histVars>>

\* Log::shutdown between two jobs: the Storage value is dropped.
Shutdown ==
    /\ pc = "idle"
    /\ pc' = "closed" /\ job' = NoJob
    /\ ForgetMemory
    /\ UNCHANGED <<diskVars, histVars>>

-----------------------------------------------------------------------------
(* Failures *)

Fail == failures < MaxFailures /\ failures' = failures + 1

ProcessCrash ==
    /\ Fail
    /\ pc \notin {"idle", "closed", "failed"}
    /\ pc' = "closed" /\ job' = NoJob
    /\ ForgetMemory
    /\ UNCHANGED <<diskVars, promised, gone>>

Unsynced == {i \in SegId : file[i].synced < Len(file[i].chunks)}

\* A prefix of the file's chunks that contains every synced one.
KeepChunks(i, n) == [chunks |-> SubSeq(file[i].chunks, 1, n), synced |-> n]

PowerLoss ==
    /\ Fail
    /\ chk' \in {chk} \cup chkOld
    /\ chkOld' = {}
    /\ \E l \in {log} \cup logOld : \E n \in l.synced .. Len(l.frames) :
         log' = [l EXCEPT !.frames = SubSeq(@, 1, n), !.synced = n]
    /\ logOld' = {}
    /\ \E D \in SUBSET (dir \cup durDir) :
         /\ dir \cap durDir \subseteq D
         /\ dir' = D /\ durDir' = D
         /\ \E n \in [Unsynced -> 0 .. Max({0} \cup {Len(file[i].chunks) : i \in Unsynced})] :
              /\ \A i \in Unsynced : n[i] \in file[i].synced .. Len(file[i].chunks)
              /\ file' = [i \in SegId |-> CASE i \notin D        -> NoFile
                                           [] i \in D \cap Unsynced -> KeepChunks(i, n[i])
                                           [] OTHER             -> file[i]]
    /\ pc' = "closed" /\ job' = NoJob
    /\ ForgetMemory
    /\ UNCHANGED <<promised, gone>>

-----------------------------------------------------------------------------
Groups(S) == UNION {[1 .. n -> S] : n \in 1 .. MaxGroup}

Serve ==
    \/ \E units \in Groups(Unit) : \E first \in [DOMAIN units -> Seqno] :
         AppendStart(units, first)
    \/ AppendWrite \/ AppendSync \/ CreateRename \/ CreateSync \/ SegmentIdExhausted
    \/ SealExpired \/ SealFooter \/ SealSync \/ SealFrame \/ SealPublish
    \/ \E units \in Groups(ReleaseUnits) : ReleaseStart(units) \/ ReleaseNothing(units)
    \/ ReleaseWrite \/ ReleaseSync
    \/ \E kind \in ReclaimKind : ReclaimStart(kind)
    \/ ReclaimNextBatch \/ RemoveWrite \/ RemoveSync
    \/ Delete \/ DeleteSync \/ ReclaimDone
    \/ CheckpointRename \/ CheckpointSync \/ LogRename \/ LogSync

Open ==
    \/ OpenControl \/ OpenDelete \/ OpenScan
    \/ OpenReseal \/ OpenResealSync \/ OpenRebuild \/ OpenReject \/ OpenRetry

Next == Serve \/ Open \/ Shutdown \/ ProcessCrash \/ PowerLoss

\* Either kind of failure on its own.
NextProcess == Serve \/ Open \/ Shutdown \/ ProcessCrash
NextPower   == Serve \/ Open \/ Shutdown \/ PowerLoss

Spec        == Init /\ [][Next]_vars
ProcessSpec == Init /\ [][NextProcess]_vars
PowerSpec   == Init /\ [][NextPower]_vars

-----------------------------------------------------------------------------
(* Properties *)

Pcs == {"closed", "enumerate", "reseal", "reseal_sync", "failed", "idle",
        "append_write", "append_sync", "create", "create_sync",
        "seal_footer", "seal_sync", "seal_frame", "seal_publish",
        "release_write", "release_sync", "reclaim_batch", "remove_write",
        "remove_sync", "delete", "delete_sync",
        "chk_rename", "chk_sync", "log_rename", "log_sync"}

Job == [op : {"none", "append", "age", "release", "automatic", "explicit", "open", "control",
              "enumeration", "scan", "baseline", "sequence", "index"},
        todo : Seq(Chunk), group : SUBSET Record, queue : SUBSET SegId,
        batch : SUBSET SegId, left : SUBSET SegId, done : SUBSET SegId]

\* Every variable stays in its set: in particular sequences and segment IDs
\* never pass the limits append_group and allocate_segment_id enforce.
TypeOK ==
    /\ chk \in Checkpoint /\ chkOld \subseteq Checkpoint
    /\ log \in Log /\ logOld \subseteq Log
    /\ dir \subseteq SegId /\ durDir \subseteq SegId /\ file \in [SegId -> File]
    /\ records \in [SegId -> SUBSET Record]
    /\ live \subseteq SegId /\ footers \subseteq SegId /\ released \subseteq Record
    /\ active \in SegId \cup {NoSeg}
    /\ highwater \in Highwaters /\ persisted \in Highwaters
    /\ nextId \in 0 .. MaxSegId /\ lastSeq \in Nat
    /\ pc \in Pcs /\ job \in Job
    /\ promised \subseteq Record /\ gone \subseteq Record /\ failures \in 0 .. MaxFailures

DurablyStored(r) ==
    \E i \in dir \cap durDir : r \in RecordsThrough(file[i], file[i].synced)

\* A record whose append was reported and whose release nobody requested is,
\* at every moment, in the synced part of a segment file whose directory
\* entry is durable: no failure at any point of any job can lose it.
AckedAppendDurable == \A r \in promised : DurablyStored(r)

\* Camus's at-least-once boundary: whenever the root is open, every reported
\* append that nobody asked to release is pending, whatever failed before.
PromisedPending == pc = "idle" => promised \subseteq Pending

\* A record whose release was reported is never pending again, whether its
\* release is a frame, a checkpoint bit or a removed segment by now.
ReleasedNeverReturns == pc = "idle" => Pending \cap gone = {}

\* append_group never assigns an identity that was reported to a caller before.
IdentityNeverReused == job.op = "append" => job.group \cap (promised \cup gone) = {}

\* Between jobs the in-memory index is exactly what a reopen would derive from
\* the files: records, footers, release flags, high-waters, next segment ID.
MemoryMatchesFiles ==
    pc = "idle" =>
      /\ live = dir
      /\ records = RecoveredRecords(dir, file)
      /\ footers = {i \in dir : HasFooter(file[i])}
      /\ released = RecoveredReleased(chk, log, {}, dir, file)
      /\ active = RecoveredActive(dir, file)
      /\ highwater = RecoveredHighwater(chk, log, {}, dir, file)
      /\ persisted = RecoveredPersisted(chk, log)
      /\ nextId = RecoveredNextId(chk, log, dir)
      /\ lastSeq = RecoveredLastSeq(chk, log)

\* A segment the checkpoint recorded as active grew before it was sealed.
GrownBaseline ==
    \E i \in dir \cap (chk.ids \ chk.sealed) :
       i \in SealedIds(chk, log) /\ chk.count[i] # Cardinality(RecordsOf(file[i]))

\* This open published the seal of a segment that the checkpoint covers.
ResealedBaseline == job.batch \cap chk.ids # {}

\* A removal that a later segment's removal overtook left no high-water.
OvertakenRemoval ==
    \E g, h \in AppliedFrames(chk, log, "removed") : \E s \in Stream :
       g.id < h.id /\ g.hw[s] = NoSeq /\ h.hw[s] # NoSeq

\* Open rejects the files the system itself wrote, after any failure at any
\* point, in these three situations only.
OpenFailsOnlyKnown ==
    pc = "failed" =>
      \/ job.op = "baseline" /\ GrownBaseline
      \/ job.op = "sequence" /\ (ResealedBaseline \/ OvertakenRemoval)

\* Where a crash may leave an incomplete tail, Segment::scan may repair it: the
\* file is not sealed in the manifest, and its synced part holds an epoch and
\* ends no earlier than the checkpoint's boundary.
TornTailRepairable ==
    \A i \in dir : i \in Unsynced \/ (i = active /\ pc \in {"append_write", "seal_footer"}) =>
      TailRepairAllowed(chk, log, i, file[i], file[i].synced)

\* docs/file-format.md lets a checkpointed active segment gain epochs: sealed
\* afterwards, it is not a reason to reject the root.
GrownSegmentReopens == ~(pc = "failed" /\ job.op = "baseline")

\* docs/architecture.md: recovery completes a footer without its manifest
\* publication, so an open that published a missing seal finds its sequences
\* in order.
InterruptedSealCompletes == ~(pc = "failed" /\ job.op = "sequence" /\ job.batch # {})

\* docs/file-format.md: in the files of an open root, every epoch past the
\* checkpoint baseline advances its stream by one contiguous interval, removed
\* segments supplying the advance of the files that are gone.
EpochsAdvanceStreams == pc = "idle" => SequencesAdvance(chk, log, {}, dir, file)

=============================================================================
