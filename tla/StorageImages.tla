--------------------------- MODULE StorageImages ----------------------------
(***************************************************************************)
(* What the files hold beside what memory says: the conjuncts of           *)
(* RefinementInv about chunks, frames, indexes and the running job, and,   *)
(* for each step, which step of the buffer it is or that it is none.       *)
(***************************************************************************)
EXTENDS StorageLemmas, StorageRefinement

USE Zenon

\* The steps that may be taken at the points of a job.
LEMMA Points ==
    ASSUME [NextPower]_vars, ~PowerLoss, ~UNCHANGED vars
    PROVE  /\ pc = "append_write" => AppendWrite
           /\ pc = "append_sync" => AppendSync
           /\ pc = "create_sync" => CreateSync
           /\ pc = "seal_footer" => SealFooter
           /\ pc = "seal_sync" => SealSync
           /\ pc = "seal_frame" => SealFrame
           /\ pc = "seal_publish" => SealPublish
           /\ pc = "release_write" => ReleaseWrite
           /\ pc = "release_sync" => ReleaseSync
           /\ pc = "remove_write" => RemoveWrite
           /\ pc = "remove_sync" => RemoveSync
           /\ pc = "delete" => Delete
           /\ pc = "delete_sync" => DeleteSync
           /\ pc = "chk_rename" => CheckpointRename
           /\ pc = "chk_sync" => CheckpointSync
           /\ pc = "log_rename" => LogRename
           /\ pc = "log_sync" => LogSync
           /\ pc = "reseal_sync" => OpenResealSync
           /\ pc = "reseal" => OpenReseal \/ OpenRebuild \/ OpenReject
           /\ pc = "enumerate" => OpenDelete \/ OpenScan \/ OpenReject
           /\ pc = "create" => CreateRename \/ SegmentIdExhausted
           /\ pc = "reclaim_batch" => ReclaimNextBatch \/ ReclaimDone
<1> DEFINE Busy == {"append_write", "append_sync", "create_sync", "seal_footer", "seal_sync",
                    "seal_frame", "seal_publish", "release_write", "release_sync", "remove_write",
                    "remove_sync", "delete", "delete_sync", "chk_rename", "chk_sync", "log_rename",
                    "log_sync", "reseal_sync", "reseal", "enumerate", "create", "reclaim_batch"}
<1>1. ASSUME NEW units, NEW first, AppendStart(units, first) PROVE pc = "idle"
  BY <1>1 DEF AppendStart
<1>2. ASSUME NEW units, ReleaseStart(units) \/ ReleaseNothing(units) PROVE pc = "idle"
  BY <1>2 DEF ReleaseStart, ReleaseNothing
<1>3. ASSUME NEW kind, ReclaimStart(kind) PROVE pc = "idle"
  BY <1>3 DEF ReclaimStart
<1>4. ASSUME OpenReject PROVE pc \in {"closed", "enumerate", "reseal"}
  BY <1>4 DEF OpenReject, Rejections, EnumerationDone, SealsPublished
<1>5. ASSUME OpenControl \/ OpenRetry \/ Shutdown \/ SealExpired PROVE pc \notin Busy
  BY <1>5 DEF OpenControl, OpenRetry, Shutdown, SealExpired
<1>6. /\ AppendWrite => pc = "append_write"
      /\ AppendSync => pc = "append_sync"
      /\ CreateRename => pc = "create"
      /\ CreateSync => pc = "create_sync"
      /\ SegmentIdExhausted => pc = "create"
      /\ SealFooter => pc = "seal_footer"
      /\ SealSync => pc = "seal_sync"
      /\ SealFrame => pc = "seal_frame"
      /\ SealPublish => pc = "seal_publish"
      /\ ReleaseWrite => pc = "release_write"
      /\ ReleaseSync => pc = "release_sync"
  BY DEF AppendWrite, AppendSync, CreateRename, CreateSync, SegmentIdExhausted, SealFooter, SealSync,
     SealFrame, SealPublish, ReleaseWrite, ReleaseSync
<1>7. /\ ReclaimNextBatch => pc = "reclaim_batch"
      /\ RemoveWrite => pc = "remove_write"
      /\ RemoveSync => pc = "remove_sync"
      /\ Delete => pc = "delete"
      /\ DeleteSync => pc = "delete_sync"
      /\ ReclaimDone => pc = "reclaim_batch"
      /\ CheckpointRename => pc = "chk_rename"
      /\ CheckpointSync => pc = "chk_sync"
      /\ LogRename => pc = "log_rename"
      /\ LogSync => pc = "log_sync"
      /\ OpenDelete => pc = "enumerate"
      /\ OpenScan => pc = "enumerate"
      /\ OpenReseal => pc = "reseal"
      /\ OpenResealSync => pc = "reseal_sync"
      /\ OpenRebuild => pc = "reseal"
  BY DEF ReclaimNextBatch, RemoveWrite, RemoveSync, Delete, DeleteSync, ReclaimDone, CheckpointRename,
     CheckpointSync, LogRename, LogSync, OpenDelete, OpenScan, EnumerationDone, OpenReseal,
     OpenResealSync, OpenRebuild
<1>8. pc \notin Busy \/ OpenReject \/ AppendWrite \/ AppendSync \/ CreateRename \/ CreateSync
      \/ SegmentIdExhausted \/ SealFooter \/ SealSync \/ SealFrame \/ SealPublish \/ ReleaseWrite
      \/ ReleaseSync \/ ReclaimNextBatch \/ RemoveWrite \/ RemoveSync \/ Delete \/ DeleteSync
      \/ ReclaimDone \/ CheckpointRename \/ CheckpointSync \/ LogRename \/ LogSync \/ OpenDelete
      \/ OpenScan \/ OpenReseal \/ OpenResealSync \/ OpenRebuild
  BY <1>1, <1>2, <1>3, <1>5 DEF NextPower, Serve, Open
<1> QED
  BY <1>4, <1>6, <1>7, <1>8

-----------------------------------------------------------------------------
(* What is flushed, and what the manifest numbers. *)
\* Only the point before a file is synced has chunks of it to lose.
LEMMA FilesFlushedStep ==
    ASSUME TypeOK, JobReady, Settled, Index, FilesFlushed, [NextPower]_vars
    PROVE  FilesFlushed'
<1> DEFINE Late == {"append_write", "append_sync", "seal_sync"}
           Whole(f) == f.synced = Len(f.chunks)
<1>0. \A i \in dir \cup durDir : i \in SegId /\ (Whole(file[i]) \/ (i = active /\ pc \in Late))
  BY Types DEF FilesFlushed
<1>1. CASE AppendWrite
  <2>1. /\ active \in SegId /\ AppendChunk(active, Head(job.todo)) /\ Head(job.todo) \in Chunk
        /\ UNCHANGED <<dir, durDir, active>> /\ pc' \in Late
    BY <1>1, TodoTail DEF AppendWrite, memVars, JobReady, WritePcs, TypeOK
  <2>2. \A j \in SegId \ {active} : file'[j] = file[j]
    BY <2>1, AppendChunkFacts
  <2> QED
    BY <1>0, <2>1, <2>2 DEF FilesFlushed
<1>2. CASE SealFooter
  <2>1. /\ active \in SegId /\ AppendChunk(active, Footer) /\ Footer \in Chunk
        /\ UNCHANGED <<dir, durDir, active>> /\ pc' \in Late
    BY <1>2 DEF SealFooter, Goto, memVars, JobReady, SealPcs, TypeOK, Footer, Chunk
  <2>2. \A j \in SegId \ {active} : file'[j] = file[j]
    BY <2>1, AppendChunkFacts
  <2> QED
    BY <1>0, <2>1, <2>2 DEF FilesFlushed
<1>3. CASE AppendSync \/ SealSync
  <2>1. active \in SegId /\ SyncFile(active) /\ UNCHANGED <<dir, durDir, active>>
    BY <1>3 DEF AppendSync, SealSync, JobReady, WritePcs, SealPcs, TypeOK
  <2>2. /\ file'[active].chunks = file[active].chunks
        /\ file'[active].synced = Len(file[active].chunks)
        /\ \A j \in SegId \ {active} : file'[j] = file[j]
    BY <2>1, SyncFileFacts
  <2> QED
    BY <1>0, <2>1, <2>2 DEF FilesFlushed
<1>4. CASE CreateRename
  <2>1. /\ file' = [file EXCEPT ![nextId] = [chunks |-> job.todo, synced |-> Len(job.todo)]]
        /\ nextId \in SegId /\ dir' = dir \cup {nextId} /\ UNCHANGED durDir /\ pc = "create"
    BY <1>4, CreateRenameType DEF CreateRename
  <2>2. Whole(file'[nextId]) /\ \A j \in SegId \ {nextId} : file'[j] = file[j]
    BY <2>1, Types
  <2>3. \A i \in dir \cup durDir : Whole(file[i])
    BY <1>0, <2>1
  <2>4. \A i \in dir' \cup durDir' : Whole(file'[i])
    BY <1>0, <2>1, <2>2, <2>3
  <2> QED
    BY <2>4 DEF FilesFlushed
<1>5. CASE CreateSync
  <2>1. UNCHANGED <<file, dir>> /\ durDir' = dir /\ pc = "create_sync"
    BY <1>5 DEF CreateSync, SyncSegments
  <2> QED
    BY <1>0, <2>1 DEF FilesFlushed
<1>6. CASE PowerLoss
  <2>1. dir' = durDir'
    BY <1>6, PowerLossFacts
  <2> QED
    BY <1>6, <2>1, PowerLossFiles DEF FilesFlushed
<1>7. CASE UNCHANGED vars
  BY <1>7 DEF vars, diskVars, memVars, FilesFlushed
<1>8. CASE ~(AppendWrite \/ AppendSync \/ CreateRename \/ CreateSync \/ SealFooter \/ SealSync
             \/ PowerLoss \/ UNCHANGED vars)
  <2>1. UNCHANGED file /\ dir' \cup durDir' \subseteq dir \cup durDir
    BY <1>8, FilesKept
  <2>2. pc \notin Late
    BY <1>8, Points
  <2> QED
    BY <1>0, <2>1, <2>2 DEF FilesFlushed
<1> QED
  BY <1>1, <1>2, <1>3, <1>4, <1>5, <1>6, <1>7, <1>8

\* Only the points between the frames of a group and its sync have frames to
\* lose.
LEMMA LogFlushedStep ==
    ASSUME TypeOK, JobReady, Settled, LogFlushed, [NextPower]_vars
    PROVE  LogFlushed'
<1> DEFINE Late == {"seal_publish", "release_write", "release_sync", "remove_write", "remove_sync"}
<1>1. CASE SealFrame \/ ReleaseWrite \/ RemoveWrite
  <2>1. pc' \in Late
    BY <1>1 DEF SealFrame, Goto, ReleaseWrite, RemoveWrite
  <2> QED
    BY <2>1 DEF LogFlushed
<1>2. CASE OpenReseal
  <2>1. pc = "reseal" /\ pc' = "reseal_sync"
    BY <1>2 DEF OpenReseal
  <2>2. log.synced = Len(log.frames)
    BY <2>1 DEF LogFlushed
  <2>3. PICK i \in job.left : AppendFrame(SealedFrame(i))
    BY <1>2 DEF OpenReseal
  <2>4. SealedFrame(i) \in Frame /\ chk \in Checkpoint
    BY FrameTypes, Types
  <2>5. /\ Len(log.frames) \in Nat /\ log'.synced = log.synced
        /\ DOMAIN log'.frames = 1 .. Len(log.frames) + 1
        /\ log'.frames[Len(log.frames) + 1] = [SealedFrame(i) EXCEPT !.seq = lastSeq + 1]
    BY <2>3, <2>4, FrameAppended
  <2>6. log'.frames[Len(log.frames) + 1].kind = "sealed"
    BY <2>5 DEF SealedFrame
  <2>7. ASSUME NEW k \in DOMAIN log'.frames, k > log'.synced PROVE log'.frames[k].kind = "sealed"
    <3>1. k = Len(log.frames) + 1
      BY <2>2, <2>5, <2>7, SMT
    <3> QED
      BY <2>6, <3>1
  <2> QED
    BY <2>1, <2>7 DEF LogFlushed
<1>3. CASE SealPublish \/ ReleaseSync \/ RemoveSync \/ OpenResealSync
  <2>1. SyncLog
    BY <1>3 DEF SealPublish, ReleaseSync, RemoveSync, OpenResealSync
  <2>2. log'.frames = log.frames /\ log'.synced = Len(log.frames)
    BY <2>1, Types DEF SyncLog, Log
  <2> QED
    BY <2>2 DEF LogFlushed
<1>4. CASE LogRename
  <2>1. log'.frames = << >> /\ log'.synced = 0
    BY <1>4 DEF LogRename
  <2> QED
    BY <2>1 DEF LogFlushed
<1>5. CASE PowerLoss
  BY <1>5, PowerLossLog DEF LogFlushed
<1>6. CASE UNCHANGED vars
  BY <1>6 DEF vars, diskVars, LogFlushed
<1>7. CASE ~(FrameWrite \/ SealPublish \/ ReleaseSync \/ RemoveSync \/ OpenResealSync \/ LogRename
             \/ ReleaseWrite \/ PowerLoss \/ UNCHANGED vars)
  <2>1. ~SealFrame /\ ~RemoveWrite
    BY <1>7 DEF FrameWrite
  <2>2. pc \notin Late /\ pc # "reseal_sync"
    BY <1>7, <2>1, Points
  <2>3. UNCHANGED log \/ SyncLog
    BY <1>7, FramesKept
  <2>4. log.synced = Len(log.frames)
    BY <2>2 DEF LogFlushed
  <2>5. log'.synced = Len(log'.frames)
    BY <2>3, <2>4, Types DEF SyncLog, Log
  <2> QED
    BY <2>5 DEF LogFlushed
<1> QED
  BY <1>1, <1>2, <1>3, <1>4, <1>5, <1>6, <1>7 DEF FrameWrite

\* The last sequence of an accepted manifest is no smaller than the
\* checkpoint's.
LEMMA LastSeqAboveCheckpoint ==
    ASSUME NEW c \in Checkpoint, NEW l \in Log, ControlAccepted(c, l)
    PROVE  c.last <= RecoveredLastSeq(c, l)
<1>1. /\ c.last \in Nat /\ l.frames \in Seq(Frame) /\ l.base \in Nat /\ Len(l.frames) \in Nat
      /\ DOMAIN l.frames = 1 .. Len(l.frames)
  BY SMT DEF Checkpoint, Log
<1>2. CASE Applied(c, l) = {}
  BY <1>1, <1>2, SMT DEF RecoveredLastSeq
<1>3. CASE Applied(c, l) # {}
  <2>1. PICK k \in 1 .. Len(l.frames) : l.frames[k].seq > c.last
    BY <1>1, <1>3 DEF Applied
  <2>2. \A j \in 1 .. Len(l.frames) : l.frames[j].seq = l.base + j - 1
    BY <1>1 DEF ControlAccepted
  <2>3. l.frames[k].seq = l.base + k - 1 /\ l.frames[Len(l.frames)].seq = l.base + Len(l.frames) - 1
    BY <1>1, <2>1, <2>2, SMT
  <2>4. RecoveredLastSeq(c, l) = l.frames[Len(l.frames)].seq
    BY <1>3 DEF RecoveredLastSeq
  <2> QED
    BY <1>1, <2>1, <2>3, <2>4, SMT
<1> QED
  BY <1>2, <1>3

\* Frames are numbered past the checkpoint, compaction writes what memory
\* holds, and deleted entries stay removed for the manifest.
LEMMA ControlExactStep ==
    ASSUME FiniteLaws, TypeOK, JobReady, Settled, Control, ControlExact, RemovalJob, [NextPower]_vars
    PROVE  ControlExact'
<1> DEFINE Off == {"closed", "failed"}
           Compacting == {"chk_sync", "log_rename", "log_sync"}
<1>0. /\ chk.last \in Nat /\ lastSeq \in Nat
      /\ pc \notin Off => chk.last <= lastSeq
      /\ durDir \ dir \subseteq RemovedIds(chk, log)
  BY DEF ControlExact, TypeOK, Checkpoint
<1>1. ASSUME UNCHANGED <<chk, lastSeq>>, pc \notin Off \/ pc' \in Off, pc' \notin Compacting,
             durDir' \ dir' \subseteq RemovedIds(chk', log')
      PROVE  ControlExact'
  BY <1>0, <1>1 DEF ControlExact
<1>2. ASSUME UNCHANGED <<chk, lastSeq, dir, durDir>>, UNCHANGED log \/ SyncLog,
             pc \notin Off \/ pc' \in Off, pc' \notin Compacting
      PROVE  ControlExact'
  <2>1. RemovedIds(chk', log') = RemovedIds(chk, log)
    BY <1>2, LogSynced
  <2> QED
    BY <1>0, <1>1, <1>2, <2>1
<1>3. ASSUME UNCHANGED <<chk, lastSeq>>, durDir' \subseteq dir', pc \notin Off \/ pc' \in Off,
             pc' \notin Compacting
      PROVE  ControlExact'
  BY <1>1, <1>3
<1>4. CASE Quiet
  <2>1. CASE UNCHANGED vars
    BY <2>1 DEF ControlExact, CheckpointFromState, vars, diskVars, memVars
  <2>2. CASE ~UNCHANGED vars
    <3>1. /\ UNCHANGED <<chk, log, lastSeq, dir, durDir>>
          /\ UNCHANGED <<pc, job, histVars>> \/ pc \in QuietPcs
          /\ pc' # pc => pc' \notin Compacting
      BY <1>4, QuietStep DEF diskVars, memVars
    <3>2. pc \in QuietPcs
      BY <1>4, <2>2, <3>1, QuietStep DEF vars
    <3>3. pc = "failed" => pc' = "closed"
      BY <1>4, <2>2, Zenon DEF Quiet, AppendStart, ReleaseStart, ReleaseNothing, ReclaimStart,
         SegmentIdExhausted, SealExpired, ReclaimNextBatch, ReclaimDone, OpenRetry
    <3> QED
      BY <1>2, <3>1, <3>2, <3>3 DEF QuietPcs
  <2> QED
    BY <2>1, <2>2
<1>5. CASE OpenControl
  <2>1. /\ UNCHANGED <<chk, log, dir, durDir>> /\ lastSeq' = RecoveredLastSeq(chk, log)
        /\ pc' = "enumerate" /\ ControlAccepted(chk, log)
    BY <1>5 DEF OpenControl, diskVars
  <2>2. chk.last <= lastSeq'
    BY <2>1, LastSeqAboveCheckpoint, Types
  <2> QED
    BY <1>0, <2>1, <2>2 DEF ControlExact
<1>6. CASE OpenDelete
  <2>1. PICK i \in dir \cap RemovedIds(chk, log) : dir' = dir \ {i}
    BY <1>6 DEF OpenDelete
  <2>2. UNCHANGED <<chk, log, durDir, lastSeq, pc>> /\ pc = "enumerate"
    BY <1>6 DEF OpenDelete, memVars
  <2> QED
    BY <1>0, <1>1, <2>1, <2>2
<1>7. CASE OpenScan
  <2>1. /\ UNCHANGED <<chk, log, dir, lastSeq>> /\ durDir' \in {dir, durDir} /\ pc' = "reseal"
        /\ pc = "enumerate"
    BY <1>7 DEF OpenScan, memVars, EnumerationDone
  <2> QED
    BY <1>0, <1>1, <2>1
<1>8. CASE OpenReject
  <2>1. UNCHANGED <<chk, log, dir>> /\ durDir' \in {dir, durDir} /\ pc' = "failed"
    BY <1>8 DEF OpenReject
  <2> QED
    BY <1>0, <2>1 DEF ControlExact
<1>9. CASE Shutdown
  <2>1. UNCHANGED <<chk, log, dir, durDir>> /\ pc' = "closed"
    BY <1>9 DEF Shutdown, diskVars
  <2> QED
    BY <1>0, <2>1 DEF ControlExact
<1>10. CASE PowerLoss
  <2>1. dir' = durDir'
    BY <1>10, PowerLossFacts
  <2>2. pc' = "closed"
    BY <1>10 DEF PowerLoss
  <2> QED
    BY <2>1, <2>2 DEF ControlExact
<1>11. CASE FrameWrite
  <2>1. UNCHANGED <<chk, dir, durDir>> /\ pc' \notin Compacting
    BY <1>11 DEF FrameWrite, SealFrame, Goto, RemoveWrite, OpenReseal, ReleaseWrite
  <2>2. pc \in {"seal_frame", "remove_write", "reseal", "release_write"}
    BY <1>11 DEF FrameWrite, SealFrame, RemoveWrite, OpenReseal, ReleaseWrite
  <2>3. lastSeq' = lastSeq + 1
    BY <1>11, FrameWriteIsAppend DEF AppendFrame
  <2>4. durDir = dir
    BY <2>2 DEF Settled, EntriesSettled
  <2> QED
    BY <1>0, <2>1, <2>2, <2>3, <2>4, SMT DEF ControlExact
<1>12. CASE ReleaseWrite /\ UNCHANGED <<log, lastSeq>>
  <2>1. UNCHANGED <<chk, log, lastSeq, dir, durDir>> /\ pc = "release_write" /\ pc' \notin Compacting
    BY <1>12 DEF ReleaseWrite
  <2> QED
    BY <1>2, <2>1
<1>13. CASE OpenResealSync \/ OpenRebuild
  BY <1>2, <1>13 DEF OpenResealSync, OpenRebuild, diskVars, Goto
<1>14. CASE AppendWrite \/ AppendSync \/ SealFooter \/ SealSync
  BY <1>2, <1>14 DEF AppendWrite, AppendSync, SealFooter, SealSync, Goto, Finish, memVars
<1>15. CASE SealPublish \/ ReleaseSync \/ RemoveSync
  <2>1. /\ UNCHANGED <<chk, lastSeq, dir, durDir>> /\ SyncLog
        /\ pc \in {"seal_publish", "release_sync", "remove_sync"}
    BY <1>15 DEF SealPublish, ReleaseSync, RemoveSync
  <2>2. pc' \notin Compacting
    BY <1>15 DEF SealPublish, ReleaseSync, RemoveSync, AfterSeal, MaybeCompact, Finish, Goto,
       StartBatches
  <2> QED
    BY <1>2, <2>1, <2>2
<1>16. CASE CreateRename
  <2>1. UNCHANGED <<chk, log, lastSeq, durDir>> /\ dir \subseteq dir' /\ pc = "create"
        /\ pc' = "create_sync"
    BY <1>16 DEF CreateRename, Goto
  <2> QED
    BY <1>0, <1>1, <2>1
<1>17. CASE CreateSync \/ DeleteSync
  <2>1. UNCHANGED <<chk, lastSeq, dir>> /\ durDir' = dir
        /\ pc \in {"create_sync", "delete_sync"} /\ pc' \in {"idle", "reclaim_batch"}
    BY <1>17 DEF CreateSync, DeleteSync, SyncSegments, Finish, Goto, memVars
  <2> QED
    BY <1>3, <2>1
<1>18. CASE Delete
  <2>1. PICK i \in job.left : dir' = dir \ {i}
    BY <1>18 DEF Delete
  <2>2. UNCHANGED <<chk, log, durDir, lastSeq>> /\ pc = "delete" /\ pc' \in {"delete", "delete_sync"}
    BY <1>18 DEF Delete
  <2>3. i \in RemovedIds(chk, log)
    BY <2>1, <2>2 DEF RemovalJob
  <2> QED
    BY <1>0, <1>1, <2>1, <2>2, <2>3
<1>19. CASE CheckpointRename
  <2>1. /\ UNCHANGED <<log, dir, durDir, memVars>> /\ chk' = CheckpointFromState
        /\ pc = "chk_rename" /\ pc' = "chk_sync"
    BY <1>19 DEF CheckpointRename, Goto
  <2>2. chk' = CheckpointFromState'
    BY <2>1 DEF CheckpointFromState, memVars
  <2>3. chk'.last = lastSeq /\ lastSeq' = lastSeq
    BY <2>1 DEF CheckpointFromState, memVars
  <2>4. durDir = dir
    BY <2>1 DEF Settled, EntriesSettled
  <2> QED
    BY <1>0, <2>1, <2>2, <2>3, <2>4, SMT DEF ControlExact
<1>20. CASE CheckpointSync \/ LogRename
  <2>1. UNCHANGED <<chk, dir, durDir, memVars>> /\ pc \in {"chk_sync", "log_rename"}
    BY <1>20 DEF CheckpointSync, LogRename
  <2>2. chk = CheckpointFromState /\ CheckpointFromState' = CheckpointFromState /\ lastSeq' = lastSeq
    BY <2>1 DEF ControlExact, CheckpointFromState, memVars
  <2>3. durDir = dir
    BY <2>1 DEF Settled, EntriesSettled
  <2> QED
    BY <1>0, <2>1, <2>2, <2>3 DEF ControlExact
<1>21. CASE LogSync
  <2>1. UNCHANGED <<chk, log, lastSeq, dir, durDir>> /\ pc = "log_sync" /\ pc' = "idle"
    BY <1>21 DEF LogSync, Finish
  <2> QED
    BY <1>2, <2>1
<1>22. CASE Down
  BY <1>5, <1>6, <1>7, <1>8, <1>9, <1>10, <1>11, <1>13, <1>22 DEF Down, FrameWrite
<1> QED
  BY <1>4, <1>11, <1>12, <1>13, <1>14, <1>15, <1>16, <1>17, <1>18, <1>19, <1>20, <1>21, <1>22,
     StepKinds DEF FrameWrite

\* What index_durable_records adds is in the file, and in no other.
LEMMA GroupIndexed ==
    ASSUME FiniteLaws, TypeOK, Up, Index, IndexExact, NEW a \in SegId, IndexDurableRecords(a),
           live' = live \cup {a}, \A r \in job.group : r[2] > highwater[r[1]],
           \A i \in live' : RecordsOf(file[i]) \subseteq RecordsOf(file'[i]),
           a \notin live => records[a] = {},
           job.group \subseteq RecordsOf(file'[a])
    PROVE  IndexExact'
<1>1. /\ \A j \in SegId \ {a} : records'[j] = records[j]
      /\ records'[a] = records[a] \cup job.group
  BY HighwaterRaised
<1>2. /\ \A i \in live : records[i] \subseteq RecordsOf(file[i])
      /\ \A i, j \in live : i # j => records[i] \cap records[j] = {}
      /\ \A i \in SegId \ live : records[i] = {}
      /\ live \subseteq SegId
  BY Types DEF IndexExact
<1>3. \A i \in SegId : records[i] \cap job.group = {}
  <2>1. \A i \in SegId : UpTo(records[i], highwater) /\ records[i] \in SUBSET Record
    BY Types DEF Index
  <2> QED
    BY <2>1, AboveDisjoint, Types, ZenonT(30)
<1>4. \A i \in live' : records'[i] \subseteq RecordsOf(file'[i])
  BY <1>1, <1>2
<1>5. \A i, j \in live' : i # j => records'[i] \cap records'[j] = {}
  BY <1>1, <1>2, <1>3, ZenonT(30)
<1>6. \A i \in SegId \ live' : records'[i] = {}
  BY <1>1, <1>2
<1> QED
  BY <1>4, <1>5, <1>6 DEF IndexExact

\* The index holds what the files hold, once: append_group indexes what it synced,
\* rebuild_indexes what it scanned.
LEMMA IndexExactStep ==
    ASSUME FiniteLaws, TypeOK, JobReady, Settled, Index, AppendJob, IndexExact, [NextPower]_vars
    PROVE  IndexExact'
<1>0. Up => /\ \A i \in live : records[i] \subseteq RecordsOf(file[i])
            /\ \A i, j \in live : i # j => records[i] \cap records[j] = {}
            /\ \A i \in SegId \ live : records[i] = {}
            /\ live \subseteq SegId
  BY Types DEF IndexExact
<1>1. ASSUME Up, UNCHANGED <<live, records>>,
             \A i \in live : RecordsOf(file[i]) \subseteq RecordsOf(file'[i])
      PROVE  IndexExact'
  BY <1>0, <1>1 DEF IndexExact
<1>2. ASSUME UNCHANGED <<live, records, file>>, Up \/ ~Up' PROVE IndexExact'
  BY <1>1, <1>2 DEF IndexExact
<1>3. CASE Quiet
  <2>1. UNCHANGED <<live, records, file>> /\ (Up' <=> Up)
    BY <1>3, QuietStep DEF diskVars, memVars
  <2> QED
    BY <1>2, <2>1
<1>4. CASE Down
  BY <1>4, DownStep DEF IndexExact
<1>5. CASE OpenRebuild
  <2>1. /\ records' = RecoveredRecords(dir, file) /\ live' = dir /\ UNCHANGED file
        /\ IdentitiesUnique(dir, file)
    BY <1>5 DEF OpenRebuild, diskVars, IndexesAccepted
  <2>2. dir \subseteq SegId
    BY Types
  <2>3. \A i \in dir : records'[i] = RecordsOf(file[i])
    BY <2>1, <2>2 DEF RecoveredRecords
  <2>4. \A i \in SegId \ dir : records'[i] = {}
    BY <2>1 DEF RecoveredRecords
  <2> QED
    BY <2>1, <2>3, <2>4 DEF IndexExact, IdentitiesUnique
<1>6. CASE AppendWrite
  <2>1. /\ active \in SegId /\ AppendChunk(active, Head(job.todo)) /\ Head(job.todo) \in Chunk
        /\ UNCHANGED <<live, records>> /\ Up
    BY <1>6, TodoTail DEF AppendWrite, memVars, JobReady, WritePcs, TypeOK, Up, OpenPcs
  <2>2. \A i \in SegId : RecordsOf(file[i]) \subseteq RecordsOf(file'[i])
    BY <2>1, ChunkWritten
  <2> QED
    BY <1>0, <1>1, <2>1, <2>2
<1>7. CASE SealFooter
  <2>1. /\ active \in SegId /\ AppendChunk(active, Footer) /\ Footer \in Chunk
        /\ UNCHANGED <<live, records>> /\ Up
    BY <1>7 DEF SealFooter, memVars, JobReady, SealPcs, TypeOK, Up, OpenPcs, Footer, Chunk
  <2>2. \A i \in SegId : RecordsOf(file[i]) \subseteq RecordsOf(file'[i])
    BY <2>1, ChunkWritten
  <2> QED
    BY <1>0, <1>1, <2>1, <2>2
<1>8. CASE SealSync
  <2>1. active \in SegId /\ SyncFile(active) /\ UNCHANGED <<live, records>> /\ Up
    BY <1>8 DEF SealSync, JobReady, SealPcs, TypeOK, Up, OpenPcs
  <2>2. \A i \in SegId : RecordsOf(file[i]) \subseteq RecordsOf(file'[i])
    BY <2>1, FileSynced
  <2> QED
    BY <1>0, <1>1, <2>1, <2>2
<1>9. CASE AppendSync
  <2>1. /\ active \in SegId /\ SyncFile(active) /\ UNCHANGED live /\ pc = "append_sync" /\ Up
        /\ IndexDurableRecords(active) /\ active # NoSeg
    BY <1>9 DEF AppendSync, JobReady, WritePcs, TypeOK, Up, OpenPcs
  <2>2. \A i \in SegId : RecordsOf(file'[i]) = RecordsOf(file[i])
    BY <2>1, FileSynced
  <2>3. active \in live
    BY <2>1 DEF Index
  <2>4. job.todo = << >> /\ job.group \subseteq RecordsOf(file[active]) \cup TodoRecords /\ job.op = "append"
        /\ \A r \in job.group : r[2] > highwater[r[1]]
    BY <2>1 DEF AppendJob, WritePcs
  <2>5. job.group \subseteq RecordsOf(file'[active])
    BY <2>1, <2>2, <2>4, SMT DEF TodoRecords
  <2> QED
    BY <2>1, <2>2, <2>3, <2>4, <2>5, GroupIndexed, Types
<1>10. CASE CreateRename
  <2>1. /\ file' = [file EXCEPT ![nextId] = [chunks |-> job.todo, synced |-> Len(job.todo)]]
        /\ UNCHANGED <<live, records>> /\ pc = "create" /\ Up
    BY <1>10 DEF CreateRename, Up, OpenPcs
  <2>2. live = dir /\ \A i \in dir : i < nextId
    BY <2>1 DEF Index
  <2>3. \A i \in live : file'[i] = file[i]
    BY <2>1, <2>2, Types, SMT
  <2> QED
    BY <1>1, <2>1, <2>3
<1>11. CASE CreateSync
  <2> DEFINE a == nextId - 1
  <2>1. /\ pc = "create_sync" /\ a \in SegId /\ UNCHANGED file /\ Up /\ IndexDurableRecords(a)
        /\ live' = live \cup {a}
    BY <1>11, CreateSyncType DEF CreateSync, JobReady, Up, OpenPcs
  <2>2. job.op = "append" /\ RecordsOf(file[a]) = job.group
        /\ \A r \in job.group : r[2] > highwater[r[1]]
    BY <2>1 DEF AppendJob, CreatePcs
  <2>3. a \notin live => records[a] = {}
    BY <1>0, <2>1
  <2> HIDE DEF a
  <2> QED
    BY <2>1, <2>2, <2>3, GroupIndexed
<1>12. CASE SealFrame \/ SealPublish \/ ReleaseWrite \/ ReleaseSync \/ RemoveWrite \/ RemoveSync
            \/ DeleteSync \/ CheckpointRename \/ CheckpointSync \/ LogRename \/ LogSync
  <2>1. UNCHANGED <<live, records, file>> /\ Up
    BY <1>12 DEF SealFrame, SealPublish, ReleaseWrite, ReleaseSync, RemoveWrite, RemoveSync, DeleteSync,
       CheckpointRename, CheckpointSync, LogRename, LogSync, memVars, Up, OpenPcs
  <2> QED
    BY <1>2, <2>1
<1>13. CASE Delete
  <2>1. PICK i \in job.left : live' = live \ {i} /\ records' = [records EXCEPT ![i] = {}]
    BY <1>13 DEF Delete
  <2>2. UNCHANGED file /\ Up /\ i \in SegId
    BY <1>13, Types DEF Delete, Up, OpenPcs
  <2>3. records'[i] = {} /\ \A j \in SegId \ {i} : records'[j] = records[j]
    BY <2>1, <2>2, Types
  <2> QED
    BY <1>0, <2>1, <2>2, <2>3 DEF IndexExact
<1> QED
  BY <1>3, <1>4, <1>5, <1>6, <1>7, <1>8, <1>9, <1>10, <1>11, <1>12, <1>13, StepKinds

\* A written frame is in force, and the ones before it stay so.
LEMMA FrameApplied ==
    ASSUME TypeOK, NEW g \in Frame, AppendFrame(g), NEW c \in Checkpoint
    PROVE  /\ ReleasedBy(c, log) \subseteq ReleasedBy(c, log')
           /\ RemovedIds(c, log) \subseteq RemovedIds(c, log')
           /\ c.last <= lastSeq => /\ g.kind = "release" => g.recs \subseteq ReleasedBy(c, log')
                                   /\ g.kind = "removed" => g.id \in RemovedIds(c, log')
<1> DEFINE n == Len(log.frames) + 1
<1>1. /\ \A k \in Applied(c, log) : k \in Applied(c, log') /\ log'.frames[k] = log.frames[k]
      /\ c.last <= lastSeq => n \in Applied(c, log')
      /\ log'.frames[n] = [g EXCEPT !.seq = lastSeq + 1]
  BY FrameAppended
<1>2. log'.frames[n].kind = g.kind /\ log'.frames[n].recs = g.recs /\ log'.frames[n].id = g.id
  BY <1>1 DEF Frame
<1> HIDE DEF n
<1>3. ASSUME NEW r \in ReleasedBy(c, log) PROVE r \in ReleasedBy(c, log')
  BY <1>1, <1>3, AppliedAt, SMT
<1>4. ASSUME NEW i \in RemovedIds(c, log) PROVE i \in RemovedIds(c, log')
  BY <1>1, <1>4, AppliedAt, SMT
<1>5. ASSUME c.last <= lastSeq, g.kind = "release", NEW r \in g.recs PROVE r \in ReleasedBy(c, log')
  <2>1. \E k \in Applied(c, log') : log'.frames[k].kind = "release" /\ r \in log'.frames[k].recs
    BY <1>1, <1>2, <1>5
  <2> QED
    BY <2>1, AppliedAt
<1>6. ASSUME c.last <= lastSeq, g.kind = "removed" PROVE g.id \in RemovedIds(c, log')
  <2>1. \E k \in Applied(c, log') : log'.frames[k].kind = "removed" /\ log'.frames[k].id = g.id
    BY <1>1, <1>2, <1>6
  <2> QED
    BY <2>1, AppliedAt
<1> QED
  BY <1>3, <1>4, <1>5, <1>6

\* release_group schedules every pending record that some unit names, at the
\* first unit that names it.
LEMMA EverythingScheduled ==
    ASSUME FiniteLaws, NEW units \in Groups(ReleaseUnits)
    PROVE  (UNION {units[k] : k \in DOMAIN units}) \cap Pending
              \subseteq UNION {Scheduled(units, k) : k \in DOMAIN units}
<1> SUFFICES ASSUME NEW r \in Pending, NEW m \in DOMAIN units, r \in units[m]
             PROVE  \E k \in DOMAIN units : r \in Scheduled(units, k)
  OBVIOUS
<1>1. PICK n \in 1 .. MaxGroup : units \in [1 .. n -> ReleaseUnits]
  BY DEF Groups
<1>2. n \in Nat /\ DOMAIN units = 1 .. n
  BY <1>1, SizesAssumption, SMT
<1> DEFINE T == {k \in 1 .. n : r \in units[k]}
<1>3. T \in SUBSET Nat /\ T # {}
  BY <1>2, SMT
<1>4. PICK t \in T : \A u \in T : t <= u
  <2> HIDE DEF T
  <2> QED
    BY <1>3, LeastMember
<1>5. \A j \in 1 .. t - 1 : r \notin units[j]
  <2> SUFFICES ASSUME NEW j \in 1 .. t - 1, r \in units[j] PROVE FALSE
    OBVIOUS
  <2>1. j \in T /\ j \in Nat /\ t \in Nat /\ j < t
    BY <1>2, SMT
  <2> QED
    BY <1>4, <2>1, SMT
<1>6. r \in Scheduled(units, t) /\ t \in DOMAIN units
  BY <1>2, <1>5 DEF Scheduled
<1> QED
  BY <1>6

\* A group has at least one record.
LEMMA GroupsHaveRecords ==
    ASSUME NEW units \in Groups(Unit), NEW first \in [DOMAIN units -> Seqno]
    PROVE  UNION {UnitRecords(units[k], first[k]) : k \in DOMAIN units} # {}
<1>1. PICK n \in 1 .. MaxGroup : units \in [1 .. n -> Unit]
  BY DEF Groups
<1>2. 1 \in DOMAIN units /\ units[1].size \in 1 .. MaxUnit /\ first[1] \in Seqno
  BY <1>1, SizesAssumption, SMT DEF Unit
<1>3. <<units[1].stream, first[1]>> \in UnitRecords(units[1], first[1])
  <2>1. first[1] \in first[1] .. first[1] + units[1].size - 1
    BY <1>2, SizesAssumption, BoundsAssumption, SMT DEF Seqno
  <2> QED
    BY <2>1 DEF UnitRecords
<1> QED
  BY <1>2, <1>3

\* What the running append_group or release_group still has to do, at each of its steps.
LEMMA GroupJobStep ==
    ASSUME FiniteLaws, TypeOK, JobReady, AppendJob, ReleaseJob, ControlExact, GroupJob, [NextPower]_vars
    PROVE  GroupJob'
<1> DEFINE Rel == {"release_write", "release_sync"}
           Tail4 == {"chk_rename", "chk_sync", "log_rename", "log_sync"}
<1>0. job \in Job
  BY Types
<1>1. ASSUME job'.op # "release", pc' \notin Rel,
             job'.op = "append" => job.op = "append" /\ job'.group = job.group
      PROVE  GroupJob'
  BY <1>1 DEF GroupJob
<1>2. ASSUME job' = job, pc \notin Rel \cup Tail4, pc' \notin Rel PROVE GroupJob'
  <2>1. job.op # "release"
    BY <1>2 DEF GroupJob
  <2> QED
    BY <1>1, <1>2, <2>1
<1>3. ASSUME job' = job, pc \in Tail4, pc' \in Tail4, UNCHANGED memVars PROVE GroupJob'
  <2>1. Pending' = Pending
    BY <1>3 DEF memVars, Pending, Stored
  <2> QED
    BY <1>3, <2>1 DEF GroupJob
<1>4. ASSUME NEW units \in Groups(Unit), NEW first \in [DOMAIN units -> Seqno], AppendStart(units, first)
      PROVE  GroupJob'
  <2> DEFINE epochs == [k \in DOMAIN units |-> UnitRecords(units[k], first[k])]
             group  == UNION {epochs[k] : k \in DOMAIN epochs}
  <2>1. job' = [NoJob EXCEPT !.op = "append", !.todo = epochs, !.group = group]
    BY <1>4, Zenon DEF AppendStart
  <2>2. pc' \in {"create", "append_write", "seal_footer"}
    BY <1>4 DEF AppendStart, AppendTargets
  <2>3. group # {}
    BY GroupsHaveRecords, SMT
  <2>4. job'.op = "append" /\ job'.group = group
    BY <2>1 DEF NoJob
  <2> HIDE DEF group
  <2> QED
    BY <2>2, <2>3, <2>4 DEF GroupJob
<1>5. ASSUME NEW units \in Groups(ReleaseUnits), ReleaseStart(units) PROVE GroupJob'
  <2> DEFINE group == UNION {units[k] : k \in DOMAIN units}
             todo  == [k \in DOMAIN units |-> Scheduled(units, k)]
  <2>1. /\ job' = [NoJob EXCEPT !.op = "release", !.group = group, !.todo = todo]
        /\ UNCHANGED memVars /\ pc' = "release_write"
    BY <1>5 DEF ReleaseStart
  <2>2. job'.group = group /\ job'.todo = todo /\ job'.op = "release"
    BY <2>1 DEF NoJob
  <2>3. Pending' = Pending
    BY <2>1 DEF memVars, Pending, Stored
  <2>4. TodoRecords' = UNION {Scheduled(units, k) : k \in DOMAIN units}
    BY <2>2, ZenonT(30) DEF TodoRecords
  <2>5. job'.group \cap Pending' \subseteq TodoRecords'
    BY <2>2, <2>3, <2>4, EverythingScheduled
  <2> QED
    BY <2>1, <2>2, <2>5 DEF GroupJob
<1>6. ASSUME NEW units, ReleaseNothing(units) PROVE GroupJob'
  BY <1>2, <1>6 DEF ReleaseNothing
<1>7. CASE ReleaseWrite
  <2>1. /\ job' = [job EXCEPT !.todo = Tail(@)] /\ job.todo # << >> /\ pc = "release_write"
        /\ pc' = IF Len(job.todo) = 1 THEN "release_sync" ELSE "release_write"
        /\ UNCHANGED <<chk, live, records, released>>
    BY <1>7 DEF ReleaseWrite, JobReady
  <2>2. /\ job'.todo = Tail(job.todo) /\ job'.group = job.group /\ job'.op = job.op
        /\ Len(job.todo) = 1 => Tail(job.todo) = << >>
        /\ Head(job.todo) \in SUBSET Record
    BY <2>1, TodoTail DEF Chunk
  <2>3. TodoRecords = Head(job.todo) \cup TodoRecords'
    BY <2>1, TodoSplit
  <2>4. Pending' = Pending
    BY <2>1 DEF Pending, Stored
  <2>5. ReleasedBy(chk, log) \cup Head(job.todo) \subseteq ReleasedBy(chk', log')
    <3>1. CASE Head(job.todo) = {}
      BY <1>7, <2>1, <3>1 DEF ReleaseWrite
    <3>2. CASE Head(job.todo) # {}
      <4>1. AppendFrame(ReleaseFrame(Head(job.todo))) /\ ReleaseFrame(Head(job.todo)) \in Frame
        BY <1>7, <2>2, <3>2, FrameTypes DEF ReleaseWrite
      <4>2. chk.last <= lastSeq /\ chk \in Checkpoint
        BY <2>1, Types DEF ControlExact
      <4>3. ReleaseFrame(Head(job.todo)).kind = "release"
            /\ ReleaseFrame(Head(job.todo)).recs = Head(job.todo)
        BY DEF ReleaseFrame
      <4> QED
        BY <2>1, <4>1, <4>2, <4>3, FrameApplied
    <3> QED
      BY <3>1, <3>2
  <2>6. job.group \cap Pending \subseteq TodoRecords \cup ReleasedBy(chk, log) /\ job.op = "release"
    BY <2>1 DEF GroupJob, ReleaseJob
  <2>7. job'.group \cap Pending' \subseteq TodoRecords' \cup ReleasedBy(chk', log')
    BY <2>2, <2>3, <2>4, <2>5, <2>6
  <2>8. pc' \in Rel /\ (pc' = "release_sync" => job'.todo = << >>) /\ job'.op = "release"
    BY <2>1, <2>2, <2>6
  <2> QED
    BY <2>7, <2>8 DEF GroupJob
<1>8. CASE ReleaseSync
  <2>1. /\ released' = released \cup (job.group \cap Stored) /\ UNCHANGED <<live, records>>
        /\ pc = "release_sync" /\ MaybeCompact
    BY <1>8 DEF ReleaseSync
  <2>2. job.group \cap Pending' = {}
    BY <2>1 DEF Pending, Stored
  <2>3. CASE Finish
    BY <1>1, <2>3 DEF Finish, NoJob
  <2>4. CASE Goto("chk_rename")
    <3>1. job' = job /\ pc' = "chk_rename"
      BY <2>4 DEF Goto
    <3>2. job.op = "release"
      BY <2>1 DEF ReleaseJob
    <3> QED
      BY <2>2, <3>1, <3>2 DEF GroupJob
  <2> QED
    BY <2>1, <2>3, <2>4 DEF MaybeCompact
<1>9. CASE CheckpointRename \/ CheckpointSync \/ LogRename
  BY <1>3, <1>9 DEF CheckpointRename, CheckpointSync, LogRename, Goto
<1>10. CASE AppendSync \/ CreateSync \/ SegmentIdExhausted \/ SealExpired \/ LogSync
  <2>1. pc' \in {"idle", "seal_footer"} /\ job'.op \in {"none", "age"}
    BY <1>10, SMT DEF AppendSync, CreateSync, SegmentIdExhausted, SealExpired, LogSync, Finish, NoJob
  <2> QED
    BY <1>1, <2>1
<1>11. CASE AppendWrite
  <2>1. /\ job' = [job EXCEPT !.todo = Tail(@)] /\ pc = "append_write" /\ job.todo # << >>
        /\ pc' \in {"append_write", "append_sync"}
    BY <1>11 DEF AppendWrite, JobReady
  <2>2. job'.group = job.group /\ job'.op = job.op
    BY <2>1, TodoTail
  <2>3. job.op = "append"
    BY <2>1 DEF AppendJob, WritePcs
  <2> QED
    BY <1>1, <2>1, <2>2, <2>3
<1>12. CASE CreateRename \/ SealFooter \/ SealSync \/ SealFrame \/ DeleteSync
  BY <1>2, <1>12 DEF CreateRename, SealFooter, SealSync, SealFrame, DeleteSync, Goto
<1>13. CASE SealPublish
  <2>1. CASE job' = job /\ pc' \in {"create", "chk_rename"}
    BY <1>2, <1>13, <2>1 DEF SealPublish
  <2>2. CASE Finish
    BY <1>1, <2>2 DEF Finish, NoJob
  <2>3. CASE job.op \in ReclaimKind /\ StartBatches(job.op)
    BY <1>1, <2>3 DEF StartBatches, NoJob, ReclaimKind
  <2> QED
    BY <1>13, <2>1, <2>2, <2>3 DEF SealPublish, AfterSeal, MaybeCompact, Goto
<1>14. ASSUME NEW kind \in ReclaimKind, ReclaimStart(kind) PROVE GroupJob'
  <2>1. pc' \in {"seal_footer", "reclaim_batch"} /\ job'.op = kind
    BY <1>14 DEF ReclaimStart, StartBatches, NoJob
  <2> QED
    BY <1>1, <1>14, <2>1 DEF ReclaimKind
<1>15. CASE ReclaimNextBatch \/ RemoveWrite \/ RemoveSync \/ Delete \/ OpenDelete \/ OpenScan \/ OpenReseal
  <2>1. /\ pc \in {"reclaim_batch", "remove_write", "remove_sync", "delete", "enumerate", "reseal"}
        /\ pc' \notin Rel
    BY <1>15 DEF ReclaimNextBatch, RemoveWrite, RemoveSync, Delete, OpenDelete, OpenScan,
       EnumerationDone, OpenReseal
  <2>2. job'.op = job.op /\ job'.group = job.group
    BY <1>0, <1>15 DEF ReclaimNextBatch, RemoveWrite, RemoveSync, Delete, OpenDelete, OpenScan,
       OpenReseal, Job
  <2>3. job.op # "release"
    BY <2>1 DEF GroupJob
  <2> QED
    BY <1>1, <2>1, <2>2, <2>3
<1>16. CASE ReclaimDone
  <2>1. pc = "reclaim_batch" /\ (Finish \/ Goto("chk_rename"))
    BY <1>16 DEF ReclaimDone, MaybeCompact
  <2>2. CASE Finish
    BY <1>1, <2>2 DEF Finish, NoJob
  <2>3. CASE Goto("chk_rename")
    BY <1>2, <2>1, <2>3 DEF Goto
  <2> QED
    BY <2>1, <2>2, <2>3
<1>17. CASE OpenControl \/ OpenRebuild \/ OpenRetry \/ Shutdown
  <2>1. job'.op \in {"open", "none"} /\ pc' \notin Rel
    BY <1>17, SMT DEF OpenControl, OpenRebuild, OpenRetry, Shutdown, NoJob
  <2> QED
    BY <1>1, <2>1
<1>18. CASE PowerLoss
  <2>1. job' = NoJob /\ pc' = "closed"
    BY <1>18 DEF PowerLoss
  <2> QED
    BY <1>1, <2>1 DEF NoJob
<1>19. CASE OpenResealSync
  BY <1>2, <1>19 DEF OpenResealSync, Goto
<1>20. CASE OpenReject
  <2>1. PICK why \in Rejections : job' = [NoJob EXCEPT !.op = why, !.batch = job.batch]
    BY <1>20 DEF OpenReject
  <2>2. job'.op = why /\ why \notin {"append", "release"}
    BY <2>1 DEF NoJob, Rejections
  <2>3. pc' = "failed"
    BY <1>20 DEF OpenReject
  <2> QED
    BY <1>1, <2>2, <2>3
<1>21. CASE UNCHANGED vars
  <2>1. UNCHANGED <<pc, job, chk, log, live, records, released>>
    BY <1>21 DEF vars, diskVars, memVars
  <2> QED
    BY <2>1, SMT DEF GroupJob, Pending, Stored, TodoRecords
<1> QED
  BY <1>4, <1>5, <1>6, <1>7, <1>8, <1>9, <1>10, <1>11, <1>12, <1>13, <1>14, <1>15, <1>16, <1>17,
     <1>18, <1>19, <1>20, <1>21 DEF NextPower, Serve, Open

\* The segments of a reclamation are live and fully released until they are
\* deleted, and removed for the manifest before that.
LEMMA RemovalJobStep ==
    ASSUME FiniteLaws, TypeOK, JobReady, Index, ReclaimJob, ControlExact, IndexExact, RemovalJob, [NextPower]_vars
    PROVE  RemovalJob'
<1> USE DEF ReclaimPcs
<1>0. job \in Job /\ chk \in Checkpoint
  BY Types
<1>1. ASSUME pc' \notin ReclaimPcs PROVE RemovalJob'
  BY <1>1 DEF RemovalJob
<1>2. ASSUME NEW kind, StartBatches(kind), UNCHANGED <<live, records, released>> PROVE RemovalJob'
  <2>1. /\ pc' = "reclaim_batch" /\ job'.queue \subseteq Eligible /\ job'.batch = {}
    BY <1>2 DEF StartBatches, FirstIds, NoJob
  <2>2. \A i \in job'.queue : i \in live' /\ FullyReleased(i)'
    BY <1>2, <2>1 DEF Eligible, FullyReleased
  <2> QED
    BY <2>1, <2>2 DEF RemovalJob, Removing
<1>3. ASSUME NEW kind \in ReclaimKind, ReclaimStart(kind) PROVE RemovalJob'
  <2>1. UNCHANGED <<live, records, released>>
    BY <1>3 DEF ReclaimStart, memVars
  <2>2. CASE StartBatches(kind)
    BY <1>2, <2>1, <2>2
  <2>3. CASE pc' = "seal_footer"
    BY <1>1, <2>3
  <2> QED
    BY <1>3, <2>2, <2>3 DEF ReclaimStart
<1>4. CASE SealPublish
  <2>1. UNCHANGED <<live, records, released>>
    BY <1>4 DEF SealPublish
  <2>2. CASE StartBatches(job.op)
    BY <1>2, <2>1, <2>2
  <2>3. CASE pc' \in {"create", "idle", "chk_rename"}
    BY <1>1, <2>3
  <2> QED
    BY <1>4, <2>2, <2>3 DEF SealPublish, AfterSeal, MaybeCompact, Finish, Goto
<1>5. CASE ReclaimNextBatch
  <2> DEFINE batch == FirstIds(job.queue, ReclaimBatch)
  <2>1. /\ job' = [job EXCEPT !.queue = @ \ batch, !.batch = batch, !.left = batch]
        /\ UNCHANGED <<live, records, released>> /\ pc = "reclaim_batch" /\ pc' = "remove_write"
    BY <1>5 DEF ReclaimNextBatch, memVars
  <2>2. batch \subseteq job.queue
    BY DEF FirstIds
  <2> HIDE DEF batch
  <2>3. job'.queue = job.queue \ batch /\ job'.batch = batch /\ job'.left = batch
    BY <1>0, <2>1 DEF Job
  <2>4. \A i \in job.queue : i \in live' /\ FullyReleased(i)'
    BY <2>1 DEF RemovalJob, FullyReleased
  <2>5. Removing' = batch
    BY <2>1, <2>3 DEF Removing
  <2> QED
    BY <2>1, <2>2, <2>3, <2>4, <2>5 DEF RemovalJob
<1>6. CASE RemoveWrite
  <2>1. PICK i \in job.left :
           /\ AppendFrame(RemovedFrame(i, RemovalHighwaters(i, job.batch)))
           /\ job' = [job EXCEPT !.left = @ \ {i}]
           /\ pc' = IF job.left = {i} THEN "remove_sync" ELSE "remove_write"
    BY <1>6 DEF RemoveWrite
  <2> DEFINE g == RemovedFrame(i, RemovalHighwaters(i, job.batch))
  <2>2. UNCHANGED <<chk, live, records, released>> /\ pc = "remove_write"
    BY <1>6 DEF RemoveWrite
  <2>3. job'.queue = job.queue /\ job'.batch = job.batch /\ job'.left = job.left \ {i}
    BY <1>0, <2>1 DEF Job
  <2>4. i \in SegId /\ job.batch \in SUBSET SegId
    BY <2>1, Types DEF Job
  <2>5. g \in Frame
    BY <2>4, FrameTypes, RemovalHighwatersType
  <2>6. g.kind = "removed" /\ g.id = i
    BY DEF RemovedFrame
  <2>7. chk.last <= lastSeq
    BY <2>2 DEF ControlExact
  <2> HIDE DEF g
  <2>8. AppendFrame(g)
    BY <2>1 DEF g
  <2>9. RemovedIds(chk, log) \cup {i} \subseteq RemovedIds(chk', log')
    BY <1>0, <2>2, <2>5, <2>6, <2>7, <2>8, FrameApplied
  <2>10. job.left \subseteq job.batch /\ job.batch \ job.left \subseteq RemovedIds(chk, log)
    BY <2>2 DEF ReclaimJob, RemovalJob
  <2>11. Removing' = job.batch /\ Removing = job.batch
    BY <2>1, <2>2, <2>3 DEF Removing
  <2>12. \A j \in job'.queue \cup Removing' : j \in live' /\ FullyReleased(j)'
    BY <2>2, <2>3, <2>11 DEF RemovalJob, FullyReleased
  <2>13. job'.batch \ job'.left \subseteq RemovedIds(chk', log')
    BY <2>3, <2>9, <2>10
  <2>14. pc' = "remove_sync" => job'.batch \subseteq RemovedIds(chk', log')
    BY <2>1, <2>3, <2>9, <2>10
  <2>15. job'.queue \cap job'.batch = {} /\ pc' # "delete"
    BY <2>1, <2>2, <2>3 DEF RemovalJob
  <2> QED
    BY <2>12, <2>13, <2>14, <2>15 DEF RemovalJob
<1>7. CASE RemoveSync
  <2>1. /\ job' = [job EXCEPT !.left = job.batch] /\ pc = "remove_sync" /\ pc' = "delete" /\ SyncLog
        /\ UNCHANGED <<chk, live, records, released>>
    BY <1>7 DEF RemoveSync
  <2>2. job'.queue = job.queue /\ job'.batch = job.batch /\ job'.left = job.batch
    BY <1>0, <2>1 DEF Job
  <2>3. RemovedIds(chk', log') = RemovedIds(chk, log)
    BY <2>1, LogSynced
  <2>4. Removing = job.batch /\ Removing' = job.batch
    BY <2>1, <2>2 DEF Removing
  <2>5. \A j \in job'.queue \cup Removing' : j \in live' /\ FullyReleased(j)'
    BY <2>1, <2>2, <2>4 DEF RemovalJob, FullyReleased
  <2>6. job.queue \cap job.batch = {} /\ job.batch \subseteq RemovedIds(chk, log)
    BY <2>1 DEF RemovalJob
  <2> QED
    BY <2>1, <2>2, <2>3, <2>5, <2>6 DEF RemovalJob
<1>8. CASE Delete
  <2>1. PICK i \in job.left : /\ job' = [job EXCEPT !.left = @ \ {i}, !.done = @ \cup {i}]
                              /\ live' = live \ {i} /\ released' = released \ records[i]
                              /\ records' = [records EXCEPT ![i] = {}]
    BY <1>8 DEF Delete
  <2>2. /\ UNCHANGED <<chk, log>> /\ pc = "delete" /\ pc' \in {"delete", "delete_sync"} /\ i \in SegId
    BY <1>8, Types DEF Delete
  <2>3. job'.queue = job.queue /\ job'.batch = job.batch /\ job'.left = job.left \ {i}
    BY <1>0, <2>1 DEF Job
  <2>4. /\ Removing = job.left /\ Removing' \subseteq job.left \ {i}
        /\ job.left \subseteq job.batch \cap RemovedIds(chk, log) /\ job.queue \cap job.batch = {}
        /\ \A j \in job.queue \cup job.left : j \in live /\ records[j] \subseteq released
    BY <2>2, <2>3 DEF Removing, RemovalJob, FullyReleased
  <2>5. \A j \in live : j # i => records[j] \cap records[i] = {}
    BY <2>2, <2>4 DEF IndexExact, Up, OpenPcs
  <2>6. \A j \in SegId \ {i} : records'[j] = records[j]
    BY <2>1, <2>2, Types
  <2>7. ASSUME NEW j \in job'.queue \cup Removing' PROVE j \in live' /\ FullyReleased(j)'
    <3>1. j # i /\ j \in live /\ j \in SegId /\ records[j] \subseteq released
      BY <2>3, <2>4, <2>7, Types
    <3> QED
      BY <2>1, <2>5, <2>6, <3>1 DEF FullyReleased
  <2> QED
    BY <2>2, <2>3, <2>4, <2>7 DEF RemovalJob
<1>9. CASE DeleteSync
  <2>1. /\ UNCHANGED <<job, live, records, released>> /\ pc = "delete_sync" /\ pc' = "reclaim_batch"
    BY <1>9 DEF DeleteSync, Goto, memVars
  <2> QED
    BY <2>1 DEF RemovalJob, Removing, FullyReleased
<1>10. CASE UNCHANGED vars
  <2>1. UNCHANGED <<pc, job, chk, log, live, records, released>>
    BY <1>10 DEF vars, diskVars, memVars
  <2> QED
    BY <2>1 DEF RemovalJob, Removing, FullyReleased
<1>11. ASSUME NEW units, NEW first, AppendStart(units, first) PROVE RemovalJob'
  BY <1>1, <1>11 DEF AppendStart, AppendTargets
<1>12. ASSUME NEW units, ReleaseStart(units) \/ ReleaseNothing(units) PROVE RemovalJob'
  BY <1>1, <1>12 DEF ReleaseStart, ReleaseNothing
<1>13. CASE AppendWrite \/ AppendSync \/ CreateRename \/ CreateSync \/ SegmentIdExhausted \/ SealExpired
            \/ SealFooter \/ SealSync \/ SealFrame \/ ReleaseWrite
  BY <1>1, <1>13 DEF AppendWrite, AppendSync, CreateRename, CreateSync, SegmentIdExhausted, SealExpired,
     SealFooter, SealSync, SealFrame, ReleaseWrite, Finish, Goto
<1>14. CASE ReleaseSync \/ ReclaimDone \/ CheckpointRename \/ CheckpointSync \/ LogRename \/ LogSync
  BY <1>1, <1>14 DEF ReleaseSync, ReclaimDone, CheckpointRename, CheckpointSync, LogRename, LogSync,
     MaybeCompact, Finish, Goto
<1>15. CASE Open \/ Shutdown \/ PowerLoss
  <2>1. pc' \in {"closed", "enumerate", "reseal", "reseal_sync", "idle", "failed"}
    BY <1>15, Zenon DEF Open, OpenControl, OpenDelete, OpenScan, EnumerationDone, OpenReseal,
       OpenResealSync, OpenRebuild, OpenReject, OpenRetry, Goto, Shutdown, PowerLoss
  <2> QED
    BY <1>1, <2>1
<1> QED
  BY <1>3, <1>4, <1>5, <1>6, <1>7, <1>8, <1>9, <1>10, <1>11, <1>12, <1>13, <1>14, <1>15
     DEF NextPower, Serve

-----------------------------------------------------------------------------
(* The refinement: what the files would give back. *)
\* Recovery applies every release that the control files hold.
LEMMA ReleasesRecovered ==
    ASSUME NEW c, NEW l, NEW D \in SUBSET SegId, NEW f \in [SegId -> File],
           \A i \in D : f[i].synced <= Len(f[i].chunks),
           \A i \in D : \A r \in c.rel \cap RecordsOf(f[i]) :
              /\ i \in c.ids
              /\ \E k \in 1 .. f[i].synced :
                   r \in f[i].chunks[k] /\ Cardinality(RecordsThrough(f[i], k)) <= c.count[i]
    PROVE  (UNION {RecordsOf(f[i]) : i \in D}) \ RecoveredReleased(c, l, {}, D, f)
              = (UNION {RecordsOf(f[i]) : i \in D}) \ (c.rel \cup ReleasedBy(c, l))
<1> DEFINE Held == UNION {RecordsOf(f[i]) : i \in D}
           Flags == RecoveredReleased(c, l, {}, D, f)
<1>1. Flags \subseteq c.rel \cup ReleasedBy(c, l)
  BY DEF RecoveredReleased
<1>2. ReleasedBy(c, l) \cap Held \subseteq Flags
  BY DEF RecoveredReleased
<1>3. ASSUME NEW i \in D, NEW r \in c.rel \cap RecordsOf(f[i]) PROVE r \in Flags
  <2>1. i \in c.ids /\ \E k \in 1 .. f[i].synced :
          r \in f[i].chunks[k] /\ Cardinality(RecordsThrough(f[i], k)) <= c.count[i]
    OBVIOUS
  <2>2. /\ f[i].synced \in Nat /\ f[i].synced <= Len(f[i].chunks)
        /\ Len(f[i].chunks) \in Nat /\ DOMAIN f[i].chunks = 1 .. Len(f[i].chunks)
    BY SMT DEF File
  <2>3. r \in BaselineRecords(f[i], c.count[i])
    BY <2>1, <2>2, SMT DEF BaselineRecords
  <2>4. r \in Baseline(c, {}, i, f)
    BY <2>1, <2>3 DEF Baseline, HasBaseline
  <2> QED
    BY <2>4, SMT DEF RecoveredReleased
<1>4. c.rel \cap Held \subseteq Flags
  BY <1>3
<1> HIDE DEF Flags
<1>5. Held \ Flags = Held \ (c.rel \cup ReleasedBy(c, l))
  BY <1>1, <1>2, <1>4
<1> QED
  BY <1>5 DEF Flags

\* What the files hold for an open: the records of segments that are not
\* removed, but for the released ones.
HeldByFiles == (UNION {RecordsOf(file[i]) : i \in dir \ RemovedIds(chk, log)})
                 \ (chk.rel \cup ReleasedBy(chk, log))

\* What Storage::open would rebuild is what the files hold and the manifest does not release.
LEMMA RecoverableIs ==
    ASSUME TypeOK, Settled, CheckpointReleasesApply
    PROVE  RecoverablePending = HeldByFiles
<1>1. /\ dir \ RemovedIds(chk, log) \in SUBSET SegId /\ file \in [SegId -> File]
      /\ \A i \in SegId : file[i].synced <= Len(file[i].chunks)
  BY DEF TypeOK, Settled
<1>2. \A i \in dir : \A r \in chk.rel \cap RecordsOf(file[i]) :
        /\ i \in chk.ids
        /\ \E k \in 1 .. file[i].synced :
             r \in file[i].chunks[k] /\ Cardinality(RecordsThrough(file[i], k)) <= chk.count[i]
  BY DEF CheckpointReleasesApply, Checkpoints
<1> QED
  BY <1>1, <1>2, ReleasesRecovered, SMT DEF RecoverablePending, HeldByFiles

\* The same in the next state.
LEMMA RecoverableIsNext ==
    ASSUME TypeOK', Settled', CheckpointReleasesApply'
    PROVE  RecoverablePending' = HeldByFiles'
<1>1. /\ dir' \ RemovedIds(chk', log') \in SUBSET SegId /\ file' \in [SegId -> File]
      /\ \A i \in SegId : file'[i].synced <= Len(file'[i].chunks)
  BY DEF TypeOK, Settled
<1>2. \A i \in dir' : \A r \in chk'.rel \cap RecordsOf(file'[i]) :
        /\ i \in chk'.ids
        /\ \E k \in 1 .. file'[i].synced :
             r \in file'[i].chunks[k] /\ Cardinality(RecordsThrough(file'[i], k)) <= chk'.count[i]
  BY DEF CheckpointReleasesApply, Checkpoints
<1> QED
  BY <1>1, <1>2, ReleasesRecovered, SMT DEF RecoverablePending, HeldByFiles

\* What a power loss leaves of the control files.
LEMMA PowerLossImage ==
    ASSUME TypeOK, Settled, LogFlushed, PowerLoss
    PROVE  /\ chk' \in Checkpoints
           /\ \E m \in Logs : \A r : SyncedRelease(chk', m, r) => r \in ReleasedBy(chk', log')
           /\ ~Up \/ pc \in {"create_sync", "delete", "delete_sync"} =>
                /\ chk' = chk
                /\ ReleasedBy(chk', log') = ReleasedBy(chk, log)
                /\ RemovedIds(chk', log') = RemovedIds(chk, log)
<1>1. chk' \in Checkpoints
  BY PowerLossFacts DEF Checkpoints
<1>2. PICK m \in Logs :
         /\ m \in Log /\ m.synced <= log'.synced /\ log'.synced \in Nat
         /\ DOMAIN log'.frames = {k \in DOMAIN m.frames : k <= log'.synced}
         /\ \A k \in DOMAIN log'.frames : log'.frames[k] = m.frames[k]
  BY PowerLossLog
<1>3. /\ m.synced \in Nat /\ DOMAIN m.frames = 1 .. Len(m.frames) /\ Len(m.frames) \in Nat
  BY <1>2, SMT DEF Log
<1>4. \A k \in Applied(chk', m) : k <= m.synced => k \in Applied(chk', log') /\ log'.frames[k] = m.frames[k]
  BY <1>2, <1>3, SMT DEF Applied
<1>5. \A k \in Applied(chk', log') : k \in Applied(chk', m) /\ log'.frames[k] = m.frames[k]
  BY <1>2 DEF Applied
<1>6. \A r : SyncedRelease(chk', m, r) => r \in ReleasedBy(chk', log')
  <2> SUFFICES ASSUME NEW r, SyncedRelease(chk', m, r) PROVE r \in ReleasedBy(chk', log')
    OBVIOUS
  <2>1. \E k \in Applied(chk', log') : log'.frames[k].kind = "release" /\ r \in log'.frames[k].recs
    BY <1>4 DEF SyncedRelease
  <2> QED
    BY <2>1, AppliedAt
<1>7. ASSUME ~Up \/ pc \in {"create_sync", "delete", "delete_sync"}
      PROVE  /\ chk' = chk
             /\ ReleasedBy(chk', log') = ReleasedBy(chk, log)
             /\ RemovedIds(chk', log') = RemovedIds(chk, log)
  <2>1. chk' = chk /\ m = log
    BY <1>1, <1>7 DEF Up, OpenPcs, Settled, EntriesSettled, Checkpoints, Logs
  <2>2. \A k \in DOMAIN log.frames : k <= log.synced \/ log.frames[k].kind = "sealed"
    BY <1>3, <1>7, <2>1, SMT DEF LogFlushed, Up, OpenPcs
  <2>3. \A k \in Applied(chk, log) : log.frames[k].kind # "sealed" =>
           k \in Applied(chk, log') /\ log'.frames[k] = log.frames[k]
    BY <1>4, <2>1, <2>2 DEF Applied
  <2>4. \A k \in Applied(chk, log') : k \in Applied(chk, log) /\ log'.frames[k] = log.frames[k]
    BY <1>5, <2>1
  <2>5. ASSUME NEW r PROVE r \in ReleasedBy(chk, log') <=> r \in ReleasedBy(chk, log)
    <3>1. (\E k \in Applied(chk, log') : log'.frames[k].kind = "release" /\ r \in log'.frames[k].recs)
          <=> (\E k \in Applied(chk, log) : log.frames[k].kind = "release" /\ r \in log.frames[k].recs)
      BY <2>3, <2>4
    <3> QED
      BY <3>1, AppliedAt
  <2>6. ASSUME NEW i PROVE i \in RemovedIds(chk, log') <=> i \in RemovedIds(chk, log)
    <3>1. (\E k \in Applied(chk, log') : log'.frames[k].kind = "removed" /\ log'.frames[k].id = i)
          <=> (\E k \in Applied(chk, log) : log.frames[k].kind = "removed" /\ log.frames[k].id = i)
      BY <2>3, <2>4
    <3> QED
      BY <3>1, AppliedAt, SMT
  <2> QED
    BY <2>1, <2>5, <2>6
<1> QED
  BY <1>1, <1>6, <1>7

\* A power loss at any point of any job keeps what was reported, and brings
\* back nothing but pending records and records of the append it cut short.
LEMMA PowerLossIsCrash ==
    ASSUME RefinementInv, RefinementInv', PowerLoss
    PROVE  B!Crash
<1>1. /\ TypeOK /\ Settled /\ Index /\ AppendJob /\ LogFlushed /\ ControlExact
      /\ FlagsRecoverable /\ CheckpointReleasesApply
  BY DEF RefinementInv, DurabilityInv, JobInv
<1>2. /\ TypeOK' /\ Settled' /\ CheckpointReleasesApply'
      /\ CheckpointsSafe' /\ ReleasesSafe' /\ RemovalsSafe' /\ AckedAppendDurable'
  BY DEF RefinementInv, DurabilityInv, Promises
<1>3. /\ pc' = "closed" /\ job' = NoJob /\ UNCHANGED <<promised, gone>> /\ ~Up'
      /\ dir' \subseteq dir \cup durDir
      /\ \A i \in dir' : RecordsOf(file'[i]) \subseteq RecordsOf(file[i])
  BY <1>1, PowerLossFacts DEF PowerLoss, Up, OpenPcs
<1>4. Contents' = (UNION {RecordsOf(file'[i]) : i \in dir' \ RemovedIds(chk', log')})
                    \ (chk'.rel \cup ReleasedBy(chk', log'))
  BY <1>2, <1>3, RecoverableIsNext DEF Contents, HeldByFiles
<1>5. ASSUME NEW r \in promised PROVE r \in Contents'
  <2>1. PICK i \in dir' \cap durDir' : r \in RecordsThrough(file'[i], file'[i].synced)
    BY <1>2, <1>3 DEF AckedAppendDurable, DurablyStored
  <2>2. i \in SegId /\ file'[i] \in File /\ file'[i].synced <= Len(file'[i].chunks)
    BY <1>2 DEF TypeOK, Settled
  <2>3. r \in RecordsOf(file'[i])
    BY <2>1, <2>2, ThroughWithin
  <2>4. i \notin RemovedIds(chk', log')
    BY <1>2, <1>3, <2>3 DEF RemovalsSafe, Checkpoints, Logs
  <2>5. r \notin chk'.rel /\ r \notin ReleasedBy(chk', log')
    BY <1>2, <1>3 DEF CheckpointsSafe, ReleasesSafe, Checkpoints, Logs
  <2> QED
    BY <1>4, <2>3, <2>4, <2>5
<1>6. ASSUME NEW r \in Contents' PROVE r \in Contents \cup Appending
  <2>1. PICK i \in dir' : i \notin RemovedIds(chk', log') /\ r \in RecordsOf(file'[i])
    BY <1>4, <1>6
  <2>2. r \in RecordsOf(file[i]) /\ i \in dir \cup durDir
    BY <1>3, <2>1
  <2>3. r \notin chk'.rel /\ r \notin ReleasedBy(chk', log')
    BY <1>4, <1>6
  <2>4. i \in dir
    <3>1. SUFFICES ASSUME i \in durDir \ dir PROVE FALSE
      BY <2>2
    <3>2. i \in RemovedIds(chk, log)
      BY <1>1, <3>1 DEF ControlExact
    <3>3. pc \in {"create_sync", "delete", "delete_sync", "enumerate"}
      BY <1>1, <3>1 DEF Settled, EntriesSettled
    <3> QED
      BY <1>1, <2>1, <3>2, <3>3, PowerLossImage DEF Up, OpenPcs
  <2>5. CASE Up
    <3>1. CASE i \in live
      <4>1. r \in records[i] \/ r \in Appending
        BY <1>1, <2>2, <2>5, <3>1 DEF Index, AppendJob, Appending
      <4>2. r \notin released
        <5>1. PICK m \in Logs : \A x : SyncedRelease(chk', m, x) => x \in ReleasedBy(chk', log')
          BY <1>1, PowerLossImage
        <5>2. chk' \in Checkpoints
          BY <1>1, PowerLossImage
        <5> QED
          BY <1>1, <2>2, <2>3, <2>5, <3>1, <5>1, <5>2 DEF FlagsRecoverable
      <4> QED
        BY <2>5, <3>1, <4>1, <4>2 DEF Contents, Pending, Stored
    <3>2. CASE i \notin live
      <4>1. pc = "create_sync" /\ i = nextId - 1
        BY <1>1, <2>4, <2>5, <3>2 DEF Index
      <4> QED
        BY <1>1, <2>2, <4>1 DEF AppendJob, CreatePcs, Appending
    <3> QED
      BY <3>1, <3>2
  <2>6. CASE ~Up
    <3>1. chk' = chk /\ ReleasedBy(chk', log') = ReleasedBy(chk, log)
          /\ RemovedIds(chk', log') = RemovedIds(chk, log)
      BY <1>1, <2>6, PowerLossImage
    <3>2. Contents = (UNION {RecordsOf(file[j]) : j \in dir \ RemovedIds(chk, log)})
                        \ (chk.rel \cup ReleasedBy(chk, log))
      BY <1>1, <2>6, RecoverableIs DEF Contents, HeldByFiles
    <3> QED
      BY <2>1, <2>2, <2>3, <2>4, <3>1, <3>2
  <2> QED
    BY <2>5, <2>6
<1>7. Appending' = {}
  BY <1>3 DEF Appending, NoJob
<1>8. Up' = FALSE
  BY <1>3, SMT
<1> QED
  BY <1>3, <1>5, <1>6, <1>7, <1>8 DEF B!Crash

\* Opening a root changes nothing of what it holds until it is open.
LEMMA OpeningStutters ==
    ASSUME RefinementInv, RefinementInv',
           \/ OpenControl \/ OpenDelete \/ OpenScan \/ OpenReseal \/ OpenResealSync
           \/ OpenReject \/ OpenRetry
    PROVE  UNCHANGED B!vars
<1>1. TypeOK /\ Settled /\ CheckpointReleasesApply /\ AppendJob /\ ControlExact
  BY DEF RefinementInv, DurabilityInv, JobInv
<1>2. TypeOK' /\ Settled' /\ CheckpointReleasesApply' /\ AppendJob'
  BY DEF RefinementInv, DurabilityInv, JobInv
<1>3. /\ pc \in OpenPcs /\ pc' \in OpenPcs
      /\ UNCHANGED <<chk, file, promised, gone>>
  <2>1. CASE OpenReject
    <3>1. Rejections # {}
      BY <2>1 DEF OpenReject
    <3>2. pc \in OpenPcs
      BY <3>1 DEF Rejections, EnumerationDone, SealsPublished, OpenPcs
    <3> QED
      BY <2>1, <3>2 DEF OpenReject, OpenPcs, histVars
  <2>2. CASE OpenControl \/ OpenRetry
    BY <2>2 DEF OpenControl, OpenRetry, OpenPcs, diskVars, histVars
  <2>3. CASE OpenDelete \/ OpenScan
    BY <2>3 DEF OpenDelete, OpenScan, EnumerationDone, OpenPcs, histVars
  <2>4. CASE OpenReseal \/ OpenResealSync
    BY <2>4 DEF OpenReseal, OpenResealSync, Goto, OpenPcs, histVars
  <2> QED
    BY <2>1, <2>2, <2>3, <2>4
<1>4. /\ ReleasedBy(chk, log') = ReleasedBy(chk, log)
      /\ RemovedIds(chk, log') = RemovedIds(chk, log)
  <2>1. CASE OpenReseal
    <3>1. PICK i \in job.left : AppendFrame(SealedFrame(i))
      BY <2>1 DEF OpenReseal
    <3>2. SealedFrame(i) \in Frame /\ SealedFrame(i).kind = "sealed" /\ chk \in Checkpoint
      BY <1>1, FrameTypes, Types DEF SealedFrame
    <3>3. ReleasedBy(chk, log) \subseteq ReleasedBy(chk, log')
          /\ RemovedIds(chk, log) \subseteq RemovedIds(chk, log')
      BY <1>1, <3>1, <3>2, FrameApplied
    <3>4. ReleasedBy(chk, log') \subseteq ReleasedBy(chk, log)
          /\ RemovedIds(chk, log') \subseteq RemovedIds(chk, log)
      BY <1>1, <3>1, <3>2, LogWritten
    <3> QED
      BY <3>3, <3>4
  <2>2. CASE OpenResealSync
    BY <1>1, <2>2, LogSynced DEF OpenResealSync
  <2>3. CASE ~OpenReseal /\ ~OpenResealSync
    <3>1. UNCHANGED log
      BY <2>3 DEF OpenControl, OpenDelete, OpenScan, OpenReject, OpenRetry, diskVars
    <3> QED
      BY <3>1
  <2> QED
    BY <2>1, <2>2, <2>3
<1>5. dir' \ RemovedIds(chk, log) = dir \ RemovedIds(chk, log)
  <2>1. CASE OpenDelete
    BY <2>1 DEF OpenDelete
  <2>2. CASE ~OpenDelete
    <3>1. UNCHANGED dir
      BY <2>2 DEF OpenControl, OpenScan, OpenReseal, OpenResealSync, OpenReject, OpenRetry, diskVars
    <3> QED
      BY <3>1
  <2> QED
    BY <2>1, <2>2
<1>6. HeldByFiles' = HeldByFiles
  BY <1>3, <1>4, <1>5 DEF HeldByFiles
<1>7. ~Up /\ ~Up'
  BY <1>3 DEF Up
<1>8. Contents' = Contents
  BY <1>1, <1>2, <1>6, <1>7, RecoverableIs, RecoverableIsNext DEF Contents
<1>9. Appending = {} /\ Appending' = {}
  BY <1>1, <1>2, <1>3 DEF AppendJob, Appending, OpenPcs, SealPcs, WritePcs, CreatePcs
<1>10. Up' = Up
  BY <1>7 DEF Up
<1> QED
  BY <1>3, <1>8, <1>9, <1>10 DEF B!vars

\* open gives back exactly what the files held.
LEMMA RebuildIsOpen ==
    ASSUME RefinementInv, RefinementInv', OpenRebuild
    PROVE  B!Open
<1>1. TypeOK /\ Settled /\ CheckpointReleasesApply /\ AppendJob /\ Control
  BY DEF RefinementInv, DurabilityInv, JobInv
<1>2. FlagsComplete'
  BY DEF RefinementInv
<1>3. /\ pc = "reseal" /\ pc' = "idle" /\ job' = NoJob /\ live' = dir
      /\ UNCHANGED <<chk, log, dir, file, promised, gone>>
      /\ records' = RecoveredRecords(dir, file)
      /\ released' = RecoveredReleased(chk, log, job.batch, dir, file)
  BY DEF OpenRebuild, diskVars, histVars
<1>4. ~Up /\ Up' /\ dir \cap RemovedIds(chk, log) = {}
  BY <1>1, <1>3 DEF Up, OpenPcs, Control
<1>5. Contents = (UNION {RecordsOf(file[i]) : i \in dir}) \ (chk.rel \cup ReleasedBy(chk, log))
  <2>1. dir \ RemovedIds(chk, log) = dir
    BY <1>4
  <2> QED
    BY <1>1, <1>4, <2>1, RecoverableIs DEF Contents, HeldByFiles
<1>6. Stored' = UNION {RecordsOf(file[i]) : i \in dir}
  <2>1. \A i \in dir : records'[i] = RecordsOf(file[i])
    BY <1>1, <1>3, Types DEF RecoveredRecords
  <2> QED
    BY <1>3, <2>1 DEF Stored
<1>7. released' \subseteq chk.rel \cup ReleasedBy(chk, log)
  BY <1>3 DEF RecoveredReleased
<1>8. \A i \in dir : (chk.rel \cup ReleasedBy(chk, log)) \cap RecordsOf(file[i]) \subseteq released'
  BY <1>2, <1>3, <1>4 DEF FlagsComplete, NoJob
<1>9. Stored' \ released' = Contents
  BY <1>5, <1>6, <1>7, <1>8
<1>10. Contents' = Contents
  BY <1>4, <1>9 DEF Contents, Pending
<1>11. Appending = {} /\ Appending' = {}
  BY <1>1, <1>3 DEF AppendJob, Appending, SealPcs, WritePcs, CreatePcs, NoJob
<1>12. Up' = TRUE
  BY <1>4
<1> QED
  BY <1>3, <1>4, <1>10, <1>11, <1>12 DEF B!Open

\* shutdown leaves in the files exactly what was pending.
LEMMA ShutdownIsClose ==
    ASSUME RefinementInv, RefinementInv', Shutdown
    PROVE  B!Close
<1>1. /\ TypeOK /\ Settled /\ AppendJob /\ Control /\ Index
      /\ IndexExact /\ GroupJob /\ FlagsComplete /\ FlagsRecoverable
  BY DEF RefinementInv, DurabilityInv, JobInv
<1>2. TypeOK' /\ Settled' /\ CheckpointReleasesApply'
  BY DEF RefinementInv, DurabilityInv
<1>3. /\ pc = "idle" /\ pc' = "closed" /\ job' = NoJob
      /\ UNCHANGED <<chk, log, dir, file, promised, gone>>
  BY DEF Shutdown, diskVars, histVars
<1>4. Up /\ ~Up' /\ dir = live /\ live \cap RemovedIds(chk, log) = {} /\ job.op # "release"
      /\ job.op # "append"
  BY <1>1, <1>3 DEF Up, OpenPcs, Index, Control, Removing, GroupJob, AppendJob, SealPcs, WritePcs,
     CreatePcs
<1>5. Contents' = (UNION {RecordsOf(file[i]) : i \in live}) \ (chk.rel \cup ReleasedBy(chk, log))
  <2>1. dir \ RemovedIds(chk, log) = live
    BY <1>4
  <2>2. Contents' = HeldByFiles'
    BY <1>2, <1>4, RecoverableIsNext DEF Contents
  <2>3. HeldByFiles' = HeldByFiles
    BY <1>3, ZenonT(30) DEF HeldByFiles
  <2> QED
    BY <2>1, <2>2, <2>3 DEF HeldByFiles
<1>6. \A i \in live : RecordsOf(file[i]) = records[i]
  <2>1. \A i \in live : records[i] \subseteq RecordsOf(file[i])
    BY <1>1, <1>4 DEF IndexExact
  <2>2. \A i \in live : RecordsOf(file[i]) \subseteq records[i]
    BY <1>1, <1>3, <1>4, SMT DEF Index, WritePcs
  <2> QED
    BY <2>1, <2>2
<1>7. Stored = UNION {RecordsOf(file[i]) : i \in live}
  BY <1>6 DEF Stored
<1>8. \A i \in live : (chk.rel \cup ReleasedBy(chk, log)) \cap RecordsOf(file[i]) \subseteq released
  BY <1>1, <1>4 DEF FlagsComplete
<1>9. ASSUME NEW i \in live, NEW r \in RecordsOf(file[i]) \cap released
      PROVE  r \in chk.rel \cup ReleasedBy(chk, log)
  <2>1. r \in chk.rel \/ SyncedRelease(chk, log, r)
    BY <1>1, <1>4 DEF FlagsRecoverable, Checkpoints, Logs
  <2>2. CASE SyncedRelease(chk, log, r)
    <3>1. \E k \in Applied(chk, log) : log.frames[k].kind = "release" /\ r \in log.frames[k].recs
      BY <2>2 DEF SyncedRelease
    <3> QED
      BY <3>1, AppliedAt
  <2> QED
    BY <2>1, <2>2
<1>10. Contents' = Contents
  BY <1>4, <1>5, <1>7, <1>8, <1>9, SMT DEF Contents, Pending
<1>11. Appending = {} /\ Appending' = {}
  BY <1>3, <1>4 DEF Appending, NoJob
<1>12. Up' = FALSE
  BY <1>4, SMT
<1> QED
  BY <1>3, <1>4, <1>10, <1>11, <1>12 DEF B!Close

\* Steps of a job between its request and its report leave what callers see alone.
LEMMA UnseenStutters ==
    ASSUME Up, Up', UNCHANGED <<records, live, released, promised, gone>>, Appending' = Appending
    PROVE  UNCHANGED B!vars
<1>1. Pending' = Pending
  BY DEF Pending, Stored
<1>2. Contents' = Contents
  BY <1>1 DEF Contents
<1>3. Up' = Up
  BY DEF Up
<1> QED
  BY <1>2, <1>3 DEF B!vars

\* A step that writes, syncs or renames a file before the result is reported is invisible to
\* callers.
LEMMA WritingStutters ==
    ASSUME RefinementInv,
           \/ AppendWrite \/ CreateRename \/ SealFooter \/ SealSync \/ SealFrame \/ ReleaseWrite
           \/ RemoveWrite \/ RemoveSync \/ DeleteSync \/ CheckpointRename \/ CheckpointSync \/ LogRename
           \/ ReclaimNextBatch
    PROVE  UNCHANGED B!vars
<1>1. job \in Job
  BY DEF RefinementInv, DurabilityInv, TypeOK
<1>2. CASE AppendWrite \/ SealFooter \/ SealSync \/ CreateRename
  <2>1. Up /\ Up' /\ UNCHANGED <<records, live, released, promised, gone>>
    BY <1>2 DEF AppendWrite, SealFooter, SealSync, CreateRename, Goto, memVars, histVars, Up, OpenPcs
  <2>2. job'.op = job.op /\ job'.group = job.group
    BY <1>1, <1>2 DEF AppendWrite, SealFooter, SealSync, CreateRename, Goto, Job
  <2> QED
    BY <2>1, <2>2, UnseenStutters DEF Appending
<1>3. CASE SealFrame \/ ReleaseWrite
  <2>1. Up /\ Up' /\ UNCHANGED <<records, live, released, promised, gone>>
    BY <1>3 DEF SealFrame, ReleaseWrite, Goto, histVars, Up, OpenPcs
  <2>2. job'.op = job.op /\ job'.group = job.group
    BY <1>1, <1>3 DEF SealFrame, ReleaseWrite, Goto, Job
  <2> QED
    BY <2>1, <2>2, UnseenStutters DEF Appending
<1>4. CASE RemoveWrite \/ RemoveSync \/ ReclaimNextBatch
  <2>1. Up /\ Up' /\ UNCHANGED <<records, live, released, promised, gone>>
    BY <1>4 DEF RemoveWrite, RemoveSync, ReclaimNextBatch, memVars, histVars, Up, OpenPcs
  <2>2. job'.op = job.op /\ job'.group = job.group
    BY <1>1, <1>4 DEF RemoveWrite, RemoveSync, ReclaimNextBatch, Job
  <2> QED
    BY <2>1, <2>2, UnseenStutters DEF Appending
<1>5. CASE DeleteSync \/ CheckpointRename \/ CheckpointSync \/ LogRename
  <2>1. /\ Up /\ Up' /\ UNCHANGED <<records, live, released, promised, gone, job>>
    BY <1>5 DEF DeleteSync, CheckpointRename, CheckpointSync, LogRename, Goto, memVars, histVars,
         Up, OpenPcs
  <2> QED
    BY <2>1, UnseenStutters DEF Appending
<1> QED
  BY <1>2, <1>3, <1>4, <1>5

\* A job that is neither an append nor a release starts and ends unseen.
LEMMA BackgroundStutters ==
    ASSUME RefinementInv,
           \/ SealExpired \/ SealPublish \/ ReclaimDone
           \/ \E kind \in ReclaimKind : ReclaimStart(kind)
    PROVE  UNCHANGED B!vars
<1>1. AppendJob /\ GroupJob /\ job \in Job
  BY DEF RefinementInv, DurabilityInv, JobInv, TypeOK
<1>2. ASSUME job.op # "append", job.op # "release", MaybeCompact
      PROVE  /\ UNCHANGED <<promised, gone>> /\ job'.op # "append" /\ pc' \in {"idle", "chk_rename"}
  BY <1>2, SMT DEF MaybeCompact, Finish, Goto, histVars, NoJob
<1>3. ASSUME NEW kind \in ReclaimKind, StartBatches(kind)
      PROVE  job'.op # "append" /\ pc' = "reclaim_batch"
  BY <1>3 DEF StartBatches, NoJob, ReclaimKind
<1>4. CASE SealExpired
  <2>1. /\ Up /\ Up' /\ UNCHANGED <<records, live, released, promised, gone>>
        /\ pc = "idle" /\ job'.op = "age"
    BY <1>4 DEF SealExpired, memVars, histVars, Up, OpenPcs, NoJob
  <2> QED
    BY <1>1, <2>1, UnseenStutters DEF Appending, AppendJob, SealPcs, WritePcs, CreatePcs
<1>5. ASSUME NEW kind \in ReclaimKind, ReclaimStart(kind) PROVE UNCHANGED B!vars
  <2>1. pc = "idle" /\ UNCHANGED <<records, live, released, promised, gone>>
    BY <1>5 DEF ReclaimStart, memVars, histVars
  <2>2. job'.op # "append" /\ pc' \in {"seal_footer", "reclaim_batch"}
    <3>1. StartBatches(kind) \/ (pc' = "seal_footer" /\ job' = [NoJob EXCEPT !.op = kind])
      BY <1>5 DEF ReclaimStart
    <3> QED
      BY <1>3, <3>1 DEF NoJob, ReclaimKind
  <2>3. Up /\ Up' /\ Appending = {} /\ Appending' = {}
    BY <1>1, <2>1, <2>2 DEF Appending, AppendJob, SealPcs, WritePcs, CreatePcs, Up, OpenPcs
  <2> QED
    BY <2>1, <2>3, UnseenStutters
<1>6. CASE SealPublish
  <2>1. /\ pc = "seal_publish" /\ UNCHANGED <<records, live, released>> /\ AfterSeal
    BY <1>6 DEF SealPublish
  <2>2. CASE job.op = "append" /\ Goto("create") /\ UNCHANGED histVars
    <3>1. Up /\ Up' /\ UNCHANGED <<promised, gone, job>>
      BY <2>1, <2>2 DEF Goto, histVars, Up, OpenPcs
    <3> QED
      BY <2>1, <3>1, UnseenStutters DEF Appending
  <2>3. CASE job.op = "age" /\ MaybeCompact
    <3>1. /\ UNCHANGED <<promised, gone>> /\ job'.op # "append" /\ pc' \in {"idle", "chk_rename"}
      BY <1>2, <2>3
    <3>2. Up /\ Up' /\ Appending = {} /\ Appending' = {}
      BY <2>1, <2>3, <3>1 DEF Appending, Up, OpenPcs
    <3> QED
      BY <2>1, <3>1, <3>2, UnseenStutters
  <2>4. CASE job.op \in ReclaimKind /\ StartBatches(job.op) /\ UNCHANGED histVars
    <3>1. job'.op # "append" /\ pc' = "reclaim_batch" /\ job.op # "append"
      BY <1>3, <2>4 DEF ReclaimKind
    <3>2. Up /\ Up' /\ Appending = {} /\ Appending' = {} /\ UNCHANGED <<promised, gone>>
      BY <2>1, <2>4, <3>1 DEF Appending, Up, OpenPcs, histVars
    <3> QED
      BY <2>1, <3>1, <3>2, UnseenStutters
  <2> QED
    BY <2>1, <2>2, <2>3, <2>4 DEF AfterSeal
<1>7. CASE ReclaimDone
  <2>1. pc = "reclaim_batch" /\ UNCHANGED <<records, live, released>>
    BY <1>7 DEF ReclaimDone, memVars
  <2>2. job.op # "append" /\ job.op # "release"
    BY <1>1, <2>1 DEF AppendJob, GroupJob, SealPcs, WritePcs, CreatePcs
  <2>3. MaybeCompact
    BY <1>7 DEF ReclaimDone, MaybeCompact
  <2>4. /\ UNCHANGED <<promised, gone>> /\ job'.op # "append" /\ pc' \in {"idle", "chk_rename"}
    BY <1>2, <2>2, <2>3
  <2>5. Up /\ Up' /\ Appending = {} /\ Appending' = {}
    BY <2>1, <2>2, <2>4 DEF Appending, Up, OpenPcs
  <2> QED
    BY <2>1, <2>4, <2>5, UnseenStutters
<1> QED
  BY <1>4, <1>5, <1>6, <1>7

\* Reclaiming a segment takes only released records from memory.
LEMMA DeleteStutters ==
    ASSUME RefinementInv, Delete
    PROVE  UNCHANGED B!vars
<1>1. TypeOK /\ RemovalJob /\ IndexExact /\ Index
  BY DEF RefinementInv, DurabilityInv
<1>2. PICK d \in job.left :
        /\ live' = live \ {d} /\ released' = released \ records[d]
        /\ records' = [records EXCEPT ![d] = {}]
        /\ job' = [job EXCEPT !.left = @ \ {d}, !.done = @ \cup {d}]
        /\ pc' = IF job.left = {d} THEN "delete_sync" ELSE "delete"
  BY DEF Delete
<1>3. pc = "delete" /\ Up /\ Up' /\ UNCHANGED <<promised, gone>>
  BY <1>2 DEF Delete, histVars, Up, OpenPcs
<1>4. d \in live /\ records[d] \subseteq released
  BY <1>1, <1>3 DEF RemovalJob, ReclaimPcs, Removing, FullyReleased
<1>5. \A i \in live \ {d} : records'[i] = records[i] /\ records[i] \cap records[d] = {}
  BY <1>1, <1>2, <1>3, <1>4, Types DEF IndexExact
<1>6. Stored' = UNION {records[i] : i \in live \ {d}}
  BY <1>2, <1>5, ZenonT(30) DEF Stored
<1>7. Stored = records[d] \cup UNION {records[i] : i \in live \ {d}}
  BY <1>4 DEF Stored
<1>8. (UNION {records[i] : i \in live \ {d}}) \cap records[d] = {}
  BY <1>5
<1>9. Pending' = Pending
  BY <1>2, <1>4, <1>6, <1>7, <1>8 DEF Pending
<1>10. job'.op = job.op /\ job'.group = job.group
  BY <1>1, <1>2, Types DEF Job
<1>11. Contents' = Contents /\ Appending' = Appending
  BY <1>3, <1>9, <1>10 DEF Contents, Appending
<1>12. Up' = Up
  BY <1>3 DEF Up
<1> QED
  BY <1>3, <1>11, <1>12 DEF B!vars

\* Taking up an append group is the buffer's Submit: its sequences follow every one that
\* is pending or was ever reported.
LEMMA AppendStartIsSubmit ==
    ASSUME RefinementInv, RefinementInv',
           NEW units \in Groups(Unit), NEW first \in [DOMAIN units -> Seqno],
           AppendStart(units, first)
    PROVE  \E R \in SUBSET B!Record : B!Submit(R)
<1>1. TypeOK /\ AppendJob /\ Index /\ MarksRecoverable
  BY DEF RefinementInv, DurabilityInv, JobInv
<1>2. AppendJob' /\ GroupJob' /\ TypeOK'
  BY DEF RefinementInv, DurabilityInv, JobInv
<1>3. /\ pc = "idle" /\ job'.op = "append"
      /\ UNCHANGED <<records, live, released, highwater, promised, gone>>
      /\ pc' \in AppendTargets(Cardinality(job'.group))
  BY DEF AppendStart, NoJob, memVars, histVars
<1>4. pc' \in {"create", "append_write", "seal_footer"}
  BY <1>3 DEF AppendTargets
<1>5. Up /\ Up' /\ Appending = {} /\ Appending' = job'.group
  BY <1>1, <1>3, <1>4 DEF Up, OpenPcs, Appending, AppendJob, SealPcs, WritePcs, CreatePcs
<1>6. Contents = Pending /\ Contents' = Contents
  BY <1>3, <1>5 DEF Contents, Pending, Stored
<1>7. job'.group \in SUBSET Record /\ job'.group # {}
  BY <1>2, <1>3, Types DEF GroupJob, TypeOK, Job
<1>8. \A r \in job'.group : r[2] > highwater[r[1]]
  BY <1>2, <1>3 DEF AppendJob
<1>9. \A q \in Pending \cup promised \cup gone : q \in Record /\ q[2] <= highwater[q[1]]
  <2>1. \A q \in Pending : q \in Record /\ q[2] <= highwater[q[1]]
    BY <1>1, <1>5, Types DEF Pending, Stored, Index, UpTo
  <2>2. \A q \in promised \cup gone : q \in Record /\ q[2] <= highwater[q[1]]
    BY <1>1, <1>5 DEF MarksRecoverable, UpTo, TypeOK
  <2> QED
    BY <2>1, <2>2
<1>10. ASSUME NEW r \in job'.group, NEW q \in Pending \cup promised \cup gone, q[1] = r[1]
       PROVE  q[2] < r[2]
  <2>1. r \in Record /\ q \in Record
    BY <1>7, <1>9
  <2>2. r[1] \in Stream /\ r[2] \in Nat /\ q[2] \in Nat
    BY <2>1, SMT DEF Record, Seqno
  <2>3. highwater[r[1]] \in HighWater
    BY <1>1, <2>2, Types DEF Highwaters
  <2>4. highwater[r[1]] \in Int
    BY <2>3, SMT DEF HighWater, Seqno, NoSeq
  <2>5. r[2] > highwater[r[1]] /\ q[2] <= highwater[r[1]]
    BY <1>8, <1>9, <1>10
  <2> QED
    BY <2>2, <2>4, <2>5, SMT
<1>11. B!Submit(job'.group)
  <2>1. Up' = Up
    BY <1>5 DEF Up
  <2> QED
    BY <1>3, <1>5, <1>6, <1>7, <1>10, <2>1 DEF B!Submit
<1>12. job'.group \in SUBSET B!Record
  BY <1>7 DEF Record, B!Record
<1> QED
  BY <1>11, <1>12

\* The step that indexes and reports an append is the buffer's Append.
LEMMA AppendSyncIsAppend ==
    ASSUME RefinementInv, AppendSync \/ CreateSync
    PROVE  B!Append
<1>1. TypeOK /\ JobReady /\ AppendJob /\ Index /\ IndexExact /\ GroupJob
  BY DEF RefinementInv, DurabilityInv, JobInv
<1>2. /\ pc \in {"append_sync", "create_sync"} /\ pc' = "idle" /\ job' = NoJob
      /\ UNCHANGED <<released, gone>> /\ Finish
  <2>1. Finish /\ UNCHANGED released /\ pc \in {"append_sync", "create_sync"}
    BY DEF AppendSync, CreateSync
  <2>2. job.op = "append"
    BY <1>1, <2>1 DEF AppendJob, WritePcs, CreatePcs
  <2> QED
    BY <2>1, <2>2 DEF Finish
<1>3. job.op = "append" /\ job.group # {} /\ job.group \subseteq Record
  BY <1>1, <1>2, Types DEF AppendJob, GroupJob, WritePcs, CreatePcs, TypeOK, Job
<1>4. Up /\ Up' /\ Appending = job.group /\ Appending' = {} /\ promised' = promised \cup job.group
  BY <1>2, <1>3, SMT DEF Up, OpenPcs, Appending, NoJob, Finish
<1>5. \E a \in SegId : /\ live' = live \cup {a} /\ IndexDurableRecords(a)
                       /\ a \notin live => records[a] = {}
  <2>1. CASE AppendSync
    <3>1. active \in live /\ live' = live /\ IndexDurableRecords(active)
      BY <1>1, <1>4, <2>1 DEF AppendSync, JobReady, Index, WritePcs
    <3> QED
      BY <1>1, <3>1, Types
  <2>2. CASE CreateSync
    <3>1. live' = live \cup {nextId - 1} /\ IndexDurableRecords(nextId - 1)
      BY <2>2 DEF CreateSync
    <3>2. nextId - 1 \in SegId
      <4>1. nextId > 0 /\ nextId \in 0 .. MaxSegId
        BY <1>1, <2>2 DEF CreateSync, JobReady, TypeOK
      <4> QED
        BY <4>1, BoundsAssumption, SMT DEF SegId
    <3> QED
      BY <1>1, <1>4, <3>1, <3>2 DEF IndexExact
  <2> QED
    BY <2>1, <2>2
<1>6. PICK a \in SegId : /\ live' = live \cup {a} /\ IndexDurableRecords(a)
                         /\ a \notin live => records[a] = {}
  BY <1>5
<1>7. /\ records'[a] = records[a] \cup job.group
      /\ \A i \in SegId \ {a} : records'[i] = records[i]
  BY <1>1, <1>6, Types DEF IndexDurableRecords
<1>8. Stored' = Stored \cup job.group
  <2>1. \A r : r \in Stored' => r \in Stored \cup job.group
    BY <1>1, <1>6, <1>7, Types DEF Stored
  <2>2. \A r : r \in job.group => r \in Stored'
    BY <1>6, <1>7 DEF Stored
  <2>3. \A r : r \in Stored => r \in Stored'
    BY <1>1, <1>6, <1>7, Types DEF Stored
  <2> QED
    BY <2>1, <2>2, <2>3
<1>9. released \cap job.group = {}
  <2>1. UpTo(released, highwater) /\ released \in SUBSET Record
    BY <1>1, <1>4, Types DEF Index
  <2>2. \A r \in job.group : r[2] > highwater[r[1]]
    BY <1>1, <1>3 DEF AppendJob
  <2> QED
    BY <1>1, <1>3, <2>1, <2>2, AboveDisjoint
<1>10. Pending' = Pending \cup job.group
  BY <1>2, <1>8, <1>9 DEF Pending
<1>11. Contents = Pending /\ Contents' = Pending \cup job.group /\ Up' = Up
  BY <1>4, <1>10 DEF Contents, Up
<1> QED
  BY <1>2, <1>3, <1>4, <1>11 DEF B!Append

\* Running out of segment IDs is the buffer's Refuse.
LEMMA ExhaustedIsRefuse ==
    ASSUME RefinementInv, SegmentIdExhausted
    PROVE  B!Refuse
<1>1. AppendJob /\ GroupJob
  BY DEF RefinementInv, DurabilityInv, JobInv
<1>2. /\ pc = "create" /\ pc' = "idle" /\ job' = NoJob
      /\ UNCHANGED <<records, live, released, promised, gone>>
  BY DEF SegmentIdExhausted, memVars, histVars
<1>3. Up /\ Up' /\ Appending # {} /\ Appending' = {}
  BY <1>1, <1>2 DEF AppendJob, GroupJob, CreatePcs, Up, OpenPcs, Appending, NoJob
<1>4. Contents' = Contents /\ Up' = Up
  BY <1>2, <1>3 DEF Contents, Pending, Stored, Up
<1> QED
  BY <1>2, <1>3, <1>4 DEF B!Refuse

\* A release is requested, takes effect and is reported in one, two or three steps of the
\* buffer's Release: when it is taken up, when its flags are set after the log's sync, and
\* when the compaction after it is over.
LEMMA ReleaseIsRelease ==
    ASSUME RefinementInv,
           \/ \E units \in Groups(ReleaseUnits) : ReleaseStart(units) \/ ReleaseNothing(units)
           \/ ReleaseSync \/ LogSync
    PROVE  UNCHANGED B!vars \/ \E R \in SUBSET B!Record : B!Release(R)
<1>1. TypeOK /\ AppendJob /\ ReleaseJob /\ GroupJob
  BY DEF RefinementInv, DurabilityInv, JobInv
<1>2. ASSUME NEW units \in Groups(ReleaseUnits), ReleaseStart(units) \/ ReleaseNothing(units)
      PROVE  \E R \in SUBSET B!Record : B!Release(R)
  <2> DEFINE R == UNION {units[k] : k \in DOMAIN units}
  <2>1. R \in SUBSET Record
    <3>1. \A k \in DOMAIN units : units[k] \in ReleaseUnits
      BY DEF Groups
    <3>2. ASSUME NEW U \in ReleaseUnits PROVE U \subseteq Record
      <4>1. PICK s \in Stream : U \subseteq {s} \X (0 .. highwater[s])
        BY DEF ReleaseUnits, KnownIds
      <4>2. highwater[s] \in HighWater
        BY <1>1, Types DEF Highwaters
      <4>3. 0 .. highwater[s] \subseteq Seqno
        BY <4>2, SizesAssumption, BoundsAssumption, SMT DEF HighWater, Seqno, NoSeq
      <4> QED
        BY <4>1, <4>3 DEF Record
    <3> QED
      BY <3>1, <3>2
  <2>2. /\ pc = "idle" /\ UNCHANGED <<records, live, released>> /\ promised' = promised \ R
        /\ \/ gone' = gone
           \/ gone' = gone \cup R /\ R \cap Pending = {}
    BY <1>2 DEF ReleaseStart, ReleaseNothing, memVars
  <2>3. \/ pc' = pc /\ job' = job
        \/ pc' = "release_write" /\ job'.op = "release"
    BY <1>2 DEF ReleaseStart, ReleaseNothing, NoJob
  <2>4. Up /\ Up' /\ Appending = {} /\ Appending' = {}
    BY <1>1, <2>2, <2>3 DEF Up, OpenPcs, Appending, AppendJob, SealPcs, WritePcs, CreatePcs
  <2>5. Contents = Pending /\ Contents' = Pending /\ Up' = Up
    BY <2>2, <2>4 DEF Contents, Pending, Stored, Up
  <2>6. R \in SUBSET B!Record
    BY <2>1 DEF Record, B!Record
  <2>7. B!Release(R)
    <3> HIDE DEF R
    <3> QED
      BY <2>2, <2>4, <2>5 DEF B!Release
  <2> QED
    BY <2>6, <2>7
<1>3. CASE ReleaseSync
  <2>1. /\ pc = "release_sync" /\ job.op = "release" /\ UNCHANGED <<records, live>>
        /\ released' = released \cup (job.group \cap Stored) /\ MaybeCompact
    BY <1>1, <1>3 DEF ReleaseSync, ReleaseJob
  <2>2. /\ pc' \in {"idle", "chk_rename"} /\ job'.op # "append"
        /\ promised' = promised /\ (gone' = gone \/ gone' = gone \cup job.group)
    BY <2>1, SMT DEF MaybeCompact, Finish, Goto, histVars, NoJob
  <2>3. promised' = promised \ job.group
    BY <1>1, <2>1, <2>2 DEF ReleaseJob
  <2>4. Pending' = Pending \ job.group
    BY <2>1 DEF Pending, Stored
  <2>5. Up /\ Up' /\ Appending = {} /\ Appending' = {}
    BY <2>1, <2>2 DEF Up, OpenPcs, Appending
  <2>6. Contents = Pending /\ Contents' = Pending \ job.group /\ Up' = Up
    BY <2>4, <2>5 DEF Contents, Up
  <2>7. job.group \in SUBSET B!Record
    BY <1>1, Types DEF Job, Record, B!Record, TypeOK
  <2>8. B!Release(job.group)
    BY <2>2, <2>3, <2>5, <2>6 DEF B!Release
  <2> QED
    BY <2>7, <2>8
<1>4. CASE LogSync
  <2>1. /\ pc = "log_sync" /\ UNCHANGED <<records, live, released>> /\ Finish
    BY <1>4 DEF LogSync
  <2>2. job.op # "append" /\ pc' = "idle" /\ job'.op # "append"
    BY <1>1, <2>1 DEF AppendJob, SealPcs, WritePcs, CreatePcs, Finish, NoJob
  <2>3. Up /\ Up' /\ Appending = {} /\ Appending' = {} /\ promised' = promised
    BY <2>1, <2>2 DEF Up, OpenPcs, Appending, Finish
  <2>4. CASE job.op # "release"
    <3>1. gone' = gone
      BY <2>1, <2>4 DEF Finish
    <3> QED
      BY <2>1, <2>3, <3>1, UnseenStutters
  <2>5. CASE job.op = "release"
    <3>1. gone' = gone \cup job.group /\ promised' = promised \ job.group
      BY <1>1, <2>1, <2>3, <2>5 DEF Finish, ReleaseJob
    <3>2. Contents = Pending /\ Contents' = Pending /\ Up' = Up
      BY <2>1, <2>3 DEF Contents, Pending, Stored, Up
    <3>3. Pending \cap job.group = {}
      BY <1>1, <2>1, <2>5 DEF GroupJob
    <3>4. B!Release(job.group)
      BY <2>3, <3>1, <3>2, <3>3 DEF B!Release
    <3>5. job.group \in SUBSET B!Record
      BY <1>1, Types DEF Job, Record, B!Record, TypeOK
    <3> QED
      BY <3>4, <3>5
  <2> QED
    BY <2>4, <2>5
<1> QED
  BY <1>2, <1>3, <1>4

\* Every released record that compact_manifest checkpoints lies below the count checkpointed
\* for its segment, and no later step changes that.
LEMMA CheckpointReleasesApplyStep ==
    ASSUME FiniteLaws, TypeOK, JobReady, Settled, Control, Index, AppendJob, CheckpointsSafe, FilesFlushed,
           CheckpointReleasesApply, [NextPower]_vars
    PROVE  CheckpointReleasesApply'
<1> SUFFICES ASSUME NEW c \in Checkpoints', NEW i \in dir' \cup durDir',
                    NEW r \in c.rel \cap RecordsOf(file'[i])
             PROVE  /\ i \in c.ids
                    /\ \E k \in 1 .. file'[i].synced :
                         /\ r \in file'[i].chunks[k]
                         /\ Cardinality(RecordsThrough(file'[i], k)) <= c.count[i]
  BY DEF CheckpointReleasesApply
<1>1. ASSUME c \in Checkpoints, i \in dir \cup durDir, r \in RecordsOf(file[i])
      PROVE  /\ i \in c.ids
             /\ \E k \in 1 .. file'[i].synced :
                  /\ r \in file'[i].chunks[k]
                  /\ Cardinality(RecordsThrough(file'[i], k)) <= c.count[i]
  <2>1. PICK k \in 1 .. file[i].synced :
           r \in file[i].chunks[k] /\ Cardinality(RecordsThrough(file[i], k)) <= c.count[i]
    BY <1>1 DEF CheckpointReleasesApply
  <2>2. Continues(file[i], file'[i])
    BY <1>1, FilesContinue
  <2>3. k \in 1 .. file'[i].synced /\ file'[i].chunks[k] = file[i].chunks[k]
    BY <2>2, SMT DEF Continues
  <2>4. RecordsThrough(file'[i], k) = RecordsThrough(file[i], k)
    BY <2>2, ContinuedRecords
  <2> QED
    BY <1>1, <2>1, <2>3, <2>4 DEF CheckpointReleasesApply
<1>2. CASE CheckpointRename
  <2>1. pc = "chk_rename" /\ UNCHANGED <<dir, durDir, file>> /\ chk' = CheckpointFromState
        /\ Checkpoints' = {CheckpointFromState} \cup Checkpoints
    BY <1>2 DEF CheckpointRename, Checkpoints
  <2>2. CASE c \in Checkpoints
    BY <1>1, <2>1, <2>2
  <2>3. CASE c = CheckpointFromState
    <3>1. dir = live /\ durDir = dir
      BY <2>1 DEF Index, Up, OpenPcs, Settled, EntriesSettled
    <3>2. i \in live /\ i \in SegId /\ file[i] \in File /\ RecordsOf(file[i]) \subseteq records[i]
          /\ records[i] \in SUBSET Record
      BY <2>1, <3>1, Types DEF Index, Up, OpenPcs, WritePcs
    <3>3. file[i].synced = Len(file[i].chunks) /\ DOMAIN file[i].chunks = 1 .. Len(file[i].chunks)
      BY <2>1, <3>1, <3>2, SMT DEF FilesFlushed, File
    <3>4. PICK k \in DOMAIN file[i].chunks : r \in file[i].chunks[k]
      BY <2>1 DEF RecordsOf
    <3>5. RecordsThrough(file[i], k) \subseteq RecordsOf(file[i])
      BY <3>3, <3>4, SMT DEF RecordsThrough, RecordsOf
    <3>6. Cardinality(RecordsThrough(file[i], k)) <= Cardinality(records[i])
      BY <3>2, <3>5, RecordSubsets
    <3>7. c.ids = live /\ c.count[i] = Cardinality(records[i])
      BY <2>3, <3>2 DEF CheckpointFromState
    <3> QED
      BY <2>1, <3>2, <3>3, <3>4, <3>6, <3>7
  <2> QED
    BY <2>1, <2>2, <2>3
<1>3. CASE ~CheckpointRename
  <2>1. c \in Checkpoints
    BY <1>3, CheckpointsKept
  <2>2. CASE i \in dir \cup durDir /\ r \in RecordsOf(file[i])
    BY <1>1, <2>1, <2>2
  <2>3. CASE (AppendWrite \/ CreateRename) /\ r \in job.group
    <3>1. pc \in {"append_write", "create"}
      BY <2>3 DEF AppendWrite, CreateRename
    <3>2. c = chk
      BY <2>1, <3>1 DEF Settled, EntriesSettled, Checkpoints
    <3>3. r \in Record /\ r[2] > highwater[r[1]] /\ chk.hw[r[1]] <= highwater[r[1]]
      BY <2>3, <3>1, Types, RecordSequence DEF AppendJob, WritePcs, CreatePcs, Index, Up, OpenPcs
    <3>4. r[2] <= chk.hw[r[1]]
      BY <2>1, <3>2 DEF CheckpointsSafe, UpTo
    <3> QED
      BY <3>3, <3>4, Types, RecordSequence, SMT DEF Seqno
  <2> QED
    BY <2>2, <2>3, RecordsStep
<1> QED
  BY <1>2, <1>3

=============================================================================
