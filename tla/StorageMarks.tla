---------------------------- MODULE StorageMarks ----------------------------
(***************************************************************************)
(* What the control files say of releases and of high-waters in every      *)
(* image a power loss may leave: the remaining conjuncts of RefinementInv. *)
(***************************************************************************)
EXTENDS StorageLemmas, StorageRefinement

USE Zenon

\* What the synced frames of the log say stays said.
LEMMA SyncedKept ==
    ASSUME TypeOK, Settled, UNCHANGED log \/ SyncLog \/ \E g \in Frame : AppendFrame(g),
           NEW c \in Checkpoint
    PROVE  /\ \A r : SyncedRelease(c, log, r) => SyncedRelease(c, log', r)
           /\ \A s, q : SyncedRemoval(c, log, s, q) => SyncedRemoval(c, log', s, q)
<1> SUFFICES ASSUME NEW k \in Applied(c, log), k <= log.synced
             PROVE  k \in Applied(c, log') /\ k <= log'.synced /\ log'.frames[k] = log.frames[k]
  BY DEF SyncedRelease, SyncedRemoval
<1>1. CASE UNCHANGED log
  BY <1>1
<1>2. CASE SyncLog
  <2>1. log'.frames = log.frames /\ log'.synced = Len(log.frames)
    BY <1>2, Types DEF SyncLog, Log
  <2>2. log.synced <= Len(log.frames) /\ log.synced \in Nat /\ Len(log.frames) \in Nat
    BY Types, SMT DEF Settled, Logs, Log
  <2>3. k \in Nat
    BY Types, SMT DEF Applied, Log
  <2> QED
    BY <2>1, <2>2, <2>3, SMT DEF Applied
<1>3. CASE \E g \in Frame : AppendFrame(g)
  BY <1>3, FrameAppended
<1> QED
  BY <1>1, <1>2, <1>3

\* Frames that are applied and synced are the ones that are applied.
LEMMA FlushedRelease ==
    ASSUME NEW l \in Log, l.synced = Len(l.frames), NEW c
    PROVE  \A r \in ReleasedBy(c, l) : SyncedRelease(c, l, r)
<1> SUFFICES ASSUME NEW r \in ReleasedBy(c, l) PROVE SyncedRelease(c, l, r)
  OBVIOUS
<1>1. PICK k \in Applied(c, l) : l.frames[k].kind = "release" /\ r \in l.frames[k].recs
  BY AppliedAt
<1>2. k <= l.synced
  BY SMT DEF Applied, Log
<1> QED
  BY <1>1, <1>2 DEF SyncedRelease

\* release_group flags a record only after the frame that says so is synced.
LEMMA FlagsRecoverableStep ==
    ASSUME FiniteLaws, TypeOK, JobReady, Settled, Index, AppendJob, LogFlushed, ControlExact, GroupJob,
           FlagsRecoverable, [NextPower]_vars
    PROVE  FlagsRecoverable'
<1> USE DEF FlagsRecoverable
<1>0. log \in Log /\ Checkpoints \subseteq Checkpoint
  BY DEF TypeOK, Checkpoints
<1>1. ASSUME Up, Checkpoints' \subseteq Checkpoints, logOld' \subseteq logOld,
             UNCHANGED log \/ SyncLog \/ \E g \in Frame : AppendFrame(g),
             \A i \in live' : RecordsOf(file'[i]) \cap released' # {} =>
                i \in live /\ RecordsOf(file'[i]) \cap released' \subseteq RecordsOf(file[i]) \cap released
      PROVE  FlagsRecoverable'
  <2> SUFFICES ASSUME NEW i \in live', NEW r \in RecordsOf(file'[i]) \cap released',
                      NEW c \in Checkpoints', NEW l \in Logs'
               PROVE  r \in c.rel \/ SyncedRelease(c, l, r)
    OBVIOUS
  <2>1. i \in live /\ r \in RecordsOf(file[i]) \cap released /\ c \in Checkpoints
    BY <1>1
  <2>2. CASE l \in logOld
    BY <1>1, <2>1, <2>2 DEF Logs
  <2>3. CASE l = log'
    <3>1. r \in c.rel \/ SyncedRelease(c, log, r)
      BY <1>1, <2>1 DEF Logs
    <3>2. SyncedRelease(c, log, r) => SyncedRelease(c, log', r)
      BY <1>0, <1>1, <2>1, SyncedKept
    <3> QED
      BY <2>3, <3>1, <3>2
  <2> QED
    BY <1>1, <2>2, <2>3 DEF Logs
<1>2. CASE Quiet
  <2>1. UNCHANGED <<diskVars, memVars>> /\ (Up' <=> Up)
    BY <1>2, QuietStep
  <2> QED
    BY <2>1 DEF diskVars, memVars, Checkpoints, Logs
<1>3. CASE Down
  BY <1>3, DownStep
<1>4. CASE OpenRebuild
  <2>1. /\ pc = "reseal" /\ UNCHANGED diskVars /\ live' = dir
        /\ released' = RecoveredReleased(chk, log, job.batch, dir, file)
    BY <1>4 DEF OpenRebuild
  <2>2. Checkpoints' = {chk} /\ Logs' = {log} /\ log.synced = Len(log.frames)
    BY <2>1 DEF Settled, EntriesSettled, Checkpoints, Logs, diskVars, LogFlushed
  <2>3. released' \subseteq chk.rel \cup ReleasedBy(chk, log)
    BY <2>1 DEF RecoveredReleased
  <2> QED
    BY <1>0, <2>2, <2>3, FlushedRelease
<1>5. CASE AppendWrite \/ AppendSync \/ CreateRename \/ SealFooter \/ SealSync
  <2>1. /\ Up /\ UNCHANGED <<chk, chkOld, log, logOld, live, released>>
        /\ AppendWrite \/ CreateRename => pc \in {"append_write", "create"}
    BY <1>5 DEF AppendWrite, AppendSync, CreateRename, SealFooter, SealSync, memVars, Up, OpenPcs
  <2>2. ASSUME NEW i \in live', NEW r \in RecordsOf(file'[i]) \cap released'
        PROVE  i \in live /\ r \in RecordsOf(file[i]) \cap released
    <3>1. i \in live /\ r \in released /\ i \in dir'
      BY <1>5, <2>1 DEF Index, AppendWrite, AppendSync, CreateRename, SealFooter, SealSync
    <3>2. AppendWrite \/ CreateRename => job.group \cap released = {}
      <4>1. AppendWrite \/ CreateRename => \A x \in job.group : x[2] > highwater[x[1]]
        BY <2>1 DEF AppendJob, WritePcs, CreatePcs
      <4>2. UpTo(released, highwater)
        BY <2>1 DEF Index
      <4> QED
        BY <4>1, <4>2, Types, AboveDisjoint, SMT
    <3> QED
      BY <2>2, <3>1, <3>2, RecordsStep
  <2>3. Checkpoints' \subseteq Checkpoints /\ logOld' \subseteq logOld
    BY <2>1 DEF Checkpoints
  <2> QED
    BY <1>1, <2>1, <2>2, <2>3
<1>6. CASE CreateSync
  <2>1. /\ pc = "create_sync" /\ Up /\ UNCHANGED <<chk, chkOld, log, logOld, released, file>>
        /\ live' = live \cup {nextId - 1}
    BY <1>6 DEF CreateSync, Up, OpenPcs
  <2>2. RecordsOf(file[nextId - 1]) \cap released = {}
    <3>1. RecordsOf(file[nextId - 1]) = job.group /\ \A x \in job.group : x[2] > highwater[x[1]]
      BY <2>1 DEF AppendJob, CreatePcs
    <3>2. UpTo(released, highwater)
      BY <2>1 DEF Index
    <3> QED
      BY <3>1, <3>2, Types, AboveDisjoint, SMT
  <2>3. Checkpoints' \subseteq Checkpoints /\ logOld' \subseteq logOld
    BY <2>1 DEF Checkpoints
  <2> QED
    BY <1>1, <2>1, <2>2, <2>3
<1>7. CASE SealFrame \/ ReleaseWrite \/ RemoveWrite
  <2>1. Up /\ UNCHANGED <<chk, chkOld, logOld, live, released, file>>
    BY <1>7 DEF SealFrame, ReleaseWrite, RemoveWrite, Up, OpenPcs
  <2>2. UNCHANGED log \/ \E g \in Frame : AppendFrame(g)
    BY <1>7, FrameWriteIsAppend DEF FrameWrite, ReleaseWrite
  <2>3. Checkpoints' \subseteq Checkpoints /\ logOld' \subseteq logOld
    BY <2>1 DEF Checkpoints
  <2> QED
    BY <1>1, <2>1, <2>2, <2>3
<1>8. CASE SealPublish \/ RemoveSync
  <2>1. Up /\ UNCHANGED <<chk, chkOld, logOld, live, released, file>> /\ SyncLog
    BY <1>8 DEF SealPublish, RemoveSync, Up, OpenPcs
  <2>2. Checkpoints' \subseteq Checkpoints /\ logOld' \subseteq logOld
    BY <2>1 DEF Checkpoints
  <2> QED
    BY <1>1, <2>1, <2>2
<1>9. CASE ReleaseSync
  <2>1. /\ pc = "release_sync" /\ Up /\ UNCHANGED <<chk, chkOld, logOld, live, file>> /\ SyncLog
        /\ released' = released \cup (job.group \cap Stored)
    BY <1>9 DEF ReleaseSync, Up, OpenPcs
  <2>2. Checkpoints' = {chk} /\ Logs' = {log'} /\ Checkpoints = {chk} /\ Logs = {log}
    BY <2>1 DEF Settled, EntriesSettled, Checkpoints, Logs
  <2>3. log' \in Log /\ log'.synced = Len(log'.frames) /\ ReleasedBy(chk, log') = ReleasedBy(chk, log)
    BY <1>0, <2>1, SyncLogType, LogSynced DEF SyncLog, Log
  <2>4. TodoRecords = {}
    BY <2>1, SMT DEF GroupJob, TodoRecords
  <2>5. job.group \cap Pending \subseteq ReleasedBy(chk, log)
    BY <2>1, <2>4 DEF GroupJob
  <2> SUFFICES ASSUME NEW i \in live', NEW r \in RecordsOf(file'[i]) \cap released'
               PROVE  r \in chk.rel \/ SyncedRelease(chk, log', r)
    BY <2>2
  <2>6. CASE r \in released
    <3>1. r \in chk.rel \/ SyncedRelease(chk, log, r)
      BY <2>1, <2>2, <2>6
    <3> QED
      BY <1>0, <2>1, <2>2, <3>1, SyncedKept
  <2>7. CASE r \notin released
    <3>1. r \in ReleasedBy(chk, log')
      BY <2>1, <2>3, <2>5, <2>7 DEF Pending
    <3> QED
      BY <2>3, <3>1, FlushedRelease
  <2> QED
    BY <2>6, <2>7
<1>10. CASE Delete \/ DeleteSync
  <2>1. /\ Up /\ UNCHANGED <<chk, chkOld, log, logOld, file>>
        /\ live' \subseteq live /\ released' \subseteq released
    BY <1>10 DEF Delete, DeleteSync, memVars, Up, OpenPcs
  <2> QED
    BY <2>1 DEF Checkpoints, Logs
<1>11. CASE CheckpointRename
  <2>1. /\ Up /\ UNCHANGED <<log, logOld, live, released, file>>
        /\ Checkpoints' = {CheckpointFromState} \cup Checkpoints
    BY <1>11 DEF CheckpointRename, memVars, Up, OpenPcs, Checkpoints
  <2>2. CheckpointFromState.rel = released
    BY DEF CheckpointFromState
  <2> QED
    BY <2>1, <2>2 DEF Logs
<1>12. CASE CheckpointSync \/ LogSync
  <2>1. /\ Up /\ UNCHANGED <<chk, log, live, released, file>>
        /\ Checkpoints' \subseteq Checkpoints /\ Logs' \subseteq Logs
    BY <1>12 DEF CheckpointSync, LogSync, SyncRoot, memVars, Up, OpenPcs, Checkpoints, Logs
  <2> QED
    BY <2>1
<1>13. CASE LogRename
  <2>1. pc = "log_rename" /\ Up /\ UNCHANGED <<chk, chkOld, live, released, file>>
    BY <1>13 DEF LogRename, memVars, Up, OpenPcs
  <2>2. Checkpoints' = {chk} /\ chk = CheckpointFromState
    BY <2>1 DEF Settled, EntriesSettled, Checkpoints, ControlExact
  <2>3. chk.rel = released
    BY <2>2 DEF CheckpointFromState
  <2> QED
    BY <2>1, <2>2, <2>3
<1> QED
  BY <1>2, <1>3, <1>4, <1>5, <1>6, <1>7, <1>8, <1>9, <1>10, <1>11, <1>12, <1>13, StepKinds

\* Recovery accepts records past a baseline only above the checkpoint's
\* high-waters.
LEMMA NewAboveCheckpoint ==
    ASSUME FiniteLaws, NEW c \in Checkpoint, NEW l \in Log, NEW R, NEW D \in SUBSET SegId,
           NEW f \in [SegId -> File], SequencesAdvance(c, l, R, D, f),
           NEW i \in D, NEW r \in NewRecords(c, R, i, f)
    PROVE  r[2] > c.hw[r[1]]
<1> DEFINE E == Evidence(c, l, R, D, f, r[1], i, r[2])
<1>1. r \in Record /\ r[1] \in Stream
  BY BaselineType, RecordsOfType, RecordSequence
<1>2. c.hw[r[1]] \in HighWater
  BY <1>1 DEF Checkpoint, Highwaters
<1>3. \A j \in D : NewRecords(c, R, j, f) \subseteq Record
  BY BaselineType, RecordsOfType
<1>4. {x[2] : x \in {y \in UNION {NewRecords(c, R, j, f) : j \in {k \in D : k < i}} : y[1] = r[1]}}
        \subseteq HighWater
  BY <1>3, RecordSequence
<1>5. {x[2] : x \in {y \in (IF i \in D THEN NewRecords(c, R, i, f) ELSE {}) :
                       y[1] = r[1] /\ y[2] < r[2]}} \subseteq HighWater
  BY <1>3, RecordSequence
<1>6. {g.hw[r[1]] : g \in {x \in AppliedFrames(c, l, "removed") : x.id < i}} \subseteq HighWater
  BY <1>1, FrameHighwaters, SMT
<1>7. E \subseteq HighWater /\ c.hw[r[1]] \in E
  BY <1>2, <1>4, <1>5, <1>6 DEF Evidence
<1> HIDE DEF E
<1>8. Max(E) \in HighWater /\ c.hw[r[1]] <= Max(E)
  BY <1>7, MaxHighwater
<1>9. r[2] = Max(E) + 1
  BY DEF SequencesAdvance, E
<1> QED
  BY <1>2, <1>8, <1>9, BoundsAssumption, SMT DEF HighWater, Seqno, NoSeq

\* Every release that the control files say is flagged, or is the running job's.
LEMMA FlagsCompleteStep ==
    ASSUME FiniteLaws, TypeOK, TypeOK', JobReady, Settled, Control, Index, AppendJob, ReleaseJob, CheckpointsSafe,
           ControlExact, IndexExact, GroupJob, CheckpointReleasesApply, FlagsComplete,
           [NextPower]_vars
    PROVE  FlagsComplete'
<1> DEFINE Said == chk.rel \cup ReleasedBy(chk, log)
<1> DEFINE Flags == released \cup (IF job.op = "release" THEN job.group ELSE {})
<1>0. /\ chk \in Checkpoint /\ log \in Log /\ live \subseteq SegId
      /\ Up => \A i \in live : Said \cap RecordsOf(file[i]) \subseteq Flags
  BY DEF TypeOK, FlagsComplete
<1>1. ASSUME Up' => Up, Said' \subseteq Said \/ ~Up',
             Up' => \A i \in live' : Said \cap RecordsOf(file'[i]) # {} =>
                i \in live /\ Said \cap RecordsOf(file'[i]) \subseteq RecordsOf(file[i]),
             Up' => Flags \subseteq Flags'
      PROVE  FlagsComplete'
  <2> SUFFICES ASSUME Up', NEW i \in live', NEW r \in Said' \cap RecordsOf(file'[i])
               PROVE  r \in Flags'
    BY DEF FlagsComplete
  <2>1. r \in Said /\ i \in live /\ r \in RecordsOf(file[i])
    BY <1>1
  <2>2. r \in Flags
    BY <1>0, <1>1, <2>1
  <2> QED
    BY <1>1, <2>2
<1>2. CASE Quiet
  <2>1. UNCHANGED <<diskVars, memVars>> /\ (Up' <=> Up) /\ (UNCHANGED job \/ pc \in QuietPcs)
    BY <1>2, QuietStep
  <2>2. Flags \subseteq Flags'
    BY <2>1 DEF memVars, GroupJob, QuietPcs
  <2>3. UNCHANGED <<chk, log, file, live>>
    BY <2>1 DEF diskVars, memVars
  <2>4. Said' = Said
    BY <2>3
  <2> HIDE DEF Said, Flags
  <2> QED
    BY <1>1, <2>1, <2>2, <2>3, <2>4
<1>3. CASE Down
  BY <1>3, DownStep DEF FlagsComplete
<1>4. CASE OpenRebuild
  <2>1. /\ pc = "reseal" /\ UNCHANGED diskVars /\ live' = dir
        /\ released' = RecoveredReleased(chk, log, job.batch, dir, file)
        /\ SequencesAdvance(chk, log, job.batch, dir, file)
    BY <1>4 DEF OpenRebuild
  <2> SUFFICES ASSUME NEW i \in dir, NEW r \in Said \cap RecordsOf(file[i])
               PROVE  r \in released'
    BY <2>1 DEF FlagsComplete, diskVars
  <2>2. CASE r \in ReleasedBy(chk, log)
    BY <2>1, <2>2 DEF RecoveredReleased
  <2>3. CASE r \in chk.rel
    <3>1. i \in chk.ids /\ \E k \in 1 .. file[i].synced :
            r \in file[i].chunks[k] /\ Cardinality(RecordsThrough(file[i], k)) <= chk.count[i]
      BY <2>3 DEF CheckpointReleasesApply, Checkpoints
    <3>2. /\ file[i].synced \in Nat /\ file[i].synced <= Len(file[i].chunks)
          /\ Len(file[i].chunks) \in Nat /\ DOMAIN file[i].chunks = 1 .. Len(file[i].chunks)
      BY Types, SMT DEF Settled, File
    <3>3. r \in BaselineRecords(file[i], chk.count[i])
      BY <3>1, <3>2, SMT DEF BaselineRecords
    <3>4. r \notin NewRecords(chk, job.batch, i, file)
      <4>1. SUFFICES ASSUME r \in NewRecords(chk, job.batch, i, file) PROVE FALSE
        OBVIOUS
      <4>2. r[2] > chk.hw[r[1]]
        BY <2>1, <4>1, Types, NewAboveCheckpoint
      <4>3. r[2] <= chk.hw[r[1]]
        BY <2>3 DEF CheckpointsSafe, UpTo, Checkpoints
      <4>4. r \in Record
        BY <1>0, <2>3 DEF Checkpoint
      <4> QED
        BY <4>2, <4>3, <4>4, Types, RecordSequence, SMT DEF Seqno
    <3>5. r \in Baseline(chk, job.batch, i, file)
      BY <3>4 DEF NewRecords
    <3> QED
      BY <2>1, <2>3, <3>5, SMT DEF RecoveredReleased
  <2> QED
    BY <2>2, <2>3
<1>5. CASE AppendWrite \/ AppendSync \/ CreateRename \/ CreateSync
  <2>1. /\ pc \in WritePcs \cup CreatePcs /\ Up /\ UNCHANGED <<chk, log, released>>
        /\ job.op = "append" /\ live \subseteq live'
    BY <1>5 DEF AppendWrite, AppendSync, CreateRename, CreateSync, memVars, Up, OpenPcs, WritePcs,
         CreatePcs, AppendJob
  <2>2. Said \cap job.group = {}
    <3>1. \A r \in job.group : r[2] > highwater[r[1]]
      BY <2>1 DEF AppendJob
    <3>2. UpTo(ReleasedBy(chk, log), highwater)
      BY <2>1 DEF Index
    <3>3. UpTo(chk.rel, highwater)
      <4>1. UpTo(chk.rel, chk.hw) /\ \A s \in Stream : chk.hw[s] <= highwater[s]
        BY <2>1 DEF CheckpointsSafe, Checkpoints, Index
      <4> QED
        BY <1>0, <4>1, Types, UpToRaised DEF Checkpoint
    <3>4. chk.rel \subseteq Record /\ ReleasedBy(chk, log) \subseteq Record
      BY <1>0, ReleasedByType DEF Checkpoint
    <3> QED
      BY <3>1, <3>2, <3>3, <3>4, Types, AboveDisjoint, SMT
  <2>3. ASSUME NEW i \in live', NEW r \in Said \cap RecordsOf(file'[i])
        PROVE  i \in live /\ r \in RecordsOf(file[i])
    <3>1. CASE CreateSync
      <4>1. live' = live \cup {nextId - 1} /\ UNCHANGED file /\ RecordsOf(file[nextId - 1]) = job.group
        BY <3>1 DEF CreateSync, AppendJob
      <4> QED
        BY <2>2, <2>3, <4>1
    <3>2. CASE ~CreateSync
      <4>1. i \in live /\ i \in dir'
        BY <1>5, <2>1, <3>2 DEF AppendWrite, AppendSync, CreateRename, memVars, Index
      <4> QED
        BY <2>2, <2>3, <4>1, RecordsStep
    <3> QED
      BY <3>1, <3>2
  <2>4. Said' = Said /\ Flags \subseteq Flags'
    BY <2>1
  <2> HIDE DEF Said, Flags
  <2> QED
    BY <1>1, <2>1, <2>3, <2>4
<1>6. CASE SealFooter \/ SealSync
  <2>1. Up /\ UNCHANGED <<chk, log, released, job, live>>
    BY <1>6 DEF SealFooter, SealSync, memVars, Up, OpenPcs, Goto
  <2>2. ASSUME NEW i \in live' PROVE RecordsOf(file'[i]) \subseteq RecordsOf(file[i])
    <3>1. i \in live /\ i \in dir'
      BY <1>6, <2>1 DEF SealFooter, SealSync, Index
    <3>2. ~AppendWrite /\ ~CreateRename
      BY <1>6 DEF SealFooter, SealSync, AppendWrite, CreateRename
    <3> QED
      BY <3>1, <3>2, RecordsStep
  <2>3. Said' = Said /\ Flags' = Flags
    BY <2>1
  <2> HIDE DEF Said, Flags
  <2> QED
    BY <1>1, <2>1, <2>2, <2>3
<1>7. CASE SealFrame \/ RemoveWrite
  <2>1. Up /\ UNCHANGED <<chk, released, live, file>>
    BY <1>7 DEF SealFrame, RemoveWrite, Up, OpenPcs
  <2>2. PICK g \in Frame : AppendFrame(g) /\ (g.kind = "release" => ReleaseWrite)
    BY <1>7, FrameWriteIsAppend DEF FrameWrite
  <2>3. g.kind # "release"
    BY <1>7, <2>2 DEF ReleaseWrite, SealFrame, RemoveWrite
  <2>4. ReleasedBy(chk, log') \subseteq ReleasedBy(chk, log)
    BY <1>0, <2>2, <2>3, LogWritten
  <2>5. Said' \subseteq Said
    BY <2>1, <2>4
  <2>6. job.op # "release"
    BY <1>7 DEF GroupJob, SealFrame, RemoveWrite
  <2>7. Flags \subseteq Flags'
    BY <2>1, <2>6
  <2> HIDE DEF Said, Flags
  <2> QED
    BY <1>1, <2>1, <2>5, <2>7
<1>8. CASE SealPublish \/ RemoveSync
  <2>1. Up /\ UNCHANGED <<chk, released, live, file>> /\ SyncLog
        /\ pc \in {"seal_publish", "remove_sync"}
    BY <1>8 DEF SealPublish, RemoveSync, Up, OpenPcs
  <2>2. Said' = Said
    BY <2>1, LogSynced
  <2>3. job.op # "release"
    BY <2>1 DEF GroupJob
  <2>4. Flags \subseteq Flags'
    BY <2>1, <2>3
  <2> HIDE DEF Said, Flags
  <2> QED
    BY <1>1, <2>1, <2>2, <2>4
<1>9. CASE ReleaseWrite
  <2>1. /\ pc = "release_write" /\ Up /\ UNCHANGED <<chk, released, live, file>>
        /\ job.todo # << >> /\ job' = [job EXCEPT !.todo = Tail(@)]
        /\ UNCHANGED log \/ AppendFrame(ReleaseFrame(Head(job.todo)))
    BY <1>9 DEF ReleaseWrite, Up, OpenPcs, JobReady
  <2>2. job.op = "release" /\ job'.op = "release" /\ job'.group = job.group
        /\ Head(job.todo) \subseteq job.group /\ Head(job.todo) \in SUBSET Record
    BY <2>1, TodoTail, TodoSplit DEF ReleaseJob, Chunk
  <2>3. ReleasedBy(chk, log') \subseteq ReleasedBy(chk, log) \cup job.group
    <3>1. CASE UNCHANGED log
      BY <3>1
    <3>2. CASE AppendFrame(ReleaseFrame(Head(job.todo)))
      <4>1. ReleaseFrame(Head(job.todo)) \in Frame
        BY <2>2, FrameTypes
      <4>2. ReleaseFrame(Head(job.todo)).recs = Head(job.todo)
        BY DEF ReleaseFrame
      <4> QED
        BY <1>0, <2>2, <3>2, <4>1, <4>2, LogWritten
    <3> QED
      BY <2>1, <3>1, <3>2
  <2> QED
    BY <1>0, <2>1, <2>2, <2>3 DEF FlagsComplete
<1>10. CASE ReleaseSync
  <2>1. /\ pc = "release_sync" /\ Up /\ UNCHANGED <<chk, live, file>> /\ SyncLog
        /\ released' = released \cup (job.group \cap Stored)
    BY <1>10 DEF ReleaseSync, Up, OpenPcs
  <2>2. ReleasedBy(chk, log') = ReleasedBy(chk, log)
    BY <2>1, LogSynced
  <2>3. \A i \in live : RecordsOf(file[i]) \subseteq Stored
    BY <2>1 DEF Index, WritePcs, Stored
  <2> QED
    BY <1>0, <2>1, <2>2, <2>3 DEF FlagsComplete
<1>11. CASE Delete
  <2>1. PICK d \in job.left : live' = live \ {d} /\ released' = released \ records[d]
    BY <1>11 DEF Delete
  <2>2. pc = "delete" /\ Up /\ UNCHANGED <<chk, log, file>> /\ job.op # "release"
    BY <1>11 DEF Delete, Up, OpenPcs, GroupJob
  <2>3. ASSUME NEW i \in live', NEW r \in Said \cap RecordsOf(file[i]) PROVE r \in released'
    <3>1. r \in released
      BY <1>0, <2>1, <2>2, <2>3
    <3>2. r \in records[i]
      BY <2>1, <2>2, <2>3 DEF Index, WritePcs
    <3>3. r \notin records[d]
      <4>1. CASE d \in live
        BY <2>1, <2>2, <3>2, <4>1 DEF IndexExact
      <4>2. CASE d \notin live
        BY <2>2, <4>2, Types DEF IndexExact
      <4> QED
        BY <4>1, <4>2
    <3> QED
      BY <2>1, <3>1, <3>3
  <2> QED
    BY <2>2, <2>3 DEF FlagsComplete
<1>12. CASE DeleteSync \/ CheckpointSync
  <2>1. Up /\ UNCHANGED <<chk, log, live, released, file, job>>
    BY <1>12 DEF DeleteSync, CheckpointSync, memVars, Up, OpenPcs, Goto
  <2> QED
    BY <1>0, <2>1 DEF FlagsComplete
<1>13. CASE CheckpointRename
  <2>1. /\ pc = "chk_rename" /\ chk' = CheckpointFromState /\ UNCHANGED <<log, released>>
    BY <1>13 DEF CheckpointRename, memVars
  <2>2. chk'.rel = released /\ chk'.last = lastSeq /\ chk' \in Checkpoint
    BY <2>1, Types DEF CheckpointFromState, TypeOK
  <2>3. ReleasedBy(chk', log') = {}
    BY <1>0, <2>1, <2>2, NothingApplied DEF Control
  <2> QED
    BY <2>1, <2>2, <2>3 DEF FlagsComplete
<1>14. CASE LogRename
  <2>1. /\ pc = "log_rename" /\ UNCHANGED <<chk, released>>
        /\ log' = [base |-> lastSeq + 1, frames |-> << >>, synced |-> 0]
    BY <1>14 DEF LogRename, memVars
  <2>2. chk.rel = released
    BY <2>1, SMT DEF ControlExact, CheckpointFromState
  <2>3. ReleasedBy(chk, log') = {}
    BY <2>1, SMT DEF ReleasedBy, AppliedFrames, Applied
  <2> QED
    BY <2>1, <2>2, <2>3 DEF FlagsComplete
<1>15. CASE LogSync
  <2>1. pc = "log_sync" /\ Up /\ UNCHANGED <<chk, log, live, released, file, records>>
    BY <1>15 DEF LogSync, Up, OpenPcs
  <2>2. \A i \in live : RecordsOf(file[i]) \subseteq Stored
    BY <2>1 DEF Index, WritePcs, Stored
  <2>3. job.op = "release" => job.group \cap Pending = {}
    BY <2>1 DEF GroupJob
  <2> QED
    BY <1>0, <2>1, <2>2, <2>3 DEF FlagsComplete, Pending
<1> QED
  BY <1>2, <1>3, <1>4, <1>5, <1>6, <1>7, <1>8, <1>9, <1>10, <1>11, <1>12, <1>13, <1>14, <1>15,
     StepKinds

\* A recovered high-water is one of the checkpoint, of a record, or of a
\* removal frame, and is no smaller than any of them.
LEMMA HighwaterSources ==
    ASSUME FiniteLaws, NEW c \in Checkpoint, NEW l \in Log, NEW R, NEW D \in SUBSET SegId,
           NEW f \in [SegId -> File], NEW s \in Stream
    PROVE  /\ \A k \in Applied(c, l) : l.frames[k].kind = "removed" =>
                 l.frames[k].hw[s] <= RecoveredHighwater(c, l, R, D, f)[s]
           /\ \/ RecoveredHighwater(c, l, R, D, f)[s] = c.hw[s]
              \/ \E i \in D : \E r \in RecordsOf(f[i]) :
                   r[1] = s /\ r[2] = RecoveredHighwater(c, l, R, D, f)[s]
              \/ \E k \in Applied(c, l) :
                   l.frames[k].kind = "removed" /\ l.frames[k].hw[s] = RecoveredHighwater(c, l, R, D, f)[s]
<1> DEFINE q     == RecoveredHighwater(c, l, R, D, f)[s]
           News  == UNION {NewRecords(c, R, i, f) : i \in D}
           Seqs  == {r[2] : r \in {x \in News : x[1] = s}}
           Marks == {g.hw[s] : g \in AppliedFrames(c, l, "removed")}
           S     == {c.hw[s]} \cup Seqs \cup Marks
<1>1. c.hw[s] \in HighWater
  BY DEF Checkpoint, Highwaters
<1>2. News \subseteq Record
  BY BaselineType, RecordsOfType, SMT
<1>3. Seqs \subseteq HighWater
  BY <1>2, RecordSequence
<1>4. Marks \subseteq HighWater
  BY FrameHighwaters, SMT
<1>5. q = Max(S)
  BY DEF RecoveredHighwater
<1>6. \A k \in Applied(c, l) : l.frames[k].kind = "removed" => l.frames[k].hw[s] \in Marks
  BY DEF AppliedFrames
<1>7. \A m \in Marks : \E k \in Applied(c, l) : l.frames[k].kind = "removed" /\ m = l.frames[k].hw[s]
  BY DEF AppliedFrames
<1>8. \A m \in Seqs : \E i \in D : \E r \in RecordsOf(f[i]) : r[1] = s /\ r[2] = m
  BY BaselineType, SMT
<1>9. S \in SUBSET HighWater /\ S # {}
  BY <1>1, <1>3, <1>4
<1>10. Marks \subseteq S /\ \A m \in S : m = c.hw[s] \/ m \in Seqs \/ m \in Marks
  OBVIOUS
<1> HIDE DEF S, Seqs, Marks, q
<1>11. q \in S /\ \A m \in S : m <= q
  BY <1>5, <1>9, MaxHighwater
<1>12. /\ \A k \in Applied(c, l) : l.frames[k].kind = "removed" => l.frames[k].hw[s] <= q
       /\ \/ q = c.hw[s]
          \/ \E i \in D : \E r \in RecordsOf(f[i]) : r[1] = s /\ r[2] = q
          \/ \E k \in Applied(c, l) : l.frames[k].kind = "removed" /\ l.frames[k].hw[s] = q
  BY <1>6, <1>7, <1>8, <1>10, <1>11
<1> QED
  BY <1>12 DEF q

\* The same, of a value that is the recovered high-water.
LEMMA HighwaterOrigin ==
    ASSUME FiniteLaws, NEW c \in Checkpoint, NEW l \in Log, NEW R, NEW D \in SUBSET SegId,
           NEW f \in [SegId -> File], NEW s \in Stream,
           NEW m, m = RecoveredHighwater(c, l, R, D, f)[s]
    PROVE  \/ m = c.hw[s]
           \/ \E i \in D : \E r \in RecordsOf(f[i]) : r[1] = s /\ r[2] = m
           \/ \E k \in Applied(c, l) : l.frames[k].kind = "removed" /\ l.frames[k].hw[s] = m
BY HighwaterSources, SMT

\* A persisted high-water comes from the checkpoint or from a removal frame.
LEMMA PersistedSources ==
    ASSUME FiniteLaws, NEW c \in Checkpoint, NEW l \in Log, NEW s \in Stream, NEW q,
           q = RecoveredPersisted(c, l)[s]
    PROVE  \/ q = c.hw[s]
           \/ \E k \in Applied(c, l) : l.frames[k].kind = "removed" /\ q = l.frames[k].hw[s]
<1> DEFINE Marks == {g.hw[s] : g \in AppliedFrames(c, l, "removed")}
           S     == {c.hw[s]} \cup Marks
<1>1. c.hw[s] \in HighWater
  BY DEF Checkpoint, Highwaters
<1>2. Marks \subseteq HighWater
  BY FrameHighwaters
<1>3. q = Max(S)
  BY DEF RecoveredPersisted
<1>4. \A m \in Marks : \E k \in Applied(c, l) : l.frames[k].kind = "removed" /\ m = l.frames[k].hw[s]
  BY DEF AppliedFrames
<1>5. S \in SUBSET HighWater /\ S # {}
  BY <1>1, <1>2
<1>6. \A m \in S : m = c.hw[s] \/ m \in Marks
  OBVIOUS
<1> HIDE DEF S, Marks
<1>7. q \in S
  BY <1>3, <1>5, MaxHighwater
<1> QED
  BY <1>4, <1>6, <1>7

\* A removal frame of reclaim_batch carries a stream's greatest sequence of the
\* segment, unless what is persisted or an earlier segment of the batch has one
\* as great.
LEMMA RemovalMark ==
    ASSUME FiniteLaws, TypeOK, NEW i \in SegId, NEW batch \in SUBSET SegId, NEW r \in records[i]
    PROVE  \/ r[2] <= RemovalHighwaters(i, batch)[r[1]]
           \/ r[2] <= persisted[r[1]]
           \/ \E j \in batch : j < i /\ \E x \in records[j] : x[1] = r[1] /\ r[2] <= x[2]
<1> DEFINE s     == r[1]
           mine  == {y[2] : y \in {x \in records[i] : x[1] = s}}
           below == {y[2] : y \in {x \in UNION {records[j] : j \in {k \in batch : k < i}} : x[1] = s}}
           prior == {persisted[s]} \cup below
<1>1. /\ records[i] \subseteq Record /\ \A j \in batch : records[j] \subseteq Record
      /\ s \in Stream /\ persisted[s] \in HighWater
  BY RecordSequence DEF TypeOK, Highwaters
<1>2. mine \in SUBSET HighWater /\ r[2] \in mine
  BY <1>1, RecordSequence
<1>3. below \in SUBSET HighWater
  BY <1>1, RecordSequence
<1>4. RemovalHighwaters(i, batch)[s] = IF mine # {} /\ Max(mine) > Max(prior) THEN Max(mine) ELSE NoSeq
  BY <1>1 DEF RemovalHighwaters
<1>5. \A m \in below : \E j \in batch : j < i /\ \E x \in records[j] : x[1] = s /\ x[2] = m
  OBVIOUS
<1>6. prior \in SUBSET HighWater /\ prior # {}
  BY <1>1, <1>3
<1>7. \A m \in prior : m = persisted[s] \/ m \in below
  OBVIOUS
<1> HIDE DEF mine, below, prior
<1>8. r[2] <= Max(mine) /\ Max(mine) \in HighWater
  BY <1>2, MaxHighwater
<1>9. Max(prior) \in HighWater /\ Max(prior) \in prior
  BY <1>6, MaxHighwater
<1>10. CASE Max(mine) > Max(prior)
  BY <1>2, <1>4, <1>8, <1>10
<1>11. CASE ~(Max(mine) > Max(prior))
  <2>1. r[2] \in HighWater
    BY <1>2
  <2>2. r[2] <= Max(prior)
    BY <1>8, <1>9, <1>11, <2>1, BoundsAssumption, SMT DEF HighWater, Seqno, NoSeq
  <2> QED
    BY <1>5, <1>7, <1>9, <2>2
<1> QED
  BY <1>10, <1>11

\* Log l says about checkpoint c, up to frame k, what log m says.
SameUpTo(c, m, l, k) ==
    /\ k \in Applied(c, m) /\ l.frames[k] = m.frames[k]
    /\ \A j \in Applied(c, m) : j <= k => j \in Applied(c, l) /\ l.frames[j] = m.frames[j]

\* A frame that an image of the control files applies after a step was applied
\* before it, after the same frames, or the step has written it.
LEMMA FramesStep ==
    ASSUME FiniteLaws, TypeOK, JobReady, Settled, Control, [NextPower]_vars,
           NEW c \in Checkpoints', NEW l \in Logs', NEW k \in Applied(c, l)
    PROVE  /\ c \in Checkpoints
           /\ \/ \E m \in Logs : SameUpTo(c, m, l, k)
              \/ /\ k = Len(log.frames) + 1 /\ l = log'
                 /\ \E g \in Frame : /\ FrameWrite /\ AppendFrame(g)
                                     /\ l.frames[k] = [g EXCEPT !.seq = lastSeq + 1]
                                     /\ g.kind = "removed" => RemoveWrite
<1> USE DEF SameUpTo
<1>0. log \in Log /\ Checkpoints \subseteq Checkpoint
  BY DEF TypeOK, Checkpoints
<1>1. c \in Checkpoints
  <2>1. CASE ~CheckpointRename
    BY <2>1, CheckpointsKept
  <2>2. CASE CheckpointRename
    <3>1. /\ pc = "chk_rename" /\ Logs' = Logs
          /\ Checkpoints' = {CheckpointFromState} \cup Checkpoints
      BY <2>2 DEF CheckpointRename, Checkpoints, Logs
    <3>2. l = log
      BY <3>1 DEF Settled, EntriesSettled, Logs
    <3>3. \A j \in DOMAIN log.frames : log.frames[j].seq <= lastSeq /\ log.frames[j].seq \in Nat
      <4>1. \A j \in DOMAIN log.frames : log.frames[j] \in Frame
        BY <1>0, SMT DEF Log
      <4>2. \A j \in DOMAIN log.frames : log.frames[j].seq <= lastSeq
        BY <3>1 DEF Control
      <4> QED
        BY <4>1, <4>2 DEF Frame
    <3>4. lastSeq \in Nat /\ CheckpointFromState.last = lastSeq
      BY Types DEF CheckpointFromState
    <3>5. Applied(CheckpointFromState, log) = {}
      BY <3>3, <3>4, SMT DEF Applied
    <3> QED
      BY <3>1, <3>2, <3>5
  <2> QED
    BY <2>1, <2>2
<1>2. ASSUME NEW m \in Logs, l.frames = m.frames PROVE \E n \in Logs : SameUpTo(c, n, l, k)
  <2>1. Applied(c, l) = Applied(c, m)
    BY <1>2 DEF Applied
  <2> QED
    BY <1>2, <2>1
<1>3. CASE LogRename
  <2>1. Logs' = {log'} \cup Logs /\ log'.frames = << >>
    BY <1>3 DEF LogRename, Logs
  <2>2. l \in Logs
    BY <2>1, SMT DEF Applied
  <2> QED
    BY <1>1, <1>2, <2>2
<1>4. CASE PowerLoss
  <2>1. l = log'
    BY <1>4 DEF PowerLoss, Logs
  <2>2. PICK m \in Logs : /\ m \in Log /\ log'.synced \in Nat
                          /\ DOMAIN log'.frames = {j \in DOMAIN m.frames : j <= log'.synced}
                          /\ \A j \in DOMAIN log'.frames : log'.frames[j] = m.frames[j]
    BY <1>4, PowerLossLog
  <2>3. k \in DOMAIN m.frames /\ k <= log'.synced /\ DOMAIN m.frames \subseteq Nat
    BY <2>1, <2>2, SMT DEF Applied, Log
  <2>4. \A j \in DOMAIN m.frames : j <= k => j \in DOMAIN log'.frames
    BY <2>2, <2>3, SMT
  <2>5. SameUpTo(c, m, l, k)
    BY <2>1, <2>2, <2>3, <2>4 DEF Applied
  <2> QED
    BY <1>1, <2>5
<1>5. CASE ~LogRename /\ ~PowerLoss
  <2>1. logOld' \subseteq logOld
    BY <1>5, OldLogsKept
  <2>2. CASE l \in logOld
    BY <1>1, <1>2, <2>2 DEF Logs
  <2>3. CASE l = log' /\ FrameWrite
    <3>1. PICK g \in Frame : AppendFrame(g) /\ (g.kind = "removed" => RemoveWrite)
      BY <2>3, FrameWriteIsAppend
    <3>2. /\ \A j \in 1 .. Len(log.frames) : log'.frames[j] = log.frames[j]
          /\ log'.frames[Len(log.frames) + 1] = [g EXCEPT !.seq = lastSeq + 1]
          /\ \A j \in Applied(c, log) : j \in Applied(c, log') /\ log'.frames[j] = log.frames[j]
          /\ \A j \in Applied(c, log') : j \in Applied(c, log) \/ j = Len(log.frames) + 1
      BY <1>0, <1>1, <3>1, FrameAppended
    <3>3. CASE k \in Applied(c, log)
      BY <1>1, <2>3, <3>2, <3>3 DEF Logs
    <3>4. CASE k = Len(log.frames) + 1
      BY <1>1, <2>3, <3>1, <3>2, <3>4
    <3> QED
      BY <2>3, <3>2, <3>3, <3>4
  <2>4. CASE l = log' /\ ~FrameWrite
    <3>1. log'.frames = log.frames
      BY <1>5, <2>4, FramesKept, SyncLogType
    <3> QED
      BY <1>1, <1>2, <2>4, <3>1 DEF Logs
  <2> QED
    BY <2>1, <2>2, <2>3, <2>4 DEF Logs
<1> QED
  BY <1>3, <1>4, <1>5

\* A removal frame is written only with high-waters that cover the segment it removes.
LEMMA RemovalsCoveredStep ==
    ASSUME FiniteLaws, TypeOK, JobReady, Settled, Control, Index, AppendJob, ReclaimJob, ControlExact,
           IndexExact, RemovalJob, PersistedRecoverable, RemovalsCovered, [NextPower]_vars
    PROVE  RemovalsCovered'
<1> SUFFICES ASSUME NEW c \in Checkpoints', NEW l \in Logs', NEW k \in Applied(c, l),
                    l.frames[k].kind = "removed", l.frames[k].id \in dir' \cup durDir',
                    NEW r \in RecordsOf(file'[l.frames[k].id])
             PROVE  \/ r[2] <= c.hw[r[1]]
                    \/ \E j \in Applied(c, l) :
                         j <= k /\ l.frames[j].kind = "removed" /\ r[2] <= l.frames[j].hw[r[1]]
  BY DEF RemovalsCovered
<1> DEFINE i == l.frames[k].id
<1>0. c \in Checkpoint /\ chk \in Checkpoint /\ log \in Log
  BY FramesStep DEF TypeOK, Checkpoints
<1>1. CASE \E m \in Logs : SameUpTo(c, m, l, k)
  <2>1. PICK m \in Logs : SameUpTo(c, m, l, k)
    BY <1>1
  <2>2. k \in Applied(c, m) /\ m.frames[k] = l.frames[k] /\ c \in Checkpoints
    BY <2>1, FramesStep DEF SameUpTo
  <2>3. CASE i \in dir \cup durDir /\ r \in RecordsOf(file[i])
    <3>1. \/ r[2] <= c.hw[r[1]]
          \/ \E j \in Applied(c, m) :
               j <= k /\ m.frames[j].kind = "removed" /\ r[2] <= m.frames[j].hw[r[1]]
      BY <2>2, <2>3, ZenonT(30) DEF RemovalsCovered
    <3> QED
      BY <2>1, <3>1 DEF SameUpTo
  <2>4. CASE (AppendWrite \/ CreateRename) /\ r \in job.group
    <3>1. pc \in {"append_write", "create"} /\ Up
      BY <2>4 DEF AppendWrite, CreateRename, Up, OpenPcs
    <3>2. c = chk /\ m = log
      BY <2>2, <3>1 DEF Settled, EntriesSettled, Checkpoints, Logs
    <3>3. i \in RemovedIds(chk, log)
      BY <2>2, <3>2, AppliedAt, SMT
    <3>4. RemovedIds(chk, log) \cap dir = {} /\ durDir = dir
      BY <3>1, NothingRemoved DEF WritePcs, CreatePcs
    <3>5. i < nextId
      BY <3>1, <3>3 DEF Control
    <3>6. dir' \cup durDir' \subseteq dir \cup {nextId}
      BY <2>4, <3>4 DEF AppendWrite, CreateRename
    <3> QED
      BY <3>3, <3>4, <3>5, <3>6, Types, SMTT(20)
  <2> QED
    BY <2>3, <2>4, RecordsStep
<1>2. CASE /\ k = Len(log.frames) + 1 /\ l = log' /\ c \in Checkpoints
           /\ \E g \in Frame : /\ FrameWrite /\ AppendFrame(g)
                               /\ l.frames[k] = [g EXCEPT !.seq = lastSeq + 1]
                               /\ g.kind = "removed" => RemoveWrite
  <2>1. RemoveWrite
    BY <1>2 DEF Frame
  <2>2. PICK d \in job.left : /\ Least(d, job.left)
                              /\ AppendFrame(RemovedFrame(d, RemovalHighwaters(d, job.batch)))
    BY <2>1 DEF RemoveWrite
  <2>3. /\ pc = "remove_write" /\ Up /\ UNCHANGED <<dir, durDir, file>>
    BY <2>1 DEF RemoveWrite, Up, OpenPcs
  <2>4. c = chk /\ Checkpoints = {chk} /\ Logs = {log} /\ durDir = dir
    BY <1>2, <2>3 DEF Settled, EntriesSettled, Checkpoints, Logs
  <2>5. d \in SegId /\ job.batch \in SUBSET SegId
    BY Types DEF Job
  <2> DEFINE g == RemovedFrame(d, RemovalHighwaters(d, job.batch))
  <2>6. g \in Frame
    BY <2>5, RemovalHighwatersType, FrameTypes
  <2>7. g.kind = "removed" /\ g.id = d /\ g.hw = RemovalHighwaters(d, job.batch)
    BY DEF RemovedFrame
  <2>8. /\ l.frames[k] = [g EXCEPT !.seq = lastSeq + 1]
        /\ \A j \in Applied(chk, log) : /\ j \in Applied(chk, l) /\ l.frames[j] = log.frames[j]
                                        /\ j \in DOMAIN log.frames
        /\ DOMAIN log.frames = 1 .. Len(log.frames) /\ Len(log.frames) \in Nat
    BY <1>0, <1>2, <2>2, <2>6, FrameAppended DEF Applied
  <2>9. i = d /\ l.frames[k].hw = RemovalHighwaters(d, job.batch)
    <3> HIDE DEF g
    <3> QED
      BY <2>6, <2>7, <2>8 DEF Frame
  <2>10. job.batch \subseteq live /\ dir = live /\ d \in live
    BY <2>3, <2>9 DEF RemovalJob, ReclaimJob, ReclaimPcs, Removing, Index
  <2>11. r \in records[d] /\ r \in Record
    BY <2>3, <2>5, <2>9, <2>10, Types DEF Index, WritePcs
  <2>12. ASSUME NEW q \in HighWater, r[2] <= q,
                q <= chk.hw[r[1]] \/ \E j \in Applied(chk, log) :
                   log.frames[j].kind = "removed" /\ q <= log.frames[j].hw[r[1]]
         PROVE  \/ r[2] <= chk.hw[r[1]]
                \/ \E j \in Applied(c, l) :
                     j <= k /\ l.frames[j].kind = "removed" /\ r[2] <= l.frames[j].hw[r[1]]
    <3>1. r[2] \in Int /\ q \in Int /\ r[1] \in Stream /\ chk.hw[r[1]] \in Int
      BY <2>11, Types, RecordSequence, BoundsAssumption, SMT DEF HighWater, Seqno, NoSeq
    <3>2. CASE q <= chk.hw[r[1]]
      BY <2>12, <3>1, <3>2, SMTT(20)
    <3>3. CASE \E j \in Applied(chk, log) :
                   log.frames[j].kind = "removed" /\ q <= log.frames[j].hw[r[1]]
      <4>1. PICK j \in Applied(chk, log) :
                   log.frames[j].kind = "removed" /\ q <= log.frames[j].hw[r[1]]
        BY <3>3
      <4>2. log.frames[j].hw[r[1]] \in Int
        <5>1. log.frames[j] \in Frame
          BY <1>0, <2>8, SMT DEF Log
        <5>2. log.frames[j].hw[r[1]] \in HighWater
          BY <3>1, <5>1 DEF Frame, Highwaters
        <5> QED
          BY <5>2, BoundsAssumption, SMT DEF HighWater, Seqno, NoSeq
      <4>3. j <= k
        BY <1>2, <2>8, SMT
      <4> QED
        <5>1. r[2] <= log.frames[j].hw[r[1]]
          BY <2>12, <3>1, <4>1, <4>2, SMTT(20)
        <5> QED
          BY <2>4, <2>8, <4>1, <4>3, <5>1, Zenon
    <3> QED
      BY <2>12, <3>2, <3>3
  <2>13. CASE r[2] <= RemovalHighwaters(d, job.batch)[r[1]]
    <3>1. chk.last <= lastSeq
      BY <2>3 DEF ControlExact
    <3>2. k \in Applied(chk, l)
      BY <2>4
    <3>3. k \in Nat
      BY <1>2, <2>8, SMT
    <3> QED
      BY <2>4, <2>9, <2>13, <3>2, <3>3, SMT
  <2>14. CASE r[2] <= persisted[r[1]]
    <3>1. r[1] \in Stream /\ persisted[r[1]] \in HighWater
      BY <2>11, RecordSequence DEF TypeOK, Highwaters
    <3>2. persisted[r[1]] <= chk.hw[r[1]] \/ SyncedRemoval(chk, log, r[1], persisted[r[1]])
      BY <2>3, <2>4, <3>1 DEF PersistedRecoverable
    <3> QED
      BY <2>4, <2>12, <2>14, <3>1, <3>2 DEF SyncedRemoval
  <2>15. CASE \E j \in job.batch : j < d /\ \E x \in records[j] : x[1] = r[1] /\ r[2] <= x[2]
    <3>1. PICK j \in job.batch : j < d /\ \E x \in records[j] : x[1] = r[1] /\ r[2] <= x[2]
      BY <2>15
    <3>2. PICK x \in records[j] : x[1] = r[1] /\ r[2] <= x[2]
      BY <3>1
    <3>3. j \notin job.left
      BY <2>2, <2>5, <3>1, SMT DEF Least, SegId
    <3>4. j \in RemovedIds(chk, log)
      BY <2>3, <3>1, <3>3 DEF RemovalJob
    <3>5. PICK n \in Applied(chk, log) : log.frames[n].kind = "removed" /\ log.frames[n].id = j
      BY <3>4, AppliedAt, SMT
    <3>6. x \in RecordsOf(file[j]) /\ j \in dir /\ x \in Record
      BY <2>3, <2>5, <2>10, <3>1, <3>2, Types DEF IndexExact
    <3>7. x[2] <= chk.hw[x[1]] \/ \E t \in Applied(chk, log) :
             log.frames[t].kind = "removed" /\ x[2] <= log.frames[t].hw[x[1]]
      BY <2>4, <3>5, <3>6 DEF RemovalsCovered
    <3>8. x[2] \in HighWater
      BY <3>6, RecordSequence
    <3> QED
      BY <2>4, <2>12, <3>2, <3>7, <3>8
  <2> QED
    BY <2>5, <2>11, <2>13, <2>14, <2>15, RemovalMark
<1> QED
  BY <1>1, <1>2, FramesStep

\* persisted_highwater moves only to what was synced.
LEMMA PersistedRecoverableStep ==
    ASSUME FiniteLaws, TypeOK, JobReady, Settled, Index, LogFlushed, ControlExact, IndexExact, RemovalJob,
           RemovalsCovered, PersistedRecoverable, [NextPower]_vars
    PROVE  PersistedRecoverable'
<1>0. /\ log \in Log /\ chk \in Checkpoint /\ Checkpoints \subseteq Checkpoint
      /\ \A s \in Stream : /\ highwater[s] \in Int /\ persisted[s] \in Int
                           /\ persisted[s] \in HighWater
  BY BoundsAssumption, SMT DEF TypeOK, Checkpoints, Highwaters, HighWater, Seqno, NoSeq
<1>1. ASSUME Up, UNCHANGED persisted, \A s \in Stream : highwater[s] <= highwater'[s] /\ highwater'[s] \in Int,
             Checkpoints' \subseteq Checkpoints, logOld' \subseteq logOld,
             UNCHANGED log \/ SyncLog \/ \E g \in Frame : AppendFrame(g)
      PROVE  PersistedRecoverable'
  <2>1. ASSUME NEW s \in Stream PROVE persisted'[s] <= highwater'[s]
    BY <1>0, <1>1, SMT DEF PersistedRecoverable
  <2>2. ASSUME NEW s \in Stream, NEW c \in Checkpoints', NEW l \in Logs'
        PROVE  persisted'[s] <= c.hw[s] \/ SyncedRemoval(c, l, s, persisted'[s])
    <3>1. CASE l \in logOld
      BY <1>1, <3>1 DEF PersistedRecoverable, Logs
    <3>2. CASE l = log'
      <4>1. persisted[s] <= c.hw[s] \/ SyncedRemoval(c, log, s, persisted[s])
        BY <1>1 DEF PersistedRecoverable, Logs
      <4>2. SyncedRemoval(c, log, s, persisted[s]) => SyncedRemoval(c, log', s, persisted[s])
        BY <1>0, <1>1, SyncedKept
      <4> QED
        BY <1>1, <3>2, <4>1, <4>2
    <3> QED
      BY <1>1, <3>1, <3>2 DEF Logs
  <2> QED
    BY <2>1, <2>2 DEF PersistedRecoverable
<1>2. CASE Quiet
  <2>1. UNCHANGED <<chk, chkOld, log, logOld, persisted, highwater>> /\ (Up' <=> Up)
    BY <1>2, QuietStep DEF diskVars, memVars
  <2>2. Checkpoints' = Checkpoints /\ Logs' = Logs
    BY <2>1 DEF Checkpoints, Logs
  <2> QED
    BY <2>1, <2>2 DEF PersistedRecoverable
<1>3. CASE Down
  BY <1>3, DownStep DEF PersistedRecoverable
<1>4. CASE OpenRebuild
  <2>1. /\ pc = "reseal" /\ UNCHANGED diskVars
        /\ highwater' = RecoveredHighwater(chk, log, job.batch, dir, file)
        /\ persisted' = RecoveredPersisted(chk, log)
    BY <1>4 DEF OpenRebuild
  <2>2. Checkpoints' = {chk} /\ Logs' = {log} /\ log.synced = Len(log.frames)
    BY <2>1 DEF Settled, EntriesSettled, Checkpoints, Logs, diskVars, LogFlushed
  <2>3. highwater' \in Highwaters /\ \A s \in Stream : chk.hw[s] <= highwater'[s]
    BY <2>1, Types, RecoveredHighwaterFacts
  <2> SUFFICES ASSUME NEW s \in Stream
               PROVE  /\ persisted'[s] <= highwater'[s]
                      /\ persisted'[s] <= chk.hw[s] \/ SyncedRemoval(chk, log, s, persisted'[s])
    BY <2>2 DEF PersistedRecoverable
  <2>4. persisted' \in Highwaters
    BY <1>0, <2>1, RecoveredPersistedType
  <2>5. persisted'[s] \in Int
    BY <2>4, BoundsAssumption, SMT DEF Highwaters, HighWater, Seqno, NoSeq
  <2>6. CASE persisted'[s] = chk.hw[s]
    BY <2>3, <2>5, <2>6, SMT
  <2>7. CASE persisted'[s] # chk.hw[s]
    <3>1. PICK k \in Applied(chk, log) :
             log.frames[k].kind = "removed" /\ persisted'[s] = log.frames[k].hw[s]
      BY <1>0, <2>1, <2>7, PersistedSources, SMT
    <3>2. log.frames[k].hw[s] <= highwater'[s]
      BY <2>1, <3>1, Types, HighwaterSources
    <3>3. k <= log.synced
      BY <1>0, <2>2, SMT DEF Applied, Log
    <3> QED
      BY <2>5, <3>1, <3>2, <3>3, SMT DEF SyncedRemoval
  <2> QED
    BY <2>6, <2>7
<1>5. CASE AppendSync \/ CreateSync
  <2>1. /\ Up /\ UNCHANGED <<chk, chkOld, log, logOld, persisted>>
        /\ \E a \in SegId : IndexDurableRecords(a)
    BY <1>5, CreateSyncType
       DEF AppendSync, CreateSync, Up, OpenPcs, JobReady, WritePcs, TypeOK
  <2>2. highwater' \in Highwaters /\ \A s \in Stream : highwater[s] <= highwater'[s]
    BY <2>1, IndexDurableRecordsType
  <2>3. \A s \in Stream : highwater'[s] \in Int
    BY <2>2, BoundsAssumption, SMT DEF Highwaters, HighWater, Seqno, NoSeq
  <2>4. Checkpoints' \subseteq Checkpoints /\ logOld' \subseteq logOld
    BY <2>1 DEF Checkpoints
  <2> QED
    BY <1>1, <2>1, <2>2, <2>3, <2>4
<1>6. CASE \/ AppendWrite \/ CreateRename \/ SealFooter \/ SealSync \/ SealFrame \/ SealPublish
           \/ ReleaseWrite \/ ReleaseSync \/ RemoveWrite \/ Delete \/ DeleteSync \/ CheckpointSync
  <2>1. /\ Up /\ UNCHANGED <<persisted, highwater, chk>>
        /\ chkOld' \subseteq chkOld /\ logOld' \subseteq logOld
    BY <1>6 DEF AppendWrite, CreateRename, SealFooter, SealSync, SealFrame, SealPublish,
         ReleaseWrite, ReleaseSync, RemoveWrite, Delete, DeleteSync, CheckpointSync, SyncRoot,
         memVars, Up, OpenPcs
  <2>2. UNCHANGED log \/ SyncLog \/ \E g \in Frame : AppendFrame(g)
    <3>1. CASE SealFrame \/ ReleaseWrite \/ RemoveWrite
      BY <3>1, FrameWriteIsAppend DEF FrameWrite
    <3>2. CASE ~(SealFrame \/ ReleaseWrite \/ RemoveWrite)
      BY <1>6, <3>2 DEF AppendWrite, CreateRename, SealFooter, SealSync, SealPublish,
         ReleaseSync, Delete, DeleteSync, CheckpointSync
    <3> QED
      BY <3>1, <3>2
  <2>3. Checkpoints' \subseteq Checkpoints
    BY <2>1 DEF Checkpoints
  <2>4. \A s \in Stream : highwater[s] <= highwater'[s] /\ highwater'[s] \in Int
    BY <1>0, <2>1, SMT
  <2> QED
    BY <1>1, <2>1, <2>2, <2>3, <2>4
<1>7. CASE RemoveSync
  <2>1. /\ pc = "remove_sync" /\ Up /\ SyncLog /\ UNCHANGED <<chk, chkOld, logOld, highwater>>
        /\ persisted' = [s \in Stream |-> Max({persisted[s]} \cup {r[2] : r \in
                           {x \in UNION {records[i] : i \in job.batch} : x[1] = s}})]
    BY <1>7 DEF RemoveSync, Up, OpenPcs
  <2>2. Checkpoints' = {chk} /\ Logs' = {log'} /\ Checkpoints = {chk} /\ Logs = {log}
    BY <2>1 DEF Settled, EntriesSettled, Checkpoints, Logs
  <2> SUFFICES ASSUME NEW s \in Stream
               PROVE  /\ persisted'[s] <= highwater[s]
                      /\ persisted'[s] <= chk.hw[s] \/ SyncedRemoval(chk, log', s, persisted'[s])
    BY <2>1, <2>2 DEF PersistedRecoverable
  <2> DEFINE S == {r[2] : r \in {x \in UNION {records[i] : i \in job.batch} : x[1] = s}}
  <2>3. job.batch \subseteq SegId
    BY Types DEF Job
  <2>4. \A r \in UNION {records[i] : i \in job.batch} : r \in Record
    BY <2>3, Types
  <2>5. S \subseteq HighWater
    BY <2>4, RecordSequence
  <2>6. \A m \in S : \E i \in job.batch : \E r \in records[i] : r[1] = s /\ r[2] = m
    OBVIOUS
  <2>7. persisted'[s] = Max({persisted[s]} \cup S)
    BY <2>1
  <2> HIDE DEF S
  <2>8. persisted'[s] \in {persisted[s]} \cup S
    BY <1>0, <2>5, <2>7, MaxHighwater
  <2>9. CASE persisted'[s] = persisted[s]
    <3>1. persisted[s] <= chk.hw[s] \/ SyncedRemoval(chk, log, s, persisted[s])
      BY <2>1, <2>2 DEF PersistedRecoverable
    <3>2. SyncedRemoval(chk, log, s, persisted[s]) => SyncedRemoval(chk, log', s, persisted[s])
      BY <1>0, <2>1, SyncedKept
    <3>3. persisted[s] <= highwater[s]
      BY <2>1 DEF PersistedRecoverable
    <3> QED
      BY <2>9, <3>1, <3>2, <3>3
  <2>10. CASE persisted'[s] \in S
    <3>1. PICK i \in job.batch : \E r \in records[i] : r[1] = s /\ r[2] = persisted'[s]
      BY <2>6, <2>10
    <3>2. PICK r \in records[i] : r[1] = s /\ r[2] = persisted'[s]
      BY <3>1
    <3>3. i \in live /\ i \in RemovedIds(chk, log) /\ i \in SegId
      BY <2>1, <2>3, <3>1 DEF RemovalJob, ReclaimPcs, Removing
    <3>4. r \in RecordsOf(file[i]) /\ i \in dir /\ r[2] <= highwater[r[1]]
      BY <2>1, <3>2, <3>3 DEF IndexExact, Index, UpTo
    <3>5. PICK n \in Applied(chk, log) : log.frames[n].kind = "removed" /\ log.frames[n].id = i
      BY <3>3, AppliedAt, SMT
    <3>6. r[2] <= chk.hw[r[1]] \/ \E t \in Applied(chk, log) :
             log.frames[t].kind = "removed" /\ r[2] <= log.frames[t].hw[r[1]]
      BY <2>2, <3>4, <3>5 DEF RemovalsCovered
    <3>7. log'.frames = log.frames /\ log'.synced = Len(log.frames)
      BY <1>0, <2>1 DEF SyncLog, Log
    <3>8. \A t \in Applied(chk, log) : t \in Applied(chk, log') /\ t <= log'.synced
      BY <1>0, <3>7, SMT DEF Applied, Log
    <3> QED
      BY <3>2, <3>4, <3>6, <3>7, <3>8 DEF SyncedRemoval
  <2> QED
    BY <2>8, <2>9, <2>10
<1>8. CASE CheckpointRename \/ LogRename
  <2>1. /\ pc \in {"chk_rename", "log_rename"} /\ Up /\ UNCHANGED <<highwater, persisted>>
        /\ CheckpointRename => Logs' = Logs /\ Checkpoints' = {CheckpointFromState} \cup Checkpoints
        /\ LogRename => pc = "log_rename" /\ Checkpoints' = Checkpoints
    BY <1>8 DEF CheckpointRename, LogRename, memVars, Up, OpenPcs, Checkpoints, Logs
  <2>2. LogRename => Checkpoints' = {CheckpointFromState}
    BY <2>1 DEF Settled, EntriesSettled, Checkpoints, ControlExact
  <2>3. CheckpointFromState.hw = highwater
    BY DEF CheckpointFromState
  <2>4. \A s \in Stream : persisted[s] <= highwater[s]
    BY <2>1 DEF PersistedRecoverable
  <2> QED
    BY <1>8, <2>1, <2>2, <2>3, <2>4 DEF PersistedRecoverable
<1>9. CASE LogSync
  <2>1. pc = "log_sync" /\ Up /\ persisted' = highwater /\ UNCHANGED <<chk, highwater>>
        /\ Checkpoints' = {chk}
    BY <1>9 DEF LogSync, SyncRoot, Up, OpenPcs, Checkpoints
  <2>2. chk.hw = highwater
    BY <2>1, SMT DEF ControlExact, CheckpointFromState
  <2> QED
    BY <1>0, <2>1, <2>2, SMT DEF PersistedRecoverable
<1> QED
  BY <1>2, <1>3, <1>4, <1>5, <1>6, <1>7, <1>8, <1>9, StepKinds

\* An entry that is durable and visible stays so until its segment is removed.
LEMMA EntryLost ==
    ASSUME TypeOK, Settled, RemovalJob, [NextPower]_vars,
           NEW i \in dir \cap durDir, i \notin dir' \cap durDir'
    PROVE  pc \in {"delete", "enumerate"} /\ i \in RemovedIds(chk, log)
           /\ UNCHANGED <<chk, chkOld, log, logOld>>
<1>1. CASE Delete
  BY <1>1 DEF Delete, RemovalJob
<1>2. CASE OpenDelete
  BY <1>2 DEF OpenDelete
<1>3. CASE PowerLoss
  BY <1>3, PowerLossFacts
<1>4. CASE CreateRename \/ CreateSync \/ DeleteSync \/ OpenScan \/ OpenReject
  BY <1>4 DEF CreateRename, CreateSync, DeleteSync, OpenScan, OpenReject, SyncSegments
<1>5. CASE ~(Delete \/ OpenDelete \/ PowerLoss \/ CreateRename \/ CreateSync \/ DeleteSync
             \/ OpenScan \/ OpenReject)
  <2>1. UNCHANGED <<dir, durDir>>
    BY <1>5 DEF NextPower, Serve, Open, vars, diskVars, Shutdown, AppendStart, AppendWrite,
         AppendSync, SegmentIdExhausted, SealExpired, SealFooter, SealSync, SealFrame,
         SealPublish, ReleaseStart, ReleaseNothing, ReleaseWrite, ReleaseSync, ReclaimStart,
         ReclaimNextBatch, RemoveWrite, RemoveSync, ReclaimDone, CheckpointRename,
         CheckpointSync, LogRename, LogSync, OpenControl, OpenReseal, OpenResealSync,
         OpenRebuild, OpenRetry
  <2> QED
    BY <2>1
<1> QED
  BY <1>1, <1>2, <1>3, <1>4, <1>5

\* A high-water that is kept keeps the smaller ones.
LEMMA MarkMonotone ==
    ASSUME TypeOK, Settled, NEW s \in Stream, NEW p \in HighWater, NEW q \in HighWater, p <= q,
           MarkKept(s, q)
    PROVE  MarkKept(s, p)
<1>0. p \in Int /\ q \in Int
  BY BoundsAssumption, SMT DEF HighWater, Seqno, NoSeq
<1>1. CASE StoredMark(s, q)
  <2>1. PICK i \in dir \cap durDir : \E r \in RecordsThrough(file[i], file[i].synced) :
          r[1] = s /\ q <= r[2]
    BY <1>1 DEF StoredMark
  <2>2. PICK r \in RecordsThrough(file[i], file[i].synced) : r[1] = s /\ q <= r[2]
    BY <2>1
  <2>3. p <= r[2]
    <3>1. file[i] \in File /\ file[i].synced <= Len(file[i].chunks)
      BY Types DEF Settled
    <3>2. r \in Record
      BY <2>2, <3>1, ThroughWithin, RecordsOfType
    <3> QED
      BY <1>0, <2>2, <3>2, RecordSequence, SMT DEF Seqno
  <2> QED
    BY <2>1, <2>2, <2>3 DEF StoredMark, MarkKept
<1>2. CASE \A c \in Checkpoints, l \in Logs : q <= c.hw[s] \/ SyncedRemoval(c, l, s, q)
  <2> SUFFICES ASSUME NEW c \in Checkpoints, NEW l \in Logs
               PROVE  p <= c.hw[s] \/ SyncedRemoval(c, l, s, p)
    BY DEF MarkKept
  <2>1. c \in Checkpoint /\ l \in Log /\ c.hw[s] \in Int
    BY BoundsAssumption, SMT DEF TypeOK, Checkpoints, Logs, Checkpoint, Highwaters, HighWater, Seqno, NoSeq
  <2>2. CASE q <= c.hw[s]
    BY <1>0, <2>1, <2>2, SMT
  <2>3. CASE SyncedRemoval(c, l, s, q)
    <3>1. PICK k \in Applied(c, l) :
             k <= l.synced /\ l.frames[k].kind = "removed" /\ q <= l.frames[k].hw[s]
      BY <2>3 DEF SyncedRemoval
    <3>2. l.frames[k] \in Frame
      BY <2>1, SMT DEF Applied, Log
    <3>3. l.frames[k].hw[s] \in HighWater
      BY <3>2 DEF Frame, Highwaters
    <3>4. p <= l.frames[k].hw[s]
      BY <1>0, <3>1, <3>3, BoundsAssumption, SMT DEF HighWater, Seqno, NoSeq
    <3> QED
      BY <3>1, <3>4 DEF SyncedRemoval
  <2> QED
    BY <1>2, <2>2, <2>3
<1> QED
  BY <1>1, <1>2 DEF MarkKept

\* What recovery makes of a stream's high-water never shrinks.
LEMMA MarkStep ==
    ASSUME FiniteLaws, TypeOK, JobReady, Settled, Index, LogFlushed, ControlExact, RemovalJob, RemovalsCovered,
           [NextPower]_vars, NEW s \in Stream, NEW q \in HighWater, MarkKept(s, q),
           Up => q <= highwater[s]
    PROVE  MarkKept(s, q)'
<1>0. /\ log \in Log /\ chk \in Checkpoint /\ Checkpoints \subseteq Checkpoint /\ q \in Int
  BY BoundsAssumption, SMT DEF TypeOK, Checkpoints, HighWater, Seqno, NoSeq
<1>1. CASE StoredMark(s, q)
  <2>1. PICK i \in dir \cap durDir : \E r \in RecordsThrough(file[i], file[i].synced) :
          r[1] = s /\ q <= r[2]
    BY <1>1 DEF StoredMark
  <2>2. PICK r \in RecordsThrough(file[i], file[i].synced) : r[1] = s /\ q <= r[2]
    BY <2>1
  <2>3. CASE i \in dir' \cap durDir'
    <3>1. Continues(file[i], file'[i])
      BY <2>3, FilesContinue
    <3>2. r \in RecordsThrough(file'[i], file'[i].synced)
      BY <3>1, ContinuedRecords
    <3> QED
      BY <2>2, <2>3, <3>2 DEF MarkKept, StoredMark
  <2>4. CASE i \notin dir' \cap durDir'
    <3>1. pc \in {"delete", "enumerate"} /\ i \in RemovedIds(chk, log)
          /\ UNCHANGED <<chk, chkOld, log, logOld>>
      BY <2>1, <2>4, EntryLost
    <3>2. Checkpoints' = {chk} /\ Logs' = {log} /\ Checkpoints = {chk} /\ Logs = {log}
      BY <3>1 DEF Settled, EntriesSettled, Checkpoints, Logs
    <3>3. log.synced = Len(log.frames)
      BY <3>1 DEF LogFlushed
    <3>4. i \in SegId /\ file[i] \in File /\ r \in RecordsOf(file[i]) /\ r \in Record
      <4>1. i \in SegId /\ file[i] \in File /\ file[i].synced <= Len(file[i].chunks)
        BY Types DEF Settled
      <4> QED
        BY <4>1, <2>2, ThroughWithin, RecordsOfType
    <3>5. PICK n \in Applied(chk, log) : log.frames[n].kind = "removed" /\ log.frames[n].id = i
      BY <3>1, AppliedAt, SMTT(20)
    <3>6. r[2] <= chk.hw[s] \/ \E t \in Applied(chk, log) :
             log.frames[t].kind = "removed" /\ r[2] <= log.frames[t].hw[s]
      BY <2>2, <3>2, <3>4, <3>5 DEF RemovalsCovered
    <3>7. \A t \in Applied(chk, log) : t <= log.synced /\ log.frames[t] \in Frame
      BY <1>0, <3>3, SMTT(20) DEF Applied, Log
    <3>8. \A t \in Applied(chk, log) : log.frames[t].hw[s] \in Int
      <4>1. \A g \in Frame : g.hw[s] \in HighWater
        BY DEF Frame, Highwaters
      <4> QED
        BY <3>7, <4>1, BoundsAssumption, SMTT(20) DEF HighWater, Seqno, NoSeq
    <3>9. r[2] \in Int /\ chk.hw[s] \in Int
      BY <3>4, Types, RecordSequence, SMTT(20) DEF Seqno
    <3>10. q <= chk.hw[s] \/ SyncedRemoval(chk, log, s, q)
      BY <1>0, <2>2, <3>6, <3>7, <3>8, <3>9, SMTT(20) DEF SyncedRemoval
    <3> QED
      BY <3>2, <3>10 DEF MarkKept
  <2> QED
    BY <2>3, <2>4
<1>2. CASE \A c \in Checkpoints, l \in Logs : q <= c.hw[s] \/ SyncedRemoval(c, l, s, q)
  <2> SUFFICES ASSUME NEW c \in Checkpoints', NEW l \in Logs'
               PROVE  q <= c.hw[s] \/ SyncedRemoval(c, l, s, q)
    BY DEF MarkKept
  <2>1. CASE CheckpointRename \/ LogRename
    <3>1. /\ pc \in {"chk_rename", "log_rename"} /\ Up
          /\ CheckpointRename => Logs' = Logs /\ Checkpoints' = {CheckpointFromState} \cup Checkpoints
          /\ LogRename => pc = "log_rename" /\ Checkpoints' = Checkpoints
      BY <2>1 DEF CheckpointRename, LogRename, Up, OpenPcs, Checkpoints, Logs
    <3>2. LogRename => Checkpoints' = {CheckpointFromState}
      BY <3>1 DEF Settled, EntriesSettled, Checkpoints, ControlExact
    <3>3. CheckpointFromState.hw = highwater
      BY DEF CheckpointFromState
    <3> QED
      BY <1>2, <2>1, <3>1, <3>2, <3>3
  <2>2. CASE PowerLoss
    <3>1. c \in Checkpoints /\ l = log'
      BY <2>2, PowerLossFacts DEF Checkpoints, Logs
    <3>2. PICK m \in Logs : /\ m \in Log /\ m.synced <= log'.synced /\ log'.synced \in Nat
                            /\ DOMAIN log'.frames = {k \in DOMAIN m.frames : k <= log'.synced}
                            /\ \A k \in DOMAIN log'.frames : log'.frames[k] = m.frames[k]
      BY <2>2, PowerLossLog
    <3>3. CASE q <= c.hw[s]
      BY <3>3
    <3>4. CASE SyncedRemoval(c, m, s, q)
      <4>1. PICK k \in Applied(c, m) :
              k <= m.synced /\ m.frames[k].kind = "removed" /\ q <= m.frames[k].hw[s]
        BY <3>4 DEF SyncedRemoval
      <4>2. k \in Nat /\ m.synced \in Nat /\ k \in DOMAIN m.frames
        BY <3>2, SMT DEF Applied, Log
      <4>3. k <= log'.synced /\ k \in DOMAIN log'.frames
        BY <3>2, <4>1, <4>2, SMT
      <4>4. k \in Applied(c, log') /\ log'.frames[k] = m.frames[k]
        BY <3>2, <4>3 DEF Applied
      <4> QED
        BY <3>1, <4>1, <4>3, <4>4 DEF SyncedRemoval
    <3> QED
      BY <1>2, <3>1, <3>2, <3>3, <3>4
  <2>3. CASE ~CheckpointRename /\ ~LogRename /\ ~PowerLoss
    <3>1. c \in Checkpoints /\ logOld' \subseteq logOld
      BY <2>3, CheckpointsKept, OldLogsKept
    <3>2. UNCHANGED log \/ SyncLog \/ \E g \in Frame : AppendFrame(g)
      BY <2>3, FramesKept, FrameWriteIsAppend
    <3>3. CASE l \in logOld
      BY <1>2, <3>1, <3>3 DEF Logs
    <3>4. CASE l = log'
      BY <1>0, <1>2, <3>1, <3>2, <3>4, SyncedKept DEF Logs
    <3> QED
      BY <3>1, <3>3, <3>4 DEF Logs
  <2> QED
    BY <2>1, <2>2, <2>3
<1> QED
  BY <1>1, <1>2 DEF MarkKept

\* A release is reported for sequences up to the high-waters only.
LEMMA GoneStep ==
    ASSUME TypeOK, ReleaseJob, [NextPower]_vars, NEW r \in gone'
    PROVE  r \in gone \/ (Up /\ r \in Record /\ r[2] <= highwater[r[1]])
<1>0. gone \subseteq Record /\ job.group \subseteq Record
  BY Types DEF TypeOK
<1>1. ASSUME Finish, Up PROVE r \in gone \/ (Up /\ r \in Record /\ r[2] <= highwater[r[1]])
  BY <1>0, <1>1 DEF Finish, ReleaseJob, UpTo
<1>2. CASE AppendSync \/ CreateSync \/ LogSync
  BY <1>1, <1>2 DEF AppendSync, CreateSync, LogSync, Up, OpenPcs
<1>3. CASE SealPublish
  <2>1. Finish \/ UNCHANGED gone
    BY <1>3 DEF SealPublish, AfterSeal, MaybeCompact, histVars
  <2> QED
    BY <1>1, <1>3, <2>1 DEF SealPublish, Up, OpenPcs
<1>4. CASE ReleaseSync
  <2>1. Finish \/ UNCHANGED gone
    BY <1>4 DEF ReleaseSync, MaybeCompact, histVars
  <2> QED
    BY <1>1, <1>4, <2>1 DEF ReleaseSync, Up, OpenPcs
<1>5. CASE ReclaimDone
  <2>1. Finish \/ UNCHANGED gone
    BY <1>5 DEF ReclaimDone, MaybeCompact, histVars
  <2> QED
    BY <1>1, <1>5, <2>1 DEF ReclaimDone, Up, OpenPcs
<1>6. ASSUME NEW units \in Groups(ReleaseUnits), ReleaseNothing(units)
      PROVE  r \in gone \/ (Up /\ r \in Record /\ r[2] <= highwater[r[1]])
  <2>1. pc = "idle" /\ gone' = gone \cup UNION {units[k] : k \in DOMAIN units}
    BY <1>6 DEF ReleaseNothing
  <2>2. ASSUME NEW k \in DOMAIN units, r \in units[k]
        PROVE  r \in Record /\ r[2] <= highwater[r[1]]
    <3>1. units[k] \in ReleaseUnits
      BY <2>2 DEF Groups
    <3>2. PICK s \in Stream : r \in {s} \X (0 .. highwater[s])
      BY <2>2, <3>1 DEF ReleaseUnits, KnownIds
    <3>3. r[1] = s /\ r[2] \in 0 .. highwater[s] /\ r = <<r[1], r[2]>>
      BY <3>2, SMT
    <3>4. highwater[s] \in HighWater
      BY DEF TypeOK, Highwaters
    <3>5. r[2] \in Seqno /\ r[2] <= highwater[s]
      BY <3>3, <3>4, BoundsAssumption, SMT DEF HighWater, Seqno, NoSeq
    <3> QED
      BY <3>3, <3>5 DEF Record
  <2> QED
    BY <2>1, <2>2 DEF Up, OpenPcs
<1>7. CASE ~(AppendSync \/ CreateSync \/ LogSync \/ SealPublish \/ ReleaseSync \/ ReclaimDone
             \/ \E units \in Groups(ReleaseUnits) : ReleaseNothing(units))
  <2>1. UNCHANGED gone
    BY <1>7 DEF NextPower, Serve, Open, vars, histVars, Shutdown, PowerLoss, AppendStart,
         AppendWrite, CreateRename, SegmentIdExhausted, SealExpired, SealFooter, SealSync,
         SealFrame, ReleaseStart, ReleaseWrite, ReclaimStart, ReclaimNextBatch, RemoveWrite,
         RemoveSync, Delete, DeleteSync, CheckpointRename, CheckpointSync, LogRename,
         OpenControl, OpenDelete, OpenScan, OpenReseal, OpenResealSync, OpenRebuild,
         OpenReject, OpenRetry
  <2> QED
    BY <2>1
<1> QED
  BY <1>2, <1>3, <1>4, <1>5, <1>6, <1>7

\* What recovery makes of stored records and of recorded high-waters.
LEMMA MarkRecovered ==
    ASSUME FiniteLaws, TypeOK, Settled, NEW R, IndexesAccepted(chk, log, R, dir, file),
           NEW s \in Stream, NEW q \in HighWater, MarkKept(s, q)
    PROVE  q <= RecoveredHighwater(chk, log, R, dir, file)[s]
<1> DEFINE h == RecoveredHighwater(chk, log, R, dir, file)
<1>0. /\ chk \in Checkpoint /\ log \in Log /\ dir \in SUBSET SegId /\ file \in [SegId -> File]
      /\ chk \in Checkpoints /\ log \in Logs
  BY DEF TypeOK, Checkpoints, Logs
<1>1. h \in Highwaters /\ chk.hw[s] <= h[s]
  BY <1>0, RecoveredHighwaterFacts
<1>2. h[s] \in Int /\ q \in Int /\ chk.hw[s] \in Int
  BY <1>0, <1>1, BoundsAssumption, SMT DEF Highwaters, HighWater, Seqno, NoSeq, Checkpoint
<1>3. CASE StoredMark(s, q)
  <2>1. PICK i \in dir \cap durDir : \E r \in RecordsThrough(file[i], file[i].synced) :
          r[1] = s /\ q <= r[2]
    BY <1>3 DEF StoredMark
  <2>2. PICK r \in RecordsThrough(file[i], file[i].synced) : r[1] = s /\ q <= r[2]
    BY <2>1
  <2>3. file[i] \in File /\ file[i].synced <= Len(file[i].chunks)
    BY <1>0 DEF Settled
  <2>4. r \in RecordsOf(file[i]) /\ r \in Record
    BY <2>3, ThroughWithin, RecordsOfType
  <2>5. r[2] <= h[r[1]]
    BY <1>0, <2>4, RecordsRecovered
  <2>6. r[2] \in Int
    BY <2>4, RecordSequence, SMT DEF Seqno
  <2> HIDE DEF h
  <2>7. q <= h[s]
    BY <1>2, <2>2, <2>5, <2>6, SMT
  <2> QED
    BY <2>7 DEF h
<1>4. CASE q <= chk.hw[s]
  BY <1>1, <1>2, <1>4, SMT
<1>5. CASE SyncedRemoval(chk, log, s, q)
  <2>1. PICK k \in Applied(chk, log) : log.frames[k].kind = "removed" /\ q <= log.frames[k].hw[s]
    BY <1>5 DEF SyncedRemoval
  <2>2. log.frames[k] \in Frame
    BY <1>0, SMT DEF Applied, Log
  <2>3. log.frames[k].hw[s] \in HighWater
    BY <2>2 DEF Frame, Highwaters
  <2>4. log.frames[k].hw[s] \in Int
    BY <2>3, BoundsAssumption, SMT DEF HighWater, Seqno, NoSeq
  <2>5. log.frames[k].hw[s] <= h[s]
    BY <1>0, <2>1, HighwaterSources
  <2> HIDE DEF h
  <2>6. q <= h[s]
    BY <1>2, <2>1, <2>4, <2>5, SMTT(20)
  <2> QED
    BY <2>6 DEF h
<1> QED
  BY <1>0, <1>3, <1>4, <1>5 DEF MarkKept

\* The high-waters that an open recovers can be recovered again.
LEMMA HighwaterRecoverable ==
    ASSUME FiniteLaws, TypeOK, Settled, FilesFlushed, LogFlushed, pc = "reseal", UNCHANGED diskVars,
           NEW R, NEW s \in Stream
    PROVE  \A q : q = RecoveredHighwater(chk, log, R, dir, file)[s] => MarkKept(s, q)'
<1> DEFINE p == RecoveredHighwater(chk, log, R, dir, file)[s]
<1>1. /\ chk \in Checkpoint /\ log \in Log /\ dir \in SUBSET SegId /\ file \in [SegId -> File]
  BY DEF TypeOK
<1>2. /\ Checkpoints' = {chk} /\ Logs' = {log} /\ durDir = dir
      /\ UNCHANGED <<chk, log, dir, durDir, file>>
  BY <1>1 DEF Settled, EntriesSettled, Checkpoints, Logs, diskVars
<1>3. \/ p = chk.hw[s]
      \/ \E i \in dir : \E r \in RecordsOf(file[i]) : r[1] = s /\ r[2] = p
      \/ \E k \in Applied(chk, log) : log.frames[k].kind = "removed" /\ log.frames[k].hw[s] = p
  <2> HIDE DEF p
  <2> QED
    BY <1>1, HighwaterOrigin, SMTT(20) DEF p
<1>4. p \in Int
  <2>1. RecoveredHighwater(chk, log, R, dir, file) \in Highwaters
    BY <1>1, RecoveredHighwaterFacts
  <2> QED
    BY <2>1, BoundsAssumption, SMT DEF Highwaters, HighWater, Seqno, NoSeq
<1> SUFFICES ASSUME NEW q, q = p PROVE MarkKept(s, q)'
  OBVIOUS
<1> HIDE DEF p
<1>5. CASE q = chk.hw[s]
  BY <1>2, <1>4, <1>5, SMT DEF MarkKept
<1>6. CASE \E i \in dir : \E r \in RecordsOf(file[i]) : r[1] = s /\ r[2] = q
  <2>1. PICK i \in dir : \E r \in RecordsOf(file[i]) : r[1] = s /\ r[2] = q
    BY <1>6
  <2>2. file[i] \in File /\ file[i].synced = Len(file[i].chunks)
    BY <1>1 DEF FilesFlushed
  <2>3. RecordsThrough(file[i], file[i].synced) = RecordsOf(file[i])
    BY <2>2, SyncedWhole
  <2> QED
    BY <1>2, <1>4, <2>1, <2>3, SMTT(20) DEF MarkKept, StoredMark
<1>7. CASE \E k \in Applied(chk, log) : log.frames[k].kind = "removed" /\ log.frames[k].hw[s] = q
  <2>1. \A k \in Applied(chk, log) : k <= log.synced
    BY <1>1, SMT DEF LogFlushed, Applied, Log
  <2>2. SyncedRemoval(chk, log, s, q)
    BY <1>4, <1>7, <2>1, SMT DEF SyncedRemoval
  <2> QED
    BY <1>2, <2>2 DEF MarkKept
<1> QED
  BY <1>3, <1>5, <1>6, <1>7

\* A group that is indexed raises a high-water to the sequence of a record of it.
LEMMA RaisedMark ==
    ASSUME FiniteLaws, TypeOK, NEW a \in SegId, IndexDurableRecords(a), NEW s \in Stream
    PROVE  \/ highwater'[s] = highwater[s]
           \/ \E r \in job.group : r[1] = s /\ r[2] = highwater'[s]
<1> DEFINE S == {r[2] : r \in {x \in job.group : x[1] = s}}
<1>1. S \subseteq HighWater /\ highwater[s] \in HighWater
  BY Types, RecordSequence DEF TypeOK, Highwaters
<1>2. \A m \in S : \E r \in job.group : r[1] = s /\ r[2] = m
  OBVIOUS
<1>3. highwater'[s] = Max({highwater[s]} \cup S)
  BY DEF IndexDurableRecords
<1> HIDE DEF S
<1>4. highwater'[s] \in {highwater[s]} \cup S
  BY <1>1, <1>3, MaxHighwater
<1> QED
  BY <1>2, <1>4

\* The group of an append that completes is durable.
LEMMA GroupStored ==
    ASSUME FiniteLaws, TypeOK, JobReady, Settled, Control, Index, AppendJob, AppendSync \/ CreateSync
    PROVE  /\ \A r \in job.group : \E i \in dir' \cap durDir' :
                 r \in RecordsThrough(file'[i], file'[i].synced)
           /\ \E a \in SegId : IndexDurableRecords(a)
<1>1. CASE AppendSync
  <2>1. pc = "append_sync" /\ active \in SegId /\ SyncFile(active) /\ IndexDurableRecords(active)
        /\ UNCHANGED <<dir, durDir>>
    BY <1>1 DEF AppendSync, JobReady, WritePcs, TypeOK
  <2>2. active \in dir /\ durDir = dir
    BY <2>1, SMT DEF Index, Up, OpenPcs, Settled, EntriesSettled, SegId, NoSeg
  <2>3. job.group \subseteq RecordsOf(file[active])
    BY <2>1, SMT DEF AppendJob, WritePcs, TodoRecords
  <2>4. RecordsThrough(file'[active], file'[active].synced) = RecordsOf(file[active])
    BY <2>1, FileSynced
  <2> QED
    BY <2>1, <2>2, <2>3, <2>4
<1>2. CASE CreateSync
  <2>1. /\ pc = "create_sync" /\ nextId - 1 \in SegId /\ IndexDurableRecords(nextId - 1)
        /\ UNCHANGED <<dir, file>> /\ durDir' = dir
    BY <1>2, CreateSyncType DEF CreateSync, SyncSegments, JobReady
  <2>2. nextId - 1 \in dir
    BY <2>1 DEF Index, Up, OpenPcs
  <2>3. /\ file[nextId - 1].synced = Len(file[nextId - 1].chunks)
        /\ RecordsOf(file[nextId - 1]) = job.group /\ file[nextId - 1] \in File
    BY <2>1, Types DEF AppendJob
  <2>4. RecordsThrough(file[nextId - 1], file[nextId - 1].synced) = job.group
    BY <2>3, SyncedWhole
  <2> QED
    BY <2>1, <2>2, <2>4
<1> QED
  BY <1>1, <1>2

\* No step forgets how far a stream had come: append_group's sync, the removal frames of
\* reclaim and the checkpoint hand the high-water on to each other.
LEMMA MarksRecoverableStep ==
    ASSUME FiniteLaws, TypeOK, JobReady, Settled, Control, Index, AppendJob, ReleaseJob, AckedAppendDurable,
           FilesFlushed, LogFlushed, ControlExact, RemovalJob, RemovalsCovered,
           MarksRecoverable, [NextPower]_vars
    PROVE  MarksRecoverable'
<1>0. /\ gone \subseteq Record /\ promised \subseteq Record /\ highwater \in Highwaters
      /\ \A r \in Record : r[1] \in Stream /\ r[2] \in HighWater /\ r[2] \in Int
      /\ \A s \in Stream : highwater[s] \in HighWater /\ highwater[s] \in Int
  BY Types, RecordSequence, BoundsAssumption, SMTT(20) DEF TypeOK, Highwaters, Seqno
<1>1. ASSUME NEW s \in Stream, NEW q \in HighWater, MarkKept(s, q), Up => q <= highwater[s]
      PROVE  MarkKept(s, q)'
  BY <1>1, MarkStep
<1>2. ASSUME NEW r \in gone' PROVE MarkKept(r[1], r[2])'
  <2>1. CASE r \in gone
    <3>1. MarkKept(r[1], r[2]) /\ (Up => r[2] <= highwater[r[1]])
      BY <2>1 DEF MarksRecoverable, UpTo
    <3> QED
      BY <1>0, <1>1, <2>1, <3>1
  <2>2. CASE Up /\ r \in Record /\ r[2] <= highwater[r[1]]
    <3>1. MarkKept(r[1], highwater[r[1]])
      BY <1>0, <2>2 DEF MarksRecoverable
    <3>2. MarkKept(r[1], r[2])
      BY <1>0, <2>2, <3>1, MarkMonotone
    <3> QED
      BY <1>0, <1>1, <2>2, <3>2
  <2> QED
    BY <2>1, <2>2, GoneStep
<1>3. Up => UpTo(gone', highwater)
  BY GoneStep DEF MarksRecoverable, UpTo
<1>4. CASE AppendSync \/ CreateSync
  <2>1. Up /\ promised' = promised \cup job.group
    BY <1>4, GroupPromised
  <2>2. PICK a \in SegId : IndexDurableRecords(a)
    BY <1>4, GroupStored
  <2>3. highwater' \in Highwaters /\ (\A s \in Stream : highwater[s] <= highwater'[s])
        /\ UpTo(job.group, highwater')
    BY <2>2, IndexDurableRecordsType DEF UpTo
  <2>4. UpTo(promised, highwater) /\ gone' \subseteq Record
    BY <1>0, <2>1, GoneStep DEF MarksRecoverable, UpTo
  <2>5. UpTo(promised, highwater') /\ UpTo(gone', highwater')
    BY <1>0, <1>3, <2>1, <2>3, <2>4, UpToRaised
  <2>6. UpTo(gone' \cup promised', highwater')
    BY <2>1, <2>3, <2>5 DEF UpTo
  <2>7. ASSUME NEW s \in Stream PROVE MarkKept(s, highwater[s])'
    <3>1. CASE highwater'[s] = highwater[s]
      <4>1. MarkKept(s, highwater[s]) /\ highwater[s] <= highwater[s]
        BY <1>0, <2>1, SMTT(20) DEF MarksRecoverable
      <4>2. ASSUME NEW q, q = highwater[s] PROVE MarkKept(s, q)'
        BY <1>0, <1>1, <4>1, <4>2
      <4> QED
        BY <3>1, <4>2 DEF MarkKept, StoredMark, SyncedRemoval
    <3>2. CASE \E r \in job.group : r[1] = s /\ r[2] = highwater'[s]
      <4>1. PICK r \in job.group : r[1] = s /\ r[2] = highwater'[s]
        BY <3>2
      <4>2. PICK i \in dir' \cap durDir' : r \in RecordsThrough(file'[i], file'[i].synced)
        BY <1>4, GroupStored
      <4>3. r[2] \in Int
        BY <1>0, Types
      <4> QED
        BY <4>1, <4>2, <4>3, SMT DEF MarkKept, StoredMark
    <3> QED
      BY <2>2, <3>1, <3>2, RaisedMark
  <2> QED
    BY <1>2, <2>6, <2>7 DEF MarksRecoverable
<1>5. CASE OpenRebuild
  <2>1. /\ pc = "reseal" /\ UNCHANGED diskVars /\ UNCHANGED <<promised, gone>>
        /\ IndexesAccepted(chk, log, job.batch, dir, file)
        /\ highwater' = RecoveredHighwater(chk, log, job.batch, dir, file)
    BY <1>5 DEF OpenRebuild, histVars
  <2>2. ASSUME NEW r \in gone PROVE r[2] <= highwater'[r[1]]
    BY <1>0, <2>1, <2>2, MarkRecovered DEF MarksRecoverable
  <2>3. ASSUME NEW r \in promised PROVE r[2] <= highwater'[r[1]]
    <3>1. StoredMark(r[1], r[2])
      BY <1>0, SMT DEF AckedAppendDurable, DurablyStored, StoredMark
    <3> QED
      BY <1>0, <2>1, <3>1, MarkRecovered DEF MarkKept
  <2>4. ASSUME NEW s \in Stream PROVE MarkKept(s, highwater[s])'
    <3>1. ASSUME NEW q, q = RecoveredHighwater(chk, log, job.batch, dir, file)[s]
          PROVE  MarkKept(s, q)'
      BY <2>1, <3>1, HighwaterRecoverable
    <3> QED
      BY <2>1, <3>1
  <2> QED
    BY <1>2, <2>1, <2>2, <2>3, <2>4 DEF MarksRecoverable, UpTo
<1>6. CASE Down
  BY <1>2, <1>6, DownStep DEF MarksRecoverable
<1>7. CASE ~AppendSync /\ ~CreateSync /\ ~OpenRebuild /\ ~Down
  <2>1. UNCHANGED highwater /\ (Up' => Up)
    <3>1. CASE Quiet
      BY <3>1, QuietStep DEF memVars
    <3>2. CASE ~Quiet
      BY <1>7, <3>2, StepKinds
         DEF AppendWrite, CreateRename, SealFooter, SealSync, SealFrame, SealPublish,
             ReleaseWrite, ReleaseSync, RemoveWrite, RemoveSync, Delete, DeleteSync,
             CheckpointRename, CheckpointSync, LogRename, LogSync, memVars, Up, OpenPcs
    <3> QED
      BY <3>1, <3>2
  <2>2. promised' \subseteq promised
    BY <1>7, PromisesShrink
  <2>3. Up => UpTo(gone' \cup promised', highwater)
    BY <1>3, <2>2 DEF MarksRecoverable, UpTo
  <2>4. ASSUME NEW s \in Stream, Up PROVE MarkKept(s, highwater[s])'
    <3>1. MarkKept(s, highwater[s]) /\ highwater[s] <= highwater[s]
      BY <1>0, <2>4, SMT DEF MarksRecoverable
    <3>2. ASSUME NEW q, q = highwater[s] PROVE MarkKept(s, q)'
      BY <1>0, <1>1, <3>1, <3>2
    <3> QED
      BY <2>1, <3>2 DEF MarkKept, StoredMark, SyncedRemoval
  <2> QED
    BY <1>2, <2>1, <2>3, <2>4 DEF MarksRecoverable
<1> QED
  BY <1>4, <1>5, <1>6, <1>7

=============================================================================
