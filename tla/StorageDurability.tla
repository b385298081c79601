------------------------- MODULE StorageDurability --------------------------
(***************************************************************************)
(* Reported appends are durable: types, control files, indexes and         *)
(* promises survive every step of a system that loses power, which makes   *)
(* DurabilityInv inductive for every choice of the constants.              *)
(***************************************************************************)
EXTENDS StorageLemmas

USE Zenon

-----------------------------------------------------------------------------
(* Type correctness. *)

\* A nonempty set of segment IDs (or of IDs plus one) has a greatest one.
LEMMA MaxSegment ==
    ASSUME FiniteLaws, NEW S \in SUBSET (0 .. MaxSegId), S # {}
    PROVE  Max(S) \in S /\ \A x \in S : x <= Max(S)
<1>1. S \in SUBSET Int /\ MaxSegId \in Int /\ \A x \in S : x <= MaxSegId
  BY BoundsAssumption, SMT
<1> QED
  BY <1>1, MaxMember

\* derive_next_segment_id stays in range and passes every known segment ID.
LEMMA RecoveredNextIdFacts ==
    ASSUME FiniteLaws, NEW c \in Checkpoint, NEW l \in Log, NEW D \in SUBSET SegId
    PROVE  /\ RecoveredNextId(c, l, D) \in 0 .. MaxSegId
           /\ \A i \in D \cup RemovedIds(c, l) : i < RecoveredNextId(c, l, D)
<1> DEFINE Ids == {c.next} \cup {i + 1 : i \in D \cup RemovedIds(c, l)}
<1>1. \A i \in D \cup RemovedIds(c, l) : i \in Int /\ i + 1 \in 0 .. MaxSegId
  <2>1. \A i \in RemovedIds(c, l) : i \in SegId \cup {NoSeg}
    BY AppliedFramesType, SMT DEF RemovedIds, Frame
  <2> QED
    BY <2>1, BoundsAssumption, SMT DEF SegId, NoSeg
<1>2. Ids \in SUBSET (0 .. MaxSegId) /\ Ids # {}
  BY <1>1 DEF Checkpoint
<1>3. RecoveredNextId(c, l, D) = Max(Ids)
  BY DEF RecoveredNextId
<1>4. Max(Ids) \in 0 .. MaxSegId /\ \A x \in Ids : x <= Max(Ids)
  <2> HIDE DEF Ids
  <2> QED
    BY <1>2, MaxSegment
<1>5. \A i \in D \cup RemovedIds(c, l) : i + 1 \in Ids
  OBVIOUS
<1> HIDE DEF Ids
<1> QED
  BY <1>1, <1>3, <1>4, <1>5, BoundsAssumption, SMT

\* The recovered active segment is a file without a footer, or none.
LEMMA RecoveredActiveFacts ==
    ASSUME FiniteLaws, NEW D \in SUBSET SegId, NEW f
    PROVE  /\ RecoveredActive(D, f) \in SegId \cup {NoSeg}
           /\ RecoveredActive(D, f) # NoSeg => /\ RecoveredActive(D, f) \in D
                                              /\ ~HasFooter(f[RecoveredActive(D, f)])
<1>1. ActiveCandidates(D, f) \subseteq D
  BY DEF ActiveCandidates
<1>2. D \subseteq 0 .. MaxSegId
  BY BoundsAssumption, SMT DEF SegId
<1>3. ActiveCandidates(D, f) # {} => Max(ActiveCandidates(D, f)) \in ActiveCandidates(D, f)
  BY <1>1, <1>2, MaxSegment
<1> QED
  BY <1>1, <1>3 DEF RecoveredActive, ActiveCandidates

\* Replay ends at a manifest sequence.
LEMMA RecoveredLastSeqFacts ==
    ASSUME NEW c \in Checkpoint, NEW l \in Log
    PROVE  RecoveredLastSeq(c, l) \in Nat
<1>1. l.frames \in Seq(Frame) /\ c.last \in Nat
  BY DEF Log, Checkpoint
<1>2. CASE Applied(c, l) = {}
  BY <1>1, <1>2 DEF RecoveredLastSeq
<1>3. CASE Applied(c, l) # {}
  <2>1. l.frames # << >>
    BY <1>1, <1>3, SMT DEF Applied
  <2>2. l.frames[Len(l.frames)] \in Frame
    BY <1>1, <2>1, SMT
  <2> QED
    BY <2>2, <1>3 DEF RecoveredLastSeq, Frame
<1> QED
  BY <1>2, <1>3

\* A function on 1 .. n is a sequence.
LEMMA FunctionIsSequence ==
    ASSUME NEW S, NEW n \in Nat, NEW e \in [1 .. n -> S]
    PROVE  e \in Seq(S) /\ Len(e) = n
BY SMT

\* Replayed removals name segment IDs.
LEMMA RemovedIdsType ==
    ASSUME NEW c, NEW l \in Log
    PROVE  \A i \in RemovedIds(c, l) : i \in SegId \cup {NoSeg} /\ i \in Int
<1>1. \A i \in RemovedIds(c, l) : i \in SegId \cup {NoSeg}
  BY AppliedFramesType, SMT DEF RemovedIds, Frame
<1> QED
  BY <1>1, BoundsAssumption, SMT DEF SegId, NoSeg

\* The last sequence recovery derives is the greatest of the log's.
LEMMA RecoveredLastSeqBounds ==
    ASSUME NEW c \in Checkpoint, NEW l \in Log, ControlAccepted(c, l)
    PROVE  \A k \in DOMAIN l.frames : l.frames[k].seq <= RecoveredLastSeq(c, l)
<1> TAKE k \in DOMAIN l.frames
<1>1. /\ l.frames \in Seq(Frame) /\ c.last \in Nat /\ l.base \in Nat
      /\ Len(l.frames) \in Nat /\ DOMAIN l.frames = 1 .. Len(l.frames)
  BY SMT DEF Log, Checkpoint
<1>2. \A j \in DOMAIN l.frames : l.frames[j].seq = l.base + j - 1
  BY DEF ControlAccepted
<1>3. CASE Applied(c, l) = {}
  <2>1. ~(l.frames[k].seq > c.last)
    BY <1>3 DEF Applied
  <2>2. l.frames[k].seq \in Int
    BY <1>1, <1>2, SMT
  <2> QED
    BY <1>1, <1>3, <2>1, <2>2, SMT DEF RecoveredLastSeq
<1>4. CASE Applied(c, l) # {}
  <2>1. Len(l.frames) \in DOMAIN l.frames
    BY <1>1, SMT
  <2>2. RecoveredLastSeq(c, l) = l.base + Len(l.frames) - 1
    BY <1>2, <1>4, <2>1 DEF RecoveredLastSeq
  <2> QED
    BY <1>1, <1>2, <2>2, SMT
<1> QED
  BY <1>3, <1>4

\* A freshly created root is typed.
LEMMA InitType == Init => TypeOK
<1> SUFFICES ASSUME Init PROVE TypeOK
  OBVIOUS
<1>1. chk \in Checkpoint
  BY NoHighwatersType, BoundsAssumption, SMT DEF Init, Checkpoint
<1>2. log \in Log
  BY SMT DEF Init, Log
<1> QED
  BY <1>1, <1>2, NoJobType, NoHighwatersType, NoFileType, BoundsAssumption, SizesAssumption, SMT
     DEF Init, InitMemory, TypeOK, Pcs

\* Numbering a well-formed frame keeps it well formed.
LEMMA AppendFrameType ==
    ASSUME TypeOK, NEW g \in Frame, AppendFrame(g)
    PROVE  log' \in Log /\ lastSeq' \in Nat
<1>1. log \in Log /\ lastSeq \in Nat
  BY DEF TypeOK
<1>2. [g EXCEPT !.seq = lastSeq + 1] \in Frame
  BY <1>1, SMT DEF Frame
<1>3. log.frames \in Seq(Frame)
  BY <1>1 DEF Log
<1>4. Append(log.frames, [g EXCEPT !.seq = lastSeq + 1]) \in Seq(Frame)
  BY <1>2, <1>3, SMT
<1>5. log' = [log EXCEPT !.frames = Append(log.frames, [g EXCEPT !.seq = lastSeq + 1])]
  BY DEF AppendFrame
<1>6. log' \in Log
  <2> DEFINE fs == Append(log.frames, [g EXCEPT !.seq = lastSeq + 1])
  <2>1. fs \in Seq(Frame)
    BY <1>4
  <2>2. log' = [log EXCEPT !.frames = fs]
    BY <1>5
  <2> HIDE DEF fs
  <2> QED
    BY <1>1, <2>1, <2>2 DEF Log
<1> QED
  BY <1>1, <1>6, SMT DEF AppendFrame

\* So does returning through maybe_compact_manifest.
LEMMA MaybeCompactType ==
    ASSUME TypeOK, MaybeCompact
    PROVE  /\ pc' \in Pcs /\ job' \in Job
           /\ promised' \subseteq Record /\ gone' \subseteq Record
           /\ failures' \in 0 .. MaxFailures
BY FinishType DEF TypeOK, MaybeCompact, Goto, histVars, Pcs

\* A reclaim pass queues segment IDs.
LEMMA StartBatchesType ==
    ASSUME TypeOK, NEW kind \in ReclaimKind, StartBatches(kind)
    PROVE  pc' \in Pcs /\ job' \in Job
<1>1. Eligible \subseteq SegId /\ FirstIds(Eligible, ReclaimBatch) \subseteq SegId
  BY DEF Eligible, FirstIds, TypeOK
<1> QED
  BY <1>1, NoJobType, Zenon DEF StartBatches, ReclaimKind, Job, Pcs

-----------------------------------------------------------------------------
(* One lemma per action that computes a new value. *)
\* append_group plans epochs of legal sequences only.
LEMMA AppendStartType ==
    ASSUME TypeOK, NEW units \in Groups(Unit), NEW first \in [DOMAIN units -> Seqno],
           AppendStart(units, first)
    PROVE  TypeOK'
<1> DEFINE epochs == [k \in DOMAIN units |-> UnitRecords(units[k], first[k])]
           group  == UNION {epochs[k] : k \in DOMAIN epochs}
<1>1. PICK n \in 1 .. MaxGroup : units \in [1 .. n -> Unit]
  BY DEF Groups
<1>2. group \subseteq Record
  BY DEF AppendStart
<1>3. epochs \in Seq(Chunk)
  <2>1. n \in Nat /\ DOMAIN units = 1 .. n
    BY <1>1, SizesAssumption, SMT
  <2>2. \A k \in 1 .. n : epochs[k] \subseteq Record
    BY <1>2, <2>1
  <2>3. epochs \in [1 .. n -> Chunk]
    BY <2>1, <2>2 DEF Chunk
  <2> HIDE DEF epochs
  <2> QED
    BY <2>1, <2>3, FunctionIsSequence
<1>4. job' = [NoJob EXCEPT !.op = "append", !.todo = epochs, !.group = group]
  BY DEF AppendStart
<1>5. job' \in Job
  <2> HIDE DEF epochs, group
  <2> QED
    BY <1>2, <1>3, <1>4, NoJobType, Zenon DEF Job
<1>6. pc' \in Pcs
  BY DEF AppendStart, AppendTargets, Pcs
<1> QED
  BY <1>5, <1>6 DEF AppendStart, TypeOK, diskVars, memVars, histVars

\* Writing an epoch to the active segment keeps types.
LEMMA AppendWriteType ==
    ASSUME TypeOK, AppendWrite, active # NoSeg, job.todo # << >>
    PROVE  TypeOK'
<1>1. active \in SegId
  BY DEF TypeOK
<1>2. job' = [job EXCEPT !.todo = Tail(@)] /\ AppendChunk(active, Head(job.todo))
  BY DEF AppendWrite
<1>3. Head(job.todo) \in Chunk /\ job' \in Job
  BY <1>2, TodoTail
<1>4. file' \in [SegId -> File]
  BY <1>1, <1>2, <1>3, AppendChunkFacts, Zenon
<1>5. pc' \in Pcs
  BY DEF AppendWrite, Pcs
<1> QED
  BY <1>3, <1>4, <1>5 DEF AppendWrite, TypeOK, memVars, histVars

\* Syncing and indexing an append group keeps types.
LEMMA AppendSyncType ==
    ASSUME FiniteLaws, TypeOK, AppendSync, active # NoSeg
    PROVE  TypeOK'
<1>1. active \in SegId
  BY DEF TypeOK
<1>2. SyncFile(active) /\ IndexDurableRecords(active) /\ Finish
  BY DEF AppendSync
<1>3. file' \in [SegId -> File]
  BY <1>1, <1>2, SyncFileFacts
<1>4. records' \in [SegId -> SUBSET Record] /\ highwater' \in Highwaters
  BY <1>1, <1>2, IndexDurableRecordsType
<1> QED
  BY <1>2, <1>3, <1>4, FinishType DEF AppendSync, TypeOK

\* The steps of seal_active keep types.
LEMMA SealTypes ==
    ASSUME TypeOK, JobReady, SealFooter \/ SealSync \/ SealFrame \/ SealPublish
    PROVE  TypeOK'
<1>1. active \in SegId
  BY DEF TypeOK, JobReady, SealPcs, SealFooter, SealSync, SealFrame, SealPublish
<1>2. CASE SealFooter
  <2>1. file' \in [SegId -> File]
    BY <1>1, <1>2, AppendChunkFacts, Zenon DEF SealFooter, Chunk, Footer
  <2> QED
    BY <1>2, <2>1 DEF SealFooter, Goto, TypeOK, Pcs, memVars, histVars
<1>3. CASE SealSync
  <2>1. file' \in [SegId -> File]
    BY <1>1, <1>3, SyncFileFacts DEF SealSync
  <2> QED
    BY <1>1, <1>3, <2>1 DEF SealSync, Goto, TypeOK, Pcs, histVars
<1>4. CASE SealFrame
  <2>1. log' \in Log /\ lastSeq' \in Nat
    BY <1>1, <1>4, FrameTypes, AppendFrameType DEF SealFrame
  <2> QED
    BY <1>4, <2>1 DEF SealFrame, Goto, TypeOK, Pcs, histVars
<1>5. CASE SealPublish
  <2>1. log' \in Log
    BY <1>5, SyncLogType DEF SealPublish
  <2>2. /\ pc' \in Pcs /\ job' \in Job
        /\ promised' \subseteq Record /\ gone' \subseteq Record
        /\ failures' \in 0 .. MaxFailures
    <3>1. CASE job.op = "append" /\ Goto("create") /\ UNCHANGED histVars
      BY <3>1 DEF Goto, TypeOK, Pcs, histVars
    <3>2. CASE MaybeCompact
      BY <3>2, MaybeCompactType
    <3>3. CASE job.op \in ReclaimKind /\ StartBatches(job.op) /\ UNCHANGED histVars
      BY <3>3, StartBatchesType DEF TypeOK, histVars
    <3> QED
      BY <1>5, <3>1, <3>2, <3>3 DEF SealPublish, AfterSeal
  <2> QED
    BY <1>5, <2>1, <2>2 DEF SealPublish, TypeOK
<1> QED
  BY <1>2, <1>3, <1>4, <1>5

\* The steps of release_group keep types.
LEMMA ReleaseTypes ==
    ASSUME TypeOK, JobReady,
           \/ \E units \in Groups(ReleaseUnits) : ReleaseStart(units) \/ ReleaseNothing(units)
           \/ ReleaseWrite \/ ReleaseSync
    PROVE  TypeOK'
<1>1. ASSUME NEW units \in Groups(ReleaseUnits)
      PROVE  /\ \E n \in 1 .. MaxGroup : units \in [1 .. n -> ReleaseUnits]
             /\ UNION {units[k] : k \in DOMAIN units} \subseteq Record
             /\ [k \in DOMAIN units |-> Scheduled(units, k)] \in Seq(Chunk)
  <2>1. PICK n \in 1 .. MaxGroup : units \in [1 .. n -> ReleaseUnits]
    BY DEF Groups
  <2>2. n \in Nat /\ DOMAIN units = 1 .. n
    BY <2>1, SizesAssumption, SMT
  <2>3. \A u \in ReleaseUnits : u \subseteq Record
    <3>1. ASSUME NEW s \in Stream PROVE KnownIds(s) \subseteq Record
      <4>1. highwater[s] \in HighWater
        BY DEF TypeOK, Highwaters
      <4>2. 0 .. highwater[s] \subseteq Seqno
        BY <4>1, BoundsAssumption, SMT DEF HighWater, Seqno, NoSeq
      <4> QED
        BY <4>2 DEF KnownIds, Record
    <3> QED
      BY <3>1 DEF ReleaseUnits
  <2>4. \A k \in 1 .. n : units[k] \subseteq Record
    BY <2>1, <2>3
  <2>5. [k \in 1 .. n |-> Scheduled(units, k)] \in [1 .. n -> Chunk]
    BY <2>4 DEF Scheduled, Chunk
  <2>6. [k \in 1 .. n |-> Scheduled(units, k)] \in Seq(Chunk)
    BY <2>2, <2>5, FunctionIsSequence
  <2> QED
    BY <2>1, <2>2, <2>4, <2>6
<1>2. ASSUME NEW units \in Groups(ReleaseUnits), ReleaseStart(units) PROVE TypeOK'
  <2> DEFINE todo == [k \in DOMAIN units |-> Scheduled(units, k)]
             group == UNION {units[k] : k \in DOMAIN units}
  <2>1. todo \in Seq(Chunk) /\ group \subseteq Record
    BY <1>1
  <2>2. /\ job' = [NoJob EXCEPT !.op = "release", !.group = group, !.todo = todo]
        /\ promised' = promised \ group
    BY <1>2, Zenon DEF ReleaseStart
  <2> HIDE DEF todo, group
  <2>3. job' \in Job /\ promised' \subseteq Record
    BY <2>1, <2>2, NoJobType, Zenon DEF Job, TypeOK
  <2> QED
    BY <1>2, <2>3, Zenon DEF ReleaseStart, TypeOK, Pcs, diskVars, memVars
<1>3. ASSUME NEW units \in Groups(ReleaseUnits), ReleaseNothing(units) PROVE TypeOK'
  BY <1>1, <1>3, Zenon DEF ReleaseNothing, TypeOK, diskVars, memVars
<1>4. CASE ReleaseWrite
  <2>1. job.todo # << >> /\ job' = [job EXCEPT !.todo = Tail(@)]
    BY <1>4 DEF JobReady, ReleaseWrite
  <2>2. Head(job.todo) \in Chunk /\ job' \in Job
    BY <2>1, TodoTail
  <2>3. log' \in Log /\ lastSeq' \in Nat
    <3>1. CASE UNCHANGED <<log, lastSeq>>
      BY <3>1 DEF TypeOK
    <3>2. CASE AppendFrame(ReleaseFrame(Head(job.todo)))
      BY <3>2, <2>2, FrameTypes, AppendFrameType DEF Chunk
    <3> QED
      BY <1>4, <3>1, <3>2 DEF ReleaseWrite
  <2> QED
    BY <1>4, <2>2, <2>3 DEF ReleaseWrite, TypeOK, Pcs, histVars
<1>5. CASE ReleaseSync
  <2>1. log' \in Log /\ MaybeCompact
    BY <1>5, SyncLogType, Zenon DEF ReleaseSync
  <2>2. released' \subseteq Record
    BY <1>5 DEF ReleaseSync, TypeOK, Job
  <2> QED
    BY <1>5, <2>1, <2>2, MaybeCompactType, Zenon DEF ReleaseSync, TypeOK
<1> QED
  BY <1>2, <1>3, <1>4, <1>5

\* The steps of reclaim keep types.
LEMMA ReclaimTypes ==
    ASSUME FiniteLaws, TypeOK,
           \/ \E kind \in ReclaimKind : ReclaimStart(kind)
           \/ ReclaimNextBatch \/ RemoveWrite \/ RemoveSync
           \/ Delete \/ DeleteSync \/ ReclaimDone
    PROVE  TypeOK'
<1>0. job \in Job /\ job.queue \subseteq SegId /\ job.batch \subseteq SegId
      /\ job.left \subseteq SegId /\ job.done \subseteq SegId
  BY DEF TypeOK, Job
<1>1. ASSUME NEW kind \in ReclaimKind, ReclaimStart(kind) PROVE TypeOK'
  <2>1. pc' \in Pcs /\ job' \in Job
    <3>1. CASE pc' = "seal_footer" /\ job' = [NoJob EXCEPT !.op = kind]
      BY <3>1, NoJobType DEF ReclaimKind, Job, Pcs
    <3>2. CASE StartBatches(kind)
      BY <3>2, StartBatchesType
    <3> QED
      BY <1>1, <3>1, <3>2 DEF ReclaimStart
  <2> QED
    BY <1>1, <2>1 DEF ReclaimStart, TypeOK, diskVars, memVars, histVars
<1>2. CASE ReclaimNextBatch
  <2>1. FirstIds(job.queue, ReclaimBatch) \subseteq SegId
    BY <1>0 DEF FirstIds
  <2>2. job' \in Job
    BY <1>0, <1>2, <2>1, Zenon DEF ReclaimNextBatch, Job
  <2> QED
    BY <1>2, <2>2 DEF ReclaimNextBatch, TypeOK, Pcs, diskVars, memVars, histVars
<1>3. CASE RemoveWrite
  <2>1. PICK i \in job.left :
               /\ AppendFrame(RemovedFrame(i, RemovalHighwaters(i, job.batch)))
               /\ job' = [job EXCEPT !.left = @ \ {i}]
               /\ pc' = IF job.left = {i} THEN "remove_sync" ELSE "remove_write"
    BY <1>3, Zenon DEF RemoveWrite
  <2>2. RemovedFrame(i, RemovalHighwaters(i, job.batch)) \in Frame
    BY <1>0, RemovalHighwatersType, FrameTypes
  <2>3. log' \in Log /\ lastSeq' \in Nat
    BY <2>1, <2>2, AppendFrameType
  <2>4. job' \in Job
    BY <1>0, <2>1 DEF Job
  <2> QED
    BY <1>3, <2>1, <2>3, <2>4 DEF RemoveWrite, TypeOK, Pcs, histVars
<1>4. CASE RemoveSync
  <2>1. log' \in Log
    BY <1>4, SyncLogType DEF RemoveSync
  <2>2. persisted' \in Highwaters
    <3>1. ASSUME NEW s \in Stream
          PROVE  Max({persisted[s]} \cup {r[2] : r \in
                   {x \in UNION {records[i] : i \in job.batch} : x[1] = s}}) \in HighWater
      <4>1. persisted[s] \in HighWater
        BY DEF TypeOK, Highwaters
      <4>2. \A r \in UNION {records[i] : i \in job.batch} : r[2] \in HighWater
        BY <1>0, RecordSequence DEF TypeOK
      <4>3. {persisted[s]} \cup {r[2] : r \in
               {x \in UNION {records[i] : i \in job.batch} : x[1] = s}} \in SUBSET HighWater
        BY <4>1, <4>2
      <4> QED
        BY <4>3, MaxHighwater
    <3> QED
      BY <1>4, <3>1 DEF RemoveSync, Highwaters
  <2>3. job' \in Job
    BY <1>0, <1>4 DEF RemoveSync, Job
  <2> QED
    BY <1>4, <2>1, <2>2, <2>3 DEF RemoveSync, TypeOK, Pcs, histVars
<1>5. CASE Delete
  <2>1. PICK i \in job.left :
          /\ dir' = dir \ {i} /\ live' = live \ {i} /\ footers' = footers \ {i}
          /\ released' = released \ records[i]
          /\ records' = [records EXCEPT ![i] = {}]
          /\ job' = [job EXCEPT !.left = @ \ {i}, !.done = @ \cup {i}]
          /\ pc' = IF job.left = {i} THEN "delete_sync" ELSE "delete"
    BY <1>5, Zenon DEF Delete
  <2>2. job' \in Job
    BY <1>0, <2>1, Zenon DEF Job
  <2>3. records' \in [SegId -> SUBSET Record]
    BY <2>1, Zenon DEF TypeOK
  <2> QED
    BY <1>5, <2>1, <2>2, <2>3, Zenon DEF Delete, TypeOK, Pcs, histVars
<1>6. CASE DeleteSync
  BY <1>6 DEF DeleteSync, SyncSegments, Goto, TypeOK, Pcs, memVars, histVars
<1>7. CASE ReclaimDone
  <2>1. CASE Goto("chk_rename") /\ UNCHANGED histVars
    BY <1>7, <2>1 DEF ReclaimDone, Goto, TypeOK, Pcs, diskVars, memVars, histVars
  <2>2. CASE MaybeCompact
    BY <1>7, <2>2, MaybeCompactType, Zenon DEF ReclaimDone, TypeOK, diskVars, memVars
  <2> QED
    BY <1>7, <2>1, <2>2 DEF ReclaimDone
<1> QED
  BY <1>1, <1>2, <1>3, <1>4, <1>5, <1>6, <1>7

\* compact_manifest builds a checkpoint.
LEMMA CheckpointType == FiniteLaws /\ TypeOK => CheckpointFromState \in Checkpoint
<1> SUFFICES ASSUME FiniteLaws, TypeOK PROVE CheckpointFromState \in Checkpoint
  OBVIOUS
<1>1. \A i \in SegId : Cardinality(records[i]) \in Nat
  BY RecordSetsFinite DEF TypeOK
<1> QED
  BY <1>1 DEF CheckpointFromState, Checkpoint, TypeOK

\* The log that Manifest::compact publishes is an empty log.
LEMMA EmptyLogType ==
    \A n \in Nat : [base |-> n + 1, frames |-> << >>, synced |-> 0] \in Log
BY SMT DEF Log

\* The steps of compact_manifest keep types.
LEMMA CompactTypes ==
    ASSUME FiniteLaws, TypeOK, CheckpointRename \/ CheckpointSync \/ LogRename \/ LogSync
    PROVE  TypeOK'
<1>1. CASE CheckpointRename
  BY <1>1, CheckpointType DEF CheckpointRename, Goto, TypeOK, Pcs, memVars, histVars
<1>2. CASE CheckpointSync
  BY <1>2 DEF CheckpointSync, SyncRoot, Goto, TypeOK, Pcs, memVars, histVars
<1>3. CASE LogRename
  <2>1. log' \in Log
    <3>1. lastSeq \in Nat
      BY DEF TypeOK
    <3>2. log' = [base |-> lastSeq + 1, frames |-> << >>, synced |-> 0]
      BY <1>3 DEF LogRename
    <3> QED
      BY <3>1, <3>2, EmptyLogType
  <2> QED
    BY <1>3, <2>1 DEF LogRename, Goto, TypeOK, Pcs, memVars, histVars
<1>4. CASE LogSync
  BY <1>4, FinishType DEF LogSync, SyncRoot, TypeOK
<1> QED
  BY <1>1, <1>2, <1>3, <1>4

\* The steps of open keep types.
LEMMA OpenTypes ==
    ASSUME FiniteLaws, TypeOK, Open
    PROVE  TypeOK'
<1>0. job \in Job /\ job.batch \subseteq SegId /\ job.left \subseteq SegId
      /\ job.done \subseteq SegId
  BY DEF TypeOK, Job
<1>1. CASE OpenControl
  <2>1. lastSeq' \in Nat
    BY <1>1, RecoveredLastSeqFacts DEF OpenControl, TypeOK
  <2>2. job' \in Job
    BY <1>1, NoJobType DEF OpenControl, Job
  <2> QED
    BY <1>1, <2>1, <2>2 DEF OpenControl, TypeOK, Pcs, diskVars, histVars
<1>2. CASE OpenDelete
  <2>1. dir' \subseteq SegId /\ job' \in Job
    BY <1>0, <1>2, SMT DEF OpenDelete, TypeOK, Job
  <2> QED
    BY <1>2, <2>1 DEF OpenDelete, TypeOK, memVars, histVars
<1>3. CASE OpenScan
  <2>1. MissingSeals(chk, log, dir, file) \subseteq SegId
    BY DEF MissingSeals, TypeOK
  <2>2. job' \in Job
    BY <1>0, <1>3, <2>1, Zenon DEF OpenScan, Job
  <2>3. durDir' \subseteq SegId
    BY <1>3 DEF OpenScan, TypeOK
  <2> QED
    BY <1>3, <2>2, <2>3 DEF OpenScan, TypeOK, Pcs, memVars, histVars
<1>4. CASE OpenReseal
  <2>1. PICK i \in job.left : /\ AppendFrame(SealedFrame(i))
                              /\ job' = [job EXCEPT !.left = @ \ {i}]
    BY <1>4 DEF OpenReseal
  <2>2. log' \in Log /\ lastSeq' \in Nat
    BY <1>0, <2>1, FrameTypes, AppendFrameType
  <2>3. job' \in Job
    BY <1>0, <2>1 DEF Job
  <2> QED
    BY <1>4, <2>2, <2>3 DEF OpenReseal, TypeOK, Pcs, histVars
<1>5. CASE OpenResealSync
  BY <1>5, SyncLogType DEF OpenResealSync, Goto, TypeOK, Pcs, histVars
<1>6. CASE OpenRebuild
  <2>1. /\ chk \in Checkpoint /\ log \in Log /\ dir \in SUBSET SegId
        /\ file \in [SegId -> File]
    BY DEF TypeOK
  <2>2. \A i \in SegId : RecordsOf(file[i]) \subseteq Record
    BY <2>1, RecordsOfType
  <2>3. records' \in [SegId -> SUBSET Record]
    BY <1>6, <2>2, Zenon DEF OpenRebuild, RecoveredRecords
  <2>4. released' \subseteq Record
    <3>1. chk.rel \subseteq Record
      BY <2>1 DEF Checkpoint
    <3>2. UNION {RecordsOf(file[i]) : i \in dir} \subseteq Record
      BY <2>1, <2>2
    <3>3. UNION {chk.rel \cap Baseline(chk, job.batch, i, file) : i \in dir} \subseteq Record
      BY <3>1
    <3>4. released' = RecoveredReleased(chk, log, job.batch, dir, file)
      BY <1>6, Zenon DEF OpenRebuild
    <3> QED
      BY <3>2, <3>3, <3>4 DEF RecoveredReleased
  <2>5. active' \in SegId \cup {NoSeg}
    BY <1>6, <2>1, RecoveredActiveFacts, Zenon DEF OpenRebuild
  <2>6. highwater' \in Highwaters /\ persisted' \in Highwaters
    BY <1>6, <2>1, RecoveredHighwaterFacts, RecoveredPersistedType, Zenon DEF OpenRebuild
  <2>7. nextId' \in 0 .. MaxSegId
    BY <1>6, <2>1, RecoveredNextIdFacts, Zenon DEF OpenRebuild
  <2> QED
    BY <1>6, <2>1, <2>3, <2>4, <2>5, <2>6, <2>7, NoJobType, Zenon
       DEF OpenRebuild, TypeOK, Pcs, diskVars, histVars
<1>7. CASE OpenReject
  <2>1. job' \in Job
    <3>1. PICK why \in Rejections : job' = [NoJob EXCEPT !.op = why, !.batch = job.batch]
      BY <1>7, Zenon DEF OpenReject
    <3>2. why \in {"control", "enumeration", "scan", "baseline", "sequence", "index"}
      BY <3>1 DEF Rejections
    <3> QED
      BY <1>0, <3>1, <3>2, NoJobType, Zenon DEF Job
  <2>2. ForgetMemory
    BY <1>7 DEF OpenReject
  <2> QED
    BY <1>7, <2>1, <2>2, ForgottenTypes DEF OpenReject, TypeOK, Pcs, histVars
<1>8. CASE OpenRetry
  BY <1>8, NoJobType DEF OpenRetry, TypeOK, Pcs, diskVars, memVars, histVars
<1> QED
  BY <1>1, <1>2, <1>3, <1>4, <1>5, <1>6, <1>7, <1>8 DEF Open

\* Shutdown keeps types.
LEMMA ShutdownType ==
    ASSUME TypeOK, Shutdown PROVE TypeOK'
BY NoJobType, ForgottenTypes DEF Shutdown, TypeOK, Pcs, diskVars, histVars

\* A process crash keeps types.
LEMMA ProcessCrashType ==
    ASSUME TypeOK, ProcessCrash PROVE TypeOK'
BY NoJobType, ForgottenTypes, FailType DEF ProcessCrash, TypeOK, Pcs, diskVars

-----------------------------------------------------------------------------
(* Type correctness is inductive together with JobReady. *)
\* Every step of the store keeps TypeOK, given JobReady.
LEMMA TypeStep ==
    ASSUME FiniteLaws, TypeOK, JobReady, [Next]_vars
    PROVE  TypeOK'
<1>1. CASE \E units \in Groups(Unit) : \E first \in [DOMAIN units -> Seqno] :
              AppendStart(units, first)
  BY <1>1, AppendStartType
<1>2. CASE AppendWrite
  BY <1>2, AppendWriteType DEF JobReady, WritePcs, AppendWrite
<1>3. CASE AppendSync
  BY <1>3, AppendSyncType DEF JobReady, WritePcs, AppendSync
<1>4. CASE CreateRename
  BY <1>4, CreateRenameType
<1>5. CASE CreateSync
  BY <1>5, CreateSyncType DEF JobReady, CreateSync
<1>6. CASE SegmentIdExhausted
  BY <1>6, NoJobType DEF SegmentIdExhausted, TypeOK, Pcs, diskVars, memVars, histVars
<1>7. CASE SealExpired
  <2>1. job' \in Job
    BY <1>7, NoJobType DEF SealExpired, Job
  <2> QED
    BY <1>7, <2>1 DEF SealExpired, TypeOK, Pcs, diskVars, memVars, histVars
<1>8. CASE UNCHANGED vars
  BY <1>8 DEF vars, diskVars, memVars, histVars, TypeOK
<1> QED
  BY <1>1, <1>2, <1>3, <1>4, <1>5, <1>6, <1>7, <1>8, SealTypes, ReleaseTypes, ReclaimTypes,
     CompactTypes, OpenTypes, ShutdownType, ProcessCrashType, PowerLossFacts
     DEF Next, Serve

-----------------------------------------------------------------------------
(* Control *)
\* Steps that touch neither the manifest nor the set of live segments.
ManifestKept ==
    /\ pc \notin OpenPcs \cup {"remove_write", "remove_sync", "delete", "create_sync"}
    /\ pc' \notin OpenPcs \cup {"create_sync"}
    /\ UNCHANGED <<chk, live, nextId, lastSeq>>
    /\ UNCHANGED log \/ SyncLog

\* A step that touches neither manifest nor segments keeps Control.
LEMMA ControlKept ==
    ASSUME TypeOK, Control, ManifestKept
    PROVE  Control'
<1>1. log'.frames = log.frames /\ \A c : RemovedIds(c, log') = RemovedIds(c, log)
  <2>1. CASE UNCHANGED log
    BY <2>1
  <2>2. CASE SyncLog
    BY <2>2, LogSynced
  <2> QED
    BY <2>1, <2>2 DEF ManifestKept
<1>2. Removing = {}
  BY DEF Removing, ManifestKept
<1> QED
  BY <1>1, <1>2 DEF Control, Up, OpenPcs, ManifestKept

\* These steps leave the frames, the removed segments and their deletion as they are.
LEMMA ManifestKeepers ==
    ASSUME \/ \E units \in Groups(Unit) : \E first \in [DOMAIN units -> Seqno] :
                AppendStart(units, first)
           \/ \E units \in Groups(ReleaseUnits) : ReleaseStart(units) \/ ReleaseNothing(units)
           \/ \E kind \in ReclaimKind : ReclaimStart(kind)
           \/ AppendWrite \/ AppendSync \/ SegmentIdExhausted
           \/ SealExpired \/ SealFooter \/ SealSync \/ SealPublish \/ ReleaseSync
           \/ ReclaimNextBatch \/ DeleteSync \/ ReclaimDone \/ CheckpointSync \/ LogSync
    PROVE  ManifestKept
<1> USE DEF ManifestKept, OpenPcs
<1>1. ASSUME NEW units, NEW first, AppendStart(units, first) PROVE ManifestKept
  <2>1. pc' \in {"create", "append_write", "seal_footer"}
    BY <1>1 DEF AppendStart, AppendTargets
  <2> QED
    BY <1>1, <2>1 DEF AppendStart, diskVars, memVars
<1>2. ASSUME NEW units, ReleaseStart(units) \/ ReleaseNothing(units) PROVE ManifestKept
  BY <1>2 DEF ReleaseStart, ReleaseNothing, diskVars, memVars
<1>3. ASSUME NEW kind, ReclaimStart(kind) PROVE ManifestKept
  BY <1>3 DEF ReclaimStart, StartBatches, diskVars, memVars
<1>4. CASE AppendWrite \/ AppendSync \/ SegmentIdExhausted
  BY <1>4 DEF AppendWrite, AppendSync, SegmentIdExhausted, Finish, diskVars, memVars
<1>5. CASE SealExpired \/ SealFooter \/ SealSync
  BY <1>5 DEF SealExpired, SealFooter, SealSync, Goto, diskVars, memVars
<1>6. CASE SealPublish
  <2>1. pc' \in {"create", "idle", "chk_rename", "reclaim_batch"}
    BY <1>6 DEF SealPublish, AfterSeal, MaybeCompact, StartBatches, Goto, Finish
  <2> QED
    BY <1>6, <2>1 DEF SealPublish
<1>7. CASE ReleaseSync
  BY <1>7 DEF ReleaseSync, MaybeCompact, Goto, Finish
<1>8. CASE ReclaimNextBatch \/ DeleteSync \/ ReclaimDone
  BY <1>8 DEF ReclaimNextBatch, DeleteSync, ReclaimDone, MaybeCompact, Goto, Finish, diskVars,
     memVars
<1>9. CASE CheckpointSync \/ LogSync
  BY <1>9 DEF CheckpointSync, LogSync, Goto, Finish, memVars
<1> QED
  BY <1>1, <1>2, <1>3, <1>4, <1>5, <1>6, <1>7, <1>8, <1>9

\* Every step under power losses keeps Control.
LEMMA ControlStep ==
    ASSUME FiniteLaws, TypeOK, JobReady, Control, Index, JobInv, [NextPower]_vars
    PROVE  Control'
<1>0. /\ chk \in Checkpoint /\ log \in Log /\ nextId \in Nat /\ lastSeq \in Nat
      /\ dir \subseteq SegId /\ live \subseteq SegId /\ job.left \subseteq SegId
  BY BoundsAssumption, SMT DEF TypeOK, Job
<1>1. CASE ManifestKept
  BY <1>1, ControlKept
<1>2. CASE CreateRename
  <2>1. \A i \in RemovedIds(chk, log) : i \in Int
    BY <1>0, RemovedIdsType
  <2>2. /\ UNCHANGED <<chk, log, live, lastSeq>> /\ nextId' = nextId + 1
        /\ pc = "create" /\ pc' = "create_sync"
    BY <1>2 DEF CreateRename, Goto
  <2>3. \A i \in RemovedIds(chk, log) : i < nextId
    BY <2>2 DEF Control, Up, OpenPcs
  <2>4. nextId' - 1 \notin RemovedIds(chk, log) /\ \A i \in RemovedIds(chk, log) : i < nextId'
    BY <1>0, <2>1, <2>2, <2>3, SMT
  <2> QED
    BY <2>2, <2>4 DEF Control, Removing, Up, OpenPcs
<1>3. CASE CreateSync
  BY <1>3 DEF CreateSync, Finish, Control, Removing, Up, OpenPcs
<1>4. CASE SealFrame \/ OpenReseal \/ (ReleaseWrite /\ ~UNCHANGED <<log, lastSeq>>)
  <2>1. /\ (\A k \in DOMAIN log.frames : log.frames[k].seq <= lastSeq) =>
             \A k \in DOMAIN log'.frames : log'.frames[k].seq <= lastSeq'
        /\ RemovedIds(chk, log') \subseteq RemovedIds(chk, log)
    <3>1. PICK g \in Frame : AppendFrame(g) /\ (g.kind = "removed" => RemoveWrite)
      BY <1>4, FrameWriteIsAppend DEF FrameWrite
    <3>2. ~RemoveWrite
      BY <1>4 DEF SealFrame, OpenReseal, ReleaseWrite, RemoveWrite
    <3> QED
      BY <1>0, <3>1, <3>2, LogWritten
  <2>2. /\ UNCHANGED <<chk, dir, live, nextId>> /\ pc \in {"seal_frame", "reseal", "release_write"}
        /\ pc = "reseal" => pc' = "reseal_sync"
        /\ pc # "reseal" => pc' \in {"seal_publish", "release_write", "release_sync"}
    BY <1>4 DEF SealFrame, OpenReseal, ReleaseWrite, Goto
  <2> QED
    BY <2>1, <2>2 DEF Control, Removing, Up, OpenPcs
<1>5. CASE ReleaseWrite /\ UNCHANGED <<log, lastSeq>>
  <2>1. /\ UNCHANGED <<chk, live, nextId>> /\ pc = "release_write"
        /\ pc' \in {"release_write", "release_sync"}
    BY <1>5 DEF ReleaseWrite
  <2> QED
    BY <1>5, <2>1 DEF Control, Removing, Up, OpenPcs
<1>6. CASE RemoveWrite
  <2>1. PICK g \in Frame : AppendFrame(g) /\ (g.kind = "removed" => g.id \in job.left)
    BY <1>6, FrameWriteIsAppend DEF FrameWrite
  <2>2. /\ (\A k \in DOMAIN log.frames : log.frames[k].seq <= lastSeq) =>
             \A k \in DOMAIN log'.frames : log'.frames[k].seq <= lastSeq'
        /\ \A i \in RemovedIds(chk, log') : i \in RemovedIds(chk, log) \/ i \in job.left
    BY <1>0, <2>1, LogWritten
  <2>3. /\ UNCHANGED <<chk, live, nextId>> /\ pc = "remove_write"
        /\ pc' \in {"remove_write", "remove_sync"} /\ job'.batch = job.batch
    BY <1>6 DEF RemoveWrite, TypeOK, Job
  <2>4. /\ job.left \subseteq job.batch
        /\ \A i \in job.left : i < nextId
    BY <2>3 DEF JobInv, ReclaimJob, ReclaimPcs
  <2> QED
    BY <2>2, <2>3, <2>4 DEF Control, Removing, Up, OpenPcs
<1>7. CASE RemoveSync
  <2>1. /\ UNCHANGED <<chk, live, nextId, lastSeq>> /\ pc = "remove_sync" /\ pc' = "delete"
        /\ job'.left = job.batch
    BY <1>7 DEF RemoveSync, TypeOK, Job
  <2>2. log'.frames = log.frames /\ \A c : RemovedIds(c, log') = RemovedIds(c, log)
    BY <1>7, LogSynced DEF RemoveSync
  <2> QED
    BY <2>1, <2>2 DEF Control, Removing, Up, OpenPcs
<1>8. CASE Delete
  <2>1. PICK i \in job.left :
          /\ live' = live \ {i} /\ job'.left = job.left \ {i}
          /\ pc' = IF job.left = {i} THEN "delete_sync" ELSE "delete"
    BY <1>8 DEF Delete, TypeOK, Job
  <2>2. UNCHANGED <<chk, log, nextId, lastSeq>> /\ pc = "delete"
    BY <1>8 DEF Delete
  <2> QED
    BY <2>1, <2>2 DEF Control, Removing, Up, OpenPcs
<1>9. CASE CheckpointRename
  <2>1. chk' \in Checkpoint /\ chk'.last = lastSeq
    BY <1>9, CheckpointType DEF CheckpointRename, CheckpointFromState
  <2>2. /\ UNCHANGED <<log, live, nextId, lastSeq>> /\ pc = "chk_rename" /\ pc' = "chk_sync"
    BY <1>9 DEF CheckpointRename, Goto, memVars
  <2>3. \A k \in DOMAIN log.frames : log.frames[k].seq <= lastSeq
    BY <2>2 DEF Control
  <2>4. RemovedIds(chk', log) = {}
    BY <1>0, <2>1, <2>3, NothingApplied
  <2> QED
    BY <2>2, <2>3, <2>4 DEF Control, Removing, Up, OpenPcs
<1>10. CASE LogRename
  <2>1. log' \in Log /\ log'.frames = << >>
    BY <1>0, <1>10, SMT DEF LogRename, Log
  <2>2. /\ UNCHANGED <<chk, live, nextId, lastSeq>> /\ pc = "log_rename" /\ pc' = "log_sync"
    BY <1>10 DEF LogRename, Goto, memVars
  <2>3. RemovedIds(chk, log') = {}
    BY <1>0, <2>1, NothingApplied, SMT
  <2> QED
    BY <2>1, <2>2, <2>3, SMT DEF Control, Removing, Up, OpenPcs
<1>11. CASE OpenControl
  <2>1. \A k \in DOMAIN log.frames : log.frames[k].seq <= lastSeq'
    BY <1>0, <1>11, RecoveredLastSeqBounds DEF OpenControl
  <2> QED
    BY <1>11, <2>1 DEF OpenControl, Control, Up, OpenPcs, diskVars
<1>12. CASE OpenDelete
  BY <1>12 DEF OpenDelete, Control, Up, OpenPcs, memVars
<1>13. CASE OpenScan
  BY <1>13 DEF OpenScan, EnumerationDone, Control, Up, OpenPcs, memVars
<1>14. CASE OpenResealSync
  <2>1. log'.frames = log.frames /\ \A c : RemovedIds(c, log') = RemovedIds(c, log)
    BY <1>14, LogSynced DEF OpenResealSync
  <2> QED
    BY <1>14, <2>1 DEF OpenResealSync, Goto, Control, Up, OpenPcs
<1>15. CASE OpenRebuild
  <2>1. /\ UNCHANGED <<chk, log, lastSeq>> /\ pc = "reseal" /\ pc' = "idle" /\ live' = dir
        /\ nextId' = RecoveredNextId(chk, log, dir)
    BY <1>15 DEF OpenRebuild, diskVars
  <2>2. \A i \in RemovedIds(chk, log) : i < nextId'
    BY <1>0, <2>1, RecoveredNextIdFacts
  <2> QED
    BY <2>1, <2>2 DEF Control, Removing, Up, OpenPcs
<1>16. CASE OpenReject \/ OpenRetry \/ Shutdown \/ PowerLoss
  <2>1. pc' \in {"closed", "failed"}
    BY <1>16 DEF OpenReject, OpenRetry, Shutdown, PowerLoss
  <2> QED
    BY <2>1 DEF Control, Up, OpenPcs
<1>17. CASE UNCHANGED vars
  BY <1>17 DEF vars, diskVars, memVars, Control, Up, Removing
<1> QED
  BY <1>1, <1>2, <1>3, <1>4, <1>5, <1>6, <1>7, <1>8, <1>9, <1>10, <1>11, <1>12, <1>13, <1>14,
     <1>15, <1>16, <1>17, ManifestKeepers DEF NextPower, Serve, Open

-----------------------------------------------------------------------------
(* Index *)
\* Steps that change neither a segment file nor what the index says of it.
IndexKept ==
    /\ pc \notin OpenPcs \cup WritePcs \cup {"create_sync", "seal_frame", "seal_publish"}
    /\ pc' \notin OpenPcs \cup {"create_sync"}
    /\ UNCHANGED <<chk, dir, file, records, live, footers, released, active, highwater, nextId>>
    /\ UNCHANGED log \/ SyncLog

\* These steps change neither the files nor the index.
LEMMA IndexKeepers ==
    ASSUME \/ \E units \in Groups(Unit) : \E first \in [DOMAIN units -> Seqno] :
                AppendStart(units, first)
           \/ \E units \in Groups(ReleaseUnits) : ReleaseStart(units) \/ ReleaseNothing(units)
           \/ \E kind \in ReclaimKind : ReclaimStart(kind)
           \/ SegmentIdExhausted \/ SealExpired
           \/ ReclaimNextBatch \/ RemoveSync \/ DeleteSync \/ ReclaimDone
           \/ CheckpointSync \/ LogSync
           \/ ReleaseWrite /\ UNCHANGED <<log, lastSeq>>
    PROVE  IndexKept
<1> USE DEF IndexKept, OpenPcs, WritePcs
<1>1. ASSUME NEW units, NEW first, AppendStart(units, first) PROVE IndexKept
  <2>1. pc' \in {"create", "append_write", "seal_footer"}
    BY <1>1 DEF AppendStart, AppendTargets
  <2> QED
    BY <1>1, <2>1 DEF AppendStart, diskVars, memVars
<1>2. ASSUME NEW units, ReleaseStart(units) \/ ReleaseNothing(units) PROVE IndexKept
  BY <1>2 DEF ReleaseStart, ReleaseNothing, diskVars, memVars
<1>3. ASSUME NEW kind, ReclaimStart(kind) PROVE IndexKept
  BY <1>3 DEF ReclaimStart, StartBatches, diskVars, memVars
<1>4. CASE SegmentIdExhausted \/ SealExpired
  BY <1>4 DEF SegmentIdExhausted, SealExpired, diskVars, memVars
<1>5. CASE ReclaimNextBatch \/ RemoveSync \/ DeleteSync \/ ReclaimDone
  BY <1>5 DEF ReclaimNextBatch, RemoveSync, DeleteSync, ReclaimDone, MaybeCompact, Goto, Finish,
     diskVars, memVars
<1>6. CASE CheckpointSync \/ LogSync
  BY <1>6 DEF CheckpointSync, LogSync, Goto, Finish, memVars
<1>7. CASE ReleaseWrite /\ UNCHANGED <<log, lastSeq>>
  BY <1>7 DEF ReleaseWrite
<1> QED
  BY <1>1, <1>2, <1>3, <1>4, <1>5, <1>6, <1>7

\* Every step under power losses keeps Index.
LEMMA IndexStep ==
    ASSUME FiniteLaws, TypeOK, JobReady, Settled, Control, Index, JobInv, [NextPower]_vars
    PROVE  Index'
<1> USE DEF Up, OpenPcs, WritePcs, CreatePcs, SealPcs
<1>1. CASE IndexKept
  <2>1. ReleasedBy(chk', log') = ReleasedBy(chk, log)
    BY <1>1, LogSynced DEF IndexKept
  <2> QED
    BY <1>1, <2>1 DEF IndexKept, Index
<1>2. CASE AppendWrite
  <2>1. /\ active \in SegId /\ AppendChunk(active, Head(job.todo)) /\ Head(job.todo) \in Chunk
        /\ pc = "append_write" /\ pc' \in {"append_write", "append_sync"}
        /\ job'.group = job.group
        /\ UNCHANGED <<chk, log, dir, records, live, footers, released, active, highwater, nextId>>
    BY <1>2, TodoTail DEF AppendWrite, JobReady, TypeOK, memVars
  <2>2. Head(job.todo) \subseteq job.group
    <3>1. job.todo \in Seq(Chunk) /\ job.todo # << >>
      BY <2>1 DEF TypeOK, Job, JobReady
    <3>2. Head(job.todo) \subseteq TodoRecords
      BY <3>1, SMT DEF TodoRecords
    <3>3. TodoRecords \subseteq job.group
      BY <2>1 DEF JobInv, AppendJob
    <3> QED
      BY <3>2, <3>3
  <2>3. \A j \in SegId : RecordsOf(file'[j]) \subseteq
           RecordsOf(file[j]) \cup (IF j = active THEN job.group ELSE {})
    BY <2>1, <2>2, ChunkWritten
  <2> QED
    BY <2>1, <2>3, Types DEF Index
<1>3. CASE AppendSync
  <2>1. /\ active \in SegId /\ SyncFile(active) /\ IndexDurableRecords(active)
        /\ pc = "append_sync" /\ pc' = "idle"
        /\ UNCHANGED <<chk, log, dir, live, footers, released, active, nextId>>
    BY <1>3 DEF AppendSync, JobReady, TypeOK, Finish
  <2>2. \A j \in SegId : RecordsOf(file'[j]) = RecordsOf(file[j])
    BY <2>1, FileSynced
  <2>3. /\ \A j \in SegId \ {active} : records'[j] = records[j]
        /\ records'[active] = records[active] \cup job.group
        /\ \A j \in SegId : UpTo(records'[j], highwater')
        /\ UpTo(released, highwater') /\ UpTo(ReleasedBy(chk, log), highwater')
        /\ \A s \in Stream : chk.hw[s] <= highwater'[s]
    BY <2>1, HighwaterRaised
  <2> QED
    BY <2>1, <2>2, <2>3, Types DEF Index
<1>4. CASE CreateRename
  <2>1. /\ nextId \in SegId /\ file' = [file EXCEPT ![nextId] = file'[nextId]]
        /\ pc = "create" /\ pc' = "create_sync" /\ nextId' = nextId + 1
        /\ dir' = dir \cup {nextId}
        /\ UNCHANGED <<chk, log, records, live, footers, released, active, highwater>>
    BY <1>4, CreateRenameType, Types DEF CreateRename, Goto
  <2>2. nextId \notin live
    BY <2>1, Types, SMT DEF Index
  <2>3. \A i \in live : file'[i] = file[i]
    BY <2>1, <2>2, Types
  <2>4. nextId' - 1 = nextId /\ \A i \in dir' : i < nextId'
    BY <2>1, Types, SMT DEF Index
  <2> QED
    BY <2>1, <2>2, <2>3, <2>4 DEF Index
<1>5. CASE CreateSync
  <2>1. /\ nextId - 1 \in SegId /\ IndexDurableRecords(nextId - 1)
        /\ pc = "create_sync" /\ pc' = "idle" /\ live' = live \cup {nextId - 1}
        /\ active' = nextId - 1
        /\ UNCHANGED <<chk, log, dir, file, footers, released, nextId>>
    BY <1>5, CreateSyncType DEF CreateSync, JobReady, Finish
  <2>2. /\ \A j \in SegId \ {nextId - 1} : records'[j] = records[j]
        /\ records'[nextId - 1] = records[nextId - 1] \cup job.group
        /\ \A j \in SegId : UpTo(records'[j], highwater')
        /\ UpTo(released, highwater') /\ UpTo(ReleasedBy(chk, log), highwater')
        /\ \A s \in Stream : chk.hw[s] <= highwater'[s]
    BY <2>1, HighwaterRaised
  <2>3. nextId - 1 \notin live /\ RecordsOf(file[nextId - 1]) = job.group
    BY <2>1 DEF JobInv, AppendJob
  <2> QED
    BY <2>1, <2>2, <2>3, Types, SMTT(30) DEF Index
<1>6. CASE SealFooter \/ SealSync
  <2>1. \A j \in SegId : RecordsOf(file'[j]) = RecordsOf(file[j])
    <3>1. active \in SegId
      BY <1>6 DEF SealFooter, SealSync, JobReady, TypeOK
    <3>2. CASE SealFooter
      <4>1. AppendChunk(active, Footer) /\ Footer \in Chunk
        BY <3>2 DEF SealFooter, Footer, Chunk
      <4>2. /\ RecordsOf(file'[active]) = RecordsOf(file[active]) \cup Footer
            /\ \A j \in SegId \ {active} : RecordsOf(file'[j]) = RecordsOf(file[j])
        BY <3>1, <4>1, ChunkWritten
      <4> QED
        BY <4>2 DEF Footer
    <3>3. CASE SealSync
      BY <3>1, <3>3, FileSynced DEF SealSync
    <3> QED
      BY <1>6, <3>2, <3>3
  <2>2. /\ pc \in {"seal_footer", "seal_sync"} /\ pc' \in {"seal_sync", "seal_frame"}
        /\ UNCHANGED <<chk, log, dir, records, live, released, active, highwater, nextId>>
        /\ \/ pc' = "seal_sync" /\ footers' = footers
           \/ pc' = "seal_frame" /\ footers' = footers \cup {active}
    BY <1>6 DEF SealFooter, SealSync, Goto, memVars
  <2> QED
    BY <2>1, <2>2, Types DEF Index, JobReady
<1>7. CASE SealFrame \/ RemoveWrite \/ (ReleaseWrite /\ ~UNCHANGED <<log, lastSeq>>)
  <2>1. PICK g \in Frame : /\ AppendFrame(g)
                           /\ g.kind = "release" => /\ ReleaseWrite
                                                    /\ g = ReleaseFrame(Head(job.todo))
    BY <1>7, FrameWriteIsAppend DEF FrameWrite
  <2>2. \A r \in ReleasedBy(chk, log') : r \in ReleasedBy(chk, log)
                                         \/ (g.kind = "release" /\ r \in g.recs)
    BY <2>1, Types, LogWritten
  <2>3. ASSUME ReleaseWrite PROVE UpTo(Head(job.todo), highwater)
    <3>1. job.todo \in Seq(Chunk) /\ job.todo # << >> /\ pc = "release_write"
      BY <2>3 DEF TypeOK, Job, JobReady, ReleaseWrite
    <3>2. Head(job.todo) \subseteq TodoRecords
      BY <3>1, SMT DEF TodoRecords
    <3>3. TodoRecords \subseteq job.group /\ UpTo(job.group, highwater)
      BY <3>1 DEF JobInv, ReleaseJob
    <3> QED
      BY <3>2, <3>3 DEF UpTo
  <2>4. UpTo(ReleasedBy(chk, log'), highwater)
    <3>1. Up
      BY <1>7 DEF SealFrame, RemoveWrite, ReleaseWrite
    <3>2. UpTo(ReleasedBy(chk, log), highwater)
      BY <3>1 DEF Index
    <3>3. CASE g.kind = "release"
      BY <2>1, <2>2, <2>3, <3>2, <3>3, SMT DEF UpTo, ReleaseFrame
    <3>4. CASE g.kind # "release"
      BY <2>2, <3>2, <3>4 DEF UpTo
    <3> QED
      BY <3>3, <3>4
  <2>5. /\ UNCHANGED <<chk, dir, file, records, live, footers, released, active, highwater, nextId>>
        /\ pc \in {"seal_frame", "remove_write", "release_write"}
        /\ pc = "seal_frame" => pc' = "seal_publish"
        /\ pc # "seal_frame" => pc' \in {"remove_write", "remove_sync", "release_write", "release_sync"}
    BY <1>7 DEF SealFrame, RemoveWrite, ReleaseWrite, Goto
  <2> QED
    BY <2>4, <2>5 DEF Index
<1>8. CASE SealPublish
  <2>1. /\ UNCHANGED <<chk, dir, file, records, live, footers, released, highwater, nextId>>
        /\ pc = "seal_publish" /\ active' = NoSeg
        /\ pc' \in {"create", "idle", "chk_rename", "reclaim_batch"}
    BY <1>8 DEF SealPublish, AfterSeal, MaybeCompact, StartBatches, Goto, Finish
  <2>2. ReleasedBy(chk, log') = ReleasedBy(chk, log)
    BY <1>8, LogSynced DEF SealPublish
  <2> QED
    BY <2>1, <2>2 DEF Index
<1>9. CASE ReleaseSync
  <2>1. /\ UNCHANGED <<chk, dir, file, records, live, footers, active, highwater, nextId>>
        /\ pc = "release_sync" /\ pc' \in {"idle", "chk_rename"}
        /\ released' \subseteq released \cup job.group
    BY <1>9 DEF ReleaseSync, MaybeCompact, Goto, Finish
  <2>2. ReleasedBy(chk, log') = ReleasedBy(chk, log)
    BY <1>9, LogSynced DEF ReleaseSync
  <2>3. UpTo(released', highwater)
    <3>1. UpTo(released, highwater) /\ UpTo(job.group, highwater)
      BY <2>1 DEF Index, JobInv, ReleaseJob
    <3> QED
      BY <2>1, <3>1, UpToUnion
  <2> QED
    BY <2>1, <2>2, <2>3 DEF Index
<1>10. CASE Delete
  <2>1. PICK i \in job.left :
          /\ dir' = dir \ {i} /\ live' = live \ {i} /\ footers' = footers \ {i}
          /\ released' = released \ records[i]
          /\ records' = [records EXCEPT ![i] = {}]
          /\ pc' = IF job.left = {i} THEN "delete_sync" ELSE "delete"
    BY <1>10 DEF Delete
  <2>2. UNCHANGED <<chk, log, file, active, highwater, nextId>> /\ pc = "delete"
    BY <1>10 DEF Delete
  <2>3. i # active
    BY <2>1, <2>2 DEF JobInv, ReclaimJob, ReclaimPcs
  <2>4. /\ \A j \in SegId \ {i} : records'[j] = records[j]
        /\ records'[i] = {} /\ i \in SegId
    BY <2>1, Types
  <2>5. UpTo(released', highwater) /\ \A j \in SegId : UpTo(records'[j], highwater)
    BY <2>1, <2>2, <2>4 DEF Index, UpTo
  <2> QED
    BY <2>1, <2>2, <2>3, <2>4, <2>5, Types DEF Index
<1>11. CASE CheckpointRename
  <2>1. /\ chk' \in Checkpoint /\ chk'.last = lastSeq /\ chk'.hw = highwater
    BY <1>11, CheckpointType DEF CheckpointRename, CheckpointFromState
  <2>2. /\ UNCHANGED <<log, dir, file, records, live, footers, released, active, highwater, nextId>>
        /\ pc = "chk_rename" /\ pc' = "chk_sync"
    BY <1>11 DEF CheckpointRename, Goto, memVars
  <2>3. ReleasedBy(chk', log) = {}
    BY <2>1, <2>2, Types, NothingApplied DEF Control
  <2>4. \A s \in Stream : chk'.hw[s] <= highwater[s]
    BY <2>1, Types, SMT
  <2> QED
    BY <2>2, <2>3, <2>4 DEF Index, UpTo
<1>12. CASE LogRename
  <2>1. log' \in Log /\ log'.frames = << >>
    BY <1>12, Types, SMT DEF LogRename, Log
  <2>2. /\ UNCHANGED <<chk, dir, file, records, live, footers, released, active, highwater, nextId>>
        /\ pc = "log_rename" /\ pc' = "log_sync"
    BY <1>12 DEF LogRename, Goto, memVars
  <2>3. ReleasedBy(chk, log') = {}
    BY <2>1, Types, NothingApplied, SMT
  <2> QED
    BY <2>2, <2>3 DEF Index, UpTo
<1>13. CASE OpenRebuild
  <2>1. /\ UNCHANGED <<chk, log, dir, file>> /\ pc' = "idle" /\ live' = dir
        /\ records' = RecoveredRecords(dir, file)
        /\ footers' = {i \in dir : HasFooter(file[i])}
        /\ released' = RecoveredReleased(chk, log, job.batch, dir, file)
        /\ active' = RecoveredActive(dir, file)
        /\ highwater' = RecoveredHighwater(chk, log, job.batch, dir, file)
        /\ nextId' = RecoveredNextId(chk, log, dir)
    BY <1>13 DEF OpenRebuild, diskVars
  <2>2. IndexesAccepted(chk, log, job.batch, dir, file)
    BY <1>13 DEF OpenRebuild
  <2>3. \A i \in SegId : UpTo(records'[i], highwater')
    BY <2>1, <2>2, Types, RecordsRecovered DEF UpTo, RecoveredRecords
  <2>4. UpTo(released', highwater')
    <3>1. \A r \in released' : \E i \in dir : r \in RecordsOf(file[i])
      BY <2>1, Types, BaselineType DEF RecoveredReleased
    <3> QED
      BY <2>1, <2>2, <3>1, Types, RecordsRecovered DEF UpTo
  <2>5. UpTo(ReleasedBy(chk, log), highwater')
    BY <2>1, <2>2 DEF IndexesAccepted, ReleasesKnown, UpTo
  <2>6. \A s \in Stream : chk.hw[s] <= highwater'[s]
    BY <2>1, Types, RecoveredHighwaterFacts
  <2>7. \A i \in dir : i < nextId'
    BY <2>1, Types, RecoveredNextIdFacts
  <2>8. active' # NoSeg => active' \in dir /\ ~HasFooter(file[active'])
    BY <2>1, Types, RecoveredActiveFacts
  <2>9. \A i \in dir : RecordsOf(file[i]) \subseteq records'[i]
    BY <2>1, Types DEF RecoveredRecords
  <2> QED
    BY <2>1, <2>3, <2>4, <2>5, <2>6, <2>7, <2>8, <2>9 DEF Index
<1>14. CASE pc' \in OpenPcs
  BY <1>14 DEF Index
<1>15. ASSUME \/ OpenControl \/ OpenDelete \/ OpenScan \/ OpenReseal \/ OpenResealSync
              \/ OpenReject \/ OpenRetry \/ Shutdown \/ PowerLoss
       PROVE  pc' \in OpenPcs
  BY <1>15 DEF OpenControl, OpenDelete, OpenScan, OpenReseal, OpenResealSync, OpenReject,
     OpenRetry, Shutdown, PowerLoss, Goto
<1>16. CASE UNCHANGED vars
  BY <1>16 DEF vars, diskVars, memVars, Index
<1> QED
  BY <1>1, <1>2, <1>3, <1>4, <1>5, <1>6, <1>7, <1>8, <1>9, <1>10, <1>11, <1>12, <1>13, <1>14,
     <1>15, <1>16, IndexKeepers DEF NextPower, Serve, Open

\* Every pair of control images after a step says no more than some pair did
\* before it, but for the frame the step itself wrote.
LEMMA ImagesStep ==
    ASSUME FiniteLaws, TypeOK, JobReady, Settled, Control, [NextPower]_vars,
           NEW c \in Checkpoints', NEW l \in Logs'
    PROVE  \E d \in Checkpoints, m \in Logs :
             /\ \A r \in ReleasedBy(c, l) :
                   r \in ReleasedBy(d, m) \/ (ReleaseWrite /\ r \in Head(job.todo))
             /\ \A i \in RemovedIds(c, l) :
                   i \in RemovedIds(d, m) \/ (RemoveWrite /\ i \in job.left)
<1> DEFINE Covered(d, m) ==
             /\ \A r \in ReleasedBy(c, l) :
                   r \in ReleasedBy(d, m) \/ (ReleaseWrite /\ r \in Head(job.todo))
             /\ \A i \in RemovedIds(c, l) :
                   i \in RemovedIds(d, m) \/ (RemoveWrite /\ i \in job.left)
           Goal == \E d \in Checkpoints, m \in Logs : Covered(d, m)
<1> SUFFICES Goal
  OBVIOUS
<1>0. /\ chk \in Checkpoints /\ log \in Logs /\ Checkpoints \subseteq Checkpoint /\ Logs \subseteq Log
      /\ chk \in Checkpoint /\ log \in Log
  BY DEF Checkpoints, Logs, TypeOK
<1>1. CASE CheckpointRename
  <2>1. /\ chk' = CheckpointFromState /\ chkOld' = chkOld \cup {chk} /\ pc = "chk_rename"
        /\ UNCHANGED <<log, logOld>>
    BY <1>1 DEF CheckpointRename
  <2>2. l = log
    BY <2>1 DEF Settled, EntriesSettled, Logs
  <2>3. CASE c = chk'
    <3>1. c \in Checkpoint /\ c.last = lastSeq
      BY <2>1, <2>3, CheckpointType DEF CheckpointFromState
    <3>2. RemovedIds(c, l) = {} /\ ReleasedBy(c, l) = {}
      BY <1>0, <2>1, <2>2, <3>1, NothingApplied DEF Control
    <3> QED
      BY <1>0, <3>2
  <2>4. CASE c # chk'
    <3>1. c \in Checkpoints
      BY <2>1, <2>4 DEF Checkpoints
    <3> QED
      BY <1>0, <2>2, <3>1
  <2> QED
    BY <2>3, <2>4
<1>2. CASE LogRename
  <2>1. /\ log' = [base |-> lastSeq + 1, frames |-> << >>, synced |-> 0]
        /\ logOld' = logOld \cup {log} /\ UNCHANGED <<chk, chkOld>>
    BY <1>2 DEF LogRename
  <2>2. c \in Checkpoints
    BY <2>1 DEF Checkpoints
  <2>3. CASE l = log'
    <3>1. l \in Log /\ l.frames = << >>
      BY <2>1, <2>3, Types, SMT DEF Log
    <3>2. RemovedIds(c, l) = {} /\ ReleasedBy(c, l) = {}
      BY <1>0, <2>2, <3>1, NothingApplied, SMT
    <3> QED
      BY <1>0, <3>2
  <2>4. CASE l # log'
    <3>1. l \in Logs
      BY <2>1, <2>4 DEF Logs
    <3> QED
      BY <2>2, <3>1
  <2> QED
    BY <2>3, <2>4
<1>3. CASE FrameWrite
  <2>1. Checkpoints' \subseteq Checkpoints /\ UNCHANGED logOld
    BY <1>3 DEF FrameWrite, SealFrame, RemoveWrite, ReleaseWrite, OpenReseal, Checkpoints
  <2>2. CASE l = log'
    <3>1. PICK g \in Frame :
             /\ AppendFrame(g)
             /\ g.kind = "release" => ReleaseWrite /\ g = ReleaseFrame(Head(job.todo))
             /\ g.kind = "removed" => RemoveWrite /\ g.id \in job.left
      BY <1>3, FrameWriteIsAppend
    <3>2. /\ \A i \in RemovedIds(c, log') : i \in RemovedIds(c, log)
                                             \/ (g.kind = "removed" /\ i = g.id)
          /\ \A r \in ReleasedBy(c, log') : r \in ReleasedBy(c, log)
                                             \/ (g.kind = "release" /\ r \in g.recs)
      BY <1>0, <2>1, <3>1, LogWritten
    <3>3. g.kind = "release" => g.recs = Head(job.todo)
      BY <3>1, SMT DEF ReleaseFrame
    <3>4. Covered(c, log)
      BY <2>2, <3>1, <3>2, <3>3
    <3> QED
      BY <1>0, <2>1, <3>4
  <2>3. CASE l # log'
    <3>1. l \in Logs
      BY <2>1, <2>3 DEF Logs
    <3> QED
      BY <2>1, <3>1
  <2> QED
    BY <2>2, <2>3
<1>4. CASE PowerLoss
  <2>1. c \in Checkpoints /\ l = log'
    BY <1>4, PowerLossFacts DEF Checkpoints, Logs
  <2>2. PICK m \in {log} \cup logOld : \A d \in Checkpoint :
           \A kind \in {"release", "sealed", "removed"} :
             AppliedFrames(d, log', kind) \subseteq AppliedFrames(d, m, kind)
    BY <1>4, PowerLossFacts
  <2>3. /\ AppliedFrames(c, l, "release") \subseteq AppliedFrames(c, m, "release")
        /\ AppliedFrames(c, l, "removed") \subseteq AppliedFrames(c, m, "removed")
    BY <1>0, <2>1, <2>2
  <2>4. ReleasedBy(c, l) \subseteq ReleasedBy(c, m) /\ RemovedIds(c, l) \subseteq RemovedIds(c, m)
    BY <2>3 DEF ReleasedBy, RemovedIds
  <2> QED
    BY <2>1, <2>2, <2>4 DEF Logs
<1>5. CASE ~CheckpointRename /\ ~LogRename /\ ~FrameWrite /\ ~PowerLoss
  <2>1. c \in Checkpoints /\ logOld' \subseteq logOld /\ (UNCHANGED log \/ SyncLog)
    BY <1>5, CheckpointsKept, OldLogsKept, FramesKept
  <2>2. CASE l \in logOld' \/ UNCHANGED log
    <3>1. l \in Logs
      BY <2>1, <2>2 DEF Logs
    <3> QED
      BY <2>1, <3>1
  <2>3. CASE l = log' /\ SyncLog
    BY <1>0, <2>1, <2>3, LogSynced
  <2> QED
    BY <2>1, <2>2, <2>3 DEF Logs
<1> QED
  BY <1>1, <1>2, <1>3, <1>4, <1>5

\* A checkpoint releases only what was released when it was written.
LEMMA CheckpointsSafeStep ==
    ASSUME TypeOK, JobReady, Settled, Control, Index, AppendJob, Promises, [NextPower]_vars
    PROVE  CheckpointsSafe'
<1>0. \A c \in Checkpoints : c.rel \cap promised = {} /\ UpTo(c.rel, c.hw)
  BY DEF Promises, CheckpointsSafe
<1>1. CASE AppendSync \/ CreateSync
  <2>1. /\ promised' = promised \cup job.group /\ Checkpoints' = {chk} /\ Checkpoints = {chk} /\ Up
        /\ \A S \in SUBSET Record : UpTo(S, highwater) => S \cap job.group = {}
    BY <1>1, GroupPromised
  <2>2. chk.rel \in SUBSET Record /\ \A s \in Stream : chk.hw[s] <= highwater[s]
    BY <2>1, Types DEF Checkpoint, Index
  <2>3. UpTo(chk.rel, highwater)
    BY <1>0, <2>1, <2>2, Types, UpToRaised
  <2>4. chk.rel \cap job.group = {}
    BY <2>1, <2>2, <2>3
  <2> QED
    BY <1>0, <2>1, <2>4 DEF CheckpointsSafe
<1>2. CASE CheckpointRename
  <2>1. chk' = CheckpointFromState /\ chkOld' = chkOld \cup {chk} /\ UNCHANGED promised /\ Up
    BY <1>2 DEF CheckpointRename, histVars, Up, OpenPcs
  <2>2. chk'.rel = released /\ chk'.hw = highwater
    BY <2>1 DEF CheckpointFromState
  <2>3. released \cap promised = {} /\ UpTo(released, highwater)
    BY <2>1 DEF Promises, FlagsSafe, Index
  <2>4. Checkpoints' = Checkpoints \cup {chk'}
    BY <2>1 DEF Checkpoints
  <2> QED
    BY <1>0, <2>1, <2>2, <2>3, <2>4 DEF CheckpointsSafe
<1>3. CASE ~AppendSync /\ ~CreateSync /\ ~CheckpointRename
  <2>1. Checkpoints' \subseteq Checkpoints /\ promised' \subseteq promised
    BY <1>3, CheckpointsKept, PromisesShrink
  <2> QED
    BY <1>0, <2>1 DEF CheckpointsSafe
<1> QED
  BY <1>1, <1>2, <1>3

\* A release frame names only records whose release was requested.
LEMMA ReleasesSafeStep ==
    ASSUME FiniteLaws, TypeOK, JobReady, Settled, Control, Index, JobInv, Promises, [NextPower]_vars
    PROVE  ReleasesSafe'
<1>0. \A c \in Checkpoints, l \in Logs : ReleasedBy(c, l) \cap promised = {}
  BY DEF Promises, ReleasesSafe
<1>1. CASE AppendSync \/ CreateSync
  <2>1. /\ promised' = promised \cup job.group /\ Checkpoints' = {chk} /\ Logs' = {log} /\ Up
        /\ Checkpoints = {chk} /\ Logs = {log}
        /\ \A S \in SUBSET Record : UpTo(S, highwater) => S \cap job.group = {}
    BY <1>1, GroupPromised DEF JobInv
  <2>2. ReleasedBy(chk, log) \in SUBSET Record
    BY Types, ReleasedByType
  <2>3. UpTo(ReleasedBy(chk, log), highwater)
    BY <2>1 DEF Index
  <2>4. ReleasedBy(chk, log) \cap job.group = {}
    BY <2>1, <2>2, <2>3
  <2> QED
    BY <1>0, <2>1, <2>4 DEF ReleasesSafe
<1>2. CASE ~AppendSync /\ ~CreateSync
  <2>1. promised' \subseteq promised
    BY <1>2, PromisesShrink DEF JobInv
  <2>2. ASSUME ReleaseWrite PROVE Head(job.todo) \cap promised = {}
    <3>1. Head(job.todo) \subseteq TodoRecords
      BY <2>2, TodoSplit DEF ReleaseWrite, JobReady
    <3>2. TodoRecords \subseteq job.group /\ job.group \cap promised = {}
      BY <2>2 DEF ReleaseWrite, JobInv, ReleaseJob
    <3> QED
      BY <3>1, <3>2
  <2>3. ASSUME NEW c \in Checkpoints', NEW l \in Logs', NEW r \in ReleasedBy(c, l),
               r \in promised'
        PROVE  FALSE
    BY <1>0, <2>1, <2>2, <2>3, ImagesStep
  <2> QED
    BY <2>3 DEF ReleasesSafe
<1> QED
  BY <1>1, <1>2

\* A removal frame names only files without promised records.
LEMMA RemovalsSafeStep ==
    ASSUME FiniteLaws, TypeOK, JobReady, Settled, Control, Index, JobInv, Promises, [NextPower]_vars
    PROVE  RemovalsSafe'
<1>0. \A c \in Checkpoints, l \in Logs : \A i \in RemovedIds(c, l) \cap (dir \cup durDir) :
         RecordsOf(file[i]) \cap promised = {}
  BY DEF Promises, RemovalsSafe
<1>1. CASE AppendSync \/ CreateSync
  <2>1. /\ Checkpoints' = {chk} /\ Logs' = {log} /\ dir' = dir /\ durDir' = dir
        /\ RemovedIds(chk, log) \cap dir = {}
    BY <1>1, GroupPromised DEF JobInv
  <2> QED
    BY <2>1 DEF RemovalsSafe
<1>2. CASE AppendWrite \/ SealFooter \/ SealSync
  <2>1. pc \in WritePcs \cup {"seal_footer", "seal_sync"}
    BY <1>2 DEF AppendWrite, SealFooter, SealSync, WritePcs
  <2>2. /\ Checkpoints = {chk} /\ Logs = {log} /\ RemovedIds(chk, log) \cap dir = {}
        /\ durDir = dir
    BY <2>1, NothingRemoved DEF WritePcs
  <2>3. UNCHANGED <<chk, chkOld, log, logOld, dir, durDir>>
    BY <1>2 DEF AppendWrite, SealFooter, SealSync
  <2>4. Checkpoints' = {chk} /\ Logs' = {log}
    BY <2>2, <2>3 DEF Checkpoints, Logs
  <2> QED
    BY <2>2, <2>3, <2>4 DEF RemovalsSafe
<1>3. CASE CreateRename
  <2>1. pc = "create" /\ UNCHANGED <<chk, chkOld, log, logOld, durDir>> /\ dir' = dir \cup {nextId}
    BY <1>3 DEF CreateRename
  <2>2. /\ Checkpoints = {chk} /\ Logs = {log} /\ RemovedIds(chk, log) \cap dir = {}
        /\ durDir = dir
    BY <2>1, NothingRemoved DEF CreatePcs
  <2>3. nextId \notin RemovedIds(chk, log)
    BY <2>1, Types, SMT DEF Control, Up, OpenPcs
  <2>4. Checkpoints' = {chk} /\ Logs' = {log}
    BY <2>1, <2>2 DEF Checkpoints, Logs
  <2> QED
    BY <2>1, <2>2, <2>3, <2>4 DEF RemovalsSafe
<1>4. CASE ~AppendSync /\ ~CreateSync /\ ~AppendWrite /\ ~SealFooter /\ ~SealSync /\ ~CreateRename
  <2>1. promised' \subseteq promised
    BY <1>4, PromisesShrink DEF JobInv
  <2>2. /\ dir' \cup durDir' \subseteq dir \cup durDir
        /\ \A i \in dir' \cup durDir' : RecordsOf(file'[i]) \subseteq RecordsOf(file[i])
    <3>1. CASE PowerLoss
      BY <3>1, PowerLossFacts
    <3>2. CASE ~PowerLoss
      BY <1>4, <3>2, FilesKept
    <3> QED
      BY <3>1, <3>2
  <2>3. ASSUME RemoveWrite, NEW i \in job.left PROVE RecordsOf(file[i]) \cap promised = {}
    BY <2>3 DEF RemoveWrite, JobInv, ReclaimJob, ReclaimPcs
  <2>4. ASSUME NEW c \in Checkpoints', NEW l \in Logs',
               NEW i \in RemovedIds(c, l) \cap (dir' \cup durDir')
        PROVE  RecordsOf(file[i]) \cap promised = {}
    BY <1>0, <2>2, <2>3, ImagesStep
  <2> QED
    BY <2>1, <2>2, <2>4 DEF RemovalsSafe
<1> QED
  BY <1>1, <1>2, <1>3, <1>4

\* No release flag is set on a promised record.
LEMMA FlagsSafeStep ==
    ASSUME TypeOK, JobReady, Settled, Control, Index, JobInv, Promises, [NextPower]_vars
    PROVE  FlagsSafe'
<1>0. Up => released \cap promised = {}
  BY DEF Promises, FlagsSafe
<1>1. CASE AppendSync \/ CreateSync
  <2>1. /\ promised' = promised \cup job.group /\ Up /\ UNCHANGED released
        /\ \A S \in SUBSET Record : UpTo(S, highwater) => S \cap job.group = {}
    BY <1>1, GroupPromised DEF JobInv
  <2>2. released \cap job.group = {}
    BY <2>1, Types DEF Index
  <2> QED
    BY <1>0, <2>1, <2>2 DEF FlagsSafe
<1>2. ASSUME ~AppendSync, ~CreateSync, ~Up' \/ (Up /\ released' \subseteq released) PROVE FlagsSafe'
  <2>1. promised' \subseteq promised
    BY <1>2, PromisesShrink DEF JobInv
  <2> QED
    BY <1>0, <1>2, <2>1 DEF FlagsSafe
<1>3. CASE ReleaseSync
  <2>1. /\ released' \subseteq released \cup job.group /\ job.group \cap promised = {}
        /\ pc = "release_sync"
    BY <1>3 DEF ReleaseSync, JobInv, ReleaseJob
  <2>2. promised' \subseteq promised
    BY <2>1, PromisesShrink DEF JobInv, AppendSync, CreateSync
  <2> QED
    BY <1>0, <2>1, <2>2 DEF FlagsSafe, Up, OpenPcs
<1>4. CASE OpenRebuild
  <2>1. /\ released' = RecoveredReleased(chk, log, job.batch, dir, file)
        /\ UNCHANGED <<chk, log, promised>>
    BY <1>4 DEF OpenRebuild, diskVars, histVars
  <2>2. released' \subseteq chk.rel \cup ReleasedBy(chk, log)
    BY <2>1 DEF RecoveredReleased
  <2>3. chk \in Checkpoints /\ log \in Logs
    BY DEF Checkpoints, Logs
  <2>4. chk.rel \cap promised = {} /\ ReleasedBy(chk, log) \cap promised = {}
    BY <2>3 DEF Promises, CheckpointsSafe, ReleasesSafe
  <2> QED
    BY <2>1, <2>2, <2>4 DEF FlagsSafe
<1>5. CASE ~AppendSync /\ ~CreateSync /\ ~ReleaseSync /\ ~OpenRebuild
  <2> DEFINE Kept == ~Up' \/ (Up /\ released' \subseteq released)
  <2> USE DEF Up, OpenPcs
  <2>1. ASSUME NEW units, NEW first, AppendStart(units, first) PROVE Kept
    BY <2>1 DEF AppendStart, memVars
  <2>2. ASSUME NEW units, ReleaseStart(units) \/ ReleaseNothing(units) PROVE Kept
    BY <2>2 DEF ReleaseStart, ReleaseNothing, memVars
  <2>3. ASSUME NEW kind, ReclaimStart(kind) PROVE Kept
    BY <2>3 DEF ReclaimStart, memVars
  <2>4. ASSUME AppendWrite \/ CreateRename \/ SegmentIdExhausted \/ SealExpired \/ SealFooter
             \/ SealSync \/ SealFrame \/ SealPublish \/ ReleaseWrite
        PROVE  Kept
    BY <2>4 DEF AppendWrite, CreateRename, SegmentIdExhausted, SealExpired, SealFooter, SealSync,
       SealFrame, SealPublish, ReleaseWrite, memVars
  <2>5. ASSUME ReclaimNextBatch \/ RemoveWrite \/ RemoveSync \/ DeleteSync \/ ReclaimDone
        PROVE  Kept
    BY <2>5 DEF ReclaimNextBatch, RemoveWrite, RemoveSync, DeleteSync, ReclaimDone, memVars
  <2>6. ASSUME Delete
        PROVE  Kept
    BY <2>6 DEF Delete
  <2>7. ASSUME CheckpointRename \/ CheckpointSync \/ LogRename \/ LogSync
        PROVE  Kept
    BY <2>7 DEF CheckpointRename, CheckpointSync, LogRename, LogSync, memVars
  <2>8. ASSUME OpenControl \/ OpenDelete \/ OpenScan \/ OpenReseal \/ OpenResealSync \/ OpenReject
             \/ OpenRetry
        PROVE  Kept
    BY <2>8 DEF OpenControl, OpenDelete, OpenScan, OpenReseal, OpenResealSync, OpenReject,
       OpenRetry, Goto
  <2>9. ASSUME Shutdown \/ PowerLoss
        PROVE  Kept
    <3>1. pc' = "closed"
      BY <2>9 DEF Shutdown, PowerLoss
    <3> QED
      BY <3>1
  <2>10. ASSUME UNCHANGED vars
        PROVE  Kept
    BY <2>10 DEF vars, memVars
  <2>11. Kept
    BY <1>5, <2>1, <2>2, <2>3, <2>4, <2>5, <2>6, <2>7, <2>8, <2>9, <2>10 DEF NextPower, Serve, Open
  <2> QED
    BY <1>2, <1>5, <2>11
<1> QED
  BY <1>1, <1>3, <1>4, <1>5

\* A promised record's durable copy stays, and a new promise has one.
LEMMA DurableStep ==
    ASSUME FiniteLaws, TypeOK, JobReady, Settled, Control, Index, JobInv, Promises, [NextPower]_vars
    PROVE  AckedAppendDurable'
<1> DEFINE Synced(i)  == RecordsThrough(file[i], file[i].synced)
           Synced1(i) == RecordsThrough(file'[i], file'[i].synced)
<1>0. /\ \A r \in promised : \E i \in dir \cap durDir : r \in Synced(i)
      /\ \A i \in SegId : Synced(i) \subseteq RecordsOf(file[i])
      /\ dir \subseteq SegId /\ durDir \subseteq SegId
  <2>1. \A i \in SegId : file[i] \in File /\ file[i].synced <= Len(file[i].chunks)
    BY Types DEF Settled
  <2> QED
    BY <2>1, ThroughWithin, Types DEF Promises, AckedAppendDurable, DurablyStored
<1>1. ASSUME ~AppendSync, ~CreateSync,
             \A i \in dir \cap durDir :
                \/ RecordsOf(file[i]) \cap promised = {}
                \/ i \in dir' \cap durDir' /\ Synced(i) \subseteq Synced1(i)
      PROVE  AckedAppendDurable'
  <2>1. promised' \subseteq promised
    BY <1>1, PromisesShrink DEF JobInv
  <2> SUFFICES ASSUME NEW r \in promised' PROVE \E i \in dir' \cap durDir' : r \in Synced1(i)
    BY DEF AckedAppendDurable, DurablyStored
  <2>2. PICK i \in dir \cap durDir : r \in Synced(i)
    BY <1>0, <2>1
  <2>3. i \in dir' \cap durDir' /\ Synced(i) \subseteq Synced1(i)
    BY <1>0, <1>1, <2>1, <2>2
  <2> QED
    BY <2>2, <2>3
<1>2. ASSUME ~AppendSync, ~CreateSync, UNCHANGED <<dir, durDir, file>> PROVE AckedAppendDurable'
  BY <1>1, <1>2
<1>3. ASSUME NEW a \in dir \cap durDir', promised' = promised \cup job.group,
             UNCHANGED dir, durDir' = dir, job.group \subseteq Synced1(a),
             \A i \in SegId : Synced(i) \subseteq Synced1(i)
      PROVE  AckedAppendDurable'
  <2> SUFFICES ASSUME NEW r \in promised' PROVE \E i \in dir' \cap durDir' : r \in Synced1(i)
    BY DEF AckedAppendDurable, DurablyStored
  <2>1. CASE r \in job.group
    BY <1>3, <2>1
  <2>2. CASE r \in promised
    BY <1>0, <1>3, <2>2
  <2> QED
    BY <1>3, <2>1, <2>2
<1>4. CASE AppendSync
  <2>1. /\ active \in SegId /\ SyncFile(active) /\ pc = "append_sync"
    BY <1>4 DEF AppendSync, JobReady, WritePcs, TypeOK
  <2>2. promised' = promised \cup job.group /\ UNCHANGED dir /\ durDir' = dir
    BY <1>4, GroupPromised DEF JobInv
  <2>3. active \in dir
    BY <2>1, JobReady DEF Index, Up, OpenPcs, JobReady, WritePcs
  <2>4. /\ \A i \in SegId : Synced(i) \subseteq Synced1(i)
        /\ Synced1(active) = RecordsOf(file[active])
    BY <2>1, FileSynced
  <2>5. job.group \subseteq RecordsOf(file[active])
    BY <2>1, SMT DEF JobInv, AppendJob, WritePcs, TodoRecords
  <2> QED
    BY <1>3, <2>2, <2>3, <2>4, <2>5
<1>5. CASE CreateSync
  <2> DEFINE a == nextId - 1
  <2>1. pc = "create_sync" /\ a \in SegId /\ UNCHANGED file
    BY <1>5, CreateSyncType DEF CreateSync, JobReady
  <2>2. promised' = promised \cup job.group /\ UNCHANGED dir /\ durDir' = dir
    BY <1>5, GroupPromised DEF JobInv
  <2>3. a \in dir
    BY <2>1 DEF Index, Up, OpenPcs
  <2>4. file[a].synced = Len(file[a].chunks) /\ RecordsOf(file[a]) = job.group /\ file[a] \in File
    BY <2>1, Types DEF JobInv, AppendJob
  <2>5. job.group \subseteq Synced1(a)
    BY <2>1, <2>4, SyncedWhole
  <2> HIDE DEF a
  <2> QED
    BY <1>3, <2>1, <2>2, <2>3, <2>5
<1>6. CASE AppendWrite
  <2>1. /\ active \in SegId /\ AppendChunk(active, Head(job.todo)) /\ UNCHANGED <<dir, durDir>>
        /\ pc = "append_write" /\ job.todo # << >> /\ job' = [job EXCEPT !.todo = Tail(@)]
    BY <1>6 DEF AppendWrite, JobReady, WritePcs, TypeOK
  <2>2. \A i \in SegId : Synced1(i) = Synced(i)
    BY <2>1, TodoTail, ChunkWritten
  <2> QED
    BY <1>0, <1>1, <2>1, <2>2 DEF AppendSync, CreateSync
<1>7. CASE SealFooter
  <2>1. /\ active \in SegId /\ AppendChunk(active, Footer) /\ UNCHANGED <<dir, durDir>>
        /\ pc = "seal_footer"
    BY <1>7 DEF SealFooter, JobReady, SealPcs, TypeOK
  <2>2. Footer \in Chunk
    BY DEF Footer, Chunk
  <2>3. \A i \in SegId : Synced1(i) = Synced(i)
    BY <2>1, <2>2, ChunkWritten
  <2> QED
    BY <1>0, <1>1, <2>1, <2>3 DEF AppendSync, CreateSync
<1>8. CASE SealSync
  <2>1. /\ active \in SegId /\ SyncFile(active) /\ UNCHANGED <<dir, durDir>> /\ pc = "seal_sync"
    BY <1>8 DEF SealSync, JobReady, SealPcs, TypeOK
  <2>2. \A i \in SegId : Synced(i) \subseteq Synced1(i)
    BY <2>1, FileSynced
  <2> QED
    BY <1>0, <1>1, <2>1, <2>2 DEF AppendSync, CreateSync
<1>9. CASE CreateRename
  <2>1. /\ file' = [file EXCEPT ![nextId] = [chunks |-> job.todo, synced |-> Len(job.todo)]]
        /\ dir' = dir \cup {nextId} /\ UNCHANGED durDir /\ pc = "create"
    BY <1>9 DEF CreateRename
  <2>2. nextId \notin dir
    BY <2>1, Types, SMTT(30) DEF Index, Up, OpenPcs
  <2>3. \A i \in dir : file'[i] = file[i]
    BY <2>1, <2>2, Types
  <2> QED
    BY <1>1, <2>1, <2>3 DEF AppendSync, CreateSync
<1>10. CASE Delete
  <2>1. PICK i \in job.left : dir' = dir \ {i}
    BY <1>10 DEF Delete
  <2>2. UNCHANGED <<durDir, file>> /\ pc = "delete"
    BY <1>10 DEF Delete
  <2>3. RecordsOf(file[i]) \cap promised = {}
    BY <2>2 DEF JobInv, ReclaimJob, ReclaimPcs
  <2> QED
    BY <1>1, <2>1, <2>2, <2>3 DEF AppendSync, CreateSync
<1>11. CASE OpenDelete
  <2>1. PICK i \in dir \cap RemovedIds(chk, log) : dir' = dir \ {i}
    BY <1>11 DEF OpenDelete
  <2>2. UNCHANGED <<durDir, file>> /\ pc = "enumerate"
    BY <1>11 DEF OpenDelete
  <2>3. RecordsOf(file[i]) \cap promised = {}
    BY DEF Promises, RemovalsSafe, Checkpoints, Logs
  <2> QED
    BY <1>1, <2>1, <2>2, <2>3 DEF AppendSync, CreateSync
<1>12. CASE DeleteSync \/ OpenScan \/ OpenReject
  <2>1. UNCHANGED <<dir, file>> /\ durDir' \in {dir, durDir} /\ pc' \in {"reclaim_batch", "reseal", "failed"}
    BY <1>12 DEF DeleteSync, SyncSegments, Goto, OpenScan, OpenReject
  <2> QED
    BY <1>1, <2>1 DEF AppendSync, CreateSync, Finish
<1>13. CASE PowerLoss
  <2>1. /\ dir' = durDir' /\ dir \cap durDir \subseteq dir'
        /\ \A i \in dir' : Synced(i) \subseteq Synced1(i)
    BY <1>13, PowerLossFacts
  <2>2. pc' = "closed"
    BY <1>13 DEF PowerLoss
  <2> QED
    BY <1>1, <2>1, <2>2 DEF AppendSync, CreateSync, Finish
<1>14. CASE ~AppendSync /\ ~CreateSync /\ ~AppendWrite /\ ~SealFooter /\ ~SealSync
            /\ ~CreateRename /\ ~Delete /\ ~OpenDelete /\ ~DeleteSync /\ ~OpenScan /\ ~OpenReject
            /\ ~PowerLoss
  <2> DEFINE Same == UNCHANGED <<dir, durDir, file>>
  <2>1. ASSUME UNCHANGED diskVars PROVE Same
    BY <2>1 DEF diskVars
  <2>2. ASSUME NEW units, NEW first, AppendStart(units, first) PROVE Same
    BY <2>1, <2>2 DEF AppendStart
  <2>3. ASSUME NEW units, ReleaseStart(units) \/ ReleaseNothing(units) PROVE Same
    BY <2>1, <2>3 DEF ReleaseStart, ReleaseNothing
  <2>4. ASSUME NEW kind, ReclaimStart(kind) PROVE Same
    BY <2>1, <2>4 DEF ReclaimStart
  <2>5. ASSUME SealFrame \/ SealPublish \/ ReleaseWrite \/ ReleaseSync \/ RemoveWrite \/ RemoveSync
             \/ CheckpointRename \/ CheckpointSync \/ LogRename \/ LogSync
             \/ OpenReseal \/ OpenResealSync
        PROVE  Same
    BY <2>5 DEF SealFrame, SealPublish, ReleaseWrite, ReleaseSync, RemoveWrite, RemoveSync,
       CheckpointRename, CheckpointSync, LogRename, LogSync, OpenReseal, OpenResealSync
  <2>6. ASSUME SegmentIdExhausted \/ SealExpired \/ ReclaimNextBatch \/ ReclaimDone
             \/ OpenControl \/ OpenRebuild \/ OpenRetry \/ Shutdown
        PROVE  Same
    BY <2>1, <2>6 DEF SegmentIdExhausted, SealExpired, ReclaimNextBatch, ReclaimDone, OpenControl,
       OpenRebuild, OpenRetry, Shutdown
  <2>7. ASSUME UNCHANGED vars
        PROVE  Same
    BY <2>1, <2>7 DEF vars
  <2>8. Same
    BY <1>14, <2>2, <2>3, <2>4, <2>5, <2>6, <2>7 DEF NextPower, Serve, Open
  <2> QED
    BY <1>2, <1>14, <2>8
<1> QED
  BY <1>4, <1>5, <1>6, <1>7, <1>8, <1>9, <1>10, <1>11, <1>12, <1>13, <1>14

\* A freshly created root satisfies the invariant.
LEMMA InitDurability == Init => DurabilityInv
<1> SUFFICES ASSUME Init PROVE DurabilityInv
  OBVIOUS
<1>1. TypeOK
  BY InitType
<1>2. /\ pc = "closed" /\ job = NoJob /\ promised = {} /\ dir = {} /\ durDir = {}
      /\ chkOld = {} /\ logOld = {} /\ chk.rel = {} /\ log.synced = 0 /\ log.frames = << >>
      /\ file = [i \in SegId |-> NoFile] /\ active = NoSeg
  BY DEF Init, InitMemory
<1>3. JobReady
  BY <1>2 DEF JobReady, SealPcs, WritePcs
<1>4. Settled
  BY <1>2, SMT DEF Settled, EntriesSettled, Logs, NoFile
<1>5. Control /\ Index
  BY <1>2 DEF Control, Index, Up, OpenPcs
<1>6. JobInv
  BY <1>2 DEF JobInv, AppendJob, ReleaseJob, ReclaimJob, NoJob, WritePcs, CreatePcs, ReclaimPcs
<1>7. Promises
  BY <1>2 DEF Promises, CheckpointsSafe, ReleasesSafe, RemovalsSafe, FlagsSafe,
     AckedAppendDurable, Checkpoints, UpTo, Up, OpenPcs
<1> QED
  BY <1>1, <1>3, <1>4, <1>5, <1>6, <1>7 DEF DurabilityInv

\* Every step of the store under power losses keeps the whole invariant.
LEMMA DurabilityStep == FiniteLaws /\ DurabilityInv /\ [NextPower]_vars => DurabilityInv'
<1> SUFFICES ASSUME FiniteLaws, DurabilityInv, [NextPower]_vars PROVE DurabilityInv'
  OBVIOUS
<1>1. /\ TypeOK /\ JobReady /\ Settled /\ Control /\ Index /\ JobInv /\ Promises
      /\ AppendJob /\ ReleaseJob /\ ReclaimJob
  BY DEF DurabilityInv, JobInv
<1>2. [Next]_vars
  BY DEF Next, NextPower
<1>3. TypeOK' /\ JobReady'
  BY <1>1, <1>2, TypeStep, ReadyStep
<1>4. Settled' /\ Control' /\ Index'
  BY <1>1, SettledStep, ControlStep, IndexStep
<1>5. JobInv'
  BY <1>1, AppendJobStep, ReleaseJobStep, ReclaimJobStep DEF JobInv
<1>6. Promises'
  BY <1>1, CheckpointsSafeStep, ReleasesSafeStep, RemovalsSafeStep, FlagsSafeStep, DurableStep
     DEF Promises
<1> QED
  BY <1>3, <1>4, <1>5, <1>6 DEF DurabilityInv

=============================================================================
