--------------------------- MODULE StorageLemmas ----------------------------
(***************************************************************************)
(* Lemmas about the storage core: what the operators of Recovery.tla and   *)
(* of Storage.tla return, preserve and bound; what every step leaves       *)
(* alone; and what the running job still has to do.  StorageDurability,    *)
(* StorageImages and StorageMarks build on them.                           *)
(***************************************************************************)
EXTENDS StorageInvariant, TLAPS

USE Zenon

(* What the proofs below and in the modules that extend this one use of finite sets and of  *)
(* the naturals.  StorageRefinementProofs derives it from the library's theorems, in        *)
(* FiniteLawsHold, and discharges it in every theorem.                                      *)
FiniteLaws ==
    /\ \A S \in SUBSET Int :
         S # {} /\ (\E b \in Int : \A x \in S : x <= b)
           => Max(S) \in S /\ \A x \in S : x <= Max(S)
    /\ \A T \in SUBSET Nat : T # {} => \E t \in T : \A u \in T : t <= u
    /\ \A S \in SUBSET Record :
         Cardinality(S) \in Nat /\ \A T \in SUBSET S : Cardinality(T) <= Cardinality(S)

\* A nonempty set of naturals has a least member.
LEMMA LeastMember ==
    ASSUME FiniteLaws, NEW T \in SUBSET Nat, T # {}
    PROVE  \E t \in T : \A u \in T : t <= u
BY DEF FiniteLaws

\* Max picks a member of every nonempty set of integers bounded above, so the
\* high-waters and segment IDs that recovery computes with it are real ones.
LEMMA MaxMember ==
    ASSUME FiniteLaws, NEW S \in SUBSET Int, S # {}, NEW b \in Int, \A x \in S : x <= b
    PROVE  /\ Max(S) \in S
           /\ \A x \in S : x <= Max(S)
BY DEF FiniteLaws

\* The counts of a checkpoint are numbers.
LEMMA RecordSetsFinite ==
    ASSUME FiniteLaws, NEW S \in SUBSET Record
    PROVE  Cardinality(S) \in Nat
BY DEF FiniteLaws

\* A part of a set of records is no larger than the set.
LEMMA RecordSubsets ==
    ASSUME FiniteLaws, NEW S \in SUBSET Record, NEW T \in SUBSET S
    PROVE  Cardinality(T) <= Cardinality(S)
BY DEF FiniteLaws

\* Appending a chunk to a segment file adds its records and leaves the part of
\* the file that was there before.
LEMMA AppendedChunk ==
    ASSUME NEW f \in File, NEW c \in Chunk, NEW g,
           g = [f EXCEPT !.chunks = Append(f.chunks, c)]
    PROVE  /\ g \in File /\ g.synced = f.synced
           /\ Len(g.chunks) = Len(f.chunks) + 1
           /\ RecordsOf(g) = RecordsOf(f) \cup c
           /\ \A n \in 0 .. Len(f.chunks) : RecordsThrough(g, n) = RecordsThrough(f, n)
<1>1. g \in File /\ g.synced = f.synced /\ g.chunks = Append(f.chunks, c)
  BY SMT DEF File, Chunk
<1>2. f.chunks \in Seq(Chunk)
  BY DEF File
<1>3. /\ Len(g.chunks) = Len(f.chunks) + 1
      /\ DOMAIN g.chunks = 1 .. Len(f.chunks) + 1
      /\ DOMAIN f.chunks = 1 .. Len(f.chunks)
      /\ \A k \in 1 .. Len(f.chunks) : g.chunks[k] = f.chunks[k]
      /\ g.chunks[Len(f.chunks) + 1] = c
      /\ Len(f.chunks) \in Nat
  BY <1>1, <1>2, SMT
<1>4. RecordsOf(g) = RecordsOf(f) \cup c
  <2>1. ASSUME NEW r \in RecordsOf(g) PROVE r \in RecordsOf(f) \cup c
    <3>1. PICK k \in 1 .. Len(f.chunks) + 1 : r \in g.chunks[k]
      BY <1>3 DEF RecordsOf
    <3>2. CASE k = Len(f.chunks) + 1
      BY <1>3, <3>1, <3>2
    <3>3. CASE k \in 1 .. Len(f.chunks)
      <4>1. r \in f.chunks[k] /\ k \in DOMAIN f.chunks
        BY <1>3, <3>1, <3>3
      <4> QED
        BY <4>1 DEF RecordsOf
    <3> QED
      BY <1>3, <3>2, <3>3, SMT
  <2>2. ASSUME NEW r \in RecordsOf(f) PROVE r \in RecordsOf(g)
    <3>1. PICK k \in DOMAIN f.chunks : r \in f.chunks[k]
      BY DEF RecordsOf
    <3>2. k \in DOMAIN g.chunks /\ r \in g.chunks[k]
      BY <1>3, <3>1, SMT
    <3> QED
      BY <3>2 DEF RecordsOf
  <2>3. ASSUME NEW r \in c PROVE r \in RecordsOf(g)
    <3>1. Len(f.chunks) + 1 \in DOMAIN g.chunks /\ r \in g.chunks[Len(f.chunks) + 1]
      BY <1>3, SMT
    <3> QED
      BY <3>1 DEF RecordsOf
  <2> QED
    BY <2>1, <2>2, <2>3
<1>5. ASSUME NEW n \in 0 .. Len(f.chunks)
      PROVE  RecordsThrough(g, n) = RecordsThrough(f, n)
  <2>1. \A k \in 1 .. n : g.chunks[k] = f.chunks[k]
    BY <1>3, SMT
  <2> QED
    BY <2>1 DEF RecordsThrough
<1> QED
  BY <1>1, <1>3, <1>4, <1>5

\* A sync of the whole file covers every record it holds.
LEMMA SyncedWhole ==
    ASSUME NEW f \in File
    PROVE  RecordsThrough(f, Len(f.chunks)) = RecordsOf(f)
BY SMT DEF File, RecordsThrough, RecordsOf

\* The records of a prefix of a file are records of the file.
LEMMA ThroughWithin ==
    ASSUME NEW f \in File, f.synced <= Len(f.chunks)
    PROVE  RecordsThrough(f, f.synced) \subseteq RecordsOf(f)
<1>1. f.chunks \in Seq(Chunk) /\ f.synced \in Nat /\ Len(f.chunks) \in Nat
  BY SMT DEF File
<1>2. 1 .. f.synced \subseteq DOMAIN f.chunks
  BY <1>1, SMT
<1> QED
  BY <1>2 DEF RecordsThrough, RecordsOf

\* A power loss that keeps a prefix with every synced chunk adds no record and
\* loses no synced one.
LEMMA KeptPrefix ==
    ASSUME NEW f \in File, f.synced <= Len(f.chunks),
           NEW n \in f.synced .. Len(f.chunks), NEW g,
           g = [chunks |-> SubSeq(f.chunks, 1, n), synced |-> n]
    PROVE  /\ g \in File /\ g.synced = n /\ Len(g.chunks) = n
           /\ RecordsOf(g) \subseteq RecordsOf(f)
           /\ RecordsThrough(f, f.synced) \subseteq RecordsThrough(g, g.synced)
<1>1. f.chunks \in Seq(Chunk) /\ f.synced \in Nat /\ n \in Nat
  BY SMT DEF File
<1>2. /\ g.chunks \in Seq(Chunk) /\ Len(g.chunks) = n /\ g.synced = n
      /\ DOMAIN g.chunks = 1 .. n
      /\ DOMAIN f.chunks = 1 .. Len(f.chunks)
      /\ \A k \in 1 .. n : g.chunks[k] = f.chunks[k]
      /\ 1 .. n \subseteq 1 .. Len(f.chunks)
      /\ 1 .. f.synced \subseteq 1 .. n
  BY <1>1, SMT
<1>3. g \in File
  BY <1>1, <1>2 DEF File
<1>4. ASSUME NEW r \in RecordsOf(g) PROVE r \in RecordsOf(f)
  <2>1. PICK k \in 1 .. n : r \in g.chunks[k]
    BY <1>2 DEF RecordsOf
  <2>2. k \in DOMAIN f.chunks /\ r \in f.chunks[k]
    BY <1>2, <2>1
  <2> QED
    BY <2>2 DEF RecordsOf
<1>5. ASSUME NEW r \in RecordsThrough(f, f.synced) PROVE r \in RecordsThrough(g, n)
  <2>1. PICK k \in 1 .. f.synced : r \in f.chunks[k]
    BY DEF RecordsThrough
  <2>2. k \in 1 .. n /\ r \in g.chunks[k]
    BY <1>2, <2>1
  <2> QED
    BY <2>2 DEF RecordsThrough
<1> QED
  BY <1>2, <1>3, <1>4, <1>5

\* Writing a frame adds at most that frame to what recovery applies.
LEMMA AppendedFrame ==
    ASSUME NEW l \in Log, NEW g \in Frame, NEW c, NEW kind, NEW m,
           m.frames = Append(l.frames, g)
    PROVE  /\ Len(m.frames) = Len(l.frames) + 1
           /\ \A k \in DOMAIN m.frames : m.frames[k] = g \/ (k \in DOMAIN l.frames /\ m.frames[k] = l.frames[k])
           /\ AppliedFrames(c, m, kind) \subseteq
                AppliedFrames(c, l, kind) \cup (IF g.kind = kind THEN {g} ELSE {})
<1>2. l.frames \in Seq(Frame)
  BY DEF Log
<1>3. /\ Len(m.frames) = Len(l.frames) + 1
      /\ DOMAIN m.frames = 1 .. Len(l.frames) + 1
      /\ DOMAIN l.frames = 1 .. Len(l.frames)
      /\ \A k \in 1 .. Len(l.frames) : m.frames[k] = l.frames[k]
      /\ m.frames[Len(l.frames) + 1] = g
      /\ Len(l.frames) \in Nat
  BY <1>2, SMT
<1>4. \A k \in DOMAIN m.frames : m.frames[k] = g \/ (k \in DOMAIN l.frames /\ m.frames[k] = l.frames[k])
  BY <1>3, SMT
<1>5. ASSUME NEW x \in AppliedFrames(c, m, kind)
      PROVE  x \in AppliedFrames(c, l, kind) \cup (IF g.kind = kind THEN {g} ELSE {})
  <2>1. PICK k \in DOMAIN m.frames : m.frames[k].seq > c.last /\ m.frames[k].kind = kind
                                     /\ x = m.frames[k]
    BY DEF AppliedFrames, Applied
  <2>2. CASE m.frames[k] = g
    BY <2>1, <2>2
  <2>3. CASE k \in DOMAIN l.frames /\ m.frames[k] = l.frames[k]
    BY <2>1, <2>3 DEF AppliedFrames, Applied
  <2> QED
    BY <1>4, <2>2, <2>3
<1> QED
  BY <1>3, <1>4, <1>5

\* A prefix of the log applies no frame that the whole log does not.
LEMMA PrefixApplied ==
    ASSUME NEW l \in Log, NEW n \in 0 .. Len(l.frames), NEW c, NEW kind, NEW m,
           m.frames = SubSeq(l.frames, 1, n)
    PROVE  /\ m.frames \in Seq(Frame) /\ Len(m.frames) = n
           /\ AppliedFrames(c, m, kind) \subseteq AppliedFrames(c, l, kind)
<1>1. l.frames \in Seq(Frame) /\ n \in Nat
  BY SMT DEF Log
<1>2. /\ m.frames \in Seq(Frame) /\ Len(m.frames) = n
      /\ DOMAIN m.frames = 1 .. n
      /\ DOMAIN l.frames = 1 .. Len(l.frames)
      /\ \A k \in 1 .. n : m.frames[k] = l.frames[k]
      /\ 1 .. n \subseteq 1 .. Len(l.frames)
  BY <1>1, SMT
<1>3. ASSUME NEW x \in AppliedFrames(c, m, kind) PROVE x \in AppliedFrames(c, l, kind)
  <2>1. PICK k \in DOMAIN m.frames : m.frames[k].seq > c.last /\ m.frames[k].kind = kind
                                     /\ x = m.frames[k]
    BY DEF AppliedFrames, Applied
  <2>2. k \in DOMAIN l.frames /\ m.frames[k] = l.frames[k]
    BY <1>2, <2>1
  <2> QED
    BY <2>1, <2>2 DEF AppliedFrames, Applied
<1> QED
  BY <1>2, <1>3

\* What recovery applies depends on the frames alone.
LEMMA SameFrames ==
    ASSUME NEW l, NEW m, m.frames = l.frames, NEW c, NEW kind
    PROVE  AppliedFrames(c, m, kind) = AppliedFrames(c, l, kind)
BY DEF AppliedFrames, Applied

\* A checkpoint whose last_applied_seq covers every frame leaves none to apply.
LEMMA CoveredFrames ==
    ASSUME NEW l \in Log, NEW c \in Checkpoint, NEW kind,
           \A k \in DOMAIN l.frames : l.frames[k].seq <= c.last
    PROVE  AppliedFrames(c, l, kind) = {}
<1>1. \A k \in DOMAIN l.frames : l.frames[k].seq \in Nat /\ c.last \in Nat
  <2>1. l.frames \in Seq(Frame) /\ c.last \in Nat
    BY DEF Log, Checkpoint
  <2>2. \A k \in DOMAIN l.frames : l.frames[k] \in Frame
    BY <2>1, SMT
  <2> QED
    BY <2>1, <2>2 DEF Frame
<1>2. Applied(c, l) = {}
  BY <1>1, SMT DEF Applied
<1> QED
  BY <1>2 DEF AppliedFrames

\* The frames manifest recovery applies are frames of the log.
LEMMA AppliedFramesType ==
    ASSUME NEW l \in Log, NEW c, NEW kind
    PROVE  /\ AppliedFrames(c, l, kind) \subseteq Frame
           /\ \A g \in AppliedFrames(c, l, kind) : g.kind = kind
BY SMT DEF AppliedFrames, Applied, Log

-----------------------------------------------------------------------------
(* Types of what recovery derives. *)
\* The sequence in a record identity is a sequence.
LEMMA RecordSequence ==
    ASSUME NEW r \in Record
    PROVE  r[1] \in Stream /\ r[2] \in Seqno /\ r[2] \in HighWater
BY DEF Record, HighWater, Seqno, NoSeq

\* A nonempty set of high-waters has a greatest one.
LEMMA MaxHighwater ==
    ASSUME FiniteLaws, NEW S \in SUBSET HighWater, S # {}
    PROVE  Max(S) \in HighWater /\ Max(S) \in S /\ \A x \in S : x <= Max(S)
<1>1. S \in SUBSET Int /\ MaxSeq \in Int /\ \A x \in S : x <= MaxSeq
  BY BoundsAssumption, SMT DEF HighWater, Seqno, NoSeq
<1> QED
  BY <1>1, MaxMember

\* A segment file holds records.
LEMMA RecordsOfType ==
    ASSUME NEW f \in File
    PROVE  RecordsOf(f) \in SUBSET Record
BY SMT DEF RecordsOf, File, Chunk

\* A checkpoint baseline holds records.
LEMMA BaselineType ==
    ASSUME NEW c, NEW R, NEW i \in SegId, NEW f \in [SegId -> File]
    PROVE  /\ Baseline(c, R, i, f) \subseteq RecordsOf(f[i])
           /\ NewRecords(c, R, i, f) \subseteq RecordsOf(f[i])
BY DEF Baseline, BaselineRecords, NewRecords, RecordsOf

\* The high-waters of applied frames are high-waters.
LEMMA FrameHighwaters ==
    ASSUME NEW l \in Log, NEW c, NEW kind, NEW g \in AppliedFrames(c, l, kind), NEW s \in Stream
    PROVE  g.hw[s] \in HighWater
BY AppliedFramesType, SMT DEF Frame, Highwaters

\* The high-water recovery derives is one, and bounds what it was derived from.
LEMMA RecoveredHighwaterFacts ==
    ASSUME FiniteLaws, NEW c \in Checkpoint, NEW l \in Log, NEW R, NEW D \in SUBSET SegId,
           NEW f \in [SegId -> File]
    PROVE  /\ RecoveredHighwater(c, l, R, D, f) \in Highwaters
           /\ \A s \in Stream : c.hw[s] <= RecoveredHighwater(c, l, R, D, f)[s]
           /\ \A i \in D : \A r \in NewRecords(c, R, i, f) :
                 r[2] <= RecoveredHighwater(c, l, R, D, f)[r[1]]
<1> DEFINE New == UNION {NewRecords(c, R, i, f) : i \in D}
           Seen(s) == {c.hw[s]} \cup {r[2] : r \in {x \in New : x[1] = s}}
                        \cup {g.hw[s] : g \in AppliedFrames(c, l, "removed")}
<1>1. New \subseteq Record
  <2>1. \A i \in D : NewRecords(c, R, i, f) \subseteq Record
    BY BaselineType, RecordsOfType
  <2> QED
    BY <2>1
<1>2. ASSUME NEW s \in Stream PROVE Seen(s) \in SUBSET HighWater /\ Seen(s) # {}
  <2>1. c.hw[s] \in HighWater
    BY DEF Checkpoint, Highwaters
  <2>2. \A g \in AppliedFrames(c, l, "removed") : g.hw[s] \in HighWater
    BY FrameHighwaters
  <2>3. \A r \in New : r[2] \in HighWater
    BY <1>1, RecordSequence
  <2> QED
    BY <2>1, <2>2, <2>3
<1>3. \A s \in Stream : RecoveredHighwater(c, l, R, D, f)[s] = Max(Seen(s))
  BY DEF RecoveredHighwater
<1>4. \A s \in Stream : /\ Max(Seen(s)) \in HighWater
                        /\ \A x \in Seen(s) : x <= Max(Seen(s))
  <2> HIDE DEF Seen
  <2> QED
    BY <1>2, MaxHighwater
<1>5. RecoveredHighwater(c, l, R, D, f) \in Highwaters
  BY <1>4 DEF RecoveredHighwater, Highwaters
<1>6. \A s \in Stream : c.hw[s] \in Seen(s)
  OBVIOUS
<1>7. ASSUME NEW i \in D, NEW r \in NewRecords(c, R, i, f)
      PROVE  r[1] \in Stream /\ r[2] \in Seen(r[1])
  <2>1. r \in New
    OBVIOUS
  <2>2. r[1] \in Stream
    BY <1>1, <2>1, RecordSequence
  <2> QED
    BY <2>1, <2>2
<1> HIDE DEF Seen
<1> QED
  BY <1>3, <1>4, <1>5, <1>6, <1>7

\* rebuild_indexes leaves a high-water per stream as persisted.
LEMMA RecoveredPersistedType ==
    ASSUME FiniteLaws, NEW c \in Checkpoint, NEW l \in Log
    PROVE  RecoveredPersisted(c, l) \in Highwaters
<1>1. ASSUME NEW s \in Stream
      PROVE  Max({c.hw[s]} \cup {g.hw[s] : g \in AppliedFrames(c, l, "removed")}) \in HighWater
  <2>1. c.hw[s] \in HighWater
    BY DEF Checkpoint, Highwaters
  <2>2. \A g \in AppliedFrames(c, l, "removed") : g.hw[s] \in HighWater
    BY FrameHighwaters
  <2> QED
    BY <2>1, <2>2, MaxHighwater
<1> QED
  BY <1>1 DEF RecoveredPersisted, Highwaters

\* Replayed releases name records.
LEMMA ReleasedByType ==
    ASSUME NEW c, NEW l \in Log
    PROVE  ReleasedBy(c, l) \subseteq Record
BY AppliedFramesType, SMTT(30) DEF ReleasedBy, Frame

\* When recovery accepts the files, its high-waters bound every record stored.
LEMMA RecordsRecovered ==
    ASSUME FiniteLaws, NEW c \in Checkpoint, NEW l \in Log, NEW R, NEW D \in SUBSET SegId,
           NEW f \in [SegId -> File], IndexesAccepted(c, l, R, D, f),
           NEW i \in D, NEW r \in RecordsOf(f[i])
    PROVE  r[2] <= RecoveredHighwater(c, l, R, D, f)[r[1]]
<1> DEFINE hw == RecoveredHighwater(c, l, R, D, f)
<1>1. /\ hw \in Highwaters /\ \A s \in Stream : c.hw[s] <= hw[s]
      /\ r \in NewRecords(c, R, i, f) => r[2] <= hw[r[1]]
  BY RecoveredHighwaterFacts
<1> HIDE DEF hw
<1>2. CASE r \in NewRecords(c, R, i, f)
  BY <1>1, <1>2 DEF hw
<1>3. CASE r \in Baseline(c, R, i, f)
  <2>1. r[2] <= c.hw[r[1]]
    BY <1>3 DEF IndexesAccepted, BaselinesAccepted
  <2>2. r[1] \in Stream /\ r[2] \in Int
    BY RecordsOfType, RecordSequence, SMT DEF Seqno
  <2>3. c.hw[r[1]] \in Int /\ hw[r[1]] \in Int
    <3>1. c.hw \in Highwaters
      BY DEF Checkpoint
    <3> QED
      BY <1>1, <2>2, <3>1, BoundsAssumption, SMT DEF Highwaters, HighWater, Seqno, NoSeq
  <2>4. r[2] <= hw[r[1]]
    BY <1>1, <2>1, <2>2, <2>3, SMT
  <2> QED
    BY <2>4 DEF hw
<1> QED
  BY <1>2, <1>3 DEF NewRecords

\* The idle job is a job.
LEMMA NoJobType == NoJob \in Job
BY SMT DEF NoJob, Job, Chunk

\* A root without streams has a high-water map.
LEMMA NoHighwatersType == NoHighwaters \in Highwaters
BY DEF NoHighwaters, Highwaters, HighWater

\* An absent file counts as an empty one.
LEMMA NoFileType == NoFile \in File
BY SMT DEF NoFile, File

\* What survives a crash is typed, and so is the emptied memory.
LEMMA ForgottenTypes ==
    ASSUME ForgetMemory
    PROVE  /\ records' \in [SegId -> SUBSET Record] /\ live' = {} /\ footers' = {}
           /\ released' = {} /\ active' = NoSeg /\ highwater' \in Highwaters
           /\ persisted' \in Highwaters /\ nextId' \in 0 .. MaxSegId /\ lastSeq' \in Nat
BY NoHighwatersType, BoundsAssumption, SMT DEF ForgetMemory

\* The three manifest bodies are frames.
LEMMA FrameTypes ==
    /\ \A S \in SUBSET Record : ReleaseFrame(S) \in Frame
    /\ \A i \in SegId : SealedFrame(i) \in Frame
    /\ \A i \in SegId : \A h \in Highwaters : RemovedFrame(i, h) \in Frame
BY NoHighwatersType DEF ReleaseFrame, SealedFrame, RemovedFrame, Frame

\* Syncing the manifest log changes no frame.
LEMMA SyncLogType ==
    ASSUME TypeOK, SyncLog
    PROVE  log' \in Log /\ log'.frames = log.frames
BY SMT DEF TypeOK, SyncLog, Log

\* Writing to or syncing one segment file leaves the others alone.
LEMMA AppendChunkFacts ==
    ASSUME TypeOK, NEW i \in SegId, NEW c \in Chunk, AppendChunk(i, c)
    PROVE  /\ file' \in [SegId -> File]
           /\ file'[i] = [file[i] EXCEPT !.chunks = Append(file[i].chunks, c)]
           /\ \A j \in SegId \ {i} : file'[j] = file[j]
<1> DEFINE g == [file[i] EXCEPT !.chunks = Append(file[i].chunks, c)]
<1>1. file \in [SegId -> File] /\ file[i] \in File
  BY DEF TypeOK
<1>2. g \in File
  BY <1>1, AppendedChunk
<1>3. file' = [file EXCEPT ![i] = g]
  BY <1>1 DEF AppendChunk
<1> HIDE DEF g
<1>4. /\ file' \in [SegId -> File] /\ file'[i] = g
      /\ \A j \in SegId \ {i} : file'[j] = file[j]
  BY <1>1, <1>2, <1>3
<1> QED
  BY <1>4 DEF g

\* Syncing a segment file changes no chunk.
LEMMA SyncFileFacts ==
    ASSUME TypeOK, NEW i \in SegId, SyncFile(i)
    PROVE  /\ file' \in [SegId -> File]
           /\ file'[i].chunks = file[i].chunks /\ file'[i].synced = Len(file[i].chunks)
           /\ \A j \in SegId \ {i} : file'[j] = file[j]
<1> DEFINE g == [file[i] EXCEPT !.synced = Len(file[i].chunks)]
<1>1. file \in [SegId -> File] /\ file[i] \in File
  BY DEF TypeOK
<1>2. g \in File /\ g.chunks = file[i].chunks /\ g.synced = Len(file[i].chunks)
  <2>1. Len(file[i].chunks) \in Nat
    BY <1>1, SMT DEF File
  <2> QED
    BY <1>1, <2>1 DEF File
<1>3. file' = [file EXCEPT ![i] = g]
  BY <1>1 DEF SyncFile
<1> HIDE DEF g
<1> QED
  BY <1>1, <1>2, <1>3

\* Returning from a method keeps the reported sets typed.
LEMMA FinishType ==
    ASSUME TypeOK, Finish
    PROVE  /\ pc' \in Pcs /\ job' \in Job
           /\ promised' \subseteq Record /\ gone' \subseteq Record
           /\ failures' \in 0 .. MaxFailures
BY NoJobType DEF TypeOK, Finish, Job, Pcs

\* index_durable_records keeps records and high-waters in range.
LEMMA IndexDurableRecordsType ==
    ASSUME FiniteLaws, TypeOK, NEW i \in SegId, IndexDurableRecords(i)
    PROVE  /\ records' \in [SegId -> SUBSET Record] /\ highwater' \in Highwaters
           /\ \A s \in Stream : highwater[s] <= highwater'[s]
           /\ \A r \in job.group : r[2] <= highwater'[r[1]]
<1>1. job.group \subseteq Record /\ highwater \in Highwaters
  BY DEF TypeOK, Job
<1> DEFINE Seen(s) == {highwater[s]} \cup {r[2] : r \in {x \in job.group : x[1] = s}}
<1>2. ASSUME NEW s \in Stream PROVE Seen(s) \in SUBSET HighWater /\ Seen(s) # {}
  <2>1. highwater[s] \in HighWater
    BY <1>1 DEF Highwaters
  <2>2. \A r \in job.group : r[2] \in HighWater
    BY <1>1, RecordSequence
  <2> QED
    BY <2>1, <2>2
<1>3. highwater' = [s \in Stream |-> Max(Seen(s))]
  BY DEF IndexDurableRecords
<1>4. \A s \in Stream : Max(Seen(s)) \in HighWater /\ \A x \in Seen(s) : x <= Max(Seen(s))
  <2> HIDE DEF Seen
  <2> QED
    BY <1>2, MaxHighwater
<1>5. \A s \in Stream : highwater[s] \in Seen(s)
  OBVIOUS
<1>6. \A r \in job.group : r[1] \in Stream /\ r[2] \in Seen(r[1])
  BY <1>1, RecordSequence
<1>7. records' \in [SegId -> SUBSET Record]
  BY <1>1 DEF TypeOK, IndexDurableRecords
<1> HIDE DEF Seen
<1> QED
  BY <1>3, <1>4, <1>5, <1>6, <1>7 DEF Highwaters

\* A sequence of length zero is the empty sequence.
LEMMA NoElements ==
    ASSUME NEW S, NEW t \in Seq(S), Len(t) = 0
    PROVE  t = << >>
BY SMT

\* Taking the head off the work list leaves a typed job.
LEMMA TodoTail ==
    ASSUME TypeOK, job.todo # << >>, job' = [job EXCEPT !.todo = Tail(@)]
    PROVE  /\ Head(job.todo) \in Chunk /\ job' \in Job
           /\ job'.todo = Tail(job.todo) /\ job'.group = job.group /\ job'.op = job.op
           /\ Len(job.todo) \in Nat \ {0}
           /\ Len(job.todo) = 1 => Tail(job.todo) = << >>
           /\ Len(job.todo) # 1 => Tail(job.todo) # << >>
<1> DEFINE t == Tail(job.todo)
<1>1. job \in Job /\ job.todo \in Seq(Chunk)
  BY DEF TypeOK, Job
<1>2. /\ Head(job.todo) \in Chunk /\ t \in Seq(Chunk)
      /\ Len(job.todo) \in Nat \ {0} /\ Len(t) = Len(job.todo) - 1
  BY <1>1, SMT
<1>3. job' = [job EXCEPT !.todo = t]
  OBVIOUS
<1> HIDE DEF t
<1>4. (Len(job.todo) = 1 => t = << >>) /\ (Len(job.todo) # 1 => t # << >>)
  <2>1. Len(t) = 0 => t = << >>
    BY <1>2, NoElements
  <2>2. t = << >> => Len(t) = 0
    BY SMT
  <2> QED
    BY <1>2, <2>1, <2>2, SMT
<1>5. job' \in Job /\ job'.todo = t /\ job'.group = job.group /\ job'.op = job.op
  BY <1>1, <1>2, <1>3, Zenon DEF Job
<1> QED
  BY <1>2, <1>4, <1>5 DEF t

\* Segment::create takes an ID below the reserved one.
LEMMA CreateRenameType ==
    ASSUME TypeOK, CreateRename
    PROVE  /\ TypeOK' /\ nextId \in SegId
           /\ file' = [file EXCEPT ![nextId] = [chunks |-> job.todo, synced |-> Len(job.todo)]]
<1>1. nextId \in SegId /\ nextId + 1 \in 0 .. MaxSegId
  BY BoundsAssumption, SMT DEF TypeOK, CreateRename, SegId
<1>2. job.todo \in Seq(Chunk) /\ Len(job.todo) \in Nat
  BY SMT DEF TypeOK, Job
<1>3. [chunks |-> job.todo, synced |-> Len(job.todo)] \in File
  BY <1>2 DEF File
<1>4. file' \in [SegId -> File]
  BY <1>1, <1>3 DEF CreateRename, TypeOK
<1>5. dir' \subseteq SegId
  BY <1>1 DEF CreateRename, TypeOK
<1>6. pc' \in Pcs
  BY DEF CreateRename, Goto, Pcs
<1> QED
  BY <1>1, <1>4, <1>5, <1>6 DEF CreateRename, Goto, TypeOK, histVars

\* Indexing a new segment keeps types.
LEMMA CreateSyncType ==
    ASSUME FiniteLaws, TypeOK, CreateSync, nextId > 0
    PROVE  TypeOK' /\ nextId - 1 \in SegId
<1>1. nextId - 1 \in SegId
  BY BoundsAssumption, SMT DEF TypeOK, SegId
<1>2. IndexDurableRecords(nextId - 1) /\ Finish
  BY DEF CreateSync
<1>3. records' \in [SegId -> SUBSET Record] /\ highwater' \in Highwaters
  BY <1>1, <1>2, IndexDurableRecordsType
<1>4. live' \subseteq SegId /\ active' \in SegId \cup {NoSeg} /\ durDir' \subseteq SegId
  BY <1>1 DEF CreateSync, TypeOK, SyncSegments
<1> QED
  BY <1>1, <1>2, <1>3, <1>4, FinishType DEF CreateSync, TypeOK

\* removal_body computes a high-water per stream.
LEMMA RemovalHighwatersType ==
    ASSUME FiniteLaws, TypeOK, NEW i \in SegId, NEW batch \in SUBSET SegId
    PROVE  RemovalHighwaters(i, batch) \in Highwaters
<1>1. ASSUME NEW s \in Stream
      PROVE  LET mine == {r[2] : r \in {x \in records[i] : x[1] = s}}
             IN  mine # {} => Max(mine) \in HighWater
  <2>1. \A r \in records[i] : r[2] \in HighWater
    BY RecordSequence DEF TypeOK
  <2>2. {r[2] : r \in {x \in records[i] : x[1] = s}} \in SUBSET HighWater
    BY <2>1
  <2> QED
    BY <2>2, MaxHighwater
<1> QED
  BY <1>1 DEF RemovalHighwaters, Highwaters, HighWater

\* The count of failures stays within its bound.
LEMMA FailType ==
    ASSUME TypeOK, Fail PROVE failures' \in 0 .. MaxFailures
BY SizesAssumption, SMT DEF TypeOK, Fail

\* A power loss keeps prefixes of what was written.
LEMMA PowerLossFacts ==
    ASSUME TypeOK, PowerLoss
    PROVE  /\ TypeOK' /\ chk' \in {chk} \cup chkOld /\ chkOld' = {} /\ logOld' = {}
           /\ dir' = durDir' /\ dir' \subseteq dir \cup durDir /\ dir \cap durDir \subseteq dir'
           /\ log'.synced <= Len(log'.frames)
           /\ \E l \in {log} \cup logOld : \A c \in Checkpoint :
                 \A kind \in {"release", "sealed", "removed"} :
                 AppliedFrames(c, log', kind) \subseteq AppliedFrames(c, l, kind)
           /\ \A i \in SegId : file[i].synced <= Len(file[i].chunks) =>
                 file'[i].synced <= Len(file'[i].chunks)
           /\ \A i \in dir' : /\ RecordsOf(file'[i]) \subseteq RecordsOf(file[i])
                              /\ RecordsThrough(file[i], file[i].synced)
                                   \subseteq RecordsThrough(file'[i], file'[i].synced)
<1>1. /\ file \in [SegId -> File] /\ log \in Log /\ logOld \subseteq Log
      /\ dir \subseteq SegId /\ durDir \subseteq SegId
  BY DEF TypeOK
<1>2. PICK l \in {log} \cup logOld : \E n \in l.synced .. Len(l.frames) :
         log' = [l EXCEPT !.frames = SubSeq(@, 1, n), !.synced = n]
  BY Zenon DEF PowerLoss
<1>3. PICK n \in l.synced .. Len(l.frames) :
         log' = [l EXCEPT !.frames = SubSeq(l.frames, 1, n), !.synced = n]
  BY <1>2, Zenon
<1>4. l \in Log /\ l.synced \in Nat /\ n \in 0 .. Len(l.frames)
  BY <1>1, <1>3, SMT DEF Log
<1>5. /\ log' \in Log /\ log'.synced <= Len(log'.frames)
      /\ \A c \in Checkpoint : \A kind \in {"release", "sealed", "removed"} :
           AppliedFrames(c, log', kind) \subseteq AppliedFrames(c, l, kind)
  <2>1. /\ log'.frames = SubSeq(l.frames, 1, n) /\ log'.synced = n
        /\ log' = [base |-> l.base, frames |-> SubSeq(l.frames, 1, n), synced |-> n]
    BY <1>3, <1>4, Zenon DEF Log
  <2>2. ASSUME NEW c, NEW kind
        PROVE  /\ log'.frames \in Seq(Frame) /\ Len(log'.frames) = n
               /\ AppliedFrames(c, log', kind) \subseteq AppliedFrames(c, l, kind)
    BY <1>4, <2>1, PrefixApplied, Zenon
  <2>3. n \in Nat
    BY <1>4, SMT
  <2>4. log' \in Log
    BY <1>4, <2>1, <2>2, <2>3, SMT DEF Log
  <2>5. log'.synced <= Len(log'.frames)
    <3>1. Len(log'.frames) = n
      BY <2>2
    <3> QED
      BY <2>1, <2>3, <3>1, SMT
  <2>6. \A c, kind : AppliedFrames(c, log', kind) \subseteq AppliedFrames(c, l, kind)
    BY <2>2
  <2> QED
    BY <2>4, <2>5, <2>6
<1>6. PICK D \in SUBSET (dir \cup durDir) :
         /\ dir \cap durDir \subseteq D
         /\ dir' = D /\ durDir' = D
         /\ \E m \in [Unsynced -> 0 .. Max({0} \cup {Len(file[i].chunks) : i \in Unsynced})] :
              /\ \A i \in Unsynced : m[i] \in file[i].synced .. Len(file[i].chunks)
              /\ file' = [i \in SegId |-> CASE i \notin D        -> NoFile
                                           [] i \in D \cap Unsynced -> KeepChunks(i, m[i])
                                           [] OTHER             -> file[i]]
  BY DEF PowerLoss
<1>7. PICK m :
              /\ \A i \in Unsynced : m[i] \in file[i].synced .. Len(file[i].chunks)
              /\ file' = [i \in SegId |-> CASE i \notin D        -> NoFile
                                           [] i \in D \cap Unsynced -> KeepChunks(i, m[i])
                                           [] OTHER             -> file[i]]
  BY <1>6
<1>8. ASSUME NEW i \in SegId
      PROVE  /\ file'[i] \in File
             /\ file[i].synced <= Len(file[i].chunks) => file'[i].synced <= Len(file'[i].chunks)
             /\ i \in D => /\ RecordsOf(file'[i]) \subseteq RecordsOf(file[i])
                           /\ RecordsThrough(file[i], file[i].synced)
                                \subseteq RecordsThrough(file'[i], file'[i].synced)
  <2>0. file[i] \in File
    BY <1>1
  <2>1. CASE i \notin D
    <3>1. file'[i] = NoFile
      BY <1>7, <2>1
    <3> QED
      BY <2>1, <3>1, NoFileType, SMT DEF NoFile
  <2>2. CASE i \in D /\ i \in Unsynced
    <3>1. file'[i] = [chunks |-> SubSeq(file[i].chunks, 1, m[i]), synced |-> m[i]]
      BY <1>7, <2>2 DEF KeepChunks
    <3>2. m[i] \in file[i].synced .. Len(file[i].chunks)
      BY <1>7, <2>2
    <3>3. /\ file'[i] \in File /\ file'[i].synced = m[i] /\ Len(file'[i].chunks) = m[i]
          /\ RecordsOf(file'[i]) \subseteq RecordsOf(file[i])
          /\ RecordsThrough(file[i], file[i].synced)
               \subseteq RecordsThrough(file'[i], file'[i].synced)
      <4>1. file[i].synced \in Nat /\ Len(file[i].chunks) \in Nat
        BY <2>0, SMT DEF File
      <4>2. file[i].synced <= Len(file[i].chunks)
        BY <3>2, <4>1, SMT
      <4> QED
        BY <2>0, <3>1, <3>2, <4>2, KeptPrefix, ZenonT(30)
    <3>4. m[i] \in Nat
      <4>1. file[i].synced \in Nat /\ Len(file[i].chunks) \in Nat
        BY <2>0, SMT DEF File
      <4> QED
        BY <3>2, <4>1, SMT
    <3> QED
      BY <3>3, <3>4, SMT
  <2>3. CASE i \in D /\ i \notin Unsynced
    BY <1>7, <2>0, <2>3
  <2> QED
    BY <2>1, <2>2, <2>3
<1>9. file' \in [SegId -> File]
  BY <1>7, <1>8
<1>10. D \subseteq SegId
  BY <1>1, <1>6
<1>11. ForgetMemory /\ Fail /\ chk' \in Checkpoint
  BY DEF PowerLoss, TypeOK
<1>12. TypeOK'
  BY <1>5, <1>6, <1>9, <1>10, <1>11, ForgottenTypes, FailType, NoJobType DEF PowerLoss, TypeOK, Pcs
<1> QED
  BY <1>2, <1>5, <1>6, <1>8, <1>10, <1>12, Zenon DEF PowerLoss

-----------------------------------------------------------------------------
(* What the file operations do to the quantities the invariant mentions. *)
\* A written frame adds at most its own segment to the removed ones and its
\* own records to the released ones.
LEMMA LogWritten ==
    ASSUME TypeOK, NEW g \in Frame, AppendFrame(g)
    PROVE  /\ log.synced <= Len(log.frames) => log'.synced <= Len(log'.frames)
           /\ (\A k \in DOMAIN log.frames : log.frames[k].seq <= lastSeq) =>
                \A k \in DOMAIN log'.frames : log'.frames[k].seq <= lastSeq'
           /\ \A c \in Checkpoint :
                /\ \A i \in RemovedIds(c, log') : i \in RemovedIds(c, log)
                                                  \/ (g.kind = "removed" /\ i = g.id)
                /\ \A r \in ReleasedBy(c, log') : r \in ReleasedBy(c, log)
                                                  \/ (g.kind = "release" /\ r \in g.recs)
<1> DEFINE h == [g EXCEPT !.seq = lastSeq + 1]
<1>1. log \in Log /\ lastSeq \in Nat
  BY DEF TypeOK
<1>2. h \in Frame /\ h.kind = g.kind /\ h.id = g.id /\ h.recs = g.recs /\ h.seq = lastSeq + 1
  BY <1>1, SMT DEF Frame
<1>3. log' = [log EXCEPT !.frames = Append(log.frames, h)] /\ lastSeq' = lastSeq + 1
  BY DEF AppendFrame
<1> HIDE DEF h
<1>4. ASSUME NEW c \in Checkpoint, NEW kind
      PROVE  /\ log'.synced = log.synced /\ Len(log'.frames) = Len(log.frames) + 1
             /\ \A k \in DOMAIN log'.frames :
                  log'.frames[k] = h \/ (k \in DOMAIN log.frames /\ log'.frames[k] = log.frames[k])
             /\ AppliedFrames(c, log', kind) \subseteq
                  AppliedFrames(c, log, kind) \cup (IF h.kind = kind THEN {h} ELSE {})
  <2>1. log'.frames = Append(log.frames, h) /\ log'.synced = log.synced
    BY <1>1, <1>3 DEF Log
  <2> QED
    BY <1>1, <1>2, <2>1, AppendedFrame, SMT
<1>5. chk \in Checkpoint
  BY DEF TypeOK
<1>6. log.synced <= Len(log.frames) => log'.synced <= Len(log'.frames)
  <2>1. log.synced \in Nat /\ Len(log.frames) \in Nat
    BY <1>1, SMT DEF Log
  <2>2. log'.synced = log.synced /\ Len(log'.frames) = Len(log.frames) + 1
    BY <1>4, <1>5
  <2> QED
    BY <2>1, <2>2, SMT
<1>7. ASSUME \A k \in DOMAIN log.frames : log.frames[k].seq <= lastSeq,
             NEW k \in DOMAIN log'.frames
      PROVE  log'.frames[k].seq <= lastSeq'
  <2>1. log'.frames[k] = h \/ (k \in DOMAIN log.frames /\ log'.frames[k] = log.frames[k])
    BY <1>4, <1>5
  <2>2. CASE log'.frames[k] = h
    BY <1>1, <1>2, <1>3, <2>2, SMT
  <2>3. CASE k \in DOMAIN log.frames /\ log'.frames[k] = log.frames[k]
    <3>1. log.frames[k] \in Frame
      BY <1>1, <2>3, SMT DEF Log
    <3>2. log.frames[k].seq \in Nat /\ log.frames[k].seq <= lastSeq
      BY <1>7, <2>3, <3>1 DEF Frame
    <3> QED
      BY <1>1, <1>3, <2>3, <3>2, SMT
  <2> QED
    BY <2>1, <2>2, <2>3
<1>8. ASSUME NEW c \in Checkpoint, NEW i \in RemovedIds(c, log')
      PROVE  i \in RemovedIds(c, log) \/ (g.kind = "removed" /\ i = g.id)
  <2>1. PICK x \in AppliedFrames(c, log', "removed") : i = x.id
    BY DEF RemovedIds
  <2>2. x \in AppliedFrames(c, log, "removed") \/ (h.kind = "removed" /\ x = h)
    BY <1>4
  <2> QED
    BY <1>2, <2>1, <2>2 DEF RemovedIds
<1>9. ASSUME NEW c \in Checkpoint, NEW r \in ReleasedBy(c, log')
      PROVE  r \in ReleasedBy(c, log) \/ (g.kind = "release" /\ r \in g.recs)
  <2>1. PICK x \in AppliedFrames(c, log', "release") : r \in x.recs
    BY DEF ReleasedBy
  <2>2. x \in AppliedFrames(c, log, "release") \/ (h.kind = "release" /\ x = h)
    BY <1>4
  <2> QED
    BY <1>2, <2>1, <2>2 DEF ReleasedBy
<1> QED
  BY <1>6, <1>7, <1>8, <1>9

\* A log sync changes nothing that recovery would derive.
LEMMA LogSynced ==
    ASSUME TypeOK, SyncLog
    PROVE  /\ log'.synced <= Len(log'.frames) /\ log'.frames = log.frames
           /\ \A c : RemovedIds(c, log') = RemovedIds(c, log)
           /\ \A c : ReleasedBy(c, log') = ReleasedBy(c, log)
<1>1. log \in Log /\ Len(log.frames) \in Nat
  BY SMT DEF TypeOK, Log
<1>2. log'.frames = log.frames /\ log'.synced = Len(log.frames)
  BY <1>1 DEF SyncLog, Log
<1>3. \A c, kind : AppliedFrames(c, log', kind) = AppliedFrames(c, log, kind)
  BY <1>2, SameFrames, ZenonT(30)
<1> QED
  BY <1>1, <1>2, <1>3, SMT DEF RemovedIds, ReleasedBy

\* Nothing is left to apply once the checkpoint covers the log, nor from an
\* empty log.
LEMMA NothingApplied ==
    ASSUME NEW c \in Checkpoint, NEW l \in Log,
           \A k \in DOMAIN l.frames : l.frames[k].seq <= c.last
    PROVE  RemovedIds(c, l) = {} /\ ReleasedBy(c, l) = {}
BY CoveredFrames DEF RemovedIds, ReleasedBy

\* A file write keeps every synced chunk, and adds the records it was given.
LEMMA ChunkWritten ==
    ASSUME TypeOK, Settled, NEW i \in SegId, NEW c \in Chunk, AppendChunk(i, c)
    PROVE  /\ \A j \in SegId : file'[j].synced <= Len(file'[j].chunks)
           /\ \A j \in SegId : RecordsThrough(file'[j], file'[j].synced)
                                 = RecordsThrough(file[j], file[j].synced)
           /\ RecordsOf(file'[i]) = RecordsOf(file[i]) \cup c
           /\ \A j \in SegId \ {i} : RecordsOf(file'[j]) = RecordsOf(file[j])
<1>1. /\ file'[i] = [file[i] EXCEPT !.chunks = Append(file[i].chunks, c)]
      /\ \A j \in SegId \ {i} : file'[j] = file[j]
  BY AppendChunkFacts
<1>2. /\ file[i] \in File /\ file[i].synced \in Nat /\ Len(file[i].chunks) \in Nat
      /\ \A j \in SegId : file[j].synced <= Len(file[j].chunks)
  BY SMT DEF TypeOK, File, Settled
<1>3. /\ file'[i].synced = file[i].synced /\ Len(file'[i].chunks) = Len(file[i].chunks) + 1
      /\ RecordsOf(file'[i]) = RecordsOf(file[i]) \cup c
      /\ \A n \in 0 .. Len(file[i].chunks) :
           RecordsThrough(file'[i], n) = RecordsThrough(file[i], n)
  BY <1>1, <1>2, AppendedChunk, SMT
<1>4. file[i].synced \in 0 .. Len(file[i].chunks)
  BY <1>2, SMT
<1>5. file'[i].synced <= Len(file'[i].chunks)
  BY <1>2, <1>3, SMT
<1> QED
  BY <1>1, <1>2, <1>3, <1>4, <1>5

\* A file sync makes every record of the file durable and changes no other.
LEMMA FileSynced ==
    ASSUME TypeOK, Settled, NEW i \in SegId, SyncFile(i)
    PROVE  /\ \A j \in SegId : file'[j].synced <= Len(file'[j].chunks)
           /\ \A j \in SegId : RecordsThrough(file[j], file[j].synced)
                                 \subseteq RecordsThrough(file'[j], file'[j].synced)
           /\ RecordsThrough(file'[i], file'[i].synced) = RecordsOf(file[i])
           /\ \A j \in SegId : RecordsOf(file'[j]) = RecordsOf(file[j])
<1>1. /\ file' \in [SegId -> File]
      /\ file'[i].chunks = file[i].chunks /\ file'[i].synced = Len(file[i].chunks)
      /\ \A j \in SegId \ {i} : file'[j] = file[j]
  BY SyncFileFacts
<1>2. /\ file[i] \in File /\ file[i].synced \in Nat /\ Len(file[i].chunks) \in Nat
      /\ \A j \in SegId : file[j].synced <= Len(file[j].chunks)
  BY SMT DEF TypeOK, File, Settled
<1>3. RecordsOf(file'[i]) = RecordsOf(file[i])
  BY <1>1 DEF RecordsOf
<1>4. RecordsThrough(file'[i], file'[i].synced) = RecordsOf(file[i])
  <2>1. file'[i] \in File
    BY <1>1
  <2>2. RecordsThrough(file'[i], Len(file'[i].chunks)) = RecordsOf(file'[i])
    BY <2>1, SyncedWhole
  <2> QED
    BY <1>1, <1>3, <2>2
<1>5. RecordsThrough(file[i], file[i].synced) \subseteq RecordsOf(file[i])
  BY <1>2, ThroughWithin
<1>6. file'[i].synced <= Len(file'[i].chunks)
  BY <1>1, <1>2, SMT
<1> QED
  BY <1>1, <1>2, <1>3, <1>4, <1>5, <1>6

\* The steps that write a frame to the log.
FrameWrite ==
    \/ SealFrame \/ RemoveWrite \/ OpenReseal
    \/ ReleaseWrite /\ ~UNCHANGED <<log, lastSeq>>

\* The steps that write the manifest log append one numbered frame to it.
LEMMA FrameWriteIsAppend ==
    ASSUME FiniteLaws, TypeOK, JobReady, FrameWrite
    PROVE  \E g \in Frame :
             /\ AppendFrame(g)
             /\ g.kind = "release" => ReleaseWrite /\ g = ReleaseFrame(Head(job.todo))
             /\ g.kind = "removed" => RemoveWrite /\ g.id \in job.left
<1>0. job.left \subseteq SegId /\ job.batch \subseteq SegId
  BY DEF TypeOK, Job
<1>1. CASE SealFrame
  <2>1. active \in SegId /\ AppendFrame(SealedFrame(active))
    BY <1>1 DEF SealFrame, JobReady, SealPcs, TypeOK
  <2>2. SealedFrame(active) \in Frame /\ SealedFrame(active).kind = "sealed"
    BY <2>1, FrameTypes DEF SealedFrame
  <2> QED
    BY <2>1, <2>2
<1>2. CASE RemoveWrite
  <2>1. PICK i \in job.left : AppendFrame(RemovedFrame(i, RemovalHighwaters(i, job.batch)))
    BY <1>2 DEF RemoveWrite
  <2>2. RemovalHighwaters(i, job.batch) \in Highwaters
    BY <1>0, RemovalHighwatersType
  <2> DEFINE g == RemovedFrame(i, RemovalHighwaters(i, job.batch))
  <2>3. g \in Frame /\ g.kind = "removed" /\ g.id = i
    BY <1>0, <2>2, FrameTypes DEF RemovedFrame
  <2> QED
    BY <1>2, <2>1, <2>3
<1>3. CASE OpenReseal
  <2>1. PICK i \in job.left : AppendFrame(SealedFrame(i))
    BY <1>3 DEF OpenReseal
  <2>2. SealedFrame(i) \in Frame /\ SealedFrame(i).kind = "sealed"
    BY <1>0, FrameTypes DEF SealedFrame
  <2> QED
    BY <2>1, <2>2
<1>4. CASE ReleaseWrite /\ ~UNCHANGED <<log, lastSeq>>
  <2>1. AppendFrame(ReleaseFrame(Head(job.todo))) /\ job.todo # << >>
        /\ job' = [job EXCEPT !.todo = Tail(@)]
    BY <1>4 DEF ReleaseWrite, JobReady
  <2>2. Head(job.todo) \in SUBSET Record
    BY <2>1, TodoTail DEF Chunk
  <2>3. ReleaseFrame(Head(job.todo)) \in Frame /\ ReleaseFrame(Head(job.todo)).kind = "release"
    BY <2>2, FrameTypes DEF ReleaseFrame
  <2> QED
    BY <1>4, <2>1, <2>3
<1> QED
  BY <1>1, <1>2, <1>3, <1>4 DEF FrameWrite

\* Every step that is no frame write, no rename and no failure leaves the
\* log's frames alone.
LEMMA FramesKept ==
    ASSUME TypeOK, [NextPower]_vars, ~FrameWrite, ~LogRename, ~PowerLoss
    PROVE  UNCHANGED log \/ SyncLog
<1>1. ASSUME NEW units, NEW first, AppendStart(units, first) PROVE UNCHANGED log
  BY <1>1 DEF AppendStart, diskVars
<1>2. ASSUME NEW units, ReleaseStart(units) \/ ReleaseNothing(units) PROVE UNCHANGED log
  BY <1>2 DEF ReleaseStart, ReleaseNothing, diskVars
<1>3. ASSUME NEW kind, ReclaimStart(kind) PROVE UNCHANGED log
  BY <1>3 DEF ReclaimStart, diskVars
<1>4. ASSUME \/ AppendWrite \/ AppendSync \/ CreateRename \/ CreateSync \/ SegmentIdExhausted
             \/ SealExpired \/ SealFooter \/ SealSync \/ ReclaimNextBatch
             \/ Delete \/ DeleteSync \/ ReclaimDone
             \/ CheckpointRename \/ CheckpointSync \/ LogSync
      PROVE  UNCHANGED log
  BY <1>4 DEF AppendWrite, AppendSync, CreateRename, CreateSync, SegmentIdExhausted, SealExpired,
     SealFooter, SealSync, ReclaimNextBatch, Delete, DeleteSync, ReclaimDone, CheckpointRename,
     CheckpointSync, LogSync, diskVars
<1>5. ASSUME \/ OpenControl \/ OpenDelete \/ OpenScan \/ OpenRebuild \/ OpenReject \/ OpenRetry
             \/ Shutdown \/ UNCHANGED vars
      PROVE  UNCHANGED log
  BY <1>5 DEF OpenControl, OpenDelete, OpenScan, OpenRebuild, OpenReject, OpenRetry, Shutdown,
     vars, diskVars
<1>6. ASSUME SealPublish \/ ReleaseSync \/ RemoveSync \/ OpenResealSync PROVE SyncLog
  BY <1>6 DEF SealPublish, ReleaseSync, RemoveSync, OpenResealSync
<1> QED
  BY <1>1, <1>2, <1>3, <1>4, <1>5, <1>6 DEF NextPower, Serve, Open, FrameWrite

\* What is within some high-waters is within greater ones.
LEMMA UpToRaised ==
    ASSUME NEW S \in SUBSET Record, NEW a \in Highwaters, NEW b \in Highwaters,
           UpTo(S, a), \A s \in Stream : a[s] <= b[s]
    PROVE  UpTo(S, b)
<1> SUFFICES ASSUME NEW r \in S PROVE r[2] <= b[r[1]]
  BY DEF UpTo
<1>1. r[1] \in Stream /\ r[2] \in Int
  BY RecordSequence, SMT DEF Seqno
<1>2. a[r[1]] \in Int /\ b[r[1]] \in Int
  BY <1>1, BoundsAssumption, SMT DEF Highwaters, HighWater, Seqno, NoSeq
<1>3. r[2] <= a[r[1]] /\ a[r[1]] <= b[r[1]]
  BY <1>1 DEF UpTo
<1> QED
  BY <1>1, <1>2, <1>3, SMT

\* A union is within the high-waters that bound both parts.
LEMMA UpToUnion ==
    ASSUME NEW S, NEW T, NEW a, UpTo(S, a), UpTo(T, a)
    PROVE  \A U : U \subseteq S \cup T => UpTo(U, a)
BY DEF UpTo

\* Facts of DurabilityInv in the form most steps use them.
LEMMA Types ==
    ASSUME TypeOK
    PROVE  /\ chk \in Checkpoint /\ log \in Log /\ nextId \in Nat /\ lastSeq \in Nat
           /\ dir \subseteq SegId /\ durDir \subseteq SegId /\ live \subseteq SegId
           /\ file \in [SegId -> File] /\ records \in [SegId -> SUBSET Record]
           /\ released \subseteq Record /\ highwater \in Highwaters
           /\ job \in Job /\ job.group \subseteq Record /\ job.left \subseteq SegId
           /\ promised \subseteq Record /\ chk.hw \in Highwaters
           /\ \A s \in Stream : highwater[s] \in Int /\ chk.hw[s] \in Int
           /\ \A i \in SegId : i \in Int
<1>1. chk.hw \in Highwaters /\ highwater \in Highwaters
  BY DEF TypeOK, Checkpoint
<1>2. \A s \in Stream : highwater[s] \in Int /\ chk.hw[s] \in Int
  BY <1>1, BoundsAssumption, SMT DEF Highwaters, HighWater, Seqno, NoSeq
<1> QED
  BY <1>1, <1>2, BoundsAssumption, SMTT(30) DEF TypeOK, Job, SegId

\* Indexing a durable group raises the high-waters over all that is known.
LEMMA HighwaterRaised ==
    ASSUME FiniteLaws, TypeOK, Up, Index, NEW i \in SegId, IndexDurableRecords(i)
    PROVE  /\ records' \in [SegId -> SUBSET Record]
           /\ \A j \in SegId \ {i} : records'[j] = records[j]
           /\ records'[i] = records[i] \cup job.group
           /\ \A j \in SegId : UpTo(records'[j], highwater')
           /\ UpTo(released, highwater')
           /\ UpTo(ReleasedBy(chk, log), highwater')
           /\ \A s \in Stream : chk.hw[s] <= highwater'[s]
<1>1. /\ records' \in [SegId -> SUBSET Record] /\ highwater' \in Highwaters
      /\ \A s \in Stream : highwater[s] <= highwater'[s]
      /\ UpTo(job.group, highwater')
  BY IndexDurableRecordsType DEF UpTo
<1>2. records' = [records EXCEPT ![i] = @ \cup job.group]
  BY DEF IndexDurableRecords
<1>3. /\ \A j \in SegId \ {i} : records'[j] = records[j]
      /\ records'[i] = records[i] \cup job.group
  BY <1>2, Types
<1>4. \A j \in SegId : UpTo(records[j], highwater')
  BY <1>1, Types, UpToRaised DEF Index
<1>5. \A j \in SegId : UpTo(records'[j], highwater')
  BY <1>1, <1>3, <1>4, UpToUnion
<1>6. UpTo(released, highwater')
  BY <1>1, Types, UpToRaised DEF Index
<1>7. UpTo(ReleasedBy(chk, log), highwater')
  BY <1>1, Types, UpToRaised, ReleasedByType DEF Index
<1>8. \A s \in Stream : chk.hw[s] <= highwater'[s]
  <2>1. \A s \in Stream : highwater'[s] \in Int
    BY <1>1, BoundsAssumption, SMT DEF Highwaters, HighWater, Seqno, NoSeq
  <2> QED
    BY <1>1, <2>1, Types, SMT DEF Index
<1> QED
  BY <1>1, <1>3, <1>5, <1>6, <1>7, <1>8

\* The records of the work list are those of its head and of its tail.
LEMMA TodoSplit ==
    ASSUME TypeOK, job.todo # << >>, job' = [job EXCEPT !.todo = Tail(@)]
    PROVE  TodoRecords = Head(job.todo) \cup TodoRecords'
<1> DEFINE q == job.todo
<1>1. q \in Seq(Chunk) /\ q # << >> /\ job'.todo = Tail(q)
  BY TodoTail DEF TypeOK, Job
<1>2. /\ Head(q) = q[1] /\ Len(q) \in Nat /\ Len(q) >= 1 /\ DOMAIN q = 1 .. Len(q)
      /\ DOMAIN Tail(q) = 1 .. Len(q) - 1
      /\ \A k \in 1 .. Len(q) - 1 : Tail(q)[k] = q[k + 1]
  BY <1>1, SMT
<1>3. ASSUME NEW r \in TodoRecords PROVE r \in Head(q) \cup TodoRecords'
  <2>1. PICK k \in DOMAIN q : r \in q[k]
    BY DEF TodoRecords
  <2>2. CASE k = 1
    BY <1>2, <2>1, <2>2
  <2>3. CASE k # 1
    <3>1. k - 1 \in DOMAIN Tail(q) /\ r \in Tail(q)[k - 1]
      BY <1>2, <2>1, <2>3, SMT
    <3> QED
      BY <1>1, <3>1 DEF TodoRecords
  <2> QED
    BY <2>2, <2>3
<1>4. ASSUME NEW r \in Head(q) PROVE r \in TodoRecords
  BY <1>2, <1>4, SMT DEF TodoRecords
<1>5. ASSUME NEW r \in TodoRecords' PROVE r \in TodoRecords
  <2>1. PICK k \in DOMAIN Tail(q) : r \in Tail(q)[k]
    BY <1>1 DEF TodoRecords
  <2>2. k + 1 \in DOMAIN q /\ r \in q[k + 1]
    BY <1>2, <2>1, SMT
  <2> QED
    BY <2>2 DEF TodoRecords
<1> QED
  BY <1>3, <1>4, <1>5

-----------------------------------------------------------------------------
(* Promises *)
\* Only a finished append adds promises.
LEMMA PromisesShrink ==
    ASSUME TypeOK, AppendJob, [NextPower]_vars, ~AppendSync, ~CreateSync
    PROVE  promised' \subseteq promised
<1>1. ASSUME NEW units, NEW first, AppendStart(units, first) PROVE promised' \subseteq promised
  BY <1>1 DEF AppendStart, histVars
<1>2. ASSUME NEW units, ReleaseStart(units) \/ ReleaseNothing(units)
      PROVE  promised' \subseteq promised
  BY <1>2 DEF ReleaseStart, ReleaseNothing
<1>3. ASSUME NEW kind, ReclaimStart(kind) PROVE promised' \subseteq promised
  BY <1>3 DEF ReclaimStart, histVars
<1>4. ASSUME MaybeCompact \/ Finish, job.op # "append" PROVE promised' \subseteq promised
  BY <1>4 DEF MaybeCompact, Finish, histVars
<1>5. CASE AppendWrite \/ CreateRename \/ SegmentIdExhausted \/ SealExpired \/ SealFooter
           \/ SealSync \/ SealFrame \/ ReleaseWrite
  BY <1>5 DEF AppendWrite, CreateRename, SegmentIdExhausted, SealExpired, SealFooter, SealSync,
     SealFrame, ReleaseWrite, histVars
<1>6. CASE SealPublish
  BY <1>4, <1>6 DEF SealPublish, AfterSeal, histVars
<1>7. CASE ReleaseSync \/ LogSync
  <2>1. job.op # "append"
    BY <1>7 DEF ReleaseSync, LogSync, AppendJob, SealPcs, WritePcs, CreatePcs
  <2> QED
    BY <1>4, <1>7, <2>1 DEF ReleaseSync, LogSync
<1>8. CASE ReclaimDone
  <2>1. job.op # "append"
    BY <1>8 DEF ReclaimDone, AppendJob, SealPcs, WritePcs, CreatePcs
  <2> QED
    BY <1>4, <1>8, <2>1 DEF ReclaimDone, histVars
<1>9. CASE ReclaimNextBatch \/ RemoveWrite \/ RemoveSync \/ Delete \/ DeleteSync
           \/ CheckpointRename \/ CheckpointSync \/ LogRename
  BY <1>9 DEF ReclaimNextBatch, RemoveWrite, RemoveSync, Delete, DeleteSync, CheckpointRename,
     CheckpointSync, LogRename, histVars
<1>10. CASE Open
  BY <1>10 DEF Open, OpenControl, OpenDelete, OpenScan, OpenReseal, OpenResealSync, OpenRebuild,
     OpenReject, OpenRetry, histVars
<1>11. CASE Shutdown \/ PowerLoss
  <2>1. UNCHANGED promised
    BY <1>11 DEF Shutdown, PowerLoss, histVars
  <2> QED
    BY <2>1
<1>12. CASE UNCHANGED vars
  BY <1>12 DEF vars, histVars
<1> QED
  BY <1>1, <1>2, <1>3, <1>5, <1>6, <1>7, <1>8, <1>9, <1>10, <1>11, <1>12 DEF NextPower, Serve

\* While an append runs no control image but the current ones exists, and no
\* file in the directory is removed.
LEMMA NothingRemoved ==
    ASSUME TypeOK, JobReady, Settled, Control, Index,
           pc \in WritePcs \cup CreatePcs \cup {"seal_footer", "seal_sync"}
    PROVE  /\ Checkpoints = {chk} /\ Logs = {log} /\ chkOld = {} /\ logOld = {}
           /\ RemovedIds(chk, log) \cap dir = {}
           /\ pc # "create_sync" => durDir = dir /\ dir = live
<1> USE DEF WritePcs, CreatePcs
<1>1. chkOld = {} /\ logOld = {} /\ Up /\ Removing = {}
  BY DEF Settled, EntriesSettled, Up, OpenPcs, Removing
<1>2. live \cap RemovedIds(chk, log) = {}
  BY <1>1 DEF Control
<1>3. dir = live \cup (IF pc = "create_sync" THEN {nextId - 1} ELSE {})
  BY <1>1 DEF Index
<1>4. pc = "create_sync" => nextId - 1 \notin RemovedIds(chk, log)
  BY DEF Control
<1>5. dir \cap RemovedIds(chk, log) = {}
  BY <1>2, <1>3, <1>4
<1>6. pc # "create_sync" => durDir = dir
  BY DEF Settled, EntriesSettled
<1> QED
  BY <1>1, <1>3, <1>5, <1>6 DEF Checkpoints, Logs

\* A finished append promises its group, which is above every high-water.
LEMMA GroupPromised ==
    ASSUME TypeOK, JobReady, Settled, Control, Index, AppendJob, AppendSync \/ CreateSync
    PROVE  /\ promised' = promised \cup job.group /\ Up
           /\ UNCHANGED <<chk, chkOld, log, logOld, dir, released>>
           /\ durDir' = dir
           /\ Checkpoints = {chk} /\ Logs = {log} /\ Checkpoints' = {chk} /\ Logs' = {log}
           /\ RemovedIds(chk, log) \cap dir = {}
           /\ \A S \in SUBSET Record : UpTo(S, highwater) => S \cap job.group = {}
<1>1. job.op = "append" /\ \A r \in job.group : r[2] > highwater[r[1]]
  BY DEF AppendSync, CreateSync, AppendJob, WritePcs, CreatePcs
<1>2. /\ promised' = promised \cup job.group
      /\ UNCHANGED <<chk, chkOld, log, logOld, dir, released>>
  BY <1>1 DEF AppendSync, CreateSync, Finish
<1>3. /\ Checkpoints = {chk} /\ Logs = {log} /\ chkOld = {} /\ logOld = {}
      /\ RemovedIds(chk, log) \cap dir = {} /\ (pc # "create_sync" => durDir = dir)
  BY NothingRemoved DEF AppendSync, CreateSync, WritePcs, CreatePcs
<1>4. durDir' = dir
  BY <1>3 DEF AppendSync, CreateSync, SyncSegments
<1>5. ASSUME NEW S \in SUBSET Record, UpTo(S, highwater) PROVE S \cap job.group = {}
  <2> SUFFICES ASSUME NEW r \in S, r \in job.group PROVE FALSE
    OBVIOUS
  <2>1. r[1] \in Stream /\ r[2] \in Int /\ highwater[r[1]] \in Int
    BY RecordSequence, Types, SMT DEF Seqno
  <2>2. r[2] <= highwater[r[1]] /\ r[2] > highwater[r[1]]
    BY <1>1, <1>5 DEF UpTo
  <2> QED
    BY <2>1, <2>2, SMT
<1>6. Up
  BY DEF AppendSync, CreateSync, Up, OpenPcs
<1> QED
  BY <1>2, <1>3, <1>4, <1>5, <1>6 DEF Checkpoints, Logs

\* Only a compaction adds a checkpoint image.
LEMMA CheckpointsKept ==
    ASSUME TypeOK, [NextPower]_vars, ~CheckpointRename
    PROVE  Checkpoints' \subseteq Checkpoints
<1>1. ASSUME UNCHANGED <<chk, chkOld>> PROVE Checkpoints' \subseteq Checkpoints
  BY <1>1 DEF Checkpoints
<1>2. ASSUME UNCHANGED diskVars PROVE Checkpoints' \subseteq Checkpoints
  BY <1>1, <1>2 DEF diskVars
<1>3. ASSUME NEW units, NEW first, AppendStart(units, first)
      PROVE  Checkpoints' \subseteq Checkpoints
  BY <1>2, <1>3 DEF AppendStart
<1>4. ASSUME NEW units, ReleaseStart(units) \/ ReleaseNothing(units)
      PROVE  Checkpoints' \subseteq Checkpoints
  BY <1>2, <1>4 DEF ReleaseStart, ReleaseNothing
<1>5. ASSUME NEW kind, ReclaimStart(kind) PROVE Checkpoints' \subseteq Checkpoints
  BY <1>2, <1>5 DEF ReclaimStart
<1>6. CASE AppendWrite \/ AppendSync \/ CreateRename \/ CreateSync \/ SealFooter \/ SealSync
           \/ SealFrame \/ SealPublish \/ ReleaseWrite \/ ReleaseSync \/ RemoveWrite
           \/ RemoveSync \/ Delete \/ DeleteSync \/ LogRename
  BY <1>1, <1>6 DEF AppendWrite, AppendSync, CreateRename, CreateSync, SealFooter, SealSync,
     SealFrame, SealPublish, ReleaseWrite, ReleaseSync, RemoveWrite, RemoveSync, Delete,
     DeleteSync, LogRename
<1>7. CASE SegmentIdExhausted \/ SealExpired \/ ReclaimNextBatch \/ ReclaimDone
  BY <1>2, <1>7 DEF SegmentIdExhausted, SealExpired, ReclaimNextBatch, ReclaimDone
<1>8. CASE CheckpointSync \/ LogSync
  BY <1>8 DEF CheckpointSync, LogSync, SyncRoot, Checkpoints
<1>9. CASE Open
  BY <1>1, <1>2, <1>9 DEF Open, OpenControl, OpenDelete, OpenScan, OpenReseal, OpenResealSync,
     OpenRebuild, OpenReject, OpenRetry
<1>10. CASE Shutdown
  BY <1>2, <1>10 DEF Shutdown
<1>11. CASE PowerLoss
  BY <1>11, PowerLossFacts DEF Checkpoints
<1>12. CASE UNCHANGED vars
  BY <1>2, <1>12 DEF vars
<1> QED
  BY <1>3, <1>4, <1>5, <1>6, <1>7, <1>8, <1>9, <1>10, <1>11, <1>12 DEF NextPower, Serve

\* Likewise only a compaction adds an old log image.
LEMMA OldLogsKept ==
    ASSUME TypeOK, [NextPower]_vars, ~LogRename
    PROVE  logOld' \subseteq logOld
<1>1. ASSUME UNCHANGED diskVars PROVE logOld' \subseteq logOld
  BY <1>1 DEF diskVars
<1>2. ASSUME NEW units, NEW first, AppendStart(units, first) PROVE logOld' \subseteq logOld
  BY <1>1, <1>2 DEF AppendStart
<1>3. ASSUME NEW units, ReleaseStart(units) \/ ReleaseNothing(units)
      PROVE  logOld' \subseteq logOld
  BY <1>1, <1>3 DEF ReleaseStart, ReleaseNothing
<1>4. ASSUME NEW kind, ReclaimStart(kind) PROVE logOld' \subseteq logOld
  BY <1>1, <1>4 DEF ReclaimStart
<1>5. CASE AppendWrite \/ AppendSync \/ CreateRename \/ CreateSync \/ SealFooter \/ SealSync
           \/ SealFrame \/ SealPublish \/ ReleaseWrite \/ ReleaseSync \/ RemoveWrite
           \/ RemoveSync \/ Delete \/ DeleteSync
  BY <1>5 DEF AppendWrite, AppendSync, CreateRename, CreateSync, SealFooter, SealSync,
     SealFrame, SealPublish, ReleaseWrite, ReleaseSync, RemoveWrite, RemoveSync, Delete,
     DeleteSync
<1>6. CASE SegmentIdExhausted \/ SealExpired \/ ReclaimNextBatch \/ ReclaimDone
  BY <1>1, <1>6 DEF SegmentIdExhausted, SealExpired, ReclaimNextBatch, ReclaimDone
<1>7. CASE CheckpointRename \/ CheckpointSync \/ LogSync
  BY <1>7 DEF CheckpointRename, CheckpointSync, LogSync, SyncRoot
<1>8. CASE Open
  BY <1>1, <1>8 DEF Open, OpenControl, OpenDelete, OpenScan, OpenReseal, OpenResealSync,
     OpenRebuild, OpenReject, OpenRetry
<1>9. CASE Shutdown
  BY <1>1, <1>9 DEF Shutdown
<1>10. CASE PowerLoss
  BY <1>10, PowerLossFacts
<1>11. CASE UNCHANGED vars
  BY <1>1, <1>11 DEF vars
<1> QED
  BY <1>2, <1>3, <1>4, <1>5, <1>6, <1>7, <1>8, <1>9, <1>10, <1>11 DEF NextPower, Serve

\* The other steps change no file and add no directory entry.
LEMMA FilesKept ==
    ASSUME [NextPower]_vars, ~AppendWrite, ~AppendSync, ~CreateRename, ~CreateSync, ~SealFooter,
           ~SealSync, ~PowerLoss
    PROVE  UNCHANGED file /\ dir' \cup durDir' \subseteq dir \cup durDir
<1> DEFINE Kept == UNCHANGED file /\ dir' \cup durDir' \subseteq dir \cup durDir
<1>1. ASSUME UNCHANGED <<file, dir, durDir>> PROVE Kept
  BY <1>1
<1>2. ASSUME UNCHANGED diskVars PROVE Kept
  BY <1>1, <1>2 DEF diskVars
<1>3. ASSUME NEW units, NEW first, AppendStart(units, first) PROVE Kept
  BY <1>2, <1>3 DEF AppendStart
<1>4. ASSUME NEW units, ReleaseStart(units) \/ ReleaseNothing(units) PROVE Kept
  BY <1>2, <1>4 DEF ReleaseStart, ReleaseNothing
<1>5. ASSUME NEW kind, ReclaimStart(kind) PROVE Kept
  BY <1>2, <1>5 DEF ReclaimStart
<1>6. CASE SealFrame \/ SealPublish \/ ReleaseWrite \/ ReleaseSync \/ RemoveWrite \/ RemoveSync
           \/ CheckpointRename \/ CheckpointSync \/ LogRename \/ LogSync
  BY <1>1, <1>6 DEF SealFrame, SealPublish, ReleaseWrite, ReleaseSync, RemoveWrite, RemoveSync,
     CheckpointRename, CheckpointSync, LogRename, LogSync
<1>7. CASE SegmentIdExhausted \/ SealExpired \/ ReclaimNextBatch \/ ReclaimDone
  BY <1>2, <1>7 DEF SegmentIdExhausted, SealExpired, ReclaimNextBatch, ReclaimDone
<1>8. CASE Delete \/ DeleteSync \/ OpenDelete
  BY <1>8 DEF Delete, DeleteSync, SyncSegments, OpenDelete
<1>9. CASE OpenScan \/ OpenReject
  BY <1>9 DEF OpenScan, OpenReject
<1>10. CASE OpenControl \/ OpenRebuild \/ OpenRetry \/ Shutdown
  BY <1>2, <1>10 DEF OpenControl, OpenRebuild, OpenRetry, Shutdown
<1>11. CASE OpenReseal \/ OpenResealSync
  BY <1>1, <1>11 DEF OpenReseal, OpenResealSync
<1>12. CASE UNCHANGED vars
  BY <1>2, <1>12 DEF vars
<1> QED
  BY <1>3, <1>4, <1>5, <1>6, <1>7, <1>8, <1>9, <1>10, <1>11, <1>12 DEF NextPower, Serve, Open

-----------------------------------------------------------------------------
(* Positions of frames and chunks. *)
\* A written frame leaves the applied ones where they were, and is applied
\* itself by recovery from every checkpoint that ends before it.
LEMMA FrameAppended ==
    ASSUME TypeOK, NEW g \in Frame, AppendFrame(g), NEW c \in Checkpoint
    PROVE  /\ Len(log.frames) \in Nat /\ log.synced \in Nat /\ log'.synced = log.synced
           /\ DOMAIN log.frames = 1 .. Len(log.frames) /\ Len(log'.frames) = Len(log.frames) + 1
           /\ DOMAIN log'.frames = 1 .. Len(log.frames) + 1
           /\ \A k \in 1 .. Len(log.frames) : log'.frames[k] = log.frames[k]
           /\ log'.frames[Len(log.frames) + 1] = [g EXCEPT !.seq = lastSeq + 1]
           /\ \A k \in Applied(c, log) : k \in Applied(c, log') /\ log'.frames[k] = log.frames[k]
           /\ \A k \in Applied(c, log') : k \in Applied(c, log) \/ k = Len(log.frames) + 1
           /\ c.last <= lastSeq => Len(log.frames) + 1 \in Applied(c, log')
<1> DEFINE h == [g EXCEPT !.seq = lastSeq + 1]
<1>1. /\ log \in Log /\ lastSeq \in Nat /\ log.frames \in Seq(Frame) /\ log.synced \in Nat
      /\ c.last \in Nat
  BY DEF TypeOK, Log, Checkpoint
<1>2. h \in Frame /\ h.seq = lastSeq + 1
  BY <1>1, SMTT(20) DEF Frame
<1>3. log'.frames = Append(log.frames, h) /\ log'.synced = log.synced
  BY <1>1 DEF AppendFrame, Log
<1> HIDE DEF h
<1>4. /\ Len(log.frames) \in Nat
      /\ DOMAIN log.frames = 1 .. Len(log.frames) /\ DOMAIN log'.frames = 1 .. Len(log.frames) + 1
      /\ Len(log'.frames) = Len(log.frames) + 1
      /\ \A k \in 1 .. Len(log.frames) : log'.frames[k] = log.frames[k]
      /\ log'.frames[Len(log.frames) + 1] = h
  BY <1>1, <1>2, <1>3, SMT
<1>5. \A k \in Applied(c, log) : k \in Applied(c, log') /\ log'.frames[k] = log.frames[k]
  BY <1>4, SMT DEF Applied
<1>6. \A k \in Applied(c, log') : k \in Applied(c, log) \/ k = Len(log.frames) + 1
  BY <1>4, SMT DEF Applied
<1>7. c.last <= lastSeq => Len(log.frames) + 1 \in Applied(c, log')
  BY <1>1, <1>2, <1>4, SMT DEF Applied
<1> QED
  BY <1>1, <1>3, <1>4, <1>5, <1>6, <1>7 DEF h

\* What remains of the log after a power loss is a prefix of one of its
\* images, with the synced part of it.
LEMMA PowerLossLog ==
    ASSUME TypeOK, Settled, PowerLoss
    PROVE  /\ log'.synced = Len(log'.frames) /\ log'.synced \in Nat
           /\ \E l \in Logs :
                /\ l \in Log /\ l.synced <= log'.synced
                /\ DOMAIN log'.frames = {k \in DOMAIN l.frames : k <= log'.synced}
                /\ \A k \in DOMAIN log'.frames : log'.frames[k] = l.frames[k]
<1>1. log \in Log /\ logOld \subseteq Log
  BY DEF TypeOK
<1>2. PICK l \in {log} \cup logOld : \E n \in l.synced .. Len(l.frames) :
         log' = [l EXCEPT !.frames = SubSeq(@, 1, n), !.synced = n]
  BY Zenon DEF PowerLoss
<1>3. PICK n \in l.synced .. Len(l.frames) :
         log' = [l EXCEPT !.frames = SubSeq(l.frames, 1, n), !.synced = n]
  BY <1>2, Zenon
<1>4. l \in Log /\ l.frames \in Seq(Frame) /\ l.synced \in Nat /\ Len(l.frames) \in Nat
  BY <1>1, SMT DEF Log
<1>5. n \in Nat /\ l.synced <= n /\ n <= Len(l.frames)
  BY <1>4, SMT
<1>6. log'.frames = SubSeq(l.frames, 1, n) /\ log'.synced = n
  BY <1>3, <1>4, Zenon DEF Log
<1>7. /\ DOMAIN l.frames = 1 .. Len(l.frames) /\ Len(log'.frames) = n /\ DOMAIN log'.frames = 1 .. n
      /\ \A k \in 1 .. n : log'.frames[k] = l.frames[k]
  BY <1>4, <1>5, <1>6, SMT
<1>8. l \in Logs /\ n \in Nat /\ l.synced <= n
  BY <1>5 DEF Logs
<1>9. 1 .. n = {k \in 1 .. Len(l.frames) : k <= n}
  BY <1>4, <1>5, SMT
<1> QED
  BY <1>4, <1>6, <1>7, <1>8, <1>9

\* What remains of a segment file after a power loss is a prefix with the
\* synced part; nothing of it is unsynced, and a synced file is whole.
LEMMA PowerLossFiles ==
    ASSUME TypeOK, Settled, PowerLoss, NEW i \in dir'
    PROVE  /\ i \in dir \cup durDir /\ i \in SegId
           /\ file[i].synced \in Nat /\ file'[i].synced \in Nat
           /\ file'[i].synced = Len(file'[i].chunks) /\ file[i].synced <= file'[i].synced
           /\ file'[i].synced <= Len(file[i].chunks)
           /\ \A k \in 1 .. file'[i].synced : file'[i].chunks[k] = file[i].chunks[k]
           /\ file[i].synced = Len(file[i].chunks) => file'[i] = file[i]
<1>1. /\ file \in [SegId -> File] /\ dir \subseteq SegId /\ durDir \subseteq SegId
      /\ file[i].synced <= Len(file[i].chunks)
  <2>1. dir' \subseteq dir \cup durDir
    BY PowerLossFacts
  <2> QED
    BY <2>1 DEF TypeOK, Settled
<1>2. PICK D \in SUBSET (dir \cup durDir) :
         /\ dir' = D
         /\ \E m \in [Unsynced -> 0 .. Max({0} \cup {Len(file[j].chunks) : j \in Unsynced})] :
              /\ \A j \in Unsynced : m[j] \in file[j].synced .. Len(file[j].chunks)
              /\ file' = [j \in SegId |-> CASE j \notin D        -> NoFile
                                           [] j \in D \cap Unsynced -> KeepChunks(j, m[j])
                                           [] OTHER             -> file[j]]
  BY DEF PowerLoss
<1>3. PICK m :
              /\ \A j \in Unsynced : m[j] \in file[j].synced .. Len(file[j].chunks)
              /\ file' = [j \in SegId |-> CASE j \notin D        -> NoFile
                                           [] j \in D \cap Unsynced -> KeepChunks(j, m[j])
                                           [] OTHER             -> file[j]]
  BY <1>2
<1>4. /\ i \in dir \cup durDir /\ i \in SegId /\ file[i] \in File
      /\ file[i].chunks \in Seq(Chunk) /\ file[i].synced \in Nat /\ Len(file[i].chunks) \in Nat
  BY <1>1, <1>2, SMT DEF File
<1>5. CASE i \in Unsynced
  <2>1. file'[i] = [chunks |-> SubSeq(file[i].chunks, 1, m[i]), synced |-> m[i]]
    BY <1>2, <1>3, <1>4, <1>5 DEF KeepChunks
  <2>2. m[i] \in Nat /\ file[i].synced <= m[i] /\ m[i] <= Len(file[i].chunks)
    BY <1>3, <1>4, <1>5, SMT
  <2>3. /\ file'[i].synced = m[i] /\ Len(file'[i].chunks) = m[i]
        /\ \A k \in 1 .. m[i] : file'[i].chunks[k] = file[i].chunks[k]
    BY <1>4, <2>1, <2>2, SMT
  <2>4. file[i].synced # Len(file[i].chunks)
    BY <1>4, <1>5, SMT DEF Unsynced
  <2> QED
    BY <1>4, <2>2, <2>3, <2>4
<1>6. CASE i \notin Unsynced
  <2>1. file'[i] = file[i]
    BY <1>2, <1>3, <1>4, <1>6
  <2>2. file[i].synced = Len(file[i].chunks)
    BY <1>1, <1>4, <1>6, SMT DEF Unsynced
  <2> QED
    BY <1>4, <2>1, <2>2, SMT
<1> QED
  BY <1>5, <1>6

-----------------------------------------------------------------------------
(* The steps of the store, by what they touch. *)
\* Steps between jobs, which change neither a file nor an index.
Quiet ==
    \/ \E units \in Groups(Unit) : \E first \in [DOMAIN units -> Seqno] :
         AppendStart(units, first)
    \/ \E units \in Groups(ReleaseUnits) : ReleaseStart(units) \/ ReleaseNothing(units)
    \/ \E kind \in ReclaimKind : ReclaimStart(kind)
    \/ SegmentIdExhausted \/ SealExpired \/ ReclaimNextBatch \/ ReclaimDone \/ OpenRetry
    \/ UNCHANGED vars

\* Steps that leave the root not open.
Down ==
    \/ OpenControl \/ OpenDelete \/ OpenScan \/ OpenReseal \/ OpenResealSync
    \/ OpenReject \/ Shutdown \/ PowerLoss

QuietPcs == {"idle", "create", "reclaim_batch", "failed"}

\* A quiet step changes no file and no index: it only moves the job on.
LEMMA QuietStep ==
    ASSUME Quiet
    PROVE  /\ UNCHANGED <<diskVars, memVars>>
           /\ UNCHANGED <<pc, job, histVars>> \/ pc \in QuietPcs
           /\ pc' # pc => pc' \in {"idle", "append_write", "seal_footer", "create", "release_write",
                                   "reclaim_batch", "remove_write", "chk_rename", "closed"}
           /\ Up' <=> Up
<1> DEFINE Kept == /\ UNCHANGED <<diskVars, memVars>>
                   /\ UNCHANGED <<pc, job, histVars>> \/ pc \in QuietPcs
                   /\ pc' # pc => pc' \in {"idle", "append_write", "seal_footer", "create",
                                           "release_write", "reclaim_batch", "remove_write",
                                           "chk_rename", "closed"}
                   /\ Up' <=> Up
<1> USE DEF Up, OpenPcs, QuietPcs
<1>1. ASSUME NEW units, NEW first, AppendStart(units, first) PROVE Kept
  BY <1>1 DEF AppendStart, AppendTargets
<1>2. ASSUME NEW units, ReleaseStart(units) PROVE Kept
  BY <1>2 DEF ReleaseStart
<1>3. ASSUME NEW units, ReleaseNothing(units) PROVE Kept
  BY <1>3 DEF ReleaseNothing
<1>4. ASSUME NEW kind, ReclaimStart(kind) PROVE Kept
  BY <1>4 DEF ReclaimStart, StartBatches
<1>5. ASSUME SegmentIdExhausted \/ SealExpired \/ OpenRetry PROVE Kept
  BY <1>5 DEF SegmentIdExhausted, SealExpired, OpenRetry
<1>6. ASSUME ReclaimNextBatch PROVE Kept
  BY <1>6 DEF ReclaimNextBatch
<1>7. ASSUME ReclaimDone PROVE Kept
  BY <1>7 DEF ReclaimDone, MaybeCompact, Finish, Goto
<1>8. ASSUME UNCHANGED vars PROVE Kept
  BY <1>8 DEF vars
<1> QED
  BY <1>1, <1>2, <1>3, <1>4, <1>5, <1>6, <1>7, <1>8 DEF Quiet

\* A step of Down leaves the root closed or opening.
LEMMA DownStep ==
    ASSUME Down
    PROVE  ~Up' /\ (~Up \/ Shutdown \/ PowerLoss)
<1> USE DEF Up, OpenPcs
<1>1. CASE OpenControl \/ OpenDelete \/ OpenScan \/ OpenReseal \/ OpenResealSync
  BY <1>1 DEF OpenControl, OpenDelete, OpenScan, EnumerationDone, OpenReseal, OpenResealSync, Goto
<1>2. CASE OpenReject
  <2>1. pc' = "failed"
    BY <1>2 DEF OpenReject
  <2>2. pc \in {"closed", "enumerate", "reseal"}
    BY <1>2 DEF OpenReject, Rejections, EnumerationDone, SealsPublished
  <2> QED
    BY <2>1, <2>2
<1>3. CASE Shutdown
  <2>1. pc' = "closed"
    BY <1>3 DEF Shutdown
  <2> QED
    BY <1>3, <2>1
<1>4. CASE PowerLoss
  <2>1. pc' = "closed"
    BY <1>4 DEF PowerLoss
  <2> QED
    BY <1>4, <2>1
<1> QED
  BY <1>1, <1>2, <1>3, <1>4 DEF Down

\* Every step is of one of these kinds: the case analysis of the proofs below.
LEMMA StepKinds ==
    ASSUME [NextPower]_vars
    PROVE  \/ Quiet \/ Down \/ OpenRebuild
           \/ AppendWrite \/ AppendSync \/ CreateRename \/ CreateSync
           \/ SealFooter \/ SealSync \/ SealFrame \/ SealPublish \/ ReleaseWrite \/ ReleaseSync
           \/ RemoveWrite \/ RemoveSync \/ Delete \/ DeleteSync
           \/ CheckpointRename \/ CheckpointSync \/ LogRename \/ LogSync
BY DEF NextPower, Serve, Open, Quiet, Down

-----------------------------------------------------------------------------
(* The index and the work lists. *)
\* Records above a high-water are none of those up to it.
LEMMA AboveDisjoint ==
    ASSUME TypeOK, NEW S \in SUBSET Record, UpTo(S, highwater),
           NEW T \in SUBSET Record, \A r \in T : r[2] > highwater[r[1]]
    PROVE  S \cap T = {}
<1> SUFFICES ASSUME NEW r \in S, r \in T PROVE FALSE
  OBVIOUS
<1>1. r[1] \in Stream /\ r[2] \in Int /\ highwater[r[1]] \in Int
  BY RecordSequence, Types, SMT DEF Seqno
<1>2. r[2] <= highwater[r[1]] /\ r[2] > highwater[r[1]]
  BY DEF UpTo
<1> QED
  BY <1>1, <1>2, SMT

\* What the manifest releases and removes, by the positions of its frames.
LEMMA AppliedAt ==
    ASSUME NEW c, NEW l
    PROVE  /\ \A r : r \in ReleasedBy(c, l) <=>
                \E k \in Applied(c, l) : l.frames[k].kind = "release" /\ r \in l.frames[k].recs
           /\ \A i : i \in RemovedIds(c, l) <=>
                \E k \in Applied(c, l) : l.frames[k].kind = "removed" /\ l.frames[k].id = i
<1>1. ASSUME NEW r
      PROVE  r \in ReleasedBy(c, l) <=>
                \E k \in Applied(c, l) : l.frames[k].kind = "release" /\ r \in l.frames[k].recs
  BY DEF ReleasedBy, AppliedFrames
<1>2. ASSUME NEW i
      PROVE  i \in RemovedIds(c, l) <=>
                \E k \in Applied(c, l) : l.frames[k].kind = "removed" /\ l.frames[k].id = i
  BY DEF RemovedIds, AppliedFrames
<1> QED
  BY <1>1, <1>2

-----------------------------------------------------------------------------
(* What a step leaves of the files. *)
\* File g continues the synced part of file f.
Continues(f, g) ==
    /\ f.synced \in Nat /\ g.synced \in Nat /\ f.synced <= g.synced
    /\ \A k \in 1 .. f.synced : g.chunks[k] = f.chunks[k]

\* A file that continues another one keeps its synced chunks, so their records.
LEMMA ContinuedRecords ==
    ASSUME NEW f, NEW g, Continues(f, g)
    PROVE  /\ \A k \in 1 .. f.synced : RecordsThrough(g, k) = RecordsThrough(f, k)
           /\ RecordsThrough(f, f.synced) \subseteq RecordsThrough(g, g.synced)
<1>1. ASSUME NEW k \in 1 .. f.synced PROVE RecordsThrough(g, k) = RecordsThrough(f, k)
  <2>1. \A j \in 1 .. k : j \in 1 .. f.synced /\ g.chunks[j] = f.chunks[j]
    BY SMT DEF Continues
  <2> QED
    BY <2>1 DEF RecordsThrough
<1>2. ASSUME NEW r \in RecordsThrough(f, f.synced) PROVE r \in RecordsThrough(g, g.synced)
  <2>1. PICK j \in 1 .. f.synced : r \in f.chunks[j]
    BY <1>2 DEF RecordsThrough
  <2>2. j \in 1 .. g.synced /\ r \in g.chunks[j]
    BY <2>1, SMT DEF Continues
  <2> QED
    BY <2>2 DEF RecordsThrough
<1> QED
  BY <1>1, <1>2

\* Whatever a step does to a file, its synced part stays.
LEMMA FilesContinue ==
    ASSUME TypeOK, JobReady, Settled, Index, [NextPower]_vars,
           NEW i \in dir \cup durDir, i \in dir' \cup durDir'
    PROVE  Continues(file[i], file'[i])
<1>0. /\ i \in SegId /\ file[i] \in File /\ file[i].synced \in Nat /\ Len(file[i].chunks) \in Nat
      /\ file[i].chunks \in Seq(Chunk) /\ file[i].synced <= Len(file[i].chunks)
  BY Types, SMT DEF Settled, File
<1>1. ASSUME file'[i] = file[i] PROVE Continues(file[i], file'[i])
  BY <1>0, <1>1, SMT DEF Continues
<1>2. ASSUME NEW a \in SegId, NEW c \in Chunk, AppendChunk(a, c) PROVE Continues(file[i], file'[i])
  <2>1. CASE i = a
    <3>1. file'[i] = [file[i] EXCEPT !.chunks = Append(file[i].chunks, c)]
      BY <1>2, <2>1, AppendChunkFacts
    <3>2. file'[i].chunks = Append(file[i].chunks, c) /\ file'[i].synced = file[i].synced
      BY <1>0, <3>1 DEF File
    <3> QED
      BY <1>0, <1>2, <3>2, SMT DEF Continues
  <2>2. CASE i # a
    BY <1>0, <1>1, <1>2, <2>2, AppendChunkFacts
  <2> QED
    BY <2>1, <2>2
<1>3. ASSUME NEW a \in SegId, SyncFile(a) PROVE Continues(file[i], file'[i])
  <2>1. CASE i = a
    <3>1. file'[i].chunks = file[i].chunks /\ file'[i].synced = Len(file[i].chunks)
      BY <1>3, <2>1, SyncFileFacts
    <3> QED
      BY <1>0, <3>1 DEF Continues
  <2>2. CASE i # a
    BY <1>0, <1>1, <1>3, <2>2, SyncFileFacts
  <2> QED
    BY <2>1, <2>2
<1>4. CASE AppendWrite
  <2>1. active \in SegId /\ AppendChunk(active, Head(job.todo)) /\ Head(job.todo) \in Chunk
    BY <1>4, TodoTail DEF AppendWrite, JobReady, WritePcs, TypeOK
  <2> QED
    BY <1>2, <2>1
<1>5. CASE SealFooter
  <2>1. active \in SegId /\ AppendChunk(active, Footer) /\ Footer \in Chunk
    BY <1>5 DEF SealFooter, JobReady, SealPcs, TypeOK, Footer, Chunk
  <2> QED
    BY <1>2, <2>1
<1>6. CASE AppendSync \/ SealSync
  <2>1. active \in SegId /\ SyncFile(active)
    BY <1>6 DEF AppendSync, SealSync, JobReady, WritePcs, SealPcs, TypeOK
  <2> QED
    BY <1>3, <2>1
<1>7. CASE CreateRename
  <2>1. /\ file' = [file EXCEPT ![nextId] = [chunks |-> job.todo, synced |-> Len(job.todo)]]
        /\ pc = "create"
    BY <1>7 DEF CreateRename
  <2>2. dir = durDir /\ \A j \in dir : j < nextId
    BY <2>1 DEF Index, Up, OpenPcs, Settled, EntriesSettled
  <2>3. i # nextId
    BY <2>2, Types, SMT
  <2> QED
    BY <1>0, <1>1, <2>1, <2>3, Types
<1>8. CASE CreateSync
  BY <1>1, <1>8 DEF CreateSync
<1>9. CASE PowerLoss
  <2>1. i \in dir'
    BY <1>9, PowerLossFacts
  <2>2. /\ file[i].synced <= file'[i].synced /\ file'[i].synced \in Nat
        /\ \A k \in 1 .. file'[i].synced : file'[i].chunks[k] = file[i].chunks[k]
    BY <1>9, <2>1, PowerLossFiles
  <2> QED
    BY <1>0, <2>2, SMT DEF Continues
<1>10. CASE ~(AppendWrite \/ AppendSync \/ CreateRename \/ CreateSync \/ SealFooter \/ SealSync
              \/ PowerLoss)
  BY <1>1, <1>10, FilesKept
<1> QED
  BY <1>4, <1>5, <1>6, <1>7, <1>8, <1>9, <1>10

\* Only an append puts records into files, those of its group.
LEMMA RecordsStep ==
    ASSUME TypeOK, JobReady, Settled, AppendJob, [NextPower]_vars,
           NEW i \in dir' \cup durDir', NEW r \in RecordsOf(file'[i])
    PROVE  \/ i \in dir \cup durDir /\ r \in RecordsOf(file[i])
           \/ (AppendWrite \/ CreateRename) /\ r \in job.group
<1>1. CASE AppendWrite
  <2>1. /\ active \in SegId /\ AppendChunk(active, Head(job.todo)) /\ UNCHANGED <<dir, durDir>>
        /\ pc = "append_write" /\ job.todo # << >> /\ job' = [job EXCEPT !.todo = Tail(@)]
    BY <1>1 DEF AppendWrite, JobReady, WritePcs, TypeOK
  <2>2. Head(job.todo) \in Chunk /\ Head(job.todo) \subseteq TodoRecords
    BY <2>1, TodoTail, TodoSplit
  <2>3. TodoRecords \subseteq job.group
    BY <2>1 DEF AppendJob, WritePcs
  <2>4. i \in SegId
    BY <2>1, Types
  <2>5. r \in RecordsOf(file[i]) \/ r \in Head(job.todo)
    BY <2>1, <2>2, <2>4, ChunkWritten
  <2> QED
    BY <1>1, <2>1, <2>2, <2>3, <2>5
<1>2. CASE SealFooter
  <2>1. /\ active \in SegId /\ AppendChunk(active, Footer) /\ Footer \in Chunk
        /\ UNCHANGED <<dir, durDir>>
    BY <1>2 DEF SealFooter, JobReady, SealPcs, TypeOK, Footer, Chunk
  <2>2. i \in SegId
    BY <2>1, Types
  <2>3. r \in RecordsOf(file[i])
    BY <2>1, <2>2, ChunkWritten DEF Footer
  <2> QED
    BY <2>1, <2>3
<1>3. CASE AppendSync \/ SealSync
  <2>1. active \in SegId /\ SyncFile(active) /\ UNCHANGED <<dir, durDir>>
    BY <1>3 DEF AppendSync, SealSync, JobReady, WritePcs, SealPcs, TypeOK
  <2>2. i \in SegId
    BY <2>1, Types
  <2> QED
    BY <2>1, <2>2, FileSynced
<1>4. CASE CreateRename
  <2>1. /\ file' = [file EXCEPT ![nextId] = [chunks |-> job.todo, synced |-> Len(job.todo)]]
        /\ nextId \in SegId /\ dir' = dir \cup {nextId} /\ UNCHANGED durDir /\ pc = "create"
    BY <1>4, CreateRenameType DEF CreateRename
  <2>2. CASE i = nextId
    <3>1. file'[i].chunks = job.todo
      BY <2>1, <2>2, Types
    <3>2. r \in TodoRecords
      BY <3>1 DEF RecordsOf, TodoRecords
    <3>3. TodoRecords \subseteq job.group
      BY <2>1 DEF AppendJob, CreatePcs
    <3> QED
      BY <1>4, <3>2, <3>3
  <2>3. CASE i # nextId
    BY <2>1, <2>3, Types
  <2> QED
    BY <2>2, <2>3
<1>5. CASE CreateSync
  BY <1>5 DEF CreateSync, SyncSegments
<1>6. CASE PowerLoss
  BY <1>6, PowerLossFacts
<1>7. CASE ~(AppendWrite \/ AppendSync \/ CreateRename \/ CreateSync \/ SealFooter \/ SealSync
              \/ PowerLoss)
  BY <1>7, FilesKept
<1> QED
  BY <1>1, <1>2, <1>3, <1>4, <1>5, <1>6, <1>7

-----------------------------------------------------------------------------
(* What every step keeps: a job is ready, and the files are settled. *)

\* Every step of the store keeps JobReady.
LEMMA ReadyStep ==
    ASSUME TypeOK, JobReady, [Next]_vars
    PROVE  JobReady'
<1> USE DEF JobReady, SealPcs, WritePcs
<1>1. ASSUME NEW units \in Groups(Unit), NEW first \in [DOMAIN units -> Seqno],
             AppendStart(units, first)
      PROVE  JobReady'
  <2> DEFINE epochs == [k \in DOMAIN units |-> UnitRecords(units[k], first[k])]
  <2>1. epochs # << >>
    <3>1. 1 \in DOMAIN units
      BY SizesAssumption, SMT DEF Groups
    <3> QED
      BY <3>1, SMT
  <2>2. job'.todo = epochs
    BY <1>1 DEF AppendStart, NoJob
  <2>3. pc' \in AppendTargets(Cardinality(UNION {epochs[k] : k \in DOMAIN epochs}))
    BY <1>1 DEF AppendStart
  <2> HIDE DEF epochs
  <2>4. /\ pc' \in {"create", "append_write", "seal_footer"}
        /\ pc' # "create" => active # NoSeg
    BY <2>3 DEF AppendTargets
  <2> QED
    BY <1>1, <2>1, <2>2, <2>4 DEF AppendStart, memVars
<1>2. CASE AppendWrite
  BY <1>2, TodoTail DEF AppendWrite, memVars
<1>3. CASE ReleaseWrite
  BY <1>3, TodoTail DEF ReleaseWrite
<1>4. ASSUME NEW units \in Groups(ReleaseUnits), ReleaseStart(units) PROVE JobReady'
  <2> DEFINE todo == [k \in DOMAIN units |-> Scheduled(units, k)]
  <2>1. todo # << >>
    <3>1. 1 \in DOMAIN units
      BY SizesAssumption, SMT DEF Groups
    <3> QED
      BY <3>1, SMT
  <2>2. job'.todo = todo /\ pc' = "release_write"
    BY <1>4 DEF ReleaseStart, NoJob
  <2> HIDE DEF todo
  <2> QED
    BY <2>1, <2>2
<1>5. ASSUME NEW units \in Groups(ReleaseUnits), ReleaseNothing(units) PROVE JobReady'
  BY <1>5 DEF ReleaseNothing, memVars
<1>6. CASE AppendSync \/ CreateSync \/ SegmentIdExhausted
  BY <1>6 DEF AppendSync, CreateSync, SegmentIdExhausted, Finish
<1>7. CASE CreateRename
  BY <1>7, SMTT(30) DEF CreateRename, Goto, TypeOK
<1>8. CASE SealExpired \/ SealFooter \/ SealSync \/ SealFrame
  BY <1>8 DEF SealExpired, SealFooter, SealSync, SealFrame, Goto, memVars
<1>9. CASE SealPublish
  BY <1>9 DEF SealPublish, AfterSeal, MaybeCompact, StartBatches, Goto, Finish
<1>10. CASE ReleaseSync
  BY <1>10 DEF ReleaseSync, MaybeCompact, Goto, Finish
<1>11. ASSUME NEW kind \in ReclaimKind, ReclaimStart(kind) PROVE JobReady'
  BY <1>11 DEF ReclaimStart, StartBatches, memVars
<1>12. CASE ReclaimNextBatch \/ RemoveWrite \/ RemoveSync \/ Delete \/ DeleteSync
  BY <1>12, Zenon DEF ReclaimNextBatch, RemoveWrite, RemoveSync, Delete, DeleteSync, Goto
<1>13. CASE ReclaimDone
  BY <1>13 DEF ReclaimDone, MaybeCompact, Goto, Finish
<1>14. CASE CheckpointRename \/ CheckpointSync \/ LogRename \/ LogSync
  BY <1>14 DEF CheckpointRename, CheckpointSync, LogRename, LogSync, Goto, Finish
<1>15. CASE Open
  <2>1. pc' \in {"enumerate", "reseal", "reseal_sync", "idle", "failed", "closed"}
    BY <1>15, Zenon DEF Open, OpenControl, OpenDelete, OpenScan, OpenReseal, OpenResealSync, OpenRebuild,
       OpenReject, OpenRetry, Goto
  <2> QED
    BY <2>1
<1>16. CASE Shutdown \/ ProcessCrash \/ PowerLoss
  BY <1>16, Zenon DEF Shutdown, ProcessCrash, PowerLoss
<1>17. CASE UNCHANGED vars
  BY <1>17 DEF vars, memVars
<1> QED
  BY <1>1, <1>2, <1>3, <1>4, <1>5, <1>6, <1>7, <1>8, <1>9, <1>10, <1>11, <1>12, <1>13, <1>14,
     <1>15, <1>16, <1>17, Zenon DEF Next, Serve

\* Every step keeps the synced part of each segment file within the file.
LEMMA FilesWithin ==
    ASSUME TypeOK, JobReady, Settled, [NextPower]_vars
    PROVE  \A i \in SegId : file'[i].synced <= Len(file'[i].chunks)
<1>0. \A i \in SegId : file[i].synced <= Len(file[i].chunks)
  BY DEF Settled
<1>1. CASE AppendWrite
  <2>1. active \in SegId /\ AppendChunk(active, Head(job.todo)) /\ Head(job.todo) \in Chunk
    BY <1>1, TodoTail DEF AppendWrite, JobReady, WritePcs, TypeOK
  <2> QED
    BY <2>1, ChunkWritten
<1>2. CASE AppendSync \/ SealSync
  <2>1. active \in SegId /\ SyncFile(active)
    BY <1>2 DEF AppendSync, SealSync, JobReady, SealPcs, WritePcs, TypeOK
  <2> QED
    BY <2>1, FileSynced
<1>3. CASE SealFooter
  <2>1. active \in SegId /\ AppendChunk(active, Footer) /\ Footer \in Chunk
    BY <1>3 DEF SealFooter, JobReady, SealPcs, TypeOK, Footer, Chunk
  <2> QED
    BY <2>1, ChunkWritten
<1>4. CASE CreateRename
  <2>1. file' = [file EXCEPT ![nextId] = [chunks |-> job.todo, synced |-> Len(job.todo)]]
        /\ nextId \in SegId
    BY <1>4, CreateRenameType
  <2>2. file \in [SegId -> File] /\ Len(job.todo) \in Nat
    BY SMT DEF TypeOK, Job
  <2> QED
    BY <1>0, <2>1, <2>2, SMT
<1>5. CASE PowerLoss
  BY <1>0, <1>5, PowerLossFacts
<1>6. CASE UNCHANGED file
  BY <1>0, <1>6
<1>7. ASSUME NEW units, NEW first, AppendStart(units, first) PROVE UNCHANGED file
  BY <1>7 DEF AppendStart, diskVars
<1>8. ASSUME NEW units, ReleaseStart(units) \/ ReleaseNothing(units) PROVE UNCHANGED file
  BY <1>8 DEF ReleaseStart, ReleaseNothing, diskVars
<1>9. ASSUME NEW kind, ReclaimStart(kind) PROVE UNCHANGED file
  BY <1>9 DEF ReclaimStart, diskVars
<1>10. ASSUME \/ CreateSync \/ SegmentIdExhausted \/ SealExpired \/ SealFrame \/ SealPublish
              \/ ReleaseWrite \/ ReleaseSync \/ ReclaimNextBatch \/ RemoveWrite \/ RemoveSync
              \/ Delete \/ DeleteSync \/ ReclaimDone
              \/ CheckpointRename \/ CheckpointSync \/ LogRename \/ LogSync
       PROVE  UNCHANGED file
  BY <1>10 DEF CreateSync, SegmentIdExhausted, SealExpired, SealFrame, SealPublish, ReleaseWrite,
     ReleaseSync, ReclaimNextBatch, RemoveWrite, RemoveSync, Delete, DeleteSync, ReclaimDone,
     CheckpointRename, CheckpointSync, LogRename, LogSync, diskVars
<1>11. ASSUME Open \/ Shutdown \/ UNCHANGED vars PROVE UNCHANGED file
  BY <1>11 DEF Open, OpenControl, OpenDelete, OpenScan, OpenReseal, OpenResealSync, OpenRebuild,
     OpenReject, OpenRetry, Shutdown, vars, diskVars
<1> QED
  BY <1>1, <1>2, <1>3, <1>4, <1>5, <1>6, <1>7, <1>8, <1>9, <1>10, <1>11 DEF NextPower, Serve

\* Every step keeps the synced part of each manifest log within the log.
LEMMA LogsWithin ==
    ASSUME FiniteLaws, TypeOK, JobReady, Settled, [NextPower]_vars
    PROVE  \A l \in Logs' : l.synced <= Len(l.frames)
<1>0. \A l \in Logs : l.synced <= Len(l.frames)
  BY DEF Settled
<1>1. log'.synced <= Len(log'.frames)
  <2>1. CASE FrameWrite
    BY <1>0, <2>1, FrameWriteIsAppend, LogWritten DEF Logs
  <2>2. CASE LogRename
    BY <2>2, SMT DEF LogRename
  <2>3. CASE PowerLoss
    BY <2>3, PowerLossFacts
  <2>4. CASE UNCHANGED log
    BY <1>0, <2>4 DEF Logs
  <2>5. CASE SyncLog
    BY <2>5, LogSynced
  <2> QED
    BY <2>1, <2>2, <2>3, <2>4, <2>5, FramesKept
<1>2. logOld' \subseteq Logs
  <2>1. ASSUME NEW units, NEW first, AppendStart(units, first) PROVE UNCHANGED logOld
    BY <2>1 DEF AppendStart, diskVars
  <2>2. ASSUME NEW units, ReleaseStart(units) \/ ReleaseNothing(units) PROVE UNCHANGED logOld
    BY <2>2 DEF ReleaseStart, ReleaseNothing, diskVars
  <2>3. ASSUME NEW kind, ReclaimStart(kind) PROVE UNCHANGED logOld
    BY <2>3 DEF ReclaimStart, diskVars
  <2>4. ASSUME \/ AppendWrite \/ AppendSync \/ CreateRename \/ CreateSync \/ SegmentIdExhausted
               \/ SealExpired \/ SealFooter \/ SealSync \/ SealFrame \/ SealPublish
               \/ ReleaseWrite \/ ReleaseSync \/ ReclaimNextBatch \/ RemoveWrite \/ RemoveSync
               \/ Delete \/ DeleteSync \/ ReclaimDone \/ CheckpointRename
        PROVE  UNCHANGED logOld
    <3>1. ASSUME AppendWrite \/ AppendSync \/ CreateRename \/ CreateSync \/ SegmentIdExhausted
          PROVE  UNCHANGED logOld
      BY <3>1, Zenon DEF AppendWrite, AppendSync, CreateRename, CreateSync, SegmentIdExhausted,
         diskVars
    <3>2. ASSUME SealExpired \/ SealFooter \/ SealSync \/ SealFrame \/ SealPublish
          PROVE  UNCHANGED logOld
      BY <3>2, Zenon DEF SealExpired, SealFooter, SealSync, SealFrame, SealPublish, diskVars
    <3>3. ASSUME ReleaseWrite \/ ReleaseSync \/ ReclaimNextBatch \/ RemoveWrite \/ RemoveSync
          PROVE  UNCHANGED logOld
      BY <3>3, Zenon DEF ReleaseWrite, ReleaseSync, ReclaimNextBatch, RemoveWrite, RemoveSync,
         diskVars
    <3>4. ASSUME Delete \/ DeleteSync \/ ReclaimDone \/ CheckpointRename PROVE UNCHANGED logOld
      BY <3>4, Zenon DEF Delete, DeleteSync, ReclaimDone, CheckpointRename, diskVars
    <3> QED
      BY <2>4, <3>1, <3>2, <3>3, <3>4
  <2>5. ASSUME Open \/ Shutdown \/ UNCHANGED vars PROVE UNCHANGED logOld
    BY <2>5 DEF Open, OpenControl, OpenDelete, OpenScan, OpenReseal, OpenResealSync, OpenRebuild,
       OpenReject, OpenRetry, Shutdown, vars, diskVars
  <2>6. ASSUME CheckpointSync \/ LogRename \/ LogSync \/ PowerLoss
        PROVE  logOld' \subseteq logOld \cup {log}
    BY <2>6 DEF CheckpointSync, LogRename, LogSync, SyncRoot, PowerLoss
  <2> QED
    BY <2>1, <2>2, <2>3, <2>4, <2>5, <2>6 DEF NextPower, Serve, Logs
<1> QED
  BY <1>0, <1>1, <1>2 DEF Logs

\* Every step keeps the directories settled outside the steps that change them.
LEMMA EntriesStep ==
    ASSUME TypeOK, JobReady, Settled, [NextPower]_vars
    PROVE  EntriesSettled'
<1> USE DEF EntriesSettled
<1>0. EntriesSettled
  BY DEF Settled
<1>1. ASSUME NEW units, NEW first, AppendStart(units, first) PROVE EntriesSettled'
  <2>1. pc = "idle" /\ pc' \in {"create", "append_write", "seal_footer"}
        /\ UNCHANGED diskVars
    BY <1>1 DEF AppendStart, AppendTargets
  <2> QED
    BY <1>0, <2>1 DEF diskVars
<1>2. ASSUME NEW units, ReleaseStart(units) \/ ReleaseNothing(units) PROVE EntriesSettled'
  BY <1>0, <1>2 DEF ReleaseStart, ReleaseNothing, diskVars
<1>3. ASSUME NEW kind, ReclaimStart(kind) PROVE EntriesSettled'
  <2>1. pc = "idle" /\ pc' \in {"seal_footer", "reclaim_batch"} /\ UNCHANGED diskVars
    BY <1>3 DEF ReclaimStart, StartBatches
  <2> QED
    BY <1>0, <2>1 DEF diskVars
<1>4. CASE AppendWrite \/ AppendSync \/ CreateRename \/ CreateSync \/ SegmentIdExhausted
  BY <1>0, <1>4 DEF AppendWrite, AppendSync, CreateRename, CreateSync, SegmentIdExhausted,
     SyncSegments, Goto, Finish, diskVars
<1>5. CASE SealExpired \/ SealFooter \/ SealSync \/ SealFrame
  BY <1>0, <1>5 DEF SealExpired, SealFooter, SealSync, SealFrame, Goto, diskVars
<1>6. CASE SealPublish
  <2>1. pc' \in {"create", "idle", "chk_rename", "reclaim_batch"}
    BY <1>6 DEF SealPublish, AfterSeal, MaybeCompact, StartBatches, Goto, Finish
  <2> QED
    BY <1>0, <1>6, <2>1 DEF SealPublish
<1>7. CASE ReleaseWrite \/ ReleaseSync
  <2>1. pc \in {"release_write", "release_sync"}
        /\ pc' \in {"release_write", "release_sync", "idle", "chk_rename"}
    BY <1>7 DEF ReleaseWrite, ReleaseSync, MaybeCompact, Goto, Finish
  <2> QED
    BY <1>0, <1>7, <2>1 DEF ReleaseWrite, ReleaseSync
<1>8. CASE ReclaimNextBatch \/ RemoveWrite \/ RemoveSync \/ Delete \/ DeleteSync
  BY <1>0, <1>8 DEF ReclaimNextBatch, RemoveWrite, RemoveSync, Delete, DeleteSync, SyncSegments,
     Goto, diskVars
<1>9. CASE ReclaimDone
  <2>1. pc = "reclaim_batch" /\ pc' \in {"chk_rename", "idle"} /\ UNCHANGED diskVars
    BY <1>9 DEF ReclaimDone, MaybeCompact, Goto, Finish
  <2> QED
    BY <1>0, <2>1 DEF diskVars
<1>10. CASE CheckpointRename \/ CheckpointSync \/ LogRename \/ LogSync
  BY <1>0, <1>10 DEF CheckpointRename, CheckpointSync, LogRename, LogSync, SyncRoot, Goto, Finish
<1>11. CASE OpenControl \/ OpenDelete
  <2>1. CASE OpenControl
    BY <1>0, <2>1 DEF OpenControl, diskVars
  <2>2. CASE OpenDelete
    <3>1. pc = "enumerate" /\ pc' = pc /\ job'.done # {} /\ UNCHANGED <<chkOld, logOld>>
      BY <2>2, ZenonT(30) DEF OpenDelete, TypeOK, Job
    <3> QED
      BY <1>0, <3>1
  <2> QED
    BY <1>11, <2>1, <2>2
<1>12. CASE OpenScan
  BY <1>0, <1>12 DEF OpenScan, EnumerationDone
<1>13. CASE OpenReseal \/ OpenResealSync \/ OpenRebuild \/ OpenRetry
  <2>1. /\ pc \in {"reseal", "reseal_sync", "failed"}
        /\ pc' \in {"reseal", "reseal_sync", "idle", "closed"}
        /\ UNCHANGED <<chkOld, logOld, dir, durDir>>
    BY <1>13 DEF OpenReseal, OpenResealSync, OpenRebuild, OpenRetry, Goto, diskVars
  <2> QED
    BY <1>0, <2>1
<1>14. CASE OpenReject
  <2>1. pc \in {"closed", "enumerate", "reseal"}
    BY <1>14 DEF OpenReject, Rejections, EnumerationDone, SealsPublished
  <2> QED
    BY <1>0, <1>14, <2>1 DEF OpenReject
<1>15. CASE Shutdown
  BY <1>0, <1>15 DEF Shutdown, diskVars
<1>16. CASE PowerLoss
  <2>1. chkOld' = {} /\ logOld' = {} /\ dir' = durDir'
    BY <1>16, PowerLossFacts
  <2> QED
    BY <2>1
<1>17. CASE UNCHANGED vars
  BY <1>0, <1>17 DEF vars, diskVars
<1> QED
  BY <1>1, <1>2, <1>3, <1>4, <1>5, <1>6, <1>7, <1>8, <1>9, <1>10, <1>11, <1>12, <1>13, <1>14,
     <1>15, <1>16, <1>17 DEF NextPower, Serve, Open

\* Every step under power losses keeps Settled.
LEMMA SettledStep ==
    ASSUME FiniteLaws, TypeOK, JobReady, Settled, [NextPower]_vars
    PROVE  Settled'
BY EntriesStep, FilesWithin, LogsWithin DEF Settled

-----------------------------------------------------------------------------
(* The running job *)
\* prepare_append assigns sequences above the stream's high-water.
LEMMA AssignedAbove ==
    ASSUME FiniteLaws, TypeOK, NEW units \in Groups(Unit), NEW first \in [DOMAIN units -> Seqno],
           Assigned(units, first), NEW k \in DOMAIN units
    PROVE  first[k] > highwater[units[k].stream]
<1>1. PICK n \in 1 .. MaxGroup : units \in [1 .. n -> Unit]
  BY DEF Groups
<1>2. n \in Nat /\ DOMAIN units = 1 .. n
  BY <1>1, SizesAssumption, SMT
<1> DEFINE s == units[k].stream
           S == {highwater[s]} \cup {first[j] + units[j].size - 1 :
                    j \in {i \in 1 .. k - 1 : units[i].stream = s}}
<1>3. s \in Stream /\ highwater[s] \in Int /\ highwater[s] <= MaxSeq
  <2>1. s \in Stream
    BY <1>1, <1>2 DEF Unit
  <2>2. highwater[s] \in HighWater
    BY <2>1, Types DEF Highwaters
  <2> QED
    BY <2>1, <2>2, BoundsAssumption, SMT DEF HighWater, Seqno, NoSeq
<1>4. \A j \in 1 .. k - 1 : /\ first[j] + units[j].size - 1 \in Int
                            /\ first[j] + units[j].size - 1 <= MaxSeq + MaxUnit
  <2> TAKE j \in 1 .. k - 1
  <2>1. j \in 1 .. n
    BY <1>2, SMT
  <2>2. first[j] \in Seqno /\ units[j].size \in 1 .. MaxUnit
    BY <1>1, <1>2, <2>1 DEF Unit
  <2> QED
    BY <2>2, BoundsAssumption, SizesAssumption, SMT DEF Seqno
<1>5. S \in SUBSET Int /\ S # {} /\ \A x \in S : x <= MaxSeq + MaxUnit
  <2>1. MaxSeq \in Nat /\ MaxUnit \in Nat
    BY BoundsAssumption, SizesAssumption
  <2> QED
    BY <1>3, <1>4, <2>1, SMTT(30)
<1>6. first[k] = 1 + Max(S)
  BY DEF Assigned
<1>7. highwater[s] \in S
  OBVIOUS
<1>8. Max(S) \in Int /\ highwater[s] <= Max(S)
  <2>1. MaxSeq + MaxUnit \in Int
    BY BoundsAssumption, SizesAssumption, SMT
  <2> HIDE DEF S, s
  <2> QED
    BY <1>5, <1>7, <2>1, MaxMember
<1> HIDE DEF S
<1> QED
  BY <1>3, <1>6, <1>8, SMT

\* Every step under power losses keeps AppendJob: an append group is new until it is
\* indexed, and is in the work list or in the file.
LEMMA AppendJobStep ==
    ASSUME FiniteLaws, TypeOK, JobReady, Settled, Index, AppendJob, [NextPower]_vars
    PROVE  AppendJob'
<1> USE DEF WritePcs, CreatePcs, SealPcs
<1>1. ASSUME job'.op # "append", pc' \notin WritePcs \cup CreatePcs PROVE AppendJob'
  BY <1>1 DEF AppendJob
<1>2. ASSUME NEW units \in Groups(Unit), NEW first \in [DOMAIN units -> Seqno],
             AppendStart(units, first)
      PROVE  AppendJob'
  <2> DEFINE epochs == [k \in DOMAIN units |-> UnitRecords(units[k], first[k])]
             group  == UNION {epochs[k] : k \in DOMAIN epochs}
  <2>1. /\ pc = "idle" /\ Assigned(units, first)
        /\ job' = [NoJob EXCEPT !.op = "append", !.todo = epochs, !.group = group]
        /\ pc' \in {"create", "append_write", "seal_footer"}
        /\ UNCHANGED <<highwater, file, active>>
    BY <1>2 DEF AppendStart, AppendTargets, diskVars, memVars
  <2>2. job'.op = "append" /\ job'.todo = epochs /\ job'.group = group
    BY <2>1 DEF NoJob
  <2>3. TodoRecords' = job'.group
    BY <2>2, SMT DEF TodoRecords
  <2>4. ASSUME NEW r \in job'.group PROVE r[2] > highwater[r[1]]
    <3>1. PICK k \in DOMAIN units : r \in UnitRecords(units[k], first[k])
      BY <2>2
    <3>2. r[1] = units[k].stream /\ r[2] \in first[k] .. first[k] + units[k].size - 1
      BY <3>1 DEF UnitRecords
    <3>3. first[k] > highwater[units[k].stream]
      BY <2>1, AssignedAbove
    <3>4. first[k] \in Int /\ units[k].size \in Int /\ units[k].stream \in Stream
      BY SizesAssumption, BoundsAssumption, SMT DEF Groups, Unit, Seqno
    <3>5. highwater[units[k].stream] \in Int
      BY <3>4, Types
    <3> QED
      BY <3>2, <3>3, <3>4, <3>5, SMTT(30)
  <2> HIDE DEF epochs, group
  <2> QED
    BY <2>1, <2>2, <2>3, <2>4 DEF AppendJob
<1>3. CASE AppendWrite
  <2>1. /\ job' = [job EXCEPT !.todo = Tail(@)] /\ job.todo # << >> /\ active \in SegId
        /\ AppendChunk(active, Head(job.todo)) /\ pc = "append_write"
        /\ pc' = IF Len(job.todo) = 1 THEN "append_sync" ELSE "append_write"
        /\ UNCHANGED <<active, highwater>>
    BY <1>3 DEF AppendWrite, JobReady, TypeOK, memVars
  <2>2. /\ Head(job.todo) \in Chunk /\ job'.op = job.op /\ job'.group = job.group
        /\ Len(job.todo) = 1 => job'.todo = << >>
    BY <2>1, TodoTail
  <2>3. TodoRecords = Head(job.todo) \cup TodoRecords'
    BY <2>1, TodoSplit
  <2>4. RecordsOf(file'[active]) = RecordsOf(file[active]) \cup Head(job.todo)
    BY <2>1, <2>2, ChunkWritten
  <2>5. /\ job.op = "append" /\ TodoRecords \subseteq job.group
        /\ job.group \subseteq RecordsOf(file[active]) \cup TodoRecords
        /\ \A r \in job.group : r[2] > highwater[r[1]]
    BY <2>1 DEF AppendJob
  <2>6. TodoRecords' \subseteq job.group
    BY <2>3, <2>5
  <2>7. job.group \subseteq RecordsOf(file'[active]) \cup TodoRecords'
    BY <2>3, <2>4, <2>5
  <2> QED
    BY <2>1, <2>2, <2>5, <2>6, <2>7 DEF AppendJob
<1>4. CASE CreateRename
  <2>1. /\ file' = [file EXCEPT ![nextId] = [chunks |-> job.todo, synced |-> Len(job.todo)]]
        /\ nextId \in SegId /\ nextId' = nextId + 1 /\ pc = "create" /\ pc' = "create_sync"
        /\ UNCHANGED <<job, live, highwater>>
    BY <1>4, CreateRenameType DEF CreateRename, Goto
  <2>2. nextId' - 1 = nextId /\ nextId \notin live
    <3>1. Up /\ pc # "create_sync"
      BY <2>1 DEF Up, OpenPcs
    <3>2. live \subseteq dir /\ \A i \in dir : i < nextId
      BY <3>1 DEF Index
    <3>3. nextId \in Nat
      BY Types
    <3>4. nextId \notin live
      <4>1. ~(nextId < nextId)
        BY <3>3, SMT
      <4> QED
        BY <3>2, <4>1
    <3>5. nextId' - 1 = nextId
      BY <2>1, <3>3, SMT
    <3> QED
      BY <3>4, <3>5
  <2>3. file'[nextId] = [chunks |-> job.todo, synced |-> Len(job.todo)]
    BY <2>1, Types
  <2>4. RecordsOf(file'[nextId]) = TodoRecords
    BY <2>3, SMT DEF RecordsOf, TodoRecords
  <2>5. TodoRecords = job.group /\ job.op = "append" /\ \A r \in job.group : r[2] > highwater[r[1]]
    BY <2>1 DEF AppendJob
  <2> QED
    BY <2>1, <2>2, <2>3, <2>4, <2>5, SMTT(30) DEF AppendJob
<1>5. CASE SealFooter \/ SealSync \/ SealFrame
  <2>1. UNCHANGED <<job, highwater>> /\ pc \in SealPcs /\ pc' \in SealPcs
    BY <1>5 DEF SealFooter, SealSync, SealFrame, Goto, memVars
  <2> QED
    BY <2>1 DEF AppendJob, TodoRecords
<1>6. CASE SealPublish
  <2>1. CASE job.op = "append" /\ Goto("create")
    <3>1. UNCHANGED <<job, highwater>> /\ pc = "seal_publish" /\ pc' = "create"
      BY <1>6, <2>1 DEF SealPublish, Goto
    <3> QED
      BY <2>1, <3>1 DEF AppendJob, TodoRecords
  <2>2. CASE job.op = "age" /\ MaybeCompact
    BY <1>1, <2>2, SMT DEF MaybeCompact, Finish, Goto, NoJob
  <2>3. CASE job.op \in ReclaimKind /\ StartBatches(job.op)
    <3>1. job'.op # "append" /\ pc' = "reclaim_batch"
      BY <2>3 DEF StartBatches, ReclaimKind, NoJob
    <3> QED
      BY <1>1, <3>1
  <2> QED
    BY <1>6, <2>1, <2>2, <2>3 DEF SealPublish, AfterSeal
<1>7. ASSUME NEW units, ReleaseStart(units) \/ ReleaseNothing(units) PROVE AppendJob'
  <2>1. job'.op # "append" /\ pc' \in {"release_write", "idle"}
    BY <1>7 DEF ReleaseStart, ReleaseNothing, NoJob, AppendJob
  <2> QED
    BY <1>1, <2>1
<1>8. ASSUME NEW kind \in ReclaimKind, ReclaimStart(kind) PROVE AppendJob'
  <2>1. job'.op # "append" /\ pc' \in {"seal_footer", "reclaim_batch"}
    BY <1>8 DEF ReclaimStart, StartBatches, ReclaimKind, NoJob
  <2> QED
    BY <1>1, <2>1
<1>9. CASE SealExpired \/ AppendSync \/ CreateSync \/ SegmentIdExhausted
  <2>1. job'.op # "append" /\ pc' \in {"seal_footer", "idle"}
    BY <1>9, SMT DEF SealExpired, AppendSync, CreateSync, SegmentIdExhausted, Finish, NoJob
  <2> QED
    BY <1>1, <2>1
<1>10. CASE ReleaseWrite \/ ReleaseSync
  <2>1. job.op # "append"
    BY <1>10 DEF AppendJob, ReleaseWrite, ReleaseSync
  <2>2. job'.op # "append" /\ pc' \in {"release_write", "release_sync", "idle", "chk_rename"}
    BY <1>10, <2>1, SMT DEF ReleaseWrite, ReleaseSync, MaybeCompact, Finish, Goto, NoJob, TypeOK, Job
  <2> QED
    BY <1>1, <2>2
<1>11. CASE ReclaimNextBatch \/ RemoveWrite \/ RemoveSync \/ Delete \/ DeleteSync \/ ReclaimDone
  <2>1. job.op # "append"
    BY <1>11 DEF AppendJob, ReclaimNextBatch, RemoveWrite, RemoveSync, Delete, DeleteSync,
       ReclaimDone
  <2>2. job'.op # "append"
    <3>1. job \in Job
      BY Types
    <3>2. CASE ReclaimNextBatch
      BY <2>1, <3>1, <3>2 DEF ReclaimNextBatch, Job
    <3>3. CASE RemoveWrite
      BY <2>1, <3>1, <3>3 DEF RemoveWrite, Job
    <3>4. CASE RemoveSync \/ DeleteSync
      BY <2>1, <3>1, <3>4 DEF RemoveSync, DeleteSync, Goto, Job
    <3>5. CASE Delete
      BY <2>1, <3>1, <3>5 DEF Delete, Job
    <3>6. CASE ReclaimDone
      BY <2>1, <3>6, SMT DEF ReclaimDone, MaybeCompact, Finish, Goto, NoJob
    <3> QED
      BY <1>11, <3>2, <3>3, <3>4, <3>5, <3>6
  <2>3. pc' \notin WritePcs \cup CreatePcs
    BY <1>11 DEF ReclaimNextBatch, RemoveWrite, RemoveSync, Delete, DeleteSync, ReclaimDone,
       MaybeCompact, Finish, Goto
  <2> QED
    BY <1>1, <2>2, <2>3
<1>12. CASE CheckpointRename \/ CheckpointSync \/ LogRename \/ LogSync
  <2>1. job.op # "append"
    BY <1>12 DEF AppendJob, CheckpointRename, CheckpointSync, LogRename, LogSync
  <2>2. job'.op # "append" /\ pc' \notin WritePcs \cup CreatePcs
    BY <1>12, <2>1, SMTT(30) DEF CheckpointRename, CheckpointSync, LogRename, LogSync, Finish, Goto, NoJob
  <2> QED
    BY <1>1, <2>2
<1>13. CASE Open
  <2>1. pc \in OpenPcs
    BY <1>13 DEF Open, OpenControl, OpenDelete, OpenScan, OpenReseal, OpenResealSync, OpenRebuild,
       OpenReject, OpenRetry, Rejections, EnumerationDone, SealsPublished, OpenPcs
  <2>2. job.op # "append"
    BY <2>1 DEF AppendJob, OpenPcs
  <2>3. job'.op # "append"
    <3>1. CASE OpenControl \/ OpenRebuild \/ OpenRetry
      BY <3>1, SMT DEF OpenControl, OpenRebuild, OpenRetry, NoJob
    <3>2. CASE OpenDelete \/ OpenScan \/ OpenReseal \/ OpenResealSync
      BY <2>2, <3>2 DEF OpenDelete, OpenScan, OpenReseal, OpenResealSync, Goto, TypeOK, Job
    <3>3. CASE OpenReject
      BY <3>3 DEF OpenReject, Rejections, NoJob
    <3> QED
      BY <1>13, <3>1, <3>2, <3>3 DEF Open
  <2>4. pc' \notin WritePcs \cup CreatePcs
    BY <1>13, <2>1 DEF Open, OpenControl, OpenDelete, OpenScan, OpenReseal, OpenResealSync,
       OpenRebuild, OpenReject, OpenRetry, Goto, OpenPcs
  <2> QED
    BY <1>1, <2>3, <2>4
<1>14. CASE Shutdown \/ PowerLoss
  <2>1. job' = NoJob /\ pc' = "closed"
    BY <1>14 DEF Shutdown, PowerLoss
  <2> QED
    BY <1>1, <2>1 DEF NoJob
<1>15. CASE UNCHANGED vars
  BY <1>15 DEF vars, diskVars, memVars, AppendJob, TodoRecords
<1> QED
  BY <1>2, <1>3, <1>4, <1>5, <1>6, <1>7, <1>8, <1>9, <1>10, <1>11, <1>12, <1>13, <1>14, <1>15
     DEF NextPower, Serve

\* What a running method knows of its job outlives the steps that keep it.
LEMMA ReleaseJobStep ==
    ASSUME TypeOK, JobReady, AppendJob, ReleaseJob, [NextPower]_vars
    PROVE  ReleaseJob'
<1> DEFINE Rel == {"release_write", "release_sync"}
<1>0. job \in Job
  BY Types
<1>1. ASSUME job'.op # "release", pc' \notin Rel PROVE ReleaseJob'
  BY <1>1 DEF ReleaseJob
<1>2. ASSUME job'.op = job.op, job'.group = job.group, TodoRecords' \subseteq TodoRecords,
             highwater' = highwater, promised' \subseteq promised, pc' \in Rel => pc \in Rel
      PROVE  ReleaseJob'
  BY <1>2 DEF ReleaseJob
<1>3. ASSUME job' = job, highwater' = highwater, promised' \subseteq promised, pc' \notin Rel
      PROVE  ReleaseJob'
  BY <1>2, <1>3 DEF TodoRecords
<1>4. ASSUME NEW units \in Groups(ReleaseUnits), ReleaseStart(units) PROVE ReleaseJob'
  <2> DEFINE group == UNION {units[k] : k \in DOMAIN units}
             todo  == [k \in DOMAIN units |-> Scheduled(units, k)]
  <2>1. /\ job' = [NoJob EXCEPT !.op = "release", !.group = group, !.todo = todo]
        /\ promised' = promised \ group /\ UNCHANGED highwater
    BY <1>4 DEF ReleaseStart, memVars
  <2>2. job'.group = group /\ job'.todo = todo /\ job'.op = "release"
    BY <2>1 DEF NoJob
  <2>3. TodoRecords' \subseteq group
    BY <2>2, SMT DEF TodoRecords, Scheduled
  <2>4. ASSUME NEW r \in group PROVE r[2] <= highwater[r[1]]
    <3>1. PICK k \in DOMAIN units : r \in units[k]
      OBVIOUS
    <3>2. units[k] \in ReleaseUnits
      BY DEF Groups
    <3>3. PICK z \in Stream : r \in KnownIds(z)
      BY <3>1, <3>2 DEF ReleaseUnits
    <3>4. highwater[z] \in Int
      BY Types
    <3> QED
      BY <3>3, <3>4, SMT DEF KnownIds
  <2> HIDE DEF group, todo
  <2> QED
    BY <2>1, <2>2, <2>3, <2>4 DEF ReleaseJob, UpTo
<1>5. CASE ReleaseWrite
  <2>1. /\ job' = [job EXCEPT !.todo = Tail(@)] /\ job.todo # << >>
        /\ UNCHANGED <<highwater, promised>> /\ pc = "release_write"
    BY <1>5 DEF ReleaseWrite, JobReady, histVars
  <2> QED
    BY <1>2, <2>1, TodoTail, TodoSplit
<1>6. CASE ReleaseSync
  <2>1. CASE Finish
    BY <1>1, <2>1 DEF Finish, NoJob
  <2>2. CASE Goto("chk_rename") /\ UNCHANGED histVars
    BY <1>3, <1>6, <2>2 DEF ReleaseSync, Goto, histVars
  <2> QED
    BY <1>6, <2>1, <2>2 DEF ReleaseSync, MaybeCompact
<1>7. ASSUME NEW units, ReleaseNothing(units) PROVE ReleaseJob'
  BY <1>3, <1>7 DEF ReleaseNothing, memVars
<1>8. ASSUME NEW units, NEW first, AppendStart(units, first) PROVE ReleaseJob'
  <2>1. pc' \in {"create", "append_write", "seal_footer"} /\ job'.op = "append"
    BY <1>8 DEF AppendStart, AppendTargets, NoJob
  <2> QED
    BY <1>1, <2>1
<1>9. CASE AppendWrite
  <2>1. pc' \in WritePcs /\ job.op = "append" /\ job' = [job EXCEPT !.todo = Tail(@)]
    BY <1>9 DEF AppendWrite, AppendJob, WritePcs
  <2>2. job'.op = "append"
    BY <1>0, <2>1 DEF Job
  <2> QED
    BY <1>1, <2>1, <2>2 DEF WritePcs
<1>10. CASE AppendSync \/ CreateSync \/ SegmentIdExhausted \/ SealExpired \/ LogSync
  <2>1. pc' \in {"idle", "seal_footer"} /\ job'.op \in {"none", "age"}
    BY <1>10, SMT DEF AppendSync, CreateSync, SegmentIdExhausted, SealExpired, LogSync, Finish, NoJob
  <2> QED
    BY <1>1, <2>1
<1>11. CASE CreateRename \/ SealFooter \/ SealSync \/ SealFrame \/ DeleteSync
            \/ CheckpointRename \/ CheckpointSync \/ LogRename
  BY <1>3, <1>11 DEF CreateRename, SealFooter, SealSync, SealFrame, DeleteSync, CheckpointRename,
     CheckpointSync, LogRename, Goto, memVars, histVars
<1>12. ASSUME NEW kind \in ReclaimKind, ReclaimStart(kind) PROVE ReleaseJob'
  <2>1. pc' \in {"seal_footer", "reclaim_batch"} /\ job'.op = kind
    BY <1>12 DEF ReclaimStart, StartBatches, NoJob
  <2> QED
    BY <1>1, <2>1 DEF ReclaimKind
<1>13. CASE SealPublish
  <2>1. CASE job.op = "append" /\ Goto("create")
    BY <1>1, <2>1 DEF Goto
  <2>2. CASE job.op = "age" /\ MaybeCompact
    BY <1>1, <2>2, SMTT(30) DEF MaybeCompact, Finish, Goto, NoJob
  <2>3. CASE job.op \in ReclaimKind /\ StartBatches(job.op)
    BY <1>1, <2>3 DEF StartBatches, ReclaimKind, NoJob
  <2> QED
    BY <1>13, <2>1, <2>2, <2>3 DEF SealPublish, AfterSeal
<1>14. CASE ReclaimNextBatch \/ RemoveWrite \/ RemoveSync \/ Delete
  <2>1. job'.op = job.op /\ job'.group = job.group /\ job'.todo = job.todo
    <3>1. CASE ReclaimNextBatch
      BY <1>0, <3>1 DEF ReclaimNextBatch, Job
    <3>2. CASE RemoveWrite \/ RemoveSync
      BY <1>0, <3>2 DEF RemoveWrite, RemoveSync, Job
    <3>3. CASE Delete
      BY <1>0, <3>3 DEF Delete, Job
    <3> QED
      BY <1>14, <3>1, <3>2, <3>3
  <2>2. UNCHANGED <<highwater, promised>> /\ pc' \notin Rel
    BY <1>14 DEF ReclaimNextBatch, RemoveWrite, RemoveSync, Delete, memVars, histVars
  <2> QED
    BY <1>2, <2>1, <2>2 DEF TodoRecords
<1>15. CASE ReclaimDone
  <2>1. CASE Finish
    BY <1>1, <2>1 DEF Finish, NoJob
  <2>2. CASE Goto("chk_rename") /\ UNCHANGED histVars
    BY <1>3, <1>15, <2>2 DEF ReclaimDone, Goto, histVars, memVars
  <2> QED
    BY <1>15, <2>1, <2>2 DEF ReclaimDone, MaybeCompact
<1>16. CASE Open
  <2>1. pc' \notin Rel
    BY <1>16 DEF Open, OpenControl, OpenDelete, OpenScan, OpenReseal, OpenResealSync, OpenRebuild,
       OpenReject, OpenRetry, Goto
  <2>2. CASE OpenControl \/ OpenRebuild \/ OpenRetry
    BY <1>1, <2>1, <2>2, SMT DEF OpenControl, OpenRebuild, OpenRetry, NoJob
  <2>3. CASE OpenReject
    BY <1>1, <2>1, <2>3 DEF OpenReject, Rejections, NoJob
  <2>4. CASE OpenDelete \/ OpenScan \/ OpenReseal \/ OpenResealSync
    <3>1. job'.op = job.op /\ job'.group = job.group /\ job'.todo = job.todo
      BY <1>0, <2>4 DEF OpenDelete, OpenScan, OpenReseal, OpenResealSync, Goto, Job
    <3>2. UNCHANGED <<highwater, promised>>
      BY <2>4 DEF OpenDelete, OpenScan, OpenReseal, OpenResealSync, memVars, histVars
    <3> QED
      BY <1>2, <2>1, <3>1, <3>2 DEF TodoRecords
  <2> QED
    BY <1>16, <2>2, <2>3, <2>4 DEF Open
<1>17. CASE Shutdown \/ PowerLoss
  <2>1. job' = NoJob /\ pc' = "closed"
    BY <1>17 DEF Shutdown, PowerLoss
  <2> QED
    BY <1>1, <2>1 DEF NoJob
<1>18. CASE UNCHANGED vars
  BY <1>18 DEF vars, diskVars, memVars, histVars, ReleaseJob, TodoRecords, UpTo
<1> QED
  BY <1>4, <1>5, <1>6, <1>7, <1>8, <1>9, <1>10, <1>11, <1>12, <1>13, <1>14, <1>15, <1>16, <1>17,
     <1>18 DEF NextPower, Serve

\* A segment that reclaim may take holds no record that anyone relies on.
LEMMA EligibleUnpromised ==
    ASSUME TypeOK, Index, Promises, Up, pc \notin WritePcs, NEW i \in Eligible
    PROVE  i \in SegId /\ i < nextId /\ i \in footers /\ RecordsOf(file[i]) \cap promised = {}
<1>1. i \in live /\ i \in footers /\ records[i] \subseteq released /\ i \in SegId
  BY Types DEF Eligible, FullyReleased
<1>2. i < nextId /\ RecordsOf(file[i]) \subseteq records[i]
  BY <1>1 DEF Index
<1>3. released \cap promised = {}
  BY DEF Promises, FlagsSafe
<1> QED
  BY <1>1, <1>2, <1>3

\* A reclaim pass starts with segments that nobody relies on.
LEMMA BatchesStarted ==
    ASSUME TypeOK, Index, Promises, Up, pc \notin WritePcs, NEW kind \in ReclaimKind,
           StartBatches(kind), UNCHANGED <<file, nextId, promised>>,
           active' = NoSeg \/ (active' = active /\ pc = "idle")
    PROVE  ReclaimJob'
<1>1. /\ job'.queue \subseteq Eligible /\ job'.batch = {} /\ job'.left = {}
      /\ pc' = "reclaim_batch"
  BY DEF StartBatches, FirstIds, NoJob
<1>2. ASSUME NEW i \in job'.queue
      PROVE  i < nextId /\ i # active' /\ RecordsOf(file[i]) \cap promised = {}
  <2>1. i \in SegId /\ i < nextId /\ i \in footers /\ RecordsOf(file[i]) \cap promised = {}
    BY <1>1, EligibleUnpromised
  <2>2. i # NoSeg
    BY <2>1, BoundsAssumption, SMT DEF SegId, NoSeg
  <2>3. pc = "idle" /\ active # NoSeg => active \notin footers
    BY DEF Index
  <2> QED
    BY <2>1, <2>2, <2>3
<1> QED
  BY <1>1, <1>2 DEF ReclaimJob

\* Every step under power losses keeps ReclaimJob.
LEMMA ReclaimJobStep ==
    ASSUME TypeOK, JobReady, Index, ReclaimJob, Promises, [NextPower]_vars
    PROVE  ReclaimJob'
<1> USE DEF ReclaimPcs
<1>0. job \in Job
  BY Types
<1>1. ASSUME pc' \notin ReclaimPcs PROVE ReclaimJob'
  BY <1>1 DEF ReclaimJob
<1>2. ASSUME pc \in ReclaimPcs, UNCHANGED <<file, promised, nextId, active>>,
             job'.queue \cup job'.batch \cup job'.left \subseteq job.queue \cup job.batch \cup job.left,
             pc' = "remove_write" => job'.left \subseteq job'.batch
      PROVE  ReclaimJob'
  BY <1>2 DEF ReclaimJob
<1>3. ASSUME NEW kind \in ReclaimKind, ReclaimStart(kind) PROVE ReclaimJob'
  <2>1. pc = "idle" /\ UNCHANGED <<file, nextId, promised, active>>
    BY <1>3 DEF ReclaimStart, diskVars, memVars, histVars
  <2>2. CASE StartBatches(kind)
    BY <2>1, <2>2, BatchesStarted DEF Up, OpenPcs, WritePcs
  <2>3. CASE pc' = "seal_footer"
    BY <1>1, <2>3
  <2> QED
    BY <1>3, <2>2, <2>3 DEF ReclaimStart
<1>4. CASE SealPublish
  <2>1. pc = "seal_publish" /\ UNCHANGED <<file, nextId>> /\ active' = NoSeg
    BY <1>4 DEF SealPublish
  <2>2. CASE job.op \in ReclaimKind /\ StartBatches(job.op) /\ UNCHANGED histVars
    BY <2>1, <2>2, BatchesStarted DEF Up, OpenPcs, WritePcs, histVars
  <2>3. CASE pc' \in {"create", "idle", "chk_rename"}
    BY <1>1, <2>3
  <2> QED
    BY <1>4, <2>2, <2>3 DEF SealPublish, AfterSeal, MaybeCompact, Finish, Goto
<1>5. CASE ReclaimNextBatch
  <2> DEFINE batch == FirstIds(job.queue, ReclaimBatch)
  <2>1. /\ job' = [job EXCEPT !.queue = @ \ batch, !.batch = batch, !.left = batch]
        /\ UNCHANGED <<file, promised, nextId, active>> /\ pc = "reclaim_batch"
    BY <1>5 DEF ReclaimNextBatch, diskVars, memVars, histVars
  <2>2. batch \subseteq job.queue
    BY DEF FirstIds
  <2> HIDE DEF batch
  <2>3. job'.queue = job.queue \ batch /\ job'.batch = batch /\ job'.left = batch
    BY <1>0, <2>1 DEF Job
  <2> QED
    BY <1>2, <2>1, <2>2, <2>3
<1>6. CASE RemoveWrite
  <2>1. PICK i \in job.left : job' = [job EXCEPT !.left = @ \ {i}]
    BY <1>6 DEF RemoveWrite
  <2>2. UNCHANGED <<file, promised, nextId, active>> /\ pc = "remove_write"
    BY <1>6 DEF RemoveWrite, histVars
  <2>3. job'.queue = job.queue /\ job'.batch = job.batch /\ job'.left = job.left \ {i}
    BY <1>0, <2>1 DEF Job
  <2> QED
    BY <1>2, <2>2, <2>3 DEF ReclaimJob
<1>7. CASE RemoveSync
  <2>1. job' = [job EXCEPT !.left = job.batch] /\ pc = "remove_sync" /\ pc' = "delete"
    BY <1>7 DEF RemoveSync
  <2>2. UNCHANGED <<file, promised, nextId, active>>
    BY <1>7 DEF RemoveSync, histVars
  <2>3. job'.queue = job.queue /\ job'.batch = job.batch /\ job'.left = job.batch
    BY <1>0, <2>1 DEF Job
  <2> QED
    BY <1>2, <2>1, <2>2, <2>3
<1>8. CASE Delete
  <2>1. PICK i \in job.left : job' = [job EXCEPT !.left = @ \ {i}, !.done = @ \cup {i}]
    BY <1>8 DEF Delete
  <2>2. /\ UNCHANGED <<file, promised, nextId, active>> /\ pc = "delete"
        /\ pc' \in {"delete", "delete_sync"}
    BY <1>8 DEF Delete, histVars
  <2>3. job'.queue = job.queue /\ job'.batch = job.batch /\ job'.left = job.left \ {i}
    BY <1>0, <2>1 DEF Job
  <2> QED
    BY <1>2, <2>2, <2>3
<1>9. CASE DeleteSync
  BY <1>2, <1>9 DEF DeleteSync, Goto, memVars, histVars
<1>10. ASSUME NEW units, NEW first, AppendStart(units, first) PROVE ReclaimJob'
  BY <1>1, <1>10 DEF AppendStart, AppendTargets
<1>11. ASSUME NEW units, ReleaseStart(units) \/ ReleaseNothing(units) PROVE ReclaimJob'
  BY <1>1, <1>11 DEF ReleaseStart, ReleaseNothing
<1>12. CASE AppendWrite \/ AppendSync \/ CreateRename \/ CreateSync \/ SegmentIdExhausted
            \/ SealExpired \/ SealFooter \/ SealSync \/ SealFrame \/ ReleaseWrite \/ ReleaseSync
  BY <1>1, <1>12 DEF AppendWrite, AppendSync, CreateRename, CreateSync, SegmentIdExhausted,
     SealExpired, SealFooter, SealSync, SealFrame, ReleaseWrite, ReleaseSync, MaybeCompact,
     Finish, Goto
<1>13. CASE ReclaimDone \/ CheckpointRename \/ CheckpointSync \/ LogRename \/ LogSync
  BY <1>1, <1>13 DEF ReclaimDone, CheckpointRename, CheckpointSync, LogRename, LogSync,
     MaybeCompact, Finish, Goto
<1>14. CASE Open
  BY <1>1, <1>14 DEF Open, OpenControl, OpenDelete, OpenScan, OpenReseal, OpenResealSync,
     OpenRebuild, OpenReject, OpenRetry, Goto
<1>15. CASE Shutdown \/ PowerLoss
  <2>1. pc' = "closed"
    BY <1>15 DEF Shutdown, PowerLoss
  <2> QED
    BY <1>1, <2>1
<1>16. CASE UNCHANGED vars
  BY <1>16 DEF vars, diskVars, memVars, histVars, ReclaimJob
<1> QED
  BY <1>3, <1>4, <1>5, <1>6, <1>7, <1>8, <1>9, <1>10, <1>11, <1>12, <1>13, <1>14, <1>15, <1>16
     DEF NextPower, Serve

=============================================================================
