---------------------- MODULE StorageRefinementProofs -----------------------
(***************************************************************************)
(* The theorems about the storage core: its invariants hold, and it        *)
(* implements the buffer of Buffer.tla step by step, so that what the      *)
(* buffer promises its callers holds of the core too.                      *)
(***************************************************************************)
EXTENDS StorageDurability, StorageImages, StorageMarks, FiniteSetTheorems

USE Zenon

\* A nonempty set of naturals has a least member.
LEMMA NaturalsHaveLeast ==
    ASSUME NEW T \in SUBSET Nat, T # {}
    PROVE  \E t \in T : \A u \in T : t <= u
<1>1. IsWellFoundedOn(OpToRel(<, Nat), Nat)
  BY NatLessThanWellFounded
<1>2. PICK t \in T : \A u \in T : ~(<<u, t>> \in OpToRel(<, Nat))
  BY <1>1, WFMin
<1>3. ASSUME NEW u \in T PROVE t <= u
  <2>1. u \in Nat /\ t \in Nat
    OBVIOUS
  <2>2. u < t => <<u, t>> \in OpToRel(<, Nat)
    BY <2>1 DEF OpToRel
  <2>3. ~(u < t)
    BY <1>2, <2>2, Zenon
  <2> QED
    BY <2>1, <2>3, SMT
<1> QED
  BY <1>3

\* Max picks a member of every nonempty set of integers bounded above, so the
\* high-waters and segment IDs that recovery computes with it are real ones.
LEMMA BoundedSetsHaveMax ==
    ASSUME NEW S \in SUBSET Int, S # {}, NEW b \in Int, \A x \in S : x <= b
    PROVE  /\ Max(S) \in S
           /\ \A x \in S : x <= Max(S)
<1> DEFINE T == {b - x : x \in S}
<1>1. T \in SUBSET Nat /\ T # {}
  <2>1. \A x \in S : b - x \in Nat
    BY SMT
  <2>2. PICK y \in S : TRUE
    OBVIOUS
  <2>3. b - y \in T
    BY <2>2
  <2> QED
    BY <2>1, <2>3
<1>2. PICK t \in T : \A u \in T : t <= u
  <2> HIDE DEF T
  <2> QED
    BY <1>1, NaturalsHaveLeast
<1>4. PICK m \in S : t = b - m
  OBVIOUS
<1>5. \A x \in S : x <= m
  <2> TAKE x \in S
  <2>1. t <= b - x
    BY <1>2
  <2> QED
    BY <1>4, <2>1, SMT
<1> QED
  BY <1>5 DEF Max

\* Every set of records is finite: the counts of a checkpoint are numbers.
LEMMA RecordSetsAreFinite ==
    ASSUME NEW S \in SUBSET Record
    PROVE  IsFiniteSet(S) /\ Cardinality(S) \in Nat
<1>1. IsFiniteSet(Seqno)
  BY FS_Interval, BoundsAssumption, SMT DEF Seqno
<1>2. IsFiniteSet(Record)
  BY <1>1, StreamAssumption, FS_Product DEF Record
<1>3. IsFiniteSet(S)
  BY <1>2, FS_Subset
<1> QED
  BY <1>3, FS_CardinalityType

\* A part of a set of records is no larger than the set.
LEMMA RecordSubsetsSmaller ==
    ASSUME NEW S \in SUBSET Record, NEW T \in SUBSET S
    PROVE  Cardinality(T) <= Cardinality(S)
BY RecordSetsAreFinite, FS_Subset

\* The facts about finite sets and naturals that the lemmas take as a hypothesis hold.
LEMMA FiniteLawsHold == FiniteLaws
<1>1. \A S \in SUBSET Int :
        S # {} /\ (\E b \in Int : \A x \in S : x <= b)
          => Max(S) \in S /\ \A x \in S : x <= Max(S)
  BY BoundedSetsHaveMax
<1>2. \A T \in SUBSET Nat : T # {} => \E t \in T : \A u \in T : t <= u
  BY NaturalsHaveLeast
<1>3. \A S \in SUBSET Record :
        Cardinality(S) \in Nat /\ \A T \in SUBSET S : Cardinality(T) <= Cardinality(S)
  BY RecordSetsAreFinite, RecordSubsetsSmaller
<1> QED
  BY <1>1, <1>2, <1>3 DEF FiniteLaws

\* Whatever fails and whenever, every variable of the store keeps its type: in
\* particular append_group never passes the greatest sequence and
\* allocate_segment_id never hands out the reserved segment ID.
THEOREM TypeCorrect == Spec => []TypeOK
<1>1. Init => TypeOK /\ JobReady
  BY InitType DEF Init, JobReady, SealPcs, WritePcs
<1>2. TypeOK /\ JobReady /\ [Next]_vars => (TypeOK /\ JobReady)'
  BY FiniteLawsHold, TypeStep, ReadyStep
<1> QED
  BY <1>1, <1>2, PTL DEF Spec

\* For every number of streams, sequences, segments, batch and group sizes and
\* power losses: the invariant holds in every state a power-failing root takes.
THEOREM DurabilityInvariant == PowerSpec => []DurabilityInv
<1>1. Init => DurabilityInv
  BY InitDurability
<1>2. DurabilityInv /\ [NextPower]_vars => DurabilityInv'
  BY FiniteLawsHold, DurabilityStep
<1> QED
  BY <1>1, <1>2, PTL DEF PowerSpec

\* A record whose append append_group reported stays in the synced part of a
\* segment file with a durable directory entry until its release is requested,
\* whatever reclaim, compaction, recovery and power losses do meanwhile.
THEOREM ReportedAppendsDurable == PowerSpec => []AckedAppendDurable
<1>1. DurabilityInv => AckedAppendDurable
  BY DEF DurabilityInv, Promises
<1> QED
  BY <1>1, DurabilityInvariant, PTL

\* Whenever the root is open between two jobs, every record whose append append_group
\* reported and whose release nobody requested is pending: its durable copy is in a live
\* file, whose records rebuild_indexes or append_group indexed without a release flag.
THEOREM ReportedAppendsPending == PowerSpec => []PromisedPending
<1>1. DurabilityInv => PromisedPending
  <2> SUFFICES ASSUME DurabilityInv, pc = "idle", NEW r \in promised
               PROVE  r \in Pending
    BY DEF PromisedPending
  <2>1. PICK i \in dir \cap durDir : r \in RecordsThrough(file[i], file[i].synced)
    BY DEF DurabilityInv, Promises, AckedAppendDurable, DurablyStored
  <2>2. i \in SegId /\ file[i].synced <= Len(file[i].chunks) /\ file[i] \in File
    BY <2>1 DEF DurabilityInv, TypeOK, Settled
  <2>3. r \in RecordsOf(file[i])
    BY <2>1, <2>2, SMT DEF RecordsThrough, RecordsOf, File
  <2>4. dir = live /\ RecordsOf(file[i]) \subseteq records[i]
    BY <2>1 DEF DurabilityInv, Index, Up, OpenPcs, WritePcs
  <2>5. r \notin released
    BY DEF DurabilityInv, Promises, FlagsSafe, Up, OpenPcs
  <2> QED
    BY <2>1, <2>3, <2>4, <2>5 DEF Pending, Stored
<1> QED
  BY <1>1, DurabilityInvariant, PTL

\* A new root satisfies the invariant.
LEMMA InitRefinement == Init => RefinementInv
<1> SUFFICES ASSUME Init PROVE RefinementInv
  OBVIOUS
<1>1. DurabilityInv
  BY InitDurability
<1>2. ~Up /\ dir = {} /\ durDir = {} /\ gone = {} /\ pc = "closed" /\ job = NoJob
  BY DEF Init, InitMemory, Up, OpenPcs
<1>3. log.frames = << >> /\ log.synced = 0 /\ logOld = {}
  BY DEF Init
<1>4. FilesFlushed /\ CheckpointReleasesApply
  BY <1>2 DEF FilesFlushed, CheckpointReleasesApply
<1>5. LogFlushed /\ ControlExact
  BY <1>2, <1>3 DEF LogFlushed, ControlExact
<1>6. IndexExact /\ FlagsRecoverable /\ FlagsComplete /\ PersistedRecoverable
  BY <1>2 DEF IndexExact, FlagsRecoverable, FlagsComplete, PersistedRecoverable
<1>7. GroupJob /\ RemovalJob
  BY <1>2 DEF GroupJob, RemovalJob, NoJob, ReclaimPcs
<1>8. RemovalsCovered
  BY <1>2 DEF RemovalsCovered
<1>9. MarksRecoverable
  BY <1>2 DEF MarksRecoverable
<1> QED
  BY <1>1, <1>4, <1>5, <1>6, <1>7, <1>8, <1>9 DEF RefinementInv

\* Every step, a power loss included, keeps it: one lemma per conjunct, in StorageDurability,
\* StorageImages and StorageMarks.
LEMMA RefinementStep == FiniteLaws /\ RefinementInv /\ [NextPower]_vars => RefinementInv'
<1> SUFFICES ASSUME FiniteLaws, RefinementInv, [NextPower]_vars PROVE RefinementInv'
  OBVIOUS
<1>1. /\ TypeOK /\ JobReady /\ Settled /\ Control /\ Index /\ AppendJob /\ ReleaseJob
      /\ ReclaimJob /\ CheckpointsSafe /\ AckedAppendDurable
  BY DEF RefinementInv, DurabilityInv, JobInv, Promises
<1>2. /\ FilesFlushed /\ LogFlushed /\ ControlExact /\ IndexExact /\ GroupJob /\ RemovalJob
      /\ CheckpointReleasesApply /\ FlagsRecoverable /\ FlagsComplete
      /\ RemovalsCovered /\ PersistedRecoverable /\ MarksRecoverable
  BY DEF RefinementInv
<1>3. DurabilityInv'
  BY DurabilityStep DEF RefinementInv
<1>4. FilesFlushed' /\ LogFlushed' /\ ControlExact'
  BY <1>1, <1>2, FilesFlushedStep, LogFlushedStep, ControlExactStep
<1>5. IndexExact' /\ GroupJob' /\ RemovalJob'
  BY <1>1, <1>2, IndexExactStep, GroupJobStep, RemovalJobStep
<1>8. TypeOK'
  BY <1>3 DEF DurabilityInv
<1>6. CheckpointReleasesApply' /\ FlagsRecoverable' /\ FlagsComplete'
  BY <1>1, <1>2, <1>8, CheckpointReleasesApplyStep, FlagsRecoverableStep, FlagsCompleteStep
<1>7. RemovalsCovered' /\ PersistedRecoverable' /\ MarksRecoverable'
  BY <1>1, <1>2, RemovalsCoveredStep, PersistedRecoverableStep, MarksRecoverableStep
<1> QED
  BY <1>3, <1>4, <1>5, <1>6, <1>7 DEF RefinementInv

\* At every point of append_group, release_group, reclaim, compact_manifest and Storage::open,
\* the files that any power loss may leave give back every record that was reported, release
\* every record whose release was reported, and carry high-waters no smaller than memory's.
THEOREM RefinementInvariant == PowerSpec => []RefinementInv
<1>1. Init => RefinementInv
  BY InitRefinement
<1>2. RefinementInv /\ [NextPower]_vars => RefinementInv'
  BY FiniteLawsHold, RefinementStep
<1> QED
  BY <1>1, <1>2, PTL DEF PowerSpec

\* A new root is the empty buffer.
LEMMA InitIsInit == Init => B!Init
<1> SUFFICES ASSUME Init PROVE B!Init
  OBVIOUS
<1>1. ~Up /\ dir = {} /\ job.op = "none" /\ promised = {} /\ gone = {}
  BY DEF Init, InitMemory, Up, OpenPcs, NoJob
<1>2. RecoverablePending = {}
  BY <1>1 DEF RecoverablePending
<1>3. Up = FALSE
  BY <1>1 DEF Up
<1> QED
  BY <1>1, <1>2, <1>3 DEF B!Init, Contents, Appending

\* One step of the storage core, a power loss included, is one step of the buffer or none.
LEMMA StepIsStep ==
    ASSUME RefinementInv, RefinementInv', [NextPower]_vars
    PROVE  [B!Next]_(B!vars)
<1>1. ASSUME NEW units \in Groups(Unit), NEW first \in [DOMAIN units -> Seqno],
             AppendStart(units, first)
      PROVE  B!Next
  BY <1>1, AppendStartIsSubmit DEF B!Next
<1>2. CASE AppendSync \/ CreateSync
  BY <1>2, AppendSyncIsAppend DEF B!Next
<1>3. CASE SegmentIdExhausted
  BY <1>3, ExhaustedIsRefuse DEF B!Next
<1>4. CASE \/ \E units \in Groups(ReleaseUnits) : ReleaseStart(units) \/ ReleaseNothing(units)
           \/ ReleaseSync \/ LogSync
  BY <1>4, ReleaseIsRelease DEF B!Next
<1>5. CASE \/ AppendWrite \/ CreateRename \/ SealFooter \/ SealSync \/ SealFrame \/ ReleaseWrite
           \/ RemoveWrite \/ RemoveSync \/ DeleteSync \/ CheckpointRename \/ CheckpointSync
           \/ LogRename \/ ReclaimNextBatch
  BY <1>5, WritingStutters
<1>6. CASE \/ SealExpired \/ SealPublish \/ ReclaimDone
           \/ \E kind \in ReclaimKind : ReclaimStart(kind)
  BY <1>6, BackgroundStutters
<1>7. CASE Delete
  BY <1>7, DeleteStutters
<1>8. CASE \/ OpenControl \/ OpenDelete \/ OpenScan \/ OpenReseal \/ OpenResealSync
           \/ OpenReject \/ OpenRetry
  BY <1>8, OpeningStutters
<1>9. CASE OpenRebuild
  BY <1>9, RebuildIsOpen DEF B!Next
<1>10. CASE Shutdown
  BY <1>10, ShutdownIsClose DEF B!Next
<1>11. CASE PowerLoss
  BY <1>11, PowerLossIsCrash DEF B!Next
<1>12. CASE UNCHANGED vars
  <2>1. UNCHANGED <<chk, log, dir, file, records, live, released, pc, job, promised, gone>>
    BY <1>12 DEF vars, diskVars, memVars, histVars
  <2>2. Up' = Up /\ Appending' = Appending /\ Pending' = Pending
    BY <2>1 DEF Up, Appending, Pending, Stored
  <2>3. RecoverablePending' = RecoverablePending
    BY <2>1, SMT DEF RecoverablePending
  <2> QED
    BY <2>1, <2>2, <2>3 DEF B!vars, Contents
<1>13. CASE Serve
  BY <1>1, <1>2, <1>3, <1>4, <1>5, <1>6, <1>7, <1>13 DEF Serve
<1>14. CASE Open
  BY <1>8, <1>9, <1>14 DEF Open
<1> QED
  BY <1>10, <1>11, <1>12, <1>13, <1>14 DEF NextPower

\* The storage core, whatever power losses strike it, implements the buffer its callers
\* see: append_group, release_group, reclaim, maintenance, compact_manifest, Storage::open
\* and shutdown, step by step.
THEOREM StorageRefinesBuffer == PowerSpec => RefinesBuffer
<1>1. Init => B!Init
  BY InitIsInit
<1>2. RefinementInv /\ RefinementInv' /\ [NextPower]_vars => [B!Next]_(B!vars)
  BY StepIsStep
<1>3. PowerSpec => []RefinementInv
  BY RefinementInvariant
<1> QED
  BY <1>1, <1>2, <1>3, PTL DEF PowerSpec, RefinesBuffer, B!Spec

-----------------------------------------------------------------------------
(* What the buffer promises its callers, and the storage core with it. *)

\* The buffer's steps keep its types.
LEMMA BufferTypeStep == B!TypeOK /\ [B!Next]_(B!vars) => B!TypeOK'
<1> SUFFICES ASSUME B!TypeOK, [B!Next]_(B!vars) PROVE B!TypeOK'
  OBVIOUS
<1> USE DEF B!TypeOK
<1>1. CASE B!Open \/ B!Close
  BY <1>1 DEF B!Open, B!Close
<1>2. CASE B!Append \/ B!Refuse
  BY <1>2 DEF B!Append, B!Refuse
<1>3. CASE B!Crash
  BY <1>3 DEF B!Crash
<1>4. ASSUME NEW R \in SUBSET B!Record, B!Submit(R) PROVE B!TypeOK'
  BY <1>4 DEF B!Submit
<1>5. ASSUME NEW R \in SUBSET B!Record, B!Release(R) PROVE B!TypeOK'
  BY <1>5 DEF B!Release
<1>6. CASE UNCHANGED B!vars
  BY <1>6 DEF B!vars
<1> QED
  BY <1>1, <1>2, <1>3, <1>4, <1>5, <1>6 DEF B!Next

\* The buffer's steps keep what it promises.
LEMMA BufferHandoffStep ==
    ASSUME B!TypeOK, B!Handoff, [B!Next]_(B!vars)
    PROVE  B!Handoff'
<1> USE DEF B!Handoff
<1>1. CASE B!Open \/ B!Close
  BY <1>1 DEF B!Open, B!Close
<1>2. CASE B!Append
  BY <1>2 DEF B!Append
<1>3. CASE B!Refuse
  BY <1>3 DEF B!Refuse
<1>4. CASE B!Crash
  BY <1>4 DEF B!Crash
<1>5. ASSUME NEW R \in SUBSET B!Record, B!Submit(R) PROVE B!Handoff'
  \* A sequence is not less than itself, so the new identities are new.
  <2>1. \A r \in R : r \notin Contents \cup promised \cup gone
    <3> SUFFICES ASSUME NEW r \in R, r \in Contents \cup promised \cup gone PROVE FALSE
      OBVIOUS
    <3>1. r[2] < r[2]
      BY <1>5 DEF B!Submit
    <3>2. r[2] \in Seqno
      BY SMT DEF B!Record
    <3> QED
      BY <3>1, <3>2, BoundsAssumption, SMT DEF Seqno
  <2> QED
    BY <1>5, <2>1 DEF B!Submit
<1>6. ASSUME NEW R \in SUBSET B!Record, B!Release(R) PROVE B!Handoff'
  BY <1>6 DEF B!Release
<1>7. CASE UNCHANGED B!vars
  BY <1>7 DEF B!vars
<1> QED
  BY <1>1, <1>2, <1>3, <1>4, <1>5, <1>6, <1>7 DEF B!Next

\* Whatever is appended, released, closed and crashed, in any order: what append reported
\* and nobody asked to release is pending, what release reported is not, and the append
\* being served reuses no identity.  Together with StorageRefinesBuffer this is what the
\* storage core promises to callers of append, read and release.
THEOREM HandoffHolds == B!Spec => []B!Handoff
<1>1. B!Init => B!TypeOK /\ B!Handoff
  BY DEF B!Init, B!TypeOK, B!Handoff
<1>2. B!TypeOK /\ B!Handoff /\ [B!Next]_(B!vars) => (B!TypeOK /\ B!Handoff)'
  BY BufferTypeStep, BufferHandoffStep
<1> QED
  BY <1>1, <1>2, PTL DEF B!Spec

\* The storage core keeps what the buffer promises.
LEMMA HandoffCarried == PowerSpec => []B!Handoff
BY StorageRefinesBuffer, HandoffHolds, PTL DEF RefinesBuffer

\* A record whose release was reported is never pending again while the root is open,
\* whichever of its frame, its checkpoint bit and its removed segment power losses left.
THEOREM ReleasedStayReleased == PowerSpec => []ReleasedNeverReturns
<1>1. B!Handoff => ReleasedNeverReturns
  BY DEF B!Handoff, ReleasedNeverReturns, Contents, Up, OpenPcs
<1> QED
  BY <1>1, HandoffCarried, PTL

\* append_group gives out no identity that it, or a release, was ever reported for.
THEOREM IdentitiesAreNew == PowerSpec => []IdentityNeverReused
<1>1. B!Handoff => IdentityNeverReused
  BY DEF B!Handoff, IdentityNeverReused, Appending
<1> QED
  BY <1>1, HandoffCarried, PTL

=============================================================================
