------------------------------ MODULE Capacity ------------------------------
(***************************************************************************)
(* The byte accounting of a bounded root: how large its files are, what    *)
(* append admission projects, what maintenance adds and frees, and what    *)
(* open accepts afterwards.  Storage.tla models what the files hold; here  *)
(* a file is its length, except that a segment keeps its records, because  *)
(* the length of a checkpoint depends on which of them are released.       *)
(*                                                                         *)
(* A job is modelled step by step where a crash between two steps leaves   *)
(* files of another length.  All lengths are those of format.rs.           *)
(***************************************************************************)
EXTENDS ReleaseCodec, Sequences

CONSTANTS
    Stream,
    Queues,             \* append commands a job may find queued: sequences of units
    TotalBytes,         \* Capacity::Bounded { total_bytes }
    SegmentBytes,       \* Config::segment_bytes
    MaxReleaseRecords,  \* Config::max_release_records
    ReclaimBatch,       \* AUTOMATIC_RECLAIM_SEGMENTS_PER_JOB
    CompactionTrigger,  \* MANIFEST_COMPACTION_TRIGGER_BYTES
    MaxAppends          \* bound: append groups in a behaviour

ASSUME CapacityAssumption ==
    /\ {TotalBytes, SegmentBytes, CompactionTrigger} \subseteq Nat
    /\ {MaxReleaseRecords, ReclaimBatch} \subseteq Nat \ {0}
    /\ \A q \in Queues : q # <<>>

VARIABLES
    checkpoint, log,    \* lengths of the control files
    temp,               \* length of the temporary control file, 0 if there is none
    segs,               \* segment files by ID
    removed,            \* segments with a durable removal frame, not deleted yet
    actual,             \* Storage::actual_file_bytes
    active,             \* the active segment, or 0
    highwater,          \* greatest sequence of each stream, 0 when it has none
    persisted,          \* StreamState::persisted_highwater
    expired,            \* the active segment has reached max_segment_age
    pc, next,           \* the step of the running job, and the one after a seal
    units,              \* append units of the job
    todo,               \* segments that the pass still has to remove, in order
    limit,              \* how many segments the pass may remove
    appends,            \* append groups so far
    heavy,              \* history: the weight was above TotalBytes after the last job
    ticked,             \* history: the age limit passed between check and append
    cut                 \* history: a crash kept the last reclamation from compacting

fileVars == <<checkpoint, log, temp, segs, removed>>
streamVars == <<highwater, persisted>>
jobVars == <<next, units, todo, limit>>
history == <<appends, ticked, cut>>
vars == <<checkpoint, log, temp, segs, removed, actual, active, highwater, persisted,
          expired, pc, next, units, todo, limit, appends, heavy, ticked, cut>>

-----------------------------------------------------------------------------
(***************************************************************************)
(* Lengths.                                                                *)
(***************************************************************************)
RootSuperblock == 40
SegmentHeader == 48
SegmentFooter == 48
LogHeader == 40
SealedFrame == 80
CheckpointPrefix == 56 + 24
CheckpointSegment == 72

\* encoded_epoch_bytes: header, one descriptor per record, payloads, commit.
EpochBytes(unit) == 48 + 40 * unit.records + unit.payload + 40

ReleaseFrame(ranges) == 48 + 24 + 16 * ranges

RemovalFrame(highwaters) == 64 + 16 * highwaters

SumOver(op(_), S) == MapThenSumSet(op, S)

Live == DOMAIN segs

Released(id) == {i - 1 : i \in {j \in DOMAIN segs[id].records : segs[id].records[j].released}}

Count(id) == Len(segs[id].records)

StreamsOf(id) == {segs[id].records[i].stream : i \in DOMAIN segs[id].records}

Known == {s \in Stream : highwater[s] # 0}

\* What the files occupy, as calculate_actual_file_bytes_from_disk adds it up.
FileBytes == RootSuperblock + checkpoint + log + SumOver(LAMBDA id : segs[id].bytes, Live)

\* Checkpoint::encode for the present state.
CheckpointBytes ==
    CheckpointPrefix + 16 * Cardinality(Known)
        + SumOver(LAMBDA id : CheckpointSegment + EncodedBytes(Released(id), Count(id)), Live)

-----------------------------------------------------------------------------
(***************************************************************************)
(* Headroom.                                                               *)
(***************************************************************************)
LargestManifestGroup(segmentStreams) ==
    Max({ReleaseFrame(MaxReleaseRecords), SealedFrame,
         ReclaimBatch * RemovalFrame(segmentStreams)})

MaxOrZero(S) == Max(S \cup {0})

\* Mutant: no room for the temporary copy of the checkpoint.
HeadroomWithoutCopy ==
    LargestManifestGroup(MaxOrZero({Cardinality(StreamsOf(id)) : id \in Live}))
        + (IF active # 0 THEN SegmentFooter ELSE 0)

MaintenanceHeadroom ==
    CheckpointPrefix + 16 * Cardinality(Known)
        + SumOver(LAMBDA id : CheckpointSegment + WordBytes * WordCount(Count(id)), Live)
        + LargestManifestGroup(MaxOrZero({Cardinality(StreamsOf(id)) : id \in Live}))
        + (IF active # 0 THEN SegmentFooter ELSE 0)

Weight == actual + MaintenanceHeadroom

ManifestCompactionRequired == log >= CompactionTrigger \/ Weight > TotalBytes

-----------------------------------------------------------------------------
(***************************************************************************)
(* Admission of a group of append units.                                   *)
(***************************************************************************)
Units(group) == DOMAIN group

GroupStreams(group) == {group[i].stream : i \in Units(group)}

GroupRecords(group) == SumOver(LAMBDA i : group[i].records, Units(group))

GroupBytes(group) == SumOver(LAMBDA i : EpochBytes(group[i]), Units(group))

\* The reactor never groups more than an empty segment holds.
ASSUME QueuesFitSegments ==
    \A q \in Queues : GroupBytes(q) <= SegmentBytes - SegmentHeader - SegmentFooter

\* segment_epoch_capacity
SegmentEpochCapacity(id) == MaxOrZero({SegmentBytes - segs[id].bytes - SegmentFooter})

\* The group goes to the active segment; otherwise that one is sealed and a new one made.
ActiveFits(group) ==
    /\ active # 0
    /\ ~expired
    /\ GroupBytes(group) <= SegmentEpochCapacity(active)

\* Mutant: the frame that records the seal is left out of the projection.
ProjectedWithoutFrame(group) ==
    actual + GroupBytes(group)
        + (IF ActiveFits(group) THEN 0 ELSE SegmentHeader)
        + (IF active # 0 /\ ~ActiveFits(group) THEN SegmentFooter ELSE 0)

ProjectedActual(group) ==
    actual + GroupBytes(group)
        + (IF ActiveFits(group) THEN 0 ELSE SegmentHeader)
        + (IF active # 0 /\ ~ActiveFits(group) THEN SegmentFooter + SealedFrame ELSE 0)

ProjectedHeadroom(group) ==
    LET target == IF ActiveFits(group) THEN active ELSE 0
        recordsIn(id) == Count(id) + (IF id = target THEN GroupRecords(group) ELSE 0)
        streamsIn(id) ==
            Cardinality(StreamsOf(id) \cup (IF id = target THEN GroupStreams(group) ELSE {}))
        entry(records) == CheckpointSegment + WordBytes * WordCount(records)
    IN  CheckpointPrefix + 16 * Cardinality(Known \cup GroupStreams(group))
            + SumOver(LAMBDA id : entry(recordsIn(id)), Live)
            + (IF target = 0 THEN entry(GroupRecords(group)) ELSE 0)
            + LargestManifestGroup(
                  Max({streamsIn(id) : id \in Live} \cup
                      {IF target = 0 THEN Cardinality(GroupStreams(group)) ELSE 0}))
            + SegmentFooter

\* Mutant: the least weight also charges the frame of a seal that an empty root does
\* not need.
MinimumTooLarge(group) ==
    LET base == CheckpointPrefix + 16 * Cardinality(Known \cup GroupStreams(group))
    IN  RootSuperblock + base + LogHeader + SegmentHeader + GroupBytes(group)
            + base + CheckpointSegment + WordBytes * WordCount(GroupRecords(group))
            + LargestManifestGroup(Cardinality(GroupStreams(group)))
            + SegmentFooter + SealedFrame

\* minimum_root_weight_after_append: the group alone in a compacted root.
MinimumRootWeight(group) ==
    LET base == CheckpointPrefix + 16 * Cardinality(Known \cup GroupStreams(group))
    IN  RootSuperblock + base + LogHeader + SegmentHeader + GroupBytes(group)
            + base + CheckpointSegment + WordBytes * WordCount(GroupRecords(group))
            + LargestManifestGroup(Cardinality(GroupStreams(group)))
            + SegmentFooter

CheckAppendCapacity(group) ==
    IF ProjectedActual(group) + ProjectedHeadroom(group) <= TotalBytes THEN "admit"
    ELSE IF MinimumRootWeight(group) > TotalBytes THEN "exceeds"
    ELSE "wait"

\* append_prefix_for_active_segment: the units that fit the active segment together, or
\* all of them if none does.
AppendPrefixForActiveSegment(queue) ==
    LET fitting == {k \in Units(queue) : ActiveFits(SubSeq(queue, 1, k))}
    IN  IF fitting = {} THEN Len(queue) ELSE Max(fitting)

Admits(queue, k) == CheckAppendCapacity(SubSeq(queue, 1, k)) = "admit"

\* The loop of select_largest_admissible_prefix, between an admitted length and a
\* rejected one.
Search(queue) ==
    LET length == Len(queue)
        search[admitted \in 1..length, rejected \in 1..length] ==
            LET selected == admitted + (rejected - admitted) \div 2
            IN  IF rejected - admitted <= 1 THEN admitted
                ELSE IF Admits(queue, selected) THEN search[selected, rejected]
                ELSE search[admitted, selected]
    IN  search[1, length]

\* Mutant: the upper half is searched only from the middle up.
SearchFromMiddle(queue) ==
    IF Admits(queue, 1 + (Len(queue) - 1) \div 2) THEN 1 + (Len(queue) - 1) \div 2 ELSE 1

\* select_largest_admissible_prefix; 0 when not even the first unit is admitted.
SelectLargestAdmissiblePrefix(queue) ==
    IF ~Admits(queue, 1) THEN 0
    ELSE IF Admits(queue, Len(queue)) THEN Len(queue)
    ELSE Search(queue)

\* The units a job would take from the queue.
PhysicalPrefix(queue) == SubSeq(queue, 1, AppendPrefixForActiveSegment(queue))

-----------------------------------------------------------------------------
(***************************************************************************)
(* The steps of the jobs.                                                  *)
(***************************************************************************)
Init ==
    /\ checkpoint = CheckpointPrefix
    /\ log = LogHeader
    /\ temp = 0
    /\ segs = << >>
    /\ removed = {}
    /\ actual = RootSuperblock + CheckpointPrefix + LogHeader
    /\ active = 0
    /\ highwater = [s \in Stream |-> 0]
    /\ persisted = [s \in Stream |-> 0]
    /\ expired = FALSE
    /\ pc = "idle"
    /\ next = "idle"
    /\ units = <<>>
    /\ todo = <<>>
    /\ limit = 0
    /\ appends = 0
    /\ heavy = FALSE
    /\ ticked = FALSE
    /\ cut = FALSE

AllReleased(id) == Cardinality(Released(id)) = Count(id)

Eligible == {id \in Live : segs[id].state = "sealed" /\ AllReleased(id)}

HasAutomaticReclaimWork == Eligible # {} \/ (active # 0 /\ AllReleased(active))

\* The active segment reaches its age limit, possibly while a job runs (the other steps
\* do not look at the clock).
Tick ==
    /\ pc \in {"idle", "select", "append"}
    /\ active # 0
    /\ ~expired
    /\ expired' = TRUE
    /\ ticked' = (pc = "append")
    /\ UNCHANGED <<fileVars, actual, active, streamVars, pc, jobVars, appends, cut>>

\* seal_active begins, and goes on to the given step.
Seal(then) == pc' = "footer" /\ next' = then

\* Storage::reclaim begins: an active segment without pending records is sealed first.
StartReclaim(most) ==
    /\ limit' = most
    /\ IF active # 0 /\ AllReleased(active)
       THEN Seal("eligible")
       ELSE pc' = "eligible" /\ UNCHANGED next

\* A job takes queued appends.
OfferAppends ==
    /\ pc = "idle"
    /\ appends < MaxAppends
    /\ appends' = appends + 1
    /\ units' \in Queues
    /\ pc' = "select"
    /\ limit' = 0
    /\ UNCHANGED <<fileVars, actual, active, streamVars, expired, next, todo, ticked, cut>>

\* execute_append_job: one automatic reclamation if the appends have to wait for it.
SelectAppends ==
    LET queue == PhysicalPrefix(units)
        selected == SelectLargestAdmissiblePrefix(queue)
    IN  /\ pc = "select"
        /\ \/ /\ selected # 0
              /\ units' = SubSeq(queue, 1, selected)
              /\ pc' = "append"
              /\ ticked' = FALSE
              /\ limit' = 0
              /\ UNCHANGED next
           \/ /\ selected = 0
              /\ CheckAppendCapacity(<<Head(queue)>>) = "wait"
              /\ HasAutomaticReclaimWork
              /\ limit = 0
              /\ StartReclaim(ReclaimBatch)
              /\ UNCHANGED <<units, ticked>>
           \/ /\ selected = 0
              /\ \/ CheckAppendCapacity(<<Head(queue)>>) # "wait"
                 \/ ~HasAutomaticReclaimWork
                 \/ limit # 0
              /\ pc' = "idle"
              /\ units' = <<>>
              /\ limit' = 0
              /\ UNCHANGED <<next, ticked>>
        /\ UNCHANGED <<fileVars, actual, active, streamVars, expired, todo, appends, cut>>

\* The records of a group, with the sequences that follow the high-waters.
NewRecords(group) ==
    LET before(i, s) == SumOver(LAMBDA j : IF group[j].stream = s THEN group[j].records ELSE 0,
                                1..(i - 1))
        ofUnit(i) == [n \in 1..group[i].records |->
                         [stream |-> group[i].stream, released |-> FALSE,
                          seq |-> highwater[group[i].stream] + before(i, group[i].stream) + n]]
        upTo[i \in 0..Len(group)] == IF i = 0 THEN <<>> ELSE upTo[i - 1] \o ofUnit(i)
    IN  upTo[Len(group)]

\* IDs matter here only for the order of segments.
NextId == MaxOrZero(Live) + 1

\* append_group, after it has sealed an active segment that is full or expired.
AppendGroup ==
    /\ pc = "append"
    /\ UNCHANGED <<checkpoint, log>>
    /\ \/ /\ active # 0
          /\ ~ActiveFits(units)
          /\ Seal("append")
          /\ UNCHANGED <<segs, actual, active, highwater, units, ticked, cut>>
       \/ /\ active = 0 \/ ActiveFits(units)
          /\ LET target == IF active = 0 THEN NextId ELSE active
                 old == IF active = 0
                        THEN [records |-> <<>>, bytes |-> SegmentHeader, state |-> "active"]
                        ELSE segs[active]
                 new == [old EXCEPT !.records = @ \o NewRecords(units),
                                    !.bytes = @ + GroupBytes(units)]
             IN  /\ segs' = [id \in Live \cup {target} |-> IF id = target THEN new ELSE segs[id]]
                 /\ actual' = actual + new.bytes - (IF active = 0 THEN 0 ELSE old.bytes)
                 /\ active' = target
          /\ highwater' = [s \in Stream |-> highwater[s] +
                 SumOver(LAMBDA i : IF units[i].stream = s THEN units[i].records ELSE 0,
                         Units(units))]
          /\ pc' = "idle"
          /\ units' = <<>>
          /\ ticked' = FALSE
          /\ cut' = FALSE
          /\ UNCHANGED next
    /\ UNCHANGED <<temp, removed, persisted, expired, todo, limit, appends>>

\* seal_active: the footer, and then the frame that makes the seal known.
WriteFooter ==
    /\ pc = "footer"
    /\ segs' = [segs EXCEPT ![active].bytes = @ + SegmentFooter, ![active].state = "footed"]
    /\ actual' = actual + SegmentFooter
    /\ pc' = "frame"
    /\ UNCHANGED <<checkpoint, log, temp, removed, active, streamVars, expired, jobVars, history>>

\* Mutant: the frame is not added to the account.
SealedFrameUncounted ==
    /\ pc = "frame"
    /\ log' = log + SealedFrame
    /\ segs' = [segs EXCEPT ![active].state = "sealed"]
    /\ active' = 0
    /\ expired' = FALSE
    /\ pc' = next
    /\ next' = "idle"
    /\ UNCHANGED <<checkpoint, temp, removed, actual, streamVars, units, todo, limit, history>>

WriteSealedFrame ==
    /\ pc = "frame"
    /\ log' = log + SealedFrame
    /\ actual' = actual + SealedFrame
    /\ segs' = [segs EXCEPT ![active].state = "sealed"]
    /\ active' = 0
    /\ expired' = FALSE
    /\ pc' = next
    /\ next' = "idle"
    /\ UNCHANGED <<checkpoint, temp, removed, streamVars, units, todo, limit, history>>

\* seal_expired
SealExpired ==
    /\ pc = "idle"
    /\ active # 0
    /\ expired
    /\ Seal("settle")
    /\ UNCHANGED <<fileVars, actual, active, streamVars, expired, units, todo, limit, history>>

\* release_group: one frame for each stream named; the bytes of a group are bounded by
\* the ids it names (api.rs dispatch), those of a frame depend on the runs they form.
ReleaseGroup(ids) ==
    LET streams == {s \in Stream : \E r \in ids : r.stream = s}
        seqs(s) == {r.seq : r \in {q \in ids : q.stream = s}}
        bytes == SumOver(LAMBDA s : ReleaseFrame(Cardinality(Ranges(seqs(s)))), streams)
        bound == SumOver(LAMBDA s : ReleaseFrame(Cardinality(seqs(s))), streams)
    IN  /\ bound <= ReleaseFrame(MaxReleaseRecords)
        /\ log' = log + bytes
        /\ actual' = actual + bytes
        /\ segs' = [id \in Live |->
               [segs[id] EXCEPT !.records =
                   [i \in DOMAIN @ |-> IF @[i] \in ids THEN [@[i] EXCEPT !.released = TRUE]
                                       ELSE @[i]]]]

Pending == UNION {{segs[id].records[i] : i \in {j \in DOMAIN segs[id].records :
                                                    ~segs[id].records[j].released}} : id \in Live}

Release ==
    /\ pc = "idle"
    /\ \E ids \in SUBSET Pending : ids # {} /\ ReleaseGroup(ids)
    /\ pc' = "settle"
    /\ UNCHANGED <<checkpoint, temp, removed, active, streamVars, expired, jobVars, history>>

Reclaim ==
    /\ pc = "idle"
    /\ \E most \in {ReclaimBatch, Cardinality(Live)} : StartReclaim(most)
    /\ UNCHANGED <<fileVars, actual, active, streamVars, expired, units, todo, history>>

SortedIds(ids) == [i \in 1..Cardinality(ids) |-> CHOOSE id \in ids : Cardinality({j \in ids : j < id}) = i - 1]

ChooseEligible ==
    LET ids == SortedIds(Eligible)
    IN  /\ pc = "eligible"
        /\ todo' = SubSeq(ids, 1, Min({limit, Len(ids)}))
        /\ limit' = IF units = <<>> THEN 0 ELSE limit
        /\ pc' = IF todo' = <<>> THEN "settle" ELSE "remove"
        /\ UNCHANGED <<fileVars, actual, active, streamVars, expired, next, units, history>>

Batch == {todo[i] : i \in 1..Min({ReclaimBatch, Len(todo)})}

\* removal_body: a segment's frame carries the high-waters that no earlier frame does.
Top(id, s) == MaxOrZero({segs[id].records[i].seq : i \in {j \in DOMAIN segs[id].records :
                                                             segs[id].records[j].stream = s}})

NewHighwaters(id) ==
    {s \in StreamsOf(id) :
        /\ Top(id, s) > persisted[s]
        /\ \A earlier \in Batch : earlier < id => Top(id, s) > Top(earlier, s)}

\* reclaim_batch: the frames, and then the deletions.
WriteRemovalFrames ==
    LET bytes == SumOver(LAMBDA id : RemovalFrame(Cardinality(NewHighwaters(id))), Batch)
    IN  /\ pc = "remove"
        /\ log' = log + bytes
        /\ actual' = actual + bytes
        /\ persisted' = [s \in Stream |-> MaxOrZero({persisted[s]} \cup {Top(id, s) : id \in Batch})]
        /\ removed' = Batch
        /\ pc' = "delete"
        /\ UNCHANGED <<checkpoint, temp, segs, active, highwater, expired, jobVars, history>>

\* Mutant: a reclamation that empties the root compacts only when it has to.
SettleAfterDeleting(left) == "settle"

\* reclaim compacts a root it has emptied in any case.
AfterDeleting(left) == IF left = {} THEN "compact" ELSE "settle"

DeleteSegments ==
    /\ pc = "delete"
    /\ segs' = [id \in Live \ removed |-> segs[id]]
    /\ actual' = actual - SumOver(LAMBDA id : segs[id].bytes, removed)
    /\ removed' = {}
    /\ todo' = SubSeq(todo, Cardinality(removed) + 1, Len(todo))
    /\ pc' = IF todo' # <<>> THEN "remove" ELSE AfterDeleting(Live \ removed)
    /\ UNCHANGED <<checkpoint, log, temp, active, streamVars, expired, next, units, limit, history>>

Done == IF units = <<>> THEN "idle" ELSE "select"

\* maybe_compact_manifest
Settle ==
    /\ pc = "settle"
    /\ pc' = IF ManifestCompactionRequired THEN "compact" ELSE Done
    /\ UNCHANGED <<fileVars, actual, active, streamVars, expired, jobVars, history>>

\* compact_manifest and Manifest::compact: each file through its temporary (the account
\* is brought up to date file by file, in the code once at the end).
WriteCheckpoint ==
    /\ pc = "compact"
    /\ temp' = CheckpointBytes
    /\ pc' = "publish"
    /\ UNCHANGED <<checkpoint, log, segs, removed, actual, active, streamVars, expired, jobVars,
                   history>>

PublishCheckpoint ==
    /\ pc = "publish"
    /\ checkpoint' = temp
    /\ actual' = actual - checkpoint + temp
    /\ temp' = LogHeader
    /\ pc' = "restart"
    /\ UNCHANGED <<log, segs, removed, active, streamVars, expired, jobVars, history>>

RestartLog ==
    /\ pc = "restart"
    /\ log' = LogHeader
    /\ temp' = 0
    /\ actual' = actual - log + LogHeader
    /\ persisted' = highwater
    /\ cut' = FALSE
    /\ pc' = Done
    /\ UNCHANGED <<checkpoint, segs, removed, active, highwater, expired, jobVars, appends, ticked>>

-----------------------------------------------------------------------------
(***************************************************************************)
(* The process ends, at any step, and the root is opened again.            *)
(***************************************************************************)

\* Storage::open deletes temporaries and removed segments, gives interrupted seals their
\* frame and counts the bytes again; validate_capacity may then refuse the root.
Reopen ==
    LET kept == Live \ removed
        footed == {id \in kept : segs[id].state = "footed"}
    IN  /\ pc # "refused"
        /\ temp' = 0
        /\ removed' = {}
        /\ segs' = [id \in kept |->
                       IF id \in footed THEN [segs[id] EXCEPT !.state = "sealed"] ELSE segs[id]]
        /\ log' = log + SealedFrame * Cardinality(footed)
        /\ UNCHANGED <<checkpoint, streamVars, appends>>
        /\ actual' = FileBytes'
        /\ active' = MaxOrZero({id \in kept : segs[id].state = "active"})
        /\ expired' = FALSE
        /\ next' = "idle"
        /\ units' = <<>>
        /\ todo' = <<>>
        /\ limit' = 0
        /\ ticked' = FALSE
        /\ cut' = (cut \/ (kept = {} /\ log # LogHeader))
        /\ \/ /\ Weight' > TotalBytes
              /\ pc' = "refused"
           \/ /\ Weight' <= TotalBytes
              /\ pc' = "idle"

Step ==
    \/ Tick \/ OfferAppends \/ SelectAppends \/ AppendGroup
    \/ WriteFooter \/ WriteSealedFrame \/ SealExpired
    \/ Release \/ Reclaim \/ ChooseEligible \/ WriteRemovalFrames \/ DeleteSegments
    \/ Settle \/ WriteCheckpoint \/ PublishCheckpoint \/ RestartLog
    \/ Reopen

Next == Step /\ heavy' = IF pc' = "idle" THEN Weight' > TotalBytes ELSE heavy

Spec == Init /\ [][Next]_vars

-----------------------------------------------------------------------------
(***************************************************************************)
(* Properties.                                                             *)
(***************************************************************************)
\* Storage adds and subtracts lengths as its jobs go; at every step of every job the sum
\* is what calculate_actual_file_bytes_from_disk would count if the root were opened then.
AccountingIsExact == actual = FileBytes

\* A job that starts with weight within total_bytes never has more than total_bytes on
\* disk, the temporary of a compaction and the frames that release and reclaim write
\* without asking for capacity included: the headroom that admission left pays for them.
DiskWithinCapacity == ~heavy => FileBytes + temp <= TotalBytes

\* A group that check_append_capacity admits leaves the weight within total_bytes once
\* append_group has sealed, created and written what it needs, unless the age limit
\* passes between the two, which both read the clock.
AdmissionLeavesHeadroom ==
    [][pc = "append" /\ pc' = "idle" /\ ~ticked => Weight' <= TotalBytes]_vars

\* An append is never told to wait by a root without segments, where nothing is left to
\* release or reclaim: the reclamation that empties a root compacts it, so that the
\* projection is the least weight.  Excepted is a root whose reclamation was cut between
\* the deletions and the compaction.
DrainedRootNeverWaits ==
    pc = "idle" /\ Live = {} /\ ~cut =>
        \A q \in Queues : CheckAppendCapacity(<<q[1]>>) # "wait"

\* An append of a stream that the root knows and that check_append_capacity rejects with
\* ExceedsCapacity would not have been admitted later, whatever is released, reclaimed,
\* compacted or reopened: minimum_root_weight_after_append is the least that the root
\* can come to.
ExceedsIsFinal ==
    [][\A q \in Queues :
          q[1].stream \in Known /\ CheckAppendCapacity(<<q[1]>>) = "exceeds" =>
              CheckAppendCapacity(<<q[1]>>)' = "exceeds"]_vars

\* error.rs: "An append can never fit within the bounded root."  The same of every stream;
\* but the minimum charges a new stream to the present checkpoint, which does not list it.
ExceededNeverFits ==
    [][\A q \in Queues : CheckAppendCapacity(<<q[1]>>) = "exceeds" =>
                             CheckAppendCapacity(<<q[1]>>)' = "exceeds"]_vars

\* The binary search of select_largest_admissible_prefix takes as many queued appends as
\* capacity admits: admission is monotone over the prefixes it searches, those that keep
\* to one segment.
SearchFindsLargestPrefix ==
    pc = "select" =>
        LET queue == PhysicalPrefix(units)
        IN  SelectLargestAdmissiblePrefix(queue)
                = MaxOrZero({k \in Units(queue) : Admits(queue, k)})

\* Whatever is released, a checkpoint written now is accepted by validate_canonical, reads
\* back as the same flags, and takes no more than the bitmap that headroom sets aside.
ReleaseStateSurvives ==
    \A id \in Live :
        LET encoding == FromFlags(Released(id), Count(id))
        IN  /\ IsCanonical(encoding, Count(id))
            /\ ToFlags(encoding, Count(id)) = Released(id)
            /\ EncodedBytes(Released(id), Count(id)) <= WordBytes * WordCount(Count(id))

=============================================================================
