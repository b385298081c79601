------------------------------- MODULE Reactor -------------------------------
(***************************************************************************)
(* The root reactor and the client operations around it (src/api.rs and   *)
(* src/runtime.rs).  Callers append, read, release and reclaim through a  *)
(* bounded command queue; one reactor task drains it, forms commit groups *)
(* and runs one blocking storage job at a time; shutdown callers close    *)
(* admission and wait for the reactor; a job may fail, lose its Storage,  *)
(* or outlive a reactor task that the runtime dropped.                    *)
(*                                                                         *)
(* Every step between two accesses of state that another thread changes   *)
(* is an action.  A state change and the notify that follows it are one   *)
(* action: a waiter that looks between the two already sees the change.   *)
(* Storage is what the reactor sees of it: the sequences assigned per     *)
(* stream, the pending records, and the space they take.                  *)
(***************************************************************************)
EXTENDS Integers, Sequences, FiniteSets, FiniteSetsExt

CONSTANTS Callers,         \* clients of append, read, release and reclaim
          Stoppers,        \* callers of shutdown
          Stream,          \* logical streams
          Recovered,       \* pending records at open: at most one per stream, its first
          Calls,           \* the operations callers may start; the sizes of appends are
                           \* within max_epoch_bytes and in units of capacity
          Capacity,        \* total capacity in units
          QueueCapacity,   \* command_queue_capacity
          MaxUnits,        \* max_commit_units
          MaxGroupSize,    \* bound on the bytes of a group, in the same units
          SeqLimit,        \* number of sequences a stream has (2^64 in the code)
          BlockWhenFull,   \* FullPolicy::Block rather than RejectNew
          MaxEvents        \* calls, cancellations, timer firings and faults (failing and
                           \* lost jobs, dropped reactors) in one behaviour

\* The units that records take.
SumSizes(records) == MapThenSumSet(LAMBDA r : r[3], records)

\* Recovered records fit: validate_capacity rejects the root otherwise.
ASSUME ReactorAssumption ==
    /\ Callers \cap Stoppers = {}
    /\ Calls \subseteq [caller : Callers, kind : {"append", "read", "release", "reclaim"},
                       stream : Stream, id : 0..SeqLimit, size : Nat]
    /\ IsFiniteSet(Recovered) /\ SumSizes(Recovered) <= Capacity
    /\ \A r \in Recovered : r[1] \in Stream /\ r[2] = 1 /\ r[3] \in Nat
    /\ \A call \in Calls : call.kind \in {"append", "release"} => call.size > 0
    /\ Capacity \in Nat
    /\ QueueCapacity \in Nat \ {0} /\ MaxUnits \in Nat \ {0}
    /\ MaxGroupSize \in Nat /\ SeqLimit \in Nat \ {0}
    /\ MaxEvents \in Nat

VARIABLES
    lifecycle,        \* "running", "shutting_down", "closed" or "poisoned"
    shutdownStarted,  \* the AtomicBool shutdown_started
    shutdownSent,     \* the value in the shutdown watch channel
    reactorFinished,  \* the AtomicBool reactor_finished
    failed,           \* some error has poisoned the root
    activeJobs,       \* the AtomicUsize active_storage_jobs
    guards,           \* job closures that delivered and still hold their guard
    unseen,           \* processes whose events receiver has an unseen version
    queue,            \* the command channel
    receiver,         \* its receiver: "open", "closed" or "dropped"
    backlog,          \* commands the reactor put back
    rpc,              \* the reactor's next step
    closing,          \* the reactor's flag of the same name
    group,            \* commands in the reactor's hands
    jobKind,          \* kind of the blocking job in progress, or "none"
    result,           \* outcome of the last job
    holder,           \* who owns Storage (and the root lock): reactor, job, none
    assigned,         \* per stream: tickets of the appends, in sequence order (0: recovered)
    pending,          \* pending records <<stream, sequence, size>>
    dead,             \* units of released records not reclaimed yet
    work,             \* has_automatic_reclaim_work
    view,             \* the published View
    pc, op,           \* per process: next step, and a caller's operation
    reply,            \* per caller: its response channel
    tickets,          \* commands sent so far
    returned,         \* record identities <<stream, sequence>> handed to callers
    events            \* external events so far

clientVars == <<pc, op, reply>>
storageVars == <<assigned, pending, dead, work>>
lifeVars == <<lifecycle, shutdownStarted, shutdownSent, reactorFinished, failed>>
guardVars == <<activeJobs, guards>>
queueVars == <<queue, receiver, tickets>>
loopVars == <<backlog, rpc, closing, group, jobKind, result, holder>>
vars == <<clientVars, storageVars, lifeVars, guardVars, queueVars, loopVars, events,
          unseen, view, returned>>

Procs == Callers \cup Stoppers

InStream(s) == {r \in pending : r[1] = s}
Highwater(s) == Len(assigned[s])
Used == SumSizes(pending) + dead

\* StorageStats and PublishedStream, as far as a waiter can tell them apart.
StorageStats == [live |-> SumSizes(pending), dead |-> dead, work |-> work]
Published(s) == [highwater |-> Highwater(s), pending |-> Cardinality(InStream(s))]
ViewFromStorage == [stats |-> StorageStats, streams |-> [s \in Stream |-> Published(s)]]

NoOp == [kind |-> "none"]
NoResult == [tag |-> "none", selected |-> 0, snapshot |-> {}]

\* The answer to every command of the group when the job never ran or was lost.
LostJob(cmds) == [tag |-> "fatal", selected |-> Len(cmds), snapshot |-> {}]

Init ==
    /\ lifecycle = "running" /\ shutdownStarted = FALSE /\ shutdownSent = FALSE
    /\ reactorFinished = FALSE /\ failed = FALSE
    /\ activeJobs = 0 /\ guards = 0 /\ unseen = {}
    /\ queue = << >> /\ receiver = "open" /\ tickets = 0
    /\ backlog = << >> /\ rpc = "top" /\ closing = FALSE /\ group = << >>
    /\ jobKind = "none" /\ result = NoResult /\ holder = "reactor"
    /\ assigned = [s \in Stream |-> IF \E r \in Recovered : r[1] = s THEN <<0>> ELSE << >>]
    /\ pending = Recovered /\ dead = 0 /\ work = FALSE
    /\ view = ViewFromStorage
    /\ pc = [p \in Procs |-> "idle"] /\ op = [c \in Callers |-> NoOp]
    /\ reply = [c \in Callers |-> "none"]
    /\ returned = {} /\ events = 0

-----------------------------------------------------------------------------
(* Lifecycle and notification helpers. *)

\* Processes that hold an events receiver.
Subscribed == {c \in Callers : op[c].kind \in {"append", "read"}}
                \cup {p \in Stoppers : pc[p] \notin {"idle", "done", "gone"}}

notify == unseen' = Subscribed

\* Mutant: waiters are not told.
PoisonSilent ==
    /\ lifecycle' = IF lifecycle = "closed" THEN lifecycle ELSE "poisoned"
    /\ failed' = TRUE
    /\ UNCHANGED unseen

\* Shared::poison.  Between its load and its store only a shutdown caller can
\* change lifecycle, and CLOSED only after reactor_finished.
poison ==
    /\ lifecycle' = IF lifecycle = "closed" THEN lifecycle ELSE "poisoned"
    /\ failed' = TRUE
    /\ notify

Events(n) == events + n <= MaxEvents /\ events' = events + n
Event == Events(1)

KeepRoot == UNCHANGED <<storageVars, lifeVars, guardVars, loopVars, view, returned>>

Goto(p, step) == pc' = [pc EXCEPT ![p] = step]

Finish(c) == Goto(c, "done")

\* An operation that has returned holds nothing any more.
Settle(c) ==
    /\ op' = IF pc'[c] \in {"done", "gone"} THEN [op EXCEPT ![c] = NoOp] ELSE op
    /\ unseen' = IF pc'[c] \in {"done", "gone"} \/ pc[c] = "waiting" THEN unseen \ {c} ELSE unseen

\* channel_error: Poisoned, Closed or, when the root still looks running, Runtime.
FinishChannel(c) == Goto(c, IF lifecycle = "running" THEN "broken" ELSE "done")

\* A caller owns a queue slot from the reservation to the send.
Permits == {c \in Callers : pc[c] = "send"}

\* Mutant: one slot too many.
SlotIsFreeLoose == Len(queue) + Cardinality(Permits) <= QueueCapacity

SlotIsFree == Len(queue) + Cardinality(Permits) < QueueCapacity

-----------------------------------------------------------------------------
(* Client operations. *)

\* reserve_running: ensure_running, a permit at once or after a wait for a slot,
\* and ensure_running again, whose failure drops the permit.  Both checks and the
\* reservation between them are one step: they change nothing but the permit.
Reserve(c) ==
    CASE lifecycle # "running" -> Finish(c)
      [] lifecycle = "running" /\ receiver # "open" -> FinishChannel(c)
      [] OTHER -> Goto(c, IF SlotIsFree THEN "send" ELSE "full")

\* The head of the read loop: readiness is taken from the published view.
ReadCheck(c, s) ==
    IF lifecycle = "running" /\ view.streams[s].pending = 0 THEN Goto(c, "waiting")
    ELSE Reserve(c)

\* preflight_sequence and preflight_release, by the published view.
Preflight(call) ==
    LET highwater == view.streams[call.stream].highwater
    IN CASE call.kind = "append"  -> highwater = 0 \/ highwater + 1 <= SeqLimit
         [] call.kind = "release" -> call.id <= highwater
         [] OTHER -> TRUE

\* append_batch, read, release and reclaim up to their first wait.  A call that
\* preflight or ensure_running refuses changes nothing.
Start(c) ==
    /\ pc[c] = "idle" /\ lifecycle = "running" /\ Event
    /\ \E call \in Calls :
         /\ call.caller = c /\ Preflight(call)
         /\ op' = [op EXCEPT ![c] = call]
         /\ IF call.kind = "read" THEN ReadCheck(c, call.stream) ELSE Reserve(c)
    /\ KeepRoot /\ UNCHANGED <<queueVars, unseen, reply>>

GetPermit(c) ==
    /\ pc[c] = "full" /\ (receiver # "open" \/ SlotIsFree)
    /\ Reserve(c) /\ Settle(c)
    /\ KeepRoot /\ UNCHANGED <<queueVars, events, reply>>

\* permit.send: it succeeds whatever happened to the receiver meanwhile.
Send(c) ==
    /\ pc[c] = "send"
    /\ queue' = Append(queue, [call |-> op[c], ticket |-> tickets + 1])
    /\ tickets' = tickets + 1
    /\ Goto(c, "reply")
    /\ KeepRoot /\ UNCHANGED <<op, receiver, events, unseen, reply>>

\* response.await: completion, a request to wait, or a dropped sender.
Receive(c) ==
    /\ pc[c] = "reply" /\ reply[c] # "none"
    /\ CASE reply[c] = "wait" /\ lifecycle = "running" -> Goto(c, "waiting")
         [] reply[c] = "dropped" -> FinishChannel(c)
         [] OTHER -> Finish(c)
    /\ reply' = [reply EXCEPT ![c] = "none"]
    /\ Settle(c)
    /\ KeepRoot /\ UNCHANGED <<queueVars, events>>

\* wait_for_change resumes on an unseen event and checks lifecycle; the operation
\* goes round its loop.
Wake(c) ==
    /\ pc[c] = "waiting" /\ c \in unseen
    /\ IF op[c].kind = "read" THEN ReadCheck(c, op[c].stream) ELSE Reserve(c)
    /\ Settle(c)
    /\ KeepRoot /\ UNCHANGED <<queueVars, events, reply>>

\* The caller drops the Future while it is suspended.  A command that was sent
\* stays with the reactor and its answer goes nowhere.
Cancel(c) ==
    /\ pc[c] \in {"full", "reply", "waiting"} /\ Event
    /\ Goto(c, "gone") /\ Settle(c)
    /\ reply' = [reply EXCEPT ![c] = "none"]
    /\ KeepRoot /\ UNCHANGED queueVars

Client(c) == GetPermit(c) \/ Send(c) \/ Receive(c) \/ Wake(c)

-----------------------------------------------------------------------------
(* Log::shutdown. *)

KeepRest == UNCHANGED <<op, reply, storageVars, reactorFinished, failed, guardVars, queueVars,
                        loopVars, view, returned>>

\* The first look at lifecycle, the swap of shutdown_started and the load that
\* follows it.
StopBegin(p) ==
    /\ pc[p] = "idle" /\ Event
    /\ shutdownStarted' = (shutdownStarted \/ lifecycle # "closed")
    /\ Goto(p, CASE lifecycle = "closed" -> "done"
                 [] lifecycle # "closed" /\ shutdownStarted -> "loop"
                 [] lifecycle = "poisoned" /\ ~shutdownStarted -> "announce"
                 [] OTHER -> "store")
    /\ KeepRest /\ UNCHANGED <<lifecycle, shutdownSent, unseen>>

\* Mutant: shutdown is announced without closing admission.
StopStoreForgotten(p) ==
    /\ pc[p] = "store"
    /\ Goto(p, "announce")
    /\ KeepRest /\ UNCHANGED <<lifecycle, shutdownStarted, shutdownSent, events, unseen>>

StopStore(p) ==
    /\ pc[p] = "store"
    /\ lifecycle' = "shutting_down"
    /\ Goto(p, "announce")
    /\ KeepRest /\ UNCHANGED <<shutdownStarted, shutdownSent, events, unseen>>

StopAnnounce(p) ==
    /\ pc[p] = "announce"
    /\ shutdownSent' = TRUE /\ notify
    /\ Goto(p, "loop")
    /\ KeepRest /\ UNCHANGED <<lifecycle, shutdownStarted, events>>

\* Mutant: running storage jobs are not waited for.
RootIsDownEarly == reactorFinished

\* The condition under which shutdown returns.
RootIsDown == reactorFinished /\ activeJobs = 0

\* One round of the wait loop.  Once reactor_finished is set, active_storage_jobs
\* only falls, so its loads may be taken together.
StopLoop(p) ==
    /\ pc[p] = "loop" \/ (pc[p] = "waiting" /\ p \in unseen)
    /\ IF lifecycle # "closed" /\ RootIsDown
       THEN Goto(p, "done") /\ lifecycle' = "closed" /\ unseen' = Subscribed \ {p}
       ELSE /\ Goto(p, IF lifecycle = "closed" THEN "done" ELSE "waiting")
            /\ unseen' = IF pc[p] = "loop" /\ lifecycle # "closed" THEN unseen ELSE unseen \ {p}
            /\ UNCHANGED lifecycle
    /\ KeepRest /\ UNCHANGED <<shutdownStarted, shutdownSent, events>>

StopCancel(p) ==
    /\ pc[p] = "waiting" /\ Event
    /\ Goto(p, "gone") /\ unseen' = unseen \ {p}
    /\ KeepRest /\ UNCHANGED <<lifecycle, shutdownStarted, shutdownSent>>

Stopper(p) == StopStore(p) \/ StopAnnounce(p) \/ StopLoop(p)

-----------------------------------------------------------------------------
(* reactor_loop: choosing what to do next. *)

\* Mutant: reclamation does not look at lifecycle.
AutomaticAlways == backlog = << >> /\ queue = << >> /\ holder = "reactor" /\ work

Automatic == lifecycle = "running" /\ backlog = << >> /\ queue = << >>
             /\ holder = "reactor" /\ work

\* storage_job: Storage moves into the blocking job, which is counted; or the
\* submission fails and Storage is dropped with the job; or there is no Storage
\* since an earlier job lost it.
StartJob(kind, cmds, cost) ==
    /\ jobKind' = kind
    /\ \/ /\ holder = "reactor" /\ Events(cost)
          /\ holder' = "job" /\ rpc' = "job" /\ activeJobs' = activeJobs + 1
          /\ UNCHANGED result
       \/ /\ Events(IF holder = "reactor" THEN cost + 1 ELSE cost)
          /\ holder' = "none" /\ rpc' = "back"
          /\ result' = [LostJob(cmds) EXCEPT !.tag = IF holder = "none" THEN "poisoned" ELSE "fatal"]
          /\ UNCHANGED activeJobs

AutomaticReclaim ==
    /\ rpc = "top" /\ Automatic
    /\ StartJob("automatic", << >>, 0)
    /\ UNCHANGED <<clientVars, storageVars, lifeVars, guards, queueVars,
                   backlog, closing, group, unseen, view, returned>>

\* The timer fires.  It is polled only by the select entered in RUNNING; firing
\* there after a shutdown caller's store is the same as firing just before it.
AgeTimer ==
    /\ rpc = "top" /\ ~Automatic /\ backlog = << >> /\ ~closing /\ lifecycle = "running"
    /\ holder = "reactor"
    /\ StartJob("rollover", << >>, 1)
    /\ UNCHANGED <<clientVars, storageVars, lifeVars, guards, queueVars,
                   backlog, closing, group, unseen, view, returned>>

\* shutdown.changed() wins the select: no further send is admitted.
CloseReceiver ==
    /\ rpc = "top" /\ ~Automatic /\ backlog = << >> /\ ~closing /\ shutdownSent
    /\ closing' = TRUE /\ receiver' = "closed"
    /\ UNCHANGED <<clientVars, storageVars, lifeVars, guardVars, queue, tickets, backlog,
                   rpc, group, jobKind, result, holder, events, unseen, view,
                   returned>>

\* Mutant: outstanding permits are not waited for.
DrainedEarly == backlog = << >> /\ queue = << >> /\ closing

\* recv returns None once the channel is closed, empty and has no permits out;
\* the loop ends and its future is dropped, with Storage and the root lock.
Drained == backlog = << >> /\ queue = << >> /\ closing /\ Permits = {}

EndLoop ==
    /\ rpc = "top" /\ ~Automatic /\ Drained
    /\ rpc' = "finish" /\ receiver' = "dropped" /\ holder' = "none"
    /\ UNCHANGED <<clientVars, storageVars, lifeVars, guardVars, queue, tickets, backlog,
                   closing, group, jobKind, result, events, unseen, view,
                   returned>>

\* ReactorTermination::finish(true).
FinishReactor ==
    /\ rpc = "finish"
    /\ rpc' = "ended" /\ lifecycle' = "closed" /\ reactorFinished' = TRUE /\ notify
    /\ UNCHANGED <<clientVars, storageVars, shutdownStarted, shutdownSent, failed,
                   guardVars, queueVars, backlog, closing, group, jobKind, result, holder,
                   events, view, returned>>

-----------------------------------------------------------------------------
(* reactor_loop: a command in hand. *)

Respond(cmds, how) ==
    [c \in Callers |-> IF pc[c] = "reply" /\ \E i \in DOMAIN cmds : cmds[i].call.caller = c
                       THEN how ELSE reply[c]]

\* Mutant: the channel comes first.
WaitingQueueFirst == queue \o backlog

\* The next command comes from the backlog, then from the channel.
Waiting == backlog \o queue

\* What is left of both once the first n commands were taken.
Take(n) ==
    /\ backlog' = SubSeq(backlog, n + 1, Len(backlog))
    /\ queue' = SubSeq(queue, IF n > Len(backlog) THEN n - Len(backlog) + 1 ELSE 1, Len(queue))

RejectPoisoned ==
    /\ rpc = "top" /\ ~Automatic /\ Waiting # << >> /\ lifecycle = "poisoned"
    /\ Take(1)
    /\ reply' = Respond(SubSeq(Waiting, 1, 1), "poisoned")
    /\ UNCHANGED <<pc, op, storageVars, lifeVars, guardVars, receiver, tickets, closing, rpc,
                   group, jobKind, result, holder, events, unseen, view, returned>>

Total(cmds, n) == MapThenSumSet(LAMBDA i : cmds[i].call.size, 1..n)
InGroup(cmds, n, s) == Cardinality({i \in 1..n : cmds[i].call.stream = s})

Groupable(cmd) == cmd.call.kind \in {"append", "release"}

\* Command n extends the group of the commands before it.
Joins(cmds, n) ==
    /\ cmds[n].call.kind = cmds[1].call.kind /\ Groupable(cmds[1])
    /\ Total(cmds, n) <= MaxGroupSize
    /\ cmds[1].call.kind = "append" =>
         LET s == cmds[n].call.stream
         IN Highwater(s) = 0 \/ Highwater(s) + InGroup(cmds, n, s) <= SeqLimit

GroupLength(cmds) ==
    Max({n \in 1..Len(cmds) : n <= MaxUnits /\ \A k \in 2..n : Joins(cmds, k)})

\* Consecutive commands of one kind form a group; the first command that does
\* not fit has been taken from its queue and goes to the front of the backlog.
Dispatch ==
    /\ rpc = "top" /\ ~Automatic /\ Waiting # << >> /\ lifecycle # "poisoned"
    /\ LET n     == GroupLength(Waiting)
           taken == IF n < MaxUnits /\ n < Len(Waiting) /\ Groupable(Waiting[1])
                    THEN n + 1 ELSE n
           kept  == Max({taken, Len(backlog)})
       IN /\ group' = SubSeq(Waiting, 1, n)
          /\ backlog' = SubSeq(Waiting, n + 1, kept)
          /\ queue' = SubSeq(Waiting, kept + 1, Len(Waiting))
    /\ StartJob(Waiting[1].call.kind, group', 0)
    /\ UNCHANGED <<clientVars, storageVars, lifeVars, guards, receiver,
                   tickets, closing, unseen, view, returned>>

-----------------------------------------------------------------------------
(* The blocking job: what it does to Storage and what it returns. *)

\* Mutant: segments that wait for reclamation are not counted.
FitsBesideDead(n, space) == SumSizes(pending) + Total(group, n) <= Capacity

Fits(n, space) == SumSizes(pending) + space.dead + Total(group, n) <= Capacity

Space == [dead |-> dead, work |-> work]

\* Storage::reclaim as far as space goes.  An automatic pass removes some of the
\* fully released segments, an explicit one all of them; when nothing is pending
\* every segment is fully released.
Reclaimed(kind) ==
    {sp \in [dead : 0..(IF dead = 0 THEN 0 ELSE dead - 1), work : BOOLEAN] :
        /\ sp.work => kind = "automatic" /\ sp.dead > 0
        /\ pending = {} => sp.dead = 0 \/ sp.work}

\* The space left after the selection of execute_append_job, which reclaims once
\* when the first unit has to wait.
SelectionSpace ==
    IF ~Fits(1, Space) /\ Total(group, 1) <= Capacity /\ work
    THEN Reclaimed("automatic") ELSE {Space}

\* The largest admissible prefix, 0 if there is none (the search that finds it is
\* modelled in Capacity).
Prefix(limit, space) == Max({0} \cup {n \in 1..limit : Fits(n, space)})

Exhausts(n) == \E s \in Stream : Highwater(s) + InGroup(group, n, s) > SeqLimit

SetSpace(space) == dead' = space.dead /\ work' = space.work

\* The k-th unit of the group for stream s.
UnitOf(s, k) ==
    CHOOSE i \in DOMAIN group : group[i].call.stream = s /\ InGroup(group, i, s) = k

\* append_group for the first n units.  A fully released active segment stops
\* being reclaimable when it is the one appended to.
AppendUnits(n, space) ==
    /\ assigned' = [s \in Stream |->
         assigned[s] \o [k \in 1..InGroup(group, n, s) |-> group[UnitOf(s, k)].ticket]]
    /\ pending' = pending \cup
         {<<group[i].call.stream, Highwater(group[i].call.stream) + InGroup(group, i, group[i].call.stream),
            group[i].call.size>> : i \in 1..n}
    /\ dead' = space.dead
    /\ work' \in {space.work, FALSE}

\* The job hands Storage and its result back, or drops both when the reactor is
\* gone; its guard is dropped afterwards.
Deliver(res) ==
    /\ guards' = guards + 1
    /\ IF rpc = "job" THEN holder' = "reactor" /\ rpc' = "back" /\ result' = res
       ELSE holder' = "none" /\ UNCHANGED <<rpc, result>>

Answer(tag, n) == [tag |-> tag, selected |-> n, snapshot |-> {}]

\* execute_append_job: limit is what append_prefix_for_active_segment allows.
AppendJob ==
    /\ jobKind = "append"
    /\ \E limit \in 1..Len(group) : \E space \in SelectionSpace :
         LET n == Prefix(limit, space)
         IN CASE n = 0 /\ Total(group, 1) > Capacity ->
                   Deliver(Answer("exceeds", 1)) /\ UNCHANGED storageVars
              [] n = 0 /\ Total(group, 1) <= Capacity ->
                   Deliver(Answer("wait", 1)) /\ SetSpace(space) /\ UNCHANGED <<assigned, pending>>
              [] n > 0 /\ Exhausts(n) ->
                   Deliver(Answer("error", n)) /\ SetSpace(space) /\ UNCHANGED <<assigned, pending>>
              [] OTHER -> Deliver(Answer("ok", n)) /\ AppendUnits(n, space)
    /\ UNCHANGED events

\* Storage::read: the oldest pending records within the caller's limits, None when
\* there are none, or ReadLimitTooSmall.
ReadJob ==
    /\ jobKind = "read"
    /\ LET mine == {r[2] : r \in InStream(group[1].call.stream)}
       IN \/ /\ mine # {}
             /\ \E last \in mine :
                  Deliver([tag |-> "ok", selected |-> 1,
                           snapshot |-> {q \in mine : q <= last}])
          \/ mine # {} /\ Deliver(Answer("error", 1))
          \/ mine = {} /\ Deliver(Answer("wait", 1))
    /\ UNCHANGED <<storageVars, events>>

Named == {r \in pending : \E i \in DOMAIN group : r[1] = group[i].call.stream /\ r[2] = group[i].call.id}

ReleaseRecords ==
    /\ pending' = pending \ Named
    /\ dead' = dead + SumSizes(Named)
    /\ work' \in (IF Named = {} THEN {work}
                  ELSE IF pending' = {} THEN {TRUE} ELSE {work, TRUE})
    /\ UNCHANGED assigned

\* release_group: one unknown record fails every unit of the group.
ReleaseJob ==
    /\ jobKind = "release"
    /\ IF \E i \in DOMAIN group : group[i].call.id > Highwater(group[i].call.stream)
       THEN Deliver(Answer("error", Len(group))) /\ UNCHANGED storageVars
       ELSE Deliver(Answer("ok", Len(group))) /\ ReleaseRecords
    /\ UNCHANGED events

ReclaimJob ==
    /\ jobKind \in {"automatic", "reclaim"}
    /\ Deliver(Answer("ok", Len(group)))
    /\ \E space \in (IF work THEN Reclaimed(jobKind) ELSE {Space}) : SetSpace(space)
    /\ UNCHANGED <<assigned, pending, events>>

RolloverJob ==
    /\ jobKind = "rollover"
    /\ Deliver(Answer("ok", 0))
    /\ UNCHANGED <<storageVars, events>>

\* A poisoning error: the commands of the attempted prefix are answered, and a
\* release may have taken effect before a later step failed.
FailingJob ==
    /\ Event
    /\ \E n \in (IF jobKind = "append" THEN 1..Len(group) ELSE {Len(group)}) :
         Deliver(Answer("fatal", n))
    /\ \/ UNCHANGED storageVars
       \/ jobKind = "release" /\ ReleaseRecords

\* The closure panics or is never run: Storage is dropped with it.
LosingJob ==
    /\ Event
    /\ guards' = guards + 1 /\ holder' = "none"
    /\ IF rpc = "job" THEN rpc' = "back" /\ result' = LostJob(group) ELSE UNCHANGED <<rpc, result>>
    /\ UNCHANGED storageVars

Job ==
    /\ holder = "job"
    /\ \/ AppendJob \/ ReadJob \/ ReleaseJob \/ ReclaimJob \/ RolloverJob
       \/ FailingJob \/ LosingJob
    /\ UNCHANGED <<clientVars, lifeVars, activeJobs, queueVars, backlog, closing,
                   group, jobKind, unseen, view, returned>>

\* Mutant: the guard never notifies.
GuardSilent ==
    /\ guards > 0
    /\ guards' = guards - 1 /\ activeJobs' = activeJobs - 1
    /\ UNCHANGED <<clientVars, storageVars, lifeVars, queueVars, loopVars, events, unseen,
                   view, returned>>

\* StorageJobActivity::drop.  Its load of reactor_finished is taken with the
\* fetch_sub: a later load could only add a wakeup.
GuardDrop ==
    /\ guards > 0
    /\ guards' = guards - 1 /\ activeJobs' = activeJobs - 1
    /\ IF activeJobs = 1 /\ reactorFinished THEN notify ELSE UNCHANGED unseen
    /\ UNCHANGED <<clientVars, storageVars, lifeVars, queueVars, loopVars, events, view,
                   returned>>

-----------------------------------------------------------------------------
(* reactor_loop: after the job. *)

\* Mutant: only the stream of the first command is published.
FirstStream == IF jobKind \in {"append", "release"} THEN {group[1].call.stream} ELSE {}

ChangedStreams == IF jobKind \in {"append", "release"} THEN {group[i].call.stream : i \in DOMAIN group} ELSE {}

\* A poisoning error poisons the root; then publish_storage replaces the view and
\* notifies if it changed.  A read publishes nothing.
Publish ==
    /\ rpc = "back" /\ rpc' = "reply"
    /\ view' = IF jobKind = "read" \/ holder = "none" THEN view
               ELSE [stats   |-> StorageStats,
                     streams |-> [s \in Stream |-> IF s \in ChangedStreams
                                                   THEN Published(s) ELSE view.streams[s]]]
    /\ IF result.tag = "fatal" THEN poison
       ELSE /\ IF view' # view THEN notify ELSE UNCHANGED unseen
            /\ UNCHANGED <<lifecycle, failed>>
    /\ UNCHANGED <<clientVars, storageVars, shutdownStarted, shutdownSent, reactorFinished,
                   guardVars, queueVars, backlog, closing, group, jobKind, result, holder,
                   events, returned>>

\* copy_nonpoisoning: what the other commands of a failed group are told.
CopyNonpoisoning == IF result.tag = "fatal" THEN "poisoned" ELSE result.tag

\* What command i of the answered prefix is told.
Told(i) ==
    CASE result.tag = "wait" /\ jobKind = "append" ->
           (IF BlockWhenFull THEN "wait" ELSE "rejected")
      [] result.tag = "fatal" /\ i = 1 -> "error"
      [] OTHER -> CopyNonpoisoning

\* Mutant: deferred appends are forgotten.
RequeueNothing == backlog

\* requeue_appends: deferred appends return to the front, in order.
Requeue == SubSeq(group, result.selected + 1, Len(group)) \o backlog

ReturnedIds ==
    IF result.tag # "ok" THEN {}
    ELSE IF jobKind = "read" THEN {<<group[1].call.stream, q>> : q \in result.snapshot}
    ELSE IF jobKind = "append"
    THEN {id \in Stream \X (1..SeqLimit) :
             /\ id[2] <= Highwater(id[1])
             /\ \E i \in 1..result.selected : assigned[id[1]][id[2]] = group[i].ticket}
    ELSE {}

Reply ==
    /\ rpc = "reply"
    /\ rpc' = "top" /\ jobKind' = "none" /\ result' = NoResult /\ group' = << >>
    /\ backlog' = Requeue
    /\ reply' = [c \in Callers |->
         IF pc[c] = "reply" /\ \E i \in 1..result.selected : group[i].call.caller = c
         THEN Told(CHOOSE i \in 1..result.selected : group[i].call.caller = c) ELSE reply[c]]
    /\ returned' = returned \cup ReturnedIds
    /\ UNCHANGED <<pc, op, storageVars, lifeVars, guardVars, queueVars, closing, holder,
                   events, unseen, view>>

-----------------------------------------------------------------------------
(* The runtime drops the reactor task at one of its waits. *)

\* The inner future goes first: the receiver, the queued commands with their
\* response channels, and Storage unless a job has it.
DropReactor ==
    /\ Event
    /\ rpc = "job" \/ (rpc = "top" /\ backlog = << >>)
    /\ rpc' = "dropping" /\ receiver' = "dropped" /\ queue' = << >> /\ backlog' = << >>
    /\ holder' = IF holder = "reactor" THEN "none" ELSE holder
    /\ reply' = Respond(group \o backlog \o queue, "dropped")
    /\ UNCHANGED <<pc, op, storageVars, lifeVars, guardVars, tickets, closing, group,
                   jobKind, result, unseen, view, returned>>

\* ReactorTermination::finish(false).
FinishDropped ==
    /\ rpc = "dropping"
    /\ rpc' = "abandoned" /\ poison /\ reactorFinished' = TRUE
    /\ UNCHANGED <<clientVars, storageVars, shutdownStarted, shutdownSent, guardVars,
                   queueVars, backlog, closing, group, jobKind, result, holder, events,
                   view, returned>>

Loop ==
    \/ AutomaticReclaim \/ CloseReceiver \/ EndLoop \/ FinishReactor
    \/ RejectPoisoned \/ Dispatch \/ Publish \/ Reply \/ FinishDropped

\* Steps that need no outside event: of a caller or shutdown caller that is not
\* suspended, of the reactor task, and of the blocking pool.
Step ==
    \/ \E c \in Callers : Client(c)
    \/ \E p \in Stoppers : Stopper(p)
    \/ Loop \/ Job \/ GuardDrop

Next ==
    \/ Step
    \/ \E c \in Callers : Start(c) \/ Cancel(c)
    \/ \E p \in Stoppers : StopBegin(p) \/ StopCancel(p)
    \/ AgeTimer \/ DropReactor

\* The threads of the program do not all stop while one of them can go on.  Nothing
\* obliges a caller to start or cancel, the timer to fire, or the runtime to drop
\* the reactor.
Fairness == WF_vars(Step)

Spec == Init /\ [][Next]_vars
FairSpec == Spec /\ Fairness

-----------------------------------------------------------------------------
(* Properties. *)

CommandSet == [call : Calls, ticket : 1..tickets]

TypeOK ==
    /\ lifecycle \in {"running", "shutting_down", "closed", "poisoned"}
    /\ {shutdownStarted, shutdownSent, reactorFinished, failed, closing, work} \subseteq BOOLEAN
    /\ {activeJobs, guards, tickets, dead, events} \subseteq Nat
    /\ activeJobs = guards + (IF holder = "job" THEN 1 ELSE 0)
    /\ unseen \subseteq Procs
    /\ receiver \in {"open", "closed", "dropped"} /\ holder \in {"reactor", "job", "none"}
    /\ queue \in Seq(CommandSet) /\ backlog \in Seq(CommandSet) /\ group \in Seq(CommandSet)
    /\ Len(queue) + Cardinality(Permits) <= QueueCapacity \/ receiver = "dropped"
    /\ \A s \in Stream : assigned[s] \in Seq(0..tickets) /\ Highwater(s) <= SeqLimit
    /\ \A r \in pending : r[1] \in Stream /\ r[2] \in 1..Highwater(r[1]) /\ r[3] \in Nat
    /\ Used <= Capacity

\* Admission is first in, first out (the channel, the backlog and requeue_appends
\* of reactor_loop): the sequences of a stream follow the order in which its
\* appends entered the queue, whatever was split, deferred or retried meanwhile.
SequencesFollowTheQueue ==
    \A s \in Stream : \A i, j \in DOMAIN assigned[s] :
        i < j => assigned[s][i] < assigned[s][j]

CommandsOf(c) == {i \in DOMAIN (group \o backlog \o queue) : (group \o backlog \o queue)[i].call.caller = c}

\* A caller suspended on its response channel has exactly one command in the hands
\* of the reactor until it is answered, and a caller that was answered has none
\* (append groups, deferral, poisoning and drain of reactor_loop): no command is
\* lost, and none can run twice.
EveryWaiterHasItsCommand ==
    receiver # "dropped" =>
        \A c \in Callers :
            pc[c] # "gone" =>
                Cardinality(CommandsOf(c)) = IF pc[c] = "reply" /\ reply[c] = "none" THEN 1 ELSE 0

\* publish_storage precedes every reply: an identity handed to a caller lies within
\* the published highwater, so preflight_release never calls it unknown.
ReturnedIdsAreKnown ==
    \A id \in returned : id[2] <= view.streams[id[1]].highwater

\* Nobody sleeps through what it waits for (events.subscribe before the check,
\* notify after the change): a suspended process without an unseen event really
\* has to wait.  A caller may still sleep while shutdown is about to notify.
NoLostWakeup ==
    /\ \A p \in Stoppers : pc[p] = "waiting" /\ p \notin unseen =>
         lifecycle # "closed" /\ ~RootIsDown
    /\ \A c \in Callers : pc[c] = "waiting" /\ c \notin unseen =>
         /\ lifecycle = "running" \/ \E p \in Stoppers : pc[p] = "announce"
         /\ op[c].kind = "read" => view.streams[op[c].stream].pending = 0
         /\ op[c].kind = "append" /\ rpc = "top" => Used + op[c].size > Capacity

\* ReactorTask::drop and StorageJobActivity: when shutdown returns, nobody owns
\* Storage any more, so the root lock is free and the root can be opened again.
ShutdownFreesTheRoot ==
    (\E p \in Stoppers : pc[p] = "done") => holder = "none"

\* The drain of a closing reactor_loop: once the loop has ended, every admitted
\* command was answered and no caller can still send one.
ShutdownDrains ==
    rpc \in {"finish", "ended"} =>
        /\ queue = << >> /\ backlog = << >> /\ group = << >>
        /\ \A c \in Callers : pc[c] # "send" /\ (pc[c] = "reply" => reply[c] # "none")

\* channel_error: a caller is told that the runtime failed only if the reactor
\* task was dropped; a regular shutdown or a poisoned root never looks like it.
HonestErrors ==
    (\E c \in Callers : pc[c] = "broken") => rpc \in {"dropping", "abandoned"}

\* A poisoned root whose shutdown has not begun starts no storage job any more: not
\* for queued or deferred commands, not for automatic reclamation, not for the age
\* timer (Shared::poison, lifecycle checks of reactor_loop).
PoisonStopsWork ==
    [][failed /\ ~shutdownStarted => ~(holder = "reactor" /\ holder' = "job")]_vars

\* architecture.md: "After poison, no new queued storage work starts."
NoWorkAfterPoison == [][failed => ~(holder = "reactor" /\ holder' = "job")]_vars

Stranded(c) == receiver = "dropped" /\ CommandsOf(c) # {}

\* Every admitted command is answered and no caller stays suspended for records,
\* capacity or a queue slot once the root has stopped running (drain, rejection,
\* drop, and notify on every lifecycle change): when outside events cease, the root
\* owes nobody anything, except a caller that sent its command into a channel whose
\* receiver was dropped.
CallersAreServed ==
    <>[](\A c \in Callers : /\ pc[c] = "reply" => Stranded(c)
                            /\ pc[c] \in {"waiting", "full"} => lifecycle = "running")

\* Log::shutdown: every shutdown caller that does not cancel returns, whatever the
\* reactor, its jobs and the other shutdown callers do.
ShutdownCompletes ==
    <>[](\A p \in Stoppers : pc[p] \in {"idle", "done", "gone"})

=============================================================================
