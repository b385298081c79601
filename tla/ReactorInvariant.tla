-------------------------- MODULE ReactorInvariant --------------------------
(***************************************************************************)
(* The inductive invariant of the root reactor.  Its five parts say who    *)
(* owns Storage and why a channel is closed; where a command is and who    *)
(* awaits it; which commands have sequences and what the published view    *)
(* shows; who sleeps; and who holds the slots of the channel.              *)
(***************************************************************************)
EXTENDS Reactor

\* Storage is counted, and given away before the end.
Ownership ==
    /\ guards \in Nat
    /\ activeJobs = guards + (IF holder = "job" THEN 1 ELSE 0)
    /\ holder \in {"reactor", "job", "none"}
    /\ holder = "job" => rpc \in {"job", "dropping", "abandoned"}
    /\ holder = "reactor" => rpc \notin {"finish", "ended", "dropping", "abandoned"}
    /\ rpc \in {"finish", "ended"} => holder = "none"
    /\ reactorFinished => rpc \in {"ended", "abandoned"}
    /\ lifecycle = "closed" => holder = "none"
    /\ \A p \in Stoppers : pc[p] = "done" => holder = "none"

\* What the lifecycle word tells.
Lifecycle ==
    /\ shutdownStarted \in BOOLEAN /\ failed \in BOOLEAN
    /\ \A p \in Stoppers : pc[p] = "store" => shutdownStarted
    /\ failed /\ ~shutdownStarted => lifecycle \in {"poisoned", "closed"}

\* Where a process can be.
Steps == {"idle", "full", "send", "reply", "waiting", "done", "gone", "broken",
          "store", "announce", "loop"}

\* What a storage job can return.
ResultTags == {"none", "ok", "wait", "exceeds", "error", "fatal", "poisoned"}

\* What a caller can be told.
Replies == ResultTags \cup {"rejected", "dropped"}

\* Why a channel is closed.
Channel ==
    /\ receiver \in {"open", "closed", "dropped"}
    /\ \A p \in Stoppers : pc[p] = "announce" => lifecycle # "running"
    /\ shutdownSent => lifecycle # "running"
    /\ closing => shutdownSent
    /\ receiver = "closed" => closing
    /\ receiver = "dropped" =>
         rpc \in {"dropping", "abandoned"} \/ (rpc \in {"finish", "ended"} /\ closing)
    /\ result.tag \in ResultTags
    /\ \A c \in Callers : reply[c] = "dropped" => rpc \in {"dropping", "abandoned"}

\* Storage, the lifecycle word and the channel.
ControlInv ==
    /\ pc \in [Procs -> Steps] /\ reply \in [Callers -> Replies]
    /\ Ownership /\ Lifecycle /\ Channel /\ HonestErrors

-----------------------------------------------------------------------------
(* The line of commands: the reactor's group, its backlog and the channel. *)

\* A caller in an operation runs the call it started.
InOperation(c) == pc[c] \in {"full", "send", "reply", "waiting"}

\* The operation of a caller, and no answer before it asks.
Operations ==
    /\ op \in [Callers -> Calls \cup {NoOp}]
    /\ \A c \in Callers : InOperation(c) => op[c] \in Calls /\ op[c].caller = c
    /\ \A c \in Callers : pc[c] # "reply" => reply[c] = "none"

\* The group, the backlog and the channel hold commands with tickets handed out.
Commands ==
    /\ tickets \in Nat
    /\ group \in Seq(CommandSet) /\ backlog \in Seq(CommandSet) /\ queue \in Seq(CommandSet)

\* Command x was sent before command y, by another caller.
Before(x, y) == x.ticket < y.ticket /\ x.call.caller # y.call.caller

\* A line in the order of the sends, and one line before another.
InOrder(s)    == \A i, j \in DOMAIN s : i < j => Before(s[i], s[j])
Precedes(s, t) == \A i \in DOMAIN s, j \in DOMAIN t : Before(s[i], t[j])

\* Caller c is suspended on the answer to call.
Awaits(c, call) == pc[c] = "reply" /\ reply[c] = "none" /\ op[c] = call

\* The callers of s await their answers, unless they gave up.
Owned(s) == \A i \in DOMAIN s : \/ pc[s[i].call.caller] = "gone"
                                \/ Awaits(s[i].call.caller, s[i].call)

\* s holds a command of caller c.
Has(s, c) == \E i \in DOMAIN s : s[i].call.caller = c

\* As long as the receiver lives, the line is in the order of the sends, each of its
\* commands is awaited unless its caller gave up, and who awaits an answer is in it.
Line ==
    receiver # "dropped" =>
      /\ InOrder(backlog) /\ InOrder(queue)
      /\ Precedes(group, backlog) /\ Precedes(group, queue) /\ Precedes(backlog, queue)
      /\ Owned(group) /\ Owned(backlog) /\ Owned(queue)
      /\ \A c \in Callers : pc[c] = "reply" /\ reply[c] = "none" =>
           Has(group, c) \/ Has(backlog, c) \/ Has(queue, c)

\* What the reactor has in hand at its steps.
Hand ==
    /\ InOrder(group)
    /\ rpc \in {"top", "job", "back", "reply", "finish", "ended", "dropping", "abandoned"}
    /\ rpc \in {"top", "finish", "ended"} => group = << >>
    /\ rpc \in {"finish", "ended"} => /\ queue = << >> /\ backlog = << >> /\ receiver = "dropped"
                                      /\ \A c \in Callers : pc[c] # "send"
                                      /\ \A c \in Callers : pc[c] = "reply" => reply[c] # "none"
    /\ rpc = "job" => holder = "job"
    /\ rpc \in {"back", "reply"} => result.tag # "none" /\ result.selected \in 0 .. Len(group)
    /\ rpc \in {"job", "back", "reply"} =>
         /\ \A i \in DOMAIN group : group[i].call.kind = jobKind
         /\ jobKind \in {"append", "read"} => group # << >>

\* The line of commands.
LineInv == Operations /\ Commands /\ Line /\ Hand

-----------------------------------------------------------------------------
(* Sequences and the published view. *)

\* No command of s has a sequence yet.
Fresh(s) == \A t \in Stream : \A i \in DOMAIN assigned[t], j \in DOMAIN s :
              assigned[t][i] < s[j].ticket

\* The tickets that got sequences are in order, and smaller than those still in the line.
Assigned ==
    /\ assigned \in [Stream -> Seq(0 .. tickets)]
    /\ SequencesFollowTheQueue
    /\ receiver # "dropped" => Fresh(backlog) /\ Fresh(queue)
    /\ holder = "job" => Fresh(group)
    /\ rpc \in {"back", "reply"} =>
         \A t \in Stream : \A i \in DOMAIN assigned[t], j \in DOMAIN group :
            /\ j > result.selected => assigned[t][i] < group[j].ticket
            /\ assigned[t][i] = group[j].ticket => t = group[j].call.stream

\* What Storage holds: sequenced records that, with the dead bytes, fit the capacity.
Stored ==
    /\ IsFiniteSet(pending) /\ dead \in Nat /\ work \in BOOLEAN
    /\ \A s \in Stream : Highwater(s) <= SeqLimit
    /\ \A r \in pending : r[1] \in Stream /\ r[2] \in 1..Highwater(r[1]) /\ r[3] \in Nat
    /\ Used <= Capacity

\* The view shows Storage, but for what the last job changed until it is published.
Shown ==
    /\ DOMAIN view.streams = Stream
    /\ \A s \in Stream : view.streams[s].highwater \in 0..Highwater(s)
    /\ rpc \in {"top", "job", "reply"} \/ (rpc = "back" /\ (jobKind = "read" \/ holder = "none")) =>
         view = ViewFromStorage
    /\ rpc = "back" => \A s \in Stream \ ChangedStreams : view.streams[s] = Published(s)

\* What an answer to a read or an append stands for.
Answered ==
    /\ ReturnedIdsAreKnown
    /\ \A id \in returned : id[1] \in Stream /\ id[2] \in Nat
    /\ rpc \in {"back", "reply"} /\ jobKind = "read" /\ result.tag = "ok" =>
         \A q \in result.snapshot : q \in Nat /\ q <= Highwater(group[1].call.stream)
    /\ rpc \in {"back", "reply"} /\ result.tag = "wait" => result.selected = 1 /\ group # << >>
    /\ rpc \in {"back", "reply"} /\ result.tag = "wait" =>
         \/ jobKind = "read" /\ InStream(group[1].call.stream) = {}
         \/ jobKind = "append" /\ Used + group[1].call.size > Capacity

\* Storage, the view of it, and the answers.
SequenceInv == Assigned /\ Stored /\ Shown /\ Answered

-----------------------------------------------------------------------------
(* Wakeups. *)

\* What caller c waits for has not come as far as the view shows.
StillWaits(c) ==
    /\ op[c].kind \in {"append", "read"}
    /\ op[c].kind = "read" => view.streams[op[c].stream].pending = 0
    /\ op[c].kind = "append" => view.stats.live + view.stats.dead + op[c].size > Capacity

\* Whoever sleeps, or is about to, without an unseen notification has to wait.
WakeInv ==
    /\ unseen \subseteq Procs
    /\ \A p \in Stoppers : pc[p] = "waiting" /\ p \notin unseen => lifecycle # "closed" /\ ~RootIsDown
    /\ \A c \in Callers : reply[c] = "wait" \/ pc[c] = "waiting" => op[c].kind \in {"append", "read"}
    /\ \A c \in Callers : (reply[c] = "wait" \/ pc[c] = "waiting") /\ c \notin unseen => StillWaits(c)
    /\ \A c \in Callers : pc[c] = "waiting" /\ c \notin unseen =>
         lifecycle = "running" \/ \E p \in Stoppers : pc[p] = "announce"

-----------------------------------------------------------------------------
(* The channel's slots. *)

\* A slot is taken by a queued command or by the permit of a caller.
SlotInv ==
    /\ lifecycle \in {"running", "shutting_down", "closed", "poisoned"}
    /\ shutdownSent \in BOOLEAN /\ reactorFinished \in BOOLEAN /\ closing \in BOOLEAN
    /\ events \in Nat
    /\ IsFiniteSet(Permits)
    /\ receiver # "dropped" => Len(queue) + Cardinality(Permits) <= QueueCapacity

\* The invariant of the root reactor.
ReactorInv == ControlInv /\ LineInv /\ SequenceInv /\ WakeInv /\ SlotInv

=============================================================================
