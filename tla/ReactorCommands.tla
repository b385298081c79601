-------------------------- MODULE ReactorCommands ---------------------------
(***************************************************************************)
(* Lemmas about the root reactor: every step of Reactor.tla keeps the      *)
(* invariants of ReactorInvariant.tla about Storage's owner and the        *)
(* lifecycle word, the line of commands, the wake-ups and the sequences.   *)
(* The theorems are in ReactorProofs.                                      *)
(***************************************************************************)
EXTENDS ReactorInvariant, TLAPS

USE Zenon

\* The records of S have sizes.
SizesIn(S) == \A r \in S : r[3] \in Nat

\* The records rec[1] to rec[n] of the units cmds take no more than the units.
AppendLaw(P, cmds, rec, n) ==
    IsFiniteSet(P) /\ SizesIn(P) /\ (\A i \in 1..n : cmds[i].call.size \in Nat /\ rec[i][3] = cmds[i].call.size)
    => /\ IsFiniteSet(P \cup {rec[i] : i \in 1..n}) /\ SizesIn(P \cup {rec[i] : i \in 1..n})
       /\ SumSizes(P \cup {rec[i] : i \in 1..n}) <= SumSizes(P) + Total(cmds, n)
       /\ Total(cmds, n) \in Nat

\* What the steps need to know of sums, maxima and counts.  They are facts about finite sets,
\* proved by induction in ReactorProofs, and stand here as a hypothesis so that the step
\* proofs need no theory of finite sets.
CountingLaws ==
    /\ \A S \in SUBSET Nat : \A b \in Nat :
         S # {} /\ (\A x \in S : x <= b) => Max(S) \in S /\ \A x \in S : x <= Max(S)
    /\ Cardinality({}) = 0
    /\ \A S : IsFiniteSet(S) /\ SizesIn(S) =>
         /\ SumSizes(S) \in Nat
         /\ \A T \in SUBSET S : IsFiniteSet(T) /\ SumSizes(S) = SumSizes(S \ T) + SumSizes(T)
    /\ \A cmds : cmds[1].call.size \in Nat => Total(cmds, 1) = cmds[1].call.size
    /\ \A P, cmds, rec : \A n \in Nat : AppendLaw(P, cmds, rec, n)
    /\ \A cmds, s : \A n \in Nat :
         /\ InGroup(cmds, n, s) \in Nat
         /\ \A m \in Nat : n <= m => InGroup(cmds, n, s) <= InGroup(cmds, m, s)
         /\ \A k \in 1..InGroup(cmds, n, s) :
              \E i \in 1..n : cmds[i].call.stream = s /\ InGroup(cmds, i, s) = k
    /\ \A cmds : \A i, j \in Nat :
         i < j => InGroup(cmds, i, cmds[j].call.stream) < InGroup(cmds, j, cmds[j].call.stream)

\* A set of naturals with an upper bound has a greatest member.
LEMMA MaxMember ==
    ASSUME CountingLaws, NEW S \in SUBSET Nat, S # {}, NEW b \in Nat, \A x \in S : x <= b
    PROVE  Max(S) \in S /\ \A x \in S : x <= Max(S)
  BY DEF CountingLaws

\* One unit takes its own size.
LEMMA TotalOne ==
    ASSUME CountingLaws, NEW cmds, cmds[1].call.size \in Nat
    PROVE  Total(cmds, 1) = cmds[1].call.size
  BY DEF CountingLaws

\* The records of a finite set take a number of bytes.
LEMMA SizesType ==
    ASSUME CountingLaws, NEW S, IsFiniteSet(S), SizesIn(S)
    PROVE  SumSizes(S) \in Nat
  BY DEF CountingLaws

\* The units of the records taken out and of the others.
LEMMA SizesSplit ==
    ASSUME CountingLaws, NEW S, NEW T, IsFiniteSet(S), SizesIn(S), T \subseteq S
    PROVE  IsFiniteSet(T) /\ SumSizes(S) = SumSizes(S \ T) + SumSizes(T)
  BY DEF CountingLaws

\* The records of the first n units take no more than those units.
LEMMA AppendTakes ==
    ASSUME CountingLaws, NEW P, IsFiniteSet(P), SizesIn(P), NEW cmds, NEW rec, NEW n \in Nat,
           \A i \in 1..n : cmds[i].call.size \in Nat /\ rec[i][3] = cmds[i].call.size
    PROVE  /\ IsFiniteSet(P \cup {rec[i] : i \in 1..n}) /\ SizesIn(P \cup {rec[i] : i \in 1..n})
           /\ SumSizes(P \cup {rec[i] : i \in 1..n}) <= SumSizes(P) + Total(cmds, n)
           /\ Total(cmds, n) \in Nat
<1>1. AppendLaw(P, cmds, rec, n)
  BY DEF CountingLaws
<1> QED
  BY <1>1 DEF AppendLaw

\* The units of a stream among the first n of a group are counted by a number.
LEMMA InGroupType ==
    ASSUME CountingLaws, NEW cmds, NEW n \in Nat, NEW s
    PROVE  InGroup(cmds, n, s) \in Nat
  BY DEF CountingLaws

\* A longer prefix holds no fewer units of a stream.
LEMMA InGroupGrows ==
    ASSUME CountingLaws, NEW cmds, NEW i \in Nat, NEW j \in Nat, i <= j, NEW s
    PROVE  InGroup(cmds, i, s) <= InGroup(cmds, j, s)
  BY DEF CountingLaws

\* Each unit counts for its stream.
LEMMA InGroupRises ==
    ASSUME CountingLaws, NEW cmds, NEW i \in Nat, NEW j \in Nat, i < j
    PROVE  InGroup(cmds, i, cmds[j].call.stream) < InGroup(cmds, j, cmds[j].call.stream)
  BY DEF CountingLaws

\* A unit of a stream counts itself.
LEMMA InGroupPositive ==
    ASSUME CountingLaws, NEW cmds, NEW i \in Nat, i > 0
    PROVE  InGroup(cmds, i, cmds[i].call.stream) > 0
<1>1. 0 \in Nat /\ 0 < i
  BY SMT
<1>2. InGroup(cmds, 0, cmds[i].call.stream) < InGroup(cmds, i, cmds[i].call.stream)
  BY <1>1, InGroupRises
<1>3. InGroup(cmds, 0, cmds[i].call.stream) \in Nat /\ InGroup(cmds, i, cmds[i].call.stream) \in Nat
  BY <1>1, InGroupType
<1> QED
  BY <1>2, <1>3, SMT

\* Every count up to the last one is reached by a unit.
LEMMA UnitExists ==
    ASSUME CountingLaws, NEW cmds, NEW n \in Nat, NEW s, NEW k \in 1..InGroup(cmds, n, s)
    PROVE  \E i \in 1..n : cmds[i].call.stream = s /\ InGroup(cmds, i, s) = k
  BY SMT DEF CountingLaws

\* UnitOf(s, k) is the k-th unit of stream s.
LEMMA UnitIs ==
    ASSUME CountingLaws, NEW C, group \in Seq(C), NEW n \in 0..Len(group), NEW s,
           NEW k \in 1..InGroup(group, n, s)
    PROVE  /\ UnitOf(s, k) \in 1..n /\ UnitOf(s, k) \in DOMAIN group
           /\ group[UnitOf(s, k)].call.stream = s /\ InGroup(group, UnitOf(s, k), s) = k
<1>1. n \in Nat /\ DOMAIN group = 1..Len(group) /\ 1..n \subseteq 1..Len(group)
      /\ \A i \in DOMAIN group : i \in Nat /\ (i \in 1..n \/ n < i)
  BY SMT
<1>2. PICK i \in 1..n : group[i].call.stream = s /\ InGroup(group, i, s) = k
  <2>1. \E i \in 1..n : group[i].call.stream = s /\ InGroup(group, i, s) = k
    BY <1>1, UnitExists, SMT
  <2> QED
    BY <2>1
<1>3. i \in DOMAIN group
  BY <1>1
<1> DEFINE u == UnitOf(s, k)
<1>4. u \in DOMAIN group /\ group[u].call.stream = s /\ InGroup(group, u, s) = k
  BY <1>2, <1>3 DEF UnitOf
<1> HIDE DEF u
<1>5. u \in 1..n
  <2>1. SUFFICES ASSUME n < u PROVE FALSE
    BY <1>1, <1>4
  <2>2. InGroup(group, n, s) < InGroup(group, u, s)
    <3>1. InGroup(group, n, group[u].call.stream) < InGroup(group, u, group[u].call.stream)
      BY <1>1, <1>4, <2>1, InGroupRises
    <3> QED
      BY <1>4, <3>1
  <2>3. InGroup(group, n, s) \in Nat /\ InGroup(group, u, s) \in Nat
    BY <1>1, <1>4, InGroupType
  <2> QED
    BY <1>4, <2>2, <2>3, SMT
<1> QED
  BY <1>4, <1>5 DEF u

\* The units of a stream are numbered in the order of the group.
LEMMA UnitsInOrder ==
    ASSUME CountingLaws, NEW C, group \in Seq(C), NEW n \in 0..Len(group), NEW s,
           NEW k \in 1..InGroup(group, n, s), NEW l \in 1..InGroup(group, n, s), k < l
    PROVE  UnitOf(s, k) < UnitOf(s, l)
<1> DEFINE u == UnitOf(s, k)
           v == UnitOf(s, l)
<1>1. u \in 1..n /\ InGroup(group, u, s) = k
  BY UnitIs
<1>2. v \in 1..n /\ InGroup(group, v, s) = l
  BY UnitIs
<1> HIDE DEF u, v
<1>3. u \in Nat /\ v \in Nat /\ (u < v \/ v <= u)
  BY <1>1, <1>2, SMT
<1>4. SUFFICES ASSUME v <= u PROVE FALSE
  BY <1>3 DEF u, v
<1>5. l <= k
  BY <1>1, <1>2, <1>3, <1>4, InGroupGrows
<1>6. InGroup(group, n, s) \in Nat
  <2>1. n \in Nat
    BY SMT
  <2> QED
    BY <2>1, InGroupType
<1> QED
  BY <1>5, <1>6, SMT

-----------------------------------------------------------------------------
(* Callers. *)

\* A caller is a process and is not a shutdown caller.
LEMMA CallerIsProc ==
    ASSUME NEW c \in Callers
    PROVE  c \in Procs /\ c \notin Stoppers
  BY ReactorAssumption DEF Procs

\* The parts of a command.
LEMMA CommandCaller ==
    ASSUME NEW s \in Seq(CommandSet), NEW i \in DOMAIN s
    PROVE  /\ s[i] \in CommandSet /\ s[i].call \in Calls /\ s[i].ticket \in 1..tickets
           /\ s[i].call.caller \in Callers /\ s[i].call.stream \in Stream
           /\ s[i].call.size \in Nat
<1>1. s[i] \in CommandSet
  BY SMT
<1>2. s[i].call \in Calls /\ s[i].ticket \in 1..tickets
  BY <1>1 DEF CommandSet
<1> QED
  BY <1>1, <1>2, ReactorAssumption

\* What reserve_running leads to.
LEMMA ReserveLeads ==
    ASSUME NEW c \in Callers, Reserve(c)
    PROVE  \E step \in {"done", "broken", "send", "full"} :
               Goto(c, step) /\ (step = "send" => receiver = "open")
<1>1. CASE lifecycle # "running"
  BY <1>1 DEF Reserve, Finish
<1>2. CASE lifecycle = "running" /\ receiver # "open"
  BY <1>2 DEF Reserve, FinishChannel
<1>3. CASE lifecycle = "running" /\ receiver = "open"
  BY <1>3 DEF Reserve
<1> QED
  BY <1>1, <1>2, <1>3

\* A view that shows everything.
LEMMA ViewShows ==
    ASSUME view = ViewFromStorage
    PROVE  /\ view.stats = StorageStats /\ DOMAIN view.streams = Stream
           /\ \A s \in Stream : view.streams[s] = Published(s) /\ view.streams[s].highwater = Highwater(s)
<1>1. view.stats = StorageStats /\ view.streams = [s \in Stream |-> Published(s)]
  BY SMT DEF ViewFromStorage
<1>2. \A s : Published(s).highwater = Highwater(s)
  BY SMT DEF Published
<1> QED
  BY <1>1, <1>2

-----------------------------------------------------------------------------
(* Storage, the lifecycle word and the channel. *)

\* Every step keeps ControlInv: the callers of api.rs, Log::shutdown, reactor_loop, the
\* blocking job and the drop of the reactor task.
LEMMA ControlStep == ControlInv /\ [Next]_vars => ControlInv'
\* A caller's step changes nothing of the root; only a step to "broken" needs a reason.
<1>CallerKeeps.
    ASSUME ControlInv, KeepRoot, receiver' = receiver,
           NEW c \in Callers, NEW step \in Steps, Goto(c, step),
           step = "broken" => rpc \in {"dropping", "abandoned"},
           reply' = reply \/ reply' = [reply EXCEPT ![c] = "none"]
    PROVE  ControlInv'
  <2> USE <1>CallerKeeps
  <2> USE DEF KeepRoot, storageVars, lifeVars, guardVars, loopVars, Goto
  <2>1. c \in Procs /\ c \notin Stoppers
    BY ReactorAssumption DEF Procs
  <2>2. pc' \in [Procs -> Steps] /\ pc'[c] = step
    BY <2>1 DEF ControlInv
  <2>3. \A p \in Procs \ {c} : pc'[p] = pc[p]
    BY <2>1 DEF ControlInv
  <2>4. \A p \in Stoppers : pc'[p] = pc[p]
    BY <2>1, <2>3 DEF Procs
  <2>5. reply' \in [Callers -> Replies]
        /\ \A d \in Callers : reply'[d] = "dropped" => reply[d] = "dropped"
    BY DEF ControlInv, Replies, ResultTags
  <2>6. Ownership' /\ Lifecycle'
    BY <2>4 DEF ControlInv, Ownership, Lifecycle
  <2>7. Channel'
    BY <2>4, <2>5 DEF ControlInv, Channel
  <2>8. HonestErrors'
    BY <2>2, <2>3 DEF ControlInv, HonestErrors, Procs
  <2> QED
    BY <2>2, <2>5, <2>6, <2>7, <2>8 DEF ControlInv
\* While the root looks running, its channel is closed only by a dropped reactor.
<1>ClosedChannel.
    ASSUME ControlInv, lifecycle = "running", receiver # "open"
    PROVE  rpc \in {"dropping", "abandoned"}
  BY <1>ClosedChannel DEF ControlInv, Channel
\* Where reserve_running takes a caller.
<1>ReserveGoes.
    ASSUME ControlInv, NEW c \in Callers, Reserve(c)
    PROVE  \E step \in Steps :
               Goto(c, step) /\ (step = "broken" => rpc \in {"dropping", "abandoned"})
  <2> USE <1>ReserveGoes
  <2>1. CASE lifecycle # "running"
    BY <2>1 DEF Reserve, Finish, Steps
  <2>2. CASE lifecycle = "running" /\ receiver # "open"
    BY <2>2, <1>ClosedChannel DEF Reserve, FinishChannel, Steps
  <2>3. CASE lifecycle = "running" /\ receiver = "open"
    BY <2>3 DEF Reserve, Steps
  <2> QED
    BY <2>1, <2>2, <2>3
\* Where a reader goes that found records or a stopped root.
<1>ReadCheckGoes.
    ASSUME ControlInv, NEW c \in Callers, NEW s, ReadCheck(c, s)
    PROVE  \E step \in Steps :
               Goto(c, step) /\ (step = "broken" => rpc \in {"dropping", "abandoned"})
  BY <1>ReadCheckGoes, <1>ReserveGoes DEF ReadCheck, Steps
\* A step of a caller.
<1>CallerStep.
    ASSUME ControlInv, NEW c \in Callers, Client(c) \/ Start(c) \/ Cancel(c)
    PROVE  ControlInv'
  <2> USE <1>CallerStep
  <2>1. CASE GetPermit(c)
    BY <2>1, <1>ReserveGoes, <1>CallerKeeps DEF GetPermit, queueVars
  <2>2. CASE Send(c)
    BY <2>2, <1>CallerKeeps DEF Send, Steps
  <2>3. CASE Receive(c)
    <3>1. \E step \in Steps :
              Goto(c, step) /\ (step = "broken" => rpc \in {"dropping", "abandoned"})
      BY <2>3 DEF Receive, Finish, FinishChannel, ControlInv, Channel, Steps
    <3> QED
      BY <2>3, <3>1, <1>CallerKeeps DEF Receive, queueVars
  <2>4. CASE Wake(c)
    BY <2>4, <1>ReserveGoes, <1>ReadCheckGoes, <1>CallerKeeps DEF Wake, queueVars
  <2>5. CASE Start(c)
    BY <2>5, <1>ReserveGoes, <1>ReadCheckGoes, <1>CallerKeeps DEF Start, queueVars
  <2>6. CASE Cancel(c)
    BY <2>6, <1>CallerKeeps DEF Cancel, queueVars, Steps
  <2> QED
    BY <2>1, <2>2, <2>3, <2>4, <2>5, <2>6 DEF Client
\* What is left to show when a shutdown caller moves.
<1>StopperMoves.
    ASSUME ControlInv, KeepRest, NEW p \in Stoppers, NEW step \in Steps, Goto(p, step),
           step # "broken"
    PROVE  /\ pc' \in [Procs -> Steps] /\ pc'[p] = step
           /\ \A q \in Procs \ {p} : pc'[q] = pc[q]
           /\ reply' \in [Callers -> Replies]
           /\ HonestErrors'
  <2> USE <1>StopperMoves
  <2>1. p \in Procs /\ p \notin Callers
    BY ReactorAssumption DEF Procs
  <2>2. pc' \in [Procs -> Steps] /\ pc'[p] = step /\ \A q \in Procs \ {p} : pc'[q] = pc[q]
    BY <2>1 DEF ControlInv, Goto
  <2>3. HonestErrors'
    BY <2>1, <2>2 DEF ControlInv, HonestErrors, KeepRest, loopVars, Procs
  <2> QED
    BY <2>2, <2>3 DEF ControlInv, KeepRest
\* A step of Log::shutdown.
<1>StopperStep.
    ASSUME ControlInv, NEW p \in Stoppers, Stopper(p) \/ StopBegin(p) \/ StopCancel(p)
    PROVE  ControlInv'
  <2> USE <1>StopperStep
  <2> USE DEF KeepRest, storageVars, guardVars, queueVars, loopVars, Procs, Steps
  <2>1. CASE StopBegin(p)
    <3>1. PICK step \in Steps :
             /\ Goto(p, step) /\ step # "broken"
             /\ step = "done" => lifecycle = "closed"
             /\ step = "store" => lifecycle # "closed"
             /\ step = "announce" => lifecycle = "poisoned"
      BY <2>1 DEF StopBegin
    <3>2. KeepRest /\ lifecycle' = lifecycle /\ shutdownSent' = shutdownSent
      BY <2>1 DEF StopBegin
    <3>3. /\ shutdownStarted' \in BOOLEAN
          /\ shutdownStarted \/ lifecycle # "closed" => shutdownStarted'
      BY <2>1, Zenon DEF StopBegin
    <3>4. Lifecycle'
      BY <3>1, <3>2, <3>3, <1>StopperMoves DEF ControlInv, Lifecycle
    <3> QED
      BY <3>1, <3>2, <3>4, <1>StopperMoves, SMT DEF ControlInv, Ownership, Channel
  <2>2. CASE StopStore(p)
    <3>1. KeepRest /\ Goto(p, "announce") /\ pc[p] = "store" /\ lifecycle' = "shutting_down"
          /\ UNCHANGED <<shutdownStarted, shutdownSent>>
      BY <2>2 DEF StopStore
    <3> QED
      BY <3>1, <1>StopperMoves, ZenonT(40) DEF ControlInv, Ownership, Lifecycle, Channel
  <2>3. CASE StopAnnounce(p)
    <3>1. KeepRest /\ Goto(p, "loop") /\ pc[p] = "announce" /\ shutdownSent' = TRUE
          /\ UNCHANGED <<lifecycle, shutdownStarted>>
      BY <2>3 DEF StopAnnounce
    <3> QED
      BY <3>1, <1>StopperMoves, ZenonT(40) DEF ControlInv, Ownership, Lifecycle, Channel
  <2>4. CASE StopLoop(p)
    <3>1. KeepRest /\ UNCHANGED <<shutdownStarted, shutdownSent>>
      BY <2>4 DEF StopLoop
    <3>2. CASE lifecycle # "closed" /\ RootIsDown
      <4>1. Goto(p, "done") /\ lifecycle' = "closed"
        BY <2>4, <3>2 DEF StopLoop
      <4>2. holder = "none"
        BY <3>2, SMT DEF RootIsDown, ControlInv, Ownership
      <4> QED
        BY <3>1, <4>1, <4>2, <1>StopperMoves DEF ControlInv, Ownership, Lifecycle, Channel
    <3>3. CASE ~(lifecycle # "closed" /\ RootIsDown)
      <4>1. PICK step \in {"done", "waiting"} :
               Goto(p, step) /\ (step = "done" => lifecycle = "closed")
        BY <2>4, <3>3 DEF StopLoop
      <4>2. lifecycle' = lifecycle
        BY <2>4, <3>3 DEF StopLoop
      <4> QED
        BY <3>1, <4>1, <4>2, <1>StopperMoves, SMT DEF ControlInv, Ownership, Lifecycle, Channel
    <3> QED
      BY <3>2, <3>3
  <2>5. CASE StopCancel(p)
    <3>1. KeepRest /\ Goto(p, "gone") /\ UNCHANGED <<lifecycle, shutdownStarted, shutdownSent>>
      BY <2>5 DEF StopCancel
    <3> QED
      BY <3>1, <1>StopperMoves, ZenonT(40) DEF ControlInv, Ownership, Lifecycle, Channel
  <2> QED
    BY <2>1, <2>2, <2>3, <2>4, <2>5 DEF Stopper
\* What is left to show when no caller or shutdown caller moves.
<1>RootKeeps.
    ASSUME ControlInv, UNCHANGED pc,
           rpc \in {"dropping", "abandoned"} => rpc' \in {"dropping", "abandoned"},
           reply' \in [Callers -> Replies], Ownership', Lifecycle', Channel'
    PROVE  ControlInv'
  BY <1>RootKeeps DEF ControlInv, HonestErrors
\* The reactor hands Storage to a blocking job.
<1>StartJobStep.
    ASSUME ControlInv, NEW kind, NEW cmds, NEW cost, StartJob(kind, cmds, cost), rpc = "top",
           UNCHANGED <<pc, reply, lifeVars, guards, receiver, closing>>
    PROVE  ControlInv'
  <2> USE <1>StartJobStep
  <2> USE DEF lifeVars
  <2>1. holder # "job"
    BY DEF ControlInv, Ownership
  <2>2. result' = result \/ result'.tag \in {"poisoned", "fatal"}
    BY DEF StartJob, LostJob
  <2>3. Ownership'
    BY <2>1, SMT DEF StartJob, ControlInv, Ownership
  <2>4. Lifecycle'
    BY DEF ControlInv, Lifecycle
  <2>5. Channel'
    BY <2>2 DEF StartJob, ControlInv, Channel, ResultTags
  <2> QED
    BY <2>3, <2>4, <2>5, <1>RootKeeps DEF ControlInv
\* The poison of a job or of a dropped reactor.
<1>PoisonKeeps.
    ASSUME ControlInv, poison, UNCHANGED <<pc, shutdownStarted>>
    PROVE  /\ lifecycle' \in {"closed", "poisoned"}
           /\ lifecycle' = "closed" => lifecycle = "closed"
           /\ Lifecycle'
  BY <1>PoisonKeeps DEF poison, ControlInv, Lifecycle
\* A step of reactor_loop.
<1>LoopStep.
    ASSUME ControlInv, Loop \/ AgeTimer \/ DropReactor
    PROVE  ControlInv'
  <2> USE <1>LoopStep
  <2> USE DEF clientVars, storageVars, lifeVars, guardVars, queueVars
  <2>1. CASE AutomaticReclaim
    BY <2>1, <1>StartJobStep DEF AutomaticReclaim
  <2>2. CASE AgeTimer
    BY <2>2, <1>StartJobStep DEF AgeTimer
  <2>3. CASE Dispatch
    BY <2>3, <1>StartJobStep DEF Dispatch
  <2>4. CASE CloseReceiver
    BY <2>4, <1>RootKeeps DEF CloseReceiver, ControlInv, Ownership, Lifecycle, Channel
  <2>5. CASE EndLoop
    BY <2>5, <1>RootKeeps DEF EndLoop, Drained, ControlInv, Ownership, Lifecycle, Channel
  <2>6. CASE FinishReactor
    BY <2>6, <1>RootKeeps DEF FinishReactor, ControlInv, Ownership, Lifecycle, Channel
  <2>7. CASE RejectPoisoned
    <3>1. /\ reply' \in [Callers -> Replies]
          /\ \A c \in Callers : reply'[c] = "dropped" => reply[c] = "dropped"
      BY <2>7 DEF RejectPoisoned, Respond, ControlInv, Replies, ResultTags
    <3> QED
      BY <2>7, <3>1, <1>RootKeeps DEF RejectPoisoned, ControlInv, Ownership, Lifecycle, Channel
  <2>8. CASE Publish
    <3>1. UNCHANGED <<clientVars, shutdownStarted, shutdownSent, reactorFinished, guardVars,
                      receiver, closing, result, holder>>
          /\ rpc = "back" /\ rpc' = "reply"
      BY <2>8 DEF Publish
    <3>2. CASE result.tag = "fatal"
      <4>1. poison
        BY <2>8, <3>2 DEF Publish
      <4> QED
        BY <3>1, <4>1, <1>PoisonKeeps, <1>RootKeeps DEF ControlInv, Ownership, Channel
    <3>3. CASE result.tag # "fatal"
      <4>1. UNCHANGED <<lifecycle, failed>>
        BY <2>8, <3>3 DEF Publish
      <4> QED
        BY <3>1, <4>1, <1>RootKeeps DEF ControlInv, Ownership, Lifecycle, Channel
    <3> QED
      BY <3>2, <3>3
  <2>9. CASE Reply
    <3>1. \A i : Told(i) \in Replies \ {"dropped"}
      BY DEF Told, CopyNonpoisoning, ControlInv, Channel, Replies, ResultTags
    <3>2. /\ reply' \in [Callers -> Replies]
          /\ \A c \in Callers : reply'[c] = "dropped" => reply[c] = "dropped"
      BY <2>9, <3>1 DEF Reply, ControlInv
    <3>3. result'.tag = "none" /\ rpc = "reply" /\ rpc' = "top"
          /\ UNCHANGED <<pc, lifeVars, guardVars, receiver, closing, holder>>
      BY <2>9 DEF Reply, NoResult
    <3> QED
      BY <3>2, <3>3, <1>RootKeeps DEF ControlInv, Ownership, Lifecycle, Channel, ResultTags
  <2>10. CASE DropReactor
    <3>1. reply' \in [Callers -> Replies]
      BY <2>10 DEF DropReactor, Respond, ControlInv, Replies
    <3>2. /\ UNCHANGED <<pc, lifeVars, guardVars, closing, result>>
          /\ rpc \in {"job", "top"} /\ rpc' = "dropping" /\ receiver' = "dropped"
          /\ holder' = IF holder = "reactor" THEN "none" ELSE holder
      BY <2>10 DEF DropReactor
    <3> QED
      BY <3>1, <3>2, <1>RootKeeps DEF ControlInv, Ownership, Lifecycle, Channel
  <2>11. CASE FinishDropped
    <3>1. UNCHANGED <<clientVars, shutdownStarted, shutdownSent, guardVars, receiver, closing,
                      result, holder>>
          /\ rpc = "dropping" /\ rpc' = "abandoned" /\ poison
      BY <2>11 DEF FinishDropped
    <3> QED
      BY <3>1, <1>PoisonKeeps, <1>RootKeeps DEF ControlInv, Ownership, Channel
  <2> QED
    BY <2>1, <2>2, <2>3, <2>4, <2>5, <2>6, <2>7, <2>8, <2>9, <2>10, <2>11 DEF Loop
\* However a job ends, it no longer owns Storage and leaves its guard behind.
<1>JobEnds.
    ASSUME ControlInv, Job
    PROVE  /\ guards' = guards + 1
           /\ \/ rpc = "job" /\ rpc' = "back" /\ holder' \in {"reactor", "none"}
                 /\ result'.tag \in ResultTags
              \/ rpc # "job" /\ rpc' = rpc /\ holder' = "none" /\ result' = result
  <2> USE <1>JobEnds
  <2>1. ASSUME NEW res, res.tag \in ResultTags, Deliver(res)
        PROVE  /\ guards' = guards + 1
               /\ \/ rpc = "job" /\ rpc' = "back" /\ holder' \in {"reactor", "none"}
                     /\ result'.tag \in ResultTags
                  \/ rpc # "job" /\ rpc' = rpc /\ holder' = "none" /\ result' = result
    BY <2>1 DEF Deliver
  <2>2. CASE LosingJob
    BY <2>2, SMT DEF LosingJob, LostJob, ResultTags
  <2>3. CASE AppendJob
    BY <2>3, <2>1, SMT DEF AppendJob, Answer, ResultTags
  <2>4. CASE ReadJob
    <3>1. \/ \E read : Deliver([tag |-> "ok", selected |-> 1, snapshot |-> read])
          \/ Deliver(Answer("error", 1)) \/ Deliver(Answer("wait", 1))
      BY <2>4, Zenon DEF ReadJob
    <3> QED
      BY <3>1, SMT DEF Deliver, Answer, ResultTags
  <2>5. CASE ReleaseJob
    BY <2>5, <2>1, SMT DEF ReleaseJob, Answer, ResultTags
  <2>6. CASE ReclaimJob
    BY <2>6, <2>1, SMT DEF ReclaimJob, Answer, ResultTags
  <2>7. CASE RolloverJob
    BY <2>7, <2>1, SMT DEF RolloverJob, Answer, ResultTags
  <2>8. CASE FailingJob
    BY <2>8, <2>1, SMT DEF FailingJob, Answer, ResultTags
  <2> QED
    BY <2>2, <2>3, <2>4, <2>5, <2>6, <2>7, <2>8 DEF Job
\* A blocking job ends, or Storage is lost with it.
<1>JobStep.
    ASSUME ControlInv, Job \/ GuardDrop
    PROVE  ControlInv'
  <2> USE <1>JobStep
  <2> USE DEF clientVars, storageVars, lifeVars, guardVars, queueVars, loopVars
  <2>1. CASE Job
    <3>1. holder = "job" /\ UNCHANGED <<clientVars, lifeVars, activeJobs, receiver, closing>>
      BY <2>1 DEF Job
    <3> QED
      BY <2>1, <3>1, <1>JobEnds, <1>RootKeeps, SMT DEF ControlInv, Ownership, Lifecycle, Channel
  <2>2. CASE GuardDrop
    <3>1. UNCHANGED <<clientVars, lifeVars, receiver, loopVars>>
          /\ guards > 0 /\ guards' = guards - 1 /\ activeJobs' = activeJobs - 1
      BY <2>2 DEF GuardDrop
    <3> QED
      BY <3>1, <1>RootKeeps, SMT DEF ControlInv, Ownership, Lifecycle, Channel
  <2> QED
    BY <2>1, <2>2
<1> SUFFICES ASSUME ControlInv, [Next]_vars PROVE ControlInv'
  OBVIOUS
<1>1. CASE Next
  BY <1>1, <1>CallerStep, <1>StopperStep, <1>LoopStep, <1>JobStep DEF Next, Step
<1>2. CASE UNCHANGED vars
  BY <1>2 DEF vars, clientVars, storageVars, lifeVars, guardVars, queueVars, loopVars,
              ControlInv, Ownership, Lifecycle, Channel, HonestErrors
<1> QED
  BY <1>1, <1>2

\* A root that was just opened satisfies ControlInv.
LEMMA ControlInit == Init => ControlInv
<1> SUFFICES ASSUME Init PROVE ControlInv
  OBVIOUS
<1>1. pc \in [Procs -> Steps] /\ \A p \in Procs : pc[p] = "idle"
  BY DEF Init, Steps
<1>2. reply \in [Callers -> Replies] /\ \A c \in Callers : reply[c] = "none"
  BY DEF Init, Replies, ResultTags
<1>3. Ownership /\ HonestErrors
  BY <1>1, SMT DEF Init, Ownership, HonestErrors, Procs
<1>4. Lifecycle
  BY <1>1 DEF Init, Lifecycle, Procs
<1>5. Channel
  BY <1>1, <1>2 DEF Init, Channel, NoResult, ResultTags, Procs
<1> QED
  BY <1>1, <1>2, <1>3, <1>4, <1>5 DEF ControlInv

-----------------------------------------------------------------------------
(* The line of commands. *)

\* Where the members of a concatenation come from.
LEMMA ConcatIndex ==
    ASSUME NEW C, NEW s \in Seq(C), NEW t \in Seq(C)
    PROVE  /\ s \o t \in Seq(C) /\ Len(s \o t) = Len(s) + Len(t)
           /\ \A i \in DOMAIN s : i \in DOMAIN (s \o t) /\ (s \o t)[i] = s[i]
           /\ \A i \in DOMAIN t : Len(s) + i \in DOMAIN (s \o t) /\ (s \o t)[Len(s) + i] = t[i]
           /\ \A i \in DOMAIN (s \o t) :
                \/ i \in DOMAIN s /\ (s \o t)[i] = s[i]
                \/ i - Len(s) \in DOMAIN t /\ i > Len(s) /\ (s \o t)[i] = t[i - Len(s)]
  BY SMT

\* Two lines of commands, one after the other, are one line in order.
LEMMA ConcatInOrder ==
    ASSUME NEW C, NEW s \in Seq(C), NEW t \in Seq(C),
           InOrder(s), InOrder(t), Precedes(s, t)
    PROVE  InOrder(s \o t)
<1> SUFFICES ASSUME NEW i \in DOMAIN (s \o t), NEW j \in DOMAIN (s \o t), i < j
             PROVE  Before((s \o t)[i], (s \o t)[j])
  BY DEF InOrder
<1>1. i \in Nat /\ j \in Nat /\ Len(s) \in Nat /\ DOMAIN s = 1..Len(s)
  BY SMT
<1>2. CASE i \in DOMAIN s /\ j \in DOMAIN s
  BY <1>2, ConcatIndex, SMT DEF InOrder
<1>3. CASE i \in DOMAIN s /\ j \notin DOMAIN s
  BY <1>3, ConcatIndex, SMT DEF Precedes
<1>4. CASE i \notin DOMAIN s
  <2>1. j \notin DOMAIN s
    BY <1>1, <1>4, SMT
  <2>2. i - Len(s) \in DOMAIN t /\ j - Len(s) \in DOMAIN t
        /\ (s \o t)[i] = t[i - Len(s)] /\ (s \o t)[j] = t[j - Len(s)]
    BY <1>4, <2>1, ConcatIndex, SMT
  <2>3. i - Len(s) < j - Len(s)
    BY <1>1, SMT
  <2> QED
    BY <2>2, <2>3 DEF InOrder
<1> QED
  BY <1>2, <1>3, <1>4

\* A concatenation holds the commands of its parts, and inherits what holds of both.
LEMMA ConcatHas ==
    ASSUME NEW C, NEW s \in Seq(C), NEW t \in Seq(C)
    PROVE  /\ \A c : Has(s \o t, c) <=> Has(s, c) \/ Has(t, c)
           /\ Owned(s) /\ Owned(t) => Owned(s \o t)
           /\ \A u : Precedes(s, u) /\ Precedes(t, u) => Precedes(s \o t, u)
           /\ \A u : Precedes(u, s) /\ Precedes(u, t) => Precedes(u, s \o t)
<1> DEFINE u == s \o t
<1>a. \A i \in DOMAIN s : i \in DOMAIN u /\ u[i] = s[i]
  BY ConcatIndex, SMT
<1>b. ASSUME NEW i \in DOMAIN t PROVE \E k \in DOMAIN u : u[k] = t[i]
  <2>1. Len(s) + i \in DOMAIN u /\ u[Len(s) + i] = t[i]
    BY ConcatIndex, SMT
  <2> QED
    BY <2>1, Zenon
<1>c. ASSUME NEW k \in DOMAIN u
      PROVE  \/ k \in DOMAIN s /\ u[k] = s[k]
             \/ \E i \in DOMAIN t : u[k] = t[i]
  <2>1. \/ k \in DOMAIN s /\ u[k] = s[k]
        \/ k - Len(s) \in DOMAIN t /\ u[k] = t[k - Len(s)]
    BY ConcatIndex
  <2> QED
    BY <2>1, Zenon
<1> HIDE DEF u
<1>1. ASSUME NEW c PROVE Has(u, c) <=> Has(s, c) \/ Has(t, c)
  <2>1. Has(u, c) => Has(s, c) \/ Has(t, c)
    BY <1>c, Zenon DEF Has
  <2>2. Has(s, c) => Has(u, c)
    BY <1>a, Zenon DEF Has
  <2>3. Has(t, c) => Has(u, c)
    BY <1>b, Zenon DEF Has
  <2> QED
    BY <2>1, <2>2, <2>3
<1>2. Owned(s) /\ Owned(t) => Owned(u)
  BY <1>c, Zenon DEF Owned
<1>3. \A v : Precedes(s, v) /\ Precedes(t, v) => Precedes(u, v)
  BY <1>c, Zenon DEF Precedes
<1>4. \A v : Precedes(v, s) /\ Precedes(v, t) => Precedes(v, u)
  BY <1>c, Zenon DEF Precedes
<1> QED
  BY <1>1, <1>2, <1>3, <1>4 DEF u

\* Members a to b of a sequence.
LEMMA SliceIndex ==
    ASSUME NEW C, NEW s \in Seq(C), NEW a \in Nat \ {0}, NEW b \in Nat, b <= Len(s)
    PROVE  /\ SubSeq(s, a, b) \in Seq(C)
           /\ \A i \in DOMAIN SubSeq(s, a, b) :
                /\ i + a - 1 \in DOMAIN s /\ a <= i + a - 1 /\ i + a - 1 <= b
                /\ SubSeq(s, a, b)[i] = s[i + a - 1]
           /\ \A k \in DOMAIN s : a <= k /\ k <= b =>
                k - a + 1 \in DOMAIN SubSeq(s, a, b) /\ SubSeq(s, a, b)[k - a + 1] = s[k]
  BY SMT

\* What follows the first n members of a sequence.
LEMMA SliceRest ==
    ASSUME NEW C, NEW s \in Seq(C), NEW n \in 0..Len(s), NEW j \in DOMAIN SubSeq(s, n + 1, Len(s))
    PROVE  j + n \in DOMAIN s /\ j + n > n /\ SubSeq(s, n + 1, Len(s))[j] = s[j + n]
  BY SMT

\* At the top of the loop the line is the backlog and the channel.
LEMMA WaitingLine ==
    ASSUME ControlInv, LineInv, rpc = "top"
    PROVE  /\ receiver # "dropped" /\ group = << >>
           /\ backlog \in Seq(CommandSet) /\ queue \in Seq(CommandSet)
           /\ Waiting \in Seq(CommandSet) /\ InOrder(Waiting) /\ Owned(Waiting)
           /\ \A c \in Callers : pc[c] = "reply" /\ reply[c] = "none" => Has(Waiting, c)
<1>1. receiver # "dropped" /\ group = << >>
  BY DEF ControlInv, Channel, LineInv, Hand
<1>2. backlog \in Seq(CommandSet) /\ queue \in Seq(CommandSet)
  BY DEF LineInv, Commands
<1>3. Waiting \in Seq(CommandSet) /\ InOrder(Waiting) /\ Owned(Waiting)
  BY <1>1, <1>2, ConcatIndex, ConcatInOrder, ConcatHas DEF LineInv, Line, Waiting
<1>4. \A c : ~Has(group, c)
  BY <1>1, SMT DEF Has
<1>5. \A c : Has(backlog, c) \/ Has(queue, c) => Has(Waiting, c)
  BY <1>2, ConcatHas DEF Waiting
<1>6. \A c \in Callers : pc[c] = "reply" /\ reply[c] = "none" => Has(Waiting, c)
  BY <1>1, <1>4, <1>5, Zenon DEF LineInv, Line
<1> QED
  BY <1>1, <1>2, <1>3, <1>6

\* reactor_loop takes at least the first command, and only such as join it.
LEMMA GroupLengthIn ==
    ASSUME CountingLaws, NEW C, NEW W \in Seq(C), W # << >>
    PROVE  /\ GroupLength(W) \in 1..Len(W) /\ GroupLength(W) <= MaxUnits
           /\ \A k \in 2..GroupLength(W) : Joins(W, k)
<1> DEFINE S == {n \in 1..Len(W) : n <= MaxUnits /\ \A k \in 2..n : Joins(W, k)}
<1>1. Len(W) \in Nat /\ 1 \in 1..Len(W) /\ S \in SUBSET Nat /\ \A n \in S : n <= Len(W)
  BY SMT
<1>2. 2..1 = {} /\ 1 <= MaxUnits
  BY ReactorAssumption, SMT
<1>3. 1 \in S
  BY <1>1, <1>2
<1>4. Max(S) \in S
  <2> HIDE DEF S
  <2> QED
    BY <1>1, <1>3, MaxMember
<1> QED
  BY <1>4 DEF GroupLength

\* What Take(1) leaves is the line without its first command.
LEMMA TakeOne ==
    ASSUME NEW C, backlog \in Seq(C), queue \in Seq(C), Waiting # << >>, Take(1)
    PROVE  \E b \in Nat : /\ 1 <= b /\ b <= Len(Waiting)
                          /\ backlog' = SubSeq(Waiting, 2, b)
                          /\ queue' = SubSeq(Waiting, b + 1, Len(Waiting))
<1>1. /\ Len(backlog) \in Nat /\ Len(queue) \in Nat
      /\ Waiting \in Seq(C) /\ Len(Waiting) = Len(backlog) + Len(queue)
  BY SMT DEF Waiting
<1>2. CASE backlog = << >>
  <2>1. Waiting = queue
    BY <1>2, SMT DEF Waiting
  <2>2. backlog' = << >> /\ queue' = SubSeq(queue, 2, Len(queue))
    BY <1>2, SMT DEF Take
  <2>3. backlog' = SubSeq(queue, 2, 1)
    BY <2>2, SMT
  <2>4. Len(queue) >= 1
    BY <2>1, SMT
  <2> QED
    BY <2>1, <2>2, <2>3, <2>4, SMT
<1>3. CASE backlog # << >>
  <2> DEFINE m == Len(backlog)
  <2>1. m >= 1 /\ m <= Len(Waiting)
    BY <1>1, <1>3, SMT
  <2>2. backlog' = SubSeq(backlog, 2, m) /\ queue' = SubSeq(queue, 1, Len(queue))
    <3>1. 1 + 1 = 2 /\ ~(1 > m)
      BY <1>1, <2>1, SMT
    <3> QED
      BY <3>1, Zenon DEF Take
  <2>3. SubSeq(backlog, 2, m) = SubSeq(Waiting, 2, m)
    BY <1>1, <2>1, SMT DEF Waiting
  <2>4. SubSeq(queue, 1, Len(queue)) = SubSeq(Waiting, m + 1, Len(Waiting))
    BY <1>1, <2>1, SMT DEF Waiting
  <2> QED
    BY <1>1, <2>1, <2>2, <2>3, <2>4
<1> QED
  BY <1>2, <1>3

\* append_group selects a prefix of its group.
LEMMA PrefixIn ==
    ASSUME CountingLaws, NEW limit \in Nat, NEW space
    PROVE  /\ Prefix(limit, space) \in 0..limit
           /\ Prefix(limit, space) # 0 => Fits(Prefix(limit, space), space)
           /\ Prefix(limit, space) = 0 => \A n \in 1..limit : ~Fits(n, space)
<1> DEFINE S == {0} \cup {n \in 1..limit : Fits(n, space)}
<1>1. S \in SUBSET Nat /\ S # {} /\ \A n \in S : n <= limit
  BY SMT
<1>2. Max(S) \in S /\ \A n \in S : n <= Max(S)
  <2> HIDE DEF S
  <2> QED
    BY <1>1, MaxMember
<1>3. 0 \in 0..limit /\ 1..limit \subseteq 0..limit /\ \A n \in 1..limit : ~(n <= 0)
  BY SMT
<1>4. Max(S) \in 0..limit /\ (Max(S) # 0 => Fits(Max(S), space))
  BY <1>2, <1>3
<1>5. Max(S) = 0 => \A n \in 1..limit : ~Fits(n, space)
  BY <1>2, <1>3
<1> QED
  BY <1>4, <1>5 DEF Prefix

\* Every step keeps LineInv: a command moves from the channel to the backlog or the group,
\* is answered or put back in front, and its place tells the order in which it was sent.
LEMMA LineStep == CountingLaws /\ ControlInv /\ LineInv /\ [Next]_vars => LineInv'
\* A slice of a line in order is in order, and every command of it is still awaited.
<1>SliceKeeps.
    ASSUME NEW C, NEW s \in Seq(C), NEW a \in Nat \ {0}, NEW b \in Nat, b <= Len(s)
    PROVE  /\ InOrder(s) => InOrder(SubSeq(s, a, b))
           /\ Owned(s) => Owned(SubSeq(s, a, b))
           /\ \A u : Precedes(s, u) => Precedes(SubSeq(s, a, b), u)
           /\ \A u : Precedes(u, s) => Precedes(u, SubSeq(s, a, b))
           /\ \A c : Has(SubSeq(s, a, b), c) => Has(s, c)
  <2> USE <1>SliceKeeps
  <2> DEFINE t == SubSeq(s, a, b)
  <2>1. \A i \in DOMAIN t : i + a - 1 \in DOMAIN s /\ t[i] = s[i + a - 1]
    BY SliceIndex, SMT
  <2>2. \A i, j \in DOMAIN t : i < j => i + a - 1 < j + a - 1
    BY SMT
  <2>3. InOrder(s) => InOrder(t)
    BY <2>1, <2>2, Zenon DEF InOrder
  <2>4. Owned(s) => Owned(t)
    BY <2>1, Zenon DEF Owned
  <2>5. \A u : (Precedes(s, u) => Precedes(t, u)) /\ (Precedes(u, s) => Precedes(u, t))
    BY <2>1, Zenon DEF Precedes
  <2>6. \A c : Has(t, c) => Has(s, c)
    BY <2>1, Zenon DEF Has
  <2> QED
    BY <2>3, <2>4, <2>5, <2>6
\* Two slices, one after the other.
<1>SlicesInOrder.
    ASSUME NEW C, NEW s \in Seq(C), InOrder(s),
           NEW a \in Nat \ {0}, NEW b \in Nat, NEW c \in Nat \ {0}, NEW d \in Nat,
           b <= Len(s), d <= Len(s), b < c
    PROVE  Precedes(SubSeq(s, a, b), SubSeq(s, c, d))
  <2> USE <1>SlicesInOrder
  <2> DEFINE t == SubSeq(s, a, b)
             u == SubSeq(s, c, d)
  <2>1. \A i \in DOMAIN t : i + a - 1 \in DOMAIN s /\ i + a - 1 <= b /\ t[i] = s[i + a - 1]
    BY SliceIndex, SMT
  <2>2. \A i \in DOMAIN u : i + c - 1 \in DOMAIN s /\ c <= i + c - 1 /\ u[i] = s[i + c - 1]
    BY SliceIndex, SMT
  <2>3. \A i \in DOMAIN t, j \in DOMAIN u : i + a - 1 < j + c - 1
    <3> SUFFICES ASSUME NEW i \in DOMAIN t, NEW j \in DOMAIN u PROVE i + a - 1 < j + c - 1
      OBVIOUS
    <3>1. i + a - 1 \in Nat /\ j + c - 1 \in Nat
      <4>1. DOMAIN s \subseteq Nat
        BY SMT
      <4> QED
        BY <2>1, <2>2, <4>1, Zenon
    <3>2. i + a - 1 <= b /\ c <= j + c - 1
      BY <2>1, <2>2
    <3> HIDE DEF t, u
    <3> DEFINE x == i + a - 1
               y == j + c - 1
    <3> HIDE DEF x, y
    <3>3. x \in Nat /\ y \in Nat /\ x <= b /\ c <= y
      BY <3>1, <3>2 DEF x, y
    <3>4. x < y
      BY <3>3, SMT
    <3> QED
      BY <3>4 DEF x, y
  <2> HIDE DEF t, u
  <2>4. Precedes(t, u)
    BY <2>1, <2>2, <2>3, Zenon DEF Precedes, InOrder
  <2> QED
    BY <2>4 DEF t, u
\* A slice has every member whose index it covers.
<1>SliceHas.
    ASSUME NEW C, NEW s \in Seq(C), NEW a \in Nat \ {0}, NEW b \in Nat, b <= Len(s),
           NEW k \in DOMAIN s, a <= k, k <= b
    PROVE  Has(SubSeq(s, a, b), s[k].call.caller)
  <2> USE <1>SliceHas
  <2>1. k - a + 1 \in DOMAIN SubSeq(s, a, b) /\ SubSeq(s, a, b)[k - a + 1] = s[k]
    BY SliceIndex, SMT
  <2> QED
    BY <2>1, Zenon DEF Has
\* Only caller c moves, and it neither sends nor awaits the answer to its command.
<1>CallerMoves.
    ASSUME ControlInv, LineInv, NEW c \in Callers, NEW step \in Steps, Goto(c, step),
           UNCHANGED <<queueVars, loopVars>>, Operations',
           \A d \in Callers \ {c} : op'[d] = op[d] /\ reply'[d] = reply[d],
           pc[c] # "gone", step # "reply", step = "send" => receiver = "open",
           pc[c] = "reply" /\ reply[c] = "none" => step = "gone"
    PROVE  LineInv'
  <2> USE <1>CallerMoves
  <2> USE DEF queueVars, loopVars
  <2>1. pc'[c] = step /\ \A d \in Procs \ {c} : pc'[d] = pc[d]
    BY CallerIsProc DEF ControlInv, Goto
  <2>2. \A d \in Callers \ {c} : pc'[d] = pc[d]
    BY <2>1 DEF Procs
  <2>3. Commands'
    BY DEF LineInv, Commands, CommandSet
  <2>4. ASSUME NEW s \in Seq(CommandSet), Owned(s)
        PROVE  \A i \in DOMAIN s : \/ pc'[s[i].call.caller] = "gone"
                                   \/ Awaits(s[i].call.caller, s[i].call)'
    <3> SUFFICES ASSUME NEW i \in DOMAIN s
                 PROVE  \/ pc'[s[i].call.caller] = "gone"
                        \/ Awaits(s[i].call.caller, s[i].call)'
      OBVIOUS
    <3>1. s[i].call.caller \in Callers
      BY CommandCaller
    <3>2. CASE s[i].call.caller = c
      BY <2>1, <2>4, <3>2 DEF Owned, Awaits
    <3>3. CASE s[i].call.caller # c
      BY <2>2, <2>4, <3>1, <3>3 DEF Owned, Awaits
    <3> QED
      BY <3>2, <3>3
  <2>5. Line'
    <3> SUFFICES ASSUME receiver # "dropped" PROVE Line'
      BY DEF Line
    <3>1. Owned(group)' /\ Owned(backlog)' /\ Owned(queue)'
      BY <2>4, Zenon DEF LineInv, Line, Commands, Owned
    <3>2. \A d \in Callers : pc'[d] = "reply" /\ reply'[d] = "none" =>
             Has(group, d)' \/ Has(backlog, d)' \/ Has(queue, d)'
      BY <2>1, <2>2, Zenon DEF LineInv, Line, Has
    <3> QED
      BY <3>1, <3>2, Zenon DEF LineInv, Line, InOrder, Precedes
  <2>6. Hand'
    <3>1. rpc \in {"finish", "ended"} =>
             \A d \in Callers : pc'[d] # "send" /\ (pc'[d] = "reply" => reply'[d] # "none")
      <4> SUFFICES ASSUME rpc \in {"finish", "ended"}, NEW d \in Callers
                   PROVE  pc'[d] # "send" /\ (pc'[d] = "reply" => reply'[d] # "none")
        OBVIOUS
      <4>1. receiver = "dropped" /\ pc[d] # "send" /\ (pc[d] = "reply" => reply[d] # "none")
        BY DEF LineInv, Hand
      <4>2. CASE d = c
        BY <2>1, <4>1, <4>2
      <4>3. CASE d # c
        BY <2>2, <4>1, <4>3
      <4> QED
        BY <4>2, <4>3
    <3> QED
      BY <3>1, Zenon DEF LineInv, Hand, InOrder
  <2> QED
    BY <2>3, <2>5, <2>6 DEF LineInv
\* A reader that checks the view keeps its operation or gives it up.
<1>ReadCheckLeads.
    ASSUME NEW c \in Callers, NEW s, ReadCheck(c, s)
    PROVE  \E step \in {"done", "broken", "send", "full", "waiting"} :
               Goto(c, step) /\ (step = "send" => receiver = "open")
  BY <1>ReadCheckLeads, ReserveLeads DEF ReadCheck
\* An operation that goes on keeps its call, and one that has returned has none.
<1>OperationsKeep.
    ASSUME ControlInv, LineInv, NEW c \in Callers, NEW step \in Steps, Goto(c, step), Settle(c),
           InOperation(c), step # "idle",
           reply' = [reply EXCEPT ![c] = "none"] \/ (reply' = reply /\ pc[c] # "reply")
    PROVE  Operations' /\ \A d \in Callers \ {c} : op'[d] = op[d] /\ reply'[d] = reply[d]
  <2> USE <1>OperationsKeep
  <2>1. pc'[c] = step /\ \A d \in Callers \ {c} : pc'[d] = pc[d]
    BY CallerIsProc DEF ControlInv, Goto, Procs
  <2>2. op \in [Callers -> Calls \cup {NoOp}] /\ op[c] \in Calls /\ op[c].caller = c
    BY DEF LineInv, Operations
  <2>3. op' \in [Callers -> Calls \cup {NoOp}] /\ \A d \in Callers \ {c} : op'[d] = op[d]
    BY <2>2 DEF Settle
  <2>4. step \notin {"done", "gone"} => op'[c] = op[c]
    BY <2>1 DEF Settle
  <2>5. reply'[c] = "none" /\ \A d \in Callers \ {c} : reply'[d] = reply[d]
    BY DEF ControlInv, LineInv, Operations
  <2>6. ASSUME NEW d \in Callers
        PROVE  /\ InOperation(d)' => op'[d] \in Calls /\ op'[d].caller = d
               /\ pc'[d] # "reply" => reply'[d] = "none"
    <3>1. CASE d = c
      BY <2>1, <2>2, <2>4, <2>5, <3>1 DEF InOperation
    <3>2. CASE d # c
      <4>1. pc'[d] = pc[d] /\ op'[d] = op[d] /\ reply'[d] = reply[d]
        BY <2>1, <2>3, <2>5, <3>2
      <4> QED
        BY <4>1 DEF LineInv, Operations, InOperation
    <3> QED
      BY <3>1, <3>2
  <2> QED
    BY <2>3, <2>5, <2>6 DEF Operations
\* A caller reserves, checks, receives or wakes.
<1>LineClient.
    ASSUME ControlInv, LineInv, NEW c \in Callers,
           GetPermit(c) \/ Receive(c) \/ Wake(c) \/ Cancel(c)
    PROVE  LineInv'
  <2> USE <1>LineClient
  <2>1. UNCHANGED <<queueVars, loopVars>>
    BY DEF GetPermit, Receive, Wake, Cancel, KeepRoot
  <2>2. Settle(c) /\ InOperation(c)
    BY DEF GetPermit, Receive, Wake, Cancel, InOperation
  <2>3. reply' = [reply EXCEPT ![c] = "none"] \/ (reply' = reply /\ pc[c] # "reply")
    BY DEF GetPermit, Receive, Wake, Cancel
  <2>4. PICK step \in Steps \ {"idle", "reply"} :
           /\ Goto(c, step) /\ (step = "send" => receiver = "open")
           /\ pc[c] = "reply" /\ reply[c] = "none" => step = "gone"
    <3>1. CASE GetPermit(c)
      BY <3>1, ReserveLeads DEF GetPermit, Steps
    <3>2. CASE Receive(c)
      BY <3>2 DEF Receive, Finish, FinishChannel, Steps
    <3>3. CASE Wake(c)
      BY <3>3, ReserveLeads, <1>ReadCheckLeads DEF Wake, Steps
    <3>4. CASE Cancel(c)
      BY <3>4 DEF Cancel, Steps
    <3> QED
      BY <3>1, <3>2, <3>3, <3>4
  <2>5. Operations' /\ \A d \in Callers \ {c} : op'[d] = op[d] /\ reply'[d] = reply[d]
    BY <2>2, <2>3, <2>4, <1>OperationsKeep
  <2> QED
    BY <2>1, <2>2, <2>4, <2>5, <1>CallerMoves DEF InOperation
\* A caller starts an operation.
<1>LineStart.
    ASSUME ControlInv, LineInv, NEW c \in Callers, Start(c)
    PROVE  LineInv'
  <2> USE <1>LineStart
  <2>1. UNCHANGED <<queueVars, loopVars>> /\ reply' = reply /\ pc[c] = "idle"
    BY DEF Start, KeepRoot
  <2>2. PICK call \in Calls : /\ call.caller = c /\ op' = [op EXCEPT ![c] = call]
                              /\ ReadCheck(c, call.stream) \/ Reserve(c)
    BY DEF Start
  <2>3. PICK step \in Steps \ {"idle", "reply"} :
           Goto(c, step) /\ (step = "send" => receiver = "open")
    BY <2>2, ReserveLeads, <1>ReadCheckLeads DEF Steps
  <2>4. pc'[c] = step /\ \A d \in Callers \ {c} : pc'[d] = pc[d]
    BY <2>3, CallerIsProc DEF ControlInv, Goto, Procs
  <2>5. op' \in [Callers -> Calls \cup {NoOp}] /\ op'[c] = call /\ \A d \in Callers \ {c} : op'[d] = op[d]
    BY <2>2 DEF LineInv, Operations
  <2>6. ASSUME NEW d \in Callers
        PROVE  /\ InOperation(d)' => op'[d] \in Calls /\ op'[d].caller = d
               /\ pc'[d] # "reply" => reply'[d] = "none"
    BY <2>1, <2>2, <2>3, <2>4, <2>5 DEF LineInv, Operations, InOperation
  <2>7. Operations'
    BY <2>5, <2>6 DEF Operations
  <2> QED
    BY <2>1, <2>3, <2>5, <2>7, <1>CallerMoves
\* A caller sends its command: the last of the line.
<1>LineSend.
    ASSUME ControlInv, LineInv, NEW c \in Callers, Send(c)
    PROVE  LineInv'
  <2> USE <1>LineSend
  <2> USE DEF KeepRoot, loopVars
  <2> DEFINE x == [call |-> op[c], ticket |-> tickets + 1]
  <2>1. /\ pc[c] = "send" /\ queue' = Append(queue, x) /\ tickets' = tickets + 1 /\ Goto(c, "reply")
        /\ UNCHANGED <<group, backlog, rpc, closing, jobKind, result, holder, op, receiver, reply>>
    BY DEF Send
  <2>2. pc'[c] = "reply" /\ \A d \in Callers \ {c} : pc'[d] = pc[d]
    BY <2>1, CallerIsProc DEF ControlInv, Goto, Procs
  <2>3. op[c] \in Calls /\ op[c].caller = c /\ reply[c] = "none"
    BY <2>1 DEF LineInv, Operations, InOperation
  <2>4. tickets \in Nat /\ x.call = op[c] /\ x.ticket = tickets + 1
    BY DEF LineInv, Commands
  <2>5. Commands'
    <3>1. CommandSet \subseteq CommandSet'
      BY <2>1, <2>4, SMT DEF CommandSet
    <3>2. x \in CommandSet'
      BY <2>1, <2>3, <2>4, SMT DEF CommandSet
    <3>3. \A s \in Seq(CommandSet) : s \in Seq(CommandSet')
      BY <3>1, SMT
    <3>4. queue \in Seq(CommandSet')
      BY <3>3 DEF LineInv, Commands
    <3>5. queue' \in Seq(CommandSet')
      BY <2>1, <3>2, <3>4, SMT
    <3> QED
      BY <2>1, <2>4, <3>3, <3>5, SMT DEF LineInv, Commands
  <2>6. Operations'
    BY <2>1, <2>2, <2>3 DEF LineInv, Operations, InOperation
  <2>7. Line'
    <3> SUFFICES ASSUME receiver # "dropped" PROVE Line'
      BY <2>1 DEF Line
    <3>a. queue \in Seq(CommandSet) /\ group \in Seq(CommandSet) /\ backlog \in Seq(CommandSet)
      BY DEF LineInv, Commands
    <3>b. ASSUME NEW s \in Seq(CommandSet), Owned(s), NEW i \in DOMAIN s
          PROVE  s[i].call.caller \in Callers /\ s[i].call.caller # c /\ Before(s[i], x)
      <4>1. s[i].call.caller \in Callers /\ s[i].ticket \in 1..tickets
        BY CommandCaller
      <4>2. s[i].call.caller # c
        BY <2>1, <3>b DEF Owned, Awaits
      <4>3. s[i].ticket < tickets + 1
        BY <2>4, <4>1, SMT
      <4> QED
        BY <2>3, <2>4, <4>1, <4>2, <4>3, Zenon DEF Before
    <3>c. DOMAIN queue' = DOMAIN queue \cup {Len(queue) + 1} /\ queue'[Len(queue) + 1] = x
          /\ \A i \in DOMAIN queue : queue'[i] = queue[i] /\ i < Len(queue) + 1
      BY <2>1, <3>a, SMT
    <3>d. Owned(group) /\ Owned(backlog) /\ Owned(queue)
      BY DEF LineInv, Line
    <3>1. InOrder(queue')
      <4> SUFFICES ASSUME NEW i \in DOMAIN queue', NEW j \in DOMAIN queue', i < j
                   PROVE  Before(queue'[i], queue'[j])
        BY DEF InOrder
      <4>1. i \in DOMAIN queue
        BY <3>a, <3>c, SMT
      <4>2. CASE j \in DOMAIN queue
        BY <3>c, <4>1, <4>2 DEF LineInv, Line, InOrder
      <4>3. CASE j = Len(queue) + 1
        BY <3>a, <3>b, <3>c, <3>d, <4>1, <4>3
      <4> QED
        BY <3>c, <4>2, <4>3
    <3>2. Precedes(group, queue') /\ Precedes(backlog, queue')
      <4>1. ASSUME NEW s \in Seq(CommandSet), Owned(s), Precedes(s, queue)
            PROVE  Precedes(s, queue')
        <5> SUFFICES ASSUME NEW i \in DOMAIN s, NEW j \in DOMAIN queue'
                     PROVE  Before(s[i], queue'[j])
          BY DEF Precedes
        <5>1. CASE j \in DOMAIN queue
          BY <3>c, <4>1, <5>1 DEF Precedes
        <5>2. CASE j = Len(queue) + 1
          BY <3>b, <3>c, <4>1, <5>2
        <5> QED
          BY <3>c, <5>1, <5>2
      <4> QED
        BY <3>a, <3>d, <4>1 DEF LineInv, Line
    <3>3. ASSUME NEW s \in Seq(CommandSet), Owned(s)
          PROVE  \A i \in DOMAIN s : pc'[s[i].call.caller] = "gone" \/ Awaits(s[i].call.caller, s[i].call)'
      <4> SUFFICES ASSUME NEW i \in DOMAIN s
                   PROVE  pc'[s[i].call.caller] = "gone" \/ Awaits(s[i].call.caller, s[i].call)'
        OBVIOUS
      <4>1. s[i].call.caller \in Callers \ {c}
        BY <3>3, <3>b
      <4> QED
        BY <2>1, <2>2, <3>3, <4>1 DEF Owned, Awaits
    <3>4. Owned(group)' /\ Owned(backlog)'
      BY <2>1, <3>a, <3>d, <3>3, Zenon DEF Owned
    <3>5. Owned(queue)'
      <4> SUFFICES ASSUME NEW j \in DOMAIN queue'
                   PROVE  LET d == queue'[j].call.caller
                          IN \/ pc'[d] = "gone"
                             \/ pc'[d] = "reply" /\ reply'[d] = "none" /\ op'[d] = queue'[j].call
        BY DEF Owned, Awaits
      <4>1. CASE j \in DOMAIN queue
        BY <3>a, <3>c, <3>d, <3>3, <4>1, SMT DEF Awaits
      <4>2. CASE j = Len(queue) + 1
        <5>1. queue'[j].call = op[c] /\ queue'[j].call.caller = c
          BY <2>3, <2>4, <3>c, <4>2
        <5> QED
          BY <2>1, <2>2, <2>3, <5>1
      <4> QED
        BY <3>c, <4>1, <4>2
    <3>7. \A d \in Callers : pc'[d] = "reply" /\ reply'[d] = "none" =>
             Has(group, d)' \/ Has(backlog, d)' \/ Has(queue, d)'
      <4> SUFFICES ASSUME NEW d \in Callers, pc'[d] = "reply", reply'[d] = "none"
                   PROVE  Has(group, d) \/ Has(backlog, d) \/ Has(queue', d)
        BY <2>1 DEF Has
      <4>1. CASE d = c
        <5>1. Len(queue) + 1 \in DOMAIN queue' /\ queue'[Len(queue) + 1].call.caller = c
          BY <2>3, <2>4, <3>c
        <5> QED
          BY <4>1, <5>1, Zenon DEF Has
      <4>2. CASE d # c
        <5>1. Has(group, d) \/ Has(backlog, d) \/ Has(queue, d)
          BY <2>1, <2>2, <4>2 DEF LineInv, Line
        <5>2. Has(queue, d) => Has(queue', d)
          BY <3>c, Zenon DEF Has
        <5> QED
          BY <5>1, <5>2
      <4> QED
        BY <4>1, <4>2
    <3> QED
      BY <2>1, <3>1, <3>2, <3>4, <3>5, <3>7, Zenon DEF LineInv, Line, InOrder, Precedes
  <2>8. Hand'
    BY <2>1, <2>2, Zenon DEF LineInv, Hand, InOrder
  <2> QED
    BY <2>5, <2>6, <2>7, <2>8 DEF LineInv
\* Shutdown callers leave the line alone.
<1>LineStopper.
    ASSUME ControlInv, LineInv, NEW p \in Stoppers, Stopper(p) \/ StopBegin(p) \/ StopCancel(p)
    PROVE  LineInv'
  <2> USE <1>LineStopper
  <2> USE DEF queueVars, loopVars
  <2>1. KeepRest /\ \E step : Goto(p, step)
    BY DEF Stopper, StopBegin, StopCancel, StopStore, StopAnnounce, StopLoop
  <2>2. UNCHANGED <<op, reply, queueVars, loopVars>>
    BY <2>1 DEF KeepRest
  <2>3. \A c \in Callers : pc'[c] = pc[c]
    <3>1. p \notin Callers
      BY ReactorAssumption
    <3> QED
      BY <2>1, <3>1 DEF ControlInv, Goto, Procs
  <2>4. Operations'
    BY <2>2, <2>3 DEF LineInv, Operations, InOperation
  <2>5. Commands'
    BY <2>2 DEF LineInv, Commands, CommandSet
  <2>6. ASSUME NEW s \in Seq(CommandSet), Owned(s)
        PROVE  \A i \in DOMAIN s : pc'[s[i].call.caller] = "gone" \/ Awaits(s[i].call.caller, s[i].call)'
    <3> SUFFICES ASSUME NEW i \in DOMAIN s
                 PROVE  pc'[s[i].call.caller] = "gone" \/ Awaits(s[i].call.caller, s[i].call)'
      OBVIOUS
    <3>1. s[i].call.caller \in Callers
      BY CommandCaller
    <3> QED
      BY <2>2, <2>3, <2>6, <3>1 DEF Owned, Awaits
  <2>7. Line'
    <3> SUFFICES ASSUME receiver # "dropped" PROVE Line'
      BY <2>2 DEF Line
    <3>1. Owned(group)' /\ Owned(backlog)' /\ Owned(queue)'
      BY <2>2, <2>6, Zenon DEF LineInv, Line, Commands, Owned
    <3>2. \A d \in Callers : pc'[d] = "reply" /\ reply'[d] = "none" =>
             Has(group, d)' \/ Has(backlog, d)' \/ Has(queue, d)'
      BY <2>2, <2>3, Zenon DEF LineInv, Line, Has
    <3> QED
      BY <2>2, <3>1, <3>2, Zenon DEF LineInv, Line, InOrder, Precedes
  <2>8. Hand'
    BY <2>2, <2>3, Zenon DEF LineInv, Hand, InOrder
  <2> QED
    BY <2>4, <2>5, <2>7, <2>8 DEF LineInv
\* Neither callers nor the line change.
<1>LineKeeps.
    ASSUME LineInv, UNCHANGED <<pc, op, reply, queue, backlog, group, tickets>>,
           receiver' = "dropped" \/ receiver # "dropped", Hand'
    PROVE  LineInv'
  <2> USE <1>LineKeeps
  <2>1. Operations' /\ Commands'
    BY DEF LineInv, Operations, InOperation, Commands, CommandSet
  <2>2. Line'
    BY Zenon DEF LineInv, Line, InOrder, Precedes, Owned, Awaits, Has
  <2> QED
    BY <2>1, <2>2 DEF LineInv
\* The line cut after its first a and its first b commands.
<1>LineSplit.
    ASSUME NEW C, NEW W \in Seq(C), InOrder(W), Owned(W),
           NEW a \in Nat, NEW b \in Nat, a <= b, b <= Len(W)
    PROVE  /\ SubSeq(W, 1, a) \in Seq(C) /\ SubSeq(W, a + 1, b) \in Seq(C)
           /\ SubSeq(W, b + 1, Len(W)) \in Seq(C)
           /\ InOrder(SubSeq(W, 1, a)) /\ InOrder(SubSeq(W, a + 1, b))
           /\ InOrder(SubSeq(W, b + 1, Len(W)))
           /\ Owned(SubSeq(W, 1, a)) /\ Owned(SubSeq(W, a + 1, b))
           /\ Owned(SubSeq(W, b + 1, Len(W)))
           /\ Precedes(SubSeq(W, 1, a), SubSeq(W, a + 1, b))
           /\ Precedes(SubSeq(W, 1, a), SubSeq(W, b + 1, Len(W)))
           /\ Precedes(SubSeq(W, a + 1, b), SubSeq(W, b + 1, Len(W)))
           /\ \A c : Has(W, c) => \/ Has(SubSeq(W, 1, a), c) \/ Has(SubSeq(W, a + 1, b), c)
                                  \/ Has(SubSeq(W, b + 1, Len(W)), c)
  <2> USE <1>LineSplit
  <2>1. /\ 1 \in Nat \ {0} /\ a + 1 \in Nat \ {0} /\ b + 1 \in Nat \ {0} /\ Len(W) \in Nat
        /\ a <= Len(W) /\ Len(W) <= Len(W) /\ a < a + 1 /\ a < b + 1 /\ b < b + 1
    BY SMT
  <2>2. /\ SubSeq(W, 1, a) \in Seq(C) /\ SubSeq(W, a + 1, b) \in Seq(C)
        /\ SubSeq(W, b + 1, Len(W)) \in Seq(C)
    BY <2>1, SliceIndex
  <2>3. /\ InOrder(SubSeq(W, 1, a)) /\ InOrder(SubSeq(W, a + 1, b))
        /\ InOrder(SubSeq(W, b + 1, Len(W)))
        /\ Owned(SubSeq(W, 1, a)) /\ Owned(SubSeq(W, a + 1, b))
        /\ Owned(SubSeq(W, b + 1, Len(W)))
    BY <2>1, <1>SliceKeeps
  <2>4. /\ Precedes(SubSeq(W, 1, a), SubSeq(W, a + 1, b))
        /\ Precedes(SubSeq(W, 1, a), SubSeq(W, b + 1, Len(W)))
        /\ Precedes(SubSeq(W, a + 1, b), SubSeq(W, b + 1, Len(W)))
    BY <2>1, <1>SlicesInOrder
  <2>5. ASSUME NEW c, Has(W, c)
        PROVE  \/ Has(SubSeq(W, 1, a), c) \/ Has(SubSeq(W, a + 1, b), c)
               \/ Has(SubSeq(W, b + 1, Len(W)), c)
    <3>1. PICK k \in DOMAIN W : W[k].call.caller = c
      BY <2>5 DEF Has
    <3>2. 1 <= k /\ k <= Len(W) /\ k \in Nat
      BY SMT
    <3>3. k <= a \/ (a + 1 <= k /\ k <= b) \/ b + 1 <= k
      BY <3>2, SMT
    <3> QED
      BY <2>1, <3>1, <3>2, <3>3, <1>SliceHas
  <2> QED
    BY <2>2, <2>3, <2>4, <2>5
\* The reactor takes its next group from the front of the line.
<1>LineDispatch.
    ASSUME CountingLaws, ControlInv, LineInv, Dispatch
    PROVE  LineInv'
  <2> USE <1>LineDispatch
  <2>0. rpc = "top"
    BY DEF Dispatch
  <2> DEFINE W == Waiting
             n == GroupLength(W)
  <2>1. W \in Seq(CommandSet) /\ InOrder(W) /\ Owned(W) /\ receiver # "dropped" /\ group = << >>
    BY <2>0, WaitingLine
  <2>2. W # << >>
    BY DEF Dispatch
  <2>3. n \in 1..Len(W) /\ \A k \in 2..n : Joins(W, k)
    BY <2>1, <2>2, GroupLengthIn
  <2>4. Len(backlog) \in Nat /\ Len(W) \in Nat /\ Len(backlog) <= Len(W)
    <3>1. backlog \in Seq(CommandSet) /\ queue \in Seq(CommandSet)
      BY DEF LineInv, Commands
    <3> QED
      BY <3>1, SMT DEF Waiting
  <2>5. PICK taken \in {n, n + 1} :
          /\ taken <= Len(W)
          /\ LET kept == Max({taken, Len(backlog)})
             IN /\ group' = SubSeq(W, 1, n)
                /\ backlog' = SubSeq(W, n + 1, kept)
                /\ queue' = SubSeq(W, kept + 1, Len(W))
    <3> DEFINE t == IF n < MaxUnits /\ n < Len(W) /\ Groupable(W[1]) THEN n + 1 ELSE n
    <3>1. t \in {n, n + 1} /\ t <= Len(W)
      <4> HIDE DEF W, n
      <4> QED
        BY <2>3, <2>4, SMT
    <3> QED
      BY <3>1, Zenon DEF Dispatch
  <2> DEFINE kept == Max({taken, Len(backlog)})
  <2>6. kept \in Nat /\ n <= kept /\ kept <= Len(W) /\ n \in Nat
    <3>1. taken \in Nat /\ n \in Nat /\ n <= taken
      <4> HIDE DEF n, W
      <4> QED
        BY <2>3, <2>4, <2>5, SMT
    <3>2. kept \in {taken, Len(backlog)} /\ \A x \in {taken, Len(backlog)} : x <= kept
      <4> DEFINE S == {taken, Len(backlog)}
      <4>1. S \in SUBSET Nat /\ S # {} /\ \A x \in S : x <= Len(W)
        BY <2>4, <2>5, <3>1
      <4> HIDE DEF S
      <4>2. Max(S) \in S /\ \A x \in S : x <= Max(S)
        BY <2>4, <4>1, MaxMember
      <4> QED
        BY <4>2 DEF S
    <3> HIDE DEF n, W, kept
    <3> QED
      BY <2>4, <2>5, <3>1, <3>2, SMT
  <2>7. /\ UNCHANGED <<clientVars, receiver, tickets, closing>>
        /\ StartJob(W[1].call.kind, group', 0)
    BY DEF Dispatch
  <2>a. group' = SubSeq(W, 1, n) /\ backlog' = SubSeq(W, n + 1, kept) /\ queue' = SubSeq(W, kept + 1, Len(W))
    BY <2>5
  <2> HIDE DEF kept, n
  <2>8. /\ group' \in Seq(CommandSet) /\ backlog' \in Seq(CommandSet) /\ queue' \in Seq(CommandSet)
        /\ InOrder(group') /\ InOrder(backlog') /\ InOrder(queue')
        /\ Owned(group') /\ Owned(backlog') /\ Owned(queue')
        /\ Precedes(group', backlog') /\ Precedes(group', queue') /\ Precedes(backlog', queue')
        /\ \A c : Has(W, c) => Has(group', c) \/ Has(backlog', c) \/ Has(queue', c)
    BY <2>1, <2>6, <2>a, <1>LineSplit
  <2>9. Operations' /\ Commands'
    BY <2>7, <2>8 DEF LineInv, Operations, InOperation, Commands, CommandSet, clientVars
  <2>10. Line'
    <3>1. Owned(group)' /\ Owned(backlog)' /\ Owned(queue)'
      BY <2>7, <2>8, Zenon DEF Owned, Awaits, clientVars
    <3>2. \A c \in Callers : pc'[c] = "reply" /\ reply'[c] = "none" =>
             Has(group, c)' \/ Has(backlog, c)' \/ Has(queue, c)'
      BY <2>0, <2>7, <2>8, WaitingLine, Zenon DEF Has, clientVars
    <3> QED
      BY <2>8, <3>1, <3>2, Zenon DEF Line, InOrder, Precedes
  <2>11. Hand'
    <3>1. \/ rpc' = "job" /\ holder' = "job"
          \/ rpc' = "back" /\ result'.tag # "none" /\ result'.selected = Len(group')
      BY <2>7 DEF StartJob, LostJob
    <3>2. jobKind' = W[1].call.kind
      BY <2>7 DEF StartJob
    <3>3. ASSUME NEW i \in DOMAIN group' PROVE group'[i].call.kind = W[1].call.kind
      <4>1. i \in 1..n /\ group'[i] = W[i]
        BY <2>1, <2>3, <2>a, SMT
      <4>2. CASE i = 1
        BY <4>1, <4>2
      <4>3. CASE i # 1
        <5>1. i \in 2..n
          BY <2>6, <4>1, <4>3, SMT
        <5> QED
          BY <2>3, <4>1, <5>1 DEF Joins
      <4> QED
        BY <4>2, <4>3
    <3>4. group' # << >>
      BY <2>1, <2>3, <2>a, SMT
    <3>5. Len(group') \in 0..Len(group')
      BY <2>8, SMT
    <3> QED
      BY <2>8, <3>1, <3>2, <3>3, <3>4, <3>5, Zenon DEF Hand, InOrder
  <2> QED
    BY <2>9, <2>10, <2>11 DEF LineInv
\* Answers go only to callers that await one.
<1>AnswersKeep.
    ASSUME LineInv, UNCHANGED <<pc, op>>, NEW r, reply' = r, DOMAIN r = Callers,
           \A c \in Callers : pc[c] # "reply" => r[c] = reply[c]
    PROVE  Operations'
  BY <1>AnswersKeep DEF LineInv, Operations, InOperation
\* Commands of a later part of the line have other callers.
<1>OtherCallers.
    ASSUME NEW s, NEW t, Precedes(s, t), NEW i \in DOMAIN t
    PROVE  ~Has(s, t[i].call.caller)
  BY <1>OtherCallers, Zenon DEF Has, Precedes, Before
\* Commands that a stopped root rejects are answered.
<1>LineReject.
    ASSUME ControlInv, LineInv, RejectPoisoned
    PROVE  LineInv'
  <2> USE <1>LineReject
  <2> DEFINE W == Waiting
             x == SubSeq(W, 1, 1)
  <2>0. rpc = "top" /\ Take(1) /\ W # << >> /\ reply' = Respond(x, "poisoned")
        /\ UNCHANGED <<pc, op, receiver, tickets, closing, rpc, group, jobKind, result, holder>>
    BY DEF RejectPoisoned
  <2>1. /\ W \in Seq(CommandSet) /\ InOrder(W) /\ Owned(W) /\ receiver # "dropped" /\ group = << >>
        /\ backlog \in Seq(CommandSet) /\ queue \in Seq(CommandSet)
        /\ \A c \in Callers : pc[c] = "reply" /\ reply[c] = "none" => Has(W, c)
    BY <2>0, WaitingLine
  <2>2. PICK b \in Nat : /\ 1 <= b /\ b <= Len(W)
                         /\ backlog' = SubSeq(W, 2, b) /\ queue' = SubSeq(W, b + 1, Len(W))
    BY <2>0, <2>1, TakeOne
  <2>3. /\ backlog' \in Seq(CommandSet) /\ queue' \in Seq(CommandSet)
        /\ InOrder(backlog') /\ InOrder(queue') /\ Owned(backlog') /\ Owned(queue')
        /\ Precedes(x, backlog') /\ Precedes(x, queue') /\ Precedes(backlog', queue')
        /\ \A c : Has(W, c) => Has(x, c) \/ Has(backlog', c) \/ Has(queue', c)
    <3>1. 1 + 1 = 2 /\ 1 \in Nat
      BY SMT
    <3> QED
      BY <2>1, <2>2, <3>1, <1>LineSplit
  <2>4. \A c \in Callers : reply'[c] = IF pc[c] = "reply" /\ Has(x, c) THEN "poisoned" ELSE reply[c]
    BY <2>0, Zenon DEF Respond, Has
  <2>5. Operations'
    <3>1. DOMAIN Respond(x, "poisoned") = Callers
      BY DEF Respond
    <3> QED
      BY <2>0, <2>4, <3>1, <1>AnswersKeep
  <2>6. Commands'
    BY <2>0, <2>3 DEF LineInv, Commands, CommandSet
  <2>7. Line'
    <3>1. \A i \in DOMAIN backlog' : reply'[backlog'[i].call.caller] = reply[backlog'[i].call.caller]
      BY <2>3, <2>4, <1>OtherCallers, CommandCaller, Zenon
    <3>2. \A i \in DOMAIN queue' : reply'[queue'[i].call.caller] = reply[queue'[i].call.caller]
      BY <2>3, <2>4, <1>OtherCallers, CommandCaller, Zenon
    <3>3. Owned(backlog)' /\ Owned(queue)' /\ Owned(group)'
      <4>1. Owned(backlog)'
        BY <2>0, <2>3, <3>1, Zenon DEF Owned, Awaits
      <4>2. Owned(queue)'
        BY <2>0, <2>3, <3>2, Zenon DEF Owned, Awaits
      <4>3. Owned(group)'
        <5>1. DOMAIN group' = {}
          BY <2>0, <2>1, SMT
        <5> QED
          BY <5>1 DEF Owned
      <4> QED
        BY <4>1, <4>2, <4>3
    <3>4. Precedes(group, backlog)' /\ Precedes(group, queue)'
      <4>1. DOMAIN group' = {}
        BY <2>0, <2>1, SMT
      <4> QED
        BY <4>1 DEF Precedes
    <3>5. ASSUME NEW c \in Callers, pc'[c] = "reply", reply'[c] = "none"
          PROVE  Has(backlog', c) \/ Has(queue', c)
      <4>1. ~Has(x, c) /\ pc[c] = "reply" /\ reply[c] = "none"
        BY <2>0, <2>4, <3>5
      <4> QED
        BY <2>1, <2>3, <4>1
    <3> QED
      BY <2>3, <3>3, <3>4, <3>5, Zenon DEF Line, Has, InOrder, Precedes
  <2>8. Hand'
    BY <2>0, Zenon DEF LineInv, Hand, InOrder
  <2> QED
    BY <2>5, <2>6, <2>7, <2>8 DEF LineInv
\* The selected commands are answered and the others go back in front.
<1>LineReply.
    ASSUME ControlInv, LineInv, Reply
    PROVE  LineInv'
  <2> USE <1>LineReply
  <2> DEFINE n == result.selected
             x == SubSeq(group, 1, n)
             y == SubSeq(group, n + 1, Len(group))
  <2>0. /\ rpc = "reply" /\ rpc' = "top" /\ group' = << >> /\ backlog' = y \o backlog
        /\ reply' = [c \in Callers |->
             IF pc[c] = "reply" /\ \E i \in 1..n : group[i].call.caller = c
             THEN Told(CHOOSE i \in 1..n : group[i].call.caller = c) ELSE reply[c]]
        /\ UNCHANGED <<pc, op, queue, receiver, tickets>>
    BY DEF Reply, Requeue, queueVars
  <2>1. /\ receiver # "dropped" /\ n \in 0..Len(group) /\ result.tag # "none"
        /\ group \in Seq(CommandSet) /\ backlog \in Seq(CommandSet) /\ queue \in Seq(CommandSet)
        /\ InOrder(group) /\ Owned(group)
    BY <2>0 DEF ControlInv, Channel, LineInv, Hand, Commands, Line
  <2>2. Len(group) \in Nat /\ n \in Nat /\ n <= Len(group) /\ n + 1 \in Nat \ {0} /\ 1 \in Nat \ {0}
        /\ Len(group) <= Len(group) /\ n < n + 1
    BY <2>1, SMT
  <2>3. /\ x \in Seq(CommandSet) /\ y \in Seq(CommandSet) /\ InOrder(y) /\ Owned(y)
        /\ Precedes(x, y) /\ Precedes(x, backlog) /\ Precedes(x, queue)
        /\ Precedes(y, backlog) /\ Precedes(y, queue)
    <3> HIDE DEF n
    <3>1. x \in Seq(CommandSet) /\ y \in Seq(CommandSet)
      BY <2>1, <2>2, SliceIndex
    <3>2. InOrder(y) /\ Owned(y)
      BY <2>1, <2>2, <1>SliceKeeps
    <3>3. Precedes(group, backlog) /\ Precedes(group, queue)
      BY <2>1 DEF LineInv, Line
    <3>4. Precedes(x, backlog) /\ Precedes(x, queue) /\ Precedes(y, backlog) /\ Precedes(y, queue)
      BY <2>1, <2>2, <3>3, <1>SliceKeeps
    <3>5. Precedes(x, y)
      BY <2>1, <2>2, <1>SlicesInOrder
    <3> QED
      BY <3>1, <3>2, <3>4, <3>5
  <2>4. \A c : (\E i \in 1..n : group[i].call.caller = c) <=> Has(x, c)
    <3> HIDE DEF n
    <3>1. DOMAIN x = 1..n /\ \A i \in 1..n : x[i] = group[i]
      BY <2>1, <2>2, SMT
    <3> QED
      BY <3>1, Zenon DEF Has
  <2>5. \A i : Told(i) # "none"
    BY <2>1 DEF Told, CopyNonpoisoning
  <2>6. \A c \in Callers : IF pc[c] = "reply" /\ Has(x, c) THEN reply'[c] # "none"
                           ELSE reply'[c] = reply[c]
    <3> SUFFICES ASSUME NEW c \in Callers
                 PROVE  IF pc[c] = "reply" /\ Has(x, c) THEN reply'[c] # "none" ELSE reply'[c] = reply[c]
      OBVIOUS
    <3>1. reply'[c] = IF pc[c] = "reply" /\ Has(x, c)
                      THEN Told(CHOOSE i \in 1..n : group[i].call.caller = c) ELSE reply[c]
      BY <2>0, <2>4, Zenon
    <3> QED
      BY <2>5, <3>1, Zenon
  <2>u. UNCHANGED <<pc, op, queue>>
    BY <2>0
  <2>7. \A c : Has(group, c) => Has(x, c) \/ Has(y, c)
    <3> HIDE DEF n
    <3> SUFFICES ASSUME NEW c, Has(group, c) PROVE Has(x, c) \/ Has(y, c)
      OBVIOUS
    <3>1. PICK k \in DOMAIN group : group[k].call.caller = c
      BY DEF Has
    <3>2. k \in Nat /\ 1 <= k /\ k <= Len(group)
      BY <2>1, SMT
    <3>3. k <= n \/ n + 1 <= k
      BY <2>2, <3>2, SMT
    <3> QED
      BY <2>1, <2>2, <3>1, <3>2, <3>3, <1>SliceHas
  <2> HIDE DEF n, x, y
  <2>8. Operations'
    BY <2>0, <2>6, <1>AnswersKeep
  <2>9. backlog' \in Seq(CommandSet)
    BY <2>0, <2>1, <2>3, ConcatIndex
  <2>10. Commands'
    BY <2>0, <2>1, <2>9, SMT DEF LineInv, Commands, CommandSet
  <2>11. Line'
    <3>1. InOrder(backlog') /\ Owned(backlog') /\ Precedes(backlog', queue) /\ Precedes(x, backlog')
      BY <2>0, <2>1, <2>3, ConcatInOrder, ConcatHas DEF LineInv, Line
    <3>2. \A i \in DOMAIN backlog' : reply'[backlog'[i].call.caller] = reply[backlog'[i].call.caller]
      BY <2>6, <2>9, <3>1, <1>OtherCallers, CommandCaller, Zenon
    <3>3. \A i \in DOMAIN queue : reply'[queue[i].call.caller] = reply[queue[i].call.caller]
      BY <2>1, <2>3, <2>6, <1>OtherCallers, CommandCaller, Zenon
    <3>4. Owned(backlog)'
      BY <2>u, <3>1, <3>2, Zenon DEF Owned, Awaits
    <3>5. Owned(queue)'
      <4>1. Owned(queue)
        BY <2>1 DEF LineInv, Line
      <4> QED
        BY <2>u, <3>3, <4>1, Zenon DEF Owned, Awaits
    <3>6. DOMAIN group' = {}
      BY <2>0, SMT
    <3>7. ASSUME NEW c \in Callers, pc'[c] = "reply", reply'[c] = "none"
          PROVE  Has(backlog', c) \/ Has(queue, c)
      <4>1. ~Has(x, c) /\ pc[c] = "reply" /\ reply[c] = "none"
        BY <2>0, <2>6, <3>7
      <4>2. Has(y, c) \/ Has(backlog, c) \/ Has(queue, c)
        BY <2>1, <2>7, <4>1 DEF LineInv, Line
      <4>3. Has(y, c) \/ Has(backlog, c) => Has(backlog', c)
        BY <2>0, <2>1, <2>3, ConcatHas
      <4> QED
        BY <4>2, <4>3
    <3>8. Owned(group)' /\ Precedes(group, backlog)' /\ Precedes(group, queue)'
      BY <3>6 DEF Owned, Precedes
    <3>9. InOrder(queue)' /\ Precedes(backlog, queue)' /\ InOrder(backlog)'
      BY <2>0, <2>1, <3>1, Zenon DEF LineInv, Line, InOrder, Precedes
    <3>10. \A c \in Callers : pc'[c] = "reply" /\ reply'[c] = "none" => Has(backlog, c)' \/ Has(queue, c)'
      BY <2>0, <3>7, Zenon DEF Has
    <3> QED
      BY <3>4, <3>5, <3>8, <3>9, <3>10 DEF Line
  <2>12. Hand'
    <3>1. DOMAIN group' = {}
      BY <2>0, SMT
    <3> QED
      BY <2>0, <3>1 DEF Hand, InOrder
  <2> QED
    BY <2>8, <2>10, <2>11, <2>12 DEF LineInv
\* The answer of a job is about commands of its group.
<1>JobSelects.
    ASSUME CountingLaws, ControlInv, LineInv, Job, rpc = "job"
    PROVE  rpc' = "back" /\ result'.tag # "none" /\ result'.selected \in 0..Len(group)
  <2> USE <1>JobSelects
  <2>1. group \in Seq(CommandSet) /\ Len(group) \in Nat /\ Len(group) \in 0..Len(group) /\ 0 \in 0..Len(group)
    <3>1. group \in Seq(CommandSet)
      BY DEF LineInv, Commands
    <3> QED
      BY <3>1, SMT
  <2>2. ASSUME NEW tag, NEW n, tag # "none", n \in 0..Len(group), Deliver(Answer(tag, n))
        PROVE  rpc' = "back" /\ result'.tag # "none" /\ result'.selected \in 0..Len(group)
    BY <2>2, SMT DEF Deliver, Answer
  <2>3. CASE AppendJob
    <3>1. PICK limit \in 1..Len(group), space \in SelectionSpace :
            LET n == Prefix(limit, space)
            IN \/ Deliver(Answer("exceeds", 1)) \/ Deliver(Answer("wait", 1))
               \/ Deliver(Answer("error", n)) \/ Deliver(Answer("ok", n))
      BY <2>3 DEF AppendJob
    <3>2. limit \in Nat /\ limit <= Len(group) /\ 1 \in 0..Len(group)
      BY <2>1, SMT
    <3>3. Prefix(limit, space) \in 0..limit
      BY <3>2, PrefixIn
    <3>4. Prefix(limit, space) \in 0..Len(group)
      BY <2>1, <3>2, <3>3, SMT
    <3> QED
      BY <2>2, <3>1, <3>2, <3>4
  <2>4. CASE ReadJob
    <3>1. 1 \in 0..Len(group)
      <4>1. group # << >>
        BY <2>4 DEF ReadJob, LineInv, Hand
      <4> QED
        BY <2>1, <4>1, SMT
    <3>2. \/ \E read : Deliver([tag |-> "ok", selected |-> 1, snapshot |-> read])
          \/ Deliver(Answer("error", 1)) \/ Deliver(Answer("wait", 1))
      BY <2>4, Zenon DEF ReadJob
    <3> QED
      BY <2>2, <3>1, <3>2, SMT DEF Deliver
  <2>5. CASE ReleaseJob
    BY <2>1, <2>2, <2>5 DEF ReleaseJob
  <2>6. CASE ReclaimJob
    BY <2>1, <2>2, <2>6 DEF ReclaimJob
  <2>7. CASE RolloverJob
    BY <2>1, <2>2, <2>7 DEF RolloverJob
  <2>8. CASE FailingJob
    <3>1. PICK n \in (IF jobKind = "append" THEN 1..Len(group) ELSE {Len(group)}) :
             Deliver(Answer("fatal", n))
      BY <2>8 DEF FailingJob
    <3>2. n \in 0..Len(group)
      BY <2>1, SMT
    <3> QED
      BY <2>2, <3>1, <3>2
  <2>9. CASE LosingJob
    BY <2>1, <2>9, SMT DEF LosingJob, LostJob
  <2> QED
    BY <2>3, <2>4, <2>5, <2>6, <2>7, <2>8, <2>9 DEF Job
\* The job changes what the reactor will answer, not the line.
<1>LineJob.
    ASSUME CountingLaws, ControlInv, LineInv, Job \/ GuardDrop
    PROVE  LineInv'
  <2> USE <1>LineJob
  <2> USE DEF clientVars, queueVars, loopVars
  <2>1. CASE GuardDrop
    <3>1. UNCHANGED <<pc, op, reply, queue, receiver, tickets, backlog, rpc, closing, group, jobKind,
                      result, holder>>
      BY <2>1 DEF GuardDrop
    <3>2. Hand'
      BY <3>1, Zenon DEF LineInv, Hand, InOrder
    <3> QED
      BY <3>1, <3>2, <1>LineKeeps DEF LineInv, Line
  <2>2. CASE Job
    <3>1. UNCHANGED <<pc, op, reply, queue, receiver, tickets, backlog, closing, group, jobKind>>
          /\ holder = "job"
      BY <2>2 DEF Job
    <3>2. CASE rpc = "job"
      <4>1. Hand'
        BY <2>2, <3>1, <3>2, <1>JobSelects, Zenon DEF LineInv, Hand, InOrder
      <4> QED
        BY <3>1, <4>1, <3>2, <1>LineKeeps DEF ControlInv, Channel
    <3>3. CASE rpc # "job"
      <4>1. rpc' = rpc /\ rpc \in {"dropping", "abandoned"}
        BY <2>2, <3>1, <3>3 DEF ControlInv, Ownership, Job, AppendJob, ReadJob, ReleaseJob, ReclaimJob,
              RolloverJob, FailingJob, LosingJob, Deliver
      <4>2. Hand'
        BY <3>1, <4>1, Zenon DEF LineInv, Hand, InOrder
      <4> QED
        BY <3>1, <4>2, <1>LineKeeps
    <3> QED
      BY <3>2, <3>3
  <2> QED
    BY <2>1, <2>2
\* A step of reactor_loop.
<1>LineLoop.
    ASSUME CountingLaws, ControlInv, LineInv, Loop \/ AgeTimer \/ DropReactor
    PROVE  LineInv'
  <2> USE <1>LineLoop
  <2> USE DEF clientVars, queueVars
  <2>1. CASE AutomaticReclaim \/ AgeTimer
    <3>1. UNCHANGED <<pc, op, reply, queue, receiver, tickets, backlog, closing, group>> /\ rpc = "top"
          /\ \E kind \in {"automatic", "rollover"} : \E cost : StartJob(kind, << >>, cost)
      BY <2>1 DEF AutomaticReclaim, AgeTimer
    <3>2. group = << >> /\ receiver # "dropped"
      BY <3>1 DEF LineInv, Hand, ControlInv, Channel
    <3>3. /\ jobKind' \in {"automatic", "rollover"}
          /\ \/ rpc' = "job" /\ holder' = "job"
             \/ rpc' = "back" /\ result'.tag # "none" /\ result'.selected = Len(<< >>)
      BY <3>1 DEF StartJob, LostJob
    <3>4. DOMAIN group' = {} /\ Len(<< >>) \in 0..Len(group')
      BY <3>1, <3>2, SMT
    <3>5. Hand'
      BY <3>1, <3>2, <3>3, <3>4 DEF Hand, InOrder
    <3> QED
      BY <3>1, <3>2, <3>5, <1>LineKeeps
  <2>2. CASE CloseReceiver
    <3>1. UNCHANGED <<pc, op, reply, queue, tickets, backlog, rpc, group, jobKind, result, holder>>
          /\ rpc = "top"
      BY <2>2 DEF CloseReceiver
    <3>2. receiver # "dropped" /\ Hand'
      BY <3>1, Zenon DEF LineInv, Hand, ControlInv, Channel, InOrder
    <3> QED
      BY <3>1, <3>2, <1>LineKeeps
  <2>3. CASE EndLoop
    <3>1. UNCHANGED <<pc, op, reply, queue, tickets, backlog, group, jobKind, result>>
          /\ rpc = "top" /\ rpc' = "finish" /\ receiver' = "dropped"
          /\ backlog = << >> /\ queue = << >> /\ Permits = {}
      BY <2>3 DEF EndLoop, Drained
    <3>2. receiver # "dropped" /\ group = << >>
      BY <3>1 DEF LineInv, Hand, ControlInv, Channel
    <3>3. \A c : ~Has(group, c) /\ ~Has(backlog, c) /\ ~Has(queue, c)
      BY <3>1, <3>2, SMT DEF Has
    <3>4. \A c \in Callers : pc[c] # "send" /\ (pc[c] = "reply" => reply[c] # "none")
      BY <3>1, <3>2, <3>3, Zenon DEF LineInv, Line, Permits
    <3>5. Hand'
      BY <3>1, <3>2, <3>4, Zenon DEF LineInv, Hand, InOrder
    <3> QED
      BY <3>1, <3>5, <1>LineKeeps
  <2>4. CASE FinishReactor \/ FinishDropped \/ Publish
    <3>1. UNCHANGED <<pc, op, reply, queue, receiver, tickets, backlog, group, jobKind, result, holder>>
      BY <2>4 DEF FinishReactor, FinishDropped, Publish
    <3>2. \/ rpc = "finish" /\ rpc' = "ended"
          \/ rpc = "dropping" /\ rpc' = "abandoned"
          \/ rpc = "back" /\ rpc' = "reply"
      BY <2>4 DEF FinishReactor, FinishDropped, Publish
    <3>3. Hand'
      BY <3>1, <3>2, Zenon DEF LineInv, Hand, InOrder
    <3> QED
      BY <3>1, <3>3, <1>LineKeeps
  <2>5. CASE DropReactor
    <3>1. /\ UNCHANGED <<pc, op, tickets, group>> /\ rpc' = "dropping" /\ receiver' = "dropped"
          /\ queue' = << >> /\ backlog' = << >> /\ reply' = Respond(group \o backlog \o queue, "dropped")
      BY <2>5 DEF DropReactor
    <3>2. DOMAIN Respond(group \o backlog \o queue, "dropped") = Callers
          /\ \A c \in Callers : pc[c] # "reply" => Respond(group \o backlog \o queue, "dropped")[c] = reply[c]
      BY DEF Respond
    <3>3. Operations'
      BY <3>1, <3>2, <1>AnswersKeep
    <3>4. Commands'
      BY <3>1, SMT DEF LineInv, Commands, CommandSet
    <3>5. Line' /\ Hand'
      BY <3>1, Zenon DEF LineInv, Line, Hand, InOrder
    <3> QED
      BY <3>3, <3>4, <3>5 DEF LineInv
  <2> QED
    BY <2>1, <2>2, <2>3, <2>4, <2>5, <1>LineDispatch, <1>LineReject, <1>LineReply DEF Loop
<1> SUFFICES ASSUME CountingLaws, ControlInv, LineInv, [Next]_vars PROVE LineInv'
  OBVIOUS
<1>1. CASE Next
  BY <1>1, <1>LineClient, <1>LineStart, <1>LineSend, <1>LineStopper, <1>LineLoop, <1>LineJob DEF Next, Step, Client
<1>2. CASE UNCHANGED vars
  <2>1. UNCHANGED <<pc, op, reply, queue, receiver, tickets, backlog, rpc, closing, group, jobKind,
                    result, holder>>
    BY <1>2 DEF vars, clientVars, queueVars, loopVars
  <2>2. Hand'
    BY <2>1, Zenon DEF LineInv, Hand, InOrder
  <2> QED
    BY <2>1, <2>2, <1>LineKeeps
<1> QED
  BY <1>1, <1>2

\* The line of a new root is empty.
LEMMA LineInit == Init => LineInv
<1> SUFFICES ASSUME Init PROVE LineInv
  OBVIOUS
<1> USE DEF Init
<1>1. \A c \in Callers : pc[c] = "idle" /\ reply[c] = "none" /\ op[c] = NoOp
  BY DEF Procs
<1>2. Operations
  BY <1>1 DEF Operations, InOperation
<1>3. Commands
  BY SMT DEF Commands
<1>4. \A s : s = << >> => InOrder(s) /\ Owned(s) /\ \A t : Precedes(s, t)
  BY SMT DEF InOrder, Owned, Precedes
<1>5. Line
  BY <1>1, <1>4 DEF Line
<1>6. Hand
  BY <1>4 DEF Hand
<1> QED
  BY <1>2, <1>3, <1>5, <1>6 DEF LineInv

\* Nothing is left in the line when the loop has ended.
LEMMA DrainsAtTheEnd == LineInv => ShutdownDrains
  BY DEF LineInv, Hand, ShutdownDrains

\* Goto moves one process.
LEMMA GotoMoves ==
    ASSUME ControlInv, NEW p \in Procs, NEW step, Goto(p, step)
    PROVE  pc'[p] = step /\ \A q \in Procs \ {p} : pc'[q] = pc[q]
<1>1. pc \in [Procs -> Steps]
  BY DEF ControlInv
<1> QED
  BY <1>1 DEF Goto

-----------------------------------------------------------------------------
(* Wake-ups. *)

\* Caller c was told to wait or already sleeps.
Suspended(c) == pc[c] = "waiting" \/ reply[c] = "wait"

\* Every step keeps WakeInv: events.subscribe comes before the check of the view, and
\* whatever changes the view or the lifecycle notifies.
LEMMA WakeStep == CountingLaws /\ ControlInv /\ LineInv /\ SequenceInv /\ WakeInv /\ [Next]_vars => WakeInv'
\* One caller moves, and the root stays as it is.
<1>WakeMoves.
    ASSUME WakeInv, NEW c \in Callers, UNCHANGED <<lifecycle, view, reactorFinished, activeJobs>>,
           \A q \in Procs \ {c} : pc'[q] = pc[q],
           \A d \in Callers \ {c} : op'[d] = op[d] /\ reply'[d] = reply[d],
           unseen' = unseen \/ unseen' = unseen \ {c},
           Suspended(c)' => op'[c].kind \in {"append", "read"} /\ (c \notin unseen' => StillWaits(c)'),
           pc'[c] = "waiting" => lifecycle = "running"
    PROVE  WakeInv'
  <2> USE <1>WakeMoves
  <2>1. UNCHANGED RootIsDown
    BY DEF RootIsDown
  <2>2. c \in Procs /\ c \notin Stoppers /\ \A p \in Stoppers : p \in Procs \ {c}
    BY CallerIsProc DEF Procs
  <2>3. \A p \in Stoppers : pc'[p] = pc[p] /\ (p \in unseen' <=> p \in unseen)
    BY <2>2
  <2>4. unseen' \subseteq Procs
    BY DEF WakeInv
  <2>5. \A p \in Stoppers : pc'[p] = "waiting" /\ p \notin unseen' => lifecycle' # "closed" /\ ~RootIsDown'
    BY <2>1, <2>3 DEF WakeInv
  <2>6. ASSUME NEW d \in Callers, d # c
        PROVE  /\ pc'[d] = pc[d] /\ op'[d] = op[d] /\ reply'[d] = reply[d] /\ (d \in unseen' <=> d \in unseen)
               /\ StillWaits(d)' <=> StillWaits(d)
    <3>1. pc'[d] = pc[d] /\ op'[d] = op[d] /\ reply'[d] = reply[d] /\ (d \in unseen' <=> d \in unseen)
      BY <2>6, CallerIsProc
    <3> QED
      BY <3>1 DEF StillWaits
  <2>7. \A d \in Callers : reply'[d] = "wait" \/ pc'[d] = "waiting" => op'[d].kind \in {"append", "read"}
    BY <2>6 DEF WakeInv, Suspended
  <2>8. \A d \in Callers : (reply'[d] = "wait" \/ pc'[d] = "waiting") /\ d \notin unseen' => StillWaits(d)'
    BY <2>6 DEF WakeInv, Suspended
  <2>9. \A d \in Callers : pc'[d] = "waiting" /\ d \notin unseen' =>
           lifecycle' = "running" \/ \E p \in Stoppers : pc'[p] = "announce"
    BY <2>3, <2>6 DEF WakeInv
  <2> QED
    BY <2>4, <2>5, <2>7, <2>8, <2>9 DEF WakeInv
\* Whoever holds a receiver is told, except a shutdown caller that returns.
<1>WakeNotify.
    ASSUME WakeInv, UNCHANGED op,
           \A c \in Callers : pc'[c] = pc[c] /\ reply'[c] = reply[c],
           unseen' \subseteq Procs,
           \A c \in Callers : op[c].kind \in {"append", "read"} => c \in unseen',
           \A p \in Stoppers : pc'[p] = "waiting" => p \in unseen'
    PROVE  WakeInv'
  BY <1>WakeNotify DEF WakeInv
\* Nobody is told and nothing that is waited for changes.
<1>WakeKeeps.
    ASSUME WakeInv, UNCHANGED <<unseen, view, lifecycle, pc, op>>, RootIsDown' => RootIsDown,
           \A c \in Callers : reply'[c] = "wait" => reply[c] = "wait"
    PROVE  WakeInv'
  <2> USE <1>WakeKeeps
  <2>1. \A c \in Callers : StillWaits(c)' <=> StillWaits(c)
    BY DEF StillWaits
  <2>2. \A p \in Stoppers : pc'[p] = "waiting" /\ p \notin unseen' => lifecycle' # "closed" /\ ~RootIsDown'
    BY DEF WakeInv
  <2>3. /\ \A c \in Callers : reply'[c] = "wait" \/ pc'[c] = "waiting" => op'[c].kind \in {"append", "read"}
        /\ \A c \in Callers : (reply'[c] = "wait" \/ pc'[c] = "waiting") /\ c \notin unseen' => StillWaits(c)'
    BY <2>1 DEF WakeInv
  <2>4. \A c \in Callers : pc'[c] = "waiting" /\ c \notin unseen' =>
           lifecycle' = "running" \/ \E p \in Stoppers : pc'[p] = "announce"
    BY DEF WakeInv
  <2> QED
    BY <2>2, <2>3, <2>4 DEF WakeInv
\* A caller subscribes, checks, waits or wakes.
<1>WakeClient.
    ASSUME ControlInv, LineInv, WakeInv, NEW c \in Callers,
           GetPermit(c) \/ Send(c) \/ Receive(c) \/ Wake(c) \/ Start(c) \/ Cancel(c)
    PROVE  WakeInv'
  <2> USE <1>WakeClient
  <2> USE DEF KeepRoot
  <2>0. UNCHANGED <<lifecycle, view, reactorFinished, activeJobs>> /\ c \in Procs
    BY CallerIsProc DEF GetPermit, Send, Receive, Wake, Start, Cancel, lifeVars, guardVars
  <2>1. /\ op \in [Callers -> Calls \cup {NoOp}] /\ (pc[c] # "reply" => reply[c] = "none")
        /\ (InOperation(c) => op[c] \in Calls) /\ reply \in [Callers -> Replies]
    BY DEF LineInv, Operations, ControlInv
  <2>2. ASSUME NEW step, Goto(c, step)
        PROVE  pc'[c] = step /\ \A q \in Procs \ {c} : pc'[q] = pc[q]
    BY <2>0, <2>2, GotoMoves
  <2>3. ASSUME Settle(c)
        PROVE  /\ \A d \in Callers \ {c} : op'[d] = op[d]
               /\ unseen' = unseen \/ unseen' = unseen \ {c}
               /\ pc'[c] \notin {"done", "gone"} => op' = op
               /\ pc'[c] \notin {"done", "gone"} /\ pc[c] # "waiting" => unseen' = unseen
    BY <2>1, <2>3 DEF Settle
  <2>4. \A s : Reserve(c) => \E step \in {"done", "broken", "send", "full"} : Goto(c, step)
    BY ReserveLeads
  <2>5. ASSUME NEW s, ReadCheck(c, s)
        PROVE  \/ \E step \in {"done", "broken", "send", "full"} : Goto(c, step)
               \/ Goto(c, "waiting") /\ lifecycle = "running" /\ view.streams[s].pending = 0
    BY <2>4, <2>5 DEF ReadCheck
  <2>6. CASE GetPermit(c)
    <3>1. pc[c] = "full" /\ reply' = reply /\ Settle(c) /\ Reserve(c)
      BY <2>6 DEF GetPermit
    <3>2. pc'[c] # "waiting" /\ \A q \in Procs \ {c} : pc'[q] = pc[q]
      BY <2>2, <2>4, <3>1
    <3>3. ~Suspended(c)'
      BY <2>1, <3>1, <3>2 DEF Suspended
    <3> QED
      BY <2>0, <2>3, <3>1, <3>2, <3>3, <1>WakeMoves
  <2>7. CASE Send(c)
    <3>1. pc[c] = "send" /\ reply' = reply /\ op' = op /\ unseen' = unseen /\ Goto(c, "reply")
      BY <2>7 DEF Send
    <3>2. pc'[c] = "reply" /\ \A q \in Procs \ {c} : pc'[q] = pc[q]
      BY <2>2, <3>1
    <3>3. ~Suspended(c)'
      BY <2>1, <3>1, <3>2 DEF Suspended
    <3> QED
      BY <2>0, <3>1, <3>2, <3>3, <1>WakeMoves
  <2>8. CASE Receive(c)
    <3>1. /\ pc[c] = "reply" /\ reply' = [reply EXCEPT ![c] = "none"] /\ Settle(c)
          /\ CASE reply[c] = "wait" /\ lifecycle = "running" -> Goto(c, "waiting")
               [] reply[c] = "dropped" -> FinishChannel(c)
               [] OTHER -> Finish(c)
      BY <2>8 DEF Receive
    <3>2. reply'[c] = "none" /\ \A d \in Callers \ {c} : reply'[d] = reply[d]
      BY <2>1, <3>1
    <3>3. CASE reply[c] = "wait" /\ lifecycle = "running"
      <4>1. pc'[c] = "waiting" /\ \A q \in Procs \ {c} : pc'[q] = pc[q]
        BY <2>2, <3>1, <3>3
      <4>2. op' = op /\ unseen' = unseen
        BY <2>3, <3>1, <4>1
      <4>3. op[c].kind \in {"append", "read"} /\ (c \notin unseen => StillWaits(c))
        BY <3>3 DEF WakeInv
      <4>4. StillWaits(c)' <=> StillWaits(c)
        BY <2>0, <4>2 DEF StillWaits
      <4> QED
        BY <2>0, <3>2, <3>3, <4>1, <4>2, <4>3, <4>4, <1>WakeMoves
    <3>4. CASE ~(reply[c] = "wait" /\ lifecycle = "running")
      <4>1. \E step \in {"broken", "done"} : Goto(c, step)
        BY <3>1, <3>4 DEF FinishChannel, Finish
      <4>2. pc'[c] # "waiting" /\ \A q \in Procs \ {c} : pc'[q] = pc[q]
        BY <2>2, <4>1
      <4>3. ~Suspended(c)'
        BY <3>2, <4>2 DEF Suspended
      <4> QED
        BY <2>0, <2>3, <3>1, <3>2, <4>2, <4>3, <1>WakeMoves
    <3> QED
      BY <3>3, <3>4
  <2>9. CASE Wake(c)
    <3>1. /\ pc[c] = "waiting" /\ reply' = reply /\ Settle(c)
          /\ IF op[c].kind = "read" THEN ReadCheck(c, op[c].stream) ELSE Reserve(c)
      BY <2>9 DEF Wake
    <3>2. reply'[c] = "none"
      BY <2>1, <3>1
    <3>3. CASE \E step \in {"done", "broken", "send", "full"} : Goto(c, step)
      <4>1. pc'[c] # "waiting" /\ \A q \in Procs \ {c} : pc'[q] = pc[q]
        BY <2>2, <3>3
      <4>2. ~Suspended(c)'
        BY <3>2, <4>1 DEF Suspended
      <4> QED
        BY <2>0, <2>3, <3>1, <4>1, <4>2, <1>WakeMoves
    <3>4. CASE op[c].kind = "read" /\ Goto(c, "waiting") /\ lifecycle = "running"
               /\ view.streams[op[c].stream].pending = 0
      <4>1. pc'[c] = "waiting" /\ \A q \in Procs \ {c} : pc'[q] = pc[q]
        BY <2>2, <3>4
      <4>2. op' = op
        BY <2>3, <3>1, <4>1
      <4>3. StillWaits(c)' /\ op'[c].kind \in {"append", "read"}
        BY <2>0, <3>4, <4>2 DEF StillWaits
      <4> QED
        BY <2>0, <2>3, <3>1, <3>4, <4>1, <4>2, <4>3, <1>WakeMoves
    <3> QED
      BY <2>4, <2>5, <3>1, <3>3, <3>4
  <2>10. CASE Start(c)
    <3>1. PICK call \in Calls :
            /\ op' = [op EXCEPT ![c] = call]
            /\ IF call.kind = "read" THEN ReadCheck(c, call.stream) ELSE Reserve(c)
      BY <2>10 DEF Start
    <3>2. pc[c] = "idle" /\ reply' = reply /\ unseen' = unseen
      BY <2>10 DEF Start
    <3>3. reply'[c] = "none" /\ op'[c] = call /\ \A d \in Callers \ {c} : op'[d] = op[d]
      BY <2>1, <3>1, <3>2
    <3>4. CASE \E step \in {"done", "broken", "send", "full"} : Goto(c, step)
      <4>1. pc'[c] # "waiting" /\ \A q \in Procs \ {c} : pc'[q] = pc[q]
        BY <2>2, <3>4
      <4>2. ~Suspended(c)'
        BY <3>3, <4>1 DEF Suspended
      <4> QED
        BY <2>0, <3>2, <3>3, <4>1, <4>2, <1>WakeMoves
    <3>5. CASE call.kind = "read" /\ Goto(c, "waiting") /\ lifecycle = "running"
               /\ view.streams[call.stream].pending = 0
      <4>1. pc'[c] = "waiting" /\ \A q \in Procs \ {c} : pc'[q] = pc[q]
        BY <2>2, <3>5
      <4>2. StillWaits(c)' /\ op'[c].kind \in {"append", "read"}
        BY <2>0, <3>3, <3>5 DEF StillWaits
      <4> QED
        BY <2>0, <3>2, <3>3, <3>5, <4>1, <4>2, <1>WakeMoves
    <3> QED
      BY <2>4, <2>5, <3>1, <3>4, <3>5
  <2>11. CASE Cancel(c)
    <3>1. reply' = [reply EXCEPT ![c] = "none"] /\ Settle(c) /\ Goto(c, "gone")
      BY <2>11 DEF Cancel
    <3>2. reply'[c] = "none" /\ \A d \in Callers \ {c} : reply'[d] = reply[d]
      BY <2>1, <3>1
    <3>3. pc'[c] = "gone" /\ \A q \in Procs \ {c} : pc'[q] = pc[q]
      BY <2>2, <3>1
    <3>4. ~Suspended(c)'
      BY <3>2, <3>3 DEF Suspended
    <3> QED
      BY <2>0, <2>3, <3>1, <3>2, <3>3, <3>4, <1>WakeMoves
  <2> QED
    BY <2>6, <2>7, <2>8, <2>9, <2>10, <2>11
\* Whom a notification reaches.
<1>SubscribedIn.
    /\ Subscribed \subseteq Procs
    /\ \A c \in Callers : op[c].kind \in {"append", "read"} => c \in Subscribed
    /\ \A p \in Stoppers : pc[p] \notin {"idle", "done", "gone"} => p \in Subscribed
  BY DEF Subscribed, Procs
\* A shutdown caller subscribes, checks, waits or wakes.
<1>WakeStopper.
    ASSUME ControlInv, WakeInv, NEW p \in Stoppers, Stopper(p) \/ StopBegin(p) \/ StopCancel(p)
    PROVE  WakeInv'
  <2> USE <1>WakeStopper
  <2>0. /\ KeepRest /\ p \in Procs
    BY DEF Stopper, StopStore, StopAnnounce, StopLoop, StopBegin, StopCancel, Procs
  <2>1. UNCHANGED <<op, reply, view, reactorFinished, activeJobs, RootIsDown>>
    BY <2>0 DEF KeepRest, guardVars, RootIsDown
  <2>2. p \notin Callers /\ \A c \in Callers : c \in Procs \ {p}
    BY ReactorAssumption DEF Procs
  <2>3. ASSUME NEW step, Goto(p, step)
        PROVE  /\ pc'[p] = step /\ \A c \in Callers : pc'[c] = pc[c] /\ reply'[c] = reply[c]
               /\ \A q \in Stoppers \ {p} : pc'[q] = pc[q]
    BY <2>0, <2>1, <2>2, <2>3, GotoMoves DEF Procs
  <2>4. \A c \in Callers : StillWaits(c)' <=> StillWaits(c)
    BY <2>1 DEF StillWaits
  <2>5. CASE StopBegin(p)
    <3>1. PICK step \in {"done", "loop", "announce", "store"} : Goto(p, step)
      BY <2>5 DEF StopBegin
    <3>2. UNCHANGED <<lifecycle, unseen>> /\ pc[p] = "idle"
      BY <2>5 DEF StopBegin
    <3>3. /\ pc'[p] = step /\ \A c \in Callers : pc'[c] = pc[c] /\ reply'[c] = reply[c]
          /\ \A q \in Stoppers \ {p} : pc'[q] = pc[q]
      BY <2>3, <3>1
    <3>4. \A q \in Stoppers : pc'[q] = "waiting" /\ q \notin unseen' => lifecycle' # "closed" /\ ~RootIsDown'
      BY <2>1, <3>1, <3>2, <3>3 DEF WakeInv
    <3>5. \A c \in Callers : pc'[c] = "waiting" /\ c \notin unseen' =>
            lifecycle' = "running" \/ \E q \in Stoppers : pc'[q] = "announce"
      BY <3>2, <3>3 DEF WakeInv
    <3> QED
      BY <2>1, <2>4, <3>2, <3>3, <3>4, <3>5 DEF WakeInv
  <2>6. CASE StopStore(p)
    <3>1. Goto(p, "announce") /\ lifecycle' = "shutting_down" /\ UNCHANGED unseen
      BY <2>6 DEF StopStore
    <3>2. /\ pc'[p] = "announce" /\ \A c \in Callers : pc'[c] = pc[c] /\ reply'[c] = reply[c]
          /\ \A q \in Stoppers \ {p} : pc'[q] = pc[q]
      BY <2>3, <3>1
    <3>3. \A q \in Stoppers : pc'[q] = "waiting" /\ q \notin unseen' => lifecycle' # "closed" /\ ~RootIsDown'
      BY <2>1, <3>1, <3>2 DEF WakeInv
    <3>4. \A c \in Callers : pc'[c] = "waiting" /\ c \notin unseen' =>
            lifecycle' = "running" \/ \E q \in Stoppers : pc'[q] = "announce"
      BY <3>2
    <3> QED
      BY <2>1, <2>4, <3>1, <3>2, <3>3, <3>4 DEF WakeInv
  <2>7. CASE StopAnnounce(p)
    <3>1. Goto(p, "loop") /\ unseen' = Subscribed
      BY <2>7 DEF StopAnnounce, notify
    <3>2. /\ pc'[p] = "loop" /\ \A c \in Callers : pc'[c] = pc[c] /\ reply'[c] = reply[c]
          /\ \A q \in Stoppers \ {p} : pc'[q] = pc[q]
      BY <2>3, <3>1
    <3>3. \A q \in Stoppers : pc'[q] = "waiting" => q \in unseen'
      BY <3>1, <3>2, <1>SubscribedIn
    <3> QED
      BY <2>1, <3>1, <3>2, <3>3, <1>SubscribedIn, <1>WakeNotify
  <2>8. CASE StopLoop(p)
    <3>0. pc[p] \in {"loop", "waiting"}
      BY <2>8 DEF StopLoop
    <3>1. CASE lifecycle # "closed" /\ RootIsDown
      <4>1. Goto(p, "done") /\ unseen' = Subscribed \ {p}
        BY <2>8, <3>1 DEF StopLoop
      <4>2. /\ pc'[p] = "done" /\ \A c \in Callers : pc'[c] = pc[c] /\ reply'[c] = reply[c]
            /\ \A q \in Stoppers \ {p} : pc'[q] = pc[q]
        BY <2>3, <4>1
      <4>3. \A q \in Stoppers : pc'[q] = "waiting" => q \in unseen'
        BY <4>1, <4>2, <1>SubscribedIn
      <4>4. unseen' \subseteq Procs /\ \A c \in Callers : op[c].kind \in {"append", "read"} => c \in unseen'
        BY <2>2, <4>1, <1>SubscribedIn
      <4> QED
        BY <2>1, <4>2, <4>3, <4>4, <1>WakeNotify
    <3>2. CASE ~(lifecycle # "closed" /\ RootIsDown)
      <4>1. /\ Goto(p, IF lifecycle = "closed" THEN "done" ELSE "waiting")
            /\ unseen' = unseen \/ unseen' = unseen \ {p}
            /\ UNCHANGED lifecycle
        BY <2>8, <3>2 DEF StopLoop
      <4>2. /\ pc'[p] = IF lifecycle = "closed" THEN "done" ELSE "waiting"
            /\ \A c \in Callers : pc'[c] = pc[c] /\ reply'[c] = reply[c]
            /\ \A q \in Stoppers \ {p} : pc'[q] = pc[q]
        BY <2>3, <4>1
      <4>3. unseen' \subseteq Procs /\ \A q \in Procs \ {p} : q \in unseen' <=> q \in unseen
        BY <4>1 DEF WakeInv
      <4>4. \A q \in Stoppers \ {p} : q \in Procs
        BY DEF Procs
      <4>5. \A q \in Stoppers : pc'[q] = "waiting" /\ q \notin unseen' => lifecycle' # "closed" /\ ~RootIsDown'
        BY <2>1, <3>2, <4>1, <4>2, <4>3, <4>4 DEF WakeInv
      <4>6. \A c \in Callers : pc'[c] = "waiting" /\ c \notin unseen' =>
              lifecycle' = "running" \/ \E q \in Stoppers : pc'[q] = "announce"
        <5>1. \A q \in Stoppers : pc[q] = "announce" => pc'[q] = "announce"
          BY <3>0, <4>2
        <5> QED
          BY <2>2, <4>1, <4>2, <4>3, <5>1 DEF WakeInv
      <4>7. /\ \A c \in Callers : reply'[c] = "wait" \/ pc'[c] = "waiting" => op'[c].kind \in {"append", "read"}
            /\ \A c \in Callers : (reply'[c] = "wait" \/ pc'[c] = "waiting") /\ c \notin unseen' => StillWaits(c)'
        BY <2>1, <2>2, <2>4, <4>2, <4>3 DEF WakeInv
      <4> QED
        BY <4>3, <4>5, <4>6, <4>7 DEF WakeInv
    <3> QED
      BY <3>1, <3>2
  <2>9. CASE StopCancel(p)
    <3>1. Goto(p, "gone") /\ unseen' = unseen \ {p} /\ UNCHANGED lifecycle /\ pc[p] = "waiting"
      BY <2>9 DEF StopCancel
    <3>2. /\ pc'[p] = "gone" /\ \A c \in Callers : pc'[c] = pc[c] /\ reply'[c] = reply[c]
          /\ \A q \in Stoppers \ {p} : pc'[q] = pc[q]
      BY <2>3, <3>1
    <3>3. unseen' \subseteq Procs /\ \A q : q # p => (q \in unseen' <=> q \in unseen)
      BY <3>1 DEF WakeInv
    <3>4. \A q \in Stoppers : pc'[q] = "waiting" /\ q \notin unseen' => lifecycle' # "closed" /\ ~RootIsDown'
      BY <2>1, <3>1, <3>2, <3>3 DEF WakeInv
    <3>5. \A c \in Callers : pc'[c] = "waiting" /\ c \notin unseen' =>
            lifecycle' = "running" \/ \E q \in Stoppers : pc'[q] = "announce"
      <4>1. \A q \in Stoppers : pc[q] = "announce" => pc'[q] = "announce"
        BY <3>1, <3>2
      <4> QED
        BY <2>2, <3>1, <3>2, <3>3, <4>1 DEF WakeInv
    <3>6. /\ \A c \in Callers : reply'[c] = "wait" \/ pc'[c] = "waiting" => op'[c].kind \in {"append", "read"}
          /\ \A c \in Callers : (reply'[c] = "wait" \/ pc'[c] = "waiting") /\ c \notin unseen' => StillWaits(c)'
      BY <2>1, <2>2, <2>4, <3>2, <3>3 DEF WakeInv
    <3> QED
      BY <3>3, <3>4, <3>5, <3>6 DEF WakeInv
  <2> QED
    BY <2>5, <2>6, <2>7, <2>8, <2>9 DEF Stopper
\* Reply tells a caller to wait only for what the published view does not have.
<1>WakeReply.
    ASSUME CountingLaws, ControlInv, LineInv, SequenceInv, WakeInv, Reply
    PROVE  WakeInv'
  <2> USE <1>WakeReply
  <2>1. /\ rpc = "reply" /\ UNCHANGED <<pc, op, lifecycle, view, unseen, RootIsDown>>
        /\ reply' = [c \in Callers |->
             IF pc[c] = "reply" /\ \E i \in 1..result.selected : group[i].call.caller = c
             THEN Told(CHOOSE i \in 1..result.selected : group[i].call.caller = c) ELSE reply[c]]
    BY DEF Reply, lifeVars, guardVars, RootIsDown
  <2>2. view = ViewFromStorage
    BY <2>1 DEF SequenceInv, Shown
  <2>3. \A c \in Callers : StillWaits(c)' <=> StillWaits(c)
    BY <2>1 DEF StillWaits
  <2>4. ASSUME NEW c \in Callers, reply'[c] = "wait", reply[c] # "wait"
        PROVE  op[c].kind \in {"append", "read"} /\ StillWaits(c)
    <3> DEFINE i == CHOOSE i \in 1..result.selected : group[i].call.caller = c
    <3>1. /\ pc[c] = "reply" /\ \E k \in 1..result.selected : group[k].call.caller = c
          /\ reply'[c] = Told(i)
      BY <2>1, <2>4
    <3>2. i \in 1..result.selected /\ group[i].call.caller = c
      BY <3>1
    <3> HIDE DEF i
    <3>3. result.tag = "wait"
      BY <2>4, <3>1 DEF Told, CopyNonpoisoning
    <3>4. /\ result.selected = 1 /\ group # << >>
          /\ \/ jobKind = "read" /\ InStream(group[1].call.stream) = {}
             \/ jobKind = "append" /\ Used + group[1].call.size > Capacity
      BY <2>1, <3>3 DEF SequenceInv, Answered
    <3>5. i = 1 /\ group \in Seq(CommandSet) /\ 1 \in DOMAIN group
      <4>1. group \in Seq(CommandSet)
        BY DEF LineInv, Commands
      <4> QED
        BY <3>2, <3>4, <4>1, SMT
    <3>6. op[c] = group[1].call
      <4>1. receiver # "dropped"
        BY <2>1 DEF ControlInv, Channel
      <4>2. pc[group[1].call.caller] = "gone" \/ Awaits(group[1].call.caller, group[1].call)
        BY <3>5, <4>1 DEF LineInv, Line, Owned
      <4> QED
        BY <3>1, <3>2, <3>5, <4>2 DEF Awaits
    <3>7. group[1].call.kind = jobKind /\ group[1].call.stream \in Stream
      BY <2>1, <3>5, CommandCaller DEF LineInv, Hand
    <3>8. CASE jobKind = "read"
      <4>1. view.streams[group[1].call.stream] = Published(group[1].call.stream)
        BY <2>2, <3>7, ViewShows
      <4>2. InStream(group[1].call.stream) = {}
        BY <3>4, <3>8
      <4>3. view.streams[group[1].call.stream].pending = 0
        <5>1. Cardinality(InStream(group[1].call.stream)) = 0
          BY <4>2 DEF CountingLaws
        <5>2. Published(group[1].call.stream).pending = Cardinality(InStream(group[1].call.stream))
          BY SMT DEF Published
        <5> QED
          BY <4>1, <5>1, <5>2
      <4> QED
        BY <3>6, <3>7, <3>8, <4>3 DEF StillWaits
    <3>9. CASE jobKind = "append"
      <4>1. view.stats.live = SumSizes(pending) /\ view.stats.dead = dead
        <5>1. view.stats = StorageStats
          BY <2>2, ViewShows
        <5> QED
          BY <5>1, SMT DEF StorageStats
      <4> QED
        BY <3>4, <3>6, <3>7, <3>9, <4>1 DEF StillWaits, Used
    <3> QED
      BY <3>4, <3>8, <3>9
  <2>5. /\ \A c \in Callers : reply'[c] = "wait" \/ pc'[c] = "waiting" => op'[c].kind \in {"append", "read"}
        /\ \A c \in Callers : (reply'[c] = "wait" \/ pc'[c] = "waiting") /\ c \notin unseen' => StillWaits(c)'
    BY <2>1, <2>3, <2>4 DEF WakeInv
  <2> QED
    BY <2>1, <2>5 DEF WakeInv
\* A step of reactor_loop, of the job, or the end of the reactor task.
<1>WakeLoop.
    ASSUME CountingLaws, ControlInv, LineInv, SequenceInv, WakeInv, Loop \/ Job \/ GuardDrop \/ AgeTimer \/ DropReactor
    PROVE  WakeInv'
  <2> USE <1>WakeLoop
  <2> USE DEF clientVars, lifeVars, guardVars
  <2>0. \A how, cmds : how # "wait" => \A c \in Callers : Respond(cmds, how)[c] = "wait" => reply[c] = "wait"
    BY DEF Respond
  <2>1. CASE AutomaticReclaim \/ AgeTimer \/ Dispatch
    <3>1. UNCHANGED <<pc, op, reply, lifecycle, reactorFinished, unseen, view>> /\ rpc = "top"
      BY <2>1 DEF AutomaticReclaim, AgeTimer, Dispatch
    <3>2. ~RootIsDown'
      BY <3>1 DEF ControlInv, Ownership, RootIsDown
    <3> QED
      BY <3>1, <3>2, <1>WakeKeeps
  <2>2. CASE CloseReceiver \/ EndLoop
    <3>1. UNCHANGED <<pc, op, reply, lifecycle, reactorFinished, activeJobs, unseen, view>>
      BY <2>2 DEF CloseReceiver, EndLoop
    <3> QED
      BY <3>1, <1>WakeKeeps DEF RootIsDown
  <2>3. CASE FinishReactor \/ FinishDropped
    <3>1. UNCHANGED <<pc, op, reply>> /\ unseen' = Subscribed
      BY <2>3 DEF FinishReactor, FinishDropped, poison, notify
    <3> QED
      BY <3>1, <1>SubscribedIn, <1>WakeNotify
  <2>4. CASE RejectPoisoned
    <3>1. UNCHANGED <<pc, op, lifecycle, reactorFinished, activeJobs, unseen, view>>
          /\ reply' = Respond(SubSeq(Waiting, 1, 1), "poisoned")
      BY <2>4 DEF RejectPoisoned
    <3>2. \A c \in Callers : reply'[c] = "wait" => reply[c] = "wait"
      BY <2>0, <3>1
    <3> QED
      BY <3>1, <3>2, <1>WakeKeeps DEF RootIsDown
  <2>5. CASE Publish
    <3>1. UNCHANGED <<pc, op, reply, reactorFinished, activeJobs, RootIsDown>>
      BY <2>5 DEF Publish, RootIsDown
    <3>2. CASE unseen' = Subscribed
      BY <3>1, <3>2, <1>SubscribedIn, <1>WakeNotify
    <3>3. CASE unseen' # Subscribed
      <4>1. UNCHANGED <<lifecycle, unseen, view>>
        BY <2>5, <3>3 DEF Publish, poison, notify
      <4> QED
        BY <3>1, <4>1, <1>WakeKeeps
    <3> QED
      BY <3>2, <3>3
  <2>6. CASE DropReactor
    <3>1. UNCHANGED <<pc, op, lifecycle, reactorFinished, activeJobs, unseen, view>>
          /\ reply' = Respond(group \o backlog \o queue, "dropped")
      BY <2>6 DEF DropReactor
    <3>2. \A c \in Callers : reply'[c] = "wait" => reply[c] = "wait"
      BY <2>0, <3>1
    <3> QED
      BY <3>1, <3>2, <1>WakeKeeps DEF RootIsDown
  <2>7. CASE Job
    <3>1. UNCHANGED <<pc, op, reply, lifecycle, reactorFinished, activeJobs, unseen, view>>
      BY <2>7 DEF Job
    <3> QED
      BY <3>1, <1>WakeKeeps DEF RootIsDown
  <2>8. CASE GuardDrop
    <3>1. UNCHANGED <<pc, op, reply, lifecycle, reactorFinished, view>> /\ activeJobs' = activeJobs - 1
      BY <2>8 DEF GuardDrop
    <3>2. CASE activeJobs = 1 /\ reactorFinished
      <4>1. unseen' = Subscribed
        BY <2>8, <3>2 DEF GuardDrop, notify
      <4> QED
        BY <3>1, <4>1, <1>SubscribedIn, <1>WakeNotify
    <3>3. CASE ~(activeJobs = 1 /\ reactorFinished)
      <4>1. UNCHANGED unseen
        BY <2>8, <3>3 DEF GuardDrop
      <4>2. activeJobs \in Int
        BY SMT DEF ControlInv, Ownership
      <4>3. activeJobs' = 0 => activeJobs = 1
        BY <3>1, <4>2, SMT
      <4>4. ~RootIsDown'
        BY <3>1, <3>3, <4>3 DEF RootIsDown
      <4> QED
        BY <3>1, <4>1, <4>4, <1>WakeKeeps
    <3> QED
      BY <3>2, <3>3
  <2> QED
    BY <2>1, <2>2, <2>3, <2>4, <2>5, <2>6, <2>7, <2>8, <1>WakeReply DEF Loop
<1> SUFFICES ASSUME CountingLaws, ControlInv, LineInv, SequenceInv, WakeInv, [Next]_vars PROVE WakeInv'
  OBVIOUS
<1>1. CASE Next
  BY <1>1, <1>WakeClient, <1>WakeStopper, <1>WakeLoop DEF Next, Step, Client
<1>2. CASE UNCHANGED vars
  <2>1. UNCHANGED <<pc, op, reply, lifecycle, reactorFinished, activeJobs, unseen, view>>
    BY <1>2 DEF vars, clientVars, lifeVars, guardVars
  <2> QED
    BY <2>1, <1>WakeKeeps DEF RootIsDown
<1> QED
  BY <1>1, <1>2

\* Nobody waits in a new root.
LEMMA WakeInit == Init => WakeInv
<1> SUFFICES ASSUME Init PROVE WakeInv
  OBVIOUS
<1>1. /\ unseen = {} /\ (\A p \in Procs : pc[p] = "idle") /\ (\A c \in Callers : reply[c] = "none")
  BY DEF Init
<1>2. \A p : p \in Callers \/ p \in Stoppers => p \in Procs
  BY DEF Procs
<1> QED
  BY <1>1, <1>2 DEF WakeInv

\* Whoever sleeps without a notification really has to wait.
LEMMA WokenInTime == SequenceInv /\ WakeInv => NoLostWakeup
<1> SUFFICES ASSUME SequenceInv, WakeInv PROVE NoLostWakeup
  OBVIOUS
<1>1. ASSUME NEW c \in Callers, pc[c] = "waiting", c \notin unseen
      PROVE  /\ op[c].kind = "read" => view.streams[op[c].stream].pending = 0
             /\ op[c].kind = "append" /\ rpc = "top" => Used + op[c].size > Capacity
  <2>1. StillWaits(c)
    BY <1>1 DEF WakeInv
  <2>2. op[c].kind = "append" /\ rpc = "top" => Used + op[c].size > Capacity
    <3>1. rpc = "top" => view.stats = StorageStats
      BY ViewShows DEF SequenceInv, Shown
    <3>2. StorageStats.live = SumSizes(pending) /\ StorageStats.dead = dead
      BY SMT DEF StorageStats
    <3> QED
      BY <2>1, <3>1, <3>2 DEF StillWaits, Used
  <2> QED
    BY <2>1, <2>2 DEF StillWaits
<1> QED
  BY <1>1 DEF NoLostWakeup, WakeInv

-----------------------------------------------------------------------------
(* Sequences. *)

\* How a job hands over.
Handover ==
    /\ holder' \in {"reactor", "none"}
    /\ \/ rpc = "job" /\ rpc' = "back"
       \/ rpc \in {"dropping", "abandoned"} /\ rpc' = rpc /\ result' = result /\ holder' = "none"

\* What a job may do to the records.
Frees == UNCHANGED <<assigned, pending>> /\ dead' \in 0..dead /\ work' \in BOOLEAN

\* release_group released records.
Releases == jobKind = "release" /\ ReleaseRecords

\* append_group appended the first n units of the group.
Appends(n) == /\ jobKind = "append"
              /\ \E space : /\ space.dead \in 0..dead /\ space.work \in BOOLEAN
                            /\ Fits(n, space) /\ ~Exhausts(n) /\ AppendUnits(n, space)
              /\ rpc = "job" => result' = Answer("ok", n)

\* What the result of a job tells the reactor of Storage.
Outcome ==
    /\ jobKind = "read" \/ holder' = "none" => UNCHANGED storageVars
    /\ jobKind = "read" /\ result'.tag = "ok" =>
         result'.snapshot \subseteq {r[2] : r \in InStream(group[1].call.stream)}
    /\ result'.tag = "wait" =>
         /\ result'.selected = 1
         /\ \/ jobKind = "read" /\ InStream(group[1].call.stream) = {} /\ UNCHANGED storageVars
            \/ /\ jobKind = "append" /\ UNCHANGED pending
               /\ SumSizes(pending) + dead' + Total(group, 1) > Capacity

\* The sizes of pending records can be added.
LEMMA PendingSum ==
    ASSUME CountingLaws, Stored, NEW P, P \subseteq pending
    PROVE  IsFiniteSet(P) /\ SizesIn(P) /\ SumSizes(P) \in Nat
<1>1. IsFiniteSet(pending) /\ SizesIn(pending) /\ SizesIn(P)
  BY DEF Stored, SizesIn
<1>2. IsFiniteSet(P)
  BY <1>1, SizesSplit
<1> QED
  BY <1>1, <1>2, SizesType

\* What the storage job may reclaim before it appends.
LEMMA SpaceIn ==
    ASSUME Stored, NEW kind, NEW space \in SelectionSpace \cup Reclaimed(kind) \cup {Space}
    PROVE  space.dead \in 0..dead /\ space.work \in BOOLEAN
<1>1. dead \in Nat /\ work \in BOOLEAN
  BY DEF Stored
<1>2. \A k : \A sp \in Reclaimed(k) : sp.dead \in 0..dead /\ sp.work \in BOOLEAN
  <2> SUFFICES ASSUME NEW k, NEW sp \in Reclaimed(k) PROVE sp.dead \in 0..dead /\ sp.work \in BOOLEAN
    OBVIOUS
  <2>1. sp \in [dead : 0..(IF dead = 0 THEN 0 ELSE dead - 1), work : BOOLEAN]
    BY DEF Reclaimed
  <2>2. 0..(IF dead = 0 THEN 0 ELSE dead - 1) \subseteq 0..dead
    BY <1>1, SMT
  <2>3. sp.dead \in 0..(IF dead = 0 THEN 0 ELSE dead - 1) /\ sp.work \in BOOLEAN
    BY <2>1, SMT
  <2> QED
    BY <2>2, <2>3
<1>3. Space.dead \in 0..dead /\ Space.work \in BOOLEAN
  BY <1>1, SMT DEF Space
<1>4. \A sp \in SelectionSpace : sp.dead \in 0..dead /\ sp.work \in BOOLEAN
  BY <1>2, <1>3 DEF SelectionSpace
<1> QED
  BY <1>2, <1>3, <1>4

\* What a storage job may do to Storage: free space, release records, or append a prefix of
\* its group.
LEMMA JobCases ==
    ASSUME CountingLaws, ControlInv, LineInv, Stored, Job
    PROVE  /\ UNCHANGED <<pc, op, reply, lifeVars, queue, receiver, tickets, backlog, closing, group,
                          jobKind, unseen, view, returned>>
           /\ holder = "job" /\ Handover
           /\ Frees \/ Releases \/ \E n \in 1..Len(group) : Appends(n)
\* The result of a job reaches the reactor with its group.
<1>DeliverHands.
    ASSUME ControlInv, LineInv, holder = "job", NEW res, Deliver(res)
    PROVE  Handover /\ (rpc = "job" => result' = res)
  <2> USE <1>DeliverHands
  <2>1. rpc \in {"job", "dropping", "abandoned"}
    BY DEF ControlInv, Ownership
  <2> QED
    BY <2>1 DEF Deliver, Handover
<1>1. /\ UNCHANGED <<pc, op, reply, lifeVars, queue, receiver, tickets, backlog, closing, group,
                     jobKind, unseen, view, returned>>
      /\ holder = "job"
  BY DEF Job, clientVars, queueVars
<1>2. dead \in Nat /\ work \in BOOLEAN /\ dead \in 0..dead
  <2>1. dead \in Nat /\ work \in BOOLEAN
    BY DEF Stored
  <2> QED
    BY <2>1, SMT
<1>3. UNCHANGED storageVars => Frees
  BY <1>2 DEF storageVars, Frees
<1>4. ASSUME AppendJob
      PROVE  Handover /\ (Frees \/ Releases \/ \E n \in 1..Len(group) : Appends(n))
  <2>1. PICK limit \in 1..Len(group), space \in SelectionSpace :
          LET n == Prefix(limit, space)
          IN CASE n = 0 /\ Total(group, 1) > Capacity ->
                   Deliver(Answer("exceeds", 1)) /\ UNCHANGED storageVars
              [] n = 0 /\ Total(group, 1) <= Capacity ->
                   Deliver(Answer("wait", 1)) /\ SetSpace(space) /\ UNCHANGED <<assigned, pending>>
              [] n > 0 /\ Exhausts(n) ->
                   Deliver(Answer("error", n)) /\ SetSpace(space) /\ UNCHANGED <<assigned, pending>>
              [] OTHER -> Deliver(Answer("ok", n)) /\ AppendUnits(n, space)
    BY <1>4 DEF AppendJob
  <2> DEFINE n == Prefix(limit, space)
  <2>2. space.dead \in 0..dead /\ space.work \in BOOLEAN
    BY SpaceIn
  <2>3. limit \in Nat /\ n \in 0..limit /\ (n # 0 => Fits(n, space))
    <3>1. limit \in Nat
      BY SMT
    <3> QED
      BY <3>1, PrefixIn
  <2>4. n = 0 \/ n \in 1..Len(group)
    <3> HIDE DEF n
    <3>1. Len(group) \in Nat
      <4>1. group \in Seq(CommandSet)
        BY DEF LineInv, Commands
      <4> QED
        BY <4>1, SMT
    <3> QED
      BY <2>3, <3>1, SMT
  <2>5. SetSpace(space) /\ UNCHANGED <<assigned, pending>> => Frees
    BY <2>2 DEF SetSpace, Frees
  <2>9. Total(group, 1) \in Nat /\ Capacity \in Nat
    <3>1. group \in Seq(CommandSet)
      BY DEF LineInv, Commands
    <3>2. 1 \in DOMAIN group
      BY <3>1, SMT
    <3>3. group[1].call.size \in Nat
      BY <3>1, <3>2, CommandCaller
    <3> QED
      BY <3>3, TotalOne, ReactorAssumption
  <2>6. CASE n = 0 /\ Total(group, 1) > Capacity
    <3>1. Deliver(Answer("exceeds", 1)) /\ UNCHANGED storageVars
      <4>1. ~(Total(group, 1) <= Capacity) /\ ~(n > 0)
        <5> HIDE DEF n
        <5> QED
          BY <2>6, <2>9, SMT
      <4> QED
        BY <2>1, <2>6, <4>1
    <3> QED
      BY <1>1, <1>3, <3>1, <1>DeliverHands
  <2>7. CASE n = 0 /\ ~(Total(group, 1) > Capacity)
    <3>1. Deliver(Answer("wait", 1)) /\ SetSpace(space) /\ UNCHANGED <<assigned, pending>>
      <4>1. Total(group, 1) <= Capacity /\ ~(n > 0)
        <5> HIDE DEF n
        <5> QED
          BY <2>7, <2>9, SMT
      <4> QED
        BY <2>1, <2>7, <4>1
    <3> QED
      BY <1>1, <2>5, <3>1, <1>DeliverHands
  <2>8. CASE n # 0
    <3>1. n > 0 /\ n \in 1..Len(group)
      <4> HIDE DEF n
      <4> QED
        BY <2>3, <2>4, <2>8, SMT
    <3>2. CASE Exhausts(n)
      <4>1. Deliver(Answer("error", n)) /\ SetSpace(space) /\ UNCHANGED <<assigned, pending>>
        BY <2>1, <2>8, <3>1, <3>2
      <4> QED
        BY <1>1, <2>5, <4>1, <1>DeliverHands
    <3>3. CASE ~Exhausts(n)
      <4>1. Deliver(Answer("ok", n)) /\ AppendUnits(n, space)
        BY <2>1, <2>8, <3>1, <3>3
      <4>2. Handover /\ (rpc = "job" => result' = Answer("ok", n))
        BY <1>1, <4>1, <1>DeliverHands
      <4>3. jobKind = "append"
        BY <1>4 DEF AppendJob
      <4> QED
        BY <2>2, <2>3, <2>8, <3>1, <3>3, <4>1, <4>2, <4>3 DEF Appends
    <3> QED
      BY <3>2, <3>3
  <2> QED
    BY <2>6, <2>7, <2>8
<1>5. ASSUME ReadJob \/ RolloverJob PROVE Handover /\ Frees
  <2>1. UNCHANGED storageVars /\ \E res : Deliver(res)
    BY <1>5 DEF ReadJob, RolloverJob
  <2> QED
    BY <1>1, <1>3, <2>1, <1>DeliverHands
<1>6. ASSUME ReleaseJob \/ FailingJob PROVE Handover /\ (Frees \/ Releases)
  <2>1. (UNCHANGED storageVars \/ (jobKind = "release" /\ ReleaseRecords)) /\ \E res : Deliver(res)
    BY <1>6 DEF ReleaseJob, FailingJob
  <2> QED
    BY <1>1, <1>3, <2>1, <1>DeliverHands DEF Releases
<1>7. ASSUME ReclaimJob PROVE Handover /\ Frees
  <2>1. /\ \E res : Deliver(res)
        /\ UNCHANGED <<assigned, pending>>
        /\ \E space \in Reclaimed(jobKind) \cup {Space} : SetSpace(space)
    BY <1>7 DEF ReclaimJob
  <2>2. PICK space \in Reclaimed(jobKind) \cup {Space} : SetSpace(space)
    BY <2>1
  <2>3. space.dead \in 0..dead /\ space.work \in BOOLEAN
    BY <2>2, SpaceIn
  <2> QED
    BY <1>1, <2>1, <2>2, <2>3, <1>DeliverHands DEF SetSpace, Frees
<1>8. ASSUME LosingJob PROVE Handover /\ Frees
  <2>1. rpc \in {"job", "dropping", "abandoned"}
    BY <1>1 DEF ControlInv, Ownership
  <2>2. UNCHANGED storageVars /\ Handover
    BY <1>8, <2>1 DEF LosingJob, Handover
  <2> QED
    BY <1>3, <2>2
<1> QED
  BY <1>1, <1>4, <1>5, <1>6, <1>7, <1>8 DEF Job

\* The sequences after append_group: the old ones, then one per unit of the stream.
LEMMA AppendAssigns ==
    ASSUME CountingLaws, LineInv, Assigned, NEW n \in 0..Len(group), NEW space, AppendUnits(n, space),
           NEW s \in Stream
    PROVE  /\ assigned'[s] \in Seq(0..tickets)
           /\ Len(assigned'[s]) = Highwater(s) + InGroup(group, n, s)
           /\ \A i \in DOMAIN assigned[s] : i \in DOMAIN assigned'[s] /\ assigned'[s][i] = assigned[s][i]
           /\ \A i \in DOMAIN assigned'[s] :
                \/ i \in DOMAIN assigned[s] /\ assigned'[s][i] = assigned[s][i]
                \/ \E k \in 1..InGroup(group, n, s) :
                     /\ i = Highwater(s) + k
                     /\ assigned'[s][i] = group[UnitOf(s, k)].ticket
<1> DEFINE m == InGroup(group, n, s)
           a == assigned[s]
           b == [k \in 1..m |-> group[UnitOf(s, k)].ticket]
           C == 0..tickets
<1>1. n \in Nat /\ group \in Seq(CommandSet)
  BY SMT DEF LineInv, Commands
<1>2. m \in Nat
  BY <1>1, InGroupType
<1>3. assigned'[s] = a \o b
  BY DEF AppendUnits
<1>4. a \in Seq(C) /\ Len(a) \in Nat
  <2>1. a \in Seq(C)
    BY DEF Assigned
  <2> QED
    BY <2>1, SMT
<1>5. \A k \in 1..m : group[UnitOf(s, k)].ticket \in C
  <2> SUFFICES ASSUME NEW k \in 1..m PROVE group[UnitOf(s, k)].ticket \in C
    OBVIOUS
  <2>1. UnitOf(s, k) \in DOMAIN group
    BY <1>1, UnitIs
  <2>2. group[UnitOf(s, k)].ticket \in 1..tickets
    BY <1>1, <2>1, CommandCaller
  <2> QED
    BY <2>2, SMT
<1>6. b \in Seq(C) /\ Len(b) = m /\ \A k \in 1..m : b[k] = group[UnitOf(s, k)].ticket
  <2>1. b \in [1..m -> C]
    BY <1>5
  <2> HIDE DEF m, C
  <2> QED
    BY <1>2, <2>1, SMT
<1>7. DOMAIN b = 1..m
  OBVIOUS
<1> HIDE DEF m, a, b, C
<1>8. /\ a \o b \in Seq(C) /\ Len(a \o b) = Len(a) + Len(b)
      /\ \A i \in DOMAIN a : i \in DOMAIN (a \o b) /\ (a \o b)[i] = a[i]
      /\ \A i \in DOMAIN (a \o b) :
           \/ i \in DOMAIN a /\ (a \o b)[i] = a[i]
           \/ \E k \in DOMAIN b : i = Len(a) + k /\ (a \o b)[i] = b[k]
  <2>1. /\ a \o b \in Seq(C) /\ Len(a \o b) = Len(a) + Len(b)
        /\ \A i \in DOMAIN a : i \in DOMAIN (a \o b) /\ (a \o b)[i] = a[i]
        /\ \A i \in DOMAIN (a \o b) :
             \/ i \in DOMAIN a /\ (a \o b)[i] = a[i]
             \/ i - Len(a) \in DOMAIN b /\ i > Len(a) /\ (a \o b)[i] = b[i - Len(a)]
    <3>1. a \in Seq(C) /\ b \in Seq(C)
      BY <1>4, <1>6
    <3> QED
      BY <3>1, ConcatIndex, SMT
  <2>2. \A i \in DOMAIN (a \o b) : i = Len(a) + (i - Len(a))
    BY <1>4, <2>1, SMT
  <2> QED
    BY <2>1, <2>2
<1>9. \A i \in DOMAIN (a \o b) :
           \/ i \in DOMAIN a /\ (a \o b)[i] = a[i]
           \/ \E k \in 1..m : i = Len(a) + k /\ (a \o b)[i] = group[UnitOf(s, k)].ticket
  BY <1>6, <1>7, <1>8, SMT
<1> QED
  BY <1>3, <1>6, <1>8, <1>9 DEF a, m, C, Highwater

\* Nobody but a job changes the records.
LEMMA OthersKeepRecords ==
    ASSUME Next, ~Job
    PROVE  UNCHANGED storageVars
<1> USE DEF KeepRoot, KeepRest
<1>1. ASSUME NEW c \in Callers, Client(c) \/ Start(c) \/ Cancel(c) PROVE UNCHANGED storageVars
  BY <1>1 DEF Client, GetPermit, Send, Receive, Wake, Start, Cancel
<1>2. ASSUME NEW p \in Stoppers, Stopper(p) \/ StopBegin(p) \/ StopCancel(p) PROVE UNCHANGED storageVars
  BY <1>2 DEF Stopper, StopStore, StopAnnounce, StopLoop, StopBegin, StopCancel
<1>3. ASSUME Loop \/ AgeTimer \/ DropReactor \/ GuardDrop PROVE UNCHANGED storageVars
  BY <1>3 DEF Loop, AutomaticReclaim, CloseReceiver, EndLoop, FinishReactor, RejectPoisoned, Dispatch,
       Publish, Reply, FinishDropped, AgeTimer, DropReactor, GuardDrop
<1> QED
  BY <1>1, <1>2, <1>3 DEF Next, Step

\* Every step keeps Assigned: a unit gets the next sequence of its stream when its group is
\* appended, and what waits behind it has later tickets.
LEMMA AssignedStep ==
    ASSUME CountingLaws, ControlInv, LineInv, Assigned, Stored, [Next]_vars
    PROVE  Assigned'
\* The members of a sequence over C are in C.
<1>SeqMember.
    ASSUME NEW C, NEW s \in Seq(C), NEW i \in DOMAIN s
    PROVE  s[i] \in C
  BY <1>SeqMember, SMT
\* Tickets stay tickets when more are handed out.
<1>SeqWiden.
    ASSUME NEW C, NEW D, C \subseteq D, NEW s \in Seq(C)
    PROVE  s \in Seq(D)
  <2> USE <1>SeqWiden
  <2>1. s \in [1..Len(s) -> D] /\ Len(s) \in Nat
    BY SMT
  <2> QED
    BY <2>1, SMT
\* A part of a line without sequences has none.
<1>FreshSlice.
    ASSUME NEW C, NEW s \in Seq(C), NEW a \in Nat \ {0}, NEW b \in Nat, b <= Len(s), Fresh(s)
    PROVE  Fresh(SubSeq(s, a, b))
  <2> USE <1>FreshSlice
  <2> SUFFICES ASSUME NEW t \in Stream, NEW i \in DOMAIN assigned[t], NEW j \in DOMAIN SubSeq(s, a, b)
               PROVE  assigned[t][i] < SubSeq(s, a, b)[j].ticket
    BY DEF Fresh
  <2>1. j + a - 1 \in DOMAIN s /\ SubSeq(s, a, b)[j] = s[j + a - 1]
    BY SliceIndex, SMT
  <2> QED
    BY <2>1 DEF Fresh
\* Two lines without sequences, one after the other, have none.
<1>FreshConcat.
    ASSUME NEW C, NEW s \in Seq(C), NEW u \in Seq(C), Fresh(s), Fresh(u)
    PROVE  Fresh(s \o u)
  <2> USE <1>FreshConcat
  <2> SUFFICES ASSUME NEW t \in Stream, NEW i \in DOMAIN assigned[t], NEW j \in DOMAIN (s \o u)
               PROVE  assigned[t][i] < (s \o u)[j].ticket
    BY DEF Fresh
  <2>1. \/ j \in DOMAIN s /\ (s \o u)[j] = s[j]
        \/ \E k \in DOMAIN u : (s \o u)[j] = u[k]
    BY ConcatIndex, SMT
  <2> QED
    BY <2>1 DEF Fresh
\* No sequence is given out, and the line only moves on.
<1>AssignedKeeps.
    ASSUME Assigned, UNCHANGED <<assigned, tickets>>,
           receiver' # "dropped" => Fresh(backlog)' /\ Fresh(queue)',
           holder' = "job" => Fresh(group)',
           rpc' \in {"back", "reply"} =>
             Fresh(group)' \/ (rpc \in {"back", "reply"} /\ UNCHANGED <<group, result>>)
    PROVE  Assigned'
  <2> USE <1>AssignedKeeps
  <2>1. (assigned \in [Stream -> Seq(0..tickets)])' /\ SequencesFollowTheQueue'
    BY DEF Assigned, SequencesFollowTheQueue
  <2>2. ASSUME rpc' \in {"back", "reply"}, NEW t \in Stream, NEW i \in DOMAIN assigned'[t], NEW j \in DOMAIN group'
        PROVE  /\ j > result'.selected => assigned'[t][i] < group'[j].ticket
               /\ assigned'[t][i] = group'[j].ticket => t = group'[j].call.stream
    <3>1. CASE Fresh(group)'
      <4>1. assigned'[t][i] < group'[j].ticket
        BY <3>1 DEF Fresh
      <4>2. assigned'[t][i] \in Int
        <5>1. assigned'[t] \in Seq(0..tickets')
          BY <2>1
        <5>2. assigned'[t][i] \in 0..tickets'
          BY <5>1, <1>SeqMember
        <5> QED
          BY <5>2, SMT
      <4>3. assigned'[t][i] # group'[j].ticket
        BY <4>1, <4>2, SMT
      <4> QED
        BY <4>1, <4>3
    <3>2. CASE rpc \in {"back", "reply"} /\ UNCHANGED <<group, result>>
      BY <3>2 DEF Assigned
    <3> QED
      BY <2>2, <3>1, <3>2
  <2> QED
    BY <2>1, <2>2 DEF Assigned
\* A caller that does not send assigns nothing.
<1>AssignedClient.
    ASSUME Assigned, UNCHANGED <<assigned, queueVars, loopVars>>
    PROVE  Assigned'
  <2> USE <1>AssignedClient
  <2>1. UNCHANGED <<assigned, tickets, receiver, queue, backlog, holder, group, rpc, result>>
    BY DEF queueVars, loopVars
  <2>2. receiver # "dropped" => Fresh(backlog) /\ Fresh(queue)
    BY DEF Assigned
  <2>3. holder = "job" => Fresh(group)
    BY DEF Assigned
  <2>4. (Fresh(backlog) => Fresh(backlog)') /\ (Fresh(queue) => Fresh(queue)') /\ (Fresh(group) => Fresh(group)')
    BY <2>1 DEF Fresh
  <2> QED
    BY <2>1, <2>2, <2>3, <2>4, <1>AssignedKeeps
\* A command that is sent gets a ticket greater than all before it.
<1>AssignedSend.
    ASSUME ControlInv, LineInv, Assigned, NEW c \in Callers, Send(c)
    PROVE  Assigned'
  <2> USE <1>AssignedSend
  <2>1. /\ queue' = Append(queue, [call |-> op[c], ticket |-> tickets + 1]) /\ tickets' = tickets + 1
        /\ UNCHANGED <<assigned, receiver, backlog, holder, group, rpc, result>>
    BY DEF Send, KeepRoot, storageVars, loopVars
  <2>2. tickets \in Nat /\ queue \in Seq(CommandSet) /\ Len(queue) \in Nat
    <3>1. tickets \in Nat /\ queue \in Seq(CommandSet)
      BY DEF LineInv, Commands
    <3> QED
      BY <3>1, SMT
  <2>3. assigned' \in [Stream -> Seq(0..tickets')]
    <3>1. \A t \in Stream : assigned[t] \in Seq(0..tickets)
      BY DEF Assigned
    <3>2. 0..tickets \subseteq 0..tickets'
      BY <2>1, <2>2, SMT
    <3>3. \A t \in Stream : assigned[t] \in Seq(0..tickets')
      BY <3>1, <3>2, <1>SeqWiden
    <3> QED
      BY <2>1, <3>3 DEF Assigned
  <2>4. \A i \in DOMAIN queue' : \/ i \in DOMAIN queue /\ queue'[i] = queue[i]
                                 \/ queue'[i].ticket = tickets + 1
    BY <2>1, <2>2, SMT
  <2>5. receiver' # "dropped" => Fresh(backlog)' /\ Fresh(queue)'
    <3>1. SUFFICES ASSUME receiver # "dropped", NEW t \in Stream, NEW i \in DOMAIN assigned[t],
                          NEW j \in DOMAIN queue'
                   PROVE  assigned[t][i] < queue'[j].ticket
      BY <2>1 DEF Fresh, Assigned
    <3>2. assigned[t][i] < tickets + 1
      <4>1. assigned[t] \in Seq(0..tickets)
        BY DEF Assigned
      <4>2. assigned[t][i] \in 0..tickets
        BY <4>1, <1>SeqMember
      <4> QED
        BY <2>2, <4>2, SMT
    <3> QED
      BY <2>4, <3>1, <3>2 DEF Fresh, Assigned
  <2> QED
    BY <2>1, <2>3, <2>5 DEF Assigned, SequencesFollowTheQueue, Fresh
\* What is cut out of the line is fresh.
<1>AssignedWaiting.
    ASSUME ControlInv, LineInv, Assigned, rpc = "top"
    PROVE  Waiting \in Seq(CommandSet) /\ Fresh(Waiting)
  <2> USE <1>AssignedWaiting
  <2>1. receiver # "dropped" /\ backlog \in Seq(CommandSet) /\ queue \in Seq(CommandSet)
        /\ Waiting \in Seq(CommandSet)
    BY WaitingLine
  <2> QED
    BY <2>1, <1>FreshConcat DEF Waiting, Assigned
\* A rejected command leaves the line without a sequence.
<1>AssignedReject.
    ASSUME ControlInv, LineInv, Assigned, RejectPoisoned
    PROVE  Assigned'
  <2> USE <1>AssignedReject
  <2>1. /\ rpc = "top" /\ Take(1) /\ Waiting # << >>
        /\ UNCHANGED <<assigned, receiver, tickets, rpc, group, result, holder>>
    BY DEF RejectPoisoned, storageVars
  <2>2. Waiting \in Seq(CommandSet) /\ Fresh(Waiting) /\ backlog \in Seq(CommandSet) /\ queue \in Seq(CommandSet)
    BY <2>1, <1>AssignedWaiting, WaitingLine
  <2>3. PICK b \in Nat : /\ 1 <= b /\ b <= Len(Waiting)
                         /\ backlog' = SubSeq(Waiting, 2, b)
                         /\ queue' = SubSeq(Waiting, b + 1, Len(Waiting))
    BY <2>1, <2>2, TakeOne
  <2>4. 2 \in Nat \ {0} /\ b + 1 \in Nat \ {0} /\ Len(Waiting) \in Nat /\ Len(Waiting) <= Len(Waiting)
    BY <2>2, SMT
  <2>5. Fresh(SubSeq(Waiting, 2, b)) /\ Fresh(SubSeq(Waiting, b + 1, Len(Waiting)))
    BY <2>2, <2>3, <2>4, <1>FreshSlice
  <2>6. Fresh(backlog)' /\ Fresh(queue)'
    BY <2>1, <2>3, <2>5 DEF Fresh
  <2>7. holder' = "job" => Fresh(group)'
    BY <2>1 DEF Assigned, Fresh
  <2>8. rpc' \notin {"back", "reply"}
    BY <2>1
  <2> QED
    BY <2>1, <2>6, <2>7, <2>8, <1>AssignedKeeps
\* A dispatched group has no sequences yet.
<1>AssignedDispatch.
    ASSUME CountingLaws, ControlInv, LineInv, Assigned, Dispatch
    PROVE  Assigned'
  <2> USE <1>AssignedDispatch
  <2> DEFINE W == Waiting
             n == GroupLength(W)
             taken == IF n < MaxUnits /\ n < Len(W) /\ Groupable(W[1]) THEN n + 1 ELSE n
             kept == Max({taken, Len(backlog)})
  <2>1. /\ rpc = "top" /\ W # << >> /\ UNCHANGED <<assigned, tickets, receiver>>
        /\ group' = SubSeq(W, 1, n) /\ backlog' = SubSeq(W, n + 1, kept)
        /\ queue' = SubSeq(W, kept + 1, Len(W))
    BY DEF Dispatch, storageVars
  <2>2. W \in Seq(CommandSet) /\ Fresh(W) /\ backlog \in Seq(CommandSet) /\ queue \in Seq(CommandSet)
    BY <2>1, <1>AssignedWaiting, WaitingLine
  <2>3. n \in 1..Len(W)
    BY <2>1, <2>2, GroupLengthIn
  <2>4. Len(W) = Len(backlog) + Len(queue) /\ Len(W) \in Nat /\ Len(backlog) \in Nat /\ Len(queue) \in Nat
    BY <2>2, SMT DEF Waiting
  <2>5. taken \in Nat /\ taken <= Len(W)
    <3> HIDE DEF n, W
    <3> QED
      BY <2>3, <2>4, SMT
  <2>6. kept \in Nat /\ kept <= Len(W)
    <3> HIDE DEF taken
    <3>1. {taken, Len(backlog)} \in SUBSET Nat /\ {taken, Len(backlog)} # {}
      BY <2>4, <2>5
    <3>2. \A x \in {taken, Len(backlog)} : x <= Len(W)
      BY <2>4, <2>5, SMT
    <3>3. Max({taken, Len(backlog)}) \in {taken, Len(backlog)}
      BY <2>4, <3>1, <3>2, MaxMember
    <3> QED
      BY <3>1, <3>2, <3>3
  <2> HIDE DEF kept, n, W, taken
  <2>7. /\ 1 \in Nat \ {0} /\ n + 1 \in Nat \ {0} /\ kept + 1 \in Nat \ {0} /\ n \in Nat
        /\ n <= Len(W) /\ Len(W) <= Len(W)
    BY <2>3, <2>4, <2>6, SMT
  <2>8. Fresh(SubSeq(W, 1, n)) /\ Fresh(SubSeq(W, n + 1, kept)) /\ Fresh(SubSeq(W, kept + 1, Len(W)))
    BY <2>2, <2>4, <2>6, <2>7, <1>FreshSlice
  <2>9. Fresh(group)' /\ Fresh(backlog)' /\ Fresh(queue)'
    BY <2>1, <2>8 DEF Fresh
  <2> QED
    BY <2>1, <2>9, <1>AssignedKeeps
\* What goes back in front has no sequences.
<1>AssignedReply.
    ASSUME ControlInv, LineInv, Assigned, Reply
    PROVE  Assigned'
  <2> USE <1>AssignedReply
  <2> DEFINE n == result.selected
             y == SubSeq(group, n + 1, Len(group))
  <2>1. /\ rpc = "reply" /\ rpc' = "top" /\ group' = << >> /\ backlog' = y \o backlog
        /\ UNCHANGED <<assigned, queue, receiver, tickets, holder>>
    BY DEF Reply, Requeue, storageVars, queueVars
  <2>2. n \in 0..Len(group) /\ group \in Seq(CommandSet) /\ backlog \in Seq(CommandSet)
    BY <2>1 DEF LineInv, Hand, Commands
  <2>3. n + 1 \in Nat \ {0} /\ Len(group) \in Nat /\ Len(group) <= Len(group)
    BY <2>2, SMT
  <2>4. y \in Seq(CommandSet)
    BY <2>2, <2>3, SliceIndex
  <2>5. Fresh(y)
    <3> SUFFICES ASSUME NEW t \in Stream, NEW i \in DOMAIN assigned[t], NEW j \in DOMAIN y
                 PROVE  assigned[t][i] < y[j].ticket
      BY DEF Fresh
    <3>1. j + n \in DOMAIN group /\ j + n > n /\ y[j] = group[j + n]
      BY <2>2, SliceRest
    <3>2. \A k \in DOMAIN group : k > n => assigned[t][i] < group[k].ticket
      BY <2>1 DEF Assigned
    <3> QED
      BY <3>1, <3>2
  <2>6. receiver' # "dropped" => Fresh(backlog)' /\ Fresh(queue)'
    <3>1. SUFFICES ASSUME receiver # "dropped" PROVE Fresh(backlog)' /\ Fresh(queue)'
      BY <2>1
    <3>2. Fresh(backlog) /\ Fresh(queue)
      BY <3>1 DEF Assigned
    <3>3. Fresh(y \o backlog)
      BY <2>2, <2>4, <2>5, <3>2, <1>FreshConcat
    <3> QED
      BY <2>1, <3>2, <3>3 DEF Fresh
  <2>7. Fresh(group)' /\ rpc' \notin {"back", "reply"}
    <3>1. DOMAIN group' = {}
      BY <2>1, SMT
    <3> QED
      BY <2>1, <3>1 DEF Fresh
  <2> QED
    BY <2>1, <2>6, <2>7, <1>AssignedKeeps
\* A step of reactor_loop.
<1>AssignedLoop.
    ASSUME CountingLaws, ControlInv, LineInv, Assigned, Loop \/ AgeTimer \/ DropReactor \/ GuardDrop
    PROVE  Assigned'
  <2> USE <1>AssignedLoop
  <2> USE DEF storageVars, queueVars, loopVars
  <2>0. /\ receiver # "dropped" => Fresh(backlog) /\ Fresh(queue)
        /\ holder = "job" => Fresh(group)
    BY DEF Assigned
  <2>1. CASE AutomaticReclaim \/ AgeTimer
    <3>1. UNCHANGED <<assigned, tickets, receiver, queue, backlog, group>> /\ rpc = "top"
      BY <2>1 DEF AutomaticReclaim, AgeTimer
    <3>2. DOMAIN group' = {} /\ receiver # "dropped"
      <4>1. group = << >> /\ receiver # "dropped"
        BY <3>1, WaitingLine
      <4> QED
        BY <3>1, <4>1, SMT
    <3>3. Fresh(backlog)' /\ Fresh(queue)' /\ Fresh(group)'
      BY <2>0, <3>1, <3>2 DEF Fresh
    <3> QED
      BY <3>1, <3>3, <1>AssignedKeeps
  <2>2. CASE CloseReceiver \/ EndLoop
    <3>1. UNCHANGED <<assigned, tickets, queue, backlog, group>> /\ rpc = "top" /\ rpc' \in {"top", "finish"}
      BY <2>2 DEF CloseReceiver, EndLoop
    <3>2. DOMAIN group' = {} /\ receiver # "dropped"
      <4>1. group = << >> /\ receiver # "dropped"
        BY <3>1, WaitingLine
      <4> QED
        BY <3>1, <4>1, SMT
    <3>3. Fresh(backlog)' /\ Fresh(queue)' /\ Fresh(group)'
      BY <2>0, <3>1, <3>2 DEF Fresh
    <3>4. rpc' \notin {"back", "reply"}
      BY <3>1
    <3> QED
      BY <3>1, <3>3, <3>4, <1>AssignedKeeps
  <2>3. CASE FinishReactor \/ FinishDropped \/ Publish \/ GuardDrop
    <3>1. UNCHANGED <<assigned, tickets, receiver, queue, backlog, group, holder, result>>
      BY <2>3 DEF FinishReactor, FinishDropped, Publish, GuardDrop
    <3>2. rpc' \in {"back", "reply"} => rpc \in {"back", "reply"}
      BY <2>3 DEF FinishReactor, FinishDropped, Publish, GuardDrop
    <3>3. /\ (Fresh(backlog) => Fresh(backlog)') /\ (Fresh(queue) => Fresh(queue)')
          /\ (Fresh(group) => Fresh(group)')
      BY <3>1 DEF Fresh
    <3> QED
      BY <2>0, <3>1, <3>2, <3>3, <1>AssignedKeeps
  <2>4. CASE DropReactor
    <3>1. UNCHANGED <<assigned, tickets, group>> /\ rpc' = "dropping" /\ receiver' = "dropped"
          /\ (holder' = "job" => holder = "job")
      BY <2>4 DEF DropReactor
    <3>2. Fresh(group) => Fresh(group)'
      BY <3>1 DEF Fresh
    <3>3. rpc' \notin {"back", "reply"}
      BY <3>1
    <3> QED
      BY <2>0, <3>1, <3>2, <3>3, <1>AssignedKeeps
  <2> QED
    BY <2>1, <2>2, <2>3, <2>4, <1>AssignedReject, <1>AssignedDispatch, <1>AssignedReply DEF Loop
\* A unit's ticket, among those of the group, tells its place.
<1>TicketOrder.
    ASSUME LineInv, NEW i \in DOMAIN group, NEW j \in DOMAIN group
    PROVE  /\ i < j => group[i].ticket < group[j].ticket
           /\ group[i].ticket = group[j].ticket => i = j
  <2> USE <1>TicketOrder
  <2>1. group \in Seq(CommandSet) /\ InOrder(group)
    BY DEF LineInv, Commands, Hand
  <2>2. i < j => group[i].ticket < group[j].ticket
    BY <2>1 DEF InOrder, Before
  <2>3. j < i => group[j].ticket < group[i].ticket
    BY <2>1 DEF InOrder, Before
  <2>4. group[i].ticket \in 1..tickets /\ group[j].ticket \in 1..tickets /\ i \in Int /\ j \in Int
    <3>1. i \in Int /\ j \in Int
      BY <2>1, SMT
    <3> QED
      BY <2>1, <3>1, CommandCaller
  <2> QED
    BY <2>2, <2>3, <2>4, SMT
\* append_group keeps the sequences of every stream in the order of the tickets.
<1>AppendInOrder.
    ASSUME CountingLaws, LineInv, Assigned, Fresh(group), NEW n \in 0..Len(group), NEW space, AppendUnits(n, space)
    PROVE  SequencesFollowTheQueue'
  <2> USE <1>AppendInOrder
  <2> SUFFICES ASSUME NEW s \in Stream, NEW i \in DOMAIN assigned'[s], NEW j \in DOMAIN assigned'[s], i < j
               PROVE  assigned'[s][i] < assigned'[s][j]
    BY DEF SequencesFollowTheQueue
  <2> DEFINE m == InGroup(group, n, s)
  <2>0. n \in Nat /\ group \in Seq(CommandSet) /\ m \in Nat
    <3>1. n \in Nat /\ group \in Seq(CommandSet)
      BY SMT DEF LineInv, Commands
    <3> QED
      BY <3>1, InGroupType
  <2>1. \/ i \in DOMAIN assigned[s] /\ assigned'[s][i] = assigned[s][i]
        \/ \E k \in 1..m : i = Highwater(s) + k /\ assigned'[s][i] = group[UnitOf(s, k)].ticket
    BY AppendAssigns
  <2>2. \/ j \in DOMAIN assigned[s] /\ assigned'[s][j] = assigned[s][j]
        \/ \E k \in 1..m : j = Highwater(s) + k /\ assigned'[s][j] = group[UnitOf(s, k)].ticket
    BY AppendAssigns
  <2>3. Highwater(s) \in Nat /\ DOMAIN assigned[s] = 1..Highwater(s)
    <3>1. assigned[s] \in Seq(0..tickets)
      BY DEF Assigned
    <3> QED
      BY <3>1, SMT DEF Highwater
  <2>4. CASE i \in DOMAIN assigned[s] /\ j \in DOMAIN assigned[s]
    <3>1. assigned'[s][i] = assigned[s][i] /\ assigned'[s][j] = assigned[s][j]
      BY <2>4, AppendAssigns
    <3> QED
      BY <2>4, <3>1 DEF Assigned, SequencesFollowTheQueue
  <2>5. CASE i \in DOMAIN assigned[s] /\ j \notin DOMAIN assigned[s]
    <3>1. PICK k \in 1..m : assigned'[s][j] = group[UnitOf(s, k)].ticket
      BY <2>2, <2>5
    <3>2. UnitOf(s, k) \in DOMAIN group
      BY <2>0, UnitIs
    <3>3. assigned'[s][i] = assigned[s][i]
      BY <2>5, AppendAssigns
    <3> QED
      BY <2>5, <3>1, <3>2, <3>3 DEF Fresh
  <2>6. CASE i \notin DOMAIN assigned[s]
    <3>1. PICK k \in 1..m : i = Highwater(s) + k /\ assigned'[s][i] = group[UnitOf(s, k)].ticket
      BY <2>1, <2>6
    <3>2. j \notin DOMAIN assigned[s]
      <4> HIDE DEF m
      <4>1. DOMAIN assigned'[s] \subseteq Int
        <5>1. assigned'[s] \in Seq(0..tickets)
          BY AppendAssigns
        <5> QED
          BY <5>1, SMT
      <4> QED
        BY <2>0, <2>3, <3>1, <4>1, SMT
    <3>3. PICK l \in 1..m : j = Highwater(s) + l /\ assigned'[s][j] = group[UnitOf(s, l)].ticket
      BY <2>2, <3>2
    <3>4. k < l
      <4> HIDE DEF m
      <4> QED
        BY <2>0, <2>3, <3>1, <3>3, SMT
    <3>5. UnitOf(s, k) < UnitOf(s, l)
      BY <2>0, <3>4, UnitsInOrder, SMT
    <3>6. UnitOf(s, k) \in DOMAIN group /\ UnitOf(s, l) \in DOMAIN group
      BY <2>0, UnitIs
    <3>7. group[UnitOf(s, k)].ticket < group[UnitOf(s, l)].ticket
      BY <3>5, <3>6, <1>TicketOrder
    <3> QED
      BY <3>1, <3>3, <3>7
  <2> QED
    BY <2>4, <2>5, <2>6
\* append_group keeps Assigned.
<1>AssignedAppend.
    ASSUME CountingLaws, ControlInv, LineInv, Assigned, holder = "job", NEW n \in 0..Len(group), NEW space,
           AppendUnits(n, space), UNCHANGED <<tickets, receiver, backlog, queue, group>>,
           holder' # "job", rpc' \in {"back", "reply"} => rpc' = "back" /\ result'.selected = n
    PROVE  Assigned'
  <2> USE <1>AssignedAppend
  <2>0. Fresh(group) /\ group \in Seq(CommandSet) /\ n \in Nat
    <3>1. n \in Nat
      BY SMT
    <3> QED
      BY <3>1 DEF Assigned, LineInv, Commands
  <2>1. assigned' \in [Stream -> Seq(0..tickets')]
    <3>1. \A s \in Stream : assigned'[s] \in Seq(0..tickets)
      BY AppendAssigns
    <3>2. assigned' = [s \in Stream |-> assigned'[s]]
      BY DEF AppendUnits
    <3> QED
      BY <3>1, <3>2
  <2>2. SequencesFollowTheQueue'
    BY <2>0, <1>AppendInOrder
  \* What a sequence's ticket may be.
  <2>3. ASSUME NEW t \in Stream, NEW i \in DOMAIN assigned'[t]
        PROVE  \/ i \in DOMAIN assigned[t] /\ assigned'[t][i] = assigned[t][i]
               \/ \E u \in 1..n : /\ u \in DOMAIN group /\ group[u].call.stream = t
                                  /\ assigned'[t][i] = group[u].ticket
    <3>1. \/ i \in DOMAIN assigned[t] /\ assigned'[t][i] = assigned[t][i]
          \/ \E k \in 1..InGroup(group, n, t) : assigned'[t][i] = group[UnitOf(t, k)].ticket
      BY <2>3, AppendAssigns
    <3>2. ASSUME NEW k \in 1..InGroup(group, n, t)
          PROVE  UnitOf(t, k) \in 1..n /\ UnitOf(t, k) \in DOMAIN group /\ group[UnitOf(t, k)].call.stream = t
      BY <2>0, UnitIs
    <3> QED
      BY <3>1, <3>2
  <2>4. ASSUME NEW q, Fresh(q), Precedes(group, q)
        PROVE  \A t \in Stream : \A i \in DOMAIN assigned'[t], j \in DOMAIN q : assigned'[t][i] < q[j].ticket
    BY <2>3, <2>4 DEF Fresh, Precedes, Before
  <2>5. receiver' # "dropped" => Fresh(backlog)' /\ Fresh(queue)'
    <3>1. SUFFICES ASSUME receiver # "dropped" PROVE Fresh(backlog)' /\ Fresh(queue)'
      OBVIOUS
    <3>2. Fresh(backlog) /\ Fresh(queue) /\ Precedes(group, backlog) /\ Precedes(group, queue)
      BY <3>1 DEF Assigned, LineInv, Line
    <3>3. \A t \in Stream : \A i \in DOMAIN assigned'[t], j \in DOMAIN backlog : assigned'[t][i] < backlog[j].ticket
      BY <2>4, <3>2
    <3>4. \A t \in Stream : \A i \in DOMAIN assigned'[t], j \in DOMAIN queue : assigned'[t][i] < queue[j].ticket
      BY <2>4, <3>2
    <3> QED
      BY <3>3, <3>4 DEF Fresh
  <2>6. ASSUME rpc' \in {"back", "reply"}, NEW t \in Stream, NEW i \in DOMAIN assigned'[t], NEW j \in DOMAIN group'
        PROVE  /\ j > result'.selected => assigned'[t][i] < group'[j].ticket
               /\ assigned'[t][i] = group'[j].ticket => t = group'[j].call.stream
    <3>1. CASE i \in DOMAIN assigned[t] /\ assigned'[t][i] = assigned[t][i]
      <4>1. assigned[t][i] < group[j].ticket
        BY <2>0, <2>6, <3>1 DEF Fresh
      <4>2. assigned[t][i] \in 0..tickets
        <5>1. assigned[t] \in Seq(0..tickets)
          BY DEF Assigned
        <5> QED
          BY <3>1, <5>1, <1>SeqMember
      <4>3. assigned[t][i] # group[j].ticket
        BY <4>1, <4>2, SMT
      <4> QED
        BY <3>1, <4>1, <4>3
    <3>2. CASE \E u \in 1..n : /\ u \in DOMAIN group /\ group[u].call.stream = t
                               /\ assigned'[t][i] = group[u].ticket
      <4>1. PICK u \in 1..n : /\ u \in DOMAIN group /\ group[u].call.stream = t
                              /\ assigned'[t][i] = group[u].ticket
        BY <3>2
      <4>2. j \in DOMAIN group /\ result'.selected = n
        BY <2>6
      <4>3. j > n => u < j
        <5>1. DOMAIN group \subseteq Int
          BY <2>0, SMT
        <5> QED
          BY <2>0, <4>2, <5>1, SMT
      <4> QED
        BY <4>1, <4>2, <4>3, <1>TicketOrder
    <3> QED
      BY <2>3, <3>1, <3>2
  <2> QED
    BY <2>1, <2>2, <2>5, <2>6 DEF Assigned
\* A storage job keeps Assigned.
<1>AssignedJob.
    ASSUME CountingLaws, ControlInv, LineInv, Assigned, Stored, Job
    PROVE  Assigned'
  <2> USE <1>AssignedJob
  <2>1. /\ UNCHANGED <<queue, receiver, tickets, backlog, group>> /\ holder = "job" /\ Handover
        /\ Frees \/ Releases \/ \E n \in 1..Len(group) : Appends(n)
    BY JobCases
  <2>2. holder' # "job"
    BY <2>1 DEF Handover
  <2>3. CASE Frees \/ Releases
    <3>1. UNCHANGED assigned
      BY <2>3 DEF Frees, Releases, ReleaseRecords
    <3>2. Fresh(group) /\ (receiver # "dropped" => Fresh(backlog) /\ Fresh(queue))
      BY <2>1 DEF Assigned
    <3>3. Fresh(group)' /\ (Fresh(backlog) => Fresh(backlog)') /\ (Fresh(queue) => Fresh(queue)')
      BY <2>1, <3>1, <3>2 DEF Fresh
    <3> QED
      BY <2>1, <2>2, <3>1, <3>2, <3>3, <1>AssignedKeeps
  <2>4. CASE \E n \in 1..Len(group) : Appends(n)
    <3>1. PICK n \in 1..Len(group) : Appends(n)
      BY <2>4
    <3>2. PICK space : AppendUnits(n, space)
      BY <3>1 DEF Appends
    <3>3. n \in 0..Len(group)
      BY SMT
    <3>4. rpc' \in {"back", "reply"} => rpc' = "back" /\ result'.selected = n
      <4>1. rpc = "job" => result' = Answer("ok", n)
        BY <3>1 DEF Appends
      <4>2. Answer("ok", n).selected = n
        BY SMT DEF Answer
      <4> QED
        BY <2>1, <4>1, <4>2 DEF Handover
    <3> QED
      BY <2>1, <2>2, <3>2, <3>3, <3>4, <1>AssignedAppend
  <2> QED
    BY <2>1, <2>3, <2>4
<1>1. ASSUME NEW c \in Callers, Client(c) \/ Start(c) \/ Cancel(c) PROVE Assigned'
  <2>1. CASE Send(c)
    BY <2>1, <1>AssignedSend
  <2>2. CASE ~Send(c)
    <3>1. UNCHANGED <<assigned, queueVars, loopVars>>
      BY <1>1, <2>2 DEF Client, GetPermit, Receive, Wake, Start, Cancel, KeepRoot, storageVars
    <3> QED
      BY <3>1, <1>AssignedClient
  <2> QED
    BY <2>1, <2>2
<1>2. ASSUME NEW p \in Stoppers, Stopper(p) \/ StopBegin(p) \/ StopCancel(p) PROVE Assigned'
  <2>1. UNCHANGED <<assigned, queueVars, loopVars>>
    BY <1>2 DEF Stopper, StopStore, StopAnnounce, StopLoop, StopBegin, StopCancel, KeepRest, storageVars
  <2> QED
    BY <2>1, <1>AssignedClient
<1>3. CASE UNCHANGED vars
  <2>1. UNCHANGED <<assigned, queueVars, loopVars>>
    BY <1>3 DEF vars, storageVars
  <2> QED
    BY <2>1, <1>AssignedClient
<1> QED
  BY <1>1, <1>2, <1>3, <1>AssignedLoop, <1>AssignedJob DEF Next, Step

\* Every step keeps Stored: the records and the dead bytes fit the capacity, and each
\* pending record has a sequence its stream has reached.
LEMMA StoredStep ==
    ASSUME CountingLaws, ControlInv, LineInv, Assigned, Stored, [Next]_vars
    PROVE  Stored'
\* What leaves Storage alone keeps Stored.
<1>StoredKeeps.
    ASSUME Stored, UNCHANGED storageVars
    PROVE  Stored'
  <2> USE <1>StoredKeeps
  <2>1. UNCHANGED <<assigned, pending, dead, work>>
    BY DEF storageVars
  <2> QED
    BY <2>1 DEF Stored, Used, Highwater
\* Reclaiming frees dead bytes.
<1>StoredFrees. ASSUME CountingLaws, Stored, Frees PROVE Stored'
  <2> USE <1>StoredFrees
  <2>1. UNCHANGED <<assigned, pending>> /\ dead' \in 0..dead /\ work' \in BOOLEAN
    BY DEF Frees
  <2>2. dead \in Nat /\ SumSizes(pending) \in Nat /\ SumSizes(pending) + dead <= Capacity /\ Capacity \in Nat
    BY PendingSum, ReactorAssumption DEF Stored, Used
  <2>3. dead' \in Nat /\ SumSizes(pending) + dead' <= Capacity
    BY <2>1, <2>2, SMT
  <2> QED
    BY <2>1, <2>3 DEF Stored, Used, Highwater
\* A release turns the bytes of its records into dead ones.
<1>StoredReleases. ASSUME CountingLaws, Stored, ReleaseRecords PROVE Stored'
  <2> USE <1>StoredReleases
  <2>1. /\ pending' = pending \ Named /\ dead' = dead + SumSizes(Named) /\ UNCHANGED assigned
        /\ work' \in BOOLEAN
    BY DEF ReleaseRecords, Stored
  <2>2. Named \subseteq pending /\ pending \ Named \subseteq pending /\ pending \subseteq pending
    BY DEF Named
  <2>3. /\ IsFiniteSet(pending \ Named) /\ SumSizes(pending \ Named) \in Nat
        /\ SumSizes(Named) \in Nat /\ IsFiniteSet(pending) /\ SizesIn(pending)
    BY <2>2, PendingSum
  <2>4. SumSizes(pending) = SumSizes(pending \ Named) + SumSizes(Named)
    BY <2>2, <2>3, SizesSplit
  <2>5. dead \in Nat /\ SumSizes(pending) + dead <= Capacity /\ Capacity \in Nat
    BY ReactorAssumption DEF Stored, Used
  <2>6. dead' \in Nat /\ SumSizes(pending') + dead' <= Capacity
    BY <2>1, <2>3, <2>4, <2>5, SMT
  <2> QED
    BY <2>1, <2>2, <2>3, <2>6 DEF Stored, Used, Highwater
\* append_group stores units that fit, with new sequences.
<1>StoredAppends.
    ASSUME CountingLaws, LineInv, Assigned, Stored, NEW n \in 1..Len(group), Appends(n)
    PROVE  Stored'
  <2> USE <1>StoredAppends
  <2> DEFINE S(i) == group[i].call.stream
             rec == [i \in 1..n |-> <<S(i), Highwater(S(i)) + InGroup(group, i, S(i)), group[i].call.size>>]
  <2>0. /\ group \in Seq(CommandSet) /\ n \in Nat /\ n \in 0..Len(group) /\ 1..n \subseteq DOMAIN group
        /\ \A i \in 1..n : i \in Nat /\ i > 0 /\ i <= n
    <3>1. group \in Seq(CommandSet)
      BY DEF LineInv, Commands
    <3> QED
      BY <3>1, SMT
  <2>1. PICK space : /\ space.dead \in 0..dead /\ space.work \in BOOLEAN
                     /\ Fits(n, space) /\ ~Exhausts(n) /\ AppendUnits(n, space)
    BY DEF Appends
  <2>2. pending' = pending \cup {rec[i] : i \in 1..n} /\ dead' = space.dead /\ work' \in BOOLEAN
    BY <2>1 DEF AppendUnits
  <2>3. \A i \in 1..n : S(i) \in Stream /\ group[i].call.size \in Nat
    BY <2>0, CommandCaller
  <2>4. \A i \in 1..n : rec[i] = <<S(i), Highwater(S(i)) + InGroup(group, i, S(i)), group[i].call.size>>
    OBVIOUS
  <2>5. \A i \in 1..n : /\ rec[i][1] = S(i) /\ rec[i][2] = Highwater(S(i)) + InGroup(group, i, S(i))
                        /\ rec[i][3] = group[i].call.size
    <3> HIDE DEF rec, S
    <3> QED
      BY <2>4, SMT
  <2>6. \A s \in Stream : /\ Highwater(s) \in Nat /\ InGroup(group, n, s) \in Nat
                          /\ Len(assigned'[s]) = Highwater(s) + InGroup(group, n, s)
    <3> SUFFICES ASSUME NEW s \in Stream
                 PROVE  /\ Highwater(s) \in Nat /\ InGroup(group, n, s) \in Nat
                        /\ Len(assigned'[s]) = Highwater(s) + InGroup(group, n, s)
      OBVIOUS
    <3>1. Len(assigned'[s]) = Highwater(s) + InGroup(group, n, s)
      BY <2>0, <2>1, AppendAssigns
    <3>2. Highwater(s) \in Nat
      <4>1. assigned[s] \in Seq(0..tickets)
        BY DEF Assigned
      <4> QED
        BY <4>1, SMT DEF Highwater
    <3> QED
      BY <2>0, <3>1, <3>2, InGroupType DEF Highwater
  <2>7. \A s \in Stream : Len(assigned'[s]) <= SeqLimit
    <3> SUFFICES ASSUME NEW s \in Stream PROVE Len(assigned'[s]) <= SeqLimit
      OBVIOUS
    <3>1. ~(Highwater(s) + InGroup(group, n, s) > SeqLimit)
      BY <2>1 DEF Exhausts
    <3>2. SeqLimit \in Nat
      BY ReactorAssumption
    <3>3. Highwater(s) \in Nat /\ InGroup(group, n, s) \in Nat /\ Len(assigned'[s]) = Highwater(s) + InGroup(group, n, s)
      BY <2>6
    <3>4. Highwater(s) + InGroup(group, n, s) <= SeqLimit
      BY <3>1, <3>2, <3>3, SMT
    <3> QED
      BY <3>3, <3>4
  <2>8. \A r \in pending' : r[1] \in Stream /\ r[2] \in 1..Len(assigned'[r[1]]) /\ r[3] \in Nat
    <3>1. ASSUME NEW r \in pending PROVE r[1] \in Stream /\ r[2] \in 1..Len(assigned'[r[1]]) /\ r[3] \in Nat
      <4>1. r[1] \in Stream /\ r[2] \in 1..Highwater(r[1]) /\ r[3] \in Nat
        BY DEF Stored
      <4>2. /\ Highwater(r[1]) \in Nat /\ InGroup(group, n, r[1]) \in Nat
            /\ Len(assigned'[r[1]]) = Highwater(r[1]) + InGroup(group, n, r[1])
        BY <2>6, <4>1
      <4>3. r[2] \in 1..(Highwater(r[1]) + InGroup(group, n, r[1]))
        BY <4>1, <4>2, SMT
      <4> QED
        BY <4>1, <4>2, <4>3
    <3>2. ASSUME NEW i \in 1..n
          PROVE  rec[i][1] \in Stream /\ rec[i][2] \in 1..Len(assigned'[rec[i][1]]) /\ rec[i][3] \in Nat
      <4>1. S(i) \in Stream /\ group[i].call.size \in Nat
        BY <2>3
      <4>2. /\ Highwater(S(i)) \in Nat /\ InGroup(group, n, S(i)) \in Nat
            /\ Len(assigned'[S(i)]) = Highwater(S(i)) + InGroup(group, n, S(i))
        BY <2>6, <4>1
      <4>3. InGroup(group, i, S(i)) <= InGroup(group, n, S(i))
        BY <2>0, InGroupGrows
      <4>4. InGroup(group, i, S(i)) > 0 /\ InGroup(group, i, S(i)) \in Nat
        BY <2>0, InGroupPositive, InGroupType
      <4>5. Highwater(S(i)) + InGroup(group, i, S(i)) \in 1..(Highwater(S(i)) + InGroup(group, n, S(i)))
        <5> HIDE DEF S
        <5> QED
          BY <4>2, <4>3, <4>4, SMT
      <4>6. rec[i][1] = S(i) /\ rec[i][2] = Highwater(S(i)) + InGroup(group, i, S(i)) /\ rec[i][3] = group[i].call.size
        BY <2>5
      <4> HIDE DEF rec, S
      <4> QED
        BY <4>1, <4>2, <4>5, <4>6
    <3> HIDE DEF rec
    <3> QED
      BY <2>2, <3>1, <3>2
  <2>9. /\ IsFiniteSet(pending') /\ SizesIn(pending')
        /\ SumSizes(pending') <= SumSizes(pending) + Total(group, n) /\ Total(group, n) \in Nat
    <3>1. IsFiniteSet(pending) /\ SizesIn(pending)
      BY PendingSum
    <3>2. \A i \in 1..n : group[i].call.size \in Nat /\ rec[i][3] = group[i].call.size
      BY <2>3, <2>5
    <3> HIDE DEF rec
    <3>3. /\ IsFiniteSet(pending \cup {rec[i] : i \in 1..n}) /\ SizesIn(pending \cup {rec[i] : i \in 1..n})
          /\ SumSizes(pending \cup {rec[i] : i \in 1..n}) <= SumSizes(pending) + Total(group, n)
          /\ Total(group, n) \in Nat
      BY <2>0, <3>1, <3>2, AppendTakes
    <3> QED
      BY <2>2, <3>3
  <2>10. SumSizes(pending') + dead' <= Capacity /\ dead' \in Nat
    <3>1. SumSizes(pending') \in Nat /\ SumSizes(pending) \in Nat
      BY <2>9, SizesType, PendingSum
    <3>2. SumSizes(pending) + space.dead + Total(group, n) <= Capacity /\ Capacity \in Nat
      BY <2>1, ReactorAssumption DEF Fits
    <3>3. space.dead \in Nat
      BY <2>1, SMT DEF Stored
    <3>4. dead' = space.dead
      BY <2>2
    <3>5. SumSizes(pending') <= SumSizes(pending) + Total(group, n) /\ Total(group, n) \in Nat
      BY <2>9
    <3>6. \A p, q, t, x, y \in Nat : p <= q + t /\ q + x + t <= y => p + x <= y
      BY SMT
    <3> QED
      BY <3>1, <3>2, <3>3, <3>4, <3>5, <3>6
  <2> QED
    BY <2>2, <2>7, <2>8, <2>9, <2>10 DEF Stored, Used, Highwater
\* A storage job keeps Stored.
<1>StoredJob.
    ASSUME CountingLaws, ControlInv, LineInv, Assigned, Stored, Job
    PROVE  Stored'
  <2> USE <1>StoredJob
  <2>1. Frees \/ Releases \/ \E n \in 1..Len(group) : Appends(n)
    BY JobCases
  <2> QED
    BY <2>1, <1>StoredFrees, <1>StoredReleases, <1>StoredAppends DEF Releases
<1>1. CASE Job
  BY <1>1, <1>StoredJob
<1>2. CASE Next /\ ~Job
  BY <1>2, OthersKeepRecords, <1>StoredKeeps
<1>3. CASE UNCHANGED vars
  BY <1>3, <1>StoredKeeps DEF vars
<1> QED
  BY <1>1, <1>2, <1>3

\* What the result of a job says of Storage.
LEMMA JobOutcome ==
    ASSUME CountingLaws, ControlInv, LineInv, Stored, Job, rpc = "job"
    PROVE  Outcome
\* The result of a job reaches the reactor as it was returned.
<1>DeliverAnswers.
    ASSUME rpc = "job", NEW tag, NEW n, Deliver(Answer(tag, n))
    PROVE  holder' = "reactor" /\ result'.tag = tag /\ result'.selected = n
  <2> USE <1>DeliverAnswers
  <2>1. Answer(tag, n).tag = tag /\ Answer(tag, n).selected = n
    BY SMT DEF Answer
  <2> QED
    BY <2>1 DEF Deliver
<1>1. holder = "job"
  BY DEF Job
<1>3. \A res : Deliver(res) => holder' = "reactor" /\ result' = res
  BY DEF Deliver
<1>4. CASE AppendJob
  <2>1. jobKind = "append"
    BY <1>4 DEF AppendJob
  <2>2. ASSUME holder' = "reactor", result'.tag # "wait" PROVE Outcome
    BY <2>1, <2>2 DEF Outcome
  <2>3. PICK limit \in 1..Len(group), space \in SelectionSpace :
          LET n == Prefix(limit, space)
          IN CASE n = 0 /\ Total(group, 1) > Capacity ->
                   Deliver(Answer("exceeds", 1)) /\ UNCHANGED storageVars
              [] n = 0 /\ Total(group, 1) <= Capacity ->
                   Deliver(Answer("wait", 1)) /\ SetSpace(space) /\ UNCHANGED <<assigned, pending>>
              [] n > 0 /\ Exhausts(n) ->
                   Deliver(Answer("error", n)) /\ SetSpace(space) /\ UNCHANGED <<assigned, pending>>
              [] OTHER -> Deliver(Answer("ok", n)) /\ AppendUnits(n, space)
    BY <1>4 DEF AppendJob
  <2> DEFINE n == Prefix(limit, space)
  <2>4. limit \in Nat /\ 1 \in 1..limit /\ n \in 0..limit /\ (n = 0 => \A k \in 1..limit : ~Fits(k, space))
    <3>1. limit \in Nat /\ 1 \in 1..limit
      BY SMT
    <3> QED
      BY <3>1, PrefixIn
  <2>5. Total(group, 1) \in Nat /\ Capacity \in Nat
    <3>1. group \in Seq(CommandSet)
      BY DEF LineInv, Commands
    <3>2. 1 \in DOMAIN group
      BY <3>1, SMT
    <3>3. group[1].call.size \in Nat
      BY <3>1, <3>2, CommandCaller
    <3> QED
      BY <3>3, TotalOne, ReactorAssumption
  <2>6. CASE n = 0 /\ Total(group, 1) > Capacity
    <3>1. ~(Total(group, 1) <= Capacity) /\ ~(n > 0)
      <4> HIDE DEF n
      <4> QED
        BY <2>5, <2>6, SMT
    <3>2. Deliver(Answer("exceeds", 1))
      BY <2>3, <2>6, <3>1
    <3>3. holder' = "reactor" /\ result'.tag = "exceeds"
      BY <3>2, <1>DeliverAnswers
    <3> QED
      BY <2>2, <3>3
  <2>7. CASE n = 0 /\ ~(Total(group, 1) > Capacity)
    <3>1. Total(group, 1) <= Capacity /\ ~(n > 0)
      <4> HIDE DEF n
      <4> QED
        BY <2>5, <2>7, SMT
    <3>2. Deliver(Answer("wait", 1)) /\ SetSpace(space) /\ UNCHANGED <<assigned, pending>>
      BY <2>3, <2>7, <3>1
    <3>3. ~Fits(1, space)
      BY <2>4, <2>7
    <3>4. SumSizes(pending) + dead' + Total(group, 1) > Capacity
      <4>1. SumSizes(pending) \in Nat
        BY PendingSum
      <4>2. space.dead \in Nat /\ dead' = space.dead
        <5>1. space.dead \in 0..dead
          BY SpaceIn
        <5> QED
          BY <3>2, <5>1, SMT DEF SetSpace, Stored
      <4>3. ~(SumSizes(pending) + dead' + Total(group, 1) <= Capacity)
        BY <3>3, <4>2 DEF Fits
      <4> QED
        BY <2>5, <4>1, <4>2, <4>3, SMT
    <3>5. holder' = "reactor" /\ result'.tag = "wait" /\ result'.selected = 1
      BY <3>2, <1>DeliverAnswers
    <3> QED
      BY <2>1, <3>2, <3>4, <3>5 DEF Outcome
  <2>8. CASE n # 0
    <3>1. n > 0
      <4> HIDE DEF n
      <4> QED
        BY <2>4, <2>8, SMT
    <3>2. Deliver(Answer("error", n)) \/ Deliver(Answer("ok", n))
      <4>1. CASE Exhausts(n)
        BY <2>3, <2>8, <3>1, <4>1
      <4>2. CASE ~Exhausts(n)
        BY <2>3, <2>8, <3>1, <4>2
      <4> QED
        BY <4>1, <4>2
    <3>3. ASSUME NEW tag \in {"error", "ok"}, Deliver(Answer(tag, n)) PROVE Outcome
      <4>1. holder' = "reactor" /\ result'.tag = tag
        BY <3>3, <1>DeliverAnswers
      <4> QED
        BY <2>2, <3>3, <4>1
    <3> QED
      BY <3>2, <3>3
  <2> QED
    BY <2>6, <2>7, <2>8
<1>5. CASE ReadJob
  <2> DEFINE mine == {r[2] : r \in InStream(group[1].call.stream)}
  <2>1. /\ jobKind = "read" /\ UNCHANGED storageVars
        /\ \/ \E last \in mine : Deliver([tag |-> "ok", selected |-> 1, snapshot |-> {q \in mine : q <= last}])
           \/ Deliver(Answer("error", 1))
           \/ mine = {} /\ Deliver(Answer("wait", 1))
    BY <1>5 DEF ReadJob
  <2>2. CASE \E last \in mine : Deliver([tag |-> "ok", selected |-> 1, snapshot |-> {q \in mine : q <= last}])
    <3>1. PICK last \in mine : Deliver([tag |-> "ok", selected |-> 1, snapshot |-> {q \in mine : q <= last}])
      BY <2>2
    <3>2. result' = [tag |-> "ok", selected |-> 1, snapshot |-> {q \in mine : q <= last}]
      BY <1>3, <3>1
    <3>3. result'.tag = "ok" /\ result'.snapshot = {q \in mine : q <= last}
      <4> HIDE DEF mine
      <4> QED
        BY <3>2, SMT
    <3>4. result'.snapshot \subseteq mine
      BY <3>3
    <3> QED
      BY <2>1, <3>3, <3>4 DEF Outcome
  <2>3. CASE Deliver(Answer("error", 1))
    <3>1. holder' = "reactor" /\ result'.tag = "error"
      BY <2>3, <1>DeliverAnswers
    <3> QED
      BY <2>1, <3>1 DEF Outcome
  <2>4. CASE mine = {} /\ Deliver(Answer("wait", 1))
    <3>1. InStream(group[1].call.stream) = {}
      BY <2>4
    <3>2. result'.tag = "wait" /\ result'.selected = 1
      BY <2>4, <1>DeliverAnswers
    <3> QED
      BY <2>1, <3>1, <3>2 DEF Outcome
  <2> QED
    BY <2>1, <2>2, <2>3, <2>4
<1>6. CASE ReleaseJob \/ ReclaimJob \/ RolloverJob
  <2>1. jobKind # "read" /\ \E tag, n : tag # "wait" /\ Deliver(Answer(tag, n))
    BY <1>6 DEF ReleaseJob, ReclaimJob, RolloverJob
  <2>2. holder' = "reactor" /\ result'.tag # "wait"
    BY <2>1, <1>DeliverAnswers
  <2> QED
    BY <2>1, <2>2 DEF Outcome
<1>7. CASE FailingJob
  <2>1. \E n : Deliver(Answer("fatal", n))
    BY <1>7 DEF FailingJob
  <2>2. jobKind = "read" => UNCHANGED storageVars
    BY <1>7 DEF FailingJob
  <2>3. holder' = "reactor" /\ result'.tag = "fatal"
    BY <2>1, <1>DeliverAnswers
  <2> QED
    BY <2>2, <2>3 DEF Outcome
<1>8. CASE LosingJob
  <2>1. UNCHANGED storageVars /\ result' = LostJob(group)
    BY <1>8 DEF LosingJob
  <2>2. LostJob(group).tag = "fatal"
    BY SMT DEF LostJob
  <2> QED
    BY <2>1, <2>2 DEF Outcome
<1> QED
  BY <1>4, <1>5, <1>6, <1>7, <1>8 DEF Job

\* The view that Storage would publish depends on Storage only.
LEMMA SameView == ASSUME UNCHANGED storageVars PROVE UNCHANGED ViewFromStorage
<1>1. UNCHANGED <<assigned, pending, dead, work>>
  BY DEF storageVars
<1> QED
  BY <1>1 DEF ViewFromStorage, StorageStats, Published, Highwater, InStream

\* publish_storage makes the view what Storage holds.
LEMMA ShownPublish ==
    ASSUME Shown, Assigned, Publish
    PROVE  /\ Shown' /\ view' = ViewFromStorage
           /\ \A s \in Stream : view.streams[s].highwater <= view'.streams[s].highwater
<1>1. /\ rpc = "back" /\ rpc' = "reply" /\ UNCHANGED storageVars
      /\ view' = IF jobKind = "read" \/ holder = "none" THEN view
                 ELSE [stats   |-> StorageStats,
                       streams |-> [s \in Stream |-> IF s \in ChangedStreams
                                                     THEN Published(s) ELSE view.streams[s]]]
  BY DEF Publish
<1>2. view' = ViewFromStorage
  <2>1. CASE jobKind = "read" \/ holder = "none"
    BY <1>1, <2>1 DEF Shown
  <2>2. CASE ~(jobKind = "read" \/ holder = "none")
    <3>1. \A s \in Stream : (IF s \in ChangedStreams THEN Published(s) ELSE view.streams[s]) = Published(s)
      BY <1>1 DEF Shown
    <3>2. [s \in Stream |-> IF s \in ChangedStreams THEN Published(s) ELSE view.streams[s]]
            = [s \in Stream |-> Published(s)]
      BY <3>1
    <3> QED
      BY <1>1, <2>2, <3>2 DEF ViewFromStorage
  <2> QED
    BY <2>1, <2>2
<1>3. view' = ViewFromStorage'
  BY <1>1, <1>2, SameView
<1>4. \A s \in Stream : /\ view'.streams[s].highwater = Highwater(s)
                      /\ Highwater(s) \in 0..Highwater(s) /\ Highwater(s) \in Nat
  <2>1. \A s : Published(s).highwater = Highwater(s)
    BY SMT DEF Published
  <2>2. view'.streams = [s \in Stream |-> Published(s)]
    BY <1>2, SMT DEF ViewFromStorage
  <2>3. \A s \in Stream : Highwater(s) \in Nat
    <3> SUFFICES ASSUME NEW s \in Stream PROVE Highwater(s) \in Nat
      OBVIOUS
    <3>1. assigned[s] \in Seq(0..tickets)
      BY DEF Assigned
    <3> QED
      BY <3>1, SMT DEF Highwater
  <2>4. \A s \in Stream : Highwater(s) \in 0..Highwater(s)
    BY <2>3, SMT
  <2> QED
    BY <2>1, <2>2, <2>3, <2>4
<1>5. \A s \in Stream : view.streams[s].highwater <= view'.streams[s].highwater
  <2> SUFFICES ASSUME NEW s \in Stream PROVE view.streams[s].highwater <= view'.streams[s].highwater
    OBVIOUS
  <2>1. view.streams[s].highwater \in 0..Highwater(s)
    BY DEF Shown
  <2>2. view'.streams[s].highwater = Highwater(s) /\ Highwater(s) \in Nat
    BY <1>4
  <2> QED
    BY <2>1, <2>2, SMT
<1>6. \A s : Highwater(s)' = Highwater(s)
  BY <1>1 DEF Highwater, storageVars
<1>7. DOMAIN view'.streams = Stream
  <2>1. view'.streams = [s \in Stream |-> Published(s)]
    BY <1>2, SMT DEF ViewFromStorage
  <2> QED
    BY <2>1
<1> QED
  BY <1>1, <1>2, <1>3, <1>4, <1>5, <1>6, <1>7 DEF Shown

\* Steps that neither publish nor run a job.
LEMMA OthersKeepView ==
    ASSUME ControlInv, LineInv, Shown, Next, ~Job, ~Publish
    PROVE  /\ UNCHANGED <<storageVars, view>>
           /\ rpc' \in {"top", "job", "reply"} => view = ViewFromStorage
           /\ rpc' = "back" => \/ view = ViewFromStorage
                               \/ rpc = "back" /\ UNCHANGED <<jobKind, holder, group>>
           /\ rpc' \in {"back", "reply"} => \/ rpc \in {"back", "reply"} /\ UNCHANGED <<jobKind, result, group>>
                                            \/ result'.tag \notin {"ok", "wait"}
<1> USE DEF KeepRoot, KeepRest, loopVars
<1>0. UNCHANGED storageVars
  BY OthersKeepRecords
<1>1. ASSUME NEW c \in Callers, Client(c) \/ Start(c) \/ Cancel(c) PROVE UNCHANGED <<view, loopVars>>
  BY <1>1 DEF Client, GetPermit, Send, Receive, Wake, Start, Cancel
<1>2. ASSUME NEW p \in Stoppers, Stopper(p) \/ StopBegin(p) \/ StopCancel(p) PROVE UNCHANGED <<view, loopVars>>
  BY <1>2 DEF Stopper, StopStore, StopAnnounce, StopLoop, StopBegin, StopCancel
<1>3. ASSUME GuardDrop PROVE UNCHANGED <<view, loopVars>>
  BY <1>3 DEF GuardDrop
<1>4. CASE UNCHANGED <<view, loopVars>>
  BY <1>0, <1>4 DEF Shown, loopVars
<1>5. CASE AutomaticReclaim \/ CloseReceiver \/ EndLoop \/ RejectPoisoned \/ Dispatch \/ AgeTimer
  <2>1. UNCHANGED view /\ rpc = "top"
    BY <1>5 DEF AutomaticReclaim, CloseReceiver, EndLoop, RejectPoisoned, Dispatch, AgeTimer
  <2>2. view = ViewFromStorage
    BY <2>1 DEF Shown
  <2>3. rpc' \in {"back", "reply"} => result'.tag \notin {"ok", "wait"}
    <3>1. ASSUME NEW kind, NEW cmds, NEW cost, StartJob(kind, cmds, cost), rpc' # "job"
          PROVE  result'.tag \notin {"ok", "wait"}
      <4>1. result' = [LostJob(cmds) EXCEPT !.tag = IF holder = "none" THEN "poisoned" ELSE "fatal"]
        BY <3>1 DEF StartJob
      <4>2. result'.tag \in {"poisoned", "fatal"}
        BY <4>1, SMT DEF LostJob
      <4> QED
        BY <4>2
    <3>2. CASE CloseReceiver \/ EndLoop \/ RejectPoisoned
      BY <2>1, <3>2 DEF CloseReceiver, EndLoop, RejectPoisoned
    <3>3. CASE AutomaticReclaim \/ Dispatch \/ AgeTimer
      <4>1. \E kind, cmds, cost : StartJob(kind, cmds, cost)
        BY <3>3 DEF AutomaticReclaim, Dispatch, AgeTimer
      <4> QED
        BY <3>1, <4>1
    <3> QED
      BY <1>5, <3>2, <3>3
  <2> QED
    BY <1>0, <2>1, <2>2, <2>3
<1>6. CASE FinishReactor \/ FinishDropped \/ DropReactor
  <2>1. UNCHANGED view /\ rpc' \in {"ended", "abandoned", "dropping"}
    BY <1>6 DEF FinishReactor, FinishDropped, DropReactor
  <2> QED
    BY <1>0, <2>1
<1>7. CASE Reply
  <2>1. UNCHANGED view /\ rpc' = "top" /\ rpc = "reply"
    BY <1>7 DEF Reply
  <2> QED
    BY <1>0, <2>1 DEF Shown
<1> QED
  BY <1>1, <1>2, <1>3, <1>4, <1>5, <1>6, <1>7 DEF Next, Step, Loop

\* Every step keeps Shown: after a job, and before anything is answered, the reactor
\* publishes what the job changed.
LEMMA ShownStep ==
    ASSUME CountingLaws, ControlInv, LineInv, Assigned, Stored, Shown, [Next]_vars
    PROVE  Shown'
\* Streams that the group does not name stay as they are.
<1>OtherStreams.
    ASSUME CountingLaws, LineInv, Assigned, Frees \/ Releases \/ \E n \in 1..Len(group) : Appends(n),
           NEW s \in Stream
    PROVE  /\ Highwater(s) \in Nat /\ Highwater(s)' \in Nat /\ Highwater(s) <= Highwater(s)'
           /\ s \notin ChangedStreams => Published(s)' = Published(s)
  <2> USE <1>OtherStreams
  <2>0. Highwater(s) \in Nat /\ Highwater(s) <= Highwater(s)
    <3>1. assigned[s] \in Seq(0..tickets)
      BY DEF Assigned
    <3> QED
      BY <3>1, SMT DEF Highwater
  <2>1. CASE Frees
    <3>1. UNCHANGED <<assigned, pending>>
      BY <2>1 DEF Frees
    <3> QED
      BY <2>0, <3>1 DEF Published, Highwater, InStream
  <2>2. CASE Releases
    <3>1. pending' = pending \ Named /\ UNCHANGED assigned /\ jobKind = "release"
      BY <2>2 DEF Releases, ReleaseRecords
    <3>2. s \notin ChangedStreams => \A r \in Named : r[1] # s
      BY <3>1 DEF ChangedStreams, Named
    <3>3. s \notin ChangedStreams => InStream(s)' = InStream(s)
      BY <3>1, <3>2 DEF InStream
    <3> QED
      BY <2>0, <3>1, <3>3 DEF Published, Highwater
  <2>3. CASE \E n \in 1..Len(group) : Appends(n)
    <3>0. PICK n \in 1..Len(group) : Appends(n)
      BY <2>3
    <3>1. PICK space : AppendUnits(n, space) /\ jobKind = "append"
      BY <3>0 DEF Appends
    <3>2. n \in 0..Len(group) /\ n \in Nat /\ group \in Seq(CommandSet) /\ 1..n \subseteq DOMAIN group
      <4>1. group \in Seq(CommandSet)
        BY DEF LineInv, Commands
      <4> QED
        BY <4>1, SMT
    <3>3. Highwater(s)' = Highwater(s) + InGroup(group, n, s)
      BY <3>1, <3>2, AppendAssigns DEF Highwater
    <3>4. InGroup(group, n, s) \in Nat
      BY <3>2, InGroupType
    <3>5. Highwater(s)' \in Nat /\ Highwater(s) <= Highwater(s)'
      BY <2>0, <3>3, <3>4, SMT
    <3>6. ASSUME s \notin ChangedStreams PROVE Published(s)' = Published(s)
      <4>1. \A i \in 1..n : group[i].call.stream # s
        BY <3>1, <3>2, <3>6 DEF ChangedStreams
      <4>2. {i \in 1..n : group[i].call.stream = s} = {}
        BY <4>1
      <4>3. InGroup(group, n, s) = 0
        BY <4>2 DEF InGroup, CountingLaws
      <4>4. Highwater(s)' = Highwater(s)
        BY <2>0, <3>3, <4>3, SMT
      <4>5. InStream(s)' = InStream(s)
        <5> DEFINE rec(i) == <<group[i].call.stream,
                               Highwater(group[i].call.stream) + InGroup(group, i, group[i].call.stream),
                               group[i].call.size>>
        <5>1. pending' = pending \cup {rec(i) : i \in 1..n}
          BY <3>1 DEF AppendUnits
        <5>2. \A i \in 1..n : rec(i)[1] = group[i].call.stream
          BY SMT
        <5> HIDE DEF rec
        <5>3. \A i \in 1..n : rec(i)[1] # s
          BY <4>1, <5>2
        <5> QED
          BY <5>1, <5>3 DEF InStream
      <4> QED
        BY <4>4, <4>5 DEF Published
    <3> QED
      BY <2>0, <3>5, <3>6
  <2> QED
    BY <2>1, <2>2, <2>3
\* What leaves Storage, the view and the reactor's step alone keeps Shown.
<1>ShownKeeps.
    ASSUME Shown, UNCHANGED <<storageVars, view>>,
           rpc' \in {"top", "job", "reply"} => view = ViewFromStorage,
           rpc' = "back" => \/ view = ViewFromStorage
                            \/ rpc = "back" /\ UNCHANGED <<jobKind, holder, group>>
    PROVE  Shown'
  <2> USE <1>ShownKeeps
  <2>1. UNCHANGED <<assigned, pending, dead, work>>
    BY DEF storageVars
  <2>2. ViewFromStorage' = ViewFromStorage
    BY SameView
  <2>3. \A s : Published(s)' = Published(s) /\ Highwater(s)' = Highwater(s)
    BY <2>1 DEF Published, Highwater, InStream
  <2>4. /\ DOMAIN view'.streams = Stream
        /\ \A s \in Stream : view'.streams[s].highwater \in 0..Highwater(s)'
    BY <2>3 DEF Shown
  <2>5. CASE rpc' = "back"
    <3>1. CASE view = ViewFromStorage
      <4>1. \A s \in Stream : view.streams[s] = Published(s)
        BY <3>1, ViewShows
      <4> QED
        BY <2>2, <2>3, <2>4, <2>5, <3>1, <4>1 DEF Shown
    <3>2. CASE rpc = "back" /\ UNCHANGED <<jobKind, holder, group>>
      <4>1. ChangedStreams' = ChangedStreams
        BY <3>2 DEF ChangedStreams
      <4> QED
        BY <2>2, <2>3, <2>4, <2>5, <3>2, <4>1 DEF Shown
    <3> QED
      BY <2>5, <3>1, <3>2
  <2>6. CASE rpc' # "back"
    BY <2>2, <2>4, <2>6 DEF Shown
  <2> QED
    BY <2>5, <2>6
\* A job changes only the streams that the reactor will publish.
<1>ShownJob.
    ASSUME CountingLaws, ControlInv, LineInv, Assigned, Stored, Shown, Job
    PROVE  Shown'
  <2> USE <1>ShownJob
  <2>1. /\ UNCHANGED <<view, group, jobKind>> /\ holder = "job" /\ Handover
        /\ Frees \/ Releases \/ \E n \in 1..Len(group) : Appends(n)
    BY JobCases
  <2>2. \A s \in Stream : /\ Highwater(s) \in Nat /\ Highwater(s)' \in Nat /\ Highwater(s) <= Highwater(s)'
                          /\ s \notin ChangedStreams => Published(s)' = Published(s)
    BY <2>1, <1>OtherStreams
  <2>3. \A s \in Stream : view'.streams[s].highwater \in 0..Highwater(s)'
    <3> SUFFICES ASSUME NEW s \in Stream PROVE view.streams[s].highwater \in 0..Highwater(s)'
      BY <2>1
    <3>1. view.streams[s].highwater \in 0..Highwater(s)
      BY DEF Shown
    <3>2. Highwater(s) \in Nat /\ Highwater(s)' \in Nat /\ Highwater(s) <= Highwater(s)'
      BY <2>2
    <3> QED
      BY <3>1, <3>2, SMT
  <2>4. DOMAIN view'.streams = Stream
    BY <2>1 DEF Shown
  <2>5. CASE rpc = "job"
    <3>1. view = ViewFromStorage /\ rpc' = "back"
      BY <2>1, <2>5 DEF Shown, Handover
    <3>2. \A s \in Stream : view.streams[s] = Published(s)
      BY <3>1, ViewShows
    <3>3. jobKind' = "read" \/ holder' = "none" => view' = ViewFromStorage'
      <4>1. jobKind = "read" \/ holder' = "none" => UNCHANGED storageVars
        BY <2>5, JobOutcome DEF Outcome
      <4> QED
        BY <2>1, <3>1, <4>1, SameView
    <3>4. ChangedStreams' = ChangedStreams
      BY <2>1 DEF ChangedStreams
    <3>5. \A s \in Stream \ ChangedStreams : view'.streams[s] = Published(s)'
      BY <2>1, <2>2, <3>2
    <3> QED
      BY <2>3, <2>4, <3>1, <3>3, <3>4, <3>5 DEF Shown
  <2>6. CASE rpc # "job"
    <3>1. rpc' \notin {"top", "job", "reply", "back"}
      BY <2>1, <2>6 DEF Handover
    <3> QED
      BY <2>3, <2>4, <3>1 DEF Shown
  <2> QED
    BY <2>5, <2>6
<1>1. CASE Job
  BY <1>1, <1>ShownJob
<1>2. CASE Publish
  BY <1>2, ShownPublish
<1>3. CASE Next /\ ~Job /\ ~Publish
  BY <1>3, OthersKeepView, <1>ShownKeeps
<1>4. CASE UNCHANGED vars
  <2>1. UNCHANGED <<storageVars, view, rpc, jobKind, holder, group>>
    BY <1>4 DEF vars, loopVars
  <2> QED
    BY <2>1, <1>ShownKeeps DEF Shown
<1> QED
  BY <1>1, <1>2, <1>3, <1>4

\* Every step keeps Answered: an identity is returned only after the view shows it, and a
\* caller is told to wait only if it has to.
LEMMA AnsweredStep ==
    ASSUME CountingLaws, ControlInv, LineInv, Assigned, Stored, Shown, Answered, [Next]_vars
    PROVE  Answered'
\* No job ends and nothing is handed out.
<1>AnsweredKeeps.
    ASSUME Assigned, Shown, Answered, UNCHANGED <<storageVars, returned>>,
           \A s \in Stream : view.streams[s].highwater <= view'.streams[s].highwater,
           Shown',
           rpc' \in {"back", "reply"} => \/ rpc \in {"back", "reply"} /\ UNCHANGED <<jobKind, result, group>>
                                         \/ result'.tag \notin {"ok", "wait"}
    PROVE  Answered'
  <2> USE <1>AnsweredKeeps
  <2>1. UNCHANGED <<assigned, pending, dead, work>>
    BY DEF storageVars
  <2>2. (\A s : Highwater(s)' = Highwater(s)) /\ Used' = Used /\ \A s : InStream(s)' = InStream(s)
    BY <2>1 DEF Highwater, Used, InStream
  <2>3. \A id \in returned' : id[1] \in Stream /\ id[2] \in Nat
    BY DEF Answered
  <2>4. ReturnedIdsAreKnown'
    <3> SUFFICES ASSUME NEW id \in returned PROVE id[2] <= view'.streams[id[1]].highwater
      BY DEF ReturnedIdsAreKnown
    <3>1. id[1] \in Stream /\ id[2] \in Nat /\ id[2] <= view.streams[id[1]].highwater
      BY DEF Answered, ReturnedIdsAreKnown
    <3>2. view.streams[id[1]].highwater <= view'.streams[id[1]].highwater
      BY <3>1
    <3>3. view.streams[id[1]].highwater \in 0..Highwater(id[1]) /\ view'.streams[id[1]].highwater \in 0..Highwater(id[1])
      BY <2>2, <3>1 DEF Shown
    <3>4. view.streams[id[1]].highwater \in Int /\ view'.streams[id[1]].highwater \in Int
      BY <3>3, SMT
    <3> QED
      BY <3>1, <3>2, <3>4, SMT
  <2>5. CASE rpc' \in {"back", "reply"} /\ rpc \in {"back", "reply"} /\ UNCHANGED <<jobKind, result, group>>
    BY <2>2, <2>3, <2>4, <2>5 DEF Answered
  <2>6. CASE ~(rpc' \in {"back", "reply"}) \/ result'.tag \notin {"ok", "wait"}
    BY <2>3, <2>4, <2>6 DEF Answered
  <2> QED
    BY <2>5, <2>6
\* Answering a read returns identities that the view shows.
<1>AnsweredReply.
    ASSUME ControlInv, LineInv, Assigned, Stored, Shown, Answered, Reply
    PROVE  Answered'
  <2> USE <1>AnsweredReply
  <2>1. /\ rpc = "reply" /\ rpc' = "top" /\ UNCHANGED <<storageVars, view>>
        /\ returned' = returned \cup ReturnedIds
    BY DEF Reply
  <2>2. view = ViewFromStorage
    BY <2>1 DEF Shown
  <2>3. \A s \in Stream : view.streams[s].highwater = Highwater(s)
    BY <2>2, ViewShows
  <2>4. ASSUME NEW id \in ReturnedIds
        PROVE  id[1] \in Stream /\ id[2] \in Nat /\ id[2] <= Highwater(id[1])
    <3>1. result.tag = "ok" /\ jobKind \in {"read", "append"}
      BY <2>4 DEF ReturnedIds
    <3>2. CASE jobKind = "read"
      <4>1. PICK q \in result.snapshot : id = <<group[1].call.stream, q>>
        BY <2>4, <3>1, <3>2 DEF ReturnedIds
      <4>2. q \in Nat /\ q <= Highwater(group[1].call.stream)
        BY <2>1, <3>1, <3>2 DEF Answered
      <4>3. group[1].call.stream \in Stream
        <5>1. group \in Seq(CommandSet) /\ group # << >>
          BY <2>1, <3>2 DEF LineInv, Commands, Hand
        <5>2. 1 \in DOMAIN group
          BY <5>1, SMT
        <5> QED
          BY <5>1, <5>2, CommandCaller
      <4>4. id[1] = group[1].call.stream /\ id[2] = q
        BY <4>1, SMT
      <4> QED
        BY <4>2, <4>3, <4>4
    <3>3. CASE jobKind = "append"
      <4>1. id \in Stream \X (1..SeqLimit) /\ id[2] <= Highwater(id[1])
        BY <2>4, <3>1, <3>3 DEF ReturnedIds
      <4>2. id[1] \in Stream /\ id[2] \in Nat
        BY <4>1, SMT
      <4> QED
        BY <4>1, <4>2
    <3> QED
      BY <3>1, <3>2, <3>3
  <2>5. \A id \in ReturnedIds : id[2] <= view.streams[id[1]].highwater
    BY <2>3, <2>4
  <2>6. ReturnedIdsAreKnown' /\ \A id \in returned' : id[1] \in Stream /\ id[2] \in Nat
    BY <2>1, <2>4, <2>5 DEF Answered, ReturnedIdsAreKnown
  <2> QED
    BY <2>1, <2>6 DEF Answered
\* The result of a job tells what Storage holds.
<1>AnsweredJob.
    ASSUME CountingLaws, ControlInv, LineInv, Assigned, Stored, Shown, Answered, Job
    PROVE  Answered'
  <2> USE <1>AnsweredJob
  <2>1. UNCHANGED <<view, returned, group, jobKind>> /\ Handover
    BY JobCases
  <2>2. ReturnedIdsAreKnown' /\ \A id \in returned' : id[1] \in Stream /\ id[2] \in Nat
    BY <2>1 DEF Answered, ReturnedIdsAreKnown
  <2>3. CASE rpc # "job"
    <3>1. rpc' \notin {"back", "reply"}
      BY <2>1, <2>3 DEF Handover
    <3> QED
      BY <2>2, <3>1 DEF Answered
  <2>4. CASE rpc = "job"
    <3>1. Outcome
      BY <2>4, JobOutcome
    <3>2. jobKind = "read" /\ result'.tag = "ok" =>
            \A q \in result'.snapshot : q \in Nat /\ q <= Len(assigned'[group[1].call.stream])
      <4> SUFFICES ASSUME jobKind = "read", result'.tag = "ok", NEW q \in result'.snapshot
                   PROVE  q \in Nat /\ q <= Len(assigned'[group[1].call.stream])
        OBVIOUS
      <4>1. PICK r \in InStream(group[1].call.stream) : q = r[2]
        BY <3>1 DEF Outcome
      <4>2. r \in pending /\ r[1] = group[1].call.stream
        BY DEF InStream
      <4>3. r[1] \in Stream /\ r[2] \in 1..Highwater(r[1])
        BY <4>2 DEF Stored
      <4>4. Highwater(r[1]) \in Nat
        <5>1. assigned[r[1]] \in Seq(0..tickets)
          BY <4>3 DEF Assigned
        <5> QED
          BY <5>1, SMT DEF Highwater
      <4>5. q \in Nat /\ q <= Highwater(r[1])
        BY <4>1, <4>3, <4>4, SMT
      <4>6. assigned' = assigned
        BY <3>1 DEF Outcome, storageVars
      <4> QED
        BY <4>2, <4>5, <4>6 DEF Highwater
    <3>3. group \in Seq(CommandSet)
      BY DEF LineInv, Commands
    <3>4. jobKind \in {"read", "append"} => group # << >>
      BY <2>4 DEF LineInv, Hand
    <3>5. result'.tag = "wait" =>
            /\ result'.selected = 1 /\ group # << >>
            /\ \/ jobKind = "read" /\ {r \in pending' : r[1] = group[1].call.stream} = {}
               \/ jobKind = "append" /\ SumSizes(pending') + dead' + group[1].call.size > Capacity
      <4> SUFFICES ASSUME result'.tag = "wait"
                   PROVE  /\ result'.selected = 1 /\ group # << >>
                          /\ \/ jobKind = "read" /\ {r \in pending' : r[1] = group[1].call.stream} = {}
                             \/ jobKind = "append" /\ SumSizes(pending') + dead' + group[1].call.size > Capacity
        OBVIOUS
      <4>1. /\ result'.selected = 1
            /\ \/ jobKind = "read" /\ InStream(group[1].call.stream) = {} /\ UNCHANGED storageVars
               \/ /\ jobKind = "append" /\ UNCHANGED pending
                  /\ SumSizes(pending) + dead' + Total(group, 1) > Capacity
        BY <3>1 DEF Outcome
      <4>2. CASE jobKind = "read"
        BY <3>4, <4>1, <4>2 DEF InStream, storageVars
      <4>3. CASE jobKind = "append"
        <5>1. Total(group, 1) = group[1].call.size
          <6>1. 1 \in DOMAIN group
            BY <3>3, <3>4, <4>3, SMT
          <6>2. group[1].call.size \in Nat
            BY <3>3, <6>1, CommandCaller
          <6> QED
            BY <6>2, TotalOne
        <5> QED
          BY <3>4, <4>1, <4>3, <5>1
      <4> QED
        BY <4>1, <4>2, <4>3
    <3> QED
      BY <2>1, <2>2, <3>2, <3>5 DEF Answered, Highwater, InStream, Used
  <2> QED
    BY <2>3, <2>4
<1>0. Shown'
  BY ShownStep
<1>1. CASE Job
  BY <1>1, <1>AnsweredJob
<1>2. CASE Publish
  <2>1. \A s \in Stream : view.streams[s].highwater <= view'.streams[s].highwater
    BY <1>2, ShownPublish
  <2>2. UNCHANGED <<storageVars, returned, jobKind, result, group>> /\ rpc \in {"back", "reply"}
    BY <1>2 DEF Publish
  <2> QED
    BY <1>0, <2>1, <2>2, <1>AnsweredKeeps
<1>3. CASE Reply
  BY <1>3, <1>AnsweredReply
<1>4. \A s \in Stream : view.streams[s].highwater <= view.streams[s].highwater
  <2>1. \A s \in Stream : view.streams[s].highwater \in Int
    <3> SUFFICES ASSUME NEW s \in Stream PROVE view.streams[s].highwater \in Int
      OBVIOUS
    <3>1. view.streams[s].highwater \in 0..Highwater(s)
      BY DEF Shown
    <3> QED
      BY <3>1, SMT
  <2> QED
    BY <2>1, SMT
<1>5. CASE Next /\ ~Job /\ ~Publish /\ ~Reply
  <2>1. UNCHANGED returned
    BY <1>5 DEF Next, Step, Client, GetPermit, Send, Receive, Wake, Start, Cancel, Stopper, StopStore,
         StopAnnounce, StopLoop, StopBegin, StopCancel, Loop, AutomaticReclaim, CloseReceiver, EndLoop,
         FinishReactor, RejectPoisoned, Dispatch, FinishDropped, AgeTimer, DropReactor, GuardDrop,
         KeepRoot, KeepRest
  <2>2. /\ UNCHANGED <<storageVars, view>>
        /\ rpc' \in {"back", "reply"} => \/ rpc \in {"back", "reply"} /\ UNCHANGED <<jobKind, result, group>>
                                         \/ result'.tag \notin {"ok", "wait"}
    BY <1>5, OthersKeepView
  <2> QED
    BY <1>0, <1>4, <2>1, <2>2, <1>AnsweredKeeps
<1>6. CASE UNCHANGED vars
  <2>1. UNCHANGED <<storageVars, view, returned, rpc, jobKind, result, group>>
    BY <1>6 DEF vars, loopVars
  <2> QED
    BY <1>0, <1>4, <2>1, <1>AnsweredKeeps
<1> QED
  BY <1>1, <1>2, <1>3, <1>5, <1>6

\* Every step keeps SequenceInv.
LEMMA SequenceStep == CountingLaws /\ ControlInv /\ LineInv /\ SequenceInv /\ [Next]_vars => SequenceInv'
  BY AssignedStep, StoredStep, ShownStep, AnsweredStep DEF SequenceInv

=============================================================================
