------------------------------- MODULE Buffer -------------------------------
(***************************************************************************)
(* What Camus promises its callers, without files: a buffer of records     *)
(* that survives crashes.  A record whose append was reported stays        *)
(* pending until its release is requested; one whose release was reported  *)
(* never comes back; an append that was not reported may survive a crash   *)
(* in part, and a release that was not reported may or may not take        *)
(* effect; an identity is given out once.  Storage.tla implements this     *)
(* (StorageRefinement.tla).                                                *)
(***************************************************************************)
EXTENDS Integers

CONSTANTS Stream, Sequence

VARIABLES
    open,       \* a Log is open on the root
    pending,    \* the records the root holds, pending when it is open
    inflight,   \* the records of the append being served
    acked,      \* reported appends whose release nobody requested
    released    \* records whose release was reported

vars == <<open, pending, inflight, acked, released>>

Record == Stream \X Sequence

Init == open = FALSE /\ pending = {} /\ inflight = {} /\ acked = {} /\ released = {}

Open ==
    /\ ~open
    /\ open' = TRUE
    /\ UNCHANGED <<pending, inflight, acked, released>>

Close ==
    /\ open /\ inflight = {}
    /\ open' = FALSE
    /\ UNCHANGED <<pending, inflight, acked, released>>

\* Every identity of the append follows all that its stream has shown so far.
Submit(R) ==
    /\ open /\ inflight = {} /\ R # {}
    /\ \A r \in R : \A q \in pending \cup acked \cup released : q[1] = r[1] => q[2] < r[2]
    /\ inflight' = R
    /\ UNCHANGED <<open, pending, acked, released>>

Append ==
    /\ inflight # {}
    /\ pending' = pending \cup inflight
    /\ acked' = acked \cup inflight
    /\ inflight' = {}
    /\ UNCHANGED <<open, released>>

\* The append reports an error that leaves nothing behind.
Refuse ==
    /\ inflight # {}
    /\ inflight' = {}
    /\ UNCHANGED <<open, pending, acked, released>>

\* A release of R, which takes effect and is reported now or at a later step.
Release(R) ==
    /\ open /\ inflight = {}
    /\ acked' = acked \ R
    /\ pending' \in {pending, pending \ R}
    /\ released' \in {released, released \cup R}
    /\ released' # released => pending' \cap R = {}
    /\ UNCHANGED <<open, inflight>>

\* A crash keeps what was reported and brings nothing back.
Crash ==
    /\ open' = FALSE
    /\ inflight' = {}
    /\ pending' \in SUBSET (pending \cup inflight)
    /\ acked \subseteq pending'
    /\ UNCHANGED <<acked, released>>

Next ==
    \/ Open \/ Close \/ Append \/ Refuse \/ Crash
    \/ \E R \in SUBSET Record : Submit(R) \/ Release(R)

Spec == Init /\ [][Next]_vars

-----------------------------------------------------------------------------
TypeOK ==
    /\ open \in BOOLEAN
    /\ pending \subseteq Record /\ inflight \subseteq Record
    /\ acked \subseteq Record /\ released \subseteq Record

\* The at-least-once boundary, as it follows from the steps above: what was reported and
\* not asked to be released is pending, what was reported released is not, and the
\* append being served has identities that nobody was told before.
Handoff ==
    /\ acked \subseteq pending
    /\ pending \cap released = {}
    /\ inflight \cap (pending \cup acked \cup released) = {}

=============================================================================
