------------------------------ MODULE MCReactor ------------------------------
(* Instances of Reactor and its invariant for model checking. *)
EXTENDS ReactorInvariant, TLC

CONSTANTS c1, c2, c3, p1, p2, s1, s2

Call(c, kind, s, id, size) == [caller |-> c, kind |-> kind, stream |-> s, id |-> id, size |-> size]

\* One record survives from an earlier process.  With a capacity of 4 and two
\* sequences per stream there are appends that fit together, wait for space, exceed
\* it, or exhaust their stream.
OneRecovered == {<<s1, 1, 1>>}

MixedCalls ==
    {Call(c1, "append", s1, 0, 1), Call(c1, "append", s1, 0, 5), Call(c1, "read", s2, 0, 0),
     Call(c2, "append", s2, 0, 1), Call(c2, "append", s2, 0, 4), Call(c2, "reclaim", s2, 0, 0),
     Call(c3, "append", s2, 0, 1), Call(c3, "append", s1, 0, 1), Call(c3, "release", s1, 1, 1)}

=============================================================================
