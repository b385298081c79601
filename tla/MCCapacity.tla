----------------------------- MODULE MCCapacity -----------------------------
(* Instances of Capacity for model checking. *)
EXTENDS Capacity, TLC

CONSTANTS s1, s2

Unit(s, records, payload) == [stream |-> s, records |-> records, payload |-> payload]

\* The last one fits an empty root as long as no other stream is known.
SmallQueues ==
    {<<Unit(s1, 1, 0)>>, <<Unit(s1, 3, 30)>>,
     <<Unit(s1, 1, 0), Unit(s2, 2, 40), Unit(s1, 1, 0)>>, <<Unit(s1, 1, 500)>>}

\* Another stream is known before the large append, which then needs 1268 bytes at least,
\* and fits into 1252 once the root is empty.
NewStreamQueues == {<<Unit(s2, 1, 0)>>, <<Unit(s1, 1, 500)>>}

=============================================================================
