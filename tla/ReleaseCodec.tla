---------------------------- MODULE ReleaseCodec ----------------------------
(***************************************************************************)
(* How the released records of a segment are written to a checkpoint       *)
(* (ReleaseEncoding in format.rs), and how the sequences of a release are  *)
(* written to a frame (coalesce_sequences).                                *)
(*                                                                         *)
(* A flag vector of n records is the set of the ordinals 0..n-1 that are   *)
(* set.  A range is its first and last ordinal; a bitmap word is the set   *)
(* of its one bits.  A word has 64 bits in the format: WordBits is a       *)
(* constant so that a small segment can have several words.                *)
(***************************************************************************)
EXTENDS Integers, FiniteSets, FiniteSetsExt

CONSTANT WordBits

ASSUME CodecAssumption == WordBits \in Nat \ {0}

RangeBytes == 16
WordBytes == 8

-----------------------------------------------------------------------------
(***************************************************************************)
(* ordinal_ranges and coalesce_sequences: the maximal runs.                *)
(***************************************************************************)

\* Where the runs of a set of ordinals begin and end.
Starts(flags) == {i \in flags : i - 1 \notin flags}

Ends(flags) == {i \in flags : i + 1 \notin flags}

EndOf(flags, start) == Min({i \in Ends(flags) : i >= start})

Ranges(flags) == {<<start, EndOf(flags, start)>> : start \in Starts(flags)}

\* validate_ranges with its bound, for an unordered set of ranges: each nonempty, within
\* the records, and separated from the others by at least one ordinal.
RangesAreValid(ranges, count) ==
    /\ \A r \in ranges : r[1] <= r[2] /\ r[2] < count
    /\ \A r, q \in ranges : r # q => r[2] + 2 <= q[1] \/ q[2] + 2 <= r[1]

-----------------------------------------------------------------------------
(***************************************************************************)
(* bitmap_words                                                            *)
(***************************************************************************)
WordCount(count) == (count + WordBits - 1) \div WordBits

Bits == 0..(WordBits - 1)

BitmapWords(flags, count) ==
    [w \in 0..(WordCount(count) - 1) |-> {b \in Bits : w * WordBits + b \in flags}]

-----------------------------------------------------------------------------
(***************************************************************************)
(* ReleaseEncoding: from_flags, to_flags, validate_canonical.              *)
(***************************************************************************)
InRanges(ranges) == [kind |-> "ranges", units |-> ranges]

InWords(words) == [kind |-> "bitmap", units |-> words]

\* Mutant: a bitmap already when it takes as much room as the ranges.
FromFlagsStrict(flags, count) ==
    IF RangeBytes * Cardinality(Ranges(flags)) < WordBytes * WordCount(count)
    THEN InRanges(Ranges(flags))
    ELSE InWords(BitmapWords(flags, count))

\* Ranges when they take no more room than the bitmap.
FromFlags(flags, count) ==
    IF RangeBytes * Cardinality(Ranges(flags)) <= WordBytes * WordCount(count)
    THEN InRanges(Ranges(flags))
    ELSE InWords(BitmapWords(flags, count))

EncodedBytes(flags, count) ==
    LET encoding == FromFlags(flags, count)
    IN  IF encoding.kind = "ranges"
        THEN RangeBytes * Cardinality(encoding.units)
        ELSE WordBytes * Cardinality(DOMAIN encoding.units)

ToFlags(encoding, count) ==
    IF encoding.kind = "ranges"
    THEN UNION {r[1]..r[2] : r \in encoding.units}
    ELSE {i \in 0..(count - 1) : (i % WordBits) \in encoding.units[i \div WordBits]}

\* starts = word & !(word << 1), without the first bit when the word before ends in a one.
WordStarts(words, w) ==
    {b \in words[w] :
        /\ b - 1 \notin words[w]
        /\ ~(b = 0 /\ w > 0 /\ (WordBits - 1) \in words[w - 1])}

RangeCount(words) == MapThenSumSet(LAMBDA w : Cardinality(WordStarts(words, w)), DOMAIN words)

IsCanonical(encoding, count) ==
    /\ count # 0
    /\ encoding.kind = "ranges" =>
         /\ RangesAreValid(encoding.units, count)
         /\ \/ encoding.units = {}
            \/ RangeBytes * Cardinality(encoding.units) <= WordBytes * WordCount(count)
    /\ encoding.kind = "bitmap" =>
         /\ DOMAIN encoding.units = 0..(WordCount(count) - 1)
         /\ \A w \in DOMAIN encoding.units : \A b \in encoding.units[w] :
                w * WordBits + b < count
         /\ \E w \in DOMAIN encoding.units : encoding.units[w] # {}
         /\ RangeBytes * RangeCount(encoding.units) > WordBytes * WordCount(count)

=============================================================================
