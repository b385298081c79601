---------------------------- MODULE FormatProofs ----------------------------
(***************************************************************************)
(* The theorems about what a root is on disk: the encoding of its          *)
(* releases, for segments of any number of records and words of any number *)
(* of bits (64 in the format); and its creation and opening, for any       *)
(* number of openers, any depth of the path and any number of crashes.     *)
(***************************************************************************)
EXTENDS Root, ReleaseCodec, FiniteSetTheorems, WellFoundedInduction, TLAPS

\* A nonempty set of naturals has a least member.
LEMMA MinMember ==
    ASSUME NEW S \in SUBSET Nat, S # {}
    PROVE  Min(S) \in S /\ \A x \in S : Min(S) <= x
<1>1. PICK t \in S : \A u \in S : ~(<<u, t>> \in OpToRel(<, Nat))
  BY NatLessThanWellFounded, WFMin, Zenon
<1>2. \A u \in S : t <= u
  <2> SUFFICES ASSUME NEW u \in S
               PROVE  t <= u
    OBVIOUS
  <2>1. ~(u < t)
    BY <1>1 DEF OpToRel
  <2> QED
    BY <2>1
<1> QED
  BY <1>1, <1>2 DEF Min

-----------------------------------------------------------------------------
(* ordinal_ranges *)

\* From a flagged ordinal on, the flags hold up to the end that EndOf finds, and not
\* beyond it.
LEMMA EndOfRun ==
    ASSUME NEW count \in Nat, NEW flags \in SUBSET (0..(count - 1)), NEW start \in flags
    PROVE  /\ EndOf(flags, start) \in flags
           /\ start <= EndOf(flags, start)
           /\ EndOf(flags, start) + 1 \notin flags
           /\ \A k \in start..EndOf(flags, start) : k \in flags
<1> DEFINE Gaps == {k \in Nat : k > start /\ k \notin flags}
           gap == Min(Gaps)
           E == {i \in Ends(flags) : i >= start}
<1>0. \A x \in flags : x \in Nat /\ x < count
  OBVIOUS
<1>1. gap \in Gaps /\ \A x \in Gaps : gap <= x
  <2>1. count \in Gaps
    BY <1>0
  <2>2. Gaps \in SUBSET Nat /\ Gaps # {}
    BY <2>1
  <2> QED
    BY <2>2, MinMember
<1> HIDE DEF gap
<1>2. \A k \in start..(gap - 1) : k \in flags
  <2> SUFFICES ASSUME NEW k \in start..(gap - 1), k \notin flags
               PROVE  FALSE
    OBVIOUS
  <2>1. k \in Nat /\ k # start /\ k >= start /\ k < gap
    BY <1>1
  <2>2. k \in Gaps
    BY <2>1
  <2> QED
    BY <1>1, <2>1, <2>2
<1>3. gap - 1 \in E
  <2>1. gap - 1 \in start..(gap - 1)
    BY <1>1
  <2>2. gap - 1 \in flags
    BY <1>2, <2>1
  <2>3. (gap - 1) + 1 = gap
    BY <1>1
  <2> QED
    BY <1>1, <2>1, <2>2, <2>3 DEF Ends
<1>4. Min(E) \in E /\ \A x \in E : Min(E) <= x
  <2>1. E \in SUBSET Nat /\ E # {}
    BY <1>0, <1>3 DEF Ends
  <2> QED
    BY <2>1, MinMember
<1>5. EndOf(flags, start) = Min(E)
  BY DEF EndOf
<1>6. Min(E) <= gap - 1 /\ Min(E) \in Nat
  BY <1>0, <1>3, <1>4 DEF Ends
<1> HIDE DEF E
<1>7. \A k \in start..Min(E) : k \in flags
  <2>1. \A k \in start..Min(E) : k \in start..(gap - 1)
    BY <1>1, <1>6
  <2> QED
    BY <1>2, <2>1
<1>8. Min(E) \in flags /\ Min(E) >= start /\ Min(E) + 1 \notin flags
  BY <1>4 DEF E, Ends
<1> QED
  BY <1>5, <1>7, <1>8

\* Every flagged ordinal is between the start of a run and its end.
LEMMA RunOf ==
    ASSUME NEW count \in Nat, NEW flags \in SUBSET (0..(count - 1)), NEW i \in flags
    PROVE  \E start \in Starts(flags) : start <= i /\ i <= EndOf(flags, start)
<1> DEFINE Back == {j \in 0..i : \A k \in j..i : k \in flags}
           start == Min(Back)
<1>0. \A x \in flags : x \in Nat /\ x < count
  OBVIOUS
<1>1. start \in Back /\ \A x \in Back : start <= x
  <2>1. i \in Back
    BY <1>0
  <2>2. \A j \in Back : j \in Nat
    BY <1>0
  <2> HIDE DEF Back
  <2> QED
    BY <2>1, <2>2, MinMember
<1> HIDE DEF start
<1>2. start \in flags /\ start <= i /\ start \in Nat
  BY <1>1
<1>3. start - 1 \notin flags
  <2> SUFFICES ASSUME start - 1 \in flags
               PROVE  FALSE
    OBVIOUS
  <2>1. start - 1 \in 0..i
    BY <1>2
  <2>2. \A k \in (start - 1)..i : k = start - 1 \/ k \in start..i
    BY <1>2
  <2>3. start - 1 \in Back
    BY <1>1, <2>1, <2>2
  <2> QED
    BY <1>1, <1>2, <2>3
<1>4. start \in Starts(flags)
  BY <1>2, <1>3 DEF Starts
<1>5. i <= EndOf(flags, start)
  <2>1. EndOf(flags, start) \in Nat /\ start <= EndOf(flags, start)
          /\ EndOf(flags, start) + 1 \notin flags
    BY <1>0, <1>2, EndOfRun
  <2>2. ~(EndOf(flags, start) < i)
    <3> SUFFICES ASSUME EndOf(flags, start) < i
                 PROVE  FALSE
      OBVIOUS
    <3>1. EndOf(flags, start) + 1 \in start..i
      BY <1>2, <2>1
    <3> QED
      BY <1>1, <2>1, <3>1
  <2> QED
    BY <2>1, <2>2
<1> QED
  BY <1>2, <1>4, <1>5

\* The runs cover the flagged ordinals and no others.
LEMMA RangesCover ==
    ASSUME NEW count \in Nat, NEW flags \in SUBSET (0..(count - 1))
    PROVE  (UNION {r[1]..r[2] : r \in Ranges(flags)}) = flags
<1>0. \A x \in flags : x \in Nat /\ x < count
  OBVIOUS
<1>1. ASSUME NEW r \in Ranges(flags), NEW k \in r[1]..r[2]
      PROVE  k \in flags
  <2>1. PICK start \in Starts(flags) : r = <<start, EndOf(flags, start)>>
    BY DEF Ranges
  <2>2. start \in flags
    BY DEF Starts
  <2> QED
    BY <2>1, <2>2, EndOfRun
<1>2. ASSUME NEW i \in flags
      PROVE  \E r \in Ranges(flags) : i \in r[1]..r[2]
  <2>1. PICK start \in Starts(flags) : start <= i /\ i <= EndOf(flags, start)
    BY RunOf
  <2>2. start \in flags
    BY DEF Starts
  <2>3. EndOf(flags, start) \in Nat /\ start \in Nat /\ i \in Nat
    BY <1>0, <2>2, EndOfRun
  <2>4. i \in start..EndOf(flags, start)
    BY <2>1, <2>3
  <2>5. <<start, EndOf(flags, start)>> \in Ranges(flags)
    BY DEF Ranges
  <2> QED
    BY <2>4, <2>5
<1> QED
  BY <1>1, <1>2

\* ordinal_ranges writes what validate_ranges asks for: nonempty ranges within the
\* records, with at least one ordinal between any two, so that no two could be one.
THEOREM RangesValid ==
    ASSUME NEW count \in Nat, NEW flags \in SUBSET (0..(count - 1))
    PROVE  RangesAreValid(Ranges(flags), count)
<1>0. \A x \in flags : x \in Nat /\ x < count
  OBVIOUS
<1>1. ASSUME NEW r \in Ranges(flags)
      PROVE  r[1] <= r[2] /\ r[2] < count
  <2>1. PICK start \in Starts(flags) : r = <<start, EndOf(flags, start)>>
    BY DEF Ranges
  <2>2. start \in flags
    BY DEF Starts
  <2> QED
    BY <1>0, <2>1, <2>2, EndOfRun
<1>2. ASSUME NEW s \in Starts(flags), NEW t \in Starts(flags), s < t
      PROVE  EndOf(flags, s) + 2 <= t
  <2>1. s \in flags /\ t \in flags /\ t - 1 \notin flags
    BY DEF Starts
  <2>2. /\ EndOf(flags, s) \in Nat
        /\ EndOf(flags, s) + 1 \notin flags
        /\ \A k \in s..EndOf(flags, s) : k \in flags
    BY <1>0, <2>1, EndOfRun
  <2>3. s \in Nat /\ t \in Nat
    BY <1>0, <2>1
  <2>4. ~(t <= EndOf(flags, s))
    <3> SUFFICES ASSUME t <= EndOf(flags, s)
                 PROVE  FALSE
      OBVIOUS
    <3>1. t - 1 \in s..EndOf(flags, s)
      BY <1>2, <2>2, <2>3
    <3> QED
      BY <2>1, <2>2, <3>1
  <2>5. t # EndOf(flags, s) + 1
    BY <2>1, <2>2
  <2> QED
    BY <2>2, <2>3, <2>4, <2>5
<1>3. ASSUME NEW r \in Ranges(flags), NEW q \in Ranges(flags), r # q
      PROVE  r[2] + 2 <= q[1] \/ q[2] + 2 <= r[1]
  <2>1. PICK s \in Starts(flags) : r = <<s, EndOf(flags, s)>>
    BY DEF Ranges
  <2>2. PICK t \in Starts(flags) : q = <<t, EndOf(flags, t)>>
    BY DEF Ranges
  <2>3. s # t
    BY <1>3, <2>1, <2>2
  <2>4. s \in Nat /\ t \in Nat
    BY <1>0 DEF Starts
  <2>5. s < t \/ t < s
    BY <2>3, <2>4
  <2> QED
    BY <1>2, <2>1, <2>2, <2>5
<1> QED
  BY <1>1, <1>3 DEF RangesAreValid

-----------------------------------------------------------------------------
(* bitmap_words *)

\* An ordinal has a word of the bitmap and a bit in it.
LEMMA WordOf ==
    ASSUME NEW count \in Nat, NEW i \in 0..(count - 1)
    PROVE  /\ i \div WordBits \in 0..(WordCount(count) - 1)
           /\ i % WordBits \in Bits
           /\ (i \div WordBits) * WordBits + (i % WordBits) = i
<1> DEFINE q == i \div WordBits
           c == WordCount(count)
<1>1. WordBits \in Nat /\ WordBits > 0
  BY CodecAssumption
<1>2. /\ q \in Int /\ i % WordBits \in Int
      /\ i = WordBits * q + (i % WordBits)
      /\ 0 <= i % WordBits /\ i % WordBits < WordBits
  BY <1>1
<1>3. /\ c \in Int
      /\ count + WordBits - 1 = WordBits * c + ((count + WordBits - 1) % WordBits)
      /\ (count + WordBits - 1) % WordBits < WordBits
      /\ (count + WordBits - 1) % WordBits \in Int
  BY <1>1 DEF WordCount
<1> HIDE DEF q, c
<1>4. WordBits * c >= count
  BY <1>1, <1>3
<1>5. WordBits * q < WordBits * c
  <2>1. WordBits * q \in Int /\ WordBits * c \in Int
    BY <1>1, <1>2, <1>3
  <2>2. WordBits * q <= i
    BY <1>2, <2>1
  <2> QED
    BY <1>4, <2>1, <2>2
<1>6. q < c
  <2> SUFFICES ASSUME q >= c
               PROVE  FALSE
    BY <1>2, <1>3
  <2>1. q - c \in Nat
    BY <1>2, <1>3
  <2>2. WordBits * (q - c) >= 0
    BY <1>1, <2>1
  <2>3. WordBits * (q - c) = WordBits * q - WordBits * c
    BY <1>1, <1>2, <1>3
  <2> QED
    BY <1>1, <1>2, <1>3, <1>5, <2>2, <2>3
<1>7. q >= 0
  <2> SUFFICES ASSUME q <= -1
               PROVE  FALSE
    BY <1>2
  <2>1. WordBits * q <= -WordBits
    BY <1>1, <1>2
  <2> QED
    BY <1>1, <1>2, <2>1
<1>8. i % WordBits \in Bits
  BY <1>1, <1>2 DEF Bits
<1>9. q * WordBits + (i % WordBits) = i
  BY <1>1, <1>2
<1>10. q \in 0..(c - 1)
  BY <1>2, <1>3, <1>6, <1>7
<1> QED
  BY <1>8, <1>9, <1>10 DEF q, c

LEMMA WordsCover ==
    ASSUME NEW count \in Nat, NEW flags \in SUBSET (0..(count - 1))
    PROVE  {i \in 0..(count - 1) : (i % WordBits) \in BitmapWords(flags, count)[i \div WordBits]}
               = flags
<1>1. ASSUME NEW i \in 0..(count - 1)
      PROVE  (i % WordBits) \in BitmapWords(flags, count)[i \div WordBits] <=> i \in flags
  <2>1. BitmapWords(flags, count)[i \div WordBits]
            = {b \in Bits : (i \div WordBits) * WordBits + b \in flags}
    BY WordOf DEF BitmapWords
  <2> QED
    BY <2>1, WordOf
<1> QED
  BY <1>1

-----------------------------------------------------------------------------
(* ReleaseEncoding *)

\* to_flags gives back the flags that from_flags encoded, as ranges or as a bitmap: a
\* checkpoint neither loses a release nor releases a record nobody released, for any
\* number of records and words of any size.
THEOREM EncodingIsFaithful ==
    ASSUME NEW count \in Nat, NEW flags \in SUBSET (0..(count - 1))
    PROVE  ToFlags(FromFlags(flags, count), count) = flags
<1>1. CASE RangeBytes * Cardinality(Ranges(flags)) <= WordBytes * WordCount(count)
  <2>1. FromFlags(flags, count) = InRanges(Ranges(flags))
    BY <1>1 DEF FromFlags
  <2>2. ToFlags(InRanges(Ranges(flags)), count) = UNION {r[1]..r[2] : r \in Ranges(flags)}
    BY DEF ToFlags, InRanges
  <2> QED
    BY <2>1, <2>2, RangesCover
<1>2. CASE ~(RangeBytes * Cardinality(Ranges(flags)) <= WordBytes * WordCount(count))
  <2>1. FromFlags(flags, count) = InWords(BitmapWords(flags, count))
    BY <1>2 DEF FromFlags
  <2>2. ToFlags(InWords(BitmapWords(flags, count)), count)
            = {i \in 0..(count - 1) :
                  (i % WordBits) \in BitmapWords(flags, count)[i \div WordBits]}
    BY DEF ToFlags, InWords
  <2> QED
    BY <2>1, <2>2, WordsCover
<1> QED
  BY <1>1, <1>2

\* Whatever is released, the encoding takes no more bytes than a bitmap of the segment,
\* which is what maintenance_headroom sets aside for it before an append is admitted.
THEOREM EncodingFitsHeadroom ==
    ASSUME NEW count \in Nat, NEW flags \in SUBSET (0..(count - 1))
    PROVE  EncodedBytes(flags, count) <= WordBytes * WordCount(count)
<1>1. CASE RangeBytes * Cardinality(Ranges(flags)) <= WordBytes * WordCount(count)
  <2>1. FromFlags(flags, count) = InRanges(Ranges(flags))
    BY <1>1 DEF FromFlags
  <2>2. EncodedBytes(flags, count) = RangeBytes * Cardinality(Ranges(flags))
    BY <2>1 DEF EncodedBytes, InRanges
  <2> QED
    BY <1>1, <2>2
<1>2. CASE ~(RangeBytes * Cardinality(Ranges(flags)) <= WordBytes * WordCount(count))
  <2>1. FromFlags(flags, count) = InWords(BitmapWords(flags, count))
    BY <1>2 DEF FromFlags
  <2>2. EncodedBytes(flags, count) = WordBytes * Cardinality(0..(WordCount(count) - 1))
    BY <2>1 DEF EncodedBytes, InWords, BitmapWords
  <2>3. WordCount(count) \in Nat
    <3>1. WordBits \in Nat /\ WordBits > 0 /\ count + WordBits - 1 \in Nat
      BY CodecAssumption
    <3> QED
      BY <3>1 DEF WordCount
  <2>4. Cardinality(0..(WordCount(count) - 1)) = WordCount(count)
    BY <2>3, FS_Interval
  <2> QED
    BY <2>2, <2>3, <2>4 DEF WordBytes
<1> QED
  BY <1>1, <1>2

-----------------------------------------------------------------------------
(* The creation and opening of a root. *)

USE Zenon

-----------------------------------------------------------------------------
(* The inductive invariant. *)

ControlFiles == {"CHECKPOINT", "LOG"}

ReplacePcs == {"clear", "clearSync", "write", "syncData", "rename", "publish"}

\* Where an opener is once it has decoded ROOT, outside atomic_replace.
KnownPcs == {"segments", "segmentsSync", "control", "controlSync", "tidy", "tidySync",
             "recover", "open"}

LockedPcs == ReplacePcs \cup KnownPcs \cup {"identify", "forget", "generate", "decode"}

Pcs == LockedPcs \cup {"idle", "mkdir", "syncDirs", "lock", "corrupt"}

TypeOK ==
    /\ visible = [n \in Names |-> visible[n]]
    /\ durable = [n \in Names |-> durable[n]]
    /\ pc \in [Openers -> Pcs]
    /\ todo \in [Openers -> Seq(Nat)]
    /\ rootId = [o \in Openers |-> rootId[o]]
    /\ target \in [Openers -> [name : Canonical, state : {"initial", "later"}]]
    /\ relied \in [Openers -> SUBSET (Names \cup {"path"})]
    /\ durableDirs \subseteq visibleDirs
    /\ \E e \in 1 .. (Depth + 1) : visibleDirs = e .. Depth

\* The entry leads to nothing or to a file whose data was synced.
Whole(f) == f = Missing \/ (f = File(f.id, f.state, TRUE) /\ f.state \in {"initial", "later"})

\* The entry is durable.
Settled(n) == durable[n] = visible[n] /\ visible[n] # Missing

Later(n) == visible[n].state = "later" \/ durable[n].state = "later"

\* What is on disk, in memory's view and after a power loss, whoever is at work.
Disk ==
    /\ \A n \in Canonical \cup {"segments"} : Whole(visible[n]) /\ Whole(durable[n])
    /\ visible["segments"] \in {Missing, File(0, "initial", TRUE)}
    /\ durable["segments"] \in {Missing, File(0, "initial", TRUE)}
    /\ \A n \in ControlFiles :
         visible[n] # Missing \/ durable[n] # Missing => Settled("ROOT")
    /\ \A n \in ControlFiles :
         /\ visible[n] # Missing => visible[n].id = visible["ROOT"].id
         /\ durable[n] # Missing => durable[n].id = visible["ROOT"].id
         /\ Later(n) => identity # {}
    /\ segments => identity # {}
    /\ Later("LOG") => visible["CHECKPOINT"].state = "later" /\ durable["CHECKPOINT"].state = "later"
    /\ identity # {} =>
         /\ identity = {visible["ROOT"].id}
         /\ durableDirs = Levels
         /\ \A n \in ControlFiles \cup {"segments"} : visible[n] # Missing /\ durable[n] # Missing

\* ensure_root_directory: todo holds the levels still to sync, up to the ancestor found.
Walk(o) ==
    LET h == todo[o][1]
        m == h + Len(todo[o]) - 2
    IN  /\ Len(todo[o]) > 0 /\ h > 0
        /\ \A i \in 1 .. Len(todo[o]) : todo[o][i] = h + i - 1
        /\ (m + 1) .. Depth \subseteq visibleDirs
        /\ m \in Levels
        /\ pc[o] = "mkdir" => h = 1
        /\ pc[o] = "syncDirs" => 1 .. m \subseteq visibleDirs
        /\ "path" \notin relied[o] =>
             1 .. (h - 2) \subseteq durableDirs /\ (m + 1) .. Depth \subseteq durableDirs

Path(o) ==
    /\ pc[o] \in {"mkdir", "syncDirs"} => Walk(o)
    /\ pc[o] \in LockedPcs \cup {"lock"} => "path" \in relied[o] \/ durableDirs = Levels

Reliable(o, n) == n \in relied[o] \/ durable[n] = visible[n]

Creating(o) ==
    \/ pc[o] \in {"forget", "generate"}
    \/ pc[o] \in ReplacePcs /\ target[o].name = "ROOT"

Replacing(o) == pc[o] \in ReplacePcs /\ target[o].name # "ROOT"

\* What the holder of the lock knows: while it makes a new ROOT,
Begins(o) ==
    /\ Creating(o) => \A n \in ControlFiles : visible[n] = Missing /\ durable[n] = Missing
    /\ pc[o] \in ReplacePcs /\ target[o].name = "ROOT" => target[o].state = "initial"

\* once it has a ROOT,
Knows(o) ==
    /\ pc[o] \in KnownPcs \cup {"decode"} => visible["ROOT"] # Missing /\ Reliable(o, "ROOT")
    /\ pc[o] \in KnownPcs \/ Replacing(o) => rootId[o] = visible["ROOT"].id
    /\ pc[o] \in KnownPcs \ {"segments"} => visible["segments"] # Missing
    /\ pc[o] \in KnownPcs \ {"segments", "segmentsSync"} => Reliable(o, "segments")
    /\ pc[o] \in {"tidy", "tidySync", "recover"} =>
         \A n \in ControlFiles : visible[n] # Missing /\ Reliable(o, n)
    /\ pc[o] = "controlSync" => identity = {}
    /\ pc[o] = "open" => identity # {}

\* while it replaces a control file,
Replaces(o) ==
    Replacing(o) =>
         /\ Settled("ROOT") /\ visible["segments"] # Missing /\ Reliable(o, "segments")
         /\ target[o].state = "initial" => identity = {}
         /\ target[o].state = "later" => identity # {}
         /\ target[o].name = "LOG" =>
              Settled("CHECKPOINT") /\ visible["CHECKPOINT"].state = target[o].state

\* and inside atomic_replace.
Writes(o) ==
    /\ pc[o] = "syncData" => visible[Temp(o)] = File(rootId[o], target[o].state, FALSE)
    /\ pc[o] = "rename" => visible[Temp(o)] = File(rootId[o], target[o].state, TRUE)
    /\ pc[o] = "publish" => visible[target[o].name] = File(rootId[o], target[o].state, TRUE)

Holder(o) ==
    (pc[o] \in LockedPcs => lock = {o}) /\ Begins(o) /\ Knows(o) /\ Replaces(o) /\ Writes(o)

Sound == TypeOK /\ Disk /\ \A o \in Openers : pc[o] # "corrupt" /\ Path(o) /\ Holder(o)

RootInv == trusted \/ Sound

-----------------------------------------------------------------------------
(* Moves of one opener. *)

\* A step moves one opener.
LEMMA Moves ==
    ASSUME TypeOK, NEW o \in Openers, NEW l \in Pcs, Goto(o, l)
    PROVE  pc' \in [Openers -> Pcs] /\ pc'[o] = l /\ \A p \in Openers \ {o} : pc'[p] = pc[p]
BY DEF TypeOK, Goto

\* Only the holder of the lock has more to keep than its path.
LEMMA NoHolder ==
    ASSUME NEW p \in Openers, pc'[p] \notin LockedPcs
    PROVE  Holder(p)'
<1>1. pc'[p] \notin ReplacePcs \cup KnownPcs \cup {"forget", "generate", "decode"}
  BY DEF LockedPcs
<1>2. ~Creating(p)' /\ ~Replacing(p)'
  BY <1>1 DEF Creating, Replacing
<1>3. Begins(p)' /\ Replaces(p)'
  BY <1>1, <1>2 DEF Begins, Replaces
<1>4. Knows(p)' /\ Writes(p)'
  BY <1>1, <1>2 DEF Knows, Writes, KnownPcs, ReplacePcs
<1> QED
  BY <1>3, <1>4 DEF Holder

\* What an opener needs of its path survives what others create and sync.
LEMMA PathKept ==
    ASSUME NEW p \in Openers, Path(p), durableDirs' \subseteq Levels,
           pc'[p] = pc[p], todo'[p] = todo[p], relied'[p] = relied[p],
           visibleDirs \subseteq visibleDirs', durableDirs \subseteq durableDirs'
    PROVE  Path(p)'
<1>1. pc[p] \in {"mkdir", "syncDirs"} => Walk(p)'
  BY DEF Path, Walk
<1>2. pc[p] \in LockedPcs \cup {"lock"} => ("path" \in relied[p] \/ durableDirs' = Levels)
  BY DEF Path
<1> QED
  BY <1>1, <1>2 DEF Path

\* What the holder of the lock knows survives a directory sync of another opener.
LEMMA HolderKept ==
    ASSUME NEW p \in Openers, Holder(p), visible' = visible, durable' \in {durable, visible},
           identity' = identity, lock = {p} => lock' = lock,
           pc'[p] = pc[p], rootId'[p] = rootId[p], target'[p] = target[p], relied'[p] = relied[p]
    PROVE  Holder(p)'
<1>1. \A n : Reliable(p, n) => Reliable(p, n)'
  BY DEF Reliable
<1>2. \A n : Settled(n) => Settled(n)'
  BY DEF Settled
<1>3. Creating(p)' = Creating(p) /\ Replacing(p)' = Replacing(p) /\ Temp(p)' = Temp(p)
  BY DEF Creating, Replacing, Temp
<1>4. Begins(p)'
  BY <1>3 DEF Holder, Begins
<1>5. Knows(p)'
  BY <1>1, <1>3 DEF Holder, Knows
<1>6. Replaces(p)'
  BY <1>1, <1>2, <1>3 DEF Holder, Replaces
<1>7. Writes(p)'
  BY <1>3 DEF Holder, Writes
<1> QED
  BY <1>4, <1>5, <1>6, <1>7 DEF Holder

\* A directory sync leaves a sound disk.
LEMMA DiskSynced ==
    ASSUME Disk, visible' = visible, durable' \in {durable, visible}, segments' = segments,
           identity' = identity, durableDirs' \subseteq Levels, durableDirs \subseteq durableDirs'
    PROVE  Disk'
<1>1. \A n : Settled(n) => Settled(n)'
  BY DEF Settled
<1>2. \A n : Later(n)' => Later(n)
  BY DEF Later
<1>3. CASE durable' = durable
  BY <1>1, <1>2, <1>3 DEF Disk
<1>4. CASE durable' = visible
  BY <1>1, <1>2, <1>4 DEF Disk, Later
<1> QED
  BY <1>3, <1>4

\* Only this opener's program changes.
Only(o) ==
    \A p \in Openers \ {o} :
        /\ pc'[p] = pc[p] /\ todo'[p] = todo[p] /\ rootId'[p] = rootId[p]
        /\ target'[p] = target[p] /\ relied'[p] = relied[p]

\* A step of an opener that holds no lock afterwards.
LEMMA Outsider ==
    ASSUME Sound, NEW o \in Openers, Only(o), TypeOK', Path(o)',
           pc'[o] \notin LockedPcs \cup {"corrupt"},
           visible' = visible, durable' \in {durable, visible}, segments' = segments,
           identity' = identity, lock' \in {lock, lock \ {o}},
           visibleDirs \subseteq visibleDirs', durableDirs \subseteq durableDirs'
    PROVE  Sound'
<1>1. durableDirs' \subseteq Levels
  BY SMT DEF TypeOK, Levels
<1>2. Disk'
  BY <1>1, DiskSynced DEF Sound
<1>3. ASSUME NEW p \in Openers, p # o PROVE pc'[p] # "corrupt" /\ Path(p)' /\ Holder(p)'
  <2>1. pc[p] # "corrupt" /\ Path(p) /\ Holder(p)
    BY DEF Sound
  <2>2. lock = {p} => lock' = lock
    BY <1>3
  <2> QED
    BY <1>1, <1>3, <2>1, <2>2, PathKept, HolderKept DEF Only
<1>4. pc'[o] # "corrupt" /\ Holder(o)'
  BY NoHolder
<1> QED
  BY <1>2, <1>3, <1>4 DEF Sound

\* A step of the holder of the lock.
LEMMA Insider ==
    ASSUME Sound, NEW o \in Openers, Only(o), TypeOK', Disk', Holder(o)',
           pc[o] \in LockedPcs, pc'[o] \in LockedPcs,
           UNCHANGED dirVars, relied[o] \subseteq relied'[o]
    PROVE  Sound'
<1>1. lock = {o}
  BY DEF Sound, Holder
<1>2. ASSUME NEW p \in Openers, p # o PROVE pc'[p] # "corrupt" /\ Path(p)' /\ Holder(p)'
  <2>1. pc[p] \notin LockedPcs
    BY <1>1, <1>2 DEF Sound, Holder
  <2>2. pc'[p] \notin LockedPcs /\ pc'[p] # "corrupt"
    BY <1>2, <2>1 DEF Only, Sound
  <2>3. durableDirs \subseteq Levels
    BY SMT DEF Sound, TypeOK, Levels
  <2> QED
    BY <1>2, <2>2, <2>3, PathKept, NoHolder DEF Only, Sound, dirVars
<1>3. pc'[o] # "corrupt" /\ Path(o)'
  <2>1. "path" \in relied[o] \/ durableDirs = Levels
    BY DEF Sound, Path
  <2> QED
    BY <2>1 DEF Path, dirVars, LockedPcs, ReplacePcs, KnownPcs
<1> QED
  BY <1>2, <1>3 DEF Sound

-----------------------------------------------------------------------------
(* ensure_root_directory, acquire_lock and the end of an opener. *)

\* The missing levels are counted exactly.
LEMMA MissingLevels ==
    ASSUME NEW e \in 1 .. (Depth + 1)
    PROVE  Levels \ (e .. Depth) = 1 .. (e - 1) /\ Cardinality(1 .. (e - 1)) = e - 1
<1>1. e \in Nat /\ Depth \in Nat /\ e - 1 \in Nat
  BY RootAssumption, SMT
<1>2. Levels \ (e .. Depth) = 1 .. (e - 1)
  BY <1>1, SMT DEF Levels
<1>3. Cardinality(1 .. (e - 1)) = IF 1 > e - 1 THEN 0 ELSE (e - 1) - 1 + 1
  BY <1>1, FS_Interval, SMT
<1> QED
  BY <1>1, <1>2, <1>3, SMT

\* ensure_root_directory: the missing levels are found and listed.
LEMMA FindStep ==
    ASSUME Sound, NEW o \in Openers, FindRootDirectory(o)
    PROVE  Sound'
<1>1. PICK e \in 1 .. (Depth + 1) : visibleDirs = e .. Depth
  BY DEF Sound, TypeOK
<1>2. Cardinality(Levels \ visibleDirs) = e - 1 /\ e \in Nat /\ Depth \in Nat
  <2>1. e \in Nat /\ Depth \in Nat
    BY RootAssumption, SMT
  <2> QED
    BY <1>1, <2>1, MissingLevels
<1>3. /\ todo' = [todo EXCEPT ![o] = [i \in 1 .. e |-> i]]
      /\ relied' = [relied EXCEPT ![o] = IF visibleDirs = durableDirs THEN {} ELSE {"path"}]
      /\ Goto(o, IF 1 \in visibleDirs THEN "lock" ELSE "mkdir")
      /\ UNCHANGED <<dirVars, fileVars, lock, rootId, target, history>>
  <2>1. (e - 1) + 1 = e
    BY <1>2, SMT
  <2> QED
    BY <1>2, <2>1 DEF FindRootDirectory
<1>4. /\ pc' \in [Openers -> Pcs] /\ \A p \in Openers \ {o} : pc'[p] = pc[p]
      /\ pc'[o] = IF 1 \in visibleDirs THEN "lock" ELSE "mkdir"
  BY <1>3, Moves DEF Sound, Pcs
<1>5. [i \in 1 .. e |-> i] \in Seq(Nat) /\ Len([i \in 1 .. e |-> i]) = e
  BY <1>2, SMT
<1>6. /\ todo' \in [Openers -> Seq(Nat)] /\ relied' \in [Openers -> SUBSET (Names \cup {"path"})]
      /\ todo'[o] = [i \in 1 .. e |-> i]
      /\ relied'[o] = IF visibleDirs = durableDirs THEN {} ELSE {"path"}
      /\ \A p \in Openers \ {o} : todo'[p] = todo[p] /\ relied'[p] = relied[p]
  BY <1>3, <1>5 DEF Sound, TypeOK
<1>7. TypeOK'
  BY <1>3, <1>4, <1>6 DEF Sound, TypeOK, dirVars, fileVars
<1>8. Only(o)
  BY <1>3, <1>4, <1>6 DEF Only
<1>9. Path(o)'
  <2>1. CASE 1 \in visibleDirs
    <3>1. visibleDirs = Levels
      BY <1>1, <1>2, <2>1, SMT DEF Levels
    <3> QED
      BY <1>3, <1>4, <1>6, <2>1, <3>1 DEF Path, dirVars
  <2>2. CASE 1 \notin visibleDirs
    <3>1. e > 1
      BY <1>1, <1>2, <2>2, RootAssumption, SMT
    <3>2. todo'[o][1] = 1 /\ Len(todo'[o]) = e /\ \A i \in 1 .. e : todo'[o][i] = i
      BY <1>2, <1>5, <1>6, <3>1, SMT
    <3>3. Walk(o)'
      <4> DEFINE h == todo'[o][1]
                 m == h + Len(todo'[o]) - 2
      <4>1. h = 1 /\ m + 1 = e /\ m \in Levels /\ 1 .. (h - 2) = {}
        BY <1>1, <1>2, <3>1, <3>2, SMT DEF Levels
      <4>2. Len(todo'[o]) > 0 /\ h > 0 /\ \A i \in 1 .. Len(todo'[o]) : todo'[o][i] = h + i - 1
        BY <1>2, <3>1, <3>2, SMT
      <4>3. "path" \notin relied'[o] => durableDirs' = e .. Depth
        BY <1>1, <1>3, <1>6 DEF dirVars
      <4>4. pc'[o] = "mkdir" /\ visibleDirs' = e .. Depth
        BY <1>1, <1>3, <1>4, <2>2 DEF dirVars
      <4> QED
        BY <4>1, <4>2, <4>3, <4>4 DEF Walk
    <3> QED
      BY <1>4, <2>2, <3>3 DEF Path, LockedPcs, KnownPcs, ReplacePcs
  <2> QED
    BY <2>1, <2>2
<1> QED
  BY <1>3, <1>4, <1>7, <1>8, <1>9, Outsider DEF dirVars, fileVars, history, LockedPcs, KnownPcs,
     ReplacePcs

\* One level of the path is created, or another opener was first.
LEMMA CreateDirectoryStep ==
    ASSUME Sound, NEW o \in Openers, CreateDirectory(o)
    PROVE  Sound'
<1> DEFINE m == Len(todo[o]) - 1
           missing == (1 .. m) \ visibleDirs
<1>1. PICK e \in 1 .. (Depth + 1) : visibleDirs = e .. Depth
  BY DEF Sound, TypeOK
<1>2. e \in Nat /\ Depth \in Nat /\ Depth > 0 /\ todo[o] \in Seq(Nat) /\ Len(todo[o]) \in Nat
  <2>1. todo[o] \in Seq(Nat)
    BY DEF Sound, TypeOK
  <2> QED
    BY <2>1, RootAssumption, SMT
<1>3. Walk(o) /\ pc[o] = "mkdir"
  BY DEF CreateDirectory, Sound, Path
<1>4. /\ todo[o][1] = 1 /\ Len(todo[o]) > 0 /\ m \in Levels /\ (m + 1) .. Depth \subseteq visibleDirs
      /\ \A i \in 1 .. Len(todo[o]) : todo[o][i] = i
  <2>1. todo[o][1] = 1
    BY <1>3 DEF Walk
  <2>2. 1 + Len(todo[o]) - 2 = m /\ \A i \in 1 .. Len(todo[o]) : 1 + i - 1 = i
    BY <1>2, SMT
  <2> QED
    BY <1>3, <2>1, <2>2 DEF Walk
<1>5. e - 1 <= m /\ missing = 1 .. (e - 1)
  <2>1. m \in Nat /\ m <= Depth /\ (m + 1) .. Depth \subseteq e .. Depth /\ e <= Depth + 1
    BY <1>1, <1>2, <1>4, SMT DEF Levels
  <2> HIDE DEF m
  <2>2. e - 1 <= m
    <3>1. m + 1 <= Depth => m + 1 \in (m + 1) .. Depth
      BY <1>2, <2>1, SMT
    <3>2. m + 1 \in e .. Depth => e <= m + 1
      BY <1>2, <2>1, SMT
    <3>3. m + 1 <= Depth => e <= m + 1
      BY <2>1, <3>1, <3>2
    <3> QED
      BY <1>2, <2>1, <3>3, SMT
  <2>3. (1 .. m) \ (e .. Depth) = 1 .. (e - 1)
    BY <1>2, <2>1, <2>2, SMT
  <2> QED
    BY <1>1, <2>2, <2>3
<1>6. Cardinality(missing) = e - 1
  BY <1>1, <1>5, MissingLevels
<1>7. visibleDirs' = (IF e = 1 THEN 1 ELSE e - 1) .. Depth
  <2>1. visibleDirs' = visibleDirs \cup (IF missing = {} THEN {} ELSE {Max(missing)})
    BY DEF CreateDirectory
  <2>2. CASE e = 1
    <3>1. missing = {}
      BY <1>5, <2>2, SMT
    <3> QED
      BY <1>1, <2>1, <2>2, <3>1
  <2>3. CASE e # 1
    <3>1. e - 1 \in missing /\ \A x \in missing : x <= e - 1
      <4> HIDE DEF missing
      <4>1. e - 1 \in 1 .. (e - 1) /\ \A x \in 1 .. (e - 1) : x <= e - 1
        BY <1>2, <2>3, SMT
      <4> QED
        BY <1>5, <4>1
    <3>2. Max(missing) = e - 1
      <4>1. \A x \in missing : x \in Int
        BY <1>2, <1>5, SMT
      <4> HIDE DEF missing
      <4>2. \A x \in missing : (\A y \in missing : x >= y) => x = e - 1
        BY <1>2, <3>1, <4>1, SMT
      <4>3. \A y \in missing : e - 1 >= y
        BY <1>2, <3>1, <4>1, SMT
      <4> QED
        BY <3>1, <4>2, <4>3, SMT DEF Max
    <3>3. visibleDirs' = visibleDirs \cup {e - 1}
      BY <2>1, <3>1, <3>2
    <3> QED
      BY <1>1, <1>2, <2>3, <3>3, SMT
  <2> QED
    BY <2>2, <2>3
<1>8. Goto(o, IF e - 1 <= 1 THEN "syncDirs" ELSE "mkdir")
  BY <1>6 DEF CreateDirectory
<1>9. UNCHANGED <<durableDirs, fileVars, lock, todo, rootId, target, relied, history>>
  BY DEF CreateDirectory
<1>10. /\ pc' \in [Openers -> Pcs] /\ \A p \in Openers \ {o} : pc'[p] = pc[p]
       /\ pc'[o] = IF e - 1 <= 1 THEN "syncDirs" ELSE "mkdir"
  BY <1>8, Moves DEF Sound, Pcs
<1> HIDE DEF missing
<1>11. visibleDirs \subseteq visibleDirs' /\ \E d \in 1 .. (Depth + 1) : visibleDirs' = d .. Depth
  <2>1. CASE e = 1
    BY <1>1, <1>7, <2>1
  <2>2. CASE e # 1
    <3>1. e - 1 \in 1 .. (Depth + 1) /\ e .. Depth \subseteq (e - 1) .. Depth
      BY <1>1, <1>2, <2>2, SMT
    <3> QED
      BY <1>1, <1>7, <2>2, <3>1
  <2> QED
    BY <2>1, <2>2
<1>12. TypeOK'
  BY <1>9, <1>10, <1>11 DEF Sound, TypeOK, fileVars
<1>13. Only(o)
  BY <1>9, <1>10 DEF Only
<1>14. Path(o)'
  <2>1. pc'[o] = "syncDirs" => 1 .. m \subseteq visibleDirs'
    BY <1>1, <1>2, <1>4, <1>7, <1>10, SMT DEF Levels
  <2>2. 1 + Len(todo[o]) - 2 = m /\ 1 .. m = 1 .. (1 + Len(todo[o]) - 2)
    BY <1>2, SMT
  <2>3. Walk(o)'
    BY <1>3, <1>4, <1>9, <1>10, <1>11, <2>1, <2>2 DEF Walk
  <2> QED
    BY <1>10, <2>3 DEF Path, LockedPcs, KnownPcs, ReplacePcs
<1> QED
  BY <1>9, <1>10, <1>11, <1>12, <1>13, <1>14, Outsider DEF fileVars, history, LockedPcs, KnownPcs,
     ReplacePcs

\* Syncing a level makes the entry below it durable, and with the root its files.
LEMMA LevelSynced ==
    ASSUME TypeOK, NEW level \in Nat, SyncLevel(level), UNCHANGED visibleDirs
    PROVE  /\ durableDirs \subseteq durableDirs' /\ durableDirs' \subseteq visibleDirs'
           /\ durable' \in {durable, visible}
           /\ level - 1 \in visibleDirs => level - 1 \in durableDirs'
           /\ level = 1 => durable' = visible /\ durableDirs' = durableDirs
<1>1. 0 \notin visibleDirs
  BY RootAssumption, SMT DEF TypeOK
<1>2. level = 1 => level - 1 = 0
  BY SMT
<1> QED
  BY <1>1, <1>2, ZenonT(30) DEF SyncLevel, TypeOK

\* The parents of the created levels are synced, innermost first.
LEMMA SyncCreatedStep ==
    ASSUME Sound, NEW o \in Openers, SyncCreatedDirectory(o)
    PROVE  Sound'
<1> DEFINE q == todo[o]
           h == q[1]
           m == h + Len(q) - 2
<1>1. q \in Seq(Nat) /\ Len(q) \in Nat /\ Depth \in Nat /\ Depth > 0
  <2>1. q \in Seq(Nat)
    BY DEF Sound, TypeOK
  <2> QED
    BY <2>1, RootAssumption, SMT
<1>2. Walk(o) /\ pc[o] = "syncDirs"
  BY DEF SyncCreatedDirectory, Sound, Path
<1>3. /\ Len(q) > 0 /\ h > 0 /\ \A i \in 1 .. Len(q) : q[i] = h + i - 1
      /\ (m + 1) .. Depth \subseteq visibleDirs /\ m \in Levels /\ 1 .. m \subseteq visibleDirs
      /\ "path" \notin relied[o] =>
           1 .. (h - 2) \subseteq durableDirs /\ (m + 1) .. Depth \subseteq durableDirs
  BY <1>2 DEF Walk
<1>4. h \in Nat /\ m \in Nat /\ h - 1 <= m /\ m <= Depth /\ Head(q) = h
  BY <1>1, <1>3, SMT DEF Levels
<1>40. h \in Nat \ {0} /\ m \in 1 .. Depth /\ m = h + Len(q) - 2
  <2>1. h # 0
    BY <1>3, <1>4, SMT
  <2> QED
    BY <1>3, <1>4, <2>1 DEF Levels
<1>41. \A i \in 1 .. Len(q) : q[i] \in Nat
  BY <1>1, SMT
<1>5. /\ SyncLevel(h) /\ todo' = [todo EXCEPT ![o] = Tail(q)]
      /\ Goto(o, IF Len(q) = 1 THEN "lock" ELSE "syncDirs")
      /\ UNCHANGED <<visibleDirs, visible, segments, lock, rootId, target, relied, history>>
  BY <1>4 DEF SyncCreatedDirectory
<1>6. /\ durableDirs \subseteq durableDirs' /\ durableDirs' \subseteq visibleDirs'
      /\ durable' \in {durable, visible} /\ (h - 1 \in visibleDirs => h - 1 \in durableDirs')
  BY <1>4, <1>5, LevelSynced DEF Sound
<1>7. /\ pc' \in [Openers -> Pcs] /\ \A p \in Openers \ {o} : pc'[p] = pc[p]
      /\ pc'[o] = IF Len(q) = 1 THEN "lock" ELSE "syncDirs"
  BY <1>5, Moves DEF Sound, Pcs
<1>8. /\ todo' \in [Openers -> Seq(Nat)] /\ todo'[o] = Tail(q)
      /\ \A p \in Openers \ {o} : todo'[p] = todo[p]
  <2>1. Tail(q) \in Seq(Nat)
    BY <1>1, <1>3, SMT
  <2> QED
    BY <1>5, <2>1 DEF Sound, TypeOK
<1>9. TypeOK'
  BY <1>5, <1>6, <1>7, <1>8 DEF Sound, TypeOK
<1>10. Only(o)
  BY <1>5, <1>7, <1>8 DEF Only
<1> HIDE DEF q, h, m
<1>11. h > 1 => h - 1 \in durableDirs'
  <2>1. h > 1 => h - 1 \in 1 .. m
    BY <1>4, <1>40, SMT
  <2> QED
    BY <1>3, <1>6, <2>1
<1>12. Path(o)'
  <2>1. CASE Len(q) = 1
    <3>1. m = h - 1
      BY <1>1, <1>40, <2>1, SMT
    <3>2. "path" \notin relied[o] => \A l \in Levels : l \in durableDirs'
      <4> SUFFICES ASSUME "path" \notin relied[o], NEW l \in Levels PROVE l \in durableDirs'
        OBVIOUS
      <4>1. l \in 1 .. (h - 2) \/ l \in (m + 1) .. Depth \/ (l = h - 1 /\ h > 1)
        BY <1>1, <1>4, <1>40, <3>1, SMT DEF Levels
      <4> QED
        BY <1>3, <1>6, <1>11, <4>1
    <3>3. durableDirs' \subseteq Levels
      BY <1>9, SMT DEF TypeOK, Levels
    <3> QED
      BY <1>5, <1>7, <2>1, <3>2, <3>3 DEF Path
  <2>2. CASE Len(q) # 1
    <3> DEFINE t == todo'[o]
    <3>1. Len(t) = Len(q) - 1 /\ \A i \in 1 .. Len(t) : t[i] = q[i + 1]
      BY <1>1, <1>3, <1>8, <2>2, SMT
    <3> HIDE DEF t
    <3>20. Len(t) > 0 /\ \A i \in 1 .. Len(t) : i + 1 \in 1 .. Len(q) /\ i \in Int
      BY <1>1, <1>3, <2>2, <3>1, SMT
    <3>21. \A i \in 1 .. Len(t) : t[i] = h + (i + 1) - 1
      BY <1>3, <3>1, <3>20
    <3>22. 1 \in 1 .. Len(t)
      BY <1>1, <3>1, <3>20, SMT
    <3>23. t[1] = h + (1 + 1) - 1
      BY <3>21, <3>22
    <3>2. /\ Len(t) > 0 /\ t[1] = h + 1 /\ \A i \in 1 .. Len(t) : t[i] = t[1] + i - 1
      BY <1>40, <3>20, <3>21, <3>23, SMT
    <3>3. t[1] + Len(t) - 2 = m /\ t[1] > 0
      BY <1>1, <1>40, <3>1, <3>2, SMT
    <3>4. "path" \notin relied[o] => 1 .. (t[1] - 2) \subseteq durableDirs'
      <4> SUFFICES ASSUME "path" \notin relied[o], NEW l \in 1 .. (t[1] - 2)
                   PROVE  l \in durableDirs'
        OBVIOUS
      <4>1. l \in 1 .. (h - 2) \/ (l = h - 1 /\ h > 1)
        BY <1>40, <3>2, SMT
      <4> QED
        BY <1>3, <1>6, <1>11, <4>1
    <3>5. pc'[o] = "syncDirs"
      BY <1>7, <2>2
    <3>6. Walk(o)'
      BY <1>3, <1>5, <1>6, <3>2, <3>3, <3>4, <3>5 DEF Walk, t
    <3> QED
      BY <3>5, <3>6 DEF Path, LockedPcs, KnownPcs, ReplacePcs
  <2> QED
    BY <2>1, <2>2
<1> QED
  BY <1>5, <1>6, <1>7, <1>9, <1>10, <1>12, Outsider DEF history, LockedPcs, KnownPcs, ReplacePcs

\* acquire_lock lets one opener in.
LEMMA AcquireLockStep ==
    ASSUME Sound, NEW o \in Openers, AcquireLock(o)
    PROVE  Sound'
<1>1. UNCHANGED <<dirVars, fileVars, todo, rootId, target, relied, history>> /\ pc[o] = "lock"
  BY DEF AcquireLock
<1>2. "path" \in relied[o] \/ durableDirs = Levels
  BY <1>1 DEF Sound, Path
<1>3. CASE lock = {} /\ lock' = {o} /\ Goto(o, "identify")
  <2>1. /\ pc' \in [Openers -> Pcs] /\ \A p \in Openers \ {o} : pc'[p] = pc[p]
        /\ pc'[o] = "identify"
    BY <1>3, Moves DEF Sound, Pcs, LockedPcs
  <2>2. TypeOK'
    BY <1>1, <2>1 DEF Sound, TypeOK, dirVars, fileVars
  <2>3. durableDirs' \subseteq Levels
    BY <2>2, SMT DEF TypeOK, Levels
  <2>4. Disk'
    BY <1>1, <2>3, DiskSynced DEF Sound, dirVars, fileVars, history
  <2>5. ASSUME NEW p \in Openers, p # o PROVE pc'[p] # "corrupt" /\ Path(p)' /\ Holder(p)'
    <3>1. pc[p] # "corrupt" /\ pc'[p] = pc[p] /\ Path(p) /\ pc[p] \notin LockedPcs
      BY <1>3, <2>1, <2>5 DEF Sound, Holder
    <3> QED
      BY <1>1, <2>3, <3>1, PathKept, NoHolder DEF dirVars
  <2>6. Path(o)'
    BY <1>1, <1>2, <2>1 DEF Path, dirVars
  <2>7. Holder(o)'
    <3>1. ~Creating(o)' /\ ~Replacing(o)' /\ pc'[o] \notin KnownPcs
      BY <2>1 DEF Creating, Replacing, ReplacePcs, KnownPcs
    <3> QED
      BY <1>3, <2>1, <3>1 DEF Holder, Begins, Knows, Replaces, Writes, ReplacePcs
  <2> QED
    BY <2>1, <2>2, <2>4, <2>5, <2>6, <2>7 DEF Sound
<1>4. CASE Goto(o, "idle") /\ UNCHANGED lock
  <2>1. /\ pc' \in [Openers -> Pcs] /\ \A p \in Openers \ {o} : pc'[p] = pc[p]
        /\ pc'[o] = "idle"
    BY <1>4, Moves DEF Sound, Pcs
  <2>2. TypeOK'
    BY <1>1, <2>1 DEF Sound, TypeOK, dirVars, fileVars
  <2>3. Path(o)' /\ pc'[o] \notin LockedPcs \cup {"corrupt"}
    BY <2>1 DEF Path, LockedPcs, KnownPcs, ReplacePcs
  <2>4. Only(o)
    BY <1>1, <2>1 DEF Only
  <2> QED
    BY <1>1, <1>4, <2>2, <2>3, <2>4, Outsider DEF dirVars, fileVars, history
<1> QED
  BY <1>3, <1>4 DEF AcquireLock

\* What forgetting an opener leaves.
LEMMA Forgotten ==
    ASSUME TypeOK, NEW os \in SUBSET Openers, Forget(os)
    PROVE  /\ pc' \in [Openers -> Pcs] /\ todo' \in [Openers -> Seq(Nat)]
           /\ rootId' = [o \in Openers |-> rootId'[o]]
           /\ target' \in [Openers -> [name : Canonical, state : {"initial", "later"}]]
           /\ relied' \in [Openers -> SUBSET (Names \cup {"path"})]
           /\ \A o \in os : pc'[o] = "idle"
           /\ \A p \in Openers \ os :
                /\ pc'[p] = pc[p] /\ todo'[p] = todo[p] /\ rootId'[p] = rootId[p]
                /\ target'[p] = target[p] /\ relied'[p] = relied[p]
<1>1. << >> \in Seq(Nat)
  BY SMT
<1>2. /\ pc' = [o \in Openers |-> IF o \in os THEN "idle" ELSE pc[o]]
      /\ todo' = [o \in Openers |-> IF o \in os THEN <<>> ELSE todo[o]]
      /\ rootId' = [o \in Openers |-> IF o \in os THEN 0 ELSE rootId[o]]
      /\ target' = [o \in Openers |->
                      IF o \in os THEN [name |-> "ROOT", state |-> "initial"] ELSE target[o]]
      /\ relied' = [o \in Openers |-> IF o \in os THEN {} ELSE relied[o]]
  BY DEF Forget
<1>3. pc' \in [Openers -> Pcs] /\ todo' \in [Openers -> Seq(Nat)]
  BY <1>1, <1>2 DEF TypeOK, Pcs
<1>4. target' \in [Openers -> [name : Canonical, state : {"initial", "later"}]]
  BY <1>2, SMT DEF TypeOK, Canonical
<1>5. relied' \in [Openers -> SUBSET (Names \cup {"path"})]
  BY <1>2 DEF TypeOK
<1>6. rootId' = [o \in Openers |-> rootId'[o]]
  BY <1>2
<1> QED
  BY <1>2, <1>3, <1>4, <1>5, <1>6

\* An opener that goes releases its lock and leaves the files.
LEMMA CloseStep ==
    ASSUME Sound, NEW o \in Openers, Close(o)
    PROVE  Sound'
<1>1. Forget({o}) /\ UNCHANGED <<dirVars, fileVars, history>> /\ lock' = lock \ {o}
  BY DEF Close, Forget
<1>2. TypeOK' /\ Only(o) /\ pc'[o] = "idle"
  BY <1>1, Forgotten, ZenonT(30) DEF Sound, TypeOK, Only, dirVars, fileVars
<1>3. Path(o)' /\ pc'[o] \notin LockedPcs \cup {"corrupt"}
  BY <1>2 DEF Path, LockedPcs, KnownPcs, ReplacePcs
<1> QED
  BY <1>1, <1>2, <1>3, Outsider DEF dirVars, fileVars, history

-----------------------------------------------------------------------------
(* Steps under the lock, in general. *)

\* The types, and who else moves.
LEMMA LockedTypes ==
    ASSUME TypeOK, NEW o \in Openers, NEW l \in Pcs, Goto(o, l), UNCHANGED <<dirVars, todo>>,
           visible' = [n \in Names |-> visible'[n]], durable' \in {durable, visible},
           \/ rootId' = rootId
           \/ \E id : rootId' = [rootId EXCEPT ![o] = id],
           \/ target' = target
           \/ \E t \in [name : Canonical, state : {"initial", "later"}] :
                target' = [target EXCEPT ![o] = t],
           \/ relied' = relied
           \/ \E R \in SUBSET Names : relied' = [relied EXCEPT ![o] = @ \cup R]
    PROVE  TypeOK' /\ Only(o) /\ pc'[o] = l /\ relied[o] \subseteq relied'[o]
<1>1. /\ pc' \in [Openers -> Pcs] /\ pc'[o] = l
      /\ \A p \in Openers \ {o} : pc'[p] = pc[p]
  BY Moves
<1>2. rootId' = [p \in Openers |-> rootId'[p]] /\ \A p \in Openers \ {o} : rootId'[p] = rootId[p]
  BY SMT DEF TypeOK
<1>3. /\ target' \in [Openers -> [name : Canonical, state : {"initial", "later"}]]
      /\ \A p \in Openers \ {o} : target'[p] = target[p]
  <2>1. CASE target' = target
    BY <2>1 DEF TypeOK
  <2>2. ASSUME NEW t \in [name : Canonical, state : {"initial", "later"}],
               target' = [target EXCEPT ![o] = t]
        PROVE  /\ target' \in [Openers -> [name : Canonical, state : {"initial", "later"}]]
               /\ \A p \in Openers \ {o} : target'[p] = target[p]
    BY <2>2 DEF TypeOK
  <2> QED
    BY <2>1, <2>2
<1>4. /\ relied' \in [Openers -> SUBSET (Names \cup {"path"})] /\ relied[o] \subseteq relied'[o]
      /\ \A p \in Openers \ {o} : relied'[p] = relied[p]
  <2>1. CASE relied' = relied
    BY <2>1 DEF TypeOK
  <2>2. ASSUME NEW R \in SUBSET Names, relied' = [relied EXCEPT ![o] = @ \cup R]
        PROVE  /\ relied' \in [Openers -> SUBSET (Names \cup {"path"})]
               /\ relied[o] \subseteq relied'[o]
               /\ \A p \in Openers \ {o} : relied'[p] = relied[p]
    <3>1. relied[o] \cup R \in SUBSET (Names \cup {"path"})
      BY DEF TypeOK
    <3>2. relied' = [relied EXCEPT ![o] = relied[o] \cup R]
      BY <2>2
    <3> QED
      BY <3>1, <3>2 DEF TypeOK
  <2> QED
    BY <2>1, <2>2
<1>5. durable' = [n \in Names |-> durable'[n]]
  BY DEF TypeOK
<1>6. TypeOK'
  BY <1>1, <1>2, <1>3, <1>4, <1>5 DEF TypeOK, dirVars
<1> QED
  BY <1>1, <1>2, <1>3, <1>4, <1>6 DEF Only

\* A step that stays under the lock.
LEMMA LockedStep ==
    ASSUME Sound, NEW o \in Openers, NEW l \in LockedPcs, Goto(o, l), pc[o] \in LockedPcs,
           UNCHANGED <<dirVars, todo>>,
           visible' = [n \in Names |-> visible'[n]], durable' \in {durable, visible},
           \/ rootId' = rootId
           \/ \E id : rootId' = [rootId EXCEPT ![o] = id],
           \/ target' = target
           \/ \E t \in [name : Canonical, state : {"initial", "later"}] :
                target' = [target EXCEPT ![o] = t],
           \/ relied' = relied
           \/ \E R \in SUBSET Names : relied' = [relied EXCEPT ![o] = @ \cup R],
           Disk', Holder(o)'
    PROVE  Sound'
<1>1. l \in Pcs
  BY DEF Pcs
<1>2. TypeOK' /\ Only(o) /\ pc'[o] = l /\ relied[o] \subseteq relied'[o]
  BY <1>1, LockedTypes DEF Sound
<1> QED
  BY <1>2, Insider

\* A changed entry is the only one.
LEMMA EntryChanged ==
    ASSUME TypeOK, NEW x \in Names, NEW f, visible' = [visible EXCEPT ![x] = f]
    PROVE  /\ visible' = [n \in Names |-> visible'[n]] /\ visible'[x] = f
           /\ \A n \in Names \ {x} : visible'[n] = visible[n]
<1>1. visible = [n \in Names |-> visible[n]]
  BY DEF TypeOK
<1>2. DOMAIN visible = Names
  BY <1>1
<1> QED
  BY <1>2

\* The disk is what the canonical names and the segments directory lead to.
LEMMA DiskSame ==
    ASSUME Disk, \A n \in Canonical \cup {"segments"} : visible'[n] = visible[n],
           UNCHANGED <<durable, segments, identity, durableDirs>>
    PROVE  Disk'
<1>1. \A n \in Canonical \cup {"segments"} : visible'[n] = visible[n] /\ durable'[n] = durable[n]
  OBVIOUS
<1>2. /\ "ROOT" \in Canonical /\ "LOG" \in Canonical /\ "CHECKPOINT" \in Canonical
      /\ ControlFiles \subseteq Canonical
  BY DEF Canonical, ControlFiles
<1>3. \A n \in Canonical : Settled(n)' = Settled(n) /\ Later(n)' = Later(n)
  BY <1>1 DEF Settled, Later
<1> QED
  BY <1>1, <1>2, <1>3 DEF Disk

\* What each place under the lock asks for.
LEMMA EnterCreating ==
    ASSUME NEW o \in Openers, pc'[o] \in {"forget", "generate"}, lock' = {o},
           \A n \in ControlFiles : visible'[n] = Missing /\ durable'[n] = Missing
    PROVE  Holder(o)'
<1>1. pc'[o] \notin KnownPcs \cup {"decode"} /\ pc'[o] \notin ReplacePcs
  BY DEF KnownPcs, ReplacePcs
<1>2. ~Replacing(o)'
  BY <1>1 DEF Replacing
<1>3. Begins(o)' /\ Replaces(o)'
  BY <1>1, <1>2 DEF Begins, Replaces
<1>4. Knows(o)' /\ Writes(o)'
  BY <1>1, <1>2 DEF Knows, Writes, KnownPcs, ReplacePcs
<1> QED
  BY <1>3, <1>4 DEF Holder

\* An opener that knows the root is outside atomic_replace.
LEMMA EnterKnown ==
    ASSUME NEW o \in Openers, pc'[o] \in KnownPcs \cup {"decode"}, lock' = {o}, Knows(o)'
    PROVE  Holder(o)'
<1>1. pc'[o] \notin {"forget", "generate"} /\ pc'[o] \notin ReplacePcs
  BY DEF KnownPcs, ReplacePcs
<1>2. ~Replacing(o)' /\ ~Creating(o)'
  BY <1>1 DEF Replacing, Creating
<1>3. Begins(o)' /\ Replaces(o)'
  BY <1>1, <1>2 DEF Begins, Replaces
<1>4. Writes(o)'
  BY <1>1 DEF Writes, ReplacePcs
<1> QED
  BY <1>3, <1>4 DEF Holder

\* An opener begins to write a new ROOT.
LEMMA EnterReplaceRoot ==
    ASSUME NEW o \in Openers, pc'[o] \in ReplacePcs, lock' = {o}, Writes(o)',
           target'[o].name = "ROOT", target'[o].state = "initial",
           \A n \in ControlFiles : visible'[n] = Missing /\ durable'[n] = Missing
    PROVE  Holder(o)'
<1>1. pc'[o] \notin KnownPcs \cup {"decode"}
  BY DEF KnownPcs, ReplacePcs
<1>2. ~Replacing(o)'
  BY DEF Replacing
<1>3. Begins(o)' /\ Replaces(o)'
  BY <1>2 DEF Begins, Replaces
<1>4. Knows(o)'
  BY <1>1, <1>2 DEF Knows, KnownPcs
<1> QED
  BY <1>3, <1>4 DEF Holder

\* An opener begins to replace a control file.
LEMMA EnterReplaceControl ==
    ASSUME NEW o \in Openers, pc'[o] \in ReplacePcs, lock' = {o}, Writes(o)', Replaces(o)',
           target'[o].name # "ROOT", rootId'[o] = visible'["ROOT"].id
    PROVE  Holder(o)'
<1>1. pc'[o] \notin KnownPcs \cup {"decode"} /\ pc'[o] \notin {"forget", "generate"}
  BY DEF KnownPcs, ReplacePcs
<1>2. ~Creating(o)'
  BY <1>1 DEF Creating
<1>3. Begins(o)'
  BY <1>2 DEF Begins
<1>4. Knows(o)'
  BY <1>1 DEF Knows, KnownPcs
<1> QED
  BY <1>3, <1>4 DEF Holder

\* Inside atomic_replace, while only temporaries change.
LEMMA StayReplacing ==
    ASSUME NEW o \in Openers, Holder(o), pc[o] \in ReplacePcs, pc'[o] \in ReplacePcs, Writes(o)',
           UNCHANGED <<lock, rootId, target, relied, identity>>,
           \A n \in Canonical \cup {"segments"} : visible'[n] = visible[n],
           durable' \in {durable, visible}
    PROVE  Holder(o)'
<1>1. lock = {o}
  BY DEF Holder, LockedPcs
<1>2. /\ "ROOT" \in Canonical /\ "CHECKPOINT" \in Canonical /\ ControlFiles \subseteq Canonical
  BY DEF Canonical, ControlFiles
<1>3. CASE target[o].name = "ROOT"
  <2>1. Creating(o)
    BY <1>3 DEF Creating
  <2>2. \A n \in ControlFiles : visible'[n] = Missing /\ durable'[n] = Missing
    BY <1>2, <2>1 DEF Holder, Begins
  <2> QED
    BY <1>1, <1>3, <2>2, EnterReplaceRoot DEF Holder, Begins
<1>4. CASE target[o].name # "ROOT"
  <2>1. Replacing(o)
    BY <1>4 DEF Replacing
  <2>2. \A n \in Canonical : Settled(n) => Settled(n)'
    BY DEF Settled
  <2>3. Reliable(o, "segments") => Reliable(o, "segments")'
    BY DEF Reliable
  <2>4. Replaces(o)'
    BY <1>2, <2>1, <2>2, <2>3 DEF Holder, Replaces
  <2>5. rootId'[o] = visible'["ROOT"].id
    BY <1>2, <2>1 DEF Holder, Knows
  <2> QED
    BY <1>1, <1>4, <2>4, <2>5, EnterReplaceControl
<1> QED
  BY <1>3, <1>4

-----------------------------------------------------------------------------
(* The steps under the lock. *)

\* A directory sync of the holder.
LEMMA SyncRootStep ==
    ASSUME Sound, NEW o \in Openers,
           SyncForgotten(o) \/ SyncStale(o) \/ SyncSegments(o) \/ SyncRemoved(o)
    PROVE  Sound'
<1> DEFINE Sync(from, to) == SyncRoot(o, from, to)
<1>1. PICK from, to :
         /\ SyncRoot(o, from, to)
         /\ <<from, to>> \in {<<"forget", "generate">>, <<"clearSync", "write">>,
                              <<"segmentsSync", "control">>, <<"tidySync", "recover">>}
  BY DEF SyncForgotten, SyncStale, SyncSegments, SyncRemoved
<1>2. /\ pc[o] = from /\ Goto(o, to) /\ SyncLevel(1)
      /\ UNCHANGED <<visibleDirs, visible, segments, lock, todo, rootId, target, relied, history>>
  BY <1>1 DEF SyncRoot
<1>3. durable' = visible /\ durableDirs' = durableDirs
  BY <1>2, LevelSynced DEF Sound
<1>4. from \in LockedPcs /\ to \in LockedPcs /\ to \in Pcs
  BY <1>1 DEF LockedPcs, Pcs, ReplacePcs, KnownPcs
<1>5. pc'[o] = to
  BY <1>2, <1>4, Moves DEF Sound
<1>6. lock = {o} /\ Holder(o)
  BY <1>2, <1>4 DEF Sound, Holder
<1>7. durableDirs \subseteq Levels
  BY SMT DEF Sound, TypeOK, Levels
<1>8. Disk'
  BY <1>2, <1>3, <1>7, DiskSynced DEF Sound, history
<1>9. \A n : Reliable(o, n)'
  BY <1>2, <1>3 DEF Reliable
<1>10. Holder(o)'
  <2>1. CASE from = "forget" /\ to = "generate"
    <3>1. \A n \in ControlFiles : visible'[n] = Missing /\ durable'[n] = Missing
      BY <1>2, <1>3, <1>6, <2>1 DEF Holder, Begins, Creating
    <3> QED
      BY <1>2, <1>5, <1>6, <2>1, <3>1, EnterCreating
  <2>2. CASE from = "clearSync" /\ to = "write"
    <3>1. Writes(o)'
      BY <1>5, <2>2 DEF Writes
    <3>2. pc[o] \in ReplacePcs /\ pc'[o] \in ReplacePcs
      BY <1>2, <1>5, <2>2 DEF ReplacePcs
    <3> QED
      BY <1>2, <1>3, <1>6, <3>1, <3>2, StayReplacing DEF history
  <2>3. CASE from = "segmentsSync" /\ to = "control"
    <3>1. pc[o] \in KnownPcs \ {"segments"} /\ pc'[o] \in KnownPcs
      BY <1>2, <1>5, <2>3 DEF KnownPcs
    <3>2. Knows(o)'
      BY <1>2, <1>5, <1>6, <1>9, <2>3, <3>1 DEF Knows, Holder
    <3> QED
      BY <1>2, <1>6, <3>1, <3>2, EnterKnown
  <2>4. CASE from = "tidySync" /\ to = "recover"
    <3>1. pc[o] \in KnownPcs \ {"segments"} /\ pc'[o] \in KnownPcs
      BY <1>2, <1>5, <2>4 DEF KnownPcs
    <3>2. Knows(o)'
      BY <1>2, <1>5, <1>6, <1>9, <2>4, <3>1 DEF Knows, Holder
    <3> QED
      BY <1>2, <1>6, <3>1, <3>2, EnterKnown
  <2> QED
    BY <1>1, <2>1, <2>2, <2>3, <2>4
<1>11. visible' = [n \in Names |-> visible'[n]]
  BY <1>2 DEF Sound, TypeOK
<1> QED
  BY <1>2, <1>3, <1>4, <1>8, <1>10, <1>11, LockedStep DEF dirVars

\* Nothing but a temporary changes, inside atomic_replace.
LEMMA TemporaryWritten ==
    ASSUME Sound, NEW o \in Openers, NEW from \in ReplacePcs, NEW to \in ReplacePcs, NEW f,
           WriteEntry(o, from, Temp(o), f, to),
           to = "syncData" => f = File(rootId[o], target[o].state, FALSE),
           to = "rename" => f = File(rootId[o], target[o].state, TRUE),
           to # "publish"
    PROVE  Sound'
<1>1. /\ pc[o] = from /\ Goto(o, to) /\ visible' = [visible EXCEPT ![Temp(o)] = f]
      /\ UNCHANGED <<dirVars, durable, segments, lock, todo, rootId, target, relied, history>>
  BY DEF WriteEntry
<1>2. from \in LockedPcs /\ to \in LockedPcs /\ to \in Pcs
  BY DEF LockedPcs, Pcs
<1>3. pc'[o] = to
  BY <1>1, <1>2, Moves DEF Sound
<1>4. target[o].name \in Canonical
  BY DEF Sound, TypeOK
<1>5. Temp(o) \in Names /\ Temp(o) \notin Canonical \cup {"segments"}
  BY <1>4, SMT DEF Temp, Temporary, Canonical, Names, Temporaries
<1>6. /\ visible' = [n \in Names |-> visible'[n]] /\ visible'[Temp(o)] = f
      /\ \A n \in Names \ {Temp(o)} : visible'[n] = visible[n]
  BY <1>1, <1>5, EntryChanged DEF Sound
<1>7. \A n \in Canonical \cup {"segments"} : visible'[n] = visible[n]
  BY <1>5, <1>6 DEF Names
<1>8. Disk'
  BY <1>1, <1>7, DiskSame DEF Sound, dirVars, history
<1>9. Temp(o)' = Temp(o)
  BY <1>1 DEF Temp
<1>10. Writes(o)'
  BY <1>1, <1>3, <1>6, <1>9 DEF Writes
<1>11. Holder(o)'
  BY <1>1, <1>3, <1>7, <1>10, StayReplacing DEF Sound, history
<1> QED
  BY <1>1, <1>2, <1>6, <1>8, <1>11, LockedStep

\* A data sync changes nothing else of a file.
LEMMA FieldSet ==
    ASSUME NEW id, NEW state, NEW before, NEW after
    PROVE  [File(id, state, before) EXCEPT !.synced = after] = File(id, state, after)
BY SMT DEF File

\* Syncing the data of the temporary makes it whole.
LEMMA DataSynced ==
    ASSUME NEW id, NEW state, NEW f, f = File(id, state, FALSE)
    PROVE  [f EXCEPT !.synced = TRUE] = File(id, state, TRUE)
<1>1. PICK t : t = TRUE
  OBVIOUS
<1>2. PICK u : u = FALSE
  OBVIOUS
<1>3. [File(id, state, u) EXCEPT !.synced = t] = File(id, state, t)
  BY FieldSet, SMT
<1> QED
  BY <1>1, <1>2, <1>3

\* The steps of atomic_replace before the rename touch the temporary only.
LEMMA ReplaceStep ==
    ASSUME Sound, NEW o \in Openers, RemoveStale(o) \/ WriteTemporary(o) \/ SyncTemporary(o)
    PROVE  Sound'
<1>1. CASE RemoveStale(o)
  <2>1. PICK to \in {"clearSync", "write"} : WriteEntry(o, "clear", Temp(o), Missing, to)
    BY <1>1 DEF RemoveStale
  <2> QED
    BY <2>1, TemporaryWritten DEF ReplacePcs
<1>2. CASE WriteTemporary(o)
  BY <1>2, TemporaryWritten DEF WriteTemporary, ReplacePcs
<1>3. CASE SyncTemporary(o)
  <2>1. pc[o] = "syncData"
    BY <1>3 DEF SyncTemporary, WriteEntry
  <2>2. visible[Temp(o)] = File(rootId[o], target[o].state, FALSE)
    BY <2>1 DEF Sound, Holder, Writes
  <2>3. [visible[Temp(o)] EXCEPT !.synced = TRUE] = File(rootId[o], target[o].state, TRUE)
    BY <2>2, DataSynced
  <2> QED
    BY <1>3, <2>3, TemporaryWritten DEF SyncTemporary, ReplacePcs
<1> QED
  BY <1>1, <1>2, <1>3

\* The fields of a file.
LEMMA FileFields ==
    ASSUME NEW id, NEW state \in {"initial", "later"}
    PROVE  /\ File(id, state, TRUE).id = id /\ File(id, state, TRUE).state = state
           /\ File(id, state, TRUE) # Missing /\ Whole(File(id, state, TRUE))
<1>1. File(id, state, TRUE).id = id /\ File(id, state, TRUE).state = state
  BY DEF File
<1>2. Missing.state = "missing"
  BY DEF File, Missing
<1> QED
  BY <1>1, <1>2 DEF Whole

\* The rename puts a whole file under the canonical name.
LEMMA RenameStep ==
    ASSUME Sound, NEW o \in Openers, Rename(o)
    PROVE  Sound'
<1> DEFINE x == target[o].name
           f == File(rootId[o], target[o].state, TRUE)
<1>1. /\ pc[o] = "rename" /\ Goto(o, "publish")
      /\ visible' = [visible EXCEPT ![x] = visible[Temp(o)], ![Temp(o)] = Missing]
      /\ UNCHANGED <<dirVars, durable, segments, lock, todo, rootId, target, relied, history>>
  BY DEF Rename
<1>2. "publish" \in LockedPcs /\ "rename" \in LockedPcs /\ "publish" \in Pcs
      /\ "publish" \in ReplacePcs /\ "rename" \in ReplacePcs
  BY DEF LockedPcs, Pcs, ReplacePcs
<1>3. pc'[o] = "publish"
  BY <1>1, <1>2, Moves DEF Sound
<1>4. x \in Canonical /\ target[o].state \in {"initial", "later"}
  BY DEF Sound, TypeOK
<1>5. Temp(o) \in Names /\ Temp(o) \notin Canonical \cup {"segments"} /\ x \in Names
  BY <1>4, SMT DEF Temp, Temporary, Canonical, Names, Temporaries
<1>6. visible[Temp(o)] = f
  BY <1>1 DEF Sound, Holder, Writes
<1>7. /\ visible' = [n \in Names |-> visible'[n]] /\ visible'[x] = f
      /\ \A n \in Names \ {x, Temp(o)} : visible'[n] = visible[n]
  <2>1. visible = [n \in Names |-> visible[n]]
    BY DEF Sound, TypeOK
  <2>2. DOMAIN visible = Names /\ x # Temp(o)
    BY <1>4, <1>5, <2>1
  <2> HIDE DEF x, f
  <2> QED
    BY <1>1, <1>5, <1>6, <2>2
<1>8. \A n \in (Canonical \cup {"segments"}) \ {x} : visible'[n] = visible[n]
  BY <1>5, <1>7 DEF Names
<1>9. /\ f.id = rootId[o] /\ f.state = target[o].state /\ f # Missing /\ Whole(f)
  BY <1>4, FileFields
<1>10. Holder(o) /\ lock = {o} /\ Disk
  BY <1>1, <1>2 DEF Sound, Holder
<1>11. x = "ROOT" \/ x = "CHECKPOINT" \/ x = "LOG"
  BY <1>4 DEF Canonical
<1>12. Writes(o)'
  BY <1>1, <1>3, <1>7 DEF Writes
<1> HIDE DEF x, f
<1>13. CASE x = "ROOT"
  <2>1. \A n \in ControlFiles : visible[n] = Missing /\ durable[n] = Missing
    BY <1>1, <1>2, <1>10, <1>13 DEF Holder, Begins, Creating, x
  <2>2. \A n \in ControlFiles : visible'[n] = Missing /\ durable'[n] = Missing
    BY <1>1, <1>8, <1>13, <2>1 DEF ControlFiles, Canonical
  <2>3. identity = {} /\ ~segments
    <3>1. "LOG" \in ControlFiles
      BY DEF ControlFiles
    <3> QED
      BY <1>10, <2>1, <3>1 DEF Disk
  <2>4. \A n \in ControlFiles : ~Later(n)'
    <3>1. Missing.state # "later"
      BY SMT DEF Missing, File
    <3> QED
      BY <2>2, <3>1 DEF Later
  <2>5. Disk'
    <3>1. \A n \in Canonical \cup {"segments"} : Whole(visible'[n]) /\ Whole(durable'[n])
      BY <1>1, <1>7, <1>8, <1>9, <1>10 DEF Disk
    <3> QED
      BY <1>1, <1>8, <1>10, <1>13, <2>2, <2>3, <2>4, <3>1 DEF Disk, ControlFiles, history
  <2>6. Holder(o)'
    BY <1>1, <1>2, <1>3, <1>10, <1>12, <1>13, <2>2, EnterReplaceRoot DEF Holder, Begins, x
  <2> QED
    BY <1>1, <1>2, <1>7, <2>5, <2>6, LockedStep
<1>14. CASE x # "ROOT"
  <2>1. Replacing(o)
    BY <1>1, <1>2, <1>14 DEF Replacing, x
  <2>2. /\ Settled("ROOT") /\ visible["segments"] # Missing /\ Reliable(o, "segments")
        /\ target[o].state = "initial" => identity = {}
        /\ target[o].state = "later" => identity # {}
        /\ x = "LOG" => Settled("CHECKPOINT") /\ visible["CHECKPOINT"].state = target[o].state
        /\ rootId[o] = visible["ROOT"].id
    BY <1>10, <2>1 DEF Holder, Replaces, Knows, x
  <2>3. visible'["ROOT"] = visible["ROOT"] /\ visible'["segments"] = visible["segments"]
    BY <1>8, <1>11, <1>14 DEF Canonical
  <2>4. Settled("ROOT")' /\ Reliable(o, "segments")'
    BY <1>1, <2>2, <2>3 DEF Settled, Reliable
  <2>5. x = "LOG" => visible'["CHECKPOINT"] = visible["CHECKPOINT"] /\ Settled("CHECKPOINT")'
    BY <1>1, <1>8, <2>2 DEF Canonical, Settled
  <2>6. Replaces(o)'
    BY <1>1, <2>2, <2>3, <2>4, <2>5 DEF Replaces, x, history
  <2>7. Holder(o)'
    BY <1>1, <1>2, <1>3, <1>10, <1>12, <1>14, <2>2, <2>3, <2>6, EnterReplaceControl DEF x
  <2>8. \A n \in Canonical \cup {"segments"} : Whole(visible'[n]) /\ Whole(durable'[n])
    BY <1>1, <1>7, <1>8, <1>9, <1>10 DEF Disk
  <2>9. \A n \in ControlFiles : /\ visible'[n] # Missing => visible'[n].id = visible'["ROOT"].id
                                /\ durable'[n] # Missing => durable'[n].id = visible'["ROOT"].id
    BY <1>1, <1>7, <1>8, <1>9, <1>10, <2>2, <2>3, ZenonT(30) DEF Disk, ControlFiles, Canonical
  <2>10. \A n \in ControlFiles : Later(n)' => identity # {}
    <3>1. \A n \in ControlFiles : Later(n) => identity # {}
      BY <1>10 DEF Disk
    <3>2. \A n \in ControlFiles \ {x} : Later(n)' = Later(n)
      BY <1>1, <1>8 DEF Later, ControlFiles, Canonical
    <3>3. ASSUME NEW n \in ControlFiles, n = x, Later(n)'
          PROVE  Later(n) \/ target[o].state = "later"
      BY <1>1, <1>7, <1>9, <3>3 DEF Later
    <3> QED
      BY <2>2, <3>1, <3>2, <3>3
  <2>11. Later("LOG")' =>
           visible'["CHECKPOINT"].state = "later" /\ durable'["CHECKPOINT"].state = "later"
    <3>1. Later("LOG") => visible["CHECKPOINT"].state = "later"
                          /\ durable["CHECKPOINT"].state = "later" /\ identity # {}
      BY <1>10 DEF Disk, ControlFiles
    <3>2. CASE x = "LOG"
      <4>1. Later("LOG")' => Later("LOG") \/ target[o].state = "later"
        BY <1>1, <1>7, <1>9, <3>2 DEF Later
      <4>2. durable'["CHECKPOINT"] = durable["CHECKPOINT"]
            /\ visible'["CHECKPOINT"] = visible["CHECKPOINT"]
            /\ durable["CHECKPOINT"] = visible["CHECKPOINT"]
        BY <1>1, <2>2, <2>5, <3>2 DEF Settled
      <4> QED
        BY <2>2, <3>1, <3>2, <4>1, <4>2
    <3>3. CASE x = "CHECKPOINT"
      <4>1. Later("LOG")' => Later("LOG")
        BY <1>1, <1>8, <3>3 DEF Later, Canonical
      <4>2. identity # {} => target[o].state = "later"
        BY <1>4, <2>2
      <4> QED
        BY <1>1, <1>7, <1>9, <3>1, <3>3, <4>1, <4>2
    <3> QED
      BY <1>11, <1>14, <3>2, <3>3
  <2>12. \A n \in ControlFiles \cup {"segments"} : visible[n] # Missing => visible'[n] # Missing
    BY <1>7, <1>8, <1>9 DEF ControlFiles, Canonical
  <2>13. Disk'
    BY <1>1, <1>10, <2>3, <2>4, <2>8, <2>9, <2>10, <2>11, <2>12 DEF Disk, dirVars, history
  <2> QED
    BY <1>1, <1>2, <1>7, <2>7, <2>13, LockedStep
<1> QED
  BY <1>13, <1>14

\* After a directory sync, everything the holder relies on is durable.
LEMMA PublishStep ==
    ASSUME Sound, NEW o \in Openers, Publish(o)
    PROVE  Sound'
<1>1. /\ pc[o] = "publish" /\ SyncLevel(1)
      /\ UNCHANGED <<visibleDirs, visible, segments, lock, todo, relied, history>>
  BY DEF Publish
<1>2. durable' = visible /\ durableDirs' = durableDirs
  BY <1>1, LevelSynced DEF Sound
<1>3. "publish" \in LockedPcs /\ "publish" \in ReplacePcs
  BY DEF LockedPcs, ReplacePcs
<1>4. lock = {o} /\ Holder(o) /\ target[o].name \in Canonical
      /\ target[o].state \in {"initial", "later"}
  BY <1>1, <1>3 DEF Sound, Holder, TypeOK
<1>5. durableDirs \subseteq Levels
  BY SMT DEF Sound, TypeOK, Levels
<1>6. Disk'
  BY <1>1, <1>2, <1>5, DiskSynced DEF Sound, history
<1>7. \A n : Reliable(o, n)'
  BY <1>1, <1>2 DEF Reliable
<1>8. visible' = [n \in Names |-> visible'[n]]
  BY <1>1 DEF Sound, TypeOK
<1>9. visible[target[o].name] # Missing /\ visible[target[o].name].state = target[o].state
  <2>1. visible[target[o].name] = File(rootId[o], target[o].state, TRUE)
    BY <1>1, <1>4 DEF Holder, Writes
  <2>2. /\ File(rootId[o], target[o].state, TRUE) # Missing
        /\ File(rootId[o], target[o].state, TRUE).state = target[o].state
    BY <1>4, FileFields
  <2> QED
    BY <2>1, <2>2
<1>10. CASE target[o].name = "ROOT" /\ Goto(o, "decode") /\ UNCHANGED <<target, rootId>>
  <2>1. "decode" \in LockedPcs /\ "decode" \in Pcs /\ "decode" \notin KnownPcs
    BY DEF LockedPcs, Pcs, KnownPcs
  <2>2. pc'[o] = "decode"
    BY <1>10, <2>1, Moves DEF Sound
  <2>3. ~Replacing(o)'
    BY <2>2 DEF Replacing, ReplacePcs
  <2>4. Knows(o)'
    BY <1>1, <1>7, <1>9, <1>10, <2>1, <2>2, <2>3 DEF Knows
  <2>5. Holder(o)'
    BY <1>1, <1>4, <2>2, <2>4, EnterKnown
  <2> QED
    BY <1>1, <1>2, <1>3, <1>6, <1>8, <1>10, <2>1, <2>5, LockedStep DEF dirVars
<1>11. ASSUME target[o].name # "ROOT"
       PROVE  /\ Settled("ROOT") /\ visible["segments"] # Missing
              /\ target[o].state = "initial" => identity = {}
              /\ target[o].state = "later" => identity # {}
              /\ target[o].name = "LOG" => Settled("CHECKPOINT")
              /\ rootId[o] = visible["ROOT"].id
  <2>1. Replacing(o)
    BY <1>1, <1>3, <1>11 DEF Replacing
  <2> QED
    BY <1>4, <2>1 DEF Holder, Replaces, Knows
<1>12. CASE target[o].name = "CHECKPOINT" /\ Replace(o, "LOG", target[o].state, rootId[o])
  <2> DEFINE t == [name |-> "LOG", state |-> target[o].state]
  <2>1. /\ target' = [target EXCEPT ![o] = t] /\ rootId' = [rootId EXCEPT ![o] = rootId[o]]
        /\ Goto(o, "clear")
    BY <1>12 DEF Replace
  <2>2. "clear" \in LockedPcs /\ "clear" \in Pcs /\ "clear" \in ReplacePcs
    BY DEF LockedPcs, Pcs, ReplacePcs
  <2>3. pc'[o] = "clear"
    BY <2>1, <2>2, Moves DEF Sound
  <2>4. t \in [name : Canonical, state : {"initial", "later"}] /\ t.name = "LOG"
        /\ t.state = target[o].state
    BY <1>4, SMT DEF Canonical
  <2>5. target'[o] = t /\ rootId'[o] = rootId[o]
    <3>1. rootId = [p \in Openers |-> rootId[p]] /\ target \in [Openers -> [name : Canonical, state : {"initial", "later"}]]
      BY DEF Sound, TypeOK
    <3>2. DOMAIN rootId = Openers
      BY <3>1
    <3> QED
      BY <2>1, <3>1, <3>2
  <2> HIDE DEF t
  <2>6. Settled("ROOT")' /\ Settled("CHECKPOINT")'
    BY <1>1, <1>2, <1>9, <1>11, <1>12 DEF Settled
  <2>7. Replaces(o)'
    BY <1>1, <1>7, <1>9, <1>11, <1>12, <2>4, <2>5, <2>6 DEF Replaces, history
  <2>8. Writes(o)'
    BY <2>3 DEF Writes
  <2>9. Holder(o)'
    BY <1>1, <1>4, <1>11, <1>12, <2>2, <2>3, <2>4, <2>5, <2>7, <2>8, EnterReplaceControl
  <2> QED
    BY <1>1, <1>2, <1>3, <1>6, <1>8, <2>1, <2>2, <2>4, <2>9, LockedStep DEF dirVars
<1>13. CASE /\ target[o].name = "LOG" /\ UNCHANGED <<target, rootId>>
            /\ Goto(o, IF target[o].state = "initial" THEN "tidy" ELSE "open")
  <2>1. PICK l \in {"tidy", "open"} : Goto(o, l) /\ (l = "open" => target[o].state = "later")
    BY <1>4, <1>13
  <2>2. l \in LockedPcs /\ l \in Pcs /\ l \in KnownPcs
    BY DEF LockedPcs, Pcs, KnownPcs
  <2>3. pc'[o] = l
    BY <2>1, <2>2, Moves DEF Sound
  <2>4. visible["ROOT"] # Missing /\ visible["CHECKPOINT"] # Missing /\ visible["LOG"] # Missing
    BY <1>9, <1>11, <1>13 DEF Settled
  <2>5. Knows(o)'
    BY <1>1, <1>7, <1>11, <1>13, <2>1, <2>2, <2>3, <2>4 DEF Knows, ControlFiles, history
  <2>6. Holder(o)'
    BY <1>1, <1>4, <2>2, <2>3, <2>5, EnterKnown
  <2> QED
    BY <1>1, <1>2, <1>3, <1>6, <1>8, <1>13, <2>1, <2>2, <2>6, LockedStep DEF dirVars
<1> QED
  BY <1>10, <1>12, <1>13 DEF Publish

\* Without temporaries, the canonical files are as before.
LEMMA TemporariesRemoved ==
    ASSUME visible' = WithoutTemporaries
    PROVE  /\ visible' = [n \in Names |-> visible'[n]]
           /\ \A n \in Canonical \cup {"segments"} : visible'[n] = visible[n]
<1>1. \A n \in Canonical \cup {"segments"} : n \in Names /\ n \notin Temporaries
  BY SMT DEF Names, Canonical, Temporaries, Temporary
<1> QED
  BY <1>1 DEF WithoutTemporaries

\* initialize_or_validate_root starts a root only where no control file is left.
LEMMA IdentifyStep ==
    ASSUME Sound, NEW o \in Openers, Identify(o)
    PROVE  Sound'
<1>1. pc[o] = "identify"
  BY DEF Identify
<1>2. "identify" \in LockedPcs /\ "decode" \in LockedPcs /\ "forget" \in LockedPcs
      /\ "generate" \in LockedPcs /\ LockedPcs \subseteq Pcs
  BY DEF LockedPcs, Pcs
<1>3. lock = {o} /\ Disk /\ visible = [n \in Names |-> visible[n]]
  BY <1>1, <1>2 DEF Sound, Holder, TypeOK
<1>4. CASE /\ Exists("ROOT") /\ Relies(o, {"ROOT"}) /\ Goto(o, "decode")
           /\ UNCHANGED <<dirVars, fileVars, lock, todo, rootId, target, history>>
  <2> DEFINE R == {n \in {"ROOT"} : visible[n] # durable[n]}
  <2>1. pc'[o] = "decode" /\ "decode" \notin KnownPcs
    BY <1>2, <1>4, Moves DEF Sound, KnownPcs
  <2>2. relied' = [relied EXCEPT ![o] = @ \cup R] /\ R \in SUBSET Names
    BY <1>4 DEF Relies, Names, Canonical
  <2>3. relied'[o] = relied[o] \cup R
    BY <2>2 DEF Sound, TypeOK
  <2>4. Reliable(o, "ROOT")'
    BY <1>4, <2>3 DEF Reliable, fileVars
  <2>5. ~Replacing(o)'
    BY <2>1 DEF Replacing, ReplacePcs
  <2>6. Knows(o)'
    BY <1>4, <2>1, <2>4, <2>5 DEF Knows, Exists, fileVars
  <2>7. Holder(o)'
    BY <1>3, <1>4, <2>1, <2>6, EnterKnown
  <2>8. Disk'
    BY <1>3, <1>4, DiskSame DEF fileVars, dirVars, history
  <2> HIDE DEF R
  <2> QED
    BY <1>1, <1>2, <1>3, <1>4, <2>2, <2>7, <2>8, LockedStep DEF fileVars
<1>5. ~Exists("ROOT") => ~RootIsUnexplained /\ \A n \in ControlFiles : visible[n] = Missing /\ durable[n] = Missing
  <2> SUFFICES ASSUME visible["ROOT"] = Missing
               PROVE  ~RootIsUnexplained /\ \A n \in ControlFiles : visible[n] = Missing /\ durable[n] = Missing
    BY DEF Exists
  <2>1. \A n \in ControlFiles : visible[n] = Missing /\ durable[n] = Missing
    BY <1>3 DEF Disk, Settled
  <2>2. ~segments
    BY <1>3, <2>1 DEF Disk, ControlFiles
  <2> QED
    BY <2>1, <2>2 DEF RootIsUnexplained, Exists, ControlFiles
<1>6. CASE /\ ~Exists("ROOT") /\ ~RootIsUnexplained /\ visible' = WithoutTemporaries
           /\ Goto(o, IF visible' = visible THEN "generate" ELSE "forget")
           /\ UNCHANGED <<dirVars, durable, segments, lock, todo, rootId, target, relied, history>>
  <2>1. PICK l \in {"generate", "forget"} : Goto(o, l)
    BY <1>6
  <2>2. pc'[o] = l /\ l \in LockedPcs
    BY <1>2, <2>1, Moves DEF Sound
  <2>3. /\ visible' = [n \in Names |-> visible'[n]]
        /\ \A n \in Canonical \cup {"segments"} : visible'[n] = visible[n]
    BY <1>6, TemporariesRemoved
  <2>4. Disk'
    BY <1>3, <1>6, <2>3, DiskSame DEF dirVars, history
  <2>5. \A n \in ControlFiles : visible'[n] = Missing /\ durable'[n] = Missing
    BY <1>5, <1>6, <2>3 DEF ControlFiles, Canonical
  <2>6. Holder(o)'
    BY <1>3, <1>6, <2>2, <2>5, EnterCreating
  <2> QED
    BY <1>1, <1>2, <1>6, <2>1, <2>2, <2>3, <2>4, <2>6, LockedStep
<1> QED
  BY <1>4, <1>5, <1>6 DEF Identify

\* A new identity is drawn for a root that has none.
LEMMA GenerateStep ==
    ASSUME Sound, NEW o \in Openers, Generate(o)
    PROVE  Sound'
<1> DEFINE t == [name |-> "ROOT", state |-> "initial"]
<1>1. /\ pc[o] = "generate" /\ Goto(o, "clear") /\ target' = [target EXCEPT ![o] = t]
      /\ \E id : rootId' = [rootId EXCEPT ![o] = id]
      /\ UNCHANGED <<dirVars, fileVars, lock, todo, relied, history>>
  BY DEF Generate, Replace
<1>2. "generate" \in LockedPcs /\ "clear" \in LockedPcs /\ "clear" \in Pcs /\ "clear" \in ReplacePcs
  BY DEF LockedPcs, Pcs, ReplacePcs
<1>3. pc'[o] = "clear"
  BY <1>1, <1>2, Moves DEF Sound
<1>4. lock = {o} /\ Holder(o) /\ Disk /\ visible = [n \in Names |-> visible[n]]
  BY <1>1, <1>2 DEF Sound, Holder, TypeOK
<1>5. t \in [name : Canonical, state : {"initial", "later"}] /\ t.name = "ROOT" /\ t.state = "initial"
  BY SMT DEF Canonical
<1>6. target'[o] = t
  BY <1>1 DEF Sound, TypeOK
<1> HIDE DEF t
<1>7. \A n \in ControlFiles : visible'[n] = Missing /\ durable'[n] = Missing
  BY <1>1, <1>4 DEF Holder, Begins, Creating, fileVars
<1>8. Writes(o)'
  BY <1>3 DEF Writes
<1>9. Holder(o)'
  BY <1>1, <1>2, <1>3, <1>4, <1>5, <1>6, <1>7, <1>8, EnterReplaceRoot
<1>10. Disk'
  BY <1>1, <1>4, DiskSame DEF dirVars, fileVars, history
<1> QED
  BY <1>1, <1>2, <1>4, <1>5, <1>9, <1>10, LockedStep DEF fileVars

\* The ROOT that is found is whole, so it decodes.
LEMMA DecodeStep ==
    ASSUME Sound, NEW o \in Openers, Decode(o)
    PROVE  Sound'
<1>1. pc[o] = "decode"
  BY DEF Decode
<1>2. "decode" \in LockedPcs /\ "segments" \in LockedPcs /\ "segments" \in Pcs
      /\ "segments" \in KnownPcs
  BY DEF LockedPcs, Pcs, KnownPcs
<1>3. lock = {o} /\ Holder(o) /\ Disk /\ visible = [n \in Names |-> visible[n]]
  BY <1>1, <1>2 DEF Sound, Holder, TypeOK
<1>4. visible["ROOT"] # Missing /\ Reliable(o, "ROOT")
  BY <1>1, <1>3 DEF Holder, Knows
<1>5. visible["ROOT"] # Torn
  <2>1. Torn.state = "torn"
    BY DEF Torn, File
  <2> QED
    BY <1>3, <1>4, <2>1 DEF Disk, Whole, Canonical
<1>6. /\ rootId' = [rootId EXCEPT ![o] = visible["ROOT"].id] /\ Goto(o, "segments")
      /\ UNCHANGED <<dirVars, fileVars, lock, todo, target, relied, history>>
  BY <1>5 DEF Decode
<1>7. pc'[o] = "segments"
  BY <1>2, <1>6, Moves DEF Sound
<1>8. rootId'[o] = visible'["ROOT"].id
  <2>1. rootId = [p \in Openers |-> rootId[p]]
    BY DEF Sound, TypeOK
  <2>2. DOMAIN rootId = Openers
    BY <2>1
  <2> QED
    BY <1>6, <2>2 DEF fileVars
<1>9. Reliable(o, "ROOT")'
  BY <1>4, <1>6 DEF Reliable, fileVars
<1>10. Knows(o)'
  BY <1>4, <1>6, <1>7, <1>8, <1>9 DEF Knows, fileVars
<1>11. Holder(o)'
  BY <1>2, <1>3, <1>6, <1>7, <1>10, EnterKnown
<1>12. Disk'
  BY <1>3, <1>6, DiskSame DEF dirVars, fileVars, history
<1> QED
  BY <1>1, <1>2, <1>3, <1>6, <1>11, <1>12, LockedStep DEF fileVars

\* The segments directory is found or created.
LEMMA FindSegmentsStep ==
    ASSUME Sound, NEW o \in Openers, FindSegments(o)
    PROVE  Sound'
<1> DEFINE R == {n \in (IF Exists("segments") THEN {"segments"} ELSE {}) : visible[n] # durable[n]}
           f == File(0, "initial", TRUE)
<1>1. /\ pc[o] = "segments" /\ relied' = [relied EXCEPT ![o] = @ \cup R]
      /\ visible' = [visible EXCEPT !["segments"] = f]
      /\ UNCHANGED <<dirVars, durable, segments, lock, todo, rootId, target, history>>
  BY DEF FindSegments, Relies
<1>2. PICK l \in {"control", "segmentsSync"} :
        Goto(o, l) /\ (l = "control" => visible["segments"] # Missing)
  BY DEF FindSegments, Exists
<1>3. l \in LockedPcs /\ l \in Pcs /\ l \in KnownPcs \ {"segments"} /\ "segments" \in LockedPcs
      /\ "segments" \in KnownPcs
  BY DEF LockedPcs, Pcs, KnownPcs
<1>4. pc'[o] = l
  BY <1>2, <1>3, Moves DEF Sound
<1>5. lock = {o} /\ Holder(o) /\ Disk
  BY <1>1, <1>3 DEF Sound, Holder
<1>6. "segments" \in Names /\ R \in SUBSET Names
  BY DEF Names
<1>7. /\ visible' = [n \in Names |-> visible'[n]] /\ visible'["segments"] = f
      /\ \A n \in Names \ {"segments"} : visible'[n] = visible[n]
  BY <1>1, <1>6, EntryChanged DEF Sound
<1>8. \A n \in Canonical : visible'[n] = visible[n]
  BY <1>7 DEF Names, Canonical
<1>9. f # Missing /\ Whole(f)
  BY FileFields
<1>10. relied'[o] = relied[o] \cup R
  BY <1>1 DEF Sound, TypeOK
<1>11. visible["segments"] # Missing => Reliable(o, "segments")'
  \* An existing directory is the same entry as before.
  <2>1. visible["segments"] # Missing => ("segments" \in R \/ visible["segments"] = durable["segments"])
    BY DEF Exists
  <2>2. visible["segments"] # Missing => visible["segments"] = f
    BY <1>5 DEF Sound, Disk
  <2> QED
    BY <1>1, <1>7, <1>10, <2>1, <2>2 DEF Reliable
<1> HIDE DEF R, f
<1>12. Reliable(o, "ROOT")'
  BY <1>1, <1>3, <1>5, <1>8, <1>10 DEF Holder, Knows, Reliable, Canonical
<1>13. Knows(o)'
  BY <1>1, <1>2, <1>3, <1>4, <1>5, <1>7, <1>8, <1>9, <1>11, <1>12 DEF Knows, Holder, Canonical
<1>14. Holder(o)'
  BY <1>1, <1>3, <1>4, <1>5, <1>13, EnterKnown
<1>15. Disk'
  <2>1. \A n \in ControlFiles \cup {"ROOT"} : visible'[n] = visible[n] /\ durable'[n] = durable[n]
    BY <1>1, <1>8 DEF ControlFiles, Canonical
  <2>2. Settled("ROOT")' = Settled("ROOT") /\ \A n \in ControlFiles : Later(n)' = Later(n)
    BY <2>1 DEF Settled, Later
  <2>3. \A n \in Canonical \cup {"segments"} : Whole(visible'[n]) /\ Whole(durable'[n])
    BY <1>1, <1>5, <1>7, <1>8, <1>9 DEF Disk
  <2>4. "CHECKPOINT" \in ControlFiles /\ "LOG" \in ControlFiles
    BY DEF ControlFiles
  <2> QED
    BY <1>1, <1>5, <1>7, <1>9, <2>1, <2>2, <2>3, <2>4, ZenonT(30) DEF Disk, dirVars, history, f
<1> QED
  BY <1>1, <1>2, <1>3, <1>6, <1>7, <1>14, <1>15, LockedStep

\* What complete_empty_control_initialization finds is never corruption.
LEMMA PartialControl ==
    ASSUME Disk, NEW id, id = visible["ROOT"].id, ~BothControlFiles
    PROVE  ~segments /\ IsPartial("CHECKPOINT", id) /\ IsPartial("LOG", id) /\ identity = {}
<1>1. identity = {}
  BY DEF Disk, BothControlFiles, Exists, ControlFiles
<1>2. ASSUME NEW n \in ControlFiles PROVE IsPartial(n, id)
  <2>1. Whole(visible[n])
    BY DEF Disk, ControlFiles, Canonical
  <2>2. visible[n] # Missing => visible[n].id = id /\ visible[n].state # "later"
    BY <1>1 DEF Disk, Later
  <2> QED
    BY <2>1, <2>2 DEF Whole, IsPartial
<1> QED
  BY <1>1, <1>2 DEF Disk, ControlFiles

\* complete_empty_control_initialization finds both control files, or removes what is left of
\* one creation.
LEMMA CompleteControlStep ==
    ASSUME Sound, NEW o \in Openers, CompleteControl(o)
    PROVE  Sound'
<1>1. pc[o] = "control"
  BY DEF CompleteControl
<1>2. /\ {"control", "tidy", "controlSync"} \subseteq LockedPcs \cap Pcs
      /\ {"control", "tidy", "controlSync"} \subseteq KnownPcs \ {"segments", "segmentsSync"}
  BY DEF LockedPcs, Pcs, KnownPcs
<1>3. lock = {o} /\ Holder(o) /\ Disk /\ visible = [n \in Names |-> visible[n]]
  BY <1>1, <1>2 DEF Sound, Holder, TypeOK
<1>4. /\ rootId[o] = visible["ROOT"].id /\ visible["ROOT"] # Missing /\ Reliable(o, "ROOT")
      /\ visible["segments"] # Missing /\ Reliable(o, "segments")
  BY <1>1, <1>2, <1>3 DEF Holder, Knows
<1>5. CASE /\ BothControlFiles /\ Relies(o, {"CHECKPOINT", "LOG"}) /\ Goto(o, "tidy")
           /\ UNCHANGED <<dirVars, fileVars, lock, todo, rootId, target, history>>
  <2> DEFINE R == {n \in {"CHECKPOINT", "LOG"} : visible[n] # durable[n]}
  <2>1. pc'[o] = "tidy"
    BY <1>2, <1>5, Moves DEF Sound
  <2>2. relied' = [relied EXCEPT ![o] = @ \cup R] /\ R \in SUBSET Names
    BY <1>5 DEF Relies, Names, Canonical
  <2>3. relied'[o] = relied[o] \cup R
    BY <2>2 DEF Sound, TypeOK
  <2>4. \A n \in ControlFiles : visible'[n] # Missing /\ Reliable(o, n)'
    BY <1>5, <2>3 DEF Reliable, fileVars, BothControlFiles, Exists, ControlFiles
  <2>5. Reliable(o, "ROOT")' /\ Reliable(o, "segments")'
    BY <1>4, <1>5, <2>3 DEF Reliable, fileVars
  <2>6. Knows(o)'
    BY <1>4, <1>5, <2>1, <2>4, <2>5 DEF Knows, fileVars
  <2>7. Holder(o)'
    BY <1>2, <1>3, <1>5, <2>1, <2>6, EnterKnown
  <2>8. Disk'
    BY <1>3, <1>5, DiskSame DEF fileVars, dirVars, history
  <2> HIDE DEF R
  <2> QED
    BY <1>1, <1>2, <1>3, <1>5, <2>2, <2>7, <2>8, LockedStep DEF fileVars
<1>6. CASE /\ ~BothControlFiles /\ Goto(o, "controlSync")
           /\ visible' = [visible EXCEPT !["CHECKPOINT"] = Missing, !["LOG"] = Missing]
           /\ UNCHANGED <<dirVars, durable, segments, lock, todo, rootId, target, relied, history>>
  <2>1. pc'[o] = "controlSync"
    BY <1>2, <1>6, Moves DEF Sound
  <2>2. /\ visible' = [n \in Names |-> visible'[n]]
        /\ \A n \in ControlFiles : visible'[n] = Missing
        /\ \A n \in Names \ ControlFiles : visible'[n] = visible[n]
    <3>1. DOMAIN visible = Names /\ ControlFiles \subseteq Names
      BY <1>3 DEF ControlFiles, Names, Canonical
    <3> QED
      BY <1>6, <3>1 DEF ControlFiles
  <2>3. visible'["ROOT"] = visible["ROOT"] /\ visible'["segments"] = visible["segments"]
    BY <2>2 DEF Names, Canonical, ControlFiles
  <2>4. identity = {} /\ ~segments
    BY <1>3, <1>4, <1>6, PartialControl
  <2>5. Reliable(o, "ROOT")' /\ Reliable(o, "segments")' /\ Settled("ROOT")' = Settled("ROOT")
    BY <1>4, <1>6, <2>3 DEF Reliable, Settled
  <2>6. Knows(o)'
    BY <1>4, <1>6, <2>1, <2>3, <2>4, <2>5 DEF Knows, history
  <2>7. Holder(o)'
    BY <1>2, <1>3, <1>6, <2>1, <2>6, EnterKnown
  <2>8. \A n \in ControlFiles : ~Later(n)'
    <3>1. Missing.state # "later"
      BY DEF Missing, File
    <3>2. \A n \in ControlFiles : ~Later(n)
      BY <1>3, <2>4 DEF Disk
    <3> QED
      BY <1>6, <2>2, <3>1, <3>2 DEF Later
  <2>9. \A n \in Canonical \cup {"segments"} : Whole(visible'[n]) /\ Whole(durable'[n])
    <3>1. Whole(Missing)
      BY DEF Whole
    <3>2. \A n \in Canonical \cup {"segments"} : n \in ControlFiles \/ n \in {"ROOT", "segments"}
      BY DEF Canonical, ControlFiles
    <3>3. \A n \in Canonical \cup {"segments"} : visible'[n] \in {Missing, visible[n]}
      BY <2>2, <2>3, <3>2
    <3>4. \A n \in Canonical \cup {"segments"} : Whole(visible[n]) /\ Whole(durable[n])
      BY <1>3 DEF Disk
    <3> QED
      BY <1>6, <3>1, <3>3, <3>4
  <2>10. "LOG" \in ControlFiles
    BY DEF ControlFiles
  <2>11. Disk'
    BY <1>3, <1>6, <2>2, <2>3, <2>4, <2>5, <2>8, <2>9, <2>10, ZenonT(30) DEF Disk, history
  <2> QED
    BY <1>1, <1>2, <1>6, <2>2, <2>7, <2>11, LockedStep
<1>7. ~BothControlFiles => ~(segments \/ ~IsPartial("CHECKPOINT", rootId[o]) \/ ~IsPartial("LOG", rootId[o]))
  BY <1>3, <1>4, PartialControl
<1> QED
  BY <1>5, <1>6, <1>7 DEF CompleteControl

\* Going on to replace the checkpoint, in create_initial and in compact.
LEMMA ReplaceCheckpoint ==
    ASSUME Sound, NEW o \in Openers, NEW state \in {"initial", "later"},
           Replace(o, "CHECKPOINT", state, rootId[o]), pc[o] \in {"controlSync", "open"},
           UNCHANGED <<dirVars, visible, lock, todo, relied, history>>,
           durable' \in {durable, visible}, Disk', Settled("ROOT")',
           state = "initial" <=> identity = {}
    PROVE  Sound'
<1> DEFINE t == [name |-> "CHECKPOINT", state |-> state]
<1>1. /\ target' = [target EXCEPT ![o] = t] /\ rootId' = [rootId EXCEPT ![o] = rootId[o]]
      /\ Goto(o, "clear")
  BY DEF Replace
<1>2. /\ "clear" \in LockedPcs /\ "clear" \in Pcs /\ "clear" \in ReplacePcs /\ pc[o] \in LockedPcs
      /\ pc[o] \in KnownPcs \ {"segments", "segmentsSync"}
  BY DEF LockedPcs, Pcs, ReplacePcs, KnownPcs
<1>3. pc'[o] = "clear"
  BY <1>1, <1>2, Moves DEF Sound
<1>4. lock = {o} /\ Holder(o) /\ visible = [n \in Names |-> visible[n]]
  BY <1>2 DEF Sound, Holder, TypeOK
<1>5. t \in [name : Canonical, state : {"initial", "later"}] /\ t.name = "CHECKPOINT"
      /\ t.state = state
  BY SMT DEF Canonical
<1>6. target'[o] = t /\ rootId'[o] = rootId[o]
  <2>1. /\ rootId = [p \in Openers |-> rootId[p]]
        /\ target \in [Openers -> [name : Canonical, state : {"initial", "later"}]]
    BY DEF Sound, TypeOK
  <2>2. DOMAIN rootId = Openers
    BY <2>1
  <2> QED
    BY <1>1, <2>1, <2>2
<1> HIDE DEF t
<1>7. /\ rootId[o] = visible["ROOT"].id /\ visible["segments"] # Missing
      /\ Reliable(o, "segments")
  BY <1>2, <1>4 DEF Holder, Knows
<1>8. Reliable(o, "segments")'
  BY <1>7 DEF Reliable
<1>9. Replaces(o)'
  BY <1>5, <1>6, <1>7, <1>8 DEF Replaces, history
<1>10. Writes(o)'
  BY <1>3 DEF Writes
<1>11. Holder(o)'
  BY <1>2, <1>3, <1>4, <1>5, <1>6, <1>7, <1>9, <1>10, EnterReplaceControl
<1> QED
  BY <1>1, <1>2, <1>4, <1>5, <1>11, LockedStep

\* create_initial replaces CHECKPOINT, once the removals are durable.
LEMMA CreateInitialStep ==
    ASSUME Sound, NEW o \in Openers, CreateInitial(o)
    PROVE  Sound'
<1>1. /\ pc[o] = "controlSync" /\ SyncLevel(1) /\ Replace(o, "CHECKPOINT", "initial", rootId[o])
      /\ UNCHANGED <<visibleDirs, visible, segments, lock, todo, relied, history>>
  BY DEF CreateInitial
<1>2. durable' = visible /\ durableDirs' = durableDirs
  BY <1>1, LevelSynced DEF Sound
<1>3. identity = {} /\ visible["ROOT"] # Missing
  BY <1>1 DEF Sound, Holder, Knows, KnownPcs
<1>4. durableDirs \subseteq Levels
  BY SMT DEF Sound, TypeOK, Levels
<1>5. Disk'
  BY <1>1, <1>2, <1>4, DiskSynced DEF Sound, history
<1>6. Settled("ROOT")'
  BY <1>1, <1>2, <1>3 DEF Settled
<1> QED
  BY <1>1, <1>2, <1>3, <1>5, <1>6, ReplaceCheckpoint DEF dirVars

\* Compaction of an open root replaces CHECKPOINT first.
LEMMA CompactStep ==
    ASSUME Sound, NEW o \in Openers, CompactOpenRoot(o)
    PROVE  Sound'
<1>1. /\ pc[o] = "open" /\ segments' \in {segments, FALSE}
      /\ Replace(o, "CHECKPOINT", "later", rootId[o])
      /\ UNCHANGED <<dirVars, visible, durable, lock, todo, relied, history>>
  BY DEF CompactOpenRoot
<1>2. identity # {} /\ Disk
  BY <1>1 DEF Sound, Holder, Knows, KnownPcs
<1>3. Settled("ROOT") /\ Settled("ROOT")'
  BY <1>1, <1>2 DEF Disk, ControlFiles, Settled
<1>4. Disk'
  <2>1. \A n : Settled(n)' = Settled(n) /\ Later(n)' = Later(n)
    BY <1>1 DEF Settled, Later
  <2>2. segments' => segments
    BY <1>1
  <2> QED
    BY <1>1, <1>2, <2>1, <2>2 DEF Disk, dirVars, history
<1> QED
  BY <1>1, <1>2, <1>3, <1>4, ReplaceCheckpoint

\* A segment is published by an open root only.
LEMMA PublishSegmentStep ==
    ASSUME Sound, NEW o \in Openers, PublishSegment(o)
    PROVE  Sound'
<1>1. /\ pc[o] = "open" /\ segments' = TRUE
      /\ UNCHANGED <<dirVars, visible, durable, lock, openerVars, history>>
  BY DEF PublishSegment
<1>2. identity # {} /\ Disk
  BY <1>1 DEF Sound, Holder, Knows, KnownPcs
<1>3. \A n : Settled(n)' = Settled(n) /\ Later(n)' = Later(n)
  BY <1>1 DEF Settled, Later
<1>4. Disk'
  BY <1>1, <1>2, <1>3 DEF Disk, dirVars, history
<1>5. TypeOK'
  BY <1>1 DEF Sound, TypeOK, dirVars, openerVars
<1>6. durableDirs \subseteq Levels
  BY SMT DEF Sound, TypeOK, Levels
<1>7. \A p \in Openers : Path(p)' /\ Holder(p)'
  BY <1>1, <1>6, PathKept, HolderKept DEF Sound, dirVars, openerVars, history
<1> QED
  BY <1>1, <1>4, <1>5, <1>7 DEF Sound, openerVars

\* Removing the temporaries leaves every canonical file.
LEMMA RemoveTemporariesStep ==
    ASSUME Sound, NEW o \in Openers, RemoveTemporaries(o)
    PROVE  Sound'
<1>1. /\ pc[o] = "tidy" /\ visible' = WithoutTemporaries
      /\ UNCHANGED <<dirVars, durable, segments, lock, todo, rootId, target, relied, history>>
  BY DEF RemoveTemporaries
<1>2. PICK l \in {"recover", "tidySync"} : Goto(o, l)
  BY DEF RemoveTemporaries
<1>3. /\ l \in LockedPcs /\ l \in Pcs /\ pc[o] \in LockedPcs
      /\ l \in KnownPcs \ {"segments", "segmentsSync"} /\ pc[o] \in KnownPcs \ {"segments", "segmentsSync"}
      /\ pc[o] \in {"tidy", "tidySync", "recover"}
  BY <1>1, <1>2 DEF LockedPcs, Pcs, KnownPcs
<1>4. pc'[o] = l
  BY <1>2, <1>3, Moves DEF Sound
<1>5. /\ visible' = [n \in Names |-> visible'[n]]
      /\ \A n \in Canonical \cup {"segments"} : visible'[n] = visible[n]
  BY <1>1, TemporariesRemoved
<1>6. Disk'
  BY <1>1, <1>5, DiskSame DEF Sound, history, dirVars
<1>7. ControlFiles \subseteq Canonical /\ "ROOT" \in Canonical
  BY DEF ControlFiles, Canonical
<1>8. \A n \in Canonical \cup {"segments"} : Reliable(o, n)' = Reliable(o, n)
  BY <1>1, <1>5 DEF Reliable
<1>9. lock = {o} /\ Knows(o)
  BY <1>3 DEF Sound, Holder
<1>10. Knows(o)'
  BY <1>1, <1>2, <1>3, <1>4, <1>5, <1>7, <1>8, <1>9 DEF Knows
<1>11. Holder(o)'
  BY <1>1, <1>3, <1>4, <1>9, <1>10, EnterKnown
<1> QED
  BY <1>1, <1>2, <1>3, <1>5, <1>6, <1>11, LockedStep

\* recover accepts what it finds, and if nothing it relies on is unsynced, all is durable.
LEMMA RecoverStep ==
    ASSUME Sound, NEW o \in Openers, Recover(o), ~trusted'
    PROVE  Sound'
<1>1. pc[o] = "recover"
  BY DEF Recover
<1>2. /\ {"recover", "open"} \subseteq LockedPcs \cap Pcs
      /\ {"recover", "open"} \subseteq KnownPcs \ {"segments", "segmentsSync"}
  BY DEF LockedPcs, Pcs, KnownPcs
<1>3. lock = {o} /\ Knows(o) /\ Disk /\ Path(o)
  BY <1>1, <1>2 DEF Sound, Holder
<1>4. /\ rootId[o] = visible["ROOT"].id /\ visible["ROOT"] # Missing /\ Reliable(o, "ROOT")
      /\ visible["segments"] # Missing /\ Reliable(o, "segments")
      /\ \A n \in ControlFiles : visible[n] # Missing /\ Reliable(o, n)
  BY <1>1, <1>2, <1>3 DEF Knows
<1>5. ControlIsValid(rootId[o])
  <2>1. \A n \in ControlFiles : visible[n].id = rootId[o] /\ Whole(visible[n])
    BY <1>3, <1>4 DEF Disk, ControlFiles, Canonical
  <2>2. \A n \in ControlFiles : visible[n].state \in {"initial", "later"}
    BY <1>4, <2>1 DEF Whole
  <2>3. Torn.state = "torn"
    BY DEF Torn, File
  <2>4. \A n \in ControlFiles : visible[n] # Torn
    BY <2>2, <2>3
  <2> QED
    BY <1>3, <2>1, <2>4 DEF ControlIsValid, Disk, Later, ControlFiles
<1>6. /\ Goto(o, "open") /\ identity' = identity \cup {rootId[o]}
      /\ \A n \in relied[o] : ~IsUnsynced(n)
      /\ UNCHANGED <<dirVars, fileVars, lock, todo, rootId, target, relied>>
  BY <1>5 DEF Recover
<1>7. \A n \in ControlFiles \cup {"ROOT", "segments"} : durable[n] = visible[n]
  BY <1>4, <1>6 DEF Reliable, IsUnsynced, ControlFiles
<1>8. durableDirs = Levels
  BY <1>1, <1>2, <1>3, <1>6 DEF Path, IsUnsynced
<1>9. identity' = {visible["ROOT"].id}
  BY <1>3, <1>4, <1>6 DEF Disk
<1>10. pc'[o] = "open"
  BY <1>2, <1>6, Moves DEF Sound
<1>11. \A n : Reliable(o, n)' = Reliable(o, n) /\ Settled(n)' = Settled(n) /\ Later(n)' = Later(n)
  BY <1>6 DEF Reliable, Settled, Later, fileVars
<1>12. Knows(o)'
  BY <1>4, <1>6, <1>9, <1>10, <1>11 DEF Knows, fileVars
<1>13. Holder(o)'
  BY <1>2, <1>3, <1>6, <1>10, <1>12, EnterKnown
<1>14. Disk'
  BY <1>3, <1>4, <1>6, <1>7, <1>8, <1>9, <1>11 DEF Disk, fileVars, dirVars
<1>15. visible = [n \in Names |-> visible[n]]
  BY DEF Sound, TypeOK
<1> QED
  BY <1>1, <1>2, <1>6, <1>13, <1>14, <1>15, LockedStep DEF fileVars

-----------------------------------------------------------------------------
(* Power loss. *)

\* The levels that are left reach from some level up to the top.
LEMMA ReachableLevels ==
    ASSUME NEW S \in SUBSET Levels
    PROVE  \E e \in 1 .. (Depth + 1) : Reachable(S) = e .. Depth
<1>1. Depth \in Nat /\ S \in SUBSET Nat /\ \A l \in S : 1 <= l /\ l <= Depth
  BY RootAssumption, SMT DEF Levels
<1>2. CASE Reachable(S) = {}
  <2>1. Depth + 1 \in 1 .. (Depth + 1) /\ (Depth + 1) .. Depth = {}
    BY <1>1, SMT
  <2> QED
    BY <1>2, <2>1
<1>3. CASE Reachable(S) # {}
  <2>1. Reachable(S) \in SUBSET Nat
    BY <1>1 DEF Reachable
  <2>2. PICK e \in Reachable(S) : \A l \in Reachable(S) : e <= l
    <3>1. IsWellFoundedOn(OpToRel(<, Nat), Nat)
      BY NatLessThanWellFounded
    <3>2. PICK t \in Reachable(S) : \A u \in Reachable(S) : ~(<<u, t>> \in OpToRel(<, Nat))
      BY <1>3, <2>1, <3>1, WFMin
    <3>3. ASSUME NEW u \in Reachable(S) PROVE t <= u
      <4>1. u \in Nat /\ t \in Nat
        BY <2>1
      <4>2. u < t => <<u, t>> \in OpToRel(<, Nat)
        BY <4>1 DEF OpToRel
      <4>3. ~(u < t)
        BY <3>2, <4>2
      <4> QED
        BY <4>1, <4>3, SMT
    <3> QED
      BY <3>3
  <2>3. e \in S /\ e .. Depth \subseteq S
    BY DEF Reachable
  <2>4. e \in 1 .. (Depth + 1) /\ e \in Nat
    BY <1>1, <2>3, SMT
  <2>5. ASSUME NEW l \in e .. Depth PROVE l \in Reachable(S)
    <3>1. l \in S /\ l .. Depth \subseteq e .. Depth
      BY <1>1, <2>3, <2>4, SMT
    <3> QED
      BY <2>3, <3>1 DEF Reachable
  <2>6. ASSUME NEW l \in Reachable(S) PROVE l \in e .. Depth
    <3>1. e <= l /\ l \in S
      BY <2>2 DEF Reachable
    <3> QED
      BY <1>1, <2>4, <3>1, SMT
  <2>7. Reachable(S) = e .. Depth
    BY <2>5, <2>6
  <2> QED
    BY <2>4, <2>7
<1> QED
  BY <1>2, <1>3

\* A file whose data was synced is not torn: each entry is what it was, or what was durable.
LEMMA WholeRemains ==
    ASSUME Disk, NEW kept, NEW torn, visible' = Remains(kept, torn),
           NEW n \in Canonical \cup {"segments"}
    PROVE  visible'[n] \in {visible[n], durable[n]}
<1>1. n \in Names
  BY DEF Names
<1>2. ASSUME NEW f, Whole(f) PROVE f.synced
  <2>1. Missing.synced
    BY SMT DEF Missing, File
  <2>2. ASSUME NEW id, NEW state PROVE File(id, state, TRUE).synced
    BY SMT DEF File
  <2>3. CASE f = File(f.id, f.state, TRUE)
    BY <2>2, <2>3
  <2> QED
    BY <1>2, <2>1, <2>3 DEF Whole
<1>3. visible[n].synced /\ durable[n].synced
  BY <1>2 DEF Disk
<1>4. visible'[n] = LET file == IF n \in kept THEN visible[n] ELSE durable[n]
                    IN  IF n \in torn /\ ~file.synced THEN Torn ELSE file
  BY <1>1 DEF Remains
<1>5. CASE n \in kept
  BY <1>3, <1>4, <1>5
<1>6. CASE n \notin kept
  BY <1>3, <1>4, <1>6
<1> QED
  BY <1>5, <1>6

\* A disk of which every entry has its visible or its durable value is sound.
LEMMA DiskRemains ==
    ASSUME Disk, \A n \in Canonical \cup {"segments"} : visible'[n] \in {visible[n], durable[n]},
           durable' = visible', segments' => segments, identity' = identity,
           identity # {} => durableDirs' = Levels
    PROVE  Disk'
<1>1. /\ "ROOT" \in Canonical /\ "LOG" \in Canonical /\ "CHECKPOINT" \in Canonical
      /\ ControlFiles \subseteq Canonical /\ "CHECKPOINT" \in ControlFiles
      /\ "LOG" \in ControlFiles
  BY DEF Canonical, ControlFiles
<1>2. Settled("ROOT") => Settled("ROOT")' /\ visible'["ROOT"] = visible["ROOT"]
  BY <1>1 DEF Settled
<1>3. \A n \in ControlFiles : visible'[n] # Missing =>
         Settled("ROOT") /\ visible'[n].id = visible["ROOT"].id
  BY <1>1 DEF Disk
<1>4. \A n \in Canonical : Later(n)' => Later(n)
  BY DEF Later
<1>5. \A n \in Canonical \cup {"segments"} : Whole(visible'[n]) /\ Whole(durable'[n])
  BY DEF Disk
<1>6. visible'["segments"] \in {Missing, File(0, "initial", TRUE)}
  BY DEF Disk
<1>7. \A n \in ControlFiles :
         /\ visible'[n] # Missing \/ durable'[n] # Missing => Settled("ROOT")'
         /\ visible'[n] # Missing => visible'[n].id = visible'["ROOT"].id
         /\ durable'[n] # Missing => durable'[n].id = visible'["ROOT"].id
         /\ Later(n)' => identity' # {}
  BY <1>1, <1>2, <1>3, <1>4 DEF Disk
<1>8. Later("LOG")' => visible'["CHECKPOINT"].state = "later" /\ durable'["CHECKPOINT"].state = "later"
  BY <1>1, <1>4 DEF Disk
<1>9. identity' # {} => identity' = {visible'["ROOT"].id}
  <2>1. identity # {} => Settled("ROOT")
    BY <1>1 DEF Disk
  <2> QED
    BY <1>2, <2>1 DEF Disk
<1>10. identity' # {} =>
         \A n \in ControlFiles \cup {"segments"} : visible'[n] # Missing /\ durable'[n] # Missing
  BY <1>1 DEF Disk
<1>11. segments' => identity' # {}
  BY DEF Disk
<1> QED
  BY <1>5, <1>6, <1>7, <1>8, <1>9, <1>10, <1>11 DEF Disk

\* A power loss leaves a sound disk: what an open had reported was durable.
LEMMA PowerLossStep ==
    ASSUME Sound, PowerLoss
    PROVE  Sound'
<1>1. PICK kept \in SUBSET (visibleDirs \ durableDirs) :
          visibleDirs' = Reachable(durableDirs \cup kept)
  BY DEF PowerLoss
<1>2. durableDirs' = visibleDirs' /\ durable' = visible' /\ Forget(Openers) /\ identity' = identity
  BY DEF PowerLoss, history
<1>3. durableDirs \cup kept \in SUBSET Levels /\ durableDirs \subseteq Levels
  BY SMT DEF Sound, TypeOK, Levels
<1>4. \E e \in 1 .. (Depth + 1) : visibleDirs' = e .. Depth
  BY <1>1, <1>3, ReachableLevels
<1>5. durableDirs = Levels => durableDirs' = Levels /\ 1 \in visibleDirs'
  <2>1. ASSUME durableDirs = Levels PROVE Reachable(durableDirs \cup kept) = Levels /\ 1 \in Levels
    <3>1. durableDirs \cup kept = Levels
      BY <1>3, <2>1
    <3>2. \A l \in Levels : l .. Depth \subseteq Levels
      BY RootAssumption, SMT DEF Levels
    <3>3. 1 \in Levels
      BY RootAssumption, SMT DEF Levels
    <3> QED
      BY <3>1, <3>2, <3>3 DEF Reachable
  <2> QED
    BY <1>1, <1>2, <2>1
<1>6. Disk
  BY DEF Sound
<1>7. visible' = [n \in Names |-> visible'[n]] /\ Disk'
  <2>1. CASE 1 \in visibleDirs'
    <3>1. PICK k, t : visible' = Remains(k, t)
      BY <2>1 DEF PowerLoss
    <3>2. segments' => segments
      BY <2>1 DEF PowerLoss
    <3>3. \A n \in Canonical \cup {"segments"} : visible'[n] \in {visible[n], durable[n]}
      BY <1>6, <3>1, WholeRemains
    <3>4. identity # {} => durableDirs' = Levels
      BY <1>5, <1>6 DEF Disk
    <3>5. visible' = [n \in Names |-> visible'[n]]
      BY <3>1 DEF Remains
    <3> QED
      BY <1>2, <1>6, <3>2, <3>3, <3>4, <3>5, DiskRemains
  <2>2. CASE 1 \notin visibleDirs'
    <3>1. visible' = NoFiles /\ segments' = FALSE
      BY <2>2 DEF PowerLoss
    <3>2. identity' = {}
      BY <1>2, <1>5, <1>6, <2>2 DEF Disk
    <3>3. \A n \in Canonical \cup {"segments"} : visible'[n] = Missing /\ durable'[n] = Missing
      BY <1>2, <3>1 DEF NoFiles, Names
    <3>4. Missing.state # "later" /\ Whole(Missing)
      BY DEF Missing, File, Whole
    <3>5. /\ "LOG" \in Canonical /\ "CHECKPOINT" \in Canonical /\ ControlFiles \subseteq Canonical
      BY DEF Canonical, ControlFiles
    <3>6. \A n \in Canonical : ~Later(n)'
      BY <3>3, <3>4 DEF Later
    <3>7. visible' = [n \in Names |-> visible'[n]]
      BY <3>1 DEF NoFiles
    <3> QED
      BY <3>1, <3>2, <3>3, <3>4, <3>5, <3>6, <3>7 DEF Disk
  <2> QED
    BY <2>1, <2>2
<1>8. /\ pc' \in [Openers -> Pcs] /\ todo' \in [Openers -> Seq(Nat)]
      /\ rootId' = [o \in Openers |-> rootId'[o]]
      /\ target' \in [Openers -> [name : Canonical, state : {"initial", "later"}]]
      /\ relied' \in [Openers -> SUBSET (Names \cup {"path"})]
      /\ \A o \in Openers : pc'[o] = "idle"
  BY <1>2, Forgotten DEF Sound
<1>9. TypeOK'
  BY <1>2, <1>4, <1>7, <1>8 DEF TypeOK
<1>10. ASSUME NEW o \in Openers PROVE pc'[o] # "corrupt" /\ Path(o)' /\ Holder(o)'
  <2>1. pc'[o] = "idle" /\ pc'[o] \notin LockedPcs
    BY <1>8 DEF LockedPcs, KnownPcs, ReplacePcs
  <2> QED
    BY <2>1, NoHolder DEF Path
<1> QED
  BY <1>7, <1>9, <1>10 DEF Sound

-----------------------------------------------------------------------------
(* The specification. *)

\* A path of which some levels exist, and no root at its end.
LEMMA InitSound == Init => Sound
<1> SUFFICES ASSUME Init PROVE Sound
  OBVIOUS
<1>1. \A n \in Canonical \cup {"segments"} : visible[n] = Missing /\ durable[n] = Missing
  BY DEF Init, NoFiles, Names
<1>2. Missing.state # "later" /\ Whole(Missing)
  BY DEF Missing, File, Whole
<1>3. "LOG" \in Canonical /\ "CHECKPOINT" \in Canonical /\ ControlFiles \subseteq Canonical
  BY DEF Canonical, ControlFiles
<1>4. \A n \in Canonical : ~Later(n)
  BY <1>1, <1>2 DEF Later
<1>5. Disk
  BY <1>1, <1>2, <1>3, <1>4 DEF Init, Disk
<1>6. TypeOK
  <2>1. visible = [n \in Names |-> visible[n]] /\ durable = [n \in Names |-> durable[n]]
    BY DEF Init, NoFiles
  <2>2. pc \in [Openers -> Pcs] /\ rootId = [o \in Openers |-> rootId[o]]
        /\ relied \in [Openers -> SUBSET (Names \cup {"path"})]
    BY DEF Init, Pcs
  <2>3. << >> \in Seq(Nat) /\ [name |-> "ROOT", state |-> "initial"] \in
           [name : Canonical, state : {"initial", "later"}]
    BY SMT DEF Canonical
  <2>4. todo \in [Openers -> Seq(Nat)]
        /\ target \in [Openers -> [name : Canonical, state : {"initial", "later"}]]
    BY <2>3 DEF Init
  <2> QED
    BY <2>1, <2>2, <2>4 DEF Init, TypeOK
<1>7. ASSUME NEW o \in Openers PROVE pc[o] # "corrupt" /\ Path(o) /\ Holder(o)
  <2>1. pc[o] = "idle" /\ pc[o] \notin LockedPcs
    BY DEF Init, LockedPcs, KnownPcs, ReplacePcs
  <2>2. ~Creating(o) /\ ~Replacing(o)
    BY <2>1 DEF Creating, Replacing, ReplacePcs
  <2> QED
    BY <2>1, <2>2 DEF Path, Holder, Begins, Knows, Replaces, Writes, KnownPcs, ReplacePcs
<1> QED
  BY <1>5, <1>6, <1>7 DEF Sound

\* Once an open has returned on something not durable, that stays said.
LEMMA TrustedStays == trusted /\ [Next]_vars => trusted'
<1> SUFFICES ASSUME trusted, [Next]_vars, trusted' # trusted PROVE trusted'
  OBVIOUS
<1>1. ASSUME NEW o \in Openers PROVE ~UNCHANGED history
  BY DEF history
<1>2. ASSUME NEW o \in Openers, Recover(o) PROVE trusted'
  BY <1>1, <1>2 DEF Recover, Refuse
<1>3. ASSUME NEW o \in Openers,
             FindRootDirectory(o) \/ CreateDirectory(o) \/ SyncCreatedDirectory(o)
      PROVE FALSE
  BY <1>1, <1>3 DEF FindRootDirectory, CreateDirectory, SyncCreatedDirectory
<1>4. ASSUME NEW o \in Openers, AcquireLock(o) \/ Identify(o) \/ SyncForgotten(o) \/ Generate(o)
      PROVE FALSE
  BY <1>1, <1>4 DEF AcquireLock, Identify, SyncForgotten, Generate, SyncRoot, Refuse
<1>5. ASSUME NEW o \in Openers,
             RemoveStale(o) \/ SyncStale(o) \/ WriteTemporary(o) \/ SyncTemporary(o) \/ Rename(o)
      PROVE FALSE
  BY <1>1, <1>5 DEF RemoveStale, SyncStale, WriteTemporary, SyncTemporary, Rename, SyncRoot,
     WriteEntry
<1>6. ASSUME NEW o \in Openers, Publish(o) \/ Decode(o) \/ FindSegments(o) \/ SyncSegments(o)
      PROVE FALSE
  BY <1>1, <1>6 DEF Publish, Decode, FindSegments, SyncSegments, SyncRoot, Refuse
<1>7. ASSUME NEW o \in Openers,
             CompleteControl(o) \/ CreateInitial(o) \/ RemoveTemporaries(o) \/ SyncRemoved(o)
      PROVE FALSE
  BY <1>1, <1>7 DEF CompleteControl, CreateInitial, RemoveTemporaries, SyncRemoved, SyncRoot, Refuse
<1>8. ASSUME NEW o \in Openers, PublishSegment(o) \/ CompactOpenRoot(o) \/ Close(o)
      PROVE FALSE
  BY <1>1, <1>8 DEF PublishSegment, CompactOpenRoot, Close
<1>9. CASE PowerLoss
  BY <1>9 DEF PowerLoss, history
<1>10. CASE UNCHANGED vars
  BY <1>10 DEF vars
<1> QED
  BY <1>2, <1>3, <1>4, <1>5, <1>6, <1>7, <1>8, <1>9, <1>10 DEF Next, Open

\* Every step keeps the invariant.
LEMMA RootStep == RootInv /\ [Next]_vars => RootInv'
<1> SUFFICES ASSUME Sound, [Next]_vars, ~trusted' PROVE Sound'
  BY TrustedStays DEF RootInv
<1>1. ASSUME NEW o \in Openers, Open(o) PROVE Sound'
  BY <1>1, FindStep, CreateDirectoryStep, SyncCreatedStep, AcquireLockStep, IdentifyStep,
     GenerateStep, SyncRootStep, ReplaceStep, RenameStep, PublishStep, DecodeStep,
     FindSegmentsStep, CompleteControlStep, CreateInitialStep, RemoveTemporariesStep, RecoverStep
     DEF Open
<1>2. ASSUME NEW o \in Openers, PublishSegment(o) \/ CompactOpenRoot(o) \/ Close(o) PROVE Sound'
  BY <1>2, PublishSegmentStep, CompactStep, CloseStep
<1>3. CASE PowerLoss
  BY <1>3, PowerLossStep
<1>4. CASE UNCHANGED vars
  <2>1. \A o : Temp(o)' = Temp(o) /\ Creating(o)' = Creating(o) /\ Replacing(o)' = Replacing(o)
    BY <1>4 DEF vars, Temp, Creating, Replacing
  <2>2. \A n : Settled(n)' = Settled(n) /\ Later(n)' = Later(n)
    BY <1>4 DEF vars, Settled, Later
  <2>3. TypeOK' /\ Disk'
    BY <1>4, <2>2 DEF vars, Sound, TypeOK, Disk
  <2>4. durableDirs \subseteq Levels
    BY SMT DEF Sound, TypeOK, Levels
  <2>5. \A p \in Openers : Path(p)' /\ Holder(p)'
    BY <1>4, <2>4, PathKept, HolderKept DEF vars, Sound
  <2> QED
    BY <1>4, <2>3, <2>5 DEF vars, Sound
<1> QED
  BY <1>1, <1>2, <1>3, <1>4 DEF Next

\* Whatever openers compete and whatever crashes interrupt them, the directory chain, the
\* entries of the root and the knowledge of the holder of the lock stay as Sound says, unless
\* an open has returned on an entry that it found and nobody had synced.
THEOREM RootInvariant == Spec => []RootInv
<1>1. Init => RootInv
  BY InitSound DEF RootInv
<1> QED
  BY <1>1, RootStep, PTL DEF Spec

\* Once Storage::open has returned, the path of the root, ROOT, the segments directory and
\* both control files are durable: what ensure_root_directory and atomic_replace sync is enough.
THEOREM OpenIsDurable == Spec => []OpenReportsDurableRoot
<1>1. RootInv => OpenReportsDurableRoot
  <2> SUFFICES ASSUME Sound, NEW o \in Openers, pc[o] = "open"
               PROVE  /\ durableDirs = Levels
                      /\ \A n \in {"ROOT", "CHECKPOINT", "LOG"} : durable[n].id = rootId[o]
                      /\ durable["segments"] # Missing
    BY DEF RootInv, OpenReportsDurableRoot
  <2>1. Disk /\ identity # {} /\ rootId[o] = visible["ROOT"].id
    BY DEF Sound, Holder, Knows, KnownPcs
  <2>2. durableDirs = Levels /\ durable["segments"] # Missing
        /\ \A n \in ControlFiles : durable[n] # Missing
    BY <2>1 DEF Disk
  <2>3. \A n \in ControlFiles : durable[n].id = rootId[o] /\ Settled("ROOT")
    BY <2>1, <2>2 DEF Disk
  <2>4. durable["ROOT"].id = rootId[o]
    BY <2>1, <2>3 DEF Settled, ControlFiles
  <2> QED
    BY <2>2, <2>3, <2>4 DEF ControlFiles
<1> QED
  BY <1>1, RootInvariant, PTL

\* initialize_or_validate_root never replaces a ROOT that an open has reported, for any
\* number of openers and of crashes.
THEOREM RootKeepsIdentity == Spec => []IdentityIsStable
<1>1. RootInv => IdentityIsStable
  <2> SUFFICES ASSUME Sound PROVE Cardinality(identity) <= 1
    BY DEF RootInv, IdentityIsStable
  <2>1. CASE identity = {}
    <3>1. Cardinality(identity) = 0
      BY <2>1, FS_EmptySet
    <3> QED
      BY <3>1, SMT
  <2>2. CASE identity # {}
    <3>1. identity = {visible["ROOT"].id}
      BY <2>2 DEF Sound, Disk
    <3>2. Cardinality(identity) = 1
      BY <3>1, FS_Singleton
    <3> QED
      BY <3>2, SMT
  <2> QED
    BY <2>1, <2>2
<1> QED
  BY <1>1, RootInvariant, PTL

\* No state an interrupted creation leaves is taken for corruption by
\* initialize_or_validate_root, complete_empty_control_initialization or recover.
THEOREM CreationIsCompleted == Spec => []CreationCompletes
<1>1. RootInv => CreationCompletes
  BY DEF RootInv, Sound, CreationCompletes
<1> QED
  BY <1>1, RootInvariant, PTL

=============================================================================
