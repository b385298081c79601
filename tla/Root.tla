-------------------------------- MODULE Root --------------------------------
(***************************************************************************)
(* Creation and opening of a storage root: the steps of Storage::open up   *)
(* to the recovery of the control files (Recovery.tla continues there),    *)
(* taken by several openers, with crashes between any two of them.         *)
(*                                                                         *)
(* The root is a directory at the end of a chain of Depth directories that *)
(* may all be missing (level 1 is the root, level Depth + 1 exists and is  *)
(* durable).  A directory entry has a visible value, which every process   *)
(* sees, and a durable one; syncing a directory makes its entries durable. *)
(* A process crash keeps what is visible.  A power loss keeps, entry by    *)
(* entry, the visible or the durable value, may tear a file whose data was *)
(* not synced, and takes with a directory everything below it.             *)
(*                                                                         *)
(* An I/O error that makes open return is the same as the crash of its     *)
(* opener: the lock is released and the files stay as they are.            *)
(***************************************************************************)
EXTENDS Integers, Sequences, FiniteSets, FiniteSetsExt

CONSTANTS
    Openers,    \* callers of Storage::open, in one or several processes
    Depth,      \* directories of the root's path that may have to be created
    MaxRoots    \* bound: identities alive at a time (RootId::random)

ASSUME RootAssumption ==
    /\ Depth \in Nat \ {0}
    /\ MaxRoots \in Nat \ {0}

VARIABLES
    visibleDirs, durableDirs,   \* levels of the chain that exist
    visible, durable,           \* entries of the root directory
    segments,       \* the segments directory holds a (durable) segment file
    lock,           \* the openers that hold the lock file
    pc,             \* what each opener does next
    todo,           \* directories it still has to create, then to sync
    rootId,         \* the identity it read from, or is about to write to, ROOT
    target,         \* the file it is replacing, and the state it writes
    relied,         \* entries it found existing although they were not durable
    identity,       \* history: identities reported by a successful open
    trusted         \* history: an open returned on an entry still not durable

dirVars == <<visibleDirs, durableDirs>>
fileVars == <<visible, durable, segments>>
openerVars == <<pc, todo, rootId, target, relied>>
history == <<identity, trusted>>
vars == <<visibleDirs, durableDirs, visible, durable, segments, lock, pc,
          todo, rootId, target, relied, identity, trusted>>

Levels == 1..Depth

\* The files that open reads, each written through a temporary of its own.
Canonical == {"ROOT", "CHECKPOINT", "LOG"}

Temporary == [ROOT |-> "ROOT.tmp", CHECKPOINT |-> "CHECKPOINT.tmp", LOG |-> "LOG.tmp"]

Temporaries == {Temporary[n] : n \in Canonical}

Names == Canonical \cup Temporaries \cup {"segments"}

(***************************************************************************)
(* What an entry leads to.  "initial" is the state create_initial writes,  *)
(* "later" one written by compaction; ROOT and segments are "initial".     *)
(***************************************************************************)
File(id, state, synced) == [id |-> id, state |-> state, synced |-> synced]

Missing == File(0, "missing", TRUE)

Torn == File(0, "torn", TRUE)

Files == {Missing, Torn} \cup
    [id : 0..MaxRoots, state : {"initial", "later"}, synced : BOOLEAN]

NoFiles == [n \in Names |-> Missing]

Exists(n) == visible[n] # Missing

Init ==
    /\ \E existing \in 1..(Depth + 1) : visibleDirs = existing..Depth
    /\ durableDirs = visibleDirs
    /\ visible = NoFiles
    /\ durable = NoFiles
    /\ segments = FALSE
    /\ lock = {}
    /\ pc = [o \in Openers |-> "idle"]
    /\ todo = [o \in Openers |-> <<>>]
    /\ rootId = [o \in Openers |-> 0]
    /\ target = [o \in Openers |-> [name |-> "ROOT", state |-> "initial"]]
    /\ relied = [o \in Openers |-> {}]
    /\ identity = {}
    /\ trusted = FALSE

-----------------------------------------------------------------------------
(***************************************************************************)
(* ensure_root_directory                                                   *)
(***************************************************************************)
Goto(o, label) == pc' = [pc EXCEPT ![o] = label]

\* root.exists(), and the walk up to the nearest existing ancestor: the levels to sync
\* are the missing ones, innermost first, and that ancestor.
FindRootDirectory(o) ==
    LET missing == Cardinality(Levels \ visibleDirs)
    IN  /\ pc[o] = "idle"
        /\ relied' = [relied EXCEPT ![o] =
                         IF visibleDirs = durableDirs THEN {} ELSE {"path"}]
        /\ todo' = [todo EXCEPT ![o] = [i \in 1..(missing + 1) |-> i]]
        /\ Goto(o, IF 1 \in visibleDirs THEN "lock" ELSE "mkdir")
        /\ UNCHANGED <<dirVars, fileVars, lock, rootId, target, history>>

\* create_dir_all: outermost first; a directory that exists by now is no error.
CreateDirectory(o) ==
    LET missing == (1..(Len(todo[o]) - 1)) \ visibleDirs
    IN  /\ pc[o] = "mkdir"
        /\ visibleDirs' = visibleDirs \cup (IF missing = {} THEN {} ELSE {Max(missing)})
        /\ Goto(o, IF Cardinality(missing) <= 1 THEN "syncDirs" ELSE "mkdir")
        /\ UNCHANGED <<durableDirs, fileVars, lock, todo, rootId, target, relied, history>>

\* sync_directory: the entries of the directory become durable.
SyncLevel(level) ==
    /\ durableDirs' = durableDirs \cup ({level - 1} \cap visibleDirs)
    /\ durable' = IF level = 1 THEN visible ELSE durable

\* Mutant: the nearest existing ancestor is not synced.
SyncAllButAncestor(o) ==
    /\ pc[o] = "syncDirs"
    /\ SyncLevel(Head(todo[o]))
    /\ todo' = [todo EXCEPT ![o] = Tail(@)]
    /\ Goto(o, IF Len(todo[o]) = 2 THEN "lock" ELSE "syncDirs")
    /\ UNCHANGED <<visibleDirs, visible, segments, lock, rootId, target, relied, history>>

SyncCreatedDirectory(o) ==
    /\ pc[o] = "syncDirs"
    /\ SyncLevel(Head(todo[o]))
    /\ todo' = [todo EXCEPT ![o] = Tail(@)]
    /\ Goto(o, IF Len(todo[o]) = 1 THEN "lock" ELSE "syncDirs")
    /\ UNCHANGED <<visibleDirs, visible, segments, lock, rootId, target, relied, history>>

(***************************************************************************)
(* acquire_lock: the lock file is created when missing and never removed;  *)
(* a held lock is RootInUse.                                               *)
(***************************************************************************)
AcquireLock(o) ==
    /\ pc[o] = "lock"
    /\ \/ /\ lock = {}
          /\ lock' = {o}
          /\ Goto(o, "identify")
       \/ /\ lock # {}
          /\ Goto(o, "idle")
          /\ UNCHANGED lock
    /\ UNCHANGED <<dirVars, fileVars, todo, rootId, target, relied, history>>

-----------------------------------------------------------------------------
(***************************************************************************)
(* Steps under the lock.                                                   *)
(***************************************************************************)

\* Names whose existence the opener relies on without knowing that it is durable.
Relies(o, names) ==
    relied' = [relied EXCEPT ![o] = @ \cup {n \in names : visible[n] # durable[n]}]

SyncRoot(o, from, to) ==
    /\ pc[o] = from
    /\ SyncLevel(1)
    /\ Goto(o, to)
    /\ UNCHANGED <<visibleDirs, visible, segments, lock, todo, rootId, target, relied, history>>

\* The opener goes on to replace a file; a file is written for the identity it knows.
Replace(o, name, state, id) ==
    /\ target' = [target EXCEPT ![o] = [name |-> name, state |-> state]]
    /\ rootId' = [rootId EXCEPT ![o] = id]
    /\ Goto(o, "clear")

\* Error::corruption: the value under construction is dropped, and the lock with it.
Refuse(o) ==
    /\ Goto(o, "corrupt")
    /\ lock' = lock \ {o}
    /\ UNCHANGED <<dirVars, fileVars, todo, rootId, target, relied, history>>

NewIdentity == Min((1..(MaxRoots + 1)) \ (identity \cup {visible[n].id : n \in Names}
                                                   \cup {durable[n].id : n \in Names}))

\* initialize_or_validate_root, up to the removal of temporaries.
RootIsUnexplained ==
    \/ segments
    \/ Exists("CHECKPOINT")
    \/ Exists("LOG")

WithoutTemporaries == [n \in Names |-> IF n \in Temporaries THEN Missing ELSE visible[n]]

Identify(o) ==
    /\ pc[o] = "identify"
    /\ \/ /\ Exists("ROOT")
          /\ Relies(o, {"ROOT"})
          /\ Goto(o, "decode")
          /\ UNCHANGED <<dirVars, fileVars, lock, todo, rootId, target, history>>
       \/ /\ ~Exists("ROOT")
          /\ RootIsUnexplained
          /\ Refuse(o)
       \/ /\ ~Exists("ROOT")
          /\ ~RootIsUnexplained
          /\ visible' = WithoutTemporaries
          /\ Goto(o, IF visible' = visible THEN "generate" ELSE "forget")
          /\ UNCHANGED <<dirVars, durable, segments, lock, todo, rootId, target, relied,
                         history>>

SyncForgotten(o) == SyncRoot(o, "forget", "generate")

Generate(o) ==
    /\ pc[o] = "generate"
    /\ NewIdentity <= MaxRoots
    /\ Replace(o, "ROOT", "initial", NewIdentity)
    /\ UNCHANGED <<dirVars, fileVars, lock, todo, relied, history>>

-----------------------------------------------------------------------------
(***************************************************************************)
(* atomic_replace, for ROOT, the checkpoint and the manifest log.          *)
(***************************************************************************)
Temp(o) == Temporary[target[o].name]

WriteEntry(o, from, entry, file, to) ==
    /\ pc[o] = from
    /\ visible' = [visible EXCEPT ![entry] = file]
    /\ Goto(o, to)
    /\ UNCHANGED <<dirVars, durable, segments, lock, todo, rootId, target, relied, history>>

RemoveStale(o) ==
    WriteEntry(o, "clear", Temp(o), Missing, IF Exists(Temp(o)) THEN "clearSync" ELSE "write")

SyncStale(o) == SyncRoot(o, "clearSync", "write")

WriteTemporary(o) ==
    WriteEntry(o, "write", Temp(o), File(rootId[o], target[o].state, FALSE), "syncData")

SyncTemporary(o) ==
    WriteEntry(o, "syncData", Temp(o), [visible[Temp(o)] EXCEPT !.synced = TRUE], "rename")

Rename(o) ==
    /\ pc[o] = "rename"
    /\ visible' = [visible EXCEPT ![target[o].name] = visible[Temp(o)], ![Temp(o)] = Missing]
    /\ Goto(o, "publish")
    /\ UNCHANGED <<dirVars, durable, segments, lock, todo, rootId, target, relied, history>>

\* Mutant: no directory sync after the rename.
PublishUnsynced(o) ==
    /\ pc[o] = "publish"
    /\ \/ /\ target[o].name = "ROOT"
          /\ Goto(o, "decode")
          /\ UNCHANGED <<target, rootId>>
       \/ /\ target[o].name = "CHECKPOINT"
          /\ Replace(o, "LOG", target[o].state, rootId[o])
       \/ /\ target[o].name = "LOG"
          /\ Goto(o, IF target[o].state = "initial" THEN "tidy" ELSE "open")
          /\ UNCHANGED <<target, rootId>>
    /\ UNCHANGED <<dirVars, visible, durable, segments, lock, todo, relied, history>>

\* The directory sync of atomic_replace, and what its caller does next: open decodes
\* ROOT; create_initial and compact replace the log after the checkpoint.
Publish(o) ==
    /\ pc[o] = "publish"
    /\ SyncLevel(1)
    /\ \/ /\ target[o].name = "ROOT"
          /\ Goto(o, "decode")
          /\ UNCHANGED <<target, rootId>>
       \/ /\ target[o].name = "CHECKPOINT"
          /\ Replace(o, "LOG", target[o].state, rootId[o])
       \/ /\ target[o].name = "LOG"
          /\ Goto(o, IF target[o].state = "initial" THEN "tidy" ELSE "open")
          /\ UNCHANGED <<target, rootId>>
    /\ UNCHANGED <<visibleDirs, visible, segments, lock, todo, relied, history>>

-----------------------------------------------------------------------------
(***************************************************************************)
(* The rest of Storage::open.                                              *)
(***************************************************************************)
Decode(o) ==
    /\ pc[o] = "decode"
    /\ \/ /\ visible["ROOT"] = Torn
          /\ Refuse(o)
       \/ /\ visible["ROOT"] # Torn
          /\ rootId' = [rootId EXCEPT ![o] = visible["ROOT"].id]
          /\ Goto(o, "segments")
          /\ UNCHANGED <<dirVars, fileVars, lock, todo, target, relied, history>>

\* ensure_segments_directory
FindSegments(o) ==
    /\ pc[o] = "segments"
    /\ Relies(o, IF Exists("segments") THEN {"segments"} ELSE {})
    /\ visible' = [visible EXCEPT !["segments"] = File(0, "initial", TRUE)]
    /\ Goto(o, IF Exists("segments") THEN "control" ELSE "segmentsSync")
    /\ UNCHANGED <<dirVars, durable, segments, lock, todo, rootId, target, history>>

SyncSegments(o) == SyncRoot(o, "segmentsSync", "control")

\* Mutant: a control file without its peer is never completed.
IsAbsent(n, id) == visible[n] = Missing

\* The control file is what a partial initialization of this root leaves.
IsPartial(n, id) == visible[n] \in {Missing, File(id, "initial", TRUE), File(id, "initial", FALSE)}

BothControlFiles == Exists("CHECKPOINT") /\ Exists("LOG")

\* complete_empty_control_initialization
CompleteControl(o) ==
    /\ pc[o] = "control"
    /\ \/ /\ BothControlFiles
          /\ Relies(o, {"CHECKPOINT", "LOG"})
          /\ Goto(o, "tidy")
          /\ UNCHANGED <<dirVars, fileVars, lock, todo, rootId, target, history>>
       \/ /\ ~BothControlFiles
          /\ segments \/ ~IsPartial("CHECKPOINT", rootId[o]) \/ ~IsPartial("LOG", rootId[o])
          /\ Refuse(o)
       \/ /\ ~BothControlFiles
          /\ ~segments /\ IsPartial("CHECKPOINT", rootId[o]) /\ IsPartial("LOG", rootId[o])
          /\ visible' = [visible EXCEPT !["CHECKPOINT"] = Missing, !["LOG"] = Missing]
          /\ Goto(o, "controlSync")
          /\ UNCHANGED <<dirVars, durable, segments, lock, todo, rootId, target, relied,
                         history>>

\* The sync after the removals, then manifest::create_initial.
CreateInitial(o) ==
    /\ pc[o] = "controlSync"
    /\ SyncLevel(1)
    /\ Replace(o, "CHECKPOINT", "initial", rootId[o])
    /\ UNCHANGED <<visibleDirs, visible, segments, lock, todo, relied, history>>

\* remove_root_temporaries
RemoveTemporaries(o) ==
    /\ pc[o] = "tidy"
    /\ visible' = WithoutTemporaries
    /\ Goto(o, IF visible' = visible THEN "recover" ELSE "tidySync")
    /\ UNCHANGED <<dirVars, durable, segments, lock, todo, rootId, target, relied, history>>

SyncRemoved(o) == SyncRoot(o, "tidySync", "recover")

\* The checks manifest::recover makes of the two files before it replays a frame.
ControlIsValid(id) ==
    /\ \A n \in {"CHECKPOINT", "LOG"} : visible[n] # Torn /\ visible[n].id = id
    /\ visible["LOG"].state = "later" => visible["CHECKPOINT"].state = "later"

IsUnsynced(n) == IF n = "path" THEN durableDirs # Levels ELSE visible[n] # durable[n]

Recover(o) ==
    /\ pc[o] = "recover"
    /\ \/ /\ ~ControlIsValid(rootId[o])
          /\ Refuse(o)
       \/ /\ ControlIsValid(rootId[o])
          /\ Goto(o, "open")
          /\ identity' = identity \cup {rootId[o]}
          /\ trusted' = (trusted \/ \E n \in relied[o] : IsUnsynced(n))
          /\ UNCHANGED <<dirVars, fileVars, lock, todo, rootId, target, relied>>

-----------------------------------------------------------------------------
(***************************************************************************)
(* An open root: the first segment is published and synced, reclamation    *)
(* removes the last one and compacts (compaction of both control files is  *)
(* all this module sees of Storage.tla), the value is dropped.             *)
(***************************************************************************)
PublishSegment(o) ==
    /\ pc[o] = "open"
    /\ segments' = TRUE
    /\ UNCHANGED <<dirVars, visible, durable, lock, openerVars, history>>

CompactOpenRoot(o) ==
    /\ pc[o] = "open"
    /\ segments' \in {segments, FALSE}
    /\ Replace(o, "CHECKPOINT", "later", rootId[o])
    /\ UNCHANGED <<dirVars, visible, durable, lock, todo, relied, history>>

Forget(os) ==
    /\ pc' = [o \in Openers |-> IF o \in os THEN "idle" ELSE pc[o]]
    /\ todo' = [o \in Openers |-> IF o \in os THEN <<>> ELSE todo[o]]
    /\ rootId' = [o \in Openers |-> IF o \in os THEN 0 ELSE rootId[o]]
    /\ target' = [o \in Openers |->
                    IF o \in os THEN [name |-> "ROOT", state |-> "initial"] ELSE target[o]]
    /\ relied' = [o \in Openers |-> IF o \in os THEN {} ELSE relied[o]]
    /\ lock' = lock \ os

\* RootLock::drop: open failed, the value was dropped, or its process ended.
Close(o) ==
    /\ pc[o] # "idle"
    /\ Forget({o})
    /\ UNCHANGED <<dirVars, fileVars, history>>

-----------------------------------------------------------------------------
(***************************************************************************)
(* Power loss.                                                             *)
(***************************************************************************)
\* What is left of the entries when those of kept have their visible value; the data of
\* a file that was not synced may be torn.
Remains(kept, torn) ==
    [n \in Names |->
        LET file == IF n \in kept THEN visible[n] ELSE durable[n]
        IN  IF n \in torn /\ ~file.synced THEN Torn ELSE file]

\* Of the levels kept, those whose parents are kept too.
Reachable(levels) == {l \in levels : l..Depth \subseteq levels}

PowerLoss ==
    /\ \E kept \in SUBSET (visibleDirs \ durableDirs) :
           visibleDirs' = Reachable(durableDirs \cup kept)
    /\ durableDirs' = visibleDirs'
    /\ \/ /\ 1 \in visibleDirs'
          /\ \E kept \in SUBSET {n \in Names : visible[n] # durable[n]} :
             \E torn \in SUBSET {n \in Names : ~(visible[n].synced /\ durable[n].synced)} :
                 visible' = Remains(kept, torn)
          /\ segments' = (segments /\ visible'["segments"] # Missing)
       \/ /\ 1 \notin visibleDirs'
          /\ visible' = NoFiles
          /\ segments' = FALSE
    /\ durable' = visible'
    /\ Forget(Openers)
    /\ UNCHANGED history

Open(o) ==
    \/ FindRootDirectory(o) \/ CreateDirectory(o) \/ SyncCreatedDirectory(o)
    \/ AcquireLock(o) \/ Identify(o) \/ SyncForgotten(o) \/ Generate(o)
    \/ RemoveStale(o) \/ SyncStale(o) \/ WriteTemporary(o) \/ SyncTemporary(o)
    \/ Rename(o) \/ Publish(o) \/ Decode(o) \/ FindSegments(o) \/ SyncSegments(o)
    \/ CompleteControl(o) \/ CreateInitial(o) \/ RemoveTemporaries(o) \/ SyncRemoved(o)
    \/ Recover(o)

Next ==
    \/ \E o \in Openers : Open(o) \/ PublishSegment(o) \/ CompactOpenRoot(o) \/ Close(o)
    \/ PowerLoss

Spec == Init /\ [][Next]_vars

-----------------------------------------------------------------------------
(***************************************************************************)
(* Properties.  Each excepts the behaviours in which some open returned    *)
(* while an entry it had found, and not made, was still not durable: open  *)
(* never syncs what it finds (mod.rs:1774, 1834, files.rs:58, 132), so     *)
(* those entries can be lost afterwards.                                   *)
(***************************************************************************)

\* Once an open has returned, everything it needs to be opened again is durable: the
\* path of the root, its identity, the segments directory and both control files.  This
\* is what the syncs of ensure_root_directory and atomic_replace are for.
OpenReportsDurableRoot ==
    \A o \in Openers :
        pc[o] = "open" /\ ~trusted =>
            /\ durableDirs = Levels
            /\ \A n \in {"ROOT", "CHECKPOINT", "LOG"} : durable[n].id = rootId[o]
            /\ durable["segments"] # Missing

\* A root keeps its identity: initialize_or_validate_root never replaces a ROOT that an
\* open has reported, whatever crashes happen and however many openers compete.
IdentityIsStable == Cardinality(identity) <= 1 \/ trusted

\* A creation interrupted at any step is completed by the next open:
\* initialize_or_validate_root and complete_empty_control_initialization take none of
\* the states it leaves for corruption, nor does recover.
CreationCompletes == (\E o \in Openers : pc[o] = "corrupt") => trusted

=============================================================================
