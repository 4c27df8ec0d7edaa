----------------------------- MODULE StateFile ------------------------------
(***************************************************************************)
(* relay.state: how the state engine (internal/state: engine.go, file.go)  *)
(* replaces it on a directory shared by the instances of a relay, under    *)
(* the write guard of the master lease.                                    *)
(*                                                                         *)
(* An action is one file-system call of atomicWrite, or a call of the      *)
(* guard, so that a process may be frozen, crash, or lose the lease        *)
(* between any two of them.  The directory maps the three names to files;  *)
(* a file goes on being written through its descriptor wherever another    *)
(* process moves its name.  The lease is the one of module Lease: `holder' *)
(* is the instance the guard answers yes to; it moves to a fresh instance. *)
(*                                                                         *)
(* Power loss keeps a directory as it was at or after its last fsync (the  *)
(* journal of the file system orders directory updates); a file that was   *)
(* not synced is junk.                                                     *)
(***************************************************************************)
EXTENDS Naturals, FiniteSets

CONSTANTS
    Instance,   \* processes, each the master at most once
    Mutation,   \* mutations the callers of Mutate submit
    None,       \* no file, no instance
    Overlap,    \* BOOLEAN: the lease may move while its holder is frozen
    MaxFault,   \* bound on I/O errors
    MaxCrash    \* bound on crashes and power losses

ASSUME NoneAssumption == None \notin Instance
ASSUME FlagAssumption ==
    Overlap \in BOOLEAN /\ MaxFault \in Nat /\ MaxCrash \in Nat

VARIABLES
    dir,        \* what relay.state, relay.state.prev and relay.state.tmp designate
    durable,    \* the directories a power loss may leave
    holder,     \* the instance that holds the lease, or None
    pc,         \* where each instance is
    cur,        \* the model each engine has published in memory
    work,       \* the model it is writing
    batch,      \* the mutations of the commit in progress that were applied to it
    fromPrev,   \* its model was recovered from relay.state.prev
    floor,      \* write_seq below which it refuses the state (MinSeq of its lock)
    noted,      \* write_seq it told its lock (NoteSeq)
    strays,     \* renames each instance made over relay.state without holding the lease
    told,       \* what the callers of Mutate were told: "none", "ok", "error"
    faults, crashes

vars == <<dir, durable, holder, pc, cur, work, batch, fromPrev, floor, noted, strays, told,
          faults, crashes>>
memory == <<cur, fromPrev, floor, noted, strays>>

Name == {"state", "prev", "tmp"}

\* A generation of the state: its write_seq and the mutations in it.
Model == [seq : Nat, muts : SUBSET Mutation]

\* A file: who writes it, whether it is being written, complete and synced, or junk, and what it
\* decodes to when complete.
File == [by : Instance \cup {None}, status : {"open", "full", "junk"}, model : Model]

ASSUME NoFileAssumption == None \notin File

Phase == {"down", "load", "idle", "guard1", "rmTmp", "create", "fill", "guard2", "exists", "rmPrev",
          "link", "rename", "sync", "cleanup", "refused", "lost", "gone"}

TypeOK ==
    /\ dir \in [Name -> File \cup {None}]
    /\ durable \subseteq [Name -> File \cup {None}]
    /\ holder \in Instance \cup {None}
    /\ pc \in [Instance -> Phase]
    /\ cur \in [Instance -> Model]
    /\ work \in [Instance -> Model]
    /\ batch \in [Instance -> SUBSET Mutation]
    /\ fromPrev \in [Instance -> BOOLEAN]
    /\ floor \in [Instance -> Nat]
    /\ noted \in [Instance -> Nat]
    /\ strays \in [Instance -> Nat]
    /\ told \in [Mutation -> {"none", "ok", "error"}]
    /\ faults \in 0..MaxFault
    /\ crashes \in 0..MaxCrash

-----------------------------------------------------------------------------
(* load *)

Valid(f) == f # None /\ f.status = "full"

Loadable(d) == Valid(d["state"]) \/ Valid(d["prev"])

\* relay.state when it decodes, relay.state.prev when it is missing or invalid.
Loaded(d) == IF Valid(d["state"]) THEN d["state"].model ELSE d["prev"].model

Generation(s) == [by |-> None, status |-> "full", model |-> [seq |-> s, muts |-> {}]]
Junk == [Generation(1) EXCEPT !.status = "junk"]
NoModel == [seq |-> 0, muts |-> {}]

\* A directory a relay may start on: initialised, with a previous generation, or after an accident
\* that left only that one usable.
StartDir == {[state |-> Generation(1), prev |-> None, tmp |-> None],
             [state |-> Generation(2), prev |-> Generation(1), tmp |-> Junk],
             [state |-> Junk, prev |-> Generation(1), tmp |-> None],
             [state |-> None, prev |-> Generation(1), tmp |-> None]}

Init ==
    /\ dir \in StartDir
    /\ durable = {dir}
    /\ holder = None
    /\ pc = [i \in Instance |-> "down"]
    /\ cur = [i \in Instance |-> NoModel]
    /\ work = [i \in Instance |-> NoModel]
    /\ batch = [i \in Instance |-> {}]
    /\ fromPrev = [i \in Instance |-> FALSE]
    /\ floor = [i \in Instance |-> 0]
    /\ noted = [i \in Instance |-> 0]
    /\ strays = [i \in Instance |-> 0]
    /\ told = [m \in Mutation |-> "none"]
    /\ faults = 0
    /\ crashes = 0

-----------------------------------------------------------------------------
(* Building blocks *)

At(i, p) == pc[i] = p
Goto(i, p) == pc' = [pc EXCEPT ![i] = p]
Fault == faults < MaxFault /\ faults' = faults + 1
NoFault == faults' = faults

\* One update of the directory: visible at once, durable at the next fsync of the directory.
SetDir(d) == dir' = d /\ durable' = durable \cup {d}
SameDir == UNCHANGED <<dir, durable>>

Remove(name) == SetDir([dir EXCEPT ![name] = None])
Tell(ms, answer) == told' = [m \in Mutation |-> IF m \in ms THEN answer ELSE told[m]]

\* The files i has open become s, under whatever name they are by now.
Settle(i, s, d) ==
    [n \in Name |-> IF d[n] # None /\ d[n].by = i /\ d[n].status = "open"
                      THEN [d[n] EXCEPT !.status = s] ELSE d[n]]

-----------------------------------------------------------------------------
(* The lease moves *)

Serving(i) == pc[i] \notin {"down", "refused", "lost", "gone"}

\* The lock file disappears: its holder released it or died, or (Overlap) is frozen meanwhile.
Evict ==
    /\ holder # None
    /\ ~Overlap => ~Serving(holder)
    /\ holder' = None
    /\ UNCHANGED <<dir, durable, pc, work, batch, memory, told, faults, crashes>>

\* A secondary takes the free lease; it has read some of the write_seq published before.
Promote(i) ==
    /\ At(i, "down")
    /\ holder = None
    /\ holder' = i
    /\ Goto(i, "load")
    /\ \E s \in {noted[j] : j \in Instance} : floor' = [floor EXCEPT ![i] = s]
    /\ UNCHANGED <<dir, durable, cur, work, batch, fromPrev, noted, strays, told, faults, crashes>>

\* Build: open the state, refuse one older than what was published, tell the lock its write_seq.
Load(i) ==
    /\ At(i, "load")
    /\ \/ /\ Loadable(dir)
          /\ Loaded(dir).seq >= floor[i]
          /\ cur' = [cur EXCEPT ![i] = Loaded(dir)]
          /\ fromPrev' = [fromPrev EXCEPT ![i] = ~Valid(dir["state"])]
          /\ noted' = [noted EXCEPT ![i] = Loaded(dir).seq]
          /\ Goto(i, "idle")
       \/ /\ ~(Loadable(dir) /\ Loaded(dir).seq >= floor[i])
          /\ Goto(i, "refused")
          /\ UNCHANGED <<cur, fromPrev, noted>>
    /\ UNCHANGED <<dir, durable, holder, work, batch, floor, strays, told, faults, crashes>>

-----------------------------------------------------------------------------
(* commit *)

\* The writer takes the queued mutations; callers of later ones wait for the next batch.
Mutate(i) ==
    /\ At(i, "idle")
    /\ \E ms \in SUBSET {m \in Mutation : told[m] = "none" /\ \A j \in Instance : m \notin batch[j]} :
        /\ ms # {}
        /\ batch' = [batch EXCEPT ![i] = ms]
    /\ Goto(i, "guard1")
    /\ UNCHANGED <<dir, durable, holder, work, memory, told, faults, crashes>>

FailBatch(i) == Tell(batch[i], "error") /\ batch' = [batch EXCEPT ![i] = {}]

\* CheckOwnership of the lock: yes to the holder of the lease only.
Guard(i) == holder = i

\* The model a commit writes.
NextModel(i, ok) == [seq |-> cur[i].seq + 1, muts |-> cur[i].muts \cup ok]

\* The guard runs before anything is created.  Some mutations of the batch are rolled back.  The
\* guard may also fail without an eviction, and so may the encoding, its size limit and the backup
\* of a v1 state: the batch is refused and nothing is written.
FirstGuard(i) ==
    /\ At(i, "guard1")
    /\ \/ /\ Guard(i)
          /\ \E ok \in SUBSET batch[i] :
                /\ Tell(batch[i] \ ok, "error")
                /\ batch' = [batch EXCEPT ![i] = ok]
                /\ work' = [work EXCEPT ![i] = NextModel(i, ok)]
                /\ Goto(i, IF ok = {} THEN "idle" ELSE "rmTmp")
          /\ NoFault
       \/ /\ ~Guard(i)
          /\ FailBatch(i)
          /\ Goto(i, "lost")
          /\ NoFault
          /\ UNCHANGED work
       \/ FailBatch(i) /\ Goto(i, "idle") /\ Fault /\ UNCHANGED work
    /\ UNCHANGED <<dir, durable, holder, memory, crashes>>

RemoveTmp(i) ==
    /\ At(i, "rmTmp")
    /\ \/ Remove("tmp") /\ Goto(i, "create") /\ NoFault /\ UNCHANGED <<told, batch>>
       \/ SameDir /\ FailBatch(i) /\ Goto(i, "idle") /\ Fault
    /\ UNCHANGED <<holder, work, memory, crashes>>

CreateTmp(i) ==
    /\ At(i, "create")
    /\ \/ /\ dir["tmp"] = None
          /\ SetDir([dir EXCEPT !["tmp"] = [by |-> i, status |-> "open", model |-> work[i]]])
          /\ Goto(i, "fill")
          /\ NoFault
          /\ UNCHANGED <<told, batch>>
       \/ dir["tmp"] # None /\ SameDir /\ FailBatch(i) /\ Goto(i, "idle") /\ NoFault
       \/ SameDir /\ FailBatch(i) /\ Goto(i, "idle") /\ Fault
    /\ UNCHANGED <<holder, work, memory, crashes>>

\* Write, fsync and close; a failure leaves a partial file.
Fill(i) ==
    /\ At(i, "fill")
    /\ \E r \in {"full", "junk"} :
        /\ dir' = Settle(i, r, dir)
        /\ durable' = {Settle(i, r, d) : d \in durable}
        /\ Goto(i, IF r = "full" THEN "guard2" ELSE "cleanup")
        /\ IF r = "full" THEN NoFault ELSE Fault
    /\ UNCHANGED <<holder, work, batch, memory, told, crashes>>

\* Mutant: a recovered model is rotated like any other.
SecondGuardAlwaysRotates(i) ==
    /\ At(i, "guard2")
    /\ Guard(i)
    /\ Goto(i, "exists")
    /\ UNCHANGED <<dir, durable, holder, work, batch, memory, told, faults, crashes>>

\* The guard again, once the data is durable and before relay.state is touched.
SecondGuard(i) ==
    /\ At(i, "guard2")
    /\ \/ ~Guard(i) /\ Goto(i, "cleanup") /\ NoFault
       \/ Guard(i) /\ Goto(i, IF fromPrev[i] THEN "rename" ELSE "exists") /\ NoFault
       \/ Goto(i, "cleanup") /\ Fault
    /\ UNCHANGED <<dir, durable, holder, work, batch, memory, told, crashes>>

\* Rotation, skipped when there is no relay.state (or the answer is an error).
CheckExists(i) ==
    /\ At(i, "exists")
    /\ \/ Goto(i, IF dir["state"] # None THEN "rmPrev" ELSE "rename") /\ NoFault
       \/ Goto(i, "rename") /\ Fault
    /\ UNCHANGED <<dir, durable, holder, work, batch, memory, told, crashes>>

RemovePrev(i) ==
    /\ At(i, "rmPrev")
    /\ \/ Remove("prev") /\ Goto(i, "link") /\ NoFault
       \/ SameDir /\ Goto(i, "cleanup") /\ Fault
    /\ UNCHANGED <<holder, work, batch, memory, told, crashes>>

Linked == [dir EXCEPT !["prev"] = dir["state"]]
Renamed == [dir EXCEPT !["prev"] = dir["state"], !["state"] = None]

\* A hard link, which needs a free name; a rename when it fails (no hard links on this file system,
\* or any other error).
KeepPrev(i) ==
    /\ At(i, "link")
    /\ \/ /\ dir["state"] # None
          /\ (dir["prev"] = None /\ SetDir(Linked)) \/ SetDir(Renamed)
          /\ Goto(i, "rename")
          /\ NoFault
       \/ dir["state"] = None /\ SameDir /\ Goto(i, "cleanup") /\ NoFault
       \/ SameDir /\ Goto(i, "cleanup") /\ Fault
    /\ UNCHANGED <<holder, work, batch, memory, told, crashes>>

\* Mutant: the lock is told the write_seq before the directory is synced.
RenameTmpNotes(i) ==
    /\ At(i, "rename")
    /\ dir["tmp"] # None
    /\ SetDir([dir EXCEPT !["state"] = dir["tmp"], !["tmp"] = None])
    /\ noted' = [noted EXCEPT ![i] = work[i].seq]
    /\ Goto(i, "sync")
    /\ UNCHANGED <<holder, work, batch, cur, fromPrev, floor, strays, told, faults, crashes>>

\* By name: whatever relay.state.tmp designates by then becomes relay.state.
RenameTmp(i) ==
    /\ At(i, "rename")
    /\ \/ /\ dir["tmp"] # None
          /\ SetDir([dir EXCEPT !["state"] = dir["tmp"], !["tmp"] = None])
          /\ strays' = [strays EXCEPT ![i] = IF holder = i THEN @ ELSE @ + 1]
          /\ Goto(i, "sync")
          /\ NoFault
       \/ dir["tmp"] = None /\ SameDir /\ Goto(i, "cleanup") /\ NoFault /\ UNCHANGED strays
       \/ SameDir /\ Goto(i, "cleanup") /\ Fault /\ UNCHANGED strays
    /\ UNCHANGED <<holder, work, batch, cur, fromPrev, floor, noted, told, crashes>>

\* Mutant: the callers are answered without a sync of the directory.
SyncDirSkipped(i) ==
    /\ At(i, "sync")
    /\ cur' = [cur EXCEPT ![i] = work[i]]
    /\ Tell(batch[i], "ok")
    /\ batch' = [batch EXCEPT ![i] = {}]
    /\ Goto(i, "idle")
    /\ UNCHANGED <<dir, durable, holder, work, fromPrev, floor, noted, strays, faults, crashes>>

\* The directory is synced, the model published, the callers answered and the lock told; a failed
\* sync answers an error although the file is in place.
SyncDir(i) ==
    /\ At(i, "sync")
    /\ \/ /\ dir' = dir /\ durable' = {dir}
          /\ cur' = [cur EXCEPT ![i] = work[i]]
          /\ fromPrev' = [fromPrev EXCEPT ![i] = FALSE]
          /\ noted' = [noted EXCEPT ![i] = work[i].seq]
          /\ Tell(batch[i], "ok")
          /\ batch' = [batch EXCEPT ![i] = {}]
          /\ Goto(i, "idle")
          /\ NoFault
       \/ SameDir /\ Goto(i, "cleanup") /\ Fault /\ UNCHANGED <<cur, fromPrev, noted, told, batch>>
    /\ UNCHANGED <<holder, work, floor, strays, crashes>>

\* The deferred removal of the temporary name; its own error is ignored.
Cleanup(i) ==
    /\ At(i, "cleanup")
    /\ Remove("tmp") \/ SameDir
    /\ FailBatch(i)
    /\ Goto(i, "idle")
    /\ UNCHANGED <<holder, work, memory, faults, crashes>>

\* The process dies; nobody is told.
Crash(i) ==
    /\ Serving(i)
    /\ crashes < MaxCrash /\ crashes' = crashes + 1
    /\ Goto(i, "gone")
    /\ dir' = Settle(i, "junk", dir)
    /\ durable' = {Settle(i, "junk", d) : d \in durable}
    /\ batch' = [batch EXCEPT ![i] = {}]
    /\ UNCHANGED <<holder, work, memory, told, faults>>

\* The machine of the only instance loses power, and with it what the directory did not sync.
PowerLoss ==
    /\ ~Overlap
    /\ crashes < MaxCrash /\ crashes' = crashes + 1
    /\ \E d \in durable :
        LET after == [n \in Name |-> IF d[n] # None /\ d[n].status = "open"
                                       THEN [d[n] EXCEPT !.status = "junk"] ELSE d[n]]
        IN dir' = after /\ durable' = {after}
    /\ pc' = [i \in Instance |-> IF Serving(i) THEN "gone" ELSE pc[i]]
    /\ batch' = [i \in Instance |-> {}]
    /\ UNCHANGED <<holder, work, memory, told, faults>>

-----------------------------------------------------------------------------
Commit(i) ==
    \/ FirstGuard(i) \/ RemoveTmp(i) \/ CreateTmp(i) \/ Fill(i) \/ SecondGuard(i) \/ CheckExists(i)
    \/ RemovePrev(i) \/ KeepPrev(i) \/ RenameTmp(i) \/ SyncDir(i) \/ Cleanup(i)

Next ==
    \/ Evict \/ PowerLoss
    \/ \E i \in Instance : Promote(i) \/ Load(i) \/ Mutate(i) \/ Commit(i) \/ Crash(i)

Spec == Init /\ [][Next]_vars

-----------------------------------------------------------------------------
(* Properties *)

\* atomicWrite never leaves the directory without a valid generation: whatever the moment, and
\* whatever a power loss keeps of the directory, load finds one.
AlwaysLoadable == \A d \in durable \cup {dir} : Loadable(d)

\* A mutation that Mutate reported as done is in the state any restart will load.
AckedIsDurable ==
    \A m \in Mutation : told[m] = "ok" =>
        \A d \in durable \cup {dir} : Loadable(d) => m \in Loaded(d).muts

\* A single accident never makes the anti-replay check refuse the state: what a master told its
\* lock is in what its successor loads.
NotRefusedAfterOneAccident == crashes <= 1 => \A i \in Instance : ~At(i, "refused")

\* The guard lets an evicted master replace relay.state at most once: the write it had confirmed
\* when it was evicted.
OneStrayWrite == \A i \in Instance : strays[i] <= 1
=============================================================================
