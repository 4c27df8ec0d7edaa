----------------------------- MODULE MasterLock -----------------------------
(***************************************************************************)
(* The master lease of secagent-server (internal/lock): one file,          *)
(* relay.lock, on a directory shared by several instances of one relay.    *)
(*                                                                         *)
(* An action is one file-system call of lock.go with the memory updates    *)
(* that go with it, so a process may be frozen between any two of them.    *)
(*                                                                         *)
(* A file is written only through the handle of the instance that created  *)
(* it, and an instance creates one only when the name is free: a file is   *)
(* named by its creator.  `path' is the creator of the file relay.lock     *)
(* designates, content[i] what the last file i created holds, wherever the *)
(* name points by then.  Inode numbers are reused after a deletion, so     *)
(* comparing the number on the path with one's own may succeed on a        *)
(* foreign file: SameInode and GoneOrOtherInode overlap.                   *)
(*                                                                         *)
(* The clock is not modelled: a secondary that sees an unchanged content   *)
(* may find it stale at any poll.  Timely restricts that to a file no      *)
(* running instance holds, the case the calibration of params.go aims at.  *)
(***************************************************************************)
EXTENDS Naturals

CONSTANTS
    Instance,   \* processes; the instance id is drawn anew at every start
    None,       \* no instance, no observation, no write
    Caller,     \* goroutines that call CheckOwnership: the check of Maintain, the state engine
    MaxBeat,    \* bound on the beat counter
    MaxSeq,     \* bound on write_seq
    MaxFault,   \* bound on I/O errors, slow writes, crashes and retirements
    Timely      \* BOOLEAN: no running holder is judged stale

ASSUME NoneAssumption == None \notin Instance
ASSUME BoundAssumption ==
    MaxBeat \in Nat \ {0} /\ MaxSeq \in Nat /\ MaxFault \in Nat /\ Timely \in BOOLEAN

VARIABLES
    path,       \* the creator of the file relay.lock designates, or None
    content,    \* what the last file each instance created holds
    pc,         \* where each instance is in Acquire, its tenure or Release
    open,       \* whether its handle is open
    obs,        \* what a secondary last observed (obsRaw), or None
    minSeq,     \* highest write_seq an instance read in a lock
    noted,      \* write_seq of the master's last state write (notedSeq)
    published,  \* write_seq its lock carries (publishedSeq)
    wr,         \* content write in flight under wmu, or None
    guard,      \* progress of CheckOwnership in each of its callers
    faults      \* faults so far

vars == <<path, content, pc, open, obs, minSeq, noted, published, wr, guard, faults>>
lockMem == <<minSeq, noted, published, wr>>

\* A created file has no content until its first write; parseContent refuses it.
Empty == [role |-> "empty", beat |-> 0, seq |-> 0]
Candidacy == [role |-> "candidate", beat |-> 0, seq |-> 0]
MasterContent(b, s) == [role |-> "master", beat |-> b, seq |-> s]

Content == [role : {"empty", "candidate", "master"}, beat : 0..MaxBeat, seq : 0..MaxSeq]
Complete(c) == c.role # "empty"

\* The bytes ReadFile returns: the id is in them, unless nothing was written yet.
Raw(i) == [id |-> IF Complete(content[i]) THEN i ELSE None, body |-> content[i]]
RawContent == [id : Instance \cup {None}, body : Content]

Phase == {"down", "poll", "remove", "create", "fill", "pause", "promote", "first", "verify",
          "drop", "dropRemove", "master", "relStat", "relRead", "relRemove", "lost", "gone"}

Greater(a, b) == IF a > b THEN a ELSE b

TypeOK ==
    /\ path \in Instance \cup {None}
    /\ content \in [Instance -> Content]
    /\ pc \in [Instance -> Phase]
    /\ open \in [Instance -> BOOLEAN]
    /\ obs \in [Instance -> RawContent \cup {None}]
    /\ minSeq \in [Instance -> 0..MaxSeq]
    /\ noted \in [Instance -> 0..MaxSeq]
    /\ published \in [Instance -> 0..MaxSeq]
    /\ wr \in [Instance -> Content \cup {None}]
    /\ guard \in [Instance -> [Caller -> {"idle", "stat", "read", "ok"}]]
    /\ faults \in 0..MaxFault

\* A directory without a lock, or with the one that a dead master left.
Init ==
    /\ path \in Instance \cup {None}
    /\ \E s \in 0..MaxSeq :
         content = [i \in Instance |-> IF i = path THEN MasterContent(0, s) ELSE Empty]
    /\ pc = [i \in Instance |-> IF i = path THEN "gone" ELSE "down"]
    /\ open = [i \in Instance |-> FALSE]
    /\ obs = [i \in Instance |-> None]
    /\ minSeq = [i \in Instance |-> 0]
    /\ noted = [i \in Instance |-> 0]
    /\ published = [i \in Instance |-> 0]
    /\ wr = [i \in Instance |-> None]
    /\ guard = [i \in Instance |-> [t \in Caller |-> "idle"]]
    /\ faults = 0

-----------------------------------------------------------------------------
(* Building blocks *)

At(i, p) == pc[i] = p
Goto(i, p) == pc' = [pc EXCEPT ![i] = p]
Close(i) == open' = [open EXCEPT ![i] = FALSE]

\* An I/O error, a write beyond MaxWriteLatency, a crash, an order to stop.
Fault == faults < MaxFault /\ faults' = faults + 1
NoFault == faults' = faults

\* The outcomes of comparing the inode on the path with the one of i's handle.  i's own file has
\* i's inode number; another file may have it too, the number being reused.
SameInode(i) == path # None
GoneOrOtherInode(i) == path # i

\* ReadFile of the path gives a complete content of i; of another instance.
ReadsOwn(i) == path = i /\ Complete(content[i])
ReadsForeign(i) == path \notin {None, i} /\ Complete(content[path])

Write(i, c) == content' = [content EXCEPT ![i] = c]

\* A failed Rewrite may have changed the file before the error.
MaybeWrite(i, c) == UNCHANGED content \/ Write(i, c)

-----------------------------------------------------------------------------
(* The secondary loop: Acquire and step *)

Start(i) ==
    /\ At(i, "down")
    /\ Goto(i, "poll")
    /\ UNCHANGED <<path, content, open, obs, lockMem, guard, faults>>

\* fresh: the first sight of a content, or a changed one, restarts the staleness clock.
Observe(i) ==
    /\ At(i, "poll")
    /\ path # None
    /\ obs[i] # Raw(path)
    /\ obs' = [obs EXCEPT ![i] = Raw(path)]
    /\ minSeq' = [minSeq EXCEPT ![i] = Greater(@, content[path].seq)]
    /\ UNCHANGED <<path, content, pc, open, noted, published, wr, guard, faults>>

Stale(i) ==
    /\ path # None
    /\ obs[i] = Raw(path)
    /\ Timely => ~open[path]

\* Mutant: a candidacy is never judged stale.
JudgeStaleMastersOnly(i) ==
    /\ At(i, "poll")
    /\ Stale(i)
    /\ content[path].role = "master"
    /\ Goto(i, "remove")
    /\ UNCHANGED <<path, content, open, obs, lockMem, guard, faults>>

JudgeStale(i) ==
    /\ At(i, "poll")
    /\ Stale(i)
    /\ Goto(i, "remove")
    /\ UNCHANGED <<path, content, open, obs, lockMem, guard, faults>>

FindFree(i) ==
    /\ At(i, "poll")
    /\ path = None
    /\ Goto(i, "create")
    /\ UNCHANGED <<path, content, open, obs, lockMem, guard, faults>>

\* The deletion is by name: whatever the path designates by then goes.
RemoveStale(i) ==
    /\ At(i, "remove")
    /\ \/ path' = None /\ Goto(i, "create") /\ NoFault
       \/ path' = path /\ Goto(i, "poll") /\ Fault
    /\ UNCHANGED <<content, open, obs, lockMem, guard>>

\* The creation may also fail once the file is there (the fchmod that follows it): it stays empty.
CreateExclusive(i) ==
    /\ At(i, "create")
    /\ \/ /\ path = None
          /\ path' = i
          /\ Write(i, Empty)
          /\ open' = [open EXCEPT ![i] = TRUE]
          /\ Goto(i, "fill")
          /\ NoFault
       \/ path # None /\ Goto(i, "poll") /\ NoFault /\ UNCHANGED <<path, content, open>>
       \/ /\ Goto(i, "poll") /\ Fault /\ UNCHANGED open
          /\ \/ UNCHANGED <<path, content>>
             \/ path = None /\ path' = i /\ Write(i, Empty)
    /\ UNCHANGED <<obs, lockMem, guard>>

WriteCandidacy(i) ==
    /\ At(i, "fill")
    /\ \/ Write(i, Candidacy) /\ Goto(i, "pause") /\ NoFault
       \/ MaybeWrite(i, Candidacy) /\ Goto(i, "drop") /\ Fault
    /\ UNCHANGED <<path, open, obs, lockMem, guard>>

\* After the pause the file is reopened by name; a read error closes the handle and leaves the file.
Reread(i) ==
    /\ At(i, "pause")
    /\ \/ ReadsOwn(i) /\ Goto(i, "promote") /\ NoFault /\ UNCHANGED open
       \/ ~ReadsOwn(i) /\ Goto(i, "poll") /\ NoFault /\ Close(i)
       \/ Goto(i, "poll") /\ Fault /\ Close(i)
    /\ UNCHANGED <<path, content, obs, lockMem, guard>>

\* The context ends during the pause: the candidacy is abandoned.
Interrupt(i) ==
    /\ At(i, "pause")
    /\ Goto(i, "drop")
    /\ Fault
    /\ UNCHANGED <<path, content, open, obs, lockMem, guard>>

\* fchmod and fstat on the descriptor, then the path must designate the same inode.
CheckInode(i) ==
    /\ At(i, "promote")
    /\ \/ SameInode(i) /\ Goto(i, "first") /\ NoFault /\ UNCHANGED open
       \/ GoneOrOtherInode(i) /\ Goto(i, "poll") /\ NoFault /\ Close(i)
       \/ Goto(i, "poll") /\ Fault /\ Close(i)
       \/ Goto(i, "drop") /\ Fault /\ UNCHANGED open
    /\ UNCHANGED <<path, content, obs, lockMem, guard>>

\* Mutant: the first content ignores the floor read before the tenure.
FirstContentWithoutFloor(i) == MasterContent(1, noted[i])

\* The first master content carries the floor this instance read before.
FirstContent(i) == MasterContent(1, minSeq[i])

FirstBeat(i) ==
    /\ At(i, "first")
    /\ \/ Write(i, FirstContent(i)) /\ Goto(i, "verify") /\ NoFault
       \/ MaybeWrite(i, FirstContent(i)) /\ Goto(i, "drop") /\ Fault
    /\ UNCHANGED <<path, open, obs, lockMem, guard>>

\* Only the content published under the name decides.  The observations of the secondary loop are
\* not used any more.
VerifyPublished(i) ==
    /\ At(i, "verify")
    /\ \/ /\ ReadsOwn(i) /\ content[i].role = "master"
          /\ Goto(i, "master")
          /\ published' = [published EXCEPT ![i] = content[i].seq]
          /\ obs' = [obs EXCEPT ![i] = None]
          /\ NoFault
          /\ UNCHANGED open
       \/ /\ ~(ReadsOwn(i) /\ content[i].role = "master")
          /\ Goto(i, "poll") /\ NoFault /\ Close(i) /\ UNCHANGED <<published, obs>>
       \/ Goto(i, "poll") /\ Fault /\ Close(i) /\ UNCHANGED <<published, obs>>
    /\ UNCHANGED <<path, content, minSeq, noted, wr, guard>>

\* abandon: compare the inode, then remove by name, then close.
AbandonStat(i) ==
    /\ At(i, "drop")
    /\ \/ SameInode(i) /\ Goto(i, "dropRemove") /\ NoFault /\ UNCHANGED open
       \/ GoneOrOtherInode(i) /\ Goto(i, "poll") /\ NoFault /\ Close(i)
       \/ Goto(i, "poll") /\ Fault /\ Close(i)
    /\ UNCHANGED <<path, content, obs, lockMem, guard>>

AbandonRemove(i) ==
    /\ At(i, "dropRemove")
    /\ \/ path' = None /\ NoFault
       \/ path' = path /\ Fault
    /\ Goto(i, "poll")
    /\ Close(i)
    /\ UNCHANGED <<content, obs, lockMem, guard>>

\* Acquire returns because its context ended.
StopWaiting(i) ==
    /\ At(i, "poll")
    /\ Goto(i, "gone")
    /\ Fault
    /\ UNCHANGED <<path, content, open, obs, lockMem, guard>>

-----------------------------------------------------------------------------
(* The master: heartbeat and seq publication *)

NoteSeq(i) ==
    /\ At(i, "master")
    /\ \E s \in 1..MaxSeq :
        /\ s > noted[i]
        /\ noted' = [noted EXCEPT ![i] = s]
    /\ UNCHANGED <<path, content, pc, open, obs, minSeq, published, wr, guard, faults>>

\* Mutant: the floor is forgotten.
SeqNotedOnly(i) == noted[i]

\* Never less than what this instance saw before it was master.
SeqToPublish(i) == Greater(noted[i], minSeq[i])

\* writeContent up to its unlock: the content is computed, the Rewrite comes later.  The beat counter
\* is the one in the file (l.beat may be ahead after a failed write; only its change matters).
BeginWrite(i, nextBeat) ==
    /\ At(i, "master")
    /\ wr[i] = None
    /\ nextBeat => content[i].beat < MaxBeat
    /\ ~nextBeat => noted[i] > published[i]
    /\ wr' = [wr EXCEPT ![i] = MasterContent(content[i].beat + (IF nextBeat THEN 1 ELSE 0),
                                              SeqToPublish(i))]
    /\ UNCHANGED <<path, content, pc, open, obs, minSeq, noted, published, guard, faults>>

\* The Rewrite lands on the file of the captured handle, wherever the name points and whatever
\* happened to the lease since.
EndWrite(i) ==
    /\ wr[i] # None
    /\ \/ Write(i, wr[i]) /\ published' = [published EXCEPT ![i] = wr[i].seq] /\ NoFault
       \/ MaybeWrite(i, wr[i]) /\ UNCHANGED published /\ Fault
    /\ wr' = [wr EXCEPT ![i] = None]
    /\ UNCHANGED <<path, pc, open, obs, minSeq, noted, guard>>

-----------------------------------------------------------------------------
(* The master: the write guard, CheckOwnership *)

SetGuard(i, t, g) == guard' = [guard EXCEPT ![i] = [@ EXCEPT ![t] = g]]

\* lose: recorded once, the handle is closed, the file is left alone.
Lose(i) ==
    IF At(i, "master") THEN Goto(i, "lost") /\ Close(i) ELSE UNCHANGED <<pc, open>>

GuardEnter(i, t) ==
    /\ At(i, "master")
    /\ guard[i][t] = "idle"
    /\ SetGuard(i, t, "stat")
    /\ UNCHANGED <<path, content, pc, open, obs, lockMem, faults>>

\* No heartbeat succeeded for SelfRetire.
SelfRetire(i, t) ==
    /\ At(i, "master")
    /\ guard[i][t] = "idle"
    /\ Lose(i)
    /\ Fault
    /\ UNCHANGED <<path, content, obs, lockMem, guard>>

\* The inode comes first; a closed handle or an I/O error refuses the write without losing.
GuardStat(i, t) ==
    /\ guard[i][t] = "stat"
    /\ \/ open[i] /\ SameInode(i) /\ SetGuard(i, t, "read") /\ NoFault /\ UNCHANGED <<pc, open>>
       \/ open[i] /\ GoneOrOtherInode(i) /\ SetGuard(i, t, "idle") /\ NoFault /\ Lose(i)
       \/ ~open[i] /\ SetGuard(i, t, "idle") /\ NoFault /\ UNCHANGED <<pc, open>>
       \/ SetGuard(i, t, "idle") /\ Fault /\ UNCHANGED <<pc, open>>
    /\ UNCHANGED <<path, content, obs, lockMem>>

\* Mutant: a matching inode is enough, the content is not confirmed.
GuardInodeOnly(i, t) ==
    /\ guard[i][t] = "read"
    /\ SetGuard(i, t, "ok")
    /\ UNCHANGED <<path, content, pc, open, obs, lockMem, faults>>

\* Mutant: a foreign content refuses the write but never ends the tenure.
GuardNeverLoses(i, t) ==
    /\ guard[i][t] = "read"
    /\ SetGuard(i, t, IF ReadsOwn(i) /\ content[i].role = "master" THEN "ok" ELSE "idle")
    /\ UNCHANGED <<path, content, pc, open, obs, lockMem, faults>>

\* confirmContent: the content read last decides; an incomplete one refuses without losing.
GuardRead(i, t) ==
    /\ guard[i][t] = "read"
    /\ \/ /\ ReadsOwn(i) /\ content[i].role = "master"
          /\ SetGuard(i, t, "ok") /\ NoFault /\ UNCHANGED <<pc, open>>
       \/ /\ path = None \/ ReadsForeign(i)
          /\ SetGuard(i, t, "idle") /\ NoFault /\ Lose(i)
       \/ /\ path # None /\ ~Complete(content[path])
          /\ SetGuard(i, t, "idle") /\ NoFault /\ UNCHANGED <<pc, open>>
       \/ SetGuard(i, t, "idle") /\ Fault /\ (UNCHANGED <<pc, open>> \/ Lose(i))
    /\ UNCHANGED <<path, content, obs, lockMem>>

\* The content has been partial for SelfRetire/2: the lock is lost (so it is when it could not be
\* read for that long, the last case of GuardRead).
GuardGiveUp(i, t) ==
    /\ guard[i][t] = "read"
    /\ path # None /\ ~Complete(content[path])
    /\ SetGuard(i, t, "idle")
    /\ Lose(i)
    /\ UNCHANGED <<path, content, obs, lockMem, faults>>

\* The caller goes on: the guarded state write, or the next period of Maintain.
GuardDone(i, t) ==
    /\ guard[i][t] = "ok"
    /\ SetGuard(i, t, "idle")
    /\ UNCHANGED <<path, content, pc, open, obs, lockMem, faults>>

-----------------------------------------------------------------------------
(* Release and the end of a process *)

Release(i) ==
    /\ At(i, "master")
    /\ Goto(i, "relStat")
    /\ UNCHANGED <<path, content, open, obs, lockMem, guard, faults>>

ReleaseStat(i) ==
    /\ At(i, "relStat")
    /\ \/ SameInode(i) /\ Goto(i, "relRead") /\ NoFault /\ UNCHANGED open
       \/ GoneOrOtherInode(i) /\ Goto(i, "gone") /\ NoFault /\ Close(i)
       \/ Goto(i, "gone") /\ Fault /\ Close(i)
    /\ UNCHANGED <<path, content, obs, lockMem, guard>>

ReleaseRead(i) ==
    /\ At(i, "relRead")
    /\ \/ ReadsOwn(i) /\ Goto(i, "relRemove") /\ NoFault /\ UNCHANGED open
       \/ ~ReadsOwn(i) /\ Goto(i, "gone") /\ NoFault /\ Close(i)
       \/ Goto(i, "gone") /\ Fault /\ Close(i)
    /\ UNCHANGED <<path, content, obs, lockMem, guard>>

\* The deletion is by name, a moment after the content was read.
ReleaseRemove(i) ==
    /\ At(i, "relRemove")
    /\ \/ path' = None /\ NoFault
       \/ path' = path /\ Fault
    /\ Goto(i, "gone")
    /\ Close(i)
    /\ UNCHANGED <<content, obs, lockMem, guard>>

Crash(i) ==
    /\ pc[i] \notin {"down", "gone"}
    /\ Fault
    /\ Goto(i, "gone")
    /\ Close(i)
    /\ wr' = [wr EXCEPT ![i] = None]
    /\ guard' = [guard EXCEPT ![i] = [t \in Caller |-> "idle"]]
    /\ UNCHANGED <<path, content, obs, minSeq, noted, published>>

-----------------------------------------------------------------------------
Acquiring(i) ==
    \/ Observe(i) \/ JudgeStale(i) \/ FindFree(i) \/ RemoveStale(i)
    \/ CreateExclusive(i) \/ WriteCandidacy(i) \/ Reread(i) \/ CheckInode(i)
    \/ FirstBeat(i) \/ VerifyPublished(i) \/ AbandonStat(i) \/ AbandonRemove(i)

Leaving(i) == ReleaseStat(i) \/ ReleaseRead(i) \/ ReleaseRemove(i)

Guarding(i, t) ==
    GuardEnter(i, t) \/ GuardStat(i, t) \/ GuardRead(i, t) \/ GuardGiveUp(i, t) \/ GuardDone(i, t)

Next ==
    \E i \in Instance :
        \/ Start(i) \/ Acquiring(i)
        \/ Interrupt(i) \/ StopWaiting(i) \/ Crash(i)
        \/ NoteSeq(i) \/ (\E nb \in BOOLEAN : BeginWrite(i, nb)) \/ EndWrite(i)
        \/ \E t \in Caller : Guarding(i, t) \/ SelfRetire(i, t)
        \/ Release(i) \/ Leaving(i)

Spec == Init /\ [][Next]_vars

\* The secondary loop, the content writes, the periodic check of a master and a started release
\* go on by themselves; the give-up delay of an unreadable content is a clock that keeps running.
\* Nothing obliges a process to start, to stop or to fail.
Fairness ==
    \A i \in Instance :
        /\ WF_vars(Acquiring(i) \/ EndWrite(i) \/ Leaving(i) \/ \E t \in Caller : Guarding(i, t))
        /\ \A t \in Caller : SF_vars(GuardGiveUp(i, t))

FairSpec == Spec /\ Fairness

-----------------------------------------------------------------------------
(* Properties *)

\* The instance published as master, the one the guard answers yes to.
Holder == IF path # None /\ content[path].role = "master" THEN path ELSE None

Believers == {i \in Instance : At(i, "master")}

Evicted(i) == At(i, "master") /\ path # i

Ended == {"lost", "gone", "relStat", "relRead", "relRemove"}

Granted == {i \in Instance : \E t \in Caller : guard[i][t] = "ok"}

Out == {i \in Instance : pc[i] \in Ended \/ Evicted(i)}

AbstractLease == INSTANCE Lease WITH
    holder <- Holder,
    believers <- Believers,
    granted <- Granted,
    out <- Out

\* The lock file protocol implements the abstract lease: the guard says yes to the published
\* holder only, a master published by one instance is never overwritten by another, and an evicted
\* or retired instance never holds the lease again.
ImplementsLease == AbstractLease!Spec

\* While relay.lock is the same published file, the write_seq it carries never goes down, though
\* the heartbeat, the seq publication and the first beat all write it.
SeqNeverLowered ==
    [][\A i \in Instance : path = i /\ path' = i => content'[i].seq >= content[i].seq]_vars

\* An evicted master stops acting as master: its next checks find it out, even when the new file
\* reuses its inode number and its content is not written yet.  (A process is master once: one that
\* never noticed would stay evicted for ever.)
EvictionNoticed == []<>(\A i \in Instance : ~Evicted(i))

\* As long as an instance runs, there is a master that the guard accepts again and again: deletions
\* that cross each other and candidacies that die half way never leave the relay without one.
MasterElected ==
    []<>(Holder \in Believers \/ \A i \in Instance : pc[i] \in Ended \cup {"down"} \/ Evicted(i))

\* What a master publishes is never below the highest write_seq it read before its tenure.
PublishedAboveFloor ==
    \A i \in Instance : At(i, "master") => content[i].seq >= minSeq[i]
=============================================================================
