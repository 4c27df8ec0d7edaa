----------------------------- MODULE StateTools -----------------------------
(***************************************************************************)
(* The offline commands `state restore', `state rekey' and `state          *)
(* link-trust reset' (cli/state_tools.go, state/verify.go, state/rekey.go, *)
(* state/linktrust_reset.go) against an instance of the relay that starts, *)
(* writes and stops while they run.                                        *)
(*                                                                         *)
(* The commands never take relay.lock.  They probe it, remember its        *)
(* content, and read it once more just before they replace relay.state:    *)
(* each of these is a step of its own, and so are the backup, the          *)
(* temporary file, the rename and the fsync of the directory.  A commit of *)
(* the instance is one step (StateFile has its calls); it removes the      *)
(* relay.state.tmp of a command.  Two commands may run at the same time.   *)
(* Power loss is the one of StateFile.                                     *)
(***************************************************************************)
EXTENDS Naturals, FiniteSets

CONSTANTS Tool,      \* command invocations
          Kinds,     \* the commands an operator runs: "restore", "rekey", "reset"
          Key,       \* the master keys the operator has
          FirstKey,  \* the one relay.state is sealed with at first
          Mutation,  \* what an instance may commit
          None,      \* no file, no lock
          MaxBeat,   \* bound: contents of relay.lock (starts and heartbeats)
          MaxFault   \* bound: I/O errors, crashes and power losses

ASSUME CommandAssumption == Kinds \subseteq {"restore", "rekey", "reset"}
ASSUME KeyAssumption == FirstKey \in Key
ASSUME BoundAssumption == MaxBeat \in Nat /\ MaxFault \in Nat

VARIABLES
  dir,      \* relay.state, relay.state.prev and the backups
  durable,  \* the directories a power loss may leave
  tmp,      \* what relay.state.tmp designates
  lock,     \* the content of relay.lock (never the same twice), or None
  beats,    \* contents used so far
  phase,    \* the instance: "down", "locked" or "master"
  mem,      \* the state the instance has in memory
  acked,    \* mutations it has acknowledged
  cmd,      \* what each command has in its memory
  answer,   \* what the operator was told
  unseen,   \* an instance came, or came and went, and no reading notices
  faults

tools == <<cmd, answer>>
instance == <<lock, beats, phase, mem, acked>>
vars == <<dir, durable, tmp, instance, tools, unseen, faults>>

\* A state file: the key of its HMAC, its content, whether it has a link trust
\* anchor, the key its known secrets are sealed with, and
\* the key of an "enc:" value in a field rekey does not know (None: none).
File == [key : Key, muts : SUBSET Mutation, anchor : BOOLEAN,
         sealed : Key, odd : Key \cup {None}]

\* No file, no lock, no key and no command yet is none of them.
ASSUME NoneAssumption == None \notin File \cup Key \cup 1..MaxBeat \cup {"restore", "rekey", "reset"}

Answers == {"none", "done", "refused", "appeared", "failed", "undone", "stuck"}
PCs == {"idle", "probe", "snap", "read", "backup", "tmp", "guard", "rotate", "rename", "fsync",
        "check", "undo", "ended"}

\* A command: where it is, which one, the file given (restore) or the new key
\* (rekey), the content of relay.lock it remembers, whether the operator used
\* --i-know-no-instance-is-running, and the file it has read and verified.
Cmd == [pc : PCs, kind : Kinds \cup {None}, from : File \cup Key \cup {None},
        snap : 1..MaxBeat \cup {None}, forced : BOOLEAN, raw : File \cup {None}]
NoCmd(p) == [pc |-> p, kind |-> None, from |-> None, snap |-> None, forced |-> FALSE, raw |-> None]

TypeOK ==
  /\ \A d \in durable \cup {dir} : /\ {d.state, d.prev} \subseteq File \cup {None}
                                   /\ d.baks \subseteq File
  /\ tmp \in File \cup {None}
  /\ lock \in 1..MaxBeat \cup {None} /\ beats \in 0..MaxBeat
  /\ phase \in {"down", "locked", "master"}
  /\ mem \in File \cup {None} /\ (phase = "master" <=> mem # None)
  /\ acked \subseteq Mutation
  /\ cmd \in [Tool -> Cmd] /\ answer \in [Tool -> Answers]
  /\ unseen \in BOOLEAN
  /\ faults \in 0..MaxFault

First(odd) == [key |-> FirstKey, muts |-> {}, anchor |-> TRUE,
               sealed |-> FirstKey, odd |-> odd]
\* A generation the operator kept elsewhere.
Archive == First(None)

Init ==
  /\ \E odd \in {None, FirstKey} :
       dir = [state |-> First(odd), prev |-> Archive, baks |-> {}]
  /\ durable = {dir}
  /\ tmp = None /\ lock = None /\ beats = 0 /\ phase = "down" /\ mem = None /\ acked = {}
  /\ cmd = [t \in Tool |-> NoCmd("idle")]
  /\ answer = [t \in Tool |-> "none"]
  /\ unseen = FALSE /\ faults = 0

-----------------------------------------------------------------------------
(* Files *)

\* One update of the directory: visible at once, durable at its next fsync.
SetDir(d) == dir' = d /\ durable' = durable \cup {d}
SyncDir(d) == dir' = d /\ durable' = {d}
SameDir == UNCHANGED <<dir, durable>>
Fault == faults < MaxFault /\ faults' = faults + 1

\* decode: the file is there and its HMAC is the one of this key.
Authentic(f, k) == f # None /\ f.key = k

\* load: relay.state.prev is read only when relay.state is missing; the HMAC of
\* another key is a final refusal.
Loaded(d) == IF d.state # None THEN d.state ELSE d.prev
Opens(d, k) == Authentic(Loaded(d), k)

-----------------------------------------------------------------------------
(* The instance *)

NewContent == beats < MaxBeat /\ beats' = beats + 1 /\ lock' = beats + 1

\* The moments of a command at which the arrival of an instance is not
\* noticed by its two readings of relay.lock: between the probe and the first
\* one, after the second one, and at any moment when they are passed over.
Blind == \E t \in Tool : \/ cmd[t].forced
                         \/ cmd[t].pc \in {"snap", "rotate", "rename"}
                         \/ cmd[t].kind = "rekey" /\ cmd[t].pc \in {"fsync", "check", "undo"}

\* The lock is free, or left by a dead instance.
Acquire ==
  /\ phase = "down"
  /\ NewContent
  /\ phase' = "locked"
  /\ unseen' = (unseen \/ Blind)
  /\ UNCHANGED <<dir, durable, tmp, mem, acked, tools, faults>>

\* The lock is removed: a command that has read the file before and looks at
\* the lock after sees what it saw first.
Release ==
  /\ lock' = None /\ phase' = "down" /\ mem' = None
  /\ unseen' = (unseen \/ \E t \in Tool : cmd[t].pc \in {"backup", "tmp", "guard"})

\* Started with one of the keys: it serves, or refuses and removes its lock.
Load(k) ==
  /\ phase = "locked"
  /\ IF Opens(dir, k)
     THEN mem' = Loaded(dir) /\ phase' = "master" /\ UNCHANGED <<lock, unseen>>
     ELSE Release
  /\ UNCHANGED <<dir, durable, tmp, beats, acked, tools, faults>>

Heartbeat ==
  /\ phase # "down" /\ NewContent
  /\ UNCHANGED <<dir, durable, tmp, phase, mem, acked, tools, unseen, faults>>

\* Written from memory, with the key the instance was started with.
Commit(m) ==
  /\ phase = "master" /\ m \notin acked
  /\ LET new == [mem EXCEPT !.muts = @ \cup {m}]
     IN /\ SyncDir([dir EXCEPT !.prev = IF dir.state = None THEN @ ELSE dir.state,
                               !.state = new])
        /\ mem' = new
  /\ tmp' = None
  /\ acked' = acked \cup {m}
  /\ UNCHANGED <<lock, beats, phase, tools, unseen, faults>>

\* A clean stop.
Stop ==
  /\ phase # "down"
  /\ Release
  /\ UNCHANGED <<dir, durable, tmp, beats, acked, tools, faults>>

InstanceCrash ==
  /\ phase # "down" /\ Fault
  /\ phase' = "down" /\ mem' = None
  /\ UNCHANGED <<dir, durable, tmp, lock, beats, acked, tools, unseen>>

-----------------------------------------------------------------------------
(* Before anything is written *)

At(t, p) == cmd[t].pc = p
Kind(t, k) == cmd[t].kind = k
Goto(t, p) == cmd' = [cmd EXCEPT ![t].pc = p] /\ UNCHANGED answer
End(t, a) == /\ cmd' = [cmd EXCEPT ![t] = NoCmd("ended")]
             /\ answer' = [answer EXCEPT ![t] = a]

\* Nothing outside the command changes.
Looks == UNCHANGED <<dir, durable, tmp, instance, unseen, faults>>

\* ValidateNewMasterKey: another key than the current one.
ValidateNewMasterKey(k, from) == k = "rekey" => from # FirstKey

\* The verification of the file to restore, of relay.state for rekey, and of
\* what load finds for reset, which must be relay.state.
VerifyFile(k, from) ==
  Authentic(IF k = "restore" THEN from ELSE dir.state, FirstKey)

\* PeekLinkTrust, ResetLinkTrust: without an anchor there is nothing to do.
NothingToReset(k) == k = "reset" /\ dir.state # None /\ ~dir.state.anchor

Inputs(k) == CASE k = "restore" -> {Archive} [] k = "rekey" -> Key [] k = "reset" -> {None}

\* A command starts, and looks at the file before anything else.
Verify(t) ==
  /\ At(t, "idle")
  /\ \E k \in Kinds : \E from \in Inputs(k) :
       LET good == ValidateNewMasterKey(k, from) /\ VerifyFile(k, from)
       IN \/ /\ good /\ ~NothingToReset(k)
             /\ cmd' = [cmd EXCEPT ![t].pc = "probe", ![t].kind = k, ![t].from = from]
             /\ UNCHANGED answer
          \/ ~good /\ End(t, "refused")
          \/ good /\ NothingToReset(k) /\ End(t, "done")
  /\ Looks

\* checkNoActiveInstance: no lock, or one whose content does not change any
\* more; an operator may pass over such a lock at once.
Probe(t) ==
  /\ At(t, "probe")
  /\ \/ phase = "down" /\ Goto(t, "snap")
     \/ /\ phase = "down" /\ lock # None
        /\ cmd' = [cmd EXCEPT ![t].pc = "snap", ![t].forced = TRUE] /\ UNCHANGED answer
     \/ phase # "down" /\ End(t, "refused")
  /\ Looks

\* lockUnchangedGuard remembers relay.lock; then rekey and reset ask the
\* operator, who may decline.
Snapshot(t) ==
  /\ At(t, "snap")
  /\ \/ /\ cmd' = [cmd EXCEPT ![t].pc = "read", ![t].snap = lock]
        /\ UNCHANGED answer
     \/ ~Kind(t, "restore") /\ End(t, "refused")
  /\ Looks

\* checkRekeyCoverage: every encrypted value is in a field rekey knows.
CheckRekeyCoverage(t) == Kind(t, "rekey") => dir.state.odd = None

\* The file is read and verified again, now for good.
Read(t) ==
  /\ At(t, "read")
  /\ LET good == VerifyFile(cmd[t].kind, cmd[t].from) /\ CheckRekeyCoverage(t)
     IN \/ /\ good /\ ~NothingToReset(cmd[t].kind)
           /\ cmd' = [cmd EXCEPT ![t].pc = "backup",
                        ![t].raw = IF Kind(t, "restore") THEN cmd[t].from ELSE dir.state]
           /\ UNCHANGED answer
        \/ ~good /\ End(t, "refused")
        \/ good /\ NothingToReset(cmd[t].kind) /\ End(t, "done")
  /\ Looks

-----------------------------------------------------------------------------
(* Backup and replacement *)

\* The copies: what restore finds in the directory, the verified file for
\* rekey, and for reset, which reads it once more, the relay.state of now.
Copies(t) == CASE Kind(t, "restore") -> {dir.state, dir.prev}
               [] Kind(t, "rekey") -> {cmd[t].raw}
               [] Kind(t, "reset") -> {dir.state}

\* No backup, no change.  Rekey and reset sync the directory.
Backup(t) ==
  /\ At(t, "backup")
  /\ LET d == [dir EXCEPT !.baks = @ \cup (Copies(t) \ {None})]
         missing == Kind(t, "reset") /\ dir.state = None
     IN \/ /\ ~missing /\ Goto(t, "tmp") /\ UNCHANGED faults
           /\ IF Kind(t, "restore") THEN SetDir(d) ELSE SyncDir(d)
        \/ missing /\ SameDir /\ End(t, "failed") /\ UNCHANGED faults
        \/ SameDir /\ End(t, "failed") /\ Fault
  /\ UNCHANGED <<tmp, instance, unseen>>

\* Mutant: only the HMAC is recomputed.
HMACOnly(f, to) == [f EXCEPT !.key = to]

\* transformSecrets and encode.
TransformSecrets(f, to) == [f EXCEPT !.key = to, !.sealed = to]

\* The new relay.state: the bytes of the file restored, the same content under
\* the new key, or the content without its anchor.
NewFile(t) ==
  LET raw == cmd[t].raw
  IN CASE Kind(t, "restore") -> raw
       [] Kind(t, "rekey") -> TransformSecrets(raw, cmd[t].from)
       [] Kind(t, "reset") -> [raw EXCEPT !.anchor = FALSE]

\* relay.state.tmp is removed, created, written and synced.
WriteTmp(t) ==
  /\ At(t, "tmp")
  /\ \/ tmp' = NewFile(t) /\ Goto(t, "guard") /\ UNCHANGED faults
     \/ tmp' = None /\ End(t, "failed") /\ Fault
  /\ SameDir /\ UNCHANGED <<instance, unseen>>

\* Mutant: the lock is not read again.
LockIgnored(t) == TRUE

\* lockUnchangedGuard: relay.lock is what it was.
LockUnchanged(t) == cmd[t].forced \/ lock = cmd[t].snap

BeforeRename(t) ==
  /\ At(t, "guard")
  /\ \/ /\ LockUnchanged(t)
        /\ Goto(t, IF Kind(t, "reset") THEN "rotate" ELSE "rename") /\ UNCHANGED tmp
     \/ ~LockUnchanged(t) /\ tmp' = None /\ End(t, "appeared")
  /\ SameDir /\ UNCHANGED <<instance, unseen, faults>>

\* Only reset keeps the file it replaces as relay.state.prev: by a hard link,
\* or by moving it away.
Rotate(t) ==
  /\ At(t, "rotate")
  /\ \/ /\ dir.state # None /\ Goto(t, "rename")
        /\ \/ SetDir([dir EXCEPT !.prev = dir.state])
           \/ SetDir([dir EXCEPT !.prev = dir.state, !.state = None])
        /\ UNCHANGED <<tmp, faults>>
     \/ dir.state = None /\ Goto(t, "rename") /\ SameDir /\ UNCHANGED <<tmp, faults>>
     \/ SameDir /\ tmp' = None /\ End(t, "failed") /\ Fault
  /\ UNCHANGED <<instance, unseen>>

\* By name: whatever relay.state.tmp designates by then.
Rename(t) ==
  /\ At(t, "rename")
  /\ \/ /\ tmp # None
        /\ SetDir([dir EXCEPT !.state = tmp])
        /\ tmp' = None
        /\ Goto(t, "fsync") /\ UNCHANGED faults
     \/ tmp = None /\ SameDir /\ End(t, "failed") /\ UNCHANGED <<tmp, faults>>
     \/ SameDir /\ tmp' = None /\ End(t, "failed") /\ Fault
  /\ UNCHANGED <<instance, unseen>>

\* The end of atomicWrite, and the journal of the intervention.
Fsync(t) ==
  /\ At(t, "fsync")
  /\ \/ /\ SyncDir(dir) /\ UNCHANGED <<tmp, faults>>
        /\ IF Kind(t, "rekey") THEN Goto(t, "check") ELSE End(t, "done")
     \/ SameDir /\ tmp' = None /\ End(t, "failed") /\ Fault
  /\ UNCHANGED <<instance, unseen>>

\* Mutant: any file the new key opens is taken for the result.
OpensWithNewKey(t) == Authentic(dir.state, cmd[t].from)

\* verifyRekeyed: the file on disk opens with the new key and its cleartext
\* is the original's.
VerifyRekeyed(t) ==
  /\ Authentic(dir.state, cmd[t].from)
  /\ dir.state.muts = cmd[t].raw.muts /\ dir.state.anchor = cmd[t].raw.anchor

Check(t) ==
  /\ At(t, "check")
  /\ \/ VerifyRekeyed(t) /\ End(t, "done") /\ UNCHANGED faults
     \/ ~VerifyRekeyed(t) /\ Goto(t, "undo") /\ UNCHANGED faults
     \/ Goto(t, "undo") /\ Fault
  /\ SameDir /\ UNCHANGED <<tmp, instance, unseen>>

\* The original bytes are put back, without a look at the lock.
PutBack(t) ==
  /\ At(t, "undo")
  /\ \/ /\ SyncDir([dir EXCEPT !.state = cmd[t].raw])
        /\ End(t, "undone") /\ UNCHANGED faults
     \/ SameDir /\ End(t, "stuck") /\ Fault
  /\ tmp' = None
  /\ UNCHANGED <<instance, unseen>>

\* The command is killed.
ToolCrash(t) ==
  /\ cmd[t].pc \notin {"idle", "ended"} /\ Fault
  /\ cmd' = [cmd EXCEPT ![t] = NoCmd("ended")]
  /\ UNCHANGED <<dir, durable, tmp, instance, answer, unseen>>

\* The machine loses power, and with it what the directory did not sync.
PowerLoss ==
  /\ Fault
  /\ \E d \in durable : SyncDir(d)
  /\ tmp' \in {tmp, None}
  /\ phase' = "down" /\ mem' = None
  /\ cmd' = [t \in Tool |-> IF cmd[t].pc \in {"idle", "ended"} THEN cmd[t] ELSE NoCmd("ended")]
  /\ UNCHANGED <<lock, beats, acked, answer, unseen>>

-----------------------------------------------------------------------------
Command(t) ==
  \/ Verify(t) \/ Probe(t) \/ Snapshot(t) \/ Read(t) \/ Backup(t) \/ WriteTmp(t)
  \/ BeforeRename(t) \/ Rotate(t) \/ Rename(t) \/ Fsync(t) \/ Check(t) \/ PutBack(t)

Next ==
  \/ Acquire \/ (\E k \in Key : Load(k)) \/ Heartbeat \/ (\E m \in Mutation : Commit(m))
  \/ Stop \/ InstanceCrash \/ PowerLoss
  \/ \E t \in Tool : Command(t) \/ ToolCrash(t)

Spec == Init /\ [][Next]_vars

-----------------------------------------------------------------------------
(* Properties *)

\* A mutation acknowledged in directory d: in relay.state or in a backup.
Kept(m, d) == \/ d.state # None /\ m \in d.state.muts
              \/ \E f \in d.baks : m \in f.muts

\* Whatever the commands replace, no acknowledged mutation disappears: it is
\* in relay.state or in a backup made before the replacement, now and after a
\* loss of power.  The two readings of relay.lock do not see an instance that
\* appears between the probe and the first one, that comes and goes between
\* them, or that appears after the second one.
AckedKept ==
  ~unseen => \A m \in acked, d \in durable \cup {dir} : Kept(m, d)

\* Some key opens the state a restart finds, at every step and after a loss
\* of power, and opens every secret in it: no rotation is left half done.
OneKeyOpens ==
  \A d \in durable \cup {dir} : \E k \in Key :
    Opens(d, k) /\ Loaded(d).sealed = k /\ Loaded(d).odd \in {None, k}

\* When rekey reports success the state on disk is under the new key, with
\* the content it had, and the copy under the old key is kept.
RekeyReportIsTrue ==
  [][\A t \in Tool : cmd[t].kind = "rekey" /\ answer'[t] = "done" =>
       /\ dir'.state.key = cmd[t].from /\ dir'.state.muts = cmd[t].raw.muts
       /\ cmd[t].raw \in dir'.baks]_vars
=============================================================================
