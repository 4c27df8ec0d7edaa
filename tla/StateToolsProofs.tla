-------------------------- MODULE StateToolsProofs --------------------------
(***************************************************************************)
(* For any commands, keys, mutations and faults: the offline commands of the*)
(* state lose no acknowledged mutation, leave a state that one key opens,  *)
(* and rekey reports success only of what it did.                          *)
(*                                                                         *)
(* Nothing excludes a command and an instance from running together but two*)
(* readings of relay.lock.  The invariant says what the second one settles *)
(* (Covered): a command past it has no instance under it, unless one came  *)
(* unseen, and what it is about to replace is in a backup.  No file is ever*)
(* sealed with two keys (Sealed), the one being written included.          *)
(***************************************************************************)
EXTENDS StateTools, TLAPS

-----------------------------------------------------------------------------
(* Files, directories and commands *)

Files == File \cup {None}
Backups == SUBSET File
Dirs == [state : Files, prev : Files, baks : Backups]
Commands == Kinds \cup {None}
Sources == File \cup Key \cup {None}
Marks == 1..MaxBeat \cup {None}
Cmds == [pc : PCs, kind : Commands, from : Sources, snap : Marks, forced : BOOLEAN, raw : Files]

\* One key opens the file and every secret in it.
Sound(f) == f # None => f.sealed = f.key /\ f.odd \in {None, f.key}

\* The files the commands and the instance make of another one.
LEMMA Rekeyed ==
  ASSUME NEW f \in File, NEW k \in Key, f.odd = None
  PROVE  TransformSecrets(f, k) \in File /\ Sound(TransformSecrets(f, k))
<1> DEFINE x == [f EXCEPT !.key = k]
           y == [x EXCEPT !.sealed = k]
<1>1. TransformSecrets(f, k) = y
  BY DEF TransformSecrets
<1>2. x \in File /\ x.key = k /\ x.odd = None
  BY DEF File
<1> HIDE DEF x
<1>3. y \in File /\ y.key = k /\ y.odd = None /\ y.sealed = k
  BY <1>2 DEF File
<1> QED BY <1>1, <1>3 DEF Sound

LEMMA Unanchored ==
  ASSUME NEW f \in File, Sound(f)
  PROVE  [f EXCEPT !.anchor = FALSE] \in File /\ Sound([f EXCEPT !.anchor = FALSE])
BY NoneAssumption, Zenon DEF File, Sound

LEMMA Mutated ==
  ASSUME NEW f \in File, Sound(f), NEW m \in Mutation
  PROVE  LET g == [f EXCEPT !.muts = @ \cup {m}]
         IN  g \in File /\ Sound(g) /\ g.muts = f.muts \cup {m}
BY NoneAssumption DEF File, Sound

LEMMA ArchiveFacts == Archive \in File /\ Sound(Archive)
BY KeyAssumption DEF Archive, First, File, Sound

\* Directory d has these files.
Holds(d, s, p, B) == d \in Dirs /\ d.state = s /\ d.prev = p /\ d.baks = B

LEMMA WithBackups ==
  ASSUME NEW d \in Dirs, NEW B \in Backups, NEW e, e = [d EXCEPT !.baks = B]
  PROVE  Holds(e, d.state, d.prev, B)
BY DEF Dirs, Holds

LEMMA WithState ==
  ASSUME NEW d \in Dirs, NEW f \in Files, NEW e, e = [d EXCEPT !.state = f]
  PROVE  Holds(e, f, d.prev, d.baks)
BY DEF Dirs, Holds

LEMMA WithPrev ==
  ASSUME NEW d \in Dirs, NEW f \in Files, NEW e, e = [d EXCEPT !.prev = f]
  PROVE  Holds(e, d.state, f, d.baks)
BY DEF Dirs, Holds

LEMMA WithPrevState ==
  ASSUME NEW d \in Dirs, NEW f \in Files, NEW g \in Files, NEW e, e = [d EXCEPT !.prev = f, !.state = g]
  PROVE  Holds(e, g, f, d.baks)
<1> DEFINE x == [d EXCEPT !.prev = f]
<1>1. Holds(x, d.state, f, d.baks)
  BY WithPrev
<1>2. e = [x EXCEPT !.state = g]
  OBVIOUS
<1> HIDE DEF x
<1>3. x \in Dirs /\ x.prev = f /\ x.baks = d.baks
  BY <1>1 DEF Holds
<1>4. Holds(e, g, x.prev, x.baks)
  BY <1>2, <1>3, WithState, Zenon
<1> QED BY <1>3, <1>4 DEF Holds

-----------------------------------------------------------------------------
(* One command at a time *)

\* Command t alone changes, to these values.
Sets(t, p, k, f, s, b, r) ==
    /\ cmd' \in [Tool -> Cmds]
    /\ cmd'[t].pc = p /\ cmd'[t].kind = k /\ cmd'[t].from = f
    /\ cmd'[t].snap = s /\ cmd'[t].forced = b /\ cmd'[t].raw = r
    /\ \A u \in Tool : u # t => cmd'[u] = cmd[u]

Alone(t, y) ==
    cmd' \in [Tool -> Cmds] /\ cmd'[t] = y /\ \A u \in Tool : u # t => cmd'[u] = cmd[u]

LEMMA SetAlone ==
  ASSUME cmd \in [Tool -> Cmds], NEW t \in Tool, NEW y \in Cmds, cmd' = [cmd EXCEPT ![t] = y]
  PROVE  Alone(t, y)
BY DEF Alone

LEMMA WithPc ==
  ASSUME NEW x \in Cmds, NEW p \in PCs, NEW y, y = [x EXCEPT !.pc = p]
  PROVE  /\ y \in Cmds /\ y.pc = p /\ y.kind = x.kind /\ y.from = x.from
         /\ y.snap = x.snap /\ y.forced = x.forced /\ y.raw = x.raw
BY DEF Cmds

LEMMA WithKind ==
  ASSUME NEW x \in Cmds, NEW k \in Commands, NEW y, y = [x EXCEPT !.kind = k]
  PROVE  /\ y \in Cmds /\ y.pc = x.pc /\ y.kind = k /\ y.from = x.from
         /\ y.snap = x.snap /\ y.forced = x.forced /\ y.raw = x.raw
BY DEF Cmds

LEMMA WithFrom ==
  ASSUME NEW x \in Cmds, NEW f \in Sources, NEW y, y = [x EXCEPT !.from = f]
  PROVE  /\ y \in Cmds /\ y.pc = x.pc /\ y.kind = x.kind /\ y.from = f
         /\ y.snap = x.snap /\ y.forced = x.forced /\ y.raw = x.raw
BY DEF Cmds

LEMMA WithSnap ==
  ASSUME NEW x \in Cmds, NEW s \in Marks, NEW y, y = [x EXCEPT !.snap = s]
  PROVE  /\ y \in Cmds /\ y.pc = x.pc /\ y.kind = x.kind /\ y.from = x.from
         /\ y.snap = s /\ y.forced = x.forced /\ y.raw = x.raw
BY DEF Cmds

LEMMA WithForced ==
  ASSUME NEW x \in Cmds, NEW y, y = [x EXCEPT !.forced = TRUE]
  PROVE  /\ y \in Cmds /\ y.pc = x.pc /\ y.kind = x.kind /\ y.from = x.from
         /\ y.snap = x.snap /\ y.forced = TRUE /\ y.raw = x.raw
BY Zenon DEF Cmds

LEMMA WithRaw ==
  ASSUME NEW x \in Cmds, NEW r \in Files, NEW y, y = [x EXCEPT !.raw = r]
  PROVE  /\ y \in Cmds /\ y.pc = x.pc /\ y.kind = x.kind /\ y.from = x.from
         /\ y.snap = x.snap /\ y.forced = x.forced /\ y.raw = r
BY DEF Cmds

LEMMA SetsPc ==
  ASSUME cmd \in [Tool -> Cmds], NEW t \in Tool, NEW p \in PCs, cmd' = [cmd EXCEPT ![t].pc = p]
  PROVE  Sets(t, p, cmd[t].kind, cmd[t].from, cmd[t].snap, cmd[t].forced, cmd[t].raw)
<1> DEFINE y == [cmd[t] EXCEPT !.pc = p]
<1>1. cmd' = [cmd EXCEPT ![t] = y] /\ cmd[t] \in Cmds
  OBVIOUS
<1> HIDE DEF y
<1>2. /\ y \in Cmds /\ y.pc = p /\ y.kind = cmd[t].kind /\ y.from = cmd[t].from
      /\ y.snap = cmd[t].snap /\ y.forced = cmd[t].forced /\ y.raw = cmd[t].raw
  BY <1>1, WithPc DEF y
<1> QED BY <1>1, <1>2, SetAlone DEF Alone, Sets

LEMMA SetsEnd ==
  ASSUME cmd \in [Tool -> Cmds], NEW t \in Tool, cmd' = [cmd EXCEPT ![t] = NoCmd("ended")]
  PROVE  Sets(t, "ended", None, None, None, FALSE, None) /\ cmd'[t] = NoCmd("ended")
<1> DEFINE y == NoCmd("ended")
<1>1. /\ y \in Cmds /\ y.pc = "ended" /\ y.kind = None /\ y.from = None
      /\ y.snap = None /\ y.forced = FALSE /\ y.raw = None
  BY DEF NoCmd, Cmds, PCs, Commands, Sources, Marks, Files
<1> QED BY <1>1, SetAlone DEF Alone, Sets

LEMMA SetsVerify ==
  ASSUME cmd \in [Tool -> Cmds], NEW t \in Tool, NEW k \in Commands, NEW f \in Sources,
         cmd' = [cmd EXCEPT ![t].pc = "probe", ![t].kind = k, ![t].from = f]
  PROVE  Sets(t, "probe", k, f, cmd[t].snap, cmd[t].forced, cmd[t].raw)
<1> DEFINE w == [cmd[t] EXCEPT !.pc = "probe"]
           x == [w EXCEPT !.kind = k]
           y == [x EXCEPT !.from = f]
<1>1. cmd' = [cmd EXCEPT ![t] = y] /\ cmd[t] \in Cmds
  BY Zenon
<1> HIDE DEF w, x, y
<1>2. /\ w \in Cmds /\ w.pc = "probe"
      /\ w.snap = cmd[t].snap /\ w.forced = cmd[t].forced /\ w.raw = cmd[t].raw
  BY <1>1, WithPc DEF w, PCs
<1>3. /\ x \in Cmds /\ x.pc = w.pc /\ x.kind = k
      /\ x.snap = w.snap /\ x.forced = w.forced /\ x.raw = w.raw
  BY <1>2, WithKind DEF x
<1>4. /\ y \in Cmds /\ y.pc = x.pc /\ y.kind = x.kind /\ y.from = f
      /\ y.snap = x.snap /\ y.forced = x.forced /\ y.raw = x.raw
  BY <1>3, WithFrom DEF y
<1> QED BY <1>1, <1>2, <1>3, <1>4, SetAlone DEF Alone, Sets

LEMMA SetsForced ==
  ASSUME cmd \in [Tool -> Cmds], NEW t \in Tool, cmd' = [cmd EXCEPT ![t].pc = "snap", ![t].forced = TRUE]
  PROVE  Sets(t, "snap", cmd[t].kind, cmd[t].from, cmd[t].snap, TRUE, cmd[t].raw)
<1> DEFINE x == [cmd[t] EXCEPT !.pc = "snap"]
           y == [x EXCEPT !.forced = TRUE]
<1>1. cmd' = [cmd EXCEPT ![t] = y] /\ cmd[t] \in Cmds
  BY Zenon
<1> HIDE DEF x, y
<1>2. /\ x \in Cmds /\ x.pc = "snap" /\ x.kind = cmd[t].kind /\ x.from = cmd[t].from
      /\ x.snap = cmd[t].snap /\ x.raw = cmd[t].raw
  BY <1>1, WithPc DEF x, PCs
<1>3. /\ y \in Cmds /\ y.pc = x.pc /\ y.kind = x.kind /\ y.from = x.from
      /\ y.snap = x.snap /\ y.forced = TRUE /\ y.raw = x.raw
  BY <1>2, WithForced, Zenon DEF y
<1> QED BY <1>1, <1>2, <1>3, SetAlone DEF Alone, Sets

LEMMA SetsSnap ==
  ASSUME cmd \in [Tool -> Cmds], NEW t \in Tool, NEW s \in Marks,
         cmd' = [cmd EXCEPT ![t].pc = "read", ![t].snap = s]
  PROVE  Sets(t, "read", cmd[t].kind, cmd[t].from, s, cmd[t].forced, cmd[t].raw)
<1> DEFINE x == [cmd[t] EXCEPT !.pc = "read"]
           y == [x EXCEPT !.snap = s]
<1>1. cmd' = [cmd EXCEPT ![t] = y] /\ cmd[t] \in Cmds
  BY Zenon
<1> HIDE DEF x, y
<1>2. /\ x \in Cmds /\ x.pc = "read" /\ x.kind = cmd[t].kind /\ x.from = cmd[t].from
      /\ x.forced = cmd[t].forced /\ x.raw = cmd[t].raw
  BY <1>1, WithPc DEF x, PCs
<1>3. /\ y \in Cmds /\ y.pc = x.pc /\ y.kind = x.kind /\ y.from = x.from
      /\ y.snap = s /\ y.forced = x.forced /\ y.raw = x.raw
  BY <1>2, WithSnap DEF y
<1> QED BY <1>1, <1>2, <1>3, SetAlone DEF Alone, Sets

LEMMA SetsRead ==
  ASSUME cmd \in [Tool -> Cmds], NEW t \in Tool, NEW r \in Files,
         cmd' = [cmd EXCEPT ![t].pc = "backup", ![t].raw = r]
  PROVE  Sets(t, "backup", cmd[t].kind, cmd[t].from, cmd[t].snap, cmd[t].forced, r)
<1> DEFINE x == [cmd[t] EXCEPT !.pc = "backup"]
           y == [x EXCEPT !.raw = r]
<1>1. cmd' = [cmd EXCEPT ![t] = y] /\ cmd[t] \in Cmds
  BY Zenon
<1> HIDE DEF x, y
<1>2. /\ x \in Cmds /\ x.pc = "backup" /\ x.kind = cmd[t].kind /\ x.from = cmd[t].from
      /\ x.snap = cmd[t].snap /\ x.forced = cmd[t].forced
  BY <1>1, WithPc DEF x, PCs
<1>3. /\ y \in Cmds /\ y.pc = x.pc /\ y.kind = x.kind /\ y.from = x.from
      /\ y.snap = x.snap /\ y.forced = x.forced /\ y.raw = r
  BY <1>2, WithRaw DEF y
<1> QED BY <1>1, <1>2, <1>3, SetAlone DEF Alone, Sets

-----------------------------------------------------------------------------
(* The invariant *)

Typed ==
    /\ dir \in durable /\ \A d \in durable : d \in Dirs
    /\ tmp \in Files /\ mem \in Files /\ (phase = "master" => mem # None)
    /\ beats \in Nat /\ beats <= MaxBeat /\ lock \in Marks /\ (lock # None => lock <= beats)
    /\ acked \subseteq Mutation
    /\ cmd \in [Tool -> Cmds] /\ answer \in [Tool -> Answers]

\* No file, in a directory or in a memory, is sealed with two keys.
SoundDir(d) == d.prev # None /\ Sound(d.prev) /\ Sound(d.state)
Sealed ==
    /\ \A d \in durable : SoundDir(d)
    /\ Sound(tmp) /\ Sound(mem)
    /\ \A t \in Tool : Sound(cmd[t].raw)

\* What a command has in its memory at each step.
Copied == {"tmp", "guard", "rotate", "rename", "fsync", "check", "undo"}
Shape(t) ==
    /\ cmd[t].pc \in {"idle", "ended"} => cmd[t] = NoCmd(cmd[t].pc)
    /\ cmd[t].pc # "ended" => answer[t] = "none"
    /\ cmd[t].pc \notin {"idle", "ended"} => cmd[t].kind \in Kinds
    /\ Kind(t, "restore") => cmd[t].from = Archive
    /\ Kind(t, "rekey") => cmd[t].from \in Key
    /\ cmd[t].pc \in Copied \cup {"backup"} =>
         cmd[t].raw # None /\ (Kind(t, "rekey") => cmd[t].raw.odd = None)
    /\ cmd[t].pc \in Copied /\ Kind(t, "rekey") => cmd[t].raw \in dir.baks
    /\ cmd[t].pc \in {"check", "undo"} => Kind(t, "rekey")
    /\ cmd[t].snap # None => cmd[t].snap <= beats

\* The second reading of relay.lock is behind, and relay.state may still be replaced.
Committed(t) ==
    \/ cmd[t].pc \in {"rotate", "rename"}
    \/ Kind(t, "rekey") /\ cmd[t].pc \in {"fsync", "check", "undo"}

\* Between the two readings, and the second one would find relay.lock unchanged.
Watched(t) == cmd[t].pc \in {"read", "backup", "tmp", "guard"} /\ LockUnchanged(t)

InBackup(m) == \E f \in dir.baks : m \in f.muts

\* No instance runs under a command that will go on, and what it replaces is in a backup.
Covered(t) ==
    /\ cmd[t].forced \/ At(t, "snap") \/ Committed(t) \/ Watched(t) => phase = "down"
    /\ Committed(t) \/ (Watched(t) /\ cmd[t].pc \in {"tmp", "guard"}) => \A m \in acked : InBackup(m)
    /\ Watched(t) /\ At(t, "backup") /\ Kind(t, "rekey") =>
         \A m \in acked : m \in cmd[t].raw.muts \/ InBackup(m)

Safe ==
    ~unseen =>
      /\ \A m \in acked, d \in durable : Kept(m, d)
      /\ phase = "master" => \A m \in acked : m \in mem.muts \/ InBackup(m)
      /\ \A t \in Tool : Covered(t)

ToolsInv == Typed /\ Sealed /\ (\A t \in Tool : Shape(t)) /\ Safe

-----------------------------------------------------------------------------
(* The directory *)

\* The directory becomes one of those a power loss may leave, or a new one without loss.
Moves ==
    /\ dir' \in durable' /\ \A d \in durable' : d \in durable \/ d = dir'
    /\ \/ dir' \in durable
       \/ /\ dir' \in Dirs /\ SoundDir(dir')
          /\ ~unseen' => \A m \in acked' : Kept(m, dir')

\* It keeps its backups.
KeepsBackups == \A f \in dir.baks : f \in dir'.baks

LEMMA DirSame == ASSUME Typed, SameDir PROVE Moves /\ KeepsBackups
BY DEF Typed, SameDir, Moves, KeepsBackups

LEMMA DirSynced == ASSUME Typed, SyncDir(dir) PROVE Moves /\ KeepsBackups
BY DEF Typed, SyncDir, Moves, KeepsBackups

LEMMA DirNew ==
  ASSUME Typed, NEW d, SetDir(d) \/ SyncDir(d), d \in Dirs, SoundDir(d), ~unseen' => \A m \in acked' : Kept(m, d)
  PROVE  Moves
BY DEF SetDir, SyncDir, Moves

\* The directories after such a step.
LEMMA DirFacts ==
  ASSUME ToolsInv, Moves, acked' = acked, ~unseen' => ~unseen
  PROVE  /\ \A d \in durable' : d \in Dirs /\ SoundDir(d)
         /\ ~unseen' => \A m \in acked', d \in durable' : Kept(m, d)
<1>1. \A d \in durable' : d \in Dirs /\ SoundDir(d)
  BY DEF ToolsInv, Typed, Sealed, Moves
<1>2. ASSUME ~unseen', NEW m \in acked', NEW d \in durable' PROVE Kept(m, d)
  <2>1. m \in acked /\ ~unseen
    BY <1>2
  <2>2. \A e \in durable : Kept(m, e)
    BY <2>1 DEF ToolsInv, Safe
  <2> QED BY <1>2, <2>2 DEF Moves
<1> QED BY <1>1, <1>2

LEMMA BackupsKept ==
  ASSUME KeepsBackups, NEW m, InBackup(m)
  PROVE  InBackup(m)'
BY DEF KeepsBackups, InBackup

-----------------------------------------------------------------------------
(* A step of one command *)

\* The other commands and the instance are not concerned.
Apart(t) ==
    /\ cmd' \in [Tool -> Cmds] /\ answer' \in [Tool -> Answers]
    /\ \A u \in Tool : u # t => cmd'[u] = cmd[u] /\ answer'[u] = answer[u]
    /\ UNCHANGED <<instance, unseen>>

LEMMA OthersKept ==
  ASSUME ToolsInv, NEW t \in Tool, Apart(t), KeepsBackups, NEW u \in Tool, u # t
  PROVE  Shape(u)' /\ (~unseen' => Covered(u)') /\ Sound(cmd'[u].raw)
<1>1. /\ cmd'[u] = cmd[u] /\ answer'[u] = answer[u]
      /\ lock' = lock /\ beats' = beats /\ phase' = phase /\ acked' = acked /\ unseen' = unseen
  BY DEF Apart, instance
<1>2. Shape(u) /\ Sound(cmd[u].raw) /\ (~unseen => Covered(u))
  BY DEF ToolsInv, Sealed, Safe
<1>3. Shape(u)'
  BY <1>1, <1>2 DEF Shape, Kind, KeepsBackups
<1>4. ASSUME ~unseen' PROVE Covered(u)'
  <2>1. /\ Committed(u)' = Committed(u) /\ Watched(u)' = Watched(u) /\ At(u, "snap")' = At(u, "snap")
        /\ At(u, "backup")' = At(u, "backup") /\ Kind(u, "rekey")' = Kind(u, "rekey")
    BY <1>1 DEF Committed, Watched, LockUnchanged, At, Kind
  <2>2. \A m \in acked : InBackup(m) => InBackup(m)'
    BY BackupsKept
  <2>3. Covered(u)
    BY <1>1, <1>2, <1>4
  <2> QED BY <1>1, <2>1, <2>2, <2>3 DEF Covered
<1> QED BY <1>1, <1>2, <1>3, <1>4

LEMMA CommandStep ==
  ASSUME ToolsInv, NEW t \in Tool, Apart(t), Moves, KeepsBackups,
         tmp' \in Files, Sound(tmp'), Sound(cmd'[t].raw), Shape(t)', ~unseen' => Covered(t)'
  PROVE  ToolsInv'
<1>1. /\ mem' = mem /\ lock' = lock /\ beats' = beats /\ phase' = phase /\ acked' = acked /\ unseen' = unseen
      /\ cmd' \in [Tool -> Cmds] /\ answer' \in [Tool -> Answers]
  BY DEF Apart, instance
<1>2. /\ \A d \in durable' : d \in Dirs /\ SoundDir(d)
      /\ ~unseen' => \A m \in acked', d \in durable' : Kept(m, d)
  BY <1>1, DirFacts
<1>3. Typed'
  BY <1>1, <1>2 DEF ToolsInv, Typed, Moves
<1>4. \A u \in Tool : Shape(u)' /\ (~unseen' => Covered(u)') /\ Sound(cmd'[u].raw)
  BY OthersKept
<1>5. Sealed'
  BY <1>1, <1>2, <1>4 DEF ToolsInv, Sealed
<1>6. Safe'
  <2>1. ASSUME ~unseen', phase' = "master", NEW m \in acked' PROVE m \in mem'.muts \/ InBackup(m)'
    BY <1>1, <2>1, BackupsKept DEF ToolsInv, Safe
  <2> QED BY <1>2, <1>4, <2>1 DEF Safe
<1> QED BY <1>3, <1>4, <1>5, <1>6 DEF ToolsInv

\* A command that ended has nothing left.
LEMMA EndStep ==
  ASSUME ToolsInv, NEW t \in Tool, cmd' = [cmd EXCEPT ![t] = NoCmd("ended")],
         answer' \in [Tool -> Answers], \A u \in Tool : u # t => answer'[u] = answer[u],
         UNCHANGED <<instance, unseen>>, Moves, KeepsBackups, tmp' \in {tmp, None}
  PROVE  ToolsInv'
<1>1. Sets(t, "ended", None, None, None, FALSE, None) /\ cmd'[t] = NoCmd("ended")
  BY SetsEnd, Zenon DEF ToolsInv, Typed
<1>2. Apart(t)
  BY <1>1 DEF Apart, Sets
<1>3. tmp' \in Files /\ Sound(tmp') /\ Sound(cmd'[t].raw)
  BY <1>1 DEF ToolsInv, Typed, Sealed, Files, Sound, Sets
<1>4. Shape(t)'
  BY <1>1, NoneAssumption DEF Sets, Shape, Kind, Copied
<1>5. Covered(t)'
  BY <1>1 DEF Sets, Covered, Committed, Watched, At, Kind
<1> QED BY <1>1, <1>2, <1>3, <1>4, <1>5, CommandStep

LEMMA EndsStep ==
  ASSUME ToolsInv, NEW t \in Tool, NEW a \in Answers, End(t, a), UNCHANGED <<instance, unseen>>,
         Moves, KeepsBackups, tmp' \in {tmp, None}
  PROVE  ToolsInv'
<1>1. answer' \in [Tool -> Answers] /\ \A u \in Tool : u # t => answer'[u] = answer[u]
  BY DEF End, ToolsInv, Typed
<1> QED BY <1>1, EndStep, Zenon DEF End

\* A command that goes on.
LEMMA GoesOn ==
  ASSUME ToolsInv, NEW t \in Tool, NEW p, NEW k, NEW f, NEW s, NEW b, NEW r, Sets(t, p, k, f, s, b, r),
         UNCHANGED <<answer, instance, unseen>>
  PROVE  Apart(t)
BY DEF Apart, Sets, ToolsInv, Typed

-----------------------------------------------------------------------------
(* Before anything is written *)

LEMMA LooksFacts ==
  ASSUME ToolsInv, Looks
  PROVE  /\ UNCHANGED <<instance, unseen>> /\ Moves /\ KeepsBackups
         /\ tmp' \in {tmp, None} /\ tmp' \in Files /\ Sound(tmp')
<1>1. SameDir /\ tmp' = tmp /\ UNCHANGED <<instance, unseen>>
  BY DEF Looks, SameDir
<1>2. Moves /\ KeepsBackups
  BY <1>1, DirSame DEF ToolsInv
<1> QED BY <1>1, <1>2 DEF ToolsInv, Typed, Sealed

\* Looking, and being done with it.
LEMMA LooksAndEnds ==
  ASSUME ToolsInv, NEW t \in Tool, Looks, NEW a \in Answers, End(t, a)
  PROVE  ToolsInv'
BY LooksFacts, EndsStep

LEMMA VerifyStep == ASSUME ToolsInv, NEW t \in Tool, Verify(t) PROVE ToolsInv'
<1>1. CASE \E a \in {"refused", "done"} : End(t, a)
  BY <1>1, LooksAndEnds DEF Verify, Answers
<1>2. ASSUME NEW k \in Kinds, NEW from \in Inputs(k),
             cmd' = [cmd EXCEPT ![t].pc = "probe", ![t].kind = k, ![t].from = from], UNCHANGED answer
      PROVE  ToolsInv'
  <2>1. /\ cmd[t] = NoCmd("idle") /\ cmd \in [Tool -> Cmds] /\ answer[t] = "none" /\ Looks
    BY DEF Verify, ToolsInv, Typed, Shape, At
  <2>2. cmd[t].snap = None /\ cmd[t].forced = FALSE /\ cmd[t].raw = None
    BY <2>1 DEF NoCmd
  <2>3. k \in {"restore", "rekey", "reset"}
    BY CommandAssumption
  <2>4. /\ k = "restore" => from = Archive
        /\ k = "rekey" => from \in Key
        /\ k = "reset" => from = None
    BY <2>3 DEF Inputs
  <2>5. from \in Sources /\ k \in Commands
    BY <2>3, <2>4, ArchiveFacts DEF Sources, Commands
  <2>6. Sets(t, "probe", k, from, None, FALSE, None)
    BY <1>2, <2>1, <2>2, <2>5, SetsVerify, Zenon
  <2>7. Apart(t)
    BY <1>2, <2>1, <2>6, LooksFacts, GoesOn, Zenon
  <2>8. Shape(t)'
    BY <1>2, <2>1, <2>4, <2>6 DEF Sets, Shape, Kind, Copied
  <2>9. Covered(t)'
    BY <2>6 DEF Sets, Covered, Committed, Watched, At, Kind
  <2>10. Sound(cmd'[t].raw)
    BY <2>6 DEF Sets, Sound
  <2> QED BY <2>1, <2>7, <2>8, <2>9, <2>10, LooksFacts, CommandStep
<1> QED BY <1>1, <1>2, Zenon DEF Verify

\* The parts of the shape of t that a step which only moves it keeps.
LEMMA OldShape ==
  ASSUME ToolsInv, NEW t \in Tool
  PROVE  Shape(t) /\ Sound(cmd[t].raw) /\ cmd \in [Tool -> Cmds] /\ cmd[t] \in Cmds /\ (~unseen => Covered(t))
BY DEF ToolsInv, Typed, Sealed, Safe

LEMMA ProbeStep == ASSUME ToolsInv, NEW t \in Tool, Probe(t) PROVE ToolsInv'
<1>0. At(t, "probe") /\ Looks
  BY DEF Probe
<1>1. CASE End(t, "refused")
  BY <1>0, <1>1, LooksAndEnds DEF Answers
<1>2. ASSUME phase = "down", UNCHANGED answer,
             NEW b, Sets(t, "snap", cmd[t].kind, cmd[t].from, cmd[t].snap, b, cmd[t].raw)
      PROVE  ToolsInv'
  <2>1. Apart(t)
    BY <1>0, <1>2, LooksFacts, GoesOn
  <2>2. Shape(t)'
    BY <1>0, <1>2, <2>1, OldShape, LooksFacts, Zenon DEF Sets, Shape, Kind, Copied, At, instance
  <2>3. phase' = "down"
    BY <1>0, <1>2, LooksFacts DEF instance
  <2>4. Covered(t)'
    BY <1>2, <2>3 DEF Sets, Covered, Committed, Watched, At, Kind
  <2>5. Sound(cmd'[t].raw)
    BY <1>2, OldShape DEF Sets
  <2> QED BY <1>0, <2>1, <2>2, <2>4, <2>5, LooksFacts, CommandStep
<1>3. CASE phase = "down" /\ Goto(t, "snap")
  <2>1. Sets(t, "snap", cmd[t].kind, cmd[t].from, cmd[t].snap, cmd[t].forced, cmd[t].raw)
    BY <1>3, OldShape, SetsPc, Zenon DEF Goto, PCs
  <2> QED BY <1>2, <1>3, <2>1 DEF Goto
<1>4. CASE phase = "down" /\ cmd' = [cmd EXCEPT ![t].pc = "snap", ![t].forced = TRUE] /\ UNCHANGED answer
  <2>1. Sets(t, "snap", cmd[t].kind, cmd[t].from, cmd[t].snap, TRUE, cmd[t].raw)
    BY <1>4, OldShape, SetsForced, Zenon
  <2> QED BY <1>2, <1>4, <2>1, Zenon
<1> QED BY <1>1, <1>3, <1>4 DEF Probe

LEMMA SnapshotStep == ASSUME ToolsInv, NEW t \in Tool, Snapshot(t) PROVE ToolsInv'
<1>0. At(t, "snap") /\ Looks
  BY DEF Snapshot
<1>1. CASE End(t, "refused")
  BY <1>0, <1>1, LooksAndEnds DEF Answers
<1>2. CASE cmd' = [cmd EXCEPT ![t].pc = "read", ![t].snap = lock] /\ UNCHANGED answer
  <2>0. Sets(t, "read", cmd[t].kind, cmd[t].from, lock, cmd[t].forced, cmd[t].raw)
    BY <1>2, OldShape, SetsSnap, Zenon DEF ToolsInv, Typed
  <2>1. Apart(t)
    BY <1>0, <1>2, <2>0, LooksFacts, GoesOn
  <2>2. Shape(t)'
    <3>1. lock # None => lock <= beats
      BY DEF ToolsInv, Typed
    <3> QED BY <1>0, <1>2, <2>0, <3>1, OldShape, LooksFacts DEF Sets, Shape, Kind, Copied, At, instance
  <2>3. ASSUME ~unseen' PROVE Covered(t)'
    <3>1. phase' = "down"
      BY <1>0, <2>3, LooksFacts, OldShape DEF instance, Covered, At
    <3> QED BY <2>0, <3>1 DEF Sets, Covered, Committed, Watched, At, Kind
  <2>4. Sound(cmd'[t].raw)
    BY <2>0, OldShape DEF Sets
  <2> QED BY <1>0, <2>1, <2>2, <2>3, <2>4, LooksFacts, CommandStep
<1> QED BY <1>1, <1>2 DEF Snapshot

LEMMA ReadStep == ASSUME ToolsInv, NEW t \in Tool, Read(t) PROVE ToolsInv'
<1>0. At(t, "read") /\ Looks
  BY DEF Read
<1>1. CASE \E a \in {"refused", "done"} : End(t, a)
  BY <1>0, <1>1, LooksAndEnds DEF Answers
<1>2. ASSUME VerifyFile(cmd[t].kind, cmd[t].from), CheckRekeyCoverage(t), UNCHANGED answer,
             cmd' = [cmd EXCEPT ![t].pc = "backup",
                       ![t].raw = IF Kind(t, "restore") THEN cmd[t].from ELSE dir.state]
      PROVE  ToolsInv'
  <2> DEFINE r == IF Kind(t, "restore") THEN cmd[t].from ELSE dir.state
  <2>1. r \in Files /\ Sound(r)
    <3>1. CASE Kind(t, "restore")
      BY <3>1, OldShape, ArchiveFacts DEF Shape, Files
    <3>2. CASE ~Kind(t, "restore")
      BY <3>2 DEF ToolsInv, Typed, Sealed, SoundDir, Dirs
    <3> QED BY <3>1, <3>2
  <2>2. r # None
    BY <1>2 DEF VerifyFile, Authentic, Kind
  <2>3. Kind(t, "rekey") => r = dir.state /\ r.odd = None
    BY <1>2 DEF CheckRekeyCoverage, Kind
  <2>4. Sets(t, "backup", cmd[t].kind, cmd[t].from, cmd[t].snap, cmd[t].forced, r)
    BY <1>2, <2>1, OldShape, SetsRead, Zenon
  <2> HIDE DEF r
  <2>5. Apart(t)
    BY <1>0, <1>2, <2>4, LooksFacts, GoesOn
  <2>6. Shape(t)'
    BY <1>0, <1>2, <2>2, <2>3, <2>4, OldShape, LooksFacts DEF Sets, Shape, Kind, Copied, At, instance
  <2>7. ASSUME ~unseen' PROVE Covered(t)'
    <3>1. /\ phase' = phase /\ acked' = acked /\ lock' = lock /\ unseen' = unseen /\ dir' = dir
      BY <1>0 DEF Looks, instance
    <3>2. Watched(t)' => Watched(t)
      BY <1>0, <2>4, <3>1 DEF Sets, Watched, LockUnchanged, At
    <3>3. \A m \in acked : Kept(m, dir)
      BY <2>7, <3>1, Zenon DEF ToolsInv, Safe, Typed
    <3>4. Kind(t, "rekey") => \A m \in acked : m \in r.muts \/ InBackup(m)'
      BY <2>2, <2>3, <3>1, <3>3, Zenon DEF Kept, InBackup
    <3>5. Covered(t)
      BY <2>7, <3>1, OldShape
    <3> QED BY <1>0, <2>4, <3>1, <3>2, <3>4, <3>5, Zenon DEF Sets, Covered, Committed, At, Kind
  <2>8. Sound(cmd'[t].raw)
    BY <2>1, <2>4 DEF Sets
  <2> QED BY <1>0, <2>5, <2>6, <2>7, <2>8, LooksFacts, CommandStep
<1> QED BY <1>1, <1>2 DEF Read

-----------------------------------------------------------------------------
(* Backup and replacement *)

\* The command is bound to go on unless it fails.
Ready(t) == Committed(t) \/ (Watched(t) /\ cmd[t].pc \in {"tmp", "guard"})

\* Then what was acknowledged is in a backup.
LEMMA ReadyFacts ==
  ASSUME ToolsInv, NEW t \in Tool, Ready(t), ~unseen
  PROVE  phase = "down" /\ \A m \in acked : InBackup(m)
BY OldShape DEF Ready, Covered

LEMMA Progress ==
  ASSUME ToolsInv, NEW t \in Tool, NEW p \in Copied, Goto(t, p), cmd[t].pc \in Copied, Ready(t)' => Ready(t),
         p \in {"check", "undo"} => Kind(t, "rekey"), UNCHANGED <<instance, unseen>>, Moves, KeepsBackups,
         tmp' \in Files, Sound(tmp')
  PROVE  ToolsInv'
<1>1. Sets(t, p, cmd[t].kind, cmd[t].from, cmd[t].snap, cmd[t].forced, cmd[t].raw)
  BY OldShape, SetsPc, Zenon DEF Goto, PCs, Copied
<1>2. Apart(t)
  BY <1>1, GoesOn DEF Goto
<1>3. p \notin {"idle", "ended", "snap", "read", "backup"} /\ cmd[t].pc \notin {"idle", "ended"}
  BY DEF Copied
<1>4. Shape(t)'
  BY <1>1, <1>3, OldShape DEF Sets, Shape, Kind, Goto, instance, KeepsBackups
<1>5. ASSUME ~unseen' PROVE Covered(t)'
  <2>1. phase' = phase /\ acked' = acked /\ ~unseen
    BY <1>5 DEF instance
  <2>2. Committed(t)' \/ Watched(t)' => Ready(t)
    BY <1>1, <1>3, Zenon DEF Sets, Ready, Watched
  <2>3. Ready(t) => phase = "down" /\ \A m \in acked : InBackup(m)'
    BY <2>1, ReadyFacts, BackupsKept, Zenon
  <2>4. cmd[t].forced => phase = "down"
    BY <2>1, OldShape DEF Covered
  <2> QED BY <1>1, <1>3, <2>1, <2>2, <2>3, <2>4, Zenon DEF Sets, Covered, At
<1>6. Sound(cmd'[t].raw)
  BY <1>1, OldShape DEF Sets
<1> QED BY <1>2, <1>4, <1>5, <1>6, CommandStep

LEMMA BackupStep == ASSUME ToolsInv, NEW t \in Tool, Backup(t) PROVE ToolsInv'
<1> DEFINE B == dir.baks \cup (Copies(t) \ {None})
           d == [dir EXCEPT !.baks = B]
<1>0. /\ At(t, "backup") /\ tmp' = tmp /\ UNCHANGED <<instance, unseen>> /\ dir \in Dirs
      /\ tmp \in Files /\ Sound(tmp) /\ SoundDir(dir)
  BY DEF Backup, ToolsInv, Typed, Sealed
<1>1. CASE SameDir /\ End(t, "failed")
  BY <1>0, <1>1, DirSame, EndsStep DEF ToolsInv, Answers
<1>2. CASE Goto(t, "tmp") /\ (SetDir(d) \/ SyncDir(d))
  <2>1. /\ Kind(t, "restore") \/ Kind(t, "rekey") \/ Kind(t, "reset")
        /\ cmd[t].raw \in File
    BY <1>0, OldShape, CommandAssumption, Zenon DEF Shape, At, Kind, Cmds, Files
  <2>2. /\ Kind(t, "rekey") => Copies(t) = {cmd[t].raw}
        /\ ~Kind(t, "rekey") => dir.state \in Copies(t)
        /\ \A f \in Copies(t) : f \in Files
    BY <1>0, <2>1 DEF Copies, Kind, Dirs, Files
  <2>3. B \in Backups
    BY <1>0, <2>2 DEF Dirs, Backups, Files
  <2>4. Holds(d, dir.state, dir.prev, B)
    BY <1>0, <2>3, WithBackups
  <2>5. dir.baks \subseteq B /\ (Copies(t) \ {None}) \subseteq B
    OBVIOUS
  <2> HIDE DEF B, d
  <2>6. SoundDir(d) /\ d \in Dirs
    BY <1>0, <2>4 DEF SoundDir, Holds
  <2>7. ~unseen => \A m \in acked : Kept(m, dir) /\ Kept(m, d)
    BY <2>4, <2>5, Zenon DEF ToolsInv, Safe, Typed, Kept, Holds
  <2>8. Moves /\ dir' = d
    BY <1>0, <1>2, <2>6, <2>7, DirNew DEF ToolsInv, SetDir, SyncDir, instance
  <2>9. KeepsBackups
    BY <2>4, <2>5, <2>8 DEF KeepsBackups, Holds
  <2>10. Sets(t, "tmp", cmd[t].kind, cmd[t].from, cmd[t].snap, cmd[t].forced, cmd[t].raw)
    BY <1>2, OldShape, SetsPc, Zenon DEF Goto, PCs
  <2>11. Apart(t)
    BY <1>0, <1>2, <2>10, GoesOn DEF Goto
  <2>12. Kind(t, "rekey") => cmd[t].raw \in dir'.baks
    BY <2>1, <2>2, <2>4, <2>5, <2>8, NoneAssumption DEF Holds
  <2>13. Shape(t)'
    BY <1>0, <1>2, <2>10, <2>12, OldShape DEF Sets, Shape, Kind, Goto, instance, At, Copied
  <2>14. ASSUME ~unseen' PROVE Covered(t)'
    <3>1. phase' = phase /\ acked' = acked /\ lock' = lock /\ unseen' = unseen
      BY <1>0 DEF instance
    <3>2. Watched(t)' => Watched(t)
      BY <1>0, <2>10, <3>1 DEF Sets, Watched, LockUnchanged, At
    <3>3. ASSUME Watched(t), NEW m \in acked PROVE InBackup(m)'
      <4>1. CASE InBackup(m)
        BY <2>9, <4>1, BackupsKept
      <4>2. CASE Kind(t, "rekey") /\ m \in cmd[t].raw.muts
        BY <2>12, <4>2 DEF InBackup
      <4>3. CASE ~Kind(t, "rekey") /\ dir.state # None /\ m \in dir.state.muts
        <5>1. dir.state \in dir'.baks
          BY <2>2, <2>4, <2>5, <2>8, <4>3 DEF Holds
        <5> QED BY <4>3, <5>1 DEF InBackup
      <4>4. Kept(m, dir) /\ Covered(t)
        BY <2>7, <2>14, <3>1, OldShape
      <4> QED BY <1>0, <3>3, <4>1, <4>2, <4>3, <4>4 DEF Kept, InBackup, Covered
    <3>4. Covered(t)
      BY <2>14, <3>1, OldShape
    <3> QED BY <1>0, <2>10, <3>1, <3>2, <3>3, <3>4, Zenon DEF Sets, Covered, Committed, At, Kind
  <2>15. Sound(cmd'[t].raw)
    BY <2>10, OldShape DEF Sets
  <2> QED BY <1>0, <2>8, <2>9, <2>11, <2>13, <2>14, <2>15, CommandStep
<1> QED BY <1>1, <1>2 DEF Backup

LEMMA WriteTmpStep == ASSUME ToolsInv, NEW t \in Tool, WriteTmp(t) PROVE ToolsInv'
<1>0. At(t, "tmp") /\ UNCHANGED <<instance, unseen>> /\ SameDir /\ Moves /\ KeepsBackups
  BY DirSame DEF WriteTmp, ToolsInv
<1>1. CASE tmp' = None /\ End(t, "failed")
  BY <1>0, <1>1, EndsStep DEF Answers
<1>2. CASE tmp' = NewFile(t) /\ Goto(t, "guard")
  <2>1. /\ Kind(t, "restore") \/ Kind(t, "rekey") \/ Kind(t, "reset")
        /\ cmd[t].raw \in File /\ Sound(cmd[t].raw)
        /\ Kind(t, "rekey") => cmd[t].from \in Key /\ cmd[t].raw.odd = None
    BY <1>0, OldShape, CommandAssumption, Zenon DEF Shape, At, Kind, Cmds, Files, Copied
  <2>2. NewFile(t) \in File /\ Sound(NewFile(t))
    <3>1. CASE Kind(t, "restore")
      <4>1. NewFile(t) = cmd[t].raw
        BY <3>1 DEF NewFile, Kind
      <4> QED BY <2>1, <4>1
    <3>2. CASE Kind(t, "rekey")
      <4>1. NewFile(t) = TransformSecrets(cmd[t].raw, cmd[t].from)
        BY <3>2 DEF NewFile, Kind
      <4> QED BY <2>1, <3>2, <4>1, Rekeyed
    <3>3. CASE Kind(t, "reset")
      <4>1. NewFile(t) = [cmd[t].raw EXCEPT !.anchor = FALSE]
        BY <3>3 DEF NewFile, Kind
      <4> QED BY <2>1, <4>1, Unanchored
    <3> QED BY <2>1, <3>1, <3>2, <3>3
  <2>3. Ready(t)' => Ready(t)
    <3>1. Sets(t, "guard", cmd[t].kind, cmd[t].from, cmd[t].snap, cmd[t].forced, cmd[t].raw)
      BY <1>2, OldShape, SetsPc, Zenon DEF Goto, PCs
    <3> QED BY <1>0, <3>1 DEF Sets, Ready, Committed, Watched, LockUnchanged, At, instance
  <2>4. "guard" \in Copied /\ cmd[t].pc \in Copied /\ tmp' \in Files /\ Sound(tmp')
    BY <1>0, <1>2, <2>2 DEF Copied, At, Files
  <2> QED BY <1>0, <1>2, <2>3, <2>4, Progress
<1> QED BY <1>1, <1>2 DEF WriteTmp

LEMMA BeforeRenameStep == ASSUME ToolsInv, NEW t \in Tool, BeforeRename(t) PROVE ToolsInv'
<1>0. /\ At(t, "guard") /\ UNCHANGED <<instance, unseen>> /\ Moves /\ KeepsBackups
      /\ tmp \in Files /\ Sound(tmp)
  BY DirSame DEF BeforeRename, ToolsInv, Typed, Sealed
<1>1. CASE tmp' = None /\ End(t, "appeared")
  BY <1>0, <1>1, EndsStep DEF Answers
<1>2. ASSUME LockUnchanged(t), NEW p \in {"rotate", "rename"}, Goto(t, p), tmp' = tmp PROVE ToolsInv'
  <2>1. Ready(t) /\ p \in Copied /\ cmd[t].pc \in Copied /\ p \notin {"check", "undo"}
    BY <1>0, <1>2 DEF Ready, Watched, At, Copied
  <2> QED BY <1>0, <1>2, <2>1, Progress
<1> QED BY <1>1, <1>2 DEF BeforeRename

LEMMA RotateStep == ASSUME ToolsInv, NEW t \in Tool, Rotate(t) PROVE ToolsInv'
<1>0. /\ At(t, "rotate") /\ UNCHANGED <<instance, unseen>> /\ dir \in Dirs /\ SoundDir(dir)
      /\ tmp \in Files /\ Sound(tmp) /\ Ready(t) /\ Typed
  BY DEF Rotate, ToolsInv, Typed, Sealed, Ready, Committed, At
<1>1. CASE SameDir /\ tmp' = None /\ End(t, "failed")
  BY <1>0, <1>1, DirSame, EndsStep DEF Answers
<1>2. ASSUME Goto(t, "rename"), tmp' = tmp, Moves, KeepsBackups PROVE ToolsInv'
  <2>1. "rename" \in Copied /\ cmd[t].pc \in Copied
    BY <1>0 DEF Copied, At
  <2> QED BY <1>0, <1>2, <2>1, Progress
<1>3. CASE SameDir /\ Goto(t, "rename") /\ tmp' = tmp
  BY <1>0, <1>2, <1>3, DirSame
<1>4. ASSUME NEW s \in {dir.state, None}, NEW e, Holds(e, s, dir.state, dir.baks), dir.state # None,
             SetDir(e), tmp' = tmp, Goto(t, "rename")
      PROVE  ToolsInv'
  <2>1. e \in Dirs /\ SoundDir(e) /\ e.baks = dir.baks
    BY <1>0, <1>4, Zenon DEF Holds, SoundDir, Sound
  <2>2. ~unseen' => \A m \in acked' : Kept(m, e)
    BY <1>0, <2>1, ReadyFacts, Zenon DEF Kept, InBackup, instance
  <2>3. Moves /\ KeepsBackups
    BY <1>0, <1>4, <2>1, <2>2, DirNew, Zenon DEF KeepsBackups, SetDir
  <2> QED BY <1>2, <1>4, <2>3
<1>5. dir.state \in Files /\ None \in Files
  BY <1>0 DEF Dirs, Files
<1>6. CASE dir.state # None /\ Goto(t, "rename") /\ SetDir([dir EXCEPT !.prev = dir.state]) /\ tmp' = tmp
  BY <1>0, <1>4, <1>5, <1>6, WithPrev
<1>7. CASE /\ dir.state # None /\ Goto(t, "rename") /\ tmp' = tmp
           /\ SetDir([dir EXCEPT !.prev = dir.state, !.state = None])
  BY <1>0, <1>4, <1>5, <1>7, WithPrevState, Zenon
<1> QED BY <1>1, <1>3, <1>6, <1>7 DEF Rotate

LEMMA RenameStep == ASSUME ToolsInv, NEW t \in Tool, Rename(t) PROVE ToolsInv'
<1>0. /\ At(t, "rename") /\ UNCHANGED <<instance, unseen>> /\ dir \in Dirs /\ SoundDir(dir)
      /\ tmp \in Files /\ Sound(tmp) /\ Ready(t) /\ Typed
  BY DEF Rename, ToolsInv, Typed, Sealed, Ready, Committed, At
<1>1. CASE SameDir /\ tmp' \in {tmp, None} /\ End(t, "failed")
  BY <1>0, <1>1, DirSame, EndsStep DEF Answers
<1>2. CASE SetDir([dir EXCEPT !.state = tmp]) /\ tmp' = None /\ Goto(t, "fsync")
  <2> DEFINE e == [dir EXCEPT !.state = tmp]
  <2>1. Holds(e, tmp, dir.prev, dir.baks)
    BY <1>0, WithState
  <2> HIDE DEF e
  <2>2. e \in Dirs /\ SoundDir(e) /\ e.baks = dir.baks
    BY <1>0, <2>1 DEF Holds, SoundDir
  <2>3. ~unseen' => \A m \in acked' : Kept(m, e)
    BY <1>0, <2>2, ReadyFacts DEF Kept, InBackup, instance
  <2>4. SetDir(e)
    BY <1>2 DEF e
  <2>5. Moves /\ KeepsBackups
    BY <1>0, <2>2, <2>3, <2>4, DirNew DEF KeepsBackups, SetDir
  <2>6. "fsync" \in Copied /\ cmd[t].pc \in Copied /\ tmp' \in Files /\ Sound(tmp')
    BY <1>0, <1>2 DEF Copied, At, Files, Sound
  <2> QED BY <1>0, <1>2, <2>5, <2>6, Progress
<1> QED BY <1>1, <1>2 DEF Rename

LEMMA FsyncStep == ASSUME ToolsInv, NEW t \in Tool, Fsync(t) PROVE ToolsInv'
<1>0. /\ At(t, "fsync") /\ UNCHANGED <<instance, unseen>> /\ tmp \in Files /\ Sound(tmp) /\ Typed
  BY DEF Fsync, ToolsInv, Typed, Sealed
<1>1. CASE SameDir /\ tmp' = None /\ End(t, "failed")
  BY <1>0, <1>1, DirSame, EndsStep DEF Answers
<1>2. CASE SyncDir(dir) /\ tmp' = tmp /\ End(t, "done")
  BY <1>0, <1>2, DirSynced, EndsStep DEF Answers
<1>3. CASE SyncDir(dir) /\ tmp' = tmp /\ Kind(t, "rekey") /\ Goto(t, "check")
  <2>1. Ready(t) /\ "check" \in Copied /\ cmd[t].pc \in Copied
    BY <1>0, <1>3 DEF Ready, Committed, At, Copied
  <2> QED BY <1>0, <1>3, <2>1, DirSynced, Progress
<1> QED BY <1>1, <1>2, <1>3 DEF Fsync

LEMMA CheckStep == ASSUME ToolsInv, NEW t \in Tool, Check(t) PROVE ToolsInv'
<1>0. /\ At(t, "check") /\ UNCHANGED <<instance, unseen>> /\ tmp \in Files /\ Sound(tmp) /\ tmp' = tmp
      /\ Moves /\ KeepsBackups
  BY DirSame DEF Check, ToolsInv, Typed, Sealed
<1>1. CASE End(t, "done")
  BY <1>0, <1>1, EndsStep DEF Answers
<1>2. CASE Goto(t, "undo")
  <2>1. Kind(t, "rekey")
    BY <1>0, OldShape, Zenon DEF Shape, At
  <2>2. Ready(t) /\ "undo" \in Copied /\ cmd[t].pc \in Copied
    BY <1>0, <2>1, Zenon DEF Ready, Committed, At, Copied
  <2> QED BY <1>0, <1>2, <2>1, <2>2, Progress
<1> QED BY <1>1, <1>2 DEF Check

LEMMA PutBackStep == ASSUME ToolsInv, NEW t \in Tool, PutBack(t) PROVE ToolsInv'
<1>0. /\ At(t, "undo") /\ UNCHANGED <<instance, unseen>> /\ tmp' = None /\ Typed /\ dir \in Dirs /\ SoundDir(dir)
  BY DEF PutBack, ToolsInv, Typed, Sealed
<1>1. CASE SameDir /\ End(t, "stuck")
  BY <1>0, <1>1, DirSame, EndsStep DEF Answers
<1>2. CASE SyncDir([dir EXCEPT !.state = cmd[t].raw]) /\ End(t, "undone")
  <2> DEFINE e == [dir EXCEPT !.state = cmd[t].raw]
  <2>1. cmd[t].raw \in Files /\ Sound(cmd[t].raw)
    BY OldShape DEF Cmds
  <2>2. Holds(e, cmd[t].raw, dir.prev, dir.baks)
    BY <1>0, <2>1, WithState
  <2> HIDE DEF e
  <2>3. e \in Dirs /\ SoundDir(e) /\ e.baks = dir.baks
    BY <1>0, <2>1, <2>2 DEF Holds, SoundDir
  <2>4. Ready(t)
    BY <1>0, OldShape, Zenon DEF Ready, Committed, Shape, At
  <2>5. ~unseen' => \A m \in acked' : Kept(m, e)
    BY <1>0, <2>3, <2>4, ReadyFacts, Zenon DEF Kept, InBackup, instance
  <2>6. SyncDir(e)
    BY <1>2 DEF e
  <2>7. Moves /\ KeepsBackups
    BY <1>0, <2>3, <2>5, <2>6, DirNew DEF KeepsBackups, SyncDir
  <2> QED BY <1>0, <1>2, <2>7, EndsStep DEF Answers
<1> QED BY <1>1, <1>2 DEF PutBack

LEMMA ToolCrashStep == ASSUME ToolsInv, NEW t \in Tool, ToolCrash(t) PROVE ToolsInv'
<1>1. SameDir /\ tmp' = tmp /\ UNCHANGED <<instance, unseen>> /\ answer' = answer
      /\ cmd' = [cmd EXCEPT ![t] = NoCmd("ended")]
  BY DEF ToolCrash, SameDir
<1>2. Moves /\ KeepsBackups /\ answer \in [Tool -> Answers]
  BY <1>1, DirSame DEF ToolsInv, Typed
<1> QED BY <1>1, <1>2, EndStep, Zenon

-----------------------------------------------------------------------------
(* Steps of the instance *)

\* The commands are not concerned, the backups stay.
LEMMA InstanceStep ==
  ASSUME ToolsInv, UNCHANGED tools, Moves, KeepsBackups, tmp' \in {tmp, None},
         mem' \in Files, Sound(mem'), phase' = "master" => mem' # None,
         beats' \in Nat, beats <= beats', beats' <= MaxBeat, lock' \in Marks, lock' # None => lock' <= beats',
         acked' \subseteq Mutation,
         ~unseen' => /\ \A m \in acked', d \in durable' : Kept(m, d)
                     /\ phase' = "master" => \A m \in acked' : m \in mem'.muts \/ InBackup(m)'
                     /\ \A t \in Tool : Covered(t)'
  PROVE  ToolsInv'
<1>1. cmd' = cmd /\ answer' = answer
  BY DEF tools
<1>2. \A d \in durable' : d \in Dirs /\ SoundDir(d)
  BY Zenon DEF ToolsInv, Typed, Sealed, Moves
<1>3. Typed'
  BY <1>1, <1>2, Zenon DEF ToolsInv, Typed, Moves, Files
<1>4. Sealed'
  BY <1>1, <1>2, Zenon DEF ToolsInv, Sealed, Sound
<1>5. ASSUME NEW t \in Tool PROVE Shape(t)'
  <2>1. cmd[t].snap \in Marks
    BY OldShape, Zenon DEF Cmds
  <2>2. beats \in Nat
    BY DEF ToolsInv, Typed
  <2>3. cmd[t].snap # None => cmd[t].snap <= beats
    BY OldShape, Zenon DEF Shape
  <2>4. cmd[t].snap # None => cmd[t].snap \in Nat
    BY <2>1, BoundAssumption DEF Marks
  <2>5. cmd[t].snap # None => cmd[t].snap <= beats'
    <3> DEFINE s == cmd[t].snap
    <3>1. (s # None => s \in Nat) /\ (s # None => s <= beats)
      BY <2>3, <2>4
    <3> HIDE DEF s
    <3>2. s # None => s <= beats'
      BY <2>2, <3>1
    <3> QED BY <3>2 DEF s
  <2> QED BY <1>1, <2>5, OldShape, Zenon DEF Shape, Kind, KeepsBackups
<1>6. Safe'
  BY DEF Safe
<1> QED BY <1>3, <1>4, <1>5, <1>6 DEF ToolsInv

\* No command is bound to go on under an instance that runs.
LEMMA Active ==
  ASSUME ToolsInv, phase # "down", ~unseen, NEW t \in Tool
  PROVE  ~cmd[t].forced /\ ~At(t, "snap") /\ ~Committed(t) /\ ~Watched(t)
BY OldShape, Zenon DEF Covered

LEMMA QuietFacts ==
  ASSUME ToolsInv
  PROVE  /\ mem \in Files /\ Sound(mem) /\ (phase = "master" => mem # None) /\ tmp \in {tmp, None}
         /\ beats \in Nat /\ beats <= beats /\ beats <= MaxBeat /\ lock \in Marks /\ (lock # None => lock <= beats)
         /\ acked \subseteq Mutation /\ dir \in durable /\ dir \in Dirs /\ SoundDir(dir) /\ None \in Marks
         /\ None \in Files /\ Sound(None)
<1>1. beats <= beats
  BY DEF ToolsInv, Typed
<1> QED BY <1>1 DEF ToolsInv, Typed, Sealed, Marks, Files, Sound

\* A new content of relay.lock is noticed.
LEMMA NewContentFacts ==
  ASSUME ToolsInv, NewContent
  PROVE  /\ beats' \in Nat /\ beats <= beats' /\ beats' <= MaxBeat /\ lock' \in Marks
         /\ (lock' # None => lock' <= beats')
         /\ \A t \in Tool : cmd[t].snap # lock'
<1>1. beats \in Nat /\ beats' = beats + 1 /\ lock' = beats + 1 /\ beats < MaxBeat /\ MaxBeat \in Nat
  BY BoundAssumption DEF ToolsInv, Typed, NewContent
<1>2. beats' \in Nat /\ beats <= beats' /\ beats' <= MaxBeat /\ lock' \in Marks /\ lock' <= beats'
  BY <1>1 DEF Marks
<1>3. lock' # None
  BY <1>1, NoneAssumption
<1>4. ASSUME NEW t \in Tool, cmd[t].snap = lock' PROVE FALSE
  <2>1. cmd[t].snap <= beats
    BY <1>3, <1>4, OldShape, Zenon DEF Shape
  <2> QED BY <1>1, <1>4, <2>1
<1> QED BY <1>2, <1>4

LEMMA AcquireStep == ASSUME ToolsInv, Acquire PROVE ToolsInv'
<1>0. /\ SameDir /\ UNCHANGED tools /\ mem' = mem /\ tmp' = tmp /\ acked' = acked /\ phase' = "locked" /\ NewContent
      /\ unseen' = (unseen \/ Blind)
  BY DEF Acquire, SameDir
<1>1. Moves /\ KeepsBackups
  BY <1>0, DirSame DEF ToolsInv
<1>2. ASSUME ~unseen', NEW t \in Tool PROVE Covered(t)'
  <2>1. ~cmd[t].forced /\ ~At(t, "snap") /\ ~Committed(t)
    BY <1>0, <1>2, Zenon DEF Blind, Committed, At, Kind
  <2>2. cmd' = cmd /\ lock' # cmd[t].snap
    BY <1>0, NewContentFacts, Zenon DEF tools
  <2> QED BY <2>1, <2>2, Zenon DEF Covered, Committed, Watched, LockUnchanged, At, Kind
<1>3. ~unseen' => \A m \in acked', d \in durable' : Kept(m, d)
  BY <1>0, <1>1, DirFacts, Zenon
<1> QED BY <1>0, <1>1, <1>2, <1>3, NewContentFacts, QuietFacts, InstanceStep, Zenon

LEMMA HeartbeatStep == ASSUME ToolsInv, Heartbeat PROVE ToolsInv'
<1>0. /\ SameDir /\ UNCHANGED tools /\ mem' = mem /\ tmp' = tmp /\ acked' = acked /\ phase' = phase /\ phase # "down"
      /\ NewContent /\ unseen' = unseen /\ dir' = dir
  BY DEF Heartbeat, SameDir
<1>1. Moves /\ KeepsBackups
  BY <1>0, DirSame DEF ToolsInv
<1>2. ASSUME ~unseen', NEW t \in Tool PROVE Covered(t)'
  <2>1. ~cmd[t].forced /\ ~At(t, "snap") /\ ~Committed(t)
    BY <1>0, <1>2, Active
  <2>2. cmd' = cmd /\ lock' # cmd[t].snap
    BY <1>0, NewContentFacts DEF tools
  <2> QED BY <2>1, <2>2, Zenon DEF Covered, Committed, Watched, LockUnchanged, At, Kind
<1>3. ~unseen' => \A m \in acked', d \in durable' : Kept(m, d)
  BY <1>0, <1>1, DirFacts
<1>4. ~unseen' => (phase' = "master" => \A m \in acked' : m \in mem'.muts \/ InBackup(m)')
  BY <1>0 DEF ToolsInv, Safe, InBackup
<1> QED BY <1>0, <1>1, <1>2, <1>3, <1>4, NewContentFacts, QuietFacts, InstanceStep, Zenon

\* The lock is removed: a command that relies on it is past the point where it matters, or not there yet.
LEMMA ReleaseStep ==
  ASSUME ToolsInv, phase # "down", Release, SameDir, UNCHANGED <<tools, tmp, beats, acked>>
  PROVE  ToolsInv'
<1>0. /\ lock' = None /\ phase' = "down" /\ mem' = None /\ cmd' = cmd
      /\ ~unseen' => ~unseen /\ \A t \in Tool : cmd[t].pc \notin {"backup", "tmp", "guard"}
  BY Zenon DEF Release, tools
<1>1. Moves /\ KeepsBackups
  BY DirSame DEF ToolsInv
<1>2. ASSUME ~unseen', NEW t \in Tool PROVE Covered(t)'
  <2>1. cmd[t].pc \notin {"backup", "tmp", "guard"} /\ ~Committed(t)
    BY <1>0, <1>2, Active, Zenon
  <2> QED BY <1>0, <2>1, Zenon DEF Covered, Committed, Watched, At, Kind
<1>3. ~unseen' => \A m \in acked', d \in durable' : Kept(m, d)
  BY <1>0, <1>1, DirFacts, Zenon
<1> QED BY <1>0, <1>1, <1>2, <1>3, QuietFacts, InstanceStep, Zenon

LEMMA StopStep == ASSUME ToolsInv, Stop PROVE ToolsInv'
BY ReleaseStep DEF Stop, SameDir

LEMMA LoadStep == ASSUME ToolsInv, NEW k \in Key, Load(k) PROVE ToolsInv'
<1>0. phase = "locked" /\ SameDir /\ UNCHANGED <<tools, tmp, beats, acked>> /\ dir' = dir
  BY DEF Load, SameDir
<1>1. CASE Release
  BY <1>0, <1>1, ReleaseStep
<1>2. CASE Opens(dir, k) /\ mem' = Loaded(dir) /\ phase' = "master" /\ UNCHANGED <<lock, unseen>>
  <2>1. Moves /\ KeepsBackups
    BY <1>0, DirSame DEF ToolsInv
  <2>2. mem' \in Files /\ Sound(mem') /\ mem' # None
    BY <1>2, QuietFacts DEF Opens, Authentic, Loaded, Dirs, SoundDir
  <2>3. ASSUME ~unseen', NEW t \in Tool PROVE Covered(t)'
    BY <1>0, <1>2, <2>3, Active, Zenon DEF tools, Covered, Committed, Watched, LockUnchanged, At, Kind
  <2>4. ~unseen' => \A m \in acked', d \in durable' : Kept(m, d)
    BY <1>0, <1>2, <2>1, DirFacts
  <2>5. ASSUME ~unseen', NEW m \in acked' PROVE m \in mem'.muts \/ InBackup(m)'
    <3>1. Kept(m, dir)
      BY <1>0, <2>4, <2>5, QuietFacts DEF SameDir
    <3> QED BY <1>0, <1>2, <3>1 DEF Kept, Loaded, InBackup
  <2> QED BY <1>0, <1>2, <2>1, <2>2, <2>3, <2>4, <2>5, QuietFacts, InstanceStep, Zenon
<1> QED BY <1>1, <1>2 DEF Load

LEMMA InstanceCrashStep == ASSUME ToolsInv, InstanceCrash PROVE ToolsInv'
<1>0. /\ phase # "down" /\ SameDir /\ UNCHANGED <<tools, tmp, beats, acked, lock, unseen>>
      /\ phase' = "down" /\ mem' = None
  BY DEF InstanceCrash, SameDir
<1>1. Moves /\ KeepsBackups
  BY <1>0, DirSame DEF ToolsInv
<1>2. ASSUME ~unseen', NEW t \in Tool PROVE Covered(t)'
  BY <1>0, <1>2, Active, Zenon DEF tools, Covered, Committed, Watched, LockUnchanged, At, Kind
<1>3. ~unseen' => \A m \in acked', d \in durable' : Kept(m, d)
  BY <1>0, <1>1, DirFacts
<1> QED BY <1>0, <1>1, <1>2, <1>3, QuietFacts, InstanceStep, Zenon

LEMMA CommitStep == ASSUME ToolsInv, NEW m \in Mutation, Commit(m) PROVE ToolsInv'
<1> DEFINE new == [mem EXCEPT !.muts = @ \cup {m}]
           prev == IF dir.state = None THEN dir.prev ELSE dir.state
           e == [dir EXCEPT !.prev = prev, !.state = new]
<1>0. /\ phase = "master" /\ SyncDir(e) /\ mem' = new /\ tmp' = None /\ acked' = acked \cup {m}
      /\ UNCHANGED <<tools, lock, beats, phase, unseen>>
  BY DEF Commit
<1>1. mem \in File /\ Sound(mem)
  BY <1>0, QuietFacts DEF Files
<1>2. new \in File /\ Sound(new) /\ new.muts = mem.muts \cup {m}
  BY <1>1, Mutated
<1>3. prev \in Files /\ new \in Files /\ prev # None /\ Sound(prev)
  BY <1>2, QuietFacts DEF Dirs, SoundDir, Files
<1>4. Holds(e, new, prev, dir.baks)
  BY <1>3, QuietFacts, WithPrevState, Zenon
<1> HIDE DEF new, prev, e
<1>5. e \in Dirs /\ SoundDir(e) /\ e.baks = dir.baks /\ e.state = new
  BY <1>2, <1>3, <1>4 DEF Holds, SoundDir
<1>6. dir' = e /\ durable' = {e}
  BY <1>0 DEF SyncDir
<1>7. ASSUME ~unseen', NEW x \in acked' PROVE x \in new.muts \/ InBackup(x)
  BY <1>0, <1>2, <1>7, Zenon DEF ToolsInv, Safe
<1>8. new # None
  BY <1>2, NoneAssumption, Zenon
<1>9. ~unseen' => \A x \in acked' : Kept(x, e)
  BY <1>5, <1>7, <1>8 DEF Kept, InBackup
<1>10. Moves /\ KeepsBackups
  BY <1>0, <1>5, <1>6, <1>9, DirNew DEF KeepsBackups, ToolsInv
<1>11. ASSUME ~unseen', NEW t \in Tool PROVE Covered(t)'
  BY <1>0, <1>11, Active, Zenon DEF tools, Covered, Committed, Watched, LockUnchanged, At, Kind
<1>12. ~unseen' => \A x \in acked' : x \in mem'.muts \/ InBackup(x)'
  BY <1>0, <1>5, <1>6, <1>7, Zenon DEF InBackup
<1>13. mem' \in Files /\ Sound(mem') /\ mem' # None /\ tmp' \in {tmp, None} /\ acked' \subseteq Mutation
  BY <1>0, <1>2, <1>3, <1>8, QuietFacts, Zenon
<1>14. ~unseen' => \A x \in acked', d \in durable' : Kept(x, d)
  BY <1>6, <1>9
<1> QED BY <1>0, <1>10, <1>11, <1>12, <1>13, <1>14, QuietFacts, InstanceStep, Zenon

LEMMA NoCmdFacts ==
  ASSUME NEW p
  PROVE  NoCmd(p).raw = None /\ NoCmd(p).kind = None /\ NoCmd(p).forced = FALSE /\ NoCmd(p).snap = None
BY DEF NoCmd

LEMMA PowerLossStep == ASSUME ToolsInv, PowerLoss PROVE ToolsInv'
<1>0. PICK d \in durable : dir' = d /\ durable' = {d}
  BY DEF PowerLoss, SyncDir
<1>1. /\ tmp' \in {tmp, None} /\ phase' = "down" /\ mem' = None
      /\ lock' = lock /\ beats' = beats /\ acked' = acked /\ answer' = answer /\ unseen' = unseen
      /\ cmd' = [t \in Tool |-> IF cmd[t].pc \in {"idle", "ended"} THEN cmd[t] ELSE NoCmd("ended")]
  BY DEF PowerLoss
<1>2. NoCmd("ended") \in Cmds
  BY DEF NoCmd, Cmds, PCs, Commands, Sources, Marks, Files
<1>3. Typed'
  BY <1>0, <1>1, <1>2, QuietFacts, Zenon DEF ToolsInv, Typed, Files
<1>4. ASSUME NEW t \in Tool
      PROVE  /\ cmd'[t].pc \in {"idle", "ended"} /\ cmd'[t] = NoCmd(cmd'[t].pc)
             /\ cmd'[t].pc # "ended" => answer'[t] = "none"
  <2>1. CASE cmd[t].pc \in {"idle", "ended"}
    BY <1>1, <2>1, OldShape, Zenon DEF Shape
  <2>2. CASE cmd[t].pc \notin {"idle", "ended"}
    BY <1>1, <2>2, Zenon DEF NoCmd
  <2> QED BY <2>1, <2>2, Zenon
<1>5. ASSUME NEW t \in Tool PROVE cmd'[t].raw = None /\ cmd'[t].kind = None /\ cmd'[t].forced = FALSE /\ cmd'[t].snap = None
  <2> DEFINE q == cmd'[t].pc
  <2>1. cmd'[t] = NoCmd(q)
    BY <1>4
  <2> HIDE DEF q
  <2> QED BY <2>1, NoCmdFacts, Zenon
<1>6. \A t \in Tool : Shape(t)'
  BY <1>4, <1>5, NoneAssumption, Zenon DEF Shape, Kind, Copied
<1>7. \A t \in Tool : Covered(t)'
  BY <1>4, <1>5, Zenon DEF Covered, Committed, Watched, At, Kind
<1>8. Sealed'
  BY <1>0, <1>1, <1>5, Zenon DEF ToolsInv, Sealed, Sound
<1>9. Safe'
  BY <1>0, <1>1, <1>7, Zenon DEF ToolsInv, Safe
<1> QED BY <1>3, <1>6, <1>8, <1>9 DEF ToolsInv

-----------------------------------------------------------------------------
(* The theorems *)

LEMMA ToolsInit == Init => ToolsInv
<1> SUFFICES ASSUME Init PROVE ToolsInv
  OBVIOUS
<1>1. PICK odd \in {None, FirstKey} : dir = [state |-> First(odd), prev |-> Archive, baks |-> {}]
  BY DEF Init
<1>2. First(odd) \in File /\ Sound(First(odd)) /\ Archive \in File /\ Sound(Archive) /\ Archive # None
  BY <1>1, KeyAssumption, ArchiveFacts, NoneAssumption, Zenon DEF First, File, Sound
<1>3. dir \in Dirs /\ SoundDir(dir)
  BY <1>1, <1>2, Zenon DEF Dirs, Files, Backups, SoundDir
<1>4. NoCmd("idle") \in Cmds
  BY DEF NoCmd, Cmds, PCs, Commands, Sources, Marks, Files
<1>5. Typed
  BY <1>3, <1>4, BoundAssumption DEF Init, Typed, Files, Marks, Answers
<1>6. ASSUME NEW t \in Tool
      PROVE  /\ cmd[t] = NoCmd("idle") /\ cmd[t].pc = "idle" /\ answer[t] = "none"
             /\ cmd[t].raw = None /\ cmd[t].kind = None /\ cmd[t].forced = FALSE /\ cmd[t].snap = None
  BY Zenon DEF Init, NoCmd
<1>7. \A t \in Tool : Shape(t)
  BY <1>6, NoneAssumption, Zenon DEF Shape, Kind, Copied
<1>8. \A t \in Tool : Covered(t)
  BY <1>6, Zenon DEF Covered, Committed, Watched, At, Kind
<1>9. Sealed
  BY <1>3, <1>6, Zenon DEF Init, Sealed, Sound
<1>10. Safe
  BY <1>8, Zenon DEF Init, Safe
<1> QED BY <1>5, <1>7, <1>9, <1>10 DEF ToolsInv

LEMMA ToolsSame == ASSUME ToolsInv, UNCHANGED vars PROVE ToolsInv'
<1>1. SameDir /\ UNCHANGED tools /\ UNCHANGED <<instance, tmp, unseen>>
  BY DEF vars, SameDir
<1>2. Moves /\ KeepsBackups
  BY <1>1, DirSame DEF ToolsInv
<1>3. /\ mem' = mem /\ lock' = lock /\ beats' = beats /\ phase' = phase /\ acked' = acked /\ unseen' = unseen
      /\ cmd' = cmd /\ dir' = dir /\ durable' = durable /\ tmp' = tmp
  BY <1>1 DEF instance, SameDir, tools
<1>4. ASSUME NEW t \in Tool PROVE Covered(t) => Covered(t)'
  <2>1. (Committed(t)' <=> Committed(t)) /\ (Watched(t)' <=> Watched(t))
    BY <1>3 DEF Committed, Watched, LockUnchanged, At, Kind
  <2>2. \A m : InBackup(m)' <=> InBackup(m)
    BY <1>3 DEF InBackup
  <2>3. \A p : (At(t, p)' <=> At(t, p)) /\ (Kind(t, p)' <=> Kind(t, p))
    BY <1>3 DEF At, Kind
  <2>4. cmd'[t] = cmd[t] /\ phase' = phase /\ acked' = acked
    BY <1>3
  <2>5. (cmd[t].forced \/ At(t, "snap") \/ Committed(t) \/ Watched(t) => phase = "down")
        => (cmd[t].forced \/ At(t, "snap") \/ Committed(t) \/ Watched(t) => phase = "down")'
    BY <2>1, <2>3, <2>4, Zenon
  <2>6. (Committed(t) \/ (Watched(t) /\ cmd[t].pc \in {"tmp", "guard"}) => \A m \in acked : InBackup(m))
        => (Committed(t) \/ (Watched(t) /\ cmd[t].pc \in {"tmp", "guard"}) => \A m \in acked : InBackup(m))'
    BY <2>1, <2>2, <2>4, Zenon
  <2>7. (Watched(t) /\ At(t, "backup") /\ Kind(t, "rekey") =>
           \A m \in acked : m \in cmd[t].raw.muts \/ InBackup(m))
        => (Watched(t) /\ At(t, "backup") /\ Kind(t, "rekey") =>
              \A m \in acked : m \in cmd[t].raw.muts \/ InBackup(m))'
    BY <2>1, <2>2, <2>3, <2>4, Zenon
  <2> QED BY <2>5, <2>6, <2>7, Zenon DEF Covered
<1>5. ~unseen' => /\ \A m \in acked', d \in durable' : Kept(m, d)
                  /\ phase' = "master" => \A m \in acked' : m \in mem'.muts \/ InBackup(m)'
                  /\ \A t \in Tool : Covered(t)'
  BY <1>3, <1>4, Zenon DEF ToolsInv, Safe, InBackup
<1> QED BY <1>1, <1>2, <1>3, <1>5, QuietFacts, InstanceStep, Zenon

LEMMA ToolsNext == ToolsInv /\ [Next]_vars => ToolsInv'
<1> SUFFICES ASSUME ToolsInv, [Next]_vars PROVE ToolsInv'
  OBVIOUS
<1>1. ASSUME NEW t \in Tool, Command(t) PROVE ToolsInv'
  BY <1>1, VerifyStep, ProbeStep, SnapshotStep, ReadStep, BackupStep, WriteTmpStep, BeforeRenameStep, RotateStep,
     RenameStep, FsyncStep, CheckStep, PutBackStep DEF Command
<1> QED BY <1>1, ToolsSame, AcquireStep, LoadStep, HeartbeatStep, CommitStep, StopStep, InstanceCrashStep,
           PowerLossStep, ToolCrashStep DEF Next

\* ToolsInv is an invariant of the commands and the instance (state_tools.go, rekey.go, linktrust_reset.go).
LEMMA ToolsInvariant == Spec => []ToolsInv
BY ToolsInit, ToolsNext, PTL DEF Spec

\* Whatever the commands replace, no acknowledged mutation disappears (backup before replacement), unless
\* an instance came at a moment that no reading of relay.lock notices.
THEOREM AckedAlwaysKept == Spec => []AckedKept
<1>1. ToolsInv => AckedKept
  BY Zenon DEF ToolsInv, Typed, Safe, AckedKept
<1> QED BY <1>1, ToolsInvariant, PTL

\* One key opens the state a restart finds, at every step and after a loss of power, and every secret in it:
\* no rotation of the master key is left half done (rekey.go: transformSecrets, atomic replacement).
THEOREM OneKeyAlwaysOpens == Spec => []OneKeyOpens
<1>1. ToolsInv => OneKeyOpens
  <2> SUFFICES ASSUME ToolsInv, NEW d \in durable \cup {dir}
               PROVE  \E k \in Key : Opens(d, k) /\ Loaded(d).sealed = k /\ Loaded(d).odd \in {None, k}
    BY DEF OneKeyOpens
  <2>1. d \in Dirs /\ SoundDir(d)
    BY DEF ToolsInv, Typed, Sealed
  <2>2. Loaded(d) \in File /\ Sound(Loaded(d)) /\ Loaded(d) # None
    BY <2>1 DEF Loaded, SoundDir, Dirs, Files
  <2>3. Loaded(d).key \in Key
    BY <2>2 DEF File
  <2> QED BY <2>2, <2>3 DEF Opens, Authentic, Sound
<1> QED BY <1>1, ToolsInvariant, PTL

\* A report comes from the end of its command.
LEMMA WhoReports ==
  ASSUME ToolsInv, NEW t \in Tool, Kind(t, "rekey"), Next, answer'[t] = "done"
  PROVE  Check(t) /\ End(t, "done")
<1>1. answer[t] = "none" /\ ~At(t, "idle") /\ answer \in [Tool -> Answers]
  <2>1. cmd[t].kind # None
    BY NoneAssumption DEF Kind
  <2>2. cmd[t].pc \notin {"idle", "ended"}
    <3> DEFINE q == cmd[t].pc
    <3>1. q \in {"idle", "ended"} => cmd[t] = NoCmd(q)
      BY OldShape, Zenon DEF Shape
    <3> HIDE DEF q
    <3>2. q \notin {"idle", "ended"}
      BY <2>1, <3>1, NoCmdFacts, Zenon
    <3> QED BY <3>2 DEF q
  <2> QED BY <2>2, OldShape, Zenon DEF Shape, At, ToolsInv, Typed
<1>2. answer' # answer
  BY <1>1
<1>3. PICK u \in Tool : Command(u)
  BY <1>2, Zenon DEF Next, Acquire, Load, Heartbeat, Commit, Stop, InstanceCrash, PowerLoss, ToolCrash, tools
<1>4. PICK a : End(u, a)
  BY <1>2, <1>3, Zenon DEF Command, Verify, Probe, Snapshot, Read, Backup, WriteTmp, BeforeRename, Rotate, Rename,
                    Fsync, Check, PutBack, Goto
<1>5. u = t /\ a = "done"
  BY <1>1, <1>4 DEF End
<1>6. End(t, "done")
  BY <1>4, <1>5
<1>7. /\ ~End(t, "refused") /\ ~End(t, "failed") /\ ~End(t, "appeared") /\ ~End(t, "undone") /\ ~End(t, "stuck")
      /\ \A p : ~Goto(t, p)
  BY <1>1, <1>2 DEF End, Goto
<1>8. ~Verify(t) /\ ~Probe(t) /\ ~Snapshot(t)
  BY <1>1, <1>2, <1>7, Zenon DEF Verify, Probe, Snapshot
<1>9. ~Read(t)
  BY <1>2, <1>7 DEF Read, NothingToReset, Kind
<1>10. ~Backup(t) /\ ~WriteTmp(t) /\ ~BeforeRename(t)
  BY <1>7 DEF Backup, WriteTmp, BeforeRename
<1>11. ~Rotate(t) /\ ~Rename(t) /\ ~PutBack(t)
  BY <1>7 DEF Rotate, Rename, PutBack
<1>12. ~Fsync(t)
  BY <1>7 DEF Fsync
<1> QED BY <1>3, <1>5, <1>6, <1>8, <1>9, <1>10, <1>11, <1>12 DEF Command

\* When rekey reports success the state on disk is under the new key, with the content it had, and the copy
\* under the old key is kept (rekey.go: verifyRekeyed is the last thing it does).
THEOREM RekeyReportAlwaysTrue == Spec => RekeyReportIsTrue
<1> DEFINE True(t) == /\ dir'.state.key = cmd[t].from /\ dir'.state.muts = cmd[t].raw.muts
                      /\ cmd[t].raw \in dir'.baks
           Report == \A t \in Tool : cmd[t].kind = "rekey" /\ answer'[t] = "done" => True(t)
<1>1. ASSUME ToolsInv, Next, NEW t \in Tool, cmd[t].kind = "rekey", answer'[t] = "done"
      PROVE  True(t)
  <2>1. Check(t) /\ End(t, "done")
    BY <1>1, WhoReports DEF Kind
  <2>2. dir' = dir /\ At(t, "check")
    BY <2>1 DEF Check, SameDir
  <2>3. VerifyRekeyed(t)
    <3>1. ~Goto(t, "undo")
      <4>1. answer[t] = "none" /\ answer'[t] = "done"
        BY <1>1, <2>2, OldShape, Zenon DEF Shape, At
      <4> QED BY <4>1 DEF Goto
    <3> QED BY <2>1, <3>1 DEF Check
  <2>4. cmd[t].raw \in dir.baks
    BY <1>1, <2>2, OldShape, Zenon DEF Shape, Kind, At, Copied
  <2> QED BY <2>2, <2>3, <2>4 DEF VerifyRekeyed, Authentic
<1>2. ToolsInv /\ [Next]_vars => [Report]_vars
  BY <1>1
<1>3. Spec => [][Report]_vars
  BY <1>2, ToolsInvariant, PTL DEF Spec
<1> QED BY <1>3 DEF RekeyReportIsTrue
=============================================================================
