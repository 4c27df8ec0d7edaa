-------------------------- MODULE MasterLockProofs --------------------------
(***************************************************************************)
(* Theorems about MasterLock, for any set of instances and of callers and  *)
(* any bounds: its type invariant, the two properties of the published     *)
(* write_seq, and the refinement of the abstract lease.  Last, what the    *)
(* programs that look for the active instance of the pair may send.        *)
(***************************************************************************)
EXTENDS MasterLock, Sequences, TLAPS

\* The contents lock.go writes are contents.
LEMMA ContentTypes ==
    /\ Empty \in Content
    /\ Candidacy \in Content
    /\ \A b \in 0..MaxBeat, s \in 0..MaxSeq : MasterContent(b, s) \in Content
<1>1. Empty \in Content /\ Candidacy \in Content
  BY BoundAssumption DEF Empty, Candidacy, Content
<1>2. ASSUME NEW b \in 0..MaxBeat, NEW s \in 0..MaxSeq PROVE MasterContent(b, s) \in Content
  BY DEF MasterContent, Content
<1> QED
  BY <1>1, <1>2

\* A caller of CheckOwnership moves to a state of the guard.
LEMMA GuardType ==
    ASSUME TypeOK, NEW i \in Instance, NEW t \in Caller,
           NEW g \in {"idle", "stat", "read", "ok"}, SetGuard(i, t, g)
    PROVE  guard' \in [Instance -> [Caller -> {"idle", "stat", "read", "ok"}]]
  BY DEF TypeOK, SetGuard

\* The type invariant of the lock (TypeOK) is inductive: every file operation and memory update of
\* lock.go keeps the state well formed.
LEMMA TypeStep == TypeOK /\ [Next]_vars => TypeOK'
<1> USE NoneAssumption, BoundAssumption DEF TypeOK, At, Fault, NoFault, lockMem
<1>1. ASSUME TypeOK, NEW i \in Instance, Start(i) PROVE TypeOK'
  BY <1>1 DEF Start, Phase, Goto, Close
<1>2. ASSUME TypeOK, NEW i \in Instance, Observe(i) PROVE TypeOK'
  BY <1>2 DEF Observe, Phase, Goto, Close, Raw, RawContent, Content, Complete, Greater
<1>3. ASSUME TypeOK, NEW i \in Instance, JudgeStale(i) PROVE TypeOK'
  BY <1>3 DEF JudgeStale, Phase, Goto, Close
<1>4. ASSUME TypeOK, NEW i \in Instance, FindFree(i) PROVE TypeOK'
  BY <1>4 DEF FindFree, Phase, Goto, Close
<1>5. ASSUME TypeOK, NEW i \in Instance, RemoveStale(i) PROVE TypeOK'
  <2>1. pc' \in [Instance -> Phase]
    <3>1. Goto(i, "create") \/ Goto(i, "poll")
      BY <1>5 DEF RemoveStale
    <3> QED
      BY <1>5, <3>1, Zenon DEF Goto, Phase
  <2>2. path' \in Instance \cup {None} /\ faults' \in 0..MaxFault
    BY <1>5 DEF RemoveStale
  <2> QED
    BY <1>5, <2>1, <2>2 DEF RemoveStale
<1>6. ASSUME TypeOK, NEW i \in Instance, CreateExclusive(i) PROVE TypeOK'
  <2>1. open' \in [Instance -> BOOLEAN]
    BY <1>6, Zenon DEF CreateExclusive, Close
  <2>2. pc' \in [Instance -> Phase]
    <3>1. Goto(i, "fill") \/ Goto(i, "poll")
      BY <1>6 DEF CreateExclusive
    <3> QED
      BY <1>6, <3>1, Zenon DEF Goto, Phase
  <2>3. content' \in [Instance -> Content]
    BY <1>6, ContentTypes DEF CreateExclusive, Write
  <2> QED
    BY <1>6, <2>1, <2>2, <2>3 DEF CreateExclusive
<1>7. ASSUME TypeOK, NEW i \in Instance, WriteCandidacy(i) PROVE TypeOK'
  <2>1. pc' \in [Instance -> Phase]
    <3>1. Goto(i, "pause") \/ Goto(i, "drop")
      BY <1>7 DEF WriteCandidacy
    <3> QED
      BY <1>7, <3>1, Zenon DEF Goto, Phase
  <2>2. content' \in [Instance -> Content]
    BY <1>7, ContentTypes, Zenon DEF WriteCandidacy, Write, MaybeWrite
  <2> QED
    BY <1>7, <2>1, <2>2 DEF WriteCandidacy
<1>8. ASSUME TypeOK, NEW i \in Instance, Reread(i) PROVE TypeOK'
  <2>1. open' \in [Instance -> BOOLEAN]
    BY <1>8, Zenon DEF Reread, Close
  <2>2. pc' \in [Instance -> Phase]
    <3>1. Goto(i, "promote") \/ Goto(i, "poll")
      BY <1>8 DEF Reread
    <3> QED
      BY <1>8, <3>1, Zenon DEF Goto, Phase
  <2> QED
    BY <1>8, <2>1, <2>2 DEF Reread
<1>9. ASSUME TypeOK, NEW i \in Instance, Interrupt(i) PROVE TypeOK'
  BY <1>9 DEF Interrupt, Phase, Goto, Close
<1>10. ASSUME TypeOK, NEW i \in Instance, CheckInode(i) PROVE TypeOK'
  <2>1. open' \in [Instance -> BOOLEAN]
    BY <1>10, Zenon DEF CheckInode, Close
  <2>2. pc' \in [Instance -> Phase]
    <3>1. Goto(i, "first") \/ Goto(i, "poll") \/ Goto(i, "drop")
      BY <1>10 DEF CheckInode
    <3> QED
      BY <1>10, <3>1, Zenon DEF Goto, Phase
  <2> QED
    BY <1>10, <2>1, <2>2 DEF CheckInode
<1>11. ASSUME TypeOK, NEW i \in Instance, FirstBeat(i) PROVE TypeOK'
  <2>1. pc' \in [Instance -> Phase]
    <3>1. Goto(i, "verify") \/ Goto(i, "drop")
      BY <1>11 DEF FirstBeat
    <3> QED
      BY <1>11, <3>1, Zenon DEF Goto, Phase
  <2>2. content' \in [Instance -> Content]
    <3>1. FirstContent(i) \in Content
      BY <1>11, ContentTypes DEF FirstContent
    <3> QED
      BY <1>11, <3>1 DEF FirstBeat, Write, MaybeWrite
  <2> QED
    BY <1>11, <2>1, <2>2 DEF FirstBeat
<1>12. ASSUME TypeOK, NEW i \in Instance, VerifyPublished(i) PROVE TypeOK'
  <2>1. open' \in [Instance -> BOOLEAN]
    BY <1>12, Zenon DEF VerifyPublished, Close
  <2>2. pc' \in [Instance -> Phase]
    <3>1. Goto(i, "master") \/ Goto(i, "poll")
      BY <1>12 DEF VerifyPublished
    <3> QED
      BY <1>12, <3>1, Zenon DEF Goto, Phase
  <2>3. published' \in [Instance -> 0..MaxSeq]
    BY <1>12 DEF VerifyPublished, Content
  <2>4. obs' \in [Instance -> RawContent \cup {None}]
    BY <1>12 DEF VerifyPublished
  <2> QED
    BY <1>12, <2>1, <2>2, <2>3, <2>4 DEF VerifyPublished
<1>13. ASSUME TypeOK, NEW i \in Instance, AbandonStat(i) PROVE TypeOK'
  <2>1. open' \in [Instance -> BOOLEAN]
    BY <1>13, Zenon DEF AbandonStat, Close
  <2>2. pc' \in [Instance -> Phase]
    <3>1. Goto(i, "dropRemove") \/ Goto(i, "poll")
      BY <1>13 DEF AbandonStat
    <3> QED
      BY <1>13, <3>1, Zenon DEF Goto, Phase
  <2> QED
    BY <1>13, <2>1, <2>2 DEF AbandonStat
<1>14. ASSUME TypeOK, NEW i \in Instance, AbandonRemove(i) PROVE TypeOK'
  BY <1>14 DEF AbandonRemove, Phase, Goto, Close
<1>15. ASSUME TypeOK, NEW i \in Instance, StopWaiting(i) PROVE TypeOK'
  BY <1>15 DEF StopWaiting, Phase, Goto, Close
<1>16. ASSUME TypeOK, NEW i \in Instance, NoteSeq(i) PROVE TypeOK'
  BY <1>16 DEF NoteSeq, Phase, Goto, Close
<1>17. ASSUME TypeOK, NEW i \in Instance, NEW nb \in BOOLEAN, BeginWrite(i, nb) PROVE TypeOK'
  BY <1>17 DEF BeginWrite, Phase, Goto, Close, MasterContent, SeqToPublish, Greater, Content
<1>18. ASSUME TypeOK, NEW i \in Instance, EndWrite(i) PROVE TypeOK'
  <2>1. content' \in [Instance -> Content]
    BY <1>18, ContentTypes, Zenon DEF EndWrite, Write, MaybeWrite
  <2>2. wr' \in [Instance -> Content \cup {None}]
    BY <1>18, ContentTypes DEF EndWrite, Write, MaybeWrite
  <2>3. published' \in [Instance -> 0..MaxSeq]
    BY <1>18, Zenon DEF EndWrite, Content
  <2> QED
    BY <1>18, <2>1, <2>2, <2>3 DEF EndWrite
<1>19. ASSUME TypeOK, NEW i \in Instance, NEW t \in Caller, GuardEnter(i, t) PROVE TypeOK'
  BY <1>19 DEF GuardEnter, Phase, Goto, Close, SetGuard
<1>20. ASSUME TypeOK, NEW i \in Instance, NEW t \in Caller, SelfRetire(i, t) PROVE TypeOK'
  <2>1. open' \in [Instance -> BOOLEAN]
    BY <1>20, Zenon DEF SelfRetire, Lose, Close
  <2>2. pc' \in [Instance -> Phase]
    <3>1. Goto(i, "lost") \/ UNCHANGED pc
      BY <1>20 DEF SelfRetire, Lose
    <3> QED
      BY <1>20, <3>1 DEF Goto, Phase
  <2> QED
    BY <1>20, <2>1, <2>2 DEF SelfRetire
<1>21. ASSUME TypeOK, NEW i \in Instance, NEW t \in Caller, GuardStat(i, t) PROVE TypeOK'
  <2>1. open' \in [Instance -> BOOLEAN]
    BY <1>21, Zenon DEF GuardStat, Lose, Close
  <2>2. pc' \in [Instance -> Phase]
    <3>1. Goto(i, "lost") \/ UNCHANGED pc
      BY <1>21 DEF GuardStat, Lose
    <3> QED
      BY <1>21, <3>1 DEF Goto, Phase
  <2>3. guard' \in [Instance -> [Caller -> {"idle", "stat", "read", "ok"}]]
    <3>1. SetGuard(i, t, "read") \/ SetGuard(i, t, "idle")
      BY <1>21 DEF GuardStat
    <3> QED
      BY <1>21, <3>1, GuardType
  <2> QED
    BY <1>21, <2>1, <2>2, <2>3 DEF GuardStat
<1>22. ASSUME TypeOK, NEW i \in Instance, NEW t \in Caller, GuardRead(i, t) PROVE TypeOK'
  <2>1. open' \in [Instance -> BOOLEAN]
    BY <1>22, Zenon DEF GuardRead, Lose, Close
  <2>2. pc' \in [Instance -> Phase]
    <3>1. Goto(i, "lost") \/ UNCHANGED pc
      BY <1>22 DEF GuardRead, Lose
    <3> QED
      BY <1>22, <3>1 DEF Goto, Phase
  <2>3. guard' \in [Instance -> [Caller -> {"idle", "stat", "read", "ok"}]]
    <3>1. SetGuard(i, t, "ok") \/ SetGuard(i, t, "idle")
      BY <1>22 DEF GuardRead
    <3> QED
      BY <1>22, <3>1, GuardType
  <2> QED
    BY <1>22, <2>1, <2>2, <2>3 DEF GuardRead
<1>23. ASSUME TypeOK, NEW i \in Instance, NEW t \in Caller, GuardGiveUp(i, t) PROVE TypeOK'
  <2>1. open' \in [Instance -> BOOLEAN]
    BY <1>23, Zenon DEF GuardGiveUp, Lose, Close
  <2>2. pc' \in [Instance -> Phase]
    <3>1. Goto(i, "lost") \/ UNCHANGED pc
      BY <1>23 DEF GuardGiveUp, Lose
    <3> QED
      BY <1>23, <3>1 DEF Goto, Phase
  <2>3. guard' \in [Instance -> [Caller -> {"idle", "stat", "read", "ok"}]]
    BY <1>23 DEF GuardGiveUp, SetGuard
  <2> QED
    BY <1>23, <2>1, <2>2, <2>3 DEF GuardGiveUp
<1>24. ASSUME TypeOK, NEW i \in Instance, NEW t \in Caller, GuardDone(i, t) PROVE TypeOK'
  BY <1>24 DEF GuardDone, Phase, Goto, Close, SetGuard
<1>25. ASSUME TypeOK, NEW i \in Instance, Release(i) PROVE TypeOK'
  BY <1>25 DEF Release, Phase, Goto, Close
<1>26. ASSUME TypeOK, NEW i \in Instance, ReleaseStat(i) PROVE TypeOK'
  <2>1. open' \in [Instance -> BOOLEAN]
    BY <1>26, Zenon DEF ReleaseStat, Close
  <2>2. pc' \in [Instance -> Phase]
    <3>1. Goto(i, "relRead") \/ Goto(i, "gone")
      BY <1>26 DEF ReleaseStat
    <3> QED
      BY <1>26, <3>1, Zenon DEF Goto, Phase
  <2> QED
    BY <1>26, <2>1, <2>2 DEF ReleaseStat
<1>27. ASSUME TypeOK, NEW i \in Instance, ReleaseRead(i) PROVE TypeOK'
  <2>1. open' \in [Instance -> BOOLEAN]
    BY <1>27, Zenon DEF ReleaseRead, Close
  <2>2. pc' \in [Instance -> Phase]
    <3>1. Goto(i, "relRemove") \/ Goto(i, "gone")
      BY <1>27 DEF ReleaseRead
    <3> QED
      BY <1>27, <3>1 DEF Goto, Phase
  <2> QED
    BY <1>27, <2>1, <2>2 DEF ReleaseRead
<1>28. ASSUME TypeOK, NEW i \in Instance, ReleaseRemove(i) PROVE TypeOK'
  BY <1>28 DEF ReleaseRemove, Phase, Goto, Close
<1>29. ASSUME TypeOK, NEW i \in Instance, Crash(i) PROVE TypeOK'
  BY <1>29 DEF Crash, Phase, Goto, Close
<1>30. ASSUME TypeOK, UNCHANGED vars PROVE TypeOK'
  BY <1>30 DEF vars
<1> HIDE DEF TypeOK
<1> QED
  BY <1>1, <1>2, <1>3, <1>4, <1>5, <1>6, <1>7, <1>8, <1>9, <1>10, <1>11, <1>12, <1>13, <1>14,
     <1>15, <1>16, <1>17, <1>18, <1>19, <1>20, <1>21, <1>22, <1>23, <1>24, <1>25, <1>26, <1>27,
     <1>28, <1>29, <1>30
     DEF Next, Acquiring, Guarding, Leaving

\* The type invariant holds in every behaviour of the lock protocol.
THEOREM TypeCorrect == Spec => []TypeOK
<1>1. Init => TypeOK
  BY NoneAssumption, BoundAssumption
     DEF Init, TypeOK, Empty, MasterContent, Content, Phase
<1> QED
  BY <1>1, TypeStep, PTL DEF Spec
-----------------------------------------------------------------------------
(* The inductive invariant of one instance *)

Unpublished == {"fill", "pause", "promote", "first"}

\* A candidate's file holds no master content before its first beat; the file of a master, and of
\* one that ended with a write in flight, does; and the write_seq of the content lies between what
\* the instance read before its tenure and what it may publish.
LockInvAt(i) ==
    /\ pc[i] \in Unpublished => content[i].role # "master" /\ content[i].seq = 0
    /\ At(i, "verify") => content[i].seq = minSeq[i]
    /\ At(i, "master") =>
        /\ content[i].role = "master"
        /\ minSeq[i] <= content[i].seq
        /\ content[i].seq <= SeqToPublish(i)
    /\ wr[i] # None =>
        /\ pc[i] \in Ended \cup {"master"}
        /\ content[i].role = "master"
        /\ wr[i].role = "master"
        /\ content[i].seq <= wr[i].seq
        /\ minSeq[i] <= wr[i].seq
        /\ wr[i].seq <= SeqToPublish(i)

LockInv == \A i \in Instance : LockInvAt(i)

LEMMA SeqTypes ==
    ASSUME TypeOK, NEW i \in Instance
    PROVE  /\ noted \in [Instance -> Nat] /\ noted[i] \in Nat /\ minSeq[i] \in Nat
           /\ content[i].seq \in Nat /\ (wr[i] # None => wr[i].seq \in Nat)
<1>1. noted \in [Instance -> 0..MaxSeq] /\ minSeq \in [Instance -> 0..MaxSeq]
  BY DEF TypeOK
<1>2. content[i] \in Content /\ wr[i] \in Content \cup {None}
  BY DEF TypeOK
<1>3. \A c \in Content : c.seq \in Nat
  BY BoundAssumption DEF Content
<1>4. 0..MaxSeq \subseteq Nat
  BY BoundAssumption
<1> QED BY <1>1, <1>2, <1>3, <1>4

LEMMA GreaterGrows ==
    ASSUME NEW a \in Nat, NEW b \in Nat, NEW c \in Nat, a <= b
    PROVE  Greater(a, c) <= Greater(b, c) /\ Greater(a, c) \in Nat /\ Greater(b, c) \in Nat
BY DEF Greater

\* A check of the ownership moves its instance only by losing the lock, and writes nothing.
LEMMA GuardMoves ==
    ASSUME TypeOK, NEW i \in Instance, NEW t \in Caller, GuardStat(i, t) \/ GuardRead(i, t)
    PROVE  /\ pc'[i] = pc[i] \/ (pc[i] = "master" /\ pc'[i] = "lost")
           /\ UNCHANGED <<content, minSeq, noted, wr>>
<1>0. pc \in [Instance -> Phase]
  BY DEF TypeOK
<1>1. CASE GuardStat(i, t)
  <2>1. (Lose(i) \/ UNCHANGED pc) /\ UNCHANGED <<content, minSeq, noted, wr>>
    BY <1>1 DEF GuardStat, lockMem
  <2> QED
    BY <1>0, <2>1 DEF Lose, At, Goto
<1>2. CASE GuardRead(i, t)
  <2>1. (Lose(i) \/ UNCHANGED pc) /\ UNCHANGED <<content, minSeq, noted, wr>>
    BY <1>2 DEF GuardRead, lockMem
  <2> QED
    BY <1>0, <2>1 DEF Lose, At, Goto
<1> QED
  BY <1>1, <1>2

\* A step of instance i that shows nothing of the others.
OnlyOwn(i) ==
    \A j \in Instance : j # i =>
        /\ pc'[j] = pc[j] /\ content'[j] = content[j] /\ wr'[j] = wr[j]
        /\ minSeq'[j] = minSeq[j] /\ noted'[j] = noted[j]

LEMMA OwnStep ==
    ASSUME LockInv, NEW i \in Instance, LockInvAt(i)', OnlyOwn(i)
    PROVE  LockInv'
<1>1. ASSUME NEW j \in Instance, j # i PROVE LockInvAt(j)'
  BY <1>1 DEF LockInv, LockInvAt, OnlyOwn, At, SeqToPublish
<1> QED BY <1>1 DEF LockInv

\* Every file operation of an instance keeps the invariant of each instance: it writes no file but
\* its own, and its own only in the order that lock.go follows.
LEMMA LockInvStep == TypeOK /\ LockInv /\ [Next]_vars => LockInv'
<1> USE NoneAssumption, BoundAssumption
<1> USE DEF At, Goto, lockMem
<1>1. ASSUME TypeOK, LockInv, NEW i \in Instance, Start(i) PROVE LockInv'
  <2>1. LockInvAt(i)'
    BY <1>1, Zenon DEF LockInv, LockInvAt, Unpublished, Ended, Start, SeqToPublish, TypeOK, Content
  <2>2. OnlyOwn(i)
    BY <1>1 DEF OnlyOwn, Start, TypeOK
  <2> QED BY <1>1, <2>1, <2>2, OwnStep
<1>2. ASSUME TypeOK, LockInv, NEW i \in Instance, Observe(i) PROVE LockInv'
  <2>1. LockInvAt(i)'
    BY <1>2, Zenon DEF LockInv, LockInvAt, Unpublished, Ended, Observe, Greater, SeqToPublish, TypeOK, Content
  <2>2. OnlyOwn(i)
    BY <1>2 DEF OnlyOwn, Observe, TypeOK
  <2> QED BY <1>2, <2>1, <2>2, OwnStep
<1>3. ASSUME TypeOK, LockInv, NEW i \in Instance, JudgeStale(i) PROVE LockInv'
  <2>1. LockInvAt(i)'
    BY <1>3, Zenon DEF LockInv, LockInvAt, Unpublished, Ended, JudgeStale, SeqToPublish, TypeOK, Content
  <2>2. OnlyOwn(i)
    BY <1>3 DEF OnlyOwn, JudgeStale, TypeOK
  <2> QED BY <1>3, <2>1, <2>2, OwnStep
<1>4. ASSUME TypeOK, LockInv, NEW i \in Instance, FindFree(i) PROVE LockInv'
  <2>1. LockInvAt(i)'
    BY <1>4, Zenon DEF LockInv, LockInvAt, Unpublished, Ended, FindFree, SeqToPublish, TypeOK, Content
  <2>2. OnlyOwn(i)
    BY <1>4 DEF OnlyOwn, FindFree, TypeOK
  <2> QED BY <1>4, <2>1, <2>2, OwnStep
<1>5. ASSUME TypeOK, LockInv, NEW i \in Instance, RemoveStale(i) PROVE LockInv'
  <2>1. LockInvAt(i)'
    BY <1>5, Zenon DEF LockInv, LockInvAt, Unpublished, Ended, RemoveStale, SeqToPublish, TypeOK, Content
  <2>2. OnlyOwn(i)
    BY <1>5 DEF OnlyOwn, RemoveStale, TypeOK
  <2> QED BY <1>5, <2>1, <2>2, OwnStep
<1>6. ASSUME TypeOK, LockInv, NEW i \in Instance, CreateExclusive(i) PROVE LockInv'
  <2>1. LockInvAt(i)'
    <3> USE DEF LockInv, LockInvAt, Unpublished, Ended
    <3>1. wr[i] = None /\ UNCHANGED wr
      BY <1>6, Zenon DEF CreateExclusive
    <3>2. CASE pc'[i] = "fill" /\ content'[i] = Empty
      BY <3>1, <3>2 DEF Empty
    <3>3. CASE pc'[i] = "poll"
      BY <3>1, <3>3
    <3> QED
      BY <1>6, <3>2, <3>3, Zenon DEF CreateExclusive, Write, TypeOK
  <2>2. OnlyOwn(i)
    BY <1>6 DEF OnlyOwn, CreateExclusive, Write, Empty, TypeOK
  <2> QED BY <1>6, <2>1, <2>2, OwnStep
<1>7. ASSUME TypeOK, LockInv, NEW i \in Instance, WriteCandidacy(i) PROVE LockInv'
  <2>1. LockInvAt(i)'
    <3>0. LockInvAt(i) /\ pc[i] = "fill"
      BY <1>7 DEF LockInv, WriteCandidacy
    <3>1. content[i].role # "master" /\ content[i].seq = 0 /\ wr[i] = None
      BY <3>0 DEF LockInvAt, Unpublished, Ended
    <3>f. pc \in [Instance -> Phase] /\ content \in [Instance -> Content]
      BY <1>7 DEF TypeOK
    <3>2. /\ pc'[i] \in {"pause", "drop"} /\ wr' = wr
          /\ content'[i] = content[i] \/ content'[i] = Candidacy
      BY <1>7, <3>f DEF WriteCandidacy, Write, MaybeWrite
    <3>3. content'[i].role # "master" /\ content'[i].seq = 0
      BY <3>1, <3>2 DEF Candidacy
    <3> QED BY <3>1, <3>2, <3>3 DEF LockInvAt
  <2>2. OnlyOwn(i)
    BY <1>7 DEF OnlyOwn, WriteCandidacy, Write, MaybeWrite, Candidacy, TypeOK
  <2> QED BY <1>7, <2>1, <2>2, OwnStep
<1>8. ASSUME TypeOK, LockInv, NEW i \in Instance, Reread(i) PROVE LockInv'
  <2>1. LockInvAt(i)'
    BY <1>8, Zenon DEF LockInv, LockInvAt, Unpublished, Ended, Reread, SeqToPublish, TypeOK, Content
  <2>2. OnlyOwn(i)
    BY <1>8 DEF OnlyOwn, Reread, TypeOK
  <2> QED BY <1>8, <2>1, <2>2, OwnStep
<1>9. ASSUME TypeOK, LockInv, NEW i \in Instance, Interrupt(i) PROVE LockInv'
  <2>1. LockInvAt(i)'
    BY <1>9, Zenon DEF LockInv, LockInvAt, Unpublished, Ended, Interrupt, SeqToPublish, TypeOK, Content
  <2>2. OnlyOwn(i)
    BY <1>9 DEF OnlyOwn, Interrupt, TypeOK
  <2> QED BY <1>9, <2>1, <2>2, OwnStep
<1>10. ASSUME TypeOK, LockInv, NEW i \in Instance, CheckInode(i) PROVE LockInv'
  <2>1. LockInvAt(i)'
    BY <1>10, Zenon DEF LockInv, LockInvAt, Unpublished, Ended, CheckInode, SeqToPublish, TypeOK, Content
  <2>2. OnlyOwn(i)
    BY <1>10 DEF OnlyOwn, CheckInode, TypeOK
  <2> QED BY <1>10, <2>1, <2>2, OwnStep
<1>11. ASSUME TypeOK, LockInv, NEW i \in Instance, FirstBeat(i) PROVE LockInv'
  <2>1. LockInvAt(i)'
    <3> USE DEF LockInv, LockInvAt, Unpublished, Ended
    <3>1. pc[i] = "first" /\ wr[i] = None /\ UNCHANGED <<minSeq, noted, wr>>
      BY <1>11, Zenon DEF FirstBeat
    <3>2. CASE pc'[i] = "drop"
      BY <3>1, <3>2, Zenon
    <3>3. CASE pc'[i] = "verify" /\ content'[i] = FirstContent(i)
      BY <3>1, <3>3 DEF FirstContent, MasterContent
    <3> QED
      BY <1>11, <3>2, <3>3, Zenon DEF FirstBeat, Write, TypeOK
  <2>2. OnlyOwn(i)
    BY <1>11
      DEF OnlyOwn, FirstBeat, FirstContent, MasterContent, Write, MaybeWrite, TypeOK
  <2> QED BY <1>11, <2>1, <2>2, OwnStep
<1>12. ASSUME TypeOK, LockInv, NEW i \in Instance, VerifyPublished(i) PROVE LockInv'
  <2>1. LockInvAt(i)'
    <3> USE DEF LockInv, LockInvAt, Unpublished, Ended
    <3>1. wr[i] = None /\ content[i].seq = minSeq[i] /\ UNCHANGED <<content, minSeq, noted, wr>>
      BY <1>12, Zenon DEF VerifyPublished
    <3>2. minSeq[i] \in Nat /\ noted[i] \in Nat
      BY <1>12, SeqTypes, Zenon
    <3>3. CASE pc'[i] = "master" /\ content[i].role = "master"
      <4>1. minSeq[i] <= SeqToPublish(i) /\ SeqToPublish(i)' = SeqToPublish(i)
        BY <3>1, <3>2 DEF SeqToPublish, Greater
      <4>2. /\ pc'[i] \notin Unpublished /\ pc'[i] # "verify" /\ wr'[i] = None
            /\ content'[i].role = "master" /\ content'[i].seq = minSeq[i] /\ minSeq'[i] = minSeq[i]
        BY <3>1, <3>3
      <4>3. minSeq'[i] <= content'[i].seq /\ content'[i].seq <= SeqToPublish(i)'
        BY <3>2, <4>1, <4>2
      <4> QED
        BY <4>2, <4>3, Zenon
    <3>4. CASE pc'[i] = "poll"
      BY <3>1, <3>4
    <3> QED
      BY <1>12, <3>3, <3>4, Zenon DEF VerifyPublished, TypeOK
  <2>2. OnlyOwn(i)
    BY <1>12 DEF OnlyOwn, VerifyPublished, TypeOK
  <2> QED BY <1>12, <2>1, <2>2, OwnStep
<1>13. ASSUME TypeOK, LockInv, NEW i \in Instance, AbandonStat(i) PROVE LockInv'
  <2>1. LockInvAt(i)'
    BY <1>13, Zenon DEF LockInv, LockInvAt, Unpublished, Ended, AbandonStat, SeqToPublish, TypeOK, Content
  <2>2. OnlyOwn(i)
    BY <1>13 DEF OnlyOwn, AbandonStat, TypeOK
  <2> QED BY <1>13, <2>1, <2>2, OwnStep
<1>14. ASSUME TypeOK, LockInv, NEW i \in Instance, AbandonRemove(i) PROVE LockInv'
  <2>1. LockInvAt(i)'
    BY <1>14, Zenon DEF LockInv, LockInvAt, Unpublished, Ended, AbandonRemove, SeqToPublish, TypeOK, Content
  <2>2. OnlyOwn(i)
    BY <1>14 DEF OnlyOwn, AbandonRemove, TypeOK
  <2> QED BY <1>14, <2>1, <2>2, OwnStep
<1>15. ASSUME TypeOK, LockInv, NEW i \in Instance, StopWaiting(i) PROVE LockInv'
  <2>1. LockInvAt(i)'
    BY <1>15, Zenon DEF LockInv, LockInvAt, Unpublished, Ended, StopWaiting, SeqToPublish, TypeOK, Content
  <2>2. OnlyOwn(i)
    BY <1>15 DEF OnlyOwn, StopWaiting, TypeOK
  <2> QED BY <1>15, <2>1, <2>2, OwnStep
<1>16. ASSUME TypeOK, LockInv, NEW i \in Instance, NoteSeq(i) PROVE LockInv'
  <2>1. LockInvAt(i)'
    <3>0. /\ noted[i] \in Nat /\ minSeq[i] \in Nat /\ content[i].seq \in Nat
          /\ wr[i] # None => wr[i].seq \in Nat
      BY <1>16, SeqTypes
    <3>f. noted \in [Instance -> Nat]
      BY <1>16, SeqTypes
    <3>1. /\ pc[i] = "master" /\ noted[i] <= noted'[i] /\ noted'[i] \in Nat
          /\ UNCHANGED <<pc, content, minSeq, wr>>
      <4>1. PICK s \in 1..MaxSeq : s > noted[i] /\ noted' = [noted EXCEPT ![i] = s]
        BY <1>16, Zenon DEF NoteSeq
      <4>2. noted'[i] = s
        BY <3>f, <4>1, Zenon
      <4>4. noted[i] <= s /\ s \in Nat
        BY <3>0, <4>1
      <4>3. pc[i] = "master" /\ UNCHANGED <<pc, content, minSeq, wr>>
        BY <1>16 DEF NoteSeq
      <4> QED BY <4>2, <4>3, <4>4, Zenon
    <3>2. /\ noted[i] \in Nat /\ noted'[i] \in Nat /\ minSeq[i] \in Nat /\ content[i].seq \in Nat
          /\ wr[i] # None => wr[i].seq \in Nat
      BY <3>0, <3>1
    <3>3. SeqToPublish(i) <= SeqToPublish(i)' /\ SeqToPublish(i) \in Nat /\ SeqToPublish(i)' \in Nat
      <4>1. SeqToPublish(i) = Greater(noted[i], minSeq[i]) /\ SeqToPublish(i)' = Greater(noted'[i], minSeq[i])
        BY <3>1 DEF SeqToPublish
      <4>2. /\ Greater(noted[i], minSeq[i]) <= Greater(noted'[i], minSeq[i])
            /\ Greater(noted[i], minSeq[i]) \in Nat /\ Greater(noted'[i], minSeq[i]) \in Nat
        BY <3>1, <3>2, GreaterGrows, Zenon
      <4> QED BY <4>1, <4>2, Zenon
    <3>4. LockInvAt(i) /\ pc'[i] = "master" /\ content'[i] = content[i] /\ minSeq'[i] = minSeq[i] /\ wr'[i] = wr[i]
      BY <1>16, <3>1 DEF LockInv
    <3> USE DEF LockInvAt, Unpublished, Ended
    <3> HIDE DEF Goto
    <3>5. /\ content[i].role = "master" /\ minSeq[i] <= content[i].seq /\ content[i].seq <= SeqToPublish(i)'
      BY <3>1, <3>2, <3>3, <3>4
    <3>6. wr[i] # None => /\ wr[i].role = "master" /\ content[i].seq <= wr[i].seq
                          /\ minSeq[i] <= wr[i].seq /\ wr[i].seq <= SeqToPublish(i)'
      <4>1. wr[i] # None => /\ wr[i].role = "master" /\ content[i].seq <= wr[i].seq
                            /\ minSeq[i] <= wr[i].seq /\ wr[i].seq <= SeqToPublish(i)
        BY <3>4
      <4> HIDE DEF LockInvAt
      <4> QED BY <3>2, <3>3, <4>1
    <3> QED
      BY <3>4, <3>5, <3>6, Zenon
  <2>2. OnlyOwn(i)
    BY <1>16 DEF OnlyOwn, NoteSeq, TypeOK
  <2> QED BY <1>16, <2>1, <2>2, OwnStep
<1>17. ASSUME TypeOK, LockInv, NEW i \in Instance, NEW nb \in BOOLEAN, BeginWrite(i, nb)
       PROVE  LockInv'
  <2>1. LockInvAt(i)'
    <3>1. /\ pc[i] = "master" /\ UNCHANGED <<pc, content, minSeq, noted>>
          /\ wr'[i].role = "master" /\ wr'[i].seq = SeqToPublish(i)
      BY <1>17 DEF BeginWrite, MasterContent, TypeOK
    <3>2. noted[i] \in Nat /\ minSeq[i] \in Nat
      BY <1>17, SeqTypes
    <3>3. minSeq[i] <= SeqToPublish(i) /\ SeqToPublish(i) <= SeqToPublish(i)
      BY <3>2 DEF SeqToPublish, Greater
    <3>4. SeqToPublish(i)' = SeqToPublish(i)
      BY <3>1 DEF SeqToPublish
    <3> QED
      BY <1>17, <3>1, <3>3, <3>4, Zenon DEF LockInv, LockInvAt, Unpublished, Ended
  <2>2. OnlyOwn(i)
    BY <1>17, Zenon DEF OnlyOwn, BeginWrite, MasterContent, TypeOK
  <2> QED BY <1>17, <2>1, <2>2, OwnStep
<1>18. ASSUME TypeOK, LockInv, NEW i \in Instance, EndWrite(i) PROVE LockInv'
  <2>1. LockInvAt(i)'
    BY <1>18, Zenon DEF LockInv, LockInvAt, Unpublished, Ended, EndWrite, Write, MaybeWrite, SeqToPublish, TypeOK, Content
  <2>2. OnlyOwn(i)
    BY <1>18 DEF OnlyOwn, EndWrite, Write, MaybeWrite, TypeOK
  <2> QED BY <1>18, <2>1, <2>2, OwnStep
<1>19. ASSUME TypeOK, LockInv, NEW i \in Instance, NEW t \in Caller, GuardEnter(i, t) PROVE LockInv'
  <2>1. LockInvAt(i)'
    BY <1>19, Zenon DEF LockInv, LockInvAt, Unpublished, Ended, GuardEnter, SeqToPublish, TypeOK, Content
  <2>2. OnlyOwn(i)
    BY <1>19 DEF OnlyOwn, GuardEnter, TypeOK
  <2> QED BY <1>19, <2>1, <2>2, OwnStep
<1>20. ASSUME TypeOK, LockInv, NEW i \in Instance, NEW t \in Caller, SelfRetire(i, t) PROVE LockInv'
  <2>1. LockInvAt(i)'
    BY <1>20, Zenon DEF LockInv, LockInvAt, Unpublished, Ended, SelfRetire, Lose, SeqToPublish, TypeOK, Content
  <2>2. OnlyOwn(i)
    BY <1>20 DEF OnlyOwn, SelfRetire, Lose, TypeOK
  <2> QED BY <1>20, <2>1, <2>2, OwnStep
<1>21. ASSUME TypeOK, LockInv, NEW i \in Instance, NEW t \in Caller, GuardStat(i, t) PROVE LockInv'
  <2>1. LockInvAt(i)'
    <3> USE DEF LockInv, LockInvAt, Unpublished, Ended
    <3>1. (pc'[i] = pc[i] \/ (pc[i] = "master" /\ pc'[i] = "lost")) /\ UNCHANGED <<content, minSeq, noted, wr>>
      BY <1>21, GuardMoves, Zenon
    <3>2. SeqToPublish(i)' = SeqToPublish(i)
      BY <3>1 DEF SeqToPublish
    <3> QED
      BY <1>21, <3>1, <3>2, Zenon
  <2>2. OnlyOwn(i)
    BY <1>21 DEF OnlyOwn, GuardStat, Lose, TypeOK
  <2> QED BY <1>21, <2>1, <2>2, OwnStep
<1>22. ASSUME TypeOK, LockInv, NEW i \in Instance, NEW t \in Caller, GuardRead(i, t) PROVE LockInv'
  <2>1. LockInvAt(i)'
    <3> USE DEF LockInv, LockInvAt, Unpublished, Ended
    <3>1. (pc'[i] = pc[i] \/ (pc[i] = "master" /\ pc'[i] = "lost")) /\ UNCHANGED <<content, minSeq, noted, wr>>
      BY <1>22, GuardMoves, Zenon
    <3>2. SeqToPublish(i)' = SeqToPublish(i)
      BY <3>1 DEF SeqToPublish
    <3> QED
      BY <1>22, <3>1, <3>2, Zenon
  <2>2. OnlyOwn(i)
    BY <1>22 DEF OnlyOwn, GuardRead, Lose, TypeOK
  <2> QED BY <1>22, <2>1, <2>2, OwnStep
<1>23. ASSUME TypeOK, LockInv, NEW i \in Instance, NEW t \in Caller, GuardGiveUp(i, t)
       PROVE  LockInv'
  <2>1. LockInvAt(i)'
    BY <1>23, Zenon DEF LockInv, LockInvAt, Unpublished, Ended, GuardGiveUp, Lose, SeqToPublish, TypeOK, Content
  <2>2. OnlyOwn(i)
    BY <1>23 DEF OnlyOwn, GuardGiveUp, Lose, TypeOK
  <2> QED BY <1>23, <2>1, <2>2, OwnStep
<1>24. ASSUME TypeOK, LockInv, NEW i \in Instance, NEW t \in Caller, GuardDone(i, t) PROVE LockInv'
  <2>1. LockInvAt(i)'
    BY <1>24, Zenon DEF LockInv, LockInvAt, Unpublished, Ended, GuardDone, SeqToPublish, TypeOK, Content
  <2>2. OnlyOwn(i)
    BY <1>24 DEF OnlyOwn, GuardDone, TypeOK
  <2> QED BY <1>24, <2>1, <2>2, OwnStep
<1>25. ASSUME TypeOK, LockInv, NEW i \in Instance, Release(i) PROVE LockInv'
  <2>1. LockInvAt(i)'
    BY <1>25, Zenon DEF LockInv, LockInvAt, Unpublished, Ended, Release, SeqToPublish, TypeOK, Content
  <2>2. OnlyOwn(i)
    BY <1>25 DEF OnlyOwn, Release, TypeOK
  <2> QED BY <1>25, <2>1, <2>2, OwnStep
<1>26. ASSUME TypeOK, LockInv, NEW i \in Instance, ReleaseStat(i) PROVE LockInv'
  <2>1. LockInvAt(i)'
    BY <1>26, Zenon DEF LockInv, LockInvAt, Unpublished, Ended, ReleaseStat, SeqToPublish, TypeOK, Content
  <2>2. OnlyOwn(i)
    BY <1>26 DEF OnlyOwn, ReleaseStat, TypeOK
  <2> QED BY <1>26, <2>1, <2>2, OwnStep
<1>27. ASSUME TypeOK, LockInv, NEW i \in Instance, ReleaseRead(i) PROVE LockInv'
  <2>1. LockInvAt(i)'
    BY <1>27, Zenon DEF LockInv, LockInvAt, Unpublished, Ended, ReleaseRead, SeqToPublish, TypeOK, Content
  <2>2. OnlyOwn(i)
    BY <1>27, Zenon DEF OnlyOwn, ReleaseRead, TypeOK
  <2> QED BY <1>27, <2>1, <2>2, OwnStep
<1>28. ASSUME TypeOK, LockInv, NEW i \in Instance, ReleaseRemove(i) PROVE LockInv'
  <2>1. LockInvAt(i)'
    BY <1>28, Zenon DEF LockInv, LockInvAt, Unpublished, Ended, ReleaseRemove, SeqToPublish, TypeOK, Content
  <2>2. OnlyOwn(i)
    BY <1>28 DEF OnlyOwn, ReleaseRemove, TypeOK
  <2> QED BY <1>28, <2>1, <2>2, OwnStep
<1>29. ASSUME TypeOK, LockInv, NEW i \in Instance, Crash(i) PROVE LockInv'
  <2>1. LockInvAt(i)'
    BY <1>29, Zenon DEF LockInv, LockInvAt, Unpublished, Ended, Crash, SeqToPublish, TypeOK, Content
  <2>2. OnlyOwn(i)
    BY <1>29 DEF OnlyOwn, Crash, TypeOK
  <2> QED BY <1>29, <2>1, <2>2, OwnStep
<1>30. ASSUME LockInv, UNCHANGED vars PROVE LockInv'
  BY <1>30, Zenon DEF vars, SeqToPublish, LockInv, LockInvAt
<1> QED
  BY <1>1, <1>2, <1>3, <1>4, <1>5, <1>6, <1>7, <1>8, <1>9, <1>10, <1>11, <1>12, <1>13, <1>14,
     <1>15, <1>16, <1>17, <1>18, <1>19, <1>20, <1>21, <1>22, <1>23, <1>24, <1>25, <1>26, <1>27,
     <1>28, <1>29, <1>30
     DEF Next, Acquiring, Guarding, Leaving

\* The inductive invariant holds in every behaviour.
LEMMA LockInvariant == Spec => [](TypeOK /\ LockInv)
<1>1. Init => TypeOK
  BY NoneAssumption, BoundAssumption DEF Init, TypeOK, Empty, MasterContent, Content, Phase
<1>2. Init => LockInv
  <2> SUFFICES ASSUME Init, NEW i \in Instance PROVE LockInvAt(i)
    BY Zenon DEF LockInv
  <2>1. wr[i] = None
    BY DEF Init
  <2>2. pc[i] = "gone" \/ pc[i] = "down"
    BY DEF Init
  <2> QED
    BY <2>1, <2>2 DEF LockInvAt, Unpublished, At
<1> QED
  BY <1>1, <1>2, TypeStep, LockInvStep, PTL DEF Spec

\* What a master publishes is never below the write_seq it read before its tenure (step and
\* writeContent of lock.go): the floor the anti-replay check relies on survives a failover.
THEOREM FloorKept == Spec => []PublishedAboveFloor
<1>1. TypeOK /\ LockInv => PublishedAboveFloor
  BY DEF TypeOK, Content, LockInv, LockInvAt, PublishedAboveFloor
<1> QED
  BY <1>1, LockInvariant, PTL

-----------------------------------------------------------------------------
(* The published write_seq never goes down *)

\* A file is written by its creator only, in four places.
LEMMA WhoWrites ==
    ASSUME TypeOK, [Next]_vars, NEW i \in Instance, content'[i] # content[i]
    PROVE  CreateExclusive(i) \/ WriteCandidacy(i) \/ FirstBeat(i) \/ EndWrite(i)
<1> USE DEF TypeOK, lockMem
<1>1. ASSUME NEW k \in Instance, Start(k) PROVE FALSE
  BY <1>1 DEF Start
<1>2. ASSUME NEW k \in Instance, Observe(k) PROVE FALSE
  BY <1>2 DEF Observe
<1>3. ASSUME NEW k \in Instance, JudgeStale(k) PROVE FALSE
  BY <1>3 DEF JudgeStale
<1>4. ASSUME NEW k \in Instance, FindFree(k) PROVE FALSE
  BY <1>4 DEF FindFree
<1>5. ASSUME NEW k \in Instance, RemoveStale(k) PROVE FALSE
  BY <1>5 DEF RemoveStale
<1>6. ASSUME NEW k \in Instance, Reread(k) PROVE FALSE
  BY <1>6 DEF Reread
<1>7. ASSUME NEW k \in Instance, Interrupt(k) PROVE FALSE
  BY <1>7 DEF Interrupt
<1>8. ASSUME NEW k \in Instance, CheckInode(k) PROVE FALSE
  BY <1>8 DEF CheckInode
<1>9. ASSUME NEW k \in Instance, VerifyPublished(k) PROVE FALSE
  BY <1>9 DEF VerifyPublished
<1>10. ASSUME NEW k \in Instance, AbandonStat(k) PROVE FALSE
  BY <1>10 DEF AbandonStat
<1>11. ASSUME NEW k \in Instance, AbandonRemove(k) PROVE FALSE
  BY <1>11 DEF AbandonRemove
<1>12. ASSUME NEW k \in Instance, StopWaiting(k) PROVE FALSE
  BY <1>12 DEF StopWaiting
<1>13. ASSUME NEW k \in Instance, NoteSeq(k) PROVE FALSE
  BY <1>13 DEF NoteSeq
<1>14. ASSUME NEW k \in Instance, NEW nb \in BOOLEAN, BeginWrite(k, nb) PROVE FALSE
  BY <1>14 DEF BeginWrite
<1>15. ASSUME NEW k \in Instance, NEW t \in Caller, GuardEnter(k, t) PROVE FALSE
  BY <1>15 DEF GuardEnter
<1>16. ASSUME NEW k \in Instance, NEW t \in Caller, SelfRetire(k, t) PROVE FALSE
  BY <1>16 DEF SelfRetire
<1>17. ASSUME NEW k \in Instance, NEW t \in Caller, GuardStat(k, t) PROVE FALSE
  BY <1>17 DEF GuardStat
<1>18. ASSUME NEW k \in Instance, NEW t \in Caller, GuardRead(k, t) PROVE FALSE
  BY <1>18 DEF GuardRead
<1>19. ASSUME NEW k \in Instance, NEW t \in Caller, GuardGiveUp(k, t) PROVE FALSE
  BY <1>19 DEF GuardGiveUp
<1>20. ASSUME NEW k \in Instance, NEW t \in Caller, GuardDone(k, t) PROVE FALSE
  BY <1>20 DEF GuardDone
<1>21. ASSUME NEW k \in Instance, Release(k) PROVE FALSE
  BY <1>21 DEF Release
<1>22. ASSUME NEW k \in Instance, ReleaseStat(k) PROVE FALSE
  BY <1>22 DEF ReleaseStat
<1>23. ASSUME NEW k \in Instance, ReleaseRead(k) PROVE FALSE
  BY <1>23 DEF ReleaseRead
<1>24. ASSUME NEW k \in Instance, ReleaseRemove(k) PROVE FALSE
  BY <1>24 DEF ReleaseRemove
<1>25. ASSUME NEW k \in Instance, Crash(k) PROVE FALSE
  BY <1>25 DEF Crash
<1>26. ASSUME NEW k \in Instance, CreateExclusive(k) PROVE k = i
  BY <1>26 DEF CreateExclusive, Write, MaybeWrite
<1>27. ASSUME NEW k \in Instance, WriteCandidacy(k) PROVE k = i
  BY <1>27 DEF WriteCandidacy, Write, MaybeWrite
<1>28. ASSUME NEW k \in Instance, FirstBeat(k) PROVE k = i
  BY <1>28 DEF FirstBeat, Write, MaybeWrite
<1>29. ASSUME NEW k \in Instance, EndWrite(k) PROVE k = i
  BY <1>29 DEF EndWrite, Write, MaybeWrite
<1>30. ~UNCHANGED vars
  BY DEF vars
<1> HIDE DEF TypeOK
<1> QED
  BY <1>1, <1>2, <1>3, <1>4, <1>5, <1>6, <1>7, <1>8, <1>9, <1>10, <1>11, <1>12, <1>13, <1>14,
     <1>15, <1>16, <1>17, <1>18, <1>19, <1>20, <1>21, <1>22, <1>23, <1>24, <1>25, <1>26, <1>27,
     <1>28, <1>29, <1>30, Zenon
     DEF Next, Acquiring, Guarding, Leaving

\* While relay.lock is the same file its write_seq never goes down: the heartbeat, the seq
\* publication and the first beat (lock.go) publish at least what the file already carries, even
\* when an earlier write failed half way or ends after the lease was lost.
THEOREM SeqMonotone == Spec => SeqNeverLowered
<1>1. ASSUME TypeOK, LockInv, [Next]_vars, NEW i \in Instance, path = i, path' = i
      PROVE  content'[i].seq >= content[i].seq
  <2>0. content[i].seq \in Nat /\ minSeq[i] \in Nat
    BY <1>1, SeqTypes
  <2>1. CASE content'[i] = content[i]
    BY <2>0, <2>1
  <2>2. CASE CreateExclusive(i)
    <3>1. path # None
      BY <1>1, NoneAssumption
    <3>2. UNCHANGED content
      BY <2>2, <3>1 DEF CreateExclusive
    <3> QED
      BY <2>0, <3>2
  <2>3. CASE WriteCandidacy(i)
    <3>1. content'[i] = content[i] \/ content'[i] = Candidacy
      BY <1>1, <2>3 DEF WriteCandidacy, Write, MaybeWrite, TypeOK
    <3>2. content[i].seq = 0
      BY <1>1, <2>3, Zenon DEF WriteCandidacy, At, LockInv, LockInvAt, Unpublished
    <3>3. content'[i].seq = 0
      BY <3>1, <3>2 DEF Candidacy
    <3> QED
      BY <3>2, <3>3
  <2>4. CASE FirstBeat(i)
    <3>1. content'[i] = content[i] \/ content'[i] = FirstContent(i)
      BY <1>1, <2>4 DEF FirstBeat, Write, MaybeWrite, TypeOK
    <3>2. content[i].seq = 0
      BY <1>1, <2>4, Zenon DEF FirstBeat, At, LockInv, LockInvAt, Unpublished
    <3>3. content'[i].seq = 0 \/ content'[i].seq = FirstContent(i).seq
      BY <3>1, <3>2, Zenon
    <3>4. FirstContent(i).seq \in Nat
      BY <2>0 DEF FirstContent, MasterContent
    <3> QED
      BY <3>2, <3>3, <3>4
  <2>5. CASE EndWrite(i)
    <3>1. (content'[i] = content[i] \/ content'[i] = wr[i]) /\ wr[i] # None
      BY <1>1, <2>5 DEF EndWrite, Write, MaybeWrite, TypeOK
    <3>2. content[i].seq <= wr[i].seq /\ wr[i].seq \in Nat
      BY <1>1, <3>1, SeqTypes, Zenon DEF LockInv, LockInvAt
    <3> QED
      BY <2>0, <3>1, <3>2
  <2> QED
    BY <1>1, <2>1, <2>2, <2>3, <2>4, <2>5, WhoWrites, Zenon
<1>2. TypeOK /\ LockInv /\ [Next]_vars =>
        [\A i \in Instance : path = i /\ path' = i => content'[i].seq >= content[i].seq]_vars
  BY <1>1, Zenon
<1> QED
  BY <1>2, LockInvariant, PTL DEF Spec, SeqNeverLowered

-----------------------------------------------------------------------------
(* MasterLock implements Lease: every file operation of lock.go is a step of the abstract lease or leaves
   it as it is. A first beat on the designated file publishes, a deletion vacates, the last read of
   CheckOwnership grants, leaving the tenure resigns. *)


\* What the abstract lease sees of the lock: a step that changes none of it leaves the lease as it is.
SameGuards == \A j \in Instance, t \in Caller : (guard'[j][t] = "ok") <=> (guard[j][t] = "ok")

SamePlaces(S) ==
    \A j \in S : /\ (pc'[j] = "master") <=> (pc[j] = "master")
                 /\ (pc'[j] \in Ended) <=> (pc[j] \in Ended)

SameRole == path # None => ((content'[path].role = "master") <=> (content[path].role = "master"))

\* Nothing the lease sees changes.
LEMMA Stutter ==
    ASSUME UNCHANGED path, SameRole, SamePlaces(Instance), SameGuards
    PROVE  UNCHANGED AbstractLease!leaseVars
<1>1. Holder' = Holder
  BY DEF Holder, SameRole
<1>2. Believers' = Believers
  BY DEF Believers, SamePlaces, At
<1>3. Granted' = Granted
  BY DEF Granted, SameGuards
<1>4. Out' = Out
  BY DEF Out, Evicted, At, SamePlaces
<1> QED
  BY <1>1, <1>2, <1>3, <1>4 DEF AbstractLease!leaseVars

\* A deletion of relay.lock vacates the lease, and evicts the master that held it, or finds nothing
\* to vacate.
LEMMA Deletion ==
    ASSUME TypeOK, LockInv, path' = None, UNCHANGED content, SamePlaces(Instance), SameGuards
    PROVE  AbstractLease!Vacate \/ UNCHANGED AbstractLease!leaseVars
<1>1. Believers' = Believers
  BY DEF Believers, SamePlaces, At
<1>2. Granted' = Granted
  BY DEF Granted, SameGuards
<1>3. Holder' = None
  BY DEF Holder
<1>4. CASE Holder = None
  <2>1. \A j \in Instance : At(j, "master") => path # j
    BY <1>4, NoneAssumption, Zenon DEF Holder, LockInv, LockInvAt
  <2>2. Out' = Out
    BY <2>1, NoneAssumption DEF Out, Evicted, At, SamePlaces
  <2> QED
    BY <1>1, <1>2, <1>3, <1>4, <2>2 DEF AbstractLease!leaseVars
<1>5. CASE Holder # None
  <2>1. Holder = path
    BY <1>5 DEF Holder
  <2>2. Out' = Out \cup (Believers \cap {Holder})
    BY <2>1, NoneAssumption DEF Out, Believers, Evicted, At, SamePlaces
  <2> QED
    BY <1>1, <1>2, <1>3, <1>5, <2>2 DEF AbstractLease!Vacate
<1> QED
  BY <1>4, <1>5

\* An instance that leaves its tenure, or stops waiting for one, resigns.
LEMMA Resignation ==
    ASSUME NEW i \in Instance, UNCHANGED <<path, content>>, pc' = [pc EXCEPT ![i] = "lost"] \/
              pc' = [pc EXCEPT ![i] = "relStat"] \/ pc' = [pc EXCEPT ![i] = "gone"],
           TypeOK, SameGuards
    PROVE  AbstractLease!Resign(i)
<1>1. Holder' = Holder
  BY DEF Holder
<1>2. Granted' = Granted
  BY DEF Granted, SameGuards
<1>3. pc'[i] \in Ended /\ pc'[i] # "master" /\ \A j \in Instance \ {i} : pc'[j] = pc[j]
  BY DEF Ended, TypeOK
<1>4. Believers' = Believers \ {i}
  BY <1>3 DEF Believers, At
<1>5. Out' = Out \cup {i}
  BY <1>3 DEF Out, Evicted, At
<1> QED
  BY <1>1, <1>2, <1>4, <1>5 DEF AbstractLease!Resign
\* Each step of the lock is a step of the lease or leaves it as it is.
LEMMA LeaseStep ==
    TypeOK /\ LockInv /\ [Next]_vars => [AbstractLease!Next]_(AbstractLease!leaseVars)
<1> DEFINE Refined == [AbstractLease!Next]_(AbstractLease!leaseVars)
<1> USE DEF At, Goto, lockMem
<1>0. ASSUME UNCHANGED AbstractLease!leaseVars PROVE Refined
  BY <1>0
<1>1. ASSUME TypeOK, LockInv, NEW i \in Instance, Start(i) PROVE Refined
  <2>1. SameRole /\ SamePlaces(Instance) /\ SameGuards
    BY <1>1, NoneAssumption DEF Start, SameRole, SamePlaces, SameGuards, Ended, TypeOK
  <2> QED
    BY <1>1, <2>1, <1>0, Stutter DEF Start
<1>2. ASSUME TypeOK, LockInv, NEW i \in Instance, Observe(i) PROVE Refined
  <2>1. SameRole /\ SamePlaces(Instance) /\ SameGuards
    BY <1>2, NoneAssumption, Zenon DEF Observe, SameRole, SamePlaces, SameGuards, Ended, TypeOK
  <2> QED
    BY <1>2, <2>1, <1>0, Stutter, Zenon DEF Observe
<1>3. ASSUME TypeOK, LockInv, NEW i \in Instance, JudgeStale(i) PROVE Refined
  <2>1. SameRole /\ SamePlaces(Instance) /\ SameGuards
    BY <1>3, NoneAssumption DEF JudgeStale, SameRole, SamePlaces, SameGuards, Ended, TypeOK
  <2> QED
    BY <1>3, <2>1, <1>0, Stutter DEF JudgeStale
<1>4. ASSUME TypeOK, LockInv, NEW i \in Instance, FindFree(i) PROVE Refined
  <2>1. SameRole /\ SamePlaces(Instance) /\ SameGuards
    BY <1>4, NoneAssumption DEF FindFree, SameRole, SamePlaces, SameGuards, Ended, TypeOK
  <2> QED
    BY <1>4, <2>1, <1>0, Stutter DEF FindFree
<1>5. ASSUME TypeOK, LockInv, NEW i \in Instance, RemoveStale(i) PROVE Refined
  <2>1. SameRole /\ SamePlaces(Instance) /\ SameGuards /\ UNCHANGED content
    BY <1>5 DEF RemoveStale, SameRole, SamePlaces, SameGuards, Ended, TypeOK
  <2>2. CASE path' = path
    BY <2>1, <2>2, <1>0, Stutter
  <2>3. CASE path' = None
    BY <1>5, <2>1, <2>3, <1>0, Deletion DEF AbstractLease!Next
  <2> QED
    BY <1>5, <2>2, <2>3 DEF RemoveStale
<1>6. ASSUME TypeOK, LockInv, NEW i \in Instance, CreateExclusive(i) PROVE Refined
  <2>1. CASE UNCHANGED path
    <3>1. SameRole /\ SamePlaces(Instance) /\ SameGuards
      BY <1>6, <2>1, NoneAssumption, Zenon
         DEF CreateExclusive, SameRole, SamePlaces, SameGuards, Ended, TypeOK
    <3> QED
      BY <2>1, <3>1, <1>0, Stutter
  <2>2. CASE path = None /\ path' = i
    <3>1. Holder = None /\ Holder' = None
      BY <1>6, <2>2, NoneAssumption, SMTT(30) DEF CreateExclusive, Holder, Write, Empty, TypeOK
    <3>2. \A j \in Instance : /\ (pc'[j] = "master") <=> (pc[j] = "master")
                              /\ (pc'[j] \in Ended) <=> (pc[j] \in Ended)
      BY <1>6, Zenon DEF CreateExclusive, Ended, TypeOK
    <3>3. Believers' = Believers /\ Granted' = Granted
      BY <1>6, <3>2, Zenon DEF CreateExclusive, Believers, Granted
    <3>4. Out' = Out
      BY <1>6, <2>2, <3>2, NoneAssumption DEF CreateExclusive, Out, Evicted
    <3> QED
      BY <3>1, <3>3, <3>4, <1>0 DEF AbstractLease!leaseVars
  <2> QED
    BY <1>6, <2>1, <2>2 DEF CreateExclusive
<1>7. ASSUME TypeOK, LockInv, NEW i \in Instance, WriteCandidacy(i) PROVE Refined
  <2>1. content[i].role # "master"
    BY <1>7, Zenon DEF WriteCandidacy, LockInv, LockInvAt, Unpublished
  <2>2. SameRole
    <3>1. UNCHANGED content \/ content' = [content EXCEPT ![i] = Candidacy]
      BY <1>7 DEF WriteCandidacy, Write, MaybeWrite
    <3>2. content'[i].role # "master" /\ \A j \in Instance \ {i} : content'[j] = content[j]
      BY <1>7, <2>1, <3>1 DEF Candidacy, TypeOK
    <3> QED
      BY <1>7, <2>1, <3>2, NoneAssumption, Zenon DEF SameRole, TypeOK
  <2>3. SamePlaces(Instance) /\ SameGuards
    BY <1>7 DEF WriteCandidacy, SamePlaces, SameGuards, Ended, TypeOK
  <2> QED
    BY <1>7, <2>2, <2>3, <1>0, Stutter DEF WriteCandidacy
<1>8. ASSUME TypeOK, LockInv, NEW i \in Instance, Reread(i) PROVE Refined
  <2>1. SameRole /\ SamePlaces(Instance) /\ SameGuards
    BY <1>8, NoneAssumption DEF Reread, SameRole, SamePlaces, SameGuards, Ended, TypeOK
  <2> QED
    BY <1>8, <2>1, <1>0, Stutter DEF Reread
<1>9. ASSUME TypeOK, LockInv, NEW i \in Instance, Interrupt(i) PROVE Refined
  <2>1. SameRole /\ SamePlaces(Instance) /\ SameGuards
    BY <1>9, NoneAssumption, Zenon DEF Interrupt, SameRole, SamePlaces, SameGuards, Ended, TypeOK
  <2> QED
    BY <1>9, <2>1, <1>0, Stutter DEF Interrupt
<1>10. ASSUME TypeOK, LockInv, NEW i \in Instance, CheckInode(i) PROVE Refined
  <2>1. SameRole /\ SamePlaces(Instance) /\ SameGuards
    BY <1>10, NoneAssumption, Zenon DEF CheckInode, SameRole, SamePlaces, SameGuards, Ended, TypeOK
  <2> QED
    BY <1>10, <2>1, <1>0, Stutter DEF CheckInode
<1>11. ASSUME TypeOK, LockInv, NEW i \in Instance, FirstBeat(i) PROVE Refined
  <2>1. SamePlaces(Instance) /\ SameGuards /\ UNCHANGED path
    BY <1>11 DEF FirstBeat, SamePlaces, SameGuards, Ended, TypeOK
  <2>2. content[i].role # "master" /\ i \notin Out
    BY <1>11, Zenon DEF FirstBeat, LockInv, LockInvAt, Unpublished, Out, Evicted, Ended
  <2>3. CASE path # i \/ UNCHANGED content
    <3>1. SameRole
      BY <1>11, <2>1, <2>3, Zenon DEF FirstBeat, Write, MaybeWrite, SameRole, TypeOK
    <3> QED
      BY <2>1, <3>1, <1>0, Stutter
  <2>4. CASE path = i /\ content' = [content EXCEPT ![i] = FirstContent(i)]
    <3>1. Holder = None /\ Holder' = i
      BY <1>11, <2>1, <2>2, <2>4, NoneAssumption, Zenon DEF Holder, FirstContent, MasterContent, TypeOK
    <3>2. Believers' = Believers /\ Granted' = Granted
      BY <2>1 DEF Believers, Granted, SamePlaces, SameGuards
    <3>3. Out' = Out
      BY <2>1, Zenon DEF Out, Evicted, SamePlaces
    <3> QED
      BY <2>2, <3>1, <3>2, <3>3 DEF AbstractLease!Next, AbstractLease!Publish
  <2> QED
    BY <1>11, <2>3, <2>4 DEF FirstBeat, Write, MaybeWrite
<1>12. ASSUME TypeOK, LockInv, NEW i \in Instance, VerifyPublished(i) PROVE Refined
  <2>1. CASE ReadsOwn(i) /\ content[i].role = "master" /\ Goto(i, "master")
    <3>1. Holder = i /\ Holder' = i
      BY <1>12, <2>1, NoneAssumption, Zenon DEF VerifyPublished, Holder, ReadsOwn
    <3>2. i \notin Believers \cup Out
      BY <1>12, Zenon DEF VerifyPublished, Believers, Out, Evicted, Ended
    <3>3. Believers' = Believers \cup {i} /\ Granted' = Granted
      BY <1>12, <2>1, SMTT(30) DEF VerifyPublished, Believers, Granted, TypeOK
    <3>4. Out' = Out
      BY <1>12, <2>1, Zenon DEF VerifyPublished, Out, Evicted, Ended, ReadsOwn, TypeOK
    <3> QED
      BY <3>1, <3>2, <3>3, <3>4 DEF AbstractLease!Next, AbstractLease!Promote
  <2>2. CASE Goto(i, "poll")
    <3>1. SameRole /\ SamePlaces(Instance) /\ SameGuards
      BY <1>12, <2>2, Zenon DEF VerifyPublished, SameRole, SamePlaces, SameGuards, Ended, TypeOK
    <3> QED
      BY <1>12, <3>1, <1>0, Stutter, Zenon DEF VerifyPublished
  <2> QED
    BY <1>12, <2>1, <2>2, Zenon DEF VerifyPublished
<1>13. ASSUME TypeOK, LockInv, NEW i \in Instance, AbandonStat(i) PROVE Refined
  <2>1. SameRole /\ SamePlaces(Instance) /\ SameGuards
    BY <1>13, NoneAssumption, Zenon DEF AbandonStat, SameRole, SamePlaces, SameGuards, Ended, TypeOK
  <2> QED
    BY <1>13, <2>1, <1>0, Stutter DEF AbandonStat
<1>14. ASSUME TypeOK, LockInv, NEW i \in Instance, AbandonRemove(i) PROVE Refined
  <2>1. SameRole /\ SamePlaces(Instance) /\ SameGuards /\ UNCHANGED content
    BY <1>14, Zenon DEF AbandonRemove, SameRole, SamePlaces, SameGuards, Ended, TypeOK
  <2>2. CASE path' = path
    BY <2>1, <2>2, <1>0, Stutter
  <2>3. CASE path' = None
    BY <1>14, <2>1, <2>3, <1>0, Deletion DEF AbstractLease!Next
  <2> QED
    BY <1>14, <2>2, <2>3 DEF AbandonRemove
<1>15. ASSUME TypeOK, LockInv, NEW i \in Instance, StopWaiting(i) PROVE Refined
  <2>1. SameGuards
    BY <1>15, Zenon DEF StopWaiting, SameGuards
  <2> QED
    BY <1>15, <2>1, Resignation, Zenon DEF StopWaiting, AbstractLease!Next
<1>16. ASSUME TypeOK, LockInv, NEW i \in Instance, NoteSeq(i) PROVE Refined
  <2>1. SameRole /\ SamePlaces(Instance) /\ SameGuards
    BY <1>16, NoneAssumption, Zenon DEF NoteSeq, SameRole, SamePlaces, SameGuards, Ended, TypeOK
  <2> QED
    BY <1>16, <2>1, <1>0, Stutter DEF NoteSeq
<1>17. ASSUME TypeOK, LockInv, NEW i \in Instance, NEW nb \in BOOLEAN, BeginWrite(i, nb)
       PROVE  Refined
  <2>1. SameRole /\ SamePlaces(Instance) /\ SameGuards
    BY <1>17, NoneAssumption, Zenon DEF BeginWrite, SameRole, SamePlaces, SameGuards, Ended, TypeOK
  <2> QED
    BY <1>17, <2>1, <1>0, Stutter, Zenon DEF BeginWrite
<1>18. ASSUME TypeOK, LockInv, NEW i \in Instance, EndWrite(i) PROVE Refined
  <2>1. SameRole /\ SamePlaces(Instance) /\ SameGuards
    BY <1>18, NoneAssumption, Zenon
       DEF EndWrite, Write, MaybeWrite, LockInv, LockInvAt, SameRole, SamePlaces, SameGuards, Ended, TypeOK
  <2> QED
    BY <1>18, <2>1, <1>0, Stutter DEF EndWrite
<1>19. ASSUME TypeOK, LockInv, NEW i \in Instance, NEW t \in Caller, GuardEnter(i, t) PROVE Refined
  <2>1. SameRole /\ SamePlaces(Instance) /\ SameGuards
    BY <1>19, NoneAssumption, Zenon
       DEF GuardEnter, SetGuard, SameRole, SamePlaces, SameGuards, Ended, TypeOK
  <2> QED
    BY <1>19, <2>1, <1>0, Stutter DEF GuardEnter
<1>20. ASSUME TypeOK, LockInv, NEW i \in Instance, NEW t \in Caller, SelfRetire(i, t) PROVE Refined
  <2>1. SameGuards
    BY <1>20, Zenon DEF SelfRetire, SameGuards
  <2> QED
    BY <1>20, <2>1, Resignation, Zenon DEF SelfRetire, Lose, AbstractLease!Next
<1>21. ASSUME TypeOK, LockInv, NEW i \in Instance, NEW t \in Caller, GuardStat(i, t) PROVE Refined
  <2>1. UNCHANGED <<path, content>> /\ SameRole
    BY <1>21, Zenon DEF GuardStat, SameRole
  <2>2. CASE SetGuard(i, t, "read") \/ SetGuard(i, t, "idle")
    <3>1. SameGuards
      BY <1>21, <2>2 DEF GuardStat, SetGuard, SameGuards, TypeOK
    <3>2. CASE UNCHANGED pc
      BY <2>1, <3>1, <3>2, <1>0, Stutter DEF SamePlaces
    <3>3. CASE pc' = [pc EXCEPT ![i] = "lost"]
      BY <1>21, <2>1, <3>1, <3>3, Resignation, Zenon DEF AbstractLease!Next
    <3> QED
      BY <1>21, <3>2, <3>3, Zenon DEF GuardStat, Lose
  <2> QED
    BY <1>21, <2>2, Zenon DEF GuardStat
<1>22. ASSUME TypeOK, LockInv, NEW i \in Instance, NEW t \in Caller, GuardRead(i, t) PROVE Refined
  <2>1. UNCHANGED <<path, content>> /\ SameRole
    BY <1>22, Zenon DEF GuardRead, SameRole
  <2>2. CASE SetGuard(i, t, "idle")
    <3>1. SameGuards
      BY <1>22, <2>2, Zenon DEF GuardRead, SetGuard, SameGuards, TypeOK
    <3>2. CASE UNCHANGED pc
      BY <2>1, <3>1, <3>2, <1>0, Stutter DEF SamePlaces
    <3>3. CASE pc' = [pc EXCEPT ![i] = "lost"]
      BY <1>22, <2>1, <3>1, <3>3, Resignation, Zenon DEF AbstractLease!Next
    <3> QED
      BY <1>22, <3>2, <3>3, Zenon DEF GuardRead, Lose
  <2>3. CASE SetGuard(i, t, "ok") /\ ReadsOwn(i) /\ content[i].role = "master" /\ UNCHANGED pc
    <3>1. Holder = i /\ Holder' = i
      BY <2>1, <2>3, NoneAssumption DEF Holder, ReadsOwn
    <3>2. Granted' = Granted \cup {i}
      BY <1>22, <2>3 DEF Granted, SetGuard, TypeOK
    <3>3. Believers' = Believers /\ Out' = Out
      BY <2>1, <2>3, Zenon DEF Believers, Out, Evicted
    <3> QED
      BY <3>1, <3>2, <3>3 DEF AbstractLease!Next, AbstractLease!Grant
  <2> QED
    BY <1>22, <2>2, <2>3, Zenon DEF GuardRead
<1>23. ASSUME TypeOK, LockInv, NEW i \in Instance, NEW t \in Caller, GuardGiveUp(i, t) PROVE Refined
  <2>1. UNCHANGED <<path, content>> /\ SameRole
    BY <1>23 DEF GuardGiveUp, SameRole
  <2>2. CASE SetGuard(i, t, "read") \/ SetGuard(i, t, "idle")
    <3>1. SameGuards
      BY <1>23, <2>2, Zenon DEF GuardGiveUp, SetGuard, SameGuards, TypeOK
    <3>2. CASE UNCHANGED pc
      BY <2>1, <3>1, <3>2, <1>0, Stutter DEF SamePlaces
    <3>3. CASE pc' = [pc EXCEPT ![i] = "lost"]
      BY <1>23, <2>1, <3>1, <3>3, Resignation, Zenon DEF AbstractLease!Next
    <3> QED
      BY <1>23, <3>2, <3>3, Zenon DEF GuardGiveUp, Lose
  <2> QED
    BY <1>23, <2>2 DEF GuardGiveUp
<1>24. ASSUME TypeOK, LockInv, NEW i \in Instance, NEW t \in Caller, GuardDone(i, t) PROVE Refined
  <2>1. Holder' = Holder /\ Believers' = Believers /\ Out' = Out
    BY <1>24, Zenon DEF GuardDone, Holder, Believers, Out, Evicted
  <2>2. \A j \in Instance, u \in Caller :
          (guard'[j][u] = "ok") <=> (guard[j][u] = "ok" /\ ~(j = i /\ u = t))
    BY <1>24, Zenon DEF GuardDone, SetGuard, TypeOK
  <2>3. CASE \E u \in Caller \ {t} : guard[i][u] = "ok"
    <3>1. Granted' = Granted
      BY <2>2, <2>3 DEF Granted
    <3> QED
      BY <2>1, <3>1, <1>0 DEF AbstractLease!leaseVars
  <2>4. CASE \A u \in Caller \ {t} : guard[i][u] # "ok"
    <3>1. Granted' = Granted \ {i}
      BY <2>2, <2>4 DEF Granted
    <3> QED
      BY <2>1, <3>1 DEF AbstractLease!Next, AbstractLease!Finish
  <2> QED
    BY <2>3, <2>4
<1>25. ASSUME TypeOK, LockInv, NEW i \in Instance, Release(i) PROVE Refined
  <2>1. SameGuards
    BY <1>25, Zenon DEF Release, SameGuards
  <2> QED
    BY <1>25, <2>1, Resignation, Zenon DEF Release, AbstractLease!Next
<1>26. ASSUME TypeOK, LockInv, NEW i \in Instance, ReleaseStat(i) PROVE Refined
  <2>1. SameRole /\ SamePlaces(Instance) /\ SameGuards
    BY <1>26, NoneAssumption, Zenon DEF ReleaseStat, SameRole, SamePlaces, SameGuards, Ended, TypeOK
  <2> QED
    BY <1>26, <2>1, <1>0, Stutter DEF ReleaseStat
<1>27. ASSUME TypeOK, LockInv, NEW i \in Instance, ReleaseRead(i) PROVE Refined
  <2>1. SameRole /\ SamePlaces(Instance) /\ SameGuards
    BY <1>27, NoneAssumption, Zenon DEF ReleaseRead, SameRole, SamePlaces, SameGuards, Ended, TypeOK
  <2> QED
    BY <1>27, <2>1, <1>0, Stutter DEF ReleaseRead
<1>28. ASSUME TypeOK, LockInv, NEW i \in Instance, ReleaseRemove(i) PROVE Refined
  <2>1. SameRole /\ SamePlaces(Instance) /\ SameGuards /\ UNCHANGED content
    BY <1>28, Zenon DEF ReleaseRemove, SameRole, SamePlaces, SameGuards, Ended, TypeOK
  <2>2. CASE path' = path
    BY <2>1, <2>2, <1>0, Stutter
  <2>3. CASE path' = None
    BY <1>28, <2>1, <2>3, <1>0, Deletion DEF AbstractLease!Next
  <2> QED
    BY <1>28, <2>2, <2>3 DEF ReleaseRemove
<1>29. ASSUME TypeOK, LockInv, NEW i \in Instance, Crash(i) PROVE Refined
  <2>1. Holder' = Holder
    BY <1>29, Zenon DEF Crash, Holder
  <2>2. pc'[i] = "gone" /\ \A j \in Instance \ {i} : pc'[j] = pc[j]
    BY <1>29, Zenon DEF Crash, TypeOK
  <2>3. Believers' = Believers \ {i}
    BY <2>2 DEF Believers
  <2>4. Granted' = Granted \ {i}
    BY <1>29, Zenon DEF Crash, Granted, TypeOK
  <2>5. Out' = Out \cup {i}
    BY <1>29, <2>2 DEF Crash, Out, Evicted, Ended
  <2> QED
    BY <2>1, <2>3, <2>4, <2>5 DEF AbstractLease!Next, AbstractLease!Crash
<1>30. ASSUME UNCHANGED vars PROVE Refined
  <2>1. SameRole /\ SamePlaces(Instance) /\ SameGuards
    BY <1>30 DEF vars, SameRole, SamePlaces, SameGuards
  <2> QED
    BY <1>30, <2>1, <1>0, Stutter DEF vars
<1> HIDE DEF Refined
<1> QED
  <2>1. TypeOK /\ LockInv /\ [Next]_vars => Refined
    BY <1>1, <1>2, <1>3, <1>4, <1>5, <1>6, <1>7, <1>8, <1>9, <1>10, <1>11, <1>12, <1>13, <1>14,
       <1>15, <1>16, <1>17, <1>18, <1>19, <1>20, <1>21, <1>22, <1>23, <1>24, <1>25, <1>26, <1>27,
       <1>28, <1>29, <1>30, Zenon
       DEF Next, Acquiring, Guarding, Leaving
  <2> QED
    BY <2>1 DEF Refined

\* The lock file protocol of lock.go implements the abstract lease: the write guard (CheckOwnership)
\* grants only to the instance published as master, a publication only follows a deletion, and an
\* instance that lost, released or was evicted from the lease never holds it again.
THEOREM LockImplementsLease == Spec => ImplementsLease
<1>1. ASSUME Init PROVE AbstractLease!Init
  <2>1. Holder = path
    BY <1>1, NoneAssumption DEF Init, Holder, MasterContent
  <2>2. \A i \in Instance : pc[i] = (IF i = path THEN "gone" ELSE "down") /\ ~At(i, "master")
    BY <1>1, Zenon DEF Init, At
  <2>3. Believers = {} /\ Out = {path} \ {None}
    BY <1>1, <2>2, NoneAssumption, Zenon DEF Init, Believers, Out, Evicted, Ended
  <2>4. Granted = {}
    BY <1>1 DEF Init, Granted
  <2> QED
    BY <1>1, <2>1, <2>3, <2>4 DEF Init, AbstractLease!Init
<1> QED
  BY <1>1, LeaseStep, LockInvariant, PTL DEF Spec, ImplementsLease, AbstractLease!Spec

-----------------------------------------------------------------------------
(* How a program reaches the active instance of the pair.  A request that is not an idempotent read is
   sent to one address at most in a round: while a round has addresses left to try, in the dial or in
   the enrolment that follows a verdict, nothing has left yet. *)

CONSTANTS N, Client, First, Kinds, Idents, Target, MaxTries, MaxChange, NoClient
VARIABLES kind, srv, ident, looped, dpc, head, ehead, todo, at, sent, auth, tries, pin, stat, term, cancel,
          mgr, reg, slot, chg

D == INSTANCE Dialing WITH None <- NoClient, pc <- dpc

Dials == {"dial", "enrol"}

\* What a round has sent: nothing while it still tries addresses, one request in the end.
SentInv ==
    /\ dpc = [c \in Client |-> dpc[c]] /\ sent = [c \in Client |-> sent[c]]
    /\ kind \in Kinds
    /\ ~D!Idempotent => \A c \in Client :
          /\ dpc[c] \in Dials => sent[c] = {}
          /\ sent[c] = {} \/ \E a : sent[c] = {a}

LEMMA DialStart == D!Init => SentInv
BY DEF D!Init, SentInv, Dials

\* A step that sends nothing and starts no round.
LEMMA QuietRound ==
  ASSUME SentInv, UNCHANGED <<kind, sent>>, dpc' = [c \in Client |-> dpc'[c]],
         \A c \in Client : dpc'[c] \in Dials => dpc[c] \in Dials
  PROVE  SentInv'
BY DEF SentInv, D!Idempotent

\* A step of client c that ends its round with at most one request sent, or starts one with none.
LEMMA RoundStep ==
  ASSUME SentInv, NEW c \in Client, kind' = kind, NEW p, NEW s,
         dpc' = [dpc EXCEPT ![c] = p], sent' = [sent EXCEPT ![c] = s],
         ~D!Idempotent => (s = {} \/ (p \notin Dials /\ \E a : s = {a}))
  PROVE  SentInv'
BY DEF SentInv, D!Idempotent

\* The four outcomes of an attempt (endpoints/dial.go DialFirst): only a failure before send goes on
\* to the next address.
LEMMA AttemptStep == ASSUME SentInv, NEW c \in Client, D!Attempt(c) PROVE SentInv'
<1>0. dpc[c] \in Dials /\ kind' = kind /\ (~D!Idempotent => sent[c] = {})
  BY DEF D!Attempt, D!AttemptBeforeSend, D!AttemptAfterSend, D!AttemptVerdict, D!AttemptAnswered, D!fixed, SentInv, Dials
<1> DEFINE a == Head(todo[c])
<1>1. CASE D!AttemptBeforeSend(c)
  <2>1. PICK s : sent' = [sent EXCEPT ![c] = s] /\ (~D!Idempotent => s = sent[c])
    BY <1>1 DEF D!AttemptBeforeSend, D!BeforeSend, D!Idempotent
  <2>2. PICK p : dpc' = [dpc EXCEPT ![c] = p]
    <3>1. CASE dpc' = dpc
      BY <3>1 DEF SentInv
    <3>2. CASE D!Failed(c)
      BY <3>2 DEF D!Failed
    <3> QED BY <1>1, <3>1, <3>2 DEF D!AttemptBeforeSend, D!NextAddress
  <2> QED BY <1>0, <2>1, <2>2, RoundStep
<1>2. CASE D!AttemptAfterSend(c)
  <2>1. sent' = [sent EXCEPT ![c] = sent[c] \cup {a}]
    BY <1>2 DEF D!AttemptAfterSend
  <2>2. CASE D!Idempotent
    <3>1. PICK p : dpc' = [dpc EXCEPT ![c] = p]
      <4>1. CASE dpc' = dpc
        BY <4>1 DEF SentInv
      <4>2. CASE D!Failed(c)
        BY <4>2 DEF D!Failed
      <4> QED BY <1>2, <2>2, <4>1, <4>2 DEF D!AttemptAfterSend, D!NextAddress
    <3> QED BY <1>0, <2>1, <2>2, <3>1, RoundStep
  <2>3. CASE ~D!Idempotent
    <3> DEFINE p == IF kind \in D!OneShot THEN "done" ELSE "wait"
    <3>1. dpc' = [dpc EXCEPT ![c] = p] /\ p \notin Dials
      BY <1>2, <2>3 DEF D!AttemptAfterSend, D!Failed, Dials
    <3> HIDE DEF p
    <3>2. sent[c] \cup {a} = {a}
      BY <1>0, <2>3
    <3> QED BY <1>0, <2>1, <3>1, <3>2, RoundStep
  <2> QED BY <2>2, <2>3
<1>3. CASE D!AttemptVerdict(c)
  <2>1. CASE tries[c] < MaxTries
    <3>1. dpc' = [dpc EXCEPT ![c] = "wait"] /\ sent' = [sent EXCEPT ![c] = sent[c] \cup {a}]
      BY <1>3, <2>1 DEF D!AttemptVerdict
    <3>2. "wait" \notin Dials /\ (~D!Idempotent => sent[c] \cup {a} = {a})
      BY <1>0 DEF Dials
    <3> QED BY <1>0, <3>1, <3>2, RoundStep
  <2>2. CASE ~(tries[c] < MaxTries)
    <3>1. dpc' = [dpc EXCEPT ![c] = "enrol"] /\ sent' = [sent EXCEPT ![c] = {}]
      BY <1>3, <2>2 DEF D!AttemptVerdict
    <3> QED BY <1>0, <3>1, RoundStep
  <2> QED BY <2>1, <2>2
<1>4. CASE D!AttemptAnswered(c)
  <2> DEFINE p == IF kind \in D!Relays THEN "open" ELSE IF kind \in D!OneShot THEN "done"
                  ELSE IF dpc[c] = "enrol" THEN "wait" ELSE "linked"
  <2>1. dpc' = [dpc EXCEPT ![c] = p] /\ p \notin Dials
    BY <1>4 DEF D!AttemptAnswered, Dials
  <2> HIDE DEF p
  <2>2. sent' = [sent EXCEPT ![c] = sent[c] \cup {a}] /\ (~D!Idempotent => sent[c] \cup {a} = {a})
    BY <1>0, <1>4 DEF D!AttemptAnswered
  <2> QED BY <1>0, <2>1, <2>2, RoundStep
<1> QED BY <1>1, <1>2, <1>3, <1>4 DEF D!Attempt

LEMMA BeginStep == ASSUME SentInv, NEW c \in Client, D!Begin(c) PROVE SentInv'
<1>1. CASE kind = "push" /\ looped
  <2>1. dpc' = [dpc EXCEPT ![c] = "refused"] /\ UNCHANGED <<kind, sent>> /\ "refused" \notin Dials
    BY <1>1 DEF D!Begin, D!fixed, Dials
  <2> QED BY <2>1, QuietRound DEF SentInv
<1>2. CASE ~(kind = "push" /\ looped)
  <2>1. dpc' = [dpc EXCEPT ![c] = "dial"] /\ sent' = [sent EXCEPT ![c] = {}] /\ kind' = kind
    BY <1>2 DEF D!Begin, D!fixed
  <2> QED BY <2>1, RoundStep
<1> QED BY <1>1, <1>2

\* The other steps of a client only leave a round.
LEMMA OtherStep ==
  ASSUME SentInv, NEW c \in Client,
         \/ D!HandshakeFails(c) \/ D!ParentAck(c) \/ D!ChildHello(c) \/ D!ChildAck(c) \/ D!LinkEnds(c) \/ D!Wake(c)
         \/ D!SetTerminal(c) \/ D!GiveUp(c) \/ D!Stopped(c) \/ D!FetchTimeout(c) \/ D!ManagerStart(c) \/ D!Refuse(c)
  PROVE  SentInv'
<1>1. UNCHANGED <<kind, sent>>
  BY DEF D!HandshakeFails, D!ParentAck, D!ChildHello, D!ChildAck, D!LinkEnds, D!Wake, D!SetTerminal, D!GiveUp, D!Stopped,
         D!FetchTimeout, D!ManagerStart, D!Refuse, D!fixed, D!rotor
<1>2. dpc' = dpc \/ \E p : p \notin Dials /\ dpc' = [dpc EXCEPT ![c] = p]
  BY DEF D!HandshakeFails, D!ParentAck, D!ChildHello, D!ChildAck, D!LinkEnds, D!Wake, D!SetTerminal, D!GiveUp, D!Stopped,
         D!FetchTimeout, D!ManagerStart, D!Refuse, Dials
<1>3. CASE dpc' = dpc
  BY <1>1, <1>3, QuietRound DEF SentInv
<1>4. ASSUME NEW p, p \notin Dials, dpc' = [dpc EXCEPT ![c] = p] PROVE SentInv'
  BY <1>1, <1>4, QuietRound DEF SentInv
<1> QED BY <1>2, <1>3, <1>4

LEMMA DialNext == SentInv /\ [D!Next]_(D!vars) => SentInv'
<1> SUFFICES ASSUME SentInv, [D!Next]_(D!vars) PROVE SentInv'
  OBVIOUS
<1>q. ASSUME UNCHANGED <<kind, sent, dpc>> PROVE SentInv'
  BY <1>q, QuietRound DEF SentInv
<1>1. ASSUME NEW c \in Client, D!Step(c) PROVE SentInv'
  BY <1>1, BeginStep, AttemptStep, OtherStep DEF D!Step
<1>2. ASSUME NEW c \in Client, D!FetchTimeout(c) \/ D!ManagerStart(c) \/ D!Refuse(c) PROVE SentInv'
  BY <1>2, OtherStep
<1>3. ASSUME NEW c \in Client, D!ChildReleases(c) \/ D!Cut(c) PROVE SentInv'
  BY <1>q, <1>3 DEF D!ChildReleases, D!Cut, D!fixed, D!rotor
<1>4. CASE D!ManagerStop
  BY <1>q, <1>4 DEF D!ManagerStop, D!fixed, D!rotor
<1>5. ASSUME NEW a \in D!Addr, NEW s \in D!Statuses, D!Change(a, s) PROVE SentInv'
  BY <1>q, <1>5 DEF D!Change, D!fixed
<1>6. CASE UNCHANGED D!vars
  BY <1>q, <1>6 DEF D!vars, D!fixed, D!rotor
<1> QED BY <1>1, <1>2, <1>3, <1>4, <1>5, <1>6 DEF D!Next

\* For any addresses, clients, retries and events: a one-shot token, a handshake or a write goes to
\* one instance at most in a round, whatever fails, freezes or is refused meanwhile
\* (endpoints/dial.go DialFirst; cli apiRequest).
THEOREM OneInstanceAsked == D!Spec => []D!NeverReplayed
<1>1. SentInv => D!NeverReplayed
  BY DEF SentInv, D!NeverReplayed
<1> QED BY <1>1, DialStart, DialNext, PTL DEF D!Spec
=============================================================================
