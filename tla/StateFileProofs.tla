-------------------------- MODULE StateFileProofs ---------------------------
(***************************************************************************)
(* For any number of instances, mutations, I/O errors and crashes.         *)
(*                                                                         *)
(* First what the write guard leaves possible when the lease moves under a *)
(* master that does not know it yet.  Then, when the lease moves only from *)
(* an instance that has stopped, that no crash and no power loss leaves a  *)
(* directory without a state, with a state that lacks an acknowledged      *)
(* mutation, or, the first time, with a state older than was published.    *)
(* Last, the credentials of the agents, which are records of that state.   *)
(***************************************************************************)
EXTENDS StateFile, Sequences, TLAPS

\* An instance that replaced relay.state without the lease is past the guard of that commit, has
\* lost the lease for good, and can only finish, be refused by its next guard, or stop.
Spent == {"sync", "cleanup", "idle", "guard1", "lost", "gone"}

StrayInv ==
    /\ pc \in [Instance -> Phase]
    /\ strays \in [Instance -> {0, 1}]
    /\ \A i \in Instance : strays[i] = 1 => holder # i /\ pc[i] \in Spent

\* Every step of every instance, and every move of the lease, keeps the invariant.
LEMMA StrayStep == StrayInv /\ [Next]_vars => StrayInv'
<1> USE NoneAssumption DEF At, Goto, Spent, Guard, memory
<1>1. ASSUME StrayInv, NEW i \in Instance, Load(i) PROVE StrayInv'
  <2>1. UNCHANGED <<holder, strays>>
    BY <1>1 DEF Load
  <2>2. pc' \in [Instance -> Phase]
    BY <1>1 DEF Load, StrayInv, Phase
  <2>3. \A j \in Instance : strays[j] = 1 => pc'[j] \in Spent
    BY <1>1 DEF Load, StrayInv, Serving
  <2> QED
    BY <1>1, <2>1, <2>2, <2>3 DEF StrayInv
<1>2. ASSUME StrayInv, NEW i \in Instance, Mutate(i) PROVE StrayInv'
  <2>1. UNCHANGED <<holder, strays>>
    BY <1>2 DEF Mutate
  <2>2. pc' \in [Instance -> Phase]
    BY <1>2 DEF Mutate, StrayInv, Phase
  <2>3. \A j \in Instance : strays[j] = 1 => pc'[j] \in Spent
    BY <1>2 DEF Mutate, StrayInv, Serving
  <2> QED
    BY <1>2, <2>1, <2>2, <2>3 DEF StrayInv
<1>3. ASSUME StrayInv, NEW i \in Instance, FirstGuard(i) PROVE StrayInv'
  <2>1. UNCHANGED <<holder, strays>>
    BY <1>3 DEF FirstGuard
  <2>2. pc' \in [Instance -> Phase]
    BY <1>3, Zenon DEF FirstGuard, StrayInv, Phase
  <2>3. \A j \in Instance : strays[j] = 1 => pc'[j] \in Spent
    BY <1>3, Zenon DEF FirstGuard, StrayInv, Serving
  <2> QED
    BY <1>3, <2>1, <2>2, <2>3 DEF StrayInv
<1>4. ASSUME StrayInv, NEW i \in Instance, RemoveTmp(i) PROVE StrayInv'
  <2>1. UNCHANGED <<holder, strays>>
    BY <1>4 DEF RemoveTmp
  <2>2. pc' \in [Instance -> Phase]
    BY <1>4 DEF RemoveTmp, StrayInv, Phase
  <2>3. \A j \in Instance : strays[j] = 1 => pc'[j] \in Spent
    BY <1>4 DEF RemoveTmp, StrayInv, Serving
  <2> QED
    BY <1>4, <2>1, <2>2, <2>3 DEF StrayInv
<1>5. ASSUME StrayInv, NEW i \in Instance, CreateTmp(i) PROVE StrayInv'
  <2>1. UNCHANGED <<holder, strays>>
    BY <1>5 DEF CreateTmp
  <2>2. pc' \in [Instance -> Phase]
    BY <1>5 DEF CreateTmp, StrayInv, Phase
  <2>3. \A j \in Instance : strays[j] = 1 => pc'[j] \in Spent
    BY <1>5 DEF CreateTmp, StrayInv, Serving
  <2> QED
    BY <1>5, <2>1, <2>2, <2>3 DEF StrayInv
<1>6. ASSUME StrayInv, NEW i \in Instance, Fill(i) PROVE StrayInv'
  <2>1. UNCHANGED <<holder, strays>>
    BY <1>6 DEF Fill
  <2>2. pc' \in [Instance -> Phase]
    BY <1>6 DEF Fill, StrayInv, Phase
  <2>3. \A j \in Instance : strays[j] = 1 => pc'[j] \in Spent
    BY <1>6 DEF Fill, StrayInv, Serving
  <2> QED
    BY <1>6, <2>1, <2>2, <2>3 DEF StrayInv
<1>7. ASSUME StrayInv, NEW i \in Instance, SecondGuard(i) PROVE StrayInv'
  <2>1. UNCHANGED <<holder, strays>>
    BY <1>7 DEF SecondGuard
  <2>2. pc' \in [Instance -> Phase]
    BY <1>7 DEF SecondGuard, StrayInv, Phase
  <2>3. \A j \in Instance : strays[j] = 1 => pc'[j] \in Spent
    BY <1>7 DEF SecondGuard, StrayInv, Serving
  <2> QED
    BY <1>7, <2>1, <2>2, <2>3 DEF StrayInv
<1>8. ASSUME StrayInv, NEW i \in Instance, CheckExists(i) PROVE StrayInv'
  <2>1. UNCHANGED <<holder, strays>>
    BY <1>8 DEF CheckExists
  <2>2. pc' \in [Instance -> Phase]
    BY <1>8 DEF CheckExists, StrayInv, Phase
  <2>3. \A j \in Instance : strays[j] = 1 => pc'[j] \in Spent
    BY <1>8 DEF CheckExists, StrayInv, Serving
  <2> QED
    BY <1>8, <2>1, <2>2, <2>3 DEF StrayInv
<1>9. ASSUME StrayInv, NEW i \in Instance, RemovePrev(i) PROVE StrayInv'
  <2>1. UNCHANGED <<holder, strays>>
    BY <1>9 DEF RemovePrev
  <2>2. pc' \in [Instance -> Phase]
    BY <1>9 DEF RemovePrev, StrayInv, Phase
  <2>3. \A j \in Instance : strays[j] = 1 => pc'[j] \in Spent
    BY <1>9 DEF RemovePrev, StrayInv, Serving
  <2> QED
    BY <1>9, <2>1, <2>2, <2>3 DEF StrayInv
<1>10. ASSUME StrayInv, NEW i \in Instance, KeepPrev(i) PROVE StrayInv'
  <2>1. UNCHANGED <<holder, strays>>
    BY <1>10 DEF KeepPrev
  <2>2. pc' \in [Instance -> Phase]
    BY <1>10 DEF KeepPrev, StrayInv, Phase
  <2>3. \A j \in Instance : strays[j] = 1 => pc'[j] \in Spent
    BY <1>10 DEF KeepPrev, StrayInv, Serving
  <2> QED
    BY <1>10, <2>1, <2>2, <2>3 DEF StrayInv
<1>11. ASSUME StrayInv, NEW i \in Instance, SyncDir(i) PROVE StrayInv'
  <2>1. UNCHANGED <<holder, strays>>
    BY <1>11 DEF SyncDir
  <2>2. pc' \in [Instance -> Phase]
    BY <1>11 DEF SyncDir, StrayInv, Phase
  <2>3. \A j \in Instance : strays[j] = 1 => pc'[j] \in Spent
    BY <1>11 DEF SyncDir, StrayInv, Serving
  <2> QED
    BY <1>11, <2>1, <2>2, <2>3 DEF StrayInv
<1>12. ASSUME StrayInv, NEW i \in Instance, Cleanup(i) PROVE StrayInv'
  <2>1. UNCHANGED <<holder, strays>>
    BY <1>12 DEF Cleanup
  <2>2. pc' \in [Instance -> Phase]
    BY <1>12 DEF Cleanup, StrayInv, Phase
  <2>3. \A j \in Instance : strays[j] = 1 => pc'[j] \in Spent
    BY <1>12 DEF Cleanup, StrayInv, Serving
  <2> QED
    BY <1>12, <2>1, <2>2, <2>3 DEF StrayInv
<1>13. ASSUME StrayInv, NEW i \in Instance, Crash(i) PROVE StrayInv'
  <2>1. UNCHANGED <<holder, strays>>
    BY <1>13 DEF Crash
  <2>2. pc' \in [Instance -> Phase]
    BY <1>13 DEF Crash, StrayInv, Phase
  <2>3. \A j \in Instance : strays[j] = 1 => pc'[j] \in Spent
    BY <1>13 DEF Crash, StrayInv, Serving
  <2> QED
    BY <1>13, <2>1, <2>2, <2>3 DEF StrayInv
<1>14. ASSUME StrayInv, NEW i \in Instance, RenameTmp(i) PROVE StrayInv'
  <2>1. strays[i] = 0 /\ UNCHANGED holder
    BY <1>14 DEF RenameTmp, StrayInv
  <2>2. CASE strays' = [strays EXCEPT ![i] = IF holder = i THEN @ ELSE @ + 1] /\ Goto(i, "sync")
    BY <1>14, <2>1, <2>2 DEF StrayInv, Phase
  <2>3. CASE UNCHANGED strays /\ Goto(i, "cleanup")
    BY <1>14, <2>1, <2>3 DEF StrayInv, Phase
  <2> QED
    BY <1>14, <2>2, <2>3 DEF RenameTmp
<1>15. ASSUME StrayInv, NEW i \in Instance, Promote(i) PROVE StrayInv'
  BY <1>15 DEF Promote, StrayInv, Phase
<1>16. ASSUME StrayInv, Evict PROVE StrayInv'
  BY <1>16 DEF Evict, StrayInv
<1>17. ASSUME StrayInv, PowerLoss PROVE StrayInv'
  BY <1>17 DEF PowerLoss, StrayInv, Phase
<1>18. ASSUME StrayInv, UNCHANGED vars PROVE StrayInv'
  BY <1>18 DEF StrayInv, vars
<1> QED
  BY <1>1, <1>2, <1>3, <1>4, <1>5, <1>6, <1>7, <1>8, <1>9, <1>10, <1>11, <1>12, <1>13, <1>14, <1>15,
     <1>16, <1>17, <1>18 DEF Next, Commit

\* Whatever is frozen, evicted or interrupted, the guard of commit and atomicWrite lets an evicted
\* master replace relay.state at most once: the write already confirmed when the lease moved.
THEOREM AtMostOneStrayWrite == Spec => []OneStrayWrite
<1>1. Init => StrayInv
  BY DEF Init, StrayInv, Phase
<1>2. StrayInv => OneStrayWrite
  BY DEF StrayInv, OneStrayWrite
<1> QED
  BY <1>1, <1>2, StrayStep, PTL DEF Spec

-----------------------------------------------------------------------------
(* What a restart finds *)

\* The phases of an instance that has loaded the state, of a commit with a model to write, and of a
\* commit whose temporary file is complete.
PastLoad == {"idle", "guard1", "rmTmp", "create", "fill", "guard2", "exists", "rmPrev", "link", "rename",
             "sync", "cleanup"}
HasWork == {"rmTmp", "create", "fill", "guard2", "exists", "rmPrev", "link", "rename", "sync"}
Filled == {"guard2", "exists", "rmPrev", "link", "rename"}

Acked == {m \in Mutation : told[m] = "ok"}

\* Until a second instance has loaded the state, what was told to the lock is a promise about every
\* directory; later it is not (a successor publishes what a power loss may take back).
Loaders == {i \in Instance : pc[i] \in PastLoad}
Fresh == crashes = 0 \/ (crashes = 1 /\ Loaders = {})
Published == IF Fresh THEN {noted[i] : i \in Instance} ELSE {}

\* A model that has the mutations A and is not older than any of the write_seq S.
Covers(m, A, S) == m \in Model /\ A \subseteq m.muts /\ \A s \in S : s <= m.seq
Complete(f, A, S) == f \in File /\ Valid(f) /\ Covers(f.model, A, S)
Closed(f) == f = None \/ f.status # "open"

\* A directory from which load gets such a model.
DirOK(d, A, S) ==
    /\ d \in [Name -> File \cup {None}]
    /\ Closed(d["state"]) /\ Closed(d["prev"])
    /\ Complete(d["state"], A, S) \/ (~Valid(d["state"]) /\ Complete(d["prev"], A, S))

\* What an instance at p relies on, with the directory d, its model c, the model w it writes, its batch
\* b, and fp when its model was recovered: before relay.state is touched there is either a complete
\* relay.state or a recovered relay.state.prev, which is then left alone.
Local(i, p, d, c, w, b, fp, A, S) ==
    /\ Covers(c, A, S)
    /\ IF fp THEN Complete(d["prev"], A, S) ELSE (d["state"] = None \/ Valid(d["state"]))
    /\ p \in HasWork => (Covers(w, A, S) /\ b \subseteq w.muts)
    /\ p = "fill" => d["tmp"] = [by |-> i, status |-> "open", model |-> w]
    /\ p \in Filled => (Valid(d["tmp"]) /\ d["tmp"].model = w)
    /\ p \in {"exists", "rmPrev", "link"} => ~fp
    /\ p = "rmPrev" => Valid(d["state"])
    /\ p = "sync" => (Valid(d["state"]) /\ d["state"].model = w)

Relies(i) ==
    /\ Serving(i) => holder = i
    /\ pc[i] = "refused" => crashes > 1
    /\ pc[i] = "load" => (Fresh => floor[i] \in Published)
    /\ pc[i] \in PastLoad =>
         Local(i, pc[i], dir, cur[i], work[i], batch[i], fromPrev[i], Acked, Published)

Shape ==
    /\ pc \in [Instance -> Phase] /\ crashes \in Nat
    /\ cur = [i \in Instance |-> cur[i]] /\ work = [i \in Instance |-> work[i]]
    /\ batch \in [Instance -> SUBSET Mutation] /\ fromPrev = [i \in Instance |-> fromPrev[i]]
    /\ floor = [i \in Instance |-> floor[i]] /\ noted \in [Instance -> Nat]

DirsOK ==
    /\ dir \in durable
    /\ \A d \in durable : DirOK(d, Acked, Published)
    /\ (crashes = 0 /\ Loaders = {}) => durable = {dir}

DurableInv == Shape /\ DirsOK /\ \A i \in Instance : Relies(i)

-----------------------------------------------------------------------------
(* Directories *)

LEMMA CoversLess ==
  ASSUME NEW m, NEW A, NEW S, NEW A2, NEW S2, Covers(m, A, S), A2 \subseteq A, S2 \subseteq S
  PROVE  Covers(m, A2, S2)
BY DEF Covers

LEMMA CompleteLess ==
  ASSUME NEW f, NEW A, NEW S, NEW A2, NEW S2, Complete(f, A, S), A2 \subseteq A, S2 \subseteq S
  PROVE  Complete(f, A2, S2)
BY CoversLess DEF Complete

LEMMA DirLess ==
  ASSUME NEW d, NEW A, NEW S, NEW A2, NEW S2, DirOK(d, A, S), A2 \subseteq A, S2 \subseteq S
  PROVE  DirOK(d, A2, S2)
BY CompleteLess DEF DirOK

LEMMA LocalLess ==
  ASSUME NEW i, NEW p, NEW d, NEW c, NEW w, NEW b, NEW fp, NEW A, NEW S, NEW A2, NEW S2,
         Local(i, p, d, c, w, b, fp, A, S), A2 \subseteq A, S2 \subseteq S
  PROVE  Local(i, p, d, c, w, b, fp, A2, S2)
BY CompleteLess, CoversLess DEF Local

LEMMA LoadedCovers ==
  ASSUME NEW d, NEW A, NEW S, DirOK(d, A, S)
  PROVE  Loadable(d) /\ Covers(Loaded(d), A, S)
BY DEF DirOK, Loadable, Loaded, Complete

LEMMA ValidState ==
  ASSUME NEW d, NEW A, NEW S, DirOK(d, A, S), Valid(d["state"])
  PROVE  Complete(d["state"], A, S)
BY DEF DirOK

\* The temporary name and what is under it do not count.
LEMMA SameNames ==
  ASSUME NEW d, NEW e, NEW A, NEW S, DirOK(d, A, S), e \in [Name -> File \cup {None}],
         e["state"] = d["state"], e["prev"] = d["prev"]
  PROVE  DirOK(e, A, S)
BY DEF DirOK

LEMMA TmpSet ==
  ASSUME NEW d, NEW A, NEW S, DirOK(d, A, S), NEW f \in File \cup {None}
  PROVE  LET e == [d EXCEPT !["tmp"] = f]
         IN DirOK(e, A, S) /\ e["state"] = d["state"] /\ e["prev"] = d["prev"] /\ e["tmp"] = f
BY SameNames DEF DirOK, Name

LEMMA PrevRemoved ==
  ASSUME NEW d, NEW A, NEW S, DirOK(d, A, S), Valid(d["state"])
  PROVE  LET e == [d EXCEPT !["prev"] = None]
         IN DirOK(e, A, S) /\ e["state"] = d["state"] /\ e["tmp"] = d["tmp"]
BY ValidState DEF DirOK, Name, Closed

\* relay.state kept as relay.state.prev, by a link or a rename.
LEMMA PrevKept ==
  ASSUME NEW d, NEW A, NEW S, DirOK(d, A, S), Valid(d["state"])
  PROVE  LET e == [d EXCEPT !["prev"] = d["state"]]
             g == [d EXCEPT !["prev"] = d["state"], !["state"] = None]
         IN /\ DirOK(e, A, S) /\ e["state"] = d["state"] /\ e["tmp"] = d["tmp"]
            /\ DirOK(g, A, S) /\ g["state"] = None /\ g["tmp"] = d["tmp"]
<1>1. Complete(d["state"], A, S) /\ d \in [Name -> File \cup {None}] /\ Closed(d["state"])
  BY ValidState DEF DirOK
<1>2. ~Valid(None) /\ Closed(None)
  BY DEF Valid, Closed
<1> QED BY <1>1, <1>2 DEF DirOK, Name

\* The complete temporary file renamed over relay.state.
LEMMA TmpRenamed ==
  ASSUME NEW d, NEW A, NEW S, DirOK(d, A, S), Complete(d["tmp"], A, S)
  PROVE  LET e == [d EXCEPT !["state"] = d["tmp"], !["tmp"] = None]
         IN DirOK(e, A, S) /\ e["state"] = d["tmp"] /\ e["prev"] = d["prev"]
<1>1. d \in [Name -> File \cup {None}] /\ Closed(d["prev"])
  BY DEF DirOK
<1>2. Closed(d["tmp"])
  BY DEF Complete, Valid, Closed
<1> QED BY <1>1, <1>2 DEF DirOK, Name

\* Files that are closed stay what they are.
LEMMA StatusSet ==
  ASSUME NEW f \in File, NEW st \in {"full", "junk"}
  PROVE  LET g == [f EXCEPT !.status = st]
         IN g \in File /\ g.status = st /\ g.model = f.model
BY DEF File

LEMMA Settled ==
  ASSUME NEW i, NEW st \in {"full", "junk"}, NEW d, NEW A, NEW S, DirOK(d, A, S)
  PROVE  LET e == Settle(i, st, d)
         IN DirOK(e, A, S) /\ e["state"] = d["state"] /\ e["prev"] = d["prev"]
<1> DEFINE e == Settle(i, st, d)
<1>1. d \in [Name -> File \cup {None}] /\ Closed(d["state"]) /\ Closed(d["prev"])
  BY DEF DirOK
<1>2. e \in [Name -> File \cup {None}]
  <2>1. ASSUME NEW n \in Name, d[n] # None PROVE [d[n] EXCEPT !.status = st] \in File
    <3>1. d[n] \in File
      BY <1>1, <2>1
    <3> QED BY <3>1, StatusSet, Zenon
  <2> QED BY <1>1, <2>1 DEF Settle
<1>3. e["state"] = d["state"] /\ e["prev"] = d["prev"]
  BY <1>1 DEF Settle, Closed, Name
<1> HIDE DEF e
<1>4. DirOK(e, A, S)
  BY <1>2, <1>3, SameNames
<1> QED BY <1>3, <1>4 DEF e

\* What a power loss makes of a directory.
After(d) == [n \in Name |-> IF d[n] # None /\ d[n].status = "open" THEN [d[n] EXCEPT !.status = "junk"] ELSE d[n]]

LEMMA AfterOK ==
  ASSUME NEW d, NEW A, NEW S, DirOK(d, A, S)
  PROVE  DirOK(After(d), A, S)
<1>1. d \in [Name -> File \cup {None}] /\ Closed(d["state"]) /\ Closed(d["prev"])
  BY DEF DirOK
<1>2. After(d) \in [Name -> File \cup {None}]
  <2>1. ASSUME NEW n \in Name, d[n] # None PROVE [d[n] EXCEPT !.status = "junk"] \in File
    <3>1. d[n] \in File
      BY <1>1, <2>1
    <3> QED BY <3>1, StatusSet, Zenon
  <2> QED BY <1>1, <2>1 DEF After
<1>3. After(d)["state"] = d["state"] /\ After(d)["prev"] = d["prev"]
  BY <1>1 DEF After, Closed, Name
<1> QED BY <1>2, <1>3, SameNames

-----------------------------------------------------------------------------
(* Frames of the steps *)

LEMMA Phases ==
  /\ PastLoad \subseteq Phase /\ HasWork \subseteq PastLoad /\ Filled \subseteq HasWork
  /\ \A i \in Instance : Serving(i) <=> pc[i] \notin {"down", "refused", "lost", "gone"}
  /\ \A i \in Instance : pc[i] \in PastLoad \cup {"load"} => Serving(i)
BY DEF PastLoad, Phase, HasWork, Filled, Serving

\* While i serves, no other instance does.
LEMMA Alone ==
  ASSUME DurableInv, NEW i \in Instance, Serving(i)
  PROVE  holder = i /\ \A j \in Instance : j # i => (~Serving(j) /\ pc[j] \in {"down", "refused", "lost", "gone"})
BY DEF DurableInv, Relies, Serving

\* Nobody serves after the step: only the directories count.
LEMMA NobodyServes ==
  ASSUME Shape', \A i \in Instance : ~Serving(i)', \A i \in Instance : pc'[i] = "refused" => crashes' > 1,
         dir' \in durable', \A d \in durable' : DirOK(d, Acked', Published'),
         crashes' = 0 => durable' = {dir'}
  PROVE  DurableInv'
<1>1. DirsOK'
  BY DEF DirsOK
<1>2. ASSUME NEW i \in Instance PROVE Relies(i)'
  <2>1. pc'[i] \notin PastLoad /\ pc'[i] # "load"
    BY DEF Serving, PastLoad
  <2> QED BY <2>1 DEF Relies
<1> QED BY <1>1, <1>2 DEF DurableInv

\* Instance i, which serves, is at p after the step, and p is past load.
LEMMA OneServes ==
  ASSUME DurableInv, NEW i \in Instance, Serving(i), NEW p \in PastLoad, pc' = [pc EXCEPT ![i] = p],
         UNCHANGED <<holder, crashes>>, Shape', dir' \in durable',
         \A d \in durable' : DirOK(d, Acked', Published'),
         Local(i, p, dir', cur'[i], work'[i], batch'[i], fromPrev'[i], Acked', Published')
  PROVE  DurableInv'
<1>0. pc \in [Instance -> Phase] /\ pc'[i] = p /\ \A j \in Instance : j # i => pc'[j] = pc[j]
  BY DEF DurableInv, Shape
<1>1. DirsOK'
  <2>1. i \in Loaders'
    BY <1>0 DEF Loaders
  <2> QED BY <2>1 DEF DirsOK
<1>2. holder' = i
  BY Alone
<1>3. Relies(i)'
  <2>1. p # "refused" /\ p # "load"
    BY DEF PastLoad
  <2> QED BY <1>0, <1>2, <2>1 DEF Relies
<1>4. ASSUME NEW j \in Instance, j # i PROVE Relies(j)'
  <2>1. pc'[j] = pc[j] /\ pc[j] \in {"down", "refused", "lost", "gone"}
    BY <1>0, <1>4, Alone
  <2>2. pc[j] = "refused" => crashes > 1
    BY DEF DurableInv, Relies
  <2>3. ~Serving(j)' /\ pc'[j] # "load" /\ pc'[j] \notin PastLoad
    BY <2>1 DEF Serving, PastLoad
  <2> QED BY <2>1, <2>2, <2>3 DEF Relies
<1> QED BY <1>1, <1>3, <1>4 DEF DurableInv

\* The same for a step of a commit that acknowledges nothing and publishes nothing.
LEMMA CommitStep ==
  ASSUME DurableInv, NEW i \in Instance, pc[i] \in PastLoad, NEW p \in PastLoad, Goto(i, p),
         UNCHANGED <<holder, crashes, cur, fromPrev, floor, noted>>,
         work' = [j \in Instance |-> work'[j]], batch' \in [Instance -> SUBSET Mutation],
         Acked' \subseteq Acked, dir' \in durable', \A d \in durable' : DirOK(d, Acked, Published),
         Local(i, p, dir', cur[i], work'[i], batch'[i], fromPrev[i], Acked, Published)
  PROVE  DurableInv'
<1>0. pc \in [Instance -> Phase] /\ pc' = [pc EXCEPT ![i] = p] /\ Serving(i)
  BY Phases DEF DurableInv, Shape, Goto
<1>1. Shape'
  BY <1>0, Phases DEF DurableInv, Shape
<1>2. Published' \subseteq Published
  <2>1. i \in Loaders /\ i \in Loaders'
    BY <1>0 DEF Loaders
  <2>2. Fresh' => Fresh
    BY <2>1 DEF Fresh
  <2> QED BY <2>2 DEF Published
<1>3. \A d \in durable' : DirOK(d, Acked', Published')
  BY <1>2, DirLess
<1>4. Local(i, p, dir', cur'[i], work'[i], batch'[i], fromPrev'[i], Acked', Published')
  <2>1. Local(i, p, dir', cur[i], work'[i], batch'[i], fromPrev[i], Acked', Published')
    BY <1>2, LocalLess
  <2> QED BY <2>1
<1> QED BY <1>0, <1>1, <1>3, <1>4, OneServes, Zenon

\* What the invariant says to an instance in a commit.
LEMMA Here ==
  ASSUME DurableInv, NEW i \in Instance, pc[i] \in PastLoad
  PROVE  /\ Local(i, pc[i], dir, cur[i], work[i], batch[i], fromPrev[i], Acked, Published)
         /\ dir \in durable /\ \A d \in durable : DirOK(d, Acked, Published)
         /\ DirOK(dir, Acked, Published) /\ dir \in [Name -> File \cup {None}]
         /\ work = [j \in Instance |-> work[j]] /\ batch \in [Instance -> SUBSET Mutation]
         /\ \A s \in Published : s \in Nat
         /\ holder = i
<1>1. DirsOK /\ Shape /\ Relies(i)
  BY DEF DurableInv
<1>2. DirOK(dir, Acked, Published)
  BY <1>1 DEF DirsOK
<1>3. \A s \in Published : s \in Nat
  BY <1>1 DEF Published, Shape
<1> QED BY <1>1, <1>2, <1>3, Phases DEF DirsOK, Shape, Relies, DirOK

\* A failed batch acknowledges nothing.
LEMMA FailedBatch ==
  ASSUME DurableInv, NEW i \in Instance, FailBatch(i) \/ UNCHANGED <<told, batch>>
  PROVE  Acked' \subseteq Acked /\ batch' \in [Instance -> SUBSET Mutation]
<1>1. Acked' \subseteq Acked
  BY DEF Acked, FailBatch, Tell
<1>2. batch' \in [Instance -> SUBSET Mutation]
  BY DEF FailBatch, DurableInv, Shape
<1> QED BY <1>1, <1>2

-----------------------------------------------------------------------------
(* The steps of a commit *)

\* A commit that gives up without having touched the directory, or having removed the temporary name.
LEMMA GiveUp ==
  ASSUME DurableInv, NEW i \in Instance, pc[i] \in PastLoad, NEW p \in {"idle", "cleanup"}, Goto(i, p),
         SameDir \/ Remove("tmp"), FailBatch(i) \/ UNCHANGED <<told, batch>>,
         UNCHANGED <<holder, crashes, cur, fromPrev, floor, noted, work>>
  PROVE  DurableInv'
<1>0. p \in PastLoad /\ p \notin HasWork /\ p \notin Filled /\ p \notin {"fill", "exists", "rmPrev", "link", "sync"}
  BY DEF PastLoad, HasWork, Filled
<1>1. Acked' \subseteq Acked /\ batch' \in [Instance -> SUBSET Mutation]
  BY FailedBatch
<1>2. /\ dir' \in durable' /\ \A d \in durable' : DirOK(d, Acked, Published)
      /\ dir'["state"] = dir["state"] /\ dir'["prev"] = dir["prev"]
  <2>1. CASE SameDir
    BY <2>1, Here DEF SameDir
  <2>2. CASE Remove("tmp")
    <3> DEFINE e == [dir EXCEPT !["tmp"] = None]
    <3>1. dir' = e /\ durable' = durable \cup {e}
      BY <2>2 DEF Remove, SetDir
    <3>2. DirOK(e, Acked, Published) /\ e["state"] = dir["state"] /\ e["prev"] = dir["prev"]
      BY Here, TmpSet, Zenon
    <3> HIDE DEF e
    <3> QED BY <3>1, <3>2, Here
  <2> QED BY <2>1, <2>2
<1>3. Local(i, p, dir', cur[i], work'[i], batch'[i], fromPrev[i], Acked, Published)
  BY <1>0, <1>2, Here, Zenon DEF Local
<1>4. work' = [j \in Instance |-> work'[j]]
  BY Here
<1> QED BY <1>0, <1>1, <1>2, <1>3, <1>4, CommitStep

\* A step of a commit that only looks.
LEMMA Looks ==
  ASSUME DurableInv, NEW i \in Instance, pc[i] \in PastLoad, NEW p \in PastLoad, Goto(i, p), SameDir,
         UNCHANGED <<holder, crashes, cur, fromPrev, floor, noted, work, batch, told>>,
         Local(i, p, dir, cur[i], work[i], batch[i], fromPrev[i], Acked, Published)
  PROVE  DurableInv'
<1>1. Acked' \subseteq Acked
  BY Zenon DEF Acked
<1>2. dir' = dir /\ durable' = durable
  BY Zenon DEF SameDir
<1>3. work' = [j \in Instance |-> work'[j]] /\ batch' \in [Instance -> SUBSET Mutation]
  BY Here
<1> QED BY <1>1, <1>2, <1>3, Here, CommitStep

LEMMA MutateStep == ASSUME DurableInv, NEW i \in Instance, Mutate(i) PROVE DurableInv'
<1>0. pc[i] \in PastLoad /\ Goto(i, "guard1") /\ "guard1" \in PastLoad /\ dir' = dir /\ durable' = durable
      /\ UNCHANGED <<holder, crashes, cur, fromPrev, floor, noted, work, told>>
  BY Zenon DEF Mutate, At, PastLoad, memory
<1>1. batch' \in [Instance -> SUBSET Mutation]
  <2>1. PICK ms \in SUBSET Mutation : batch' = [batch EXCEPT ![i] = ms]
    BY Zenon DEF Mutate
  <2> QED BY <2>1, <1>0, Here
<1>2. Acked' \subseteq Acked
  BY <1>0 DEF Acked
<1>3. Local(i, "guard1", dir', cur[i], work'[i], batch'[i], fromPrev[i], Acked, Published)
  BY <1>0, Here, Zenon DEF Local, HasWork, Filled
<1>4. work' = [j \in Instance |-> work'[j]]
  BY <1>0, Here
<1> QED BY <1>0, <1>1, <1>2, <1>3, <1>4, Here, CommitStep

\* The model a commit writes covers what the published one covers.
LEMMA NextCovers ==
  ASSUME NEW c, NEW A, NEW S, NEW ok \in SUBSET Mutation, Covers(c, A, S), \A s \in S : s \in Nat
  PROVE  Covers([seq |-> c.seq + 1, muts |-> c.muts \cup ok], A, S)
<1> DEFINE w == [seq |-> c.seq + 1, muts |-> c.muts \cup ok]
<1>1. c.seq \in Nat /\ c.muts \subseteq Mutation /\ A \subseteq c.muts /\ \A s \in S : s <= c.seq
  BY DEF Covers, Model
<1>2. w \in Model /\ w.seq = c.seq + 1 /\ w.muts = c.muts \cup ok
  BY <1>1 DEF Model
<1>3. \A s \in S : s <= c.seq + 1
  BY <1>1
<1> HIDE DEF w
<1>4. Covers(w, A, S)
  BY <1>1, <1>2, <1>3 DEF Covers
<1> QED BY <1>4 DEF w

LEMMA FirstGuardStep == ASSUME DurableInv, NEW i \in Instance, FirstGuard(i) PROVE DurableInv'
<1>0. /\ pc[i] = "guard1" /\ pc[i] \in PastLoad
      /\ UNCHANGED <<dir, durable, holder, crashes, cur, fromPrev, floor, noted>>
  BY DEF FirstGuard, At, PastLoad, memory
<1>1. CASE Guard(i) /\ \E ok \in SUBSET batch[i] :
                /\ Tell(batch[i] \ ok, "error")
                /\ batch' = [batch EXCEPT ![i] = ok]
                /\ work' = [work EXCEPT ![i] = NextModel(i, ok)]
                /\ Goto(i, IF ok = {} THEN "idle" ELSE "rmTmp")
  <2>1. PICK ok \in SUBSET batch[i] :
                /\ Tell(batch[i] \ ok, "error")
                /\ batch' = [batch EXCEPT ![i] = ok]
                /\ work' = [work EXCEPT ![i] = NextModel(i, ok)]
                /\ Goto(i, IF ok = {} THEN "idle" ELSE "rmTmp")
    BY <1>1, Zenon
  <2> DEFINE p == IF ok = {} THEN "idle" ELSE "rmTmp"
  <2>2. batch[i] \subseteq Mutation /\ batch \in [Instance -> SUBSET Mutation] /\ work = [j \in Instance |-> work[j]]
    BY <1>0, Here
  <2>3. batch' \in [Instance -> SUBSET Mutation] /\ work' = [j \in Instance |-> work'[j]] /\ batch'[i] = ok
        /\ work'[i] = [seq |-> cur[i].seq + 1, muts |-> cur[i].muts \cup ok]
    BY <2>1, <2>2, Zenon DEF NextModel
  <2>4. Acked' \subseteq Acked
    BY <2>1 DEF Acked, Tell
  <2>5. Covers(cur[i], Acked, Published) /\ \A s \in Published : s \in Nat
    BY <1>0, Here, Zenon DEF Local
  <2>6. ok \in SUBSET Mutation
    BY <2>2
  <2>7. Covers(work'[i], Acked, Published)
    BY <2>3, <2>5, <2>6, NextCovers
  <2>8. batch'[i] \subseteq work'[i].muts
    BY <2>3
  <2>9. p \in PastLoad /\ p \notin Filled /\ p \notin {"fill", "exists", "rmPrev", "link", "sync"} /\ Goto(i, p)
    BY <2>1 DEF PastLoad, Filled
  <2> HIDE DEF p
  <2>10. Local(i, p, dir, cur[i], work'[i], batch'[i], fromPrev[i], Acked, Published)
    BY <1>0, <2>5, <2>7, <2>8, <2>9, Here, Zenon DEF Local
  <2> QED BY <1>0, <2>3, <2>4, <2>9, <2>10, Here, CommitStep, Zenon
<1>2. CASE ~Guard(i)
  BY <1>0, <1>2, Here DEF Guard
<1>3. CASE FailBatch(i) /\ Goto(i, "idle") /\ UNCHANGED work
  BY <1>0, <1>3, GiveUp DEF SameDir
<1> QED BY <1>1, <1>2, <1>3, Zenon DEF FirstGuard

\* A step of a commit that makes e of the directory.
LEMMA Updates ==
  ASSUME DurableInv, NEW i \in Instance, pc[i] \in PastLoad, NEW p \in PastLoad, Goto(i, p), NEW e, SetDir(e),
         UNCHANGED <<holder, crashes, cur, fromPrev, floor, noted, work, batch, told>>,
         DirOK(e, Acked, Published),
         Local(i, p, e, cur[i], work[i], batch[i], fromPrev[i], Acked, Published)
  PROVE  DurableInv'
<1>1. dir' = e /\ durable' = durable \cup {e}
  BY Zenon DEF SetDir
<1>2. Acked' \subseteq Acked
  BY Zenon DEF Acked
<1>3. work' = [j \in Instance |-> work'[j]] /\ batch' \in [Instance -> SUBSET Mutation]
      /\ dir' \in durable' /\ \A d \in durable' : DirOK(d, Acked, Published)
  BY <1>1, Here
<1>4. Local(i, p, dir', cur[i], work'[i], batch'[i], fromPrev[i], Acked, Published)
  BY <1>1, Zenon
<1> QED BY <1>2, <1>3, <1>4, CommitStep

LEMMA RemoveTmpStep == ASSUME DurableInv, NEW i \in Instance, RemoveTmp(i) PROVE DurableInv'
<1>0. /\ pc[i] = "rmTmp" /\ pc[i] \in PastLoad /\ pc[i] \in HasWork
      /\ UNCHANGED <<holder, crashes, cur, fromPrev, floor, noted, work>>
  BY DEF RemoveTmp, At, PastLoad, HasWork, memory
<1>1. CASE Remove("tmp") /\ Goto(i, "create") /\ UNCHANGED <<told, batch>>
  <2> DEFINE e == [dir EXCEPT !["tmp"] = None]
  <2>1. DirOK(e, Acked, Published) /\ e["state"] = dir["state"] /\ e["prev"] = dir["prev"] /\ SetDir(e)
    BY <1>0, <1>1, Here, TmpSet, Zenon DEF Remove
  <2> HIDE DEF e
  <2>2. Local(i, pc[i], dir, cur[i], work[i], batch[i], fromPrev[i], Acked, Published)
    BY <1>0, Here
  <2>3. Local(i, "create", e, cur[i], work[i], batch[i], fromPrev[i], Acked, Published) /\ "create" \in PastLoad
    BY <1>0, <2>1, <2>2, Zenon DEF Local, HasWork, Filled, PastLoad
  <2> QED BY <1>0, <1>1, <2>1, <2>3, Updates, Zenon
<1>2. CASE SameDir /\ FailBatch(i) /\ Goto(i, "idle")
  BY <1>0, <1>2, GiveUp
<1> QED BY <1>1, <1>2 DEF RemoveTmp

LEMMA CreateTmpStep == ASSUME DurableInv, NEW i \in Instance, CreateTmp(i) PROVE DurableInv'
<1>0. /\ pc[i] = "create" /\ pc[i] \in PastLoad /\ pc[i] \in HasWork
      /\ UNCHANGED <<holder, crashes, cur, fromPrev, floor, noted, work>>
  BY DEF CreateTmp, At, PastLoad, HasWork, memory
<1>l. Local(i, pc[i], dir, cur[i], work[i], batch[i], fromPrev[i], Acked, Published)
  BY <1>0, Here
<1> DEFINE f == [by |-> i, status |-> "open", model |-> work[i]]
           e == [dir EXCEPT !["tmp"] = f]
<1>1. CASE SetDir(e) /\ Goto(i, "fill") /\ UNCHANGED <<told, batch>>
  <2>1. f \in File
    BY <1>0, <1>l, Zenon DEF Local, Covers, File
  <2>f. f = [by |-> i, status |-> "open", model |-> work[i]]
    OBVIOUS
  <2> HIDE DEF f
  <2>2. DirOK(e, Acked, Published) /\ e["state"] = dir["state"] /\ e["prev"] = dir["prev"] /\ e["tmp"] = f
    BY <1>0, <2>1, Here, TmpSet
  <2> HIDE DEF e
  <2>3. Local(i, "fill", e, cur[i], work[i], batch[i], fromPrev[i], Acked, Published) /\ "fill" \in PastLoad
    BY <1>0, <1>l, <2>f, <2>2, Zenon DEF Local, HasWork, Filled, PastLoad
  <2> QED BY <1>0, <1>1, <2>2, <2>3, Updates, Zenon
<1>2. CASE SameDir /\ FailBatch(i) /\ Goto(i, "idle")
  BY <1>0, <1>2, GiveUp
<1> QED BY <1>1, <1>2 DEF CreateTmp

LEMMA FillStep == ASSUME DurableInv, NEW i \in Instance, Fill(i) PROVE DurableInv'
<1>0. /\ pc[i] = "fill" /\ pc[i] \in PastLoad /\ pc[i] \in HasWork
      /\ UNCHANGED <<holder, crashes, cur, fromPrev, floor, noted, work, batch, told>>
  BY DEF Fill, At, PastLoad, HasWork, memory
<1>l. Local(i, pc[i], dir, cur[i], work[i], batch[i], fromPrev[i], Acked, Published)
  BY <1>0, Here
<1>1. PICK r \in {"full", "junk"} :
        /\ dir' = Settle(i, r, dir)
        /\ durable' = {Settle(i, r, d) : d \in durable}
        /\ Goto(i, IF r = "full" THEN "guard2" ELSE "cleanup")
  BY DEF Fill
<1> DEFINE p == IF r = "full" THEN "guard2" ELSE "cleanup"
<1>2. dir' \in durable' /\ \A d \in durable' : DirOK(d, Acked, Published)
  <2>1. \A d \in durable : DirOK(Settle(i, r, d), Acked, Published)
    BY <1>0, Here, Settled
  <2> QED BY <1>0, <1>1, <2>1, Here
<1>3. dir'["state"] = dir["state"] /\ dir'["prev"] = dir["prev"]
  BY <1>0, <1>1, Here, Settled, Zenon
<1>4. dir'["tmp"].status = r /\ dir'["tmp"].model = work[i] /\ dir'["tmp"] # None
  <2>1. dir["tmp"] = [by |-> i, status |-> "open", model |-> work[i]]
    BY <1>0, <1>l, Zenon DEF Local
  <2>2. dir \in [Name -> File \cup {None}] /\ "tmp" \in Name
    BY <1>0, Here DEF Name
  <2>3. dir["tmp"] # None /\ dir["tmp"].by = i /\ dir["tmp"].status = "open" /\ dir["tmp"] \in File
        /\ dir["tmp"].model = work[i]
    <3>1. work[i] \in Model
      BY <1>0, <1>l, Zenon DEF Local, Covers
    <3>2. [by |-> i, status |-> "open", model |-> work[i]] \in File
      BY <3>1 DEF File
    <3> QED BY <2>1, <3>2, NoFileAssumption
  <2>4. Settle(i, r, dir)["tmp"] = [dir["tmp"] EXCEPT !.status = r]
    BY <2>2, <2>3 DEF Settle
  <2>5. dir'["tmp"] \in File /\ dir'["tmp"].status = r /\ dir'["tmp"].model = work[i]
    <3> DEFINE f == dir["tmp"]
    <3>1. dir'["tmp"] = [f EXCEPT !.status = r] /\ f \in File /\ f.model = work[i]
      BY <1>1, <2>3, <2>4
    <3> HIDE DEF f
    <3>2. [f EXCEPT !.status = r] \in File /\ [f EXCEPT !.status = r].status = r
          /\ [f EXCEPT !.status = r].model = f.model
      BY <3>1, StatusSet, Zenon
    <3> QED BY <3>1, <3>2
  <2> QED BY <2>5, NoFileAssumption
<1>5. p \in PastLoad /\ Goto(i, p) /\ (p = "guard2" => r = "full") /\ p \in {"guard2", "cleanup"}
  BY <1>1 DEF PastLoad
<1> HIDE DEF p
<1>6. Local(i, p, dir', cur[i], work[i], batch[i], fromPrev[i], Acked, Published)
  <2>1. p = "guard2" => Valid(dir'["tmp"])
    BY <1>4, <1>5 DEF Valid
  <2>2. p \in Filled => p = "guard2"
    BY <1>5 DEF Filled
  <2>3. p \in HasWork => p = "guard2"
    BY <1>5 DEF HasWork
  <2>4. p \notin {"fill", "exists", "rmPrev", "link", "sync"}
    BY <1>5
  <2> QED BY <1>0, <1>l, <1>3, <1>4, <2>1, <2>2, <2>3, <2>4, Zenon DEF Local
<1>7. Acked' \subseteq Acked /\ work' = [j \in Instance |-> work'[j]] /\ batch' \in [Instance -> SUBSET Mutation]
  BY <1>0, Here, Zenon DEF Acked
<1>8. Local(i, p, dir', cur[i], work'[i], batch'[i], fromPrev[i], Acked, Published)
  BY <1>0, <1>6, Zenon
<1> QED BY <1>0, <1>2, <1>5, <1>7, <1>8, CommitStep

LEMMA SecondGuardStep == ASSUME DurableInv, NEW i \in Instance, SecondGuard(i) PROVE DurableInv'
<1>0. /\ pc[i] = "guard2" /\ pc[i] \in PastLoad /\ pc[i] \in HasWork /\ pc[i] \in Filled /\ SameDir
      /\ UNCHANGED <<holder, crashes, cur, fromPrev, floor, noted, work, batch, told>>
  BY DEF SecondGuard, At, PastLoad, HasWork, Filled, memory, SameDir
<1>l. Local(i, pc[i], dir, cur[i], work[i], batch[i], fromPrev[i], Acked, Published)
  BY <1>0, Here
<1>1. CASE Goto(i, "cleanup")
  BY <1>0, <1>1, GiveUp
<1>2. CASE Goto(i, "rename")
  <2>1. Local(i, "rename", dir, cur[i], work[i], batch[i], fromPrev[i], Acked, Published) /\ "rename" \in PastLoad
    BY <1>0, <1>l, Zenon DEF Local, PastLoad, HasWork, Filled
  <2> QED BY <1>0, <1>2, <2>1, Looks, Zenon
<1>3. CASE Goto(i, "exists") /\ ~fromPrev[i]
  <2>1. Local(i, "exists", dir, cur[i], work[i], batch[i], fromPrev[i], Acked, Published) /\ "exists" \in PastLoad
    BY <1>0, <1>l, <1>3, Zenon DEF Local, PastLoad, HasWork, Filled
  <2> QED BY <1>0, <1>3, <2>1, Looks, Zenon
<1> QED BY <1>1, <1>2, <1>3 DEF SecondGuard

LEMMA CheckExistsStep == ASSUME DurableInv, NEW i \in Instance, CheckExists(i) PROVE DurableInv'
<1>0. /\ pc[i] = "exists" /\ pc[i] \in PastLoad /\ pc[i] \in HasWork /\ pc[i] \in Filled /\ SameDir
      /\ UNCHANGED <<holder, crashes, cur, fromPrev, floor, noted, work, batch, told>>
  BY DEF CheckExists, At, PastLoad, HasWork, Filled, memory, SameDir
<1>l. Local(i, pc[i], dir, cur[i], work[i], batch[i], fromPrev[i], Acked, Published)
  BY <1>0, Here
<1>1. CASE Goto(i, "rename")
  <2>1. Local(i, "rename", dir, cur[i], work[i], batch[i], fromPrev[i], Acked, Published) /\ "rename" \in PastLoad
    BY <1>0, <1>l, Zenon DEF Local, PastLoad, HasWork, Filled
  <2> QED BY <1>0, <1>1, <2>1, Looks, Zenon
<1>2. CASE Goto(i, "rmPrev") /\ dir["state"] # None
  <2>1. Local(i, "rmPrev", dir, cur[i], work[i], batch[i], fromPrev[i], Acked, Published) /\ "rmPrev" \in PastLoad
    BY <1>0, <1>l, <1>2, Zenon DEF Local, PastLoad, HasWork, Filled
  <2> QED BY <1>0, <1>2, <2>1, Looks, Zenon
<1> QED BY <1>1, <1>2 DEF CheckExists

LEMMA RemovePrevStep == ASSUME DurableInv, NEW i \in Instance, RemovePrev(i) PROVE DurableInv'
<1>0. /\ pc[i] = "rmPrev" /\ pc[i] \in PastLoad /\ pc[i] \in HasWork /\ pc[i] \in Filled
      /\ UNCHANGED <<holder, crashes, cur, fromPrev, floor, noted, work, batch, told>>
  BY DEF RemovePrev, At, PastLoad, HasWork, Filled, memory
<1>l. Local(i, pc[i], dir, cur[i], work[i], batch[i], fromPrev[i], Acked, Published)
  BY <1>0, Here
<1>1. CASE Remove("prev") /\ Goto(i, "link")
  <2> DEFINE e == [dir EXCEPT !["prev"] = None]
  <2>1. Valid(dir["state"])
    BY <1>0, <1>l, Zenon DEF Local
  <2>2. DirOK(e, Acked, Published) /\ e["state"] = dir["state"] /\ e["tmp"] = dir["tmp"] /\ SetDir(e)
    BY <1>0, <1>1, <2>1, Here, PrevRemoved DEF Remove
  <2> HIDE DEF e
  <2>3. Local(i, "link", e, cur[i], work[i], batch[i], fromPrev[i], Acked, Published) /\ "link" \in PastLoad
    BY <1>0, <1>l, <2>1, <2>2, Zenon DEF Local, PastLoad, HasWork, Filled
  <2> QED BY <1>0, <1>1, <2>2, <2>3, Updates, Zenon
<1>2. CASE SameDir /\ Goto(i, "cleanup")
  BY <1>0, <1>2, GiveUp
<1> QED BY <1>1, <1>2 DEF RemovePrev

LEMMA KeepPrevStep == ASSUME DurableInv, NEW i \in Instance, KeepPrev(i) PROVE DurableInv'
<1>0. /\ pc[i] = "link" /\ pc[i] \in PastLoad /\ pc[i] \in HasWork /\ pc[i] \in Filled
      /\ UNCHANGED <<holder, crashes, cur, fromPrev, floor, noted, work, batch, told>>
  BY DEF KeepPrev, At, PastLoad, HasWork, Filled, memory
<1>l. Local(i, pc[i], dir, cur[i], work[i], batch[i], fromPrev[i], Acked, Published)
  BY <1>0, Here
<1>1. CASE dir["state"] # None /\ (SetDir(Linked) \/ SetDir(Renamed)) /\ Goto(i, "rename")
  <2>1. Valid(dir["state"]) /\ ~fromPrev[i] /\ "rename" \in PastLoad
    BY <1>0, <1>1, <1>l, Zenon DEF Local, PastLoad
  <2>2. /\ DirOK(Linked, Acked, Published) /\ Linked["state"] = dir["state"] /\ Linked["tmp"] = dir["tmp"]
        /\ DirOK(Renamed, Acked, Published) /\ Renamed["state"] = None /\ Renamed["tmp"] = dir["tmp"]
    BY <1>0, <2>1, Here, PrevKept, Zenon DEF Linked, Renamed
  <2>3. Local(i, "rename", Linked, cur[i], work[i], batch[i], fromPrev[i], Acked, Published)
    BY <1>0, <1>l, <2>1, <2>2, Zenon DEF Local, HasWork, Filled
  <2>4. Local(i, "rename", Renamed, cur[i], work[i], batch[i], fromPrev[i], Acked, Published)
    BY <1>0, <1>l, <2>1, <2>2, Zenon DEF Local, HasWork, Filled
  <2>5. CASE SetDir(Linked)
    BY <1>0, <1>1, <2>1, <2>2, <2>3, <2>5, Updates, Zenon
  <2>6. CASE SetDir(Renamed)
    BY <1>0, <1>1, <2>1, <2>2, <2>4, <2>6, Updates, Zenon
  <2> QED BY <1>1, <2>5, <2>6
<1>2. CASE SameDir /\ Goto(i, "cleanup")
  BY <1>0, <1>2, GiveUp
<1> QED BY <1>1, <1>2 DEF KeepPrev

LEMMA RenameTmpStep == ASSUME DurableInv, NEW i \in Instance, RenameTmp(i) PROVE DurableInv'
<1>0. /\ pc[i] = "rename" /\ pc[i] \in PastLoad /\ pc[i] \in HasWork /\ pc[i] \in Filled
      /\ UNCHANGED <<holder, crashes, cur, fromPrev, floor, noted, work, batch, told>>
  BY DEF RenameTmp, At, PastLoad, HasWork, Filled
<1>l. Local(i, pc[i], dir, cur[i], work[i], batch[i], fromPrev[i], Acked, Published)
  BY <1>0, Here
<1> DEFINE e == [dir EXCEPT !["state"] = dir["tmp"], !["tmp"] = None]
<1>1. CASE SetDir(e) /\ Goto(i, "sync")
  <2>1. Valid(dir["tmp"]) /\ dir["tmp"].model = work[i] /\ Covers(work[i], Acked, Published)
    BY <1>0, <1>l, Zenon DEF Local
  <2>2. Complete(dir["tmp"], Acked, Published)
    <3>1. dir["tmp"] \in File \cup {None}
      BY <1>0, Here DEF Name
    <3> QED BY <2>1, <3>1 DEF Complete, Valid
  <2>3. DirOK(e, Acked, Published) /\ e["state"] = dir["tmp"] /\ e["prev"] = dir["prev"]
    BY <1>0, <2>2, Here, TmpRenamed, Zenon
  <2> HIDE DEF e
  <2>4. Local(i, "sync", e, cur[i], work[i], batch[i], fromPrev[i], Acked, Published) /\ "sync" \in PastLoad
    BY <1>0, <1>l, <2>1, <2>3, Zenon DEF Local, PastLoad, HasWork, Filled
  <2> QED BY <1>0, <1>1, <2>3, <2>4, Updates, Zenon
<1>2. CASE SameDir /\ Goto(i, "cleanup")
  BY <1>0, <1>2, GiveUp
<1> QED BY <1>1, <1>2 DEF RenameTmp

\* The fsync of the directory: what is acknowledged and published is what the only durable directory has.
LEMMA SyncDirStep == ASSUME DurableInv, NEW i \in Instance, SyncDir(i) PROVE DurableInv'
<1>0. /\ pc[i] = "sync" /\ pc[i] \in PastLoad /\ pc[i] \in HasWork
      /\ UNCHANGED <<holder, crashes, floor, work>>
  BY DEF SyncDir, At, PastLoad, HasWork
<1>l. Local(i, pc[i], dir, cur[i], work[i], batch[i], fromPrev[i], Acked, Published)
  BY <1>0, Here
<1>1. CASE /\ dir' = dir /\ durable' = {dir}
           /\ cur' = [cur EXCEPT ![i] = work[i]]
           /\ fromPrev' = [fromPrev EXCEPT ![i] = FALSE]
           /\ noted' = [noted EXCEPT ![i] = work[i].seq]
           /\ Tell(batch[i], "ok")
           /\ batch' = [batch EXCEPT ![i] = {}]
           /\ Goto(i, "idle")
  <2>1. /\ Covers(work[i], Acked, Published) /\ batch[i] \subseteq work[i].muts
        /\ Valid(dir["state"]) /\ dir["state"].model = work[i] /\ work[i].seq \in Nat
    BY <1>0, <1>l, Zenon DEF Local, Covers, Model
  <2>2. Shape /\ pc' = [pc EXCEPT ![i] = "idle"] /\ "idle" \in PastLoad /\ Serving(i)
    BY <1>0, <1>1, Phases DEF DurableInv, Goto, PastLoad
  <2>3. Shape'
    BY <1>0, <1>1, <2>1, <2>2, Phases, Zenon DEF Shape
  <2>4. cur'[i] = work[i] /\ fromPrev'[i] = FALSE /\ work'[i] = work[i]
    BY <1>0, <1>1, <2>2 DEF Shape
  <2>5. Acked' \subseteq work[i].muts
    BY <1>1, <2>1, Zenon DEF Acked, Tell, Covers
  <2>6. \A s \in Published' : s <= work[i].seq
    <3>1. i \in Loaders' /\ i \in Loaders
      BY <1>0, <2>2 DEF Loaders, Shape
    <3>2. Fresh' => Fresh
      BY <1>0, <3>1 DEF Fresh
    <3>3. \A j \in Instance : noted'[j] = noted[j] \/ noted'[j] = work[i].seq
      BY <1>1, <2>2 DEF Shape
    <3>4. \A s \in Published : s <= work[i].seq
      BY <2>1 DEF Covers
    <3>5. \A s \in Published' : s \in Published \/ s = work[i].seq
      BY <3>2, <3>3 DEF Published
    <3>6. work[i].seq \in Nat /\ work[i].seq <= work[i].seq
      BY <2>1
    <3> QED BY <3>4, <3>5, <3>6, Zenon
  <2>7. Covers(work[i], Acked', Published')
    BY <2>1, <2>5, <2>6 DEF Covers
  <2>8. DirOK(dir, Acked', Published')
    <3>1. DirOK(dir, Acked, Published) /\ Complete(dir["state"], Acked, Published)
      BY <1>0, <2>1, Here, ValidState
    <3>2. Complete(dir["state"], Acked', Published')
      BY <2>1, <2>7, <3>1, Zenon DEF Complete
    <3> QED BY <3>1, <3>2 DEF DirOK
  <2>9. Local(i, "idle", dir, work[i], work[i], batch'[i], FALSE, Acked', Published')
    BY <2>1, <2>7, Zenon DEF Local, HasWork, Filled
  <2>10. Local(i, "idle", dir', cur'[i], work'[i], batch'[i], fromPrev'[i], Acked', Published')
    BY <1>1, <2>4, <2>9, Zenon
  <2>11. dir' \in durable' /\ \A d \in durable' : DirOK(d, Acked', Published')
    BY <1>1, <2>8
  <2> QED BY <1>0, <2>2, <2>3, <2>10, <2>11, OneServes, Zenon
<1>2. CASE SameDir /\ Goto(i, "cleanup") /\ UNCHANGED <<cur, fromPrev, noted, told, batch>>
  BY <1>0, <1>2, GiveUp
<1> QED BY <1>1, <1>2 DEF SyncDir

LEMMA CleanupStep == ASSUME DurableInv, NEW i \in Instance, Cleanup(i) PROVE DurableInv'
<1>0. /\ pc[i] \in PastLoad /\ UNCHANGED <<holder, crashes, cur, fromPrev, floor, noted, work>>
      /\ (Remove("tmp") \/ SameDir) /\ FailBatch(i) /\ Goto(i, "idle")
  BY DEF Cleanup, At, PastLoad, memory
<1> QED BY <1>0, GiveUp

-----------------------------------------------------------------------------
(* Crashes, the lease, and the load of a successor *)

\* An accident: the promise of the first master survives one.
LEMMA AccidentPublishes ==
  ASSUME DurableInv, crashes' = crashes + 1, noted' = noted, told' = told
  PROVE  Acked' = Acked /\ Published' \subseteq Published
<1>1. Acked' = Acked
  BY DEF Acked
<1>2. crashes \in Nat
  BY DEF DurableInv, Shape
<1>3. Fresh' => Fresh
  BY <1>2 DEF Fresh
<1> QED BY <1>1, <1>3 DEF Published

LEMMA CrashStep == ASSUME DurableInv, NEW i \in Instance, Crash(i) PROVE DurableInv'
<1>0. /\ Serving(i) /\ crashes' = crashes + 1 /\ pc' = [pc EXCEPT ![i] = "gone"]
      /\ dir' = Settle(i, "junk", dir) /\ durable' = {Settle(i, "junk", d) : d \in durable}
      /\ batch' = [batch EXCEPT ![i] = {}]
      /\ UNCHANGED <<cur, fromPrev, floor, noted, work, told>>
  BY DEF Crash, Goto, memory
<1>1. Shape /\ crashes \in Nat /\ DirsOK
  BY DEF DurableInv, Shape
<1>2. Shape'
  BY <1>0, <1>1 DEF Shape, Phase
<1>3. \A j \in Instance : ~Serving(j)' /\ (pc'[j] = "refused" => crashes' > 1)
  <2>1. ASSUME NEW j \in Instance PROVE pc'[j] \in {"down", "refused", "lost", "gone"}
    BY <1>0, <1>1, Alone DEF Shape
  <2>2. ASSUME NEW j \in Instance, pc'[j] = "refused" PROVE crashes' > 1
    <3>1. pc[j] = "refused"
      BY <1>0, <1>1, <2>2 DEF Shape
    <3>2. crashes > 1
      BY <3>1, Zenon DEF DurableInv, Relies
    <3> QED BY <1>0, <1>1, <3>2
  <2> QED BY <2>1, <2>2 DEF Serving
<1>4. Acked' = Acked /\ Published' \subseteq Published
  BY <1>0, AccidentPublishes
<1>5. dir' \in durable' /\ \A d \in durable' : DirOK(d, Acked', Published')
  <2>1. ASSUME NEW d \in durable PROVE DirOK(Settle(i, "junk", d), Acked', Published')
    <3>1. DirOK(Settle(i, "junk", d), Acked, Published)
      BY <1>1, Settled DEF DirsOK
    <3> QED BY <1>4, <3>1, DirLess
  <2> QED BY <1>0, <1>1, <2>1 DEF DirsOK
<1>6. crashes' # 0
  BY <1>0, <1>1
<1> QED BY <1>2, <1>3, <1>5, <1>6, NobodyServes

LEMMA PowerLossStep == ASSUME DurableInv, PowerLoss PROVE DurableInv'
<1>0. /\ crashes' = crashes + 1 /\ pc' = [i \in Instance |-> IF Serving(i) THEN "gone" ELSE pc[i]]
      /\ batch' = [i \in Instance |-> {}]
      /\ UNCHANGED <<cur, fromPrev, floor, noted, work, told>>
  BY DEF PowerLoss, memory
<1>d. PICK d \in durable : dir' = After(d) /\ durable' = {After(d)}
  BY Zenon DEF PowerLoss, After
<1>1. Shape /\ crashes \in Nat /\ DirsOK
  BY DEF DurableInv, Shape
<1>2. Shape'
  BY <1>0, <1>1 DEF Shape, Phase
<1>3. \A j \in Instance : ~Serving(j)' /\ (pc'[j] = "refused" => crashes' > 1)
  <2>1. ASSUME NEW j \in Instance PROVE pc'[j] \in {"down", "refused", "lost", "gone"}
    BY <1>0 DEF Serving
  <2>2. ASSUME NEW j \in Instance, pc'[j] = "refused" PROVE crashes' > 1
    <3>1. pc[j] = "refused"
      BY <1>0, <2>2
    <3>2. crashes > 1
      BY <3>1, Zenon DEF DurableInv, Relies
    <3> QED BY <1>0, <1>1, <3>2
  <2> QED BY <2>1, <2>2 DEF Serving
<1>4. Acked' = Acked /\ Published' \subseteq Published
  BY <1>0, AccidentPublishes
<1>5. DirOK(After(d), Acked', Published')
  <2>1. DirOK(After(d), Acked, Published)
    BY <1>1, AfterOK DEF DirsOK
  <2> QED BY <1>4, <2>1, DirLess
<1>6. crashes' # 0
  BY <1>0, <1>1
<1>7. dir' \in durable' /\ \A x \in durable' : DirOK(x, Acked', Published')
  BY <1>d, <1>5
<1> QED BY <1>2, <1>3, <1>6, <1>7, NobodyServes

\* Without overlap the lease only moves when nobody serves.
LEMMA EvictStep == ASSUME DurableInv, ~Overlap, Evict PROVE DurableInv'
<1>0. /\ ~Serving(holder)
      /\ UNCHANGED <<dir, durable, pc, work, batch, cur, fromPrev, floor, noted, told, crashes>>
  BY DEF Evict, memory
<1>1. Shape /\ DirsOK /\ \A j \in Instance : Relies(j)
  BY DEF DurableInv
<1>2. \A j \in Instance : ~Serving(j)
  BY <1>0, <1>1, Zenon DEF Relies
<1>3. Shape'
  BY <1>0, <1>1 DEF Shape
<1>4. \A j \in Instance : ~Serving(j)' /\ (pc'[j] = "refused" => crashes' > 1)
  BY <1>0, <1>1, <1>2, Zenon DEF Relies, Serving
<1>5. Loaders = {}
  BY <1>2 DEF Loaders, PastLoad, Serving
<1>6. Acked' = Acked /\ Published' = Published
  BY <1>0, Zenon DEF Acked, Published, Fresh, Loaders
<1>7. dir' \in durable' /\ (\A d \in durable' : DirOK(d, Acked', Published')) /\ (crashes' = 0 => durable' = {dir'})
  BY <1>0, <1>1, <1>5, <1>6 DEF DirsOK
<1> QED BY <1>3, <1>4, <1>7, NobodyServes

\* The lease as its taker finds it: what it asks of the state is what some instance told the lock.
LEMMA PromoteStep == ASSUME DurableInv, NEW i \in Instance, Promote(i) PROVE DurableInv'
<1>0. /\ pc[i] = "down" /\ holder = None /\ holder' = i /\ pc' = [pc EXCEPT ![i] = "load"]
      /\ UNCHANGED <<dir, durable, cur, work, batch, fromPrev, noted, told, crashes>>
  BY DEF Promote, At, Goto
<1>f. PICK s \in {noted[j] : j \in Instance} : floor' = [floor EXCEPT ![i] = s]
  BY Zenon DEF Promote
<1>1. Shape /\ DirsOK /\ \A j \in Instance : Relies(j)
  BY DEF DurableInv
<1>2. \A j \in Instance : ~Serving(j)
  BY <1>0, <1>1, NoneAssumption, Zenon DEF Relies
<1>3. Shape'
  BY <1>0, <1>f, <1>1 DEF Shape, Phase
<1>4. /\ pc'[i] = "load" /\ floor'[i] = s
      /\ \A j \in Instance : j # i => (pc'[j] = pc[j] /\ ~Serving(j)' /\ pc'[j] # "load" /\ pc'[j] \notin PastLoad)
  BY <1>0, <1>f, <1>1, <1>2 DEF Shape, Serving, PastLoad
<1>5. Loaders = {} /\ Loaders' = {}
  BY <1>2, <1>4 DEF Loaders, PastLoad, Serving
<1>6. Acked' = Acked /\ Published' = Published /\ (Fresh' <=> Fresh)
  BY <1>0, <1>5 DEF Acked, Published, Fresh
<1>7. DirsOK'
  BY <1>0, <1>1, <1>5, <1>6 DEF DirsOK
<1>8. Relies(i)'
  BY <1>0, <1>f, <1>4, <1>6, Zenon DEF Relies, PastLoad, Published
<1>9. ASSUME NEW j \in Instance, j # i PROVE Relies(j)'
  BY <1>0, <1>1, <1>4, <1>9, Zenon DEF Relies
<1> QED BY <1>3, <1>7, <1>8, <1>9 DEF DurableInv

\* load takes the newest of what the directory has, so what it publishes the directory covers.
LEMMA LoadedIsNewest ==
  ASSUME NEW d, NEW A, NEW S, DirOK(d, A, S), NEW S2, \A s \in S2 : s \in S \/ s = Loaded(d).seq
  PROVE  DirOK(d, A, S2)
<1>1. Covers(Loaded(d), A, S) /\ Loaded(d).seq \in Nat
  BY LoadedCovers DEF Covers, Model
<1>2. Covers(Loaded(d), A, S2)
  <2>1. \A s \in S2 : s <= Loaded(d).seq
    BY <1>1 DEF Covers
  <2> QED BY <1>1, <2>1 DEF Covers
<1>3. CASE Complete(d["state"], A, S)
  BY <1>2, <1>3 DEF DirOK, Complete, Loaded
<1>4. CASE ~Valid(d["state"]) /\ Complete(d["prev"], A, S)
  BY <1>2, <1>4 DEF DirOK, Complete, Loaded
<1> QED BY <1>3, <1>4 DEF DirOK

LEMMA LoadStep == ASSUME DurableInv, NEW i \in Instance, Load(i) PROVE DurableInv'
<1>0. /\ pc[i] = "load" /\ Serving(i) /\ i \notin Loaders
      /\ UNCHANGED <<dir, durable, holder, work, batch, floor, told, crashes>>
  BY Zenon DEF Load, At, Serving, Loaders, PastLoad
<1>1. Shape /\ DirsOK /\ crashes \in Nat /\ DirOK(dir, Acked, Published) /\ Relies(i)
  BY DEF DurableInv, Shape, DirsOK
<1>2. Loaders = {}
  BY <1>0, Alone DEF Loaders, PastLoad
<1>3. Loadable(dir) /\ Covers(Loaded(dir), Acked, Published) /\ Loaded(dir).seq \in Nat
  BY <1>1, LoadedCovers DEF Covers, Model
<1>4. CASE /\ cur' = [cur EXCEPT ![i] = Loaded(dir)]
           /\ fromPrev' = [fromPrev EXCEPT ![i] = ~Valid(dir["state"])]
           /\ noted' = [noted EXCEPT ![i] = Loaded(dir).seq]
           /\ Goto(i, "idle")
  <2>1. pc' = [pc EXCEPT ![i] = "idle"] /\ "idle" \in PastLoad
    BY <1>4 DEF Goto, PastLoad
  <2>2. Shape'
    BY <1>0, <1>1, <1>3, <1>4, <2>1, Zenon DEF Shape, Phase
  <2>3. cur'[i] = Loaded(dir) /\ fromPrev'[i] = ~Valid(dir["state"])
    BY <1>1, <1>4 DEF Shape
  <2>4. Acked' = Acked /\ i \in Loaders'
    BY <1>0, <1>1, <2>1 DEF Acked, Loaders, Shape
  <2>5. \A d \in durable : DirOK(d, Acked, Published')
    <3>1. CASE crashes = 0
      <4>1. durable = {dir} /\ Fresh
        BY <1>1, <1>2, <3>1 DEF DirsOK, Fresh
      <4>2. \A j \in Instance : noted'[j] = noted[j] \/ noted'[j] = Loaded(dir).seq
        BY <1>1, <1>4 DEF Shape
      <4>3. \A s \in Published' : s \in Published \/ s = Loaded(dir).seq
        BY <4>1, <4>2 DEF Published
      <4> QED BY <1>1, <4>1, <4>3, LoadedIsNewest
    <3>2. CASE crashes # 0
      <4>1. ~Fresh'
        BY <1>0, <2>4, <3>2 DEF Fresh
      <4>2. Published' \subseteq Published
        BY <4>1 DEF Published
      <4> QED BY <1>1, <4>2, DirLess DEF DirsOK
    <3> QED BY <3>1, <3>2
  <2>6. dir \in durable /\ DirOK(dir, Acked, Published')
    BY <1>1, <2>5 DEF DirsOK
  <2>7. Covers(Loaded(dir), Acked, Published')
    BY <2>6, LoadedCovers
  <2>8. Local(i, "idle", dir, Loaded(dir), work[i], batch[i], ~Valid(dir["state"]), Acked, Published')
    <3>1. IF ~Valid(dir["state"]) THEN Complete(dir["prev"], Acked, Published')
                                  ELSE (dir["state"] = None \/ Valid(dir["state"]))
      BY <2>6 DEF DirOK, Complete
    <3> QED BY <2>7, <3>1, Zenon DEF Local, HasWork, Filled
  <2>9. Local(i, "idle", dir', cur'[i], work'[i], batch'[i], fromPrev'[i], Acked', Published')
    BY <1>0, <2>3, <2>4, <2>8, Zenon
  <2>10. dir' \in durable' /\ \A d \in durable' : DirOK(d, Acked', Published')
    BY <1>0, <2>4, <2>5, <2>6
  <2> QED BY <1>0, <2>1, <2>2, <2>9, <2>10, OneServes, Zenon
<1>5. CASE /\ ~(Loadable(dir) /\ Loaded(dir).seq >= floor[i])
           /\ Goto(i, "refused") /\ UNCHANGED <<cur, fromPrev, noted>>
  <2>1. ~Fresh
    <3>1. SUFFICES ASSUME Fresh PROVE FALSE
      OBVIOUS
    <3>2. floor[i] \in Published
      BY <1>0, <1>1, <3>1, Zenon DEF Relies
    <3>3. floor[i] <= Loaded(dir).seq /\ floor[i] \in Nat
      BY <1>1, <1>3, <3>2 DEF Covers, Published, Shape
    <3> QED BY <1>3, <1>5, <3>3
  <2>2. crashes > 1
    BY <1>1, <1>2, <2>1 DEF Fresh
  <2>3. pc' = [pc EXCEPT ![i] = "refused"]
    BY <1>5 DEF Goto
  <2>4. Shape'
    BY <1>0, <1>1, <1>5, <2>3, Zenon DEF Shape, Phase
  <2>5. \A j \in Instance : ~Serving(j)' /\ (pc'[j] = "refused" => crashes' > 1)
    BY <1>0, <1>1, <2>2, <2>3, Alone DEF Serving, Shape
  <2>6. crashes' = crashes /\ crashes # 0 /\ crashes # 1
    BY <1>0, <1>1, <2>2
  <2>7. Acked' = Acked /\ Published' \subseteq Published
    BY <1>0, <2>6, Zenon DEF Acked, Published, Fresh
  <2>8. \A d \in durable : DirOK(d, Acked, Published')
    BY <1>1, <2>7, DirLess DEF DirsOK
  <2>9. dir' \in durable' /\ \A d \in durable' : DirOK(d, Acked', Published')
    BY <1>0, <1>1, <2>7, <2>8 DEF DirsOK
  <2>10. crashes' # 0
    BY <2>6
  <2> QED BY <2>4, <2>5, <2>9, <2>10, NobodyServes
<1> QED BY <1>4, <1>5, Zenon DEF Load

LEMMA DurableStep == ASSUME DurableInv, ~Overlap, [Next]_vars PROVE DurableInv'
<1>1. CASE UNCHANGED vars
  <2>1. UNCHANGED <<dir, durable, holder, pc, cur, work, batch, fromPrev, floor, noted, told, crashes>>
    BY <1>1 DEF vars
  <2>2. Acked' = Acked /\ Published' = Published /\ (Fresh' <=> Fresh) /\ Loaders' = Loaders
    BY <2>1 DEF Acked, Published, Fresh, Loaders
  <2>3. Shape'
    BY <2>1 DEF Shape, DurableInv
  <2>4. DirsOK'
    BY <2>1, <2>2 DEF DirsOK, DurableInv
  <2>5. ASSUME NEW j \in Instance PROVE Relies(j)'
    BY <2>1, <2>2, Zenon DEF Relies, Serving, DurableInv
  <2> QED BY <2>3, <2>4, <2>5 DEF DurableInv
<1>2. CASE Evict
  BY <1>2, EvictStep
<1>3. CASE PowerLoss
  BY <1>3, PowerLossStep
<1>4. ASSUME NEW i \in Instance, Promote(i) \/ Load(i) \/ Mutate(i) \/ Commit(i) \/ Crash(i)
      PROVE  DurableInv'
  <2>1. CASE Promote(i)
    BY <2>1, PromoteStep
  <2>2. CASE Load(i)
    BY <2>2, LoadStep
  <2>3. CASE Mutate(i)
    BY <2>3, MutateStep
  <2>4. CASE Crash(i)
    BY <2>4, CrashStep
  <2>5. CASE Commit(i)
    BY <2>5, FirstGuardStep, RemoveTmpStep, CreateTmpStep, FillStep, SecondGuardStep, CheckExistsStep,
       RemovePrevStep, KeepPrevStep, RenameTmpStep, SyncDirStep, CleanupStep DEF Commit
  <2> QED BY <1>4, <2>1, <2>2, <2>3, <2>4, <2>5
<1> QED BY <1>1, <1>2, <1>3, <1>4 DEF Next

\* The directories a relay may start on are complete: nothing is acknowledged or published yet.
LEMMA DurableInit == ASSUME Init PROVE DurableInv
<1>1. Acked = {} /\ Loaders = {} /\ Published \subseteq {0}
  BY Zenon DEF Init, Acked, Loaders, PastLoad, Published
<1>2. Shape
  BY DEF Init, Shape, Phase
<1>3. /\ Generation(1) \in File /\ Valid(Generation(1)) /\ Covers(Generation(1).model, {}, {0})
      /\ Generation(2) \in File /\ Valid(Generation(2)) /\ Covers(Generation(2).model, {}, {0})
  <2>1. /\ [seq |-> 1, muts |-> {}] \in Model /\ [seq |-> 2, muts |-> {}] \in Model
    BY DEF Model
  <2>2. Generation(1) \in File /\ Generation(2) \in File
    BY <2>1, Zenon DEF Generation, File
  <2>3. Generation(1) # None /\ Generation(2) # None
    BY <2>2, NoFileAssumption
  <2> QED BY <2>1, <2>2, <2>3, SMTT(30) DEF Generation, Valid, Covers
<1>4. Junk \in File /\ Junk.status = "junk"
  BY <1>3 DEF Junk, File
<1>5. ASSUME NEW d \in StartDir PROVE DirOK(d, {}, {0})
  <2>1. d \in [Name -> File \cup {None}]
    <3> DEFINE FN == File \cup {None}
    <3>1. Generation(1) \in FN /\ Generation(2) \in FN /\ Junk \in FN /\ None \in FN
      BY <1>3, <1>4, Zenon
    <3> HIDE DEF FN
    <3>2. [state |-> Generation(1), prev |-> None, tmp |-> None] \in [Name -> FN]
      BY <3>1 DEF Name
    <3>3. [state |-> Generation(2), prev |-> Generation(1), tmp |-> Junk] \in [Name -> FN]
      BY <3>1 DEF Name
    <3>4. [state |-> Junk, prev |-> Generation(1), tmp |-> None] \in [Name -> FN]
      BY <3>1 DEF Name
    <3>5. [state |-> None, prev |-> Generation(1), tmp |-> None] \in [Name -> FN]
      BY <3>1 DEF Name
    <3>6. d \in [Name -> FN]
      BY <3>2, <3>3, <3>4, <3>5, Zenon DEF StartDir
    <3> QED BY <3>6 DEF FN
  <2>2. Complete(Generation(1), {}, {0}) /\ Complete(Generation(2), {}, {0})
    BY <1>3 DEF Complete
  <2>3. ~Valid(Junk) /\ ~Valid(None) /\ Closed(Junk) /\ Closed(None) /\ Closed(Generation(1)) /\ Closed(Generation(2))
    BY <1>3, <1>4, Zenon DEF Valid, Closed
  <2>4. \/ d["state"] = Generation(1) /\ d["prev"] = None
        \/ d["state"] = Generation(2) /\ d["prev"] = Generation(1)
        \/ d["state"] = Junk /\ d["prev"] = Generation(1)
        \/ d["state"] = None /\ d["prev"] = Generation(1)
    BY DEF StartDir
  <2> QED BY <2>1, <2>2, <2>3, <2>4 DEF DirOK
<1>6. dir \in durable /\ durable = {dir} /\ DirOK(dir, Acked, Published)
  BY <1>1, <1>5, DirLess, Zenon DEF Init
<1>7. DirsOK
  BY <1>6 DEF DirsOK
<1>8. ASSUME NEW i \in Instance PROVE Relies(i)
  BY DEF Init, Relies, Serving, PastLoad
<1> QED BY <1>2, <1>7, <1>8 DEF DurableInv

\* Without overlap of the lease, whatever fails and whenever the process or the machine stops, the
\* directory a restart finds holds a state that loads: persist, recovered-state handling and load of
\* the state engine never leave a moment without a complete relay.state or relay.state.prev.
THEOREM AlwaysAState == ASSUME ~Overlap PROVE Spec => []AlwaysLoadable
<1>1. DurableInv => AlwaysLoadable
  BY LoadedCovers DEF DurableInv, DirsOK, AlwaysLoadable
<1> QED BY <1>1, DurableInit, DurableStep, PTL DEF Spec

\* Without overlap of the lease, a mutation whose caller was told it is done is in the state that any
\* restart loads, whichever of the possible directories a power loss leaves.
THEOREM AckedSurvives == ASSUME ~Overlap PROVE Spec => []AckedIsDurable
<1>1. DurableInv => AckedIsDurable
  <2> SUFFICES ASSUME DurableInv, NEW m \in Mutation, told[m] = "ok", NEW d \in durable \cup {dir}
               PROVE  m \in Loaded(d).muts
    BY Zenon DEF AckedIsDurable
  <2>1. DirOK(d, Acked, Published)
    BY DEF DurableInv, DirsOK
  <2>2. Acked \subseteq Loaded(d).muts
    BY <2>1, LoadedCovers DEF Covers
  <2> QED BY <2>2, Zenon DEF Acked
<1> QED BY <1>1, DurableInit, DurableStep, PTL DEF Spec

\* Without overlap of the lease, one crash or power loss never makes the write_seq check of a
\* successor refuse the state: what a master noted in its lock is in what its successor loads.
THEOREM OneAccidentTolerated == ASSUME ~Overlap PROVE Spec => []NotRefusedAfterOneAccident
<1>1. DurableInv => NotRefusedAfterOneAccident
  BY DEF DurableInv, Shape, Relies, NotRefusedAfterOneAccident, At
<1> QED BY <1>1, DurableInit, DurableStep, PTL DEF Spec

-----------------------------------------------------------------------------
(* The credentials, which the state file holds.  What the administrator decided of an agent is undone by
   nobody else, a revoked or deleted agent has no live link once the decision has been carried out, and a
   rekey that is lost leaves the agent a JTI it can come back with.

   The second needs to know that a handler past RegisterConnection whose socket is not closed is the one
   in wsConnections: closing that one closes them all. *)

CONSTANTS Req, Conn, Absent, Reusable, MaxRetry, MaxRenew, MaxRotate, MaxAdmin, MaxLoss, MaxEvents
VARIABLES token, agent, blacklist, stored, cfg, keys, lapsed, nonce, en, hs, conn, rk, adm, rot, m, used, count

C == INSTANCE Credentials WITH None <- Absent, MaxFault <- MaxLoss

AdmSteps == {"idle", "revoke", "prev", "delete", "close", "again", "failed"}

\* The fields of the records, whatever they hold.
IsHs(h) == h = [step |-> h.step, jti |-> h.jti, old |-> h.old, sock |-> h.sock, code |-> h.code,
                queue |-> h.queue]
IsAdm(a) == a = [step |-> a.step, op |-> a.op, jti |-> a.jti, prev |-> a.prev]

AgentShape ==
    /\ agent \in C!AgentRec \cup {Absent}
    /\ stored \in Nat
    /\ conn \in Conn \cup {Absent}
    /\ hs = [c \in Conn |-> hs[c]] /\ \A c \in Conn : IsHs(hs[c])
    /\ IsAdm(adm)

Live(h) == h.step \in {"registered", "open"} /\ h.sock # "closed"
Open(h) == h.step = "open" /\ h.sock # "closed"
AgentGone == agent = Absent \/ agent.revoked

\* A live handler is the registered one, and none is open while the agent is gone, except between the
\* decision and the close that follows it.
LinkInv ==
    /\ \A c \in Conn : Live(hs[c]) => conn = c
    /\ AgentGone /\ adm.step \in {"idle", "revoke"} => \A c \in Conn : ~Open(hs[c])

CInv == AgentShape /\ LinkInv

LEMMA InitHolds == ASSUME C!Distinct PROVE C!Init => CInv
BY SMTT(30) DEF C!Distinct, C!Init, CInv, AgentShape, LinkInv, Live, Open, C!Off, C!IdleAdm, IsHs,
                IsAdm

-----------------------------------------------------------------------------
(* The agent *)

\* What a step of the store does to the agent: it keeps it, forgets it, or writes a record of it that
\* keeps a revocation with its JTI.
Careful ==
    \/ agent' = agent
    \/ agent' = Absent
    \/ /\ agent' \in C!AgentRec
       /\ agent # Absent /\ agent.revoked => agent'.revoked /\ agent'.jti = agent.jti
       /\ agent # Absent /\ agent.suspended => agent'.suspended \/ C!SetSuspended(FALSE)

LEMMA ReplacedFacts ==
  ASSUME agent \in C!AgentRec, NEW j \in Nat
  PROVE  /\ C!Replaced(j) \in C!AgentRec
         /\ C!Replaced(j).revoked = agent.revoked /\ C!Replaced(j).suspended = agent.suspended
         /\ C!Replaced(j).jti = j /\ C!Replaced(j).prev = agent.jti
<1>1. agent.jti \in Nat
  BY DEF C!AgentRec
<1> QED BY <1>1, Zenon DEF C!Replaced, C!AgentRec

LEMMA ConfirmedTyped ==
  ASSUME NEW a \in C!AgentRec, NEW p \in Nat
  PROVE  LET b == [a EXCEPT !.prev = p]
         IN  b \in C!AgentRec /\ b.revoked = a.revoked /\ b.suspended = a.suspended /\ b.jti = a.jti
BY DEF C!AgentRec

LEMMA RevokedTyped ==
  ASSUME NEW a \in C!AgentRec
  PROVE  LET b == [a EXCEPT !.revoked = TRUE]
         IN  /\ b \in C!AgentRec /\ b.revoked /\ b.suspended = a.suspended /\ b.jti = a.jti
             /\ b.prev = a.prev /\ b.by = a.by
BY Zenon DEF C!AgentRec

LEMMA SuspendedTyped ==
  ASSUME NEW a \in C!AgentRec, NEW x \in BOOLEAN
  PROVE  LET b == [a EXCEPT !.suspended = x]
         IN  /\ b \in C!AgentRec /\ b.revoked = a.revoked /\ b.suspended = x /\ b.jti = a.jti
             /\ b.prev = a.prev /\ b.by = a.by
BY DEF C!AgentRec

Flagged == [agent EXCEPT !.revoked = TRUE]

\* The ways a step may change the agent, the JTIs stored and the JTI used.
StoreStep ==
    \/ UNCHANGED <<agent, stored, used>>
    \/ agent' = Absent /\ UNCHANGED <<stored, used>>
    \/ ~C!Revoked /\ agent' = C!Enrolled(stored + 1) /\ stored' = stored + 1 /\ used' = used
    \/ C!Renewable /\ agent' = C!Replaced(stored + 1) /\ stored' = stored + 1 /\ used' = used
    \/ agent # Absent /\ agent' = Flagged /\ UNCHANGED <<stored, used>>
    \/ \E b \in BOOLEAN : C!SetSuspended(b)
    \/ \E c \in Conn : C!Accepted(c)

LEMMA StoreSteps == ASSUME [C!Next]_(C!vars) PROVE StoreStep
<1>1. ASSUME NEW r \in Req, C!EnrollAgent(r) PROVE StoreStep
  BY <1>1 DEF C!EnrollAgent, C!UnchangedByEnrol, StoreStep
<1>2. ASSUME NEW k \in C!Caller, C!StoreRekey(k) PROVE StoreStep
  <2>1. used' = used
    BY <1>2 DEF C!StoreRekey, C!UnchangedByRekey
  <2>2. UNCHANGED <<agent, stored>> \/ (C!Renewable /\ agent' = C!Replaced(stored + 1) /\ stored' = stored + 1)
    BY <1>2 DEF C!StoreRekey
  <2> QED BY <2>1, <2>2 DEF StoreStep
<1>4. CASE C!RevokeAgent
  <2>1. UNCHANGED <<stored, used>>
    BY <1>4 DEF C!RevokeAgent, C!UnchangedByAdmin
  <2>2. agent' = agent \/ (agent # Absent /\ agent' = Flagged)
    BY <1>4 DEF C!RevokeAgent, Flagged
  <2> QED BY <2>1, <2>2 DEF StoreStep
<1>5. CASE C!DeleteAgent
  BY <1>5 DEF C!DeleteAgent, C!UnchangedByAdmin, StoreStep
<1>6. CASE C!Restart
  BY <1>6 DEF C!Restart, C!Repaired, Flagged, StoreStep
<1>q. ASSUME UNCHANGED <<agent, stored, used>> PROVE StoreStep
  BY <1>q DEF StoreStep
<1>3. ASSUME NEW c \in Conn, C!Accepted(c) PROVE StoreStep
  BY <1>3 DEF StoreStep
<1>7. ASSUME NEW b \in BOOLEAN, C!SetSuspended(b) PROVE StoreStep
  BY <1>7 DEF StoreStep
<1>8. CASE C!MinionStep
  <2>1. CASE C!Boot \/ C!Verify \/ C!Refused
    BY <1>q, <2>1 DEF C!Boot, C!Verify, C!Refused, C!state
  <2>2. CASE C!MinionNotices \/ C!DialLost
    <3>1. UNCHANGED <<C!state, used>>
      BY <2>2 DEF C!MinionNotices, C!DialLost
    <3> QED BY <1>q, <3>1 DEF C!state
  <2>3. CASE C!HandleRekey \/ C!PersistRetry
    BY <1>q, <2>3 DEF C!HandleRekey, C!PersistRetry, C!state
  <2>4. ASSUME NEW r \in Req, C!Challenge(r) PROVE StoreStep
    BY <1>q, <2>4 DEF C!Challenge, C!state
  <2> QED BY <1>3, <1>8, <2>1, <2>2, <2>3, <2>4 DEF C!MinionStep
<1>9. CASE C!ServerStep
  <2>1. ASSUME NEW r \in Req, C!Consume(r) PROVE StoreStep
    BY <1>q, <2>1 DEF C!Consume, C!UnchangedByEnrol, C!state
  <2>2. ASSUME NEW r \in Req, C!EnrolRefused(r) PROVE StoreStep
    BY <1>q, <2>2 DEF C!EnrolRefused, C!UnchangedByEnrol, C!state
  <2>3. ASSUME NEW c \in Conn, C!Register(c) PROVE StoreStep
    BY <1>q, <2>3 DEF C!Register, C!state
  <2>4. ASSUME NEW c \in Conn, C!Replay(c) \/ C!ReaderEnds(c) PROVE StoreStep
    <3>1. CASE C!Replay(c)
      <4>1. UNCHANGED <<C!state, used>>
        BY <3>1 DEF C!Replay
      <4> QED BY <1>q, <4>1 DEF C!state
    <3>2. CASE C!ReaderEnds(c)
      <4>1. UNCHANGED <<C!state, used>>
        BY <3>2 DEF C!ReaderEnds
      <4> QED BY <1>q, <4>1 DEF C!state
    <3> QED BY <2>4, <3>1, <3>2
  <2>5. ASSUME NEW c \in Conn, C!RenewalDue(c) \/ C!UpgradeFails(c) PROVE StoreStep
    BY <1>q, <2>5, Zenon DEF C!RenewalDue, C!UpgradeFails, C!UnchangedByRekey, C!state
  <2>6. ASSUME NEW k \in C!Caller, C!BeginRekey(k) \/ C!SendRekey(k) PROVE StoreStep
    BY <1>q, <2>6 DEF C!BeginRekey, C!SendRekey, C!UnchangedByRekey
  <2>7. CASE C!BlacklistPrev \/ C!CloseLink
    <3>1. CASE C!BlacklistPrev
      BY <1>q, <3>1 DEF C!BlacklistPrev, C!UnchangedByAdmin
    <3>2. CASE C!CloseLink
      BY <1>q, <3>2 DEF C!CloseLink, C!UnchangedByAdmin
    <3> QED BY <2>7, <3>1, <3>2
  <2>8. CASE C!PersistKeys \/ C!RekeyConnected
    BY <1>q, <2>8 DEF C!PersistKeys, C!RekeyConnected, C!state
  <2>9. CASE C!Handlers
    BY <1>1, <1>2, <1>4, <1>5, <2>1, <2>2, <2>3, <2>4, <2>5, <2>6, <2>7, <2>8, <2>9 DEF C!Handlers
  <2> QED BY <1>9, <2>5, <2>9 DEF C!ServerStep
<1>10. CASE C!Environment
  <2>1. CASE C!GiveUp \/ C!NonceExpires \/ C!DialCut
    BY <1>q, <2>1 DEF C!GiveUp, C!NonceExpires, C!DialCut, C!state
  <2>2. CASE C!MinionCrash \/ C!GraceEnds
    BY <1>q, <2>2 DEF C!MinionCrash, C!GraceEnds, C!state
  <2>3. ASSUME NEW c \in Conn, C!Cut(c) PROVE StoreStep
    BY <1>q, <2>3 DEF C!Cut, C!state
  <2>4. ASSUME NEW op \in {"revoke", "delete"}, C!ReadAgent(op) PROVE StoreStep
    BY <1>q, <2>4, Zenon DEF C!ReadAgent, C!UnchangedByAdmin, C!state
  <2>5. CASE C!TokenExpires \/ C!DeleteToken \/ C!PurgeTokens
    BY <1>q, <2>5 DEF C!TokenExpires, C!DeleteToken, C!PurgeTokens, C!UnchangedByToken
  <2>6. CASE C!PurgeBlacklist \/ C!Rotate
    BY <1>q, <2>6, Zenon DEF C!PurgeBlacklist, C!Rotate, C!state
  <2> QED BY <1>6, <1>7, <1>10, <2>1, <2>2, <2>3, <2>4, <2>5, <2>6 DEF C!Environment
<1>11. CASE UNCHANGED C!vars
  BY <1>q, <1>11 DEF C!vars, C!state
<1> QED BY <1>8, <1>9, <1>10, <1>11 DEF C!Next

LEMMA AgentCareful == ASSUME AgentShape, [C!Next]_(C!vars) PROVE Careful /\ stored' \in Nat
<1> USE DEF Careful
<1>0. agent \in C!AgentRec \cup {Absent} /\ stored \in Nat /\ stored + 1 \in Nat
  BY DEF AgentShape
<1>1. CASE UNCHANGED <<agent, stored, used>>
  BY <1>0, <1>1
<1>2. CASE agent' = Absent /\ UNCHANGED <<stored, used>>
  BY <1>0, <1>2
<1>3. CASE ~C!Revoked /\ agent' = C!Enrolled(stored + 1) /\ stored' = stored + 1
  <2>1. ~(agent # Absent /\ agent.revoked)
    BY <1>3 DEF C!Revoked
  <2>2. C!Enrolled(stored + 1) \in C!AgentRec
    BY <1>0, Zenon DEF C!Enrolled, C!AgentRec
  <2>3. agent # Absent /\ agent.suspended => C!Enrolled(stored + 1).suspended
    BY Zenon DEF C!Enrolled
  <2> QED BY <1>0, <1>3, <2>1, <2>2, <2>3, Zenon
<1>4. CASE C!Renewable /\ agent' = C!Replaced(stored + 1) /\ stored' = stored + 1
  <2>1. agent # Absent /\ ~agent.revoked
    BY <1>4 DEF C!Renewable
  <2>2. agent \in C!AgentRec /\ agent.jti \in Nat
    BY <1>0, <2>1 DEF C!AgentRec
  <2>3. C!Replaced(stored + 1) \in C!AgentRec /\ C!Replaced(stored + 1).suspended = agent.suspended
    BY <1>0, <2>2, ReplacedFacts
  <2> QED BY <1>0, <1>4, <2>1, <2>3, Zenon
<1>5. CASE agent # Absent /\ agent' = Flagged /\ UNCHANGED <<stored, used>>
  <2>1. Flagged \in C!AgentRec /\ Flagged.revoked /\ Flagged.suspended = agent.suspended /\ Flagged.jti = agent.jti
    BY <1>0, <1>5, RevokedTyped, Zenon DEF Flagged
  <2> QED BY <1>0, <1>5, <2>1, Zenon
<1>6. ASSUME NEW b \in BOOLEAN, C!SetSuspended(b) PROVE Careful /\ stored' = stored
  <2>1. agent \in C!AgentRec /\ agent' = [agent EXCEPT !.suspended = b] /\ agent.suspended # b /\ stored' = stored
    BY <1>0, <1>6 DEF C!SetSuspended, C!Suspended
  <2>2. agent.suspended => b = FALSE
    BY <1>6, <2>1, Zenon DEF C!AgentRec
  <2> DEFINE a == [agent EXCEPT !.suspended = b]
  <2>3. a \in C!AgentRec /\ a.revoked = agent.revoked /\ a.suspended = b /\ a.jti = agent.jti
    BY <2>1, SuspendedTyped
  <2>4. agent' = a
    BY <2>1
  <2> HIDE DEF a
  <2> QED BY <1>6, <2>1, <2>2, <2>3, <2>4, Zenon
<1>7. ASSUME NEW c \in Conn, C!Accepted(c) PROVE Careful /\ stored' = stored
  <2>1. CASE agent' = agent
    BY <1>7, <2>1, Zenon DEF C!Accepted
  <2>2. CASE agent # Absent /\ agent' = C!Confirmed
    <3>1. agent \in C!AgentRec /\ 0 \in Nat
      BY <1>0, <2>2
    <3>2. /\ C!Confirmed \in C!AgentRec /\ C!Confirmed.revoked = agent.revoked
          /\ C!Confirmed.suspended = agent.suspended /\ C!Confirmed.jti = agent.jti
      BY <3>1, ConfirmedTyped, Zenon DEF C!Confirmed
    <3> QED BY <1>7, <2>2, <3>2, Zenon DEF C!Accepted
  <2> QED BY <1>7, <2>1, <2>2, Zenon DEF C!Accepted, C!IsCurrent, C!Known
<1>8. StoreStep
  BY StoreSteps
<1> QED BY <1>0, <1>1, <1>2, <1>3, <1>4, <1>5, <1>6, <1>7, <1>8, Zenon DEF StoreStep

-----------------------------------------------------------------------------
(* The links *)

CutHs(h, x, y) == [h EXCEPT !.sock = x, !.queue = y]
CodeHs(h, x, y) == [h EXCEPT !.code = x, !.sock = y]
StepSockHs(h, x, y) == [h EXCEPT !.step = x, !.sock = y]
EndHs(h, x, y, z) == [h EXCEPT !.step = x, !.sock = y, !.code = z]

LEMMA SockSet ==
  ASSUME NEW h, IsHs(h), NEW x
  PROVE  LET k == [h EXCEPT !.sock = x] IN IsHs(k) /\ k.sock = x /\ k.step = h.step
BY DEF IsHs

LEMMA QueueSet ==
  ASSUME NEW h, IsHs(h), NEW x
  PROVE  LET k == [h EXCEPT !.queue = x] IN IsHs(k) /\ k.sock = h.sock /\ k.step = h.step
BY DEF IsHs

LEMMA CutSet ==
  ASSUME NEW h, IsHs(h), NEW x, NEW y
  PROVE  LET k == CutHs(h, x, y) IN IsHs(k) /\ k.sock = x /\ k.step = h.step
<1> DEFINE g == [h EXCEPT !.sock = x]
<1>1. IsHs(g) /\ g.sock = x /\ g.step = h.step
  BY SockSet
<1>2. CutHs(h, x, y) = [g EXCEPT !.queue = y]
  BY DEF CutHs
<1> HIDE DEF g
<1> QED BY <1>1, <1>2, QueueSet

LEMMA CodeOnly ==
  ASSUME NEW h, IsHs(h), NEW x
  PROVE  LET k == [h EXCEPT !.code = x] IN IsHs(k) /\ k.sock = h.sock /\ k.step = h.step
BY DEF IsHs

LEMMA CodeSet ==
  ASSUME NEW h, IsHs(h), NEW x, NEW y
  PROVE  LET k == CodeHs(h, x, y) IN IsHs(k) /\ k.sock = y /\ k.step = h.step
<1> DEFINE g == [h EXCEPT !.code = x]
<1>1. IsHs(g) /\ g.step = h.step
  BY CodeOnly
<1>2. CodeHs(h, x, y) = [g EXCEPT !.sock = y]
  BY DEF CodeHs
<1> HIDE DEF g
<1> QED BY <1>1, <1>2, SockSet

LEMMA StepSet ==
  ASSUME NEW h, IsHs(h), NEW x
  PROVE  LET k == [h EXCEPT !.step = x] IN IsHs(k) /\ k.sock = h.sock /\ k.step = x
BY DEF IsHs

LEMMA StepSockSet ==
  ASSUME NEW h, IsHs(h), NEW x, NEW y
  PROVE  LET k == StepSockHs(h, x, y) IN IsHs(k) /\ k.sock = y /\ k.step = x
<1> DEFINE g == [h EXCEPT !.step = x]
<1>1. IsHs(g) /\ g.step = x
  BY StepSet
<1>2. StepSockHs(h, x, y) = [g EXCEPT !.sock = y]
  BY DEF StepSockHs
<1> HIDE DEF g
<1> QED BY <1>1, <1>2, SockSet

LEMMA EndSet ==
  ASSUME NEW h, IsHs(h), NEW x, NEW y, NEW z
  PROVE  LET k == EndHs(h, x, y, z) IN IsHs(k) /\ k.sock = y /\ k.step = x
<1> DEFINE f == [h EXCEPT !.step = x]
<1>1. IsHs(f) /\ f.step = x
  BY StepSet
<1>2. EndHs(h, x, y, z) = [f EXCEPT !.sock = y, !.code = z]
  BY Zenon DEF EndHs
<1> HIDE DEF f
<1> DEFINE g == [f EXCEPT !.sock = y]
<1>3. IsHs(g) /\ g.step = x /\ g.sock = y
  BY <1>1, SockSet
<1>4. [f EXCEPT !.sock = y, !.code = z] = [g EXCEPT !.code = z]
  OBVIOUS
<1> HIDE DEF g
<1>5. LET k == [g EXCEPT !.code = z] IN IsHs(k) /\ k.sock = y /\ k.step = x
  BY <1>3, CodeOnly
<1> QED BY <1>2, <1>4, <1>5, Zenon

LEMMA AdmSet ==
  ASSUME IsAdm(adm), NEW x
  PROVE  LET k == [adm EXCEPT !.step = x] IN IsAdm(k) /\ k.step = x
BY DEF IsAdm

\* A step that shows nothing to the links.
LEMMA QuietStep ==
  ASSUME CInv, agent' \in C!AgentRec \cup {Absent}, stored' \in Nat, AgentGone' => AgentGone,
         UNCHANGED <<hs, conn, adm>>
  PROVE  CInv'
BY Zenon DEF CInv, AgentShape, LinkInv

\* A step of one handler that makes no link.
LEMMA OneHandler ==
  ASSUME CInv, NEW c, NEW h, UNCHANGED <<agent, stored, conn, adm>>, hs' = [hs EXCEPT ![c] = h],
         c \in Conn => IsHs(h) /\ (Live(h) => Live(hs[c])) /\ (Open(h) => Open(hs[c]))
  PROVE  CInv'
<1>1. hs' = [d \in Conn |-> hs'[d]] /\ \A d \in Conn : hs'[d] = IF d = c THEN h ELSE hs[d]
  BY DEF CInv, AgentShape
<1>2. \A d \in Conn : IsHs(hs'[d]) /\ (Live(hs'[d]) => Live(hs[d])) /\ (Open(hs'[d]) => Open(hs[d]))
  BY <1>1, Zenon DEF CInv, AgentShape
<1>3. AgentShape'
  BY <1>1, <1>2, Zenon DEF CInv, AgentShape
<1>4. LinkInv'
  BY <1>2, Zenon DEF CInv, LinkInv, AgentGone
<1> QED BY <1>3, <1>4 DEF CInv

LEMMA OffIsEnded == IsHs(C!Off) /\ C!Off.step = "ended" /\ ~Live(C!Off) /\ ~Open(C!Off)
BY Zenon DEF C!Off, IsHs, Live, Open

LEMMA LeftFacts ==
  ASSUME NEW c \in Conn, IsHs(hs[c])
  PROVE  IsHs(C!Left(c)) /\ (Live(C!Left(c)) => Live(hs[c])) /\ (Open(C!Left(c)) => Open(hs[c]))
<1>1. CASE hs[c].step = "ended"
  BY <1>1, OffIsEnded DEF C!Left
<1>2. CASE hs[c].step # "ended"
  <2> DEFINE x == IF hs[c].sock = "up" THEN "half" ELSE hs[c].sock
  <2>1. C!Left(c) = [hs[c] EXCEPT !.sock = x]
    BY <1>2 DEF C!Left
  <2>2. x = "closed" <=> hs[c].sock = "closed"
    BY Zenon
  <2> HIDE DEF x
  <2>3. IsHs(C!Left(c)) /\ C!Left(c).sock = x /\ C!Left(c).step = hs[c].step
    BY <2>1, SockSet
  <2> QED BY <2>2, <2>3, Zenon DEF Live, Open
<1> QED BY <1>1, <1>2, Zenon

LEMMA ClosedFacts ==
  ASSUME NEW c \in Conn, IsHs(hs[c]), NEW code
  PROVE  IsHs(C!Closed(c, code)) /\ ~Live(C!Closed(c, code)) /\ ~Open(C!Closed(c, code))
<1>1. CASE m.conn # c
  BY <1>1, OffIsEnded DEF C!Closed
<1>2. CASE m.conn = c
  <2> DEFINE z == IF hs[c].sock = "half" THEN 0 ELSE code
  <2>1. C!Closed(c, code) = EndHs(hs[c], "ended", "closed", z)
    BY <1>2 DEF C!Closed, EndHs
  <2> HIDE DEF z
  <2>2. IsHs(C!Closed(c, code)) /\ C!Closed(c, code).step = "ended"
    BY <2>1, EndSet, SMTT(30)
  <2> QED BY <2>2, Zenon DEF Live, Open
<1> QED BY <1>1, <1>2, Zenon

\* The steps of the minion and of the network on a link.
LEMMA LinkStep ==
  ASSUME CInv,
         \/ C!MinionNotices \/ C!DialLost \/ C!HandleRekey \/ C!MinionCrash
         \/ \E c \in Conn : C!UpgradeFails(c) \/ C!Cut(c)
         \/ \E k \in C!Caller : C!SendRekey(k)
  PROVE  CInv'
<1>0. \A c \in Conn : IsHs(hs[c])
  BY DEF CInv, AgentShape
<1>q. ASSUME NEW c, NEW x PROVE LET h == [hs[c] EXCEPT !.queue = x]
        IN  c \in Conn => IsHs(h) /\ (Live(h) => Live(hs[c])) /\ (Open(h) => Open(hs[c]))
  BY <1>0, QueueSet DEF Live, Open
<1>1. CASE C!MinionNotices
  <2>1. hs' = [hs EXCEPT ![m.conn] = C!Left(m.conn)] /\ UNCHANGED <<agent, stored, conn, adm>>
    BY <1>1 DEF C!MinionNotices, C!state
  <2> QED BY <1>0, <2>1, LeftFacts, OneHandler, Zenon
<1>2. CASE C!DialLost
  <2>1. hs' = [hs EXCEPT ![m.conn] = C!Off] /\ UNCHANGED <<agent, stored, conn, adm>>
    BY <1>2 DEF C!DialLost, C!state
  <2> QED BY <2>1, OffIsEnded, OneHandler, Zenon
<1>3. CASE C!HandleRekey
  <2>1. /\ hs' = [hs EXCEPT ![m.conn] = [hs[m.conn] EXCEPT !.queue = Tail(hs[m.conn].queue)]]
        /\ UNCHANGED <<agent, stored, conn, adm>>
    BY <1>3 DEF C!HandleRekey, C!state
  <2> QED BY <1>q, <2>1, OneHandler, Zenon
<1>4. CASE C!MinionCrash
  <2>1. UNCHANGED <<agent, stored, conn, adm>>
    BY <1>4 DEF C!MinionCrash, C!state
  <2>2. CASE hs' = hs
    BY <2>1, <2>2, QuietStep, Zenon DEF CInv, AgentShape, AgentGone
  <2>3. CASE hs' = [hs EXCEPT ![m.conn] = C!Left(m.conn)]
    BY <1>0, <2>1, <2>3, LeftFacts, OneHandler, Zenon
  <2> QED BY <1>4, <2>2, <2>3 DEF C!MinionCrash
<1>5. ASSUME NEW c \in Conn, C!UpgradeFails(c) PROVE CInv'
  <2>1. hs' = [hs EXCEPT ![c] = C!Off] /\ UNCHANGED <<agent, stored, conn, adm>>
    BY <1>5, Zenon DEF C!UpgradeFails, C!state
  <2> QED BY <2>1, OffIsEnded, OneHandler, Zenon
<1>6. ASSUME NEW c \in Conn, C!Cut(c) PROVE CInv'
  <2> DEFINE h == [hs[c] EXCEPT !.sock = "half", !.queue = <<>>]
  <2>1. hs' = [hs EXCEPT ![c] = h] /\ UNCHANGED <<agent, stored, conn, adm>> /\ hs[c].sock = "up"
    BY <1>6, Zenon DEF C!Cut, C!state
  <2>2. IsHs(h) /\ h.sock = "half" /\ h.step = hs[c].step
    <3>1. h = CutHs(hs[c], "half", <<>>)
      BY Zenon DEF CutHs
    <3> HIDE DEF h
    <3> QED BY <1>0, <3>1, CutSet, SMTT(30)
  <2> HIDE DEF h
  <2> QED BY <2>1, <2>2, OneHandler, Zenon DEF Live, Open
<1>7. ASSUME NEW k \in C!Caller, C!SendRekey(k) PROVE CInv'
  <2>1. UNCHANGED <<agent, stored, conn, adm>>
    BY <1>7 DEF C!SendRekey, C!UnchangedByRekey
  <2>2. CASE hs' = hs
    BY <2>1, <2>2, QuietStep, Zenon DEF CInv, AgentShape, AgentGone
  <2>3. CASE hs' = [hs EXCEPT ![conn] = [hs[conn] EXCEPT !.queue = Append(hs[conn].queue, rk[k].tok)]]
    BY <1>q, <2>1, <2>3, OneHandler, Zenon
  <2> QED BY <1>7, <2>2, <2>3, Zenon DEF C!SendRekey
<1> QED BY <1>1, <1>2, <1>3, <1>4, <1>5, <1>6, <1>7

\* The handler ends, and takes itself out of wsConnections.
LEMMA HandlerEnds ==
  ASSUME CInv, NEW c \in Conn, NEW h, IsHs(h), ~Live(h), ~Open(h), hs' = [hs EXCEPT ![c] = h],
         conn' = C!Unregistered(c), UNCHANGED <<agent, stored, adm>>
  PROVE  CInv'
<1>1. hs' = [d \in Conn |-> hs'[d]] /\ \A d \in Conn : hs'[d] = IF d = c THEN h ELSE hs[d]
  BY DEF CInv, AgentShape
<1>2. AgentShape'
  BY <1>1, Zenon DEF CInv, AgentShape, C!Unregistered
<1>3. LinkInv'
  BY <1>1, Zenon DEF CInv, LinkInv, AgentGone, C!Unregistered
<1> QED BY <1>2, <1>3 DEF CInv

LEMMA ReplayStep == ASSUME CInv, NEW c \in Conn, C!Replay(c) PROVE CInv'
<1>0. IsHs(hs[c]) /\ hs[c].step = "registered" /\ UNCHANGED <<agent, stored, adm>>
  BY DEF CInv, AgentShape, C!Replay, C!state
<1>1. CASE C!Dead(hs[c].jti)
  BY <1>0, <1>1, ClosedFacts, HandlerEnds DEF C!Replay
<1>2. CASE ~C!Dead(hs[c].jti)
  <2> DEFINE h == [hs[c] EXCEPT !.step = "open"]
  <2>1. hs' = [hs EXCEPT ![c] = h] /\ conn' = conn /\ ~AgentGone
    BY <1>2 DEF C!Replay, C!Dead, AgentGone
  <2>2. IsHs(h) /\ h.sock = hs[c].sock /\ h.step = "open"
    BY <1>0, StepSet
  <2> HIDE DEF h
  <2>3. hs' = [d \in Conn |-> hs'[d]] /\ \A d \in Conn : hs'[d] = IF d = c THEN h ELSE hs[d]
    BY <2>1 DEF CInv, AgentShape
  <2>4. AgentShape'
    BY <1>0, <2>1, <2>2, <2>3, Zenon DEF CInv, AgentShape
  <2>5. LinkInv'
    BY <1>0, <2>1, <2>2, <2>3, Zenon DEF CInv, LinkInv, AgentGone, Live
  <2> QED BY <2>4, <2>5 DEF CInv
<1> QED BY <1>1, <1>2

LEMMA ReaderEndsStep == ASSUME CInv, NEW c \in Conn, C!ReaderEnds(c) PROVE CInv'
<1>0. IsHs(hs[c]) /\ UNCHANGED <<agent, stored, adm>>
  BY Zenon DEF CInv, AgentShape, C!ReaderEnds, C!state
<1> QED BY <1>0, ClosedFacts, HandlerEnds, Zenon DEF C!ReaderEnds

\* RegisterConnection: the only other live handler is the one it closes.
LEMMA RegisterStep == ASSUME CInv, NEW c \in Conn, C!Register(c) PROVE CInv'
<1>0. UNCHANGED <<agent, stored, adm>> /\ conn' = c /\ \A d \in Conn : IsHs(hs[d])
  BY DEF CInv, AgentShape, C!Register, C!state
<1>1. PICK x :
        hs' = [d \in Conn |-> IF d = c THEN StepSockHs(hs[c], "registered", x)
                              ELSE IF d = conn THEN [hs[d] EXCEPT !.sock = "closed"] ELSE hs[d]]
  BY Zenon DEF C!Register, StepSockHs
<1> DEFINE h == StepSockHs(hs[c], "registered", x)
<1>2. IsHs(h) /\ h.step = "registered"
  BY <1>0, StepSockSet, SMTT(30)
<1> HIDE DEF h
<1>3. \A d \in Conn : LET k == [hs[d] EXCEPT !.sock = "closed"] IN IsHs(k) /\ k.sock = "closed"
  BY <1>0, SockSet
<1>4. hs' = [d \in Conn |-> hs'[d]] /\ \A d \in Conn :
        hs'[d] = IF d = c THEN h ELSE IF d = conn THEN [hs[d] EXCEPT !.sock = "closed"] ELSE hs[d]
  BY <1>1 DEF h
<1>5. \A d \in Conn : IsHs(hs'[d]) /\ (Live(hs'[d]) => d = c \/ (d # conn /\ Live(hs[d])))
                      /\ (Open(hs'[d]) => Open(hs[d]))
  BY <1>0, <1>2, <1>3, <1>4, Zenon DEF Live, Open
<1>6. AgentShape'
  BY <1>0, <1>4, <1>5 DEF CInv, AgentShape
<1>7. LinkInv'
  BY <1>0, <1>5, Zenon DEF CInv, LinkInv, AgentGone
<1> QED BY <1>6, <1>7 DEF CInv

LEMMA JtiSet ==
  ASSUME NEW h, IsHs(h), NEW x
  PROVE  LET k == [h EXCEPT !.jti = x] IN IsHs(k) /\ k.step = h.step
BY DEF IsHs

LEMMA OldSet ==
  ASSUME NEW h, IsHs(h), NEW x
  PROVE  LET k == [h EXCEPT !.old = x] IN IsHs(k) /\ k.step = h.step
BY DEF IsHs

CheckedHs(h, x, y) == [h EXCEPT !.step = "checked", !.jti = x, !.old = y]

LEMMA CheckedSet ==
  ASSUME NEW h, IsHs(h), NEW x, NEW y
  PROVE  LET k == CheckedHs(h, x, y) IN IsHs(k) /\ k.step = "checked"
<1> DEFINE f == [h EXCEPT !.step = "checked"]
<1>1. IsHs(f) /\ f.step = "checked"
  BY StepSet
<1>2. CheckedHs(h, x, y) = [f EXCEPT !.jti = x, !.old = y]
  BY Zenon DEF CheckedHs
<1> HIDE DEF f
<1> DEFINE g == [f EXCEPT !.jti = x]
<1>3. IsHs(g) /\ g.step = "checked"
  BY <1>1, JtiSet
<1>4. [f EXCEPT !.jti = x, !.old = y] = [g EXCEPT !.old = y]
  OBVIOUS
<1> HIDE DEF g
<1>5. LET k == [g EXCEPT !.old = y] IN IsHs(k) /\ k.step = "checked"
  BY <1>3, OldSet
<1> QED BY <1>2, <1>4, <1>5, Zenon

LEMMA AcceptedStep ==
  ASSUME CInv, NEW c \in Conn, C!Accepted(c), agent' \in C!AgentRec \cup {Absent}, AgentGone' => AgentGone
  PROVE  CInv'
<1>0. UNCHANGED <<stored, conn, adm>> /\ \A d \in Conn : IsHs(hs[d])
  BY DEF CInv, AgentShape, C!Accepted
<1> DEFINE h == [C!Off EXCEPT !.step = "checked", !.jti = m.mem.jti, !.old = C!UsesPrevious(m.mem)]
<1>1. hs' = [d \in Conn |-> IF d = c THEN h
               ELSE IF d = conn /\ C!IsReplaced(m.mem) THEN [hs[d] EXCEPT !.sock = "closed"] ELSE hs[d]]
  BY DEF C!Accepted
<1>2. IsHs(h) /\ h.step = "checked"
  <2>1. h = CheckedHs(C!Off, m.mem.jti, C!UsesPrevious(m.mem))
    BY Zenon DEF CheckedHs
  <2> HIDE DEF h
  <2> QED BY <2>1, CheckedSet, OffIsEnded, Zenon
<1> HIDE DEF h
<1>3. \A d \in Conn : LET k == [hs[d] EXCEPT !.sock = "closed"] IN IsHs(k) /\ k.sock = "closed"
  BY <1>0, SockSet
<1>4. hs' = [d \in Conn |-> hs'[d]] /\ \A d \in Conn :
        hs'[d] = h \/ hs'[d] = [hs[d] EXCEPT !.sock = "closed"] \/ hs'[d] = hs[d]
  BY <1>1
<1>5. \A d \in Conn : IsHs(hs'[d]) /\ (Live(hs'[d]) => Live(hs[d])) /\ (Open(hs'[d]) => Open(hs[d]))
  BY <1>0, <1>2, <1>3, <1>4, Zenon DEF Live, Open
<1>6. AgentShape'
  BY <1>0, <1>4, <1>5 DEF CInv, AgentShape
<1>7. LinkInv'
  BY <1>0, <1>5, Zenon DEF CInv, LinkInv
<1> QED BY <1>6, <1>7 DEF CInv

-----------------------------------------------------------------------------
(* The administrator *)

\* The decision: what is gone from now on is not yet closed.
LEMMA DecisionStep ==
  ASSUME CInv, agent' \in C!AgentRec \cup {Absent},
         C!RevokeAgent \/ C!BlacklistPrev \/ C!DeleteAgent \/ \E op \in {"revoke", "delete"} : C!ReadAgent(op)
  PROVE  CInv'
<1>0. UNCHANGED <<stored, hs, conn>>
  BY DEF C!RevokeAgent, C!BlacklistPrev, C!DeleteAgent, C!ReadAgent, C!UnchangedByAdmin
<1>1. IsAdm(adm') /\ (adm'.step \in {"idle", "revoke"} => agent' = agent /\ adm.step \in {"idle", "revoke"})
  <2>0. IsAdm(adm)
    BY DEF CInv, AgentShape
  <2>1. IsAdm(C!IdleAdm) /\ C!IdleAdm.step = "idle"
    BY Zenon DEF IsAdm, C!IdleAdm
  <2>2. \A x : C!AdmStep(x) => IsAdm(adm') /\ adm'.step = x
    BY <2>0, AdmSet DEF C!AdmStep
  <2>3. CASE C!RevokeAgent
    BY <2>1, <2>2, <2>3 DEF C!RevokeAgent, C!AdmEnds, C!AfterRevoke
  <2>4. CASE C!BlacklistPrev
    BY <2>2, <2>4, SMTT(30) DEF C!BlacklistPrev
  <2>5. CASE C!DeleteAgent
    BY <2>2, <2>5 DEF C!DeleteAgent
  <2>6. ASSUME NEW op, C!ReadAgent(op)
        PROVE  IsAdm(adm') /\ agent' = agent /\ adm.step = "idle"
    BY <2>1, <2>6, Zenon DEF C!ReadAgent, IsAdm
  <2> QED BY <2>3, <2>4, <2>5, <2>6
<1>2. AgentShape'
  BY <1>0, <1>1, Zenon DEF CInv, AgentShape
<1>3. LinkInv'
  BY <1>0, <1>1, Zenon DEF CInv, LinkInv, AgentGone
<1> QED BY <1>2, <1>3 DEF CInv

\* The close: the one live handler is the registered one.
LEMMA CloseStep == ASSUME C!Distinct, CInv, C!CloseLink PROVE CInv'
<1>0. UNCHANGED <<agent, stored>> /\ conn' = Absent /\ \A d \in Conn : IsHs(hs[d])
  BY DEF CInv, AgentShape, C!CloseLink, C!CloseAgent, C!UnchangedByAdmin
<1>1. IsAdm(adm')
  <2>1. IsAdm(adm) /\ IsAdm(C!IdleAdm)
    BY Zenon DEF CInv, AgentShape, IsAdm, C!IdleAdm
  <2> QED BY <2>1, AdmSet DEF C!CloseLink, C!AdmStep, C!AdmEnds
<1>2. hs' = [d \in Conn |-> hs'[d]] /\ \A d \in Conn : IsHs(hs'[d]) /\ ~Live(hs'[d])
  <2>1. CASE conn = Absent
    <3>1. hs' = hs
      BY <2>1 DEF C!CloseLink, C!CloseAgent
    <3> QED BY <2>1, <3>1, Zenon DEF C!Distinct, CInv, AgentShape, LinkInv
  <2>2. CASE conn # Absent
    <3>0. PICK x : hs' = [hs EXCEPT ![conn].code = x, ![conn].sock = "closed"]
      <4> DEFINE code == IF adm.op = "delete" /\ adm.step # "failed" THEN 4000 ELSE 4001
      <4>0. C!CloseAgent(code)
        BY DEF C!CloseLink
      <4> HIDE DEF code
      <4> DEFINE y == IF hs[conn].sock = "up" THEN code ELSE 0
      <4>1. hs' = [hs EXCEPT ![conn].code = y, ![conn].sock = "closed"]
        BY <2>2, <4>0 DEF C!CloseAgent
      <4> HIDE DEF y
      <4> QED BY <4>1, Zenon
    <3>1. hs' = [hs EXCEPT ![conn] = CodeHs(hs[conn], x, "closed")]
      <4>1. hs = [d \in Conn |-> hs[d]] /\ conn \in Conn
        BY <2>2 DEF CInv, AgentShape
      <4>2. hs' = [d \in Conn |-> IF d = conn THEN CodeHs(hs[conn], x, "closed") ELSE hs[d]]
        BY <3>0, <4>1, Zenon DEF CodeHs
      <4> QED BY <4>1, <4>2
    <3> DEFINE h == CodeHs(hs[conn], x, "closed")
    <3>2. conn \in Conn
      BY <2>2 DEF CInv, AgentShape
    <3>3. IsHs(h) /\ h.sock = "closed"
      BY <1>0, <3>2, CodeSet, SMTT(30)
    <3> HIDE DEF h
    <3>4. hs' = [d \in Conn |-> hs'[d]] /\ \A d \in Conn : hs'[d] = IF d = conn THEN h ELSE hs[d]
      BY <3>1, Zenon DEF CInv, AgentShape, h
    <3> QED BY <1>0, <3>3, <3>4, Zenon DEF CInv, LinkInv, Live
  <2> QED BY <2>1, <2>2
<1>3. AgentShape'
  BY <1>0, <1>1, <1>2, Zenon DEF CInv, AgentShape
<1>4. LinkInv'
  BY <1>2 DEF LinkInv, Live, Open
<1> QED BY <1>3, <1>4 DEF CInv

LEMMA RestartStep == ASSUME CInv, C!Restart, agent' \in C!AgentRec \cup {Absent} PROVE CInv'
<1>1. AgentShape'
  BY OffIsEnded, Zenon DEF CInv, AgentShape, C!Restart, IsAdm, C!IdleAdm
<1>2. LinkInv'
  BY OffIsEnded, Zenon DEF LinkInv, C!Restart
<1> QED BY <1>1, <1>2 DEF CInv

\* No step of the other programs revokes or deletes.
LEMMA AgentLives ==
  ASSUME C!Distinct, AgentShape,
         \/ \E r \in Req : C!EnrollAgent(r)
         \/ \E k \in C!Caller : C!StoreRekey(k)
         \/ \E c \in Conn : C!Accepted(c)
         \/ \E b \in BOOLEAN : C!SetSuspended(b)
  PROVE  AgentGone' => AgentGone
<1> USE DEF C!Distinct
<1>0. agent \in C!AgentRec \cup {Absent} /\ stored \in Nat /\ stored + 1 \in Nat /\ 0 \in Nat
  BY DEF AgentShape
<1>1. ASSUME NEW a \in C!AgentRec, agent' = a, a.revoked => AgentGone PROVE AgentGone' => AgentGone
  BY <1>1 DEF AgentGone
<1>2. ASSUME NEW r \in Req, C!EnrollAgent(r) PROVE AgentGone' => AgentGone
  <2>1. C!Enrolled(stored + 1) \in C!AgentRec /\ C!Enrolled(stored + 1).revoked = FALSE
    BY <1>0, Zenon DEF C!Enrolled, C!AgentRec
  <2> QED BY <1>1, <1>2, <2>1 DEF C!EnrollAgent
<1>3. ASSUME NEW k \in C!Caller, C!StoreRekey(k) PROVE AgentGone' => AgentGone
  <2>1. CASE agent' = agent
    BY <2>1 DEF AgentGone
  <2>2. CASE agent # Absent /\ agent' = C!Replaced(stored + 1)
    <3>1. agent \in C!AgentRec /\ agent.jti \in Nat
      BY <1>0, <2>2 DEF C!AgentRec
    <3>2. C!Replaced(stored + 1) \in C!AgentRec /\ C!Replaced(stored + 1).revoked = agent.revoked
      BY <1>0, <3>1, ReplacedFacts, Zenon
    <3> QED BY <1>1, <2>2, <3>2, Zenon DEF AgentGone
  <2> QED BY <1>3, <2>1, <2>2 DEF C!StoreRekey, C!Renewable
<1>4. ASSUME NEW c \in Conn, C!Accepted(c) PROVE AgentGone' => AgentGone
  <2>1. CASE agent' = agent
    BY <2>1 DEF AgentGone
  <2>2. CASE agent # Absent /\ agent' = C!Confirmed
    <3>1. agent \in C!AgentRec
      BY <1>0, <2>2
    <3>2. C!Confirmed \in C!AgentRec /\ C!Confirmed.revoked = agent.revoked
      BY <1>0, <3>1, ConfirmedTyped, Zenon DEF C!Confirmed
    <3> QED BY <1>1, <2>2, <3>2, Zenon DEF AgentGone
  <2> QED BY <1>4, <2>1, <2>2, Zenon DEF C!Accepted, C!IsCurrent, C!Known
<1>5. ASSUME NEW b \in BOOLEAN, C!SetSuspended(b) PROVE AgentGone' => AgentGone
  <2>1. agent \in C!AgentRec /\ agent' = C!Suspended(b)
    BY <1>0, <1>5, Zenon DEF C!SetSuspended
  <2>2. C!Suspended(b) \in C!AgentRec /\ C!Suspended(b).revoked = agent.revoked
    BY <2>1, SuspendedTyped DEF C!Suspended
  <2> QED BY <1>1, <2>1, <2>2, Zenon DEF AgentGone
<1> QED BY <1>2, <1>3, <1>4, <1>5

-----------------------------------------------------------------------------
(* The theorems *)

LEMMA NextHolds == ASSUME C!Distinct PROVE CInv /\ [C!Next]_(C!vars) => CInv'
<1> SUFFICES ASSUME CInv, [C!Next]_(C!vars) PROVE CInv'
  OBVIOUS
<1>0. agent' \in C!AgentRec \cup {Absent} /\ stored' \in Nat
  BY AgentCareful, Zenon DEF CInv, AgentShape, Careful
<1>q. ASSUME UNCHANGED <<agent, hs, conn, adm>> PROVE CInv'
  BY <1>0, <1>q, QuietStep DEF AgentGone
<1>1. CASE C!MinionStep
  <2>1. ASSUME NEW c \in Conn, C!Accepted(c) PROVE CInv'
    BY <1>0, <2>1, AgentLives, AcceptedStep DEF CInv
  <2>2. CASE C!MinionNotices \/ C!DialLost \/ C!HandleRekey
    BY <2>2, LinkStep
  <2>3. CASE C!Boot \/ C!Verify \/ C!Refused \/ C!PersistRetry \/ \E r \in Req : C!Challenge(r)
    BY <1>q, <2>3, Zenon DEF C!Boot, C!Verify, C!Refused, C!PersistRetry, C!Challenge, C!state, C!server
  <2> QED BY <1>1, <2>1, <2>2, <2>3 DEF C!MinionStep
<1>2. CASE C!ServerStep
  <2>1. ASSUME NEW c \in Conn, C!Register(c) \/ C!Replay(c) \/ C!ReaderEnds(c) \/ C!UpgradeFails(c) PROVE CInv'
    BY <2>1, RegisterStep, ReplayStep, ReaderEndsStep, LinkStep, Zenon
  <2>2. ASSUME NEW c \in Conn, C!RenewalDue(c) PROVE CInv'
    BY <1>q, <2>2, Zenon DEF C!RenewalDue, C!UnchangedByRekey
  <2>3. ASSUME NEW k \in C!Caller, C!BeginRekey(k) \/ C!StoreRekey(k) \/ C!SendRekey(k) PROVE CInv'
    <3>1. CASE C!BeginRekey(k)
      BY <1>q, <3>1 DEF C!BeginRekey, C!UnchangedByRekey
    <3>2. CASE C!StoreRekey(k)
      <4>1. AgentGone' => AgentGone
        BY <3>2, AgentLives DEF CInv
      <4>2. UNCHANGED <<hs, conn, adm>>
        BY <3>2 DEF C!StoreRekey, C!UnchangedByRekey
      <4> QED BY <1>0, <4>1, <4>2, QuietStep
    <3> QED BY <2>3, <3>1, <3>2, LinkStep
  <2>4. ASSUME NEW r \in Req, C!Consume(r) \/ C!EnrollAgent(r) \/ C!EnrolRefused(r) PROVE CInv'
    <3>1. CASE C!Consume(r) \/ C!EnrolRefused(r)
      BY <1>q, <3>1 DEF C!Consume, C!EnrolRefused, C!UnchangedByEnrol, C!state
    <3>2. CASE C!EnrollAgent(r)
      <4>1. AgentGone' => AgentGone
        BY <3>2, AgentLives DEF CInv
      <4>2. UNCHANGED <<hs, conn, adm>>
        BY <3>2 DEF C!EnrollAgent, C!UnchangedByEnrol
      <4> QED BY <1>0, <4>1, <4>2, QuietStep
    <3> QED BY <2>4, <3>1, <3>2
  <2>5. CASE C!RevokeAgent \/ C!BlacklistPrev \/ C!DeleteAgent
    BY <1>0, <2>5, DecisionStep
  <2>6. CASE C!CloseLink
    BY <2>6, CloseStep
  <2>7. CASE C!PersistKeys \/ C!RekeyConnected
    BY <1>q, <2>7 DEF C!PersistKeys, C!RekeyConnected, C!state
  <2> QED BY <1>2, <2>1, <2>2, <2>3, <2>4, <2>5, <2>6, <2>7, Zenon DEF C!ServerStep, C!Handlers
<1>3. CASE C!Environment
  <2>1. CASE C!MinionCrash \/ \E c \in Conn : C!Cut(c)
    BY <2>1, LinkStep
  <2>2. CASE C!Restart
    BY <1>0, <2>2, RestartStep
  <2>3. CASE \E op \in {"revoke", "delete"} : C!ReadAgent(op)
    BY <1>0, <2>3, DecisionStep
  <2>4. ASSUME NEW b \in BOOLEAN, C!SetSuspended(b) PROVE CInv'
    <3>1. AgentGone' => AgentGone
      BY <2>4, AgentLives DEF CInv
    <3>2. UNCHANGED <<hs, conn, adm>>
      BY <2>4 DEF C!SetSuspended, C!server
    <3> QED BY <1>0, <3>1, <3>2, QuietStep
  <2>5. CASE C!GiveUp \/ C!NonceExpires \/ C!DialCut \/ C!GraceEnds \/ C!Rotate
    BY <1>q, <2>5 DEF C!GiveUp, C!NonceExpires, C!DialCut, C!GraceEnds, C!Rotate, C!state, C!server
  <2>6. CASE C!TokenExpires \/ C!DeleteToken \/ C!PurgeTokens \/ C!PurgeBlacklist
    BY <1>q, <2>6 DEF C!TokenExpires, C!DeleteToken, C!PurgeTokens, C!PurgeBlacklist, C!UnchangedByToken, C!server
  <2> QED BY <1>3, <2>1, <2>2, <2>3, <2>4, <2>5, <2>6 DEF C!Environment
<1>4. CASE UNCHANGED C!vars
  BY <1>q, <1>4, Zenon DEF C!vars, C!state, C!server
<1> QED BY <1>1, <1>2, <1>3, <1>4 DEF C!Next

LEMMA Invariance == ASSUME C!Distinct PROVE C!Spec => []CInv
<1>1. C!Init => CInv
  BY InitHolds
<1>2. CInv /\ [C!Next]_(C!vars) => CInv'
  BY NextHolds
<1> QED BY <1>1, <1>2, PTL DEF C!Spec

\* For any connections, attempts and bounds: once AdminRevokeMinion, AdminDeleteMinion or a restart is
\* through, a revoked or deleted host has no open link, whatever handshake, rekey or enrolment raced
\* it (handlers/admin.go; ws/handler.go RegisterConnection, replayRevokedCheck, CloseAgent).
THEOREM GoneHasNoLink == ASSUME C!Distinct PROVE C!Spec => []C!RevokedHasNoLink
<1>1. CInv => C!RevokedHasNoLink
  <2>1. C!IdleAdm.step = "idle"
    BY DEF C!IdleAdm
  <2> QED BY <2>1, Zenon DEF CInv, LinkInv, C!RevokedHasNoLink, AgentGone, Open
<1> QED BY <1>1, Invariance, PTL

\* For any connections, attempts and bounds: EnrollAgent, UpdateTokenJTIUnlessRevoked, ConfirmTokenJTI
\* and RepairRevokedFlags (storage/store.go) keep a revocation with its JTI and a suspension.
THEOREM DecisionsKept == ASSUME C!Distinct PROVE C!Spec => C!AdminDecisionsKept
<1>1. CInv /\ [C!Next]_(C!vars) =>
        [agent # Absent =>
           /\ agent.revoked => agent' = Absent \/ (agent'.revoked /\ agent'.jti = agent.jti)
           /\ agent.suspended => agent' = Absent \/ agent'.suspended \/ C!SetSuspended(FALSE)]_(C!vars)
  BY AgentCareful, Zenon DEF CInv, Careful
<1> QED BY <1>1, Invariance, PTL DEF C!Spec, C!AdminDecisionsKept

-----------------------------------------------------------------------------
(* A lost rekey *)

\* The agent has the last JTI stored, and the one it replaced is kept until the new one is used.
RekeyInv ==
    /\ used \in Nat
    /\ agent # Absent =>
         /\ agent.jti = stored
         /\ agent.by = "rekey" /\ used < agent.jti => agent.prev = agent.jti - 1

LEMMA RekeyStep == ASSUME AgentShape, RekeyInv, [C!Next]_(C!vars) PROVE RekeyInv'
<1>0. agent \in C!AgentRec \cup {Absent} /\ stored \in Nat /\ stored + 1 \in Nat /\ used \in Nat
  BY DEF AgentShape, RekeyInv
<1>r. agent # Absent => agent.jti = stored /\ (agent.by = "rekey" /\ used < agent.jti => agent.prev = agent.jti - 1)
  BY DEF RekeyInv
<1>1. CASE UNCHANGED <<agent, stored, used>>
  BY <1>1 DEF RekeyInv
<1>2. CASE agent' = Absent /\ UNCHANGED <<stored, used>>
  BY <1>0, <1>2 DEF RekeyInv
<1>3. CASE agent' = C!Enrolled(stored + 1) /\ stored' = stored + 1 /\ used' = used
  <2>1. agent'.jti = stored + 1 /\ agent'.by = "enrol"
    BY <1>3, Zenon DEF C!Enrolled
  <2> QED BY <1>0, <1>3, <2>1, Zenon DEF RekeyInv
<1>4. CASE C!Renewable /\ agent' = C!Replaced(stored + 1) /\ stored' = stored + 1 /\ used' = used
  <2>1. agent \in C!AgentRec /\ agent.jti = stored
    BY <1>0, <1>4, <1>r DEF C!Renewable
  <2>2. C!Replaced(stored + 1).jti = stored + 1 /\ C!Replaced(stored + 1).prev = agent.jti
    BY <1>0, <2>1, ReplacedFacts, Zenon
  <2>3. (stored + 1) - 1 = stored
    BY <1>0
  <2> QED BY <1>0, <1>4, <2>1, <2>2, <2>3, Zenon DEF RekeyInv
<1>5. CASE agent # Absent /\ agent' = Flagged /\ UNCHANGED <<stored, used>>
  <2>1. Flagged.jti = agent.jti /\ Flagged.prev = agent.prev /\ Flagged.by = agent.by
    BY <1>0, <1>5, RevokedTyped, Zenon DEF Flagged
  <2> QED BY <1>0, <1>5, <1>r, <2>1, Zenon DEF RekeyInv
<1>6. ASSUME NEW b \in BOOLEAN, C!SetSuspended(b) PROVE RekeyInv'
  <2>1. agent \in C!AgentRec /\ agent # Absent /\ agent' = [agent EXCEPT !.suspended = b] /\ UNCHANGED <<stored, used>>
    BY <1>0, <1>6 DEF C!SetSuspended, C!Suspended
  <2>2. agent'.jti = agent.jti /\ agent'.prev = agent.prev /\ agent'.by = agent.by
    BY <2>1, SuspendedTyped
  <2> QED BY <1>0, <1>r, <2>1, <2>2 DEF RekeyInv
<1>7. ASSUME NEW c \in Conn, C!Accepted(c) PROVE RekeyInv'
  <2> DEFINE j == m.mem.jti
  <2>1. /\ stored' = stored /\ used' = IF j > used THEN j ELSE used
        /\ agent # Absent
        /\ (agent.jti = j /\ agent' = C!Confirmed) \/ (agent.jti # j /\ agent.prev = j /\ agent' = agent)
    BY <1>7 DEF C!Accepted, C!IsCurrent, C!IsReplaced, C!Known
  <2> HIDE DEF j
  <2>2. agent \in C!AgentRec /\ agent.jti \in Nat /\ agent.prev \in Nat /\ agent.jti = stored
    BY <1>0, <1>r, <2>1, Zenon DEF C!AgentRec
  <2>3. CASE agent.jti = j /\ agent' = C!Confirmed
    <3>1. C!Confirmed.jti = agent.jti
      BY <2>2, ConfirmedTyped, Zenon DEF C!Confirmed
    <3>2. used' \in Nat /\ ~(used' < j)
      BY <1>0, <2>1, <2>2, <2>3, SMTT(30)
    <3> QED BY <2>1, <2>2, <2>3, <3>1, <3>2, Zenon DEF RekeyInv
  <2>4. CASE agent.prev = j /\ agent' = agent
    <3>1. used' \in Nat /\ used <= used'
      BY <1>0, <2>1, <2>2, <2>4, SMTT(30)
    <3>2. used' < agent.jti => used < agent.jti
      BY <1>0, <2>2, <3>1
    <3> QED BY <1>r, <2>1, <2>4, <3>1, <3>2, Zenon DEF RekeyInv
  <2> QED BY <2>1, <2>3, <2>4
<1>8. StoreStep
  BY StoreSteps
<1> QED BY <1>1, <1>2, <1>3, <1>4, <1>5, <1>6, <1>7, <1>8, Zenon DEF StoreStep

\* For any connections, attempts and bounds: the handshake knows the JTI that a rekey replaced until the minion
\* uses the new one, so a rekey lost with its socket, a restart or a crash costs nothing
\* (storage/store.go UpdateTokenJTIUnlessRevoked, ConfirmTokenJTI; agentJTICheck).
THEOREM LostRekeyHarmless == ASSUME C!Distinct PROVE C!Spec => []C!LostRekeyTolerated
<1>1. C!Init => RekeyInv
  BY SMTT(30) DEF C!Init, RekeyInv
<1>2. AgentShape /\ RekeyInv /\ [C!Next]_(C!vars) => RekeyInv'
  BY RekeyStep
<1>3. CInv => AgentShape
  BY DEF CInv
<1>4. RekeyInv => C!LostRekeyTolerated
  BY Zenon DEF RekeyInv, C!LostRekeyTolerated
<1> QED BY <1>1, <1>2, <1>3, <1>4, Invariance, PTL DEF C!Spec
=============================================================================
