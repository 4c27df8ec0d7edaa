------------------------- MODULE MinionTasksProofs -------------------------
(***************************************************************************)
(* For any tasks, connections and limits: the semaphore of a connection    *)
(* counts the goroutines that hold it, and a cancel message is never lost. *)
(*                                                                         *)
(* Neither is inductive.  A slot is given back once because a goroutine    *)
(* starts once, and it starts once because the wire holds one message of   *)
(* its task while the task is only sent.  A cancel finds its task because  *)
(* the wire keeps the order: the message of the task comes first.          *)
(***************************************************************************)
EXTENDS MinionTasks, FiniteSetTheorems, TLAPS

Steps == {"none", "sent", "accepted", "acked", "running", "waited", "reported", "ended"}
Live  == {"accepted", "acked", "running", "waited", "reported"}
Message == [type : {"exec", "file", "cancel"}, task : Task]

\* Where the goroutines are: a task that was sent has a connection, a transfer has two steps, and a
\* goroutine that holds a slot is registered.
JobInv ==
    /\ \A t \in Task : job[t].step # "none" => job[t].conn \in 1..MaxConn
    /\ \A t \in Task : job[t].file => job[t].step \in {"sent", "accepted"}
    /\ \A t \in Task : job[t].step \in Live /\ ~job[t].file => t \in tasks
    /\ \A t \in asked : job[t].step \notin {"none", "sent"}

\* The wire: a task only sent has its one message there, on the open connection, and its cancel
\* messages behind it.
WireInv ==
    /\ cur = 0 => wire = <<>>
    /\ \A t \in Task : job[t].step = "sent" =>
          \E i \in 1..Len(wire) : wire[i].task = t /\ wire[i].type # "cancel"
    /\ \A i \in 1..Len(wire) : wire[i].type # "cancel" =>
          /\ job[wire[i].task].step = "sent" /\ job[wire[i].task].conn = cur
          /\ job[wire[i].task].file = (wire[i].type = "file")
    /\ \A i, j \in 1..Len(wire) :
          wire[i].task = wire[j].task /\ wire[i].type # "cancel" => i <= j
    /\ \A i \in 1..Len(wire) : job[wire[i].task].step # "none"
    /\ \A i \in 1..Len(wire) : wire[i].type = "cancel" =>
          wire[i].task \in Cancellable /\ ~job[wire[i].task].file

JobType ==
    [conn : 0..MaxConn, file : BOOLEAN, cause : {"none", "deadline", "cancel"}, step : Steps,
     proc : {"none", "run", "term", "gone"}, exit : {0, 1, 15},
     buf : 0..(Limit + Slack), short : BOOLEAN, rc : {0, 1, -1, -15}, trunc : BOOLEAN]

\* The inductive invariant of the minion's tables (ws/dispatcher.go serve).
MInv == TypeOK /\ JobInv /\ WireInv /\ SlotsExact /\ CancelNotLost

LEMMA InitHolds == Init => MInv
<1> SUFFICES ASSUME Init PROVE MInv
  OBVIOUS
<1> USE MinionAssumption
<1>1. TypeOK
  BY DEF Init, TypeOK, NoJob
<1>2. JobInv /\ WireInv /\ CancelNotLost
  BY DEF Init, JobInv, WireInv, CancelNotLost, NoJob, Live
<1>3. ASSUME NEW c \in 1..MaxConn PROVE Holding(c) = {}
  BY DEF Init, Holding, NoJob
<1>4. SlotsExact
  BY <1>3, FS_EmptySet, Zenon DEF Init, SlotsExact
<1> QED BY <1>1, <1>2, <1>4 DEF MInv

-----------------------------------------------------------------------------
(* Steps of one goroutine *)

LEMMA HoldingFinite == \A c : IsFiniteSet(Holding(c))
BY MinionAssumption, FS_Subset DEF Holding

LEMMA WireTyped ==
  ASSUME wire \in Seq(Message), NEW i \in 1..Len(wire)
  PROVE  wire[i] \in Message /\ wire[i].task \in Task /\ wire[i].type \in {"exec", "file", "cancel"}
<1>1. wire[i] \in Message
  OBVIOUS
<1> QED BY <1>1 DEF Message

\* A step that leaves the wire, and the tasks only sent, alone.
LEMMA WireSame ==
  ASSUME WireInv, UNCHANGED <<cur, wire>>, \A i \in 1..Len(wire) : wire[i].task \in Task,
         \A s \in Task : /\ job'[s].step = "sent" <=> job[s].step = "sent"
                         /\ job[s].step = "sent" => job'[s].conn = job[s].conn /\ job'[s].file = job[s].file
                         /\ job[s].step # "none" => job'[s].step # "none"
                         /\ job'[s].file => job[s].file
  PROVE  WireInv'
<1>1. \A t \in Task : job'[t].step = "sent" =>
        \E i \in 1..Len(wire) : wire[i].task = t /\ wire[i].type # "cancel"
  BY DEF WireInv
<1>2. ASSUME NEW i \in 1..Len(wire), wire[i].type # "cancel"
      PROVE  /\ job'[wire[i].task].step = "sent" /\ job'[wire[i].task].conn = cur
             /\ job'[wire[i].task].file = (wire[i].type = "file")
  <2>1. /\ job[wire[i].task].step = "sent" /\ job[wire[i].task].conn = cur
        /\ job[wire[i].task].file = (wire[i].type = "file")
    BY <1>2 DEF WireInv
  <2> QED BY <2>1
<1>3. \A i \in 1..Len(wire) : job'[wire[i].task].step # "none"
  BY DEF WireInv
<1>4. \A i \in 1..Len(wire) : wire[i].type = "cancel" =>
        wire[i].task \in Cancellable /\ ~job'[wire[i].task].file
  BY DEF WireInv
<1>5. /\ cur = 0 => wire = <<>>
      /\ \A i, j \in 1..Len(wire) : wire[i].task = wire[j].task /\ wire[i].type # "cancel" => i <= j
  BY DEF WireInv
<1> QED BY <1>1, <1>2, <1>3, <1>4, <1>5 DEF WireInv

\* A step that leaves a task with its connection and with, or without, its slot.
LEMMA QuietStep ==
  ASSUME MInv, NEW t \in Task, NEW j \in JobType,
         j.conn = job[t].conn, j.file = job[t].file,
         j.step = job[t].step \/ (job[t].step \in Live /\ j.step \in Live /\ ~j.file),
         t \in asked /\ j.step \in {"accepted", "acked", "running"} => j.cause # "none",
         job' = [job EXCEPT ![t] = j], answers' \subseteq Task,
         UNCHANGED <<cur, opened, wire, sem, tasks, asked>>
  PROVE  MInv'
<1> USE MinionAssumption
<1>0. /\ job \in [Task -> JobType] /\ wire \in Seq(Message)
      /\ \A s \in Task : s # t => job'[s] = job[s]
      /\ job'[t] = j
  BY DEF MInv, TypeOK, JobType, Steps, Message
<1>1. TypeOK'
  BY <1>0 DEF MInv, TypeOK, JobType, Steps
<1>3. \A s \in Task : /\ job'[s].step = "sent" <=> job[s].step = "sent"
                      /\ job'[s].step = "none" <=> job[s].step = "none"
                      /\ job'[s].conn = job[s].conn /\ job'[s].file = job[s].file
  BY <1>0 DEF Live
<1>2. JobInv'
  <2>1. \A s \in Task : job'[s].step # "none" => job'[s].conn \in 1..MaxConn
    BY <1>3 DEF MInv, JobInv
  <2>2. \A s \in Task : job'[s].file => job'[s].step \in {"sent", "accepted"}
    BY <1>0, <1>3 DEF MInv, JobInv
  <2>3. \A s \in Task : job'[s].step \in Live /\ ~job'[s].file => s \in tasks'
    BY <1>0, <1>3 DEF MInv, JobInv
  <2>4. asked \subseteq Task
    BY DEF MInv, TypeOK
  <2>5. \A s \in asked' : job'[s].step \notin {"none", "sent"}
    BY <1>3, <2>4 DEF MInv, JobInv
  <2> QED BY <2>1, <2>2, <2>3, <2>5 DEF JobInv
<1>4. \A i \in 1..Len(wire) : wire[i].task \in Task
  BY WireTyped, <1>0
<1>5. WireInv'
  BY <1>3, <1>4, WireSame DEF MInv
<1>6. \A c : Holding(c)' = Holding(c)
  BY <1>0 DEF Holding, Live
<1>7. SlotsExact'
  BY <1>6 DEF MInv, SlotsExact
<1>8. CancelNotLost'
  BY <1>0 DEF MInv, CancelNotLost, TypeOK
<1> QED BY <1>1, <1>2, <1>5, <1>7, <1>8 DEF MInv

-----------------------------------------------------------------------------
(* The wire *)

LEMMA TailFacts ==
  ASSUME wire \in Seq(Message), wire # <<>>, wire' = Tail(wire)
  PROVE  /\ wire' \in Seq(Message) /\ Len(wire') = Len(wire) - 1 /\ Len(wire) \in Nat \ {0}
         /\ \A i \in 1..Len(wire') : wire'[i] = wire[i + 1] /\ i + 1 \in 1..Len(wire)
         /\ Head(wire) = wire[1] /\ 1 \in 1..Len(wire)
OBVIOUS

LEMMA AppendFacts ==
  ASSUME wire \in Seq(Message), NEW m \in Message, wire' = Append(wire, m)
  PROVE  /\ wire' \in Seq(Message) /\ Len(wire') = Len(wire) + 1 /\ Len(wire) \in Nat
         /\ \A i \in 1..Len(wire) : wire'[i] = wire[i]
         /\ wire'[Len(wire) + 1] = m
OBVIOUS

\* Reading the head keeps the order of the rest, if it takes its task out of "sent".
LEMMA ReadKeepsWire ==
  ASSUME MInv, wire # <<>>, wire' = Tail(wire), cur' = cur,
         job \in [Task -> JobType], wire \in Seq(Message),
         \A s \in Task : s # Head(wire).task => job'[s] = job[s],
         Head(wire).type # "cancel" =>
            LET t == Head(wire).task
            IN  job'[t].step \notin {"none", "sent"} /\ (job'[t].file => job[t].file),
         Head(wire).type = "cancel" =>
            LET t == Head(wire).task
            IN  job'[t].step = job[t].step /\ job'[t].conn = job[t].conn /\ job'[t].file = job[t].file
  PROVE  WireInv'
<1> DEFINE t == Head(wire).task
<1>1. /\ Len(wire') = Len(wire) - 1 /\ Len(wire) \in Nat \ {0}
      /\ \A i \in 1..Len(wire') : wire'[i] = wire[i + 1] /\ i + 1 \in 1..Len(wire)
      /\ Head(wire) = wire[1] /\ 1 \in 1..Len(wire)
  BY TailFacts
<1>2. \A i \in 1..Len(wire) : wire[i].task \in Task
  BY WireTyped
<1>3. WireInv
  BY DEF MInv
<1>4. cur' # 0
  BY <1>3 DEF WireInv
<1>5. ASSUME NEW s \in Task, job'[s].step = "sent"
      PROVE  \E i \in 1..Len(wire') : wire'[i].task = s /\ wire'[i].type # "cancel"
  <2>1. job[s].step = "sent" /\ (s = t => Head(wire).type = "cancel")
    BY <1>5
  <2>2. PICK i \in 1..Len(wire) : wire[i].task = s /\ wire[i].type # "cancel"
    BY <2>1, <1>3 DEF WireInv
  <2>3. i # 1
    BY <2>1, <2>2, <1>1
  <2>4. i - 1 \in 1..Len(wire') /\ wire'[i - 1] = wire[i]
    BY <2>3, <1>1
  <2> QED BY <2>2, <2>4, Zenon
<1>6. ASSUME NEW i \in 1..Len(wire'), wire'[i].type # "cancel"
      PROVE  /\ job'[wire'[i].task].step = "sent" /\ job'[wire'[i].task].conn = cur'
             /\ job'[wire'[i].task].file = (wire'[i].type = "file")
  <2>1. wire'[i] = wire[i + 1] /\ i + 1 \in 1..Len(wire) /\ i \in Nat \ {0}
    BY <1>1
  <2>0. \A k, l \in 1..Len(wire) : wire[k].task = wire[l].task /\ wire[k].type # "cancel" => k <= l
    BY <1>3 DEF WireInv
  <2>2. wire[i + 1].task # t
    BY <2>0, <2>1, <1>1, <1>6
  <2>3. job'[wire[i + 1].task] = job[wire[i + 1].task]
    BY <2>1, <2>2, <1>2
  <2>4. /\ job[wire[i + 1].task].step = "sent" /\ job[wire[i + 1].task].conn = cur
        /\ job[wire[i + 1].task].file = (wire[i + 1].type = "file")
    <3>1. \A k \in 1..Len(wire) : wire[k].type # "cancel" =>
            /\ job[wire[k].task].step = "sent" /\ job[wire[k].task].conn = cur
            /\ job[wire[k].task].file = (wire[k].type = "file")
      BY <1>3, Zenon DEF WireInv
    <3> QED BY <2>1, <3>1, <1>6
  <2> QED BY <2>1, <2>3, <2>4, Zenon
<1>7. ASSUME NEW i \in 1..Len(wire'), NEW j \in 1..Len(wire'),
             wire'[i].task = wire'[j].task, wire'[i].type # "cancel"
      PROVE  i <= j
  <2>1. i + 1 <= j + 1
    BY <1>1, <1>3, <1>7 DEF WireInv
  <2> QED BY <2>1, <1>1
<1>8. ASSUME NEW i \in 1..Len(wire') PROVE job'[wire'[i].task].step # "none"
  <2>1. wire'[i] = wire[i + 1] /\ i + 1 \in 1..Len(wire)
    BY <1>1
  <2>2. CASE wire[i + 1].task # t
    BY <2>1, <2>2, <1>2, <1>3, SMTT(30) DEF WireInv
  <2>3. CASE wire[i + 1].task = t
    BY <2>1, <2>3, <1>3, SMTT(30) DEF WireInv
  <2> QED BY <2>2, <2>3
<1>9. ASSUME NEW i \in 1..Len(wire'), wire'[i].type = "cancel"
      PROVE  wire'[i].task \in Cancellable /\ ~job'[wire'[i].task].file
  <2>1. wire'[i] = wire[i + 1] /\ i + 1 \in 1..Len(wire)
    BY <1>1
  <2>2. wire[i + 1].task \in Cancellable /\ ~job[wire[i + 1].task].file
    BY <2>1, <1>3, <1>9, SMTT(30) DEF WireInv
  <2>3. job'[wire[i + 1].task].file => job[wire[i + 1].task].file
    BY <2>1, <1>2
  <2> QED BY <2>1, <2>2, <2>3
<1> QED BY <1>4, <1>5, <1>6, <1>7, <1>8, <1>9, Zenon DEF WireInv

-----------------------------------------------------------------------------
(* Sending *)

LEMMA SentTyped ==
  ASSUME NEW j \in JobType, NEW c \in 0..MaxConn, NEW b \in BOOLEAN
  PROVE  [j EXCEPT !.step = "sent", !.conn = c, !.file = b] \in JobType
BY Zenon DEF JobType, Steps

LEMMA SendTaskStep ==
  ASSUME MInv, NEW t \in Task, NEW type \in {"exec", "file"}, SendTask(t, type)
  PROVE  MInv'
<1> USE MinionAssumption
<1> DEFINE m == [type |-> type, task |-> t]
<1>0. /\ job \in [Task -> JobType] /\ wire \in Seq(Message) /\ m \in Message /\ cur \in 1..MaxConn
      /\ wire' = Append(wire, m) /\ job[t].step = "none" /\ asked \subseteq Task
      /\ UNCHANGED <<cur, opened, sem, tasks, asked, answers>>
  BY SMTT(30) DEF MInv, TypeOK, JobType, Steps, Message, SendTask
<1>1. /\ job' \in [Task -> JobType]
      /\ \A s \in Task : s # t => job'[s] = job[s]
      /\ job'[t].step = "sent" /\ job'[t].conn = cur /\ job'[t].file = (type = "file")
  <2> DEFINE j == [job[t] EXCEPT !.step = "sent", !.conn = cur, !.file = (type = "file")]
  <2>1. job' = [job EXCEPT ![t] = j]
    BY <1>0, Zenon DEF SendTask
  <2>2. (type = "file") \in BOOLEAN
    OBVIOUS
  <2>3. ASSUME NEW b \in BOOLEAN, NEW k, k = [job[t] EXCEPT !.step = "sent", !.conn = cur, !.file = b]
        PROVE  k \in JobType /\ k.step = "sent" /\ k.conn = cur /\ k.file = b
    <3>1. job[t] \in JobType
      BY <1>0
    <3>2. k.step = "sent" /\ k.conn = cur
      BY <3>1, <2>3 DEF JobType
    <3>3. k.file = b
      BY <3>1, <2>3 DEF JobType
    <3>4. cur \in 0..MaxConn
      BY <1>0
    <3>5. k \in JobType
      BY <3>1, <3>4, <2>3, SentTyped, Zenon
    <3> QED BY <3>2, <3>3, <3>5
  <2>4. j \in JobType /\ j.step = "sent" /\ j.conn = cur /\ j.file = (type = "file")
    BY <2>2, <2>3, Zenon
  <2> HIDE DEF j
  <2> QED BY <1>0, <2>1, <2>4
<1>2. /\ wire' \in Seq(Message) /\ Len(wire') = Len(wire) + 1 /\ Len(wire) \in Nat
      /\ \A i \in 1..Len(wire) : wire'[i] = wire[i]
      /\ wire'[Len(wire) + 1] = m
  BY <1>0, AppendFacts
<1>3. TypeOK'
  BY <1>0, <1>1, <1>2, Zenon DEF MInv, TypeOK, JobType, Steps, Message
<1>4. t \notin asked
  BY <1>0 DEF MInv, JobInv
<1>5. JobInv'
  BY <1>0, <1>1, <1>4, Zenon DEF MInv, JobInv, Live
<1>6. WireInv'
  <2>0. \A i \in 1..Len(wire) : job[wire[i].task].step # "none"
    BY DEF MInv, WireInv
  <2>1. \A i \in 1..Len(wire) : wire[i].task \in Task /\ wire[i].task # t
    BY <1>0, <2>0, WireTyped
  <2>2. \A i \in 1..Len(wire') : \/ i \in 1..Len(wire) /\ wire'[i] = wire[i]
                                 \/ i = Len(wire) + 1 /\ wire'[i] = m
    BY <1>2
  <2>3. \A s \in Task : job'[s].step = "sent" =>
          \E i \in 1..Len(wire') : wire'[i].task = s /\ wire'[i].type # "cancel"
    <3>1. \A s \in Task : job[s].step = "sent" =>
            \E i \in 1..Len(wire) : wire[i].task = s /\ wire[i].type # "cancel"
      BY DEF MInv, WireInv
    <3>2. m.task = t /\ m.type # "cancel" /\ Len(wire) + 1 \in 1..Len(wire')
      BY <1>2
    <3>3. \A i \in 1..Len(wire) : i \in 1..Len(wire') /\ wire'[i] = wire[i]
      BY <1>2
    <3> HIDE DEF m
    <3> QED BY <1>1, <1>2, <3>1, <3>2, <3>3
  <2>4. \A i \in 1..Len(wire') : wire'[i].type # "cancel" =>
          /\ job'[wire'[i].task].step = "sent" /\ job'[wire'[i].task].conn = cur'
          /\ job'[wire'[i].task].file = (wire'[i].type = "file")
    <3> SUFFICES ASSUME NEW i \in 1..Len(wire'), wire'[i].type # "cancel"
                 PROVE  /\ job'[wire'[i].task].step = "sent" /\ job'[wire'[i].task].conn = cur'
                        /\ job'[wire'[i].task].file = (wire'[i].type = "file")
      OBVIOUS
    <3>1. CASE i \in 1..Len(wire) /\ wire'[i] = wire[i]
      <4>1. /\ job[wire[i].task].step = "sent" /\ job[wire[i].task].conn = cur
            /\ job[wire[i].task].file = (wire[i].type = "file")
        BY <3>1 DEF MInv, WireInv
      <4>2. job'[wire[i].task] = job[wire[i].task]
        BY <1>1, <2>1, <3>1
      <4> QED BY <1>0, <3>1, <4>1, <4>2, Zenon
    <3>2. CASE wire'[i] = m
      BY <1>0, <1>1, <3>2
    <3> QED BY <2>2, <3>1, <3>2, Zenon
  <2>5. \A i, j \in 1..Len(wire') :
          wire'[i].task = wire'[j].task /\ wire'[i].type # "cancel" => i <= j
    <3>1. \A i, j \in 1..Len(wire) : wire[i].task = wire[j].task /\ wire[i].type # "cancel" => i <= j
      BY DEF MInv, WireInv
    <3>2. m.task = t
      OBVIOUS
    <3> HIDE DEF m
    <3> QED BY <1>2, <2>1, <2>2, <3>1, <3>2
  <2>6. \A i \in 1..Len(wire') : job'[wire'[i].task].step # "none"
    <3>1. m.task = t /\ job'[t].step # "none"
      BY <1>1
    <3> HIDE DEF m
    <3> QED BY <1>1, <2>0, <2>1, <2>2, <3>1
  <2>7. \A i \in 1..Len(wire') : wire'[i].type = "cancel" =>
          wire'[i].task \in Cancellable /\ ~job'[wire'[i].task].file
    <3>1. \A i \in 1..Len(wire) : wire[i].type = "cancel" =>
            wire[i].task \in Cancellable /\ ~job[wire[i].task].file
      BY DEF MInv, WireInv
    <3>2. m.type # "cancel"
      OBVIOUS
    <3> HIDE DEF m
    <3> QED BY <1>1, <2>1, <2>2, <3>1, <3>2
  <2>8. cur' # 0
    BY <1>0
  <2> HIDE DEF m
  <2> QED BY <2>3, <2>4, <2>5, <2>6, <2>7, <2>8 DEF WireInv
<1>7. \A c : Holding(c)' = Holding(c)
  BY <1>0, <1>1 DEF Holding
<1>8. SlotsExact' /\ CancelNotLost'
  BY <1>0, <1>1, <1>4, <1>7 DEF MInv, SlotsExact, CancelNotLost
<1> QED BY <1>3, <1>5, <1>6, <1>8 DEF MInv

LEMMA SendCancelStep ==
  ASSUME MInv, NEW t \in Cancellable, SendCancel(t)
  PROVE  MInv'
<1> USE MinionAssumption
<1> DEFINE m == [type |-> "cancel", task |-> t]
<1>0. /\ wire \in Seq(Message) /\ m \in Message /\ wire' = Append(wire, m)
      /\ job[t].step # "none" /\ ~job[t].file /\ cur # 0
      /\ UNCHANGED <<cur, opened, sem, tasks, job, asked, answers>>
  BY DEF MInv, TypeOK, Message, SendCancel
<1>2. /\ wire' \in Seq(Message) /\ Len(wire') = Len(wire) + 1 /\ Len(wire) \in Nat
      /\ \A i \in 1..Len(wire) : wire'[i] = wire[i]
      /\ wire'[Len(wire) + 1] = m
  BY <1>0, AppendFacts
<1>3. TypeOK'
  BY <1>0, <1>2, Zenon DEF MInv, TypeOK, Message
<1>4. JobInv' /\ SlotsExact' /\ CancelNotLost'
  BY <1>0, Zenon DEF MInv, JobInv, SlotsExact, CancelNotLost, Holding
<1>5. WireInv'
  <2>2. \A i \in 1..Len(wire') : \/ i \in 1..Len(wire) /\ wire'[i] = wire[i]
                                 \/ i = Len(wire) + 1 /\ wire'[i] = m
    BY <1>2
  <2>1. m.type = "cancel" /\ m.task = t
    OBVIOUS
  <2>0. WireInv
    BY DEF MInv
  <2> HIDE DEF m
  <2>3. \A s \in Task : job'[s].step = "sent" =>
          \E i \in 1..Len(wire') : wire'[i].task = s /\ wire'[i].type # "cancel"
    <3>1. \A i \in 1..Len(wire) : i \in 1..Len(wire') /\ wire'[i] = wire[i]
      BY <1>2
    <3> QED BY <1>0, <2>0, <3>1 DEF WireInv
  <2>4. \A i \in 1..Len(wire') : wire'[i].type # "cancel" =>
          /\ job'[wire'[i].task].step = "sent" /\ job'[wire'[i].task].conn = cur'
          /\ job'[wire'[i].task].file = (wire'[i].type = "file")
    BY <1>0, <2>0, <2>1, <2>2, SMTT(30) DEF WireInv
  <2>5. \A i, j \in 1..Len(wire') :
          wire'[i].task = wire'[j].task /\ wire'[i].type # "cancel" => i <= j
    <3>1. \A i, j \in 1..Len(wire) : wire[i].task = wire[j].task /\ wire[i].type # "cancel" => i <= j
      BY <2>0 DEF WireInv
    <3> QED BY <1>2, <2>1, <2>2, <3>1
  <2>6. \A i \in 1..Len(wire') : job'[wire'[i].task].step # "none"
    BY <1>0, <2>0, <2>1, <2>2, SMTT(30) DEF WireInv
  <2>7. \A i \in 1..Len(wire') : wire'[i].type = "cancel" =>
          wire'[i].task \in Cancellable /\ ~job'[wire'[i].task].file
    BY <1>0, <2>0, <2>1, <2>2, SMTT(30) DEF WireInv
  <2> QED BY <1>0, <2>3, <2>4, <2>5, <2>6, <2>7, Zenon DEF WireInv
<1> QED BY <1>3, <1>4, <1>5 DEF MInv

-----------------------------------------------------------------------------
(* Ends of tasks and the read loop *)

LEMMA GoneTyped ==
  ASSUME NEW j \in JobType
  PROVE  /\ Gone(j) \in JobType /\ Gone(j).conn = j.conn /\ Gone(j).step = "ended"
         /\ Gone(j).file = FALSE /\ Gone(j).cause = "none"
<1>1. NoJob \in JobType /\ NoJob.file = FALSE /\ NoJob.cause = "none"
  <2>1. 0 \in 0..MaxConn /\ 0 \in 0..(Limit + Slack)
    BY MinionAssumption
  <2> QED BY <2>1 DEF NoJob, JobType, Steps
<1>2. ASSUME NEW n \in JobType, NEW c \in 0..MaxConn
      PROVE  [n EXCEPT !.conn = c, !.step = "ended"] \in JobType
  BY Zenon DEF JobType, Steps
<1>3. ASSUME NEW n \in JobType, NEW c \in 0..MaxConn
      PROVE  /\ [n EXCEPT !.conn = c, !.step = "ended"].conn = c
             /\ [n EXCEPT !.conn = c, !.step = "ended"].step = "ended"
             /\ [n EXCEPT !.conn = c, !.step = "ended"].file = n.file
             /\ [n EXCEPT !.conn = c, !.step = "ended"].cause = n.cause
  BY DEF JobType
<1>4. j.conn \in 0..MaxConn
  BY DEF JobType
<1>6. Gone(j) \in JobType
  BY <1>1, <1>2, <1>4, Zenon DEF Gone
<1>7. /\ Gone(j).conn = j.conn /\ Gone(j).step = "ended"
      /\ Gone(j).file = NoJob.file /\ Gone(j).cause = NoJob.cause
  BY <1>1, <1>3, <1>4, Zenon DEF Gone
<1> QED BY <1>1, <1>6, <1>7

\* A task that holds no slot ends, or ends being sent: its message leaves the wire with it.
LEMMA EndWithoutSlot ==
  ASSUME MInv, NEW t \in Task, job[t].step = "sent" \/ job[t].file, job[t].step \in {"sent", "accepted"},
         job' = [job EXCEPT ![t] = Gone(@)], answers' \subseteq Task, WireInv', wire' \in Seq(Message),
         UNCHANGED <<cur, opened, sem, tasks, asked>>
  PROVE  MInv'
<1> USE MinionAssumption
<1>0. job \in [Task -> JobType] /\ asked \subseteq Task
  BY DEF MInv, TypeOK, JobType, Steps
<1>1. /\ job' \in [Task -> JobType]
      /\ \A s \in Task : s # t => job'[s] = job[s]
      /\ job'[t].conn = job[t].conn /\ job'[t].step = "ended" /\ job'[t].file = FALSE
  BY <1>0, GoneTyped, Zenon
<1>2. TypeOK'
  BY <1>0, <1>1 DEF MInv, TypeOK, JobType, Steps, Message
<1>3. JobInv'
  BY <1>0, <1>1 DEF MInv, JobInv, Live
<1>4. \A c : Holding(c)' = Holding(c)
  BY <1>0, <1>1 DEF Holding
<1>5. SlotsExact' /\ CancelNotLost'
  BY <1>0, <1>1, <1>4 DEF MInv, SlotsExact, CancelNotLost
<1> QED BY <1>2, <1>3, <1>5 DEF MInv

LEMMA WireKept ==
  ASSUME MInv, NEW t \in Task, UNCHANGED <<cur, wire>>, wire \in Seq(Message),
         \A s \in Task : s # t => job'[s] = job[s],
         job[t].step \notin {"none", "sent"}, job'[t].step \notin {"none", "sent"},
         job'[t].file => job[t].file
  PROVE  WireInv'
<1>1. \A i \in 1..Len(wire) : wire[i].task \in Task
  BY WireTyped
<1> QED BY <1>1, WireSame DEF MInv

LEMMA TransferStep == ASSUME MInv, NEW t \in Task, TransferFile(t) PROVE MInv'
<1> USE MinionAssumption
<1>0. /\ job \in [Task -> JobType] /\ wire \in Seq(Message)
      /\ job' = [job EXCEPT ![t] = Gone(@)] /\ job[t].step = "accepted"
      /\ UNCHANGED <<cur, opened, wire, sem, tasks, asked>>
  BY DEF MInv, TypeOK, JobType, Steps, Message, TransferFile
<1>1. /\ \A s \in Task : s # t => job'[s] = job[s]
      /\ job'[t].step = "ended" /\ ~job'[t].file
  BY <1>0, GoneTyped, Zenon
<1>2. WireInv'
  BY <1>0, <1>1, WireKept
<1>3. answers' \subseteq Task
  BY DEF MInv, TypeOK, TransferFile, Answered
<1> QED BY <1>0, <1>2, <1>3, EndWithoutSlot, Zenon DEF TransferFile

LEMMA ReleaseStep == ASSUME MInv, NEW t \in Task, Release(t) PROVE MInv'
<1> USE MinionAssumption
<1> DEFINE k == job[t].conn
<1>0. /\ job \in [Task -> JobType] /\ wire \in Seq(Message) /\ asked \subseteq Task
      /\ sem \in [1..MaxConn -> 0..MaxConcurrent]
      /\ job' = [job EXCEPT ![t] = Gone(@)] /\ job[t].step = "reported"
      /\ sem' = [sem EXCEPT ![k] = @ - 1] /\ tasks' = tasks \ {t}
      /\ UNCHANGED <<cur, opened, wire, asked, answers>>
  BY DEF MInv, TypeOK, JobType, Steps, Message, Release, FreeSlot
<1>1. k \in 1..MaxConn /\ ~job[t].file
  BY <1>0 DEF MInv, JobInv
<1>2. /\ job' \in [Task -> JobType]
      /\ \A s \in Task : s # t => job'[s] = job[s]
      /\ job'[t].conn = k /\ job'[t].step = "ended" /\ job'[t].file = FALSE
  BY <1>0, GoneTyped, Zenon
<1>4. WireInv'
  BY <1>0, <1>2, WireKept
<1>5. JobInv'
  <2>1. \A s \in Task : job'[s].step # "none" => job'[s].conn \in 1..MaxConn
    BY <1>1, <1>2 DEF MInv, JobInv
  <2>2. \A s \in Task : job'[s].file => job'[s].step \in {"sent", "accepted"}
    BY <1>2 DEF MInv, JobInv
  <2>3. \A s \in Task : job'[s].step \in Live /\ ~job'[s].file => s \in tasks'
    BY <1>0, <1>2 DEF MInv, JobInv, Live
  <2>4. \A s \in asked' : job'[s].step \notin {"none", "sent"}
    BY <1>0, <1>2 DEF MInv, JobInv
  <2> QED BY <2>1, <2>2, <2>3, <2>4 DEF JobInv
<1>6. CancelNotLost'
  BY <1>0, <1>2 DEF MInv, CancelNotLost
<1>7. ASSUME NEW c \in 1..MaxConn
      PROVE  /\ c = k => t \in Holding(c) /\ Holding(c)' = Holding(c) \ {t}
             /\ c # k => Holding(c)' = Holding(c)
  BY <1>0, <1>1, <1>2, Zenon DEF Holding
<1>8. ASSUME NEW c \in 1..MaxConn
      PROVE  /\ sem'[c] = Cardinality(Holding(c)')
             /\ sem'[c] \in 0..MaxConcurrent
  <2>1. sem[c] = Cardinality(Holding(c)) /\ sem[c] \in 0..MaxConcurrent
    BY <1>0 DEF MInv, SlotsExact
  <2>2. sem'[c] = IF c = k THEN sem[c] - 1 ELSE sem[c]
    BY <1>0, <1>1
  <2>3. CASE c = k
    <3>1. /\ IsFiniteSet(Holding(c) \ {t})
          /\ Cardinality(Holding(c) \ {t}) = Cardinality(Holding(c)) - 1
      BY <1>7, <2>3, HoldingFinite, FS_RemoveElement, Zenon
    <3>2. Cardinality(Holding(c) \ {t}) \in Nat
      BY <3>1, FS_CardinalityType
    <3>3. Holding(c)' = Holding(c) \ {t}
      BY <1>7, <2>3
    <3>4. sem'[c] = sem[c] - 1
      BY <2>2, <2>3
    <3>5. sem'[c] = Cardinality(Holding(c)')
      BY <2>1, <3>1, <3>3, <3>4
    <3> QED BY <2>1, <3>1, <3>2, <3>4, <3>5
  <2>4. CASE c # k
    BY <1>7, <2>1, <2>2, <2>4
  <2> QED BY <2>3, <2>4
<1>11. SlotsExact'
  BY <1>8 DEF SlotsExact
<1>12. sem' \in [1..MaxConn -> 0..MaxConcurrent]
  BY <1>0, <1>8, Zenon
<1>13. TypeOK'
  BY <1>0, <1>2, <1>12, Zenon DEF MInv, TypeOK, JobType, Steps
<1> QED BY <1>4, <1>5, <1>6, <1>11, <1>13 DEF MInv

\* The head of the wire, when it is the message of a task.
LEMMA HeadIsSent ==
  ASSUME MInv, wire # <<>>, Head(wire).type # "cancel"
  PROVE  LET t == Head(wire).task
         IN  /\ t \in Task /\ job[t].step = "sent" /\ job[t].conn = cur /\ cur \in 1..MaxConn
             /\ job[t].file = (Head(wire).type = "file") /\ t \notin asked
<1> USE MinionAssumption
<1>0. wire \in Seq(Message)
  BY DEF MInv, TypeOK, Message
<1>1. Head(wire) = wire[1] /\ 1 \in 1..Len(wire)
  BY <1>0
<1>2. wire[1].task \in Task
  BY <1>0, <1>1, WireTyped
<1>3. cur \in 1..MaxConn
  BY DEF MInv, TypeOK, WireInv
<1>4. /\ job[wire[1].task].step = "sent" /\ job[wire[1].task].conn = cur
      /\ job[wire[1].task].file = (wire[1].type = "file")
  BY <1>1, Zenon DEF MInv, WireInv
<1>5. wire[1].task \notin asked
  BY <1>2, <1>4 DEF MInv, JobInv
<1> QED BY <1>1, <1>2, <1>3, <1>4, <1>5, Zenon

LEMMA StepTyped ==
  ASSUME NEW j \in JobType, NEW s \in Steps
  PROVE  /\ [j EXCEPT !.step = s] \in JobType /\ [j EXCEPT !.step = s].step = s
         /\ [j EXCEPT !.step = s].conn = j.conn /\ [j EXCEPT !.step = s].file = j.file
         /\ [j EXCEPT !.step = s].cause = j.cause
BY DEF JobType

LEMMA AcceptedJob ==
  ASSUME NEW t \in Task, job \in [Task -> JobType], job' = [job EXCEPT ![t].step = "accepted"]
  PROVE  /\ job' \in [Task -> JobType]
         /\ \A s \in Task : s # t => job'[s] = job[s]
         /\ job'[t].conn = job[t].conn /\ job'[t].step = "accepted" /\ job'[t].file = job[t].file
<1> DEFINE j == [job[t] EXCEPT !.step = "accepted"]
<1>1. job[t] \in JobType /\ "accepted" \in Steps
  BY DEF Steps
<1>2. j \in JobType /\ j.conn = job[t].conn /\ j.step = "accepted" /\ j.file = job[t].file
  BY <1>1, StepTyped, Zenon
<1>3. job' = [job EXCEPT ![t] = j]
  OBVIOUS
<1> HIDE DEF j
<1> QED BY <1>2, <1>3

LEMMA ReadFileStep == ASSUME MInv, ReadFile PROVE MInv'
<1> USE MinionAssumption
<1> DEFINE t == Head(wire).task
<1>0. /\ job \in [Task -> JobType] /\ wire \in Seq(Message) /\ asked \subseteq Task
      /\ wire # <<>> /\ Head(wire).type = "file" /\ wire' = Tail(wire)
      /\ job' = [job EXCEPT ![t].step = "accepted"]
      /\ UNCHANGED <<cur, opened, sem, tasks, asked, answers>>
  BY Zenon DEF MInv, TypeOK, JobType, Steps, Message, ReadFile, Read
<1>1. t \in Task /\ job[t].step = "sent" /\ job[t].file /\ t \notin asked
  BY <1>0, HeadIsSent, Zenon
<1> HIDE DEF t
<1>2. /\ job' \in [Task -> JobType]
      /\ \A s \in Task : s # t => job'[s] = job[s]
      /\ job'[t].conn = job[t].conn /\ job'[t].step = "accepted" /\ job'[t].file = job[t].file
  BY <1>0, <1>1, AcceptedJob, Zenon
<1>3. wire' \in Seq(Message)
  BY <1>0, TailFacts
<1>4. WireInv'
  BY <1>0, <1>2, ReadKeepsWire DEF t
<1>5. TypeOK'
  BY <1>0, <1>2, <1>3, Zenon DEF MInv, TypeOK, JobType, Steps, Message
<1>6. JobInv'
  BY <1>0, <1>1, <1>2 DEF MInv, JobInv, Live
<1>7. \A c : Holding(c)' = Holding(c)
  BY <1>0, <1>1, <1>2 DEF Holding
<1>8. SlotsExact' /\ CancelNotLost'
  BY <1>0, <1>1, <1>2, <1>7 DEF MInv, SlotsExact, CancelNotLost
<1> QED BY <1>4, <1>5, <1>6, <1>8 DEF MInv

LEMMA ReadExecStep == ASSUME MInv, ReadExec PROVE MInv'
<1> USE MinionAssumption
<1> DEFINE t == Head(wire).task
<1>0. /\ job \in [Task -> JobType] /\ wire \in Seq(Message) /\ asked \subseteq Task /\ tasks \subseteq Task
      /\ sem \in [1..MaxConn -> 0..MaxConcurrent]
      /\ wire # <<>> /\ Head(wire).type = "exec" /\ wire' = Tail(wire)
      /\ UNCHANGED <<cur, opened, asked>>
  BY Zenon DEF MInv, TypeOK, JobType, Steps, Message, ReadExec, Read
<1>1. t \in Task /\ job[t].step = "sent" /\ ~job[t].file /\ t \notin asked /\ job[t].conn = cur /\ cur \in 1..MaxConn
  BY <1>0, HeadIsSent, Zenon
<1>2. wire' \in Seq(Message)
  BY <1>0, TailFacts
<1>3. CASE HasSlot
  <2>0. /\ job' = [job EXCEPT ![t].step = "accepted"] /\ tasks' = tasks \cup {t}
        /\ sem' = [sem EXCEPT ![cur] = @ + 1] /\ answers' = answers
    BY <1>3 DEF ReadExec, Registered
  <2>a. sem[cur] < MaxConcurrent
    BY <1>3 DEF HasSlot
  <2> HIDE DEF t
  <2>2. /\ job' \in [Task -> JobType]
        /\ \A s \in Task : s # t => job'[s] = job[s]
        /\ job'[t].conn = cur /\ job'[t].step = "accepted" /\ ~job'[t].file
    BY <1>0, <1>1, <2>0, AcceptedJob, Zenon
  <2>3. WireInv'
    BY <1>0, <2>2, ReadKeepsWire, Zenon DEF t
  <2>4. JobInv'
    BY <1>0, <1>1, <2>0, <2>2 DEF MInv, JobInv, Live
  <2>5. CancelNotLost'
    BY <1>0, <1>1, <2>2 DEF MInv, CancelNotLost
  <2>6. ASSUME NEW c \in 1..MaxConn
        PROVE  /\ c = cur => t \notin Holding(c) /\ Holding(c)' = Holding(c) \cup {t}
               /\ c # cur => Holding(c)' = Holding(c)
    BY <1>0, <1>1, <2>2, Zenon DEF Holding
  <2>7. ASSUME NEW c \in 1..MaxConn
        PROVE  /\ sem'[c] = Cardinality(Holding(c)')
               /\ sem'[c] \in 0..MaxConcurrent
    <3>1. sem[c] = Cardinality(Holding(c)) /\ sem[c] \in 0..MaxConcurrent
      BY <1>0 DEF MInv, SlotsExact
    <3>2. CASE c = cur
      <4>1. sem'[c] = sem[c] + 1
        BY <1>0, <1>1, <2>0, <3>2
      <4>2. Holding(c)' = Holding(c) \cup {t} /\ t \notin Holding(c)
        BY <2>6, <3>2
      <4>3. Cardinality(Holding(c) \cup {t}) = Cardinality(Holding(c)) + 1
        BY <4>2, HoldingFinite, FS_AddElement, Zenon
      <4>4. sem'[c] = Cardinality(Holding(c)')
        BY <3>1, <4>1, <4>2, <4>3
      <4> QED BY <2>a, <3>1, <3>2, <4>1, <4>4
    <3>3. CASE c # cur
      <4>1. sem'[c] = sem[c]
        BY <1>0, <1>1, <2>0, <3>3
      <4> QED BY <2>6, <3>1, <3>3, <4>1
    <3> QED BY <3>2, <3>3
  <2>8. SlotsExact'
    BY <2>7 DEF SlotsExact
  <2>9. sem' \in [1..MaxConn -> 0..MaxConcurrent]
    BY <1>0, <2>0, <2>7, Zenon
  <2>10. TypeOK'
    <3>1. tasks' \subseteq Task
      BY <1>0, <1>1, <2>0
    <3> QED BY <1>0, <1>2, <2>0, <2>2, <2>9, <3>1, Zenon DEF MInv, TypeOK, JobType, Steps, Message
  <2> QED BY <2>3, <2>4, <2>5, <2>8, <2>10 DEF MInv
<1>4. CASE ~HasSlot
  <2>1. job' = [job EXCEPT ![t] = Gone(@)] /\ UNCHANGED <<sem, tasks>> /\ answers' = Answered(t)
    BY <1>4 DEF ReadExec
  <2>2. answers' \subseteq Task
    BY <1>1, <2>1, Zenon DEF MInv, TypeOK, Answered
  <2>3. (\A s \in Task : s # t => job'[s] = job[s]) /\ job'[t].step = "ended" /\ ~job'[t].file
    BY <1>0, <1>1, <2>1, GoneTyped, Zenon
  <2>4. WireInv'
    BY <1>0, <2>3, ReadKeepsWire, Zenon
  <2> QED BY <1>0, <1>1, <1>2, <2>1, <2>2, <2>4, EndWithoutSlot, Zenon
<1> QED BY <1>3, <1>4

LEMMA CancelledTyped ==
  ASSUME NEW j \in JobType, NEW why \in {"deadline", "cancel"}
  PROVE  /\ Cancelled(j, why) \in JobType /\ Cancelled(j, why).step = j.step
         /\ Cancelled(j, why).conn = j.conn /\ Cancelled(j, why).file = j.file
         /\ Cancelled(j, why).cause # "none"
<1> DEFINE c == IF j.cause = "none" THEN why ELSE j.cause
<1>1. c \in {"none", "deadline", "cancel"} /\ c # "none"
  BY DEF JobType
<1>2. Cancelled(j, why) = [j EXCEPT !.cause = c]
  BY DEF Cancelled
<1> HIDE DEF c
<1>3. [j EXCEPT !.cause = c] \in JobType
  BY <1>1 DEF JobType
<1>4. /\ [j EXCEPT !.cause = c].cause = c /\ [j EXCEPT !.cause = c].step = j.step
      /\ [j EXCEPT !.cause = c].conn = j.conn /\ [j EXCEPT !.cause = c].file = j.file
  BY DEF JobType
<1> QED BY <1>1, <1>2, <1>3, <1>4

LEMMA ReadCancelStep == ASSUME MInv, ReadCancel PROVE MInv'
<1> USE MinionAssumption
<1> DEFINE t == Head(wire).task
<1>0. /\ job \in [Task -> JobType] /\ wire \in Seq(Message) /\ asked \subseteq Cancellable
      /\ wire # <<>> /\ Head(wire).type = "cancel" /\ wire' = Tail(wire)
      /\ asked' = asked \cup {t}
      /\ UNCHANGED <<cur, opened, sem, tasks, answers>>
  BY DEF MInv, TypeOK, JobType, Steps, Message, ReadCancel, Read
<1>1. Head(wire) = wire[1] /\ 1 \in 1..Len(wire) /\ Len(wire) \in Nat
  BY <1>0
<1>2. t \in Cancellable /\ t \in Task /\ job[t].step # "none" /\ ~job[t].file
  BY <1>0, <1>1, Zenon DEF MInv, WireInv
<1>3. job[t].step # "sent"
  <2> SUFFICES ASSUME job[t].step = "sent" PROVE FALSE
    OBVIOUS
  <2>1. PICK i \in 1..Len(wire) : wire[i].task = t /\ wire[i].type # "cancel"
    BY <1>2, Zenon DEF MInv, WireInv
  <2>2. i <= 1
    BY <1>1, <2>1, Zenon DEF MInv, WireInv
  <2> QED BY <1>0, <1>1, <2>1, <2>2
<1>4. job' = IF t \in tasks THEN [job EXCEPT ![t] = Cancelled(@, "cancel")] ELSE job
  BY DEF ReadCancel
<1> HIDE DEF t
<1>5. /\ job' \in [Task -> JobType]
      /\ \A s \in Task : s # t => job'[s] = job[s]
      /\ job'[t].conn = job[t].conn /\ job'[t].step = job[t].step /\ job'[t].file = job[t].file
      /\ t \in tasks => job'[t].cause # "none"
  <2>1. CASE t \in tasks
    BY <1>0, <1>2, <1>4, <2>1, CancelledTyped
  <2>2. CASE t \notin tasks
    BY <1>0, <1>2, <1>4, <2>2
  <2> QED BY <2>1, <2>2
<1>6. WireInv'
  BY <1>0, <1>5, ReadKeepsWire, Zenon DEF t
<1>7. wire' \in Seq(Message)
  BY <1>0, TailFacts
<1>8. TypeOK'
  BY <1>0, <1>2, <1>5, <1>7, Zenon DEF MInv, TypeOK, JobType, Steps, Message
<1>9. JobInv'
  <2>0. JobInv
    BY DEF MInv
  <2>1. \A s \in Task : /\ job'[s].conn = job[s].conn /\ job'[s].step = job[s].step
                        /\ job'[s].file = job[s].file
    BY <1>5
  <2>2. \A s \in asked' : job'[s].step \notin {"none", "sent"}
    <3>1. t \in Task /\ asked \subseteq Task
      BY <1>0, <1>2 DEF MInv, TypeOK
    <3>2. \A s \in asked : job[s].step \notin {"none", "sent"}
      BY <2>0 DEF JobInv
    <3> QED BY <1>0, <1>2, <1>3, <2>1, <3>1, <3>2, Zenon
  <2>3. tasks' = tasks
    BY <1>0
  <2> QED BY <2>0, <2>1, <2>2, <2>3, Zenon DEF JobInv
<1>10. \A c : Holding(c)' = Holding(c)
  BY <1>5 DEF Holding
<1>11. SlotsExact'
  BY <1>0, <1>10 DEF MInv, SlotsExact
<1>12. CancelNotLost'
  BY <1>0, <1>2, <1>5 DEF MInv, CancelNotLost, JobInv, Live
<1> QED BY <1>6, <1>8, <1>9, <1>11, <1>12 DEF MInv

-----------------------------------------------------------------------------
(* Connections *)

LEMMA ConnectStep == ASSUME MInv, Connect PROVE MInv'
<1> USE MinionAssumption
<1>1. wire = <<>> /\ wire' = <<>> /\ UNCHANGED <<sem, tasks, job, asked, answers>>
  BY Zenon DEF MInv, WireInv, Connect
<1>2. TypeOK'
  BY DEF MInv, TypeOK, Connect
<1>3. WireInv'
  <2>1. \A t \in Task : job[t].step # "sent"
    BY <1>1 DEF MInv, WireInv
  <2>2. 1..Len(wire') = {}
    BY <1>1
  <2> QED BY <1>1, <2>1, <2>2, Zenon DEF WireInv
<1>4. JobInv' /\ SlotsExact' /\ CancelNotLost'
  BY <1>1, Zenon DEF MInv, JobInv, SlotsExact, CancelNotLost, Holding
<1> QED BY <1>2, <1>3, <1>4 DEF MInv

LEMMA DisconnectStep == ASSUME MInv, Disconnect PROVE MInv'
<1> USE MinionAssumption
<1>0. /\ job \in [Task -> JobType] /\ wire \in Seq(Message) /\ asked \subseteq Task
      /\ UNCHANGED <<opened, sem, tasks, asked, answers>> /\ wire' = <<>> /\ cur' = 0
  BY DEF MInv, TypeOK, JobType, Steps, Message, Disconnect
<1>1. ASSUME NEW s \in Task
      PROVE  /\ job'[s] \in JobType /\ job'[s].conn = job[s].conn
             /\ \/ job'[s] = job[s]
                \/ job[s].step \in {"sent", "ended"} /\ job'[s].step = "ended" /\ ~job'[s].file
                \/ /\ job[s].step \notin {"sent", "ended"} /\ job'[s].step = job[s].step
                   /\ job'[s].file = job[s].file /\ job'[s].cause # "none"
             /\ job[s].conn = cur /\ job[s].step = "sent" => job'[s].step = "ended"
  <2>1. job[s] \in JobType
    BY <1>0
  <2>2. job'[s] = IF job[s].conn # cur THEN job[s]
                  ELSE IF job[s].step \in {"sent", "ended"} THEN Gone(job[s])
                  ELSE Cancelled(job[s], "cancel")
    BY DEF Disconnect
  <2>3. CASE job[s].conn # cur
    BY <2>1, <2>2, <2>3, Zenon
  <2>4. CASE job[s].conn = cur /\ job[s].step \in {"sent", "ended"}
    <3>1. job'[s] = Gone(job[s])
      BY <2>2, <2>4
    <3>2. Gone(job[s]) \in JobType /\ Gone(job[s]).conn = job[s].conn
      BY <2>1, GoneTyped, Zenon
    <3>3. Gone(job[s]).step = "ended" /\ Gone(job[s]).file = FALSE
      BY <2>1, GoneTyped, Zenon
    <3> QED BY <2>4, <3>1, <3>2, <3>3, Zenon
  <2>5. CASE job[s].conn = cur /\ job[s].step \notin {"sent", "ended"}
    <3>1. job'[s] = Cancelled(job[s], "cancel")
      BY <2>2, <2>5
    <3> QED BY <2>1, <2>5, <3>1, CancelledTyped, Zenon
  <2> QED BY <2>3, <2>4, <2>5, Zenon
<1>2. job' \in [Task -> JobType]
  <2>1. job' = [s \in Task |-> job'[s]]
    BY DEF Disconnect
  <2> QED BY <1>1, <2>1
<1>3. \A s \in Task : job'[s].step # "sent"
  <2> SUFFICES ASSUME NEW s \in Task, job[s].step = "sent" PROVE job'[s].step = "ended"
    BY <1>1
  <2>1. PICK i \in 1..Len(wire) : wire[i].task = s /\ wire[i].type # "cancel"
    BY Zenon DEF MInv, WireInv
  <2>2. job[s].conn = cur
    BY <2>1, Zenon DEF MInv, WireInv
  <2> QED BY <1>1, <2>2, Zenon
<1>4. WireInv'
  BY <1>0, <1>3 DEF WireInv
<1>5. TypeOK'
  BY <1>0, <1>2 DEF MInv, TypeOK, JobType, Steps
<1>6. JobInv'
  <2>1. \A s \in Task : job'[s].step # "none" => job'[s].conn \in 1..MaxConn
    BY <1>1, Zenon DEF MInv, JobInv
  <2>2. \A s \in Task : job'[s].file => job'[s].step \in {"sent", "accepted"}
    BY <1>1, Zenon DEF MInv, JobInv
  <2>3. \A s \in Task : job'[s].step \in Live /\ ~job'[s].file => s \in tasks'
    BY <1>0, <1>1, Zenon DEF MInv, JobInv, Live
  <2>4. \A s \in asked' : job'[s].step \notin {"none", "sent"}
    BY <1>0, <1>1, Zenon DEF MInv, JobInv
  <2> QED BY <2>1, <2>2, <2>3, <2>4 DEF JobInv
<1>7. \A c : Holding(c)' = Holding(c)
  BY <1>1 DEF Holding
<1>8. SlotsExact'
  BY <1>0, <1>7 DEF MInv, SlotsExact
<1>9. CancelNotLost'
  BY <1>0, <1>1, Zenon DEF MInv, CancelNotLost
<1> QED BY <1>4, <1>5, <1>6, <1>8, <1>9 DEF MInv

-----------------------------------------------------------------------------
(* The goroutine of a task and its process *)

\* What a step of the goroutine or of the process leaves alone.
SameTask(j, k) == k.conn = j.conn /\ k.file = j.file /\ k.cause = j.cause

Codes == {0, 1, -1, -15}
Flags == BOOLEAN

LEMMA RcTyped ==
  ASSUME NEW j \in JobType, NEW s \in Steps, NEW rc \in Codes
  PROVE  /\ [j EXCEPT !.step = s, !.rc = rc] \in JobType
         /\ SameTask(j, [j EXCEPT !.step = s, !.rc = rc]) /\ [j EXCEPT !.step = s, !.rc = rc].step = s
BY Zenon DEF JobType, SameTask, Codes

\* The result of a process that ended.
Ended(j, rc, b) == [j EXCEPT !.step = "waited", !.rc = rc, !.trunc = b]

LEMMA ResultTyped ==
  ASSUME NEW j \in JobType, NEW rc \in Codes, NEW b \in Flags
  PROVE  /\ Ended(j, rc, b) \in JobType /\ SameTask(j, Ended(j, rc, b))
         /\ Ended(j, rc, b).step = "waited"
BY Zenon DEF JobType, Steps, SameTask, Codes, Flags, Ended

LEMMA RunTyped ==
  ASSUME NEW j \in JobType, NEW s \in Steps, NEW p \in {"none", "run", "term", "gone"}
  PROVE  /\ [j EXCEPT !.step = s, !.proc = p] \in JobType
         /\ SameTask(j, [j EXCEPT !.step = s, !.proc = p]) /\ [j EXCEPT !.step = s, !.proc = p].step = s
BY Zenon DEF JobType, SameTask

LEMMA ProcTyped ==
  ASSUME NEW j \in JobType, NEW p \in {"none", "run", "term", "gone"}, NEW e \in {0, 1, 15}
  PROVE  /\ [j EXCEPT !.proc = p] \in JobType /\ [j EXCEPT !.proc = p, !.exit = e] \in JobType
         /\ SameTask(j, [j EXCEPT !.proc = p]) /\ SameTask(j, [j EXCEPT !.proc = p, !.exit = e])
         /\ [j EXCEPT !.proc = p].step = j.step /\ [j EXCEPT !.proc = p, !.exit = e].step = j.step
BY Zenon DEF JobType, SameTask

LEMMA BufTyped ==
  ASSUME NEW j \in JobType, NEW b \in 0..(Limit + Slack), NEW h \in BOOLEAN
  PROVE  /\ [j EXCEPT !.buf = b] \in JobType /\ [j EXCEPT !.buf = b, !.short = h] \in JobType
         /\ SameTask(j, [j EXCEPT !.buf = b]) /\ SameTask(j, [j EXCEPT !.buf = b, !.short = h])
         /\ [j EXCEPT !.buf = b].step = j.step /\ [j EXCEPT !.buf = b, !.short = h].step = j.step
BY Zenon DEF JobType, SameTask

LEMMA WrittenTyped ==
  ASSUME NEW j \in JobType, NEW n \in Chunk, Room(j) > 0
  PROVE  Written(j, n) \in JobType /\ SameTask(j, Written(j, n)) /\ Written(j, n).step = j.step
<1> USE MinionAssumption
<1>1. j.buf \in 0..(Limit + Slack) /\ Room(j) = Limit + Slack - j.buf /\ n \in Nat
  BY DEF JobType, Room
<1>2. CASE Room(j) >= n
  <2>1. Written(j, n) = [j EXCEPT !.buf = j.buf + n] /\ j.buf + n \in 0..(Limit + Slack)
    BY <1>1, <1>2 DEF Written
  <2> DEFINE b == j.buf + n
  <2>2. b \in 0..(Limit + Slack)
    BY <2>1
  <2> HIDE DEF b
  <2>3. /\ [j EXCEPT !.buf = b] \in JobType /\ SameTask(j, [j EXCEPT !.buf = b])
        /\ [j EXCEPT !.buf = b].step = j.step
    BY <2>2, BufTyped, Zenon
  <2> QED BY <2>1, <2>3, Zenon DEF b
<1>3. CASE ~(Room(j) >= n)
  <2>1. /\ Written(j, n) = [j EXCEPT !.buf = j.buf + Room(j), !.short = TRUE]
        /\ j.buf + Room(j) \in 0..(Limit + Slack)
    BY <1>1, <1>3 DEF Written
  <2> DEFINE b == j.buf + Room(j)
  <2>2. b \in 0..(Limit + Slack) /\ TRUE \in BOOLEAN
    BY <2>1
  <2> HIDE DEF b
  <2>3. /\ [j EXCEPT !.buf = b, !.short = TRUE] \in JobType
        /\ SameTask(j, [j EXCEPT !.buf = b, !.short = TRUE])
        /\ [j EXCEPT !.buf = b, !.short = TRUE].step = j.step
    BY <2>2, BufTyped, Zenon
  <2> QED BY <2>1, <2>3, Zenon DEF b
<1> QED BY <1>2, <1>3

\* Every step of a goroutine that neither starts nor ends it.
LEMMA GoroutineStep ==
  ASSUME MInv, NEW t \in Task,
         \/ Ack(t) \/ Start(t) \/ Terminate(t) \/ Kill(t) \/ Wait(t) \/ Report(t) \/ Exit(t) \/ Deadline(t)
         \/ \E n \in Chunk : Output(t, n)
  PROVE  MInv'
<1> USE MinionAssumption
<1>0. job \in [Task -> JobType] /\ job[t] \in JobType /\ answers \subseteq Task /\ asked \subseteq Task
  BY DEF MInv, TypeOK, JobType, Steps
<1>1. t \in asked /\ job[t].step \in {"accepted", "acked", "running"} => job[t].cause # "none"
  BY Zenon DEF MInv, CancelNotLost
<1>2. job[t].file => job[t].step \in {"sent", "accepted"}
  BY Zenon DEF MInv, JobInv
<1>3. ASSUME NEW j \in JobType, Only(t, j), SameTask(job[t], j),
             j.step = job[t].step
             \/ (~j.file /\ <<job[t].step, j.step>> \in {<<"accepted", "acked">>, <<"acked", "running">>,
                            <<"acked", "waited">>, <<"running", "waited">>})
      PROVE  MInv'
  <2>1. /\ j.conn = job[t].conn /\ j.file = job[t].file
        /\ j.step = job[t].step \/ (job[t].step \in Live /\ j.step \in Live /\ ~j.file)
        /\ t \in asked /\ j.step \in {"accepted", "acked", "running"} => j.cause # "none"
    BY <1>1, <1>3, Zenon DEF SameTask, Live
  <2>2. /\ job' = [job EXCEPT ![t] = j] /\ answers' \subseteq Task
        /\ UNCHANGED <<cur, opened, wire, sem, tasks, asked>>
    BY <1>0, <1>3 DEF Only
  <2> QED BY <2>1, <2>2, QuietStep, Zenon
<1>4. CASE Ack(t)
  <2> DEFINE j == [job[t] EXCEPT !.step = "acked"]
  <2>1. "acked" \in Steps
    BY DEF Steps
  <2>2. j \in JobType /\ SameTask(job[t], j) /\ j.step = "acked"
    BY <1>0, <2>1, StepTyped, Zenon DEF SameTask
  <2>3. Only(t, j) /\ ~job[t].file /\ job[t].step = "accepted"
    BY <1>4 DEF Ack
  <2> HIDE DEF j
  <2> QED BY <1>3, <2>2, <2>3, Zenon DEF SameTask
<1>5. CASE Start(t)
  <2>0. job[t].step = "acked" /\ ~job[t].file
    BY <1>2, <1>5 DEF Start
  <2>1. ASSUME NEW rc \in Codes, Only(t, NotStarted(job[t], rc)) PROVE MInv'
    <3> DEFINE j == [job[t] EXCEPT !.step = "waited", !.rc = rc]
    <3>1. "waited" \in Steps
      BY DEF Steps
    <3>2. j \in JobType /\ SameTask(job[t], j) /\ j.step = "waited"
      BY <1>0, <3>1, RcTyped, Zenon
    <3>3. Only(t, j)
      BY <2>1 DEF NotStarted
    <3> HIDE DEF j
    <3> QED BY <1>3, <2>0, <3>2, <3>3, Zenon DEF SameTask
  <2>2. ASSUME Only(t, [job[t] EXCEPT !.step = "running", !.proc = "run"]) PROVE MInv'
    <3> DEFINE j == [job[t] EXCEPT !.step = "running", !.proc = "run"]
    <3>1. "running" \in Steps /\ "run" \in {"none", "run", "term", "gone"}
      BY DEF Steps
    <3>2. j \in JobType /\ SameTask(job[t], j) /\ j.step = "running"
      BY <1>0, <3>1, RunTyped, Zenon
    <3>3. Only(t, j)
      BY <2>2
    <3> HIDE DEF j
    <3> QED BY <1>3, <2>0, <3>2, <3>3, Zenon DEF SameTask
  <2>3. \/ Only(t, NotStarted(job[t], -1)) \/ Only(t, NotStarted(job[t], 1))
        \/ Only(t, [job[t] EXCEPT !.step = "running", !.proc = "run"])
    BY <1>5 DEF Start
  <2>4. -1 \in Codes /\ 1 \in Codes
    BY DEF Codes
  <2> QED BY <2>1, <2>2, <2>3, <2>4
<1>6. CASE Terminate(t)
  <2> DEFINE j == [job[t] EXCEPT !.proc = "term"]
  <2>1. "term" \in {"none", "run", "term", "gone"} /\ 0 \in {0, 1, 15}
    OBVIOUS
  <2>2. j \in JobType /\ SameTask(job[t], j) /\ j.step = job[t].step
    BY <1>0, <2>1, ProcTyped, Zenon
  <2>3. Only(t, j)
    BY <1>6 DEF Terminate
  <2> HIDE DEF j
  <2> QED BY <1>3, <2>2, <2>3, Zenon
<1>7. CASE Kill(t) \/ Exit(t)
  <2>1. PICK e \in {0, 1, 15} : Only(t, [job[t] EXCEPT !.proc = "gone", !.exit = e])
    BY <1>7 DEF Kill, Exit
  <2> DEFINE j == [job[t] EXCEPT !.proc = "gone", !.exit = e]
  <2>2. "gone" \in {"none", "run", "term", "gone"}
    OBVIOUS
  <2>3. j \in JobType /\ SameTask(job[t], j) /\ j.step = job[t].step
    BY <1>0, <2>2, ProcTyped, ZenonT(30)
  <2>4. Only(t, j)
    BY <2>1
  <2> HIDE DEF j
  <2> QED BY <1>3, <2>3, <2>4, Zenon
<1>8. CASE Wait(t)
  <2>0. job[t].step = "running" /\ ~job[t].file
    BY <1>2, <1>8, Zenon DEF Wait
  <2>1. PICK rc \in Codes, d \in Flags : Only(t, Ended(job[t], rc, d))
    BY <1>8, {0, 1, -15} \subseteq Codes, Zenon DEF Wait, ResultCodes, Codes, Flags, Ended
  <2> DEFINE j == Ended(job[t], rc, d)
  <2>3. j \in JobType /\ SameTask(job[t], j) /\ j.step = "waited"
    BY <1>0, ResultTyped
  <2>4. Only(t, j)
    BY <2>1
  <2> HIDE DEF j
  <2> QED BY <1>3, <2>0, <2>3, <2>4, Zenon DEF SameTask
<1>9. CASE Deadline(t)
  <2> DEFINE j == Cancelled(job[t], "deadline")
  <2>1. /\ j \in JobType /\ j.step = job[t].step /\ j.conn = job[t].conn /\ j.file = job[t].file
        /\ j.cause # "none"
    BY <1>0, CancelledTyped, Zenon
  <2>2. /\ job' = [job EXCEPT ![t] = j] /\ answers' \subseteq Task
        /\ UNCHANGED <<cur, opened, wire, sem, tasks, asked>>
    BY <1>0, <1>9 DEF Deadline, Only
  <2> HIDE DEF j
  <2> QED BY <2>1, <2>2, QuietStep, Zenon
<1>10. CASE \E n \in Chunk : Output(t, n)
  <2>1. PICK n \in Chunk : Output(t, n)
    BY <1>10
  <2> DEFINE j == Written(job[t], n)
  <2>2. j \in JobType /\ SameTask(job[t], j) /\ j.step = job[t].step
    BY <1>0, <2>1, WrittenTyped, Zenon DEF Output
  <2>3. Only(t, j)
    BY <2>1, Zenon DEF Output
  <2> HIDE DEF j
  <2> QED BY <1>3, <2>2, <2>3, Zenon
<1>11. CASE Report(t)
  <2> DEFINE j == [job[t] EXCEPT !.step = "reported"]
  <2>0. job[t].step = "waited" /\ ~job[t].file
    BY <1>2, <1>11 DEF Report
  <2>1. "reported" \in Steps
    BY DEF Steps
  <2>2. j \in JobType /\ SameTask(job[t], j) /\ j.step = "reported"
    BY <1>0, <2>1, StepTyped, Zenon DEF SameTask
  <2>3. /\ job' = [job EXCEPT ![t] = j] /\ answers' \subseteq Task
        /\ UNCHANGED <<cur, opened, wire, sem, tasks, asked>>
    BY <1>0, <1>11 DEF Report, Answered
  <2> HIDE DEF j
  <2> QED BY <2>0, <2>2, <2>3, QuietStep, Zenon DEF SameTask, Live
<1> QED BY <1>4, <1>5, <1>6, <1>7, <1>8, <1>9, <1>10, <1>11

-----------------------------------------------------------------------------
(* The theorems *)

LEMMA NextHolds == MInv /\ [Next]_vars => MInv'
<1> SUFFICES ASSUME MInv, [Next]_vars PROVE MInv'
  OBVIOUS
<1>1. CASE Connect \/ Disconnect
  BY <1>1, ConnectStep, DisconnectStep
<1>2. CASE ReadExec \/ ReadFile \/ ReadCancel
  BY <1>2, ReadExecStep, ReadFileStep, ReadCancelStep
<1>3. CASE \E t \in Task, type \in {"exec", "file"} : SendTask(t, type)
  BY <1>3, SendTaskStep
<1>4. CASE \E t \in Cancellable : SendCancel(t)
  BY <1>4, SendCancelStep
<1>5. CASE \E t \in Task : Goroutine(t) \/ Exit(t) \/ Deadline(t)
  BY <1>5, GoroutineStep, TransferStep, ReleaseStep DEF Goroutine
<1>6. CASE \E t \in Task, n \in Chunk : Output(t, n)
  BY <1>6, GoroutineStep
<1>7. CASE UNCHANGED vars
  <2>1. /\ job' = job /\ cur' = cur /\ opened' = opened /\ wire' = wire /\ sem' = sem
        /\ tasks' = tasks /\ asked' = asked /\ answers' = answers
    BY <1>7 DEF vars
  <2>2. TypeOK'
    BY <2>1, Zenon DEF MInv, TypeOK
  <2>3. JobInv'
    BY <2>1, Zenon DEF MInv, JobInv
  <2>4. WireInv'
    <3>1. \A i \in 1..Len(wire) : wire[i].task \in Task
      BY WireTyped, Zenon DEF MInv, TypeOK, Message
    <3> QED BY <2>1, <3>1, WireSame, Zenon DEF MInv
  <2>5. SlotsExact'
    BY <2>1 DEF MInv, SlotsExact, Holding
  <2>6. CancelNotLost'
    BY <2>1 DEF MInv, CancelNotLost
  <2> QED BY <2>2, <2>3, <2>4, <2>5, <2>6 DEF MInv
<1> QED BY <1>1, <1>2, <1>3, <1>4, <1>5, <1>6, <1>7 DEF Next

LEMMA Invariance == Spec => []MInv
BY InitHolds, NextHolds, PTL DEF Spec

\* For any tasks, connections and semaphore size: the channel sem of each connection holds one token
\* per goroutine handleExec still runs, so that none is leaked and none is given back twice
\* (ws/dispatcher.go serve: the select on sem and the deferred release).
THEOREM SlotsAlwaysExact == Spec => []SlotsExact
<1>1. MInv => SlotsExact
  BY DEF MInv
<1> QED BY <1>1, Invariance, PTL

\* For any tasks: a cancel message the read loop takes after the message of its task ends the context
\* of that task, because registerTask runs before the goroutine does (ws/dispatcher.go cancelTask).
THEOREM CancelAlwaysReaches == Spec => []CancelNotLost
<1>1. MInv => CancelNotLost
  BY DEF MInv
<1> QED BY <1>1, Invariance, PTL
=============================================================================
