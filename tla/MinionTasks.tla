---------------------------- MODULE MinionTasks ----------------------------
(***************************************************************************)
(* The tasks of a minion: the read loop of a connection, one goroutine per *)
(* task, the semaphore of the connection, cancellation, the subprocess     *)
(* with its timeout, its signals and its bounded stdout, and file          *)
(* transfers (secagent-minion: ws/dispatcher.go serve, main.go,            *)
(* executor/executor.go, files/files.go).                                  *)
(*                                                                         *)
(* The server sends a task once, to the connection that is open then.      *)
(* Connections are numbered in the order the minion opens them.            *)
(***************************************************************************)
EXTENDS Integers, Sequences, FiniteSets

CONSTANTS
    Task,
    Cancellable,    \* bound: the tasks the server may cancel
    MaxConn,        \* bound: connections
    MaxConcurrent,  \* size of the semaphore
    Limit,          \* StdoutBufferMax
    Slack,          \* what limitedBuffer keeps beyond it
    Chunk           \* sizes of the writes of a process

ASSUME MinionAssumption ==
    /\ IsFiniteSet(Task) /\ Cancellable \subseteq Task
    /\ MaxConn \in Nat /\ MaxConcurrent \in Nat
    /\ Limit \in Nat /\ Slack \in Nat /\ Chunk \subseteq Nat

VARIABLES
    cur,       \* the open connection, 0 for none
    opened,    \* connections opened so far
    wire,      \* messages on their way to the minion
    sem,       \* slots taken, by connection
    tasks,     \* Dispatcher.tasks: the tasks whose cancel function is registered
    job,       \* the goroutine of each task
    asked,     \* tasks whose cancel message was read after their exec message
    answers    \* tasks whose result the server received

vars == <<cur, opened, wire, sem, tasks, job, asked, answers>>

\* The goroutine of a task: the connection it came by, its step, why its context ended, the process,
\* what stdout holds, whether its copy stopped on a short write, and the code it reports.
NoJob == [conn |-> 0, file |-> FALSE, step |-> "none", cause |-> "none", proc |-> "none",
          exit |-> 0, buf |-> 0, short |-> FALSE, rc |-> 0, trunc |-> FALSE]

Gone(j) == [NoJob EXCEPT !.conn = j.conn, !.step = "ended"]

TypeOK ==
    /\ cur \in 0..opened /\ opened \in 0..MaxConn
    /\ wire \in Seq([type : {"exec", "file", "cancel"}, task : Task])
    /\ sem \in [1..MaxConn -> 0..MaxConcurrent]
    /\ tasks \subseteq Task /\ asked \subseteq Cancellable
    /\ job \in [Task -> [conn : 0..MaxConn, file : BOOLEAN, cause : {"none", "deadline", "cancel"},
                         step : {"none", "sent", "accepted", "acked", "running", "waited", "reported", "ended"},
                         proc : {"none", "run", "term", "gone"}, exit : {0, 1, 15},
                         buf : 0..(Limit + Slack), short : BOOLEAN, rc : {0, 1, -1, -15}, trunc : BOOLEAN]]
    /\ answers \subseteq Task

Init ==
    /\ cur = 0
    /\ opened = 0
    /\ wire = <<>>
    /\ sem = [c \in 1..MaxConn |-> 0]
    /\ tasks = {}
    /\ job = [t \in Task |-> NoJob]
    /\ asked = {}
    /\ answers = {}

-----------------------------------------------------------------------------
(* The server and the network *)

SendTask(t, type) ==
    /\ cur # 0 /\ job[t].step = "none"
    /\ job' = [job EXCEPT ![t].step = "sent", ![t].conn = cur, ![t].file = (type = "file")]
    /\ wire' = Append(wire, [type |-> type, task |-> t])
    /\ UNCHANGED <<cur, opened, sem, tasks, asked, answers>>

SendCancel(t) ==
    /\ cur # 0 /\ t \notin asked /\ job[t].step # "none" /\ ~job[t].file
    /\ \A i \in DOMAIN wire : wire[i] # [type |-> "cancel", task |-> t]
    /\ wire' = Append(wire, [type |-> "cancel", task |-> t])
    /\ UNCHANGED <<cur, opened, sem, tasks, job, asked, answers>>

Connect ==
    /\ cur = 0 /\ opened < MaxConn
    /\ opened' = opened + 1
    /\ cur' = opened + 1
    /\ UNCHANGED <<wire, sem, tasks, job, asked, answers>>

\* The context of a task ends once, with the first cause.
Cancelled(j, why) == [j EXCEPT !.cause = IF @ = "none" THEN why ELSE @]

\* serve returns: the context of every task of the connection is cancelled.
Disconnect ==
    /\ cur # 0
    /\ cur' = 0
    /\ wire' = <<>>
    /\ job' = [t \in Task |-> IF job[t].conn # cur THEN job[t]
                              ELSE IF job[t].step \in {"sent", "ended"} THEN Gone(job[t])
                              ELSE Cancelled(job[t], "cancel")]
    /\ UNCHANGED <<opened, sem, tasks, asked, answers>>

\* send on the connection of the task: lost when that connection is gone.
Answered(t) == IF job[t].conn = cur THEN answers \cup {t} ELSE answers

-----------------------------------------------------------------------------
(* The read loop *)

Read(type) == wire # <<>> /\ Head(wire).type = type /\ wire' = Tail(wire)

\* Mutant: the cancel function is not registered before the goroutine starts.
RegisteredLater(t) == tasks

\* registerTask
Registered(t) == tasks \cup {t}

HasSlot == sem[cur] < MaxConcurrent

\* A slot, the registration and the goroutine; or the answer agent_busy.
ReadExec ==
    LET t == Head(wire).task IN
    /\ Read("exec")
    /\ IF HasSlot
         THEN /\ sem' = [sem EXCEPT ![cur] = @ + 1]
              /\ tasks' = Registered(t)
              /\ job' = [job EXCEPT ![t].step = "accepted"]
              /\ UNCHANGED answers
         ELSE /\ job' = [job EXCEPT ![t] = Gone(@)]
              /\ answers' = Answered(t)
              /\ UNCHANGED <<sem, tasks>>
    /\ UNCHANGED <<cur, opened, asked>>

\* A transfer takes no slot and cannot be cancelled.
ReadFile ==
    /\ Read("file")
    /\ job' = [job EXCEPT ![Head(wire).task].step = "accepted"]
    /\ UNCHANGED <<cur, opened, sem, tasks, asked, answers>>

\* cancelTask
ReadCancel ==
    LET t == Head(wire).task IN
    /\ Read("cancel")
    /\ asked' = asked \cup {t}
    /\ job' = IF t \in tasks THEN [job EXCEPT ![t] = Cancelled(@, "cancel")] ELSE job
    /\ UNCHANGED <<cur, opened, sem, tasks, answers>>

-----------------------------------------------------------------------------
(* The goroutine of a task *)

Only(t, j) == job' = [job EXCEPT ![t] = j] /\ UNCHANGED <<cur, opened, wire, sem, tasks, asked, answers>>

\* PutFile, FetchFile: done, or an error (path, size, I/O), in one answer.
TransferFile(t) ==
    /\ job[t].file /\ job[t].step = "accepted"
    /\ job' = [job EXCEPT ![t] = Gone(@)]
    /\ answers' = Answered(t)
    /\ UNCHANGED <<cur, opened, wire, sem, tasks, asked>>

\* HandleExec sends its ack first.
Ack(t) ==
    /\ ~job[t].file /\ job[t].step = "accepted"
    /\ Only(t, [job[t] EXCEPT !.step = "acked"])

\* Mutant: the task is dropped without an answer.
DroppedSilently(j, rc) == [j EXCEPT !.step = "reported", !.rc = rc]

NotStarted(j, rc) == [j EXCEPT !.step = "waited", !.rc = rc]

\* Run: a task that expired is not started; Start fails on an error or a context that ended.
Start(t) ==
    /\ job[t].step = "acked"
    /\ \/ Only(t, NotStarted(job[t], -1))
       \/ Only(t, NotStarted(job[t], 1))
       \/ job[t].cause = "none" /\ Only(t, [job[t] EXCEPT !.step = "running", !.proc = "run"])

Room(j) == Limit + Slack - j.buf

\* limitedBuffer.Write: a write that does not fit is cut, and its count is the count of what was kept:
\* the copy of stdout takes it for a short write and stops. A full buffer swallows everything.
Written(j, n) ==
    CASE Room(j) = 0 -> j
      [] Room(j) >= n -> [j EXCEPT !.buf = @ + n]
      [] OTHER -> [j EXCEPT !.buf = @ + Room(j), !.short = TRUE]

Output(t, n) ==
    /\ job[t].proc = "run" /\ ~job[t].short /\ Room(job[t]) > 0
    /\ Only(t, Written(job[t], n))

\* The process ends by itself, with any code; one whose reader is gone may die of it.
Exit(t) ==
    /\ job[t].proc = "run"
    /\ \E code \in {0, 1} : Only(t, [job[t] EXCEPT !.proc = "gone", !.exit = code])

Deadline(t) ==
    /\ job[t].step = "running" /\ job[t].cause = "none"
    /\ Only(t, Cancelled(job[t], "deadline"))

\* Mutant: only the deadline terminates the process.
DeadlineOnly(j) == j.cause = "deadline"

CausesTermination(j) == j.cause # "none"

\* setCmdCancel: SIGTERM to the process group, SIGKILL two seconds later.
Terminate(t) ==
    /\ job[t].proc = "run" /\ CausesTermination(job[t])
    /\ Only(t, [job[t] EXCEPT !.proc = "term"])

Kill(t) ==
    /\ job[t].proc = "term"
    /\ Only(t, [job[t] EXCEPT !.proc = "gone", !.exit = 15])

\* Wait returns an error for a code other than 0, a short write or a context that ended before the
\* process did; the context decides before the code does.
ResultCodes(j) ==
    {rc \in {0, 1, -15} :
        \/ rc = -15 /\ j.cause # "none"
        \/ rc = 0 /\ j.exit = 0 /\ ~j.short
        \/ rc = 1 /\ j.cause = "none" /\ (j.exit # 0 \/ j.short)}

Wait(t) ==
    /\ job[t].step = "running" /\ job[t].proc = "gone"
    /\ \E rc \in ResultCodes(job[t]) :
          Only(t, [job[t] EXCEPT !.step = "waited", !.rc = rc,
                                 !.trunc = (rc = -15 /\ job[t].cause = "deadline") \/ job[t].buf > Limit])

Report(t) ==
    /\ job[t].step = "waited"
    /\ job' = [job EXCEPT ![t].step = "reported"]
    /\ answers' = Answered(t)
    /\ UNCHANGED <<cur, opened, wire, sem, tasks, asked>>

\* Mutant: the goroutine forgets its slot.
SlotKept(c) == sem

FreeSlot(c) == [sem EXCEPT ![c] = @ - 1]

\* The deferred unregisterTask, then the slot; nothing of the goroutine is left.
Release(t) ==
    /\ job[t].step = "reported"
    /\ job' = [job EXCEPT ![t] = Gone(@)]
    /\ tasks' = tasks \ {t}
    /\ sem' = FreeSlot(job[t].conn)
    /\ UNCHANGED <<cur, opened, wire, asked, answers>>

-----------------------------------------------------------------------------
Goroutine(t) ==
    Ack(t) \/ Start(t) \/ TransferFile(t) \/ Terminate(t) \/ Kill(t) \/ Wait(t) \/ Report(t) \/ Release(t)

Next ==
    \/ Connect \/ Disconnect \/ ReadExec \/ ReadFile \/ ReadCancel
    \/ \E t \in Task, type \in {"exec", "file"} : SendTask(t, type)
    \/ \E t \in Cancellable : SendCancel(t)
    \/ \E t \in Task : Goroutine(t) \/ Exit(t) \/ Deadline(t)
    \/ \E t \in Task, n \in Chunk : Output(t, n)

\* The read loop, the goroutines and the timers run; nothing forces a process to end by itself, and
\* nothing the server or the network to act.
Spec ==
    /\ Init /\ [][Next]_vars
    /\ WF_vars(ReadExec \/ ReadFile \/ ReadCancel)
    /\ \A t \in Task : WF_vars(Goroutine(t)) /\ WF_vars(Deadline(t))

-----------------------------------------------------------------------------
(* Properties *)

Holding(c) == {t \in Task : job[t].conn = c /\ ~job[t].file /\ job[t].step \in {"accepted", "acked", "running", "waited", "reported"}}

\* The semaphore of every connection, the closed ones included, counts the goroutines that hold it:
\* no end of a task, cancelled, refused or killed, leaks a slot or gives one back twice.
SlotsExact == \A c \in 1..MaxConn : sem[c] = Cardinality(Holding(c))

\* A cancel message read after the task was taken on is never lost, however early it comes: the
\* context of the task has ended, unless its goroutine is past caring.
CancelNotLost ==
    \A t \in asked : job[t].step \in {"accepted", "acked", "running"} => job[t].cause # "none"

\* Every message the read loop took on is answered, unless its connection is lost: no limit, timeout,
\* cancel or failure leaves the server waiting for a live minion.
TaskAnswered ==
    \A t \in Task : job[t].step = "sent" ~> (t \in answers \/ job[t].conn # cur)

\* No process outlives the connection of its task or its cancellation.
NoOrphan == \A t \in Task : job[t].cause # "none" ~> job[t].proc \in {"none", "gone"}
=============================================================================
