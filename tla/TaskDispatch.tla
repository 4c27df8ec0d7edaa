---------------------------- MODULE TaskDispatch ----------------------------
(***************************************************************************)
(* Tasks sent to the agents connected to a node (internal/ws: handler.go,  *)
(* admission.go; internal/handlers/exec.go: sendTaskAndWait).              *)
(*                                                                         *)
(* The goroutines: one per REST request (one request per task id), one     *)
(* reader per agent connection, and the revocation of a host.  Each table  *)
(* has its own mutex, so an action is what one goroutine does under one of *)
(* them; requests, disconnections, results, timeouts and revocations then  *)
(* interleave between the tables.                                          *)
(*                                                                         *)
(* Stdout is measured in abstract units: StdoutMax is the 5 MiB a task may *)
(* hold, Budget is MAX_STDOUT_BUFFER_TOTAL.                                *)
(***************************************************************************)
EXTENDS Naturals, FiniteSets, FiniteSetsExt

CONSTANTS
    Task,         \* task ids, one request each
    Host,         \* agents of this node
    Conn,         \* WebSocket connections of the agents
    TaskHost,     \* the agent each request is for
    ConnHost,     \* the agent of each connection
    None,
    MaxPerAgent, MaxInflight, StdoutMax, Budget,   \* the limits of SetTaskLimits
    MaxChunk,     \* bound on the stdout chunks an agent sends for one task
    MaxClose      \* bound on the forced closures of agents

ASSUME HostAssumption == TaskHost \in [Task -> Host] /\ ConnHost \in [Conn -> Host]
ASSUME LimitAssumption ==
    /\ MaxPerAgent \in Nat \ {0} /\ MaxInflight \in Nat \ {0}
    /\ StdoutMax \in Nat \ {0} /\ Budget \in Nat \ {0} /\ MaxChunk \in Nat /\ MaxClose \in Nat
ASSUME NoneAssumption ==
    /\ None \notin Host \cup Conn \cup Task \cup {"result", "agent_disconnected", "agent_revoked"}
    /\ "revoker" \notin Conn

VARIABLES
    conn,         \* wsConnections
    sock,         \* the socket of each connection
    pending,      \* pendingTasks: tasks with a result channel registered
    channel,      \* what the result channel of a task holds, or None
    taskHosts,    \* taskHostnames, None when absent
    buffer,       \* stdoutBuffers, in units
    admitted,     \* tasks in the admission table
    stdout,       \* bytes accounted to each admitted task
    perHost, inflight, held,   \* perHostCount, inflightTotal, stdoutHeld
    req,          \* where the request goroutine of each task is
    via,          \* the connection its message goes through
    answer,       \* what the request returned
    fin,          \* the goroutines that end tasks: readers and revoker
    agent,        \* what the agent does with a task: [state, chunks]
    closes        \* how many times an agent was closed by an administrator

admission == <<admitted, stdout, perHost, inflight, held>>
tables == <<pending, taskHosts, buffer>>
requests == <<req, via, answer>>
vars == <<conn, sock, tables, channel, admission, requests, fin, agent, closes>>

Ender == Conn \cup {"revoker"}

\* An ender between two tasks, and at the end of its life.
Idle == [step |-> "idle", todo |-> {}, task |-> None, had |-> FALSE, why |-> "result", host |-> None]

ReqPhase == {"new", "admit", "register", "send", "write", "wait",
             "unreg", "unregDrop", "unregFree", "done"}
Reason == {"result", "agent_disconnected", "agent_revoked"}
FinState == [step : {"idle", "collect", "next", "take", "drop", "free", "deliver", "ended"},
             todo : SUBSET Task, task : Task \cup {None}, had : BOOLEAN,
             why : Reason, host : Host \cup {None}]
Answer == Reason \cup {"agent_offline", "busy", "send_failed", "timeout"}

TypeOK ==
    /\ conn \in [Host -> Conn \cup {None}]
    /\ sock \in [Conn -> {"new", "open", "lost", "closed"}]
    /\ pending \subseteq Task
    /\ channel \in [Task -> Reason \cup {None}]
    /\ taskHosts \in [Task -> Host \cup {None}]
    /\ buffer \in [Task -> Nat]
    /\ admitted \subseteq Task
    /\ stdout \in [Task -> 0..StdoutMax]
    /\ perHost \in [Host -> 0..MaxPerAgent]
    /\ inflight \in 0..MaxInflight
    /\ held \in 0..Budget
    /\ req \in [Task -> ReqPhase]
    /\ via \in [Task -> Conn \cup {None}]
    /\ answer \in [Task -> Answer \cup {None}]
    /\ fin \in [Ender -> FinState]
    /\ agent \in [Task -> [state : {"none", "running", "finished"}, chunks : 0..MaxChunk]]
    /\ closes \in 0..MaxClose

Init ==
    /\ conn = [h \in Host |-> None]
    /\ sock = [c \in Conn |-> "new"]
    /\ pending = {}
    /\ channel = [t \in Task |-> None]
    /\ taskHosts = [t \in Task |-> None]
    /\ buffer = [t \in Task |-> 0]
    /\ admitted = {}
    /\ stdout = [t \in Task |-> 0]
    /\ perHost = [h \in Host |-> 0]
    /\ inflight = 0
    /\ held = 0
    /\ req = [t \in Task |-> "new"]
    /\ via = [t \in Task |-> None]
    /\ answer = [t \in Task |-> None]
    /\ fin = [p \in Ender |-> Idle]
    /\ agent = [t \in Task |-> [state |-> "none", chunks |-> 0]]
    /\ closes = 0

-----------------------------------------------------------------------------
(* Admission: every operation runs under admMu *)

Refused(t) ==
    \/ perHost[TaskHost[t]] >= MaxPerAgent
    \/ inflight >= MaxInflight
    \/ (inflight + 1) * StdoutMax > Budget

AdmitTask(t) ==
    /\ admitted' = admitted \cup {t}
    /\ stdout' = [stdout EXCEPT ![t] = 0]
    /\ perHost' = [perHost EXCEPT ![TaskHost[t]] = @ + 1]
    /\ inflight' = inflight + 1
    /\ held' = held

\* Mutant: the stdout of the task stays accounted.
ReleaseKeepsStdout(t) ==
    IF t \in admitted
      THEN /\ admitted' = admitted \ {t}
           /\ stdout' = [stdout EXCEPT ![t] = 0]
           /\ perHost' = [perHost EXCEPT ![TaskHost[t]] = @ - 1]
           /\ inflight' = inflight - 1
           /\ held' = held
      ELSE UNCHANGED admission

\* releaseTask is idempotent: the counters move once per admitted task.
ReleaseTask(t) ==
    IF t \in admitted
      THEN /\ admitted' = admitted \ {t}
           /\ stdout' = [stdout EXCEPT ![t] = 0]
           /\ perHost' = [perHost EXCEPT ![TaskHost[t]] = @ - 1]
           /\ inflight' = inflight - 1
           /\ held' = held - stdout[t]
      ELSE UNCHANGED admission

\* Mutant: only the global budget bounds a chunk.
AllowedByBudget(t, n) == IF t \in admitted THEN Min({n, Budget - held}) ELSE 0

\* What reserveStdout lets a chunk of n units keep.
Allowed(t, n) == IF t \in admitted THEN Min({n, StdoutMax - stdout[t], Budget - held}) ELSE 0

-----------------------------------------------------------------------------
(* The request goroutine: checkAgentOnline and sendTaskAndWait *)

Step(t, p) == req' = [req EXCEPT ![t] = p]
Return(t, a) == Step(t, "done") /\ answer' = [answer EXCEPT ![t] = a]

CheckOnline(t) ==
    /\ req[t] = "new"
    /\ \/ conn[TaskHost[t]] = None /\ Return(t, "agent_offline")
       \/ conn[TaskHost[t]] # None /\ Step(t, "admit") /\ UNCHANGED answer
    /\ UNCHANGED <<conn, sock, tables, channel, admission, via, fin, agent, closes>>

Admit(t) ==
    /\ req[t] = "admit"
    /\ \/ Refused(t) /\ Return(t, "busy") /\ UNCHANGED admission
       \/ ~Refused(t) /\ AdmitTask(t) /\ Step(t, "register") /\ UNCHANGED answer
    /\ UNCHANGED <<conn, sock, tables, channel, via, fin, agent, closes>>

RegisterFuture(t) ==
    /\ req[t] = "register"
    /\ pending' = pending \cup {t}
    /\ channel' = [channel EXCEPT ![t] = None]
    /\ taskHosts' = [taskHosts EXCEPT ![t] = TaskHost[t]]
    /\ Step(t, "send")
    /\ UNCHANGED <<conn, sock, buffer, admission, via, answer, fin, agent, closes>>

\* SendToAgent looks the connection up...
LookUp(t) ==
    /\ req[t] = "send"
    /\ \/ /\ conn[TaskHost[t]] = None
          /\ Step(t, "unreg")
          /\ answer' = [answer EXCEPT ![t] = "send_failed"]
          /\ UNCHANGED via
       \/ /\ conn[TaskHost[t]] # None
          /\ via' = [via EXCEPT ![t] = conn[TaskHost[t]]]
          /\ Step(t, "write")
          /\ UNCHANGED answer
    /\ UNCHANGED <<conn, sock, tables, channel, admission, fin, agent, closes>>

\* ...and writes to it later, after registering the host of the task once more.  A write on a
\* connection whose peer is gone may succeed, and the message is lost.
WriteToAgent(t) ==
    /\ req[t] = "write"
    /\ taskHosts' = [taskHosts EXCEPT ![t] = TaskHost[t]]
    /\ \/ /\ sock[via[t]] = "open"
          /\ agent' = [agent EXCEPT ![t].state = "running"]
          /\ Step(t, "wait")
          /\ UNCHANGED answer
       \/ sock[via[t]] = "lost" /\ Step(t, "wait") /\ UNCHANGED <<agent, answer>>
       \/ /\ sock[via[t]] \in {"lost", "closed"}
          /\ Step(t, "unreg")
          /\ answer' = [answer EXCEPT ![t] = "send_failed"]
          /\ UNCHANGED agent
    /\ UNCHANGED <<conn, sock, pending, buffer, channel, admission, via, fin, closes>>

Receive(t) ==
    /\ req[t] = "wait"
    /\ channel[t] # None
    /\ Return(t, channel[t])
    /\ UNCHANGED <<conn, sock, tables, channel, admission, via, fin, agent, closes>>

Timeout(t) ==
    /\ req[t] = "wait"
    /\ Step(t, "unreg")
    /\ answer' = [answer EXCEPT ![t] = "timeout"]
    /\ UNCHANGED <<conn, sock, tables, channel, admission, via, fin, agent, closes>>

\* UnregisterFuture: the pending table, the host and the buffer, then the slot.  The host and the
\* buffer are two tables with a lock each, which no other step uses together: one action (here and in
\* FinishDrop) stands for both.
Unregister(t) ==
    /\ req[t] = "unreg"
    /\ pending' = pending \ {t}
    /\ Step(t, "unregDrop")
    /\ UNCHANGED <<conn, sock, taskHosts, buffer, channel, admission, via, answer, fin, agent, closes>>

UnregisterDrop(t) ==
    /\ req[t] = "unregDrop"
    /\ taskHosts' = [taskHosts EXCEPT ![t] = None]
    /\ buffer' = [buffer EXCEPT ![t] = 0]
    /\ Step(t, "unregFree")
    /\ UNCHANGED <<conn, sock, pending, channel, admission, via, answer, fin, agent, closes>>

UnregisterFree(t) ==
    /\ req[t] = "unregFree"
    /\ ReleaseTask(t)
    /\ Step(t, "done")
    /\ UNCHANGED <<conn, sock, tables, channel, via, answer, fin, agent, closes>>

-----------------------------------------------------------------------------
(* The reader goroutine of a connection: AgentHandler and HandleMessage *)

\* RegisterConnection closes the connection it replaces.
Connect(c) ==
    LET h == ConnHost[c] IN
    /\ sock[c] = "new"
    /\ sock' = [d \in Conn |-> IF d = c THEN "open" ELSE IF d = conn[h] THEN "closed" ELSE sock[d]]
    /\ conn' = [conn EXCEPT ![h] = c]
    /\ UNCHANGED <<tables, channel, admission, requests, fin, agent, closes>>

\* The network, or the agent, ends the connection; the node learns it when it reads.
Disconnect(c) ==
    /\ sock[c] = "open"
    /\ sock' = [sock EXCEPT ![c] = "lost"]
    /\ UNCHANGED <<conn, tables, channel, admission, requests, fin, agent, closes>>

Reading(c) == sock[c] = "open" /\ fin[c].step = "idle"

\* The agent works on tasks of its host whatever the connection it got them through.
Working(c, t) == TaskHost[t] = ConnHost[c] /\ agent[t].state = "running"

\* A stdout chunk, under buffersMu: a task that is not admitted keeps nothing, a chunk that does not
\* fit is truncated.
Stdout(c, t) ==
    /\ Reading(c)
    /\ Working(c, t)
    /\ agent[t].chunks < MaxChunk
    /\ agent' = [agent EXCEPT ![t].chunks = @ + 1]
    /\ \E size \in 1..(StdoutMax + 1) :
        LET n == Allowed(t, size) IN
        /\ buffer' = [buffer EXCEPT ![t] = @ + n]
        /\ stdout' = [stdout EXCEPT ![t] = @ + n]
        /\ held' = held + n
    /\ UNCHANGED <<conn, sock, pending, taskHosts, channel, admitted, perHost, inflight,
                   requests, fin, closes>>

\* The result: the task is ended, then answered.
Result(c, t) ==
    /\ Reading(c)
    /\ Working(c, t)
    /\ agent' = [agent EXCEPT ![t].state = "finished"]
    /\ fin' = [fin EXCEPT ![c] = [Idle EXCEPT !.step = "take", !.task = t]]
    /\ UNCHANGED <<conn, sock, tables, channel, admission, requests, closes>>

\* unregisterIfCurrent, under connectionsMu: nothing to do for a replaced connection.
UnregisterIfCurrent(c) ==
    LET h == ConnHost[c] IN
    /\ sock[c] \in {"lost", "closed"}
    /\ fin[c].step = "idle"
    /\ \/ /\ conn[h] \notin {None, c}
          /\ fin' = [fin EXCEPT ![c].step = "ended"]
          /\ UNCHANGED conn
       \/ /\ conn[h] \in {None, c}
          /\ conn' = [conn EXCEPT ![h] = None]
          /\ fin' = [fin EXCEPT ![c] =
                        [Idle EXCEPT !.step = "collect", !.why = "agent_disconnected", !.host = h]]
    /\ UNCHANGED <<sock, tables, channel, admission, requests, agent, closes>>

\* CloseAgent: the connection is removed and closed, then the tasks of the host are failed.
CloseAgent(h) ==
    /\ closes < MaxClose
    /\ fin["revoker"].step = "idle"
    /\ closes' = closes + 1
    /\ IF conn[h] = None
         THEN UNCHANGED <<conn, sock, fin>>
         ELSE /\ conn' = [conn EXCEPT ![h] = None]
              /\ sock' = [sock EXCEPT ![conn[h]] = "closed"]
              /\ fin' = [fin EXCEPT !["revoker"] =
                            [Idle EXCEPT !.step = "collect", !.why = "agent_revoked", !.host = h]]
    /\ UNCHANGED <<tables, channel, admission, requests, agent>>

-----------------------------------------------------------------------------
(* Ending tasks: ResolveFuturesForHostname and finishTask *)

EndStep(p, s) == fin' = [fin EXCEPT ![p].step = s]

\* The ids are read at once, then ended one after the other.
Collect(p) ==
    /\ fin[p].step = "collect"
    /\ fin' = [fin EXCEPT ![p].todo = {t \in Task : taskHosts[t] = fin[p].host}, ![p].step = "next"]
    /\ UNCHANGED <<conn, sock, tables, channel, admission, requests, agent, closes>>

\* The next id; a reader whose connection closed ends, the revoker is free again.
TakeNext(p) ==
    /\ fin[p].step = "next"
    /\ IF fin[p].todo = {}
         THEN fin' = [fin EXCEPT ![p] = [Idle EXCEPT !.step = IF p = "revoker" THEN "idle" ELSE "ended"]]
         ELSE \E t \in fin[p].todo :
                fin' = [fin EXCEPT ![p].todo = @ \ {t}, ![p].task = t, ![p].step = "take"]
    /\ UNCHANGED <<conn, sock, tables, channel, admission, requests, agent, closes>>

\* Mutant: the answer is sent as soon as the channel is taken, before the slot is released.
FinishTakeAnswers(p) ==
    /\ fin[p].step = "take"
    /\ pending' = pending \ {fin[p].task}
    /\ channel' = IF fin[p].task \in pending THEN [channel EXCEPT ![fin[p].task] = fin[p].why] ELSE channel
    /\ fin' = [fin EXCEPT ![p].had = fin[p].task \in pending, ![p].step = "drop"]
    /\ UNCHANGED <<conn, sock, taskHosts, buffer, admission, requests, agent, closes>>

FinishTake(p) ==
    /\ fin[p].step = "take"
    /\ pending' = pending \ {fin[p].task}
    /\ fin' = [fin EXCEPT ![p].had = fin[p].task \in pending, ![p].step = "drop"]
    /\ UNCHANGED <<conn, sock, taskHosts, buffer, channel, admission, requests, agent, closes>>

FinishDrop(p) ==
    /\ fin[p].step = "drop"
    /\ buffer' = [buffer EXCEPT ![fin[p].task] = 0]
    /\ taskHosts' = [taskHosts EXCEPT ![fin[p].task] = None]
    /\ EndStep(p, "free")
    /\ UNCHANGED <<conn, sock, pending, channel, admission, requests, agent, closes>>

FinishFree(p) ==
    /\ fin[p].step = "free"
    /\ ReleaseTask(fin[p].task)
    /\ EndStep(p, "deliver")
    /\ UNCHANGED <<conn, sock, tables, channel, requests, agent, closes>>

\* Mutant: only a result is delivered, the tasks of a closed connection are dropped.
DeliverResultsOnly(p) ==
    LET t == fin[p].task IN
    /\ fin[p].step = "deliver"
    /\ channel' = IF fin[p].had /\ fin[p].why = "result" THEN [channel EXCEPT ![t] = "result"] ELSE channel
    /\ fin' = IF fin[p].why = "result" THEN [fin EXCEPT ![p] = Idle]
                                       ELSE [fin EXCEPT ![p].step = "next", ![p].task = None, ![p].had = FALSE]
    /\ UNCHANGED <<conn, sock, tables, admission, requests, agent, closes>>

\* A channel that was pending gets the answer unless it already has one.
Deliver(p) ==
    LET t == fin[p].task IN
    /\ fin[p].step = "deliver"
    /\ channel' = IF fin[p].had /\ channel[t] = None THEN [channel EXCEPT ![t] = fin[p].why] ELSE channel
    /\ fin' = IF fin[p].why = "result" THEN [fin EXCEPT ![p] = Idle]
                                       ELSE [fin EXCEPT ![p].step = "next", ![p].task = None, ![p].had = FALSE]
    /\ UNCHANGED <<conn, sock, tables, admission, requests, agent, closes>>

-----------------------------------------------------------------------------
Request(t) ==
    \/ CheckOnline(t) \/ Admit(t) \/ RegisterFuture(t) \/ LookUp(t) \/ WriteToAgent(t)
    \/ Receive(t) \/ Timeout(t) \/ Unregister(t) \/ UnregisterDrop(t) \/ UnregisterFree(t)

Ending(p) ==
    Collect(p) \/ TakeNext(p) \/ FinishTake(p) \/ FinishDrop(p) \/ FinishFree(p) \/ Deliver(p)

Next ==
    \/ \E t \in Task : Request(t)
    \/ \E c \in Conn :
        \/ Connect(c) \/ Disconnect(c) \/ UnregisterIfCurrent(c)
        \/ \E t \in Task : Stdout(c, t) \/ Result(c, t)
    \/ \E h \in Host : CloseAgent(h)
    \/ \E p \in Ender : Ending(p)

Spec == Init /\ [][Next]_vars

-----------------------------------------------------------------------------
(* Properties *)

\* p took the result channel of t out of the pending table and has not delivered yet.
Holds(p, t) == fin[p].step \in {"drop", "free", "deliver"} /\ fin[p].task = t /\ fin[p].had

\* The stdout units accounted to the admitted tasks.
Units == UNION {{<<t, i>> : i \in 1..stdout[t]} : t \in admitted}

\* The counters of the admission count the admitted tasks and their stdout: released exactly once each, whichever of
\* the result, the timeout, the disconnection and the revocation come together for one task.
CountersExact ==
    /\ inflight = Cardinality(admitted)
    /\ \A h \in Host : perHost[h] = Cardinality({t \in admitted : TaskHost[t] = h})
    /\ held = Cardinality(Units)

\* A client that has its answer finds its slot already released.
SlotFreedBeforeAnswer == \A t \in Task : req[t] = "done" => t \notin admitted

\* The reservation made at admission leaves every admitted task its whole StdoutMax: the global
\* budget never truncates a stdout.
BudgetNeverTruncates == \A t \in admitted : StdoutMax - stdout[t] <= Budget - held

\* A request that waits can still be answered: its channel is registered, or it was taken by a
\* goroutine that has yet to deliver (finishTask takes it out before the answer is sent).
NoTaskForgotten ==
    \A t \in Task : req[t] = "wait" /\ channel[t] = None =>
        t \in pending \/ \E p \in Ender : Holds(p, t)
=============================================================================
