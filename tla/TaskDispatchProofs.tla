------------------------- MODULE TaskDispatchProofs -------------------------
(***************************************************************************)
(* The answer of a task, its admission slot and the counters of the        *)
(* admission, for any number of tasks, agents and connections and any      *)
(* limits.                                                                 *)
(***************************************************************************)
EXTENDS TaskDispatch, Integers, FiniteSetTheorems, TLAPS

Early == {"new", "admit", "register"}
Sent == {"send", "write", "wait"}

AnswerType ==
    /\ req \in [Task -> ReqPhase]
    /\ channel \in [Task -> Reason \cup {None}]
    /\ fin \in [Ender -> FinState]
    /\ \A p \in Ender : fin[p].step \in {"take", "drop", "free", "deliver"} => fin[p].task \in Task

\* A task that has a channel, an answer or a goroutine about to deliver one is registered; its slot
\* is free once an answer exists or is about to be delivered; and a request that was sent keeps a
\* way to its answer.
TaskInv(t) ==
    /\ req[t] \in Early => t \notin pending /\ channel[t] = None /\ \A p \in Ender : ~Holds(p, t)
    /\ req[t] \in {"new", "admit", "done"} => t \notin admitted
    /\ channel[t] # None => t \notin admitted
    /\ \A p \in Ender : Holds(p, t) /\ fin[p].step = "deliver" => t \notin admitted
    /\ req[t] \in Sent /\ channel[t] = None => t \in pending \/ \E p \in Ender : Holds(p, t)

AnswerInv == AnswerType /\ \A t \in Task : TaskInv(t)

\* The part of the state that the invariant of task t depends on.
SameTask(t) ==
    /\ req'[t] = req[t] /\ channel'[t] = channel[t]
    /\ (t \in pending') <=> (t \in pending)
    /\ (t \in admitted') => (t \in admitted)
    /\ \A p \in Ender : /\ Holds(p, t)' <=> Holds(p, t)
                        /\ Holds(p, t) => fin'[p].step = fin[p].step

\* A step that leaves it alone keeps the invariant of t.
LEMMA OtherTask == ASSUME NEW t \in Task, TaskInv(t), SameTask(t) PROVE TaskInv(t)'
  BY DEF TaskInv, SameTask

Holding == {"drop", "free", "deliver"}

\* An ender that holds no channel before and after its step disturbs no task.
LEMMA QuietEnder ==
    ASSUME AnswerInv, NEW p \in Ender, UNCHANGED <<req, channel, pending, admitted>>,
           fin' \in [Ender -> FinState], \A q \in Ender : q # p => fin'[q] = fin[q],
           fin[p].step \notin Holding, fin'[p].step \notin Holding,
           fin'[p].step = "take" => fin'[p].task \in Task
    PROVE  AnswerInv'
<1>1. AnswerType'
  BY DEF AnswerInv, AnswerType, Holding
<1>2. ASSUME NEW t \in Task PROVE SameTask(t)
  BY DEF SameTask, Holds, Holding
<1> QED
  BY <1>1, <1>2, OtherTask DEF AnswerInv

\* Every step of a request, of a reader and of a revocation keeps the invariant.
LEMMA AnswerStep == AnswerInv /\ [Next]_vars => AnswerInv'
<1> USE NoneAssumption DEF tables, admission, requests, Step, Return
<1>1. ASSUME AnswerInv, NEW u \in Task, CheckOnline(u) PROVE AnswerInv'
  <2>1. AnswerType'
    BY <1>1 DEF CheckOnline, AnswerInv, AnswerType, ReqPhase
  <2>2. ASSUME NEW t \in Task, t # u PROVE TaskInv(t)'
    <3>1. SameTask(t)
      BY <1>1, <2>2 DEF CheckOnline, SameTask, AnswerInv, AnswerType, Holds
    <3> QED
      BY <1>1, <3>1, OtherTask DEF AnswerInv
  <2>3. TaskInv(u)'
    BY <1>1 DEF CheckOnline, AnswerInv, AnswerType, TaskInv, Holds, Early, Sent
  <2> QED
    BY <2>1, <2>2, <2>3 DEF AnswerInv
<1>2. ASSUME AnswerInv, NEW u \in Task, Admit(u) PROVE AnswerInv'
  <2>1. AnswerType'
    BY <1>2 DEF Admit, AnswerInv, AnswerType, ReqPhase
  <2>2. ASSUME NEW t \in Task, t # u PROVE TaskInv(t)'
    <3>1. SameTask(t)
      BY <1>2, <2>2 DEF Admit, AdmitTask, ReleaseTask, SameTask, AnswerInv, AnswerType, Holds
    <3> QED
      BY <1>2, <3>1, OtherTask DEF AnswerInv
  <2>3. TaskInv(u)'
    BY <1>2 DEF Admit, AdmitTask, ReleaseTask, AnswerInv, AnswerType, TaskInv, Holds, Early, Sent
  <2> QED
    BY <2>1, <2>2, <2>3 DEF AnswerInv
<1>3. ASSUME AnswerInv, NEW u \in Task, RegisterFuture(u) PROVE AnswerInv'
  <2>1. AnswerType'
    BY <1>3 DEF RegisterFuture, AnswerInv, AnswerType, ReqPhase
  <2>2. ASSUME NEW t \in Task, t # u PROVE TaskInv(t)'
    <3>1. SameTask(t)
      BY <1>3, <2>2 DEF RegisterFuture, SameTask, AnswerInv, AnswerType, Holds
    <3> QED
      BY <1>3, <3>1, OtherTask DEF AnswerInv
  <2>3. TaskInv(u)'
    BY <1>3 DEF RegisterFuture, AnswerInv, AnswerType, TaskInv, Holds, Early, Sent
  <2> QED
    BY <2>1, <2>2, <2>3 DEF AnswerInv
<1>4. ASSUME AnswerInv, NEW u \in Task, LookUp(u) PROVE AnswerInv'
  <2>1. AnswerType'
    BY <1>4 DEF LookUp, AnswerInv, AnswerType, ReqPhase
  <2>2. ASSUME NEW t \in Task, t # u PROVE TaskInv(t)'
    <3>1. SameTask(t)
      BY <1>4, <2>2 DEF LookUp, SameTask, AnswerInv, AnswerType, Holds
    <3> QED
      BY <1>4, <3>1, OtherTask DEF AnswerInv
  <2>3. TaskInv(u)'
    BY <1>4 DEF LookUp, AnswerInv, AnswerType, TaskInv, Holds, Early, Sent
  <2> QED
    BY <2>1, <2>2, <2>3 DEF AnswerInv
<1>5. ASSUME AnswerInv, NEW u \in Task, WriteToAgent(u) PROVE AnswerInv'
  <2>1. AnswerType'
    BY <1>5 DEF WriteToAgent, AnswerInv, AnswerType, ReqPhase
  <2>2. ASSUME NEW t \in Task, t # u PROVE TaskInv(t)'
    <3>1. SameTask(t)
      BY <1>5, <2>2 DEF WriteToAgent, SameTask, AnswerInv, AnswerType, Holds
    <3> QED
      BY <1>5, <3>1, OtherTask DEF AnswerInv
  <2>3. TaskInv(u)'
    BY <1>5 DEF WriteToAgent, AnswerInv, AnswerType, TaskInv, Holds, Early, Sent
  <2> QED
    BY <2>1, <2>2, <2>3 DEF AnswerInv
<1>6. ASSUME AnswerInv, NEW u \in Task, Receive(u) PROVE AnswerInv'
  <2>1. AnswerType'
    BY <1>6 DEF Receive, AnswerInv, AnswerType, ReqPhase
  <2>2. ASSUME NEW t \in Task, t # u PROVE TaskInv(t)'
    <3>1. SameTask(t)
      BY <1>6, <2>2 DEF Receive, SameTask, AnswerInv, AnswerType, Holds
    <3> QED
      BY <1>6, <3>1, OtherTask DEF AnswerInv
  <2>3. TaskInv(u)'
    BY <1>6 DEF Receive, AnswerInv, AnswerType, TaskInv, Holds, Early, Sent
  <2> QED
    BY <2>1, <2>2, <2>3 DEF AnswerInv
<1>7. ASSUME AnswerInv, NEW u \in Task, Timeout(u) PROVE AnswerInv'
  <2>1. AnswerType'
    BY <1>7 DEF Timeout, AnswerInv, AnswerType, ReqPhase
  <2>2. ASSUME NEW t \in Task, t # u PROVE TaskInv(t)'
    <3>1. SameTask(t)
      BY <1>7, <2>2 DEF Timeout, SameTask, AnswerInv, AnswerType, Holds
    <3> QED
      BY <1>7, <3>1, OtherTask DEF AnswerInv
  <2>3. TaskInv(u)'
    BY <1>7 DEF Timeout, AnswerInv, AnswerType, TaskInv, Holds, Early, Sent
  <2> QED
    BY <2>1, <2>2, <2>3 DEF AnswerInv
<1>8. ASSUME AnswerInv, NEW u \in Task, Unregister(u) PROVE AnswerInv'
  <2>1. AnswerType'
    BY <1>8 DEF Unregister, AnswerInv, AnswerType, ReqPhase
  <2>2. ASSUME NEW t \in Task, t # u PROVE TaskInv(t)'
    <3>1. SameTask(t)
      BY <1>8, <2>2 DEF Unregister, SameTask, AnswerInv, AnswerType, Holds
    <3> QED
      BY <1>8, <3>1, OtherTask DEF AnswerInv
  <2>3. TaskInv(u)'
    BY <1>8 DEF Unregister, AnswerInv, AnswerType, TaskInv, Holds, Early, Sent
  <2> QED
    BY <2>1, <2>2, <2>3 DEF AnswerInv
<1>9. ASSUME AnswerInv, NEW u \in Task, UnregisterDrop(u) PROVE AnswerInv'
  <2>1. AnswerType'
    BY <1>9 DEF UnregisterDrop, AnswerInv, AnswerType, ReqPhase
  <2>2. ASSUME NEW t \in Task, t # u PROVE TaskInv(t)'
    <3>1. SameTask(t)
      BY <1>9, <2>2 DEF UnregisterDrop, SameTask, AnswerInv, AnswerType, Holds
    <3> QED
      BY <1>9, <3>1, OtherTask DEF AnswerInv
  <2>3. TaskInv(u)'
    BY <1>9 DEF UnregisterDrop, AnswerInv, AnswerType, TaskInv, Holds, Early, Sent
  <2> QED
    BY <2>1, <2>2, <2>3 DEF AnswerInv
<1>10. ASSUME AnswerInv, NEW u \in Task, UnregisterFree(u) PROVE AnswerInv'
  <2>1. AnswerType'
    BY <1>10 DEF UnregisterFree, AnswerInv, AnswerType, ReqPhase
  <2>2. ASSUME NEW t \in Task, t # u PROVE TaskInv(t)'
    <3>1. SameTask(t)
      BY <1>10, <2>2 DEF UnregisterFree, ReleaseTask, SameTask, AnswerInv, AnswerType, Holds
    <3> QED
      BY <1>10, <3>1, OtherTask DEF AnswerInv
  <2>3. TaskInv(u)'
    BY <1>10 DEF UnregisterFree, ReleaseTask, AnswerInv, AnswerType, TaskInv, Holds, Early, Sent
  <2> QED
    BY <2>1, <2>2, <2>3 DEF AnswerInv
<1>11. ASSUME AnswerInv, NEW c \in Conn, Connect(c) PROVE AnswerInv'
  <2>1. AnswerType'
    BY <1>11 DEF Connect, AnswerInv, AnswerType, FinState, Reason, Ender
  <2>2. ASSUME NEW t \in Task PROVE SameTask(t)
    BY <1>11 DEF Connect, SameTask, AnswerInv, AnswerType, Holds, Ender
  <2> QED
    BY <1>11, <2>1, <2>2, OtherTask DEF AnswerInv
<1>12. ASSUME AnswerInv, NEW c \in Conn, Disconnect(c) PROVE AnswerInv'
  <2>1. AnswerType'
    BY <1>12 DEF Disconnect, AnswerInv, AnswerType, FinState, Reason, Ender
  <2>2. ASSUME NEW t \in Task PROVE SameTask(t)
    BY <1>12 DEF Disconnect, SameTask, AnswerInv, AnswerType, Holds, Ender
  <2> QED
    BY <1>12, <2>1, <2>2, OtherTask DEF AnswerInv
<1>13. ASSUME AnswerInv, NEW c \in Conn, UnregisterIfCurrent(c) PROVE AnswerInv'
  <2>1. fin[c].step = "idle" /\ UNCHANGED <<req, channel, pending, admitted>> /\ c \in Ender
    BY <1>13 DEF UnregisterIfCurrent, Ender
  <2>2. CASE fin' = [fin EXCEPT ![c].step = "ended"]
    BY <1>13, <2>1, <2>2, QuietEnder DEF AnswerInv, AnswerType, FinState, Holding
  <2>3. CASE fin' = [fin EXCEPT ![c] = [Idle EXCEPT !.step = "collect", !.why = "agent_disconnected",
                                                    !.host = ConnHost[c]]]
    <3>1. fin' \in [Ender -> FinState] /\ fin'[c].step = "collect"
      BY <1>13, <2>1, <2>3, HostAssumption, Zenon DEF AnswerInv, AnswerType, FinState, Idle, Reason
    <3> QED
      BY <1>13, <2>1, <2>3, <3>1, QuietEnder DEF AnswerInv, AnswerType, Holding
  <2> QED
    BY <1>13, <2>2, <2>3 DEF UnregisterIfCurrent
<1>14. ASSUME AnswerInv, NEW c \in Conn, NEW u \in Task, Stdout(c, u) PROVE AnswerInv'
  <2>1. AnswerType'
    BY <1>14 DEF Stdout, AnswerInv, AnswerType, FinState, Reason, Ender
  <2>2. ASSUME NEW t \in Task PROVE SameTask(t)
    BY <1>14 DEF Stdout, SameTask, AnswerInv, AnswerType, Holds, Ender
  <2> QED
    BY <1>14, <2>1, <2>2, OtherTask DEF AnswerInv
<1>15. ASSUME AnswerInv, NEW c \in Conn, NEW u \in Task, Result(c, u) PROVE AnswerInv'
  <2>1. AnswerType'
    BY <1>15, Zenon DEF Result, Reading, Idle, AnswerInv, AnswerType, FinState, Reason, Ender
  <2>2. ASSUME NEW t \in Task PROVE SameTask(t)
    BY <1>15 DEF Result, Reading, Idle, SameTask, AnswerInv, AnswerType, Holds, Ender
  <2> QED
    BY <1>15, <2>1, <2>2, OtherTask DEF AnswerInv
<1>16. ASSUME AnswerInv, NEW h \in Host, CloseAgent(h) PROVE AnswerInv'
  <2>1. fin["revoker"].step = "idle" /\ UNCHANGED <<req, channel, pending, admitted>>
    BY <1>16 DEF CloseAgent
  <2>2. CASE UNCHANGED fin
    BY <1>16, <2>1, <2>2 DEF AnswerInv, AnswerType, TaskInv, Holds
  <2>3. CASE fin' = [fin EXCEPT !["revoker"] =
                        [Idle EXCEPT !.step = "collect", !.why = "agent_revoked", !.host = h]]
    <3>1. "revoker" \in Ender
      BY DEF Ender
    <3>2. fin' \in [Ender -> FinState] /\ fin'["revoker"].step = "collect"
      BY <1>16, <2>3, <3>1, Zenon DEF AnswerInv, AnswerType, FinState, Idle, Reason
    <3> QED
      BY <1>16, <2>1, <2>3, <3>1, <3>2, QuietEnder DEF AnswerInv, AnswerType, Holding
  <2> QED
    BY <1>16, <2>2, <2>3 DEF CloseAgent
<1>17. ASSUME AnswerInv, NEW p \in Ender, Collect(p) PROVE AnswerInv'
  <2>1. AnswerType'
    BY <1>17 DEF Collect, AnswerInv, AnswerType, FinState, Reason, Ender
  <2>2. ASSUME NEW t \in Task PROVE SameTask(t)
    BY <1>17 DEF Collect, SameTask, AnswerInv, AnswerType, Holds, Ender
  <2> QED
    BY <1>17, <2>1, <2>2, OtherTask DEF AnswerInv
<1>18. ASSUME AnswerInv, NEW p \in Ender, TakeNext(p) PROVE AnswerInv'
  <2>1. fin[p].step = "next" /\ UNCHANGED <<req, channel, pending, admitted>>
    BY <1>18, Zenon DEF TakeNext
  <2>2. ASSUME NEW st \in {"idle", "ended"}, fin' = [fin EXCEPT ![p] = [Idle EXCEPT !.step = st]]
        PROVE  AnswerInv'
    <3>1. fin' \in [Ender -> FinState] /\ fin'[p].step = st
      BY <1>18, <2>2, Zenon DEF AnswerInv, AnswerType, FinState, Idle, Reason
    <3> QED
      BY <1>18, <2>1, <2>2, <3>1, QuietEnder DEF AnswerInv, AnswerType, Holding
  <2>3. ASSUME NEW t \in fin[p].todo,
               fin' = [fin EXCEPT ![p].todo = @ \ {t}, ![p].task = t, ![p].step = "take"]
        PROVE  AnswerInv'
    <3>1. t \in Task
      BY <1>18, <2>3 DEF AnswerInv, AnswerType, FinState
    <3>2. /\ fin' \in [Ender -> FinState]
          /\ fin'[p].step = "take" /\ fin'[p].task = t
      <4> DEFINE f == [fin[p] EXCEPT !.todo = @ \ {t}, !.task = t, !.step = "take"]
      <4>0. fin[p] \in FinState
        BY <1>18 DEF AnswerInv, AnswerType
      <4>1. f \in FinState /\ f.step = "take" /\ f.task = t
        BY <3>1, <4>0, Zenon DEF FinState
      <4>2. fin' = [fin EXCEPT ![p] = f]
        BY <1>18, <2>3, Zenon DEF AnswerInv, AnswerType, FinState
      <4> HIDE DEF f
      <4> QED
        BY <1>18, <4>1, <4>2 DEF AnswerInv, AnswerType
    <3> QED
      <4>1. \A q \in Ender : q # p => fin'[q] = fin[q]
        BY <1>18, <2>3 DEF AnswerInv, AnswerType
      <4>2. fin[p].step \notin Holding /\ fin'[p].step \notin Holding
        BY <2>1, <3>2 DEF Holding
      <4> QED
        BY <1>18, <2>1, <3>1, <3>2, <4>1, <4>2, QuietEnder
  <2> QED
    BY <1>18, <2>2, <2>3, Zenon DEF TakeNext
<1>19. ASSUME AnswerInv, NEW p \in Ender, FinishDrop(p) PROVE AnswerInv'
  <2>1. AnswerType'
    BY <1>19 DEF FinishDrop, EndStep, AnswerInv, AnswerType, FinState
  <2>2. /\ UNCHANGED <<req, channel, pending, admitted>>
        /\ fin[p].step = "drop" /\ fin'[p].step = "free"
        /\ fin'[p].task = fin[p].task /\ fin'[p].had = fin[p].had
        /\ \A q \in Ender : q # p => fin'[q] = fin[q]
    BY <1>19 DEF FinishDrop, EndStep, AnswerInv, AnswerType, FinState
  <2>3. ASSUME NEW t \in Task PROVE TaskInv(t)'
    <3>1. \A q \in Ender : Holds(q, t)' <=> Holds(q, t)
      BY <2>2 DEF Holds
    <3> QED
      BY <1>19, <2>2, <3>1 DEF AnswerInv, TaskInv
  <2> QED
    BY <2>1, <2>3 DEF AnswerInv
<1>20. ASSUME AnswerInv, NEW p \in Ender, FinishFree(p) PROVE AnswerInv'
  <2>1. AnswerType'
    BY <1>20 DEF FinishFree, EndStep, AnswerInv, AnswerType, FinState, Ender
  <2>2. /\ UNCHANGED <<req, channel, pending>>
        /\ admitted' = admitted \ {fin[p].task}
        /\ \A t \in Task, q \in Ender : Holds(q, t)' <=> Holds(q, t)
        /\ \A q \in Ender : q # p => fin'[q] = fin[q]
    BY <1>20 DEF FinishFree, EndStep, ReleaseTask, AnswerInv, AnswerType, Holds
  <2>3. ASSUME NEW t \in Task PROVE TaskInv(t)'
    <3>1. TaskInv(t) /\ (t \in admitted' => t \in admitted)
      BY <1>20, <2>2 DEF AnswerInv
    <3>2. Holds(p, t) => t \notin admitted'
      BY <2>2 DEF Holds
    <3>3. ASSUME NEW q \in Ender, Holds(q, t)', fin'[q].step = "deliver" PROVE t \notin admitted'
      <4>1. Holds(q, t)
        BY <2>2, <3>3
      <4>2. CASE q = p
        BY <3>2, <4>1, <4>2
      <4>3. CASE q # p
        <5>1. fin[q].step = "deliver"
          BY <2>2, <3>3, <4>3
        <5> QED
          BY <3>1, <4>1, <5>1 DEF TaskInv
      <4> QED
        BY <4>2, <4>3
    <3> QED
      BY <1>20, <2>2, <3>1, <3>3, Zenon DEF AnswerInv, TaskInv
  <2> QED
    BY <2>1, <2>3 DEF AnswerInv
<1>21. ASSUME AnswerInv, NEW p \in Ender, FinishTake(p) PROVE AnswerInv'
  <2>1. AnswerType'
    BY <1>21 DEF FinishTake, AnswerInv, AnswerType, FinState
  <2>2. ASSUME NEW t \in Task, t # fin[p].task PROVE TaskInv(t)'
    <3>1. SameTask(t)
      BY <1>21, <2>2 DEF FinishTake, SameTask, AnswerInv, AnswerType, Holds
    <3> QED
      BY <1>21, <3>1, OtherTask DEF AnswerInv
  <2>3. ASSUME NEW t \in Task, t = fin[p].task PROVE TaskInv(t)'
    <3>1. /\ UNCHANGED <<req, channel, admitted>>
          /\ t \notin pending'
          /\ Holds(p, t)' <=> t \in pending
          /\ fin'[p].step = "drop" /\ ~Holds(p, t)
          /\ \A q \in Ender : q # p => fin'[q] = fin[q]
      BY <1>21, <2>3 DEF FinishTake, AnswerInv, AnswerType, FinState, Holds
    <3>2. \A q \in Ender : q # p => (Holds(q, t)' <=> Holds(q, t))
      BY <3>1 DEF Holds
    <3> QED
      BY <1>21, <3>1, <3>2 DEF AnswerInv, TaskInv
  <2> QED
    BY <2>1, <2>2, <2>3 DEF AnswerInv
<1>22. ASSUME AnswerInv, NEW p \in Ender, Deliver(p) PROVE AnswerInv'
  <2>1. AnswerType'
    BY <1>22 DEF Deliver, AnswerInv, AnswerType, FinState, Idle, Reason
  <2>2. \A t \in Task, q \in Ender : Holds(q, t)' <=> Holds(q, t) /\ q # p
    BY <1>22 DEF Deliver, AnswerInv, AnswerType, Holds, Idle
  <2>3. /\ UNCHANGED <<req, admitted, pending>>
        /\ \A q \in Ender : q # p => fin'[q] = fin[q]
    BY <1>22 DEF Deliver, AnswerInv, AnswerType
  <2>4. \A t \in Task : /\ ~Holds(p, t) => channel'[t] = channel[t]
                        /\ Holds(p, t) => channel'[t] # None
    <3>1. channel' = IF fin[p].had /\ channel[fin[p].task] = None
                       THEN [channel EXCEPT ![fin[p].task] = fin[p].why] ELSE channel
      BY <1>22 DEF Deliver
    <3>2. fin[p].step = "deliver" /\ fin[p].task \in Task /\ fin[p].why # None
      BY <1>22 DEF Deliver, AnswerInv, AnswerType, FinState, Reason
    <3> QED
      BY <1>22, <3>1, <3>2 DEF AnswerInv, AnswerType, Holds
  <2>5. ASSUME NEW t \in Task PROVE TaskInv(t)'
    <3>1. ~Holds(p, t) \/ t \notin admitted
      BY <1>22 DEF Deliver, AnswerInv, TaskInv
    <3>2. TaskInv(t)
      BY <1>22 DEF AnswerInv
    <3>3. req[t] \in Early => t \notin pending' /\ channel'[t] = None /\ \A q \in Ender : ~Holds(q, t)'
      BY <2>2, <2>3, <2>4, <3>2, Zenon DEF TaskInv
    <3>4. channel'[t] # None => t \notin admitted'
      BY <2>3, <2>4, <3>1, <3>2 DEF TaskInv
    <3>5. \A q \in Ender : Holds(q, t)' /\ fin'[q].step = "deliver" => t \notin admitted'
      BY <2>2, <2>3, <3>2 DEF TaskInv
    <3>6. req[t] \in Sent /\ channel'[t] = None => t \in pending' \/ \E q \in Ender : Holds(q, t)'
      BY <2>2, <2>3, <2>4, <3>2, Zenon DEF TaskInv
    <3> QED
      BY <2>3, <3>2, <3>3, <3>4, <3>5, <3>6, Zenon DEF TaskInv
  <2> QED
    BY <2>1, <2>5 DEF AnswerInv
<1>23. ASSUME AnswerInv, UNCHANGED vars PROVE AnswerInv'
  BY <1>23, Zenon DEF vars, AnswerInv, AnswerType, TaskInv, Holds
<1> QED
  BY <1>1, <1>2, <1>3, <1>4, <1>5, <1>6, <1>7, <1>8, <1>9, <1>10, <1>11, <1>12, <1>13, <1>14,
     <1>15, <1>16, <1>17, <1>18, <1>19, <1>20, <1>21, <1>22, <1>23
     DEF Next, Request, Ending

\* At start nothing is registered, admitted or answered.
LEMMA AnswerInit == Init => AnswerInv
<1> SUFFICES ASSUME Init PROVE AnswerInv
  OBVIOUS
<1>1. Idle \in FinState /\ Idle.step = "idle"
  BY DEF Idle, FinState, Reason
<1>2. \A p \in Ender : fin[p].step = "idle"
  BY <1>1 DEF Init
<1>3. fin \in [Ender -> FinState]
  BY <1>1 DEF Init
<1>4. req \in [Task -> ReqPhase] /\ channel \in [Task -> Reason \cup {None}]
  BY DEF Init, ReqPhase
<1>5. ASSUME NEW t \in Task PROVE TaskInv(t)
  <2>1. req[t] = "new" /\ channel[t] = None /\ t \notin pending /\ t \notin admitted
    BY DEF Init
  <2>2. \A p \in Ender : ~Holds(p, t)
    BY <1>2 DEF Holds
  <2> QED
    BY <2>1, <2>2 DEF TaskInv, Sent
<1> QED
  BY <1>2, <1>3, <1>4, <1>5 DEF AnswerInv, AnswerType

\* Whatever ends a task (its result, a timeout, a failed send, a disconnection, a revocation, or
\* several at once), the client that gets the answer finds the slot already released (finishTask,
\* UnregisterFuture).
THEOREM SlotFreed == Spec => []SlotFreedBeforeAnswer
<1>1. AnswerInv => SlotFreedBeforeAnswer
  BY DEF AnswerInv, TaskInv, SlotFreedBeforeAnswer
<1> QED
  BY <1>1, AnswerInit, AnswerStep, PTL DEF Spec

\* A request that waits is never forgotten (ResolveFuturesForHostname, HandleMessage): its channel
\* is registered, or a goroutine holds it and has yet to deliver.
THEOREM AnswerAlwaysPossible == Spec => []NoTaskForgotten
<1>1. AnswerInv => NoTaskForgotten
  BY DEF AnswerInv, TaskInv, Sent, NoTaskForgotten
<1> QED
  BY <1>1, AnswerInit, AnswerStep, PTL DEF Spec

-----------------------------------------------------------------------------
(* The budget of the stdout *)

\* f gives every subset of S the sum of the values v of its members.
Sums(f, S, v) ==
    /\ f \in [SUBSET S -> Nat]
    /\ \A t \in S : v[t] \in Nat
    /\ \A X \in SUBSET S, t \in S : t \notin X => f[X \cup {t}] = f[X] + v[t]

Agree(v, w, S) == \A u \in S : w[u] = v[u]

LEMMA Regroup == \A a, b, c \in Nat : (a + b) + c = (a + c) + b
  OBVIOUS

\* A new member.
LEMMA SumsAdd ==
  ASSUME NEW f, NEW S, NEW v, Sums(f, S, v), NEW t, t \notin S,
         NEW w, w[t] \in Nat, Agree(v, w, S)
  PROVE  \E g : Sums(g, S \cup {t}, w) /\ g[S \cup {t}] = f[S] + w[t]
<1> DEFINE U == S \cup {t}
<1> DEFINE g == [X \in SUBSET U |-> IF t \in X THEN f[X \ {t}] + w[t] ELSE f[X]]
<1>f. /\ \A X \in SUBSET S : f[X] \in Nat
      /\ \A X \in SUBSET S, u \in S : u \notin X => f[X \cup {u}] = f[X] + v[u]
      /\ \A u \in S : v[u] \in Nat
  BY DEF Sums
<1>1. \A X \in SUBSET U : t \in X => (X \ {t} \in SUBSET S /\ g[X] = f[X \ {t}] + w[t])
  OBVIOUS
<1>2. \A X \in SUBSET U : t \notin X => (X \in SUBSET S /\ g[X] = f[X])
  OBVIOUS
<1>3. g \in [SUBSET U -> Nat]
  <2>1. \A X \in SUBSET U : (IF t \in X THEN f[X \ {t}] + w[t] ELSE f[X]) \in Nat
    BY <1>f
  <2> QED BY <2>1, Zenon
<1> HIDE DEF g
<1>4. ASSUME NEW X \in SUBSET U, NEW u \in U, u \notin X
      PROVE  g[X \cup {u}] = g[X] + w[u]
  <2>0. X \cup {u} \in SUBSET U
    OBVIOUS
  <2>1. CASE u = t
    <3>1. (X \cup {u}) \ {t} = X /\ t \in X \cup {u} /\ t \notin X
      BY <1>4, <2>1
    <3>2. g[X \cup {u}] = f[X] + w[t]
      BY <1>1, <2>0, <3>1
    <3>3. g[X] = f[X]
      BY <1>2, <3>1
    <3> QED BY <2>1, <3>2, <3>3
  <2>2. CASE u # t /\ t \in X
    <3>1. (X \cup {u}) \ {t} = (X \ {t}) \cup {u} /\ u \in S /\ u \notin X \ {t} /\ X \ {t} \in SUBSET S
      BY <1>4, <2>2
    <3>2. f[(X \ {t}) \cup {u}] = f[X \ {t}] + v[u] /\ f[X \ {t}] \in Nat
      BY <1>f, <3>1, Zenon
    <3>3. g[X \cup {u}] = (f[X \ {t}] + v[u]) + w[t] /\ g[X] = f[X \ {t}] + w[t]
      BY <1>1, <2>0, <2>2, <3>1, <3>2, Zenon
    <3>4. w[u] = v[u] /\ v[u] \in Nat
      BY <1>f, <3>1 DEF Agree
    <3>5. (f[X \ {t}] + v[u]) + w[t] = (f[X \ {t}] + w[t]) + v[u]
      BY <3>2, <3>4, Regroup, Zenon
    <3> QED BY <3>3, <3>4, <3>5
  <2>3. CASE u # t /\ t \notin X
    <3>1. u \in S /\ X \in SUBSET S /\ t \notin X \cup {u}
      BY <2>3
    <3>2. g[X \cup {u}] = f[X \cup {u}] /\ g[X] = f[X]
      BY <1>2, <2>0, <2>3, <3>1
    <3>3. f[X \cup {u}] = f[X] + v[u] /\ w[u] = v[u]
      BY <1>f, <1>4, <3>1 DEF Agree
    <3> QED BY <3>2, <3>3
  <2> QED BY <2>1, <2>2, <2>3
<1>5. g[U] = f[S] + w[t]
  <2>1. U \ {t} = S /\ U \in SUBSET U /\ t \in U
    OBVIOUS
  <2> QED BY <1>1, <2>1
<1>6. Sums(g, U, w)
  <2>1. \A u \in U : w[u] \in Nat
    BY <1>f DEF Agree
  <2> QED BY <1>3, <1>4, <2>1 DEF Sums
<1> QED BY <1>5, <1>6

\* A member leaves.
LEMMA SumsRemove ==
  ASSUME NEW f, NEW S, NEW v, Sums(f, S, v), NEW t, t \in S, NEW w, Agree(v, w, S \ {t})
  PROVE  \E g : Sums(g, S \ {t}, w) /\ f[S] = g[S \ {t}] + v[t] /\ g[S \ {t}] \in Nat
<1> DEFINE g == [X \in SUBSET (S \ {t}) |-> f[X]]
<1>1. \A X \in SUBSET (S \ {t}) : X \in SUBSET S /\ g[X] = f[X]
  OBVIOUS
<1>2. g \in [SUBSET (S \ {t}) -> Nat]
  BY <1>1 DEF Sums
<1> HIDE DEF g
<1>3. ASSUME NEW X \in SUBSET (S \ {t}), NEW u \in S \ {t}, u \notin X
      PROVE  g[X \cup {u}] = g[X] + w[u]
  <2>1. X \cup {u} \in SUBSET (S \ {t}) /\ X \in SUBSET S /\ u \in S /\ w[u] = v[u]
    BY DEF Agree
  <2>2. f[X \cup {u}] = f[X] + v[u]
    BY <1>3, <2>1 DEF Sums
  <2> QED BY <1>1, <2>1, <2>2
<1>4. f[S] = g[S \ {t}] + v[t] /\ g[S \ {t}] \in Nat
  <2>1. (S \ {t}) \cup {t} = S /\ S \ {t} \in SUBSET S /\ t \notin S \ {t} /\ S \ {t} \in SUBSET (S \ {t})
    OBVIOUS
  <2>2. f[(S \ {t}) \cup {t}] = f[S \ {t}] + v[t]
    BY <2>1, Zenon DEF Sums
  <2> QED BY <1>1, <1>2, <2>1, <2>2, Zenon
<1>5. Sums(g, S \ {t}, w)
  <2>1. \A u \in S \ {t} : w[u] \in Nat
    BY DEF Agree, Sums
  <2> QED BY <1>2, <1>3, <2>1 DEF Sums
<1> QED BY <1>4, <1>5

\* x is the sum of the values v of the members of S.
IsSum(x, S, v) == \E f : Sums(f, S, v) /\ x = f[S]

LEMMA SumNone == ASSUME NEW v PROVE IsSum(0, {}, v)
<1> DEFINE f == [X \in SUBSET {} |-> 0]
<1>1. f \in [SUBSET {} -> Nat] /\ f[{}] = 0
  OBVIOUS
<1> HIDE DEF f
<1>2. Sums(f, {}, v)
  BY <1>1 DEF Sums
<1> QED BY <1>1, <1>2 DEF IsSum

LEMMA SumAdd ==
  ASSUME NEW S, NEW v, NEW x, IsSum(x, S, v), NEW t, t \notin S,
         NEW w, w[t] \in Nat, Agree(v, w, S)
  PROVE  IsSum(x + w[t], S \cup {t}, w) /\ x \in Nat
<1>1. PICK f : Sums(f, S, v) /\ x = f[S]
  BY DEF IsSum
<1>2. \E g : Sums(g, S \cup {t}, w) /\ g[S \cup {t}] = f[S] + w[t]
  BY <1>1, SumsAdd
<1>3. x \in Nat
  BY <1>1 DEF Sums
<1> QED BY <1>1, <1>2, <1>3, Zenon DEF IsSum

LEMMA SumRemove ==
  ASSUME NEW S, NEW v, NEW x, IsSum(x, S, v), NEW t, t \in S, NEW w, Agree(v, w, S \ {t})
  PROVE  IsSum(x - v[t], S \ {t}, w) /\ x - v[t] \in Nat /\ x \in Nat /\ v[t] \in Nat
<1>1. PICK f : Sums(f, S, v) /\ x = f[S]
  BY DEF IsSum
<1>2. PICK g : Sums(g, S \ {t}, w) /\ f[S] = g[S \ {t}] + v[t] /\ g[S \ {t}] \in Nat
  BY <1>1, SumsRemove
<1>3. x \in Nat /\ v[t] \in Nat
  BY <1>1 DEF Sums
<1> DEFINE y == g[S \ {t}]
<1>4. y \in Nat /\ x = y + v[t] /\ Sums(g, S \ {t}, w)
  BY <1>1, <1>2
<1>5. IsSum(y, S \ {t}, w)
  BY <1>4 DEF IsSum
<1> HIDE DEF y
<1>6. x - v[t] = y
  BY <1>3, <1>4
<1> QED BY <1>3, <1>4, <1>5, <1>6

\* A member changes its value.
LEMMA SumChange ==
  ASSUME NEW S, NEW v, NEW x, IsSum(x, S, v), NEW t, t \in S,
         NEW w, w[t] \in Nat, Agree(v, w, S \ {t})
  PROVE  IsSum((x - v[t]) + w[t], S, w) /\ x \in Nat /\ v[t] \in Nat
<1> DEFINE R == S \ {t}  y == x - v[t]
<1>1. IsSum(y, R, w) /\ x \in Nat /\ v[t] \in Nat
  BY SumRemove
<1>2. Agree(w, w, R) /\ t \notin R /\ R \cup {t} = S
  BY DEF Agree
<1> HIDE DEF R, y
<1>3. IsSum(y + w[t], R \cup {t}, w)
  BY <1>1, <1>2, SumAdd, Zenon
<1> QED BY <1>1, <1>2, <1>3, Zenon DEF y

-----------------------------------------------------------------------------
\* What the limit of a task leaves it.
Room == [t \in Task |-> StdoutMax - stdout[t]]

\* What the slots reserve is divided between what is held and the room of the admitted tasks.
BudgetInv ==
    /\ admitted \subseteq Task /\ stdout \in [Task -> Nat] /\ inflight \in Int /\ held \in Int
    /\ inflight * StdoutMax <= Budget
    /\ IsSum(inflight * StdoutMax - held, admitted, Room)

LEMMA Times ==
  ASSUME NEW a \in Int, NEW m \in Nat
  PROVE  a * m \in Int /\ (a + 1) * m = a * m + m /\ (a - 1) * m = a * m - m
  OBVIOUS

LEMMA AdmitBudget ==
  ASSUME BudgetInv, NEW t \in Task, t \notin admitted, ~Refused(t), AdmitTask(t)
  PROVE  BudgetInv'
<1> DEFINE r == inflight * StdoutMax
<1>0. /\ admitted \subseteq Task /\ stdout \in [Task -> Nat] /\ inflight \in Int /\ held \in Int
      /\ IsSum(r - held, admitted, Room)
  BY DEF BudgetInv
<1>1. /\ admitted' = admitted \cup {t} /\ stdout' = [stdout EXCEPT ![t] = 0]
      /\ inflight' = inflight + 1 /\ held' = held
  BY DEF AdmitTask
<1>2. StdoutMax \in Nat /\ Budget \in Nat
  BY LimitAssumption
<1>3. r \in Int /\ (inflight + 1) * StdoutMax = r + StdoutMax
  BY <1>0, <1>2, Times
<1> HIDE DEF r
<1>4. r + StdoutMax <= Budget
  <2>1. ~((inflight + 1) * StdoutMax > Budget)
    BY DEF Refused
  <2> QED BY <1>2, <1>3, <2>1
<1>5. Agree(Room, Room', admitted) /\ Room'[t] = StdoutMax
  <2>1. stdout'[t] = 0 /\ \A u \in admitted : u \in Task /\ stdout'[u] = stdout[u]
    BY <1>0, <1>1
  <2>2. \A u \in Task : Room[u] = StdoutMax - stdout[u] /\ Room'[u] = StdoutMax - stdout'[u]
    BY DEF Room
  <2>3. StdoutMax - 0 = StdoutMax
    BY <1>2
  <2> QED BY <2>1, <2>2, <2>3 DEF Agree
<1>6. IsSum((r - held) + Room'[t], admitted \cup {t}, Room')
  BY <1>0, <1>2, <1>5, SumAdd, Zenon
<1>7. (r - held) + StdoutMax = (r + StdoutMax) - held
  BY <1>0, <1>2, <1>3
<1>8. IsSum(inflight' * StdoutMax - held', admitted', Room')
  BY <1>1, <1>3, <1>5, <1>6, <1>7
<1>9. admitted' \subseteq Task /\ stdout' \in [Task -> Nat] /\ inflight' \in Int /\ held' \in Int
  BY <1>0, <1>1
<1> QED BY <1>1, <1>3, <1>4, <1>8, <1>9 DEF BudgetInv

LEMMA ReleaseBudget ==
  ASSUME BudgetInv, NEW t, ReleaseTask(t)
  PROVE  BudgetInv'
<1> DEFINE r == inflight * StdoutMax
<1>0. /\ admitted \subseteq Task /\ stdout \in [Task -> Nat] /\ inflight \in Int /\ held \in Int
      /\ IsSum(r - held, admitted, Room) /\ r <= Budget
  BY DEF BudgetInv
<1>1. CASE t \in admitted
  <2>1. /\ admitted' = admitted \ {t} /\ stdout' = [stdout EXCEPT ![t] = 0]
        /\ inflight' = inflight - 1 /\ held' = held - stdout[t]
    BY <1>1 DEF ReleaseTask
  <2>2. StdoutMax \in Nat /\ Budget \in Nat /\ t \in Task /\ stdout[t] \in Nat
    BY <1>0, <1>1, LimitAssumption
  <2>3. r \in Int /\ (inflight - 1) * StdoutMax = r - StdoutMax
    BY <1>0, <2>2, Times
  <2> HIDE DEF r
  <2>4. Agree(Room, Room', admitted \ {t}) /\ Room[t] = StdoutMax - stdout[t]
    <3>1. \A u \in admitted \ {t} : u \in Task /\ stdout'[u] = stdout[u]
      BY <1>0, <2>1
    <3>2. \A u \in Task : Room[u] = StdoutMax - stdout[u] /\ Room'[u] = StdoutMax - stdout'[u]
      BY DEF Room
    <3> QED BY <2>2, <3>1, <3>2 DEF Agree
  <2>5. IsSum((r - held) - Room[t], admitted \ {t}, Room')
    BY <1>0, <1>1, <2>4, SumRemove, Zenon
  <2>6. (r - held) - (StdoutMax - stdout[t]) = (r - StdoutMax) - (held - stdout[t])
    BY <1>0, <2>2, <2>3
  <2>7. IsSum(inflight' * StdoutMax - held', admitted', Room')
    BY <2>1, <2>3, <2>4, <2>5, <2>6
  <2>8. admitted' \subseteq Task /\ stdout' \in [Task -> Nat] /\ inflight' \in Int /\ held' \in Int
    BY <1>0, <2>1, <2>2
  <2>9. inflight' * StdoutMax <= Budget
    <3>1. r - StdoutMax <= Budget
      BY <1>0, <2>2, <2>3
    <3> QED BY <2>1, <2>3, <3>1
  <2> QED BY <2>7, <2>8, <2>9 DEF BudgetInv
<1>2. CASE t \notin admitted
  BY <1>2 DEF ReleaseTask, admission, BudgetInv, Room
<1> QED BY <1>1, <1>2

LEMMA MinOfThree ==
  ASSUME NEW a \in Int, NEW b \in Int, NEW c \in Int
  PROVE  Min({a, b, c}) \in {a, b, c} /\ Min({a, b, c}) <= a /\ Min({a, b, c}) <= b /\ Min({a, b, c}) <= c
<1>1. \E x \in {a, b, c} : \A y \in {a, b, c} : x <= y
  <2>1. CASE a <= b /\ a <= c
    BY <2>1
  <2>2. CASE b <= a /\ b <= c
    BY <2>2
  <2>3. CASE c <= a /\ c <= b
    BY <2>3
  <2> QED BY <2>1, <2>2, <2>3
<1>2. Min({a, b, c}) \in {a, b, c} /\ \A y \in {a, b, c} : Min({a, b, c}) <= y
  BY <1>1 DEF Min
<1> QED BY <1>2

\* What the limit of an admitted task leaves it is in the budget: it is part of what the slots reserve.
LEMMA RoomInBudget ==
  ASSUME BudgetInv, NEW t \in admitted
  PROVE  /\ StdoutMax - stdout[t] \in Nat /\ StdoutMax - stdout[t] <= Budget - held
         /\ t \in Task /\ stdout[t] \in Nat
<1> DEFINE r == inflight * StdoutMax
<1>0. /\ admitted \subseteq Task /\ stdout \in [Task -> Nat] /\ inflight \in Int /\ held \in Int
      /\ IsSum(r - held, admitted, Room) /\ r <= Budget
  BY DEF BudgetInv
<1>1. StdoutMax \in Nat /\ Budget \in Nat /\ t \in Task /\ stdout[t] \in Nat
  BY <1>0, LimitAssumption
<1>2. r \in Int
  BY <1>0, <1>1, Times
<1> HIDE DEF r
<1>3. Agree(Room, Room, admitted \ {t}) /\ Room[t] = StdoutMax - stdout[t]
  BY <1>1 DEF Agree, Room
<1>4. (r - held) - Room[t] \in Nat /\ Room[t] \in Nat
  BY <1>0, <1>3, SumRemove, Zenon
<1>5. (r - held) - (StdoutMax - stdout[t]) \in Nat /\ StdoutMax - stdout[t] \in Nat
  BY <1>3, <1>4
<1>6. StdoutMax - stdout[t] <= Budget - held
  BY <1>0, <1>1, <1>2, <1>5
<1> QED BY <1>1, <1>5, <1>6

\* What a chunk of size units keeps.
LEMMA AllowedFacts ==
  ASSUME BudgetInv, NEW t \in Task, NEW size \in Nat
  PROVE  /\ Allowed(t, size) \in Nat
         /\ t \in admitted => StdoutMax - stdout[t] \in Nat /\ Allowed(t, size) <= StdoutMax - stdout[t]
         /\ t \notin admitted => Allowed(t, size) = 0
<1>0. StdoutMax \in Nat /\ Budget \in Nat /\ stdout[t] \in Nat /\ held \in Int
  BY LimitAssumption DEF BudgetInv
<1> DEFINE n == Allowed(t, size)
<1>1. CASE t \in admitted
  <2> DEFINE a == StdoutMax - stdout[t]  b == Budget - held
  <2>1. a \in Nat /\ a <= b
    BY <1>1, RoomInBudget
  <2>2. b \in Int
    BY <1>0
  <2>3. n = Min({size, a, b})
    BY <1>1 DEF Allowed
  <2> HIDE DEF a, b, n
  <2>i. size \in Int /\ a \in Int /\ b \in Int
    BY <2>1, <2>2
  <2>m. Min({size, a, b}) \in {size, a, b} /\ Min({size, a, b}) <= a
    BY <2>i, MinOfThree, Zenon
  <2>4. n \in {size, a, b} /\ n <= a
    BY <2>3, <2>m, Zenon
  <2>5. n \in Nat
    BY <2>1, <2>2, <2>4
  <2> QED BY <1>1, <2>1, <2>4, <2>5 DEF a, n
<1>2. CASE t \notin admitted
  BY <1>2 DEF Allowed
<1> QED BY <1>1, <1>2

LEMMA StdoutBudget ==
  ASSUME BudgetInv, NEW c \in Conn, NEW t \in Task, Stdout(c, t)
  PROVE  BudgetInv'
<1> DEFINE r == inflight * StdoutMax
<1>0. /\ admitted \subseteq Task /\ stdout \in [Task -> Nat] /\ inflight \in Int /\ held \in Int
      /\ IsSum(r - held, admitted, Room) /\ r <= Budget
  BY DEF BudgetInv
<1>1. PICK size \in 1..(StdoutMax + 1) : /\ stdout' = [stdout EXCEPT ![t] = @ + Allowed(t, size)]
                                        /\ held' = held + Allowed(t, size)
  BY Zenon DEF Stdout
<1> DEFINE n == Allowed(t, size)
<1>2. stdout' = [stdout EXCEPT ![t] = @ + n] /\ held' = held + n /\ admitted' = admitted /\ inflight' = inflight
  BY <1>1, Zenon DEF Stdout
<1>3. StdoutMax \in Nat /\ Budget \in Nat /\ stdout[t] \in Nat /\ size \in Nat
  BY <1>0, LimitAssumption
<1>4. r \in Int
  BY <1>0, <1>3, Times
<1>5. /\ n \in Nat
      /\ t \in admitted => StdoutMax - stdout[t] \in Nat /\ n <= StdoutMax - stdout[t]
      /\ t \notin admitted => n = 0
  BY <1>3, AllowedFacts
<1> HIDE DEF n, r
<1>6. /\ \A u \in Task : Room[u] = StdoutMax - stdout[u] /\ Room'[u] = StdoutMax - stdout'[u]
      /\ \A u \in Task : u # t => stdout'[u] = stdout[u]
      /\ stdout'[t] = stdout[t] + n
  BY <1>0, <1>2 DEF Room
<1>7. Agree(Room, Room', admitted \ {t})
  BY <1>0, <1>6, Zenon DEF Agree
<1>8. IsSum(r - held', admitted, Room')
  <2>1. CASE t \in admitted
    <3>1. Room[t] = StdoutMax - stdout[t] /\ Room'[t] = StdoutMax - (stdout[t] + n)
      BY <1>6, Zenon
    <3>2. StdoutMax - (stdout[t] + n) \in Nat
      BY <1>3, <1>5, <2>1
    <3>3. IsSum(((r - held) - Room[t]) + Room'[t], admitted, Room')
      BY <1>0, <1>7, <2>1, <3>1, <3>2, SumChange, Zenon
    <3>4. ((r - held) - (StdoutMax - stdout[t])) + (StdoutMax - (stdout[t] + n)) = r - (held + n)
      BY <1>0, <1>3, <1>4, <1>5
    <3> QED BY <1>2, <3>1, <3>3, <3>4, Zenon
  <2>2. CASE t \notin admitted
    <3>1. stdout' = stdout /\ held' = held
      BY <1>0, <1>2, <1>5, <2>2
    <3>2. Room' = Room
      BY <3>1 DEF Room
    <3> QED BY <1>0, <3>1, <3>2
  <2> QED BY <2>1, <2>2
<1>9. admitted' \subseteq Task /\ stdout' \in [Task -> Nat] /\ inflight' \in Int /\ held' \in Int
  BY <1>0, <1>2, <1>3, <1>5
<1> QED BY <1>0, <1>2, <1>8, <1>9 DEF BudgetInv, r

LEMMA BudgetStep == ASSUME AnswerInv, BudgetInv, [Next]_vars PROVE BudgetInv'
<1>0. ASSUME UNCHANGED admission PROVE BudgetInv'
  BY <1>0 DEF admission, BudgetInv, Room
<1>1. CASE UNCHANGED vars
  BY <1>0, <1>1 DEF vars
<1>2. ASSUME NEW t \in Task, Request(t) PROVE BudgetInv'
  <2>1. CASE Admit(t)
    <3>1. t \notin admitted
      BY <2>1, Zenon DEF Admit, AnswerInv, TaskInv
    <3> QED BY <1>0, <2>1, <3>1, AdmitBudget DEF Admit
  <2>2. CASE UnregisterFree(t)
    BY <2>2, ReleaseBudget DEF UnregisterFree
  <2>3. CASE CheckOnline(t) \/ RegisterFuture(t) \/ LookUp(t) \/ WriteToAgent(t) \/ Receive(t) \/ Timeout(t)
             \/ Unregister(t) \/ UnregisterDrop(t)
    <3>1. UNCHANGED admission
      BY <2>3 DEF CheckOnline, RegisterFuture, LookUp, WriteToAgent, Receive, Timeout, Unregister, UnregisterDrop
    <3> QED BY <1>0, <3>1
  <2> QED BY <1>2, <2>1, <2>2, <2>3 DEF Request
<1>3. ASSUME NEW c \in Conn,
             \/ Connect(c) \/ Disconnect(c) \/ UnregisterIfCurrent(c)
             \/ \E t \in Task : Stdout(c, t) \/ Result(c, t)
      PROVE  BudgetInv'
  <2>1. CASE Connect(c) \/ Disconnect(c) \/ UnregisterIfCurrent(c)
    <3>1. UNCHANGED admission
      BY <2>1 DEF Connect, Disconnect, UnregisterIfCurrent
    <3> QED BY <1>0, <3>1
  <2>2. ASSUME NEW t \in Task, Stdout(c, t) PROVE BudgetInv'
    BY <2>2, StdoutBudget
  <2>3. ASSUME NEW t \in Task, Result(c, t) PROVE BudgetInv'
    BY <1>0, <2>3 DEF Result
  <2> QED BY <1>3, <2>1, <2>2, <2>3
<1>4. ASSUME NEW h \in Host, CloseAgent(h) PROVE BudgetInv'
  BY <1>0, <1>4 DEF CloseAgent
<1>5. ASSUME NEW p \in Ender, Ending(p) PROVE BudgetInv'
  <2>1. CASE FinishFree(p)
    BY <2>1, ReleaseBudget DEF FinishFree
  <2>2. CASE Collect(p) \/ TakeNext(p) \/ FinishTake(p) \/ FinishDrop(p) \/ Deliver(p)
    <3>1. UNCHANGED admission
      BY <2>2, Zenon DEF Collect, TakeNext, FinishTake, FinishDrop, Deliver
    <3> QED BY <1>0, <3>1
  <2> QED BY <1>5, <2>1, <2>2 DEF Ending
<1> QED BY <1>1, <1>2, <1>3, <1>4, <1>5 DEF Next

LEMMA BudgetInit == ASSUME Init PROVE BudgetInv
<1>1. admitted = {} /\ stdout = [t \in Task |-> 0] /\ inflight = 0 /\ held = 0
  BY DEF Init
<1>2. StdoutMax \in Nat /\ Budget \in Nat
  BY LimitAssumption
<1>3. 0 * StdoutMax = 0 /\ 0 - 0 = 0 /\ 0 <= Budget
  BY <1>2
<1>4. IsSum(inflight * StdoutMax - held, admitted, Room)
  BY <1>1, <1>3, SumNone
<1> QED BY <1>1, <1>3, <1>4 DEF BudgetInv

\* The reservation of tryAdmitTask suffices: whatever the other tasks hold, the global budget leaves
\* every admitted task its whole StdoutMax, so reserveStdout truncates at the limit of the task only.
THEOREM BudgetSuffices == Spec => []BudgetNeverTruncates
<1>1. BudgetInv => BudgetNeverTruncates
  BY RoomInBudget DEF BudgetNeverTruncates
<1> QED BY <1>1, AnswerInit, AnswerStep, BudgetInit, BudgetStep, PTL DEF Spec

-----------------------------------------------------------------------------
(* The counters of the admission *)

Row(t, a, b) == {<<t, i>> : i \in a..b}
Of(h) == {t \in admitted : TaskHost[t] = h}

CountInv ==
    /\ IsFiniteSet(admitted) /\ inflight = Cardinality(admitted)
    /\ perHost \in [Host -> Int]
    /\ \A h \in Host : IsFiniteSet(Of(h)) /\ perHost[h] = Cardinality(Of(h))
    /\ IsFiniteSet(Units) /\ held = Cardinality(Units)

LEMMA RowFacts ==
  ASSUME NEW t, NEW a \in Nat, NEW b \in Nat, a <= b
  PROVE  IsFiniteSet(Row(t, a + 1, b)) /\ Cardinality(Row(t, a + 1, b)) = b - a
<1> DEFINE S == (a + 1)..b
           T == Row(t, a + 1, b)
           f == [i \in S |-> <<t, i>>]
<1>1. f \in [S -> T] /\ (\A i, j \in S : f[i] = f[j] => i = j) /\ \A y \in T : \E i \in S : f[i] = y
  BY DEF Row
<1>2. ExistsBijection(S, T)
  BY <1>1, Zenon DEF ExistsBijection, Bijection, Injection, Surjection, IsInjective
<1>3. IsFiniteSet(S) /\ Cardinality(S) = b - a
  <2>1. a + 1 \in Int /\ b \in Int /\ (IF a + 1 > b THEN 0 ELSE b - (a + 1) + 1) = b - a
    OBVIOUS
  <2> HIDE DEF T, f
  <2> QED BY <2>1, FS_Interval, Zenon
<1> HIDE DEF S, T, f
<1>4. IsFiniteSet(T) /\ Cardinality(T) = Cardinality(S)
  BY <1>2, <1>3, FS_Bijection
<1> QED BY <1>3, <1>4 DEF T

\* Disjoint sets put together and taken apart.
LEMMA Together ==
  ASSUME NEW S, NEW R, NEW T, IsFiniteSet(S), IsFiniteSet(R),
         \A y : ~(y \in S /\ y \in R), \A y : y \in T <=> y \in S \/ y \in R
  PROVE  IsFiniteSet(T) /\ Cardinality(T) = Cardinality(S) + Cardinality(R)
<1>1. T = S \cup R /\ S \cap R = {}
  OBVIOUS
<1>2. Cardinality(S) \in Nat /\ Cardinality(R) \in Nat
  BY FS_CardinalityType
<1>3. IsFiniteSet(S \cup R) /\ Cardinality(S \cup R) = Cardinality(S) + Cardinality(R) - Cardinality(S \cap R)
  BY FS_Union
<1>4. Cardinality(S \cap R) = 0
  BY <1>1, FS_EmptySet
<1>5. Cardinality(S) + Cardinality(R) - 0 = Cardinality(S) + Cardinality(R)
  BY <1>2
<1> QED BY <1>1, <1>3, <1>4, <1>5

LEMMA Apart ==
  ASSUME NEW S, NEW R, NEW T, IsFiniteSet(S), \A y : y \in R => y \in S,
         \A y : y \in T <=> y \in S /\ y \notin R
  PROVE  IsFiniteSet(T) /\ Cardinality(T) = Cardinality(S) - Cardinality(R)
<1>1. T = S \ R /\ S \cap R = R
  OBVIOUS
<1> QED BY <1>1, FS_Difference

LEMMA UnitIn == \A y : y \in Units <=> \E t \in admitted : y \in Row(t, 1, stdout[t])
BY DEF Units, Row

LEMMA UnitInNext == \A y : y \in Units' <=> \E t \in admitted' : y \in Row(t, 1, stdout'[t])
BY DEF Units, Row

LEMMA RowIn == \A t, a, b, y : y \in Row(t, a, b) <=> \E i \in a..b : y = <<t, i>>
BY DEF Row

\* Row t is not in the rows of others.
LEMMA RowsApart ==
  ASSUME NEW t, NEW u, NEW a, NEW b, NEW c, NEW d, NEW y, y \in Row(t, a, b), y \in Row(u, c, d)
  PROVE  t = u
BY DEF Row

LEMMA CountSame == ASSUME CountInv, UNCHANGED admission PROVE CountInv'
<1>1. admitted' = admitted /\ inflight' = inflight /\ perHost' = perHost /\ stdout' = stdout /\ held' = held
  BY DEF admission
<1>2. Units' = Units
  BY <1>1 DEF Units
<1>3. \A h \in Host : Of(h)' = Of(h)
  BY <1>1 DEF Of
<1>4. \A h \in Host : IsFiniteSet(Of(h)') /\ perHost'[h] = Cardinality(Of(h)')
  BY <1>1, <1>3 DEF CountInv
<1> QED BY <1>1, <1>2, <1>4 DEF CountInv

LEMMA AdmitCounts ==
  ASSUME BudgetInv, CountInv, NEW t \in Task, t \notin admitted, AdmitTask(t)
  PROVE  CountInv'
<1>0. /\ admitted \subseteq Task /\ stdout \in [Task -> Nat] /\ TaskHost[t] \in Host
      /\ perHost \in [Host -> Int]
  BY HostAssumption DEF BudgetInv, CountInv
<1>1. /\ admitted' = admitted \cup {t} /\ inflight' = inflight + 1 /\ held' = held
      /\ stdout'[t] = 0 /\ \A u \in admitted : stdout'[u] = stdout[u]
      /\ perHost' = [perHost EXCEPT ![TaskHost[t]] = @ + 1]
  BY <1>0 DEF AdmitTask
<1>2. IsFiniteSet(admitted') /\ inflight' = Cardinality(admitted')
  BY <1>1, FS_AddElement, Zenon DEF CountInv
<1>3. ASSUME NEW h \in Host PROVE IsFiniteSet(Of(h)') /\ perHost'[h] = Cardinality(Of(h)')
  <2>0. IsFiniteSet(Of(h)) /\ perHost[h] = Cardinality(Of(h))
    BY DEF CountInv
  <2>1. CASE h = TaskHost[t]
    <3>1. Of(h)' = Of(h) \cup {t} /\ t \notin Of(h) /\ perHost'[h] = perHost[h] + 1
      BY <1>0, <1>1, <2>1, Zenon DEF Of
    <3> QED BY <2>0, <3>1, FS_AddElement, Zenon
  <2>2. CASE h # TaskHost[t]
    <3>1. Of(h)' = Of(h) /\ perHost'[h] = perHost[h]
      BY <1>0, <1>1, <2>2, Zenon DEF Of
    <3> QED BY <2>0, <3>1, Zenon
  <2> QED BY <2>1, <2>2, Zenon
<1>4. Units' = Units
  <2>1. \A y : y \notin Row(t, 1, 0)
    BY DEF Row
  <2>2. ASSUME NEW y PROVE y \in Units' <=> y \in Units
    BY <1>1, <2>1, UnitIn, UnitInNext, Zenon
  <2> QED BY <2>2
<1>5. perHost' \in [Host -> Int]
  <2>1. perHost[TaskHost[t]] + 1 \in Int
    BY <1>0
  <2> QED BY <1>0, <1>1, <2>1, Zenon
<1> QED BY <1>1, <1>2, <1>3, <1>4, <1>5, Zenon DEF CountInv

LEMMA ReleaseCounts ==
  ASSUME BudgetInv, CountInv, NEW t, ReleaseTask(t)
  PROVE  CountInv'
<1>1. CASE t \notin admitted
  BY <1>1, CountSame DEF ReleaseTask
<1>2. CASE t \in admitted
  <2>0. /\ t \in Task /\ stdout \in [Task -> Nat] /\ TaskHost[t] \in Host
        /\ perHost \in [Host -> Int] /\ admitted \subseteq Task
    BY <1>2, HostAssumption DEF BudgetInv, CountInv
  <2>1. /\ admitted' = admitted \ {t} /\ inflight' = inflight - 1 /\ held' = held - stdout[t]
        /\ \A u \in admitted \ {t} : stdout'[u] = stdout[u]
        /\ perHost' = [perHost EXCEPT ![TaskHost[t]] = @ - 1]
    BY <1>2, <2>0 DEF ReleaseTask
  <2>2. IsFiniteSet(admitted') /\ inflight' = Cardinality(admitted')
    BY <1>2, <2>1, FS_RemoveElement, Zenon DEF CountInv
  <2>3. ASSUME NEW h \in Host PROVE IsFiniteSet(Of(h)') /\ perHost'[h] = Cardinality(Of(h)')
    <3>0. IsFiniteSet(Of(h)) /\ perHost[h] = Cardinality(Of(h))
      BY DEF CountInv
    <3>1. CASE h = TaskHost[t]
      <4>1. Of(h)' = Of(h) \ {t} /\ t \in Of(h) /\ perHost'[h] = perHost[h] - 1
        BY <1>2, <2>0, <2>1, <3>1, Zenon DEF Of
      <4> QED BY <3>0, <4>1, FS_RemoveElement, Zenon
    <3>2. CASE h # TaskHost[t]
      <4>1. Of(h)' = Of(h) /\ perHost'[h] = perHost[h]
        BY <2>0, <2>1, <3>2, Zenon DEF Of
      <4> QED BY <3>0, <4>1, Zenon
    <3> QED BY <3>1, <3>2, Zenon
  <2>4. IsFiniteSet(Units') /\ held' = Cardinality(Units')
    <3>0. stdout[t] \in Nat /\ IsFiniteSet(Units) /\ held = Cardinality(Units)
      BY <2>0, Zenon DEF CountInv
    <3>1. Cardinality(Row(t, 1, stdout[t])) = stdout[t]
      <4>1. 0 \in Nat /\ 0 <= stdout[t] /\ 0 + 1 = 1 /\ stdout[t] - 0 = stdout[t]
        BY <3>0
      <4> QED BY <3>0, <4>1, RowFacts
    <3>2. \A y : y \in Row(t, 1, stdout[t]) => y \in Units
      BY <1>2, UnitIn
    <3>3. ASSUME NEW y PROVE y \in Units' <=> y \in Units /\ y \notin Row(t, 1, stdout[t])
      <4>1. y \in Units' <=> \E u \in admitted \ {t} : y \in Row(u, 1, stdout[u])
        BY <2>1, UnitInNext, Zenon
      <4>2. y \in Units <=> \E u \in admitted : y \in Row(u, 1, stdout[u])
        BY UnitIn
      <4> QED BY <4>1, <4>2, RowsApart
    <3>4. IsFiniteSet(Units') /\ Cardinality(Units') = Cardinality(Units) - Cardinality(Row(t, 1, stdout[t]))
      <4> DEFINE R == Row(t, 1, stdout[t])
      <4>1. (\A y : y \in R => y \in Units) /\ (\A y : y \in Units' <=> y \in Units /\ y \notin R)
        BY <3>2, <3>3
      <4> HIDE DEF R
      <4>2. IsFiniteSet(Units') /\ Cardinality(Units') = Cardinality(Units) - Cardinality(R)
        BY <3>0, <4>1, Apart
      <4> QED BY <4>2 DEF R
    <3> QED BY <2>1, <3>0, <3>1, <3>4, Zenon
  <2>5. perHost' \in [Host -> Int]
    BY <2>0, <2>1
  <2> QED BY <2>2, <2>3, <2>4, <2>5 DEF CountInv
<1> QED BY <1>1, <1>2

LEMMA StdoutCounts ==
  ASSUME BudgetInv, CountInv, NEW c \in Conn, NEW t \in Task, Stdout(c, t)
  PROVE  CountInv'
<1>0. stdout \in [Task -> Nat] /\ stdout[t] \in Nat /\ StdoutMax \in Nat /\ admitted \subseteq Task
  BY LimitAssumption DEF BudgetInv
<1>1. PICK size \in 1..(StdoutMax + 1) : /\ stdout' = [stdout EXCEPT ![t] = @ + Allowed(t, size)]
                                        /\ held' = held + Allowed(t, size)
  BY Zenon DEF Stdout
<1>2. PICK n : n = Allowed(t, size)
  OBVIOUS
<1>3. n \in Nat /\ (t \notin admitted => n = 0)
  BY <1>0, <1>1, <1>2, AllowedFacts
<1>4. /\ stdout'[t] = stdout[t] + n /\ (\A u \in Task : u # t => stdout'[u] = stdout[u]) /\ held' = held + n
      /\ admitted' = admitted /\ inflight' = inflight /\ perHost' = perHost
  BY <1>0, <1>1, <1>2 DEF Stdout
<1>5. IsFiniteSet(Units) /\ held = Cardinality(Units)
  BY DEF CountInv
<1>6. IsFiniteSet(Units') /\ held' = Cardinality(Units')
  <2>1. CASE t \notin admitted
    <3>1. \A y : y \in Units' <=> y \in Units
      BY <1>0, <1>4, <2>1, UnitIn, UnitInNext
    <3>2. Units' = Units
      BY <3>1, Zenon
    <3>3. Cardinality(Units) + 0 = Cardinality(Units)
      BY <1>5, FS_CardinalityType
    <3> QED BY <1>3, <1>4, <1>5, <2>1, <3>2, <3>3, Zenon
  <2>2. CASE t \in admitted
    <3> DEFINE R == Row(t, stdout[t] + 1, stdout[t] + n)
    <3>1. IsFiniteSet(R) /\ Cardinality(R) = n
      <4>1. stdout[t] + n \in Nat /\ stdout[t] <= stdout[t] + n /\ (stdout[t] + n) - stdout[t] = n
        BY <1>0, <1>3
      <4> QED BY <1>0, <4>1, RowFacts
    <3>2. ASSUME NEW y PROVE y \in Row(t, 1, stdout[t] + n) <=> y \in Row(t, 1, stdout[t]) \/ y \in R
      <4>1. \A i : i \in 1..(stdout[t] + n) <=> i \in 1..stdout[t] \/ i \in (stdout[t] + 1)..(stdout[t] + n)
        BY <1>0, <1>3
      <4> QED BY <4>1, Zenon DEF Row
    <3>3. ASSUME NEW y, y \in R, y \in Units PROVE FALSE
      <4>1. PICK u \in admitted : y \in Row(u, 1, stdout[u])
        BY <3>3, UnitIn
      <4>2. u = t
        BY <3>3, <4>1, RowsApart
      <4>3. PICK i \in (stdout[t] + 1)..(stdout[t] + n) : y = <<t, i>>
        BY <3>3, RowIn
      <4>4. PICK j \in 1..stdout[t] : y = <<t, j>>
        BY <4>1, <4>2, RowIn
      <4> QED BY <1>0, <1>3, <4>3, <4>4
    <3> HIDE DEF R
    <3>4. ASSUME NEW y PROVE y \in Units' <=> y \in Units \/ y \in R
      <4>1. y \in Units' <=> \E u \in admitted : y \in Row(u, 1, stdout'[u])
        BY <1>4, UnitInNext, Zenon
      <4>2. y \in Units <=> \E u \in admitted : y \in Row(u, 1, stdout[u])
        BY UnitIn
      <4>3. \A u \in admitted : y \in Row(u, 1, stdout'[u]) <=> y \in Row(u, 1, stdout[u]) \/ (u = t /\ y \in R)
        BY <1>0, <1>4, <3>2
      <4> QED BY <2>2, <4>1, <4>2, <4>3, Zenon
    <3>5. IsFiniteSet(Units') /\ Cardinality(Units') = Cardinality(Units) + Cardinality(R)
      BY <1>5, <3>1, <3>3, <3>4, Together
    <3> QED BY <1>4, <1>5, <3>1, <3>5, Zenon
  <2> QED BY <2>1, <2>2
<1> QED BY <1>4, <1>6, Zenon DEF CountInv, Of

LEMMA CountStep == ASSUME AnswerInv, BudgetInv, CountInv, [Next]_vars PROVE CountInv'
<1>0. ASSUME UNCHANGED admission PROVE CountInv'
  BY <1>0, CountSame
<1>1. CASE UNCHANGED vars
  BY <1>0, <1>1 DEF vars
<1>2. ASSUME NEW t \in Task, Request(t) PROVE CountInv'
  <2>1. CASE Admit(t)
    <3>1. t \notin admitted
      BY <2>1, Zenon DEF Admit, AnswerInv, TaskInv
    <3> QED BY <1>0, <2>1, <3>1, AdmitCounts DEF Admit
  <2>2. CASE UnregisterFree(t)
    BY <2>2, ReleaseCounts DEF UnregisterFree
  <2>3. CASE CheckOnline(t) \/ RegisterFuture(t) \/ LookUp(t) \/ WriteToAgent(t) \/ Receive(t) \/ Timeout(t)
             \/ Unregister(t) \/ UnregisterDrop(t)
    <3>1. UNCHANGED admission
      BY <2>3 DEF CheckOnline, RegisterFuture, LookUp, WriteToAgent, Receive, Timeout, Unregister, UnregisterDrop
    <3> QED BY <1>0, <3>1
  <2> QED BY <1>2, <2>1, <2>2, <2>3 DEF Request
<1>3. ASSUME NEW c \in Conn,
             \/ Connect(c) \/ Disconnect(c) \/ UnregisterIfCurrent(c)
             \/ \E t \in Task : Stdout(c, t) \/ Result(c, t)
      PROVE  CountInv'
  <2>1. CASE Connect(c) \/ Disconnect(c) \/ UnregisterIfCurrent(c)
    <3>1. UNCHANGED admission
      BY <2>1 DEF Connect, Disconnect, UnregisterIfCurrent
    <3> QED BY <1>0, <3>1
  <2>2. ASSUME NEW t \in Task, Result(c, t) PROVE CountInv'
    BY <1>0, <2>2 DEF Result
  <2> QED BY <1>3, <2>1, <2>2, StdoutCounts
<1>4. ASSUME NEW h \in Host, CloseAgent(h) PROVE CountInv'
  BY <1>0, <1>4 DEF CloseAgent
<1>5. ASSUME NEW p \in Ender, Ending(p) PROVE CountInv'
  <2>1. CASE FinishFree(p)
    BY <2>1, ReleaseCounts, Zenon DEF FinishFree
  <2>2. CASE Collect(p) \/ TakeNext(p) \/ FinishTake(p) \/ FinishDrop(p) \/ Deliver(p)
    <3>1. UNCHANGED admission
      BY <2>2, Zenon DEF Collect, TakeNext, FinishTake, FinishDrop, Deliver
    <3> QED BY <1>0, <3>1
  <2> QED BY <1>5, <2>1, <2>2 DEF Ending
<1> QED BY <1>1, <1>2, <1>3, <1>4, <1>5 DEF Next

LEMMA CountInit == ASSUME Init PROVE CountInv
<1>1. admitted = {} /\ inflight = 0 /\ held = 0 /\ perHost = [h \in Host |-> 0]
  BY Zenon DEF Init
<1>2. Units = {} /\ \A h \in Host : Of(h) = {}
  BY <1>1 DEF Units, Of
<1> QED BY <1>1, <1>2, FS_EmptySet DEF CountInv

\* tryAdmitTask, reserveStdout and releaseTask keep the counters exact: whichever of a result, a
\* timeout, a failed send, a disconnection and a revocation come together for one task, its slot and
\* its stdout are given back once.
THEOREM CountersAlwaysExact == Spec => []CountersExact
<1>1. CountInv => CountersExact
  BY DEF CountInv, CountersExact, Of
<1> QED BY <1>1, AnswerInit, AnswerStep, BudgetInit, BudgetStep, CountInit, CountStep, PTL DEF Spec
=============================================================================
