----------------------------- MODULE HookQueue ------------------------------
(***************************************************************************)
(* The hooks dispatcher of one server (hooks/dispatcher.go) and the        *)
(* goroutines of ws/handler.go that feed it.                               *)
(*                                                                         *)
(* Every connection and disconnection of an agent starts a goroutine that  *)
(* dispatches host.up or host.down.  Dispatching hashes the hostname to a  *)
(* worker and puts the event in that worker's bounded queue, or counts it  *)
(* as dropped.  A worker runs the actions of the matching hook one after   *)
(* the other.  A clean stop drains the queues before it cancels the        *)
(* context, an abrupt one only cancels it; the reporter then counts what   *)
(* is left.  An event is its host and its rank among the host's events.    *)
(***************************************************************************)
EXTENDS Integers, FiniteSets, Sequences

CONSTANTS Host,       \* the agents' hostnames
          Worker,     \* the workers of the pool
          WorkerOf,   \* the worker a hostname hashes to
          None,       \* a worker without a job
          QueueCap,   \* capacity of one worker's queue
          Actions,    \* sizes of the hook's action list an operator may configure
          MaxEvent,   \* bound: connections and disconnections of one host
          MaxReload   \* bound: reloads of the hooks configuration

VARIABLES
  emitted,   \* per host: events ws/handler.go has started a goroutine for
  going,     \* those goroutines: [host, rank, pc]
  config,    \* number of actions of the hook that matches (0: no hook)
  queue,     \* the workers' channels
  job,       \* the event a worker is processing, or None
  left,      \* its actions still to run
  returned,  \* workers that have returned
  abandoned, \* d.abandoned: events taken as the dispatcher was stopping
  pending,   \* d.pending
  dropped,   \* d.droppedEvents
  droppedActions, \* d.droppedActions
  stopping,  \* d.stopping
  drain,     \* Drain: "no", "waiting", "flushed" (returned 0) or "late"
  cancelled, \* the context given to Start is cancelled
  reported,  \* stopReport has run
  accepted,  \* per host: ranks in the order they entered the queue
  ran,       \* per host: ranks in the order they were processed
  reloads    \* reloads so far

work == <<queue, job, left, returned, abandoned, ran>>
counters == <<pending, dropped, droppedActions>>
stop == <<stopping, drain, cancelled, reported>>
vars == <<emitted, going, config, work, counters, stop, accepted, reloads>>

Event == [host : Host, rank : 1..MaxEvent]
ToSet(s) == {s[i] : i \in DOMAIN s}

\* A hostname has one worker.
Pool == WorkerOf \in [Host -> Worker] /\ MaxEvent \in Nat /\ None \notin Event
ASSUME PoolAssumption == Pool

Queued == UNION {ToSet(queue[w]) : w \in Worker}
Running == {job[w] : w \in Worker} \ {None}

TypeOK ==
  /\ emitted \in [Host -> 0..MaxEvent]
  /\ \A g \in going : g.host \in Host /\ g.rank \in 1..MaxEvent /\ g.pc \in {"start", "checked"}
  /\ config \in Actions
  /\ \A w \in Worker : /\ queue[w] \in Seq(Event) /\ Len(queue[w]) <= QueueCap
                       /\ job[w] \in Event \cup {None} /\ left[w] \in Nat
  /\ returned \subseteq Worker /\ abandoned \subseteq Event
  /\ \A c \in {pending, dropped, droppedActions} : c \in Nat
  /\ {stopping, cancelled, reported} \subseteq BOOLEAN
  /\ drain \in {"no", "waiting", "flushed", "late"}
  /\ \A h \in Host : accepted[h] \in Seq(1..MaxEvent) /\ ran[h] \in Seq(1..MaxEvent)
  /\ reloads \in 0..MaxReload

Init ==
  /\ emitted = [h \in Host |-> 0] /\ going = {}
  /\ config \in Actions
  /\ queue = [w \in Worker |-> <<>>]
  /\ job = [w \in Worker |-> None] /\ left = [w \in Worker |-> 0]
  /\ returned = {} /\ abandoned = {}
  /\ pending = 0 /\ dropped = 0 /\ droppedActions = 0
  /\ stopping = FALSE /\ drain = "no" /\ cancelled = FALSE /\ reported = FALSE
  /\ accepted = [h \in Host |-> <<>>] /\ ran = [h \in Host |-> <<>>]
  /\ reloads = 0

-----------------------------------------------------------------------------
(* The sources of events *)

\* An agent's connection is registered (odd rank, host.up) or unregistered
\* (even rank, host.down): go (*fn)(...).
RegisterConnection(h) ==
  /\ emitted[h] < MaxEvent
  /\ emitted' = [emitted EXCEPT ![h] = @ + 1]
  /\ going' = going \cup {[host |-> h, rank |-> emitted[h] + 1, pc |-> "start"]}
  /\ UNCHANGED <<config, work, counters, stop, accepted, reloads>>

\* SetConfig, at start and on SIGHUP.
SetConfig(k) ==
  /\ reloads < MaxReload
  /\ config' = k
  /\ reloads' = reloads + 1
  /\ UNCHANGED <<emitted, going, work, counters, stop, accepted>>

-----------------------------------------------------------------------------
(* DispatchChain *)

\* The test of d.stopping.
DispatchChain(g) ==
  /\ g.pc = "start"
  /\ IF stopping
     THEN going' = going \ {g} /\ dropped' = dropped + 1
     ELSE going' = (going \ {g}) \cup {[g EXCEPT !.pc = "checked"]} /\ UNCHANGED dropped
  /\ UNCHANGED <<emitted, config, work, pending, droppedActions, stop, accepted, reloads>>

\* Mutant: the events of a host are spread over the workers.
anyWorker(e) == CHOOSE w \in Worker : (e.rank = 1) = (w = WorkerOf[e.host])

\* The same host always lands on the same worker.
workerFor(e) == WorkerOf[e.host]

\* Mutant: an event that found the queue full stays counted as pending.
FullStaysPending(e) ==
  /\ Len(queue[workerFor(e)]) >= QueueCap
  /\ pending' = pending + 1
  /\ dropped' = dropped + 1
  /\ UNCHANGED <<queue, accepted>>

\* The queue is full: rejected and counted.
QueueFull(e) ==
  /\ Len(queue[workerFor(e)]) >= QueueCap
  /\ dropped' = dropped + 1
  /\ UNCHANGED <<pending, queue, accepted>>

\* The event enters the channel of its worker.
QueueRoom(e) ==
  /\ Len(queue[workerFor(e)]) < QueueCap
  /\ pending' = pending + 1
  /\ queue' = [queue EXCEPT ![workerFor(e)] = Append(@, e)]
  /\ accepted' = [accepted EXCEPT ![e.host] = Append(@, e.rank)]
  /\ UNCHANGED dropped

\* d.pending and the non-blocking send.
Enqueue(g) ==
  /\ g.pc = "checked"
  /\ going' = going \ {g}
  /\ LET e == [host |-> g.host, rank |-> g.rank] IN QueueFull(e) \/ QueueRoom(e)
  /\ UNCHANGED <<emitted, config, job, left, returned, abandoned, ran, droppedActions,
                 stop, reloads>>

-----------------------------------------------------------------------------
(* A worker *)

\* A job taken after the context ended is not started but kept for stopReport.
Abandon(w) ==
  /\ cancelled
  /\ abandoned' = abandoned \cup {Head(queue[w])}
  /\ returned' = returned \cup {w}
  /\ UNCHANGED <<job, left>>

\* actionsOf: the first matching hook decides.
Begin(w) ==
  /\ ~cancelled
  /\ job' = [job EXCEPT ![w] = Head(queue[w])]
  /\ left' = [left EXCEPT ![w] = config]
  /\ UNCHANGED <<abandoned, returned>>

Take(w) ==
  /\ w \notin returned /\ job[w] = None /\ queue[w] # <<>>
  /\ queue' = [queue EXCEPT ![w] = Tail(@)]
  /\ Abandon(w) \/ Begin(w)
  /\ UNCHANGED <<emitted, going, config, ran, counters, stop, accepted, reloads>>

\* One action of the hook; once the context ended the others are counted lost.
ProcessJob(w) ==
  /\ job[w] # None /\ left[w] > 0
  /\ IF cancelled
     THEN /\ droppedActions' = droppedActions + left[w]
          /\ left' = [left EXCEPT ![w] = 0]
     ELSE left' = [left EXCEPT ![w] = @ - 1] /\ UNCHANGED droppedActions
  /\ UNCHANGED <<emitted, going, config, queue, job, returned, abandoned, ran, pending,
                 dropped, stop, accepted, reloads>>

JobDone(w) ==
  /\ job[w] # None /\ left[w] = 0
  /\ ran' = [ran EXCEPT ![job[w].host] = Append(@, job[w].rank)]
  /\ job' = [job EXCEPT ![w] = None]
  /\ pending' = pending - 1
  /\ UNCHANGED <<emitted, going, config, queue, left, returned, abandoned, dropped,
                 droppedActions, stop, accepted, reloads>>

\* The context ended while the worker was waiting for a job.
WorkerReturns(w) ==
  /\ cancelled /\ w \notin returned /\ job[w] = None
  /\ returned' = returned \cup {w}
  /\ UNCHANGED <<emitted, going, config, queue, job, left, abandoned, ran, counters,
                 stop, accepted, reloads>>

-----------------------------------------------------------------------------
(* Stopping *)

DrainBegins ==
  /\ drain = "no" /\ ~cancelled
  /\ stopping' = TRUE /\ drain' = "waiting"
  /\ UNCHANGED <<emitted, going, config, work, counters, cancelled, reported, accepted, reloads>>

\* The loop of Drain ends with nothing pending.
Flushed == pending = 0

\* It returns the number of events still pending after the delay.
DrainReturns ==
  /\ drain = "waiting"
  /\ drain' \in (IF Flushed THEN {"flushed"} ELSE {"late"})
  /\ UNCHANGED <<emitted, going, config, work, counters, stopping, cancelled, reported,
                 accepted, reloads>>

\* The context is cancelled: after Drain, or at once when the lock is lost.
Cancel ==
  /\ ~cancelled /\ drain # "waiting"
  /\ cancelled' = TRUE
  /\ UNCHANGED <<emitted, going, config, work, counters, stopping, drain, reported,
                 accepted, reloads>>

\* Mutant: the reporter waits for a worker that returns only without a queue.
AllReturnedEmpty == returned = Worker /\ Queued = {}

\* d.wg.Wait.
WgWait == returned = Worker

StopReport ==
  /\ cancelled /\ ~reported /\ WgWait
  /\ LET lost == Cardinality(abandoned \cup Queued)
     IN /\ pending' = pending - lost
        /\ dropped' = dropped + lost
        /\ droppedActions' = droppedActions + lost * config
  /\ abandoned' = {} /\ queue' = [w \in Worker |-> <<>>]
  /\ reported' = TRUE
  /\ UNCHANGED <<emitted, going, config, job, left, returned, ran, stopping, drain,
                 cancelled, accepted, reloads>>

-----------------------------------------------------------------------------
Step(w) == Take(w) \/ ProcessJob(w) \/ JobDone(w) \/ WorkerReturns(w)

Next ==
  \/ \E h \in Host : RegisterConnection(h)
  \/ \E k \in Actions : SetConfig(k)
  \/ \E g \in going : DispatchChain(g) \/ Enqueue(g)
  \/ \E w \in Worker : Step(w)
  \/ DrainBegins \/ DrainReturns \/ Cancel \/ StopReport

Spec == Init /\ [][Next]_vars

\* Goroutines, workers and the reporter run; an action ends (its executors
\* have timeouts); Drain has a deadline.  Nobody has to stop the server.
Fairness ==
  /\ WF_vars(\E g \in going : DispatchChain(g) \/ Enqueue(g))
  /\ \A w \in Worker : WF_vars(Step(w))
  /\ WF_vars(DrainReturns) /\ WF_vars(StopReport)

FairSpec == Spec /\ Fairness

-----------------------------------------------------------------------------
(* Properties *)

\* The events so far; those whose goroutine has not queued them yet, those
\* the dispatcher has, and those it is done with.
Emitted == {e \in Event : e.rank <= emitted[e.host]}
Waiting == {[host |-> g.host, rank |-> g.rank] : g \in going}
Live == Queued \cup Running \cup abandoned
Processed == {e \in Event : e.rank \in ToSet(ran[e.host])}

\* hooks_queue_depth and the loop of Drain rely on d.pending: it is exactly
\* the number of events queued, being processed or abandoned to the reporter.
\* An event that is neither there, nor waiting, nor processed is counted
\* dropped, once, and no other one is.
CountersExact ==
  /\ pending = Cardinality(Live)
  /\ dropped = Cardinality(Emitted \ (Waiting \cup Live \cup Processed))

\* One host's events are processed in the order in which they entered the
\* queue, whatever the other workers do and whoever is dropped in between.
FifoPerHost ==
  \A h \in Host : \E n \in 0..Len(accepted[h]) : ran[h] = SubSeq(accepted[h], 1, n)

\* Once the context is cancelled the workers return, the reporter counts what
\* is left and the stop ends, whatever was queued or running.
StopEnds == cancelled ~> reported
=============================================================================
