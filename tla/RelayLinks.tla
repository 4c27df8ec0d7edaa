----------------------------- MODULE RelayLinks -----------------------------
(***************************************************************************)
(* The links of the child relays of a node (internal/ws: relay_handler.go), *)
(* the routes they publish (internal/storage: store_routing.go) and the    *)
(* tasks sent down through them (internal/proxy: router.go;                *)
(* internal/forward: forward.go).                                          *)
(*                                                                         *)
(* The goroutines: one reader per link, which handles a message at a time  *)
(* and cleans up when the link ends, and one request per task id.  The     *)
(* tables of connections, claims, routes and tasks have each their mutex:  *)
(* an action is what one goroutine does under one of them.                 *)
(*                                                                         *)
(* A route keeps the declaring relay and the first element of its chain,   *)
(* the only one a node uses.  A link is modelled from the point where      *)
(* relay_hello was acknowledged, its relay node registered.  The status,   *)
(* the chains and variables published upstream, the reports of conflicts   *)
(* and the suspension flags decide nothing here and are left out.          *)
(***************************************************************************)
EXTENDS Naturals, FiniteSets

CONSTANTS
    Relay,        \* relay ids
    Below,        \* the relays that a child may declare as its descendants
    Link,         \* links of child relays
    LinkRelay,    \* the authenticated relay of each link
    Topology,     \* the links that carry snapshots and events (an agent_list needs none)
    Host,
    Roaming,      \* the hosts whose agent may also connect to this node
    Task,
    TaskHost,     \* the host each request is for
    None,
    MaxInflight,  \* the limit of SetTaskLimits
    MaxDeclared   \* bound: relays one snapshot declares

\* A relay has one link: it opens the next one after the cleanup of the former.
ASSUME LinkAssumption ==
    /\ Below \subseteq Relay /\ LinkRelay \in [Link -> Relay] /\ Topology \subseteq Link
    /\ \A k, l \in Link : LinkRelay[k] = LinkRelay[l] => k = l
ASSUME TaskAssumption ==
    /\ Roaming \subseteq Host /\ TaskHost \in [Task -> Host] /\ MaxInflight \in Nat \ {0} /\ MaxDeclared \in Nat
ASSUME NoneAssumption ==
    None \notin Relay \cup Link \cup Host \cup Task \cup [relay : Relay, hop : Relay]

VARIABLES
    relayConnections,   \* the registered link of each relay
    link,               \* the reader of each link
    descendantOwner,    \* the direct peer that declared each relay
    routes,             \* relay_routing
    local,              \* the hosts with a live connection to this node
    req,                \* where the request of each task is
    relayPendingTasks, relayTaskOwner, slots, channel

claims == <<relayConnections, descendantOwner>>
tasks == <<req, relayPendingTasks, relayTaskOwner, slots, channel>>
vars == <<claims, link, routes, local, tasks>>

\* What a reader holds: the descendants of the last snapshot accepted, the
\* message being handled (relays declared, relay of each host) and what is
\* left to go through.
Off == [at |-> "off", descendants |-> {}, relays |-> {}, agents |-> [h \in Host |-> None], todo |-> {}]
Steps == {"off", "open", "check", "write", "chains", "list", "event",
          "drop", "unregister", "clear", "collect", "fail"}

TypeOK ==
    /\ relayConnections \in [Relay -> Link \cup {None}]
    /\ link \in [Link -> [at : Steps, descendants : SUBSET Below, relays : SUBSET Below,
                          agents : [Host -> Relay \cup {None}],
                          todo : SUBSET Host \cup SUBSET Below \cup SUBSET Task]]
    /\ descendantOwner \in [Relay -> Relay \cup {None}]
    /\ routes \in [Host -> [relay : Relay, hop : Relay] \cup {None}]
    /\ local \subseteq Roaming
    /\ req \in [Task -> [at : {"new", "hop", "register", "own", "write", "wait", "done"},
                         forwarded : BOOLEAN, hop : Relay \cup {None}, via : Link \cup {None}]]
    /\ relayPendingTasks \subseteq slots
    /\ relayTaskOwner \in [Task -> Relay \cup {None}]
    /\ slots \subseteq Task /\ Cardinality(slots) <= MaxInflight
    /\ channel \in [Task -> {"result", "relay_disconnected", None}]

Init ==
    /\ relayConnections = [r \in Relay |-> None]
    /\ link = [l \in Link |-> Off]
    /\ descendantOwner = [r \in Relay |-> None]
    /\ routes = [h \in Host |-> None]
    /\ local = {}
    /\ req = [t \in Task |-> [at |-> "new", forwarded |-> FALSE, hop |-> None, via |-> None]]
    /\ relayPendingTasks = {} /\ slots = {}
    /\ relayTaskOwner = [t \in Task |-> None]
    /\ channel = [t \in Task |-> None]

-----------------------------------------------------------------------------
(* Store and claims *)

\* All the routes of relay r are replaced by hosts; a host routed elsewhere is taken over.
BulkUpsertRelayRouting(r, hosts) ==
    routes' = [h \in Host |->
                 IF h \in hosts THEN [relay |-> r, hop |-> r]
                 ELSE IF routes[h] # None /\ routes[h].relay = r THEN None ELSE routes[h]]

HostsOf(l, r) == {h \in Host : link[l].agents[h] = r}

Claimable(peer, relays) ==
    \A r \in relays : descendantOwner[r] \in {None, peer} /\ relayConnections[r] = None

\* A claim of another peer is left alone.
ReleaseDescendants(peer, relays) ==
    descendantOwner' = [r \in Relay |-> IF r \in relays /\ descendantOwner[r] = peer THEN None
                                        ELSE descendantOwner[r]]

-----------------------------------------------------------------------------
(* Links *)

At(l, step) == link[l].at = step

\* serveRelayConn: the link replaces the one registered for this relay, which is not closed.
Open(l) ==
    /\ At(l, "off")
    /\ relayConnections' = [relayConnections EXCEPT ![LinkRelay[l]] = l]
    /\ link' = [link EXCEPT ![l].at = "open"]
    /\ UNCHANGED <<descendantOwner, routes, local, tasks>>

\* The deferred cleanup begins: the message in hand is forgotten.
Ending(l) == [Off EXCEPT !.at = "drop", !.descendants = link[l].descendants, !.todo = link[l].descendants]

\* The peer leaves, the deadline passes, an administrator closes the link or a
\* message is refused before it changes anything (quota, malformed content).
End(l) ==
    /\ At(l, "open")
    /\ link' = [link EXCEPT ![l] = Ending(l)]
    /\ UNCHANGED <<claims, routes, local, tasks>>

\* topology_snapshot, validated: the descendants are claimed before anything is written.
Snapshot(l) ==
    LET peer == LinkRelay[l] IN
    /\ At(l, "open") /\ l \in Topology
    /\ \E relays \in {s \in SUBSET (Below \ {peer}) : Cardinality(s) <= MaxDeclared} :
         IF Claimable(peer, relays)
           THEN /\ descendantOwner' = [r \in Relay |-> IF r \in relays THEN peer ELSE descendantOwner[r]]
                /\ \E agents \in [Host -> relays \cup {peer, None}] :
                     link' = [link EXCEPT ![l].at = "check", ![l].relays = relays, ![l].agents = agents,
                                          ![l].todo = {h \in Host : agents[h] # None}]
           ELSE link' = [link EXCEPT ![l] = Ending(l)] /\ UNCHANGED descendantOwner
    /\ UNCHANGED <<relayConnections, routes, local, tasks>>

\* A host connected here, or routed to a relay that is neither the peer nor declared by it.
Conflicting(l, h) ==
    \/ h \in local
    \/ routes[h] # None /\ routes[h].relay \notin link[l].relays \cup {LinkRelay[l]}

\* Mutant of CheckHost: the refusal gives no claim back.
CheckHostKeepsClaims(l) ==
    /\ At(l, "check")
    /\ \E h \in link[l].todo :
         link' = [link EXCEPT ![l] = IF Conflicting(l, h) THEN Ending(l) ELSE [@ EXCEPT !.todo = @ \ {h}]]
    /\ UNCHANGED <<claims, routes, local, tasks>>

\* checkHostConflicts: only what this snapshot claimed is given back on a refusal.
CheckHost(l) ==
    /\ At(l, "check")
    /\ \E h \in link[l].todo :
         IF Conflicting(l, h)
           THEN /\ ReleaseDescendants(LinkRelay[l], link[l].relays \ link[l].descendants)
                /\ link' = [link EXCEPT ![l] = Ending(l)]
           ELSE link' = [link EXCEPT ![l].todo = @ \ {h}] /\ UNCHANGED descendantOwner
    /\ UNCHANGED <<relayConnections, routes, local, tasks>>

\* The routes of the peer, then of the relays it declares, then of those that left.
WriteOwn(l) ==
    /\ At(l, "check") /\ link[l].todo = {}
    /\ BulkUpsertRelayRouting(LinkRelay[l], HostsOf(l, LinkRelay[l]))
    /\ link' = [link EXCEPT ![l].at = "write", ![l].todo = link[l].relays \cup link[l].descendants]
    /\ UNCHANGED <<claims, local, tasks>>

WriteRelay(l) ==
    /\ At(l, "write")
    /\ \E r \in link[l].todo :
         /\ r \in link[l].relays \/ link[l].todo \cap link[l].relays = {}
         /\ BulkUpsertRelayRouting(r, HostsOf(l, r))
         /\ link' = [link EXCEPT ![l].todo = @ \ {r}]
    /\ UNCHANGED <<claims, local, tasks>>

ReleaseGone(l) ==
    /\ At(l, "write") /\ link[l].todo = {}
    /\ ReleaseDescendants(LinkRelay[l], link[l].descendants \ link[l].relays)
    /\ link' = [link EXCEPT ![l].at = "chains"]
    /\ UNCHANGED <<relayConnections, routes, local, tasks>>

\* SetRelayRouteChains: a route that is still the one written goes through the peer.
SetChains(l) ==
    /\ At(l, "chains")
    /\ routes' = [h \in Host |-> IF routes[h] # None /\ routes[h].relay = link[l].agents[h]
                                 THEN [routes[h] EXCEPT !.hop = LinkRelay[l]] ELSE routes[h]]
    /\ link' = [link EXCEPT ![l] = [Off EXCEPT !.at = "open", !.descendants = link[l].relays]]
    /\ UNCHANGED <<claims, local, tasks>>

\* agent_list: last arrival wins between relays, a local host is left out.
AgentList(l) ==
    /\ At(l, "open")
    /\ \E hosts \in SUBSET Host :
         link' = [link EXCEPT ![l].at = "list",
                              ![l].agents = [h \in Host |-> IF h \in hosts \ local THEN LinkRelay[l] ELSE None]]
    /\ UNCHANGED <<claims, routes, local, tasks>>

AgentListWrite(l) ==
    /\ At(l, "list")
    /\ BulkUpsertRelayRouting(LinkRelay[l], HostsOf(l, LinkRelay[l]))
    /\ link' = [link EXCEPT ![l] = [Off EXCEPT !.at = "open", !.descendants = link[l].descendants]]
    /\ UNCHANGED <<claims, local, tasks>>

\* event_forward host.up or host.new from the peer or a descendant; refused for a local host.
\* The other events change no route.
HostUp(l) ==
    /\ At(l, "open") /\ l \in Topology
    /\ \E h \in Host \ local, origin \in link[l].descendants \cup {LinkRelay[l]} :
         link' = [link EXCEPT ![l].at = "event", ![l].agents[h] = origin]
    /\ UNCHANGED <<claims, routes, local, tasks>>

HostUpWrite(l) ==
    /\ At(l, "event")
    /\ routes' = [h \in Host |-> IF link[l].agents[h] = None THEN routes[h]
                                 ELSE [relay |-> link[l].agents[h], hop |-> LinkRelay[l]]]
    /\ link' = [link EXCEPT ![l] = [Off EXCEPT !.at = "open", !.descendants = link[l].descendants]]
    /\ UNCHANGED <<claims, local, tasks>>

-----------------------------------------------------------------------------
(* End of a link *)

\* Mutant of DropRoutes: the routes of the descendants are left.
DropNoRoute(l) ==
    /\ At(l, "drop") /\ link[l].todo # {}
    /\ link' = [link EXCEPT ![l].todo = {}]
    /\ UNCHANGED <<claims, routes, local, tasks>>

DropRoutes(l) ==
    /\ At(l, "drop")
    /\ \E r \in link[l].todo :
         /\ BulkUpsertRelayRouting(r, {})
         /\ link' = [link EXCEPT ![l].todo = @ \ {r}]
    /\ UNCHANGED <<claims, local, tasks>>

DropClaims(l) ==
    /\ At(l, "drop") /\ link[l].todo = {}
    /\ ReleaseDescendants(LinkRelay[l], link[l].descendants)
    /\ link' = [link EXCEPT ![l].at = "unregister", ![l].descendants = {}]
    /\ UNCHANGED <<relayConnections, routes, local, tasks>>

\* unregisterRelayConnection: by relay id, whichever link is registered.
Unregister(l) ==
    /\ At(l, "unregister")
    /\ relayConnections' = [relayConnections EXCEPT ![LinkRelay[l]] = None]
    /\ link' = [link EXCEPT ![l].at = "clear"]
    /\ UNCHANGED <<descendantOwner, routes, local, tasks>>

ClearRoutes(l) ==
    /\ At(l, "clear")
    /\ BulkUpsertRelayRouting(LinkRelay[l], {})
    /\ link' = [link EXCEPT ![l].at = "collect"]
    /\ UNCHANGED <<claims, local, tasks>>

\* The tasks of this relay, and those whose relay is not recorded.
Collect(l) ==
    /\ At(l, "collect")
    /\ link' = [link EXCEPT ![l].at = "fail",
                            ![l].todo = {t \in relayPendingTasks : relayTaskOwner[t] \in {None, LinkRelay[l]}}]
    /\ UNCHANGED <<claims, routes, local, tasks>>

\* Mutant of Resolve: the slot is left to the request.
ResolveKeepsSlot(t, what) ==
    /\ relayPendingTasks' = relayPendingTasks \ {t}
    /\ relayTaskOwner' = [relayTaskOwner EXCEPT ![t] = None]
    /\ channel' = [channel EXCEPT ![t] = IF @ = None /\ t \in relayPendingTasks THEN what ELSE @]
    /\ UNCHANGED slots

\* A task that is still pending is taken, its slot freed and its request told.
Resolve(t, what) ==
    /\ relayPendingTasks' = relayPendingTasks \ {t}
    /\ IF t \in relayPendingTasks
         THEN /\ relayTaskOwner' = [relayTaskOwner EXCEPT ![t] = None]
              /\ slots' = slots \ {t}
              /\ channel' = [channel EXCEPT ![t] = IF @ = None THEN what ELSE @]
         ELSE UNCHANGED <<relayTaskOwner, slots, channel>>

FailTask(l) ==
    /\ At(l, "fail")
    /\ \E t \in link[l].todo :
         /\ Resolve(t, "relay_disconnected")
         /\ link' = [link EXCEPT ![l].todo = @ \ {t}]
    /\ UNCHANGED <<claims, routes, local, req>>

\* The socket is closed last: what a request holds of it is dead from now on.
CloseSocket(l) ==
    /\ At(l, "fail") /\ link[l].todo = {}
    /\ link' = [link EXCEPT ![l] = Off]
    /\ req' = [t \in Task |-> IF req[t].via = l THEN [req[t] EXCEPT !.via = None] ELSE req[t]]
    /\ UNCHANGED <<claims, routes, local, relayPendingTasks, relayTaskOwner, slots, channel>>

-----------------------------------------------------------------------------
(* Tasks *)

Go(t, at) == req' = [req EXCEPT ![t].at = at]
Done(t) == req' = [req EXCEPT ![t].at = "done", ![t].hop = None, ![t].via = None]

\* A request of this node or of our parent.  A live agent wins over the
\* routes; its task is then one of TaskDispatch.
NextHop(t) ==
    LET route == routes[TaskHost[t]] IN
    /\ req[t].at = "new"
    /\ IF TaskHost[t] \in local \/ route = None
         THEN Done(t)
         ELSE \E b \in BOOLEAN :
                req' = [req EXCEPT ![t].at = "hop", ![t].forwarded = b, ![t].hop = route.hop]
    /\ UNCHANGED <<claims, link, routes, local, relayPendingTasks, relayTaskOwner, slots, channel>>

\* IsRelayConnected, GetRelayConnection: relay_offline when the next hop has no link.
LookUp(t) ==
    LET l == relayConnections[req[t].hop] IN
    /\ req[t].at = "hop"
    /\ IF l = None THEN Done(t)
                   ELSE req' = [req EXCEPT ![t].at = "register", ![t].via = l]
    /\ UNCHANGED <<claims, link, routes, local, relayPendingTasks, relayTaskOwner, slots, channel>>

\* RegisterRelayTaskFuture, refused when the node has too many tasks in flight:
\* those of its agents (TaskDispatch) are counted too.
Register(t) ==
    /\ req[t].at = "register"
    /\ \/ /\ Cardinality(slots) < MaxInflight
          /\ Go(t, "own")
          /\ slots' = slots \cup {t}
          /\ relayPendingTasks' = relayPendingTasks \cup {t}
       \/ Done(t) /\ UNCHANGED <<slots, relayPendingTasks>>
    /\ UNCHANGED <<claims, link, routes, local, relayTaskOwner, channel>>

RecordOwner(t) ==
    /\ req[t].at = "own"
    /\ relayTaskOwner' = [relayTaskOwner EXCEPT ![t] = req[t].hop]
    /\ req' = [req EXCEPT ![t].at = "write", ![t].hop = None]
    /\ UNCHANGED <<claims, link, routes, local, relayPendingTasks, slots, channel>>

UnregisterRelayTaskFuture(t) ==
    /\ relayPendingTasks' = relayPendingTasks \ {t}
    /\ relayTaskOwner' = [relayTaskOwner EXCEPT ![t] = None]
    /\ slots' = slots \ {t}

\* A socket that is being cleaned up may still take the message, and lose it.
Write(t) ==
    /\ req[t].at = "write"
    /\ \/ /\ req[t].via # None
          /\ Go(t, "wait")
          /\ UNCHANGED <<relayPendingTasks, relayTaskOwner, slots>>
       \/ Done(t) /\ UnregisterRelayTaskFuture(t)
    /\ UNCHANGED <<claims, link, routes, local, channel>>

\* The router unregisters what it received; the forwarder does not.
Receive(t) ==
    /\ req[t].at = "wait" /\ channel[t] # None
    /\ Done(t)
    /\ channel' = [channel EXCEPT ![t] = None]
    /\ IF req[t].forwarded THEN UNCHANGED <<relayPendingTasks, relayTaskOwner, slots>>
                          ELSE UnregisterRelayTaskFuture(t)
    /\ UNCHANGED <<claims, link, routes, local>>

Timeout(t) ==
    /\ req[t].at = "wait"
    /\ Done(t)
    /\ UnregisterRelayTaskFuture(t)
    /\ UNCHANGED <<claims, link, routes, local, channel>>

\* task_result from the relay that got the task; one that comes after the
\* request ended finds nothing pending (RequestLeavesNothing).
TaskResult(l, t) ==
    /\ At(l, "open")
    /\ req[t].via = l /\ req[t].at = "wait"
    /\ relayTaskOwner[t] \in {None, LinkRelay[l]}
    /\ Resolve(t, "result")
    /\ UNCHANGED <<claims, link, routes, local, req>>

-----------------------------------------------------------------------------
\* The agent connects to this node, or leaves it (handler.go): routes are not touched.
LocalAgent(h) ==
    /\ local' = IF h \in local THEN local \ {h} ELSE local \cup {h}
    /\ UNCHANGED <<claims, link, routes, tasks>>

Message(l) ==
    \/ Snapshot(l) \/ CheckHost(l) \/ WriteOwn(l) \/ WriteRelay(l) \/ ReleaseGone(l) \/ SetChains(l)
    \/ AgentList(l) \/ AgentListWrite(l) \/ HostUp(l) \/ HostUpWrite(l)
    \/ \E t \in Task : TaskResult(l, t)

Cleanup(l) ==
    \/ DropRoutes(l) \/ DropClaims(l) \/ Unregister(l) \/ ClearRoutes(l)
    \/ Collect(l) \/ FailTask(l) \/ CloseSocket(l)

Request(t) ==
    \/ NextHop(t) \/ LookUp(t) \/ Register(t) \/ RecordOwner(t) \/ Write(t)
    \/ Receive(t) \/ Timeout(t)

Next ==
    \/ \E l \in Link : Open(l) \/ End(l) \/ Message(l) \/ Cleanup(l)
    \/ \E t \in Task : Request(t)
    \/ \E h \in Roaming : LocalAgent(h)

Spec == Init /\ [][Next]_vars

-----------------------------------------------------------------------------
(* Properties *)

\* A route never outlives the link that leads to it: its next hop is a
\* connected relay, up to two windows of the code.  The link just unregistered
\* has its own routes cleared next (unregisterRelayConnection), and a snapshot
\* being written names the declaring relay as next hop until it sets the
\* chains (handleTopologySnapshot).
RoutesReachable ==
    \A h \in Host : routes[h] # None =>
        \/ relayConnections[routes[h].hop] # None
        \/ \E l \in Link : At(l, "clear") /\ LinkRelay[l] = routes[h].relay
        \/ \E l \in Link : /\ link[l].at \in {"write", "chains"}
                           /\ routes[h].relay \in link[l].relays /\ routes[h].hop = routes[h].relay

\* The claims are those of the live links (claimDescendants, releaseDescendants):
\* what an accepted snapshot declares is owned by its sender until its link ends
\* or a later snapshot drops it, so two peers never publish the routes of the
\* same relay, and no claim survives a refused snapshot or a link that ended,
\* which would bar the relay from every other parent.
ClaimsExact ==
    \A r \in Relay :
        /\ \A l \in Link : r \in link[l].descendants =>
             descendantOwner[r] = LinkRelay[l] \/ (At(l, "chains") /\ r \notin link[l].relays)
        /\ descendantOwner[r] # None =>
             \E l \in Link : /\ LinkRelay[l] = descendantOwner[r]
                             /\ r \in link[l].descendants \cup link[l].relays

\* A request that returned, by whichever path (refusal, write error, result,
\* timeout, loss of the link, or two of them at once), holds no slot and is in no
\* table of relay tasks; a local one leaves no owner behind either.
RequestLeavesNothing ==
    \A t \in Task : req[t].at = "done" =>
        /\ t \notin slots \cup relayPendingTasks
        /\ ~req[t].forwarded => relayTaskOwner[t] = None
=============================================================================
