------------------------------ MODULE Topology ------------------------------
(***************************************************************************)
(* How the nodes of the relay tree learn where a host is.                  *)
(*                                                                         *)
(* A node publishes to its parent a topology_snapshot when the link is     *)
(* established and when the subtree below it changed, an agent_list of its *)
(* own agents periodically, and one event_forward per host.up / host.down  *)
(* (server/helpers.go, repeater/uplink.go).  The parent turns them into    *)
(* the routing table relay_routing (ws/relay_handler.go,                   *)
(* storage/store_routing.go), runs its hooks and passes the event on.      *)
(*                                                                         *)
(* Local events leave ws/handler.go in a goroutine each; the upstream      *)
(* queue is bounded and drops what does not fit; links break with frames   *)
(* in flight; nodes restart and lose their routing table (memory only).    *)
(* A relay is identified with the node that bears its id; the relay_chain  *)
(* of a route is the tree path to the declaring relay and is not stored.   *)
(***************************************************************************)
EXTENDS Integers, FiniteSets, Sequences

CONSTANTS Node,     \* the relay servers of the tree
          Root,     \* the node without a parent
          Parent,   \* the parent of every other node
          Host,     \* the agents' hostnames
          Homes,    \* the nodes each host's agent may connect to
          None,     \* no route
          UpCap,    \* capacity of the upstream event queue (256 in the code)
          MaxConn,  \* bound: connections and disconnections of agents
          MaxFault  \* bound: links broken, frames over a quota, nodes
                    \* restarted or switched off

Relay == Node \ {Root}
Child(n) == {c \in Relay : Parent[c] = n}
Events == {"host.up", "host.down"}

VARIABLES
  conn,    \* wsConnections of each node: the hosts connected to it
  going,   \* goroutines started by ws/handler.go that have not dispatched yet
  route,   \* s.routes of each node: the relay that declares the host, or None
  known,   \* relay_nodes of each node (persisted)
  up,      \* upEvents: the events waiting for the uplink
  topo,    \* topoChanged holds a token
  link,    \* the node's own uplink: "down", "open" (u.cur set) or "up"
  wire,    \* frames written by the node and not read by its parent
  cut,     \* the node's connection to its parent is broken or closed
  par,     \* the parent's handler of that connection: "none", "hello", "live"
  desc,    \* conn.descendants in the parent's handler
  off,     \* nodes switched off
  lost,    \* some event was dropped because a queue or a quota was full
  spent    \* what the bounds have counted so far

vars == <<conn, going, route, known, up, topo, link, wire, cut, par, desc, off,
          lost, spent>>
parts == <<conn, going, route, known, up, topo, link, wire, cut, par, desc>>

Bounds == [conn |-> MaxConn, fault |-> MaxFault]

Event == [ev : Events, host : Host, at : Relay]
Frame == [type : {"snapshot"}, relays : SUBSET Relay, agents : SUBSET (Host \X Relay)]
           \cup [type : {"list"}, hosts : SUBSET Host]
           \cup [type : {"event"}, event : Event]

TypeOK ==
  /\ conn \in [Node -> SUBSET Host]
  /\ going \in [Node -> [Host -> [Events -> 0..MaxConn]]]
  /\ route \in [Node -> [Host -> Relay \cup {None}]]
  /\ known \in [Node -> SUBSET Relay]
  /\ \A n \in Relay : /\ up[n] \in Seq(Event) /\ Len(up[n]) <= UpCap
                      /\ wire[n] \in Seq(Frame) /\ Len(wire[n]) <= 3
  /\ topo \in [Node -> BOOLEAN]
  /\ link \in [Relay -> {"down", "open", "up"}]
  /\ cut \in [Relay -> BOOLEAN]
  /\ par \in [Relay -> {"none", "hello", "live"}]
  /\ desc \in [Relay -> SUBSET Relay]
  /\ off \subseteq Relay /\ lost \in BOOLEAN
  /\ \A k \in DOMAIN Bounds : spent[k] \in 0..Bounds[k]

Init ==
  /\ conn = [n \in Node |-> {}]
  /\ going = [n \in Node |-> [h \in Host |-> [e \in Events |-> 0]]]
  /\ route = [n \in Node |-> [h \in Host |-> None]]
  /\ known = [n \in Node |-> {}]
  /\ up = [n \in Relay |-> <<>>]
  /\ topo = [n \in Node |-> FALSE]
  /\ link = [n \in Relay |-> "down"]
  /\ wire = [n \in Relay |-> <<>>]
  /\ cut = [n \in Relay |-> FALSE]
  /\ par = [n \in Relay |-> "none"]
  /\ desc = [n \in Relay |-> {}]
  /\ off = {} /\ lost = FALSE
  /\ spent = [k \in DOMAIN Bounds |-> 0]

\* Counts one occurrence against a bound.
Spend(k) == spent[k] < Bounds[k] /\ spent' = [spent EXCEPT ![k] = @ + 1]

-----------------------------------------------------------------------------
(* The agents of a node *)

\* go (*fn)("host.up", ...): the event has its own goroutine.
Spawn(n, h, e) == going' = [going EXCEPT ![n][h][e] = @ + 1]

RegisterConnection(n, h) ==
  /\ n \in Homes[h] \ off
  /\ \A m \in Node : h \notin conn[m]
  /\ Spend("conn")
  /\ conn' = [conn EXCEPT ![n] = @ \cup {h}]
  /\ Spawn(n, h, "host.up")
  /\ UNCHANGED <<route, known, up, topo, link, wire, cut, par, desc, off, lost>>

unregisterIfCurrent(n, h) ==
  /\ h \in conn[n]
  /\ Spend("conn")
  /\ conn' = [conn EXCEPT ![n] = @ \ {h}]
  /\ Spawn(n, h, "host.down")
  /\ UNCHANGED <<route, known, up, topo, link, wire, cut, par, desc, off, lost>>

-----------------------------------------------------------------------------
(* The upstream queue *)

\* Never blocks: an event the queue cannot take is dropped.
QueueUpstream(n, e) ==
  IF Len(up[n]) < UpCap
  THEN up' = [up EXCEPT ![n] = Append(@, e)] /\ UNCHANGED lost
  ELSE lost' = TRUE /\ UNCHANGED up

\* Uplink.Active.
Active(n) == link[n] # "down"

\* The dispatcher's upstream function: a link that is not established drops
\* the local event, the snapshot of the next link covers it.
SetUpstream(n, h, e) ==
  IF n \in Relay /\ Active(n)
  THEN QueueUpstream(n, [ev |-> e, host |-> h, at |-> n])
  ELSE UNCHANGED <<up, lost>>

\* One event goroutine runs Dispatcher.Dispatch (its hook side is HookQueue).
Dispatch(n, h, e) ==
  /\ going[n][h][e] > 0
  /\ going' = [going EXCEPT ![n][h][e] = @ - 1]
  /\ SetUpstream(n, h, e)
  /\ UNCHANGED <<conn, route, known, topo, link, wire, cut, par, desc, off, spent>>

\* A received event goes on to our own parent; with an upstream configured
\* it is queued even while the link is down.
forwardEventUpstream(n, e) ==
  IF n \in Relay THEN QueueUpstream(n, e) ELSE UNCHANGED <<up, lost>>

-----------------------------------------------------------------------------
(* The uplink of a node *)

\* Direct agents, and the hosts routed to every relay it knows.
BuildSnapshot(n) ==
  [type |-> "snapshot", relays |-> known[n],
   agents |-> (conn[n] \X {n})
                \cup {<<h, r>> \in Host \X known[n] : route[n][h] = r}]

DirectAgents(n) == [type |-> "list", hosts |-> conn[n]]

\* A write on a broken connection may still succeed: the frames are lost.
\* Bound: one frame of each type in flight on one link.
Write(n, frames) ==
  /\ \A i \in DOMAIN wire[n], j \in DOMAIN frames : wire[n][i].type # frames[j].type
  /\ wire' = [wire EXCEPT ![n] = IF cut[n] THEN @ ELSE @ \o frames]

\* The handshake of a new connection: u.cur is set, the parent has said hello.
Connect(n) ==
  /\ link[n] = "down" /\ par[n] = "none"
  /\ {n, Parent[n]} \cap off = {}
  /\ link' = [link EXCEPT ![n] = "open"]
  /\ par' = [par EXCEPT ![n] = "hello"]
  /\ known' = [known EXCEPT ![Parent[n]] = @ \cup {n}]
  /\ cut' = [cut EXCEPT ![n] = FALSE]
  /\ desc' = [desc EXCEPT ![n] = {}]
  /\ wire' = [wire EXCEPT ![n] = <<>>]
  /\ UNCHANGED <<conn, going, route, up, topo, off, lost, spent>>

\* Uplink.run: the first snapshot, then the first agent_list.
Established(n) ==
  /\ link[n] = "open"
  /\ Write(n, <<BuildSnapshot(n), DirectAgents(n)>>)
  /\ link' = [link EXCEPT ![n] = "up"]
  /\ UNCHANGED <<conn, going, route, known, up, topo, cut, par, desc, off, lost, spent>>

\* Periodic.
SendAgentList(n) ==
  /\ link[n] = "up"
  /\ Write(n, <<DirectAgents(n)>>)
  /\ UNCHANGED <<conn, going, route, known, up, topo, link, cut, par, desc, off, lost, spent>>

\* The debounced reaction to topoChanged.
SendSnapshot(n) ==
  /\ link[n] = "up" /\ topo[n]
  /\ Write(n, <<BuildSnapshot(n)>>)
  /\ topo' = [topo EXCEPT ![n] = FALSE]
  /\ UNCHANGED <<conn, going, route, known, up, link, cut, par, desc, off, lost, spent>>

ForwardEvent(n) ==
  /\ link[n] = "up" /\ up[n] # <<>>
  /\ Write(n, <<[type |-> "event", event |-> Head(up[n])]>>)
  /\ up' = [up EXCEPT ![n] = Tail(@)]
  /\ UNCHANGED <<conn, going, route, known, topo, link, cut, par, desc, off, lost, spent>>

\* The uplink notices that its connection is gone: u.cur is reset.
UplinkEnds(n) ==
  /\ cut[n] /\ link[n] # "down"
  /\ link' = [link EXCEPT ![n] = "down"]
  /\ UNCHANGED <<conn, going, route, known, up, topo, wire, cut, par, desc, off, lost, spent>>

-----------------------------------------------------------------------------
(* The routing table of a node *)

\* Mutant: only the routes that exist already are updated.
BulkUpdate(r, relay, hosts) ==
  [h \in Host |-> IF r[h] = relay /\ h \notin hosts THEN None ELSE r[h]]

\* REPLACES all the routes of the relay.
BulkUpsertRelayRouting(r, relay, hosts) ==
  [h \in Host |-> IF h \in hosts THEN relay
                  ELSE IF r[h] = relay THEN None ELSE r[h]]

\* The routes of all the relays of cleared are removed.
ClearRoutes(r, cleared) == [h \in Host |-> IF r[h] \in cleared THEN None ELSE r[h]]

\* Mutant: the change is not announced.
NotifyNobody(p) == UNCHANGED topo

\* A token for our own uplink, coalesced with one that is waiting.
notifyTopologyChanged(p) == topo' = [topo EXCEPT ![p] = TRUE]

\* The relays on the path from the origin of an event up to the peer n.
RECURSIVE PathTo(_, _)
PathTo(m, n) == IF m = n \/ m = Root THEN {m} ELSE {m} \cup PathTo(Parent[m], n)

-----------------------------------------------------------------------------
(* The parent's handler of the connection of child n *)

Reading(n, type) == par[n] # "none" /\ wire[n] # <<>> /\ Head(wire[n]).type = type
Read(n) == wire' = [wire EXCEPT ![n] = Tail(@)]

\* Close 4012: nothing more is read from the child, it notices the close.
Reject(n) ==
  /\ cut' = [cut EXCEPT ![n] = TRUE]
  /\ wire' = [wire EXCEPT ![n] = <<>>]
  /\ UNCHANGED <<conn, going, route, known, up, topo, link, par, desc, off, lost>>

\* validateSnapshot: a hostname may appear once.
DuplicateHost(f) ==
  \E a, b \in f.agents : a[1] = b[1] /\ a[2] # b[2]

\* claimDescendants: no relay of the snapshot is connected here directly or
\* declared by another child.
ClaimConflict(n, f) ==
  \E m \in Child(Parent[n]) : \/ m \in f.relays /\ par[m] # "none"
                              \/ m # n /\ desc[m] \cap f.relays # {}

\* Mutant: any existing route is a conflict, the child's own included.
AnyRouteConflicts(n, f) ==
  \E a \in f.agents : \/ a[1] \in conn[Parent[n]]
                      \/ route[Parent[n]][a[1]] # None

\* checkHostConflicts: connected here, or routed through another child.
CheckHostConflicts(n, f) ==
  \E a \in f.agents : \/ a[1] \in conn[Parent[n]]
                      \/ route[Parent[n]][a[1]] \notin {None, n} \cup f.relays

Refused(n, f) == DuplicateHost(f) \/ ClaimConflict(n, f) \/ CheckHostConflicts(n, f)

\* The routes of the child and of every relay it declares or declared are
\* rewritten; the new parent's own parent is told that the topology changed.
HandleTopologySnapshot(n) ==
  /\ Reading(n, "snapshot")
  /\ LET f == Head(wire[n])
         p == Parent[n]
         cleared == ClearRoutes(route[p], {n} \cup f.relays \cup desc[n])
     IN IF Refused(n, f) THEN Reject(n) /\ UNCHANGED spent
        ELSE /\ Read(n)
             /\ route' = [route EXCEPT ![p] =
                  [h \in Host |-> IF \E r \in Relay : <<h, r>> \in f.agents
                                  THEN CHOOSE r \in Relay : <<h, r>> \in f.agents
                                  ELSE cleared[h]]]
             /\ known' = [known EXCEPT ![p] = @ \cup f.relays]
             /\ desc' = [desc EXCEPT ![n] = f.relays]
             /\ par' = [par EXCEPT ![n] = "live"]
             /\ notifyTopologyChanged(p)
             /\ UNCHANGED <<conn, going, up, link, cut, off, lost, spent>>

\* The quota of snapshots per minute of the relay is exceeded.
SnapshotOverQuota(n) ==
  /\ Reading(n, "snapshot")
  /\ Spend("fault")
  /\ Reject(n)

\* A live local agent is never re-routed; between relays the last one wins.
HandleAgentList(n) ==
  /\ Reading(n, "list")
  /\ Read(n)
  /\ LET p == Parent[n]
     IN route' = [route EXCEPT ![p] =
                    BulkUpsertRelayRouting(@, n, Head(wire[n]).hosts \ conn[p])]
  /\ UNCHANGED <<conn, going, known, up, topo, link, cut, par, desc, off, lost, spent>>

\* host.up routes the host to its origin, host.down keeps the route.
ApplyEventRouting(p, e) ==
  IF e.ev = "host.up"
  THEN /\ route' = [route EXCEPT ![p][e.host] = e.at]
       /\ known' = [known EXCEPT ![p] = @ \cup {e.at}]
  ELSE UNCHANGED <<route, known>>

\* Accepted unless the host is connected here, the chain names an undeclared
\* relay or (host.down) the host is routed through another child.
Acceptable(n, e) ==
  /\ PathTo(e.at, n) \ {n} \subseteq desc[n]
  /\ e.host \notin conn[Parent[n]]
  /\ e.ev = "host.down" => route[Parent[n]][e.host] \in {None, n} \cup desc[n]

HandleEventForward(n) ==
  /\ Reading(n, "event")
  /\ Read(n)
  /\ LET e == Head(wire[n]).event
         p == Parent[n]
     IN IF Acceptable(n, e)
        THEN ApplyEventRouting(p, e) /\ forwardEventUpstream(p, e)
        ELSE UNCHANGED <<route, known, up, lost>>
  /\ UNCHANGED <<conn, going, topo, link, cut, par, desc, off, spent>>

\* The quota of events per second of the relay is exceeded: dropped.
EventOverQuota(n) ==
  /\ Reading(n, "event")
  /\ Spend("fault")
  /\ Read(n)
  /\ lost' = TRUE
  /\ UNCHANGED <<conn, going, route, known, up, topo, link, cut, par, desc, off>>

\* The deferred cleanup of serveRelayConn: the relays declared by the child
\* are unreachable, its own hosts keep their route (dispatch reports offline).
ServeRelayConnEnds(n) ==
  /\ cut[n] /\ par[n] # "none" /\ wire[n] = <<>>
  /\ LET p == Parent[n]
     IN /\ route' = [route EXCEPT ![p] = ClearRoutes(@, desc[n])]
        /\ notifyTopologyChanged(p)
  /\ par' = [par EXCEPT ![n] = "none"]
  /\ desc' = [desc EXCEPT ![n] = {}]
  /\ UNCHANGED <<conn, going, known, up, link, wire, cut, off, lost, spent>>

-----------------------------------------------------------------------------
(* The network and the machines *)

\* A connection breaks; the frames behind some point are never delivered.
LinkLost(n) ==
  /\ par[n] # "none" /\ ~cut[n]
  /\ Spend("fault")
  /\ cut' = [cut EXCEPT ![n] = TRUE]
  /\ \E k \in 0..Len(wire[n]) : wire' = [wire EXCEPT ![n] = SubSeq(@, 1, k)]
  /\ UNCHANGED <<conn, going, route, known, up, topo, link, par, desc, off, lost>>

\* What stopping the process of node n does: its memory is lost and so are
\* its connections; relay_nodes is on disk.
Stopped(n) ==
  /\ conn' = [conn EXCEPT ![n] = {}]
  /\ going' = [going EXCEPT ![n] = [h \in Host |-> [e \in Events |-> 0]]]
  /\ route' = [route EXCEPT ![n] = [h \in Host |-> None]]
  /\ topo' = [topo EXCEPT ![n] = FALSE]
  /\ up' = [m \in Relay |-> IF m = n THEN <<>> ELSE up[m]]
  /\ link' = [m \in Relay |-> IF m = n THEN "down" ELSE link[m]]
  /\ par' = [m \in Relay |-> IF m \in Child(n) THEN "none" ELSE par[m]]
  /\ desc' = [m \in Relay |-> IF m \in Child(n) THEN {} ELSE desc[m]]
  /\ cut' = [m \in Relay |-> cut[m] \/ m = n \/ m \in Child(n)]
  /\ wire' = [m \in Relay |-> IF m \in Child(n) THEN <<>> ELSE wire[m]]
  /\ UNCHANGED <<known, lost>>

Restart(n) == n \notin off /\ Spend("fault") /\ Stopped(n) /\ UNCHANGED off

SwitchOff(n) == n \notin off /\ Spend("fault") /\ Stopped(n) /\ off' = off \cup {n}

-----------------------------------------------------------------------------
Parents(n) == HandleTopologySnapshot(n) \/ HandleAgentList(n) \/ HandleEventForward(n)

Next ==
  \/ \E n \in Node, h \in Host : \/ RegisterConnection(n, h)
                                 \/ unregisterIfCurrent(n, h)
                                 \/ \E e \in Events : Dispatch(n, h, e)
  \/ \E n \in Relay : \/ Connect(n) \/ Established(n) \/ SendAgentList(n)
                      \/ SendSnapshot(n) \/ ForwardEvent(n) \/ UplinkEnds(n)
                      \/ Parents(n) \/ EventOverQuota(n) \/ SnapshotOverQuota(n)
                      \/ ServeRelayConnEnds(n)
                      \/ LinkLost(n) \/ SwitchOff(n)
  \/ \E n \in Node : Restart(n)

Spec == Init /\ [][Next]_vars

\* Goroutines run; both ends of a link notice that it is gone, and reconnect;
\* the select loop of the uplink picks among its ready cases at random, so a
\* case that stays ready is taken.
Fairness ==
  /\ \A n \in Node, h \in Host : WF_vars(\E e \in Events : Dispatch(n, h, e))
  /\ \A n \in Relay : /\ WF_vars(Connect(n) \/ Established(n) \/ UplinkEnds(n))
                      /\ WF_vars(Parents(n) \/ ServeRelayConnEnds(n))
                      /\ WF_vars(SendAgentList(n)) /\ WF_vars(SendSnapshot(n))
                      /\ WF_vars(ForwardEvent(n))

FairSpec == Spec /\ Fairness

-----------------------------------------------------------------------------
(* Properties *)

Alive(n) == PathTo(n, Root) \cap off = {}

\* A relay that runs below running relays ends up linked to its parent for
\* good: its snapshots are accepted and the link is not closed any more.
LinksSettle ==
  \A n \in Relay : <>[](Alive(n) => link[n] = "up" /\ par[n] = "live" /\ ~cut[n])

\* Once agents and links are quiet, a host connected to a relay is routed to
\* that relay by the relay's parent, whatever events were dropped, refused or
\* overtaken by others: the periodic agent_list repairs the table.
DirectRoutesConverge ==
  <>[](\A m \in Relay : \A h \in conn[m] : Alive(m) => route[Parent[m]][h] = m)

\* ... and if no event was dropped for lack of room, every ancestor sends the
\* tasks of that host towards it, although only snapshots and events tell an
\* ancestor about a deep host and local events are dropped while a link is
\* not established.
DeepRoutesConverge ==
  <>[](lost \/ \A m \in Relay : \A h \in conn[m] : Alive(m) =>
        \A c \in PathTo(m, Root) \ {Root} :
          LET r == route[Parent[c]][h] IN r \in Relay /\ c \in PathTo(r, Root))
=============================================================================
