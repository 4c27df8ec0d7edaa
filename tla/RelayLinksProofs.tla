-------------------------- MODULE RelayLinksProofs --------------------------
(***************************************************************************)
(* For any relays, links, hosts and tasks and any interleaving of the      *)
(* readers of the links: a route leads through a registered link or its    *)
(* removal is under way, the owners of the descendants are the links that  *)
(* declared them, and a request that returned has left every table.        *)
(*                                                                         *)
(* The first rests on the second.  The route of a descendant is dropped by *)
(* the link that claims it, so the invariant says of every route which     *)
(* reader answers for it (Leads): the one that holds its relay among its   *)
(* descendants, or that is about to write or to clear it.                  *)
(***************************************************************************)
EXTENDS RelayLinks, TLAPS

-----------------------------------------------------------------------------
(* What a reader holds *)

Relays == SUBSET Relay
Agents == [Host -> Relay \cup {None}]
Things == SUBSET (Host \cup Relay \cup Task)
Readers == [at : Steps, descendants : Relays, relays : Relays, agents : Agents, todo : Things]

Nobody == [h \in Host |-> None]

LEMMA WithAt ==
  ASSUME NEW x \in Readers, NEW s \in Steps, NEW y, y = [x EXCEPT !.at = s]
  PROVE  /\ y \in Readers /\ y.at = s /\ y.descendants = x.descendants /\ y.relays = x.relays
         /\ y.agents = x.agents /\ y.todo = x.todo
BY DEF Readers

LEMMA WithDescendants ==
  ASSUME NEW x \in Readers, NEW D \in Relays, NEW y, y = [x EXCEPT !.descendants = D]
  PROVE  /\ y \in Readers /\ y.at = x.at /\ y.descendants = D /\ y.relays = x.relays
         /\ y.agents = x.agents /\ y.todo = x.todo
BY DEF Readers

LEMMA WithRelays ==
  ASSUME NEW x \in Readers, NEW R \in Relays, NEW y, y = [x EXCEPT !.relays = R]
  PROVE  /\ y \in Readers /\ y.at = x.at /\ y.descendants = x.descendants /\ y.relays = R
         /\ y.agents = x.agents /\ y.todo = x.todo
BY DEF Readers

LEMMA WithAgents ==
  ASSUME NEW x \in Readers, NEW g \in Agents, NEW y, y = [x EXCEPT !.agents = g]
  PROVE  /\ y \in Readers /\ y.at = x.at /\ y.descendants = x.descendants /\ y.relays = x.relays
         /\ y.agents = g /\ y.todo = x.todo
BY DEF Readers

LEMMA WithTodo ==
  ASSUME NEW x \in Readers, NEW T \in Things, NEW y, y = [x EXCEPT !.todo = T]
  PROVE  /\ y \in Readers /\ y.at = x.at /\ y.descendants = x.descendants /\ y.relays = x.relays
         /\ y.agents = x.agents /\ y.todo = T
BY DEF Readers

\* The reader of link l alone changes, to these values.
Turns(l, s, D, R, g, T) ==
    /\ link' \in [Link -> Readers]
    /\ link'[l].at = s /\ link'[l].descendants = D /\ link'[l].relays = R
    /\ link'[l].agents = g /\ link'[l].todo = T
    /\ \A k \in Link : k # l => link'[k] = link[k]

Alone(l, y) ==
    link' \in [Link -> Readers] /\ link'[l] = y /\ \A k \in Link : k # l => link'[k] = link[k]

LEMMA TurnAlone ==
  ASSUME link \in [Link -> Readers], NEW l \in Link, NEW y \in Readers, link' = [link EXCEPT ![l] = y]
  PROVE  Alone(l, y)
BY DEF Alone

\* The steps of a reader that change its place only.
LEMMA TurnsAt ==
  ASSUME link \in [Link -> Readers], NEW l \in Link, NEW s \in Steps, link' = [link EXCEPT ![l].at = s]
  PROVE  Turns(l, s, link[l].descendants, link[l].relays, link[l].agents, link[l].todo)
<1> DEFINE y == [link[l] EXCEPT !.at = s]
<1>1. link' = [link EXCEPT ![l] = y] /\ link[l] \in Readers
  OBVIOUS
<1> HIDE DEF y
<1>2. /\ y \in Readers /\ y.at = s /\ y.descendants = link[l].descendants /\ y.relays = link[l].relays
      /\ y.agents = link[l].agents /\ y.todo = link[l].todo
  BY <1>1, WithAt DEF y
<1> QED BY <1>1, <1>2, TurnAlone DEF Alone, Turns

\* One of the things to go through is done.
LEMMA TurnsTodo ==
  ASSUME link \in [Link -> Readers], NEW l \in Link, NEW x, link' = [link EXCEPT ![l].todo = @ \ {x}]
  PROVE  Turns(l, link[l].at, link[l].descendants, link[l].relays, link[l].agents, link[l].todo \ {x})
<1> DEFINE T == link[l].todo \ {x}
<1> DEFINE y == [link[l] EXCEPT !.todo = T]
<1>1. link' = [link EXCEPT ![l] = y] /\ link[l] \in Readers
  OBVIOUS
<1>2. T \in Things
  BY <1>1 DEF Readers, Things
<1> HIDE DEF y, T
<1>3. /\ y \in Readers /\ y.at = link[l].at /\ y.descendants = link[l].descendants
      /\ y.relays = link[l].relays /\ y.agents = link[l].agents /\ y.todo = T
  BY <1>1, <1>2, WithTodo DEF y
<1>4. Turns(l, link[l].at, link[l].descendants, link[l].relays, link[l].agents, T)
  BY <1>1, <1>3, TurnAlone, Zenon DEF Alone, Turns
<1> QED BY <1>4 DEF T

\* A new place, and other things to go through.
LEMMA TurnsAtTodo ==
  ASSUME link \in [Link -> Readers], NEW l \in Link, NEW s \in Steps,
         NEW T \in Things, link' = [link EXCEPT ![l].at = s, ![l].todo = T]
  PROVE  Turns(l, s, link[l].descendants, link[l].relays, link[l].agents, T)
<1> DEFINE x == [link[l] EXCEPT !.at = s]
           y == [x EXCEPT !.todo = T]
<1>1. link' = [link EXCEPT ![l] = y] /\ link[l] \in Readers
  BY Zenon
<1> HIDE DEF x, y
<1>2. /\ x \in Readers /\ x.at = s /\ x.descendants = link[l].descendants /\ x.relays = link[l].relays
      /\ x.agents = link[l].agents
  BY <1>1, WithAt DEF x
<1>3. /\ y \in Readers /\ y.at = x.at /\ y.descendants = x.descendants /\ y.relays = x.relays
      /\ y.agents = x.agents /\ y.todo = T
  BY <1>2, WithTodo DEF y
<1> QED BY <1>1, <1>2, <1>3, TurnAlone DEF Alone, Turns

\* A message that names agents is in hand.
LEMMA TurnsAtAgents ==
  ASSUME link \in [Link -> Readers], NEW l \in Link, NEW s \in Steps,
         NEW g \in Agents, link' = [link EXCEPT ![l].at = s, ![l].agents = g]
  PROVE  Turns(l, s, link[l].descendants, link[l].relays, g, link[l].todo)
<1> DEFINE x == [link[l] EXCEPT !.at = s]
           y == [x EXCEPT !.agents = g]
<1>1. link' = [link EXCEPT ![l] = y] /\ link[l] \in Readers
  BY Zenon
<1> HIDE DEF x, y
<1>2. /\ x \in Readers /\ x.at = s /\ x.descendants = link[l].descendants /\ x.relays = link[l].relays
      /\ x.todo = link[l].todo
  BY <1>1, WithAt DEF x
<1>3. /\ y \in Readers /\ y.at = x.at /\ y.descendants = x.descendants /\ y.relays = x.relays
      /\ y.agents = g /\ y.todo = x.todo
  BY <1>2, WithAgents DEF y
<1> QED BY <1>1, <1>2, <1>3, TurnAlone DEF Alone, Turns

LEMMA TurnsAtDescendants ==
  ASSUME link \in [Link -> Readers], NEW l \in Link, NEW s \in Steps, NEW D \in Relays,
         link' = [link EXCEPT ![l].at = s, ![l].descendants = D]
  PROVE  Turns(l, s, D, link[l].relays, link[l].agents, link[l].todo)
<1> DEFINE x == [link[l] EXCEPT !.at = s]
           y == [x EXCEPT !.descendants = D]
<1>1. link' = [link EXCEPT ![l] = y] /\ link[l] \in Readers
  BY Zenon
<1> HIDE DEF x, y
<1>2. /\ x \in Readers /\ x.at = s /\ x.agents = link[l].agents /\ x.relays = link[l].relays
      /\ x.todo = link[l].todo
  BY <1>1, WithAt DEF x
<1>3. /\ y \in Readers /\ y.at = x.at /\ y.descendants = D /\ y.relays = x.relays
      /\ y.agents = x.agents /\ y.todo = x.todo
  BY <1>2, WithDescendants DEF y
<1> QED BY <1>1, <1>2, <1>3, TurnAlone DEF Alone, Turns

\* A snapshot is in hand.
LEMMA TurnsCheck ==
  ASSUME link \in [Link -> Readers], NEW l \in Link, NEW R \in Relays,
         NEW g \in Agents, NEW T \in SUBSET Host,
         link' = [link EXCEPT ![l].at = "check", ![l].relays = R, ![l].agents = g, ![l].todo = T]
  PROVE  Turns(l, "check", link[l].descendants, R, g, T)
<1> DEFINE w == [link[l] EXCEPT !.at = "check"]
           x == [w EXCEPT !.relays = R]
           y == [x EXCEPT !.agents = g]
           z == [y EXCEPT !.todo = T]
<1>1. link' = [link EXCEPT ![l] = z] /\ link[l] \in Readers
  BY Zenon
<1> HIDE DEF w, x, y, z
<1>2. /\ w \in Readers /\ w.at = "check" /\ w.descendants = link[l].descendants
  BY <1>1, WithAt DEF w, Steps
<1>3. /\ x \in Readers /\ x.at = w.at /\ x.descendants = w.descendants /\ x.relays = R
  BY <1>2, WithRelays DEF x
<1>4. /\ y \in Readers /\ y.at = x.at /\ y.descendants = x.descendants /\ y.relays = x.relays
      /\ y.agents = g
  BY <1>3, WithAgents DEF y
<1>5. /\ z \in Readers /\ z.at = y.at /\ z.descendants = y.descendants /\ z.relays = y.relays
      /\ z.agents = y.agents /\ z.todo = T
  <2>1. T \in Things
    BY DEF Things
  <2> QED BY <1>4, <2>1, WithTodo DEF z
<1> QED BY <1>1, <1>2, <1>3, <1>4, <1>5, TurnAlone DEF Alone, Turns

\* The message in hand is forgotten.
LEMMA TurnsOff ==
  ASSUME link \in [Link -> Readers], NEW l \in Link, NEW s \in Steps, NEW D \in Relays,
         link' = [link EXCEPT ![l] = [Off EXCEPT !.at = s, !.descendants = D]]
  PROVE  Turns(l, s, D, {}, Nobody, {})
<1> DEFINE y == [Off EXCEPT !.at = s, !.descendants = D]
<1>1. link' = [link EXCEPT ![l] = y]
  OBVIOUS
<1> HIDE DEF y
<1>2. /\ y \in Readers /\ y.at = s /\ y.descendants = D /\ y.relays = {} /\ y.agents = Nobody
      /\ y.todo = {}
  BY Zenon DEF y, Off, Readers, Nobody, Relays, Agents, Things
<1> QED BY <1>1, <1>2, TurnAlone, Zenon DEF Alone, Turns

LEMMA TurnsEnding ==
  ASSUME link \in [Link -> Readers], NEW l \in Link, link' = [link EXCEPT ![l] = Ending(l)]
  PROVE  Turns(l, "drop", link[l].descendants, {}, Nobody, link[l].descendants)
<1> DEFINE D == link[l].descendants
           x == [Off EXCEPT !.at = "drop", !.descendants = D]
           y == [x EXCEPT !.todo = D]
<1>0. D \in Relays
  BY DEF Readers
<1>1. link' = [link EXCEPT ![l] = y]
  BY DEF Ending
<1> HIDE DEF D, x, y
<1>2. /\ x \in Readers /\ x.at = "drop" /\ x.descendants = D /\ x.relays = {} /\ x.agents = Nobody
  BY <1>0, Zenon DEF x, Off, Readers, Nobody, Relays, Agents, Things, Steps
<1>3. /\ y \in Readers /\ y.at = x.at /\ y.descendants = x.descendants /\ y.relays = x.relays
      /\ y.agents = x.agents /\ y.todo = D
  <2>1. D \in Things
    BY <1>0 DEF Things, Relays
  <2> QED BY <1>2, <2>1, WithTodo DEF y
<1>4. Turns(l, "drop", D, {}, Nobody, D)
  BY <1>1, <1>2, <1>3, TurnAlone DEF Alone, Turns
<1> QED BY <1>4 DEF D

LEMMA TurnsClosed ==
  ASSUME link \in [Link -> Readers], NEW l \in Link, link' = [link EXCEPT ![l] = Off]
  PROVE  Turns(l, "off", {}, {}, Nobody, {})
<1>1. /\ Off \in Readers /\ Off.at = "off" /\ Off.descendants = {} /\ Off.relays = {}
      /\ Off.agents = Nobody /\ Off.todo = {}
  BY DEF Off, Readers, Steps, Nobody, Relays, Agents, Things
<1> QED BY <1>1, TurnAlone DEF Alone, Turns

-----------------------------------------------------------------------------
(* The invariant *)

\* The steps of a reader whose relay is registered, and those with a snapshot in hand.
Registered == {"open", "check", "write", "chains", "list", "event", "drop", "unregister"}
Holding == {"check", "write", "chains"}

\* What a reader keeps from one step to the next.
Shape(l) ==
    /\ link[l].at \notin Holding => link[l].relays = {}
    /\ link[l].at \notin Registered \ {"unregister"} => link[l].descendants = {}
    /\ link[l].at \in {"write", "drop"} => link[l].todo \subseteq link[l].relays \cup link[l].descendants
    /\ link[l].at \in {"off", "open"} => \A h \in Host : link[l].agents[h] = None
    /\ link[l].at \in Holding =>
         \A h \in Host : link[l].agents[h] \in link[l].relays \cup {LinkRelay[l], None}
    /\ link[l].at = "event" =>
         \A h \in Host : link[l].agents[h] \in link[l].descendants \cup {LinkRelay[l], None}

\* Its relay is registered until the cleanup removes it.
Connected(l) == link[l].at \in Registered => relayConnections[LinkRelay[l]] # None

\* Its claims: those of the snapshot in hand, those of the last one, and none of the relays that
\* left once they are released.
Claims(l) ==
    /\ \A r \in link[l].relays : descendantOwner[r] = LinkRelay[l]
    /\ \A r \in link[l].descendants :
         descendantOwner[r] = LinkRelay[l] \/ (At(l, "chains") /\ r \notin link[l].relays)
    /\ At(l, "chains") =>
         \A r \in link[l].descendants \ link[l].relays : descendantOwner[r] # LinkRelay[l]

\* Every claim is one of them.
Claimed(r) ==
    descendantOwner[r] # None =>
      \E l \in Link : LinkRelay[l] = descendantOwner[r] /\ r \in link[l].descendants \cup link[l].relays

\* Link l still answers for the routes that go to relay r through its peer: it will drop them when
\* it ends, or when a snapshot no longer declares r.
Answers(l, r) ==
    /\ r \in link[l].descendants
    /\ link[l].at \in Registered \ {"unregister"}
    /\ At(l, "write") => r \in link[l].relays \cup link[l].todo
    /\ At(l, "chains") => r \in link[l].relays
    /\ At(l, "drop") => r \in link[l].todo

\* Link l is writing a snapshot that lists host h under relay r.
Lists(l, h, r) ==
    link[l].at \in {"write", "chains"} /\ r \in link[l].relays /\ link[l].agents[h] = r

\* Where a route leads.  One whose next hop is the declaring relay itself: that relay is connected,
\* its routes are about to be cleared, or a snapshot that is being written has the host in its list.
\* One through a peer: the link of the peer answers for it.
Leads(h) ==
    routes[h] # None =>
      IF routes[h].relay = routes[h].hop
      THEN \/ relayConnections[routes[h].hop] # None
           \/ \E l \in Link : At(l, "clear") /\ LinkRelay[l] = routes[h].relay
           \/ \E l \in Link : Lists(l, h, routes[h].relay)
      ELSE \E l \in Link : LinkRelay[l] = routes[h].hop /\ Answers(l, routes[h].relay)

Typed ==
    /\ relayConnections \in [Relay -> Link \cup {None}]
    /\ link \in [Link -> Readers]
    /\ descendantOwner \in [Relay -> Relay \cup {None}]
    /\ routes \in [Host -> [relay : Relay, hop : Relay] \cup {None}]

LinksInv ==
    /\ Typed
    /\ \A l \in Link : Shape(l) /\ Connected(l) /\ Claims(l)
    /\ \A r \in Relay : Claimed(r)
    /\ \A h \in Host : Leads(h)

\* Where the request of a task is, and what it holds.
Places == {"new", "hop", "register", "own", "write", "wait", "done"}
Requests == [at : Places, forwarded : BOOLEAN, hop : Relay \cup {None}, via : Link \cup {None}]

\* A task that has a slot is pending, and its request has not been told yet.
TaskInv ==
    /\ req \in [Task -> Requests]
    /\ relayTaskOwner \in [Task -> Relay \cup {None}]
    /\ channel \in [Task -> {"result", "relay_disconnected", None}]
    /\ relayPendingTasks = slots /\ slots \subseteq Task
    /\ \A t \in Task :
         /\ req[t].at \in {"hop", "register", "own"} => req[t].hop \in Relay
         /\ req[t].at \in {"new", "hop", "register"} =>
              t \notin slots /\ relayTaskOwner[t] = None /\ channel[t] = None
         /\ t \in slots => channel[t] = None
         /\ req[t].at = "done" => t \notin slots /\ (~req[t].forwarded => relayTaskOwner[t] = None)

-----------------------------------------------------------------------------
(* One step of one reader *)

LEMMA PeerFacts ==
  ASSUME NEW l \in Link
  PROVE  /\ LinkRelay[l] \in Relay /\ LinkRelay[l] # None
         /\ \A k \in Link : k # l => LinkRelay[k] # LinkRelay[l]
BY LinkAssumption, NoneAssumption

\* A claim of the peer of l is one of l.
LEMMA OwnClaim ==
  ASSUME LinksInv, NEW l \in Link, NEW r \in Relay, descendantOwner[r] = LinkRelay[l]
  PROVE  r \in link[l].descendants \cup link[l].relays
BY PeerFacts DEF LinksInv, Claimed

\* Only claims of the peer of l change.
OwnClaimsOnly(l) ==
    \A r \in Relay : \/ descendantOwner'[r] = descendantOwner[r]
                     \/ /\ descendantOwner[r] \in {None, LinkRelay[l]}
                        /\ descendantOwner'[r] \in {None, LinkRelay[l]}

\* The readers of the other links are not concerned.
OthersAlone(l) ==
    /\ link' \in [Link -> Readers]
    /\ \A k \in Link : k # l => link'[k] = link[k]
    /\ \A r \in Relay : r # LinkRelay[l] => relayConnections'[r] = relayConnections[r]
    /\ OwnClaimsOnly(l)

LEMMA OthersKept ==
  ASSUME LinksInv, NEW l \in Link, OthersAlone(l), NEW k \in Link, k # l
  PROVE  Shape(k)' /\ Connected(k)' /\ Claims(k)'
<1>1. link'[k] = link[k] /\ LinkRelay[k] # LinkRelay[l] /\ LinkRelay[k] \in Relay /\ LinkRelay[k] # None
  BY PeerFacts DEF OthersAlone
<1>2. Shape(k) /\ Connected(k) /\ Claims(k)
  BY DEF LinksInv
<1>3. Shape(k)'
  BY <1>1, <1>2 DEF Shape
<1>4. Connected(k)'
  BY <1>1, <1>2 DEF Connected, OthersAlone
<1>5. Claims(k)'
  <2>0. link[k].relays \subseteq Relay /\ link[k].descendants \subseteq Relay
    BY DEF LinksInv, Typed, Readers, Relays
  <2>1. \A r \in Relay : (descendantOwner'[r] = LinkRelay[k]) <=> (descendantOwner[r] = LinkRelay[k])
    BY <1>1 DEF OthersAlone, OwnClaimsOnly
  <2> QED BY <1>1, <1>2, <2>0, <2>1 DEF Claims, At
<1> QED BY <1>3, <1>4, <1>5

LEMMA LinkStep ==
  ASSUME LinksInv, NEW l \in Link, OthersAlone(l), Typed',
         Shape(l)', Connected(l)', Claims(l)',
         \A r \in Relay : descendantOwner'[r] = LinkRelay[l] => r \in link'[l].descendants \cup link'[l].relays,
         \A h \in Host : Leads(h)'
  PROVE  LinksInv'
<1>1. \A k \in Link : Shape(k)' /\ Connected(k)' /\ Claims(k)'
  BY OthersKept
<1>2. ASSUME NEW r \in Relay, descendantOwner'[r] # None
      PROVE  \E k \in Link : LinkRelay[k] = descendantOwner'[r] /\ r \in link'[k].descendants \cup link'[k].relays
  <2>1. CASE descendantOwner'[r] = LinkRelay[l]
    BY <2>1
  <2>2. CASE descendantOwner'[r] # LinkRelay[l]
    <3>1. descendantOwner'[r] = descendantOwner[r]
      BY <1>2, <2>2 DEF OthersAlone, OwnClaimsOnly
    <3>2. PICK k \in Link : LinkRelay[k] = descendantOwner[r] /\ r \in link[k].descendants \cup link[k].relays
      BY <1>2, <3>1 DEF LinksInv, Claimed
    <3>3. link'[k] = link[k]
      BY <2>2, <3>1, <3>2 DEF OthersAlone
    <3> QED BY <3>1, <3>2, <3>3
  <2> QED BY <2>1, <2>2
<1> QED BY <1>1, <1>2 DEF LinksInv, Claimed

\* A route that stays as it is still leads somewhere, if what l did for it l still does.
LEMMA RouteKept ==
  ASSUME LinksInv, NEW l \in Link, OthersAlone(l), NEW h \in Host, routes'[h] = routes[h],
         routes[h] # None,
         relayConnections[LinkRelay[l]] # None =>
            relayConnections'[LinkRelay[l]] # None \/ link'[l].at = "clear",
         At(l, "clear") /\ routes[h].relay = LinkRelay[l] => link'[l].at = "clear",
         Lists(l, h, routes[h].relay) => Lists(l, h, routes[h].relay)',
         routes[h].hop = LinkRelay[l] /\ Answers(l, routes[h].relay) => Answers(l, routes[h].relay)'
  PROVE  Leads(h)'
<1> DEFINE r == routes[h].relay
           n == routes[h].hop
<1>0. r \in Relay /\ n \in Relay
  BY DEF LinksInv, Typed
<1>1. CASE r = n
  <2>1. CASE relayConnections[n] # None
    BY <1>0, <1>1, <2>1 DEF OthersAlone, Leads, At
  <2>2. ASSUME NEW k \in Link, At(k, "clear"), LinkRelay[k] = r PROVE Leads(h)'
    BY <1>1, <2>2 DEF OthersAlone, Leads, At
  <2>3. ASSUME NEW k \in Link, Lists(k, h, r) PROVE Leads(h)'
    <3>1. Lists(k, h, r)'
      BY <2>3 DEF OthersAlone, Lists
    <3> QED BY <1>1, <3>1 DEF Leads
  <2> QED BY <1>1, <2>1, <2>2, <2>3, Zenon DEF LinksInv, Leads
<1>2. CASE r # n
  <2>1. PICK k \in Link : LinkRelay[k] = n /\ Answers(k, r)
    BY <1>2 DEF LinksInv, Leads
  <2>2. Answers(k, r)'
    BY <2>1, Zenon DEF OthersAlone, Answers, At
  <2> QED BY <1>2, <2>1, <2>2 DEF Leads
<1> QED BY <1>1, <1>2

-----------------------------------------------------------------------------
(* The steps that change no table *)

\* Neither the connections, nor the claims, nor the routes.
SameTables == UNCHANGED <<relayConnections, descendantOwner, routes>>

\* The reader of l turns to other values, within its shape, and keeps its claims and its answers.
LEMMA QuietStep ==
  ASSUME LinksInv, NEW l \in Link, NEW s, NEW D, NEW R, NEW g, NEW T, Turns(l, s, D, R, g, T), SameTables,
         Shape(l)', D = link[l].descendants, R = link[l].relays,
         s \in Registered => link[l].at \in Registered,
         (s = "chains") = At(l, "chains"),
         link[l].at # "clear",
         link[l].at \in {"write", "chains"} => s \in {"write", "chains"} /\ g = link[l].agents,
         \A r \in Relay : Answers(l, r) => Answers(l, r)'
  PROVE  LinksInv'
<1>0. link[l].relays \subseteq Relay /\ link[l].descendants \subseteq Relay
  BY DEF LinksInv, Typed, Readers, Relays
<1>1. OthersAlone(l) /\ Typed'
  BY DEF LinksInv, Typed, Turns, SameTables, OthersAlone, OwnClaimsOnly
<1>2. Connected(l)'
  BY Zenon DEF LinksInv, Connected, Turns, SameTables
<1>3. Claims(l)'
  BY DEF LinksInv, Claims, Turns, SameTables, At
<1>4. \A r \in Relay : descendantOwner'[r] = LinkRelay[l] => r \in link'[l].descendants \cup link'[l].relays
  BY OwnClaim DEF Turns, SameTables
<1>5. ASSUME NEW h \in Host PROVE Leads(h)'
  <2>1. CASE routes[h] = None
    BY <2>1 DEF SameTables, Leads
  <2>2. CASE routes[h] # None
    <3>1. routes'[h] = routes[h] /\ routes[h].relay \in Relay
      BY <2>2, Zenon DEF SameTables, LinksInv, Typed
    <3>2. Answers(l, routes[h].relay) => Answers(l, routes[h].relay)'
      BY <3>1
    <3>3. Lists(l, h, routes[h].relay) => Lists(l, h, routes[h].relay)'
      BY <3>1 DEF Lists, Turns, SameTables
    <3> QED BY <1>1, <2>2, <3>1, <3>2, <3>3, RouteKept DEF SameTables, At
  <2> QED BY <2>1, <2>2
<1> QED BY <1>1, <1>2, <1>3, <1>4, <1>5, LinkStep, Zenon

LEMMA EndingStep ==
  ASSUME LinksInv, NEW l \in Link, link[l].at \in {"open", "check"}, link' = [link EXCEPT ![l] = Ending(l)],
         link[l].relays = {}, SameTables
  PROVE  LinksInv'
<1>1. Turns(l, "drop", link[l].descendants, {}, Nobody, link[l].descendants)
  BY TurnsEnding, Zenon DEF LinksInv, Typed
<1>2. Shape(l)'
  BY <1>1, Zenon DEF Turns, Shape, Holding, Registered
<1>3. \A r \in Relay : Answers(l, r) => Answers(l, r)'
  BY <1>1 DEF Turns, Answers, At, Registered
<1> QED BY <1>1, <1>2, <1>3, QuietStep DEF At, Registered

LEMMA EndStep == ASSUME LinksInv, NEW l \in Link, End(l) PROVE LinksInv'
<1>1. link[l].relays = {}
  BY DEF LinksInv, Shape, End, At, Holding
<1> QED BY <1>1, EndingStep, Zenon DEF End, At, claims, SameTables

LEMMA AgentListStep == ASSUME LinksInv, NEW l \in Link, AgentList(l) PROVE LinksInv'
<1>1. PICK hosts : link' = [link EXCEPT ![l].at = "list",
                              ![l].agents = [h \in Host |-> IF h \in hosts \ local THEN LinkRelay[l] ELSE None]]
  BY Zenon DEF AgentList
<1> DEFINE g == [h \in Host |-> IF h \in hosts \ local THEN LinkRelay[l] ELSE None]
<1>2. g \in Agents
  BY PeerFacts DEF Agents
<1> HIDE DEF g
<1>3. Turns(l, "list", link[l].descendants, link[l].relays, g, link[l].todo)
  BY <1>1, <1>2, TurnsAtAgents, Zenon DEF LinksInv, Typed, g, Steps
<1>4. At(l, "open") /\ SameTables
  BY DEF AgentList, claims, SameTables
<1>5. Shape(l)'
  BY <1>3, <1>4, Zenon DEF LinksInv, Turns, Shape, Holding, Registered, At
<1>6. \A r \in Relay : Answers(l, r) => Answers(l, r)'
  BY <1>3, <1>4 DEF Turns, Answers, At, Registered
<1> QED BY <1>3, <1>4, <1>5, <1>6, QuietStep DEF At, Registered

LEMMA HostUpStep == ASSUME LinksInv, NEW l \in Link, HostUp(l) PROVE LinksInv'
<1>1. PICK h \in Host, origin \in link[l].descendants \cup {LinkRelay[l]} :
         link' = [link EXCEPT ![l].at = "event", ![l].agents[h] = origin]
  BY Zenon DEF HostUp
<1> DEFINE g == [link[l].agents EXCEPT ![h] = origin]
<1>0. link[l] \in Readers /\ At(l, "open") /\ SameTables
  BY DEF LinksInv, Typed, HostUp, claims, SameTables
<1>2. g \in Agents /\ link' = [link EXCEPT ![l].at = "event", ![l].agents = g]
  BY <1>0, <1>1, PeerFacts DEF Agents, Readers, Relays
<1>3. \A k \in Host : g[k] \in link[l].descendants \cup {LinkRelay[l], None}
  BY <1>0, Zenon DEF LinksInv, Shape, At, Readers, Agents
<1> HIDE DEF g
<1>4. Turns(l, "event", link[l].descendants, link[l].relays, g, link[l].todo)
  BY <1>2, TurnsAtAgents, Zenon DEF LinksInv, Typed, Steps
<1>5. Shape(l)'
  BY <1>0, <1>3, <1>4, Zenon DEF LinksInv, Turns, Shape, Holding, Registered, At
<1>6. \A r \in Relay : Answers(l, r) => Answers(l, r)'
  BY <1>0, <1>4 DEF Turns, Answers, At, Registered
<1> QED BY <1>0, <1>4, <1>5, <1>6, QuietStep, Zenon DEF At, Registered

LEMMA FailStep ==
  ASSUME LinksInv, relayPendingTasks \subseteq Task, NEW l \in Link, Collect(l) \/ FailTask(l)
  PROVE  LinksInv'
<1>0. SameTables
  BY DEF Collect, FailTask, claims, SameTables
<1>1. PICK T : Turns(l, "fail", link[l].descendants, link[l].relays, link[l].agents, T)
  <2>1. CASE Collect(l)
    <3> DEFINE T == {t \in relayPendingTasks : relayTaskOwner[t] \in {None, LinkRelay[l]}}
    <3>1. T \in Things
      BY <2>1 DEF Things
    <3> QED BY <2>1, <3>1, TurnsAtTodo, Zenon DEF Collect, LinksInv, Typed, Steps
  <2>2. CASE FailTask(l)
    <3>1. PICK t : link' = [link EXCEPT ![l].todo = @ \ {t}]
      BY <2>2, Zenon DEF FailTask
    <3>2. link[l].at = "fail"
      BY <2>2 DEF FailTask, At
    <3> QED BY <3>1, <3>2, TurnsTodo, Zenon DEF LinksInv, Typed
  <2> QED BY <2>1, <2>2
<1>2. link[l].at \in {"collect", "fail"}
  BY DEF Collect, FailTask, At
<1>3. Shape(l)'
  BY <1>1, <1>2, Zenon DEF LinksInv, Turns, Shape, Holding, Registered
<1>4. \A r \in Relay : Answers(l, r) => Answers(l, r)'
  BY <1>2 DEF Answers, Registered
<1> QED BY <1>0, <1>1, <1>2, <1>3, <1>4, QuietStep, Zenon DEF At, Registered

LEMMA CloseStep == ASSUME LinksInv, NEW l \in Link, CloseSocket(l) PROVE LinksInv'
<1>0. SameTables /\ link[l].at = "fail"
  BY DEF CloseSocket, claims, SameTables, At
<1>1. Turns(l, "off", {}, {}, Nobody, {})
  BY TurnsClosed, Zenon DEF CloseSocket, LinksInv, Typed
<1>2. link[l].descendants = {} /\ link[l].relays = {}
  BY <1>0, Zenon DEF LinksInv, Shape, Holding, Registered
<1>3. Shape(l)'
  BY <1>1, Zenon DEF Turns, Shape, Holding, Registered, Nobody
<1>4. \A r \in Relay : Answers(l, r) => Answers(l, r)'
  BY <1>0 DEF Answers, Registered
<1> QED BY <1>0, <1>1, <1>2, <1>3, <1>4, QuietStep, Zenon DEF At, Registered

-----------------------------------------------------------------------------
(* Connections *)

LEMMA OpenStep == ASSUME LinksInv, NEW l \in Link, Open(l) PROVE LinksInv'
<1>0. /\ At(l, "off") /\ UNCHANGED <<descendantOwner, routes>>
      /\ relayConnections' = [relayConnections EXCEPT ![LinkRelay[l]] = l]
  BY DEF Open
<1>1. Turns(l, "open", link[l].descendants, link[l].relays, link[l].agents, link[l].todo)
  BY TurnsAt, Zenon DEF Open, LinksInv, Typed, Steps
<1>2. relayConnections'[LinkRelay[l]] = l /\ l # None
  BY <1>0, PeerFacts, NoneAssumption DEF LinksInv, Typed
<1>3. OthersAlone(l) /\ Typed'
  BY <1>0, <1>1, PeerFacts, Zenon DEF LinksInv, Typed, Turns, OthersAlone, OwnClaimsOnly
<1>4. Shape(l)' /\ Connected(l)'
  <2>1. Shape(l)
    BY DEF LinksInv
  <2>2. Shape(l)'
    BY <1>0, <1>1, <2>1, Zenon DEF Turns, Shape, Holding, Registered, At
  <2>3. Connected(l)'
    BY <1>2, NoneAssumption DEF Connected
  <2> QED BY <2>2, <2>3
<1>5. Claims(l)'
  BY <1>0, <1>1, Zenon DEF LinksInv, Turns, Claims, At
<1>6. \A r \in Relay : descendantOwner'[r] = LinkRelay[l] => r \in link'[l].descendants \cup link'[l].relays
  BY <1>0, <1>1, OwnClaim DEF Turns
<1>7. ASSUME NEW h \in Host PROVE Leads(h)'
  <2>1. ~Answers(l, routes[h].relay) /\ ~Lists(l, h, routes[h].relay)
    BY <1>0 DEF Answers, Lists, At, Registered
  <2> QED BY <1>0, <1>2, <1>3, <2>1, RouteKept, Zenon DEF At, Leads
<1> QED BY <1>3, <1>4, <1>5, <1>6, <1>7, LinkStep

LEMMA UnregisterStep == ASSUME LinksInv, NEW l \in Link, Unregister(l) PROVE LinksInv'
<1>0. /\ At(l, "unregister") /\ UNCHANGED <<descendantOwner, routes>>
      /\ relayConnections' = [relayConnections EXCEPT ![LinkRelay[l]] = None]
  BY DEF Unregister
<1>1. Turns(l, "clear", link[l].descendants, link[l].relays, link[l].agents, link[l].todo)
  BY TurnsAt, Zenon DEF Unregister, LinksInv, Typed, Steps
<1>3. OthersAlone(l) /\ Typed'
  BY <1>0, <1>1, PeerFacts, Zenon DEF LinksInv, Typed, Turns, OthersAlone, OwnClaimsOnly
<1>4. Shape(l)' /\ Connected(l)'
  BY <1>0, <1>1, Zenon DEF LinksInv, Turns, Shape, Connected, Holding, Registered, At
<1>5. Claims(l)'
  BY <1>0, <1>1 DEF LinksInv, Turns, Claims, At
<1>6. \A r \in Relay : descendantOwner'[r] = LinkRelay[l] => r \in link'[l].descendants \cup link'[l].relays
  BY <1>0, <1>1, OwnClaim DEF Turns
<1>7. ASSUME NEW h \in Host PROVE Leads(h)'
  <2>1. ~Answers(l, routes[h].relay) /\ ~Lists(l, h, routes[h].relay)
    BY <1>0 DEF Answers, Lists, At, Registered
  <2> QED BY <1>0, <1>1, <1>3, <2>1, RouteKept, Zenon DEF At, Leads, Turns
<1> QED BY <1>3, <1>4, <1>5, <1>6, <1>7, LinkStep

-----------------------------------------------------------------------------
(* Claims *)

LEMMA ReleaseFacts ==
  ASSUME LinksInv, NEW l \in Link, NEW gone, ReleaseDescendants(LinkRelay[l], gone)
  PROVE  /\ descendantOwner' \in [Relay -> Relay \cup {None}] /\ OwnClaimsOnly(l)
         /\ \A r \in Relay : (descendantOwner'[r] = LinkRelay[l]) <=> (descendantOwner[r] = LinkRelay[l] /\ r \notin gone)
BY PeerFacts DEF LinksInv, Typed, ReleaseDescendants, OwnClaimsOnly

\* The claims of a snapshot, or those that a refusal, a later snapshot or the end gives back: the
\* routes stay, and l answers for them as before.
LEMMA ClaimStep ==
  ASSUME LinksInv, NEW l \in Link, NEW s, NEW D, NEW R, NEW g, NEW T, Turns(l, s, D, R, g, T),
         UNCHANGED <<relayConnections, routes>>,
         descendantOwner' \in [Relay -> Relay \cup {None}], OwnClaimsOnly(l),
         Shape(l)', Claims(l)',
         \A r \in Relay : descendantOwner'[r] = LinkRelay[l] => r \in D \cup R,
         link[l].at \in Registered, link[l].at # "chains",
         At(l, "write") => s \in {"write", "chains"} /\ R = link[l].relays /\ g = link[l].agents,
         \A r \in Relay : Answers(l, r) => Answers(l, r)'
  PROVE  LinksInv'
<1>1. OthersAlone(l) /\ Typed'
  BY Zenon DEF LinksInv, Typed, Turns, OthersAlone
<1>2. Connected(l)'
  BY Zenon DEF LinksInv, Connected
<1>3. \A r \in Relay : descendantOwner'[r] = LinkRelay[l] => r \in link'[l].descendants \cup link'[l].relays
  BY Zenon DEF Turns
<1>5. ASSUME NEW h \in Host PROVE Leads(h)'
  <2>1. CASE routes[h] = None
    BY <2>1, Zenon DEF Leads
  <2>2. CASE routes[h] # None
    <3>1. routes'[h] = routes[h] /\ routes[h].relay \in Relay /\ ~At(l, "clear")
      BY <2>2, Zenon DEF LinksInv, Typed, Registered, At
    <3>2. Answers(l, routes[h].relay) => Answers(l, routes[h].relay)'
      BY <3>1, Zenon
    <3>3. Lists(l, h, routes[h].relay) => Lists(l, h, routes[h].relay)'
      BY Zenon DEF Lists, Turns, At
    <3> QED BY <1>1, <2>2, <3>1, <3>2, <3>3, RouteKept, Zenon
  <2> QED BY <2>1, <2>2, Zenon
<1> QED BY <1>1, <1>2, <1>3, <1>5, LinkStep, Zenon

LEMMA SnapshotStep == ASSUME LinksInv, NEW l \in Link, Snapshot(l) PROVE LinksInv'
<1> DEFINE peer == LinkRelay[l]
<1>0. /\ At(l, "open") /\ UNCHANGED <<relayConnections, routes>>
      /\ link[l].relays = {} /\ link[l] \in Readers
  BY Zenon DEF Snapshot, LinksInv, Typed, Shape, At, Holding
<1>1. PICK relays \in SUBSET (Below \ {peer}) :
        \/ link' = [link EXCEPT ![l] = Ending(l)] /\ UNCHANGED descendantOwner
        \/ /\ Claimable(peer, relays)
           /\ descendantOwner' = [r \in Relay |-> IF r \in relays THEN peer ELSE descendantOwner[r]]
           /\ \E agents \in [Host -> relays \cup {peer, None}] :
                link' = [link EXCEPT ![l].at = "check", ![l].relays = relays, ![l].agents = agents,
                                     ![l].todo = {h \in Host : agents[h] # None}]
  BY Zenon DEF Snapshot
<1>2. CASE link' = [link EXCEPT ![l] = Ending(l)] /\ UNCHANGED descendantOwner
  BY <1>0, <1>2, EndingStep, Zenon DEF SameTables, At
<1>3. ASSUME Claimable(peer, relays),
             descendantOwner' = [r \in Relay |-> IF r \in relays THEN peer ELSE descendantOwner[r]],
             NEW g \in [Host -> relays \cup {peer, None}],
             link' = [link EXCEPT ![l].at = "check", ![l].relays = relays, ![l].agents = g,
                                  ![l].todo = {h \in Host : g[h] # None}]
      PROVE  LinksInv'
  <2> DEFINE T == {h \in Host : g[h] # None}
  <2>0. relays \in Relays /\ g \in Agents /\ T \in SUBSET Host
    BY LinkAssumption, PeerFacts DEF Relays, Agents
  <2>1. Turns(l, "check", link[l].descendants, relays, g, T)
    BY <1>3, <2>0, TurnsCheck, Zenon DEF LinksInv, Typed
  <2> HIDE DEF T
  <2>2. \A r \in Relay : /\ descendantOwner'[r] = IF r \in relays THEN peer ELSE descendantOwner[r]
                         /\ r \in relays => descendantOwner[r] \in {None, peer}
    BY <1>3, <2>0 DEF Claimable, Relays
  <2>3. descendantOwner' \in [Relay -> Relay \cup {None}] /\ OwnClaimsOnly(l)
    BY <1>3, <2>2, PeerFacts DEF LinksInv, Typed, OwnClaimsOnly
  <2>4. Shape(l)'
    BY <1>0, <2>1, Zenon DEF LinksInv, Turns, Shape, Holding, Registered, At
  <2>5. Claims(l)'
    <3>1. \A r \in link[l].descendants : r \in Relay /\ descendantOwner[r] = peer
      BY <1>0, Zenon DEF LinksInv, Claims, At, Readers, Relays
    <3>2. \A r \in link[l].descendants \cup relays : descendantOwner'[r] = peer
      BY <2>0, <2>2, <3>1 DEF Relays
    <3> QED BY <2>1, <3>2, Zenon DEF Turns, Claims, At
  <2>6. ASSUME NEW r \in Relay, descendantOwner'[r] = peer PROVE r \in link[l].descendants \cup relays
    BY <1>0, <2>2, <2>6, OwnClaim, Zenon
  <2>7. \A r \in Relay : Answers(l, r) => Answers(l, r)'
    BY <1>0, <2>1, Zenon DEF Turns, Answers, At, Registered
  <2> QED BY <1>0, <2>1, <2>3, <2>4, <2>5, <2>6, <2>7, ClaimStep, Zenon DEF At, Registered
<1> QED BY <1>1, <1>2, <1>3, Zenon

LEMMA CheckHostStep == ASSUME LinksInv, NEW l \in Link, CheckHost(l) PROVE LinksInv'
<1>0. /\ At(l, "check") /\ UNCHANGED <<relayConnections, routes>> /\ link[l] \in Readers
  BY DEF CheckHost, LinksInv, Typed
<1>1. PICK h :
        \/ /\ ReleaseDescendants(LinkRelay[l], link[l].relays \ link[l].descendants)
           /\ link' = [link EXCEPT ![l] = Ending(l)]
        \/ link' = [link EXCEPT ![l].todo = @ \ {h}] /\ UNCHANGED descendantOwner
  BY DEF CheckHost
<1>2. CASE link' = [link EXCEPT ![l].todo = @ \ {h}] /\ UNCHANGED descendantOwner
  <2>1. Turns(l, link[l].at, link[l].descendants, link[l].relays, link[l].agents, link[l].todo \ {h})
    BY <1>2, TurnsTodo, Zenon DEF LinksInv, Typed
  <2>2. Shape(l)'
    BY <1>0, <2>1, Zenon DEF LinksInv, Turns, Shape, Holding, Registered, At
  <2>3. \A r \in Relay : Answers(l, r) => Answers(l, r)'
    BY <1>0, <2>1, Zenon DEF Turns, Answers, At, Registered
  <2> QED BY <1>0, <1>2, <2>1, <2>2, <2>3, QuietStep, Zenon DEF At, Registered, SameTables
<1>3. CASE /\ ReleaseDescendants(LinkRelay[l], link[l].relays \ link[l].descendants)
           /\ link' = [link EXCEPT ![l] = Ending(l)]
  <2>1. Turns(l, "drop", link[l].descendants, {}, Nobody, link[l].descendants)
    BY <1>3, TurnsEnding, Zenon DEF LinksInv, Typed
  <2>2. /\ descendantOwner' \in [Relay -> Relay \cup {None}] /\ OwnClaimsOnly(l)
        /\ \A r \in Relay : (descendantOwner'[r] = LinkRelay[l])
              <=> (descendantOwner[r] = LinkRelay[l] /\ r \notin link[l].relays \ link[l].descendants)
    BY <1>3, ReleaseFacts
  <2>3. Shape(l)'
    BY <2>1 DEF Turns, Shape, Holding, Registered
  <2>4. Claims(l)'
    <3>1. \A r \in link[l].descendants : r \in Relay /\ descendantOwner[r] = LinkRelay[l]
      BY <1>0, Zenon DEF LinksInv, Claims, At, Readers, Relays
    <3> QED BY <2>1, <2>2, <3>1, Zenon DEF Turns, Claims, At
  <2>5. \A r \in Relay : descendantOwner'[r] = LinkRelay[l] => r \in link[l].descendants \cup {}
    BY <2>2, OwnClaim, Zenon
  <2>6. \A r \in Relay : Answers(l, r) => Answers(l, r)'
    BY <1>0, <2>1, Zenon DEF Turns, Answers, At, Registered
  <2> QED BY <1>0, <2>1, <2>2, <2>3, <2>4, <2>5, <2>6, ClaimStep, Zenon DEF At, Registered
<1> QED BY <1>1, <1>2, <1>3

LEMMA ReleaseGoneStep == ASSUME LinksInv, NEW l \in Link, ReleaseGone(l) PROVE LinksInv'
<1>0. /\ At(l, "write") /\ link[l].todo = {} /\ UNCHANGED <<relayConnections, routes>> /\ link[l] \in Readers
      /\ ReleaseDescendants(LinkRelay[l], link[l].descendants \ link[l].relays)
  BY DEF ReleaseGone, LinksInv, Typed
<1>1. Turns(l, "chains", link[l].descendants, link[l].relays, link[l].agents, link[l].todo)
  BY TurnsAt, Zenon DEF ReleaseGone, LinksInv, Typed, Steps
<1>2. /\ descendantOwner' \in [Relay -> Relay \cup {None}] /\ OwnClaimsOnly(l)
      /\ \A r \in Relay : (descendantOwner'[r] = LinkRelay[l])
            <=> (descendantOwner[r] = LinkRelay[l] /\ r \notin link[l].descendants \ link[l].relays)
  <2> DEFINE gone == link[l].descendants \ link[l].relays
  <2>1. ReleaseDescendants(LinkRelay[l], gone)
    BY <1>0, Zenon
  <2> HIDE DEF gone
  <2>2. /\ descendantOwner' \in [Relay -> Relay \cup {None}] /\ OwnClaimsOnly(l)
        /\ \A r \in Relay : (descendantOwner'[r] = LinkRelay[l]) <=> (descendantOwner[r] = LinkRelay[l] /\ r \notin gone)
    BY <2>1, ReleaseFacts
  <2> QED BY <2>2, Zenon DEF gone
<1>3. Shape(l)'
  BY <1>0, <1>1, Zenon DEF LinksInv, Turns, Shape, Holding, Registered, At
<1>4. Claims(l)'
  <2>1. link[l].descendants \subseteq Relay /\ link[l].relays \subseteq Relay
    BY <1>0, Zenon DEF Readers, Relays
  <2>2. \A r \in link[l].relays : descendantOwner[r] = LinkRelay[l]
    BY Zenon DEF LinksInv, Claims
  <2> QED BY <1>1, <1>2, <2>1, <2>2, Zenon DEF Turns, Claims, At
<1>5. \A r \in Relay : descendantOwner'[r] = LinkRelay[l] => r \in link[l].descendants \cup link[l].relays
  BY <1>2, OwnClaim, Zenon
<1>6. \A r \in Relay : Answers(l, r) => Answers(l, r)'
  BY <1>0, <1>1 DEF Turns, Answers, At, Registered
<1> QED BY <1>0, <1>1, <1>2, <1>3, <1>4, <1>5, <1>6, ClaimStep, Zenon DEF At, Registered

LEMMA DropClaimsStep == ASSUME LinksInv, NEW l \in Link, DropClaims(l) PROVE LinksInv'
<1>0. /\ At(l, "drop") /\ link[l].todo = {} /\ UNCHANGED <<relayConnections, routes>>
      /\ ReleaseDescendants(LinkRelay[l], link[l].descendants)
  BY DEF DropClaims
<1>1. Turns(l, "unregister", {}, link[l].relays, link[l].agents, link[l].todo)
  <2>1. {} \in Relays
    BY DEF Relays
  <2> QED BY <2>1, TurnsAtDescendants, Zenon DEF DropClaims, LinksInv, Typed, Steps
<1>2. /\ descendantOwner' \in [Relay -> Relay \cup {None}] /\ OwnClaimsOnly(l)
      /\ \A r \in Relay : (descendantOwner'[r] = LinkRelay[l])
            <=> (descendantOwner[r] = LinkRelay[l] /\ r \notin link[l].descendants)
  BY <1>0, ReleaseFacts, Zenon
<1>3. link[l].relays = {}
  BY <1>0, Zenon DEF LinksInv, Shape, Holding, At
<1>4. Shape(l)' /\ Claims(l)'
  BY <1>1, <1>3, Zenon DEF Turns, Shape, Claims, Holding, Registered, At
<1>5. \A r \in Relay : descendantOwner'[r] = LinkRelay[l] => r \in {} \cup link[l].relays
  BY <1>2, OwnClaim
<1>6. \A r \in Relay : Answers(l, r) => Answers(l, r)'
  BY <1>0 DEF Answers
<1> QED BY <1>0, <1>1, <1>2, <1>4, <1>5, <1>6, ClaimStep, Zenon DEF At, Registered

-----------------------------------------------------------------------------
(* Routes *)

\* The routes of relay r are replaced by those of the hosts; the others stay.
LEMMA UpsertFacts ==
  ASSUME LinksInv, NEW r \in Relay, NEW hosts, BulkUpsertRelayRouting(r, hosts)
  PROVE  /\ routes' \in [Host -> [relay : Relay, hop : Relay] \cup {None}]
         /\ \A h \in Host : \/ routes'[h] = None
                            \/ h \in hosts /\ routes'[h] = [relay |-> r, hop |-> r]
                            \/ routes'[h] = routes[h] /\ routes[h] # None /\ routes[h].relay # r
BY DEF LinksInv, Typed, BulkUpsertRelayRouting

\* The reader of l goes on, or is done with its message: its claims are those it had, or, once the
\* chains are set, those of the snapshot.
LEMMA WriteStep ==
  ASSUME LinksInv, NEW l \in Link, NEW s, NEW D, NEW R, NEW g, NEW T, Turns(l, s, D, R, g, T),
         UNCHANGED <<relayConnections, descendantOwner>>,
         routes' \in [Host -> [relay : Relay, hop : Relay] \cup {None}],
         Shape(l)', s \in Registered => link[l].at \in Registered, s # "chains",
         \/ link[l].at # "chains" /\ D = link[l].descendants /\ R = link[l].relays
         \/ link[l].at = "chains" /\ D = link[l].relays /\ R = {},
         \A h \in Host : Leads(h)'
  PROVE  LinksInv'
<1>0. link[l].relays \subseteq Relay /\ link[l].descendants \subseteq Relay /\ Claims(l)
  BY Zenon DEF LinksInv, Typed, Readers, Relays
<1>1. OthersAlone(l) /\ Typed'
  BY Zenon DEF LinksInv, Typed, Turns, OthersAlone, OwnClaimsOnly
<1>2. Connected(l)'
  BY DEF LinksInv, Connected, Turns
<1>3. Claims(l)'
  BY <1>0, Zenon DEF Claims, Turns, At
<1>4. \A r \in Relay : descendantOwner[r] = LinkRelay[l] => r \in D \cup R
  BY <1>0, OwnClaim, Zenon DEF Claims, At
<1>5. \A r \in Relay : descendantOwner'[r] = LinkRelay[l] => r \in link'[l].descendants \cup link'[l].relays
  BY <1>4, Zenon DEF Turns
<1> QED BY <1>1, <1>2, <1>3, <1>5, LinkStep, Zenon

\* Where the routes lead after such a step: the untouched ones where they did.
LEMMA RouteKeptByWrite ==
  ASSUME LinksInv, NEW l \in Link, NEW s, NEW D, NEW R, NEW g, NEW T, Turns(l, s, D, R, g, T),
         UNCHANGED <<relayConnections, descendantOwner>>, NEW h \in Host,
         routes'[h] = routes[h], routes[h] # None,
         At(l, "clear") => routes[h].relay # LinkRelay[l],
         Lists(l, h, routes[h].relay) => Lists(l, h, routes[h].relay)',
         Answers(l, routes[h].relay) => Answers(l, routes[h].relay)'
  PROVE  Leads(h)'
<1>1. OthersAlone(l)
  BY Zenon DEF Turns, OthersAlone, OwnClaimsOnly
<1> QED BY <1>1, RouteKept, Zenon

\* A route to a connected relay.
LEMMA DirectRoute ==
  ASSUME NEW h \in Host, NEW r, routes'[h] = [relay |-> r, hop |-> r], relayConnections'[r] # None
  PROVE  Leads(h)'
<1>1. routes'[h].relay = r /\ routes'[h].hop = r
  OBVIOUS
<1> QED BY <1>1, Zenon DEF Leads

LEMMA WriteOwnStep == ASSUME LinksInv, NEW l \in Link, WriteOwn(l) PROVE LinksInv'
<1> DEFINE T == link[l].relays \cup link[l].descendants
<1>0. /\ At(l, "check") /\ UNCHANGED <<relayConnections, descendantOwner>> /\ link[l] \in Readers
      /\ BulkUpsertRelayRouting(LinkRelay[l], HostsOf(l, LinkRelay[l])) /\ LinkRelay[l] \in Relay
  BY PeerFacts DEF WriteOwn, claims, LinksInv, Typed
<1>1. Turns(l, "write", link[l].descendants, link[l].relays, link[l].agents, T)
  <2>1. T \in Things
    BY <1>0 DEF Things, Readers, Relays
  <2> QED BY <2>1, TurnsAtTodo, Zenon DEF WriteOwn, LinksInv, Typed, Steps
<1>2. relayConnections[LinkRelay[l]] # None
  BY <1>0, Zenon DEF LinksInv, Connected, At, Registered
<1>3. /\ routes' \in [Host -> [relay : Relay, hop : Relay] \cup {None}]
      /\ \A h \in Host : \/ routes'[h] = None
                         \/ routes'[h] = [relay |-> LinkRelay[l], hop |-> LinkRelay[l]]
                         \/ routes'[h] = routes[h] /\ routes[h] # None /\ routes[h].relay # LinkRelay[l]
  BY <1>0, UpsertFacts, Zenon
<1>4. Shape(l)'
  BY <1>0, <1>1, Zenon DEF LinksInv, Turns, Shape, Holding, Registered, At
<1>5. ASSUME NEW h \in Host PROVE Leads(h)'
  <2>1. CASE routes'[h] = None
    BY <2>1 DEF Leads
  <2>2. CASE routes'[h] = [relay |-> LinkRelay[l], hop |-> LinkRelay[l]]
    BY <1>0, <1>2, <2>2, DirectRoute, Zenon
  <2>3. CASE routes'[h] = routes[h] /\ routes[h] # None
    <3>1. ~Lists(l, h, routes[h].relay) /\ ~At(l, "clear")
      BY <1>0 DEF Lists, At
    <3>2. Answers(l, routes[h].relay) => Answers(l, routes[h].relay)'
      BY <1>0, <1>1, <2>3, Zenon DEF Turns, Answers, At, Registered
    <3> QED BY <1>0, <1>1, <2>3, <3>1, <3>2, RouteKeptByWrite, Zenon
  <2> QED BY <1>3, <2>1, <2>2, <2>3
<1> QED BY <1>0, <1>1, <1>3, <1>4, <1>5, WriteStep, Zenon DEF At, Registered

LEMMA WriteRelayStep == ASSUME LinksInv, NEW l \in Link, WriteRelay(l) PROVE LinksInv'
<1>0. /\ At(l, "write") /\ UNCHANGED <<relayConnections, descendantOwner>> /\ link[l] \in Readers
      /\ Shape(l) /\ LinkRelay[l] \in Relay
  BY PeerFacts DEF WriteRelay, claims, LinksInv, Typed
<1>1. PICK r \in link[l].todo : /\ BulkUpsertRelayRouting(r, HostsOf(l, r))
                                /\ link' = [link EXCEPT ![l].todo = @ \ {r}]
  BY Zenon DEF WriteRelay
<1>2. Turns(l, "write", link[l].descendants, link[l].relays, link[l].agents, link[l].todo \ {r})
  BY <1>0, <1>1, TurnsTodo, Zenon DEF LinksInv, Typed, At
<1>3. r \in Relay
  BY <1>0, <1>1 DEF Shape, At, Readers, Relays
<1>4. /\ routes' \in [Host -> [relay : Relay, hop : Relay] \cup {None}]
      /\ \A h \in Host : \/ routes'[h] = None
                         \/ h \in HostsOf(l, r) /\ routes'[h] = [relay |-> r, hop |-> r]
                         \/ routes'[h] = routes[h] /\ routes[h] # None /\ routes[h].relay # r
  BY <1>1, <1>3, UpsertFacts
<1>5. Shape(l)'
  BY <1>0, <1>2, Zenon DEF Turns, Shape, Holding, Registered, At
<1>6. ASSUME NEW h \in Host PROVE Leads(h)'
  <2>1. CASE routes'[h] = None
    BY <2>1, Zenon DEF Leads
  <2>2. CASE h \in HostsOf(l, r) /\ routes'[h] = [relay |-> r, hop |-> r]
    <3>1. link[l].agents[h] = r /\ r # None
      BY <1>3, <2>2, NoneAssumption DEF HostsOf
    <3>2. r \in link[l].relays \cup {LinkRelay[l]}
      BY <1>0, <3>1, Zenon DEF Shape, At, Holding
    <3>3. CASE r = LinkRelay[l]
      <4>1. relayConnections'[r] # None
        BY <1>0, <3>3 DEF LinksInv, Connected, At, Registered
      <4> QED BY <2>2, <4>1, DirectRoute, Zenon
    <3>4. CASE r \in link[l].relays
      <4>1. Lists(l, h, r)'
        BY <1>2, <3>1, <3>4 DEF Turns, Lists
      <4>2. routes'[h].relay = r /\ routes'[h].hop = r
        BY <2>2
      <4> QED BY <4>1, <4>2 DEF Leads
    <3> QED BY <3>2, <3>3, <3>4
  <2>3. CASE routes'[h] = routes[h] /\ routes[h] # None /\ routes[h].relay # r
    <3>1. ~At(l, "clear") /\ (Lists(l, h, routes[h].relay) => Lists(l, h, routes[h].relay)')
      BY <1>0, <1>2, <2>3, Zenon DEF Turns, Lists, At
    <3>2. Answers(l, routes[h].relay) => Answers(l, routes[h].relay)'
      BY <1>0, <1>2, <2>3, Zenon DEF Turns, Answers, At, Registered
    <3> QED BY <1>0, <1>2, <2>3, <3>1, <3>2, RouteKeptByWrite, Zenon
  <2> QED BY <1>4, <2>1, <2>2, <2>3, Zenon
<1> QED BY <1>0, <1>2, <1>4, <1>5, <1>6, WriteStep, Zenon DEF At, Registered

LEMMA SetChainsStep == ASSUME LinksInv, NEW l \in Link, SetChains(l) PROVE LinksInv'
<1>0. /\ At(l, "chains") /\ UNCHANGED <<relayConnections, descendantOwner>> /\ link[l] \in Readers
      /\ Shape(l) /\ LinkRelay[l] \in Relay /\ routes \in [Host -> [relay : Relay, hop : Relay] \cup {None}]
  BY PeerFacts DEF SetChains, claims, LinksInv, Typed
<1>1. Turns(l, "open", link[l].relays, {}, Nobody, {})
  <2>1. link[l].relays \in Relays
    BY <1>0 DEF Readers
  <2> QED BY <2>1, TurnsOff, Zenon DEF SetChains, LinksInv, Typed, Steps
<1>2. /\ routes' \in [Host -> [relay : Relay, hop : Relay] \cup {None}]
      /\ \A h \in Host :
           \/ /\ routes[h] # None /\ routes[h].relay = link[l].agents[h]
              /\ routes'[h].relay = routes[h].relay /\ routes'[h].hop = LinkRelay[l]
           \/ /\ routes'[h] = routes[h]
              /\ routes[h] # None => routes[h].relay # link[l].agents[h]
  BY <1>0 DEF SetChains
<1>3. Shape(l)'
  BY <1>1, Zenon DEF Turns, Shape, Holding, Registered, Nobody
<1>4. relayConnections'[LinkRelay[l]] # None
  BY <1>0, Zenon DEF LinksInv, Connected, At, Registered
<1>5. ASSUME NEW h \in Host PROVE Leads(h)'
  <2>1. CASE /\ routes[h] # None /\ routes[h].relay = link[l].agents[h]
             /\ routes'[h].relay = routes[h].relay /\ routes'[h].hop = LinkRelay[l]
    <3>1. routes[h].relay # None
      BY <1>0, <2>1, NoneAssumption
    <3>2. routes[h].relay \in link[l].relays \cup {LinkRelay[l]}
      BY <1>0, <2>1, <3>1, Zenon DEF Shape, At, Holding
    <3>3. CASE routes[h].relay = LinkRelay[l]
      BY <1>4, <2>1, <3>3, Zenon DEF Leads
    <3>4. CASE routes[h].relay \in link[l].relays /\ routes[h].relay # LinkRelay[l]
      <4>1. Answers(l, routes[h].relay)'
        BY <1>1, <1>2, <2>1, <3>4, Zenon DEF Turns, Answers, At, Registered
      <4> QED BY <2>1, <3>4, <4>1, Zenon DEF Leads
    <3> QED BY <3>2, <3>3, <3>4
  <2>2. CASE routes'[h] = routes[h] /\ (routes[h] # None => routes[h].relay # link[l].agents[h])
    <3>1. CASE routes[h] = None
      BY <2>2, <3>1, Zenon DEF Leads
    <3>2. CASE routes[h] # None
      <4>1. ~Lists(l, h, routes[h].relay) /\ ~At(l, "clear")
        BY <1>0, <2>2, <3>2, Zenon DEF Lists, At
      <4>2. Answers(l, routes[h].relay) => Answers(l, routes[h].relay)'
        BY <1>0, <1>1, <2>2, Zenon DEF Turns, Answers, At, Registered
      <4> QED BY <1>0, <1>1, <2>2, <3>2, <4>1, <4>2, RouteKeptByWrite, Zenon
    <3> QED BY <3>1, <3>2
  <2> QED BY <1>2, <2>1, <2>2, Zenon
<1> QED BY <1>0, <1>1, <1>2, <1>3, <1>5, WriteStep, Zenon DEF At, Registered

LEMMA AgentListWriteStep == ASSUME LinksInv, NEW l \in Link, AgentListWrite(l) PROVE LinksInv'
<1>0. /\ At(l, "list") /\ UNCHANGED <<relayConnections, descendantOwner>> /\ link[l] \in Readers
      /\ BulkUpsertRelayRouting(LinkRelay[l], HostsOf(l, LinkRelay[l])) /\ LinkRelay[l] \in Relay
      /\ link[l].relays = {}
  BY PeerFacts DEF AgentListWrite, claims, LinksInv, Typed, Shape, At, Holding
<1>1. Turns(l, "open", link[l].descendants, {}, Nobody, {})
  <2>1. link[l].descendants \in Relays
    BY <1>0 DEF Readers
  <2> QED BY <2>1, TurnsOff, Zenon DEF AgentListWrite, LinksInv, Typed, Steps
<1>2. relayConnections[LinkRelay[l]] # None
  BY <1>0, Zenon DEF LinksInv, Connected, At, Registered
<1>3. /\ routes' \in [Host -> [relay : Relay, hop : Relay] \cup {None}]
      /\ \A h \in Host : \/ routes'[h] = None
                         \/ routes'[h] = [relay |-> LinkRelay[l], hop |-> LinkRelay[l]]
                         \/ routes'[h] = routes[h] /\ routes[h] # None
  <2> DEFINE hosts == HostsOf(l, LinkRelay[l])
             q == LinkRelay[l]
  <2>1. BulkUpsertRelayRouting(q, hosts) /\ q \in Relay
    BY <1>0, Zenon
  <2> HIDE DEF hosts, q
  <2>2. /\ routes' \in [Host -> [relay : Relay, hop : Relay] \cup {None}]
        /\ \A h \in Host : \/ routes'[h] = None
                           \/ routes'[h] = [relay |-> q, hop |-> q]
                           \/ routes'[h] = routes[h] /\ routes[h] # None
    BY <2>1, UpsertFacts, Zenon
  <2> QED BY <2>2, Zenon DEF q
<1>4. Shape(l)'
  BY <1>1, Zenon DEF Turns, Shape, Holding, Registered, Nobody
<1>5. ASSUME NEW h \in Host PROVE Leads(h)'
  <2>1. CASE routes'[h] = None
    BY <2>1 DEF Leads
  <2>2. CASE routes'[h] = [relay |-> LinkRelay[l], hop |-> LinkRelay[l]]
    BY <1>0, <1>2, <2>2, DirectRoute, Zenon
  <2>3. CASE routes'[h] = routes[h] /\ routes[h] # None
    <3>1. ~Lists(l, h, routes[h].relay) /\ ~At(l, "clear")
      BY <1>0, Zenon DEF Lists, At
    <3>2. Answers(l, routes[h].relay) => Answers(l, routes[h].relay)'
      BY <1>0, <1>1, <2>3, Zenon DEF Turns, Answers, At, Registered
    <3> QED BY <1>0, <1>1, <2>3, <3>1, <3>2, RouteKeptByWrite, Zenon
  <2> QED BY <1>3, <2>1, <2>2, <2>3, Zenon
<1> QED BY <1>0, <1>1, <1>3, <1>4, <1>5, WriteStep, Zenon DEF At, Registered

LEMMA HostUpWriteStep == ASSUME LinksInv, NEW l \in Link, HostUpWrite(l) PROVE LinksInv'
<1>0. /\ At(l, "event") /\ UNCHANGED <<relayConnections, descendantOwner>> /\ link[l] \in Readers
      /\ Shape(l) /\ LinkRelay[l] \in Relay /\ routes \in [Host -> [relay : Relay, hop : Relay] \cup {None}]
  BY PeerFacts DEF HostUpWrite, claims, LinksInv, Typed
<1>1. Turns(l, "open", link[l].descendants, {}, Nobody, {})
  <2>1. link[l].descendants \in Relays
    BY <1>0 DEF Readers
  <2> QED BY <2>1, TurnsOff, Zenon DEF HostUpWrite, LinksInv, Typed, Steps
<1>2. link[l].relays = {} /\ link[l].agents \in [Host -> Relay \cup {None}]
  BY <1>0, Zenon DEF Shape, At, Holding, Readers, Agents
<1>3. /\ routes' \in [Host -> [relay : Relay, hop : Relay] \cup {None}]
      /\ \A h \in Host :
           \/ /\ link[l].agents[h] # None /\ routes'[h] = [relay |-> link[l].agents[h], hop |-> LinkRelay[l]]
           \/ routes'[h] = routes[h]
  BY <1>0, <1>2 DEF HostUpWrite
<1>4. Shape(l)'
  BY <1>1, Zenon DEF Turns, Shape, Holding, Registered, Nobody
<1>5. relayConnections'[LinkRelay[l]] # None
  BY <1>0 DEF LinksInv, Connected, At, Registered
<1>6. ASSUME NEW h \in Host PROVE Leads(h)'
  <2>1. CASE link[l].agents[h] # None /\ routes'[h] = [relay |-> link[l].agents[h], hop |-> LinkRelay[l]]
    <3> DEFINE r == link[l].agents[h]
    <3>1. r \in link[l].descendants \cup {LinkRelay[l]}
      BY <1>0, <2>1, Zenon DEF Shape, At
    <3>0. routes'[h] = [relay |-> r, hop |-> LinkRelay[l]]
      BY <2>1, Zenon
    <3> HIDE DEF r
    <3>2. routes'[h].relay = r /\ routes'[h].hop = LinkRelay[l]
      BY <3>0
    <3>3. CASE r = LinkRelay[l]
      BY <1>5, <3>2, <3>3, Zenon DEF Leads
    <3>4. CASE r \in link[l].descendants /\ r # LinkRelay[l]
      <4>1. Answers(l, routes[h].relay)'
        BY <1>1, <3>2, <3>4, Zenon DEF Turns, Answers, At, Registered
      <4> QED BY <3>2, <3>4, <4>1, Zenon DEF Leads
    <3> QED BY <3>1, <3>3, <3>4
  <2>2. CASE routes'[h] = routes[h]
    <3>1. CASE routes[h] = None
      BY <2>2, <3>1, Zenon DEF Leads
    <3>2. CASE routes[h] # None
      <4>1. ~Lists(l, h, routes[h].relay) /\ ~At(l, "clear")
        BY <1>0 DEF Lists, At
      <4>2. Answers(l, routes[h].relay) => Answers(l, routes[h].relay)'
        BY <1>0, <1>1, <2>2, Zenon DEF Turns, Answers, At, Registered
      <4> QED BY <1>0, <1>1, <2>2, <3>2, <4>1, <4>2, RouteKeptByWrite, Zenon
    <3> QED BY <3>1, <3>2
  <2> QED BY <1>3, <2>1, <2>2, Zenon
<1> QED BY <1>0, <1>1, <1>2, <1>3, <1>4, <1>6, WriteStep, Zenon DEF At, Registered

LEMMA DropRoutesStep == ASSUME LinksInv, NEW l \in Link, DropRoutes(l) PROVE LinksInv'
<1>0. /\ At(l, "drop") /\ UNCHANGED <<relayConnections, descendantOwner>> /\ link[l] \in Readers
      /\ Shape(l) /\ routes \in [Host -> [relay : Relay, hop : Relay] \cup {None}]
  BY DEF DropRoutes, claims, LinksInv, Typed
<1>1. PICK r \in link[l].todo : /\ BulkUpsertRelayRouting(r, {})
                                /\ link' = [link EXCEPT ![l].todo = @ \ {r}]
  BY Zenon DEF DropRoutes
<1>2. Turns(l, "drop", link[l].descendants, link[l].relays, link[l].agents, link[l].todo \ {r})
  BY <1>0, <1>1, TurnsTodo, Zenon DEF LinksInv, Typed, At
<1>3. /\ routes' \in [Host -> [relay : Relay, hop : Relay] \cup {None}]
      /\ \A h \in Host : \/ routes'[h] = None
                         \/ routes'[h] = routes[h] /\ routes[h] # None /\ routes[h].relay # r
  BY <1>0, <1>1 DEF BulkUpsertRelayRouting
<1>4. Shape(l)'
  BY <1>0, <1>2, Zenon DEF Turns, Shape, Holding, Registered, At
<1>5. ASSUME NEW h \in Host PROVE Leads(h)'
  <2>1. CASE routes'[h] = None
    BY <2>1, Zenon DEF Leads
  <2>2. CASE routes'[h] = routes[h] /\ routes[h] # None /\ routes[h].relay # r
    <3>1. ~At(l, "clear") /\ ~Lists(l, h, routes[h].relay)
      BY <1>0, Zenon DEF Lists, At
    <3>2. Answers(l, routes[h].relay) => Answers(l, routes[h].relay)'
      BY <1>0, <1>2, <2>2, Zenon DEF Turns, Answers, At, Registered
    <3> QED BY <1>0, <1>2, <2>2, <3>1, <3>2, RouteKeptByWrite, Zenon
  <2> QED BY <1>3, <2>1, <2>2, Zenon
<1> QED BY <1>0, <1>2, <1>3, <1>4, <1>5, WriteStep, Zenon DEF At, Registered

LEMMA ClearRoutesStep == ASSUME LinksInv, NEW l \in Link, ClearRoutes(l) PROVE LinksInv'
<1>0. /\ At(l, "clear") /\ UNCHANGED <<relayConnections, descendantOwner>> /\ link[l] \in Readers
      /\ Shape(l) /\ routes \in [Host -> [relay : Relay, hop : Relay] \cup {None}]
      /\ BulkUpsertRelayRouting(LinkRelay[l], {})
  BY DEF ClearRoutes, claims, LinksInv, Typed
<1>1. Turns(l, "collect", link[l].descendants, link[l].relays, link[l].agents, link[l].todo)
  BY TurnsAt, Zenon DEF ClearRoutes, LinksInv, Typed, Steps
<1>2. /\ routes' \in [Host -> [relay : Relay, hop : Relay] \cup {None}]
      /\ \A h \in Host : \/ routes'[h] = None
                         \/ routes'[h] = routes[h] /\ routes[h] # None /\ routes[h].relay # LinkRelay[l]
  BY <1>0, Zenon DEF BulkUpsertRelayRouting
<1>3. Shape(l)'
  BY <1>0, <1>1, Zenon DEF Turns, Shape, Holding, Registered, At
<1>4. ASSUME NEW h \in Host PROVE Leads(h)'
  <2>1. CASE routes'[h] = None
    BY <2>1 DEF Leads
  <2>2. CASE routes'[h] = routes[h] /\ routes[h] # None /\ routes[h].relay # LinkRelay[l]
    <3>1. ~Lists(l, h, routes[h].relay) /\ ~Answers(l, routes[h].relay)
      BY <1>0, Zenon DEF Lists, Answers, At, Registered
    <3> QED BY <1>0, <1>1, <2>2, <3>1, RouteKeptByWrite, Zenon
  <2> QED BY <1>2, <2>1, <2>2, Zenon
<1> QED BY <1>0, <1>1, <1>2, <1>3, <1>4, WriteStep, Zenon DEF At, Registered

-----------------------------------------------------------------------------
(* Tasks *)

\* Only the request of t moves, to place s, with next hop n.
Moves(t, s, f, n) ==
    /\ req' \in [Task -> Requests]
    /\ req'[t].at = s /\ req'[t].forwarded = f /\ req'[t].hop = n
    /\ \A u \in Task : u # t => req'[u] = req[u]

LEMMA MovesOn ==
  ASSUME req \in [Task -> Requests], NEW t \in Task, NEW s \in Places, req' = [req EXCEPT ![t].at = s]
  PROVE  Moves(t, s, req[t].forwarded, req[t].hop)
BY DEF Requests, Moves

LEMMA MovesDone ==
  ASSUME req \in [Task -> Requests], NEW t \in Task, Done(t)
  PROVE  Moves(t, "done", req[t].forwarded, None)
<1> DEFINE y == [[[req[t] EXCEPT !.at = "done"] EXCEPT !.hop = None] EXCEPT !.via = None]
<1>1. req' = [req EXCEPT ![t] = y]
  BY Zenon DEF Done
<1>2. y \in Requests /\ y.at = "done" /\ y.forwarded = req[t].forwarded /\ y.hop = None
  BY Zenon DEF Requests, Places
<1> HIDE DEF y
<1> QED BY <1>1, <1>2 DEF Moves

\* The request of t is done, and t is in no table.
LEMMA DoneStep ==
  ASSUME TaskInv, NEW t \in Task, Done(t), channel' \in [Task -> {"result", "relay_disconnected", None}],
         \A u \in Task : u # t => channel'[u] = channel[u],
         \/ UnregisterRelayTaskFuture(t)
         \/ /\ UNCHANGED <<relayPendingTasks, relayTaskOwner, slots>>
            /\ t \notin slots /\ (~req[t].forwarded => relayTaskOwner[t] = None)
  PROVE  TaskInv'
<1>1. Moves(t, "done", req[t].forwarded, None)
  BY MovesDone, Zenon DEF TaskInv
<1>2. /\ relayPendingTasks' = slots' /\ slots' = slots \ {t}
      /\ relayTaskOwner' \in [Task -> Relay \cup {None}]
      /\ \A u \in Task : u # t => relayTaskOwner'[u] = relayTaskOwner[u]
      /\ ~req[t].forwarded => relayTaskOwner'[t] = None
  BY Zenon DEF TaskInv, UnregisterRelayTaskFuture
<1> QED BY <1>1, <1>2, Zenon DEF TaskInv, Moves

LEMMA NextHopStep == ASSUME LinksInv, TaskInv, NEW t \in Task, NextHop(t) PROVE TaskInv'
<1>1. CASE Done(t)
  BY <1>1, DoneStep, Zenon DEF NextHop, TaskInv
<1>2. ASSUME NEW b \in BOOLEAN, routes[TaskHost[t]] # None,
             req' = [req EXCEPT ![t].at = "hop", ![t].forwarded = b, ![t].hop = routes[TaskHost[t]].hop]
      PROVE  TaskInv'
  <2> DEFINE n == routes[TaskHost[t]].hop
             x == [req[t] EXCEPT !.at = "hop"]
             w == [x EXCEPT !.forwarded = b]
             y == [w EXCEPT !.hop = n]
  <2>0. n \in Relay /\ req[t] \in Requests
    BY <1>2, TaskAssumption, Zenon DEF LinksInv, Typed, TaskInv
  <2>1. req' = [req EXCEPT ![t] = y]
    BY <1>2, Zenon
  <2> HIDE DEF n
  <2>2. y \in Requests /\ y.at = "hop" /\ y.hop \in Relay
    <3>1. x \in Requests /\ x.at = "hop"
      BY <2>0 DEF Requests, Places
    <3> HIDE DEF x
    <3>2. w \in Requests /\ w.at = "hop"
      BY <3>1 DEF Requests
    <3> HIDE DEF w
    <3> QED BY <2>0, <3>1, <3>2 DEF Requests
  <2> HIDE DEF y
  <2>3. Moves(t, "hop", y.forwarded, y.hop)
    BY <2>1, <2>2 DEF Moves, TaskInv
  <2> QED BY <2>2, <2>3, Zenon DEF TaskInv, NextHop, Moves
<1> QED BY <1>1, <1>2, Zenon DEF NextHop

LEMMA LookUpStep == ASSUME LinksInv, TaskInv, NEW t \in Task, LookUp(t) PROVE TaskInv'
<1>1. CASE Done(t)
  BY <1>1, DoneStep DEF LookUp, TaskInv
<1>2. CASE /\ relayConnections[req[t].hop] # None
           /\ req' = [req EXCEPT ![t].at = "register", ![t].via = relayConnections[req[t].hop]]
  <2> DEFINE y == [[req[t] EXCEPT !.at = "register"] EXCEPT !.via = relayConnections[req[t].hop]]
  <2>1. req' = [req EXCEPT ![t] = y]
    BY <1>2, Zenon
  <2>0. req[t].hop \in Relay /\ relayConnections[req[t].hop] \in Link
    BY <1>2 DEF TaskInv, LookUp, LinksInv, Typed
  <2>2. y \in Requests /\ y.at = "register" /\ y.hop \in Relay
    BY <2>0, Zenon DEF Requests, Places, TaskInv
  <2> HIDE DEF y
  <2>3. Moves(t, "register", y.forwarded, y.hop)
    BY <2>1, <2>2 DEF Moves, TaskInv
  <2> QED BY <2>2, <2>3 DEF TaskInv, LookUp, Moves
<1> QED BY <1>1, <1>2 DEF LookUp

LEMMA RegisterStep == ASSUME TaskInv, NEW t \in Task, Register(t) PROVE TaskInv'
<1>1. CASE Done(t) /\ UNCHANGED <<slots, relayPendingTasks>>
  BY <1>1, DoneStep, Zenon DEF Register, TaskInv
<1>2. CASE Go(t, "own") /\ slots' = slots \cup {t} /\ relayPendingTasks' = relayPendingTasks \cup {t}
  <2>1. Moves(t, "own", req[t].forwarded, req[t].hop)
    BY <1>2, MovesOn, Zenon DEF Go, TaskInv, Places
  <2> QED BY <1>2, <2>1, Zenon DEF TaskInv, Register, Moves
<1> QED BY <1>1, <1>2 DEF Register

LEMMA RecordOwnerStep == ASSUME TaskInv, NEW t \in Task, RecordOwner(t) PROVE TaskInv'
<1> DEFINE y == [[req[t] EXCEPT !.at = "write"] EXCEPT !.hop = None]
<1>1. req' = [req EXCEPT ![t] = y]
  BY Zenon DEF RecordOwner
<1>2. y \in Requests /\ y.at = "write"
  BY Zenon DEF Requests, Places, TaskInv
<1> HIDE DEF y
<1>3. Moves(t, "write", y.forwarded, y.hop)
  BY <1>1, <1>2 DEF Moves, TaskInv
<1>4. /\ relayTaskOwner' \in [Task -> Relay \cup {None}]
      /\ \A u \in Task : u # t => relayTaskOwner'[u] = relayTaskOwner[u]
  BY DEF RecordOwner, TaskInv
<1> QED BY <1>2, <1>3, <1>4 DEF TaskInv, RecordOwner, Moves

LEMMA WriteTaskStep == ASSUME TaskInv, NEW t \in Task, Write(t) PROVE TaskInv'
<1>1. CASE Done(t) /\ UnregisterRelayTaskFuture(t)
  BY <1>1, DoneStep, Zenon DEF Write, TaskInv
<1>2. CASE Go(t, "wait") /\ UNCHANGED <<relayPendingTasks, relayTaskOwner, slots>>
  <2>1. Moves(t, "wait", req[t].forwarded, req[t].hop)
    BY <1>2, MovesOn, Zenon DEF Go, TaskInv, Places
  <2> QED BY <1>2, <2>1, Zenon DEF TaskInv, Write, Moves
<1> QED BY <1>1, <1>2 DEF Write

LEMMA ReceiveStep == ASSUME TaskInv, NEW t \in Task, Receive(t) PROVE TaskInv'
<1>1. /\ channel' \in [Task -> {"result", "relay_disconnected", None}]
      /\ \A u \in Task : u # t => channel'[u] = channel[u]
  BY DEF Receive, TaskInv
<1>2. t \notin slots
  BY DEF Receive, TaskInv
<1> QED BY <1>1, <1>2, DoneStep, Zenon DEF Receive

LEMMA TimeoutStep == ASSUME TaskInv, NEW t \in Task, Timeout(t) PROVE TaskInv'
BY DoneStep, Zenon DEF Timeout, TaskInv

LEMMA ResolveStep ==
  ASSUME TaskInv, NEW t, NEW what \in {"result", "relay_disconnected"}, Resolve(t, what), UNCHANGED req
  PROVE  TaskInv'
<1>1. CASE t \notin slots
  BY <1>1, Zenon DEF TaskInv, Resolve
<1>2. CASE t \in slots
  <2>1. /\ t \in Task /\ slots' = slots \ {t} /\ relayPendingTasks' = slots'
        /\ relayTaskOwner' = [relayTaskOwner EXCEPT ![t] = None]
        /\ channel' = [channel EXCEPT ![t] = IF @ = None THEN what ELSE @]
    BY <1>2, Zenon DEF TaskInv, Resolve
  <2>2. /\ channel' \in [Task -> {"result", "relay_disconnected", None}]
        /\ \A u \in Task : u # t => channel'[u] = channel[u]
    BY <2>1, Zenon DEF TaskInv
  <2>3. /\ relayTaskOwner' \in [Task -> Relay \cup {None}]
        /\ \A u \in Task : u # t => relayTaskOwner'[u] = relayTaskOwner[u]
    BY <2>1, Zenon DEF TaskInv
  <2> QED BY <1>2, <2>1, <2>2, <2>3, Zenon DEF TaskInv
<1> QED BY <1>1, <1>2

LEMMA CloseTaskStep == ASSUME TaskInv, NEW l \in Link, CloseSocket(l) PROVE TaskInv'
<1>1. /\ req' \in [Task -> Requests]
      /\ \A t \in Task : /\ req'[t].at = req[t].at /\ req'[t].forwarded = req[t].forwarded
                         /\ req'[t].hop = req[t].hop
  BY DEF CloseSocket, TaskInv, Requests
<1> QED BY <1>1 DEF CloseSocket, TaskInv

-----------------------------------------------------------------------------
(* The theorems *)

RelayInv == LinksInv /\ TaskInv

LEMMA RelayInit == Init => RelayInv
<1> SUFFICES ASSUME Init PROVE RelayInv
  OBVIOUS
<1>1. Off \in Readers /\ Off.at = "off" /\ Off.descendants = {} /\ Off.relays = {}
      /\ Off.agents = Nobody
  BY Zenon DEF Off, Readers, Steps, Relays, Agents, Things, Nobody
<1>2. Typed /\ \A l \in Link : link[l] = Off
  BY <1>1, Zenon DEF Init, Typed
<1>3. \A l \in Link : Shape(l) /\ Connected(l) /\ Claims(l)
  BY <1>1, <1>2, Zenon DEF Shape, Connected, Claims, At, Holding, Registered, Nobody
<1>4. (\A r \in Relay : Claimed(r)) /\ (\A h \in Host : Leads(h))
  BY Zenon DEF Init, Claimed, Leads
<1>5. TaskInv
  BY Zenon DEF Init, TaskInv, Requests, Places
<1> QED BY <1>2, <1>3, <1>4, <1>5 DEF RelayInv, LinksInv

\* A step that changes none of their variables.
LEMMA LinksSame == ASSUME LinksInv, UNCHANGED <<claims, link, routes>> PROVE LinksInv'
<1>1. relayConnections' = relayConnections /\ descendantOwner' = descendantOwner /\ link' = link /\ routes' = routes
  BY DEF claims
<1>2. Typed'
  BY <1>1, Zenon DEF LinksInv, Typed
<1>3. ASSUME NEW l \in Link PROVE Shape(l)' /\ Connected(l)' /\ Claims(l)'
  <2>1. Shape(l)'
    BY <1>1, Zenon DEF LinksInv, Shape
  <2>2. Connected(l)' /\ Claims(l)'
    BY <1>1, Zenon DEF LinksInv, Connected, Claims, At
  <2> QED BY <2>1, <2>2
<1>4. \A r \in Relay : Claimed(r)'
  BY <1>1 DEF LinksInv, Claimed
<1>5. \A h \in Host : Leads(h)'
  <2>1. \A l \in Link : \A r : Answers(l, r)' <=> Answers(l, r)
    BY <1>1, Zenon DEF Answers, At
  <2>2. \A l \in Link : \A h, r : Lists(l, h, r)' <=> Lists(l, h, r)
    BY <1>1 DEF Lists
  <2> QED BY <1>1, <2>1, <2>2, Zenon DEF LinksInv, Leads, At
<1> QED BY <1>2, <1>3, <1>4, <1>5 DEF LinksInv

LEMMA TaskSame == ASSUME TaskInv, UNCHANGED tasks PROVE TaskInv'
BY Zenon DEF tasks, TaskInv

LEMMA RelayNext == RelayInv /\ [Next]_vars => RelayInv'
<1> SUFFICES ASSUME LinksInv, TaskInv, [Next]_vars PROVE RelayInv'
  BY DEF RelayInv
<1>1. CASE UNCHANGED vars
  BY <1>1, LinksSame, TaskSame DEF vars, RelayInv
<1>2. ASSUME NEW l \in Link, Open(l) \/ End(l) \/ DropRoutes(l) \/ DropClaims(l) \/ Unregister(l) \/ ClearRoutes(l) \/ Collect(l)
      PROVE  RelayInv'
  <2>1. UNCHANGED tasks
    BY <1>2 DEF Open, End, DropRoutes, DropClaims, Unregister, ClearRoutes, Collect
  <2>2. relayPendingTasks \subseteq Task
    BY DEF TaskInv
  <2> QED BY <1>2, <2>1, <2>2, TaskSame, OpenStep, EndStep, DropRoutesStep, DropClaimsStep, UnregisterStep,
             ClearRoutesStep, FailStep DEF RelayInv
<1>3. ASSUME NEW l \in Link, \/ Snapshot(l) \/ CheckHost(l) \/ WriteOwn(l) \/ WriteRelay(l) \/ ReleaseGone(l)
                             \/ SetChains(l) \/ AgentList(l) \/ AgentListWrite(l) \/ HostUp(l) \/ HostUpWrite(l)
      PROVE  RelayInv'
  <2>1. UNCHANGED tasks
    BY <1>3, Zenon DEF Snapshot, CheckHost, WriteOwn, WriteRelay, ReleaseGone, SetChains, AgentList, AgentListWrite,
                HostUp, HostUpWrite
  <2> QED BY <1>3, <2>1, TaskSame, SnapshotStep, CheckHostStep, WriteOwnStep, WriteRelayStep, ReleaseGoneStep,
             SetChainsStep, AgentListStep, AgentListWriteStep, HostUpStep, HostUpWriteStep DEF RelayInv
<1>4. ASSUME NEW l \in Link, NEW t \in Task, TaskResult(l, t) PROVE RelayInv'
  BY <1>4, LinksSame, ResolveStep, Zenon DEF TaskResult, RelayInv
<1>5. ASSUME NEW l \in Link, FailTask(l) PROVE RelayInv'
  <2>1. relayPendingTasks \subseteq Task
    BY DEF TaskInv
  <2>2. LinksInv'
    BY <1>5, <2>1, FailStep
  <2>3. TaskInv'
    BY <1>5, ResolveStep DEF FailTask
  <2> QED BY <2>2, <2>3 DEF RelayInv
<1>6. ASSUME NEW l \in Link, CloseSocket(l) PROVE RelayInv'
  BY <1>6, CloseStep, CloseTaskStep DEF RelayInv
<1>7. ASSUME NEW t \in Task, Request(t) PROVE RelayInv'
  <2>1. UNCHANGED <<claims, link, routes>>
    BY <1>7, Zenon DEF Request, NextHop, LookUp, Register, RecordOwner, Write, Receive, Timeout
  <2>2. TaskInv'
    BY <1>7, NextHopStep, LookUpStep, RegisterStep, RecordOwnerStep, WriteTaskStep, ReceiveStep, TimeoutStep
       DEF Request
  <2> QED BY <2>1, <2>2, LinksSame DEF RelayInv
<1>8. ASSUME NEW h \in Roaming, LocalAgent(h) PROVE RelayInv'
  BY <1>8, LinksSame, TaskSame DEF LocalAgent, RelayInv
<1> QED BY <1>1, <1>2, <1>3, <1>4, <1>5, <1>6, <1>7, <1>8, Zenon DEF Next, Message, Cleanup

\* RelayInv is an invariant of the links and of the tasks sent through them (relay_handler.go).
LEMMA RelayInvariant == Spec => []RelayInv
BY RelayInit, RelayNext, PTL DEF Spec

\* A route never outlives the link that leads to it (relay_handler.go: unregisterRelayConnection,
\* handleTopologySnapshot), for any number of relays, links and hosts and any order of their steps.
THEOREM RoutesReachableAlways == Spec => []RoutesReachable
<1>1. RelayInv => RoutesReachable
  <2> SUFFICES ASSUME LinksInv, NEW h \in Host, routes[h] # None
               PROVE  \/ relayConnections[routes[h].hop] # None
                      \/ \E l \in Link : At(l, "clear") /\ LinkRelay[l] = routes[h].relay
                      \/ \E l \in Link : /\ link[l].at \in {"write", "chains"}
                                         /\ routes[h].relay \in link[l].relays /\ routes[h].hop = routes[h].relay
    BY Zenon DEF RelayInv, RoutesReachable
  <2>1. CASE routes[h].relay = routes[h].hop
    BY <2>1, Zenon DEF LinksInv, Leads, Lists
  <2>2. CASE routes[h].relay # routes[h].hop
    <3>1. PICK l \in Link : LinkRelay[l] = routes[h].hop /\ Answers(l, routes[h].relay)
      BY <2>2, Zenon DEF LinksInv, Leads
    <3> QED BY <3>1, Zenon DEF LinksInv, Connected, Answers
  <2> QED BY <2>1, <2>2, Zenon
<1> QED BY <1>1, RelayInvariant, PTL

\* The claims on descendants are those of the live links (relay_handler.go: claimDescendants,
\* releaseDescendants), whatever snapshots and ends of links interleave.
THEOREM ClaimsExactAlways == Spec => []ClaimsExact
<1>1. RelayInv => ClaimsExact
  BY Zenon DEF RelayInv, LinksInv, Claims, Claimed, ClaimsExact
<1> QED BY <1>1, RelayInvariant, PTL

\* A request that returned holds no slot and is in no table of relay tasks (router.go, forward.go),
\* whichever of the result, the timeout and the end of the link came first.
THEOREM RequestLeavesNothingAlways == Spec => []RequestLeavesNothing
<1>1. RelayInv => RequestLeavesNothing
  BY DEF RelayInv, TaskInv, RequestLeavesNothing
<1> QED BY <1>1, RelayInvariant, PTL
=============================================================================
