------------------------------ MODULE Dialing ------------------------------
(***************************************************************************)
(* How the programs of the system reach a relay known by several           *)
(* addresses (one per instance of an active/passive pair):                 *)
(*                                                                         *)
(*   "pull"   a relay that dials its parent    (repeater/client.go)        *)
(*   "push"   a relay that dials its child     (repeater/dialer.go)        *)
(*   "agent"  a minion: WebSocket, and enrolment after a 401 verdict       *)
(*   "fetch"  secagent-inventory, one GET                                  *)
(*   "get"    an administration command that reads                         *)
(*   "put"    an administration command that writes                        *)
(*                                                                         *)
(* All but the administration command go through endpoints.DialFirst over  *)
(* a Rotor; the relays, push and pull, run their sessions in runLoop.  The *)
(* push dialers of one child are owned by a DialerManager, and the child   *)
(* accepts one parent at a time (the uplink slot).                         *)
(*                                                                         *)
(* Left out: the lengths of the waits (time does not appear here), the     *)
(* rotor's failure count (nothing reads it outside the rotor's own wait,   *)
(* which no program calls), and what flows on a link once it is served.    *)
(***************************************************************************)
EXTENDS Integers, Sequences

CONSTANTS
  N,           \* number of addresses of the list
  Client,      \* the dialing programs
  First,       \* the client that runs from the start
  Kinds,       \* the kinds First may be of
  Idents,      \* the relay identities an address may announce
  Target,      \* relay_id of the child a push dialer is for
  MaxTries,    \* unauthRetryMax: 401 verdicts retried before an enrolment
  MaxChange,   \* bound: events of the environment
  None

ASSUME DialingAssumption ==
  /\ N \in Nat \ {0}
  /\ First \in Client /\ Target \in Idents
  /\ Kinds \subseteq {"pull", "push", "agent", "fetch", "get", "put"}
  /\ MaxTries \in Nat /\ MaxChange \in Nat
  /\ None \notin Client \cup Idents

VARIABLES
  kind,    \* what First is (a run of the model has one kind of client)
  srv,     \* what answers at each address: up, closed (nothing can be sent), frozen, busy (503)
  ident,   \* the relay_id announced at each address
  looped,  \* the child is this node or one of its ancestors
  pc,      \* where each client is
  head,    \* Rotor.last
  ehead,   \* Rotor.last of the minion's enrolment list
  todo,    \* addresses of the round not tried yet
  at,      \* address of the connection of an open session (0: it has none, or it is cut)
  sent,    \* addresses that were sent the request of this round
  auth,    \* the client's credential is accepted
  tries,   \* verdicts retried with the same JWT
  pin,     \* parentID, learned at the first handshake
  stat,    \* linkTracker state
  term,    \* Terminal() is set
  cancel,  \* the context of the client is cancelled
  mgr,     \* the dialer registered in the manager
  reg,     \* the dialer whose connection is in relayConnections
  slot,    \* the dialer whose link holds the child's uplink slot
  chg      \* events of the environment so far

rotor == <<head, ehead, todo, at, sent>>
link  == <<pin, stat, term>>
peers == <<mgr, reg, slot>>
fixed == <<kind, ident, looped>>
vars  == <<fixed, srv, pc, rotor, auth, tries, link, cancel, peers, chg>>

Addr     == 1..N
Statuses == {"up", "closed", "frozen", "busy"}
Relays   == {"pull", "push"}
OneShot  == {"fetch", "get", "put"}
PCs      == {"off", "idle", "dial", "enrol", "open", "acked", "linked", "wait",
             "refused", "terminal", "done", "stopped"}

TypeOK ==
  /\ kind \in Kinds
  /\ srv \in [Addr -> Statuses] /\ ident \in [Addr -> Idents] /\ looped \in BOOLEAN
  /\ pc \in [Client -> PCs]
  /\ head \in [Client -> Addr] /\ ehead \in [Client -> Addr]
  /\ \A c \in Client : todo[c] \in Seq(Addr) /\ Len(todo[c]) <= N
  /\ at \in [Client -> 0..N]
  /\ sent \in [Client -> SUBSET Addr]
  /\ auth \in [Client -> BOOLEAN] /\ tries \in [Client -> 0..MaxTries]
  /\ pin \in [Client -> Idents \cup {None}]
  /\ stat \in [Client -> {"retrying", "connected", "permanent"}]
  /\ term \in [Client -> BOOLEAN] /\ cancel \in [Client -> BOOLEAN]
  /\ {mgr, reg, slot} \subseteq Client \cup {None}
  /\ chg \in 0..MaxChange

Init ==
  /\ kind \in Kinds
  /\ srv \in [Addr -> Statuses] /\ ident \in [Addr -> Idents] /\ looped \in BOOLEAN
  /\ kind # "push" => ~looped
  /\ kind \notin Relays => ident = [a \in Addr |-> Target]
  /\ pc = [c \in Client |-> IF c = First THEN "idle" ELSE "off"]
  /\ head = [c \in Client |-> 1] /\ ehead = head /\ at = [c \in Client |-> 0]
  /\ todo = [c \in Client |-> <<>>] /\ sent = [c \in Client |-> {}]
  /\ auth = [c \in Client |-> TRUE] /\ tries = [c \in Client |-> 0]
  /\ pin = [c \in Client |-> None]
  /\ stat = [c \in Client |-> "retrying"]
  /\ term = [c \in Client |-> FALSE] /\ cancel = [c \in Client |-> FALSE]
  /\ mgr = (IF kind = "push" THEN First ELSE None) /\ reg = None /\ slot = None
  /\ chg = 0

-----------------------------------------------------------------------------
(* The rotor *)

\* Order: the last address that answered, then the others in list order.
Order(h) == <<h>> \o SelectSeq([i \in Addr |-> i], LAMBDA i : i # h)

\* Mutant: the head stays on the address that failed.
RotateStays(h, a) == h

\* Rotate: the head leaves a if it is a; any other address is ignored.
Rotate(h, a) == IF h = a THEN (a % N) + 1 ELSE h

-----------------------------------------------------------------------------
(* One attempt: what address a answers to client c *)

\* Mutant: a time-out is before send whatever left.
BeforeSendTimeouts(c, a) == srv[a] \in {"closed", "frozen"}

\* IsBeforeSend and the time-out rule: nothing left, or the inventory marked the 503.
BeforeSend(c, a) == srv[a] = "closed" \/ (srv[a] = "busy" /\ kind = "fetch")

\* The request was answered: an upgrade that succeeded, or any reply for a one-shot command.
Answered(c, a) ==
  \/ srv[a] = "up" /\ (auth[c] \/ kind \in OneShot \/ pc[c] = "enrol")
  \/ srv[a] = "busy" /\ kind \in {"get", "put"}

\* httpStatusError: the 401 answered to a minion's upgrade.
Verdict(c, a) == kind = "agent" /\ pc[c] = "dial" /\ srv[a] = "up" /\ ~auth[c]

AfterSend(c, a) == ~BeforeSend(c, a) /\ ~Answered(c, a)

\* An idempotent read goes on to the next address after a failure of any kind.
Idempotent == kind \in {"fetch", "get"}

\* The session failed: the loop waits for the next one; a one-shot command reports.
Failed(c) == pc' = [pc EXCEPT ![c] = IF kind \in OneShot THEN "done" ELSE "wait"]

\* The next address, or the end of the round after the last one.
NextAddress(c) ==
  /\ todo' = [todo EXCEPT ![c] = Tail(@)]
  /\ IF Tail(todo[c]) = <<>> THEN Failed(c) ELSE UNCHANGED pc

\* DialFirst: a failure before send moves to the next address.
AttemptBeforeSend(c) ==
  LET a == Head(todo[c])
  IN  /\ BeforeSend(c, a)
      /\ NextAddress(c)
      /\ sent' = [sent EXCEPT ![c] = IF srv[a] = "closed" THEN @ ELSE @ \cup {a}]
      /\ UNCHANGED <<fixed, srv, head, ehead, at, auth, tries, link, cancel, peers, chg>>

\* DialFirst stops on a failure after send, and the caller rotates the address away; an
\* idempotent read goes on.
AttemptAfterSend(c) ==
  LET a == Head(todo[c])
  IN  /\ AfterSend(c, a) /\ ~Verdict(c, a)
      /\ sent' = [sent EXCEPT ![c] = @ \cup {a}]
      /\ IF Idempotent
           THEN NextAddress(c) /\ UNCHANGED <<head, ehead>>
           ELSE /\ Failed(c)
                /\ todo' = [todo EXCEPT ![c] = <<>>]
                /\ head' = [head EXCEPT ![c] = IF pc[c] = "dial" THEN Rotate(@, a) ELSE @]
                /\ ehead' = [ehead EXCEPT ![c] = IF pc[c] = "enrol" THEN Rotate(@, a) ELSE @]
      /\ UNCHANGED <<fixed, srv, at, auth, tries, link, cancel, peers, chg>>

\* Dispatcher.Run on a 401: the same JWT is tried MaxTries times, then the minion enrols
\* again, on the list of the enrolment addresses.  The rotor is left alone.
AttemptVerdict(c) ==
  LET a == Head(todo[c])
  IN  /\ Verdict(c, a)
      /\ IF tries[c] < MaxTries
           THEN /\ tries' = [tries EXCEPT ![c] = @ + 1]
                /\ pc' = [pc EXCEPT ![c] = "wait"]
                /\ todo' = [todo EXCEPT ![c] = <<>>]
                /\ sent' = [sent EXCEPT ![c] = @ \cup {a}]
           ELSE /\ tries' = [tries EXCEPT ![c] = 0]
                /\ pc' = [pc EXCEPT ![c] = "enrol"]
                /\ todo' = [todo EXCEPT ![c] = Order(ehead[c])]
                /\ sent' = [sent EXCEPT ![c] = {}]
      /\ UNCHANGED <<fixed, srv, head, ehead, at, auth, link, cancel, peers, chg>>

\* An answer: Rotor.Success, and syncPair on the minion's other list; the session opens, the minion is linked, or the enrolment
\* gave a new JWT and the minion reconnects (after reconnect.Cycle's wait).
AttemptAnswered(c) ==
  LET a == Head(todo[c])
  IN  /\ Answered(c, a)
      /\ sent' = [sent EXCEPT ![c] = @ \cup {a}]
      /\ todo' = [todo EXCEPT ![c] = <<>>]
      /\ at' = [at EXCEPT ![c] = IF kind \in OneShot \/ pc[c] = "enrol" THEN 0 ELSE a]
      /\ head' = [head EXCEPT ![c] = a]
      /\ ehead' = [ehead EXCEPT ![c] = IF kind = "agent" THEN a ELSE @]
      /\ auth' = [auth EXCEPT ![c] = @ \/ pc[c] = "enrol"]
      /\ tries' = [tries EXCEPT ![c] = IF pc[c] = "dial" THEN 0 ELSE @]
      /\ pc' = [pc EXCEPT ![c] = IF kind \in Relays THEN "open"
                                 ELSE IF kind \in OneShot THEN "done"
                                 ELSE IF @ = "enrol" THEN "wait" ELSE "linked"]
      /\ UNCHANGED <<fixed, srv, link, cancel, peers, chg>>

Attempt(c) ==
  /\ pc[c] \in {"dial", "enrol"} /\ todo[c] # <<>> /\ ~cancel[c]
  /\ \/ AttemptBeforeSend(c) \/ AttemptAfterSend(c)
     \/ AttemptVerdict(c) \/ AttemptAnswered(c)

\* fetchTotalTimeout: silent addresses used up the time of the whole command.
FetchTimeout(c) ==
  /\ kind = "fetch" /\ pc[c] = "dial" /\ sent[c] # {}
  /\ pc' = [pc EXCEPT ![c] = "done"]
  /\ UNCHANGED <<fixed, srv, rotor, auth, tries, link, cancel, peers, chg>>

-----------------------------------------------------------------------------
(* Sessions of the relays: hello, acknowledgement, service *)

\* A session starts.  A push dialer first refuses a structural loop.
Begin(c) ==
  /\ pc[c] = "idle" /\ ~cancel[c]
  /\ IF kind = "push" /\ looped
       THEN pc' = [pc EXCEPT ![c] = "refused"] /\ UNCHANGED <<todo, sent>>
       ELSE /\ pc' = [pc EXCEPT ![c] = "dial"]
            /\ todo' = [todo EXCEPT ![c] = Order(head[c])]
            /\ sent' = [sent EXCEPT ![c] = {}]
  /\ UNCHANGED <<fixed, srv, head, ehead, at, auth, tries, link, cancel, peers, chg>>

\* The connection of an open session is cut: the read of the acknowledgement fails.
HandshakeFails(c) ==
  /\ pc[c] \in {"open", "acked"} /\ at[c] = 0
  /\ pc' = [pc EXCEPT ![c] = "wait"]
  /\ UNCHANGED <<fixed, srv, rotor, auth, tries, link, cancel, peers, chg>>

\* client.go session: relay_ack read, parent identity pinned or checked, uplink served.
ParentAck(c) ==
  /\ kind = "pull" /\ pc[c] = "open" /\ at[c] # 0 /\ ~cancel[c]
  /\ LET id == ident[at[c]]
     IN  IF pin[c] \in {None, id}
           THEN /\ pin' = [pin EXCEPT ![c] = id]
                /\ stat' = [stat EXCEPT ![c] = "connected"]
                /\ pc' = [pc EXCEPT ![c] = "linked"]
                /\ UNCHANGED at
           ELSE /\ pc' = [pc EXCEPT ![c] = "refused"]
                /\ at' = [at EXCEPT ![c] = 0]
                /\ UNCHANGED <<pin, stat>>
  /\ UNCHANGED <<fixed, srv, head, ehead, todo, sent, auth, tries, term, cancel, peers, chg>>

\* serveParentLink at the child: the single-parent slot is taken before relay_ack is sent;
\* a busy slot closes with 4012, which the dialer retries.
ChildHello(c) ==
  /\ kind = "push" /\ pc[c] = "open" /\ at[c] # 0
  /\ IF slot = None
       THEN slot' = c /\ pc' = [pc EXCEPT ![c] = "acked"] /\ UNCHANGED at
       ELSE /\ pc' = [pc EXCEPT ![c] = "wait"]
            /\ at' = [at EXCEPT ![c] = 0]
            /\ UNCHANGED slot
  /\ UNCHANGED <<fixed, srv, head, ehead, todo, sent, auth, tries, link, cancel, mgr, reg, chg>>

\* dialer.go session after relay_ack: the identity must be the target's, then ServeDialedRelay registers the connection unless one is registered.
ChildAck(c) ==
  /\ kind = "push" /\ pc[c] = "acked" /\ at[c] # 0
  /\ IF ident[at[c]] # Target
       THEN /\ pc' = [pc EXCEPT ![c] = "refused"]
            /\ at' = [at EXCEPT ![c] = 0]
            /\ UNCHANGED <<stat, reg>>
       ELSE IF reg # None
       THEN /\ pc' = [pc EXCEPT ![c] = "wait"]
            /\ at' = [at EXCEPT ![c] = 0]
            /\ UNCHANGED <<stat, reg>>
       ELSE /\ pc' = [pc EXCEPT ![c] = "linked"]
            /\ stat' = [stat EXCEPT ![c] = "connected"]
            /\ reg' = c
            /\ UNCHANGED at
  /\ UNCHANGED <<fixed, srv, head, ehead, todo, sent, auth, tries, pin, term, cancel, mgr, slot, chg>>

\* The child side of a connection ended: the slot is released (deferred in ServeAccepted).
ChildReleases(c) ==
  /\ slot = c /\ (pc[c] \notin {"acked", "linked"} \/ at[c] = 0)
  /\ slot' = None
  /\ UNCHANGED <<fixed, srv, pc, rotor, auth, tries, link, cancel, mgr, reg, chg>>

\* A link that ended leaves relayConnections.
Unregistered(c) == reg' = IF reg = c THEN None ELSE reg

\* A served link ends: the loop reports it and waits.
LinkEnds(c) ==
  /\ pc[c] = "linked" /\ at[c] = 0 /\ ~cancel[c]
  /\ pc' = [pc EXCEPT ![c] = "wait"]
  /\ stat' = [stat EXCEPT ![c] = IF kind \in Relays THEN "retrying" ELSE @]
  /\ Unregistered(c)
  /\ UNCHANGED <<fixed, srv, rotor, auth, tries, pin, term, cancel, mgr, slot, chg>>

\* The wait between two sessions is over.
Wake(c) ==
  /\ pc[c] = "wait" /\ ~cancel[c]
  /\ pc' = [pc EXCEPT ![c] = "idle"]
  /\ UNCHANGED <<fixed, srv, rotor, auth, tries, link, cancel, peers, chg>>

\* runLoop on a permanent refusal: onTerminal, then the status, then the loop ends.
SetTerminal(c) ==
  /\ pc[c] = "refused" /\ ~cancel[c]
  /\ term' = [term EXCEPT ![c] = TRUE]
  /\ pc' = [pc EXCEPT ![c] = "terminal"]
  /\ UNCHANGED <<fixed, srv, rotor, auth, tries, pin, stat, cancel, peers, chg>>

GiveUp(c) ==
  /\ pc[c] = "terminal"
  /\ stat' = [stat EXCEPT ![c] = "permanent"]
  /\ pc' = [pc EXCEPT ![c] = "done"]
  /\ UNCHANGED <<fixed, srv, rotor, auth, tries, pin, term, cancel, peers, chg>>

\* Mutant: the context is looked at between two sessions only.
CancelBetween == {"idle", "wait"}

\* The places where a cancelled context ends the session: DialFirst's loop, the goroutine
\* that closes the connection of a handshake or of a served link, and the loop's select.
CancelPoints == {"idle", "dial", "open", "acked", "linked", "wait", "refused"}

\* A cancelled client ends its session and its loop; its connection is closed.
Stopped(c) ==
  /\ cancel[c] /\ pc[c] \in CancelPoints
  /\ pc' = [pc EXCEPT ![c] = "stopped"]
  /\ stat' = [stat EXCEPT ![c] = "retrying"]
  /\ todo' = [todo EXCEPT ![c] = <<>>]
  /\ at' = [at EXCEPT ![c] = 0]
  /\ Unregistered(c)
  /\ UNCHANGED <<fixed, srv, head, ehead, sent, auth, tries, pin, term, cancel, mgr, slot, chg>>

-----------------------------------------------------------------------------
(* The manager of the push dialers *)

\* The context of the dialer the manager holds is cancelled.
CancelCurrent == cancel' = [c \in Client |-> cancel[c] \/ c = mgr]

\* DialerManager.Start: the dialer of the same relay is cancelled and replaced.
ManagerStart(d) ==
  /\ kind = "push" /\ pc[d] = "off"
  /\ CancelCurrent
  /\ mgr' = d
  /\ pc' = [pc EXCEPT ![d] = "idle"]
  /\ UNCHANGED <<fixed, srv, rotor, auth, tries, link, reg, slot, chg>>

\* DialerManager.Stop.
ManagerStop ==
  /\ mgr # None
  /\ CancelCurrent
  /\ mgr' = None
  /\ UNCHANGED <<fixed, srv, pc, rotor, auth, tries, link, reg, slot, chg>>

-----------------------------------------------------------------------------
(* The environment: instances start, stop and freeze; credentials are refused *)

Event == chg < MaxChange /\ chg' = chg + 1

Change(a, s) ==
  /\ Event /\ srv[a] # s
  /\ srv' = [srv EXCEPT ![a] = s]
  /\ at' = [c \in Client |-> IF at[c] = a THEN 0 ELSE at[c]]
  /\ UNCHANGED <<fixed, pc, head, ehead, todo, sent, auth, tries, link, cancel, peers>>

\* The network cuts the connection of c.
Cut(c) ==
  /\ Event /\ at[c] # 0
  /\ at' = [at EXCEPT ![c] = 0]
  /\ UNCHANGED <<fixed, srv, pc, head, ehead, todo, sent, auth, tries, link, cancel, peers>>

\* The credential of c is refused from now on (a rotation, for a minion; a revocation, for
\* a relay, whose live link is closed with 4010).
Refuse(c) ==
  /\ Event /\ pc[c] # "off" /\ auth[c] /\ kind \notin OneShot
  /\ auth' = [auth EXCEPT ![c] = FALSE]
  /\ IF pc[c] = "linked" /\ kind \in Relays
       THEN /\ pc' = [pc EXCEPT ![c] = "refused"]
            /\ at' = [at EXCEPT ![c] = 0]
            /\ Unregistered(c)
       ELSE UNCHANGED <<pc, at, reg>>
  /\ UNCHANGED <<fixed, srv, head, ehead, todo, sent, tries, link, cancel, mgr, slot>>

Step(c) ==
  \/ Begin(c) \/ Attempt(c) \/ HandshakeFails(c) \/ ParentAck(c) \/ ChildHello(c)
  \/ ChildAck(c) \/ LinkEnds(c) \/ Wake(c)
  \/ SetTerminal(c) \/ GiveUp(c) \/ Stopped(c)

Next ==
  \/ \E c \in Client : Step(c) \/ ChildReleases(c) \/ FetchTimeout(c) \/ ManagerStart(c) \/ Refuse(c) \/ Cut(c)
  \/ ManagerStop
  \/ \E a \in Addr, s \in Statuses : Change(a, s)

Spec == Init /\ [][Next]_vars

\* Every program keeps taking its steps (a Go routine that can run eventually runs, a wait
\* ends).  The environment and the operator owe nothing.
FairSpec == Spec /\ \A c \in Client : WF_vars(Step(c)) /\ WF_vars(ChildReleases(c))

-----------------------------------------------------------------------------
(* Properties *)

\* A request that left for one address is never sent to another in the same round
\* (DialFirst, apiRequest), unless it is an idempotent read: a one-shot token or a write is
\* presented to one instance at most.
NeverReplayed == Idempotent \/ \A c \in Client : \A a, b \in sent[c] : a = b

Resting  == {"linked", "refused", "terminal", "done", "stopped", "off"}
Served(c) == /\ \E a \in Addr : srv[a] = "up"
             /\ auth[c] \/ kind = "agent"

\* A client whose relay answers on some address, and goes on answering there, is linked
\* again and again or for good, or has stopped for a reason it reports: neither a frozen
\* address, nor a verdict, nor the slot or the table entry of a previous dialer starves it.
ReachesPeer ==
  \A c \in Client : <>[]Served(c) => []<>(pc[c] \in Resting)

\* A dialer that was replaced or stopped ends its loop, and its link is gone from the table
\* and from the child's slot.
CancelledEnds ==
  \A c \in Client : cancel[c] ~> (pc[c] \in {"stopped", "done"} /\ reg # c /\ slot # c)
=============================================================================
