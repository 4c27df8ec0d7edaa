----------------------------- MODULE LinkTrust -----------------------------
(***************************************************************************)
(* The trust of the links between relays: the root signs the link tokens,  *)
(* rotates and retires its signing key and revokes tokens (link/link.go);  *)
(* every other relay verifies what its parent sends against the keys it    *)
(* already trusts, applies it, keeps it for the relays that connect later  *)
(* and passes it down (repeater/linktrust.go, auth/linkjwt.go); the frames *)
(* travel on the links (ws/link.go, ws/relay_handler.go) and the relays    *)
(* confirm with link_state (repeater/uplink.go).                           *)
(*                                                                         *)
(* Keys are numbered in the order the root generates them.  A token is the *)
(* relay it names and the key that signed it.  Links are in pull mode.     *)
(***************************************************************************)
EXTENDS Integers, Sequences

CONSTANTS
    Relay,        \* the relays below the root
    Root,
    Parent,       \* the node above each relay
    Req,          \* requests to retire the previous key
    MaxKey,       \* bound: keys of the root
    MaxEvent,     \* bound: revocations, losses, restarts, failed writes of keys and acts of an operator, together
    MaxReplay     \* maxReplayFrames

ASSUME TreeAssumption ==
    /\ Root \notin Relay
    /\ Parent \in [Relay -> Relay \cup {Root}]
    /\ MaxKey \in Nat \ {0} /\ MaxReplay \in Nat \ {0}

VARIABLES
    root,     \* the root's keys, counter and rotation seq (state file)
    revoked,  \* tokens with revoked_at in the root's registry (state file)
    trust,    \* link_trust of each relay (state file)
    black,    \* blacklist of each node (state file)
    node,     \* relay_nodes of each node (state file)
    seen,     \* the token each relay last presented, as its parent recorded it (state file)
    mem,      \* LinkTrust.keys and LinkTrust.revs of each relay
    rep,      \* the last link_state of each relay, as each node remembers it
    cfg,      \* the token and the pinned key installed on each relay
    run,      \* whether a relay runs, gave up its parent, or refuses to start
    link,     \* the link of each relay to its parent, as the parent sees it
    sess,     \* whether the relay serves that link
    out,      \* sync frames built for a new link and not yet written
    chan,     \* frames on their way down
    desc,     \* descendants declared on the link
    req,      \* the requests to retire: what the check saw
    failed,   \* a frame of this link was not saved
    cnt       \* events so far, against the bound

down == <<link, sess, out, chan, desc>>
vars == <<root, revoked, trust, black, node, seen, mem, rep, cfg, run, down, req, failed, cnt>>

None == 0
Key == 1..MaxKey
KeyOrNone == 0..MaxKey
Token == Relay \X Key
Node == Relay \cup {Root}
MaxSeq == 2 * MaxKey + MaxEvent

Frame == [type : {"ack", "keys", "revs", "close"}, cur : KeyOrNone, prev : KeyOrNone, sig : KeyOrNone,
          seq : 0..MaxSeq, ents : SUBSET Token]
Plain(type) == [type |-> type, cur |-> None, prev |-> None, sig |-> None, seq |-> 0, ents |-> {}]
NoFrame == Plain("ack")

Idle == [st |-> "idle", force |-> FALSE, known |-> {}]

TypeOK ==
    /\ root \in [cur : Key, prev : KeyOrNone, seq : 0..MaxSeq, rot : 0..MaxSeq]
    /\ revoked \subseteq Token
    /\ trust \in [Relay -> [cur : Key, prev : KeyOrNone, seq : 0..MaxSeq]]
    /\ black \in [Node -> SUBSET Token]
    /\ node \in [Node -> [Relay -> {"none", "node", "revoked"}]]
    /\ seen \in [Relay -> KeyOrNone]
    /\ \A r \in Relay : mem[r].keys \in Frame /\ mem[r].revs \in Seq(Frame) /\ Len(mem[r].revs) <= MaxReplay
    /\ rep \in [Node -> [Relay -> KeyOrNone]]
    /\ cfg \in [Relay -> [tok : Key, anchor : Key]]
    /\ run \in [Relay -> {"on", "stopped", "halted"}]
    /\ link \in [Relay -> {"down", "verified", "registered", "up", "closed"}]
    /\ sess \in [Relay -> BOOLEAN] /\ failed \in [Relay -> BOOLEAN]
    /\ \A r \in Relay : out[r] \in Seq(Frame) /\ chan[r] \in Seq(Frame)
    /\ desc \in [Relay -> SUBSET Relay]
    /\ req \in [Req -> [st : {"idle", "checked"}, force : BOOLEAN, known : SUBSET Relay]]

Children(n) == {r \in Relay : Parent[r] = n}

\* The relays were deployed with the first key and registered once, up to the root.
Init ==
    /\ root = [cur |-> 1, prev |-> None, seq |-> 0, rot |-> 0]
    /\ revoked = {}
    /\ trust = [r \in Relay |-> [cur |-> 1, prev |-> None, seq |-> 0]]
    /\ black = [n \in Node |-> {}]
    /\ node = [n \in Node |-> [r \in Relay |-> IF Parent[r] = n \/ n = Root THEN "node" ELSE "none"]]
    /\ seen = [r \in Relay |-> 1]
    /\ mem = [r \in Relay |-> [keys |-> NoFrame, revs |-> <<>>]]
    /\ rep = [n \in Node |-> [r \in Relay |-> None]]
    /\ cfg = [r \in Relay |-> [tok |-> 1, anchor |-> 1]]
    /\ run = [r \in Relay |-> "on"]
    /\ link = [r \in Relay |-> "down"]
    /\ sess = [r \in Relay |-> FALSE]
    /\ out = [r \in Relay |-> <<>>]
    /\ chan = [r \in Relay |-> <<>>]
    /\ desc = [r \in Relay |-> {}]
    /\ req = [q \in Req |-> Idle]
    /\ failed = [r \in Relay |-> FALSE]
    /\ cnt = 0

Event == cnt < MaxEvent /\ cnt' = cnt + 1

-----------------------------------------------------------------------------
(* Signed messages and their verification *)

SignLinkKeys(sig, cur, prev, seq) ==
    [type |-> "keys", cur |-> cur, prev |-> prev, sig |-> sig, seq |-> seq, ents |-> {}]

SignLinkRevocations(sig, seq, ents) ==
    [type |-> "revs", cur |-> None, prev |-> None, sig |-> sig, seq |-> seq, ents |-> ents]

\* A rotation from the trusted key, or the end of the window, signed by the trusted key.
ApplyLinkKeys(t, f) ==
    /\ f.seq > t.seq
    /\ f.sig = t.cur
    /\ \/ f.prev = t.cur /\ f.cur # t.cur
       \/ f.prev = None /\ f.cur = t.cur

\* A re-send of exactly the trusted keys, signed by one of them.
VerifyLinkKeysReplay(t, f) ==
    /\ f.cur = t.cur /\ f.prev = t.prev
    /\ f.sig = IF t.prev # None THEN t.prev ELSE t.cur

\* Mutant: an older message than the last one is accepted.
OldRevocations(t, f) == f.sig = t.cur

\* Signed by the current key, and newer than the last message; the same seq is a re-send.
VerifyLinkRevocations(t, f) == f.sig = t.cur /\ f.seq >= t.seq

-----------------------------------------------------------------------------
(* Links and frames *)

Registered(c) == link[c] \in {"registered", "up"}

BroadcastLinkFrame(ch, n, f) ==
    [c \in Relay |-> IF Parent[c] = n /\ Registered(c) THEN Append(ch[c], f) ELSE ch[c]]

\* The live links of node n authenticated by one of the tokens.
LinksByJTI(n, toks) == {c \in Children(n) : Registered(c) /\ <<c, cfg[c].tok>> \in toks}

\* CloseRelay: the close frame follows what was written, and the parent forgets the link.
CloseRelays(ch, cs) == [c \in Relay |-> IF c \in cs THEN Append(ch[c], Plain("close")) ELSE ch[c]]
Closed(cs) ==
    /\ link' = [c \in Relay |-> IF c \in cs THEN "closed" ELSE link[c]]
    /\ out' = [c \in Relay |-> IF c \in cs THEN <<>> ELSE out[c]]
    /\ desc' = [c \in Relay |-> IF c \in cs THEN {} ELSE desc[c]]
    /\ UNCHANGED sess

\* The links of the relays cs are gone, with what was on them.
Lost(cs) ==
    /\ link' = [c \in Relay |-> IF c \in cs THEN "down" ELSE link[c]]
    /\ sess' = [c \in Relay |-> sess[c] /\ c \notin cs]
    /\ out' = [c \in Relay |-> IF c \in cs THEN <<>> ELSE out[c]]
    /\ chan' = [c \in Relay |-> IF c \in cs THEN <<>> ELSE chan[c]]
    /\ desc' = [c \in Relay |-> IF c \in cs THEN {} ELSE desc[c]]

-----------------------------------------------------------------------------
(* The root *)

\* RotateLinkKey: current -> previous, a new current key, and the counter, in one write.
RotateLinkKey == [cur |-> root.cur + 1, prev |-> root.cur, seq |-> root.seq + 1, rot |-> root.seq + 1]

Rotate ==
    /\ root.prev = None /\ root.cur < MaxKey
    /\ root' = RotateLinkKey
    /\ chan' = BroadcastLinkFrame(chan, Root, SignLinkKeys(root.cur, root.cur + 1, root.cur, root.seq + 1))
    /\ UNCHANGED <<revoked, trust, black, node, seen, mem, rep, cfg, run, link, sess, out, desc, req, failed, cnt>>

\* The relays below known to the root: its table, the declared descendants, and those that reported.
KnownRelayIDs ==
    {r \in Relay : \/ node[Root][r] # "none" \/ rep[Root][r] # None
                   \/ \E c \in Children(Root) : r \in desc[c] \/ (r = c /\ Registered(r))}

\* Mutant: a relay that reported any key is confirmed.
SeenOnly == {r \in KnownRelayIDs : rep[Root][r] = None}

\* Status: the relays that have not confirmed the open rotation.
Unconfirmed == {r \in KnownRelayIDs : rep[Root][r] # root.cur}

\* RetireDetailed reads the status under the lock and lets go of it...
RetireCheck(q, force) ==
    /\ req[q].st = "idle" /\ root.prev # None
    /\ Unconfirmed = {} \/ force
    /\ req' = [req EXCEPT ![q] = [st |-> "checked", force |-> force, known |-> KnownRelayIDs]]
    /\ UNCHANGED <<root, revoked, trust, black, node, seen, mem, rep, cfg, run, down, failed, cnt>>

RetireLinkPrevious == [root EXCEPT !.prev = None, !.rot = 0, !.seq = @ + 1]

\* ... then takes it again and retires the previous key there is by then, if any.
RetireCommit(q) ==
    /\ req[q].st = "checked"
    /\ req' = [req EXCEPT ![q] = Idle]
    /\ IF root.prev = None
         THEN UNCHANGED <<root, chan>>
         ELSE /\ root' = RetireLinkPrevious
              /\ chan' = BroadcastLinkFrame(chan, Root, SignLinkKeys(root.cur, root.cur, None, root.seq + 1))
    /\ UNCHANGED <<revoked, trust, black, node, seen, mem, rep, cfg, run, link, sess, out, desc, failed, cnt>>

\* Revoke: registry, blacklist and counter in one write; the frame goes down, then the links are cut.
Revoke(t) ==
    /\ t \notin revoked /\ t[2] <= root.cur
    /\ Event
    /\ revoked' = revoked \cup {t}
    /\ black' = [black EXCEPT ![Root] = @ \cup {t}]
    /\ root' = [root EXCEPT !.seq = @ + 1]
    /\ LET cs == LinksByJTI(Root, {t})
           f == SignLinkRevocations(root.cur, root.seq + 1, {t}) IN
       chan' = CloseRelays(BroadcastLinkFrame(chan, Root, f), cs) /\ Closed(cs)
    /\ UNCHANGED <<trust, node, seen, mem, rep, cfg, run, req, failed>>

\* Mutant: only the revocations are sent again.
SyncRevocations == IF root.seq > 0 THEN <<SignLinkRevocations(root.cur, root.seq, revoked)>> ELSE <<>>

\* SyncFrames: the open rotation, then the full list at the current seq.
SyncFrames ==
    (IF root.prev # None THEN <<SignLinkKeys(root.prev, root.cur, root.prev, root.rot)>> ELSE <<>>)
    \o (IF root.seq > 0 THEN <<SignLinkRevocations(root.cur, root.seq, revoked)>> ELSE <<>>)

-----------------------------------------------------------------------------
(* A relay connects to its parent *)

TrustedKeys(n) == IF n = Root THEN {root.cur, root.prev} ELSE {trust[n].cur, trust[n].prev}

\* extractRelayAuth and VerifyLinkToken at node n
VerifyLinkToken(n, r) ==
    /\ cfg[r].tok \in TrustedKeys(n)
    /\ <<r, cfg[r].tok>> \notin black[n]
    /\ node[n][r] # "revoked"

NodeUp(n) == n \in Relay => run[n] # "halted"

RelayHandler(r) ==
    /\ link[r] = "down" /\ run[r] = "on" /\ NodeUp(Parent[r])
    /\ VerifyLinkToken(Parent[r], r)
    /\ link' = [link EXCEPT ![r] = "verified"]
    /\ UNCHANGED <<root, revoked, trust, black, node, seen, mem, rep, cfg, run, sess, out, chan, desc, req, failed, cnt>>

\* serveRelayConn: from here on the link receives the broadcasts.
RegisterConn(r) ==
    /\ link[r] = "verified"
    /\ link' = [link EXCEPT ![r] = "registered"]
    /\ UNCHANGED <<root, revoked, trust, black, node, seen, mem, rep, cfg, run, sess, out, chan, desc, req, failed, cnt>>

\* Replay: what a relay keeps for a child that connects.
Replay(n) == (IF mem[n].keys # NoFrame THEN <<mem[n].keys>> ELSE <<>>) \o mem[n].revs

LinkFramesForNewLink(n) == IF n = Root THEN SyncFrames ELSE Replay(n)

\* registerPullRelay and the token seen: a revocation is never cleared here.
RegisteredNode(n, r) == [node EXCEPT ![n][r] = IF @ = "none" THEN "node" ELSE @]
TokenSeen(n, r) == IF node[n][r] = "revoked" THEN seen ELSE [seen EXCEPT ![r] = cfg[r].tok]

\* relay_hello: the node is recorded, relay_ack is written and the sync frames are read...
RelayHello(r) ==
    /\ link[r] = "registered"
    /\ link' = [link EXCEPT ![r] = "up"]
    /\ node' = RegisteredNode(Parent[r], r)
    /\ seen' = TokenSeen(Parent[r], r)
    /\ chan' = [chan EXCEPT ![r] = Append(@, NoFrame)]
    /\ out' = [out EXCEPT ![r] = LinkFramesForNewLink(Parent[r])]
    /\ UNCHANGED <<root, revoked, trust, black, mem, rep, cfg, run, sess, desc, req, failed, cnt>>

\* ... and written one after the other, without the lock they were read under.
SendLinkSync(r) ==
    /\ out[r] # <<>>
    /\ chan' = [chan EXCEPT ![r] = Append(@, Head(out[r]))]
    /\ out' = [out EXCEPT ![r] = Tail(@)]
    /\ UNCHANGED <<root, revoked, trust, black, node, seen, mem, rep, cfg, run, link, sess, desc, req, failed, cnt>>

LinkLost(r) ==
    /\ link[r] # "down"
    /\ Event
    /\ Lost({r})
    /\ UNCHANGED <<root, revoked, trust, black, node, seen, mem, rep, cfg, run, req, failed>>

-----------------------------------------------------------------------------
(* A relay reads its link *)

Next1(r, type) == chan[r] # <<>> /\ Head(chan[r]).type = type
Rest(r) == [chan EXCEPT ![r] = Tail(@)]

\* Uplink.run: the revocation frames kept so far are forgotten, the own state is reported.
ReadAck(r) ==
    /\ Next1(r, "ack") /\ ~sess[r]
    /\ sess' = [sess EXCEPT ![r] = TRUE]
    /\ mem' = [mem EXCEPT ![r].revs = <<>>]
    /\ failed' = [failed EXCEPT ![r] = FALSE]
    /\ rep' = [rep EXCEPT ![r][r] = trust[r].cur]
    /\ chan' = Rest(r)
    /\ UNCHANGED <<root, revoked, trust, black, node, seen, cfg, run, link, out, desc, req, cnt>>

\* Another frame before relay_ack: a correctable refusal, the relay hangs up and dials again.
HandshakeRefused(r) ==
    /\ ~sess[r] /\ (Next1(r, "keys") \/ Next1(r, "revs"))
    /\ Lost({r})
    /\ UNCHANGED <<root, revoked, trust, black, node, seen, mem, rep, cfg, run, req, failed, cnt>>

\* 4010: never reconnect.
ReadClose(r) ==
    /\ Next1(r, "close")
    /\ run' = [run EXCEPT ![r] = "stopped"]
    /\ Lost({r})
    /\ UNCHANGED <<root, revoked, trust, black, node, seen, mem, rep, cfg, req, failed, cnt>>

KeptKeys(f) == IF f.prev # None THEN f ELSE NoFrame

\* A verified link_keys is saved, kept while the window is open, passed down and confirmed.
ApplyKeys(r) ==
    LET f == Head(chan[r]) IN
    /\ sess[r] /\ Next1(r, "keys") /\ ApplyLinkKeys(trust[r], f)
    /\ trust' = [trust EXCEPT ![r] = [cur |-> f.cur, prev |-> f.prev, seq |-> f.seq]]
    /\ mem' = [mem EXCEPT ![r].keys = KeptKeys(f)]
    /\ rep' = [rep EXCEPT ![r][r] = f.cur]
    /\ chan' = BroadcastLinkFrame(Rest(r), r, f)
    /\ UNCHANGED <<root, revoked, black, node, seen, cfg, run, link, sess, out, desc, req, failed, cnt>>

\* Mutant: the relay confirms the key it could not save.
ConfirmedUnsaved(r) == [rep EXCEPT ![r][r] = Head(chan[r]).cur]

\* What a relay has reported once a link_keys could not be saved.
ReportOnFailure(r) == rep

ApplyKeysFails(r) ==
    /\ sess[r] /\ Next1(r, "keys") /\ ApplyLinkKeys(trust[r], Head(chan[r]))
    /\ Event
    /\ failed' = [failed EXCEPT ![r] = TRUE]
    /\ rep' = ReportOnFailure(r)
    /\ chan' = Rest(r)
    /\ UNCHANGED <<root, revoked, trust, black, node, seen, mem, cfg, run, link, sess, out, desc, req>>

\* A re-send of the trusted keys is confirmed and passed down; anything else is ignored.
ResentKeys(r) ==
    LET f == Head(chan[r]) IN
    /\ sess[r] /\ Next1(r, "keys") /\ ~ApplyLinkKeys(trust[r], f)
    /\ IF VerifyLinkKeysReplay(trust[r], f)
         THEN /\ mem' = [mem EXCEPT ![r].keys = KeptKeys(f)]
              /\ rep' = [rep EXCEPT ![r][r] = trust[r].cur]
              /\ chan' = BroadcastLinkFrame(Rest(r), r, f)
         ELSE /\ chan' = Rest(r)
              /\ UNCHANGED <<mem, rep>>
    /\ UNCHANGED <<root, revoked, trust, black, node, seen, cfg, run, link, sess, out, desc, req, failed, cnt>>

\* The newest maxReplayFrames frames.
KeptRevs(revs, f) ==
    Append(IF Len(revs) >= MaxReplay THEN SubSeq(revs, Len(revs) - MaxReplay + 2, Len(revs)) ELSE revs, f)

\* The new tokens are blacklisted, the seq is saved, the frame is kept and passed down, then the links
\* of the new tokens are closed; the relay's own token ends its link for good.
ApplyRevocations(r) ==
    LET f == Head(chan[r])
        new == f.ents \ black[r]
        own == <<r, cfg[r].tok>> \in new
        cs == LinksByJTI(r, new)
        ch == CloseRelays(BroadcastLinkFrame(Rest(r), r, f), cs) IN
    /\ sess[r] /\ Next1(r, "revs") /\ VerifyLinkRevocations(trust[r], f)
    /\ black' = [black EXCEPT ![r] = @ \cup new]
    /\ trust' = [trust EXCEPT ![r].seq = f.seq]
    /\ mem' = [mem EXCEPT ![r].revs = KeptRevs(@, f)]
    /\ rep' = [rep EXCEPT ![r][r] = IF own THEN @ ELSE trust[r].cur]
    /\ run' = [run EXCEPT ![r] = IF own THEN "stopped" ELSE @]
    /\ link' = [c \in Relay |-> IF c \in cs THEN "closed" ELSE IF own /\ c = r THEN "down" ELSE link[c]]
    /\ sess' = [sess EXCEPT ![r] = ~own]
    /\ out' = [c \in Relay |-> IF c \in cs \/ (own /\ c = r) THEN <<>> ELSE out[c]]
    /\ desc' = [c \in Relay |-> IF c \in cs \/ (own /\ c = r) THEN {} ELSE desc[c]]
    /\ chan' = IF own THEN [ch EXCEPT ![r] = <<>>] ELSE ch
    /\ UNCHANGED <<root, revoked, node, seen, cfg, req, failed, cnt>>

\* A write fails on the way: some entries may be blacklisted, nothing else happens (bound: once per link).
ApplyRevocationsFails(r) ==
    LET f == Head(chan[r]) IN
    /\ ~failed[r]
    /\ sess[r] /\ Next1(r, "revs") /\ VerifyLinkRevocations(trust[r], f)
    /\ \E kept \in SUBSET (f.ents \ black[r]) :
         /\ f.seq > trust[r].seq \/ kept # f.ents \ black[r]
         /\ black' = [black EXCEPT ![r] = @ \cup kept]
    /\ failed' = [failed EXCEPT ![r] = TRUE]
    /\ chan' = Rest(r)
    /\ UNCHANGED <<root, revoked, trust, node, seen, mem, rep, cfg, run, link, sess, out, desc, req, cnt>>

IgnoreRevocations(r) ==
    /\ sess[r] /\ Next1(r, "revs") /\ ~VerifyLinkRevocations(trust[r], Head(chan[r]))
    /\ chan' = Rest(r)
    /\ UNCHANGED <<root, revoked, trust, black, node, seen, mem, rep, cfg, run, link, sess, out, desc, req, failed, cnt>>

-----------------------------------------------------------------------------
(* What goes up *)

\* topology_snapshot: the relays of the table are declared, and recorded above.
Declared(r) == {d \in Relay : node[r][d] # "none"}

SendSnapshot(r) ==
    /\ sess[r] /\ link[r] = "up" /\ desc[r] # Declared(r)
    /\ desc' = [desc EXCEPT ![r] = Declared(r)]
    /\ node' = [node EXCEPT ![Parent[r]] =
                    [d \in Relay |-> IF d \in Declared(r) /\ @[d] = "none" THEN "node" ELSE @[d]]]
    /\ UNCHANGED <<root, revoked, trust, black, seen, mem, rep, cfg, run, link, sess, out, chan, req, failed, cnt>>

\* link_state of the relay itself or of a declared descendant: sent when it changes and after each
\* snapshot, and recorded by the parent, which sends it on.
HandleLinkState(r, id) ==
    /\ sess[r] /\ link[r] = "up" /\ (id = r \/ id \in desc[r])
    /\ rep[r][id] \notin {None, rep[Parent[r]][id]}
    /\ rep' = [rep EXCEPT ![Parent[r]][id] = rep[r][id]]
    /\ UNCHANGED <<root, revoked, trust, black, node, seen, mem, cfg, run, down, req, failed, cnt>>

-----------------------------------------------------------------------------
(* Restarts and operators *)

Forgotten(n) == [rep EXCEPT ![n] = [r \in Relay |-> None]]

RestartRoot ==
    /\ Event
    /\ rep' = Forgotten(Root)
    /\ req' = [q \in Req |-> Idle]
    /\ Lost(Children(Root))
    /\ UNCHANGED <<root, revoked, trust, black, node, seen, mem, cfg, run, failed>>

\* NewLinkTrust: the persisted keys win when the pinned key is one of them; else no start.
NewLinkTrust(r, anchor) == IF anchor \in {trust[r].cur, trust[r].prev} THEN "on" ELSE "halted"

Started(r, anchor) ==
    /\ run' = [run EXCEPT ![r] = NewLinkTrust(r, anchor)]
    /\ mem' = [mem EXCEPT ![r] = [keys |-> NoFrame, revs |-> <<>>]]
    /\ rep' = Forgotten(r)
    /\ Lost({r} \cup Children(r))

RestartRelay(r) ==
    /\ run[r] # "halted"
    /\ Event
    /\ Started(r, cfg[r].anchor)
    /\ UNCHANGED <<root, revoked, trust, black, node, seen, cfg, req, failed>>

\* Mint and PublicInfo: the operator installs a new token and the current key, and restarts the relay.
Reinstall(r) ==
    /\ Event
    /\ cfg[r] # [tok |-> root.cur, anchor |-> root.cur] /\ <<r, root.cur>> \notin revoked
    /\ cfg' = [cfg EXCEPT ![r] = [tok |-> root.cur, anchor |-> root.cur]]
    /\ Started(r, root.cur)
    /\ UNCHANGED <<root, revoked, trust, black, node, seen, req, failed>>

\* state link-trust reset, then a start with the current key pinned.
ResetLinkTrust(r) ==
    /\ run[r] = "halted"
    /\ trust' = [trust EXCEPT ![r] = [cur |-> root.cur, prev |-> None, seq |-> 0]]
    /\ cfg' = [cfg EXCEPT ![r].anchor = root.cur]
    /\ run' = [run EXCEPT ![r] = "on"]
    /\ UNCHANGED <<root, revoked, black, node, seen, mem, rep, down, req, failed, cnt>>

\* RevokeRelayNode: the flag and the blacklist in one write.
RevokeRelayNode(r) == [black EXCEPT ![Parent[r]] = IF seen[r] # None THEN @ \cup {<<r, seen[r]>>} ELSE @]

LiveLink(r) == IF Registered(r) THEN {r} ELSE {}

AdminRevokeRelay(r) ==
    /\ node[Parent[r]][r] = "node"
    /\ Event
    /\ node' = [node EXCEPT ![Parent[r]][r] = "revoked"]
    /\ black' = RevokeRelayNode(r)
    /\ chan' = CloseRelays(chan, LiveLink(r)) /\ Closed(LiveLink(r))
    /\ UNCHANGED <<root, revoked, trust, seen, mem, rep, cfg, run, req, failed>>

\* Refused while the token is unknown and the relay not revoked; the token is blacklisted first.
AdminDeleteRelay(r) ==
    /\ node[Parent[r]][r] # "none" /\ (seen[r] # None \/ node[Parent[r]][r] = "revoked")
    /\ Event
    /\ node' = [node EXCEPT ![Parent[r]][r] = "none"]
    /\ seen' = [seen EXCEPT ![r] = None]
    /\ black' = RevokeRelayNode(r)
    /\ chan' = CloseRelays(chan, LiveLink(r)) /\ Closed(LiveLink(r))
    /\ UNCHANGED <<root, revoked, trust, mem, rep, cfg, run, req, failed>>

AdminCreateRelay(r) ==
    /\ node[Parent[r]][r] = "none"
    /\ node' = [node EXCEPT ![Parent[r]][r] = "node"]
    /\ UNCHANGED <<root, revoked, trust, black, seen, mem, rep, cfg, run, down, req, failed, cnt>>

-----------------------------------------------------------------------------

Operator(r) == Reinstall(r) \/ ResetLinkTrust(r) \/ AdminRevokeRelay(r) \/ AdminDeleteRelay(r) \/ AdminCreateRelay(r)

Establish(r) == RelayHandler(r) \/ RegisterConn(r) \/ RelayHello(r) \/ SendLinkSync(r)

Read(r) ==
    \/ ReadAck(r) \/ HandshakeRefused(r) \/ ReadClose(r)
    \/ ApplyKeys(r) \/ ResentKeys(r) \/ ApplyRevocations(r) \/ IgnoreRevocations(r)

Upward(r) == SendSnapshot(r) \/ \E id \in Relay : HandleLinkState(r, id)

Next ==
    \/ Rotate \/ RestartRoot
    \/ \E q \in Req : RetireCommit(q) \/ \E force \in BOOLEAN : RetireCheck(q, force)
    \/ \E t \in Token : Revoke(t)
    \/ \E r \in Relay :
         \/ Establish(r) \/ Read(r) \/ Upward(r)
         \/ LinkLost(r) \/ RestartRelay(r) \/ ApplyKeysFails(r) \/ ApplyRevocationsFails(r)
         \/ Operator(r)

\* A relay that is not linked dials again for ever, and the goroutines of a link run.
Fairness == \A r \in Relay : WF_vars(Establish(r) \/ Read(r) \/ Upward(r))

Spec == Init /\ [][Next]_vars
FairSpec == Spec /\ Fairness

-----------------------------------------------------------------------------
(* Properties *)

\* A node that remembers a relay as confirmed on the current key is right: the relay has saved that key,
\* whatever was lost, refused, retried or restarted since (applyKeys, handleLinkFrame, resendLinkStates).
ConfirmedIsTrue == \A n \in Node, r \in Relay : rep[n][r] = root.cur => trust[r].cur = root.cur

\* A relay follows the rotations of the root one at a time, and never takes back a message: its key moves
\* to the next one at most, its seq does not go back and its blacklist only grows; only the operator who
\* clears its trust restarts the chain (ApplyLinkKeys, applyRevocations, state link-trust reset).
ChainFollowed ==
    [][\A r \in Relay :
         /\ black[r] \subseteq black'[r]
         /\ run[r] = "halted" \/ (trust'[r].cur \in {trust[r].cur, trust[r].cur + 1} /\ trust'[r].seq >= trust[r].seq)]_vars

\* Retiring the previous key without force strands no relay the request saw: each has the current key
\* (Retire: "Refused while relays below have not confirmed the rotation, unless force").
RetireStrandsNone ==
    [][\A q \in Req : (root.prev # None /\ req[q].st = "checked" /\ req'[q].st = "idle" /\ root'.prev = None)
         => (req[q].force \/ \A r \in req[q].known : trust[r].cur = root.cur)]_vars

Path[r \in Relay] == IF Parent[r] = Root THEN {r} ELSE {r} \cup Path[Parent[r]]

\* A relay that can stay linked: neither it nor a relay above it gave up, was revoked, lost a write, or
\* holds a token of a key its parent does not trust.
Reachable(r) ==
    \A p \in Path[r] :
        /\ run[p] = "on" /\ ~failed[p]
        /\ VerifyLinkToken(Parent[p], p)

\* Once links, relays and operators are quiet, an open rotation has reached, and is confirmed to the root
\* by, every relay that can stay linked, whatever was lost, restarted or revoked on the way
\* (Rotate, SyncFrames, Replay, link_state).
RotationConverges ==
    <>[](root.prev # None => \A r \in Relay : Reachable(r) => rep[Root][r] = root.cur)
=============================================================================
