---------------------------- MODULE Credentials ----------------------------
(***************************************************************************)
(* The credentials of one agent: enrolment in two requests, the JWT and    *)
(* its identifier (JTI), the handshake of /ws/agent, renewal, rotation of  *)
(* the server secrets, revocation, deletion, and the minion that holds     *)
(* the JWT (handlers/register.go, admin.go, security.go; ws/handler.go,    *)
(* renewal.go, jwt.go; server/helpers.go; storage/store*.go;               *)
(* secagent-minion: main.go, enrollment, ws/dispatcher.go).                *)
(*                                                                         *)
(* Every table of the server is keyed by hostname, so one host is          *)
(* modelled.  An action is one state mutation or one critical section of   *)
(* a handler; the handlers, the renewal loops and the minion interleave    *)
(* between them.  JTIs are numbered in the order the state stores them;    *)
(* secrets, RSA keys and deadlines by the rotation that made them.         *)
(***************************************************************************)
EXTENDS Naturals, Sequences

CONSTANTS
    Req,          \* enrolment attempts of the minion
    Conn,         \* WebSocket connections
    None,
    Reusable,     \* the kind of the enrolment token
    MaxRetry,     \* unauthRetryMax
    MaxRenew, MaxRotate, MaxAdmin, MaxFault,   \* bounds: each kind of event
    MaxEvents     \* bound: all of them together

AgentRec == [jti : Nat, prev : Nat, revoked : BOOLEAN, suspended : BOOLEAN, by : {"enrol", "rekey"}]

Distinct == None \notin Conn /\ None \notin AgentRec
ASSUME CredAssumption == Distinct

VARIABLES
    token,        \* the enrolment token in the state
    agent,        \* the agent in the state, or None
    blacklist,    \* blacklisted JTIs
    stored,       \* JTIs stored so far
    cfg,          \* secrets in server_config
    keys,         \* secrets in memory
    lapsed,       \* rotations whose deadline is past
    nonce,        \* the pending nonce: the attempt it was issued to, or None
    en,           \* request 2 of each attempt, on the server
    hs,           \* the handler of each connection
    conn,         \* wsConnections
    rk,           \* issueRekey in each caller: a connection or the rotation
    adm,          \* the revocation or deletion in progress
    rot,          \* the rotation in progress
    m,            \* the minion
    used,         \* the newest JTI the minion used at a handshake
    count         \* how often each bounded event happened

state == <<token, agent, blacklist, stored>>
secrets == <<cfg, keys, lapsed>>
server == <<nonce, en, hs, conn, rk, adm, rot>>
vars == <<state, secrets, server, m, used, count>>

Caller == Conn \cup {"rot"}
Key == 0..MaxRotate
Event == {"renew", "rotate", "admin", "fault"}
Keys == [cur : Key, prev : Key \cup {None}, dl : Key, rsa : Key]
NoTok == [jti |-> 0, key |-> 0]

Off == [step |-> "ended", jti |-> 0, old |-> FALSE, sock |-> "closed", code |-> 0, queue |-> <<>>]
IdleEn == [step |-> "idle", key |-> 0, ok |-> FALSE]
IdleRk == [step |-> "idle", tok |-> NoTok]
IdleAdm == [step |-> "idle", op |-> "revoke", jti |-> 0, prev |-> 0]
IdleRot == [step |-> 0, old |-> 0]
NewMinion == [phase |-> "boot", mem |-> NoTok, disk |-> NoTok, pend |-> FALSE, fresh |-> FALSE,
              tries |-> 0, first |-> TRUE, req |-> None, rsa |-> 0, conn |-> None, code |-> 0]

Tok == [jti : Nat, key : Key]
TypeOK ==
    /\ token \in [there : BOOLEAN, uses : Nat, expired : BOOLEAN]
    /\ agent \in AgentRec \cup {None}
    /\ blacklist \subseteq 1..stored /\ stored \in Nat /\ used \in 0..stored
    /\ cfg \in Keys /\ keys \in Keys /\ lapsed \subseteq Key
    /\ nonce \in Req \cup {None}
    /\ en \in [Req -> [step : {"idle", "verified", "consumed"}, key : Key, ok : BOOLEAN]]
    /\ hs \in [Conn -> [step : {"ended", "checked", "registered", "open"}, jti : Nat, old : BOOLEAN,
                        sock : {"up", "half", "closed"}, code : {0, 4000, 4001}, queue : Seq(Tok)]]
    /\ conn \in Conn \cup {None}
    /\ rk \in [Caller -> [step : {"idle", "due", "signed", "stored", "off"}, tok : Tok]]
    /\ adm \in [step : {"idle", "revoke", "prev", "delete", "close", "again", "failed"},
                op : {"revoke", "delete"}, jti : Nat, prev : Nat]
    /\ rot \in [step : 0..5, old : Key]
    /\ m \in [phase : {"boot", "enrol", "challenged", "step2", "dial", "dialing", "online", "stopped"},
              mem : Tok, disk : Tok, pend : BOOLEAN, fresh : BOOLEAN, tries : 0..MaxRetry,
              first : BOOLEAN, req : Req \cup {None}, rsa : Key, conn : Conn \cup {None},
              code : {0, 77, 78}]
    /\ count \in [Event -> Nat]

FirstKeys == [cur |-> 0, prev |-> None, dl |-> 0, rsa |-> 0]

Init ==
    /\ token = [there |-> TRUE, uses |-> 0, expired |-> FALSE]
    /\ agent = None
    /\ blacklist = {}
    /\ stored = 0
    /\ cfg = FirstKeys
    /\ keys = FirstKeys
    /\ lapsed = {}
    /\ nonce = None
    /\ en = [r \in Req |-> IdleEn]
    /\ hs = [c \in Conn |-> Off]
    /\ conn = None
    /\ rk = [k \in Caller |-> IdleRk]
    /\ adm = IdleAdm
    /\ rot = IdleRot
    /\ m = NewMinion
    /\ used = 0
    /\ count = [e \in Event |-> 0]

Spend(e, max) ==
    /\ count[e] < max
    /\ count["renew"] + count["rotate"] + count["admin"] + count["fault"] < MaxEvents
    /\ count' = [count EXCEPT ![e] = @ + 1]
Fault == Spend("fault", MaxFault)
Admin == Spend("admin", MaxAdmin)

\* Names of attempts and connections are reused: it does not matter which free one is taken.
IsFirst(x, free) == free # {} /\ x = CHOOSE y \in free : TRUE

-----------------------------------------------------------------------------
(* The store: one mutation each *)

Revoked == agent # None /\ agent.revoked

\* Mutant: the enrolment starts from an empty record.
EnrolledAnew(jti) ==
    [jti |-> jti, prev |-> 0, revoked |-> FALSE, suspended |-> FALSE, by |-> "enrol"]

\* putEnrolledAgent within EnrollAgent: the suspension outlives the enrolment.
Enrolled(jti) ==
    [jti |-> jti, prev |-> 0, revoked |-> FALSE,
     suspended |-> agent # None /\ agent.suspended, by |-> "enrol"]

\* Mutant: the JTI is replaced without a trace of the old one.
ReplacedForGood(jti) == [agent EXCEPT !.prev = 0, !.jti = jti, !.by = "rekey"]

\* UpdateTokenJTIUnlessRevoked
Renewable == agent # None /\ ~agent.revoked
Replaced(jti) == [agent EXCEPT !.prev = agent.jti, !.jti = jti, !.by = "rekey"]

\* ConfirmTokenJTI
Confirmed == [agent EXCEPT !.prev = 0]

\* RepairRevokedFlags
Repaired == IF agent # None /\ agent.jti \in blacklist THEN [agent EXCEPT !.revoked = TRUE] ELSE agent

-----------------------------------------------------------------------------
(* The minion between two attempts: enrollWithRetry and Dispatcher.Run *)

Stop(code) == [m EXCEPT !.phase = "stopped", !.code = code, !.req = None, !.conn = None]

\* A failed attempt is retried: by the enrolment loop at the first start, by a new dial with the same
\* JWT (and its 401) afterwards.
EnrolFailed == [m EXCEPT !.phase = IF m.first THEN "enrol" ELSE "dial", !.req = None]

Boot ==
    /\ m.phase = "boot"
    /\ m' = IF m.disk # NoTok
              THEN [m EXCEPT !.phase = "dial", !.mem = m.disk, !.first = FALSE]
              ELSE [m EXCEPT !.phase = "enrol", !.first = TRUE]
    /\ UNCHANGED <<state, secrets, server, used, count>>

\* handleUnauthorized removes token.jwt and enrols again.
ReEnrol == [m EXCEPT !.tries = 0, !.disk = NoTok, !.phase = "enrol", !.first = FALSE]

\* Mutant: a refused JWT is kept for ever.
UnauthorizedKeepsJWT == [m EXCEPT !.tries = 0]

\* A 401: MaxRetry more handshakes with the same JWT, unless it comes from a re-enrolment.
Unauthorized ==
    IF ~m.fresh /\ m.tries < MaxRetry THEN [m EXCEPT !.tries = @ + 1] ELSE ReEnrol

-----------------------------------------------------------------------------
(* Enrolment *)

\* validateEnrollmentToken, then the check of the revocation
TokenValid == token.there /\ ~token.expired /\ (Reusable \/ token.uses = 0)
Admissible == TokenValid /\ ~Revoked

\* enrollStep1: the minion keeps the public key it will answer with.
Challenged(r) == [m EXCEPT !.phase = "challenged", !.req = r, !.rsa = keys.rsa]

\* Request 1 and its answer.
Challenge(r) ==
    /\ m.phase = "enrol"
    /\ IsFirst(r, {x \in Req : en[x] = IdleEn})
    /\ IF Admissible
         THEN /\ nonce' = r
              /\ m' = Challenged(r)
         ELSE nonce' = nonce /\ m' = Stop(78)
    /\ UNCHANGED <<state, secrets, en, hs, conn, rk, adm, rot, used, count>>

\* Request 2 arrives: it is validated like the first, then the secrets are read.
Verify ==
    /\ m.phase = "challenged"
    /\ IF Admissible
         THEN /\ en' = [en EXCEPT ![m.req] = [step |-> "verified", key |-> keys.cur, ok |-> m.rsa = keys.rsa]]
              /\ m' = [m EXCEPT !.phase = "step2"]
         ELSE en' = en /\ m' = Stop(78)
    /\ UNCHANGED <<state, secrets, nonce, hs, conn, rk, adm, rot, used, count>>

Waiting(r) == m.phase = "step2" /\ m.req = r

\* consumePendingNonce: one nonce per host, the last one issued.
NonceOf(r) == nonce = r

\* The nonce is consumed, then come the decryption and the comparison: every failure is a 403.
Consume(r) ==
    /\ en[r].step = "verified"
    /\ nonce' = None
    /\ IF NonceOf(r) /\ en[r].ok
         THEN en' = [en EXCEPT ![r].step = "consumed"] /\ m' = m
         ELSE /\ en' = [en EXCEPT ![r] = IdleEn]
              /\ m' = IF Waiting(r) THEN Stop(78) ELSE m
    /\ UNCHANGED <<state, secrets, hs, conn, rk, adm, rot, used, count>>

EnrolEnds(r) == en[r].step = "consumed" /\ en' = [en EXCEPT ![r] = IdleEn]
UnchangedByEnrol == UNCHANGED <<secrets, nonce, hs, conn, rk, adm, rot, used>>

\* enrollStep2: the token is decrypted and persisted.
Adopted(jwt) ==
    [m EXCEPT !.phase = "dial", !.mem = jwt, !.disk = jwt, !.fresh = ~m.first, !.first = FALSE, !.req = None]

\* EnrollAgent, one mutation, and its answer: the token arrives and is persisted, or the minion is
\* gone or fails to write it.
EnrollAgent(r) ==
    LET jwt == [jti |-> stored + 1, key |-> en[r].key] IN
    /\ EnrolEnds(r)
    /\ token.there /\ ~Revoked
    /\ token' = [token EXCEPT !.uses = @ + 1]
    /\ stored' = stored + 1
    /\ agent' = Enrolled(stored + 1)
    /\ \/ Waiting(r) /\ m' = Adopted(jwt) /\ count' = count
       \/ Waiting(r) /\ m' = EnrolFailed /\ Fault
       \/ ~Waiting(r) /\ UNCHANGED <<m, count>>
    /\ UNCHANGED blacklist
    /\ UnchangedByEnrol

\* The host was revoked meanwhile (403); the token is gone or the write fails (500).
EnrolRefused(r) ==
    /\ EnrolEnds(r)
    /\ \/ token.there /\ Revoked /\ count' = count /\ m' = IF Waiting(r) THEN Stop(78) ELSE m
       \/ ~token.there /\ count' = count /\ m' = IF Waiting(r) THEN EnrolFailed ELSE m
       \/ Fault /\ m' = IF Waiting(r) THEN EnrolFailed ELSE m
    /\ UNCHANGED state
    /\ UnchangedByEnrol

\* A request times out or the connection is cut; the handler, if any, goes on alone.
GiveUp ==
    /\ m.phase \in {"challenged", "step2"}
    /\ IF m.phase = "step2" /\ en[m.req] = IdleEn THEN count' = count ELSE Fault
    /\ m' = EnrolFailed
    /\ UNCHANGED <<state, secrets, server, used>>

\* The nonce of an attempt that was given up expires (its lifetime covers the two requests).
NonceExpires ==
    /\ nonce # None /\ nonce # m.req
    /\ nonce' = None
    /\ UNCHANGED <<state, secrets, en, hs, conn, rk, adm, rot, m, used, count>>

-----------------------------------------------------------------------------
(* The handshake of /ws/agent *)

\* validateJWTDualKey
UsesPrevious(tok) ==
    tok.key # keys.cur /\ tok.key = keys.prev /\ keys.dl # 0 /\ keys.dl \notin lapsed
Signed(tok) == tok.key = keys.cur \/ UsesPrevious(tok)

\* The keepalive: no pong before the read deadline, or a closed socket.
Silent(c) == hs[c].sock # "up"

\* ProbeConnection: a live connection is kept, a dead one may still look alive.
ProbeSaysDead == conn # None /\ Silent(conn)

\* agentJTICheck: the current JTI, or the one it replaced while no connection lives.
Known(tok) == agent # None /\ ~agent.revoked /\ tok.jti \notin blacklist
IsCurrent(tok) == Known(tok) /\ agent.jti = tok.jti
IsReplaced(tok) == Known(tok) /\ agent.jti # tok.jti /\ agent.prev = tok.jti /\ agent.prev # 0

Usable(c) == hs[c].step = "ended" /\ rk[c].step \in {"idle", "off"} /\ m.conn # c

\* The handshake is refused (401).
Refused ==
    /\ m.phase = "dial"
    /\ \/ ~Signed(m.mem)
       \/ ~IsCurrent(m.mem) /\ ~IsReplaced(m.mem)
       \/ IsReplaced(m.mem) /\ conn # None
    /\ m' = Unauthorized
    /\ UNCHANGED <<state, secrets, server, used, count>>

\* The check passes: a handshake with the current JTI forgets the one it replaced (ConfirmTokenJTI);
\* a connection that does not answer the probe is closed.
Accepted(c) ==
    /\ m.phase = "dial" /\ IsFirst(c, {d \in Conn : Usable(d)})
    /\ Signed(m.mem)
    /\ IsCurrent(m.mem) \/ (IsReplaced(m.mem) /\ (conn = None \/ ProbeSaysDead))
    /\ agent' = IF IsCurrent(m.mem) THEN Confirmed ELSE agent
    /\ hs' = [d \in Conn |->
                IF d = c THEN [Off EXCEPT !.step = "checked", !.jti = m.mem.jti, !.old = UsesPrevious(m.mem)]
                ELSE IF d = conn /\ IsReplaced(m.mem) THEN [hs[d] EXCEPT !.sock = "closed"] ELSE hs[d]]
    /\ rk' = [rk EXCEPT ![c] = IdleRk]
    /\ m' = [m EXCEPT !.phase = "dialing", !.conn = c]
    /\ used' = IF m.mem.jti > used THEN m.mem.jti ELSE used
    /\ UNCHANGED <<token, blacklist, stored, secrets, nonce, en, conn, adm, rot, count>>

\* The upgrade, then RegisterConnection: the connection it replaces is closed.
Register(c) ==
    LET waited == m.phase = "dialing" /\ m.conn = c IN
    /\ hs[c].step = "checked"
    /\ conn' = c
    /\ hs' = [d \in Conn |->
                IF d = c THEN [hs[c] EXCEPT !.step = "registered", !.sock = IF waited THEN "up" ELSE "half"]
                ELSE IF d = conn THEN [hs[d] EXCEPT !.sock = "closed"] ELSE hs[d]]
    /\ m' = IF waited THEN [m EXCEPT !.phase = "online", !.fresh = FALSE, !.tries = 0] ELSE m
    /\ UNCHANGED <<state, secrets, nonce, en, rk, adm, rot, used, count>>

\* The minion gives the dial up; the upgrade then fails, or succeeds on a dead socket.
DialCut ==
    /\ m.phase = "dialing"
    /\ Fault
    /\ m' = [m EXCEPT !.phase = "dial", !.conn = None]
    /\ UNCHANGED <<state, secrets, server, used>>

UpgradeFails(c) ==
    /\ hs[c].step = "checked" /\ m.conn # c
    /\ hs' = [hs EXCEPT ![c] = Off]
    /\ UNCHANGED <<state, secrets, nonce, en, conn, rk, adm, rot, m, used, count>>

\* The handler ends; the close frame reaches a live link only.
Closed(c, code) ==
    IF m.conn # c THEN Off
    ELSE [hs[c] EXCEPT !.step = "ended", !.sock = "closed", !.code = IF hs[c].sock = "half" THEN 0 ELSE code]

\* unregisterIfCurrent
Unregistered(c) == IF conn = c THEN None ELSE conn

\* Mutant: no replay.
ReplaySkipped(jti) == FALSE

\* replayRevokedCheck
Dead(jti) == jti \in blacklist \/ agent = None \/ agent.revoked

\* The replay of the revocation check once the connection is registered; a handshake signed with the
\* previous secret is answered by a rekey, and the renewal loop starts.
Replay(c) ==
    /\ hs[c].step = "registered"
    /\ IF Dead(hs[c].jti)
         THEN /\ hs' = [hs EXCEPT ![c] = Closed(c, 4001)]
              /\ conn' = Unregistered(c)
              /\ rk' = rk
         ELSE /\ hs' = [hs EXCEPT ![c].step = "open"]
              /\ conn' = conn
              /\ rk' = [rk EXCEPT ![c].step = IF hs[c].old THEN "due" ELSE "idle"]
    /\ UNCHANGED <<state, secrets, nonce, en, adm, rot, m, used, count>>

\* The read loop ends: read deadline, reset, or a socket closed by this node.
ReaderEnds(c) ==
    /\ hs[c].step = "open" /\ Silent(c)
    /\ hs' = [hs EXCEPT ![c] = Closed(c, hs[c].code)]
    /\ conn' = Unregistered(c)
    /\ UNCHANGED <<state, secrets, nonce, en, rk, adm, rot, m, used, count>>

-----------------------------------------------------------------------------
(* The link seen by the minion *)

\* The minion leaves its connection; the record of a handler that ended is free again.
Left(c) == IF hs[c].step = "ended" THEN Off
           ELSE [hs[c] EXCEPT !.sock = IF @ = "up" THEN "half" ELSE @]

\* The read fails: the code of a close frame, when it arrives, decides.
MinionNotices ==
    LET c == m.conn IN
    /\ m.phase = "online" /\ hs[c].sock # "up"
    /\ \/ /\ hs[c].code = 4001 /\ hs[c].queue = <<>>
          /\ m' = Stop(77) /\ count' = count
       \/ /\ IF hs[c].code = 4001 THEN Fault ELSE count' = count
          /\ m' = [m EXCEPT !.phase = "dial", !.conn = None]
    /\ hs' = [hs EXCEPT ![c] = Left(c)]
    /\ UNCHANGED <<state, secrets, nonce, en, conn, rk, adm, rot, used>>

\* The dial ends without an answer once the handler is gone.
DialLost ==
    /\ m.phase = "dialing" /\ hs[m.conn].step = "ended"
    /\ m' = [m EXCEPT !.phase = "dial", !.conn = None]
    /\ hs' = [hs EXCEPT ![m.conn] = Off]
    /\ UNCHANGED <<state, secrets, nonce, en, conn, rk, adm, rot, used, count>>

\* The network drops the link; both ends find out later.
Cut(c) ==
    /\ hs[c].sock = "up"
    /\ Fault
    /\ hs' = [hs EXCEPT ![c].sock = "half", ![c].queue = <<>>]
    /\ UNCHANGED <<state, secrets, nonce, en, conn, rk, adm, rot, m, used>>

\* The minion dies and restarts with what is in token.jwt.
MinionCrash ==
    /\ m.phase \notin {"boot", "stopped"}
    /\ Fault
    /\ m' = [NewMinion EXCEPT !.disk = m.disk]
    /\ hs' = IF m.conn = None THEN hs ELSE [hs EXCEPT ![m.conn] = Left(m.conn)]
    /\ UNCHANGED <<state, secrets, nonce, en, conn, rk, adm, rot, used>>

\* DecryptAndSaveToken
Saved(tok) == [m EXCEPT !.mem = tok, !.disk = tok, !.pend = FALSE]

\* handleRekey: a token that cannot be persisted is adopted in memory, and its write is retried.
HandleRekey ==
    LET c == m.conn  new == Head(hs[c].queue) IN
    /\ m.phase = "online" /\ hs[c].queue # <<>>
    /\ hs' = [hs EXCEPT ![c].queue = Tail(@)]
    /\ \/ m' = Saved(new) /\ count' = count
       \/ m' = [m EXCEPT !.mem = new, !.pend = TRUE] /\ Fault
    /\ UNCHANGED <<state, secrets, nonce, en, conn, rk, adm, rot, used>>

PersistRetry ==
    /\ m.phase = "online" /\ m.pend
    /\ m' = Saved(m.mem)
    /\ UNCHANGED <<state, secrets, server, used, count>>

-----------------------------------------------------------------------------
(* issueRekey, called by the renewal loop of a connection, by a handshake  *)
(* with the previous secret and by the rotation                            *)

UnchangedByRekey == UNCHANGED <<token, blacklist, secrets, nonce, en, conn, adm, rot, m, used>>

\* A JWT of the current secret; its JTI is numbered when it is stored.
signAgentJWT == [jti |-> 0, key |-> keys.cur]

\* Mutant: the loop ends at the first renewal.
BeganNone(k) == [IdleRk EXCEPT !.step = IF k \in Conn THEN "off" ELSE "idle"]

\* The agent and the secret are read: an agent that is gone or revoked ends the loop.
Began(k) ==
    IF Renewable THEN [step |-> "signed", tok |-> signAgentJWT]
    ELSE [IdleRk EXCEPT !.step = IF k \in Conn THEN "off" ELSE "idle"]

\* An old token on a live link is always renewed; other renewals are bounded.
OldTokenOn(c) ==
    /\ m.phase = "online" /\ m.conn = c /\ conn = c
    /\ hs[c].sock = "up" /\ hs[c].queue = <<>> /\ m.mem.key # keys.cur

RenewalDue(c) ==
    /\ hs[c].step = "open" /\ rk[c].step = "idle"
    /\ IF OldTokenOn(c) THEN count' = count ELSE Spend("renew", MaxRenew)
    /\ rk' = [rk EXCEPT ![c] = Began(c)]
    /\ UNCHANGED <<agent, stored, hs>>
    /\ UnchangedByRekey

BeginRekey(k) ==
    /\ rk[k].step = "due"
    /\ rk' = [rk EXCEPT ![k] = Began(k)]
    /\ UNCHANGED <<agent, stored, hs, count>>
    /\ UnchangedByRekey

\* The JTI is replaced before the token is sent.
StoreRekey(k) ==
    /\ rk[k].step = "signed"
    /\ \/ /\ Renewable
          /\ agent' = Replaced(stored + 1)
          /\ stored' = stored + 1
          /\ rk' = [rk EXCEPT ![k].step = "stored", ![k].tok.jti = stored + 1]
          /\ count' = count
       \/ /\ ~Renewable
          /\ rk' = [rk EXCEPT ![k] = [IdleRk EXCEPT !.step = IF k \in Conn THEN "off" ELSE "idle"]]
          /\ UNCHANGED <<agent, stored, count>>
       \/ Fault /\ rk' = [rk EXCEPT ![k] = IdleRk] /\ UNCHANGED <<agent, stored>>
    /\ UNCHANGED hs
    /\ UnchangedByRekey

\* SendToAgent to the connection registered now; on a dead link the frame is lost.
SendRekey(k) ==
    /\ rk[k].step = "stored"
    /\ rk' = [rk EXCEPT ![k] = IdleRk]
    /\ hs' = IF conn # None /\ hs[conn].sock = "up"
               THEN [hs EXCEPT ![conn].queue = Append(@, rk[k].tok)] ELSE hs
    /\ UNCHANGED <<agent, stored, count>>
    /\ UnchangedByRekey

-----------------------------------------------------------------------------
(* Administration *)

UnchangedByAdmin == UNCHANGED <<token, stored, secrets, nonce, en, rk, rot, m, used>>

\* CloseAgent: the close frame reaches a live link only.
CloseAgent(code) ==
    /\ conn' = None
    /\ hs' = IF conn = None THEN hs
             ELSE [hs EXCEPT ![conn].code = IF hs[conn].sock = "up" THEN code ELSE 0, ![conn].sock = "closed"]

AdmStep(s) == adm' = [adm EXCEPT !.step = s]
AdmEnds == adm' = IdleAdm

\* AdminRevokeMinion and AdminDeleteMinion read the agent first.
ReadAgent(op) ==
    /\ adm = IdleAdm /\ agent # None
    /\ Admin
    /\ adm' = [step |-> "revoke", op |-> op, jti |-> agent.jti, prev |-> agent.prev]
    /\ UNCHANGED <<agent, blacklist, hs, conn>>
    /\ UnchangedByAdmin

AfterRevoke == IF adm.op = "revoke" THEN "close" ELSE IF adm.prev # 0 THEN "prev" ELSE "delete"

\* RevokeAgent: the flag and the blacklist entry of the JTI read before, in one mutation.
RevokeAgent ==
    /\ adm.step = "revoke"
    /\ \/ /\ agent # None
          /\ agent' = [agent EXCEPT !.revoked = TRUE]
          /\ blacklist' = blacklist \cup {adm.jti}
          /\ AdmStep(AfterRevoke)
          /\ count' = count
       \/ Fault /\ AdmEnds /\ UNCHANGED <<agent, blacklist>>
    /\ UNCHANGED <<hs, conn>>
    /\ UnchangedByAdmin

BlacklistPrev ==
    /\ adm.step = "prev"
    /\ \/ blacklist' = blacklist \cup {adm.prev} /\ AdmStep("delete") /\ count' = count
       \/ Fault /\ AdmStep("failed") /\ UNCHANGED blacklist
    /\ UNCHANGED <<agent, hs, conn>>
    /\ UnchangedByAdmin

DeleteAgent ==
    /\ adm.step = "delete"
    /\ \/ agent # None /\ agent' = None /\ AdmStep("close") /\ count' = count
       \/ Fault /\ AdmStep("failed") /\ UNCHANGED agent
    /\ UNCHANGED <<blacklist, hs, conn>>
    /\ UnchangedByAdmin

\* The link is closed last: 4001 after a revocation or a failed deletion, 4000 after a deletion, which
\* closes once more the connection that arrived meanwhile.
CloseLink ==
    /\ adm.step \in {"close", "again", "failed"}
    /\ CloseAgent(IF adm.op = "delete" /\ adm.step # "failed" THEN 4000 ELSE 4001)
    /\ IF adm.op = "delete" /\ adm.step = "close" THEN AdmStep("again") ELSE AdmEnds
    /\ UNCHANGED <<agent, blacklist, count>>
    /\ UnchangedByAdmin

Suspended(b) == [agent EXCEPT !.suspended = b]

\* AdminSuspendMinion, AdminResumeMinion
SetSuspended(b) ==
    /\ agent # None /\ agent.suspended # b
    /\ Admin
    /\ agent' = Suspended(b)
    /\ UNCHANGED <<token, blacklist, stored, secrets, server, m, used>>

UnchangedByToken == UNCHANGED <<agent, blacklist, stored, secrets, server, m, used>>

TokenExpires ==
    /\ token.there /\ ~token.expired
    /\ Admin
    /\ token' = [token EXCEPT !.expired = TRUE]
    /\ UnchangedByToken

\* AdminDeleteToken
DeleteToken ==
    /\ token.there
    /\ Admin
    /\ token' = [token EXCEPT !.there = FALSE]
    /\ UnchangedByToken

\* purgeEnrollmentTokens: the expired tokens, the one-shot tokens that were used.
PurgeTokens ==
    /\ token.there
    /\ token.expired \/ (~Reusable /\ token.uses > 0)
    /\ token' = [token EXCEPT !.there = FALSE]
    /\ UnchangedByToken /\ UNCHANGED count

\* purgeBlacklist, 25 hours after the revocation: no token or handler of that age is left.
PurgeBlacklist ==
    LET old == {j \in blacklist : m.mem.jti # j /\ m.disk.jti # j /\ \A c \in Conn : hs[c].jti # j} IN
    /\ adm = IdleAdm /\ old # {}
    /\ Admin
    /\ blacklist' = blacklist \ old
    /\ UNCHANGED <<token, agent, stored, secrets, server, m, used>>

-----------------------------------------------------------------------------
(* AdminRotateKeys: memory first, then one write per value, then the rekey *)

Rotate ==
    LET n == count["rotate"] + 1 IN
    /\ rot = IdleRot /\ rk["rot"] = IdleRk
    /\ Spend("rotate", MaxRotate)
    /\ keys' = [cur |-> n, prev |-> keys.cur, dl |-> n, rsa |-> n]
    /\ rot' = [step |-> 1, old |-> keys.cur]
    /\ UNCHANGED <<state, cfg, lapsed, nonce, en, hs, conn, rk, adm, m, used>>

Persisted(step) ==
    CASE step = 1 -> [cfg EXCEPT !.prev = rot.old]
      [] step = 2 -> [cfg EXCEPT !.cur = keys.cur]
      [] step = 3 -> [cfg EXCEPT !.dl = keys.dl]
      [] step = 4 -> [cfg EXCEPT !.rsa = keys.rsa]

\* A failed write is only logged.
PersistKeys ==
    /\ rot.step \in 1..4
    /\ rot' = [rot EXCEPT !.step = @ + 1]
    /\ \/ cfg' = Persisted(rot.step) /\ count' = count
       \/ cfg' = cfg /\ Fault
    /\ UNCHANGED <<state, keys, lapsed, nonce, en, hs, conn, rk, adm, m, used>>

RekeyConnected ==
    /\ rot.step = 5
    /\ rot' = IdleRot
    /\ rk' = IF conn = None THEN rk ELSE [rk EXCEPT !["rot"].step = "due"]
    /\ UNCHANGED <<state, secrets, nonce, en, hs, conn, adm, m, used, count>>

GraceEnds ==
    /\ keys.dl \notin lapsed \cup {0}
    /\ lapsed' = lapsed \cup {keys.dl}
    /\ UNCHANGED <<state, cfg, keys, server, m, used, count>>

-----------------------------------------------------------------------------
\* The server stops and starts again, here or on the other instance: InitServerState loads what was
\* persisted, RepairRevokedFlags flags an agent whose current JTI is blacklisted.
Restart ==
    /\ Fault
    /\ keys' = cfg
    /\ nonce' = None
    /\ en' = [r \in Req |-> IdleEn]
    /\ hs' = [c \in Conn |-> Off]
    /\ conn' = None
    /\ rk' = [k \in Caller |-> IdleRk]
    /\ adm' = IdleAdm
    /\ rot' = IdleRot
    /\ agent' = Repaired
    /\ UNCHANGED <<token, blacklist, stored, cfg, lapsed, m, used>>

-----------------------------------------------------------------------------
(* Specification *)

MinionStep ==
    \/ Boot \/ Verify \/ Refused \/ MinionNotices \/ DialLost \/ HandleRekey \/ PersistRetry
    \/ \E r \in Req : Challenge(r)
    \/ \E c \in Conn : Accepted(c)

\* What the handlers do once they are called; the renewal loop visits every connection.
Handlers ==
    \/ \E r \in Req : Consume(r) \/ EnrollAgent(r) \/ EnrolRefused(r)
    \/ \E c \in Conn : Register(c) \/ Replay(c) \/ ReaderEnds(c) \/ (OldTokenOn(c) /\ RenewalDue(c))
    \/ \E k \in Caller : BeginRekey(k) \/ StoreRekey(k) \/ SendRekey(k)
    \/ RevokeAgent \/ BlacklistPrev \/ DeleteAgent \/ CloseLink
    \/ PersistKeys \/ RekeyConnected

ServerStep == Handlers \/ \E c \in Conn : UpgradeFails(c) \/ RenewalDue(c)

Environment ==
    \/ GiveUp \/ NonceExpires \/ DialCut \/ MinionCrash \/ Restart \/ GraceEnds
    \/ \E c \in Conn : Cut(c)
    \/ \E op \in {"revoke", "delete"} : ReadAgent(op)
    \/ \E b \in BOOLEAN : SetSuspended(b)
    \/ TokenExpires \/ DeleteToken \/ PurgeTokens \/ PurgeBlacklist \/ Rotate

Next == MinionStep \/ ServerStep \/ Environment

\* The handlers and loops of both processes run; nothing forces a fault, an administrator or a new
\* renewal of a current token.
Fairness ==
    /\ WF_vars(MinionStep)
    /\ WF_vars(GiveUp)
    /\ WF_vars(Handlers)

Spec == Init /\ [][Next]_vars
FairSpec == Spec /\ Fairness

-----------------------------------------------------------------------------
(* Properties *)

\* A revoked or deleted host has no link: once the handler that decided it has closed, whatever
\* handshake, renewal or registration raced it, no handler past the replay keeps a live connection.
RevokedHasNoLink ==
    (adm = IdleAdm /\ (agent = None \/ agent.revoked)) =>
        \A c \in Conn : hs[c].step = "open" => hs[c].sock = "closed"

\* Only the administrator undoes what the administrator decided: no enrolment, renewal, rotation or
\* restart lifts a revocation, gives a revoked host a new JTI or lifts a suspension.
AdminDecisionsKept ==
    [][agent # None =>
         /\ agent.revoked => agent' = None \/ (agent'.revoked /\ agent'.jti = agent.jti)
         /\ agent.suspended => agent' = None \/ agent'.suspended \/ SetSuspended(FALSE)]_vars

\* A lost rekey costs nothing: the minion whose token is the one the last rekey replaced, and that
\* never used the new one, still holds a JTI the handshake knows.
LostRekeyTolerated ==
    /\ agent # None /\ agent.by = "rekey"
    /\ m.mem.jti = agent.jti - 1 /\ used < agent.jti
    => agent.prev = m.mem.jti

\* The minion ends online or stopped for good: no order of losses, restarts and refusals keeps it
\* cycling between handshakes and enrolments.
Settles == <>[](m.phase \in {"online", "stopped"})

\* A rotation reaches the minion: in the end the one that stays online holds a JWT of the current secret.
OldKeyReplaced == <>[](m.phase = "online" => m.mem.key = keys.cur)
=============================================================================
