-------------------------- MODULE LinkTrustProofs ---------------------------
(***************************************************************************)
(* For any tree of relays and any number of keys and events: what a node   *)
(* remembers of a relay's confirmations is true, and a relay follows the   *)
(* keys of the root one at a time.                                         *)
(*                                                                         *)
(* The invariant orders the keys from the root down: every link_keys frame *)
(* on a link, waiting to be written or kept for a later child names a key  *)
(* the root has had, as the successor of its previous one; a relay trusts  *)
(* no key beyond the root's, and no node reports for a relay a key beyond  *)
(* the one the relay has saved.                                            *)
(***************************************************************************)
EXTENDS LinkTrust, SequenceTheorems, TLAPS

\* The frames of a root that has had k keys.
Good(k) ==
    {f \in [type : {"ack", "keys", "revs", "close"}, cur : Nat, prev : Nat, sig : Nat, seq : Nat, ents : SUBSET Token] :
        f.type = "keys" => (f.cur \in 1..k /\ f.prev \in {None, f.cur - 1})}

RootInv ==
    /\ root \in [cur : Nat, prev : Nat, seq : Nat, rot : Nat]
    /\ root.cur >= 1 /\ root.prev \in {None, root.cur - 1}
    /\ revoked \subseteq Token

TrustInv ==
    /\ trust \in [Relay -> [cur : Nat, prev : Nat, seq : Nat]]
    /\ \A r \in Relay : trust[r].cur \in 1..root.cur

\* No node remembers of a relay a key it has not reached.
RepInv ==
    /\ rep \in [Node -> [Relay -> Nat]]
    /\ \A n \in Node, r \in Relay : rep[n][r] <= trust[r].cur

MemInv(k) == mem \in [Relay -> [keys : Good(k), revs : Seq(Good(k))]]
LinkInv(k) == out \in [Relay -> Seq(Good(k))] /\ chan \in [Relay -> Seq(Good(k))]
FrameInv == MemInv(root.cur) /\ LinkInv(root.cur)

BlackInv == black = [n \in Node |-> black[n]]

KeyInv == RootInv /\ TrustInv /\ RepInv /\ FrameInv /\ BlackInv

-----------------------------------------------------------------------------
(* Numbers *)

LEMMA Between == \A a, b, c \in Nat : a <= b /\ b <= c /\ a = c => b = c
OBVIOUS

LEMMA Succ == \A a, b, k : a \in Nat /\ k \in Nat /\ b \in {a, a + 1} /\ b \in 1..k => b >= a /\ b <= k /\ b <= b
OBVIOUS

LEMMA Above == \A a, b \in Nat : a <= b => b >= a /\ b <= b /\ 0 <= b
OBVIOUS

-----------------------------------------------------------------------------
(* Frames *)

LEMMA GoodFields ==
  ASSUME NEW k \in Nat, NEW f \in Good(k)
  PROVE  /\ f.cur \in Nat /\ f.prev \in Nat /\ f.sig \in Nat /\ f.seq \in Nat /\ f.ents \subseteq Token
         /\ f.type = "keys" => (f.cur \in 1..k /\ f.prev \in {None, f.cur - 1})
BY DEF Good

LEMMA PlainGood ==
  ASSUME NEW k \in Nat, NEW t \in {"ack", "close"}
  PROVE  Plain(t) \in Good(k)
BY DEF Good, Plain, None

LEMMA NoFrameGood == ASSUME NEW k \in Nat PROVE NoFrame \in Good(k)
BY PlainGood DEF NoFrame

LEMMA KeysGood ==
  ASSUME NEW k \in Nat, NEW s \in Nat, NEW c \in 1..k, NEW p \in {None, c - 1}, NEW q \in Nat
  PROVE  SignLinkKeys(s, c, p, q) \in Good(k)
BY DEF Good, SignLinkKeys, None

LEMMA RevsGood ==
  ASSUME NEW k \in Nat, NEW s \in Nat, NEW q \in Nat, NEW e \in SUBSET Token
  PROVE  SignLinkRevocations(s, q, e) \in Good(k)
BY DEF Good, SignLinkRevocations, None

\* A new key of the root makes no frame wrong.
LEMMA GoodGrows ==
  ASSUME NEW k \in Nat
  PROVE  /\ Good(k) \subseteq Good(k + 1)
         /\ Seq(Good(k)) \subseteq Seq(Good(k + 1))
<1>1. ASSUME NEW f \in Good(k) PROVE f \in Good(k + 1)
  BY <1>1 DEF Good
<1>2. ASSUME NEW s \in Seq(Good(k)) PROVE s \in Seq(Good(k + 1))
  BY <1>1, <1>2, SeqMonotonic
<1> QED BY <1>1, <1>2

\* Broadcasts and closes put good frames on the links.
LEMMA BroadcastGood ==
  ASSUME NEW S, NEW ch \in [Relay -> Seq(S)], NEW f \in S, NEW n
  PROVE  BroadcastLinkFrame(ch, n, f) \in [Relay -> Seq(S)]
<1>1. ASSUME NEW c \in Relay PROVE Append(ch[c], f) \in Seq(S)
  BY AppendProperties
<1> QED BY <1>1 DEF BroadcastLinkFrame

LEMMA CloseGood ==
  ASSUME NEW k \in Nat, NEW ch \in [Relay -> Seq(Good(k))], NEW cs
  PROVE  CloseRelays(ch, cs) \in [Relay -> Seq(Good(k))]
<1>1. ASSUME NEW c \in Relay PROVE Append(ch[c], Plain("close")) \in Seq(Good(k))
  BY AppendProperties, PlainGood
<1> QED BY <1>1 DEF CloseRelays

LEMMA ClosedGood ==
  ASSUME NEW S, NEW cs, out \in [Relay -> Seq(S)], Closed(cs)
  PROVE  out' \in [Relay -> Seq(S)]
<1>1. <<>> \in Seq(S)
  BY EmptySeq
<1> QED BY <1>1 DEF Closed

LEMMA LostGood ==
  ASSUME NEW k \in Nat, NEW cs, LinkInv(k), Lost(cs)
  PROVE  LinkInv(k)'
<1>1. <<>> \in Seq(Good(k))
  BY EmptySeq
<1>2. out' \in [Relay -> Seq(Good(k))]
  BY <1>1 DEF Lost, LinkInv
<1>3. chan' \in [Relay -> Seq(Good(k))]
  BY <1>1 DEF Lost, LinkInv
<1> QED BY <1>2, <1>3 DEF LinkInv

\* The frame read, and what is left on the link.
LEMMA ReadGood ==
  ASSUME NEW k \in Nat, LinkInv(k), NEW r \in Relay, chan[r] # <<>>
  PROVE  /\ Head(chan[r]) \in Good(k)
         /\ Rest(r) \in [Relay -> Seq(Good(k))]
<1>0. chan \in [Relay -> Seq(Good(k))] /\ chan[r] \in Seq(Good(k))
  BY DEF LinkInv
<1>1. Head(chan[r]) \in Good(k) /\ Tail(chan[r]) \in Seq(Good(k))
  BY <1>0, HeadTailProperties
<1> QED BY <1>0, <1>1 DEF Rest

\* What a new link is sent (SyncFrames at the root, Replay elsewhere).
LEMMA SyncGood ==
  ASSUME RootInv, MemInv(root.cur), NEW n \in Node
  PROVE  LinkFramesForNewLink(n) \in Seq(Good(root.cur))
<1> DEFINE S == Good(root.cur)
<1>0. /\ root.cur \in Nat /\ root.prev \in Nat /\ root.seq \in Nat /\ root.rot \in Nat
      /\ root.cur \in 1..root.cur /\ revoked \in SUBSET Token /\ root.prev \in {None, root.cur - 1}
  BY DEF RootInv
<1>1. SyncFrames \in Seq(S)
  <2>1. SignLinkKeys(root.prev, root.cur, root.prev, root.rot) \in S
    BY <1>0, KeysGood
  <2>2. SignLinkRevocations(root.cur, root.seq, revoked) \in S
    BY <1>0, RevsGood
  <2> HIDE DEF S
  <2>3. <<>> \in Seq(S) /\ <<SignLinkKeys(root.prev, root.cur, root.prev, root.rot)>> \in Seq(S)
        /\ <<SignLinkRevocations(root.cur, root.seq, revoked)>> \in Seq(S)
    BY <2>1, <2>2
  <2> QED BY <2>3, ConcatProperties DEF SyncFrames
<1>2. ASSUME n \in Relay PROVE Replay(n) \in Seq(S)
  <2>1. mem[n].keys \in S /\ mem[n].revs \in Seq(S)
    BY <1>2 DEF MemInv
  <2> HIDE DEF S
  <2>2. <<>> \in Seq(S) /\ <<mem[n].keys>> \in Seq(S)
    BY <2>1
  <2> QED BY <2>1, <2>2, ConcatProperties DEF Replay
<1> QED BY <1>1, <1>2 DEF LinkFramesForNewLink, Node

LEMMA KeptRevsGood ==
  ASSUME NEW S, NEW revs \in Seq(S), NEW f \in S
  PROVE  KeptRevs(revs, f) \in Seq(S)
<1>1. CASE Len(revs) >= MaxReplay
  <2> DEFINE m == Len(revs) - MaxReplay + 2
  <2>1. Len(revs) \in Nat /\ MaxReplay \in Nat \ {0} /\ m \in Int
    BY LenProperties, TreeAssumption
  <2>2. \A i \in m..Len(revs) : revs[i] \in S
    BY <1>1, <2>1, ElementOfSeq
  <2> HIDE DEF m
  <2>3. SubSeq(revs, m, Len(revs)) \in Seq(S)
    BY <2>1, <2>2, SubSeqProperties
  <2>4. Append(SubSeq(revs, m, Len(revs)), f) \in Seq(S)
    BY <2>3, AppendProperties
  <2> QED BY <1>1, <2>4 DEF KeptRevs, m
<1>2. CASE ~(Len(revs) >= MaxReplay)
  BY <1>2, AppendProperties DEF KeptRevs
<1> QED BY <1>1, <1>2

-----------------------------------------------------------------------------
(* The actions *)

\* What ChainFollowed says of a step, and that even a reset takes a relay to no older key.
Chained ==
    \A r \in Relay :
        /\ black[r] \subseteq black'[r] /\ trust'[r].cur >= trust[r].cur
        /\ run[r] = "halted" \/ (trust'[r].cur \in {trust[r].cur, trust[r].cur + 1} /\ trust'[r].seq >= trust[r].seq)

LEMMA Nodes == Relay \subseteq Node /\ Root \in Node /\ \A r \in Relay : Parent[r] \in Node
BY TreeAssumption DEF Node

LEMMA InitHolds == Init => KeyInv
<1> SUFFICES ASSUME Init PROVE KeyInv
  OBVIOUS
<1>1. RootInv /\ TrustInv /\ RepInv /\ BlackInv
  BY DEF Init, RootInv, TrustInv, RepInv, BlackInv, None
<1>2. root.cur \in Nat
  BY <1>1 DEF RootInv
<1>3. NoFrame \in Good(root.cur) /\ <<>> \in Seq(Good(root.cur))
  BY <1>2, NoFrameGood, EmptySeq
<1>4. MemInv(root.cur) /\ LinkInv(root.cur)
  BY <1>3 DEF Init, MemInv, LinkInv
<1> QED BY <1>1, <1>4 DEF KeyInv, FrameInv

\* A step that leaves the keys of the root and of the relays alone.
LEMMA KeysSame ==
  ASSUME KeyInv, UNCHANGED <<root, revoked, trust>>, RepInv',
         mem' \in [Relay -> [keys : Good(root.cur), revs : Seq(Good(root.cur))]],
         out' \in [Relay -> Seq(Good(root.cur))], chan' \in [Relay -> Seq(Good(root.cur))],
         BlackInv', \A r \in Relay : black[r] \subseteq black'[r]
  PROVE  KeyInv' /\ Chained
<1>1. RootInv' /\ TrustInv'
  BY DEF KeyInv, RootInv, TrustInv
<1>2. FrameInv'
  BY DEF FrameInv, MemInv, LinkInv
<1>3. Chained
  <2>1. \A r \in Relay : trust[r].cur \in Nat /\ trust[r].seq \in Nat
    BY DEF KeyInv, TrustInv
  <2> QED BY <2>1 DEF Chained
<1> QED BY <1>1, <1>2, <1>3 DEF KeyInv

\* The pieces of the invariant as the actions use them.
LEMMA Pieces ==
  ASSUME KeyInv
  PROVE  /\ RootInv /\ TrustInv /\ RepInv /\ MemInv(root.cur) /\ LinkInv(root.cur) /\ BlackInv
         /\ root.cur \in Nat
         /\ mem \in [Relay -> [keys : Good(root.cur), revs : Seq(Good(root.cur))]]
         /\ out \in [Relay -> Seq(Good(root.cur))] /\ chan \in [Relay -> Seq(Good(root.cur))]
         /\ \A r \in Relay : /\ trust[r].cur \in Nat /\ trust[r].seq \in Nat
                              /\ trust[r].cur >= 1 /\ trust[r].cur <= root.cur
BY DEF KeyInv, FrameInv, RootInv, TrustInv, MemInv, LinkInv

\* A report that is not ahead of the relay, and reports forgotten.
LEMMA Reported ==
  ASSUME RepInv, trust' = trust, NEW n \in Node, NEW r \in Relay, NEW v \in Nat, v <= trust[r].cur,
         rep' = [rep EXCEPT ![n][r] = v]
  PROVE  RepInv'
BY DEF RepInv

LEMMA Forgot ==
  ASSUME RepInv, TrustInv, trust' = trust, NEW n \in Node, rep' = Forgotten(n)
  PROVE  RepInv'
<1>1. \A r \in Relay : trust[r].cur \in Nat
  BY DEF TrustInv
<1> QED BY <1>1 DEF RepInv, Forgotten, None

\* A step of the links alone.
LEMMA LinksOnly ==
  ASSUME KeyInv, UNCHANGED <<root, revoked, trust, rep, mem, black>>,
         out' \in [Relay -> Seq(Good(root.cur))], chan' \in [Relay -> Seq(Good(root.cur))]
  PROVE  KeyInv' /\ Chained
<1>1. RepInv' /\ BlackInv'
  BY DEF KeyInv, RepInv, BlackInv
<1>2. mem' \in [Relay -> [keys : Good(root.cur), revs : Seq(Good(root.cur))]]
  BY Pieces
<1> QED BY <1>1, <1>2, KeysSame

LEMMA LostStep ==
  ASSUME KeyInv, UNCHANGED <<root, revoked, trust, rep, mem, black>>, NEW cs, Lost(cs)
  PROVE  KeyInv' /\ Chained
<1>1. LinkInv(root.cur)'
  BY Pieces, LostGood
<1>2. out' \in [Relay -> Seq(Good(root.cur))] /\ chan' \in [Relay -> Seq(Good(root.cur))]
  BY <1>1 DEF LinkInv
<1> QED BY <1>2, LinksOnly

LEMMA RotateStep == ASSUME KeyInv, Rotate PROVE KeyInv' /\ Chained
<1> DEFINE k == root.cur
           f == SignLinkKeys(k, k + 1, k, root.seq + 1)
<1>0. /\ root.cur \in Nat /\ root.cur >= 1 /\ root.seq \in Nat
      /\ root' = [cur |-> k + 1, prev |-> k, seq |-> root.seq + 1, rot |-> root.seq + 1]
  BY DEF KeyInv, RootInv, Rotate, RotateLinkKey
<1>1. RootInv' /\ TrustInv' /\ RepInv' /\ BlackInv' /\ root'.cur = k + 1
  <2>1. RootInv' /\ root'.cur = k + 1
    BY <1>0 DEF RootInv, Rotate, KeyInv
  <2>2. TrustInv'
    BY <1>0 DEF TrustInv, Rotate, KeyInv
  <2>3. RepInv' /\ BlackInv'
    BY DEF RepInv, BlackInv, Rotate, KeyInv
  <2> QED BY <2>1, <2>2, <2>3
<1>2. Good(k) \subseteq Good(k + 1) /\ Seq(Good(k)) \subseteq Seq(Good(k + 1)) /\ f \in Good(k + 1)
  <2>1. k + 1 \in Nat /\ k + 1 \in 1..(k + 1) /\ k \in {None, (k + 1) - 1} /\ root.seq + 1 \in Nat
    BY <1>0
  <2>2. f \in Good(k + 1)
    BY <1>0, <2>1, KeysGood
  <2> QED BY <1>0, <2>2, GoodGrows
<1>3. mem' \in [Relay -> [keys : Good(k + 1), revs : Seq(Good(k + 1))]]
  <2>1. mem' = mem
    BY DEF Rotate
  <2> QED BY <1>2, <2>1, Pieces
<1>4. out' \in [Relay -> Seq(Good(k + 1))]
  BY <1>2, Pieces, Zenon DEF Rotate
<1>5. chan' \in [Relay -> Seq(Good(k + 1))]
  <2>1. chan \in [Relay -> Seq(Good(k + 1))]
    BY <1>2, Pieces
  <2>2. chan' = BroadcastLinkFrame(chan, Root, f)
    BY DEF Rotate
  <2> QED BY <1>2, <2>1, <2>2, BroadcastGood
<1>6. FrameInv'
  BY <1>1, <1>3, <1>4, <1>5 DEF FrameInv, MemInv, LinkInv
<1>7. Chained
  <2>1. trust' = trust /\ black' = black
    BY DEF Rotate
  <2>2. \A r \in Relay : trust[r].cur \in Nat /\ trust[r].seq \in Nat
    BY Pieces, Zenon
  <2> QED BY <2>1, <2>2 DEF Chained
<1> QED BY <1>1, <1>6, <1>7 DEF KeyInv

\* The root's counter alone moves: a retirement or a revocation.
LEMMA RootStep ==
  ASSUME KeyInv, RootInv', root'.cur = root.cur, UNCHANGED <<trust, rep, mem>>,
         out' \in [Relay -> Seq(Good(root.cur))], chan' \in [Relay -> Seq(Good(root.cur))],
         BlackInv', \A r \in Relay : black[r] \subseteq black'[r]
  PROVE  KeyInv' /\ Chained
<1>1. TrustInv' /\ RepInv'
  BY DEF KeyInv, TrustInv, RepInv
<1>2. FrameInv'
  BY Pieces, Zenon DEF FrameInv, MemInv, LinkInv
<1>3. Chained
  BY Pieces DEF Chained
<1> QED BY <1>1, <1>2, <1>3 DEF KeyInv

LEMMA RetireStep == ASSUME KeyInv, NEW q \in Req, RetireCommit(q) PROVE KeyInv' /\ Chained
<1>0. UNCHANGED <<revoked, trust, rep, mem, black, out>>
  BY DEF RetireCommit
<1>1. CASE root.prev = None
  <2>1. UNCHANGED <<root, chan>>
    BY <1>1 DEF RetireCommit
  <2> QED BY <1>0, <2>1, LinksOnly, Pieces, Zenon
<1>2. CASE root.prev # None
  <2> DEFINE f == SignLinkKeys(root.cur, root.cur, None, root.seq + 1)
  <2>1. root' = RetireLinkPrevious /\ chan' = BroadcastLinkFrame(chan, Root, f)
    BY <1>2 DEF RetireCommit
  <2>0. /\ root \in [cur : Nat, prev : Nat, seq : Nat, rot : Nat]
        /\ root.cur \in Nat /\ root.cur \in 1..root.cur /\ root.seq + 1 \in Nat /\ revoked \subseteq Token
    BY DEF KeyInv, RootInv
  <2>a. /\ root' \in [cur : Nat, prev : Nat, seq : Nat, rot : Nat]
        /\ root'.cur = root.cur /\ root'.prev = None
    BY <2>0, <2>1, Zenon DEF RetireLinkPrevious, None
  <2>2. RootInv' /\ root'.cur = root.cur
    BY <1>0, <2>0, <2>a DEF RootInv
  <2>3. f \in Good(root.cur)
    BY <2>0, KeysGood DEF f
  <2>4. chan' \in [Relay -> Seq(Good(root.cur))]
    BY <2>1, <2>3, Pieces, BroadcastGood, Zenon
  <2>5. BlackInv' /\ \A r \in Relay : black[r] \subseteq black'[r]
    BY <1>0, Pieces DEF BlackInv
  <2>6. out' \in [Relay -> Seq(Good(root.cur))]
    BY <1>0, Pieces
  <2> QED BY <1>0, <2>2, <2>4, <2>5, <2>6, RootStep
<1> QED BY <1>1, <1>2

\* A step that adds to one blacklist.
LEMMA BlackAdded ==
  ASSUME BlackInv, NEW n \in Node, NEW ts, black' = [black EXCEPT ![n] = black[n] \cup ts]
  PROVE  BlackInv' /\ \A r \in Relay : black[r] \subseteq black'[r]
<1>1. BlackInv'
  BY DEF BlackInv
<1>2. \A r \in Relay : black[r] \subseteq black'[r]
  BY Nodes DEF BlackInv
<1> QED BY <1>1, <1>2

LEMMA RevokeStep == ASSUME KeyInv, NEW t \in Token, Revoke(t) PROVE KeyInv' /\ Chained
<1> DEFINE cs == LinksByJTI(Root, {t})
           f == SignLinkRevocations(root.cur, root.seq + 1, {t})
<1>0. /\ UNCHANGED <<trust, rep, mem>>
      /\ revoked' = revoked \cup {t} /\ root' = [root EXCEPT !.seq = @ + 1]
      /\ black' = [black EXCEPT ![Root] = black[Root] \cup {t}]
      /\ chan' = CloseRelays(BroadcastLinkFrame(chan, Root, f), cs) /\ Closed(cs)
  BY DEF Revoke
<1>1. RootInv' /\ root'.cur = root.cur /\ root.cur \in Nat /\ root.seq + 1 \in Nat
  BY <1>0 DEF KeyInv, RootInv
<1>2. BlackInv' /\ \A r \in Relay : black[r] \subseteq black'[r]
  BY <1>0, Pieces, Nodes, BlackAdded, Zenon
<1>3. f \in Good(root.cur)
  BY <1>1, RevsGood DEF f
<1> HIDE DEF cs, f
<1>4. chan' \in [Relay -> Seq(Good(root.cur))]
  <2>1. BroadcastLinkFrame(chan, Root, f) \in [Relay -> Seq(Good(root.cur))]
    BY <1>3, Pieces, BroadcastGood
  <2> QED BY <1>0, <1>1, <2>1, CloseGood, Zenon
<1>5. out' \in [Relay -> Seq(Good(root.cur))]
  BY <1>0, Pieces, ClosedGood
<1> QED BY <1>0, <1>1, <1>2, <1>4, <1>5, RootStep

LEMMA HelloStep == ASSUME KeyInv, NEW r \in Relay, RelayHello(r) PROVE KeyInv' /\ Chained
<1>0. /\ UNCHANGED <<root, revoked, trust, rep, mem, black>>
      /\ chan' = [chan EXCEPT ![r] = Append(chan[r], NoFrame)]
      /\ out' = [out EXCEPT ![r] = LinkFramesForNewLink(Parent[r])]
  BY DEF RelayHello
<1>1. LinkFramesForNewLink(Parent[r]) \in Seq(Good(root.cur))
  BY Pieces, Nodes, SyncGood
<1>2. Append(chan[r], NoFrame) \in Seq(Good(root.cur))
  BY Pieces, NoFrameGood, AppendProperties
<1>3. out' \in [Relay -> Seq(Good(root.cur))] /\ chan' \in [Relay -> Seq(Good(root.cur))]
  BY <1>0, <1>1, <1>2, Pieces, Zenon
<1> QED BY <1>0, <1>3, LinksOnly

LEMMA SyncStep == ASSUME KeyInv, NEW r \in Relay, SendLinkSync(r) PROVE KeyInv' /\ Chained
<1>0. /\ UNCHANGED <<root, revoked, trust, rep, mem, black>>
      /\ out[r] # <<>>
      /\ chan' = [chan EXCEPT ![r] = Append(chan[r], Head(out[r]))]
      /\ out' = [out EXCEPT ![r] = Tail(out[r])]
  BY DEF SendLinkSync
<1>1. Head(out[r]) \in Good(root.cur) /\ Tail(out[r]) \in Seq(Good(root.cur))
  <2>1. out[r] \in Seq(Good(root.cur))
    BY Pieces
  <2> QED BY <1>0, <2>1, HeadTailProperties, Zenon
<1>2. Append(chan[r], Head(out[r])) \in Seq(Good(root.cur))
  <2>1. chan[r] \in Seq(Good(root.cur))
    BY Pieces
  <2> QED BY <1>1, <2>1, AppendProperties
<1>3. out' \in [Relay -> Seq(Good(root.cur))] /\ chan' \in [Relay -> Seq(Good(root.cur))]
  BY <1>0, <1>1, <1>2, Pieces, Zenon
<1> QED BY <1>0, <1>3, LinksOnly

\* The memory of relay r, one field of it replaced.
LEMMA MemSet ==
  ASSUME KeyInv, NEW r \in Relay, NEW f \in Good(root.cur), NEW s \in Seq(Good(root.cur)),
         \/ mem' = [mem EXCEPT ![r].keys = f]
         \/ mem' = [mem EXCEPT ![r].revs = s]
         \/ mem' = [mem EXCEPT ![r] = [keys |-> f, revs |-> s]]
  PROVE  mem' \in [Relay -> [keys : Good(root.cur), revs : Seq(Good(root.cur))]]
<1> DEFINE G == Good(root.cur)
           SG == Seq(Good(root.cur))
<1>0. mem \in [Relay -> [keys : G, revs : SG]] /\ f \in G /\ s \in SG
  BY Pieces
<1> SUFFICES mem' \in [Relay -> [keys : G, revs : SG]]
  OBVIOUS
<1> HIDE DEF G, SG
<1> QED BY <1>0

LEMMA AckStep == ASSUME KeyInv, NEW r \in Relay, ReadAck(r) PROVE KeyInv' /\ Chained
<1>0. /\ UNCHANGED <<root, revoked, trust, black, out>>
      /\ mem' = [mem EXCEPT ![r].revs = <<>>]
      /\ rep' = [rep EXCEPT ![r][r] = trust[r].cur]
      /\ chan' = Rest(r) /\ chan[r] # <<>>
  BY DEF ReadAck, Next1
<1>1. mem' \in [Relay -> [keys : Good(root.cur), revs : Seq(Good(root.cur))]]
  <2>1. <<>> \in Seq(Good(root.cur)) /\ NoFrame \in Good(root.cur)
    BY Pieces, EmptySeq, NoFrameGood, Zenon
  <2> QED BY <1>0, <2>1, MemSet, Zenon
<1>2. RepInv'
  <2>1. r \in Node /\ trust[r].cur \in Nat /\ trust[r].cur <= trust[r].cur
    BY Pieces, Nodes
  <2> QED BY <1>0, <2>1, Pieces, Reported, Zenon
<1>3. chan' \in [Relay -> Seq(Good(root.cur))] /\ out' \in [Relay -> Seq(Good(root.cur))]
  BY <1>0, Pieces, ReadGood
<1>4. BlackInv' /\ \A x \in Relay : black[x] \subseteq black'[x]
  BY <1>0, Pieces DEF BlackInv
<1> QED BY <1>0, <1>1, <1>2, <1>3, <1>4, KeysSame

\* A frame read and dropped.
LEMMA DropStep ==
  ASSUME KeyInv, NEW r \in Relay, chan[r] # <<>>, chan' = Rest(r),
         UNCHANGED <<root, revoked, trust, rep, mem, black, out>>
  PROVE  KeyInv' /\ Chained
BY Pieces, ReadGood, LinksOnly, Zenon

LEMMA KeptKeysGood ==
  ASSUME NEW k \in Nat, NEW f \in Good(k) PROVE KeptKeys(f) \in Good(k)
BY NoFrameGood DEF KeptKeys

\* The chain: what ApplyLinkKeys accepts is the key the relay has or the next one.
LEMMA NextKey ==
  ASSUME KeyInv, NEW r \in Relay, NEW f \in Good(root.cur), f.type = "keys", ApplyLinkKeys(trust[r], f)
  PROVE  /\ f.cur \in {trust[r].cur, trust[r].cur + 1} /\ f.cur \in 1..root.cur
         /\ f.seq > trust[r].seq
<1>1. /\ f.cur \in 1..root.cur /\ f.prev \in {None, f.cur - 1} /\ f.seq \in Nat
      /\ root.cur \in Nat /\ trust[r].cur \in Nat /\ trust[r].cur >= 1
  BY Pieces, GoodFields, Zenon
<1>2. CASE f.prev = trust[r].cur /\ f.cur # trust[r].cur
  <2>1. f.prev = f.cur - 1
    BY <1>1, <1>2 DEF None
  <2> QED BY <1>1, <1>2, <2>1 DEF ApplyLinkKeys
<1>3. CASE f.prev = None /\ f.cur = trust[r].cur
  BY <1>1, <1>3 DEF ApplyLinkKeys
<1> QED BY <1>2, <1>3, Zenon DEF ApplyLinkKeys

\* The trust of relay r replaced by one that is not behind.
LEMMA TrustMoves ==
  ASSUME TrustInv, root' = root, root.cur \in Nat, NEW r \in Relay,
         NEW t \in [cur : Nat, prev : Nat, seq : Nat], t.cur >= trust[r].cur, t.cur <= root.cur,
         trust' = [trust EXCEPT ![r] = t]
  PROVE  TrustInv' /\ \A x \in Relay : trust'[x] = IF x = r THEN t ELSE trust[x]
<1>1. \A x \in Relay : trust'[x] = IF x = r THEN t ELSE trust[x]
  BY DEF TrustInv
<1>2. trust' \in [Relay -> [cur : Nat, prev : Nat, seq : Nat]]
  BY DEF TrustInv
<1>3. ASSUME NEW x \in Relay PROVE trust'[x].cur \in 1..root.cur
  <2>1. t.cur \in Nat /\ trust[r].cur \in 1..root.cur /\ trust[x].cur \in 1..root.cur
    BY DEF TrustInv
  <2>2. trust'[x] = t \/ trust'[x] = trust[x]
    BY <1>1
  <2> QED BY <2>1, <2>2
<1> QED BY <1>1, <1>2, <1>3 DEF TrustInv

LEMMA RepMoves ==
  ASSUME RepInv, NEW r \in Relay, NEW v \in Nat, rep' = [rep EXCEPT ![r][r] = v] \/ rep' = rep,
         \A x \in Relay : /\ trust[x].cur \in Nat /\ trust'[x].cur \in Nat
                          /\ trust[x].cur <= trust'[x].cur,
         v <= trust'[r].cur
  PROVE  RepInv'
<1>0. rep \in [Node -> [Relay -> Nat]] /\ r \in Node
  BY Nodes DEF RepInv
<1>1. rep' \in [Node -> [Relay -> Nat]]
  <2>1. CASE rep' = [rep EXCEPT ![r][r] = v]
    BY <1>0, <2>1
  <2> QED BY <1>0, <2>1
<1>2. ASSUME NEW n \in Node, NEW x \in Relay PROVE rep'[n][x] <= trust'[x].cur
  <2>1. rep'[n][x] = rep[n][x] \/ (x = r /\ rep'[n][x] = v)
    <3>1. CASE rep' = [rep EXCEPT ![r][r] = v]
      BY <1>0, <3>1
    <3> QED BY <3>1
  <2>2. rep[n][x] \in Nat /\ rep[n][x] <= trust[x].cur
    BY DEF RepInv
  <2>3. trust[x].cur \in Nat /\ trust'[x].cur \in Nat /\ trust[x].cur <= trust'[x].cur
    OBVIOUS
  <2> QED BY <2>1, <2>2, <2>3
<1> QED BY <1>1, <1>2 DEF RepInv

LEMMA TrustStep ==
  ASSUME KeyInv, UNCHANGED <<root, revoked>>, NEW r \in Relay,
         NEW t \in [cur : Nat, prev : Nat, seq : Nat], t.cur >= trust[r].cur, t.cur <= root.cur,
         trust' = [trust EXCEPT ![r] = t],
         run[r] = "halted" \/ (t.cur \in {trust[r].cur, trust[r].cur + 1} /\ t.seq >= trust[r].seq),
         NEW v \in Nat, v <= t.cur, rep' = [rep EXCEPT ![r][r] = v] \/ rep' = rep,
         mem' \in [Relay -> [keys : Good(root.cur), revs : Seq(Good(root.cur))]],
         out' \in [Relay -> Seq(Good(root.cur))], chan' \in [Relay -> Seq(Good(root.cur))],
         BlackInv', \A x \in Relay : black[x] \subseteq black'[x]
  PROVE  KeyInv' /\ Chained
<1>0. TrustInv /\ RepInv /\ RootInv' /\ root.cur \in Nat
      /\ \A x \in Relay : trust[x].cur \in Nat /\ trust[x].seq \in Nat
  BY Pieces, Zenon DEF RootInv
<1>1. TrustInv' /\ \A x \in Relay : trust'[x] = IF x = r THEN t ELSE trust[x]
  BY <1>0, TrustMoves, Zenon
<1>2. t.cur \in Nat /\ t.seq \in Nat
  OBVIOUS
<1>3. \A x \in Relay : trust[x].cur \in Nat /\ trust'[x].cur \in Nat /\ trust[x].cur <= trust'[x].cur
  <2> SUFFICES ASSUME NEW x \in Relay
               PROVE  trust[x].cur \in Nat /\ trust'[x].cur \in Nat /\ trust[x].cur <= trust'[x].cur
    OBVIOUS
  <2>1. (x = r /\ trust'[x] = t) \/ trust'[x] = trust[x]
    BY <1>1
  <2>2. CASE trust'[x] = trust[x]
    BY <1>0, <2>2, SMTT(30)
  <2>3. CASE x = r /\ trust'[x] = t
    BY <1>0, <1>2, <2>3
  <2> QED BY <2>1, <2>2, <2>3, Zenon
<1>4. RepInv'
  BY <1>0, <1>1, <1>3, RepMoves, Zenon
<1>5. FrameInv'
  BY DEF FrameInv, MemInv, LinkInv
<1>6. Chained
  <2> SUFFICES ASSUME NEW x \in Relay
               PROVE  run[x] = "halted" \/ (trust'[x].cur \in {trust[x].cur, trust[x].cur + 1} /\ trust'[x].seq >= trust[x].seq)
    BY <1>3, Zenon DEF Chained
  <2>1. CASE x = r
    BY <1>1, <2>1
  <2>2. CASE x # r
    <3>1. trust'[x] = trust[x]
      BY <1>1, <2>2
    <3>2. trust[x].cur \in Nat /\ trust[x].seq \in Nat
      BY <1>0
    <3> QED BY <3>1, <3>2
  <2> QED BY <2>1, <2>2, Zenon
<1> QED BY <1>0, <1>1, <1>4, <1>5, <1>6 DEF KeyInv

LEMMA ApplyKeysStep == ASSUME KeyInv, NEW r \in Relay, ApplyKeys(r) PROVE KeyInv' /\ Chained
<1> DEFINE f == Head(chan[r])
           t == [cur |-> f.cur, prev |-> f.prev, seq |-> f.seq]
<1>0. /\ UNCHANGED <<root, revoked, black, out>>
      /\ chan[r] # <<>> /\ f.type = "keys" /\ ApplyLinkKeys(trust[r], f)
      /\ trust' = [trust EXCEPT ![r] = t]
      /\ mem' = [mem EXCEPT ![r].keys = KeptKeys(f)]
      /\ rep' = [rep EXCEPT ![r][r] = f.cur]
      /\ chan' = BroadcastLinkFrame(Rest(r), r, f)
  BY DEF ApplyKeys, Next1
<1>1. f \in Good(root.cur) /\ Rest(r) \in [Relay -> Seq(Good(root.cur))]
  BY <1>0, Pieces, ReadGood
<1>f. f.cur \in Nat /\ f.prev \in Nat /\ f.seq \in Nat
  BY <1>1, Pieces, GoodFields, Zenon
<1> HIDE DEF f
<1>2. f.cur \in {trust[r].cur, trust[r].cur + 1} /\ f.cur \in 1..root.cur /\ f.seq > trust[r].seq
  BY <1>0, <1>1, NextKey
<1>3. mem' \in [Relay -> [keys : Good(root.cur), revs : Seq(Good(root.cur))]]
  <2>1. <<>> \in Seq(Good(root.cur)) /\ KeptKeys(f) \in Good(root.cur)
    BY <1>1, Pieces, EmptySeq, KeptKeysGood, Zenon
  <2> QED BY <1>0, <2>1, MemSet, Zenon
<1>4. chan' \in [Relay -> Seq(Good(root.cur))] /\ out' \in [Relay -> Seq(Good(root.cur))]
  BY <1>0, <1>1, Pieces, BroadcastGood, Zenon
<1>5. BlackInv' /\ \A x \in Relay : black[x] \subseteq black'[x]
  BY <1>0, Pieces DEF BlackInv
<1>6. /\ t \in [cur : Nat, prev : Nat, seq : Nat] /\ t.cur = f.cur /\ t.seq = f.seq
      /\ t.cur >= trust[r].cur /\ t.cur <= root.cur /\ f.cur <= t.cur
      /\ t.cur \in {trust[r].cur, trust[r].cur + 1} /\ t.seq >= trust[r].seq
  <2>1. t \in [cur : Nat, prev : Nat, seq : Nat] /\ t.cur = f.cur /\ t.seq = f.seq
    BY <1>f
  <2>2. trust[r].cur \in Nat /\ trust[r].seq \in Nat /\ root.cur \in Nat
    BY Pieces, Zenon
  <2> HIDE DEF t
  <2>3. f.cur >= trust[r].cur /\ f.cur <= root.cur /\ f.cur <= f.cur
    BY <1>2, <2>2, Succ
  <2>4. f.seq >= trust[r].seq
    BY <1>f, <1>2, <2>2
  <2> QED BY <1>2, <2>1, <2>3, <2>4, Zenon
<1> HIDE DEF t
<1> QED BY <1>0, <1>f, <1>3, <1>4, <1>5, <1>6, TrustStep, Zenon

LEMMA ResentKeysStep == ASSUME KeyInv, NEW r \in Relay, ResentKeys(r) PROVE KeyInv' /\ Chained
<1> DEFINE f == Head(chan[r])
<1>0. /\ UNCHANGED <<root, revoked, trust, black, out>> /\ chan[r] # <<>>
  BY DEF ResentKeys, Next1
<1>1. f \in Good(root.cur) /\ Rest(r) \in [Relay -> Seq(Good(root.cur))]
  BY <1>0, Pieces, ReadGood, Zenon
<1>2. CASE VerifyLinkKeysReplay(trust[r], f)
  <2>1. /\ mem' = [mem EXCEPT ![r].keys = KeptKeys(f)]
        /\ rep' = [rep EXCEPT ![r][r] = trust[r].cur]
        /\ chan' = BroadcastLinkFrame(Rest(r), r, f)
    BY <1>2 DEF ResentKeys
  <2> HIDE DEF f
  <2>2. mem' \in [Relay -> [keys : Good(root.cur), revs : Seq(Good(root.cur))]]
    <3>1. <<>> \in Seq(Good(root.cur)) /\ KeptKeys(f) \in Good(root.cur)
      BY <1>1, Pieces, EmptySeq, KeptKeysGood, Zenon
    <3> QED BY <2>1, <3>1, MemSet, Zenon
  <2>3. RepInv'
    <3>1. r \in Node /\ trust[r].cur \in Nat /\ trust[r].cur <= trust[r].cur
      BY Pieces, Nodes
    <3> QED BY <1>0, <2>1, <3>1, Pieces, Reported, Zenon
  <2>4. chan' \in [Relay -> Seq(Good(root.cur))] /\ out' \in [Relay -> Seq(Good(root.cur))]
    BY <1>0, <1>1, <2>1, Pieces, BroadcastGood, Zenon
  <2>5. BlackInv' /\ \A x \in Relay : black[x] \subseteq black'[x]
    BY <1>0, Pieces DEF BlackInv
  <2> QED BY <1>0, <2>2, <2>3, <2>4, <2>5, KeysSame, Zenon
<1>3. CASE ~VerifyLinkKeysReplay(trust[r], f)
  <2>1. chan' = Rest(r) /\ UNCHANGED <<mem, rep>>
    BY <1>3 DEF ResentKeys
  <2> QED BY <1>0, <2>1, DropStep
<1> QED BY <1>2, <1>3

LEMMA RevocationsStep == ASSUME KeyInv, NEW r \in Relay, ApplyRevocations(r) PROVE KeyInv' /\ Chained
<1> DEFINE k == root.cur
           f == Head(chan[r])
           new == f.ents \ black[r]
           own == <<r, cfg[r].tok>> \in new
           cs == LinksByJTI(r, new)
           ch == CloseRelays(BroadcastLinkFrame(Rest(r), r, f), cs)
           t == [trust[r] EXCEPT !.seq = f.seq]
<1>0. /\ UNCHANGED <<root, revoked>> /\ chan[r] # <<>>
      /\ VerifyLinkRevocations(trust[r], f)
      /\ black' = [black EXCEPT ![r] = black[r] \cup new]
      /\ trust' = [trust EXCEPT ![r].seq = f.seq]
      /\ mem' = [mem EXCEPT ![r].revs = KeptRevs(mem[r].revs, f)]
      /\ rep' = [rep EXCEPT ![r][r] = IF own THEN rep[r][r] ELSE trust[r].cur]
      /\ out' = [c \in Relay |-> IF c \in cs \/ (own /\ c = r) THEN <<>> ELSE out[c]]
      /\ chan' = IF own THEN [ch EXCEPT ![r] = <<>>] ELSE ch
  BY Zenon DEF ApplyRevocations, Next1
<1>1. f \in Good(k) /\ Rest(r) \in [Relay -> Seq(Good(k))]
  BY <1>0, Pieces, ReadGood
<1>2. f.seq \in Nat /\ f.seq >= trust[r].seq
  BY <1>0, <1>1, Pieces, GoodFields DEF VerifyLinkRevocations
<1> HIDE DEF f, new, own, cs
<1>3. <<>> \in Seq(Good(k)) /\ k \in Nat /\ NoFrame \in Good(k)
  BY Pieces, EmptySeq, NoFrameGood, Zenon
<1>4. ch \in [Relay -> Seq(Good(k))]
  <2>1. BroadcastLinkFrame(Rest(r), r, f) \in [Relay -> Seq(Good(k))]
    BY <1>1, BroadcastGood
  <2> QED BY <1>3, <2>1, CloseGood
<1> HIDE DEF ch
<1>5. chan' \in [Relay -> Seq(Good(k))]
  BY <1>0, <1>3, <1>4
<1>6. out' \in [Relay -> Seq(Good(k))]
  BY <1>0, <1>3, Pieces, Zenon
<1>7. mem' \in [Relay -> [keys : Good(k), revs : Seq(Good(k))]]
  <2>1. mem[r].revs \in Seq(Good(k))
    BY Pieces
  <2>2. KeptRevs(mem[r].revs, f) \in Seq(Good(k))
    BY <1>1, <2>1, KeptRevsGood
  <2> QED BY <1>0, <1>3, <2>2, MemSet, Zenon
<1>8. BlackInv' /\ \A x \in Relay : black[x] \subseteq black'[x]
  <2>1. r \in Node /\ BlackInv
    BY Pieces, Nodes
  <2> QED BY <1>0, <2>1, BlackAdded, Zenon
<1>9. /\ t \in [cur : Nat, prev : Nat, seq : Nat] /\ t.cur = trust[r].cur /\ t.seq = f.seq
      /\ trust' = [trust EXCEPT ![r] = t]
  BY <1>0, <1>2, Pieces, Zenon DEF TrustInv
<1>10. rep' = [rep EXCEPT ![r][r] = trust[r].cur] \/ rep' = rep
  <2>1. rep \in [Node -> [Relay -> Nat]] /\ r \in Node
    BY Pieces, Nodes, Zenon DEF RepInv
  <2> QED BY <1>0, <2>1, Zenon
<1>11. trust[r].cur \in Nat /\ t.cur >= trust[r].cur /\ t.cur <= root.cur /\ trust[r].cur <= t.cur
       /\ t.cur \in {trust[r].cur, trust[r].cur + 1} /\ t.seq >= trust[r].seq
  BY <1>2, <1>9, Pieces
<1> HIDE DEF t
<1> QED BY <1>0, <1>5, <1>6, <1>7, <1>8, <1>9, <1>10, <1>11, TrustStep, Zenon

LEMMA RevocationsFailStep == ASSUME KeyInv, NEW r \in Relay, ApplyRevocationsFails(r) PROVE KeyInv' /\ Chained
<1>0. /\ UNCHANGED <<root, revoked, trust, rep, mem, out>> /\ chan' = Rest(r) /\ chan[r] # <<>>
  BY Zenon DEF ApplyRevocationsFails, Next1
<1>1. PICK kept : black' = [black EXCEPT ![r] = black[r] \cup kept]
  BY Zenon DEF ApplyRevocationsFails
<1>2. BlackInv' /\ \A x \in Relay : black[x] \subseteq black'[x]
  BY <1>1, Pieces, Nodes, BlackAdded, Zenon
<1>3. chan' \in [Relay -> Seq(Good(root.cur))] /\ out' \in [Relay -> Seq(Good(root.cur))]
  BY <1>0, Pieces, ReadGood, Zenon
<1>4. RepInv' /\ mem' \in [Relay -> [keys : Good(root.cur), revs : Seq(Good(root.cur))]]
  BY <1>0, Pieces, Zenon DEF RepInv
<1> QED BY <1>0, <1>2, <1>3, <1>4, KeysSame, Zenon

\* What a restart forgets, and what it keeps.
LEMMA ForgetStep ==
  ASSUME KeyInv, UNCHANGED <<root, revoked, trust, black>>, NEW n \in Node, rep' = Forgotten(n),
         NEW cs, Lost(cs), mem' \in [Relay -> [keys : Good(root.cur), revs : Seq(Good(root.cur))]]
  PROVE  KeyInv' /\ Chained
<1>1. RepInv'
  BY Pieces, Forgot, Zenon
<1>2. LinkInv(root.cur)'
  BY Pieces, LostGood, Zenon
<1>3. out' \in [Relay -> Seq(Good(root.cur))] /\ chan' \in [Relay -> Seq(Good(root.cur))]
  BY <1>2 DEF LinkInv
<1>4. BlackInv' /\ \A x \in Relay : black[x] \subseteq black'[x]
  BY Pieces DEF BlackInv
<1> QED BY <1>1, <1>3, <1>4, KeysSame, Zenon

LEMMA StartedStep ==
  ASSUME KeyInv, UNCHANGED <<root, revoked, trust, black>>, NEW r \in Relay, NEW a, Started(r, a)
  PROVE  KeyInv' /\ Chained
<1>1. mem' \in [Relay -> [keys : Good(root.cur), revs : Seq(Good(root.cur))]]
  <2>1. <<>> \in Seq(Good(root.cur)) /\ NoFrame \in Good(root.cur)
    BY Pieces, EmptySeq, NoFrameGood, Zenon
  <2>2. mem' = [mem EXCEPT ![r] = [keys |-> NoFrame, revs |-> <<>>]]
    BY DEF Started
  <2> QED BY <2>1, <2>2, MemSet, Zenon
<1>2. rep' = Forgotten(r) /\ Lost({r} \cup Children(r)) /\ r \in Node
  BY Nodes, Zenon DEF Started
<1> QED BY <1>1, <1>2, ForgetStep, Zenon

LEMMA RestartRootStep == ASSUME KeyInv, RestartRoot PROVE KeyInv' /\ Chained
<1>1. /\ UNCHANGED <<root, revoked, trust, black, mem>> /\ rep' = Forgotten(Root) /\ Lost(Children(Root))
  BY DEF RestartRoot
<1> QED BY <1>1, Pieces, Nodes, ForgetStep, Zenon

LEMMA LinkStateStep ==
  ASSUME KeyInv, NEW r \in Relay, NEW id \in Relay, HandleLinkState(r, id) PROVE KeyInv' /\ Chained
<1>0. /\ UNCHANGED <<root, revoked, trust, black, mem, out, chan>>
      /\ rep' = [rep EXCEPT ![Parent[r]][id] = rep[r][id]]
  BY Zenon DEF HandleLinkState, down
<1>1. rep[r][id] \in Nat /\ rep[r][id] <= trust[id].cur /\ Parent[r] \in Node
  BY Pieces, Nodes, Zenon DEF RepInv
<1>2. RepInv'
  BY <1>0, <1>1, Pieces, Reported, Zenon
<1>3. BlackInv' /\ \A x \in Relay : black[x] \subseteq black'[x]
  BY <1>0, Pieces DEF BlackInv
<1>4. /\ mem' \in [Relay -> [keys : Good(root.cur), revs : Seq(Good(root.cur))]]
      /\ out' \in [Relay -> Seq(Good(root.cur))] /\ chan' \in [Relay -> Seq(Good(root.cur))]
  BY <1>0, Pieces
<1> QED BY <1>0, <1>2, <1>3, <1>4, KeysSame

LEMMA ResetStep == ASSUME KeyInv, NEW r \in Relay, ResetLinkTrust(r) PROVE KeyInv' /\ Chained
<1> DEFINE t == [cur |-> root.cur, prev |-> None, seq |-> 0]
<1>0. /\ UNCHANGED <<root, revoked, black, mem, rep, out, chan>> /\ run[r] = "halted"
      /\ trust' = [trust EXCEPT ![r] = t]
  BY DEF ResetLinkTrust, down
<1>1. /\ t \in [cur : Nat, prev : Nat, seq : Nat] /\ t.cur >= trust[r].cur /\ t.cur <= root.cur
      /\ 0 \in Nat /\ 0 <= t.cur
  <2>1. trust[r].cur \in Nat /\ root.cur \in Nat /\ trust[r].cur <= root.cur
    BY Pieces, Zenon
  <2>2. t \in [cur : Nat, prev : Nat, seq : Nat] /\ t.cur = root.cur
    BY <2>1, Zenon DEF None
  <2>3. root.cur >= trust[r].cur /\ root.cur <= root.cur /\ 0 <= root.cur
    BY <2>1, Above
  <2> HIDE DEF t
  <2> QED BY <2>2, <2>3, Zenon
<1>2. BlackInv' /\ \A x \in Relay : black[x] \subseteq black'[x]
  BY <1>0, Pieces DEF BlackInv
<1>3. /\ mem' \in [Relay -> [keys : Good(root.cur), revs : Seq(Good(root.cur))]]
      /\ out' \in [Relay -> Seq(Good(root.cur))] /\ chan' \in [Relay -> Seq(Good(root.cur))]
  BY <1>0, Pieces, Zenon
<1> HIDE DEF t
<1> QED BY <1>0, <1>1, <1>2, <1>3, TrustStep, Zenon

\* A relay revoked or deleted: a blacklist grows and its link is closed.
LEMMA AdminStep ==
  ASSUME KeyInv, NEW r \in Relay, UNCHANGED <<root, revoked, trust, mem, rep>>,
         black' = RevokeRelayNode(r), chan' = CloseRelays(chan, LiveLink(r)), Closed(LiveLink(r))
  PROVE  KeyInv' /\ Chained
<1>1. PICK ts : black' = [black EXCEPT ![Parent[r]] = black[Parent[r]] \cup ts]
  <2>1. CASE seen[r] # None
    BY <2>1, Zenon DEF RevokeRelayNode
  <2>2. CASE seen[r] = None
    <3>1. black' = [black EXCEPT ![Parent[r]] = black[Parent[r]]]
      BY <2>2 DEF RevokeRelayNode
    <3>2. black[Parent[r]] = black[Parent[r]] \cup {}
      OBVIOUS
    <3> QED BY <3>1, <3>2, Zenon
  <2> QED BY <2>1, <2>2, Zenon
<1>2. BlackInv' /\ \A x \in Relay : black[x] \subseteq black'[x]
  BY <1>1, Pieces, Nodes, BlackAdded, Zenon
<1>3. chan' \in [Relay -> Seq(Good(root.cur))] /\ out' \in [Relay -> Seq(Good(root.cur))]
  BY Pieces, CloseGood, ClosedGood, Zenon
<1>4. RepInv' /\ mem' \in [Relay -> [keys : Good(root.cur), revs : Seq(Good(root.cur))]]
  BY Pieces, Zenon DEF RepInv
<1> QED BY <1>2, <1>3, <1>4, KeysSame, Zenon

LEMMA NextHolds == KeyInv /\ [Next]_vars => KeyInv' /\ Chained
<1> SUFFICES ASSUME KeyInv, [Next]_vars PROVE KeyInv' /\ Chained
  OBVIOUS
<1>q. ASSUME UNCHANGED <<root, revoked, trust, rep, mem, black, out, chan>> PROVE KeyInv' /\ Chained
  BY <1>q, Pieces, LinksOnly, Zenon
<1>1. CASE Rotate
  BY <1>1, RotateStep
<1>2. CASE RestartRoot
  BY <1>2, RestartRootStep
<1>3. ASSUME NEW q \in Req, RetireCommit(q) PROVE KeyInv' /\ Chained
  BY <1>3, RetireStep
<1>4. ASSUME NEW q \in Req, NEW force \in BOOLEAN, RetireCheck(q, force) PROVE KeyInv' /\ Chained
  BY <1>4, <1>q DEF RetireCheck, down
<1>5. ASSUME NEW t \in Token, Revoke(t) PROVE KeyInv' /\ Chained
  BY <1>5, RevokeStep
<1>6. ASSUME NEW r \in Relay, Establish(r) PROVE KeyInv' /\ Chained
  <2>1. CASE RelayHandler(r)
    BY <2>1, <1>q, Zenon DEF RelayHandler
  <2>2. CASE RegisterConn(r)
    BY <2>2, <1>q DEF RegisterConn
  <2> QED BY <1>6, <2>1, <2>2, HelloStep, SyncStep DEF Establish
<1>7. ASSUME NEW r \in Relay, Read(r) PROVE KeyInv' /\ Chained
  <2>1. CASE HandshakeRefused(r)
    BY <2>1, LostStep DEF HandshakeRefused
  <2>2. CASE ReadClose(r)
    BY <2>2, LostStep DEF ReadClose
  <2>3. CASE IgnoreRevocations(r)
    BY <2>3, DropStep, Zenon DEF IgnoreRevocations, Next1
  <2> QED BY <1>7, <2>1, <2>2, <2>3, AckStep, ApplyKeysStep, ResentKeysStep, RevocationsStep DEF Read
<1>8. ASSUME NEW r \in Relay, Upward(r) PROVE KeyInv' /\ Chained
  <2>1. CASE SendSnapshot(r)
    BY <2>1, <1>q, Zenon DEF SendSnapshot
  <2> QED BY <1>8, <2>1, LinkStateStep DEF Upward
<1>9. ASSUME NEW r \in Relay, LinkLost(r) PROVE KeyInv' /\ Chained
  BY <1>9, LostStep DEF LinkLost
<1>10. ASSUME NEW r \in Relay, RestartRelay(r) PROVE KeyInv' /\ Chained
  BY <1>10, StartedStep, Zenon DEF RestartRelay
<1>11. ASSUME NEW r \in Relay, ApplyKeysFails(r) PROVE KeyInv' /\ Chained
  BY <1>11, DropStep, Zenon DEF ApplyKeysFails, ReportOnFailure, Next1
<1>12. ASSUME NEW r \in Relay, ApplyRevocationsFails(r) PROVE KeyInv' /\ Chained
  BY <1>12, RevocationsFailStep
<1>13. ASSUME NEW r \in Relay, Operator(r) PROVE KeyInv' /\ Chained
  <2>1. CASE Reinstall(r)
    BY <2>1, StartedStep, Zenon DEF Reinstall
  <2>2. CASE AdminRevokeRelay(r)
    BY <2>2, AdminStep DEF AdminRevokeRelay
  <2>3. CASE AdminDeleteRelay(r)
    BY <2>3, AdminStep, Zenon DEF AdminDeleteRelay
  <2>4. CASE AdminCreateRelay(r)
    BY <2>4, <1>q, Zenon DEF AdminCreateRelay, down
  <2> QED BY <1>13, <2>1, <2>2, <2>3, <2>4, ResetStep DEF Operator
<1>14. CASE UNCHANGED vars
  BY <1>14, <1>q, Zenon DEF vars, down
<1> QED BY <1>1, <1>2, <1>3, <1>4, <1>5, <1>6, <1>7, <1>8, <1>9, <1>10, <1>11, <1>12, <1>13, <1>14 DEF Next

LEMMA KeyInvHolds == Spec => []KeyInv
BY InitHolds, NextHolds, PTL DEF Spec

\* No node ever takes a relay for confirmed on the root's key before the relay has saved it, whatever is
\* lost, refused or restarted on a tree of any shape (repeater/linktrust.go applyKeys, resendLinkStates).
THEOREM Confirmations == Spec => []ConfirmedIsTrue
<1>1. KeyInv => ConfirmedIsTrue
  <2> SUFFICES ASSUME KeyInv, NEW n \in Node, NEW r \in Relay, rep[n][r] = root.cur
               PROVE  trust[r].cur = root.cur
    BY DEF ConfirmedIsTrue
  <2>1. /\ rep[n][r] \in Nat /\ trust[r].cur \in Nat /\ root.cur \in Nat
        /\ rep[n][r] <= trust[r].cur /\ trust[r].cur <= root.cur
    BY Pieces, Zenon DEF RepInv
  <2> QED BY <2>1, Between
<1> QED BY <1>1, KeyInvHolds, PTL

\* Relays follow the chain of keys one rotation at a time and take nothing back, for any number of keys
\* (auth/linkjwt.go ApplyLinkKeys, VerifyLinkRevocations).
THEOREM KeysFollowed == Spec => ChainFollowed
<1> DEFINE A == \A r \in Relay :
         /\ black[r] \subseteq black'[r]
         /\ run[r] = "halted" \/ (trust'[r].cur \in {trust[r].cur, trust[r].cur + 1} /\ trust'[r].seq >= trust[r].seq)
<1>1. KeyInv /\ [Next]_vars => [A]_vars
  <2> SUFFICES ASSUME KeyInv, [Next]_vars PROVE A
    BY Zenon
  <2>1. Chained
    BY NextHolds
  <2> QED BY <2>1, Zenon DEF Chained
<1>2. ChainFollowed <=> [][A]_vars
  BY DEF ChainFollowed
<1> HIDE DEF A
<1> QED BY <1>1, <1>2, KeyInvHolds, PTL DEF Spec

-----------------------------------------------------------------------------
(* Retirement *)

\* Between the check of a request and its commit the window of the rotation stays open, and the relays
\* it saw keep the key they had confirmed.
RetireInv ==
    /\ req = [q \in Req |-> req[q]]
    /\ \A q \in Req : req[q].st = "checked" =>
         /\ root.prev # None /\ req[q].known \subseteq Relay
         /\ req[q].force \/ \A r \in req[q].known : trust[r].cur = root.cur

\* A step that leaves the requests and the window alone.
LEMMA WindowKept ==
  ASSUME RetireInv, KeyInv, KeyInv', Chained, req' = req, root'.cur = root.cur, root'.prev = root.prev
  PROVE  RetireInv'
<1>1. \A r \in Relay : trust[r].cur = root.cur => trust'[r].cur = root'.cur
  <2> SUFFICES ASSUME NEW r \in Relay, trust[r].cur = root.cur PROVE trust'[r].cur = root.cur
    OBVIOUS
  <2>1. trust'[r].cur >= trust[r].cur
    BY DEF Chained
  <2>2. trust'[r].cur \in 1..root'.cur /\ root.cur \in Nat
    BY DEF KeyInv, TrustInv, RootInv
  <2> QED BY <2>1, <2>2
<1>2. ASSUME NEW q \in Req, req'[q].st = "checked"
      PROVE  /\ root'.prev # None /\ req'[q].known \subseteq Relay
             /\ req'[q].force \/ \A r \in req'[q].known : trust'[r].cur = root'.cur
  <2>1. /\ root.prev # None /\ req[q].known \subseteq Relay
        /\ req[q].force \/ \A r \in req[q].known : trust[r].cur = root.cur
    BY <1>2 DEF RetireInv
  <2> QED BY <1>1, <2>1, Zenon
<1>3. req' = [q \in Req |-> req'[q]]
  BY DEF RetireInv
<1> QED BY <1>2, <1>3 DEF RetireInv

LEMMA CheckStep ==
  ASSUME RetireInv, KeyInv, NEW q \in Req, NEW force \in BOOLEAN, RetireCheck(q, force)
  PROVE  RetireInv'
<1> DEFINE e == [st |-> "checked", force |-> force, known |-> KnownRelayIDs]
<1>0. /\ req' = [req EXCEPT ![q] = e] /\ UNCHANGED <<root, trust>> /\ root.prev # None
      /\ Unconfirmed = {} \/ force
  BY DEF RetireCheck
<1>1. e.st = "checked" /\ e.force = force /\ e.known = KnownRelayIDs /\ KnownRelayIDs \subseteq Relay
  BY Zenon DEF KnownRelayIDs
<1>2. e.force \/ \A r \in e.known : trust[r].cur = root.cur
  <2>1. ASSUME Unconfirmed = {}, NEW r \in KnownRelayIDs PROVE trust[r].cur = root.cur
    <3>1. rep[Root][r] = root.cur /\ r \in Relay
      BY <1>1, <2>1, Zenon DEF Unconfirmed
    <3>2. /\ rep[Root][r] \in Nat /\ trust[r].cur \in Nat /\ root.cur \in Nat
          /\ rep[Root][r] <= trust[r].cur /\ trust[r].cur <= root.cur
      BY <3>1, Pieces, Nodes, Zenon DEF RepInv
    <3> QED BY <3>1, <3>2, Between, Zenon
  <2> QED BY <1>0, <1>1, <2>1, Zenon
<1> HIDE DEF e
<1>3. req' = [p \in Req |-> req'[p]] /\ \A p \in Req : req'[p] = IF p = q THEN e ELSE req[p]
  BY <1>0 DEF RetireInv
<1>4. ASSUME NEW p \in Req, req'[p].st = "checked"
      PROVE  /\ root'.prev # None /\ req'[p].known \subseteq Relay
             /\ req'[p].force \/ \A r \in req'[p].known : trust'[r].cur = root'.cur
  <2>1. CASE p = q
    BY <1>0, <1>1, <1>2, <1>3, <2>1
  <2>2. CASE p # q
    <3>1. req'[p] = req[p]
      BY <1>3, <2>2
    <3>2. /\ root.prev # None /\ req[p].known \subseteq Relay
          /\ req[p].force \/ \A r \in req[p].known : trust[r].cur = root.cur
      BY <1>4, <3>1 DEF RetireInv
    <3>3. root' = root /\ trust' = trust
      BY <1>0
    <3> QED BY <3>1, <3>2, <3>3, Zenon
  <2> QED BY <2>1, <2>2, Zenon
<1> QED BY <1>3, <1>4 DEF RetireInv

\* No request is left between its check and its commit.
LEMMA NoneChecked ==
  ASSUME req' = [q \in Req |-> req'[q]], \A q \in Req : req'[q].st # "checked"
  PROVE  RetireInv'
BY DEF RetireInv

LEMMA RetireHolds ==
  ASSUME \A p, q \in Req : p = q, RetireInv, KeyInv, [Next]_vars
  PROVE  RetireInv'
<1>k. KeyInv' /\ Chained
  BY NextHolds
<1>q. ASSUME UNCHANGED <<root, req>> PROVE RetireInv'
  BY <1>q, <1>k, WindowKept
<1>0. Idle.st = "idle"
  BY DEF Idle
<1>1. CASE Rotate
  <2>1. root.prev = None /\ req' = req
    BY <1>1 DEF Rotate
  <2>2. req' = [q \in Req |-> req'[q]] /\ \A q \in Req : req'[q].st # "checked"
    BY <2>1 DEF RetireInv
  <2> QED BY <2>2, NoneChecked
<1>2. CASE RestartRoot
  <2>1. req' = [q \in Req |-> Idle]
    BY <1>2 DEF RestartRoot
  <2>2. req' = [q \in Req |-> req'[q]] /\ \A q \in Req : req'[q].st # "checked"
    BY <1>0, <2>1
  <2> QED BY <2>2, NoneChecked
<1>3. ASSUME NEW q \in Req, RetireCommit(q) PROVE RetireInv'
  <2>1. req' = [req EXCEPT ![q] = Idle]
    BY <1>3 DEF RetireCommit
  <2>2. req' = [p \in Req |-> req'[p]] /\ \A p \in Req : req'[p].st # "checked"
    BY <1>0, <2>1 DEF RetireInv
  <2> QED BY <2>2, NoneChecked
<1>4. ASSUME NEW q \in Req, NEW force \in BOOLEAN, RetireCheck(q, force) PROVE RetireInv'
  BY <1>4, CheckStep
<1>5. ASSUME NEW t \in Token, Revoke(t) PROVE RetireInv'
  <2>1. req' = req /\ root' = [root EXCEPT !.seq = @ + 1]
    BY <1>5 DEF Revoke
  <2>2. root'.cur = root.cur /\ root'.prev = root.prev
    BY <2>1 DEF KeyInv, RootInv
  <2> QED BY <1>k, <2>1, <2>2, WindowKept
<1>6. ASSUME NEW r \in Relay, Establish(r) PROVE UNCHANGED <<root, req>>
  BY <1>6, Zenon DEF Establish, RelayHandler, RegisterConn, RelayHello, SendLinkSync
<1>7. ASSUME NEW r \in Relay, Read(r) PROVE UNCHANGED <<root, req>>
  <2>1. CASE ReadAck(r) \/ HandshakeRefused(r) \/ ReadClose(r)
    BY <2>1 DEF ReadAck, HandshakeRefused, ReadClose
  <2>2. CASE ApplyKeys(r) \/ ResentKeys(r)
    BY <2>2 DEF ApplyKeys, ResentKeys
  <2>3. CASE ApplyRevocations(r)
    BY <2>3, Zenon DEF ApplyRevocations
  <2>4. CASE IgnoreRevocations(r)
    BY <2>4, Zenon DEF IgnoreRevocations
  <2> QED BY <1>7, <2>1, <2>2, <2>3, <2>4 DEF Read
<1>8. ASSUME NEW r \in Relay, Upward(r) PROVE UNCHANGED <<root, req>>
  BY <1>8, Zenon DEF Upward, SendSnapshot, HandleLinkState
<1>9. ASSUME NEW r \in Relay, LinkLost(r) \/ RestartRelay(r) \/ ApplyKeysFails(r) \/ ApplyRevocationsFails(r)
      PROVE  UNCHANGED <<root, req>>
  BY <1>9, Zenon DEF LinkLost, RestartRelay, ApplyKeysFails, ApplyRevocationsFails
<1>10. ASSUME NEW r \in Relay, Operator(r) PROVE UNCHANGED <<root, req>>
  BY <1>10, Zenon DEF Operator, Reinstall, ResetLinkTrust, AdminRevokeRelay, AdminDeleteRelay, AdminCreateRelay
<1>11. CASE UNCHANGED vars
  BY <1>11, <1>q DEF vars
<1> QED BY <1>q, <1>1, <1>2, <1>3, <1>4, <1>5, <1>6, <1>7, <1>8, <1>9, <1>10, <1>11, Zenon DEF Next

\* With one retirement at a time, the check made outside the mutex is still true when the key is retired:
\* no relay the request saw is stranded (link.go RetireDetailed).
THEOREM OneRetirement ==
  ASSUME \A p, q \in Req : p = q
  PROVE  Spec => RetireStrandsNone
<1> DEFINE A == \A q \in Req : (root.prev # None /\ req[q].st = "checked" /\ req'[q].st = "idle" /\ root'.prev = None)
                  => (req[q].force \/ \A r \in req[q].known : trust[r].cur = root.cur)
<1>1. Init => RetireInv
  <2> SUFFICES ASSUME Init PROVE RetireInv
    OBVIOUS
  <2>1. req = [q \in Req |-> Idle] /\ Idle.st = "idle"
    BY Zenon DEF Init, Idle
  <2> QED BY <2>1, Zenon DEF RetireInv
<1>2. RetireInv /\ KeyInv /\ [Next]_vars => RetireInv'
  BY RetireHolds
<1>3. RetireInv => [A]_vars
  BY DEF RetireInv
<1>4. RetireStrandsNone <=> [][A]_vars
  BY DEF RetireStrandsNone
<1> HIDE DEF A
<1> QED BY <1>1, <1>2, <1>3, <1>4, KeyInvHolds, PTL DEF Spec
=============================================================================
