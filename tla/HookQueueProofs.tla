-------------------------- MODULE HookQueueProofs --------------------------
(***************************************************************************)
(* For any hosts, workers, events, queue capacity and moments of a stop:   *)
(* d.pending and d.droppedEvents count the events they stand for, and the  *)
(* events of a host are processed in the order they were accepted.         *)
(*                                                                         *)
(* The order is kept because the queue of the one worker of a host holds   *)
(* the accepted events after the processed ones, in the same order         *)
(* (Coming).  The counters are exact because an event is in one place at a *)
(* time: a goroutine before it is accepted (Sent), then the queue of its   *)
(* worker, its job or the abandoned events (Placed, Aside), or processed.  *)
(***************************************************************************)
EXTENDS HookQueue, FiniteSetTheorems, TLAPS

Events == Seq(Event)
Ranks == Seq(1..MaxEvent)
Jobs == Event \cup {None}
Goings == [host : Host, rank : 1..MaxEvent, pc : {"start", "checked"}]
Ev(g) == [host |-> g.host, rank |-> g.rank]

Typed ==
    /\ Pool
    /\ emitted \in [Host -> 0..MaxEvent]
    /\ \A g \in going : g \in Goings
    /\ queue \in [Worker -> Events] /\ job \in [Worker -> Jobs]
    /\ returned \subseteq Worker /\ abandoned \subseteq Event
    /\ accepted \in [Host -> Ranks] /\ ran \in [Host -> Ranks]

\* The ranks of a host are accepted once.
Ordered(h) ==
    /\ \A i \in 1..Len(accepted[h]) : accepted[h][i] <= emitted[h]
    /\ \A i, j \in 1..Len(accepted[h]) : accepted[h][i] = accepted[h][j] => i = j

Has(s, x) == \E i \in 1..Len(s) : s[i] = x

\* An event has one goroutine, until it is accepted.
Sent(g) ==
    /\ g.rank <= emitted[g.host] /\ ~Has(accepted[g.host], g.rank)
    /\ \A f \in going : f.host = g.host /\ f.rank = g.rank => f = g

\* An accepted event is in one place: the queue of its worker, its job, or the abandoned ones.
Placed(w) ==
    /\ \A i \in 1..Len(queue[w]) : /\ WorkerOf[queue[w][i].host] = w
                                   /\ Has(accepted[queue[w][i].host], queue[w][i].rank)
    /\ \A i, j \in 1..Len(queue[w]) : queue[w][i] = queue[w][j] => i = j
    /\ job[w] # None => /\ WorkerOf[job[w].host] = w /\ w \notin returned
                        /\ Has(accepted[job[w].host], job[w].rank)
                        /\ ~Has(queue[w], job[w])

Aside(e) ==
    /\ Has(accepted[e.host], e.rank) /\ WorkerOf[e.host] \in returned
    /\ ~Has(queue[WorkerOf[e.host]], e)

\* The processed events of a host are the first accepted, and are nowhere else.
Past(h) ==
    /\ Len(ran[h]) <= Len(accepted[h])
    /\ \A i \in 1..Len(ran[h]) :
         LET e == [host |-> h, rank |-> ran[h][i]] IN
         /\ ran[h][i] = accepted[h][i]
         /\ ~Has(queue[WorkerOf[h]], e) /\ job[WorkerOf[h]] # e /\ e \notin abandoned

\* The next ones, while the worker takes jobs, are its job and then its queue, in order: the events
\* of h in the queue q are those after the first n of a.
At(h, r) == [host |-> h, rank |-> r]
Lined(h, q, a, n) ==
    /\ \A i \in 1..Len(q), p \in 1..Len(a) : q[i] = At(h, a[p]) => p > n
    /\ \A p \in 1..Len(a) : p > n => \E i \in 1..Len(q) : q[i] = At(h, a[p])
    /\ \A i, j \in 1..Len(q), p, r \in 1..Len(a) :
         q[i] = At(h, a[p]) /\ q[j] = At(h, a[r]) /\ i < j => p < r

Mine(h) == job[WorkerOf[h]] # None /\ job[WorkerOf[h]].host = h
Base(h) == IF Mine(h) THEN Len(ran[h]) + 1 ELSE Len(ran[h])

Coming(h) ==
    WorkerOf[h] \notin returned =>
      /\ Mine(h) => /\ Len(ran[h]) + 1 <= Len(accepted[h])
                    /\ accepted[h][Len(ran[h]) + 1] = job[WorkerOf[h]].rank
      /\ Lined(h, queue[WorkerOf[h]], accepted[h], Base(h))

OrderInv ==
    /\ Typed
    /\ \A h \in Host : Ordered(h) /\ Past(h) /\ Coming(h)
    /\ \A g \in going : Sent(g)
    /\ \A w \in Worker : Placed(w)
    /\ \A e \in abandoned : Aside(e)

Gone == Emitted \ (Waiting \cup Live \cup Processed)
Counted ==
    /\ IsFiniteSet(Live) /\ pending = Cardinality(Live)
    /\ IsFiniteSet(Gone) /\ dropped = Cardinality(Gone)

HookInv == OrderInv /\ Counted

-----------------------------------------------------------------------------
(* Sequences and counting *)

\* Bounds of positions.
LEMMA OneMore ==
  ASSUME NEW n \in Nat
  PROVE  /\ n + 1 \in Nat /\ n + 1 >= n /\ n >= n
         /\ \A i \in 1..(n + 1) : i \in 1..n \/ i = n + 1
OBVIOUS

LEMMA Within ==
  ASSUME NEW l \in Nat, NEW c \in Nat, l <= c
  PROVE  /\ \A d \in Nat : d >= c => l <= d
         /\ \A i \in 1..l : i \in 1..c
OBVIOUS

LEMMA NextWithin ==
  ASSUME NEW l \in Nat, NEW n \in Nat, l + 1 <= n
  PROVE  l + 1 \in 1..n /\ l + 1 <= n + 1 /\ l + 1 \in Nat
OBVIOUS

LEMMA LenNat == ASSUME NEW S, NEW s \in Seq(S) PROVE Len(s) \in Nat
OBVIOUS

LEMMA AppendFacts ==
  ASSUME NEW S, NEW s \in Seq(S), NEW x \in S
  PROVE  /\ Append(s, x) \in Seq(S) /\ Len(s) \in Nat /\ Len(Append(s, x)) = Len(s) + 1
         /\ \A i \in 1..Len(s) : Append(s, x)[i] = s[i]
         /\ Append(s, x)[Len(s) + 1] = x
OBVIOUS

LEMMA AppendHas ==
  ASSUME NEW S, NEW s \in Seq(S), NEW x \in S, NEW y
  PROVE  Has(Append(s, x), y) <=> Has(s, y) \/ y = x
<1> DEFINE t == Append(s, x)
<1>1. /\ Len(s) \in Nat /\ Len(t) = Len(s) + 1 /\ \A i \in 1..Len(s) : t[i] = s[i]
      /\ t[Len(s) + 1] = x
  BY AppendFacts
<1> HIDE DEF t
<1>2. ASSUME Has(t, y) PROVE Has(s, y) \/ y = x
  <2>1. PICK i \in 1..Len(t) : t[i] = y
    BY <1>2, Zenon DEF Has
  <2>2. i = Len(s) + 1 \/ i \in 1..Len(s)
    BY <1>1, <2>1
  <2> QED BY <1>1, <2>1, <2>2, Zenon DEF Has
<1>3. ASSUME Has(s, y) PROVE Has(t, y)
  <2>1. PICK i \in 1..Len(s) : s[i] = y
    BY <1>3, Zenon DEF Has
  <2>2. i \in 1..Len(t)
    BY <1>1, <2>1
  <2> QED BY <1>1, <2>1, <2>2, Zenon DEF Has
<1>4. Has(t, x)
  <2>1. Len(s) + 1 \in 1..Len(t)
    BY <1>1
  <2> QED BY <1>1, <2>1, Zenon DEF Has
<1> QED BY <1>2, <1>3, <1>4, Zenon DEF t

LEMMA TailFacts ==
  ASSUME NEW S, NEW s \in Seq(S), s # <<>>
  PROVE  /\ Tail(s) \in Seq(S) /\ Len(s) \in Nat /\ Len(s) >= 1 /\ Len(Tail(s)) = Len(s) - 1
         /\ Head(s) = s[1] /\ Head(s) \in S
         /\ \A i \in 1..(Len(s) - 1) : Tail(s)[i] = s[i + 1]
OBVIOUS

LEMMA TailHas ==
  ASSUME NEW S, NEW s \in Seq(S), s # <<>>, NEW y
  PROVE  Has(s, y) <=> y = Head(s) \/ Has(Tail(s), y)
<1> DEFINE t == Tail(s)
<1>1. /\ Len(s) \in Nat /\ Len(s) >= 1 /\ Len(t) = Len(s) - 1 /\ Head(s) = s[1]
      /\ \A i \in 1..(Len(s) - 1) : t[i] = s[i + 1]
  BY TailFacts, Zenon
<1> HIDE DEF t
<1>2. ASSUME Has(s, y) PROVE y = Head(s) \/ Has(t, y)
  <2>1. PICK i \in 1..Len(s) : s[i] = y
    BY <1>2, Zenon DEF Has
  <2>2. CASE i = 1
    BY <1>1, <2>1, <2>2, Zenon
  <2>3. CASE i # 1
    <3>1. i - 1 \in 1..(Len(s) - 1) /\ (i - 1) + 1 = i
      BY <1>1, <2>1, <2>3
    <3>2. t[i - 1] = y
      BY <1>1, <2>1, <3>1, Zenon
    <3> QED BY <1>1, <3>1, <3>2, Zenon DEF Has
  <2> QED BY <2>2, <2>3, Zenon
<1>3. ASSUME Has(t, y) PROVE Has(s, y)
  <2>1. PICK i \in 1..Len(t) : t[i] = y
    BY <1>3, Zenon DEF Has
  <2>2. i + 1 \in 1..Len(s) /\ s[i + 1] = y
    BY <1>1, <2>1
  <2> QED BY <2>2, Zenon DEF Has
<1>4. Has(s, Head(s))
  <2>1. 1 \in 1..Len(s)
    BY <1>1
  <2> QED BY <1>1, <2>1, Zenon DEF Has
<1> QED BY <1>2, <1>3, <1>4, Zenon DEF t

LEMMA TailDistinct ==
  ASSUME NEW S, NEW s \in Seq(S), s # <<>>, \A i, j \in 1..Len(s) : s[i] = s[j] => i = j
  PROVE  /\ ~Has(Tail(s), Head(s))
         /\ \A i, j \in 1..Len(Tail(s)) : Tail(s)[i] = Tail(s)[j] => i = j
<1> DEFINE t == Tail(s)
<1>1. /\ Len(s) \in Nat /\ Len(s) >= 1 /\ Len(t) = Len(s) - 1 /\ Head(s) = s[1]
      /\ \A i \in 1..(Len(s) - 1) : t[i] = s[i + 1]
  BY TailFacts, Zenon
<1> HIDE DEF t
<1>2. ASSUME NEW i \in 1..Len(t) PROVE i + 1 \in 1..Len(s) /\ 1 \in 1..Len(s) /\ t[i] = s[i + 1] /\ i \in Nat
  BY <1>1
<1>3. ASSUME NEW i \in 1..Len(t) PROVE t[i] # Head(s)
  <2>1. i + 1 # 1
    BY <1>2
  <2> QED BY <1>1, <1>2, <2>1, Zenon
<1>4. ASSUME NEW i \in 1..Len(t), NEW j \in 1..Len(t), t[i] = t[j] PROVE i = j
  <2>1. i + 1 = j + 1
    BY <1>2, <1>4, Zenon
  <2> QED BY <1>2, <2>1
<1> QED BY <1>3, <1>4, Zenon DEF t, Has

LEMMA AtFacts == \A h, r, t : At(h, r) = At(h, t) => r = t
BY Zenon DEF At

\* An event of h is accepted, or one of another host enters the same queue.
LEMMA LinedAccept ==
  ASSUME NEW S, NEW q \in Seq(S), NEW T, NEW a \in Seq(T), NEW n \in Nat, n <= Len(a),
         NEW h, NEW r \in T, At(h, r) \in S, ~Has(a, r), ~Has(q, At(h, r)), Lined(h, q, a, n)
  PROVE  Lined(h, Append(q, At(h, r)), Append(a, r), n)
<1> DEFINE qq == Append(q, At(h, r))
           aa == Append(a, r)
<1>1. PICK k, c : k = Len(q) /\ c = Len(a)
  BY Zenon
<1>2. k \in Nat /\ Len(qq) = k + 1 /\ (\A i \in 1..k : qq[i] = q[i]) /\ qq[k + 1] = At(h, r)
  BY <1>1, AppendFacts
<1>3. c \in Nat /\ Len(aa) = c + 1 /\ (\A i \in 1..c : aa[i] = a[i]) /\ aa[c + 1] = r
  BY <1>1, AppendFacts
<1> HIDE DEF qq, aa
<1>4. \A i \in 1..(k + 1) : i \in 1..k \/ i = k + 1
  BY <1>2
<1>5. \A i \in 1..(c + 1) : i \in 1..c \/ i = c + 1
  BY <1>3
<1>6. \A i \in 1..k : qq[i] # At(h, r)
  BY <1>1, <1>2, Zenon DEF Has
<1>7. \A p \in 1..c : qq[k + 1] # At(h, aa[p])
  BY <1>1, <1>2, <1>3, AtFacts DEF Has
<1>8. /\ \A i \in 1..k, p \in 1..c : qq[i] = At(h, aa[p]) => p > n
      /\ \A p \in 1..c : p > n => \E i \in 1..k : qq[i] = At(h, aa[p])
      /\ \A i, j \in 1..k, p, t \in 1..c : qq[i] = At(h, aa[p]) /\ qq[j] = At(h, aa[t]) /\ i < j => p < t
  <2>1. /\ \A i \in 1..k, p \in 1..c : q[i] = At(h, a[p]) => p > n
        /\ \A p \in 1..c : p > n => \E i \in 1..k : q[i] = At(h, a[p])
        /\ \A i, j \in 1..k, p, t \in 1..c : q[i] = At(h, a[p]) /\ q[j] = At(h, a[t]) /\ i < j => p < t
    BY <1>1 DEF Lined
  <2> QED BY <1>2, <1>3, <2>1
<1>9. ASSUME NEW i \in 1..(k + 1), NEW p \in 1..(c + 1), qq[i] = At(h, aa[p])
      PROVE  (i \in 1..k /\ p \in 1..c) \/ (i = k + 1 /\ p = c + 1)
  BY <1>3, <1>4, <1>5, <1>6, <1>7, <1>9, Zenon
<1>10. ASSUME NEW i \in 1..(k + 1), NEW p \in 1..(c + 1), qq[i] = At(h, aa[p]) PROVE p > n
  <2>1. CASE i \in 1..k /\ p \in 1..c
    BY <1>8, <1>10, <2>1, Zenon
  <2>2. CASE p = c + 1
    BY <1>1, <1>3, <2>2
  <2> QED BY <1>9, <1>10, <2>1, <2>2, Zenon
<1>11. ASSUME NEW p \in 1..(c + 1), p > n PROVE \E i \in 1..(k + 1) : qq[i] = At(h, aa[p])
  <2>1. CASE p \in 1..c
    <3>1. PICK i \in 1..k : qq[i] = At(h, aa[p])
      BY <1>8, <1>11, <2>1, Zenon
    <3>2. i \in 1..(k + 1)
      BY <1>2
    <3> QED BY <3>1, <3>2, Zenon
  <2>2. CASE p = c + 1
    <3>1. k + 1 \in 1..(k + 1)
      BY <1>2
    <3> QED BY <1>2, <1>3, <2>2, <3>1, Zenon
  <2> QED BY <1>5, <2>1, <2>2, Zenon
<1>12. ASSUME NEW i \in 1..(k + 1), NEW j \in 1..(k + 1), NEW p \in 1..(c + 1), NEW t \in 1..(c + 1),
              qq[i] = At(h, aa[p]), qq[j] = At(h, aa[t]), i < j
       PROVE  p < t
  <2>1. CASE j \in 1..k /\ t \in 1..c
    <3>1. i \in 1..k /\ p \in 1..c
      BY <1>2, <1>9, <1>12, <2>1
    <3> QED BY <1>8, <1>12, <2>1, <3>1, Zenon
  <2>2. CASE j = k + 1 /\ t = c + 1
    <3>1. i \in 1..k /\ p \in 1..c
      BY <1>2, <1>9, <1>12, <2>2
    <3> QED BY <1>3, <2>2, <3>1
  <2> QED BY <1>9, <1>12, <2>1, <2>2, Zenon
<1>13. Lined(h, qq, aa, n)
  BY <1>2, <1>3, <1>10, <1>11, <1>12 DEF Lined
<1> QED BY <1>13, Zenon DEF qq, aa

LEMMA LinedOther ==
  ASSUME NEW S, NEW q \in Seq(S), NEW a, NEW n, NEW h, NEW x \in S, \A r : x # At(h, r), Lined(h, q, a, n)
  PROVE  Lined(h, Append(q, x), a, n)
<1> DEFINE qq == Append(q, x)
<1>1. PICK k : k = Len(q)
  BY Zenon
<1>2. k \in Nat /\ Len(qq) = k + 1 /\ (\A i \in 1..k : qq[i] = q[i]) /\ qq[k + 1] = x
  BY <1>1, AppendFacts
<1> HIDE DEF qq
<1>3. \A i \in 1..(k + 1) : \A r : qq[i] = At(h, r) => i \in 1..k /\ qq[i] = q[i]
  BY <1>2
<1>4. \A i \in 1..k : i \in 1..(k + 1)
  BY <1>2
<1>5. \A i \in 1..Len(qq), p \in 1..Len(a) : qq[i] = At(h, a[p]) => p > n
  BY <1>1, <1>2, <1>3 DEF Lined
<1>6. \A p \in 1..Len(a) : p > n => \E i \in 1..Len(qq) : qq[i] = At(h, a[p])
  BY <1>1, <1>2, <1>4, Zenon DEF Lined
<1>7. \A i, j \in 1..Len(qq), p, r \in 1..Len(a) :
         qq[i] = At(h, a[p]) /\ qq[j] = At(h, a[r]) /\ i < j => p < r
  BY <1>1, <1>2, <1>3 DEF Lined
<1>8. Lined(h, qq, a, n)
  BY <1>5, <1>6, <1>7, Zenon DEF Lined
<1> QED BY <1>8, Zenon DEF qq

\* The head of the queue leaves it: an event of another host, or the next one of h.
LEMMA LinedTail ==
  ASSUME NEW S, NEW q \in Seq(S), q # <<>>, NEW a, NEW n, NEW h, \A r : Head(q) # At(h, r), Lined(h, q, a, n)
  PROVE  Lined(h, Tail(q), a, n)
<1> DEFINE t == Tail(q)
<1>1. PICK k : k = Len(q)
  BY Zenon
<1>2. k \in Nat /\ k >= 1 /\ Len(t) = k - 1 /\ Head(q) = q[1] /\ \A i \in 1..(k - 1) : t[i] = q[i + 1]
  BY <1>1, TailFacts, Zenon
<1> HIDE DEF t
<1>3. \A i \in 1..(k - 1) : i + 1 \in 1..k
  BY <1>2
<1>4. \A i \in 1..k : i # 1 => i - 1 \in 1..(k - 1) /\ (i - 1) + 1 = i
  BY <1>2
<1>5. \A i \in 1..Len(t), p \in 1..Len(a) : t[i] = At(h, a[p]) => p > n
  BY <1>1, <1>2, <1>3 DEF Lined
<1>6. ASSUME NEW p \in 1..Len(a), p > n PROVE \E i \in 1..Len(t) : t[i] = At(h, a[p])
  <2>1. PICK i \in 1..k : q[i] = At(h, a[p])
    BY <1>1, <1>6, Zenon DEF Lined
  <2>2. i # 1
    BY <1>2, <2>1, Zenon
  <2>3. i - 1 \in 1..Len(t) /\ t[i - 1] = At(h, a[p])
    BY <1>2, <1>4, <2>1, <2>2, Zenon
  <2> QED BY <2>3, Zenon
<1>7. ASSUME NEW i \in 1..Len(t), NEW j \in 1..Len(t), NEW p \in 1..Len(a), NEW r \in 1..Len(a),
             t[i] = At(h, a[p]), t[j] = At(h, a[r]), i < j
      PROVE  p < r
  <2>1. i + 1 \in 1..Len(q) /\ j + 1 \in 1..Len(q) /\ i + 1 < j + 1
    BY <1>1, <1>2, <1>3, <1>7
  <2>2. q[i + 1] = At(h, a[p]) /\ q[j + 1] = At(h, a[r])
    BY <1>2, <1>7, Zenon
  <2> QED BY <2>1, <2>2, Zenon DEF Lined
<1>8. Lined(h, t, a, n)
  BY <1>5, <1>6, <1>7, Zenon DEF Lined
<1> QED BY <1>8, Zenon DEF t

LEMMA LinedTake ==
  ASSUME NEW S, NEW q \in Seq(S), q # <<>>, NEW T, NEW a \in Seq(T), NEW n \in Nat, NEW h, NEW r,
         Head(q) = At(h, r), Has(a, r), \A i, j \in 1..Len(a) : a[i] = a[j] => i = j, Lined(h, q, a, n)
  PROVE  n + 1 <= Len(a) /\ a[n + 1] = r /\ Lined(h, Tail(q), a, n + 1)
<1> DEFINE t == Tail(q)
<1>1. PICK k, c : k = Len(q) /\ c = Len(a)
  BY Zenon
<1>2. k \in Nat /\ k >= 1 /\ Len(t) = k - 1 /\ Head(q) = q[1] /\ \A i \in 1..(k - 1) : t[i] = q[i + 1]
  BY <1>1, TailFacts, Zenon
<1> HIDE DEF t
<1>3. \A i \in 1..(k - 1) : i + 1 \in 1..k /\ 1 < i + 1
  BY <1>2
<1>4. \A i \in 1..k : i # 1 => i - 1 \in 1..(k - 1) /\ (i - 1) + 1 = i /\ 1 < i
  BY <1>2
<1>5. c \in Nat /\ 1 \in 1..k
  BY <1>1, <1>2
<1>6. /\ \A i \in 1..k, p \in 1..c : q[i] = At(h, a[p]) => p > n
      /\ \A p \in 1..c : p > n => \E i \in 1..k : q[i] = At(h, a[p])
      /\ \A i, j \in 1..k, p, u \in 1..c : q[i] = At(h, a[p]) /\ q[j] = At(h, a[u]) /\ i < j => p < u
  BY <1>1 DEF Lined
<1>7. PICK p \in 1..c : a[p] = r
  BY <1>1, Zenon DEF Has
<1>8. q[1] = At(h, a[p]) /\ p > n
  BY <1>2, <1>5, <1>6, <1>7, Zenon
<1>9. n + 1 \in 1..c /\ n + 1 > n /\ n + 1 <= p
  BY <1>5, <1>8
<1>10. p = n + 1
  <2>1. PICK i \in 1..k : q[i] = At(h, a[n + 1])
    BY <1>6, <1>9, Zenon
  <2>2. CASE i = 1
    <3>1. a[n + 1] = a[p]
      BY <1>8, <2>1, <2>2, AtFacts, Zenon
    <3> QED BY <1>1, <1>9, <3>1, Zenon
  <2>3. CASE i # 1
    <3>1. 1 < i
      BY <1>4, <2>3, Zenon
    <3>2. p < n + 1
      BY <1>5, <1>6, <1>8, <1>9, <2>1, <3>1, Zenon
    <3> QED BY <1>9, <3>2
  <2> QED BY <2>2, <2>3, Zenon
<1>11. ASSUME NEW i \in 1..Len(t), NEW u \in 1..c, t[i] = At(h, a[u]) PROVE u > n + 1
  <2>1. i + 1 \in 1..k /\ 1 < i + 1 /\ q[i + 1] = At(h, a[u])
    BY <1>2, <1>3, <1>11, Zenon
  <2> QED BY <1>5, <1>6, <1>8, <1>10, <2>1, Zenon
<1>12. ASSUME NEW u \in 1..c, u > n + 1 PROVE \E i \in 1..Len(t) : t[i] = At(h, a[u])
  <2>1. u > n
    BY <1>12
  <2>2. PICK i \in 1..k : q[i] = At(h, a[u])
    BY <1>6, <2>1, Zenon
  <2>3. i # 1
    <3>1. ASSUME i = 1 PROVE FALSE
      <4>1. a[u] = a[p]
        BY <1>8, <2>2, <3>1, AtFacts, Zenon
      <4>2. u = p
        BY <1>1, <4>1, Zenon
      <4> QED BY <1>10, <1>12, <4>2
    <3> QED BY <3>1, Zenon
  <2>4. i - 1 \in 1..Len(t) /\ t[i - 1] = At(h, a[u])
    BY <1>2, <1>4, <2>2, <2>3, Zenon
  <2> QED BY <2>4, Zenon
<1>13. ASSUME NEW i \in 1..Len(t), NEW j \in 1..Len(t), NEW u \in 1..c, NEW v \in 1..c,
              t[i] = At(h, a[u]), t[j] = At(h, a[v]), i < j
       PROVE  u < v
  <2>1. i + 1 \in 1..k /\ j + 1 \in 1..k /\ i + 1 < j + 1
    BY <1>2, <1>3, <1>13
  <2>2. q[i + 1] = At(h, a[u]) /\ q[j + 1] = At(h, a[v])
    BY <1>2, <1>13, Zenon
  <2> QED BY <1>6, <2>1, <2>2, Zenon
<1>14. Lined(h, t, a, n + 1)
  BY <1>1, <1>11, <1>12, <1>13, Zenon DEF Lined
<1>15. n + 1 <= Len(a) /\ a[n + 1] = r
  BY <1>1, <1>5, <1>7, <1>9, <1>10
<1> QED BY <1>14, <1>15, Zenon DEF t

\* One element more, one less, and two sets put together.
LEMMA AddOne ==
  ASSUME NEW S, NEW T, NEW x, NEW n, IsFiniteSet(S), n = Cardinality(S), x \notin S,
         \A y : y \in T <=> y \in S \/ y = x
  PROVE  IsFiniteSet(T) /\ n + 1 = Cardinality(T)
<1>1. T = S \cup {x}
  BY Zenon
<1> QED BY <1>1, FS_AddElement, Zenon

LEMMA RemoveOne ==
  ASSUME NEW S, NEW T, NEW x, NEW n, IsFiniteSet(S), n = Cardinality(S), x \in S,
         \A y : y \in T <=> y \in S /\ y # x
  PROVE  IsFiniteSet(T) /\ n - 1 = Cardinality(T)
<1>1. T = S \ {x}
  BY Zenon
<1> QED BY <1>1, FS_RemoveElement, Zenon

LEMMA AddAll ==
  ASSUME NEW S, NEW L, NEW T, NEW n, IsFiniteSet(S), n = Cardinality(S), IsFiniteSet(L),
         \A y : ~(y \in S /\ y \in L), \A y : y \in T <=> y \in S \/ y \in L
  PROVE  IsFiniteSet(T) /\ n + Cardinality(L) = Cardinality(T)
<1>1. T = S \cup L /\ S \cap L = {}
  BY Zenon
<1>2. Cardinality(S) \in Nat /\ Cardinality(L) \in Nat
  BY FS_CardinalityType, Zenon
<1> QED BY <1>1, <1>2, FS_Union, FS_EmptySet

-----------------------------------------------------------------------------
(* Where an event is *)

Alive(e) ==
    /\ e \in Event
    /\ Has(queue[WorkerOf[e.host]], e) \/ job[WorkerOf[e.host]] = e \/ e \in abandoned
Done(e) == e \in Event /\ Has(ran[e.host], e.rank)
Waits(e) == \E g \in going : Ev(g) = e
Lost(e) == e \in Event /\ e.rank <= emitted[e.host] /\ ~Waits(e) /\ ~Alive(e) /\ ~Done(e)

LEMMA HasIn == ASSUME NEW S, NEW s \in Seq(S), NEW x PROVE x \in ToSet(s) <=> Has(s, x)
<1>1. DOMAIN s = 1..Len(s)
  OBVIOUS
<1> QED BY <1>1, Zenon DEF ToSet, Has

LEMMA HasType == ASSUME NEW S, NEW s \in Seq(S), NEW x, Has(s, x) PROVE x \in S
BY DEF Has

LEMMA EventType ==
  ASSUME Pool, NEW e \in Event
  PROVE  /\ e.host \in Host /\ e.rank \in 1..MaxEvent /\ WorkerOf[e.host] \in Worker /\ e # None
         /\ e = [host |-> e.host, rank |-> e.rank] /\ e.rank \in Nat
BY DEF Pool, Event

Located == \A e : (e \in Live <=> Alive(e)) /\ (e \in Gone <=> Lost(e))

LEMMA RanType ==
  ASSUME OrderInv, NEW k \in Host, NEW i \in 1..Len(ran[k]) PROVE [host |-> k, rank |-> ran[k][i]] \in Event
<1>1. PICK S : S = 1..MaxEvent
  BY Zenon
<1>2. ran[k] \in Seq(S)
  BY <1>1, Zenon DEF OrderInv, Typed, Ranks
<1>3. ran[k][i] \in S
  BY <1>2
<1> QED BY <1>1, <1>3, Zenon DEF Event

LEMMA PlacedHas ==
  ASSUME NEW w, Placed(w), NEW e, Has(queue[w], e)
  PROVE  WorkerOf[e.host] = w /\ Has(accepted[e.host], e.rank)
<1>1. PICK i \in 1..Len(queue[w]) : queue[w][i] = e
  BY Zenon DEF Has
<1>2. WorkerOf[queue[w][i].host] = w /\ Has(accepted[queue[w][i].host], queue[w][i].rank)
  BY Zenon DEF Placed
<1> QED BY <1>1, <1>2, Zenon

LEMMA LiveIn == OrderInv => Located
<1> SUFFICES ASSUME OrderInv, NEW e PROVE (e \in Live <=> Alive(e)) /\ (e \in Gone <=> Lost(e))
  BY Zenon DEF Located
<1>1. Pool /\ \A w \in Worker : queue[w] \in Seq(Event) /\ job[w] \in Jobs
  BY Zenon DEF OrderInv, Typed, Events
<1>2. e \in Queued <=> \E w \in Worker : Has(queue[w], e)
  BY <1>1, HasIn, Zenon DEF Queued
<1>3. ASSUME e \in Queued PROVE e \in Event /\ Has(queue[WorkerOf[e.host]], e)
  <2>1. PICK w \in Worker : Has(queue[w], e)
    BY <1>2, <1>3, Zenon
  <2>2. PICK i \in 1..Len(queue[w]) : queue[w][i] = e
    BY <2>1, Zenon DEF Has
  <2>3. WorkerOf[e.host] = w
    BY <2>2, Zenon DEF OrderInv, Placed
  <2> QED BY <1>1, <2>1, <2>3, HasType, Zenon
<1>4. ASSUME e \in Running PROVE e \in Event /\ job[WorkerOf[e.host]] = e
  <2>1. PICK w \in Worker : job[w] = e /\ e # None
    BY <1>4, Zenon DEF Running
  <2>2. WorkerOf[e.host] = w
    BY <2>1, Zenon DEF OrderInv, Placed
  <2> QED BY <1>1, <2>1, <2>2, Zenon DEF Jobs
<1>5. abandoned \subseteq Event
  BY Zenon DEF OrderInv, Typed
<1>6. ASSUME e \in Event, job[WorkerOf[e.host]] = e PROVE e \in Running
  BY <1>1, <1>6, EventType, Zenon DEF Running
<1>7. e \in Live <=> Alive(e)
  <2>1. ASSUME e \in Live PROVE Alive(e)
    BY <2>1, <1>3, <1>4, <1>5, Zenon DEF Live, Alive
  <2>2. ASSUME Alive(e) PROVE e \in Live
    <3>1. e \in Event /\ WorkerOf[e.host] \in Worker
      BY <1>1, <2>2, EventType, Zenon DEF Alive
    <3> QED BY <1>2, <1>6, <2>2, <3>1, Zenon DEF Live, Alive
  <2> QED BY <2>1, <2>2, Zenon
<1>8. e \in Waiting <=> Waits(e)
  BY Zenon DEF Waiting, Waits, Ev
<1>9. e \in Processed <=> Done(e)
  <2>1. CASE e \in Event
    <3>1. ran[e.host] \in Seq(1..MaxEvent)
      BY <1>1, <2>1, EventType, Zenon DEF OrderInv, Typed, Ranks
    <3>2. e.rank \in ToSet(ran[e.host]) <=> Has(ran[e.host], e.rank)
      BY <3>1, HasIn, Zenon
    <3> QED BY <2>1, <3>2, Zenon DEF Processed, Done
  <2>2. CASE e \notin Event
    BY <2>2, Zenon DEF Processed, Done
  <2> QED BY <2>1, <2>2, Zenon
<1>10. e \in Emitted <=> e \in Event /\ e.rank <= emitted[e.host]
  BY Zenon DEF Emitted
<1> QED BY <1>7, <1>8, <1>9, <1>10, Zenon DEF Gone, Lost

LEMMA LiveInNext == OrderInv' => Located'
BY LiveIn, PTL

\* What the counters become when an event is lost, enters the queue or leaves it, and otherwise.
LEMMA CountSame ==
  ASSUME HookInv, OrderInv', \A e : Alive(e)' <=> Alive(e), \A e : Lost(e)' <=> Lost(e),
         pending' = pending, dropped' = dropped
  PROVE  HookInv'
<1>1. Live' = Live /\ Gone' = Gone
  BY LiveIn, LiveInNext, Zenon DEF Located, HookInv
<1> QED BY <1>1, Zenon DEF HookInv, Counted

LEMMA CountLost ==
  ASSUME HookInv, OrderInv', NEW x, ~Lost(x), \A e : Alive(e)' <=> Alive(e),
         \A e : Lost(e)' <=> Lost(e) \/ e = x, pending' = pending, dropped' = dropped + 1
  PROVE  HookInv'
<1>1. Live' = Live
  BY LiveIn, LiveInNext, Zenon DEF Located, HookInv
<1>2. IsFiniteSet(Gone') /\ dropped + 1 = Cardinality(Gone')
  <2>1. IsFiniteSet(Gone) /\ dropped = Cardinality(Gone) /\ x \notin Gone
        /\ \A y : y \in Gone' <=> y \in Gone \/ y = x
    BY LiveIn, LiveInNext, Zenon DEF Located, HookInv, Counted
  <2> QED BY <2>1, AddOne, Zenon
<1> QED BY <1>1, <1>2, Zenon DEF HookInv, Counted

LEMMA CountIn ==
  ASSUME HookInv, OrderInv', NEW x, ~Alive(x), \A e : Alive(e)' <=> Alive(e) \/ e = x,
         \A e : Lost(e)' <=> Lost(e), pending' = pending + 1, dropped' = dropped
  PROVE  HookInv'
<1>1. Gone' = Gone
  BY LiveIn, LiveInNext, Zenon DEF Located, HookInv
<1>2. IsFiniteSet(Live') /\ pending + 1 = Cardinality(Live')
  <2>1. IsFiniteSet(Live) /\ pending = Cardinality(Live) /\ x \notin Live
        /\ \A y : y \in Live' <=> y \in Live \/ y = x
    BY LiveIn, LiveInNext, Zenon DEF Located, HookInv, Counted
  <2> QED BY <2>1, AddOne, Zenon
<1> QED BY <1>1, <1>2, Zenon DEF HookInv, Counted

LEMMA CountOut ==
  ASSUME HookInv, OrderInv', NEW x, Alive(x), \A e : Alive(e)' <=> Alive(e) /\ e # x,
         \A e : Lost(e)' <=> Lost(e), pending' = pending - 1, dropped' = dropped
  PROVE  HookInv'
<1>1. Gone' = Gone
  BY LiveIn, LiveInNext, Zenon DEF Located, HookInv
<1>2. IsFiniteSet(Live') /\ pending - 1 = Cardinality(Live')
  <2>1. IsFiniteSet(Live) /\ pending = Cardinality(Live) /\ x \in Live
        /\ \A y : y \in Live' <=> y \in Live /\ y # x
    BY LiveIn, LiveInNext, Zenon DEF Located, HookInv, Counted
  <2> QED BY <2>1, RemoveOne
<1> QED BY <1>1, <1>2, Zenon DEF HookInv, Counted

-----------------------------------------------------------------------------
(* The goroutines *)

places == <<queue, job, returned, abandoned, accepted, ran>>

\* A step that moves no event: only the goroutines change.
LEMMA OrderSame ==
  ASSUME OrderInv, UNCHANGED places, emitted' \in [Host -> 0..MaxEvent],
         \A h \in Host : emitted[h] <= emitted'[h], \A g \in going' : g \in Goings /\ Sent(g)'
  PROVE  OrderInv'
<1>0. /\ queue' = queue /\ job' = job /\ returned' = returned /\ abandoned' = abandoned
      /\ accepted' = accepted /\ ran' = ran
  BY Zenon DEF places
<1>1. Typed'
  BY <1>0, Zenon DEF OrderInv, Typed, Pool
<1>2. ASSUME NEW h \in Host PROVE Ordered(h)' /\ Past(h)' /\ Coming(h)'
  <2>0. Past(h) /\ Coming(h)
    BY Zenon DEF OrderInv
  <2>1. Past(h)'
    BY <1>0, <2>0, Zenon DEF Past, Has
  <2>3. Coming(h)'
    <3>1. (Mine(h)' <=> Mine(h)) /\ Base(h)' = Base(h)
      BY <1>0, Zenon DEF Mine, Base
    <3>2. Lined(h, queue[WorkerOf[h]], accepted[h], Base(h))'
          <=> Lined(h, queue[WorkerOf[h]], accepted[h], Base(h))
      <4>1. PICK q, a, n : q = queue[WorkerOf[h]] /\ a = accepted[h] /\ n = Base(h)
        BY Zenon
      <4>2. q = queue'[WorkerOf[h]] /\ a = accepted'[h] /\ n = Base(h)'
        BY <1>0, <3>1, <4>1, Zenon
      <4>3. Lined(h, queue[WorkerOf[h]], accepted[h], Base(h)) <=> Lined(h, q, a, n)
        BY <4>1, Zenon
      <4>4. Lined(h, queue[WorkerOf[h]], accepted[h], Base(h))' <=> Lined(h, q, a, n)
        BY <4>2 DEF Lined
      <4> QED BY <4>3, <4>4, Zenon
    <3> QED BY <1>0, <2>0, <3>1, <3>2, Zenon DEF Coming
  <2>2. Ordered(h)'
    <3>1. \A i \in 1..Len(accepted[h]) : accepted[h][i] \in Nat
      BY DEF OrderInv, Typed, Ranks, Pool
    <3>2. emitted[h] \in Nat /\ emitted'[h] \in Nat /\ emitted[h] <= emitted'[h] /\ accepted' = accepted
      BY DEF OrderInv, Typed, Pool, places
    <3>3. Ordered(h)
      BY Zenon DEF OrderInv
    <3>4. PICK a, m, n : a = accepted[h] /\ a = accepted'[h] /\ m = emitted[h] /\ n = emitted'[h]
      BY <3>2, Zenon
    <3>5. (\A i \in 1..Len(a) : a[i] <= m) /\ \A i, j \in 1..Len(a) : a[i] = a[j] => i = j
      BY <3>3, <3>4, Zenon DEF Ordered
    <3>6. \A i \in 1..Len(a) : a[i] \in Nat
      BY <3>1, <3>4, Zenon
    <3>7. m \in Nat /\ n \in Nat /\ m <= n
      BY <3>2, <3>4, Zenon
    <3>8. \A i \in 1..Len(a) : a[i] <= n
      BY <3>5, <3>6, <3>7
    <3> QED BY <3>4, <3>5, <3>8, Zenon DEF Ordered
  <2> QED BY <2>1, <2>2, <2>3, Zenon
<1>3. ASSUME NEW w \in Worker PROVE Placed(w)'
  <2>1. Placed(w)
    BY Zenon DEF OrderInv
  <2> QED BY <1>0, <2>1, Zenon DEF Placed, Has
<1>4. \A e \in abandoned' : Aside(e)'
  BY <1>0, Zenon DEF OrderInv, Aside, Has
<1> QED BY <1>1, <1>2, <1>3, <1>4, Zenon DEF OrderInv

LEMMA PlacesSame ==
  ASSUME UNCHANGED places
  PROVE  \A e : (Alive(e)' <=> Alive(e)) /\ (Done(e)' <=> Done(e))
BY Zenon DEF places, Alive, Done, Has

\* Accepted events have left their goroutines; the others are nowhere yet.
LEMMA NotYet ==
  ASSUME OrderInv, NEW e \in Event, ~Has(accepted[e.host], e.rank)
  PROVE  ~Alive(e) /\ ~Done(e)
<1>1. WorkerOf[e.host] \in Worker /\ e.host \in Host /\ e # None
  BY EventType, Zenon DEF OrderInv, Typed
<1>2. ASSUME Has(queue[WorkerOf[e.host]], e) PROVE FALSE
  <2>1. Placed(WorkerOf[e.host])
    BY <1>1, Zenon DEF OrderInv
  <2> QED BY <1>2, <2>1, PlacedHas, Zenon
<1>3. job[WorkerOf[e.host]] # e
  BY <1>1, Zenon DEF OrderInv, Placed
<1>4. e \notin abandoned
  BY Zenon DEF OrderInv, Aside
<1>5. ~Done(e)
  <2>1. Past(e.host) /\ Len(accepted[e.host]) \in Nat /\ Len(ran[e.host]) \in Nat
    BY <1>1 DEF OrderInv, Typed, Ranks
  <2>2. ASSUME NEW i \in 1..Len(ran[e.host])
        PROVE  i \in 1..Len(accepted[e.host]) /\ ran[e.host][i] = accepted[e.host][i]
    <3>1. Len(ran[e.host]) <= Len(accepted[e.host]) /\ ran[e.host][i] = accepted[e.host][i]
      BY <2>1, Zenon DEF Past
    <3> QED BY <2>1, <3>1
  <2> QED BY <2>2, Zenon DEF Done, Has
<1> QED BY <1>2, <1>3, <1>4, <1>5, Zenon DEF Alive

LEMMA GoingFacts ==
  ASSUME OrderInv, NEW g \in going
  PROVE  /\ g \in Goings /\ g.host \in Host /\ g.rank \in 1..MaxEvent /\ g.rank \in Nat /\ Ev(g) \in Event
         /\ Ev(g).host = g.host /\ Ev(g).rank = g.rank /\ Sent(g)
         /\ Waits(Ev(g)) /\ ~Alive(Ev(g)) /\ ~Done(Ev(g))
<1>1. g \in Goings /\ Sent(g) /\ Pool
  BY Zenon DEF OrderInv, Typed
<1>2. /\ g.host \in Host /\ g.rank \in 1..MaxEvent /\ Ev(g) \in Event
      /\ Ev(g).host = g.host /\ Ev(g).rank = g.rank
  BY <1>1, Zenon DEF Goings, Ev, Event
<1>3. g.rank \in Nat
  BY <1>1, <1>2 DEF Pool
<1>4. ~Alive(Ev(g)) /\ ~Done(Ev(g))
  BY <1>1, <1>2, NotYet, Zenon DEF Sent
<1> QED BY <1>1, <1>2, <1>3, <1>4, Zenon DEF Waits

LEMMA RegisterStep == ASSUME HookInv, NEW h \in Host, RegisterConnection(h) PROVE HookInv'
<1>n. PICK n : n = emitted[h] + 1
  BY Zenon
<1>g. PICK g : g = [host |-> h, rank |-> n, pc |-> "start"]
  BY Zenon
<1>x. PICK x : x = [host |-> h, rank |-> n]
  BY Zenon
<1>0. OrderInv /\ Pool /\ MaxEvent \in Nat
  BY Zenon DEF HookInv, OrderInv, Typed, Pool
<1>1. /\ emitted[h] \in Nat /\ n \in 1..MaxEvent /\ n \in Nat /\ n > emitted[h]
      /\ emitted' \in [Host -> 0..MaxEvent] /\ emitted'[h] = n
      /\ \A k \in Host : k # h => emitted'[k] = emitted[k]
  BY <1>0, <1>n DEF OrderInv, Typed, RegisterConnection
<1>2. UNCHANGED places /\ going' = going \cup {g} /\ pending' = pending /\ dropped' = dropped
  BY <1>g, <1>n, Zenon DEF RegisterConnection, places, work, counters
<1>3. \A k \in Host : emitted[k] \in Nat /\ emitted'[k] \in Nat /\ emitted[k] <= emitted'[k]
  BY <1>0, <1>1 DEF OrderInv, Typed
<1>4. g \in Goings /\ g.host = h /\ g.rank = n /\ Ev(g) = x /\ x \in Event /\ x.host = h /\ x.rank = n
  BY <1>1, <1>g, <1>x, Zenon DEF Goings, Ev, Event
<1>5. ~Has(accepted[h], n)
  <2>1. Ordered(h) /\ \A i \in 1..Len(accepted[h]) : accepted[h][i] \in Nat
    BY <1>0 DEF OrderInv, Typed, Ranks
  <2> QED BY <1>1, <2>1 DEF Ordered, Has
<1>6. ASSUME NEW f \in going PROVE f \in Goings /\ Sent(f)' /\ ~(f.host = h /\ f.rank = n)
  <2>1. f \in Goings /\ f.host \in Host /\ f.rank \in Nat /\ Sent(f)
    BY <1>0, GoingFacts, Zenon
  <2>2. ~(f.host = h /\ f.rank = n)
    BY <1>1, <2>1 DEF Sent
  <2>3. f.rank <= emitted'[f.host]
    BY <1>3, <2>1 DEF Sent
  <2>4. ~Has(accepted'[f.host], f.rank)
    BY <1>2, <2>1, Zenon DEF Sent, places
  <2>5. \A k \in going' : k.host = f.host /\ k.rank = f.rank => k = f
    BY <1>2, <1>4, <2>1, <2>2, Zenon DEF Sent
  <2> QED BY <2>1, <2>2, <2>3, <2>4, <2>5, Zenon DEF Sent
<1>7. Sent(g)'
  <2>1. \A k \in going' : k.host = g.host /\ k.rank = g.rank => k = g
    BY <1>2, <1>4, <1>6, Zenon
  <2>2. g.rank <= emitted'[g.host]
    BY <1>1, <1>4
  <2>3. ~Has(accepted'[g.host], g.rank)
    BY <1>2, <1>4, <1>5, Zenon DEF places
  <2> QED BY <2>1, <2>2, <2>3, Zenon DEF Sent
<1>8. OrderInv'
  <2>1. ASSUME NEW k \in going' PROVE k \in Goings /\ Sent(k)'
    <3>1. CASE k \in going
      BY <1>6, <3>1, Zenon
    <3>2. CASE k = g
      BY <1>4, <1>7, <3>2, Zenon DEF Sent
    <3> QED BY <1>2, <3>1, <3>2, Zenon
  <2> QED BY <1>0, <1>1, <1>2, <1>3, <2>1, OrderSame, Zenon
<1>9. ASSUME NEW e PROVE Lost(e)' <=> Lost(e)
  <2>1. Waits(e)' <=> Waits(e) \/ e = x
    BY <1>2, <1>4, Zenon DEF Waits
  <2>2. CASE e = x
    BY <1>1, <1>4, <2>1, <2>2 DEF Lost
  <2>3. CASE e # x
    <3>1. ASSUME e \in Event PROVE e.rank <= emitted'[e.host] <=> e.rank <= emitted[e.host]
      <4>1. e.host \in Host /\ e.rank \in Nat /\ e = [host |-> e.host, rank |-> e.rank]
        BY <1>0, <3>1, EventType, Zenon
      <4>2. e.host = h => e.rank # n
        BY <2>3, <4>1, <1>x, Zenon
      <4>3. CASE e.host = h
        BY <1>1, <4>1, <4>2, <4>3, <1>n
      <4>4. CASE e.host # h
        BY <1>1, <4>1, <4>4, Zenon
      <4> QED BY <4>3, <4>4, Zenon
    <3> QED BY <1>2, <2>1, <2>3, <3>1, PlacesSame, Zenon DEF Lost
  <2> QED BY <2>2, <2>3, Zenon
<1> QED BY <1>2, <1>8, <1>9, PlacesSame, CountSame, Zenon

LEMMA WaitsLess ==
  ASSUME OrderInv, NEW g \in going, going' = going \ {g}
  PROVE  \A e : Waits(e)' <=> Waits(e) /\ e # Ev(g)
<1>1. ASSUME NEW f \in going, Ev(f) = Ev(g) PROVE f = g
  <2>1. f.host = g.host /\ f.rank = g.rank
    BY <1>1, GoingFacts, Zenon
  <2> QED BY <2>1, GoingFacts, Zenon DEF Sent
<1> QED BY <1>1, Zenon DEF Waits

\* The goroutine ends; its event is lost.
LEMMA DropStep ==
  ASSUME HookInv, NEW g \in going, UNCHANGED <<places, emitted, pending>>, going' = going \ {g},
         dropped' = dropped + 1
  PROVE  HookInv'
<1>0. OrderInv /\ UNCHANGED places
  BY Zenon DEF HookInv
<1>1. OrderInv'
  <2>1. \A h \in Host : emitted'[h] <= emitted[h] /\ emitted[h] <= emitted'[h]
    BY <1>0 DEF OrderInv, Typed, Pool
  <2>2. ASSUME NEW f \in going' PROVE f \in Goings /\ Sent(f)'
    <3>1. f \in Goings /\ Sent(f)
      BY <1>0, GoingFacts, Zenon
    <3> QED BY <3>1, Zenon DEF Sent, places
  <2> QED BY <1>0, <2>1, <2>2, OrderSame, Zenon DEF OrderInv, Typed
<1> DEFINE x == Ev(g)
<1>2. x \in Event /\ x.rank <= emitted[x.host] /\ Waits(x) /\ ~Alive(x) /\ ~Done(x)
  BY <1>0, GoingFacts, Zenon DEF Sent
<1>3. \A e : Waits(e)' <=> Waits(e) /\ e # x
  BY <1>0, WaitsLess, Zenon
<1> HIDE DEF x
<1>4. ASSUME NEW e PROVE Lost(e)' <=> Lost(e) \/ e = x
  BY <1>0, <1>2, <1>3, PlacesSame, Zenon DEF Lost
<1>5. ~Lost(x)
  BY <1>2, Zenon DEF Lost
<1> QED BY <1>0, <1>1, <1>4, <1>5, PlacesSame, CountLost, Zenon

\* Only counters and the state of the stop change, and at most the step a goroutine is at.
LEMMA QuietStep ==
  ASSUME HookInv, UNCHANGED <<places, emitted, going, pending, dropped>>
  PROVE  HookInv'
<1>0. OrderInv /\ UNCHANGED places
  BY Zenon DEF HookInv
<1>1. OrderInv'
  <2>1. \A h \in Host : emitted[h] <= emitted'[h]
    BY <1>0 DEF OrderInv, Typed, Pool
  <2>2. ASSUME NEW f \in going' PROVE f \in Goings /\ Sent(f)'
    <3>1. f \in Goings /\ Sent(f)
      BY <1>0, GoingFacts, Zenon
    <3> QED BY <3>1, Zenon DEF Sent, places
  <2> QED BY <1>0, <2>1, <2>2, OrderSame, Zenon DEF OrderInv, Typed
<1>2. ASSUME NEW e PROVE Lost(e)' <=> Lost(e)
  BY <1>0, PlacesSame, Zenon DEF Lost, Waits
<1> QED BY <1>0, <1>1, <1>2, PlacesSame, CountSame, Zenon

\* A goroutine that read d.stopping as false goes on.
LEMMA CheckedStep ==
  ASSUME HookInv, NEW g \in going, g.pc = "start", UNCHANGED <<places, emitted, pending, dropped>>,
         going' = (going \ {g}) \cup {[g EXCEPT !.pc = "checked"]}
  PROVE  HookInv'
<1>0. OrderInv /\ UNCHANGED places
  BY Zenon DEF HookInv
<1>1. PICK f : f = [g EXCEPT !.pc = "checked"]
  BY Zenon
<1>2. f \in Goings /\ f.host = g.host /\ f.rank = g.rank /\ Ev(f) = Ev(g) /\ Sent(g)
  BY <1>0, <1>1, GoingFacts, Zenon DEF Goings, Ev
<1>3. going' = (going \ {g}) \cup {f}
  BY <1>1, Zenon
<1>4. ASSUME NEW k \in going' PROVE k \in Goings /\ Sent(k)'
  <2>1. CASE k \in going /\ k # g
    <3>1. k \in Goings /\ Sent(k)
      BY <1>0, <2>1, GoingFacts, Zenon
    <3>2. ~(k.host = f.host /\ k.rank = f.rank)
      BY <1>2, <2>1, Zenon DEF Sent
    <3>3. \A j \in going' : j.host = k.host /\ j.rank = k.rank => j = k
      BY <1>3, <3>1, <3>2, Zenon DEF Sent
    <3> QED BY <3>1, <3>3, Zenon DEF Sent, places
  <2>2. CASE k = f
    <3>1. \A j \in going' : j.host = f.host /\ j.rank = f.rank => j = f
      BY <1>2, <1>3, Zenon DEF Sent
    <3>2. f.rank <= emitted'[f.host] /\ ~Has(accepted'[f.host], f.rank)
      BY <1>2, Zenon DEF Sent, places
    <3> QED BY <1>2, <2>2, <3>1, <3>2, Zenon DEF Sent
  <2> QED BY <1>3, <2>1, <2>2, Zenon
<1>5. OrderInv'
  <2>1. \A h \in Host : emitted[h] <= emitted'[h]
    BY <1>0 DEF OrderInv, Typed, Pool
  <2> QED BY <1>0, <1>4, <2>1, OrderSame, Zenon DEF OrderInv, Typed
<1>6. ASSUME NEW e PROVE Lost(e)' <=> Lost(e)
  <2>1. Waits(e)' <=> Waits(e)
    BY <1>2, <1>3, Zenon DEF Waits
  <2> QED BY <1>0, <2>1, PlacesSame, Zenon DEF Lost
<1> QED BY <1>0, <1>5, <1>6, PlacesSame, CountSame, Zenon

LEMMA DispatchStep == ASSUME HookInv, NEW g \in going, DispatchChain(g) PROVE HookInv'
<1>1. UNCHANGED <<places, emitted, pending>> /\ g.pc = "start"
  BY Zenon DEF DispatchChain, places, work
<1>2. CASE going' = going \ {g} /\ dropped' = dropped + 1
  BY <1>1, <1>2, DropStep, Zenon
<1>3. CASE going' = (going \ {g}) \cup {[g EXCEPT !.pc = "checked"]} /\ UNCHANGED dropped
  BY <1>1, <1>3, CheckedStep, Zenon
<1> QED BY <1>2, <1>3, Zenon DEF DispatchChain

\* The event of g enters the queue of its worker w.
Enters(g, x, w) ==
    /\ queue' = [queue EXCEPT ![w] = Append(@, x)]
    /\ accepted' = [accepted EXCEPT ![g.host] = Append(@, g.rank)]

\* What the entry changes: x = (h, r) goes to the end of the queue q of w and r to that of the accepted a.
Room(g, h, r, x, w, q, qq, a, aa, m, n) ==
    /\ /\ Pool /\ x \in Event /\ x = [host |-> h, rank |-> r] /\ x.host = h /\ x.rank = r /\ h \in Host
       /\ r \in 1..MaxEvent /\ r \in Nat /\ Sent(g) /\ w \in Worker /\ w = WorkerOf[h]
       /\ r <= emitted[h] /\ ~Has(accepted[h], r) /\ x # None /\ h = g.host /\ r = g.rank
    /\ q = queue[w] /\ qq = queue'[w] /\ a = accepted[h] /\ aa = accepted'[h]
    /\ /\ \A u \in Worker : u # w => queue'[u] = queue[u]
       /\ \A y \in Host : y # h => accepted'[y] = accepted[y]
       /\ q \in Seq(Event) /\ a \in Seq(1..MaxEvent) /\ qq = Append(q, x) /\ aa = Append(a, r)
    /\ m = Len(q) /\ n = Len(a)
    /\ /\ qq \in Seq(Event) /\ m \in Nat /\ Len(qq) = m + 1 /\ \A i \in 1..m : qq[i] = q[i]
       /\ qq[m + 1] = x
    /\ \A y : Has(qq, y) <=> Has(q, y) \/ y = x
    /\ /\ aa \in Seq(1..MaxEvent) /\ n \in Nat /\ Len(aa) = n + 1 /\ \A i \in 1..n : aa[i] = a[i]
       /\ aa[n + 1] = r
    /\ \A y : Has(aa, y) <=> Has(a, y) \/ y = r

LEMMA RoomOrdered ==
  ASSUME OrderInv, NEW g \in going, UNCHANGED <<job, returned, abandoned, ran, emitted>>,
         NEW h, NEW r, NEW x, NEW w, NEW q, NEW qq, NEW a, NEW aa, NEW m, NEW n,
         Room(g, h, r, x, w, q, qq, a, aa, m, n), NEW k \in Host
  PROVE  Ordered(k)'
<1>0. /\ Pool /\ x \in Event /\ x = [host |-> h, rank |-> r] /\ x.host = h /\ x.rank = r /\ h \in Host
      /\ r \in 1..MaxEvent /\ r \in Nat /\ Sent(g) /\ w \in Worker /\ w = WorkerOf[h]
      /\ r <= emitted[h] /\ ~Has(accepted[h], r) /\ x # None /\ h = g.host /\ r = g.rank
  BY Zenon DEF Room
<1>2. q = queue[w] /\ qq = queue'[w] /\ a = accepted[h] /\ aa = accepted'[h]
  BY Zenon DEF Room
<1>v. /\ \A u \in Worker : u # w => queue'[u] = queue[u]
      /\ \A y \in Host : y # h => accepted'[y] = accepted[y]
      /\ q \in Seq(Event) /\ a \in Seq(1..MaxEvent) /\ qq = Append(q, x) /\ aa = Append(a, r)
  BY Zenon DEF Room
<1>4. /\ aa \in Seq(1..MaxEvent) /\ n \in Nat /\ Len(aa) = n + 1 /\ \A i \in 1..n : aa[i] = a[i]
      /\ aa[n + 1] = r /\ Len(a) = n
  BY Zenon DEF Room
<1>4i. \A i \in 1..(n + 1) : i \in 1..n \/ i = n + 1
  BY <1>4, OneMore, Zenon
<1>7a. \A i \in 1..n : a[i] # r
  BY <1>0, <1>2, <1>4, Zenon DEF Has
<1> QED
  <2>0. Ordered(k)
    BY Zenon DEF OrderInv
  <2>1. CASE k # h
    <3>1. accepted'[k] = accepted[k] /\ emitted' = emitted
      BY <1>v, <2>1, Zenon
    <3> QED BY <2>0, <3>1, Zenon DEF Ordered
  <2>2. CASE k = h
    <3>0. \A i \in 1..n : a[i] <= emitted[h]
      BY <1>2, <1>4, <2>0, <2>2, Zenon DEF Ordered
    <3>1. \A i, j \in 1..n : a[i] = a[j] => i = j
      BY <1>2, <1>4, <2>0, <2>2, Zenon DEF Ordered
    <3>3. \A i \in 1..(n + 1) : aa[i] <= emitted[h]
      BY <1>0, <1>4, <1>4i, <3>0, Zenon
    <3>4. \A i, j \in 1..(n + 1) : aa[i] = aa[j] => i = j
      <4>1. \A i \in 1..n : aa[i] = a[i] /\ aa[i] # aa[n + 1]
        BY <1>4, <1>7a, Zenon
      <4> QED BY <1>4i, <3>1, <4>1, Zenon
    <3>5. accepted'[k] = aa /\ Len(aa) = n + 1 /\ emitted'[k] = emitted[h]
      BY <1>2, <1>4, <2>2, Zenon
    <3> QED BY <3>3, <3>4, <3>5, Zenon DEF Ordered
  <2> QED BY <2>1, <2>2, Zenon

LEMMA RoomPast ==
  ASSUME OrderInv, NEW g \in going, UNCHANGED <<job, returned, abandoned, ran, emitted>>,
         NEW h, NEW r, NEW x, NEW w, NEW q, NEW qq, NEW a, NEW aa, NEW m, NEW n,
         Room(g, h, r, x, w, q, qq, a, aa, m, n), NEW k \in Host
  PROVE  Past(k)'
<1>0. /\ Pool /\ x \in Event /\ x = [host |-> h, rank |-> r] /\ x.host = h /\ x.rank = r /\ h \in Host
      /\ r \in 1..MaxEvent /\ r \in Nat /\ Sent(g) /\ w \in Worker /\ w = WorkerOf[h]
      /\ r <= emitted[h] /\ ~Has(accepted[h], r) /\ x # None /\ h = g.host /\ r = g.rank
  BY Zenon DEF Room
<1>2. q = queue[w] /\ qq = queue'[w] /\ a = accepted[h] /\ aa = accepted'[h]
  BY Zenon DEF Room
<1>v. /\ \A u \in Worker : u # w => queue'[u] = queue[u]
      /\ \A y \in Host : y # h => accepted'[y] = accepted[y]
      /\ q \in Seq(Event) /\ a \in Seq(1..MaxEvent) /\ qq = Append(q, x) /\ aa = Append(a, r)
  BY Zenon DEF Room
<1>m. m = Len(q) /\ n = Len(a)
  BY Zenon DEF Room
<1>3h. \A y : Has(qq, y) <=> Has(q, y) \/ y = x
  BY Zenon DEF Room
<1>4. /\ aa \in Seq(1..MaxEvent) /\ n \in Nat /\ Len(aa) = n + 1 /\ \A i \in 1..n : aa[i] = a[i]
      /\ aa[n + 1] = r /\ Len(a) = n
  BY Zenon DEF Room
<1>1. /\ queue \in [Worker -> Seq(Event)] /\ accepted \in [Host -> Seq(1..MaxEvent)]
      /\ ran \in [Host -> Seq(1..MaxEvent)]
  BY Zenon DEF OrderInv, Typed, Events, Ranks
<1>7. ~Has(q, x) /\ job[w] # x /\ x \notin abandoned /\ ~Done(x)
  <2>1. ~Alive(x) /\ ~Done(x)
    BY <1>0, NotYet, Zenon
  <2> QED BY <1>0, <1>2, <2>1, Zenon DEF Alive
<1> QED
  <2>0. Past(k) /\ Len(ran[k]) \in Nat /\ Len(accepted[k]) \in Nat /\ ran'[k] = ran[k]
    <3>1. ran[k] \in Seq(1..MaxEvent) /\ accepted[k] \in Seq(1..MaxEvent)
      BY <1>1, Zenon
    <3> QED BY <3>1, LenNat, Zenon DEF OrderInv
  <2>l. PICK l, c : l = Len(ran[k]) /\ c = Len(accepted[k])
    BY Zenon
  <2>p. l \in Nat /\ c \in Nat /\ l <= c /\ \A i \in 1..l : ran[k][i] = accepted[k][i]
    BY <2>0, <2>l, Zenon DEF Past
  <2>1. /\ Len(accepted'[k]) \in Nat /\ Len(accepted'[k]) >= c
        /\ \A i \in 1..c : accepted'[k][i] = accepted[k][i]
    <3>1. CASE k = h
      <4>1. accepted'[k] = aa /\ accepted[k] = a /\ c = n
        BY <1>2, <1>m, <2>l, <3>1, Zenon
      <4> QED BY <1>4, <4>1, OneMore, Zenon
    <3>2. CASE k # h
      <4>1. accepted'[k] = accepted[k] /\ Len(accepted'[k]) = c
        BY <1>v, <2>l, <3>2, Zenon
      <4> QED BY <2>p, <4>1, OneMore, Zenon
    <3> QED BY <3>1, <3>2, Zenon
  <2>2. Len(ran'[k]) <= Len(accepted'[k])
    BY <2>0, <2>1, <2>l, <2>p, Within, Zenon
  <2>3. ASSUME NEW i \in 1..Len(ran'[k]) PROVE ran'[k][i] = accepted'[k][i]
    <3>1. i \in 1..l /\ i \in 1..c
      BY <2>0, <2>l, <2>p, Within, Zenon
    <3> QED BY <2>0, <2>1, <2>p, <3>1, Zenon
  <2>4. ASSUME NEW i \in 1..Len(ran'[k]) PROVE ~Has(queue'[WorkerOf[k]], [host |-> k, rank |-> ran'[k][i]])
    <3>1. ~Has(queue[WorkerOf[k]], [host |-> k, rank |-> ran[k][i]])
      BY <2>0, Zenon DEF Past
    <3>2. [host |-> k, rank |-> ran[k][i]] # x
      BY <1>0, <1>7, Zenon DEF Done, Has
    <3>3. WorkerOf[k] \in Worker
      BY <1>0, Zenon DEF Pool
    <3> QED BY <1>2, <1>v, <1>3h, <2>0, <3>1, <3>2, <3>3, Zenon
  <2> QED BY <2>0, <2>2, <2>3, <2>4, Zenon DEF Past

LEMMA RoomComing ==
  ASSUME OrderInv, NEW g \in going, UNCHANGED <<job, returned, abandoned, ran, emitted>>,
         NEW h, NEW r, NEW x, NEW w, NEW q, NEW qq, NEW a, NEW aa, NEW m, NEW n,
         Room(g, h, r, x, w, q, qq, a, aa, m, n), NEW k \in Host
  PROVE  Coming(k)'
<1>0. /\ Pool /\ x \in Event /\ x = [host |-> h, rank |-> r] /\ x.host = h /\ x.rank = r /\ h \in Host
      /\ r \in 1..MaxEvent /\ r \in Nat /\ Sent(g) /\ w \in Worker /\ w = WorkerOf[h]
      /\ r <= emitted[h] /\ ~Has(accepted[h], r) /\ x # None /\ h = g.host /\ r = g.rank
  BY Zenon DEF Room
<1>2. q = queue[w] /\ qq = queue'[w] /\ a = accepted[h] /\ aa = accepted'[h]
  BY Zenon DEF Room
<1>v. /\ \A u \in Worker : u # w => queue'[u] = queue[u]
      /\ \A y \in Host : y # h => accepted'[y] = accepted[y]
      /\ q \in Seq(Event) /\ a \in Seq(1..MaxEvent) /\ qq = Append(q, x) /\ aa = Append(a, r)
  BY Zenon DEF Room
<1>4. /\ aa \in Seq(1..MaxEvent) /\ n \in Nat /\ Len(aa) = n + 1 /\ \A i \in 1..n : aa[i] = a[i]
      /\ aa[n + 1] = r /\ Len(a) = n
  BY Zenon DEF Room
<1>1. /\ queue \in [Worker -> Seq(Event)] /\ accepted \in [Host -> Seq(1..MaxEvent)]
      /\ ran \in [Host -> Seq(1..MaxEvent)]
  BY Zenon DEF OrderInv, Typed, Events, Ranks
<1>7. ~Has(q, x) /\ job[w] # x /\ x \notin abandoned /\ ~Done(x)
  <2>1. ~Alive(x) /\ ~Done(x)
    BY <1>0, NotYet, Zenon
  <2> QED BY <1>0, <1>2, <2>1, Zenon DEF Alive
<1> QED
  <2> SUFFICES ASSUME WorkerOf[k] \notin returned PROVE Coming(k)'
    BY Zenon DEF Coming
  <2>0. Coming(k) /\ Past(k) /\ ran' = ran /\ job' = job /\ WorkerOf[k] \in Worker
    BY <1>0, Zenon DEF OrderInv, Pool
  <2>1. (Mine(k)' <=> Mine(k)) /\ Base(k)' = Base(k)
    BY <2>0, Zenon DEF Mine, Base
  <2>2. PICK l, b : l = Len(ran[k]) /\ b = Base(k)
    BY Zenon
  <2>3. l \in Nat /\ b = (IF Mine(k) THEN l + 1 ELSE l) /\ l <= Len(accepted[k])
    <3>1. ran[k] \in Seq(1..MaxEvent)
      BY <1>1, Zenon
    <3> QED BY <2>0, <2>2, <3>1, LenNat, Zenon DEF Base, Past
  <2>4. Mine(k) => l + 1 <= Len(accepted[k]) /\ accepted[k][l + 1] = job[WorkerOf[k]].rank
    BY <2>0, <2>2, Zenon DEF Coming
  <2>5. Lined(k, queue[WorkerOf[k]], accepted[k], b)
    BY <2>0, <2>2, Zenon DEF Coming
  <2>6. Mine(k) => l + 1 <= Len(accepted'[k]) /\ accepted'[k][l + 1] = job[WorkerOf[k]].rank
    <3>1. CASE k # h
      BY <1>v, <2>4, <3>1, Zenon
    <3>2. CASE k = h
      <4>1. accepted[k] = a /\ accepted'[k] = aa
        BY <1>2, <3>2, Zenon
      <4>2. ASSUME Mine(k) PROVE l + 1 \in 1..n /\ l + 1 <= n + 1 /\ a[l + 1] = job[WorkerOf[k]].rank
        BY <1>4, <2>3, <2>4, <4>1, <4>2, NextWithin, Zenon
      <4> QED BY <1>4, <4>1, <4>2, Zenon
    <3> QED BY <3>1, <3>2, Zenon
  <2>7. Lined(k, queue'[WorkerOf[k]], accepted'[k], b)
    <3>1. CASE k = h
      <4>1. /\ WorkerOf[k] = w /\ queue[WorkerOf[k]] = q /\ queue'[WorkerOf[k]] = qq
            /\ accepted[k] = a /\ accepted'[k] = aa /\ x = At(k, r)
        BY <1>0, <1>2, <3>1, Zenon DEF At
      <4>2. b \in Nat /\ b <= Len(a)
        <5>1. n \in Nat /\ Len(accepted[k]) = n /\ Len(a) = n
          BY <1>4, <4>1, Zenon
        <5>2. l \in Nat /\ l <= n /\ (Mine(k) => l + 1 <= n)
          BY <2>3, <2>4, <5>1, Zenon
        <5>3. (b = l + 1 /\ l + 1 <= n) \/ b = l
          BY <2>3, <5>2, Zenon
        <5> QED BY <5>1, <5>2, <5>3, NextWithin, Zenon
      <4>3. At(k, r) \in Event /\ ~Has(a, r) /\ ~Has(q, At(k, r)) /\ Lined(k, q, a, b)
        BY <1>0, <1>2, <1>7, <2>5, <4>1, Zenon
      <4>4. Lined(k, Append(q, At(k, r)), Append(a, r), b)
        <5>1. PICK S : S = 1..MaxEvent
          BY Zenon
        <5>2. a \in Seq(S) /\ r \in S /\ q \in Seq(Event)
          BY <1>0, <1>v, <5>1, Zenon
        <5> QED BY <4>2, <4>3, <5>2, LinedAccept, Zenon
      <4> QED BY <1>v, <4>1, <4>4, Zenon
    <3>2. CASE k # h /\ WorkerOf[k] = w
      <4>1. /\ queue[WorkerOf[k]] = q /\ queue'[WorkerOf[k]] = qq /\ accepted'[k] = accepted[k]
        BY <1>2, <1>v, <3>2, Zenon
      <4>2. \A y : x # At(k, y)
        BY <1>0, <3>2, Zenon DEF At
      <4>3. Lined(k, Append(q, x), accepted[k], b)
        BY <1>0, <1>v, <2>5, <4>1, <4>2, LinedOther, Zenon
      <4> QED BY <1>v, <4>1, <4>3, Zenon
    <3>3. CASE k # h /\ WorkerOf[k] # w
      <4>1. queue'[WorkerOf[k]] = queue[WorkerOf[k]] /\ accepted'[k] = accepted[k]
        BY <1>v, <2>0, <3>3, Zenon
      <4> QED BY <2>5, <4>1, Zenon
    <3> QED BY <3>1, <3>2, <3>3, Zenon
  <2>8. Base(k)' = b /\ Len(ran'[k]) = l /\ (Mine(k)' <=> Mine(k)) /\ job'[WorkerOf[k]] = job[WorkerOf[k]]
    BY <2>0, <2>1, <2>2, Zenon
  <2> QED BY <2>6, <2>7, <2>8, Zenon DEF Coming

LEMMA RoomPlaced ==
  ASSUME OrderInv, NEW g \in going, UNCHANGED <<job, returned, abandoned, ran, emitted>>,
         NEW h, NEW r, NEW x, NEW w, NEW q, NEW qq, NEW a, NEW aa, NEW m, NEW n,
         Room(g, h, r, x, w, q, qq, a, aa, m, n), NEW v \in Worker
  PROVE  Placed(v)'
<1>0. /\ Pool /\ x \in Event /\ x = [host |-> h, rank |-> r] /\ x.host = h /\ x.rank = r /\ h \in Host
      /\ r \in 1..MaxEvent /\ r \in Nat /\ Sent(g) /\ w \in Worker /\ w = WorkerOf[h]
      /\ r <= emitted[h] /\ ~Has(accepted[h], r) /\ x # None /\ h = g.host /\ r = g.rank
  BY Zenon DEF Room
<1>2. q = queue[w] /\ qq = queue'[w] /\ a = accepted[h] /\ aa = accepted'[h]
  BY Zenon DEF Room
<1>v. /\ \A u \in Worker : u # w => queue'[u] = queue[u]
      /\ \A y \in Host : y # h => accepted'[y] = accepted[y]
      /\ q \in Seq(Event) /\ a \in Seq(1..MaxEvent) /\ qq = Append(q, x) /\ aa = Append(a, r)
  BY Zenon DEF Room
<1>3. /\ qq \in Seq(Event) /\ m \in Nat /\ Len(qq) = m + 1 /\ \A i \in 1..m : qq[i] = q[i]
      /\ qq[m + 1] = x /\ Len(q) = m
  BY Zenon DEF Room
<1>3h. \A y : Has(qq, y) <=> Has(q, y) \/ y = x
  BY Zenon DEF Room
<1>4h. \A y : Has(aa, y) <=> Has(a, y) \/ y = r
  BY Zenon DEF Room
<1>3i. \A i \in 1..(m + 1) : i \in 1..m \/ i = m + 1
  BY <1>3, OneMore, Zenon
<1>1. /\ queue \in [Worker -> Seq(Event)] /\ accepted \in [Host -> Seq(1..MaxEvent)]
      /\ ran \in [Host -> Seq(1..MaxEvent)]
  BY Zenon DEF OrderInv, Typed, Events, Ranks
<1>6. ASSUME NEW k \in Host, NEW y, Has(accepted[k], y) PROVE Has(accepted'[k], y)
  BY <1>2, <1>v, <1>4h, <1>6, Zenon
<1>7. ~Has(q, x) /\ job[w] # x /\ x \notin abandoned /\ ~Done(x)
  <2>1. ~Alive(x) /\ ~Done(x)
    BY <1>0, NotYet, Zenon
  <2> QED BY <1>0, <1>2, <2>1, Zenon DEF Alive
<1>7q. \A i \in 1..m : q[i] # x
  BY <1>3, <1>7, Zenon DEF Has
<1> QED
  <2>0. Placed(v) /\ queue[v] \in Seq(Event)
    BY <1>1, Zenon DEF OrderInv
  <2>1. ASSUME NEW e, Has(queue[v], e) PROVE WorkerOf[e.host] = v /\ Has(accepted'[e.host], e.rank)
    <3>1. e \in Event
      BY <2>0, <2>1, HasType, Zenon
    <3>2. WorkerOf[e.host] = v /\ Has(accepted[e.host], e.rank)
      BY <2>0, <2>1, PlacedHas, Zenon
    <3> QED BY <1>0, <1>6, <3>1, <3>2, EventType, Zenon
  <2>2. CASE v # w
    <3>1. queue'[v] = queue[v]
      BY <1>v, <2>2, Zenon
    <3>2. \A i \in 1..Len(queue[v]) : Has(queue[v], queue[v][i])
      BY Zenon DEF Has
    <3>3. job[v] # None => /\ WorkerOf[job[v].host] = v /\ v \notin returned
                           /\ Has(accepted'[job[v].host], job[v].rank) /\ ~Has(queue[v], job[v])
      <4>1. ASSUME job[v] # None PROVE job[v] \in Event
        BY <4>1, Zenon DEF OrderInv, Typed, Jobs
      <4> QED BY <1>0, <1>6, <2>0, <4>1, EventType, Zenon DEF Placed
    <3> QED BY <2>0, <2>1, <3>1, <3>2, <3>3, Zenon DEF Placed
  <2>3. CASE v = w
    <3>1. queue'[v] = qq /\ queue[v] = q /\ Len(qq) = m + 1 /\ Len(q) = m
      BY <1>2, <1>3, <2>3, Zenon
    <3>2. ASSUME NEW i \in 1..(m + 1)
          PROVE  WorkerOf[qq[i].host] = v /\ Has(accepted'[qq[i].host], qq[i].rank)
      <4>1. CASE i \in 1..m
        <5>1. Has(queue[v], qq[i])
          BY <1>3, <3>1, <4>1, Zenon DEF Has
        <5> QED BY <2>1, <5>1, Zenon
      <4>2. CASE i = m + 1
        <5>1. qq[i] = x
          BY <1>3, <4>2, Zenon
        <5>2. WorkerOf[x.host] = v /\ Has(accepted'[x.host], x.rank)
          BY <1>0, <1>2, <1>4h, <2>3, Zenon
        <5> QED BY <5>1, <5>2, Zenon
      <4> QED BY <1>3i, <4>1, <4>2, Zenon
    <3>3. \A i, j \in 1..m : q[i] = q[j] => i = j
      BY <2>0, <3>1, Zenon DEF Placed
    <3>4. \A i, j \in 1..(m + 1) : qq[i] = qq[j] => i = j
      <4>1. \A i \in 1..m : qq[i] = q[i] /\ qq[i] # qq[m + 1]
        BY <1>3, <1>7q, Zenon
      <4> QED BY <1>3i, <3>3, <4>1, Zenon
    <3>5. job[v] # None => /\ WorkerOf[job[v].host] = v /\ v \notin returned
                           /\ Has(accepted'[job[v].host], job[v].rank) /\ ~Has(qq, job[v])
      <4>1. ASSUME job[v] # None PROVE job[v] \in Event
        BY <4>1, Zenon DEF OrderInv, Typed, Jobs
      <4>2. job[v] # x /\ (job[v] # None => ~Has(q, job[v]))
        BY <1>7, <2>0, <2>3, <3>1, Zenon DEF Placed
      <4> QED BY <1>0, <1>3h, <1>6, <2>0, <4>1, <4>2, EventType, Zenon DEF Placed
    <3> QED BY <3>1, <3>2, <3>4, <3>5, Zenon DEF Placed
  <2> QED BY <2>2, <2>3, Zenon

LEMMA RoomOrder ==
  ASSUME OrderInv, NEW g \in going, going' = going \ {g}, UNCHANGED <<job, returned, abandoned, ran, emitted>>,
         NEW x, x = Ev(g), NEW w, w = WorkerOf[g.host], Enters(g, x, w)
  PROVE  OrderInv'
<1> DEFINE h == g.host
           r == g.rank
<1>0. /\ Pool /\ x \in Event /\ x = [host |-> h, rank |-> r] /\ x.host = h /\ x.rank = r /\ h \in Host
      /\ r \in 1..MaxEvent /\ r \in Nat /\ Sent(g) /\ w \in Worker /\ w = WorkerOf[h]
      /\ r <= emitted[h] /\ ~Has(accepted[h], r) /\ x # None
  <2>1. Pool
    BY Zenon DEF OrderInv, Typed
  <2> QED BY <2>1, GoingFacts, EventType, Zenon DEF Sent, Ev
<1> HIDE DEF h, r
<1>1. /\ queue \in [Worker -> Seq(Event)] /\ accepted \in [Host -> Seq(1..MaxEvent)]
      /\ ran \in [Host -> Seq(1..MaxEvent)]
  BY Zenon DEF OrderInv, Typed, Events, Ranks
<1>2. PICK q, qq, a, aa : q = queue[w] /\ qq = queue'[w] /\ a = accepted[h] /\ aa = accepted'[h]
  BY Zenon
<1>v. /\ \A u \in Worker : u # w => queue'[u] = queue[u]
      /\ \A y \in Host : y # h => accepted'[y] = accepted[y]
      /\ q \in Seq(Event) /\ a \in Seq(1..MaxEvent) /\ qq = Append(q, x) /\ aa = Append(a, r)
  BY <1>0, <1>1, <1>2, Zenon DEF Enters, h, r
<1>m. PICK m, n : m = Len(q) /\ n = Len(a)
  BY Zenon
<1>3. /\ qq \in Seq(Event) /\ m \in Nat /\ Len(qq) = m + 1 /\ \A i \in 1..m : qq[i] = q[i]
      /\ qq[m + 1] = x /\ Len(q) = m
  <2>1. PICK S : S = Event
    BY Zenon
  <2>2. q \in Seq(S) /\ x \in S /\ qq = Append(q, x) /\ m = Len(q)
    BY <1>0, <1>v, <1>m, <2>1, Zenon
  <2>3. /\ Append(q, x) \in Seq(S) /\ Len(q) \in Nat /\ Len(Append(q, x)) = Len(q) + 1
        /\ \A i \in 1..Len(q) : Append(q, x)[i] = q[i]
        /\ Append(q, x)[Len(q) + 1] = x
    BY <2>2, AppendFacts
  <2> QED BY <2>1, <2>2, <2>3, Zenon
<1>3h. \A y : Has(qq, y) <=> Has(q, y) \/ y = x
  <2>1. PICK S : S = Event
    BY Zenon
  <2>2. q \in Seq(S) /\ x \in S /\ qq = Append(q, x)
    BY <1>0, <1>v, <2>1, Zenon
  <2> QED BY <2>2, AppendHas, Zenon
<1>4. /\ aa \in Seq(1..MaxEvent) /\ n \in Nat /\ Len(aa) = n + 1 /\ \A i \in 1..n : aa[i] = a[i]
      /\ aa[n + 1] = r /\ Len(a) = n
  <2>1. PICK S : S = 1..MaxEvent
    BY Zenon
  <2>2. a \in Seq(S) /\ r \in S /\ aa = Append(a, r) /\ n = Len(a)
    BY <1>0, <1>v, <1>m, <2>1, Zenon
  <2>3. /\ Append(a, r) \in Seq(S) /\ Len(a) \in Nat /\ Len(Append(a, r)) = Len(a) + 1
        /\ \A i \in 1..Len(a) : Append(a, r)[i] = a[i]
        /\ Append(a, r)[Len(a) + 1] = r
    BY <2>2, AppendFacts, Zenon
  <2> QED BY <2>1, <2>2, <2>3, Zenon
<1>4h. \A y : Has(aa, y) <=> Has(a, y) \/ y = r
  <2>1. PICK S : S = 1..MaxEvent
    BY Zenon
  <2>2. a \in Seq(S) /\ r \in S /\ aa = Append(a, r)
    BY <1>0, <1>v, <2>1, Zenon
  <2> QED BY <2>2, AppendHas, Zenon
<1>5. Typed'
  <2>1. queue' \in [Worker -> Events]
    BY <1>0, <1>1, <1>2, <1>3, Zenon DEF Enters, Events
  <2>2. accepted' \in [Host -> Ranks]
    BY <1>0, <1>1, <1>2, <1>4, Zenon DEF Enters, Ranks, h, r
  <2> QED BY <2>1, <2>2, Zenon DEF OrderInv, Typed, Pool
<1>6. ASSUME NEW k \in Host, NEW y, Has(accepted[k], y) PROVE Has(accepted'[k], y)
  BY <1>2, <1>v, <1>4h, <1>6, Zenon
<1>7. ~Has(q, x) /\ job[w] # x /\ x \notin abandoned /\ ~Done(x)
  <2>1. ~Alive(x) /\ ~Done(x)
    BY <1>0, NotYet, Zenon
  <2> QED BY <1>0, <1>2, <2>1, Zenon DEF Alive
<1>r. Room(g, h, r, x, w, q, qq, a, aa, m, n)
  BY <1>0, <1>2, <1>v, <1>m, <1>3, <1>3h, <1>4, <1>4h, Zenon DEF Room, h, r
<1>8. ASSUME NEW k \in Host PROVE Ordered(k)' /\ Past(k)' /\ Coming(k)'
  BY <1>r, RoomOrdered, RoomPast, RoomComing, Zenon
<1>11. ASSUME NEW f \in going' PROVE Sent(f)'
  <2>1. f \in going /\ f # g /\ Sent(f) /\ f.host \in Host
    BY GoingFacts, Zenon
  <2>2. ~(f.host = h /\ f.rank = r)
    BY <1>0, <2>1, Zenon DEF Sent, h, r
  <2>3. ~Has(accepted'[f.host], f.rank)
    BY <1>2, <1>v, <1>4h, <2>1, <2>2, Zenon DEF Sent
  <2> QED BY <2>1, <2>3, Zenon DEF Sent
<1>12. ASSUME NEW v \in Worker PROVE Placed(v)'
  BY <1>r, RoomPlaced, Zenon
<1>13. ASSUME NEW e \in abandoned' PROVE Aside(e)'
  <2>1. e \in Event /\ Aside(e) /\ e # x
    BY <1>7, Zenon DEF OrderInv, Typed
  <2>2. e.host \in Host /\ WorkerOf[e.host] \in Worker
    BY <1>0, <2>1, EventType, Zenon
  <2>3. Has(accepted'[e.host], e.rank) /\ WorkerOf[e.host] \in returned
    BY <1>6, <2>1, <2>2, Zenon DEF Aside
  <2>4. ~Has(queue'[WorkerOf[e.host]], e)
    <3>0. ~Has(queue[WorkerOf[e.host]], e)
      BY <2>1, Zenon DEF Aside
    <3>1. CASE WorkerOf[e.host] = w
      BY <1>2, <1>3h, <2>1, <3>0, <3>1, Zenon
    <3>2. CASE WorkerOf[e.host] # w
      BY <1>v, <2>2, <3>0, <3>2, Zenon
    <3> QED BY <3>1, <3>2, Zenon
  <2> QED BY <2>3, <2>4, Zenon DEF Aside
<1> QED BY <1>5, <1>8, <1>11, <1>12, <1>13, Zenon DEF OrderInv

LEMMA EntersHas ==
  ASSUME OrderInv, NEW g \in going, NEW x, x = Ev(g), NEW w, w = WorkerOf[g.host], Enters(g, x, w),
         NEW e \in Event
  PROVE  Has(queue'[WorkerOf[e.host]], e) <=> Has(queue[WorkerOf[e.host]], e) \/ e = x
<1>1. /\ Pool /\ x \in Event /\ x.host = g.host /\ g.host \in Host
      /\ queue \in [Worker -> Seq(Event)]
  BY GoingFacts, Zenon DEF OrderInv, Typed, Events
<1>2. w \in Worker /\ WorkerOf[x.host] = w
  BY <1>1, Zenon DEF Pool
<1>3. WorkerOf[e.host] \in Worker
  BY <1>1, EventType, Zenon
<1>4. queue'[w] = Append(queue[w], x) /\ \A v \in Worker : v # w => queue'[v] = queue[v]
  BY <1>1, <1>2, Zenon DEF Enters
<1>5. Has(Append(queue[w], x), e) <=> Has(queue[w], e) \/ e = x
  <2>1. queue[w] \in Seq(Event)
    BY <1>1, <1>2, Zenon
  <2> QED BY <1>1, <2>1, AppendHas
<1> QED BY <1>2, <1>3, <1>4, <1>5, Zenon

LEMMA EnqueueStep == ASSUME HookInv, NEW g \in going, Enqueue(g) PROVE HookInv'
<1>0. OrderInv
  BY Zenon DEF HookInv
<1>x. PICK x : x = [host |-> g.host, rank |-> g.rank]
  BY Zenon
<1>w. PICK w : w = WorkerOf[g.host]
  BY Zenon
<1>1. /\ UNCHANGED <<job, returned, abandoned, ran, emitted>> /\ going' = going \ {g}
      /\ QueueFull(x) \/ QueueRoom(x)
  BY <1>x, Zenon DEF Enqueue
<1>2. x = Ev(g) /\ x.host = g.host /\ x.rank = g.rank
  BY <1>x, Zenon DEF Ev
<1>3. CASE QueueFull(x)
  <2>1. UNCHANGED <<places, emitted, pending>> /\ dropped' = dropped + 1
    BY <1>1, <1>3, Zenon DEF QueueFull, places
  <2> QED BY <1>1, <2>1, DropStep, Zenon
<1>4. CASE QueueRoom(x)
  <2>1. Enters(g, x, w) /\ pending' = pending + 1 /\ dropped' = dropped
    BY <1>2, <1>4, <1>w, Zenon DEF QueueRoom, Enters, workerFor
  <2>2. OrderInv'
    BY <1>0, <1>1, <1>2, <1>w, <2>1, RoomOrder, Zenon
  <2>3. x \in Event /\ Waits(x) /\ ~Alive(x)
    BY <1>0, <1>2, GoingFacts, Zenon
  <2>4. ASSUME NEW e PROVE Alive(e)' <=> Alive(e) \/ e = x
    <3>1. CASE e \in Event
      <4>1. Has(queue'[WorkerOf[e.host]], e) <=> Has(queue[WorkerOf[e.host]], e) \/ e = x
        BY <1>0, <1>2, <1>w, <2>1, <3>1, EntersHas, Zenon
      <4> QED BY <1>1, <3>1, <4>1, Zenon DEF Alive
    <3>2. CASE e \notin Event
      BY <2>3, <3>2, Zenon DEF Alive
    <3> QED BY <3>1, <3>2, Zenon
  <2>5. ASSUME NEW e PROVE Lost(e)' <=> Lost(e)
    <3>1. Waits(e)' <=> Waits(e) /\ e # x
      BY <1>0, <1>1, <1>2, WaitsLess, Zenon
    <3>2. Done(e)' <=> Done(e)
      BY <1>1, Zenon DEF Done
    <3>3. CASE e = x
      BY <2>3, <2>4, <3>3, Zenon DEF Lost
    <3>4. CASE e # x
      BY <1>1, <2>4, <3>1, <3>2, <3>4, Zenon DEF Lost
    <3> QED BY <3>3, <3>4, Zenon
  <2> QED BY <2>1, <2>2, <2>3, <2>4, <2>5, CountIn, Zenon
<1> QED BY <1>1, <1>3, <1>4, Zenon

-----------------------------------------------------------------------------
(* The workers *)

\* The head x of the queue of w leaves it.
Leaves(w, x) ==
    /\ queue' = [queue EXCEPT ![w] = Tail(@)] /\ queue[w] # <<>> /\ x = Head(queue[w])
    /\ w \notin returned /\ job[w] = None

LEMMA LeavesFacts ==
  ASSUME OrderInv, NEW w \in Worker, NEW x, Leaves(w, x)
  PROVE  /\ queue' \in [Worker -> Events] /\ x \in Event /\ x.host \in Host /\ x # None
         /\ \A v \in Worker : v # w => queue'[v] = queue[v]
         /\ WorkerOf[x.host] = w /\ Has(accepted[x.host], x.rank) /\ x = At(x.host, x.rank)
         /\ \A y : Has(queue[w], y) <=> Has(queue'[w], y) \/ y = x
         /\ ~Has(queue'[w], x)
         /\ \A i, j \in 1..Len(queue'[w]) : queue'[w][i] = queue'[w][j] => i = j
         /\ queue[w] \in Seq(Event) /\ queue[w] # <<>> /\ x = Head(queue[w]) /\ queue'[w] = Tail(queue[w])
<1>0. Pool /\ queue \in [Worker -> Seq(Event)] /\ Placed(w)
  BY Zenon DEF OrderInv, Typed, Events
<1>q. PICK q, t : q = queue[w] /\ t = queue'[w]
  BY Zenon
<1>1. q \in Seq(Event) /\ q # <<>> /\ x = Head(q) /\ t = Tail(q) /\ \A v \in Worker : v # w => queue'[v] = queue[v]
  BY <1>0, <1>q, Zenon DEF Leaves
<1>2. t \in Seq(Event) /\ x \in Event
  BY <1>1, TailFacts, Zenon
<1>3. queue' \in [Worker -> Events]
  BY <1>0, <1>q, <1>2, Zenon DEF Leaves, Events
<1>4. \A y : Has(q, y) <=> Has(t, y) \/ y = x
  BY <1>1, TailHas, Zenon
<1>5. \A i, j \in 1..Len(q) : q[i] = q[j] => i = j
  BY <1>0, <1>q, Zenon DEF Placed
<1>6. ~Has(t, x) /\ \A i, j \in 1..Len(t) : t[i] = t[j] => i = j
  BY <1>1, <1>5, TailDistinct
<1>7. WorkerOf[x.host] = w /\ Has(accepted[x.host], x.rank)
  BY <1>0, <1>q, <1>4, PlacedHas, Zenon
<1>8. x.host \in Host /\ x # None /\ x = At(x.host, x.rank)
  BY <1>0, <1>2, EventType, Zenon DEF At
<1>9. /\ \A y : Has(queue[w], y) <=> Has(queue'[w], y) \/ y = x
      /\ ~Has(queue'[w], x)
      /\ \A i, j \in 1..Len(queue'[w]) : queue'[w][i] = queue'[w][j] => i = j
  BY <1>q, <1>4, <1>6, Zenon
<1>10. queue[w] \in Seq(Event) /\ queue[w] # <<>> /\ x = Head(queue[w]) /\ queue'[w] = Tail(queue[w])
  BY <1>q, <1>1, Zenon
<1> QED BY <1>1, <1>2, <1>3, <1>7, <1>8, <1>9, <1>10, Zenon

\* It becomes the job of w, or is abandoned and w returns.
Goes(w, x) ==
    /\ job' \in [Worker -> Jobs] /\ \A v \in Worker : v # w => job'[v] = job[v]
    /\ abandoned' \subseteq Event /\ \A y : y \in abandoned' => y \in abandoned \/ y = x
    /\ returned' \subseteq Worker /\ \A v : (v \in returned => v \in returned') /\ (v \in returned' => v \in returned \/ v = w)
    /\ \/ job'[w] = x /\ w \notin returned' /\ abandoned' = abandoned
       \/ job'[w] = None /\ w \in returned'

LEMMA TakeOrder ==
  ASSUME OrderInv, NEW w \in Worker, NEW x, Leaves(w, x), Goes(w, x),
         UNCHANGED <<ran, accepted, emitted, going>>
  PROVE  OrderInv'
<1>0. /\ Pool /\ accepted \in [Host -> Seq(1..MaxEvent)] /\ ran \in [Host -> Seq(1..MaxEvent)]
      /\ \A k \in Host : WorkerOf[k] \in Worker
  BY Zenon DEF OrderInv, Typed, Pool, Ranks
<1>1. /\ x \in Event /\ x.host \in Host /\ x # None /\ \A v \in Worker : v # w => queue'[v] = queue[v]
      /\ WorkerOf[x.host] = w /\ Has(accepted[x.host], x.rank) /\ x = At(x.host, x.rank)
  BY LeavesFacts, Zenon
<1>2. /\ \A y : Has(queue[w], y) <=> Has(queue'[w], y) \/ y = x
      /\ ~Has(queue'[w], x)
  BY LeavesFacts, Zenon
<1>3. \A v \in Worker : \A y : Has(queue'[v], y) => Has(queue[v], y)
  BY <1>1, <1>2, Zenon
<1>4. Typed'
  BY LeavesFacts, Zenon DEF OrderInv, Typed, Pool, Goes
<1>5. ASSUME NEW k \in Host PROVE Ordered(k)'
  <2>1. Ordered(k)
    BY Zenon DEF OrderInv
  <2> QED BY <2>1, Zenon DEF Ordered
<1>6. ASSUME NEW g \in going' PROVE Sent(g)'
  <2>1. Sent(g)
    BY Zenon DEF OrderInv
  <2> QED BY <2>1, Zenon DEF Sent
<1>7. ASSUME NEW k \in Host PROVE Past(k)'
  <2>0. Past(k)
    BY Zenon DEF OrderInv
  <2>1. ASSUME NEW i \in 1..Len(ran[k]), NEW e, e = [host |-> k, rank |-> ran[k][i]]
        PROVE  ~Has(queue'[WorkerOf[k]], e) /\ job'[WorkerOf[k]] # e /\ e \notin abandoned'
    <3>1. ~Has(queue[WorkerOf[k]], e) /\ job[WorkerOf[k]] # e /\ e \notin abandoned /\ e.host = k
      BY <2>0, <2>1, Zenon DEF Past
    <3>2. e # x
      BY <1>1, <1>2, <3>1, Zenon
    <3>3. e # None
      <4>1. e \in Event
        BY <2>1, RanType, Zenon
      <4> QED BY <1>0, <4>1, EventType, Zenon
    <3> QED BY <1>0, <1>3, <3>1, <3>2, <3>3, Zenon DEF Goes
  <2> QED BY <2>0, <2>1, Zenon DEF Past
<1>8. ASSUME NEW v \in Worker PROVE Placed(v)'
  <2>0. Placed(v)
    BY Zenon DEF OrderInv
  <2>1. CASE v # w
    <3>1. queue'[v] = queue[v] /\ job'[v] = job[v] /\ (v \notin returned => v \notin returned')
      BY <1>1, <2>1, Zenon DEF Goes
    <3> QED BY <2>0, <3>1, Zenon DEF Placed
  <2>2. CASE v = w
    <3>1. ASSUME NEW i \in 1..Len(queue'[w])
          PROVE  WorkerOf[queue'[w][i].host] = w /\ Has(accepted[queue'[w][i].host], queue'[w][i].rank)
      <4>1. Has(queue[w], queue'[w][i])
        BY <1>3, Zenon DEF Has
      <4> QED BY <2>0, <2>2, <4>1, PlacedHas, Zenon
    <3>2. \A i, j \in 1..Len(queue'[w]) : queue'[w][i] = queue'[w][j] => i = j
      BY LeavesFacts, Zenon
    <3>3. job'[w] # None => /\ WorkerOf[job'[w].host] = w /\ w \notin returned'
                            /\ Has(accepted[job'[w].host], job'[w].rank) /\ ~Has(queue'[w], job'[w])
      BY <1>1, <1>2, Zenon DEF Goes
    <3> QED BY <2>2, <3>1, <3>2, <3>3, Zenon DEF Placed
  <2> QED BY <2>1, <2>2, Zenon
<1>9. ASSUME NEW e \in abandoned' PROVE Aside(e)'
  <2>1. CASE e \in abandoned
    <3>1. Aside(e) /\ WorkerOf[e.host] \in Worker
      BY <1>0, <2>1, EventType, Zenon DEF OrderInv, Typed
    <3>2. ~Has(queue'[WorkerOf[e.host]], e) /\ WorkerOf[e.host] \in returned'
      BY <1>3, <3>1, Zenon DEF Aside, Goes
    <3> QED BY <3>1, <3>2, Zenon DEF Aside
  <2>2. CASE e = x /\ e \notin abandoned
    <3>1. w \in returned'
      BY <2>2, Zenon DEF Goes
    <3>2. WorkerOf[e.host] = w /\ Has(accepted[e.host], e.rank) /\ ~Has(queue'[w], e)
      BY <1>1, <1>2, <2>2, Zenon
    <3> QED BY <3>1, <3>2, Zenon DEF Aside
  <2> QED BY <2>1, <2>2, Zenon DEF Goes
<1>10. ASSUME NEW k \in Host PROVE Coming(k)'
  <2>0. Coming(k) /\ Past(k) /\ Ordered(k) /\ Len(ran[k]) \in Nat
    BY <1>0 DEF OrderInv
  <2>1. CASE WorkerOf[k] \in returned'
    BY <2>1, Zenon DEF Coming
  <2>2. CASE WorkerOf[k] \notin returned' /\ WorkerOf[k] # w
    <3>1. /\ queue'[WorkerOf[k]] = queue[WorkerOf[k]] /\ job'[WorkerOf[k]] = job[WorkerOf[k]]
          /\ WorkerOf[k] \notin returned
      BY <1>0, <1>1, <2>2, Zenon DEF Goes
    <3>2. (Mine(k)' <=> Mine(k)) /\ Base(k)' = Base(k)
      BY <3>1, Zenon DEF Mine, Base
    <3> QED BY <2>0, <3>1, <3>2, Zenon DEF Coming
  <2>3. CASE WorkerOf[k] \notin returned' /\ WorkerOf[k] = w
    <3>q. PICK q, a, l : q = queue[w] /\ a = accepted[k] /\ l = Len(ran[k])
      BY Zenon
    <3>1. w \notin returned /\ job[w] = None /\ job'[w] = x
      BY <2>3, Zenon DEF Leaves, Goes
    <3>2. q \in Seq(Event) /\ q # <<>> /\ x = Head(q) /\ queue'[w] = Tail(q)
      BY <3>q, LeavesFacts, Zenon
    <3>3. ~Mine(k) /\ Base(k) = l
      BY <2>3, <3>1, <3>q, Zenon DEF Mine, Base
    <3>4. Lined(k, q, a, l) /\ l \in Nat
      BY <2>0, <2>3, <3>1, <3>3, <3>q, Zenon DEF Coming
    <3>5. CASE x.host # k
      <4>1. \A r : Head(q) # At(k, r)
        BY <3>2, <3>5 DEF At
      <4>2. Lined(k, Tail(q), a, l)
        BY <3>2, <3>4, <4>1, LinedTail, Zenon
      <4>3. ~Mine(k)' /\ Base(k)' = l
        BY <2>3, <3>1, <3>5, <3>q, Zenon DEF Mine, Base
      <4> QED BY <2>3, <3>2, <3>q, <4>2, <4>3, Zenon DEF Coming
    <3>6. CASE x.host = k
      <4>1. Head(q) = At(k, x.rank) /\ Has(a, x.rank)
        BY <1>1, <3>2, <3>6, <3>q, Zenon
      <4>2. \A i, j \in 1..Len(a) : a[i] = a[j] => i = j
        BY <2>0, <3>q, Zenon DEF Ordered
      <4>3. l + 1 <= Len(a) /\ a[l + 1] = x.rank /\ Lined(k, Tail(q), a, l + 1)
        <5>1. PICK S : S = 1..MaxEvent
          BY Zenon
        <5>2. a \in Seq(S)
          BY <1>0, <3>q, <5>1, Zenon
        <5> QED BY <3>2, <3>4, <4>1, <4>2, <5>2, LinedTake, Zenon
      <4>4. Mine(k)' /\ Base(k)' = l + 1
        BY <1>1, <2>3, <3>1, <3>6, <3>q, Zenon DEF Mine, Base
      <4> QED BY <2>3, <3>1, <3>2, <3>q, <4>3, <4>4, Zenon DEF Coming
    <3> QED BY <3>5, <3>6, Zenon
  <2> QED BY <2>1, <2>2, <2>3, Zenon
<1> QED BY <1>4, <1>5, <1>6, <1>7, <1>8, <1>9, <1>10, Zenon DEF OrderInv

\* Nothing changes but the place of x.
LEMMA TakeStep == ASSUME HookInv, NEW w \in Worker, Take(w) PROVE HookInv'
<1>x. PICK x : x = Head(queue[w])
  BY Zenon
<1>0. OrderInv /\ job \in [Worker -> Jobs] /\ abandoned \subseteq Event /\ returned \subseteq Worker
  BY Zenon DEF HookInv, OrderInv, Typed
<1>1. Leaves(w, x) /\ UNCHANGED <<ran, accepted, emitted, going, pending, dropped>>
  BY <1>x, Zenon DEF Take, Leaves, counters
<1>2. x \in Event /\ x # None /\ WorkerOf[x.host] = w /\ Has(queue[w], x)
  BY <1>0, <1>1, LeavesFacts, Zenon
<1>3. /\ \/ job' = [job EXCEPT ![w] = x] /\ UNCHANGED <<returned, abandoned>>
         \/ job' = job /\ returned' = returned \cup {w} /\ abandoned' = abandoned \cup {x}
      /\ w \notin returned /\ job[w] = None
  BY <1>x, Zenon DEF Take, Abandon, Begin
<1>4. /\ Goes(w, x) /\ (job'[w] = x \/ x \in abandoned')
      /\ \A v \in Worker : \A y : y # None /\ y # x => (job'[v] = y <=> job[v] = y)
      /\ \A y : y # x => (y \in abandoned' <=> y \in abandoned)
  <2>1. CASE job' = [job EXCEPT ![w] = x] /\ UNCHANGED <<returned, abandoned>>
    BY <1>0, <1>2, <1>3, <2>1, Zenon DEF Goes, Jobs
  <2>2. CASE job' = job /\ returned' = returned \cup {w} /\ abandoned' = abandoned \cup {x}
    BY <1>0, <1>2, <1>3, <2>2, Zenon DEF Goes
  <2> QED BY <1>3, <2>1, <2>2, Zenon
<1>5. OrderInv'
  BY <1>0, <1>1, <1>4, TakeOrder, Zenon
<1>6. ASSUME NEW e PROVE Alive(e)' <=> Alive(e)
  <2>1. CASE e = x
    BY <1>2, <1>4, <2>1, Zenon DEF Alive
  <2>2. CASE e # x /\ e \in Event
    <3>1. WorkerOf[e.host] \in Worker /\ e # None
      BY <1>0, <2>2, EventType, Zenon DEF OrderInv, Typed
    <3>2. Has(queue'[WorkerOf[e.host]], e) <=> Has(queue[WorkerOf[e.host]], e)
      BY <1>0, <1>1, <2>2, <3>1, LeavesFacts, Zenon
    <3> QED BY <1>4, <2>2, <3>1, <3>2, Zenon DEF Alive
  <2>3. CASE e \notin Event
    BY <2>3, Zenon DEF Alive
  <2> QED BY <2>1, <2>2, <2>3, Zenon
<1>7. ASSUME NEW e PROVE Lost(e)' <=> Lost(e)
  <2>1. (Waits(e)' <=> Waits(e)) /\ (Done(e)' <=> Done(e))
    BY <1>1, Zenon DEF Waits, Done
  <2> QED BY <1>1, <1>6, <2>1, Zenon DEF Lost
<1> QED BY <1>1, <1>5, <1>6, <1>7, CountSame, Zenon

\* The job x of w, an event of h, is done.
Ends(w, x) ==
    /\ job' = [job EXCEPT ![w] = None] /\ x = job[w] /\ x # None
    /\ ran' = [ran EXCEPT ![x.host] = Append(@, x.rank)]

LEMMA EndsFacts ==
  ASSUME OrderInv, NEW w \in Worker, NEW x, Ends(w, x)
  PROVE  /\ x \in Event /\ x.host \in Host /\ x.rank \in 1..MaxEvent /\ x = [host |-> x.host, rank |-> x.rank]
         /\ WorkerOf[x.host] = w /\ w \notin returned /\ ~Has(queue[w], x) /\ x \notin abandoned
         /\ job'[w] = None /\ job[w] = x /\ \A v \in Worker : v # w => job'[v] = job[v]
         /\ ran'[x.host] = Append(ran[x.host], x.rank) /\ \A k \in Host : k # x.host => ran'[k] = ran[k]
         /\ ran' \in [Host -> Ranks] /\ job' \in [Worker -> Jobs]
<1>0. Pool /\ job \in [Worker -> Jobs] /\ ran \in [Host -> Seq(1..MaxEvent)] /\ Placed(w)
  BY Zenon DEF OrderInv, Typed, Ranks
<1>1. x \in Event /\ job[w] = x /\ x # None
  BY <1>0, Zenon DEF Ends, Jobs
<1>2. x.host \in Host /\ x.rank \in 1..MaxEvent /\ x = [host |-> x.host, rank |-> x.rank]
  BY <1>0, <1>1, EventType, Zenon
<1>3. WorkerOf[x.host] = w /\ w \notin returned /\ ~Has(queue[w], x)
  BY <1>0, <1>1, Zenon DEF Placed
<1>4. x \notin abandoned
  BY <1>3, Zenon DEF OrderInv, Aside
<1>5. job'[w] = None /\ (\A v \in Worker : v # w => job'[v] = job[v]) /\ job' \in [Worker -> Jobs]
  BY <1>0, Zenon DEF Ends, Jobs
<1>6. /\ ran'[x.host] = Append(ran[x.host], x.rank) /\ \A k \in Host : k # x.host => ran'[k] = ran[k]
  BY <1>0, <1>2, Zenon DEF Ends
<1>7. ran' \in [Host -> Ranks]
  <2>1. Append(ran[x.host], x.rank) \in Seq(1..MaxEvent)
    BY <1>0, <1>2, AppendFacts, Zenon
  <2> QED BY <1>0, <1>2, <2>1, Zenon DEF Ends, Ranks
<1> QED BY <1>1, <1>2, <1>3, <1>4, <1>5, <1>6, <1>7, Zenon

LEMMA DoneOrder ==
  ASSUME OrderInv, NEW w \in Worker, NEW x, Ends(w, x),
         UNCHANGED <<queue, returned, abandoned, accepted, emitted, going>>
  PROVE  OrderInv'
<1>0. /\ Pool /\ accepted \in [Host -> Seq(1..MaxEvent)] /\ ran \in [Host -> Seq(1..MaxEvent)]
      /\ \A k \in Host : WorkerOf[k] \in Worker
  BY Zenon DEF OrderInv, Typed, Pool, Ranks
<1>1. /\ x \in Event /\ x.host \in Host /\ x.rank \in 1..MaxEvent /\ x = [host |-> x.host, rank |-> x.rank]
      /\ WorkerOf[x.host] = w /\ w \notin returned /\ ~Has(queue[w], x) /\ x \notin abandoned
  BY EndsFacts, Zenon
<1>2. /\ job'[w] = None /\ job[w] = x /\ \A v \in Worker : v # w => job'[v] = job[v]
      /\ ran'[x.host] = Append(ran[x.host], x.rank) /\ \A k \in Host : k # x.host => ran'[k] = ran[k]
  BY EndsFacts
<1>3. Typed'
  BY EndsFacts, Zenon DEF OrderInv, Typed, Pool
<1>4. ASSUME NEW k \in Host PROVE Ordered(k)'
  <2>1. Ordered(k)
    BY Zenon DEF OrderInv
  <2> QED BY <2>1, Zenon DEF Ordered
<1>5. ASSUME NEW g \in going' PROVE Sent(g)'
  <2>1. Sent(g)
    BY Zenon DEF OrderInv
  <2> QED BY <2>1, Zenon DEF Sent
<1>6. ASSUME NEW v \in Worker PROVE Placed(v)'
  <2>1. Placed(v)
    BY Zenon DEF OrderInv
  <2>2. job'[v] = None \/ job'[v] = job[v]
    BY <1>2, Zenon
  <2> QED BY <2>1, <2>2, Zenon DEF Placed
<1>7. ASSUME NEW e \in abandoned' PROVE Aside(e)'
  <2>1. Aside(e)
    BY Zenon DEF OrderInv
  <2> QED BY <2>1, Zenon DEF Aside
\* Its host: x was the next one.
<1>h. PICK h, r, a, s, n : h = x.host /\ r = x.rank /\ a = accepted[h] /\ s = ran[h] /\ n = Len(s)
  BY Zenon
<1>8. h \in Host /\ n \in Nat /\ s \in Seq(1..MaxEvent) /\ r \in 1..MaxEvent /\ Len(a) \in Nat
  BY <1>0, <1>1, <1>h
<1>9. ran'[h] = Append(s, r) /\ Len(Append(s, r)) = n + 1 /\ Append(s, r)[n + 1] = r
      /\ \A i \in 1..n : Append(s, r)[i] = s[i]
  BY <1>2, <1>8, <1>h, AppendFacts
<1>10. Mine(h) /\ WorkerOf[h] = w /\ ~Mine(h)'
  BY <1>0, <1>1, <1>2, <1>h, Zenon DEF Mine, Ends
<1>11. n + 1 <= Len(a) /\ a[n + 1] = r /\ Lined(h, queue[w], a, n + 1)
  <2>1. Coming(h) /\ Base(h) = n + 1 /\ w \notin returned /\ job[WorkerOf[h]].rank = r
    BY <1>1, <1>2, <1>8, <1>10, <1>h, Zenon DEF OrderInv, Base
  <2> QED BY <1>10, <1>h, <2>1, Zenon DEF Coming
<1>12. ASSUME NEW k \in Host PROVE Coming(k)'
  <2>1. CASE k = h
    <3>1. Base(k)' = n + 1 /\ ~Mine(k)'
      BY <1>9, <1>10, <2>1, Zenon DEF Base
    <3> QED BY <1>10, <1>11, <1>h, <2>1, <3>1, Zenon DEF Coming
  <2>2. CASE k # h
    <3>0. Coming(k) /\ WorkerOf[k] \in Worker /\ ran'[k] = ran[k]
      BY <1>0, <1>2, <1>h, <2>2, Zenon DEF OrderInv
    <3>1. WorkerOf[k] = w => ~Mine(k) /\ ~Mine(k)'
      BY <1>2, <1>h, <2>2, Zenon DEF Mine
    <3>2. WorkerOf[k] # w => job'[WorkerOf[k]] = job[WorkerOf[k]]
      BY <1>2, <3>0, Zenon
    <3>3. (Mine(k)' <=> Mine(k)) /\ (Mine(k) => job'[WorkerOf[k]] = job[WorkerOf[k]])
      BY <3>1, <3>2, Zenon DEF Mine
    <3>4. Base(k)' = Base(k)
      BY <3>0, <3>3, Zenon DEF Base
    <3> QED BY <3>0, <3>3, <3>4, Zenon DEF Coming
  <2> QED BY <2>1, <2>2, Zenon
<1>13. ASSUME NEW k \in Host PROVE Past(k)'
  <2>0. Past(k)
    BY Zenon DEF OrderInv
  <2>1. ASSUME NEW i \in 1..Len(ran[k]), NEW e, e = [host |-> k, rank |-> ran[k][i]]
        PROVE  /\ ran[k][i] = accepted[k][i] /\ ~Has(queue[WorkerOf[k]], e)
               /\ job'[WorkerOf[k]] # e /\ e \notin abandoned
    <3>1. e # None
      BY <1>0, <2>1, RanType, EventType, Zenon
    <3>2. job[WorkerOf[k]] # e
      BY <2>0, <2>1, Zenon DEF Past
    <3>3. job'[WorkerOf[k]] # e
      BY <1>0, <1>2, <3>1, <3>2, Zenon
    <3> QED BY <2>0, <2>1, <3>3, Zenon DEF Past
  <2>2. CASE k # h
    <3>1. ran'[k] = ran[k]
      BY <1>2, <1>h, <2>2, Zenon
    <3> QED BY <2>0, <2>1, <3>1, Zenon DEF Past
  <2>3. CASE k = h
    <3>1. ran[k] = s /\ ran'[k] = Append(s, r) /\ accepted'[k] = a /\ Len(ran'[k]) = n + 1
      BY <1>9, <1>h, <2>3, Zenon
    <3>2. ASSUME NEW i \in 1..(n + 1), NEW e, e = [host |-> k, rank |-> Append(s, r)[i]]
          PROVE  /\ Append(s, r)[i] = a[i] /\ ~Has(queue[WorkerOf[k]], e)
                 /\ job'[WorkerOf[k]] # e /\ e \notin abandoned
      <4>1. CASE i \in 1..n
        <5>1. i \in 1..Len(ran[k]) /\ Append(s, r)[i] = ran[k][i] /\ accepted[k] = a
          BY <1>9, <1>h, <2>3, <4>1, Zenon
        <5> QED BY <2>1, <3>2, <5>1, Zenon
      <4>2. CASE i = n + 1
        <5>1. e = x /\ Append(s, r)[i] = r
          BY <1>1, <1>9, <1>h, <2>3, <3>2, <4>2, Zenon
        <5>2. x # None
          BY Zenon DEF Ends
        <5> QED BY <1>1, <1>2, <1>10, <1>11, <2>3, <4>2, <5>1, <5>2, Zenon
      <4>3. i \in 1..n \/ i = n + 1
        BY <1>8
      <4> QED BY <4>1, <4>2, <4>3, Zenon
    <3>3. ASSUME NEW i \in 1..Len(ran'[k]), NEW e, e = [host |-> k, rank |-> ran'[k][i]]
          PROVE  /\ ran'[k][i] = accepted'[k][i] /\ ~Has(queue[WorkerOf[k]], e)
                 /\ job'[WorkerOf[k]] # e /\ e \notin abandoned
      <4>1. i \in 1..(n + 1) /\ ran'[k][i] = Append(s, r)[i] /\ accepted'[k][i] = a[i]
        BY <3>1, Zenon
      <4> QED BY <3>2, <3>3, <4>1, Zenon
    <3>4. Len(ran'[k]) <= Len(accepted'[k])
      BY <1>11, <3>1, Zenon
    <3> QED BY <3>3, <3>4, Zenon DEF Past
  <2> QED BY <2>2, <2>3, Zenon
<1> QED BY <1>3, <1>4, <1>5, <1>6, <1>7, <1>12, <1>13, Zenon DEF OrderInv

LEMMA JobDoneStep == ASSUME HookInv, NEW w \in Worker, JobDone(w) PROVE HookInv'
<1>x. PICK x : x = job[w]
  BY Zenon
<1>0. OrderInv /\ Pool
  BY Zenon DEF HookInv, OrderInv, Typed
<1>1. /\ Ends(w, x) /\ UNCHANGED <<queue, returned, abandoned, accepted, emitted, going>>
      /\ pending' = pending - 1 /\ dropped' = dropped
  BY <1>x, Zenon DEF JobDone, Ends
<1>2. OrderInv'
  BY <1>0, <1>1, DoneOrder, Zenon
<1>3. /\ x \in Event /\ x.host \in Host /\ x.rank \in 1..MaxEvent /\ x = [host |-> x.host, rank |-> x.rank]
      /\ WorkerOf[x.host] = w /\ ~Has(queue[w], x) /\ x \notin abandoned /\ x # None
  BY <1>0, <1>1, EndsFacts, Zenon DEF Ends
<1>4. /\ job'[w] = None /\ job[w] = x /\ \A v \in Worker : v # w => job'[v] = job[v]
      /\ ran'[x.host] = Append(ran[x.host], x.rank) /\ \A k \in Host : k # x.host => ran'[k] = ran[k]
  BY <1>0, <1>1, EndsFacts
<1>5. Alive(x)
  BY <1>3, <1>4, Zenon DEF Alive
<1>6. ASSUME NEW e PROVE Alive(e)' <=> Alive(e) /\ e # x
  <2>1. CASE e = x
    BY <1>1, <1>3, <1>4, <2>1, Zenon DEF Alive
  <2>2. CASE e # x /\ e \in Event
    <3>1. WorkerOf[e.host] \in Worker /\ e # None
      BY <1>0, <2>2, EventType, Zenon
    <3>2. job'[WorkerOf[e.host]] = e <=> job[WorkerOf[e.host]] = e
      BY <1>4, <2>2, <3>1, Zenon
    <3> QED BY <1>1, <2>2, <3>2, Zenon DEF Alive
  <2>3. CASE e \notin Event
    BY <2>3, Zenon DEF Alive
  <2> QED BY <2>1, <2>2, <2>3, Zenon
<1>7. ASSUME NEW e PROVE Done(e)' <=> Done(e) \/ e = x
  <2>1. CASE e \in Event
    <3>1. e.host \in Host /\ e = [host |-> e.host, rank |-> e.rank]
      BY <1>0, <2>1, EventType, Zenon
    <3>2. CASE e.host # x.host
      BY <1>4, <3>1, <3>2, Zenon DEF Done
    <3>3. CASE e.host = x.host
      <4>1. Has(Append(ran[x.host], x.rank), e.rank) <=> Has(ran[x.host], e.rank) \/ e.rank = x.rank
        <5>1. PICK S : S = 1..MaxEvent
          BY Zenon
        <5>2. ran[x.host] \in Seq(S) /\ x.rank \in S
          BY <1>0, <1>3, <5>1, Zenon DEF OrderInv, Typed, Ranks
        <5> QED BY <5>2, AppendHas, Zenon
      <4>2. e.rank = x.rank <=> e = x
        BY <1>3, <3>1, <3>3, Zenon
      <4>3. ran'[e.host] = Append(ran[x.host], x.rank) /\ ran[e.host] = ran[x.host]
        BY <1>4, <3>3, Zenon
      <4> QED BY <2>1, <4>1, <4>2, <4>3, Zenon DEF Done
    <3> QED BY <3>2, <3>3, Zenon
  <2>2. CASE e \notin Event
    BY <1>3, <2>2, Zenon DEF Done
  <2> QED BY <2>1, <2>2, Zenon
<1>8. ASSUME NEW e PROVE Lost(e)' <=> Lost(e)
  <2>1. Waits(e)' <=> Waits(e)
    BY <1>1, Zenon DEF Waits
  <2>2. CASE e = x
    BY <1>5, <1>7, <2>2, Zenon DEF Lost
  <2>3. CASE e # x
    BY <1>1, <1>6, <1>7, <2>1, <2>3, Zenon DEF Lost
  <2> QED BY <2>2, <2>3, Zenon
<1> QED BY <1>1, <1>2, <1>5, <1>6, <1>8, CountOut, Zenon

LEMMA ReturnsStep == ASSUME HookInv, NEW w \in Worker, WorkerReturns(w) PROVE HookInv'
<1>0. OrderInv
  BY Zenon DEF HookInv
<1>1. /\ returned' = returned \cup {w} /\ job[w] = None
      /\ UNCHANGED <<emitted, going, queue, job, abandoned, accepted, ran, pending, dropped>>
  BY Zenon DEF WorkerReturns, counters
<1>2. Typed'
  BY <1>0, <1>1, Zenon DEF OrderInv, Typed, Pool
<1>3. ASSUME NEW h \in Host PROVE Ordered(h)' /\ Past(h)' /\ Coming(h)'
  <2>1. Ordered(h) /\ Past(h) /\ Coming(h)
    BY <1>0, Zenon DEF OrderInv
  <2>2. Ordered(h)'
    BY <1>1, <2>1, Zenon DEF Ordered
  <2>3. Past(h)'
    BY <1>1, <2>1, Zenon DEF Past
  <2>4. (Mine(h)' <=> Mine(h)) /\ Base(h)' = Base(h)
    BY <1>1, Zenon DEF Mine, Base
  <2>5. Coming(h)'
    BY <1>1, <2>1, <2>4, Zenon DEF Coming
  <2> QED BY <2>2, <2>3, <2>5, Zenon
<1>4. ASSUME NEW g \in going' PROVE Sent(g)'
  BY <1>0, <1>1, Zenon DEF OrderInv, Sent
<1>5. ASSUME NEW v \in Worker PROVE Placed(v)'
  <2>1. Placed(v)
    BY <1>0, Zenon DEF OrderInv
  <2>2. job[v] # None /\ v \notin returned => v \notin returned'
    BY <1>1, Zenon
  <2> QED BY <1>1, <2>1, <2>2, Zenon DEF Placed
<1>6. ASSUME NEW e \in abandoned' PROVE Aside(e)'
  BY <1>0, <1>1, Zenon DEF OrderInv, Aside
<1>7. OrderInv'
  BY <1>2, <1>3, <1>4, <1>5, <1>6, Zenon DEF OrderInv
<1>8. ASSUME NEW e PROVE (Alive(e)' <=> Alive(e)) /\ (Lost(e)' <=> Lost(e))
  BY <1>1, Zenon DEF Alive, Lost, Waits, Done
<1> QED BY <1>1, <1>7, <1>8, CountSame, Zenon

-----------------------------------------------------------------------------
(* The report of the stop *)

\* An event the dispatcher has was accepted, so that it is neither waiting nor processed.
LEMMA AliveFacts ==
  ASSUME OrderInv, NEW e, Alive(e)
  PROVE  e.rank <= emitted[e.host] /\ ~Waits(e) /\ ~Done(e)
<1>0. e \in Event /\ Pool
  BY Zenon DEF Alive, OrderInv, Typed
<1>1. e.host \in Host /\ e.rank \in 1..MaxEvent /\ WorkerOf[e.host] \in Worker /\ e # None
      /\ e = [host |-> e.host, rank |-> e.rank]
  BY <1>0, EventType, Zenon
<1>2. Has(accepted[e.host], e.rank)
  BY <1>0, NotYet, Zenon
<1>3. e.rank <= emitted[e.host]
  BY <1>1, <1>2, Zenon DEF OrderInv, Ordered, Has
<1>4. ~Waits(e)
  <2>1. ASSUME NEW g \in going, Ev(g) = e PROVE FALSE
    <3>1. e.host = g.host /\ e.rank = g.rank /\ Sent(g)
      BY <2>1, GoingFacts, Zenon
    <3> QED BY <1>2, <3>1, Zenon DEF Sent
  <2> QED BY <2>1, Zenon DEF Waits
<1>5. ~Done(e)
  <2>1. ASSUME NEW i \in 1..Len(ran[e.host]), ran[e.host][i] = e.rank PROVE FALSE
    <3>1. [host |-> e.host, rank |-> ran[e.host][i]] = e
      BY <1>1, <2>1, Zenon
    <3>2. Past(e.host)
      BY <1>1, Zenon DEF OrderInv
    <3>3. ~Has(queue[WorkerOf[e.host]], e) /\ job[WorkerOf[e.host]] # e /\ e \notin abandoned
      BY <3>1, <3>2, Zenon DEF Past
    <3> QED BY <3>3, Zenon DEF Alive
  <2> QED BY <2>1, Zenon DEF Done, Has
<1> QED BY <1>3, <1>4, <1>5, Zenon

LEMMA ReportOrder ==
  ASSUME OrderInv, returned = Worker, abandoned' = {}, queue' = [v \in Worker |-> <<>>],
         UNCHANGED <<emitted, going, job, returned, accepted, ran>>
  PROVE  OrderInv' /\ (\A v \in Worker : job[v] = None) /\ \A e : ~Alive(e)'
<1>0. Pool
  BY Zenon DEF OrderInv, Typed
<1>1. ASSUME NEW v \in Worker PROVE job[v] = None
  BY Zenon DEF OrderInv, Placed
<1>2. \A v \in Worker : queue'[v] = <<>>
  BY Zenon
<1>3. \A y : ~Has(<<>>, y)
  BY DEF Has
<1>4. Typed'
  <2>1. <<>> \in Events
    BY DEF Events
  <2> QED BY <2>1, Zenon DEF OrderInv, Typed, Pool
<1>5. ASSUME NEW h \in Host PROVE Ordered(h)' /\ Past(h)' /\ Coming(h)'
  <2>0. Ordered(h) /\ Past(h) /\ WorkerOf[h] \in Worker /\ WorkerOf[h] \in returned' /\ queue'[WorkerOf[h]] = <<>>
    BY <1>0, <1>2, Zenon DEF OrderInv, Pool
  <2>1. Ordered(h)'
    BY <2>0, Zenon DEF Ordered
  <2>2. Past(h)'
    BY <1>3, <2>0, Zenon DEF Past
  <2>3. Coming(h)'
    BY <2>0, Zenon DEF Coming
  <2> QED BY <2>1, <2>2, <2>3, Zenon
<1>6. ASSUME NEW g \in going' PROVE Sent(g)'
  BY Zenon DEF OrderInv, Sent
<1>7. ASSUME NEW v \in Worker PROVE Placed(v)'
  <2>1. queue'[v] = <<>> /\ job'[v] = None /\ Len(<<>>) = 0
    BY <1>1, <1>2, Zenon
  <2> QED BY <2>1 DEF Placed
<1>8. ASSUME NEW e PROVE ~Alive(e)'
  <2>1. ASSUME e \in Event PROVE ~Has(queue'[WorkerOf[e.host]], e) /\ job'[WorkerOf[e.host]] # e
    <3>1. WorkerOf[e.host] \in Worker /\ e # None
      BY <1>0, <2>1, EventType, Zenon
    <3> QED BY <1>1, <1>2, <1>3, <3>1, Zenon
  <2> QED BY <2>1, Zenon DEF Alive
<1>9. OrderInv'
  BY <1>4, <1>5, <1>6, <1>7, Zenon DEF OrderInv
<1> QED BY <1>1, <1>8, <1>9, Zenon

LEMMA ReportStep == ASSUME HookInv, StopReport PROVE HookInv'
<1>0. OrderInv /\ IsFiniteSet(Live) /\ pending = Cardinality(Live) /\ IsFiniteSet(Gone) /\ dropped = Cardinality(Gone)
  BY Zenon DEF HookInv, Counted
<1>1. /\ returned = Worker /\ abandoned' = {} /\ queue' = [v \in Worker |-> <<>>]
      /\ UNCHANGED <<emitted, going, job, returned, accepted, ran>>
      /\ pending' = pending - Cardinality(abandoned \cup Queued)
      /\ dropped' = dropped + Cardinality(abandoned \cup Queued)
  BY Zenon DEF StopReport, WgWait
<1>2. OrderInv' /\ (\A v \in Worker : job[v] = None) /\ \A e : ~Alive(e)'
  <2>1. returned = Worker /\ abandoned' = {} /\ queue' = [v \in Worker |-> <<>>]
        /\ UNCHANGED <<emitted, going, job, returned, accepted, ran>>
    BY <1>1, Zenon
  <2> QED BY <1>0, <2>1, ReportOrder, Zenon
<1>3. Live = abandoned \cup Queued
  <2>1. Running = {}
    BY <1>2, Zenon DEF Running
  <2> QED BY <2>1, Zenon DEF Live
<1>4. Live' = {}
  BY <1>2, LiveInNext, Zenon DEF Located
<1>5. \A y : ~(y \in Gone /\ y \in Live)
  BY Zenon DEF Gone
<1>6. ASSUME NEW y PROVE y \in Gone' <=> y \in Gone \/ y \in Live
  <2>1. (y \in Gone' <=> Lost(y)') /\ (y \in Gone <=> Lost(y)) /\ (y \in Live <=> Alive(y))
    BY <1>0, <1>2, LiveIn, LiveInNext, Zenon DEF Located
  <2>2. (Waits(y)' <=> Waits(y)) /\ (Done(y)' <=> Done(y)) /\ ~Alive(y)' /\ emitted' = emitted
    BY <1>1, <1>2, Zenon DEF Waits, Done
  <2>3. Lost(y)' <=> y \in Event /\ y.rank <= emitted[y.host] /\ ~Waits(y) /\ ~Done(y)
    BY <2>2, Zenon DEF Lost
  <2>4. Alive(y) => y \in Event /\ y.rank <= emitted[y.host] /\ ~Waits(y) /\ ~Done(y)
    BY <1>0, AliveFacts, Zenon DEF Alive
  <2>5. Lost(y) <=> y \in Event /\ y.rank <= emitted[y.host] /\ ~Waits(y) /\ ~Alive(y) /\ ~Done(y)
    BY Zenon DEF Lost
  <2> QED BY <2>1, <2>3, <2>4, <2>5, Zenon
<1>7. IsFiniteSet(Gone') /\ dropped + Cardinality(Live) = Cardinality(Gone')
  BY <1>0, <1>5, <1>6, AddAll
<1>8. IsFiniteSet({}) /\ Cardinality({}) = 0 /\ pending - Cardinality(Live) = 0
  BY <1>0, FS_EmptySet, FS_CardinalityType
<1> QED BY <1>1, <1>2, <1>3, <1>4, <1>7, <1>8, Zenon DEF HookInv, Counted

-----------------------------------------------------------------------------
(* The theorems *)

LEMMA HookStart == ASSUME Pool, Init PROVE HookInv
<1>1. \A h \in Host : accepted[h] = <<>> /\ ran[h] = <<>> /\ emitted[h] = 0
  BY Zenon DEF Init
<1>2. \A w \in Worker : queue[w] = <<>> /\ job[w] = None
  BY Zenon DEF Init
<1>3. Len(<<>>) = 0 /\ \A y : ~Has(<<>>, y)
  BY DEF Has
<1>4. Typed
  <2>1. <<>> \in Events /\ <<>> \in Ranks /\ None \in Jobs /\ 0 \in 0..MaxEvent
    BY DEF Events, Ranks, Jobs, Pool
  <2> QED BY <2>1, Zenon DEF Init, Typed
<1>5. ASSUME NEW h \in Host PROVE Ordered(h) /\ Past(h) /\ Coming(h)
  <2>1. accepted[h] = <<>> /\ ran[h] = <<>> /\ queue[WorkerOf[h]] = <<>> /\ job[WorkerOf[h]] = None
    BY <1>1, <1>2, Zenon DEF Pool
  <2>2. Lined(h, <<>>, <<>>, Base(h))
    BY <1>3 DEF Lined
  <2>3. ~Mine(h)
    BY <2>1, Zenon DEF Mine
  <2>4. Ordered(h) /\ Past(h)
    BY <1>3, <2>1 DEF Ordered, Past
  <2> QED BY <2>1, <2>2, <2>3, <2>4, Zenon DEF Coming
<1>6. \A w \in Worker : Placed(w)
  BY <1>2, <1>3 DEF Placed
<1>7. OrderInv
  BY <1>4, <1>5, <1>6, Zenon DEF Init, OrderInv
<1>8. \A e : ~Alive(e) /\ ~Lost(e)
  <2>1. ASSUME NEW e \in Event
        PROVE  ~(e.rank <= emitted[e.host]) /\ queue[WorkerOf[e.host]] = <<>> /\ job[WorkerOf[e.host]] # e
    <3>1. e.host \in Host /\ WorkerOf[e.host] \in Worker /\ e # None /\ e.rank \in 1..MaxEvent
      BY EventType, Zenon
    <3> QED BY <1>1, <1>2, <3>1 DEF Pool
  <2> QED BY <1>3, <2>1, Zenon DEF Init, Alive, Lost
<1>9. Live = {} /\ Gone = {}
  BY <1>7, <1>8, LiveIn, Zenon DEF Located
<1>10. IsFiniteSet({}) /\ Cardinality({}) = 0
  BY FS_EmptySet, Zenon
<1> QED BY <1>7, <1>9, <1>10, Zenon DEF Init, HookInv, Counted

LEMMA HookNext == HookInv /\ [Next]_vars => HookInv'
<1> SUFFICES ASSUME HookInv, [Next]_vars PROVE HookInv'
  BY Zenon
<1>1. ASSUME NEW k \in Actions, SetConfig(k) PROVE HookInv'
  BY <1>1, QuietStep, Zenon DEF SetConfig, places, work, counters
<1>2. ASSUME NEW w \in Worker, Step(w) PROVE HookInv'
  <2>1. CASE ProcessJob(w)
    BY <2>1, QuietStep, Zenon DEF ProcessJob, places
  <2> QED BY <1>2, <2>1, TakeStep, JobDoneStep, ReturnsStep, Zenon DEF Step
<1>3. CASE DrainBegins \/ DrainReturns \/ Cancel
  BY <1>3, QuietStep, Zenon DEF DrainBegins, DrainReturns, Cancel, places, work, counters
<1>4. CASE UNCHANGED vars
  BY <1>4, QuietStep, Zenon DEF vars, places, work, counters
<1> QED BY <1>1, <1>2, <1>3, <1>4, RegisterStep, DispatchStep, EnqueueStep, ReportStep, Zenon DEF Next

LEMMA PrefixFacts ==
  ASSUME NEW S, NEW s \in Seq(S), NEW a \in Seq(S), NEW n, n = Len(s), n <= Len(a), \A i \in 1..n : s[i] = a[i]
  PROVE  s = SubSeq(a, 1, n) /\ n \in 0..Len(a)
<1>1. n \in Nat /\ Len(a) \in Nat
  OBVIOUS
<1>2. n \in 0..Len(a)
  BY <1>1
<1> DEFINE t == SubSeq(a, 1, n)
<1>3. Len(t) = n
  BY <1>1
<1>4. \A i \in 1..n : t[i] = a[i]
  BY <1>1
<1>5. t \in Seq(S)
  BY <1>1
<1> HIDE DEF t
<1>6. s = t
  BY <1>3, <1>4, <1>5
<1> QED BY <1>2, <1>6, Zenon DEF t

\* The counters and the order of every host's events, at every state (dispatcher.go).
LEMMA HookInvariant == Spec => []HookInv
<1>1. Init => HookInv
  BY HookStart, PoolAssumption, Zenon
<1> QED BY <1>1, HookNext, PTL DEF Spec

\* d.pending counts the events that are queued, processed or abandoned and not yet given back, and
\* d.droppedEvents those no worker will ever process: an event is counted once, whatever of a full queue,
\* a stop, a drain that gives up and the final report meets it (dispatcher.go enqueue, worker, stopReport).
THEOREM CountersAlwaysExact == Spec => []CountersExact
<1>1. HookInv => CountersExact
  BY Zenon DEF HookInv, Counted, Gone, CountersExact
<1> QED BY <1>1, HookInvariant, PTL

\* The hooks of a host run in the order dispatcher.go accepted its events: its hash picks one worker, and
\* neither a full queue, a reload nor a stop lets an event overtake another.
THEOREM FifoAlways == Spec => []FifoPerHost
<1>1. ASSUME HookInv, NEW h \in Host
      PROVE  \E n \in 0..Len(accepted[h]) : ran[h] = SubSeq(accepted[h], 1, n)
  <2>0. Past(h) /\ ran[h] \in Seq(1..MaxEvent) /\ accepted[h] \in Seq(1..MaxEvent)
    BY <1>1, Zenon DEF HookInv, OrderInv, Typed, Ranks
  <2>1. PICK s, a, n : s = ran[h] /\ a = accepted[h] /\ n = Len(s)
    BY Zenon
  <2>2. PICK S : S = 1..MaxEvent
    BY Zenon
  <2>3. s \in Seq(S) /\ a \in Seq(S)
    BY <2>0, <2>1, <2>2, Zenon
  <2>4. n = Len(s) /\ n <= Len(a) /\ \A i \in 1..n : s[i] = a[i]
    BY <2>0, <2>1, Zenon DEF Past
  <2>5. s = SubSeq(a, 1, n) /\ n \in 0..Len(a)
    BY <2>3, <2>4, PrefixFacts, Zenon
  <2> QED BY <2>1, <2>5, Zenon
<1>2. HookInv => FifoPerHost
  BY <1>1, Zenon DEF FifoPerHost
<1> QED BY <1>2, HookInvariant, PTL
=============================================================================
