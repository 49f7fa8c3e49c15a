--------------------------- MODULE Channel_proofs ---------------------------
(***************************************************************************)
(* Proofs about Channel: for any number of messages the map of IDs, the    *)
(* order of the messages and the end of the stream are kept, in whatever   *)
(* order the sides attach and run, and the two pipes that a channel        *)
(* connects implement PipeContract if orderly callers attach both sides    *)
(* before either runs.                                                     *)
(***************************************************************************)
EXTENDS Channel, CommonLemmas

-----------------------------------------------------------------------------
(* The inductive invariant *)

\* What the map and the proxy endpoint of side s know of its local endpoint: a proxy is
\* gone once its pipe was closed or its peer's end was seen, it has lost its peer exactly
\* when the local endpoint was closed, and then what it has paused ends with PeerClosed.
MapOf(s) ==
    /\ s \in mapped => proxy[s] # "gone"
    /\ proxy[s] \in {"attached", "running"} => s \in mapped
    /\ paused[s] # <<>> => proxy[s] \in {"detached", "attached"}
    /\ s \in local => proxyPeerOpen[s]
    /\ s \in local => (localPeerOpen[s] <=> proxy[s] # "gone")
    /\ (s \notin local /\ proxy[s] # "gone") =>
            ~proxyPeerOpen[s] /\ paused[s] # <<>> /\ Last(paused[s]) = PeerClosed

\* A side runs only when its own proxy is attached, and receives nothing before its ID is
\* in the map.
Started(s) ==
    /\ run[s] # "no" => proxy[s] # "detached"
    /\ NotYetAttached(s) => queue[s] = <<>> /\ found[s] = <<>>

MapInv == \A s \in Side : MapOf(s) /\ Started(s)

\* A PeerClosed message among q is the last one, and closed holds.
EndsClosed(q, closed) ==
    \A k \in 1..Len(q) : q[k] = PeerClosed => k = Len(q) /\ closed

ClosedOf(s) == EndsClosed(found[s] \o link[s] \o paused[Other(s)], Other(s) \notin local)

ClosedInv == \A s \in Side : ClosedOf(s)

\* What a direction of the pipe holds: queue, found, link and paused.
Parts(q, f, l, p) == q \o f \o l \o p

\* q holds the messages after number t, at most up to n, in order and without a gap;
\* when all of them are there and the writer has closed, PeerClosed may follow.
Carries(q, t, n, closed) ==
    \A k \in 1..Len(q) :
        \/ q[k] = t + k /\ t + k <= n
        \/ q[k] = PeerClosed /\ k = Len(q) /\ t + k = n + 1 /\ closed

\* What will reach side s: a message that is paused does only if the writer's channel is
\* not shut down.
Reaching(s) ==
    Parts(queue[s], found[s], link[s], IF Other(s) \in up THEN paused[Other(s)] ELSE <<>>)

\* While the end of the stream was not seen, what reaches a reader is what it has to read
\* next, and all of it if the writer's channel is up.  When the end was seen, the queue
\* holds the rest.
StreamOf(s) ==
    /\ (s \in local /\ localPeerOpen[s]) =>
          /\ Carries(Reaching(s), Passed(s), sent[Other(s)], Other(s) \notin local)
          /\ Other(s) \in up => Len(Reaching(s)) >= sent[Other(s)] - Passed(s)
    /\ (s \in local /\ ~localPeerOpen[s]) =>
          /\ Other(s) \notin local
          /\ Len(queue[s]) = sent[Other(s)] - Passed(s)

\* No control message is ever queued, and no more is read or missed than was written.
QueueOf(s) ==
    /\ \A k \in 1..Len(queue[s]) : queue[s][k] # PeerClosed
    /\ s \in local => Passed(s) <= sent[Other(s)]

StreamInv == \A s \in Side : QueueOf(s) /\ StreamOf(s)

IInv == TypeOK /\ MapInv /\ ClosedInv /\ StreamInv


-----------------------------------------------------------------------------
(* Sequences in parts *)

LEMMA ConcatNat ==
    /\ \A s, t \in Seq(Nat) : s \o t \in Seq(Nat)
    /\ \A s, t, u \in Seq(Nat) : (s \o t) \o u = s \o (t \o u)
<1>1. ASSUME NEW s \in Seq(Nat), NEW t \in Seq(Nat) PROVE s \o t \in Seq(Nat)
  BY ConcatProperties
<1>2. ASSUME NEW s \in Seq(Nat), NEW t \in Seq(Nat), NEW u \in Seq(Nat)
      PROVE  (s \o t) \o u = s \o (t \o u)
  BY ConcatAssociative, SMTT(30)
<1> QED
  BY <1>1, <1>2

LEMMA PartsAreSeq ==
    ASSUME NEW q \in Seq(Nat), NEW f \in Seq(Nat), NEW l \in Seq(Nat), NEW p \in Seq(Nat)
    PROVE  /\ Parts(q, f, l, p) \in Seq(Nat)
           /\ Len(Parts(q, f, l, p)) = Len(q) + Len(f) + Len(l) + Len(p)
<1>1. q \o f \in Seq(Nat) /\ Len(q \o f) = Len(q) + Len(f)
  BY ConcatProperties
<1>2. q \o f \o l \in Seq(Nat) /\ Len(q \o f \o l) = Len(q) + Len(f) + Len(l)
  BY <1>1, ConcatProperties
<1> QED
  BY <1>2, ConcatProperties DEF Parts

\* The tail of a concatenation.
LEMMA TailConcat ==
    ASSUME NEW q \in Seq(Nat), NEW w \in Seq(Nat), q # <<>>
    PROVE  /\ Tail(q \o w) = Tail(q) \o w /\ Head(q \o w) = Head(q)
           /\ q \o w # <<>>
<1> DEFINE a == q \o w
           b == Tail(q) \o w
<1>1. /\ Len(q) \in Nat /\ Len(q) >= 1 /\ Tail(q) \in Seq(Nat) /\ Len(Tail(q)) = Len(q) - 1
      /\ \A j \in 1..(Len(q) - 1) : Tail(q)[j] = q[j + 1]
      /\ Head(q) = q[1]
  BY QueueFacts
<1>2. /\ a \in Seq(Nat) /\ Len(a) = Len(q) + Len(w) /\ Len(w) \in Nat
      /\ \A i \in 1..(Len(q) + Len(w)) : a[i] = IF i <= Len(q) THEN q[i] ELSE w[i - Len(q)]
  BY ConcatProperties, LenProperties
<1>3. /\ b \in Seq(Nat) /\ Len(b) = Len(Tail(q)) + Len(w)
      /\ \A i \in 1..(Len(Tail(q)) + Len(w)) :
            b[i] = IF i <= Len(Tail(q)) THEN Tail(q)[i] ELSE w[i - Len(Tail(q))]
  BY <1>1, ConcatProperties
<1> HIDE DEF a, b
<1>4. a # <<>>
  BY <1>1, <1>2, EmptyIffLenZero
<1>5. /\ Head(a) = a[1] /\ Tail(a) \in Seq(Nat) /\ Len(Tail(a)) = Len(a) - 1
      /\ \A j \in 1..(Len(a) - 1) : Tail(a)[j] = a[j + 1]
  BY <1>2, <1>4, QueueFacts
<1>6. ASSUME NEW i \in 1..Len(b) PROVE Tail(a)[i] = b[i]
  <2>1. i \in 1..(Len(a) - 1) /\ Tail(a)[i] = a[i + 1]
    BY <1>1, <1>2, <1>3, <1>5
  <2>2. CASE i <= Len(q) - 1
    <3>1. a[i + 1] = q[i + 1] /\ b[i] = Tail(q)[i] /\ Tail(q)[i] = q[i + 1]
      BY <1>1, <1>2, <1>3, <2>2
    <3> QED BY <2>1, <3>1
  <2>3. CASE ~(i <= Len(q) - 1)
    <3>1. a[i + 1] = w[i + 1 - Len(q)]
      BY <1>1, <1>2, <1>3, <2>3, SMTT(30)
    <3>2. b[i] = w[i - (Len(q) - 1)]
      BY <1>1, <1>2, <1>3, <2>3
    <3>3. i + 1 - Len(q) = i - (Len(q) - 1)
      BY <1>1
    <3> QED BY <2>1, <3>1, <3>2, <3>3
  <2> QED BY <2>2, <2>3
<1>7. Len(Tail(a)) = Len(b)
  BY <1>1, <1>2, <1>3, <1>5
<1>8. Tail(a) = b
  BY <1>3, <1>5, <1>6, <1>7, SeqEqual
<1>9. Head(a) = Head(q)
  BY <1>1, <1>2, <1>5
<1> QED
  BY <1>4, <1>8, <1>9 DEF a, b

\* A sequence is its head and its tail.
LEMMA HeadAndTail ==
    ASSUME NEW l \in Seq(Nat), l # <<>>
    PROVE  <<Head(l)>> \in Seq(Nat) /\ <<Head(l)>> \o Tail(l) = l
<1> DEFINE h == <<Head(l)>>
           b == h \o Tail(l)
<1>1. /\ Len(l) \in Nat /\ Len(l) >= 1 /\ Tail(l) \in Seq(Nat) /\ Len(Tail(l)) = Len(l) - 1
      /\ \A j \in 1..(Len(l) - 1) : Tail(l)[j] = l[j + 1]
      /\ Head(l) = l[1] /\ Head(l) \in Nat
  BY QueueFacts
<1>2. h \in Seq(Nat) /\ Len(h) = 1 /\ h[1] = l[1]
  BY <1>1
<1> HIDE DEF h
<1>3. /\ b \in Seq(Nat) /\ Len(b) = Len(l)
      /\ \A i \in 1..Len(l) : b[i] = IF i <= 1 THEN h[i] ELSE Tail(l)[i - 1]
  <2> DEFINE t == Tail(l)
  <2>1. t \in Seq(Nat) /\ t = Tail(l)
    BY <1>1
  <2>2. b = h \o t
    OBVIOUS
  <2> HIDE DEF t, b
  <2>3. /\ b \in Seq(Nat) /\ Len(b) = Len(h) + Len(t)
        /\ \A i \in 1..(Len(h) + Len(t)) :
              b[i] = IF i <= Len(h) THEN h[i] ELSE t[i - Len(h)]
    BY <1>2, <2>1, <2>2, ConcatProperties
  <2> QED
    BY <1>1, <1>2, <2>1, <2>3
<1> HIDE DEF b
<1>4. ASSUME NEW i \in 1..Len(l) PROVE b[i] = l[i]
  <2>1. CASE i = 1
    BY <1>2, <1>3, <2>1
  <2>2. CASE i # 1
    <3>1. b[i] = Tail(l)[i - 1] /\ i - 1 \in 1..(Len(l) - 1)
      BY <1>1, <1>3, <2>2
    <3> QED BY <1>1, <3>1
  <2> QED BY <2>1, <2>2
<1>5. b = l
  BY <1>3, <1>4, SeqEqual
<1> QED
  BY <1>2, <1>5 DEF b, h

\* w is q without its first element, which is h.
Popped(w, q, h) ==
    q \in Seq(Nat) /\ q # <<>> /\ h = Head(q) /\ w = Tail(q) /\ w \in Seq(Nat)

\* Taking the first message off the queue.
LEMMA PartsTail ==
    ASSUME NEW q \in Seq(Nat), NEW f \in Seq(Nat), NEW l \in Seq(Nat), NEW p \in Seq(Nat),
           NEW h, NEW w, Popped(w, q, h)
    PROVE  Popped(Parts(w, f, l, p), Parts(q, f, l, p), h)
<1>0. q # <<>> /\ h = Head(q) /\ w = Tail(q) /\ w \in Seq(Nat)
  BY DEF Popped
<1>1. /\ Tail(q \o f) = Tail(q) \o f /\ Head(q \o f) = Head(q) /\ q \o f # <<>>
      /\ q \o f \in Seq(Nat)
  BY <1>0, TailConcat, ConcatProperties
<1> DEFINE a == q \o f
<1>2. a \in Seq(Nat) /\ a # <<>> /\ Tail(a) = Tail(q) \o f /\ Head(a) = Head(q)
  BY <1>1
<1> HIDE DEF a
<1>3. /\ Tail(a \o l) = Tail(a) \o l /\ Head(a \o l) = Head(a) /\ a \o l # <<>>
      /\ a \o l \in Seq(Nat)
  BY <1>2, TailConcat, ConcatProperties
<1> DEFINE b == a \o l
<1>4. b \in Seq(Nat) /\ b # <<>> /\ Tail(b) = Tail(q) \o f \o l /\ Head(b) = Head(q)
  BY <1>2, <1>3
<1>5. Parts(q, f, l, p) = b \o p
  BY DEF Parts, a, b
<1> HIDE DEF b
<1>6. Tail(b \o p) = Tail(b) \o p /\ Head(b \o p) = Head(b) /\ b \o p # <<>>
  BY <1>4, TailConcat
<1>7. Parts(w, f, l, p) = Tail(b \o p)
  BY <1>0, <1>4, <1>6 DEF Parts
<1>8. Parts(w, f, l, p) \in Seq(Nat) /\ Parts(q, f, l, p) \in Seq(Nat)
  BY <1>0, PartsAreSeq
<1> QED
  BY <1>0, <1>4, <1>5, <1>6, <1>7, <1>8 DEF Popped

\* The I/O thread enqueues the message.
LEMMA PartsEnqueued ==
    ASSUME NEW q \in Seq(Nat), NEW f \in Seq(Nat), NEW l \in Seq(Nat), NEW p \in Seq(Nat)
    PROVE  Parts(q \o f, <<>>, l, p) = Parts(q, f, l, p)
<1>1. q \o f \in Seq(Nat)
  BY ConcatProperties
<1>2. (q \o f) \o <<>> = q \o f
  BY <1>1, ConcatEmptySeq
<1> QED
  BY <1>2 DEF Parts

\* Run transmits what was paused.
LEMMA PartsSent ==
    ASSUME NEW q \in Seq(Nat), NEW f \in Seq(Nat), NEW l \in Seq(Nat), NEW p \in Seq(Nat)
    PROVE  Parts(q, f, l \o p, <<>>) = Parts(q, f, l, p)
<1> DEFINE a == q \o f
<1>1. a \in Seq(Nat) /\ a \o (l \o p) \in Seq(Nat)
  BY ConcatProperties
<1>2. Parts(q, f, l \o p, <<>>) = (a \o (l \o p)) \o <<>> /\ Parts(q, f, l, p) = (a \o l) \o p
  BY DEF Parts
<1> HIDE DEF a
<1>3. (a \o (l \o p)) \o <<>> = a \o (l \o p)
  BY <1>1, ConcatEmptySeq
<1>4. (a \o l) \o p = a \o (l \o p)
  BY <1>1, ConcatNat, SMTT(30)
<1> QED
  BY <1>2, <1>3, <1>4

\* y is w and then m.
Added(y, w, m) ==
    /\ y \in Seq(Nat) /\ w \in Seq(Nat) /\ Len(y) = Len(w) + 1
    /\ \A i \in 1..Len(w) : y[i] = w[i]
    /\ y[Len(w) + 1] = m

\* A message is paused, or transmitted when none is.
LEMMA PartsAdded ==
    ASSUME NEW q \in Seq(Nat), NEW f \in Seq(Nat), NEW l \in Seq(Nat), NEW p \in Seq(Nat),
           NEW m \in Nat, NEW l2, NEW p2,
           \/ l2 = l /\ p2 = Append(p, m)
           \/ p = <<>> /\ p2 = <<>> /\ l2 = l \o <<m>>
    PROVE  /\ Added(Parts(q, f, l2, p2), Parts(q, f, l, p), m)
           /\ l2 \in Seq(Nat) /\ p2 \in Seq(Nat)
<1> DEFINE b == q \o f \o l
<1> DEFINE e == <<m>>
<1>1. /\ b \in Seq(Nat) /\ e = <<m>> /\ e \in Seq(Nat) /\ b \o p \in Seq(Nat)
      /\ <<>> \in Seq(Nat)
  BY ConcatProperties
<1>2. ASSUME NEW w \in Seq(Nat) PROVE Parts(q, f, l, w) = b \o w
  BY DEF Parts
<1> HIDE DEF b, e
<1>3. Append(p, m) = p \o <<m>> /\ Append(p, m) \in Seq(Nat)
  BY AppendIsConcat, AppendProperties
<1>4. Append(b \o p, m) = (b \o p) \o <<m>> /\ Append(b, m) = b \o <<m>>
  BY <1>1, AppendIsConcat
<1>5. (b \o p) \o e = b \o (p \o e)
  BY <1>1, ConcatNat, ZenonT(30)
<1>6. Parts(q, f, l, Append(p, m)) = Append(Parts(q, f, l, p), m)
  BY <1>1, <1>2, <1>3, <1>4, <1>5
<1>7. Parts(q, f, l \o e, <<>>) = Parts(q, f, l, e)
  <2>1. e \in Seq(Nat)
    BY <1>1
  <2>2. \A w \in Seq(Nat) : Parts(q, f, l \o w, <<>>) = Parts(q, f, l, w)
    BY PartsSent
  <2> QED BY <2>1, <2>2
<1>8. Parts(q, f, l, e) = b \o e /\ Parts(q, f, l, <<>>) = b
  <2>1. b \o <<>> = b
    BY <1>1, ConcatEmptySeq
  <2> QED BY <1>1, <1>2, <2>1
<1>9. ASSUME NEW w \in Seq(Nat) PROVE Added(Append(w, m), w, m)
  BY AppendProperties DEF Added
<1>10. Append(p, m) \in Seq(Nat) /\ l \o e \in Seq(Nat)
  BY <1>1, <1>3, ConcatProperties
<1>11. CASE l2 = l /\ p2 = Append(p, m)
  <2>1. Parts(q, f, l2, p2) = Append(Parts(q, f, l, p), m)
    BY <1>6, <1>11
  <2> QED BY <1>9, <1>10, <1>11, <2>1, PartsAreSeq
<1>12. CASE p = <<>> /\ p2 = <<>> /\ l2 = l \o <<m>>
  <2>1. Parts(q, f, l2, p2) = Append(b, m) /\ Parts(q, f, l, p) = b
    BY <1>1, <1>4, <1>7, <1>8, <1>12
  <2> QED BY <1>1, <1>9, <1>10, <1>12, <2>1
<1> QED
  BY <1>11, <1>12

\* y is s and then t.
Joined(y, s, t) == y = s \o t

\* The ways in which messages move on within a direction, by the parts they change:
\* transmitted by Run, ...
LEMMA MovedToLink ==
    ASSUME NEW q \in Seq(Nat), NEW f \in Seq(Nat), NEW l \in Seq(Nat), NEW p \in Seq(Nat),
           NEW l2, Joined(l2, l, p)
    PROVE  Parts(q, f, l2, <<>>) = Parts(q, f, l, p)
<1>1. Parts(q, f, l \o p, <<>>) = Parts(q, f, l, p)
  BY PartsSent
<1> QED BY <1>1 DEF Joined

\* ... taken off the link, ...
LEMMA MovedToFound ==
    ASSUME NEW q \in Seq(Nat), NEW l \in Seq(Nat), NEW p \in Seq(Nat), l # <<>>,
           NEW f2 \in Seq(Nat), NEW l2 \in Seq(Nat), Joined(l, f2, l2)
    PROVE  Parts(q, f2, l2, p) = Parts(q, <<>>, l, p)
<1>1. (q \o f2) \o l2 = q \o (f2 \o l2)
  BY ConcatNat
<1>2. q \o <<>> = q
  BY ConcatEmptySeq
<1>3. f2 \o l2 = l
  BY DEF Joined
<1> QED
  BY <1>1, <1>2, <1>3 DEF Parts

\* ... enqueued.
LEMMA MovedToQueue ==
    ASSUME NEW q \in Seq(Nat), NEW f \in Seq(Nat), NEW l \in Seq(Nat), NEW p \in Seq(Nat),
           NEW q2, Joined(q2, q, f)
    PROVE  Parts(q2, <<>>, l, p) = Parts(q, f, l, p)
<1>1. Parts(q \o f, <<>>, l, p) = Parts(q, f, l, p)
  BY PartsEnqueued
<1> QED BY <1>1 DEF Joined

\* The elements of three sequences in a row.
LEMMA ElementsInRow ==
    ASSUME NEW a \in Seq(Nat), NEW l \in Seq(Nat), NEW p \in Seq(Nat), NEW c, c = a \o l \o p
    PROVE  /\ c \in Seq(Nat)
           /\ Len(a) \in Nat /\ Len(l) \in Nat /\ Len(p) \in Nat
           /\ Len(c) = Len(a) + Len(l) + Len(p)
           /\ \A i \in 1..Len(a) : c[i] = a[i]
           /\ \A i \in 1..Len(l) : c[Len(a) + i] = l[i]
           /\ \A i \in 1..Len(p) : c[Len(a) + Len(l) + i] = p[i]
<1> DEFINE b == a \o l
<1>0. c = b \o p
  OBVIOUS
<1>1. /\ b \in Seq(Nat) /\ Len(b) = Len(a) + Len(l)
      /\ \A i \in 1..(Len(a) + Len(l)) : b[i] = IF i <= Len(a) THEN a[i] ELSE l[i - Len(a)]
      /\ Len(a) \in Nat /\ Len(l) \in Nat /\ Len(p) \in Nat
  BY ConcatProperties, LenProperties
<1> HIDE DEF b
<1>2. /\ c \in Seq(Nat) /\ Len(c) = Len(b) + Len(p)
      /\ \A i \in 1..(Len(b) + Len(p)) : c[i] = IF i <= Len(b) THEN b[i] ELSE p[i - Len(b)]
  <2>1. b \in Seq(Nat)
    BY <1>1
  <2> QED BY <1>0, <2>1, ConcatProperties
<1>3. ASSUME NEW i \in 1..Len(a) PROVE c[i] = a[i]
  <2>1. i \in 1..Len(b) /\ i <= Len(a) /\ i \in 1..(Len(b) + Len(p)) /\ i <= Len(b)
    BY <1>1
  <2>2. c[i] = b[i]
    BY <1>2, <2>1
  <2>3. b[i] = a[i]
    BY <1>1, <2>1
  <2> QED BY <2>2, <2>3
<1>4. ASSUME NEW i \in 1..Len(l) PROVE c[Len(a) + i] = l[i]
  <2>1. Len(a) + i \in 1..Len(b) /\ ~(Len(a) + i <= Len(a)) /\ (Len(a) + i) - Len(a) = i
    BY <1>1
  <2>2. c[Len(a) + i] = b[Len(a) + i]
    BY <1>1, <1>2, <2>1, SMTT(30)
  <2>3. b[Len(a) + i] = l[(Len(a) + i) - Len(a)]
    BY <1>1, <2>1
  <2> QED BY <2>1, <2>2, <2>3
<1>5. ASSUME NEW i \in 1..Len(p) PROVE c[Len(a) + Len(l) + i] = p[i]
  <2>1. /\ Len(a) + Len(l) + i \in 1..(Len(b) + Len(p))
        /\ ~(Len(a) + Len(l) + i <= Len(b))
        /\ (Len(a) + Len(l) + i) - Len(b) = i
    BY <1>1
  <2>2. c[Len(a) + Len(l) + i] = p[(Len(a) + Len(l) + i) - Len(b)]
    BY <1>1, <1>2, <2>1
  <2> QED BY <2>1, <2>2
<1> QED
  BY <1>1, <1>2, <1>3, <1>4, <1>5

\* The first k messages of a link.
LEMMA CutFacts ==
    ASSUME NEW l \in Seq(Nat), NEW k \in 0..Len(l)
    PROVE  /\ SubSeq(l, 1, k) \in Seq(Nat) /\ Len(SubSeq(l, 1, k)) = k
           /\ \A i \in 1..k : SubSeq(l, 1, k)[i] = l[i]
<1>1. Len(l) \in Nat /\ k \in Int /\ 1 \in Int
  BY LenProperties
<1>2. \A i \in 1..k : l[i] \in Nat
  BY <1>1, ElementOfSeq
<1>3. /\ SubSeq(l, 1, k) \in Seq(Nat)
      /\ Len(SubSeq(l, 1, k)) = IF 1 <= k THEN k - 1 + 1 ELSE 0
      /\ \A i \in 1..(k - 1 + 1) : SubSeq(l, 1, k)[i] = l[1 + i - 1]
  BY <1>1, <1>2, SubSeqProperties
<1> QED
  BY <1>1, <1>3

\* w is the first part of q.
FirstPart(w, q) == Len(w) <= Len(q) /\ \A i \in 1..Len(w) : w[i] = q[i]

\* Shutdown cuts the link: what reaches the other side is the first part of what did.
LEMMA PartsCut ==
    ASSUME NEW q \in Seq(Nat), NEW f \in Seq(Nat), NEW l \in Seq(Nat), NEW p \in Seq(Nat),
           NEW c \in Seq(Nat), FirstPart(c, l)
    PROVE  FirstPart(Parts(q, f, c, <<>>), Parts(q, f, l, p))
<1> DEFINE a == q \o f
           k == Len(c)
           new == a \o c \o <<>>
           old == a \o l \o p
<1>1. a \in Seq(Nat)
  BY ConcatProperties
<1>2. /\ Len(c) = k /\ k \in 0..Len(l) /\ \A i \in 1..k : c[i] = l[i]
  BY LenProperties DEF FirstPart
<1>3. Parts(q, f, c, <<>>) = new /\ Parts(q, f, l, p) = old
  BY DEF Parts
<1> HIDE DEF a, k
<1>4. /\ Len(a) \in Nat /\ Len(new) = Len(a) + k
      /\ \A i \in 1..Len(a) : new[i] = a[i]
      /\ \A i \in 1..k : new[Len(a) + i] = c[i]
  <2> DEFINE e == <<>>
  <2>1. e \in Seq(Nat) /\ Len(e) = 0 /\ e = <<>>
    BY EmptySeq
  <2> HIDE DEF e
  <2>2. new = a \o c \o e /\ a \in Seq(Nat) /\ c \in Seq(Nat) /\ e \in Seq(Nat)
    BY <1>1, <1>2, <2>1
  <2> HIDE DEF new
  <2>3. /\ Len(a) \in Nat /\ Len(new) = Len(a) + Len(c) + Len(e)
        /\ \A i \in 1..Len(a) : new[i] = a[i]
        /\ \A i \in 1..Len(c) : new[Len(a) + i] = c[i]
    BY <2>2, ElementsInRow
  <2> QED
    BY <1>2, <2>1, <2>3
<1>5. /\ Len(l) \in Nat /\ Len(p) \in Nat /\ Len(old) = Len(a) + Len(l) + Len(p)
      /\ \A i \in 1..Len(a) : old[i] = a[i]
      /\ \A i \in 1..Len(l) : old[Len(a) + i] = l[i]
  <2>1. old = a \o l \o p
    OBVIOUS
  <2> HIDE DEF old
  <2> QED BY <1>1, <2>1, ElementsInRow
<1> HIDE DEF new, old
<1>6. Len(new) <= Len(old)
  BY <1>2, <1>4, <1>5
<1>7. ASSUME NEW i \in 1..Len(new) PROVE new[i] = old[i]
  <2>1. CASE i <= Len(a)
    BY <1>4, <1>5, <2>1
  <2>2. CASE ~(i <= Len(a))
    <3>1. i - Len(a) \in 1..k /\ i - Len(a) \in 1..Len(l) /\ i = Len(a) + (i - Len(a))
      BY <1>2, <1>4, <1>5, <2>2
    <3>2. new[i] = c[i - Len(a)] /\ old[i] = l[i - Len(a)]
      BY <1>4, <1>5, <3>1
    <3> QED BY <1>2, <3>1, <3>2
  <2> QED BY <2>1, <2>2
<1> QED
  BY <1>3, <1>6, <1>7 DEF FirstPart

-----------------------------------------------------------------------------
(* The order of the messages *)

\* The first part of what a direction carries.
LEMMA CarriesPrefix ==
    ASSUME NEW q \in Seq(Nat), NEW w \in Seq(Nat), NEW t \in Nat, NEW n \in Nat,
           NEW closed \in BOOLEAN, Carries(q, t, n, closed),
           FirstPart(w, q)
    PROVE  Carries(w, t, n, closed)
<1> SUFFICES ASSUME NEW k \in 1..Len(w)
             PROVE  \/ w[k] = t + k /\ t + k <= n
                    \/ w[k] = PeerClosed /\ k = Len(w) /\ t + k = n + 1 /\ closed
  BY DEF Carries
<1>1. Len(w) \in Nat /\ Len(q) \in Nat /\ k \in 1..Len(q) /\ w[k] = q[k]
      /\ Len(w) <= Len(q)
  BY LenProperties DEF FirstPart
<1>2. \/ q[k] = t + k /\ t + k <= n
      \/ q[k] = PeerClosed /\ k = Len(q) /\ t + k = n + 1 /\ closed
  BY <1>1 DEF Carries
<1> QED
  BY <1>1, <1>2

\* Reading the first message.
LEMMA CarriesTail ==
    ASSUME NEW q \in Seq(Nat), NEW t \in Nat, NEW n \in Nat,
           NEW closed \in BOOLEAN, Carries(q, t, n, closed),
           NEW w, NEW h, Popped(w, q, h), h # PeerClosed
    PROVE  Carries(w, t + 1, n, closed) /\ t < n /\ Len(w) = Len(q) - 1
<1>0. q # <<>> /\ Head(q) # PeerClosed /\ w = Tail(q)
  BY DEF Popped
<1>1. /\ Len(q) \in Nat /\ Len(q) >= 1 /\ Len(Tail(q)) = Len(q) - 1 /\ Head(q) = q[1]
      /\ \A j \in 1..(Len(q) - 1) : Tail(q)[j] = q[j + 1]
  BY <1>0, QueueFacts
<1>2. t < n
  <2>1. 1 \in 1..Len(q) /\ q[1] # PeerClosed
    BY <1>0, <1>1
  <2> QED
    BY <2>1 DEF Carries
<1>3. ASSUME NEW k \in 1..Len(Tail(q))
      PROVE  \/ Tail(q)[k] = t + 1 + k /\ t + 1 + k <= n
             \/ Tail(q)[k] = PeerClosed /\ k = Len(Tail(q)) /\ t + 1 + k = n + 1 /\ closed
  <2>1. /\ k \in 1..(Len(q) - 1) /\ k + 1 \in 1..Len(q) /\ Tail(q)[k] = q[k + 1]
        /\ k \in Int /\ Len(q) \in Int
    BY <1>1
  <2>2. \/ q[k + 1] = t + (k + 1) /\ t + (k + 1) <= n
        \/ q[k + 1] = PeerClosed /\ k + 1 = Len(q) /\ t + (k + 1) = n + 1 /\ closed
    BY <2>1 DEF Carries
  <2>3. t + (k + 1) = t + 1 + k /\ (k + 1 = Len(q) => k = Len(q) - 1)
    <3>1. k \in Int /\ Len(q) \in Int /\ t \in Int
      BY <2>1
    <3> QED BY <3>1
  <2>4. k + 1 = Len(q) => k = Len(Tail(q))
    BY <1>1, <2>3
  <2> QED
    BY <2>1, <2>2, <2>3, <2>4
<1>4. Carries(Tail(q), t + 1, n, closed)
  BY <1>3 DEF Carries
<1> QED
  BY <1>0, <1>1, <1>2, <1>4

\* Dropping the PeerClosed message.
LEMMA CarriesEnd ==
    ASSUME NEW q \in Seq(Nat), NEW t \in Nat, NEW n \in Nat,
           NEW closed \in BOOLEAN, Carries(q, t, n, closed),
           NEW w, Popped(w, q, PeerClosed)
    PROVE  Carries(w, t, n, closed) /\ t = n /\ Len(w) = 0
<1>1. q # <<>> /\ Head(q) = PeerClosed /\ w = Tail(q)
  BY DEF Popped
<1>2. Len(q) \in Nat /\ Len(q) >= 1 /\ Len(Tail(q)) = Len(q) - 1 /\ Head(q) = q[1]
  BY <1>1, QueueFacts
<1>3. 1 \in 1..Len(q) /\ q[1] = PeerClosed
  BY <1>1, <1>2
<1>4. \/ q[1] = t + 1 /\ t + 1 <= n
      \/ q[1] = PeerClosed /\ 1 = Len(q) /\ t + 1 = n + 1 /\ closed
  BY <1>3 DEF Carries
<1>5. 1 = Len(q) /\ t = n
  BY <1>3, <1>4 DEF PeerClosed
<1>6. Len(w) = 0
  BY <1>1, <1>2, <1>5
<1>7. Carries(w, t, n, closed)
  BY <1>6 DEF Carries
<1> QED
  BY <1>5, <1>6, <1>7

\* Writing the next message, and what the writer's Close adds.
LEMMA CarriesAppend ==
    ASSUME NEW q \in Seq(Nat), NEW t \in Nat, NEW n \in Nat,
           Carries(q, t, n, FALSE), Len(q) >= n - t, t <= n,
           NEW m \in Nat, NEW a, Added(a, q, m)
    PROVE  /\ m = n + 1 => Carries(a, t, n + 1, FALSE) /\ Len(a) >= n + 1 - t
           /\ m = PeerClosed => Carries(a, t, n, TRUE) /\ Len(a) >= n - t
<1>1. Len(q) \in Nat
  BY LenProperties
<1>2. \A k \in 1..Len(q) : q[k] = t + k /\ t + k <= n
  BY DEF Carries
<1>3. t + Len(q) = n
  <2>1. Len(q) > 0 => t + Len(q) <= n
    BY <1>1, <1>2
  <2> QED
    BY <1>1, <2>1
<1>4. /\ Len(a) = Len(q) + 1
      /\ \A i \in 1..Len(q) : a[i] = q[i]
      /\ a[Len(q) + 1] = m
  BY DEF Added
<1>5. m = n + 1 => Carries(a, t, n + 1, FALSE)
  <2> SUFFICES ASSUME m = n + 1, NEW k \in 1..Len(a) PROVE a[k] = t + k /\ t + k <= n + 1
    BY DEF Carries
  <2>1. CASE k \in 1..Len(q)
    BY <1>2, <1>4, <2>1
  <2>2. CASE k = Len(q) + 1
    BY <1>1, <1>3, <1>4, <2>2
  <2> QED BY <1>1, <1>4, <2>1, <2>2
<1>6. m = PeerClosed => Carries(a, t, n, TRUE)
  <2> SUFFICES ASSUME m = PeerClosed, NEW k \in 1..Len(a)
               PROVE  \/ a[k] = t + k /\ t + k <= n
                      \/ a[k] = PeerClosed /\ k = Len(a) /\ t + k = n + 1
    BY DEF Carries
  <2>1. CASE k \in 1..Len(q)
    BY <1>2, <1>4, <2>1
  <2>2. CASE k = Len(q) + 1
    BY <1>1, <1>3, <1>4, <2>2
  <2> QED BY <1>1, <1>4, <2>1, <2>2
<1>7. Len(q) + 1 >= n + 1 - t /\ Len(q) + 1 >= n - t
  BY <1>1, <1>3
<1> QED
  BY <1>4, <1>5, <1>6, <1>7

\* A write that is lost, and a Close whose message is.
LEMMA CarriesMore ==
    ASSUME NEW q \in Seq(Nat), NEW t \in Nat, NEW n \in Nat, Carries(q, t, n, FALSE)
    PROVE  Carries(q, t, n + 1, FALSE) /\ Carries(q, t, n, TRUE)
BY DEF Carries


-----------------------------------------------------------------------------
(* The end of the stream *)

\* A direction without its queue is one whose queue, or whose found message, is empty.
LEMMA RowIsParts ==
    ASSUME NEW f \in Seq(Nat), NEW l \in Seq(Nat), NEW p \in Seq(Nat)
    PROVE  f \o l \o p = Parts(<<>>, f, l, p) /\ f \o l \o p = Parts(f, <<>>, l, p)
<1>1. <<>> \o f = f /\ f \o <<>> = f
  BY ConcatEmptySeq
<1> QED
  BY <1>1 DEF Parts

LEMMA EndsClosedTail ==
    ASSUME NEW q \in Seq(Nat), NEW closed \in BOOLEAN, EndsClosed(q, closed),
           NEW w, NEW h, Popped(w, q, h)
    PROVE  EndsClosed(w, closed)
<1>0. q # <<>> /\ w = Tail(q)
  BY DEF Popped
<1>1. /\ Len(q) \in Nat /\ Len(q) >= 1 /\ Len(Tail(q)) = Len(q) - 1
      /\ \A j \in 1..(Len(q) - 1) : Tail(q)[j] = q[j + 1]
  BY <1>0, QueueFacts
<1>2. ASSUME NEW k \in 1..Len(Tail(q)), Tail(q)[k] = PeerClosed
      PROVE  k = Len(Tail(q)) /\ closed
  <2>1. /\ k \in 1..(Len(q) - 1) /\ k + 1 \in 1..Len(q) /\ q[k + 1] = PeerClosed
        /\ k \in Int /\ Len(q) \in Int
    BY <1>1, <1>2
  <2>2. k + 1 = Len(q) /\ closed
    BY <2>1 DEF EndsClosed
  <2>3. k = Len(q) - 1
    <3>1. k \in Int /\ Len(q) \in Int
      BY <2>1
    <3> QED BY <2>2, <3>1
  <2> QED
    BY <1>1, <2>2, <2>3
<1>3. EndsClosed(Tail(q), closed)
  BY <1>2 DEF EndsClosed
<1> QED
  BY <1>0, <1>3

LEMMA EndsClosedAppend ==
    ASSUME NEW q \in Seq(Nat), EndsClosed(q, FALSE), NEW m \in Nat, NEW a, Added(a, q, m)
    PROVE  /\ m # PeerClosed => EndsClosed(a, FALSE)
           /\ m = PeerClosed => EndsClosed(a, TRUE)
<1>1. Len(q) \in Nat /\ \A k \in 1..Len(q) : q[k] # PeerClosed
  BY LenProperties DEF EndsClosed
<1>2. /\ Len(a) = Len(q) + 1
      /\ \A i \in 1..Len(q) : a[i] = q[i]
      /\ a[Len(q) + 1] = m
  BY DEF Added
<1>3. ASSUME NEW k \in 1..Len(a), a[k] = PeerClosed PROVE k = Len(a) /\ m = PeerClosed
  <2>1. k \in 1..Len(q) \/ k = Len(q) + 1
    BY <1>1, <1>2
  <2> QED BY <1>1, <1>2, <1>3, <2>1
<1> QED
  BY <1>3 DEF EndsClosed

LEMMA EndsClosedLater ==
    ASSUME NEW q \in Seq(Nat), EndsClosed(q, FALSE)
    PROVE  EndsClosed(q, TRUE)
BY DEF EndsClosed

\* The link is cut or what is paused is dropped.
LEMMA EndsClosedShorter ==
    ASSUME NEW f \in Seq(Nat), NEW l \in Seq(Nat), NEW p \in Seq(Nat), NEW closed \in BOOLEAN,
           EndsClosed(f \o l \o p, closed),
           NEW c \in Seq(Nat), Len(c) <= Len(l), \A i \in 1..Len(c) : c[i] = l[i],
           NEW d \in Seq(Nat), d = p \/ d = <<>>
    PROVE  EndsClosed(f \o c \o d, closed)
<1> DEFINE old == f \o l \o p
           new == f \o c \o d
<1>1. EndsClosed(old, closed) /\ old = f \o l \o p /\ new = f \o c \o d
  OBVIOUS
<1> HIDE DEF old, new
<1>2. /\ Len(f) \in Nat /\ Len(l) \in Nat /\ Len(p) \in Nat
      /\ Len(old) = Len(f) + Len(l) + Len(p)
      /\ \A i \in 1..Len(f) : old[i] = f[i]
      /\ \A i \in 1..Len(l) : old[Len(f) + i] = l[i]
      /\ \A i \in 1..Len(p) : old[Len(f) + Len(l) + i] = p[i]
  BY <1>1, ElementsInRow
<1>3. /\ Len(c) \in Nat /\ Len(d) \in Nat
      /\ Len(new) = Len(f) + Len(c) + Len(d)
      /\ \A i \in 1..Len(f) : new[i] = f[i]
      /\ \A i \in 1..Len(c) : new[Len(f) + i] = c[i]
      /\ \A i \in 1..Len(d) : new[Len(f) + Len(c) + i] = d[i]
  BY <1>1, ElementsInRow, SMTT(30)
<1>4. Len(d) = 0 \/ (Len(d) = Len(p) /\ d = p)
  BY EmptySeq
<1>5. ASSUME NEW k \in 1..Len(new), new[k] = PeerClosed
      PROVE  k = Len(new) /\ closed
  <2>1. k \in Nat /\ k >= 1 /\ k <= Len(f) + Len(c) + Len(d)
    BY <1>2, <1>3
  <2>2. CASE k <= Len(f)
    <3>1. k \in 1..Len(f) /\ k \in 1..Len(old)
      BY <1>2, <2>1, <2>2
    <3>2. old[k] = PeerClosed
      BY <1>2, <1>3, <1>5, <3>1
    <3>3. k = Len(old) /\ closed
      BY <1>1, <3>1, <3>2 DEF EndsClosed
    <3>4. k = Len(new)
      BY <1>2, <1>3, <1>4, <2>1, <2>2, <3>3
    <3> QED BY <3>3, <3>4
  <2>3. CASE k > Len(f) /\ k <= Len(f) + Len(c)
    <3> DEFINE i == k - Len(f)
    <3>1. i \in 1..Len(c) /\ i \in 1..Len(l) /\ k = Len(f) + i /\ k \in 1..Len(old)
      BY <1>2, <1>3, <2>1, <2>3
    <3> HIDE DEF i
    <3>2. old[k] = PeerClosed
      BY <1>2, <1>3, <1>5, <3>1
    <3>3. k = Len(old) /\ closed
      BY <1>1, <3>1, <3>2 DEF EndsClosed
    <3>4. k = Len(new)
      BY <1>2, <1>3, <1>4, <2>1, <2>3, <3>3, SMTT(30)
    <3> QED BY <3>3, <3>4
  <2>4. CASE k > Len(f) + Len(c)
    <3> DEFINE i == k - (Len(f) + Len(c))
               j == Len(f) + Len(l) + i
    <3>1. i \in 1..Len(d) /\ k = Len(f) + Len(c) + i
      BY <1>2, <1>3, <2>1, <2>4
    <3>2. Len(d) = Len(p) /\ d = p
      BY <1>3, <1>4, <3>1
    <3>3. j = Len(f) + Len(l) + i
      OBVIOUS
    <3> HIDE DEF i, j
    <3>4. j \in 1..Len(old)
      BY <1>2, <1>3, <3>1, <3>2, <3>3
    <3>5. old[j] = PeerClosed
      BY <1>2, <1>3, <1>5, <3>1, <3>2, <3>3
    <3>6. j = Len(old) /\ closed
      BY <1>1, <3>4, <3>5 DEF EndsClosed
    <3>7. k = Len(new)
      BY <1>2, <1>3, <3>1, <3>2, <3>3, <3>6
    <3> QED BY <3>6, <3>7
  <2> QED
    BY <1>2, <1>3, <2>1, <2>2, <2>3, <2>4
<1> QED
  BY <1>5 DEF EndsClosed, new


-----------------------------------------------------------------------------
(* The state of the two sides *)

LEMMA TwoSides ==
    ASSUME NEW s \in Side
    PROVE  /\ Other(s) \in Side /\ Other(s) # s /\ Other(Other(s)) = s
           /\ \A r \in Side : r # s => r = Other(s)
BY DEF Side, Other

LEMMA Types ==
    ASSUME TypeOK, NEW s \in Side
    PROVE  /\ queue[s] \in Seq(Nat) /\ paused[s] \in Seq(Nat)
           /\ link[s] \in Seq(Nat) /\ found[s] \in Seq(Nat) /\ <<>> \in Seq(Nat)
           /\ sent[s] \in Nat /\ taken[s] \in Nat /\ missed[s] \in Nat /\ Passed(s) \in Nat
BY DEF TypeOK, Passed

\* A step that changes nothing of a direction keeps its order.
LEMMA DirectionKept ==
    ASSUME NEW s \in Side, ClosedOf(s), QueueOf(s), StreamOf(s),
           queue'[s] = queue[s], found'[s] = found[s], link'[s] = link[s],
           paused'[Other(s)] = paused[Other(s)],
           sent'[Other(s)] = sent[Other(s)], taken'[s] = taken[s], missed'[s] = missed[s],
           localPeerOpen'[s] = localPeerOpen[s],
           s \in local' <=> s \in local,
           Other(s) \in local' <=> Other(s) \in local,
           Other(s) \in up' <=> Other(s) \in up
    PROVE  ClosedOf(s)' /\ QueueOf(s)' /\ StreamOf(s)'
<1>0. Passed(s)' = Passed(s)
  BY DEF Passed
<1>1. ClosedOf(s)'
  BY DEF ClosedOf
<1>2. QueueOf(s)'
  BY <1>0 DEF QueueOf
<1>3. Reaching(s)' = Reaching(s)
  BY DEF Reaching
<1>4. StreamOf(s)'
  BY <1>0, <1>3 DEF StreamOf
<1> QED
  BY <1>1, <1>2, <1>4

\* The invariant holds initially.
LEMMA InitIInv == Init => IInv
<1> SUFFICES ASSUME Init PROVE IInv
  OBVIOUS
<1>1. TypeOK
  <2>1. <<>> \in Seq(Nat) /\ Len(<<>>) = 0
    BY EmptySeq
  <2> QED BY <2>1 DEF Init, TypeOK, Crashes, Side
<1>2. MapInv
  BY DEF Init, MapInv, MapOf, Started, NotYetAttached
<1>3. ASSUME NEW s \in Side PROVE ClosedOf(s) /\ QueueOf(s) /\ StreamOf(s)
  <2>1. /\ found[s] = <<>> /\ link[s] = <<>> /\ paused[Other(s)] = <<>> /\ queue[s] = <<>>
        /\ sent[Other(s)] = 0 /\ Passed(s) = 0 /\ localPeerOpen[s] = TRUE
        /\ s \in local /\ Other(s) \in up
    BY TwoSides DEF Init, Passed
  <2>2. Parts(<<>>, <<>>, <<>>, <<>>) = <<>> /\ <<>> \o <<>> \o <<>> = <<>>
    <3>1. <<>> \o <<>> = <<>>
      BY ConcatEmptySeq
    <3> QED BY <3>1 DEF Parts
  <2>3. Len(<<>>) = 0
    BY EmptySeq
  <2>4. ClosedOf(s)
    BY <2>1, <2>2, <2>3 DEF ClosedOf, EndsClosed
  <2>5. QueueOf(s)
    BY <2>1, <2>3 DEF QueueOf
  <2>6. Reaching(s) = <<>>
    BY <2>1, <2>2 DEF Reaching
  <2>7. StreamOf(s)
    BY <2>1, <2>3, <2>6 DEF StreamOf, Carries
  <2> QED BY <2>4, <2>5, <2>7
<1> QED
  BY <1>1, <1>2, <1>3 DEF IInv, ClosedInv, StreamInv

-----------------------------------------------------------------------------
(* The actions *)

\* Steps that move no message: an attempt that fails a check, and connecting.
LEMMA CrashStep ==
    ASSUME IInv, NEW a \in Side, NEW check \in Crashes, Crash(a, check)
    PROVE  IInv'
<1>1. /\ crash' \in [Side -> Crashes]
      /\ local' = local /\ queue' = queue /\ localPeerOpen' = localPeerOpen
      /\ proxy' = proxy /\ proxyPeerOpen' = proxyPeerOpen /\ paused' = paused
      /\ mapped' = mapped /\ up' = up /\ link' = link /\ found' = found /\ run' = run
      /\ sent' = sent /\ taken' = taken /\ missed' = missed /\ orderly' = orderly
  BY DEF IInv, TypeOK, Crash
<1>2. TypeOK'
  BY <1>1 DEF IInv, TypeOK
<1>3. MapInv'
  BY <1>1 DEF IInv, MapInv, MapOf, Started, NotYetAttached
<1>4. ASSUME NEW s \in Side PROVE ClosedOf(s)' /\ QueueOf(s)' /\ StreamOf(s)'
  BY <1>1, DirectionKept DEF IInv, ClosedInv, StreamInv
<1> QED
  BY <1>2, <1>3, <1>4 DEF IInv, ClosedInv, StreamInv

LEMMA ConnectStep ==
    ASSUME IInv, NEW a \in Side,
           AttachMessagePipeEndpoint(a) \/ Attach(a) \/ RunMessagePipeEndpoint(a)
    PROVE  IInv'
<1> SUFFICES ASSUME ~\E check \in Crashes : Crash(a, check) PROVE IInv'
  BY CrashStep
<1>1. /\ local' = local /\ queue' = queue /\ localPeerOpen' = localPeerOpen
      /\ proxyPeerOpen' = proxyPeerOpen /\ paused' = paused
      /\ up' = up /\ link' = link /\ found' = found
      /\ crash' = crash /\ sent' = sent /\ taken' = taken /\ missed' = missed /\ orderly' = orderly
  BY DEF AttachMessagePipeEndpoint, Attach, RunMessagePipeEndpoint, Crashes
<1>2. \/ /\ proxy[a] = "detached" /\ a \notin mapped /\ mapped' = mapped \cup {a}
         /\ proxy' = proxy /\ run' = run
      \/ /\ proxy[a] = "detached" /\ a \in mapped /\ proxy' = [proxy EXCEPT ![a] = "attached"]
         /\ mapped' = mapped /\ run' = run
      \/ /\ proxy[a] # "detached"
         /\ run' = [run EXCEPT ![a] = "found"]
         /\ mapped' = mapped /\ proxy' = proxy
  BY DEF AttachMessagePipeEndpoint, Attach, RunMessagePipeEndpoint, Crashes
<1>3. TypeOK'
  BY <1>1, <1>2 DEF IInv, TypeOK
<1>4. ASSUME NEW s \in Side PROVE MapOf(s)' /\ Started(s)'
  <2>1. MapOf(s) /\ Started(s) /\ proxy \in [Side -> {"detached", "attached", "running", "gone"}]
        /\ run \in [Side -> {"no", "found", "done"}]
    BY DEF IInv, TypeOK, MapInv
  <2>2. CASE proxy[a] = "detached" /\ a \notin mapped /\ mapped' = mapped \cup {a}
             /\ proxy' = proxy /\ run' = run
    BY <1>1, <2>1, <2>2 DEF MapOf, Started, NotYetAttached
  <2>3. CASE proxy[a] = "detached" /\ a \in mapped /\ mapped' = mapped /\ run' = run
             /\ proxy' = [proxy EXCEPT ![a] = "attached"]
    <3>1. /\ proxy'[a] = "attached"
          /\ \A r \in Side : r # a => proxy'[r] = proxy[r]
      BY <2>1, <2>3
    <3>2. MapOf(s)'
      BY <1>1, <2>1, <2>3, <3>1 DEF MapOf
    <3>3. Started(s)'
      BY <1>1, <2>1, <2>3, <3>1 DEF Started, NotYetAttached
    <3> QED BY <3>2, <3>3
  <2>4. CASE /\ proxy[a] # "detached" /\ run' = [run EXCEPT ![a] = "found"]
             /\ mapped' = mapped /\ proxy' = proxy
    BY <1>1, <2>1, <2>4 DEF MapOf, Started, NotYetAttached
  <2> QED
    BY <1>2, <2>2, <2>3, <2>4
<1>5. ASSUME NEW s \in Side PROVE ClosedOf(s)' /\ QueueOf(s)' /\ StreamOf(s)'
  BY <1>1, DirectionKept DEF IInv, ClosedInv, StreamInv
<1> QED
  BY <1>3, <1>4, <1>5 DEF IInv, MapInv, ClosedInv, StreamInv


\* A message is added at the writer's end of a direction: the next one, or PeerClosed by a
\* writer that closes its end; without a channel a message that is not paused is lost.
LEMMA DirectionAppend ==
    ASSUME TypeOK, NEW s \in Side, ClosedOf(s), QueueOf(s), StreamOf(s),
           NEW o \in Side, o = Other(s), o \in local, NEW m \in Nat,
           queue'[s] = queue[s], found'[s] = found[s], taken'[s] = taken[s],
           missed'[s] = missed[s],
           localPeerOpen'[s] = localPeerOpen[s], s \in local' <=> s \in local, up' = up,
           \/ link'[s] = link[s] /\ paused'[o] = Append(paused[o], m)
           \/ paused[o] = <<>> /\ paused'[o] = <<>> /\ o \in up /\ link'[s] = link[s] \o <<m>>
           \/ paused'[o] = paused[o] /\ link'[s] = link[s] /\ o \notin up,
           \/ m = sent[o] + 1 /\ sent'[o] = m /\ o \in local'
           \/ m = PeerClosed /\ sent'[o] = sent[o] /\ o \notin local'
    PROVE  ClosedOf(s)' /\ QueueOf(s)' /\ StreamOf(s)'
<1> DEFINE row == found[s] \o link[s] \o paused[o]
           new == found'[s] \o link'[s] \o paused'[o]
<1>1. /\ queue[s] \in Seq(Nat) /\ found[s] \in Seq(Nat) /\ link[s] \in Seq(Nat)
      /\ paused[o] \in Seq(Nat) /\ sent[o] \in Nat /\ Passed(s) \in Nat /\ <<>> \in Seq(Nat)
  BY Types
<1>0. Passed(s)' = Passed(s)
  BY DEF Passed
<1>2. QueueOf(s)'
  BY <1>0, <1>1 DEF QueueOf
<1>3. ClosedOf(s)'
  <2>1. EndsClosed(row, FALSE)
    BY DEF ClosedOf
  <2>2. Added(new, row, m) \/ new = row
    <3>1. CASE \/ link'[s] = link[s] /\ paused'[o] = Append(paused[o], m)
               \/ paused[o] = <<>> /\ paused'[o] = <<>> /\ link'[s] = link[s] \o <<m>>
      <4> DEFINE l2 == link'[s]
                 p2 == paused'[o]
      <4>1. \/ l2 = link[s] /\ p2 = Append(paused[o], m)
            \/ paused[o] = <<>> /\ p2 = <<>> /\ l2 = link[s] \o <<m>>
        BY <3>1
      <4>2. new = found[s] \o l2 \o p2
        OBVIOUS
      <4> HIDE DEF l2, p2, new, row
      <4>3. /\ Added(Parts(<<>>, found[s], l2, p2), Parts(<<>>, found[s], link[s], paused[o]), m)
            /\ l2 \in Seq(Nat) /\ p2 \in Seq(Nat)
        <5> DEFINE e == <<>>
                   f == found[s]
                   l == link[s]
                   p == paused[o]
        <5>1. e \in Seq(Nat) /\ f \in Seq(Nat) /\ l \in Seq(Nat) /\ p \in Seq(Nat)
          BY <1>1
        <5>2. \/ l2 = l /\ p2 = Append(p, m)
              \/ p = <<>> /\ p2 = <<>> /\ l2 = l \o <<m>>
          BY <4>1
        <5> HIDE DEF e, f, l, p
        <5>3. /\ Added(Parts(e, f, l2, p2), Parts(e, f, l, p), m)
              /\ l2 \in Seq(Nat) /\ p2 \in Seq(Nat)
          BY <5>1, <5>2, PartsAdded
        <5> QED BY <5>3 DEF e, f, l, p
      <4>4. new = Parts(<<>>, found[s], l2, p2)
        BY <1>1, <4>2, <4>3, RowIsParts, ZenonT(30)
      <4>5. row = Parts(<<>>, found[s], link[s], paused[o])
        BY <1>1, RowIsParts DEF row
      <4> QED BY <4>3, <4>4, <4>5
    <3>2. CASE paused'[o] = paused[o] /\ link'[s] = link[s]
      BY <3>2
    <3> QED BY <3>1, <3>2
  <2>3. row \in Seq(Nat)
    <3>1. found[s] \o link[s] \in Seq(Nat)
      BY <1>1, ConcatProperties
    <3> QED BY <1>1, <3>1, ConcatProperties
  <2> HIDE DEF row, new
  <2>4. CASE m = sent[o] + 1 /\ o \in local'
    <3>1. m # PeerClosed
      BY <1>1, <2>4 DEF PeerClosed
    <3>2. EndsClosed(new, FALSE)
      BY <2>1, <2>2, <2>3, <3>1, EndsClosedAppend
    <3> QED BY <2>4, <3>2 DEF ClosedOf, new
  <2>5. CASE m = PeerClosed /\ o \notin local'
    <3>1. EndsClosed(new, TRUE)
      BY <2>1, <2>2, <2>3, <2>5, EndsClosedAppend, EndsClosedLater
    <3> QED BY <2>5, <3>1 DEF ClosedOf, new
  <2> QED BY <2>4, <2>5
<1>4. StreamOf(s)'
  <2>1. CASE s \in local /\ localPeerOpen[s]
    <3> DEFINE r == Reaching(s)
               t == Passed(s)
               n == sent[o]
    <3>1. Carries(r, t, n, FALSE) /\ (o \in up => Len(r) >= n - t)
      BY <2>1 DEF StreamOf
    <3>2. r \in Seq(Nat) /\ t \in Nat /\ n \in Nat /\ t <= n
      BY <1>1, <2>1, PartsAreSeq DEF Reaching, QueueOf
    <3>3. CASE o \in up
      <4> DEFINE l2 == link'[s]
                 p2 == paused'[o]
      <4>1. \/ l2 = link[s] /\ p2 = Append(paused[o], m)
            \/ paused[o] = <<>> /\ p2 = <<>> /\ l2 = link[s] \o <<m>>
        BY <3>3
      <4>2. r = Parts(queue[s], found[s], link[s], paused[o])
            /\ Reaching(s)' = Parts(queue[s], found[s], l2, p2)
        BY <3>3 DEF Reaching
      <4> HIDE DEF l2, p2, r, t, n
      <4>3. Added(Reaching(s)', r, m)
        <5>1. Added(Parts(queue[s], found[s], l2, p2),
                    Parts(queue[s], found[s], link[s], paused[o]), m)
          BY <1>1, <4>1, PartsAdded
        <5> QED BY <4>2, <5>1
      <4>4. /\ m = n + 1 => Carries(Reaching(s)', t, n + 1, FALSE)
                            /\ Len(Reaching(s)') >= n + 1 - t
            /\ m = PeerClosed => Carries(Reaching(s)', t, n, TRUE)
                                 /\ Len(Reaching(s)') >= n - t
        BY <3>1, <3>2, <3>3, <4>3, CarriesAppend
      <4>5. s \in local' /\ localPeerOpen'[s] /\ Passed(s)' = t /\ n = sent[o]
        BY <1>0, <2>1 DEF t, n
      <4>6. CASE m = sent[o] + 1 /\ sent'[o] = m /\ o \in local'
        <5>1. sent'[o] = n + 1 /\ m = n + 1 /\ o = Other(s)
          BY <4>5, <4>6
        <5>2. Carries(Reaching(s)', t, n + 1, FALSE) /\ Len(Reaching(s)') >= n + 1 - t
          BY <4>4, <5>1
        <5>3. Carries(Reaching(s)', t, n + 1, o \notin local')
          BY <4>6, <5>2 DEF Carries
        <5>4. Len(Reaching(s)') >= sent'[o] - t
          BY <3>2, <5>1, <5>2
        <5> QED BY <4>5, <4>6, <5>1, <5>3, <5>4 DEF StreamOf
      <4>7. CASE m = PeerClosed /\ sent'[o] = sent[o] /\ o \notin local'
        BY <4>4, <4>5, <4>7 DEF StreamOf
      <4> QED BY <4>6, <4>7
    <3>4. CASE o \notin up
      <4>1. Reaching(s)' = r
        BY <3>4 DEF Reaching
      <4> HIDE DEF r, t, n
      <4>2. Carries(r, t, n + 1, FALSE) /\ Carries(r, t, n, TRUE)
        BY <3>1, <3>2, CarriesMore
      <4>3. CASE m = sent[o] + 1 /\ sent'[o] = m /\ o \in local'
        BY <1>0, <2>1, <3>4, <4>1, <4>2, <4>3 DEF StreamOf, t, n
      <4>4. CASE m = PeerClosed /\ sent'[o] = sent[o] /\ o \notin local'
        BY <1>0, <2>1, <3>4, <4>1, <4>2, <4>4 DEF StreamOf, t, n
      <4> QED BY <4>3, <4>4
    <3> QED BY <3>3, <3>4
  <2>2. CASE s \in local /\ ~localPeerOpen[s]
    BY <1>0, <2>2 DEF StreamOf
  <2>3. CASE s \notin local
    BY <2>3 DEF StreamOf
  <2> QED BY <2>1, <2>2, <2>3
<1> QED
  BY <1>2, <1>3, <1>4


LEMMA WriteStep ==
    ASSUME IInv, NEW a \in Side, WriteMessage(a)
    PROVE  IInv'
<1> DEFINE o == Other(a)
           m == sent[a] + 1
<1>1. /\ o \in Side /\ o # a /\ Other(o) = a /\ o = Other(a)
      /\ \A s \in Side : s = a \/ s = o
  BY TwoSides
<1>2. /\ TypeOK /\ m \in Nat /\ m = sent[a] + 1 /\ link \in [Side -> Seq(Nat)]
      /\ paused \in [Side -> Seq(Nat)] /\ sent \in [Side -> Nat]
  BY DEF IInv, TypeOK
<1> HIDE DEF o, m
<1>3. /\ a \in local /\ proxy[a] # "gone" /\ (proxy[a] = "running" => a \in up)
      /\ local' = local /\ queue' = queue /\ localPeerOpen' = localPeerOpen
      /\ proxy' = proxy /\ proxyPeerOpen' = proxyPeerOpen
      /\ mapped' = mapped /\ up' = up /\ found' = found /\ run' = run
      /\ crash' = crash /\ taken' = taken /\ missed' = missed /\ orderly' = orderly
  BY DEF WriteMessage
<1>4. sent' = [sent EXCEPT ![a] = m]
  BY DEF WriteMessage, m
<1>5. \/ /\ proxy[a] = "running" /\ a \in up
         /\ link' = [link EXCEPT ![o] = @ \o <<m>>] /\ paused' = paused
      \/ /\ proxy[a] # "running"
         /\ paused' = [paused EXCEPT ![a] = Append(@, m)] /\ link' = link
  BY <1>3 DEF WriteMessage, Transmit, m, o
<1>6. /\ sent' \in [Side -> Nat] /\ sent'[a] = m /\ sent'[o] = sent[o]
  BY <1>1, <1>2, <1>4
<1>7. /\ link' \in [Side -> Seq(Nat)] /\ paused' \in [Side -> Seq(Nat)]
      /\ link'[a] = link[a] /\ paused'[o] = paused[o]
  <2>1. Append(paused[a], m) \in Seq(Nat) /\ link[o] \o <<m>> \in Seq(Nat)
    BY <1>1, <1>2, AppendProperties, ConcatProperties
  <2> QED
    BY <1>1, <1>2, <1>5, <2>1
<1>8. \/ /\ proxy[a] = "running" /\ a \in up /\ link'[o] = link[o] \o <<m>>
         /\ paused'[a] = paused[a]
      \/ /\ proxy[a] # "running" /\ paused'[a] = Append(paused[a], m) /\ link'[o] = link[o]
  BY <1>1, <1>2, <1>5
<1>9. TypeOK'
  BY <1>2, <1>3, <1>6, <1>7 DEF TypeOK
<1>10. ASSUME NEW s \in Side PROVE MapOf(s)' /\ Started(s)'
  <2>1. MapOf(s) /\ Started(s) /\ Started(a) /\ MapOf(a)
    BY DEF IInv, MapInv
  <2>2. paused'[s] # paused[s] => s = a /\ proxy[a] \in {"detached", "attached"}
    BY <1>1, <1>2, <1>3, <1>7, <1>8 DEF TypeOK
  <2>4. MapOf(s)'
    <3>1. CASE paused'[s] = paused[s]
      BY <1>3, <2>1, <3>1 DEF MapOf
    <3>2. CASE paused'[s] # paused[s]
      BY <1>3, <2>1, <2>2, <3>2 DEF MapOf
    <3> QED BY <3>1, <3>2
  <2>5. Started(s)'
    BY <1>3, <2>1 DEF Started, NotYetAttached
  <2> QED BY <2>4, <2>5
<1>11. ClosedOf(a)' /\ QueueOf(a)' /\ StreamOf(a)'
  BY <1>1, <1>3, <1>6, <1>7, DirectionKept DEF IInv, ClosedInv, StreamInv
<1>12. ClosedOf(o)' /\ QueueOf(o)' /\ StreamOf(o)'
  <2>1. ClosedOf(o) /\ QueueOf(o) /\ StreamOf(o) /\ MapOf(a)
    BY <1>1 DEF IInv, MapInv, ClosedInv, StreamInv
  <2>2. \/ link'[o] = link[o] /\ paused'[a] = Append(paused[a], m)
        \/ paused[a] = <<>> /\ paused'[a] = <<>> /\ a \in up /\ link'[o] = link[o] \o <<m>>
    BY <1>8, <2>1 DEF MapOf
  <2> QED
    BY <1>1, <1>2, <1>3, <1>6, <2>1, <2>2, DirectionAppend
<1> QED
  BY <1>1, <1>9, <1>10, <1>11, <1>12 DEF IInv, MapInv, ClosedInv, StreamInv


LEMMA LastOfAppend ==
    ASSUME NEW q \in Seq(Nat), NEW m \in Nat, NEW p, p = Append(q, m)
    PROVE  Last(p) = m /\ p # <<>>
BY AppendProperties DEF Last

LEMMA CloseStep ==
    ASSUME IInv, NEW a \in Side, Close(a)
    PROVE  IInv'
<1> DEFINE o == Other(a)
<1>1. /\ o \in Side /\ o # a /\ Other(o) = a /\ o = Other(a)
      /\ \A s \in Side : s = a \/ s = o
  BY TwoSides
<1>2. /\ TypeOK /\ link \in [Side -> Seq(Nat)] /\ <<>> \in Seq(Nat) /\ PeerClosed \in Nat
      /\ paused \in [Side -> Seq(Nat)] /\ queue \in [Side -> Seq(Nat)]
      /\ proxy \in [Side -> {"detached", "attached", "running", "gone"}]
      /\ proxyPeerOpen \in [Side -> BOOLEAN]
  BY DEF IInv, TypeOK, PeerClosed
<1> HIDE DEF o
<1>3. /\ a \in local /\ local' = local \ {a} /\ queue' = [queue EXCEPT ![a] = <<>>]
      /\ localPeerOpen' = localPeerOpen
      /\ up' = up /\ found' = found /\ run' = run
      /\ crash' = crash /\ taken' = taken /\ missed' = missed /\ sent' = sent /\ orderly' = orderly
  BY DEF Close
<1>4. \/ /\ proxy[a] = "gone" /\ proxy' = proxy /\ proxyPeerOpen' = proxyPeerOpen
         /\ paused' = paused /\ mapped' = mapped /\ link' = link
      \/ /\ proxy[a] = "running" /\ proxyPeerOpen' = [proxyPeerOpen EXCEPT ![a] = FALSE]
         /\ link' = IF a \in up THEN [link EXCEPT ![o] = @ \o <<PeerClosed>>] ELSE link
         /\ proxy' = [proxy EXCEPT ![a] = "gone"]
         /\ mapped' = mapped \ {a} /\ paused' = [paused EXCEPT ![a] = <<>>]
      \/ /\ proxy[a] \in {"detached", "attached"}
         /\ proxyPeerOpen' = [proxyPeerOpen EXCEPT ![a] = FALSE]
         /\ link' = link /\ proxy' = proxy /\ mapped' = mapped
         /\ paused' = [paused EXCEPT ![a] = Append(@, PeerClosed)]
  BY <1>2 DEF Close, DestroyedOnPeerClose, CloseProxy, Transmit, Pause, o
<1>5. /\ queue' \in [Side -> Seq(Nat)] /\ queue'[a] = <<>> /\ queue'[o] = queue[o]
      /\ a \notin local' /\ (o \in local' <=> o \in local)
  BY <1>1, <1>2, <1>3
<1>6. /\ link' \in [Side -> Seq(Nat)] /\ paused' \in [Side -> Seq(Nat)]
      /\ link'[a] = link[a] /\ paused'[o] = paused[o]
      /\ proxy' \in [Side -> {"detached", "attached", "running", "gone"}]
      /\ proxy'[o] = proxy[o] /\ (o \in mapped' <=> o \in mapped) /\ mapped' \subseteq mapped
  <2>1. Append(paused[a], PeerClosed) \in Seq(Nat) /\ link[o] \o <<PeerClosed>> \in Seq(Nat)
    BY <1>1, <1>2, AppendProperties, ConcatProperties
  <2>2. link' \in [Side -> Seq(Nat)] /\ link'[a] = link[a]
    <3> DEFINE l2 == link[o] \o <<PeerClosed>>
    <3>1. link' = link \/ link' = [link EXCEPT ![o] = l2]
      BY <1>4
    <3>2. l2 \in Seq(Nat)
      BY <2>1
    <3> HIDE DEF l2
    <3> QED BY <1>1, <1>2, <3>1, <3>2
  <2>3. paused' \in [Side -> Seq(Nat)] /\ paused'[o] = paused[o]
    <3> DEFINE p2 == Append(paused[a], PeerClosed)
    <3>1. \/ paused' = paused
          \/ paused' = [paused EXCEPT ![a] = <<>>]
          \/ paused' = [paused EXCEPT ![a] = p2]
      BY <1>4
    <3>2. p2 \in Seq(Nat)
      BY <2>1
    <3> HIDE DEF p2
    <3> QED BY <1>1, <1>2, <3>1, <3>2
  <2>4. /\ proxy' \in [Side -> {"detached", "attached", "running", "gone"}]
        /\ proxy'[o] = proxy[o] /\ (o \in mapped' <=> o \in mapped) /\ mapped' \subseteq mapped
    BY <1>1, <1>2, <1>4
  <2> QED
    BY <2>2, <2>3, <2>4
<1>7. proxyPeerOpen' \in [Side -> BOOLEAN] /\ proxyPeerOpen'[o] = proxyPeerOpen[o]
  BY <1>1, <1>2, <1>4
<1>8. \/ /\ proxy[a] = "gone" /\ proxy'[a] = "gone"
         /\ paused'[a] = paused[a] /\ (a \in mapped' <=> a \in mapped) /\ link'[o] = link[o]
      \/ /\ proxy[a] = "running"
         /\ (a \in up => link'[o] = link[o] \o <<PeerClosed>>)
         /\ (a \notin up => link'[o] = link[o])
         /\ proxy'[a] = "gone" /\ a \notin mapped' /\ paused'[a] = <<>>
      \/ /\ proxy[a] \in {"detached", "attached"} /\ proxyPeerOpen'[a] = FALSE
         /\ link'[o] = link[o] /\ proxy'[a] = proxy[a] /\ (a \in mapped' <=> a \in mapped)
         /\ paused'[a] = Append(paused[a], PeerClosed)
  BY <1>1, <1>2, <1>4
<1>9. TypeOK'
  <2>1. local' \subseteq Side /\ mapped' \subseteq Side
    BY <1>2, <1>3, <1>6 DEF TypeOK
  <2> QED
    BY <1>2, <1>3, <1>5, <1>6, <1>7, <2>1 DEF TypeOK
<1>10. MapOf(a) /\ MapOf(o) /\ Started(a) /\ Started(o)
  BY <1>1 DEF IInv, MapInv
<1>11. MapOf(o)'
  BY <1>3, <1>5, <1>6, <1>7, <1>10 DEF MapOf
<1>12. MapOf(a)'
  <2>1. CASE proxy[a] = "gone" /\ proxy'[a] = "gone" /\ paused'[a] = paused[a]
             /\ (a \in mapped' <=> a \in mapped)
    BY <1>5, <1>10, <2>1 DEF MapOf
  <2>2. CASE proxy'[a] = "gone" /\ a \notin mapped' /\ paused'[a] = <<>>
    BY <1>5, <2>2 DEF MapOf
  <2>3. CASE /\ proxy[a] \in {"detached", "attached"} /\ proxyPeerOpen'[a] = FALSE
             /\ proxy'[a] = proxy[a] /\ (a \in mapped' <=> a \in mapped)
             /\ paused'[a] = Append(paused[a], PeerClosed)
    <3> DEFINE p == paused'[a]
    <3>1. Last(p) = PeerClosed /\ p # <<>>
      <4>1. p = Append(paused[a], PeerClosed) /\ paused[a] \in Seq(Nat)
        BY <1>2, <2>3
      <4> HIDE DEF p
      <4> QED BY <1>2, <4>1, LastOfAppend
    <3> HIDE DEF p
    <3>2. p = paused'[a]
      BY DEF p
    <3> QED
      BY <1>5, <1>10, <2>3, <3>1, <3>2 DEF MapOf
  <2> QED BY <1>8, <2>1, <2>2, <2>3
<1>13. Started(a)' /\ Started(o)'
  <2>1. \A r \in Side : proxy'[r] = "detached" => proxy[r] = "detached"
    BY <1>1, <1>6, <1>8
  <2>2. Started(a)'
    BY <1>3, <1>6, <1>8, <1>10, <2>1 DEF Started, NotYetAttached
  <2>3. Started(o)'
    BY <1>3, <1>6, <1>8, <1>10, <2>1 DEF Started, NotYetAttached
  <2> QED BY <2>2, <2>3
<1>14. ClosedOf(a)' /\ QueueOf(a)' /\ StreamOf(a)'
  <2>1. ClosedOf(a) /\ QueueOf(a)
    BY <1>1, <1>2 DEF IInv, ClosedInv, StreamInv, TypeOK
  <2>2. ClosedOf(a)'
    BY <1>1, <1>3, <1>5, <1>6, <2>1 DEF ClosedOf
  <2>3. QueueOf(a)'
    <3>1. Len(<<>>) = 0
      BY EmptySeq
    <3> QED BY <1>1, <1>3, <1>5, <2>1, <3>1 DEF QueueOf
  <2>4. StreamOf(a)'
    BY <1>5 DEF StreamOf
  <2> QED BY <2>2, <2>3, <2>4
<1>15. ClosedOf(o)' /\ QueueOf(o)' /\ StreamOf(o)'
  <2>1. ClosedOf(o) /\ QueueOf(o) /\ StreamOf(o) /\ StreamOf(a)
    BY <1>1 DEF IInv, ClosedInv, StreamInv
  <2>2. CASE proxy[a] = "gone" /\ paused'[a] = paused[a] /\ link'[o] = link[o]
    <3>1. o \notin local
      BY <1>1, <1>3, <1>10, <2>1, <2>2 DEF MapOf, StreamOf
    <3>2. ClosedOf(o)'
      <4>1. EndsClosed(found[o] \o link[o] \o paused[a], FALSE)
        BY <1>1, <1>3, <2>1 DEF ClosedOf
      <4>2. EndsClosed(found[o] \o link[o] \o paused[a], TRUE)
        BY <4>1 DEF EndsClosed
      <4> QED BY <1>1, <1>3, <1>5, <2>2, <4>2 DEF ClosedOf
    <3>3. QueueOf(o)' /\ StreamOf(o)'
      BY <1>1, <1>3, <1>5, <2>1, <3>1 DEF QueueOf, StreamOf
    <3> QED BY <3>2, <3>3
  <2>3. CASE ~(proxy[a] = "gone" /\ paused'[a] = paused[a] /\ link'[o] = link[o])
    <3>1. \/ link'[o] = link[o] /\ paused'[a] = Append(paused[a], PeerClosed)
          \/ paused[a] = <<>> /\ paused'[a] = <<>> /\ a \in up
             /\ link'[o] = link[o] \o <<PeerClosed>>
          \/ paused'[a] = paused[a] /\ link'[o] = link[o] /\ a \notin up
      BY <1>8, <1>10, <2>3 DEF MapOf
    <3> QED
      BY <1>1, <1>2, <1>3, <1>5, <2>1, <3>1, DirectionAppend
  <2> QED BY <2>2, <2>3
<1> QED
  BY <1>1, <1>9, <1>11, <1>12, <1>13, <1>14, <1>15 DEF IInv, MapInv, ClosedInv, StreamInv


LEMMA RunStep ==
    ASSUME IInv, NEW a \in Side, Run(a)
    PROVE  IInv'
<1> SUFFICES ASSUME ~\E check \in Crashes : Crash(a, check) PROVE IInv'
  BY CrashStep
<1> DEFINE o == Other(a)
<1>1. /\ o \in Side /\ o # a /\ Other(o) = a /\ o = Other(a)
      /\ \A s \in Side : s = a \/ s = o
  BY TwoSides
<1>2. /\ TypeOK /\ link \in [Side -> Seq(Nat)] /\ <<>> \in Seq(Nat)
      /\ paused \in [Side -> Seq(Nat)] /\ run \in [Side -> {"no", "found", "done"}]
      /\ proxy \in [Side -> {"detached", "attached", "running", "gone"}]
  BY DEF IInv, TypeOK
<1> HIDE DEF o
<1>3. /\ run[a] = "found" /\ proxy[a] # "gone"
      /\ local' = local /\ queue' = queue /\ localPeerOpen' = localPeerOpen
      /\ proxyPeerOpen' = proxyPeerOpen /\ up' = up /\ found' = found
      /\ crash' = crash /\ taken' = taken /\ missed' = missed /\ sent' = sent /\ orderly' = orderly
      /\ run' = [run EXCEPT ![a] = "done"]
      /\ link' = IF a \in up THEN [link EXCEPT ![o] = @ \o paused[a]] ELSE link
      /\ paused' = [paused EXCEPT ![a] = <<>>]
      /\ \/ /\ proxyPeerOpen[a] /\ proxy' = [proxy EXCEPT ![a] = "running"]
            /\ mapped' = mapped
         \/ /\ ~proxyPeerOpen[a] /\ proxy' = [proxy EXCEPT ![a] = "gone"]
            /\ mapped' = mapped \ {a}
  BY DEF Run, Transmit, CloseProxy, o, Crashes
<1>4. /\ link' \in [Side -> Seq(Nat)] /\ link'[a] = link[a]
      /\ (a \in up => link'[o] = link[o] \o paused[a]) /\ (a \notin up => link'[o] = link[o])
  <2> DEFINE l2 == link[o] \o paused[a]
  <2>1. l2 \in Seq(Nat)
    BY <1>1, <1>2, ConcatProperties
  <2>2. link' = IF a \in up THEN [link EXCEPT ![o] = l2] ELSE link
    BY <1>3
  <2> HIDE DEF l2
  <2>3. /\ link' \in [Side -> Seq(Nat)] /\ link'[a] = link[a]
        /\ (a \in up => link'[o] = l2) /\ (a \notin up => link'[o] = link[o])
    BY <1>1, <1>2, <2>1, <2>2
  <2> QED BY <2>3 DEF l2
<1>5. /\ paused' \in [Side -> Seq(Nat)] /\ paused'[a] = <<>> /\ paused'[o] = paused[o]
      /\ run' \in [Side -> {"no", "found", "done"}] /\ run'[o] = run[o]
  BY <1>1, <1>2, <1>3
<1>6. /\ proxy' \in [Side -> {"detached", "attached", "running", "gone"}]
      /\ proxy'[o] = proxy[o] /\ (o \in mapped' <=> o \in mapped) /\ mapped' \subseteq mapped
      /\ \/ proxyPeerOpen[a] /\ proxy'[a] = "running" /\ (a \in mapped' <=> a \in mapped)
         \/ ~proxyPeerOpen[a] /\ proxy'[a] = "gone" /\ a \notin mapped'
  BY <1>1, <1>2, <1>3
<1>7. TypeOK'
  <2>1. mapped' \subseteq Side
    BY <1>2, <1>6 DEF TypeOK
  <2> QED
    BY <1>2, <1>3, <1>4, <1>5, <1>6, <2>1 DEF TypeOK
<1>8. MapOf(a) /\ MapOf(o) /\ Started(a) /\ Started(o)
  BY <1>1 DEF IInv, MapInv
<1>9. MapOf(o)'
  BY <1>3, <1>5, <1>6, <1>8 DEF MapOf
<1>10. proxy[a] # "detached"
  BY <1>3, <1>8 DEF Started, NotYetAttached
<1>11. MapOf(a)'
  <2>1. proxy[a] \in {"attached", "running"}
    BY <1>2, <1>3, <1>10
  <2>2. CASE proxyPeerOpen[a] /\ proxy'[a] = "running" /\ (a \in mapped' <=> a \in mapped)
    BY <1>3, <1>5, <1>8, <2>1, <2>2 DEF MapOf
  <2>3. CASE ~proxyPeerOpen[a] /\ proxy'[a] = "gone" /\ a \notin mapped'
    BY <1>3, <1>5, <1>8, <2>1, <2>3 DEF MapOf
  <2> QED BY <1>6, <2>2, <2>3
<1>12. Started(a)' /\ Started(o)'
  <2>1. proxy'[a] # "detached"
    BY <1>6
  <2> QED BY <1>3, <1>5, <1>6, <1>8, <2>1 DEF Started, NotYetAttached
<1>13. ClosedOf(a)' /\ QueueOf(a)' /\ StreamOf(a)'
  BY <1>1, <1>3, <1>4, <1>5, DirectionKept DEF IInv, ClosedInv, StreamInv
<1>14. ClosedOf(o)' /\ QueueOf(o)' /\ StreamOf(o)'
  <2>1. /\ ClosedOf(o) /\ QueueOf(o) /\ StreamOf(o)
        /\ queue[o] \in Seq(Nat) /\ found[o] \in Seq(Nat) /\ link[o] \in Seq(Nat)
        /\ paused[a] \in Seq(Nat) /\ link'[o] \in Seq(Nat)
    BY <1>1, <1>2, <1>4, Types DEF IInv, ClosedInv, StreamInv
  <2>2. QueueOf(o)'
    BY <1>1, <1>3, <2>1 DEF QueueOf, Passed
  <2>3. Reaching(o)' = Reaching(o)
    <3>1. CASE a \in up
      <4>1. Parts(queue[o], found[o], link'[o], paused'[a])
            = Parts(queue[o], found[o], link[o], paused[a])
        <5> DEFINE l2 == link'[o]
                   p2 == paused'[a]
        <5>1. Joined(l2, link[o], paused[a]) /\ p2 = <<>> /\ l2 = link'[o] /\ p2 = paused'[a]
          BY <1>4, <1>5, <3>1 DEF Joined
        <5> HIDE DEF l2, p2
        <5>2. Parts(queue[o], found[o], l2, p2) = Parts(queue[o], found[o], link[o], paused[a])
          BY <2>1, <5>1, MovedToLink
        <5> QED BY <5>1, <5>2
      <4> QED BY <1>1, <1>3, <3>1, <4>1 DEF Reaching
    <3>2. CASE a \notin up
      BY <1>1, <1>3, <1>4, <3>2 DEF Reaching
    <3> QED BY <3>1, <3>2
  <2>4. StreamOf(o)'
    BY <1>1, <1>3, <2>1, <2>3 DEF StreamOf, Passed
  <2>5. ClosedOf(o)'
    <3> DEFINE row == found[o] \o link[o] \o paused[a]
               new == found[o] \o link'[o] \o paused'[a]
    <3>1. EndsClosed(row, a \notin local)
      BY <1>1, <2>1 DEF ClosedOf
    <3>2. EndsClosed(new, a \notin local)
      <4>1. CASE a \in up
        <5>1. Parts(<<>>, found[o], link'[o], paused'[a])
              = Parts(<<>>, found[o], link[o], paused[a])
          <6> DEFINE l2 == link'[o]
                     p2 == paused'[a]
                     e == <<>>
          <6>1. Joined(l2, link[o], paused[a]) /\ p2 = e /\ l2 = link'[o] /\ p2 = paused'[a]
            BY <1>4, <1>5, <4>1 DEF Joined
          <6>2. e \in Seq(Nat) /\ e = <<>>
            BY <1>2
          <6> HIDE DEF l2, p2, e
          <6>3. Parts(e, found[o], l2, <<>>) = Parts(e, found[o], link[o], paused[a])
            BY <2>1, <6>1, <6>2, MovedToLink
          <6> QED BY <6>1, <6>2, <6>3
        <5>2. row = Parts(<<>>, found[o], link[o], paused[a])
          BY <2>1, RowIsParts
        <5>3. new = Parts(<<>>, found[o], link'[o], paused'[a])
          <6>1. paused'[a] \in Seq(Nat)
            BY <1>2, <1>5
          <6> QED BY <2>1, <6>1, RowIsParts
        <5> HIDE DEF row, new
        <5> QED BY <3>1, <5>1, <5>2, <5>3
      <4>2. CASE a \notin up
        <5>1. /\ Len(link[o]) <= Len(link[o])
              /\ \A i \in 1..Len(link[o]) : link[o][i] = link[o][i]
          BY <2>1, LenProperties
        <5>2. EndsClosed(found[o] \o link[o] \o <<>>, a \notin local)
          BY <1>2, <2>1, <3>1, <5>1, EndsClosedShorter
        <5> QED BY <1>4, <1>5, <4>2, <5>2
      <4> QED BY <4>1, <4>2
    <3> QED
      BY <1>1, <1>3, <3>2 DEF ClosedOf
  <2> QED BY <2>2, <2>4, <2>5
<1> QED
  BY <1>1, <1>7, <1>9, <1>11, <1>12, <1>13, <1>14 DEF IInv, MapInv, ClosedInv, StreamInv


LEMMA ReadStep ==
    ASSUME IInv, NEW a \in Side, ReadMessage(a)
    PROVE  IInv'
<1> DEFINE o == Other(a)
<1>1. /\ o \in Side /\ o # a /\ Other(o) = a /\ o = Other(a)
      /\ \A s \in Side : s = a \/ s = o
  BY TwoSides
<1>2. /\ TypeOK /\ queue \in [Side -> Seq(Nat)] /\ taken \in [Side -> Nat]
  BY DEF IInv, TypeOK
<1> HIDE DEF o
<1>3. /\ a \in local /\ queue[a] # <<>>
      /\ local' = local /\ localPeerOpen' = localPeerOpen
      /\ proxy' = proxy /\ proxyPeerOpen' = proxyPeerOpen /\ paused' = paused
      /\ mapped' = mapped /\ up' = up /\ link' = link /\ found' = found /\ run' = run
      /\ crash' = crash /\ sent' = sent /\ missed' = missed /\ orderly' = orderly
      /\ queue' = [queue EXCEPT ![a] = Tail(@)] /\ taken' = [taken EXCEPT ![a] = @ + 1]
  BY DEF ReadMessage
<1>4. /\ Len(queue[a]) \in Nat /\ Len(queue[a]) >= 1 /\ Head(queue[a]) = queue[a][1]
      /\ Tail(queue[a]) \in Seq(Nat) /\ Len(Tail(queue[a])) = Len(queue[a]) - 1
      /\ \A j \in 1..(Len(queue[a]) - 1) : Tail(queue[a])[j] = queue[a][j + 1]
  BY <1>2, <1>3, QueueFacts
<1>5. /\ queue' \in [Side -> Seq(Nat)] /\ queue'[a] = Tail(queue[a]) /\ queue'[o] = queue[o]
      /\ taken' \in [Side -> Nat] /\ taken'[a] = taken[a] + 1 /\ taken'[o] = taken[o]
      /\ Passed(a)' = Passed(a) + 1
  <2>1. /\ queue' \in [Side -> Seq(Nat)] /\ queue'[a] = Tail(queue[a]) /\ queue'[o] = queue[o]
        /\ taken' \in [Side -> Nat] /\ taken'[a] = taken[a] + 1 /\ taken'[o] = taken[o]
    BY <1>1, <1>2, <1>3, <1>4
  <2>2. taken[a] \in Nat /\ missed[a] \in Nat
    BY <1>2, Types
  <2> QED BY <1>3, <2>1, <2>2 DEF Passed
<1>6. TypeOK'
  BY <1>2, <1>3, <1>5 DEF TypeOK
<1>7. MapInv'
  BY <1>3 DEF IInv, MapInv, MapOf, Started, NotYetAttached
<1>8. ClosedOf(o)' /\ QueueOf(o)' /\ StreamOf(o)'
  BY <1>1, <1>3, <1>5, DirectionKept DEF IInv, ClosedInv, StreamInv
<1>9. /\ ClosedOf(a) /\ QueueOf(a) /\ StreamOf(a)
      /\ queue[a] \in Seq(Nat) /\ found[a] \in Seq(Nat) /\ link[a] \in Seq(Nat)
      /\ paused[o] \in Seq(Nat) /\ <<>> \in Seq(Nat) /\ Passed(a) \in Nat /\ sent[o] \in Nat
  BY <1>1, <1>2, Types DEF IInv, ClosedInv, StreamInv
<1>10. ClosedOf(a)'
  BY <1>3, <1>9 DEF ClosedOf
<1>11. queue[a][1] # PeerClosed
  BY <1>4, <1>9 DEF QueueOf
<1>12. (a \in local /\ localPeerOpen[a]) =>
          /\ Carries(Reaching(a)', Passed(a) + 1, sent[o], o \notin local)
          /\ Passed(a) < sent[o]
          /\ o \in up => Len(Reaching(a)') >= sent[o] - (Passed(a) + 1)
  <2> SUFFICES ASSUME a \in local, localPeerOpen[a]
               PROVE  /\ Carries(Reaching(a)', Passed(a) + 1, sent[o], o \notin local)
                      /\ Passed(a) < sent[o]
                      /\ o \in up => Len(Reaching(a)') >= sent[o] - (Passed(a) + 1)
    OBVIOUS
  <2> DEFINE p == IF o \in up THEN paused[o] ELSE <<>>
             r == Parts(queue[a], found[a], link[a], p)
  <2>1. p \in Seq(Nat) /\ r = Reaching(a)
    BY <1>1, <1>9 DEF Reaching
  <2>2. Reaching(a)' = Parts(queue'[a], found[a], link[a], p)
    BY <1>1, <1>3, <1>5 DEF Reaching
  <2> HIDE DEF p
  <2> DEFINE h == Head(queue[a])
             q == queue'[a]
             y == Reaching(a)'
  <2>3. Popped(q, queue[a], h)
    BY <1>3, <1>4, <1>5, <1>9 DEF Popped
  <2> HIDE DEF h, q
  <2>4. Popped(y, r, h) /\ r \in Seq(Nat) /\ y \in Seq(Nat)
    <3>1. Popped(Parts(q, found[a], link[a], p), Parts(queue[a], found[a], link[a], p), h)
      BY <1>9, <2>1, <2>3, PartsTail
    <3>2. Popped(y, r, h)
      BY <2>2, <3>1 DEF q
    <3> QED BY <3>2 DEF Popped
  <2> HIDE DEF r, y
  <2>5. /\ Carries(r, Passed(a), sent[o], o \notin local)
        /\ o \in up => Len(r) >= sent[o] - Passed(a)
    BY <1>1, <1>9, <2>1 DEF StreamOf
  <2>6. h # PeerClosed
    BY <1>4, <1>11 DEF h
  <2>7. /\ Carries(y, Passed(a) + 1, sent[o], o \notin local) /\ Passed(a) < sent[o]
        /\ Len(y) = Len(r) - 1
    <3> DEFINE closed == o \notin local
               t == Passed(a)
               n == sent[o]
    <3>1. closed \in BOOLEAN /\ t \in Nat /\ n \in Nat /\ Carries(r, t, n, closed)
      BY <1>9, <2>5
    <3> HIDE DEF closed, t, n
    <3>2. Carries(y, t + 1, n, closed) /\ t < n /\ Len(y) = Len(r) - 1
      BY <2>4, <2>6, <3>1, CarriesTail
    <3> QED BY <3>2 DEF closed, t, n
  <2>8. Len(r) \in Nat
    BY <2>4, LenProperties
  <2>9. o \in up => Len(y) >= sent[o] - (Passed(a) + 1)
    BY <1>9, <2>5, <2>7, <2>8
  <2> QED
    BY <2>7, <2>9 DEF y
<1>13. StreamOf(a)'
  <2>1. CASE localPeerOpen[a]
    BY <1>1, <1>3, <1>5, <1>12, <2>1 DEF StreamOf
  <2>2. CASE ~localPeerOpen[a]
    <3>1. o \notin local /\ Len(queue[a]) = sent[o] - Passed(a)
      BY <1>1, <1>3, <1>9, <2>2 DEF StreamOf
    <3>2. Len(Tail(queue[a])) = sent[o] - (Passed(a) + 1)
      BY <1>4, <1>9, <3>1
    <3> QED BY <1>1, <1>3, <1>5, <2>2, <3>1, <3>2 DEF StreamOf
  <2> QED BY <2>1, <2>2
<1>14. QueueOf(a)'
  <2>1. Passed(a) + 1 <= sent[o]
    <3>1. CASE localPeerOpen[a]
      BY <1>3, <1>9, <1>12, <3>1
    <3>2. CASE ~localPeerOpen[a]
      <4>1. Len(queue[a]) = sent[o] - Passed(a)
        BY <1>1, <1>3, <1>9, <3>2 DEF StreamOf
      <4> QED BY <1>4, <1>9, <4>1
    <3> QED BY <3>1, <3>2
  <2>2. ASSUME NEW k \in 1..Len(Tail(queue[a])) PROVE Tail(queue[a])[k] # PeerClosed
    <3>1. k + 1 \in 1..Len(queue[a]) /\ Tail(queue[a])[k] = queue[a][k + 1]
      BY <1>4
    <3> QED BY <1>9, <3>1 DEF QueueOf
  <2> QED
    BY <1>1, <1>3, <1>5, <2>1, <2>2 DEF QueueOf
<1> QED
  BY <1>1, <1>6, <1>7, <1>8, <1>10, <1>13, <1>14 DEF IInv, ClosedInv, StreamInv

LEMMA ShutdownStep ==
    ASSUME IInv, NEW a \in Side, Shutdown(a)
    PROVE  IInv'
<1> DEFINE o == Other(a)
<1>1. /\ o \in Side /\ o # a /\ Other(o) = a /\ o = Other(a)
      /\ \A s \in Side : s = a \/ s = o
  BY TwoSides
<1>2. TypeOK /\ link \in [Side -> Seq(Nat)]
  BY DEF IInv, TypeOK
<1> HIDE DEF o
<1>3. /\ a \in up /\ up' = up \ {a}
      /\ local' = local /\ queue' = queue /\ localPeerOpen' = localPeerOpen
      /\ proxy' = proxy /\ proxyPeerOpen' = proxyPeerOpen /\ paused' = paused
      /\ mapped' = mapped /\ found' = found /\ run' = run
      /\ crash' = crash /\ sent' = sent /\ taken' = taken /\ missed' = missed /\ orderly' = orderly
  BY DEF Shutdown
<1>4. PICK k \in 0..Len(link[o]) : link' = [link EXCEPT ![o] = SubSeq(@, 1, k)]
  BY DEF Shutdown, o
<1> DEFINE c == SubSeq(link[o], 1, k)
<1>5. c \in Seq(Nat) /\ Len(c) = k /\ \A i \in 1..k : c[i] = link[o][i]
  BY <1>1, <1>2, CutFacts
<1>6. link' = [link EXCEPT ![o] = c]
  BY <1>4
<1> HIDE DEF c
<1>7. link' \in [Side -> Seq(Nat)] /\ link'[o] = c /\ link'[a] = link[a]
  BY <1>1, <1>2, <1>5, <1>6
<1>8. (o \in up' <=> o \in up) /\ a \notin up'
  BY <1>1, <1>3
<1>9. TypeOK'
  BY <1>2, <1>3, <1>7 DEF TypeOK
<1>10. /\ ClosedOf(o) /\ QueueOf(o) /\ StreamOf(o) /\ MapOf(o) /\ Started(o)
       /\ MapOf(a) /\ Started(a)
       /\ queue[o] \in Seq(Nat) /\ found[o] \in Seq(Nat) /\ link[o] \in Seq(Nat)
       /\ paused[a] \in Seq(Nat) /\ <<>> \in Seq(Nat) /\ Passed(o) \in Nat /\ Passed(o)' = Passed(o) /\ sent[a] \in Nat
       /\ Len(link[o]) \in Nat
  BY <1>1, <1>2, <1>3, Types, LenProperties DEF IInv, MapInv, ClosedInv, StreamInv, Passed
<1>11. MapOf(a)' /\ MapOf(o)'
  BY <1>3, <1>10 DEF MapOf
<1>12. Started(a)' /\ Started(o)'
  BY <1>3, <1>10 DEF Started, NotYetAttached
<1>14. ClosedOf(a)' /\ QueueOf(a)' /\ StreamOf(a)'
  BY <1>1, <1>3, <1>7, <1>8, DirectionKept DEF IInv, ClosedInv, StreamInv
<1>15. QueueOf(o)'
  BY <1>3, <1>10 DEF QueueOf
<1>16. ClosedOf(o)'
  <2>1. EndsClosed(found[o] \o link[o] \o paused[a], a \notin local)
    BY <1>1, <1>10 DEF ClosedOf
  <2>2. Len(c) <= Len(link[o]) /\ \A i \in 1..Len(c) : c[i] = link[o][i]
    BY <1>5, <1>10
  <2>3. EndsClosed(found[o] \o c \o paused[a], a \notin local)
    BY <1>5, <1>10, <2>1, <2>2, EndsClosedShorter
  <2> QED
    BY <1>1, <1>3, <1>7, <2>3 DEF ClosedOf
<1>17. StreamOf(o)'
  <2>1. CASE o \in local /\ localPeerOpen[o]
    <3> DEFINE r == Parts(queue[o], found[o], link[o], paused[a])
               w == Parts(queue[o], found[o], c, <<>>)
    <3>1. Reaching(o) = r /\ Reaching(o)' = w
      BY <1>1, <1>3, <1>7, <1>8 DEF Reaching
    <3>2. FirstPart(w, r)
      <4>1. FirstPart(c, link[o])
        BY <1>5, <1>10 DEF FirstPart
      <4> QED BY <1>5, <1>10, <4>1, PartsCut
    <3>3. r \in Seq(Nat) /\ w \in Seq(Nat)
      BY <1>5, <1>10, PartsAreSeq
    <3> HIDE DEF r, w
    <3>4. Carries(r, Passed(o), sent[a], a \notin local)
      BY <1>1, <1>10, <2>1, <3>1 DEF StreamOf
    <3>5. Carries(w, Passed(o), sent[a], a \notin local)
      BY <1>10, <3>2, <3>3, <3>4, CarriesPrefix
    <3> QED
      BY <1>1, <1>3, <1>8, <1>10, <2>1, <3>1, <3>5 DEF StreamOf
  <2>2. CASE ~(o \in local /\ localPeerOpen[o])
    BY <1>1, <1>3, <1>10, <2>2 DEF StreamOf
  <2> QED BY <2>1, <2>2
<1> QED
  BY <1>1, <1>9, <1>11, <1>12, <1>14, <1>15, <1>16, <1>17
     DEF IInv, MapInv, ClosedInv, StreamInv


\* The I/O thread takes a message off the link: it finds its endpoint or drops it.
LEMMA EndsClosedFound ==
    ASSUME NEW l \in Seq(Nat), NEW p \in Seq(Nat), NEW closed \in BOOLEAN,
           EndsClosed(<<>> \o l \o p, closed), l # <<>>
    PROVE  /\ EndsClosed(<<Head(l)>> \o Tail(l) \o p, closed)
           /\ EndsClosed(<<>> \o Tail(l) \o p, closed)
<1>1. <<Head(l)>> \o Tail(l) = l /\ Tail(l) \in Seq(Nat) /\ l \o p \in Seq(Nat)
  BY HeadAndTail, HeadTailProperties, ConcatProperties
<1>2. <<>> \o l = l /\ <<>> \o Tail(l) = Tail(l)
  BY <1>1, ConcatEmptySeq
<1>3. Tail(l) \o p = Tail(l \o p) /\ l \o p # <<>>
  BY TailConcat
<1>4. Popped(Tail(l) \o p, l \o p, Head(l \o p))
  BY <1>1, <1>3, HeadTailProperties DEF Popped
<1>5. EndsClosed(l \o p, closed)
  BY <1>2
<1>6. EndsClosed(Tail(l) \o p, closed)
  <2> DEFINE x == l \o p
             y == Tail(l) \o p
             h == Head(x)
  <2>1. Popped(y, x, h) /\ EndsClosed(x, closed) /\ x \in Seq(Nat)
    BY <1>1, <1>4, <1>5
  <2> HIDE DEF x, y, h
  <2>2. EndsClosed(y, closed)
    BY <2>1, EndsClosedTail
  <2> QED BY <2>2 DEF y
<1> QED
  BY <1>1, <1>2, <1>5, <1>6

\* The I/O thread is done with the message it had found.
LEMMA EndsClosedHandled ==
    ASSUME NEW f \in Seq(Nat), NEW l \in Seq(Nat), NEW p \in Seq(Nat), NEW closed \in BOOLEAN,
           EndsClosed(f \o l \o p, closed), f # <<>>, Len(f) <= 1
    PROVE  EndsClosed(<<>> \o l \o p, closed)
<1>1. /\ Tail(f) \in Seq(Nat) /\ Len(Tail(f)) = Len(f) - 1 /\ Len(f) >= 1 /\ Len(f) \in Nat
  BY QueueFacts
<1>2. Tail(f) = <<>>
  BY <1>1, EmptyIffLenZero
<1>3. Popped(Tail(f), f, Head(f)) /\ <<>> \in Seq(Nat)
  BY <1>1 DEF Popped
<1> DEFINE x == Parts(f, <<>>, l, p)
           y == Parts(Tail(f), <<>>, l, p)
           h == Head(f)
           e == <<>>
           w == Tail(f)
<1>4. x = f \o l \o p
  BY RowIsParts
<1>5. y = <<>> \o l \o p
  <2>1. <<>> \o <<>> = <<>>
    BY ConcatEmptySeq
  <2> QED BY <1>2, <2>1 DEF Parts
<1>6. Popped(w, f, h) /\ e \in Seq(Nat) /\ x = Parts(f, e, l, p) /\ y = Parts(w, e, l, p)
  BY <1>3
<1> HIDE DEF x, y, h, e, w
<1>7. Popped(y, x, h)
  BY <1>6, PartsTail
<1>8. EndsClosed(x, closed) /\ x \in Seq(Nat)
  BY <1>4, <1>7 DEF Popped
<1>9. EndsClosed(y, closed)
  BY <1>7, <1>8, EndsClosedTail
<1> QED
  BY <1>5, <1>9

\* A message is dropped before anything was received.
LEMMA PartsDropped ==
    ASSUME NEW l \in Seq(Nat), NEW p \in Seq(Nat), NEW h, NEW w, Popped(w, l, h)
    PROVE  Popped(Parts(<<>>, <<>>, w, p), Parts(<<>>, <<>>, l, p), h)
<1>1. w \in Seq(Nat) /\ <<>> \in Seq(Nat)
  BY DEF Popped
<1>2. ASSUME NEW v \in Seq(Nat) PROVE Parts(<<>>, <<>>, v, p) = Parts(v, <<>>, <<>>, p)
  <2>1. <<>> \o <<>> = <<>> /\ <<>> \o v = v /\ v \o <<>> = v
    BY <1>1, ConcatEmptySeq
  <2> QED BY <2>1 DEF Parts
<1> DEFINE e == <<>>
<1>3. e \in Seq(Nat) /\ e = <<>>
  BY <1>1
<1> HIDE DEF e
<1>4. Popped(Parts(w, e, e, p), Parts(l, e, e, p), h)
  BY <1>3, PartsTail
<1>5. Parts(e, e, w, p) = Parts(w, e, e, p) /\ Parts(e, e, l, p) = Parts(l, e, e, p)
  BY <1>1, <1>2, <1>3
<1> QED
  BY <1>3, <1>4, <1>5

LEMMA OnReadStep ==
    ASSUME IInv, NEW a \in Side, OnReadMessage(a)
    PROVE  IInv'
<1> DEFINE o == Other(a)
<1>1. /\ o \in Side /\ o # a /\ Other(o) = a /\ o = Other(a)
      /\ \A s \in Side : s = a \/ s = o
  BY TwoSides
<1>2. TypeOK /\ link \in [Side -> Seq(Nat)] /\ found \in [Side -> Seq(Nat)]
  BY DEF IInv, TypeOK
<1> HIDE DEF o
<1>3. /\ found[a] = <<>> /\ link[a] # <<>>
      /\ local' = local /\ queue' = queue /\ localPeerOpen' = localPeerOpen
      /\ proxy' = proxy /\ proxyPeerOpen' = proxyPeerOpen /\ paused' = paused
      /\ mapped' = mapped /\ up' = up /\ run' = run
      /\ crash' = crash /\ sent' = sent /\ taken' = taken /\ orderly' = orderly
      /\ missed' = [missed EXCEPT ![a] = IF NotYetAttached(a) /\ Head(link[a]) # PeerClosed
                                         THEN @ + 1 ELSE @]
      /\ link' = [link EXCEPT ![a] = Tail(@)]
      /\ found' = [found EXCEPT ![a] = IF a \in mapped THEN <<Head(link[a])>> ELSE <<>>]
  BY DEF OnReadMessage
<1> DEFINE l2 == Tail(link[a])
           f2 == <<Head(link[a])>>
<1>4. /\ l2 \in Seq(Nat) /\ f2 \in Seq(Nat) /\ <<>> \in Seq(Nat) /\ Len(f2) = 1
      /\ Joined(link[a], f2, l2)
  BY <1>2, <1>3, HeadAndTail, HeadTailProperties DEF Joined
<1>5. /\ link' = [link EXCEPT ![a] = l2]
      /\ found' = [found EXCEPT ![a] = IF a \in mapped THEN f2 ELSE <<>>]
  BY <1>3
<1> HIDE DEF l2, f2
<1>6. /\ link' \in [Side -> Seq(Nat)] /\ link'[a] = l2 /\ link'[o] = link[o]
      /\ found' \in [Side -> Seq(Nat)] /\ found'[o] = found[o]
      /\ (a \in mapped => found'[a] = f2) /\ (a \notin mapped => found'[a] = <<>>)
  BY <1>1, <1>2, <1>4, <1>5
<1>15. /\ missed' \in [Side -> Nat] /\ missed'[o] = missed[o]
       /\ Passed(a) \in Nat /\ Passed(o)' = Passed(o) /\ sent[o] \in Nat
       /\ Passed(a)' = IF NotYetAttached(a) /\ Head(link[a]) # PeerClosed
                       THEN Passed(a) + 1 ELSE Passed(a)
  <2>1. missed \in [Side -> Nat] /\ taken[a] \in Nat /\ missed[a] \in Nat
        /\ Passed(a) \in Nat /\ sent[o] \in Nat
    BY <1>1, <1>2, Types DEF TypeOK
  <2>2. CASE NotYetAttached(a) /\ Head(link[a]) # PeerClosed
    <3>1. missed' = [missed EXCEPT ![a] = @ + 1]
      BY <1>3, <2>2
    <3>2. missed' \in [Side -> Nat] /\ missed'[o] = missed[o] /\ missed'[a] = missed[a] + 1
      BY <1>1, <2>1, <3>1
    <3>3. /\ taken' = taken /\ Passed(a)' = taken'[a] + missed'[a]
          /\ Passed(o)' = taken'[o] + missed'[o]
          /\ Passed(a) = taken[a] + missed[a] /\ Passed(o) = taken[o] + missed[o]
      BY <1>3 DEF Passed
    <3>4. Passed(a)' = Passed(a) + 1 /\ Passed(o)' = Passed(o)
      BY <2>1, <3>2, <3>3
    <3> QED BY <2>1, <2>2, <3>2, <3>4
  <2>3. CASE ~(NotYetAttached(a) /\ Head(link[a]) # PeerClosed)
    <3>1. missed' = missed
      BY <1>3, <2>1, <2>3
    <3> QED BY <1>1, <1>3, <2>1, <2>3, <3>1 DEF Passed
  <2> QED BY <2>2, <2>3
<1>7. TypeOK'
  <2>1. Len(<<>>) = 0
    BY EmptySeq
  <2>2. Len(found'[a]) <= 1 /\ Len(found'[o]) <= 1
    <3>1. Len(found[o]) <= 1
      BY <1>1, <1>2 DEF TypeOK
    <3>2. Len(found'[a]) = 0 \/ Len(found'[a]) = 1
      BY <1>4, <1>6, <2>1
    <3>3. found'[o] = found[o]
      BY <1>6
    <3>4. Len(found'[o]) <= 1
      BY <3>1, <3>3, Zenon
    <3>5. Len(found'[a]) <= 1
      <4> DEFINE n == Len(found'[a])
      <4>1. n = 0 \/ n = 1
        BY <3>2
      <4> HIDE DEF n
      <4>2. n <= 1
        BY <4>1
      <4> QED BY <4>2 DEF n
    <3> QED BY <3>4, <3>5
  <2>3. \A s \in Side : Len(found'[s]) <= 1
    BY <1>1, <2>2
  <2> QED
    BY <1>2, <1>3, <1>6, <1>15, <2>3 DEF TypeOK
<1>8. /\ ClosedOf(a) /\ QueueOf(a) /\ StreamOf(a) /\ MapOf(a) /\ Started(a)
      /\ MapOf(o) /\ Started(o)
      /\ queue[a] \in Seq(Nat) /\ link[a] \in Seq(Nat) /\ paused[o] \in Seq(Nat)
  BY <1>1, <1>2, Types DEF IInv, MapInv, ClosedInv, StreamInv
<1>9. MapOf(a)' /\ MapOf(o)'
  BY <1>3, <1>8 DEF MapOf
<1>10. Started(a)' /\ Started(o)'
  BY <1>3, <1>6, <1>8 DEF Started, NotYetAttached
<1>11. ClosedOf(o)' /\ QueueOf(o)' /\ StreamOf(o)'
  BY <1>1, <1>3, <1>6, <1>15, DirectionKept DEF IInv, ClosedInv, StreamInv
<1>16. (NotYetAttached(a) /\ a \in local) =>
          /\ localPeerOpen[a]
          /\ Carries(Reaching(a)', Passed(a)', sent[o], o \notin local)
          /\ Passed(a)' <= sent[o]
          /\ o \in up => Len(Reaching(a)') >= sent[o] - Passed(a)'
  <2> SUFFICES ASSUME NotYetAttached(a), a \in local
               PROVE  /\ localPeerOpen[a]
                      /\ Carries(Reaching(a)', Passed(a)', sent[o], o \notin local)
                      /\ Passed(a)' <= sent[o]
                      /\ o \in up => Len(Reaching(a)') >= sent[o] - Passed(a)'
    OBVIOUS
  <2> DEFINE p == IF o \in up THEN paused[o] ELSE <<>>
             l == link[a]
             h == Head(link[a])
             t == Passed(a)
             n == sent[o]
             closed == o \notin local
             r == Reaching(a)
             y == Reaching(a)'
  <2>1. /\ p \in Seq(Nat) /\ queue[a] = <<>> /\ localPeerOpen[a] /\ a \notin mapped
        /\ found'[a] = <<>>
    BY <1>4, <1>6, <1>8 DEF MapOf, Started, NotYetAttached
  <2>2. r = Parts(<<>>, <<>>, l, p) /\ y = Parts(<<>>, <<>>, l2, p)
    BY <1>1, <1>3, <1>6, <2>1 DEF Reaching
  <2>3. Popped(l2, l, h)
    BY <1>3, <1>4, <1>8 DEF Popped, l2
  <2>4. /\ Carries(r, t, n, closed) /\ closed \in BOOLEAN /\ t \in Nat /\ n \in Nat
        /\ o \in up => Len(r) >= n - t
        /\ Passed(a)' = IF h # PeerClosed THEN t + 1 ELSE t
        /\ l \in Seq(Nat)
    BY <1>1, <1>8, <1>15, <2>1 DEF StreamOf
  <2> HIDE DEF p, l, h, t, n, closed, r, y
  <2>5. Popped(y, r, h)
    BY <1>4, <2>1, <2>2, <2>3, <2>4, PartsDropped
  <2>6. r \in Seq(Nat) /\ y \in Seq(Nat) /\ r # <<>> /\ h = Head(r) /\ y = Tail(r)
    BY <2>5 DEF Popped
  <2>7. Len(r) \in Nat /\ Len(r) >= 1 /\ Len(y) = Len(r) - 1 /\ h = r[1]
    BY <2>6, QueueFacts
  <2>8. CASE h # PeerClosed
    <3>1. Carries(y, t + 1, n, closed) /\ t < n
      BY <2>4, <2>5, <2>6, <2>8, CarriesTail
    <3>2. o \in up => Len(y) >= n - (t + 1)
      BY <2>4, <2>7
    <3>3. t + 1 <= n
      BY <2>4, <3>1
    <3> QED BY <2>1, <2>4, <2>8, <3>1, <3>2, <3>3 DEF y, n, closed
  <2>9. CASE h = PeerClosed
    <3>0. Popped(y, r, PeerClosed)
      BY <2>5, <2>9
    <3>1. Carries(y, t, n, closed) /\ t = n /\ Len(y) = 0
      <4>1. closed \in BOOLEAN /\ t \in Nat /\ n \in Nat /\ r \in Seq(Nat)
        BY <2>4, <2>6
      <4>2. Carries(r, t, n, closed)
        BY <2>4
      <4> QED BY <3>0, <4>1, <4>2, CarriesEnd
    <3>2. n \in Nat /\ t = n
      BY <2>4, <3>1
    <3>3. t <= n /\ n - t = 0
      BY <3>2
    <3>4. Len(y) >= n - t
      BY <3>1, <3>3
    <3> QED BY <2>1, <2>4, <2>9, <3>1, <3>3, <3>4 DEF y, n, closed
  <2> QED BY <2>8, <2>9
<1>12. QueueOf(a)'
  <2>1. CASE NotYetAttached(a) /\ a \in local
    BY <1>1, <1>3, <1>8, <1>15, <1>16, <2>1 DEF QueueOf
  <2>2. CASE ~(NotYetAttached(a) /\ a \in local)
    BY <1>1, <1>3, <1>8, <1>15, <2>2 DEF QueueOf
  <2> QED BY <2>1, <2>2
<1>13. ClosedOf(a)'
  <2>1. EndsClosed(<<>> \o link[a] \o paused[o], o \notin local)
    BY <1>1, <1>3, <1>8 DEF ClosedOf
  <2>2. /\ EndsClosed(f2 \o l2 \o paused[o], o \notin local)
        /\ EndsClosed(<<>> \o l2 \o paused[o], o \notin local)
    BY <1>3, <1>8, <2>1, EndsClosedFound DEF f2, l2
  <2>3. CASE a \in mapped
    BY <1>1, <1>3, <1>6, <2>2, <2>3 DEF ClosedOf
  <2>4. CASE a \notin mapped
    BY <1>1, <1>3, <1>6, <2>2, <2>4 DEF ClosedOf
  <2> QED BY <2>3, <2>4
<1>14. StreamOf(a)'
  <2>1. CASE a \in mapped
    <3> DEFINE p == IF o \in up THEN paused[o] ELSE <<>>
    <3>1. p \in Seq(Nat)
      BY <1>4, <1>8
    <3>2. /\ Reaching(a) = Parts(queue[a], <<>>, link[a], p)
          /\ Reaching(a)' = Parts(queue[a], f2, l2, p)
      BY <1>1, <1>3, <1>6, <2>1 DEF Reaching
    <3> HIDE DEF p
    <3>3. Parts(queue[a], f2, l2, p) = Parts(queue[a], <<>>, link[a], p)
      BY <1>3, <1>4, <1>8, <3>1, MovedToFound
    <3>4. Reaching(a)' = Reaching(a)
      BY <3>2, <3>3
    <3>5. Passed(a)' = Passed(a)
      BY <1>15, <2>1 DEF NotYetAttached
    <3> QED
      BY <1>1, <1>3, <1>8, <3>4, <3>5 DEF StreamOf
  <2>2. CASE NotYetAttached(a)
    BY <1>1, <1>3, <1>16, <2>2 DEF StreamOf
  <2>3. CASE a \notin mapped /\ ~NotYetAttached(a)
    <3>1. proxy[a] = "gone"
      BY <1>2, <1>8, <2>3 DEF TypeOK, MapOf, NotYetAttached
    <3>2. ~(a \in local /\ localPeerOpen[a])
      BY <1>8, <3>1 DEF MapOf
    <3> QED
      BY <1>1, <1>3, <1>8, <1>15, <2>3, <3>2 DEF StreamOf
  <2> QED BY <2>1, <2>2, <2>3
<1> QED
  BY <1>1, <1>7, <1>9, <1>10, <1>11, <1>12, <1>13, <1>14
     DEF IInv, MapInv, ClosedInv, StreamInv


LEMMA EnqueueStep ==
    ASSUME IInv, NEW a \in Side, EnqueueMessage(a)
    PROVE  IInv'
<1> SUFFICES ASSUME ~\E check \in Crashes : Crash(a, check) PROVE IInv'
  BY CrashStep
<1> DEFINE o == Other(a)
<1>1. /\ o \in Side /\ o # a /\ Other(o) = a /\ o = Other(a)
      /\ \A s \in Side : s = a \/ s = o
  BY TwoSides
<1>2. TypeOK /\ queue \in [Side -> Seq(Nat)] /\ found \in [Side -> Seq(Nat)]
  BY DEF IInv, TypeOK
<1> HIDE DEF o
<1>3. /\ found[a] # <<>> /\ found[a] # <<PeerClosed>> /\ proxy[a] # "gone" /\ a \in local
      /\ local' = local /\ localPeerOpen' = localPeerOpen
      /\ proxy' = proxy /\ proxyPeerOpen' = proxyPeerOpen /\ paused' = paused
      /\ mapped' = mapped /\ up' = up /\ link' = link /\ run' = run
      /\ crash' = crash /\ sent' = sent /\ taken' = taken /\ missed' = missed /\ orderly' = orderly
      /\ queue' = [queue EXCEPT ![a] = @ \o found[a]]
      /\ found' = [found EXCEPT ![a] = <<>>]
  BY DEF EnqueueMessage, Crashes
<1> DEFINE q2 == queue[a] \o found[a]
<1>4. q2 \in Seq(Nat) /\ <<>> \in Seq(Nat) /\ Joined(q2, queue[a], found[a])
  BY <1>2, ConcatProperties DEF Joined
<1>5. queue' = [queue EXCEPT ![a] = q2]
  BY <1>3
<1>6. ASSUME NEW k \in 1..Len(q2) PROVE q2[k] # PeerClosed
  <2>1. Len(found[a]) = 1 /\ found[a][1] # PeerClosed
    <3>1. Len(found[a]) \in Nat /\ Len(found[a]) >= 1 /\ Len(found[a]) <= 1
      BY <1>2, <1>3, QueueFacts DEF TypeOK
    <3>2. Len(found[a]) = 1
      <4> DEFINE n == Len(found[a])
      <4>1. n \in Nat /\ n >= 1 /\ n <= 1
        BY <3>1
      <4> HIDE DEF n
      <4>2. n = 1
        BY <4>1
      <4> QED BY <4>2 DEF n
    <3>3. found[a][1] = PeerClosed => found[a] = <<PeerClosed>>
      <4>1. <<PeerClosed>> \in Seq(Nat) /\ Len(<<PeerClosed>>) = 1
            /\ <<PeerClosed>>[1] = PeerClosed
        BY DEF PeerClosed
      <4> DEFINE e == <<PeerClosed>>
      <4>2. e \in Seq(Nat) /\ Len(e) = 1 /\ e[1] = PeerClosed
        BY <4>1
      <4> HIDE DEF e
      <4>3. found[a][1] = PeerClosed => \A i \in 1..Len(found[a]) : found[a][i] = e[i]
        BY <3>2, <4>2
      <4>4. found[a][1] = PeerClosed => found[a] = e
        BY <1>2, <3>2, <4>2, <4>3, SeqEqual
      <4> QED BY <4>4 DEF e
    <3> QED BY <1>3, <3>2, <3>3
  <2>2. \A i \in 1..Len(queue[a]) : queue[a][i] # PeerClosed
    BY DEF IInv, StreamInv, QueueOf
  <2>3. /\ Len(q2) = Len(queue[a]) + Len(found[a]) /\ Len(queue[a]) \in Nat
        /\ \A i \in 1..(Len(queue[a]) + Len(found[a])) :
              q2[i] = IF i <= Len(queue[a]) THEN queue[a][i] ELSE found[a][i - Len(queue[a])]
    <3>1. queue[a] \in Seq(Nat) /\ found[a] \in Seq(Nat)
      BY <1>2
    <3> QED BY <3>1, ConcatProperties, LenProperties
  <2> HIDE DEF q2
  <2>4. CASE k <= Len(queue[a])
    BY <2>1, <2>2, <2>3, <2>4
  <2>5. CASE ~(k <= Len(queue[a]))
    <3>1. k = Len(queue[a]) + 1 /\ k - Len(queue[a]) = 1
      BY <2>1, <2>3, <2>5
    <3>2. q2[k] = found[a][k - Len(queue[a])]
      BY <2>1, <2>3, <2>5
    <3> QED BY <2>1, <3>1, <3>2
  <2> QED BY <2>4, <2>5
<1> HIDE DEF q2
<1>7. /\ queue' \in [Side -> Seq(Nat)] /\ queue'[a] = q2 /\ queue'[o] = queue[o]
      /\ found' \in [Side -> Seq(Nat)] /\ found'[a] = <<>> /\ found'[o] = found[o]
  BY <1>1, <1>2, <1>3, <1>4, <1>5
<1>8. TypeOK'
  <2>1. Len(found'[a]) = 0
    BY <1>7, EmptySeq
  <2>2. Len(found'[o]) <= 1
    BY <1>1, <1>2, <1>7, Zenon DEF TypeOK
  <2>3. \A s \in Side : Len(found'[s]) <= 1
    BY <1>1, <2>1, <2>2
  <2> QED
    BY <1>2, <1>3, <1>7, <2>3 DEF TypeOK
<1>9. MapInv'
  BY <1>3 DEF IInv, MapInv, MapOf, Started, NotYetAttached
<1>10. ClosedOf(o)' /\ QueueOf(o)' /\ StreamOf(o)'
  BY <1>1, <1>3, <1>7, DirectionKept DEF IInv, ClosedInv, StreamInv
<1>11. /\ ClosedOf(a) /\ QueueOf(a) /\ StreamOf(a) /\ MapOf(a)
       /\ queue[a] \in Seq(Nat) /\ found[a] \in Seq(Nat) /\ link[a] \in Seq(Nat)
       /\ paused[o] \in Seq(Nat) /\ Len(found[a]) <= 1
  <2>1. Len(found[a]) <= 1
    BY <1>2 DEF TypeOK
  <2> QED
    BY <1>1, <1>2, <2>1, Types DEF IInv, MapInv, ClosedInv, StreamInv
<1>12. QueueOf(a)'
  BY <1>3, <1>6, <1>7, <1>11 DEF QueueOf, Passed
<1>13. ClosedOf(a)'
  <2>1. EndsClosed(found[a] \o link[a] \o paused[o], o \notin local)
    BY <1>1, <1>11 DEF ClosedOf
  <2>2. EndsClosed(<<>> \o link[a] \o paused[o], o \notin local)
    BY <1>3, <1>11, <2>1, EndsClosedHandled
  <2> QED
    BY <1>1, <1>3, <1>7, <2>2 DEF ClosedOf
<1>14. StreamOf(a)'
  <2> DEFINE p == IF o \in up THEN paused[o] ELSE <<>>
  <2>1. p \in Seq(Nat)
    BY <1>4, <1>11
  <2>2. /\ Reaching(a) = Parts(queue[a], found[a], link[a], p)
        /\ Reaching(a)' = Parts(q2, <<>>, link[a], p)
    BY <1>1, <1>3, <1>7 DEF Reaching
  <2> HIDE DEF p
  <2>3. Parts(q2, <<>>, link[a], p) = Parts(queue[a], found[a], link[a], p)
    BY <1>4, <1>11, <2>1, MovedToQueue
  <2>4. Reaching(a)' = Reaching(a) /\ localPeerOpen[a]
    BY <1>3, <1>11, <2>2, <2>3 DEF MapOf
  <2> QED
    BY <1>3, <1>11, <2>4 DEF StreamOf, Passed
<1> QED
  BY <1>1, <1>8, <1>9, <1>10, <1>12, <1>13, <1>14 DEF IInv, ClosedInv, StreamInv


\* Element number k of c is m.
HoldsAt(c, k, m) == k \in 1..Len(c) /\ c[k] = m

\* The message that the I/O thread has found comes after the queue.
LEMMA FoundIsNext ==
    ASSUME NEW q \in Seq(Nat), NEW f \in Seq(Nat), NEW l \in Seq(Nat), NEW p \in Seq(Nat),
           NEW m \in Nat, HoldsAt(f, 1, m)
    PROVE  HoldsAt(Parts(q, f, l, p), Len(q) + 1, m)
<1> DEFINE a == q \o f
           c == Parts(q, f, l, p)
<1>1. /\ a \in Seq(Nat) /\ Len(a) = Len(q) + Len(f) /\ Len(q) \in Nat
      /\ \A i \in 1..(Len(q) + Len(f)) : a[i] = IF i <= Len(q) THEN q[i] ELSE f[i - Len(q)]
  BY ConcatProperties, LenProperties
<1>2. Len(f) \in Nat /\ Len(f) >= 1 /\ f[1] = m
  BY LenProperties DEF HoldsAt
<1>3. c = a \o l \o p
  BY DEF Parts
<1> HIDE DEF a, c
<1>4. /\ Len(l) \in Nat /\ Len(p) \in Nat /\ Len(c) = Len(a) + Len(l) + Len(p)
      /\ \A i \in 1..Len(a) : c[i] = a[i]
  <2>1. a \in Seq(Nat)
    BY <1>1
  <2> QED BY <1>3, <2>1, ElementsInRow
<1>5. Len(q) + 1 \in 1..Len(a) /\ Len(q) + 1 \in 1..Len(c)
  BY <1>1, <1>2, <1>4
<1>6. a[Len(q) + 1] = f[1]
  <2>1. ~(Len(q) + 1 <= Len(q)) /\ (Len(q) + 1) - Len(q) = 1
    BY <1>1
  <2>2. a[Len(q) + 1] = f[(Len(q) + 1) - Len(q)]
    BY <1>1, <1>5, <2>1
  <2> QED BY <2>1, <2>2
<1>7. c[Len(q) + 1] = a[Len(q) + 1]
  BY <1>4, <1>5
<1> QED
  BY <1>2, <1>5, <1>6, <1>7 DEF c, HoldsAt

LEMMA HandleControlStep ==
    ASSUME IInv, NEW a \in Side, HandleControlMessage(a)
    PROVE  IInv'
<1> SUFFICES ASSUME ~\E check \in Crashes : Crash(a, check) PROVE IInv'
  BY CrashStep
<1> DEFINE o == Other(a)
<1>1. /\ o \in Side /\ o # a /\ Other(o) = a /\ o = Other(a)
      /\ \A s \in Side : s = a \/ s = o
  BY TwoSides
<1>2. /\ TypeOK /\ paused \in [Side -> Seq(Nat)] /\ found \in [Side -> Seq(Nat)]
      /\ <<>> \in Seq(Nat) /\ localPeerOpen \in [Side -> BOOLEAN]
      /\ proxy \in [Side -> {"detached", "attached", "running", "gone"}]
  BY DEF IInv, TypeOK
<1> HIDE DEF o
<1>3. /\ found[a] = <<PeerClosed>> /\ proxy[a] \in {"attached", "running"}
      /\ local' = local /\ queue' = queue /\ proxyPeerOpen' = proxyPeerOpen
      /\ up' = up /\ link' = link /\ run' = run
      /\ crash' = crash /\ sent' = sent /\ taken' = taken /\ missed' = missed /\ orderly' = orderly
      /\ proxy' = [proxy EXCEPT ![a] = "gone"] /\ mapped' = mapped \ {a}
      /\ paused' = [paused EXCEPT ![a] = <<>>]
      /\ found' = [found EXCEPT ![a] = <<>>]
      /\ localPeerOpen' = [localPeerOpen EXCEPT ![a] = IF a \in local THEN FALSE ELSE @]
  BY DEF HandleControlMessage, CloseProxy, Crashes
<1>4. /\ proxy' \in [Side -> {"detached", "attached", "running", "gone"}]
      /\ proxy'[a] = "gone" /\ proxy'[o] = proxy[o]
      /\ paused' \in [Side -> Seq(Nat)] /\ paused'[a] = <<>> /\ paused'[o] = paused[o]
      /\ found' \in [Side -> Seq(Nat)] /\ found'[a] = <<>> /\ found'[o] = found[o]
  BY <1>1, <1>2, <1>3
<1>5. /\ localPeerOpen' \in [Side -> BOOLEAN] /\ localPeerOpen'[o] = localPeerOpen[o]
      /\ a \in local => localPeerOpen'[a] = FALSE
  BY <1>1, <1>2, <1>3
<1>6. a \notin mapped' /\ (o \in mapped' <=> o \in mapped) /\ mapped' \subseteq mapped
  BY <1>1, <1>3
<1>7. TypeOK'
  <2>1. Len(found'[a]) = 0
    BY <1>4, EmptySeq
  <2>2. Len(found'[o]) <= 1
    BY <1>1, <1>2, <1>4, Zenon DEF TypeOK
  <2>3. \A s \in Side : Len(found'[s]) <= 1
    BY <1>1, <2>1, <2>2
  <2>4. mapped' \subseteq Side
    BY <1>2, <1>6 DEF TypeOK
  <2> QED
    BY <1>2, <1>3, <1>4, <1>5, <2>3, <2>4 DEF TypeOK
<1>8. /\ ClosedOf(a) /\ QueueOf(a) /\ StreamOf(a) /\ MapOf(a) /\ Started(a)
      /\ ClosedOf(o) /\ QueueOf(o) /\ MapOf(o) /\ Started(o)
      /\ queue[a] \in Seq(Nat) /\ found[a] \in Seq(Nat) /\ link[a] \in Seq(Nat)
      /\ paused[o] \in Seq(Nat) /\ found[o] \in Seq(Nat) /\ link[o] \in Seq(Nat)
      /\ paused[a] \in Seq(Nat) /\ Passed(a) \in Nat /\ Passed(a)' = Passed(a) /\ sent[o] \in Nat
  BY <1>1, <1>2, <1>3, Types DEF IInv, MapInv, ClosedInv, StreamInv, Passed
<1>9. found[a] # <<>> /\ HoldsAt(found[a], 1, PeerClosed)
  BY <1>3 DEF HoldsAt
<1>10. o \notin local
  <2> DEFINE e == <<>>
             f == found[a]
             row == Parts(e, f, link[a], paused[o])
  <2>1. EndsClosed(row, o \notin local)
    <3>1. row = found[a] \o link[a] \o paused[o]
      BY <1>8, RowIsParts, ZenonT(30)
    <3>2. EndsClosed(found[a] \o link[a] \o paused[o], o \notin local)
      BY <1>1, <1>8 DEF ClosedOf
    <3> HIDE DEF row
    <3> QED BY <3>1, <3>2, Zenon
  <2>2. /\ e \in Seq(Nat) /\ Len(e) + 1 = 1 /\ f \in Seq(Nat)
        /\ HoldsAt(f, 1, PeerClosed) /\ PeerClosed \in Nat
    BY <1>8, <1>9, EmptySeq DEF PeerClosed
  <2> HIDE DEF e, f
  <2>3. 1 \in 1..Len(row) /\ row[1] = PeerClosed
    <3>1. HoldsAt(Parts(e, f, link[a], paused[o]), Len(e) + 1, PeerClosed)
      BY <1>8, <2>2, FoundIsNext
    <3>2. HoldsAt(row, 1, PeerClosed)
      BY <2>2, <3>1
    <3> QED BY <3>2 DEF HoldsAt
  <2> HIDE DEF row
  <2> QED
    BY <2>1, <2>2, <2>3 DEF EndsClosed
<1>11. MapOf(a)' /\ MapOf(o)'
  BY <1>3, <1>4, <1>5, <1>6, <1>8 DEF MapOf
<1>12. Started(a)' /\ Started(o)'
  BY <1>3, <1>4, <1>8 DEF Started, NotYetAttached
<1>13. QueueOf(a)' /\ QueueOf(o)'
  BY <1>3, <1>8 DEF QueueOf, Passed
<1>14. StreamOf(o)'
  BY <1>3, <1>10 DEF StreamOf
<1>15. ClosedOf(a)'
  <2>1. EndsClosed(found[a] \o link[a] \o paused[o], o \notin local)
    BY <1>1, <1>8 DEF ClosedOf
  <2>2. EndsClosed(<<>> \o link[a] \o paused[o], o \notin local)
    <3> DEFINE f == found[a]
    <3>1. EndsClosed(f \o link[a] \o paused[o], o \notin local)
      BY <2>1
    <3>2. f \in Seq(Nat) /\ f # <<>> /\ Len(f) <= 1
      BY <1>2, <1>8, <1>9 DEF TypeOK
    <3> HIDE DEF f
    <3> QED BY <1>8, <3>1, <3>2, EndsClosedHandled
  <2> QED
    BY <1>1, <1>3, <1>4, <2>2 DEF ClosedOf
<1>16. ClosedOf(o)'
  <2>1. EndsClosed(found[o] \o link[o] \o paused[a], a \notin local)
    BY <1>1, <1>8 DEF ClosedOf
  <2>2. /\ Len(link[o]) <= Len(link[o])
        /\ \A i \in 1..Len(link[o]) : link[o][i] = link[o][i]
    BY <1>8, LenProperties
  <2>3. EndsClosed(found[o] \o link[o] \o <<>>, a \notin local)
    BY <1>2, <1>8, <2>1, <2>2, EndsClosedShorter
  <2> QED
    BY <1>1, <1>3, <1>4, <2>3 DEF ClosedOf
<1>17. StreamOf(a)'
  <2> SUFFICES ASSUME a \in local PROVE Len(queue[a]) = sent[o] - Passed(a)
    BY <1>1, <1>3, <1>5, <1>8, <1>10 DEF StreamOf
  <2> DEFINE r == Reaching(a)
             p == IF o \in up THEN paused[o] ELSE <<>>
             k == Len(queue[a]) + 1
  <2>1. Carries(r, Passed(a), sent[o], o \notin local)
    BY <1>1, <1>3, <1>8 DEF StreamOf, MapOf
  <2>2. r = Parts(queue[a], found[a], link[a], p) /\ p \in Seq(Nat)
    BY <1>1, <1>2, <1>8 DEF Reaching
  <2> HIDE DEF r, p
  <2>3. k \in 1..Len(r) /\ r[k] = PeerClosed /\ Len(queue[a]) \in Nat
    <3> DEFINE f == found[a]
    <3>1. /\ f \in Seq(Nat) /\ HoldsAt(f, 1, PeerClosed) /\ PeerClosed \in Nat
          /\ r = Parts(queue[a], f, link[a], p)
      BY <1>8, <1>9, <2>2 DEF PeerClosed
    <3> HIDE DEF f
    <3>2. Len(queue[a]) \in Nat
      BY <1>8, LenProperties
    <3>3. HoldsAt(Parts(queue[a], f, link[a], p), Len(queue[a]) + 1, PeerClosed)
      BY <1>8, <2>2, <3>1, FoundIsNext
    <3>4. HoldsAt(r, k, PeerClosed)
      BY <3>1, <3>3
    <3> QED BY <3>2, <3>4 DEF HoldsAt
  <2> HIDE DEF k
  <2>4. \/ r[k] = Passed(a) + k /\ Passed(a) + k <= sent[o]
        \/ r[k] = PeerClosed /\ k = Len(r) /\ Passed(a) + k = sent[o] + 1
    BY <2>1, <2>3 DEF Carries
  <2>5. k \in Nat /\ k >= 1 /\ k = Len(queue[a]) + 1
    BY <2>3 DEF k
  <2>6. Passed(a) + k = sent[o] + 1
    BY <1>8, <2>3, <2>4, <2>5 DEF PeerClosed
  <2> DEFINE n == Len(queue[a])
             t == Passed(a)
             m == sent[o]
  <2>7. n \in Nat /\ t \in Nat /\ m \in Nat /\ t + (n + 1) = m + 1
    BY <1>8, <2>3, <2>5, <2>6
  <2> HIDE DEF n, t, m
  <2>8. n = m - t
    BY <2>7
  <2> QED
    BY <2>8 DEF n, t, m
<1> QED
  BY <1>1, <1>7, <1>11, <1>12, <1>13, <1>14, <1>15, <1>16, <1>17
     DEF IInv, MapInv, ClosedInv, StreamInv

-----------------------------------------------------------------------------
(* The theorems *)

\* The invariant is inductive: every step keeps it.
LEMMA StepIInv ==
    ASSUME IInv, Next
    PROVE  IInv'
<1>1. PICK s \in Side : \/ AttachMessagePipeEndpoint(s) \/ Attach(s)
                        \/ RunMessagePipeEndpoint(s) \/ Run(s)
                        \/ WriteMessage(s) \/ ReadMessage(s) \/ Close(s)
                        \/ OnReadMessage(s) \/ EnqueueMessage(s) \/ HandleControlMessage(s)
                        \/ Shutdown(s)
  BY DEF Next
<1> QED
  BY <1>1, ConnectStep, RunStep, WriteStep, ReadStep, CloseStep, OnReadStep, EnqueueStep,
     HandleControlStep, ShutdownStep

LEMMA StutterIInv ==
    ASSUME IInv, UNCHANGED vars
    PROVE  IInv'
<1>1. /\ local' = local /\ queue' = queue /\ localPeerOpen' = localPeerOpen
      /\ proxy' = proxy /\ proxyPeerOpen' = proxyPeerOpen /\ paused' = paused
      /\ mapped' = mapped /\ up' = up /\ link' = link /\ found' = found /\ run' = run
      /\ crash' = crash /\ sent' = sent /\ taken' = taken /\ missed' = missed
      /\ orderly' = orderly
  BY DEF vars
<1>2. TypeOK' /\ MapInv'
  BY <1>1 DEF IInv, TypeOK, MapInv, MapOf, Started, NotYetAttached
<1>3. ASSUME NEW s \in Side PROVE ClosedOf(s)' /\ QueueOf(s)' /\ StreamOf(s)'
  BY <1>1, DirectionKept DEF IInv, ClosedInv, StreamInv
<1> QED
  BY <1>2, <1>3 DEF IInv, ClosedInv, StreamInv

\* The inductive invariant holds in every state, for any number of messages.
THEOREM InductiveInvariant == Spec => []IInv
<1>1. IInv /\ [Next]_vars => IInv'
  BY StepIInv, StutterIInv
<1> QED
  BY <1>1, InitIInv, PTL DEF Spec

\* Every variable keeps its type.
THEOREM TypeCorrect == Spec => []TypeOK
<1>1. IInv => TypeOK
  BY DEF IInv
<1> QED
  BY <1>1, InductiveInvariant, PTL

\* An ID in the channel's map leads to a proxy endpoint that exists, whatever the order in
\* which the two sides are connected, run, closed and shut down.
THEOREM MapIsSafe == Spec => []MapLeadsToProxy
<1>1. IInv => MapLeadsToProxy
  BY DEF IInv, MapInv, MapOf, MapLeadsToProxy
<1> QED
  BY <1>1, InductiveInvariant, PTL


\* In whatever order the sides attach and run: what was written on one side reaches the
\* other side's queue in order and without a gap, but for a beginning that arrived before
\* the reader's side was attached, and PeerClosed is the last to arrive: nothing that was
\* written before a Close is overtaken by it.
THEOREM DeliveryIsOrdered == Spec => []DeliveredThenClosed
<1>1. ASSUME IInv PROVE PeerClosedIsLast
  BY <1>1 DEF IInv, ClosedInv, ClosedOf, EndsClosed, PeerClosedIsLast
<1>2. ASSUME IInv PROVE RemoteFifo
  <2> SUFFICES ASSUME NEW s \in Side, s \in local, localPeerOpen[s], up = Side
               PROVE  /\ Len(Flow(s)) >= sent[Other(s)] - Passed(s)
                      /\ \A k \in 1..Len(Flow(s)) :
                            Flow(s)[k] = IF k <= sent[Other(s)] - Passed(s)
                                         THEN Passed(s) + k ELSE PeerClosed
    BY DEF RemoteFifo
  <2> DEFINE r == Reaching(s)
             t == Passed(s)
             n == sent[Other(s)]
  <2>1. Other(s) \in Side /\ t \in Nat /\ n \in Nat
    BY <1>2, TwoSides, Types DEF IInv
  <2>2. Flow(s) = r
    BY <2>1 DEF Flow, Reaching, Parts
  <2>3. /\ Carries(r, t, n, Other(s) \notin local)
        /\ Len(r) >= n - t
    BY <1>2, <2>1 DEF IInv, StreamInv, StreamOf
  <2> HIDE DEF r, t, n
  <2>4. ASSUME NEW k \in 1..Len(r)
        PROVE  r[k] = IF k <= n - t THEN t + k ELSE PeerClosed
    <3>1. \/ r[k] = t + k /\ t + k <= n
          \/ r[k] = PeerClosed /\ t + k = n + 1
      BY <2>3 DEF Carries
    <3>2. CASE r[k] = t + k /\ t + k <= n
      <4>1. k <= n - t
        BY <2>1, <3>2
      <4> QED BY <3>2, <4>1
    <3>3. CASE r[k] = PeerClosed /\ t + k = n + 1
      <4>1. ~(k <= n - t)
        BY <2>1, <3>3
      <4> QED BY <3>3, <4>1
    <3> QED BY <3>1, <3>2, <3>3
  <2> QED
    BY <2>2, <2>3, <2>4 DEF t, n
<1>3. IInv => DeliveredThenClosed
  BY <1>1, <1>2 DEF DeliveredThenClosed
<1> QED
  BY <1>3, InductiveInvariant, PTL

-----------------------------------------------------------------------------
(* Refinement *)

\* The sides that tell their reader that nothing more will come.
Ended == {s \in local : ~localPeerOpen[s] /\ queue[s] = <<>>}

\* Both sides are attached before either runs.
AttachedFirst == \A s \in Side : run[s] # "no" => \A r \in Side : proxy[r] # "detached"

\* What orderly callers add to the invariant: only a side that runs has sent anything, so
\* that nothing was missed.
OrderlyInv ==
    /\ AttachedFirst
    /\ \A s \in Side :
          /\ proxy[s] = "running" => run[s] # "no"
          /\ link[s] # <<>> => run[Other(s)] # "no"
          /\ missed[s] = 0

LEMMA OrderlyKept ==
    ASSUME Next
    PROVE  orderly' = orderly
  BY DEF Next, AttachMessagePipeEndpoint, Attach, RunMessagePipeEndpoint, Run, WriteMessage,
         ReadMessage, Close, OnReadMessage, EnqueueMessage, HandleControlMessage, Shutdown,
         Crash

LEMMA AttachedFirstStep ==
    ASSUME IInv, AttachedFirst, orderly, Next
    PROVE  AttachedFirst'
<1>1. PICK a \in Side : \/ AttachMessagePipeEndpoint(a) \/ Attach(a)
                        \/ MayRun /\ RunMessagePipeEndpoint(a)
                        \/ Run(a)
                        \/ WriteMessage(a) \/ ReadMessage(a) \/ Close(a)
                        \/ OnReadMessage(a) \/ EnqueueMessage(a) \/ HandleControlMessage(a)
                        \/ Shutdown(a)
  BY DEF Next
<1>2. /\ run \in [Side -> {"no", "found", "done"}]
      /\ proxy \in [Side -> {"detached", "attached", "running", "gone"}]
  BY DEF IInv, TypeOK
<1>3. \/ proxy' = proxy
      \/ \E state \in {"attached", "running", "gone"} : proxy' = [proxy EXCEPT ![a] = state]
  BY <1>1 DEF AttachMessagePipeEndpoint, Attach, RunMessagePipeEndpoint, Run, WriteMessage,
              ReadMessage, Close, OnReadMessage, EnqueueMessage, HandleControlMessage,
              Shutdown, Crash, CloseProxy
<1>4. \A s \in Side : proxy'[s] = "detached" => proxy[s] = "detached"
  BY <1>2, <1>3
<1>5. CASE MayRun /\ RunMessagePipeEndpoint(a)
  BY <1>4, <1>5 DEF MayRun, AttachedFirst
<1>6. CASE Run(a)
  <2>1. run[a] # "no" /\ (run' = run \/ run' = [run EXCEPT ![a] = "done"])
    BY <1>6 DEF Run, Crash
  <2>2. \A s \in Side : run'[s] # "no" => run[s] # "no"
    BY <1>2, <2>1
  <2> QED BY <1>4, <2>2 DEF AttachedFirst
<1>7. CASE run' = run
  BY <1>4, <1>7 DEF AttachedFirst
<1>8. ASSUME \/ AttachMessagePipeEndpoint(a) \/ Attach(a) \/ WriteMessage(a) \/ ReadMessage(a)
             \/ Close(a) \/ OnReadMessage(a) \/ EnqueueMessage(a) \/ HandleControlMessage(a)
             \/ Shutdown(a)
      PROVE  run' = run
  BY <1>8 DEF AttachMessagePipeEndpoint, Attach, WriteMessage, ReadMessage, Close,
              OnReadMessage, EnqueueMessage, HandleControlMessage, Shutdown, Crash
<1> QED BY <1>1, <1>5, <1>6, <1>7, <1>8

LEMMA OrderlyStep ==
    ASSUME IInv, OrderlyInv, orderly, Next
    PROVE  OrderlyInv'
<1>0. AttachedFirst'
  BY AttachedFirstStep DEF OrderlyInv
<1>1. PICK a \in Side : \/ AttachMessagePipeEndpoint(a) \/ Attach(a)
                        \/ RunMessagePipeEndpoint(a) \/ Run(a)
                        \/ WriteMessage(a) \/ ReadMessage(a) \/ Close(a)
                        \/ OnReadMessage(a) \/ EnqueueMessage(a) \/ HandleControlMessage(a)
                        \/ Shutdown(a)
  BY DEF Next
<1> DEFINE o == Other(a)
<1>2. /\ o \in Side /\ o # a /\ Other(o) = a /\ o = Other(a)
      /\ \A s \in Side : s = a \/ s = o
  BY TwoSides
<1>3. /\ link \in [Side -> Seq(Nat)] /\ run \in [Side -> {"no", "found", "done"}]
      /\ proxy \in [Side -> {"detached", "attached", "running", "gone"}]
      /\ missed \in [Side -> Nat]
  BY DEF IInv, TypeOK
<1> HIDE DEF o
<1>4. ASSUME run' = run, link' = link, missed' = missed,
             \A s \in Side : proxy'[s] = "running" => proxy[s] = "running"
      PROVE  OrderlyInv'
  BY <1>0, <1>4 DEF OrderlyInv
<1>5. CASE \E check \in Crashes : Crash(a, check)
  BY <1>4, <1>5 DEF Crash
<1>6. CASE AttachMessagePipeEndpoint(a) \/ Attach(a) \/ ReadMessage(a)
  BY <1>3, <1>4, <1>6 DEF AttachMessagePipeEndpoint, Attach, ReadMessage
<1>7. CASE RunMessagePipeEndpoint(a)
  <2> SUFFICES ASSUME ~\E check \in Crashes : Crash(a, check) PROVE OrderlyInv'
    BY <1>5
  <2>1. /\ run' = [run EXCEPT ![a] = "found"] /\ link' = link /\ missed' = missed
        /\ proxy' = proxy
    BY <1>7 DEF RunMessagePipeEndpoint, Crashes
  <2>2. \A s \in Side : run'[s] = "no" => run[s] = "no"
    BY <1>3, <2>1
  <2> QED BY <1>0, <1>2, <2>1, <2>2, TwoSides DEF OrderlyInv
<1>8. CASE Run(a)
  <2> SUFFICES ASSUME ~\E check \in Crashes : Crash(a, check) PROVE OrderlyInv'
    BY <1>5
  <2>1. /\ run' = [run EXCEPT ![a] = "done"] /\ missed' = missed
        /\ link' = link \/ link' = [link EXCEPT ![o] = @ \o paused[a]]
        /\ \/ proxy' = [proxy EXCEPT ![a] = "running"]
           \/ proxy' = [proxy EXCEPT ![a] = "gone"]
    BY <1>8 DEF Run, Transmit, CloseProxy, o, Crashes
  <2>2. run'[a] # "no" /\ run'[o] = run[o]
    BY <1>2, <1>3, <2>1
  <2>3. link'[a] = link[a] /\ proxy'[o] = proxy[o]
    BY <1>2, <1>3, <2>1
  <2>4. run[a] # "no"
    BY <1>8 DEF Run
  <2> QED BY <1>0, <1>2, <2>1, <2>2, <2>3, <2>4 DEF OrderlyInv
<1>9. CASE WriteMessage(a) \/ Close(a)
  <2>1. /\ run' = run /\ missed' = missed
        /\ link' = link \/ (proxy[a] = "running"
                            /\ \E m \in Seq(Nat) : link' = [link EXCEPT ![o] = @ \o m])
        /\ proxy' = proxy \/ proxy' = [proxy EXCEPT ![a] = "gone"]
    <3>1. <<PeerClosed>> \in Seq(Nat) /\ <<sent[a] + 1>> \in Seq(Nat)
      BY DEF IInv, TypeOK, PeerClosed
    <3>2. CASE WriteMessage(a)
      BY <3>1, <3>2 DEF WriteMessage, Transmit, o
    <3>3. CASE Close(a)
      BY <3>1, <3>3 DEF Close, Transmit, CloseProxy, o
    <3> QED BY <1>9, <3>2, <3>3
  <2>2. link'[a] = link[a] /\ (link'[o] # link[o] => proxy[a] = "running")
    BY <1>2, <1>3, <2>1
  <2>3. \A s \in Side : proxy'[s] = "running" => proxy[s] = "running"
    BY <1>3, <2>1
  <2> QED BY <1>0, <1>2, <2>1, <2>2, <2>3 DEF OrderlyInv
<1>10. CASE OnReadMessage(a)
  <2>1. /\ run' = run /\ proxy' = proxy /\ link[a] # <<>>
        /\ link' = [link EXCEPT ![a] = Tail(@)]
        /\ missed' = [missed EXCEPT ![a] = IF NotYetAttached(a) /\ Head(link[a]) # PeerClosed
                                           THEN @ + 1 ELSE @]
    BY <1>10 DEF OnReadMessage
  <2>2. ~NotYetAttached(a)
    BY <1>2, <2>1 DEF OrderlyInv, AttachedFirst, NotYetAttached
  <2>3. missed' = missed
    BY <1>3, <2>1, <2>2
  <2>4. \A s \in Side : link'[s] # <<>> => link[s] # <<>>
    BY <1>3, <2>1
  <2> QED BY <1>0, <2>1, <2>3, <2>4 DEF OrderlyInv
<1>11. CASE EnqueueMessage(a) \/ HandleControlMessage(a)
  <2> SUFFICES ASSUME ~\E check \in Crashes : Crash(a, check) PROVE OrderlyInv'
    BY <1>5
  <2>1. /\ run' = run /\ link' = link /\ missed' = missed
        /\ proxy' = proxy \/ proxy' = [proxy EXCEPT ![a] = "gone"]
    BY <1>11 DEF EnqueueMessage, HandleControlMessage, CloseProxy, Crashes
  <2> QED BY <1>3, <1>4, <2>1
<1>12. CASE Shutdown(a)
  <2>1. /\ run' = run /\ missed' = missed /\ proxy' = proxy
        /\ \E k \in 0..Len(link[o]) : link' = [link EXCEPT ![o] = SubSeq(@, 1, k)]
    BY <1>12 DEF Shutdown, o
  <2>2. link'[a] = link[a]
    BY <1>2, <1>3, <2>1
  <2>3. link[o] = <<>> => link'[o] = <<>>
    <3> SUFFICES ASSUME link[o] = <<>> PROVE link'[o] = <<>>
      OBVIOUS
    <3>1. Len(link[o]) = 0 /\ link[o] \in Seq(Nat)
      BY <1>2, <1>3, EmptySeq
    <3>2. link' = [link EXCEPT ![o] = SubSeq(@, 1, 0)]
      <4>1. PICK k \in 0..Len(link[o]) : link' = [link EXCEPT ![o] = SubSeq(@, 1, k)]
        BY <2>1
      <4>2. k = 0
        BY <3>1, <4>1
      <4> QED BY <4>1, <4>2
    <3>3. SubSeq(link[o], 1, 0) \in Seq(Nat) /\ Len(SubSeq(link[o], 1, 0)) = 0
      BY <3>1, CutFacts
    <3>4. SubSeq(link[o], 1, 0) = <<>>
      BY <3>3, EmptyIffLenZero
    <3> QED BY <1>2, <1>3, <3>2, <3>4
  <2> QED BY <1>0, <1>2, <2>1, <2>2, <2>3 DEF OrderlyInv
<1> QED
  BY <1>1, <1>6, <1>7, <1>8, <1>9, <1>10, <1>11, <1>12

\* A side says so only when the other one is closed and all it sent has been read.
EndedIsTrue ==
    \A s \in Ended : s \in local /\ Other(s) \notin local /\ taken[s] = sent[Other(s)]

LEMMA EndedFacts ==
    ASSUME IInv, OrderlyInv
    PROVE  EndedIsTrue
<1> SUFFICES ASSUME NEW s \in Ended
             PROVE  s \in local /\ Other(s) \notin local /\ taken[s] = sent[Other(s)]
  BY DEF EndedIsTrue
<1>1. s \in local /\ ~localPeerOpen[s] /\ queue[s] = <<>> /\ s \in Side
  BY DEF Ended, IInv, TypeOK
<1>2. Other(s) \notin local /\ Len(queue[s]) = sent[Other(s)] - Passed(s)
  BY <1>1 DEF IInv, StreamInv, StreamOf
<1>3. Len(queue[s]) = 0
  BY <1>1, EmptySeq
<1>4. taken[s] \in Nat /\ sent[Other(s)] \in Nat /\ Passed(s) = taken[s]
  BY <1>1, TwoSides DEF IInv, TypeOK, OrderlyInv, Passed
<1> QED
  BY <1>1, <1>2, <1>3, <1>4

\* It never takes that back: the proxy is gone, so that nothing more can be enqueued.
LEMMA EndedStays ==
    ASSUME IInv, [Next]_vars
    PROVE  Ended \cap local' \subseteq Ended'
<1> SUFFICES ASSUME NEW c \in Ended, c \in local'
             PROVE  ~localPeerOpen'[c] /\ queue'[c] = <<>>
  BY DEF Ended
<1>1. /\ c \in local /\ ~localPeerOpen[c] /\ queue[c] = <<>> /\ c \in Side
      /\ queue \in [Side -> Seq(Nat)] /\ localPeerOpen \in [Side -> BOOLEAN]
  BY DEF Ended, IInv, TypeOK
<1>2. proxy[c] = "gone"
  BY <1>1 DEF IInv, MapInv, MapOf
<1>3. CASE queue' = queue /\ localPeerOpen' = localPeerOpen
  BY <1>1, <1>3
<1>4. ASSUME NEW s \in Side, ReadMessage(s) PROVE ~localPeerOpen'[c] /\ queue'[c] = <<>>
  <2>1. c # s /\ localPeerOpen' = localPeerOpen /\ queue' = [queue EXCEPT ![s] = Tail(@)]
    BY <1>1, <1>4 DEF ReadMessage
  <2> QED BY <1>1, <2>1
<1>5. ASSUME NEW s \in Side, Close(s) PROVE ~localPeerOpen'[c] /\ queue'[c] = <<>>
  <2>1. localPeerOpen' = localPeerOpen /\ queue' = [queue EXCEPT ![s] = <<>>]
    BY <1>5 DEF Close
  <2> QED BY <1>1, <2>1
<1>6. ASSUME NEW s \in Side, EnqueueMessage(s) PROVE ~localPeerOpen'[c] /\ queue'[c] = <<>>
  <2>1. CASE queue' = queue /\ localPeerOpen' = localPeerOpen
    BY <1>1, <2>1
  <2>2. CASE proxy[s] # "gone" /\ queue' = [queue EXCEPT ![s] = @ \o found[s]]
             /\ localPeerOpen' = localPeerOpen
    <3>1. c # s
      BY <1>2, <2>2
    <3> QED BY <1>1, <2>2, <3>1
  <2> QED
    BY <1>6, <2>1, <2>2 DEF EnqueueMessage, Crash
<1>7. ASSUME NEW s \in Side, HandleControlMessage(s)
      PROVE  ~localPeerOpen'[c] /\ queue'[c] = <<>>
  <2>1. CASE queue' = queue /\ localPeerOpen' = localPeerOpen
    BY <1>1, <2>1
  <2>2. CASE proxy[s] # "gone" /\ queue' = queue
             /\ localPeerOpen' = [localPeerOpen EXCEPT ![s] = IF s \in local THEN FALSE ELSE @]
    <3>1. c # s
      BY <1>2, <2>2
    <3>2. localPeerOpen'[c] = localPeerOpen[c]
      BY <1>1, <2>2, <3>1
    <3> QED BY <1>1, <2>2, <3>2
  <2> QED
    BY <1>7, <2>1, <2>2 DEF HandleControlMessage, Crash
<1>8. ASSUME NEW s \in Side,
             \/ AttachMessagePipeEndpoint(s) \/ Attach(s) \/ RunMessagePipeEndpoint(s)
             \/ Run(s) \/ WriteMessage(s) \/ OnReadMessage(s) \/ Shutdown(s)
      PROVE  queue' = queue /\ localPeerOpen' = localPeerOpen
  BY <1>8 DEF AttachMessagePipeEndpoint, Attach, RunMessagePipeEndpoint, Run, WriteMessage,
              OnReadMessage, Shutdown, Crash
<1>9. CASE UNCHANGED vars
  BY <1>3, <1>9 DEF vars
<1> QED
  BY <1>3, <1>4, <1>5, <1>6, <1>7, <1>8, <1>9 DEF Next

\* Two pipes that a channel connects keep the contract of message pipes if orderly callers
\* attach both sides before either runs, whatever the order of the other steps and although
\* a channel may be shut down or a process may die.
THEOREM Refinement == Spec => ImplementsContract
<1>1. Init => Contract!Init
  BY DEF Init, Contract!Init
<1>2. ASSUME IInv, IInv', OrderlyInv', EndedIsTrue', [Next]_vars
      PROVE  [Contract!Next]_(Contract!vars)
  <2>1. Contract!Tell
    <3>1. Ended \cap local' \subseteq Ended'
      BY <1>2, EndedStays
    <3>2. ASSUME NEW e \in Ended'
          PROVE  /\ e \in local' /\ Other(e) \notin local' /\ taken'[e] = sent'[Other(e)]
                 /\ e \in Side
      BY <1>2 DEF EndedIsTrue, IInv, TypeOK
    <3> QED
      BY <3>1, <3>2 DEF Contract!Tell, Ended
  <2>2. CASE local' = local /\ sent' = sent /\ taken' = taken
    BY <2>1, <2>2 DEF Contract!Next
  <2>3. ASSUME NEW s \in Side, WriteMessage(s)
        PROVE  Contract!Send(s)
    BY <2>3 DEF WriteMessage, Contract!Send
  <2>4. ASSUME NEW s \in Side, ReadMessage(s)
        PROVE  Contract!Receive(s)
    <3>1. /\ s \in local /\ taken' = [taken EXCEPT ![s] = @ + 1] /\ local' = local
          /\ sent' = sent
      BY <2>4 DEF ReadMessage
    <3>2. taken'[s] <= sent'[Other(s)]
      <4>1. Passed(s)' <= sent'[Other(s)] /\ missed'[s] = 0 /\ taken'[s] \in Nat
        BY <1>2, <3>1 DEF IInv, TypeOK, StreamInv, QueueOf, OrderlyInv
      <4> QED BY <4>1 DEF Passed
    <3>3. taken'[s] = taken[s] + 1 /\ taken[s] \in Nat /\ sent[Other(s)] \in Nat
      BY <1>2, <3>1, TwoSides DEF IInv, TypeOK
    <3>4. taken[s] < sent[Other(s)]
      BY <3>1, <3>2, <3>3
    <3> QED
      BY <3>1, <3>4 DEF Contract!Receive
  <2>5. ASSUME NEW s \in Side, Close(s)
        PROVE  Contract!Close(s)
    BY <2>5 DEF Close, Contract!Close
  <2>6. ASSUME NEW s \in Side,
               \/ AttachMessagePipeEndpoint(s) \/ Attach(s) \/ RunMessagePipeEndpoint(s)
               \/ Run(s) \/ OnReadMessage(s) \/ EnqueueMessage(s) \/ HandleControlMessage(s)
               \/ Shutdown(s)
        PROVE  local' = local /\ sent' = sent /\ taken' = taken
    BY <2>6 DEF AttachMessagePipeEndpoint, Attach, RunMessagePipeEndpoint, Run,
                OnReadMessage, EnqueueMessage, HandleControlMessage, Shutdown, Crash
  <2>7. CASE UNCHANGED vars
    BY <2>2, <2>7 DEF vars
  <2>8. CASE Next
    <3>1. PICK s \in Side : \/ AttachMessagePipeEndpoint(s) \/ Attach(s)
                            \/ RunMessagePipeEndpoint(s) \/ Run(s)
                            \/ WriteMessage(s) \/ ReadMessage(s) \/ Close(s)
                            \/ OnReadMessage(s) \/ EnqueueMessage(s)
                            \/ HandleControlMessage(s) \/ Shutdown(s)
      BY <2>8 DEF Next
    <3> QED
      BY <2>1, <2>2, <2>3, <2>4, <2>5, <2>6, <3>1 DEF Contract!Next
  <2> QED
    BY <1>2, <2>7, <2>8
<1> DEFINE J == orderly => OrderlyInv
           K == orderly => EndedIsTrue
<1>3. IInv /\ J /\ [Next]_vars => J'
  <2>1. ASSUME OrderlyInv, UNCHANGED vars PROVE OrderlyInv'
    BY <2>1 DEF OrderlyInv, AttachedFirst, vars
  <2>2. [Next]_vars => orderly' = orderly
    BY OrderlyKept DEF vars
  <2> QED BY <2>1, <2>2, OrderlyStep
<1>4. Init => J
  BY TwoSides DEF Init, OrderlyInv, AttachedFirst
<1>5. IInv /\ J => K
  BY EndedFacts
<1>6. IInv /\ IInv' /\ J' /\ K' /\ [Next]_vars =>
        [orderly => [Contract!Next]_(Contract!vars)]_vars
  <2> SUFFICES ASSUME IInv, IInv', J', K', [Next]_vars, orderly
               PROVE  [Contract!Next]_(Contract!vars)
    OBVIOUS
  <2>1. orderly'
    BY OrderlyKept DEF vars
  <2>2. OrderlyInv' /\ EndedIsTrue'
    BY <2>1
  <2> QED BY <1>2, <2>2
<1> QED
  BY <1>1, <1>3, <1>4, <1>5, <1>6, InductiveInvariant, PTL DEF Spec, ImplementsContract
=============================================================================
