------------------------- MODULE RawChannel_proofs -------------------------
(***************************************************************************)
(* The write queue and the two byte streams of RawChannel, for every       *)
(* message size, read size and sequence of messages to read.               *)
(***************************************************************************)
EXTENDS RawChannel, CommonLemmas, TLAPS

-----------------------------------------------------------------------------
(* The inductive invariant *)

\* While the channel is alive its queue is the end of the accepted messages, and only
\* the front of a queue can be partly written.
QueueInv ==
    ~isDead =>
        /\ Len(writeQueue) <= Len(accepted)
        /\ \A j \in 1..Len(writeQueue) :
                writeQueue[j] = accepted[Len(accepted) - Len(writeQueue) + j]
        /\ writeQueue = <<>> => writeOffset = 0

ReadInv == dispatched <= Len(ReadSizes) /\ ReadsWholeMessages

IInv ==
    /\ TypeOK
    /\ OneWaiterForPendingWrites
    /\ QueueInv
    /\ WireInOrder
    /\ ReadInv

-----------------------------------------------------------------------------
(* The stream of units to read *)

\* The equations of EndOf have a solution, so EndOf satisfies them: the partial sums of
\* ReadSizes.
LEMMA EndOfDef ==
    /\ EndOf \in [0..Len(ReadSizes) -> Nat]
    /\ EndOf[0] = 0
    /\ \A n \in 1..Len(ReadSizes) : EndOf[n] = EndOf[n - 1] + ReadSizes[n]
<1> DEFINE L == Len(ReadSizes)
           Sums(m, f) == /\ f \in [0..m -> Nat]
                         /\ f[0] = 0
                         /\ \A n \in 1..m : f[n] = f[n - 1] + ReadSizes[n]
           W == {m \in 0..L : ~ \E f : Sums(m, f)}
<1>1. L \in Nat /\ \A n \in 1..L : ReadSizes[n] \in Nat
  BY ConstantsAssumption
<1>2. W = {}
  <2>1. SUFFICES ASSUME W # {} PROVE FALSE
    OBVIOUS
  <2>2. W \in SUBSET Nat
    BY <1>1
  <2>3. PICK x \in W : \A y \in W : x <= y
    <3> HIDE DEF W
    <3> QED BY <2>1, <2>2, LeastOf
  <2>4. x \in 0..L /\ ~ \E f : Sums(x, f)
    OBVIOUS
  <2>5. x # 0
    <3>1. Sums(0, [n \in 0..0 |-> 0])
      OBVIOUS
    <3> QED
      BY <2>4, <3>1
  <2>6. x - 1 \in 0..L /\ x - 1 \notin W
    <3>1. x - 1 \in 0..L /\ x \in Nat
      BY <1>1, <2>4, <2>5
    <3> HIDE DEF W
    <3>2. ~(x <= x - 1)
      BY <3>1
    <3> QED
      BY <2>3, <3>1, <3>2
  <2>7. PICK f : Sums(x - 1, f)
    BY <2>6
  <2> DEFINE g == [n \in 0..x |-> IF n = x THEN f[x - 1] + ReadSizes[x] ELSE f[n]]
  <2>8. Sums(x, g)
    <3>1. x \in Nat /\ x >= 1 /\ x \in 1..L /\ ReadSizes[x] \in Nat
      BY <1>1, <2>4, <2>5
    <3>2. f \in [0..(x - 1) -> Nat] /\ f[0] = 0
          /\ \A n \in 1..(x - 1) : f[n] = f[n - 1] + ReadSizes[n]
      BY <2>7
    <3>3. g \in [0..x -> Nat]
      BY <3>1, <3>2
    <3>4. g[0] = 0
      BY <3>1, <3>2
    <3>5. ASSUME NEW n \in 1..x PROVE g[n] = g[n - 1] + ReadSizes[n]
      BY <3>1, <3>2
    <3> HIDE DEF g
    <3> QED
      BY <3>3, <3>4, <3>5
  <2> QED
    BY <2>4, <2>8
<1>3. PICK f : Sums(L, f)
  BY <1>1, <1>2
<1>4. f = [n \in 0..L |-> IF n = 0 THEN 0 ELSE f[n - 1] + ReadSizes[n]]
  BY <1>1, <1>3
<1>5. EndOf = [n \in 0..L |-> IF n = 0 THEN 0 ELSE EndOf[n - 1] + ReadSizes[n]]
  BY <1>4 DEF EndOf
<1>6. EndOf[0] = 0 /\ \A n \in 1..L : EndOf[n] = EndOf[n - 1] + ReadSizes[n]
  BY <1>1, <1>5
<1>7. \A n \in 0..L : EndOf[n] \in Nat
  <2> DEFINE V == {n \in 0..L : EndOf[n] \notin Nat}
  <2>1. SUFFICES ASSUME V # {} PROVE FALSE
    OBVIOUS
  <2>2. V \in SUBSET Nat
    BY <1>1
  <2>3. PICK x \in V : \A y \in V : x <= y
    <3> HIDE DEF V
    <3> QED BY <2>1, <2>2, LeastOf
  <2>4. x \in 1..L
    BY <1>1, <1>6, <2>3
  <2>5. x - 1 \in 0..L /\ ~(x <= x - 1)
    BY <1>1, <2>4
  <2>6. EndOf[x - 1] \in Nat
    BY <2>3, <2>5
  <2> QED
    BY <1>1, <1>6, <2>4, <2>6
<1> QED
  BY <1>5, <1>6, <1>7

\* The ends of the messages are in the order of the messages.
LEMMA EndOfGrows ==
    ASSUME NEW a \in 0..Len(ReadSizes), NEW b \in 0..Len(ReadSizes), a <= b
    PROVE  EndOf[a] <= EndOf[b]
<1> DEFINE L == Len(ReadSizes)
           V == {n \in 0..L : a <= n /\ ~(EndOf[a] <= EndOf[n])}
<1>0. L \in Nat /\ \A n \in 1..L : ReadSizes[n] \in Nat
  BY ConstantsAssumption
<1>1. SUFFICES ASSUME V # {} PROVE FALSE
  OBVIOUS
<1>2. V \in SUBSET Nat
  BY <1>0
<1>3. PICK x \in V : \A y \in V : x <= y
  <2> HIDE DEF V
  <2> QED BY <1>1, <1>2, LeastOf
<1>4. x \in 0..L /\ a <= x /\ ~(EndOf[a] <= EndOf[x])
  OBVIOUS
<1>5. x # a
  BY <1>4, EndOfDef
<1>6. x - 1 \in 0..L /\ a <= x - 1 /\ ~(x <= x - 1) /\ x \in 1..L
  BY <1>0, <1>4, <1>5
<1>7. EndOf[a] <= EndOf[x - 1]
  BY <1>3, <1>6
<1>8. /\ EndOf[x] = EndOf[x - 1] + ReadSizes[x]
      /\ EndOf[x - 1] \in Nat /\ EndOf[a] \in Nat /\ ReadSizes[x] \in Nat
  BY <1>0, <1>6, EndOfDef
<1>9. EndOf[a] <= EndOf[x]
  BY <1>7, <1>8
<1> QED
  BY <1>4, <1>9

\* DispatchedAfter is well defined: some message is the last whole one in the buffer,
\* or none is whole.
LEMMA DispatchedAfterFacts ==
    ASSUME dispatched \in 0..Len(ReadSizes), NEW available \in Nat
    PROVE  LET n == DispatchedAfter(available) IN
           /\ n \in dispatched..Len(ReadSizes)
           /\ n = dispatched \/ EndOf[n] - EndOf[dispatched] <= available
           /\ n < Len(ReadSizes) => EndOf[n + 1] - EndOf[dispatched] > available
<1> DEFINE L == Len(ReadSizes)
           D == dispatched..L
           W == {n \in D : n = dispatched \/ IsWhole(n, available)}
           P(n) == /\ n = dispatched \/ IsWhole(n, available)
                   /\ \A k \in (n + 1)..L : ~IsWhole(k, available)
<1>0. L \in Nat /\ dispatched \in Nat /\ dispatched <= L
  BY ConstantsAssumption
<1>1. W \in SUBSET (0..L) /\ dispatched \in W
  BY <1>0
<1>2. PICK x \in W : \A y \in W : y <= x
  <2> HIDE DEF W, L
  <2> QED BY <1>0, <1>1, GreatestOf
<1>3. x \in D /\ P(x)
  <2>1. x \in D /\ (x = dispatched \/ IsWhole(x, available)) /\ x \in Nat
    BY <1>0
  <2>2. ASSUME NEW k \in (x + 1)..L PROVE ~IsWhole(k, available)
    <3>1. k \in D /\ ~(k <= x)
      BY <1>0, <2>1
    <3> QED
      BY <1>2, <3>1
  <2> QED
    BY <2>1, <2>2
<1>4. DispatchedAfter(available) = CHOOSE n \in D : P(n)
  BY DEF DispatchedAfter
<1>5. DispatchedAfter(available) \in D /\ P(DispatchedAfter(available))
  <2> HIDE DEF D, P
  <2> QED
    BY <1>3, <1>4
<1> HIDE DEF W
<1>6. DispatchedAfter(available) + 1 \in (DispatchedAfter(available) + 1)..L
      \/ ~(DispatchedAfter(available) < L)
  BY <1>0, <1>5
<1>7. ~IsWhole(DispatchedAfter(available) + 1, available)
      \/ ~(DispatchedAfter(available) < L)
  BY <1>5, <1>6
<1>8. DispatchedAfter(available) < L =>
        EndOf[DispatchedAfter(available) + 1] \in Nat /\ EndOf[dispatched] \in Nat
  BY <1>0, <1>5, EndOfDef
<1> QED
  BY <1>0, <1>5, <1>7, <1>8 DEF IsWhole

-----------------------------------------------------------------------------
(* The units written *)

\* WireInOrder says of the units on the wire that they are those of acc, in order.
InOrder(w, acc) ==
    \A i \in 1..Len(w) :
        w[i] = <<acc[((i - 1) \div MessageSize) + 1], ((i - 1) % MessageSize) + 1>>

\* K messages and o units of the next are on the wire w.
OnWire(w, K, o) == Len(w) = K * MessageSize + o

\* What WireInOrder says is missing: the queue q, but for its first o units.
Missing(w, q, acc, o) == Len(w) + Len(q) * MessageSize = Len(acc) * MessageSize + o

\* What is on the wire and what is missing, before and after n units are written.
LEMMA WrittenAndMissing ==
    ASSUME NEW w, NEW q, NEW acc, Len(w) \in Nat, Len(q) \in Nat, Len(acc) \in Nat,
           NEW o \in Nat, NEW n \in Nat, Missing(w, q, acc, o), MessageSize \in Nat
    PROVE  /\ OnWire(w, Len(acc) - Len(q), o)
           /\ \A x : Len(x) = Len(w) + n => Missing(x, q, acc, o + n)
           /\ \A x, r : /\ Len(x) = Len(w) + n /\ Len(r) = Len(q) - 1
                        /\ o + n = MessageSize
                        => Missing(x, r, acc, 0)
<1>1. OnWire(w, Len(acc) - Len(q), o)
  BY DEF Missing, OnWire
<1>2. ASSUME NEW x, Len(x) = Len(w) + n PROVE Missing(x, q, acc, o + n)
  BY <1>2 DEF Missing
<1>3. ASSUME NEW x, NEW r, Len(x) = Len(w) + n, Len(r) = Len(q) - 1, o + n = MessageSize
      PROVE  Missing(x, r, acc, 0)
  BY <1>3 DEF Missing
<1> QED
  BY <1>1, <1>2, <1>3

\* The sequence u is the units of the message after the K-th that follow the first o.
AreUnits(u, acc, K, o) == \A i \in 1..Len(u) : u[i] = <<acc[K + 1], o + i>>

\* Writing more units of the message after the K-th, of which o are on the wire.
LEMMA UnitsExtendWire ==
    ASSUME NEW T, NEW w \in Seq(T), NEW u \in Seq(T), NEW acc, NEW K \in Nat, NEW o \in Nat,
           InOrder(w, acc), OnWire(w, K, o), AreUnits(u, acc, K, o),
           o + Len(u) <= MessageSize
    PROVE  InOrder(w \o u, acc) /\ w \o u \in Seq(T) /\ Len(w \o u) = Len(w) + Len(u)
<1>0. PICK S \in Nat, n \in Nat :
        /\ S = MessageSize /\ S > 0 /\ n = Len(u) /\ o + n <= S
        /\ \A i \in 1..n : u[i] = <<acc[K + 1], o + i>>
  <2>1. MessageSize \in Nat /\ MessageSize > 0 /\ Len(u) \in Nat
    BY ConstantsAssumption
  <2> QED
    BY <2>1 DEF AreUnits
<1> DEFINE x == w \o u
<1>1. /\ x \in Seq(T)
      /\ Len(x) = Len(w) + n
      /\ Len(w) \in Nat
      /\ \A i \in 1..(Len(w) + n) : x[i] = IF i <= Len(w) THEN w[i] ELSE u[i - Len(w)]
  <2>1. /\ x \in Seq(T)
        /\ Len(x) = Len(w) + Len(u)
        /\ \A i \in 1..(Len(w) + Len(u)) : x[i] = IF i <= Len(w) THEN w[i] ELSE u[i - Len(w)]
    BY ConcatProperties
  <2> QED
    BY <1>0, <2>1
<1> HIDE DEF x
<1>2. ASSUME NEW i \in 1..Len(x)
      PROVE  x[i] = <<acc[((i - 1) \div S) + 1], ((i - 1) % S) + 1>>
  <2>1. i \in 1..(Len(w) + n) /\ i \in Nat
    BY <1>1
  <2>2. CASE i <= Len(w)
    <3>1. i \in 1..Len(w) /\ x[i] = w[i]
      BY <1>1, <2>1, <2>2
    <3> QED
      BY <1>0, <3>1 DEF InOrder
  <2>3. CASE i > Len(w)
    <3>1. PICK j \in 1..n : j = i - Len(w)
      <4>1. PICK l \in Nat : l = Len(w)
        BY <1>1
      <4>2. i \in 1..(l + n) /\ i > l
        BY <2>1, <2>3, <4>1
      <4>3. i - l \in 1..n
        BY <4>2
      <4> QED
        BY <4>1, <4>3
    <3>2. x[i] = u[j]
      BY <1>1, <2>1, <2>3, <3>1
    <3>3. x[i] = <<acc[K + 1], o + j>>
      BY <1>0, <3>2
    <3>4. PICK r \in Nat : r = o + j - 1 /\ r < S
      <4>1. o + j - 1 \in Nat /\ o + j - 1 < S
        BY <1>0
      <4> QED
        BY <4>1
    <3>5. i - 1 = K * S + r
      <4>1. i = Len(w) + j
        BY <1>1, <2>1, <3>1
      <4>2. PICK p \in Nat : p = K * S
        OBVIOUS
      <4>3. Len(w) = p + o
        BY <1>0, <4>2 DEF OnWire
      <4>4. i - 1 = p + r
        BY <3>4, <4>1, <4>3
      <4> QED
        BY <4>2, <4>4
    <3>6. (i - 1) \div S = K /\ (i - 1) % S = r
      <4>1. (K * S + r) \div S = K /\ (K * S + r) % S = r
        BY <1>0, <3>4, DivMod
      <4> QED
        BY <3>5, <4>1, Zenon
    <3>7. r + 1 = o + j
      BY <3>4
    <3> QED
      BY <3>3, <3>6, <3>7
  <2> QED
    BY <1>1, <2>1, <2>2, <2>3
<1> QED
  BY <1>0, <1>1, <1>2 DEF InOrder, x

\* WriteFrontMessageNoLock puts the next units of the front message on the wire; what the
\* queue and the offset say is missing stays true, and it asks for another round exactly
\* when something is left.
LEMMA WriteFrontFacts ==
    ASSUME NEW q \in Seq(Nat), q # <<>>, NEW acc \in Seq(Nat),
           Len(q) <= Len(acc),
           \A j \in 1..Len(q) : q[j] = acc[Len(acc) - Len(q) + j],
           wire \in Seq(Nat \X (1..MessageSize)),
           writeOffset \in 0..(MessageSize - 1),
           NEW n \in 0..MessageSize, writeOffset + n <= MessageSize,
           InOrder(wire, acc),
           Missing(wire, q, acc, writeOffset),
           WriteFront(q, n)
    PROVE  /\ wire' \in Seq(Nat \X (1..MessageSize))
           /\ InOrder(wire', acc)
           /\ writeQueue' \in Seq(Nat)
           /\ writeOffset' \in 0..(MessageSize - 1)
           /\ Missing(wire', writeQueue', acc, writeOffset')
           /\ Len(writeQueue') <= Len(acc)
           /\ \A j \in 1..Len(writeQueue') :
                writeQueue'[j] = acc[Len(acc) - Len(writeQueue') + j]
           /\ writeQueue' = <<>> => writeOffset' = 0
           /\ writeQueue' # <<>> <=> NeedsWait(q, n)
<1> DEFINE S == MessageSize
           K == Len(acc) - Len(q)
           o == writeOffset
           u == Units(Head(q), o + 1, o + n)
<1>0. /\ S \in Nat /\ S > 0 /\ o \in Nat /\ n \in Nat /\ o < S
      /\ Len(q) \in Nat /\ Len(q) >= 1 /\ Len(acc) \in Nat /\ K \in Nat
      /\ Head(q) = q[1] /\ q[1] \in Nat /\ q[1] = acc[K + 1]
  <2>1. Len(q) \in Nat /\ Len(q) >= 1 /\ Head(q) = q[1] /\ q[1] \in Nat
    BY QueueFacts
  <2> QED
    BY <2>1, ConstantsAssumption
<1>1. /\ Len(wire) \in Nat /\ OnWire(wire, K, o)
      /\ \A x : Len(x) = Len(wire) + n => Missing(x, q, acc, o + n)
      /\ \A x, r : /\ Len(x) = Len(wire) + n /\ Len(r) = Len(q) - 1
                   /\ o + n = S
                   => Missing(x, r, acc, 0)
  <2>1. Len(wire) \in Nat
    OBVIOUS
  <2> QED
    BY <1>0, <2>1, WrittenAndMissing
<1>2. /\ u \in Seq(Nat \X (1..S)) /\ Len(u) = n
      /\ \A i \in 1..n : u[i] = <<acc[K + 1], o + i>>
  <2>1. u = [i \in 1..n |-> <<acc[K + 1], o + i>>]
    <3>1. (o + n) - (o + 1) + 1 = n /\ \A i \in 1..n : (o + 1) + i - 1 = o + i
      BY <1>0
    <3> QED
      BY <1>0, <3>1 DEF Units
  <2>2. \A i \in 1..n : o + i \in 1..S
    BY <1>0
  <2>3. acc[K + 1] \in Nat
    BY <1>0
  <2>4. u \in [1..n -> Nat \X (1..S)]
    <3>1. ASSUME NEW i \in 1..n PROVE <<acc[K + 1], o + i>> \in Nat \X (1..S)
      BY <2>2, <2>3
    <3> HIDE DEF u
    <3> QED
      BY <2>1, <3>1
  <2>5. u \in Seq(Nat \X (1..S)) /\ Len(u) = n
    <3> HIDE DEF u
    <3> QED
      BY <1>0, <2>4, SeqDef
  <2> QED
    BY <2>1, <2>5
<1>3. wire' = wire \o u
  BY DEF WriteFront
<1> HIDE DEF u
<1>4. /\ wire' \in Seq(Nat \X (1..S))
      /\ Len(wire') = Len(wire) + n
      /\ InOrder(wire', acc)
  <2> DEFINE T == Nat \X (1..S)
  <2>1. wire \in Seq(T) /\ u \in Seq(T)
    BY <1>2
  <2>2. K \in Nat /\ o \in Nat /\ OnWire(wire, K, o) /\ o + Len(u) <= MessageSize
    BY <1>0, <1>1, <1>2
  <2>3. AreUnits(u, acc, K, o)
    BY <1>2 DEF AreUnits
  <2> HIDE DEF T
  <2>4. /\ InOrder(wire \o u, acc) /\ wire \o u \in Seq(T)
        /\ Len(wire \o u) = Len(wire) + Len(u)
    BY <2>1, <2>2, <2>3, UnitsExtendWire
  <2> QED
    BY <1>2, <1>3, <2>4 DEF T
<1>6. CASE o + n < S
  <2>1. writeOffset' = o + n /\ writeQueue' = q
    BY <1>6 DEF WriteFront
  <2>2. NeedsWait(q, n)
    BY <1>6 DEF NeedsWait
  <2>3. Missing(wire', q, acc, o + n)
    BY <1>1, <1>4
  <2>4. o + n \in 0..(S - 1) /\ q # <<>>
    BY <1>0, <1>6
  <2> QED
    BY <1>4, <2>1, <2>2, <2>3, <2>4
<1>7. CASE ~(o + n < S)
  <2>1. writeOffset' = 0 /\ writeQueue' = Tail(q)
    BY <1>7 DEF WriteFront
  <2>2. /\ Tail(q) \in Seq(Nat) /\ Len(Tail(q)) = Len(q) - 1
        /\ \A j \in 1..(Len(q) - 1) : Tail(q)[j] = q[j + 1]
    BY QueueFacts
  <2>3. NeedsWait(q, n) <=> Len(q) > 1
    BY <1>7 DEF NeedsWait
  <2>4. Tail(q) # <<>> <=> Len(q) > 1
    BY QueueFacts
  <2>5. Missing(wire', Tail(q), acc, 0)
    <3>1. o + n = S
      BY <1>0, <1>7
    <3> QED
      BY <1>1, <1>4, <2>2, <3>1
  <2>6. \A j \in 1..(Len(q) - 1) : Tail(q)[j] = acc[Len(acc) - (Len(q) - 1) + j]
    <3>1. SUFFICES ASSUME NEW j \in 1..(Len(q) - 1)
                   PROVE  Tail(q)[j] = acc[Len(acc) - (Len(q) - 1) + j]
      OBVIOUS
    <3>2. /\ j + 1 \in 1..Len(q)
          /\ Len(acc) - (Len(q) - 1) + j = Len(acc) - Len(q) + (j + 1)
      BY <1>0
    <3>3. q[j + 1] = acc[Len(acc) - Len(q) + (j + 1)]
      BY <3>2
    <3> QED
      BY <2>2, <3>2, <3>3
  <2>7. 0 \in 0..(S - 1) /\ Len(q) - 1 <= Len(acc)
    BY <1>0
  <2> QED
    BY <1>4, <2>1, <2>2, <2>3, <2>4, <2>5, <2>6, <2>7
<1> QED
  BY <1>6, <1>7

\* WireInOrder in the terms of these lemmas.
LEMMA WireParts ==
    WireInOrder <=> /\ InOrder(wire, accepted)
                    /\ ~isDead => Missing(wire, writeQueue, accepted, writeOffset)
  BY DEF WireInOrder, InOrder, Missing

\* A message that is accepted and queued is missing as a whole.
LEMMA QueueMore ==
    ASSUME NEW w, NEW q, NEW acc, NEW q2, NEW acc2, NEW o \in Nat,
           Len(w) \in Nat, Len(q) \in Nat, Len(acc) \in Nat, MessageSize \in Nat,
           Missing(w, q, acc, o), Len(q2) = Len(q) + 1, Len(acc2) = Len(acc) + 1
    PROVE  Missing(w, q2, acc2, o)
  BY DEF Missing

\* Only accepted messages are on the wire: another one does not change which they are.
LEMMA AcceptMore ==
    ASSUME NEW w, NEW q, NEW acc \in Seq(Nat), NEW m \in Nat, NEW o \in Nat,
           Len(w) \in Nat, Len(q) \in Nat, InOrder(w, acc), Missing(w, q, acc, o),
           o < MessageSize, Len(q) = 0 => o = 0, MessageSize \in Nat
    PROVE  InOrder(w, Append(acc, m))
<1>1. PICK S \in Nat, l \in Nat : S = MessageSize /\ S > 0 /\ l = Len(acc)
  <2>1. Len(acc) \in Nat
    OBVIOUS
  <2> QED
    BY <2>1
<1>2. Len(w) <= l * S
  <2>1. CASE Len(q) = 0
    BY <1>1, <2>1 DEF Missing
  <2>2. CASE Len(q) > 0
    <3>1. PICK b \in Nat : Len(q) = b + 1
      <4>1. Len(q) - 1 \in Nat /\ Len(q) = (Len(q) - 1) + 1
        BY <2>2
      <4> QED
        BY <4>1
    <3>2. Len(w) + (b + 1) * S = l * S + o
      BY <1>1, <3>1 DEF Missing
    <3>3. b * S \in Nat
      BY <1>1
    <3> QED
      BY <1>1, <3>2, <3>3
  <2> QED
    BY <2>1, <2>2
<1>3. ASSUME NEW i \in 1..Len(w)
      PROVE  w[i] = <<Append(acc, m)[((i - 1) \div S) + 1], ((i - 1) % S) + 1>>
  <2>1. PICK x \in Nat : x = i - 1 /\ x < l * S
    <3>1. l * S \in Nat
      BY <1>1
    <3>2. i - 1 \in Nat /\ i - 1 < l * S
      BY <1>2, <3>1
    <3> QED
      BY <3>2
  <2>2. PICK d \in Nat : d = x \div S /\ d < l
    <3>1. x \div S \in Nat /\ x \div S < l
      BY <1>1, <2>1, DivBound
    <3> QED
      BY <3>1
  <2>3. d + 1 \in 1..Len(acc)
    BY <1>1, <2>2
  <2>4. Append(acc, m)[d + 1] = acc[d + 1]
    BY <2>3, AppendProperties
  <2>5. w[i] = <<acc[d + 1], (x % S) + 1>>
    BY <1>1, <2>1, <2>2 DEF InOrder
  <2> QED
    BY <2>1, <2>2, <2>4, <2>5
<1> QED
  BY <1>1, <1>3 DEF InOrder

-----------------------------------------------------------------------------
(* Every step preserves the invariant *)

LEMMA InitIInv == Init => IInv
<1> SUFFICES ASSUME Init PROVE IInv
  OBVIOUS
<1> USE DEF Init
<1>1. TypeOK
  <2>1. /\ <<>> \in Seq(Nat) /\ <<>> \in Seq({"WaitToWrite", "CallOnFatalError"})
        /\ <<>> \in Seq(Nat \X (1..MessageSize))
    BY EmptySeq
  <2>2. 0 \in 0..(MessageSize - 1)
    BY ConstantsAssumption
  <2> QED
    BY <2>1, <2>2 DEF TypeOK
<1>2. OneWaiterForPendingWrites /\ QueueInv
  BY DEF OneWaiterForPendingWrites, QueueInv
<1>3. WireInOrder
  BY ConstantsAssumption DEF WireInOrder
<1>4. ReadInv
  <2>1. Len(ReadSizes) \in Nat /\ \A n \in 1..Len(ReadSizes) : ReadSizes[n] \in Nat \ {0}
    BY ConstantsAssumption
  <2> QED
    BY <2>1, EndOfDef DEF ReadInv, ReadsWholeMessages
<1> QED
  BY <1>1, <1>2, <1>3, <1>4 DEF IInv

\* WriteMessage: the caller writes itself only when the queue is empty, and then nobody
\* waits for the socket; a message behind others only joins the queue.
LEMMA WriteMessageStep ==
    ASSUME IInv, NEW onIO \in BOOLEAN, WriteMessage(onIO)
    PROVE  IInv'
<1> DEFINE m == calls + 1
<1>0. /\ calls' = m /\ m \in Nat
      /\ readArmed' = readArmed /\ sentToUs' = sentToUs /\ unread' = unread
      /\ valid' = valid /\ dispatched' = dispatched /\ inRead' = inRead
      /\ errors' = errors /\ failed' = failed
  BY DEF WriteMessage, readVars, IInv, TypeOK
<1>1. ReadInv'
  BY <1>0 DEF IInv, ReadInv, ReadsWholeMessages
<1>2. CASE UNCHANGED <<isDead, writeQueue, writeOffset, posted, writeArmed, accepted, wire>>
  <2>1. TypeOK'
    BY <1>0, <1>2 DEF IInv, TypeOK
  <2>2. OneWaiterForPendingWrites' /\ QueueInv' /\ WireInOrder'
    BY <1>2 DEF IInv, OneWaiterForPendingWrites, QueueInv, WireInOrder
  <2> QED
    BY <1>1, <2>1, <2>2 DEF IInv
<1>3. CASE /\ ~isDead /\ writeQueue # <<>>
           /\ writeQueue' = Append(writeQueue, m)
           /\ accepted' = Append(accepted, m)
           /\ UNCHANGED <<isDead, writeOffset, posted, writeArmed, wire>>
  <2>1. /\ writeQueue \in Seq(Nat) /\ accepted \in Seq(Nat)
        /\ Len(writeQueue) \in Nat /\ Len(accepted) \in Nat /\ Len(wire) \in Nat
    BY DEF IInv, TypeOK
  <2>2. /\ writeQueue' \in Seq(Nat) /\ writeQueue' # <<>>
        /\ Len(writeQueue') = Len(writeQueue) + 1
        /\ \A j \in 1..Len(writeQueue) : writeQueue'[j] = writeQueue[j]
        /\ writeQueue'[Len(writeQueue) + 1] = m
    BY <1>0, <1>3, <2>1, AppendProperties
  <2>3. /\ accepted' \in Seq(Nat)
        /\ Len(accepted') = Len(accepted) + 1
        /\ \A j \in 1..Len(accepted) : accepted'[j] = accepted[j]
        /\ accepted'[Len(accepted) + 1] = m
    BY <1>0, <1>3, <2>1, AppendProperties
  <2>4. TypeOK'
    BY <1>0, <1>3, <2>2, <2>3 DEF IInv, TypeOK
  <2>5. OneWaiterForPendingWrites'
    BY <1>3, <2>2 DEF IInv, OneWaiterForPendingWrites
  <2>6. /\ Len(writeQueue) <= Len(accepted)
        /\ \A j \in 1..Len(writeQueue) :
                writeQueue[j] = accepted[Len(accepted) - Len(writeQueue) + j]
    BY <1>3 DEF IInv, QueueInv
  <2>7. QueueInv'
    <3>1. ASSUME NEW j \in 1..Len(writeQueue')
          PROVE  writeQueue'[j] = accepted'[Len(accepted') - Len(writeQueue') + j]
      <4>1. PICK a \in Nat, b \in Nat : a = Len(accepted) /\ b = Len(writeQueue) /\ b <= a
        BY <2>1, <2>6
      <4>2. Len(accepted') - Len(writeQueue') + j = a - b + j
        BY <2>2, <2>3, <4>1
      <4>3. CASE j \in 1..b
        <5>1. a - b + j \in 1..a
          BY <4>1, <4>3
        <5> QED
          BY <2>2, <2>3, <2>6, <4>1, <4>2, <4>3, <5>1
      <4>4. CASE j = b + 1
        <5>1. a - b + j = a + 1
          BY <4>1, <4>4
        <5> QED
          BY <2>2, <2>3, <4>1, <4>2, <4>4, <5>1
      <4> QED
        BY <2>2, <4>1, <4>3, <4>4
    <3> QED
      BY <2>1, <2>2, <2>3, <2>6, <3>1 DEF QueueInv
  <2>8. WireInOrder'
    <3>1. /\ InOrder(wire, accepted) /\ Missing(wire, writeQueue, accepted, writeOffset)
          /\ writeOffset \in Nat /\ writeOffset < MessageSize /\ MessageSize \in Nat
          /\ ~(Len(writeQueue) = 0)
      BY <1>3, <2>1, WireParts, EmptyIffLenZero, ConstantsAssumption DEF IInv, TypeOK
    <3>2. InOrder(wire, Append(accepted, m))
      BY <1>0, <2>1, <3>1, AcceptMore
    <3>3. Missing(wire, writeQueue', accepted', writeOffset)
      BY <2>1, <2>2, <2>3, <3>1, QueueMore
    <3>4. InOrder(wire', accepted') /\ Missing(wire', writeQueue', accepted', writeOffset')
      BY <1>3, <3>2, <3>3
    <3> QED
      BY <3>4 DEF WireInOrder, InOrder, Missing
  <2> QED
    BY <1>1, <2>4, <2>5, <2>7, <2>8 DEF IInv
<1>4. ASSUME NEW n \in 0..MessageSize,
             ~isDead, writeQueue = <<>>, WriteFront(<<m>>, n),
             writeArmed' = (writeArmed \/ (NeedsWait(<<m>>, n) /\ onIO)),
             posted' = IF NeedsWait(<<m>>, n) /\ ~onIO
                       THEN Append(posted, "WaitToWrite") ELSE posted,
             accepted' = Append(accepted, m),
             isDead' = isDead
      PROVE  IInv'
  <2>0. /\ writeQueue = <<>> /\ ~isDead /\ writeOffset = 0 /\ ~writeArmed /\ posted = <<>>
        /\ accepted \in Seq(Nat) /\ Len(accepted) \in Nat /\ Len(wire) \in Nat
        /\ wire \in Seq(Nat \X (1..MessageSize))
        /\ Len(writeQueue) = 0 /\ MessageSize \in Nat /\ MessageSize > 0
    BY <1>4, ConstantsAssumption DEF IInv, TypeOK, QueueInv, OneWaiterForPendingWrites
  <2>1. /\ accepted' \in Seq(Nat)
        /\ Len(accepted') = Len(accepted) + 1
        /\ accepted'[Len(accepted) + 1] = m
    BY <1>0, <1>4, <2>0, AppendProperties
  <2>2. /\ <<m>> \in Seq(Nat) /\ <<m>> # <<>> /\ Len(<<m>>) = 1
        /\ \A j \in 1..1 : <<m>>[j] = accepted'[Len(accepted') - 1 + j]
    BY <1>0, <2>0, <2>1
  <2>3. /\ InOrder(wire, accepted) /\ Missing(wire, writeQueue, accepted, writeOffset)
    BY <2>0, WireParts DEF IInv
  <2>4. InOrder(wire, accepted')
    <3>1. writeOffset \in Nat /\ writeOffset < MessageSize /\ Len(writeQueue) \in Nat
      BY <2>0
    <3>2. InOrder(wire, Append(accepted, m))
      BY <1>0, <2>0, <2>3, <3>1, AcceptMore
    <3> QED
      BY <1>4, <3>2
  <2>5. Missing(wire, <<m>>, accepted', writeOffset)
    <3>1. /\ writeOffset \in Nat /\ Len(writeQueue) \in Nat
          /\ Len(<<m>>) = Len(writeQueue) + 1
      BY <2>0, <2>2
    <3> HIDE DEF m
    <3> QED
      BY <2>0, <2>1, <2>3, <3>1, QueueMore
  <2>6. /\ wire' \in Seq(Nat \X (1..MessageSize))
        /\ InOrder(wire', accepted')
        /\ writeQueue' \in Seq(Nat)
        /\ writeOffset' \in 0..(MessageSize - 1)
        /\ Missing(wire', writeQueue', accepted', writeOffset')
        /\ Len(writeQueue') <= Len(accepted')
        /\ \A j \in 1..Len(writeQueue') :
             writeQueue'[j] = accepted'[Len(accepted') - Len(writeQueue') + j]
        /\ writeQueue' = <<>> => writeOffset' = 0
        /\ writeQueue' # <<>> <=> NeedsWait(<<m>>, n)
    <3>1. /\ Len(<<m>>) <= Len(accepted')
          /\ \A j \in 1..Len(<<m>>) : <<m>>[j] = accepted'[Len(accepted') - Len(<<m>>) + j]
          /\ writeOffset \in 0..(MessageSize - 1) /\ writeOffset + n <= MessageSize
      BY <2>0, <2>1, <2>2
    <3> HIDE DEF m
    <3> QED
      BY <1>4, <2>0, <2>1, <2>2, <2>4, <2>5, <3>1, WriteFrontFacts
  <2> HIDE DEF m
  <2>7. /\ posted' = IF NeedsWait(<<m>>, n) /\ ~onIO THEN <<"WaitToWrite">> ELSE <<>>
        /\ writeArmed' <=> NeedsWait(<<m>>, n) /\ onIO
        /\ writeArmed' \in BOOLEAN
    <3>1. Append(<<>>, "WaitToWrite") = <<"WaitToWrite">>
      OBVIOUS
    <3>2. posted' = IF NeedsWait(<<m>>, n) /\ ~onIO THEN <<"WaitToWrite">> ELSE <<>>
      BY <1>4, <2>0, <3>1, Zenon
    <3> QED
      BY <1>4, <2>0, <3>2, Zenon
  <2>8. OneWaiterForPendingWrites'
    <3>1. CASE NeedsWait(<<m>>, n)
      BY <2>6, <2>7, <3>1 DEF OneWaiterForPendingWrites
    <3>2. CASE ~NeedsWait(<<m>>, n)
      BY <2>6, <2>7, <3>2 DEF OneWaiterForPendingWrites
    <3> QED
      BY <3>1, <3>2
  <2>9. TypeOK'
    <3>1. <<>> \in Seq({"WaitToWrite", "CallOnFatalError"})
          /\ <<"WaitToWrite">> \in Seq({"WaitToWrite", "CallOnFatalError"})
      OBVIOUS
    <3>2. posted' \in Seq({"WaitToWrite", "CallOnFatalError"})
      BY <2>7, <3>1, Zenon
    <3> QED
      BY <1>0, <1>4, <2>1, <2>6, <2>7, <3>2 DEF IInv, TypeOK
  <2>10. QueueInv' /\ WireInOrder'
    BY <2>6 DEF QueueInv, WireInOrder, InOrder, Missing
  <2> QED
    BY <1>1, <2>8, <2>9, <2>10 DEF IInv
<1>5. CASE /\ ~isDead
           /\ CancelPendingWrites
           /\ posted' = Append(posted, "CallOnFatalError")
           /\ UNCHANGED <<writeOffset, writeArmed, accepted, wire>>
  <2>1. TypeOK'
    BY <1>0, <1>5 DEF IInv, TypeOK, CancelPendingWrites
  <2>2. isDead'
    BY <1>5 DEF CancelPendingWrites
  <2>3. OneWaiterForPendingWrites' /\ QueueInv'
    BY <2>2 DEF OneWaiterForPendingWrites, QueueInv
  <2>4. WireInOrder'
    BY <1>5, <2>2 DEF IInv, WireInOrder
  <2> QED
    BY <1>1, <2>1, <2>3, <2>4 DEF IInv
<1> QED
  BY <1>2, <1>3, <1>4, <1>5 DEF WriteMessage, RefusesWrites

\* A task of the I/O thread: while the channel is alive it can only be the one that sets
\* up the watcher.
LEMMA RunTaskStep ==
    ASSUME IInv, RunTask
    PROVE  IInv'
<1>0. /\ isDead' = isDead /\ writeQueue' = writeQueue /\ writeOffset' = writeOffset
      /\ calls' = calls /\ accepted' = accepted /\ wire' = wire /\ failed' = failed
      /\ readArmed' = readArmed /\ sentToUs' = sentToUs /\ unread' = unread
      /\ valid' = valid /\ dispatched' = dispatched /\ inRead' = inRead
  BY DEF RunTask, readVars
<1>1. posted # <<>> /\ posted' = Tail(posted)
  BY DEF RunTask
<1>2. TypeOK'
  <2>1. posted' \in Seq({"WaitToWrite", "CallOnFatalError"})
    BY <1>1, QueueFacts DEF IInv, TypeOK
  <2>2. writeArmed' \in BOOLEAN /\ errors' \subseteq {"FAILED_READ", "FAILED_WRITE"}
    BY DEF RunTask, IInv, TypeOK
  <2> QED
    BY <1>0, <2>1, <2>2 DEF IInv, TypeOK
<1>3. OneWaiterForPendingWrites'
  <2>1. SUFFICES ASSUME ~isDead PROVE OneWaiterForPendingWrites'
    BY <1>0 DEF OneWaiterForPendingWrites
  <2>2. posted = <<"WaitToWrite">> /\ writeQueue # <<>>
    BY <1>1, <2>1 DEF IInv, OneWaiterForPendingWrites
  <2>3. posted' = <<>> /\ Head(posted) = "WaitToWrite"
    BY <1>1, <2>2
  <2>4. writeArmed' = TRUE
    BY <2>3 DEF RunTask
  <2> QED
    BY <1>0, <2>2, <2>3, <2>4 DEF OneWaiterForPendingWrites
<1>4. QueueInv' /\ WireInOrder'
  BY <1>0 DEF IInv, QueueInv, WireInOrder
<1>5. ReadInv'
  BY <1>0 DEF IInv, ReadInv, ReadsWholeMessages
<1> QED
  BY <1>2, <1>3, <1>4, <1>5 DEF IInv

\* The I/O thread goes on with the front of the queue, which is not empty.
LEMMA OnFileCanWriteStep ==
    ASSUME IInv, NEW n \in 0..MessageSize, OnFileCanWrite(n)
    PROVE  IInv'
<1>0. /\ isDead' = isDead /\ posted' = posted /\ calls' = calls /\ accepted' = accepted
      /\ errors' = errors /\ failed' = failed
      /\ readArmed' = readArmed /\ sentToUs' = sentToUs /\ unread' = unread
      /\ valid' = valid /\ dispatched' = dispatched /\ inRead' = inRead
  BY DEF OnFileCanWrite, readVars
<1>1. /\ writeArmed /\ ~isDead /\ n <= MessageSize - writeOffset
      /\ WriteFront(writeQueue, n) /\ writeArmed' = NeedsWait(writeQueue, n)
  BY DEF OnFileCanWrite
<1>2. /\ writeQueue # <<>> /\ posted = <<>>
      /\ Len(writeQueue) <= Len(accepted)
      /\ \A j \in 1..Len(writeQueue) :
            writeQueue[j] = accepted[Len(accepted) - Len(writeQueue) + j]
  BY <1>1 DEF IInv, OneWaiterForPendingWrites, QueueInv
<1>3. /\ writeQueue \in Seq(Nat) /\ accepted \in Seq(Nat)
      /\ wire \in Seq(Nat \X (1..MessageSize))
      /\ writeOffset \in 0..(MessageSize - 1)
      /\ writeOffset + n <= MessageSize
  BY <1>1, ConstantsAssumption DEF IInv, TypeOK
<1>4. InOrder(wire, accepted) /\ Missing(wire, writeQueue, accepted, writeOffset)
  BY <1>1, WireParts DEF IInv
<1>5. /\ wire' \in Seq(Nat \X (1..MessageSize))
      /\ InOrder(wire', accepted)
      /\ writeQueue' \in Seq(Nat)
      /\ writeOffset' \in 0..(MessageSize - 1)
      /\ Missing(wire', writeQueue', accepted, writeOffset')
      /\ Len(writeQueue') <= Len(accepted)
      /\ \A j \in 1..Len(writeQueue') :
           writeQueue'[j] = accepted[Len(accepted) - Len(writeQueue') + j]
      /\ writeQueue' = <<>> => writeOffset' = 0
      /\ writeQueue' # <<>> <=> NeedsWait(writeQueue, n)
  BY <1>1, <1>2, <1>3, <1>4, WriteFrontFacts
<1>6. writeArmed' \in BOOLEAN
  BY <1>1 DEF NeedsWait
<1>7. TypeOK'
  BY <1>0, <1>5, <1>6 DEF IInv, TypeOK
<1>8. OneWaiterForPendingWrites'
  BY <1>0, <1>1, <1>2, <1>5 DEF OneWaiterForPendingWrites
<1>9. QueueInv' /\ WireInOrder'
  BY <1>0, <1>5 DEF QueueInv, WireInOrder, InOrder, Missing
<1>10. ReadInv'
  BY <1>0 DEF IInv, ReadInv, ReadsWholeMessages
<1> QED
  BY <1>7, <1>8, <1>9, <1>10 DEF IInv

\* A channel that dies, or is dead, promises nothing of its queue any more; what is on
\* the wire stays.
LEMMA DeadKeeps ==
    ASSUME IInv, isDead', wire' = wire, accepted' = accepted
    PROVE  OneWaiterForPendingWrites' /\ QueueInv' /\ WireInOrder'
  BY DEF IInv, OneWaiterForPendingWrites, QueueInv, WireInOrder

\* A failed write or read cancels the queue.
LEMMA ErrorStep ==
    ASSUME IInv, OnFileCanWriteError \/ OnFileCanReadError
    PROVE  IInv'
<1>1. /\ isDead' = TRUE /\ writeQueue' = <<>> /\ wire' = wire /\ accepted' = accepted
      /\ writeOffset' = writeOffset /\ posted' = posted /\ calls' = calls
      /\ readArmed' = readArmed /\ sentToUs' = sentToUs /\ unread' = unread
      /\ valid' = valid /\ dispatched' = dispatched /\ failed' = failed
  BY DEF OnFileCanWriteError, OnFileCanReadError, CancelPendingWrites, readVars
<1>2. /\ writeArmed' \in BOOLEAN /\ inRead' \in BOOLEAN
      /\ errors' \subseteq {"FAILED_READ", "FAILED_WRITE"}
  BY DEF OnFileCanWriteError, OnFileCanReadError, readVars, IInv, TypeOK
<1>3. TypeOK'
  BY <1>1, <1>2 DEF IInv, TypeOK
<1>4. OneWaiterForPendingWrites' /\ QueueInv' /\ WireInOrder'
  BY <1>1, DeadKeeps
<1>5. ReadInv'
  BY <1>1 DEF IInv, ReadInv, ReadsWholeMessages
<1> QED
  BY <1>3, <1>4, <1>5 DEF IInv

\* A failed DCHECK ends the behaviour and changes nothing else.
LEMMA DCheckStep ==
    ASSUME IInv, OnFileCanWriteDead \/ OnFileCanReadErrorDead
    PROVE  IInv'
<1>1. /\ UNCHANGED <<writeVars, readVars, errors>>
      /\ failed' \in {"OnFileCanWriteWithoutBlocking", "CancelPendingWritesNoLock"}
  BY DEF OnFileCanWriteDead, OnFileCanReadErrorDead
<1> USE <1>1 DEF writeVars, readVars
<1>2. TypeOK'
  BY DEF IInv, TypeOK
<1>3. OneWaiterForPendingWrites' /\ QueueInv' /\ WireInOrder'
  BY DEF IInv, OneWaiterForPendingWrites, QueueInv, WireInOrder
<1>4. ReadInv'
  BY DEF IInv, ReadInv, ReadsWholeMessages
<1> QED
  BY <1>2, <1>3, <1>4 DEF IInv

\* The messages dispatched are some of those that are sent to us.
LEMMA ReadFacts ==
    ASSUME IInv
    PROVE  /\ Len(ReadSizes) \in Nat /\ dispatched \in 0..Len(ReadSizes)
           /\ EndOf[dispatched] \in Nat
<1>1. Len(ReadSizes) \in Nat
  BY ConstantsAssumption
<1>2. dispatched \in 0..Len(ReadSizes)
  BY <1>1 DEF IInv, TypeOK, ReadInv
<1> QED
  BY <1>1, <1>2, EndOfDef

\* The other side sends.
LEMMA ReceiveStep ==
    ASSUME IInv, Receive
    PROVE  IInv'
<1>1. /\ UNCHANGED <<writeVars, readArmed, valid, dispatched, inRead, errors, failed>>
      /\ sentToUs' = sentToUs + 1 /\ unread' = unread + 1
  BY DEF Receive
<1> USE <1>1 DEF writeVars
<1>2. TypeOK'
  BY DEF IInv, TypeOK
<1>3. OneWaiterForPendingWrites' /\ QueueInv' /\ WireInOrder'
  BY DEF IInv, OneWaiterForPendingWrites, QueueInv, WireInOrder
<1>4. ReadInv'
  <2>1. EndOf[dispatched] \in Nat
    BY ReadFacts
  <2> QED
    BY <2>1, SMTT(30) DEF IInv, TypeOK, ReadInv, ReadsWholeMessages
<1> QED
  BY <1>2, <1>3, <1>4 DEF IInv

\* The message after the m-th ends its size later.
LEMMA NextEnd ==
    ASSUME NEW m \in 0..Len(ReadSizes), m < Len(ReadSizes)
    PROVE  /\ EndOf[m + 1] \in Nat /\ ReadSizes[m + 1] \in Nat
           /\ EndOf[m + 1] = EndOf[m] + ReadSizes[m + 1]
<1> DEFINE L == Len(ReadSizes)
<1>1. L \in Nat
  BY ConstantsAssumption
<1> HIDE DEF L
<1>2. m + 1 \in 1..L /\ m + 1 \in 0..L /\ (m + 1) - 1 = m
  BY <1>1 DEF L
<1>3. ReadSizes[m + 1] \in Nat
  BY <1>2, ConstantsAssumption DEF L
<1>4. EndOf[m + 1] \in Nat
  BY <1>2, EndOfDef DEF L
<1>5. EndOf[m + 1] = EndOf[(m + 1) - 1] + ReadSizes[m + 1]
  BY <1>2, EndOfDef DEF L
<1> QED
  BY <1>2, <1>3, <1>4, <1>5

\* What is left of v units of which those from d to e, no more than v, are consumed.
LEMMA RestOfUnits ==
    ASSUME NEW d \in Nat, NEW e \in Nat, NEW v \in Nat, e = d \/ e - d <= v
    PROVE  /\ v - (e - d) \in Nat
           /\ \A s \in Nat : (e + s) - d > v => v - (e - d) < s
OBVIOUS

\* The read callback dispatches every whole message and keeps what follows.
LEMMA OnFileCanReadStep ==
    ASSUME IInv, NEW n \in 0..MaxRead, OnFileCanRead(n)
    PROVE  IInv'
<1> DEFINE last == DispatchedAfter(valid + n)
           L == Len(ReadSizes)
<1>0. /\ UNCHANGED <<writeVars, readArmed, sentToUs, errors, failed>>
      /\ dispatched' = last
      /\ valid' = valid + n - (EndOf[last] - EndOf[dispatched])
      /\ inRead' \in BOOLEAN
      /\ readArmed /\ unread' = unread - n
      /\ n = IF unread < MaxRead THEN unread ELSE MaxRead
  BY DEF OnFileCanRead, Read
<1>1. /\ L \in Nat /\ dispatched \in 0..L /\ EndOf[dispatched] \in Nat
      /\ valid \in Nat /\ unread \in Nat /\ n \in Nat /\ sentToUs \in Nat
      /\ unread - n \in Nat /\ valid + n \in Nat
  BY <1>0, ReadFacts, ConstantsAssumption DEF IInv, TypeOK
<1>2. /\ last \in dispatched..L
      /\ last = dispatched \/ EndOf[last] - EndOf[dispatched] <= valid + n
      /\ last < L => EndOf[last + 1] - EndOf[dispatched] > valid + n
  BY <1>1, DispatchedAfterFacts
<1> HIDE DEF last
<1>3. /\ last \in 0..L /\ EndOf[last] \in Nat
      /\ last < L => /\ EndOf[last + 1] \in Nat /\ ReadSizes[last + 1] \in Nat
                     /\ EndOf[last + 1] = EndOf[last] + ReadSizes[last + 1]
  <2>1. last \in 0..L
    BY <1>1, <1>2
  <2> QED
    BY <2>1, NextEnd, EndOfDef
<1>4. valid' \in Nat /\ (last < L => valid' < ReadSizes[last + 1])
  <2>1. EndOf[last] = EndOf[dispatched] \/ EndOf[last] - EndOf[dispatched] <= valid + n
    BY <1>2
  <2>2. valid' = valid + (n - (EndOf[last] - EndOf[dispatched]))
    BY DEF OnFileCanRead, last
  <2>3. EndOf[last] \in Nat /\ EndOf[dispatched] \in Nat /\ valid + n \in Nat
    BY <1>1, <1>3
  <2>4. /\ valid' \in Nat
        /\ \A s \in Nat : (EndOf[last] + s) - EndOf[dispatched] > valid + n => valid' < s
    <3>1. valid' = (valid + n) - (EndOf[last] - EndOf[dispatched])
      BY <1>1, <2>2, <2>3
    <3> HIDE DEF L
    <3> QED
      BY ONLY <2>1, <3>1, <2>3, RestOfUnits
  <2>5. ASSUME last < L
        PROVE  /\ ReadSizes[last + 1] \in Nat
               /\ (EndOf[last] + ReadSizes[last + 1]) - EndOf[dispatched] > valid + n
    BY <1>2, <1>3, <2>5
  <2> QED
    BY <2>4, <2>5
<1>5. EndOf[last] + valid' + unread' = sentToUs
  <2>1. EndOf[dispatched] + valid + unread = sentToUs
    BY <1>0 DEF IInv, ReadInv, ReadsWholeMessages
  <2>2. valid' = valid + (n - (EndOf[last] - EndOf[dispatched])) /\ unread' = unread - n
    BY DEF OnFileCanRead, Read, last
  <2>3. /\ EndOf[last] \in Nat /\ EndOf[dispatched] \in Nat /\ valid \in Nat
        /\ unread \in Nat /\ n \in Nat
    BY <1>1, <1>3
  <2>4. \A e, d, v, u, m \in Nat :
            e + (v + (m - (e - d))) + (u - m) = d + v + u
    OBVIOUS
  <2>5. EndOf[last] + (valid + (n - (EndOf[last] - EndOf[dispatched]))) + (unread - n)
          = EndOf[dispatched] + valid + unread
    BY <2>3, <2>4
  <2> QED
    BY <2>1, <2>2, <2>5
<1>6. TypeOK'
  <2>1. unread' \in Nat /\ valid' \in Nat /\ dispatched' \in Nat /\ sentToUs' \in Nat
    BY <1>0, <1>1, <1>3, <1>4
  <2>2. /\ UNCHANGED <<isDead, writeQueue, writeOffset, posted, writeArmed, calls, accepted,
                      wire, readArmed, errors, failed>>
        /\ inRead' \in BOOLEAN
    BY <1>0 DEF writeVars
  <2> QED
    BY <2>1, <2>2 DEF IInv, TypeOK
<1>7. OneWaiterForPendingWrites' /\ QueueInv' /\ WireInOrder'
  <2>1. UNCHANGED <<isDead, writeQueue, writeOffset, posted, writeArmed, accepted, wire>>
    BY <1>0 DEF writeVars
  <2> QED
    BY <2>1 DEF IInv, OneWaiterForPendingWrites, QueueInv, WireInOrder
<1>8. ReadInv'
  BY <1>0, <1>1, <1>3, <1>4, <1>5 DEF ReadInv, ReadsWholeMessages
<1> QED
  BY <1>6, <1>7, <1>8 DEF IInv

\* Shutdown ends reading and writing.
LEMMA ShutdownStep ==
    ASSUME IInv, Shutdown
    PROVE  IInv'
<1>1. /\ isDead' = TRUE /\ posted' = <<>> /\ writeArmed' = FALSE /\ readArmed' = FALSE
      /\ writeOffset' = writeOffset /\ calls' = calls /\ accepted' = accepted
      /\ wire' = wire
      /\ UNCHANGED <<sentToUs, unread, valid, dispatched, inRead, errors, failed>>
      /\ writeQueue' \in Seq(Nat)
  BY DEF Shutdown, ShutdownWrites, IInv, TypeOK
<1>2. TypeOK'
  <2>1. posted' \in Seq({"WaitToWrite", "CallOnFatalError"})
    BY <1>1
  <2> QED
    BY <1>1, <2>1 DEF IInv, TypeOK
<1>3. OneWaiterForPendingWrites' /\ QueueInv' /\ WireInOrder'
  BY <1>1, DeadKeeps
<1>4. ReadInv'
  BY <1>1 DEF IInv, ReadInv, ReadsWholeMessages
<1> QED
  BY <1>2, <1>3, <1>4 DEF IInv

\* OnReadMessage shuts the channel down on a message of the buffer.
LEMMA ShutdownInOnReadMessageStep ==
    ASSUME IInv, NEW n \in 0..MaxRead, NEW k \in 1..Len(ReadSizes),
           ShutdownInOnReadMessage(n, k)
    PROVE  IInv'
<1> DEFINE last == DispatchedAfter(valid + n)
           L == Len(ReadSizes)
<1>0. /\ k \in (dispatched + 1)..last
      /\ dispatched' = k
      /\ valid' = valid + n - (EndOf[k - 1] - EndOf[dispatched])
      /\ inRead' = FALSE
      /\ unread' = unread - n
      /\ n = IF unread < MaxRead THEN unread ELSE MaxRead
      /\ UNCHANGED <<sentToUs, errors, failed>>
  BY DEF ShutdownInOnReadMessage, Read
<1>1. /\ isDead' = TRUE /\ posted' = <<>> /\ writeArmed' = FALSE /\ readArmed' = FALSE
      /\ writeOffset' = writeOffset /\ calls' = calls /\ accepted' = accepted
      /\ wire' = wire
      /\ writeQueue' \in Seq(Nat)
  BY DEF ShutdownInOnReadMessage, ShutdownWrites, IInv, TypeOK
<1>2. /\ L \in Nat /\ dispatched \in 0..L /\ EndOf[dispatched] \in Nat
      /\ valid \in Nat /\ unread \in Nat /\ n \in Nat
      /\ unread - n \in Nat /\ valid + n \in Nat
  BY <1>0, ReadFacts, ConstantsAssumption DEF IInv, TypeOK
<1>3. /\ last \in dispatched..L
      /\ last = dispatched \/ EndOf[last] - EndOf[dispatched] <= valid + n
  BY <1>2, DispatchedAfterFacts
<1> HIDE DEF last
<1>4. valid' \in Nat
  <2>1. k - 1 \in 0..L /\ last \in 0..L /\ k - 1 <= last /\ last # dispatched
    BY <1>0, <1>2, <1>3
  <2>2. EndOf[k - 1] <= EndOf[last] /\ EndOf[k - 1] \in Nat /\ EndOf[last] \in Nat
    BY <2>1, EndOfGrows, EndOfDef
  <2>3. EndOf[last] - EndOf[dispatched] <= valid + n
    BY <1>3, <2>1
  <2>4. EndOf[k - 1] - EndOf[dispatched] <= valid + n
    BY <1>2, <2>2, <2>3
  <2>5. valid' = valid + (n - (EndOf[k - 1] - EndOf[dispatched]))
    BY DEF ShutdownInOnReadMessage
  <2>6. EndOf[k - 1] \in Nat /\ EndOf[dispatched] \in Nat /\ valid + n \in Nat
    BY <1>2, <2>2
  <2>7. valid' = (valid + n) - (EndOf[k - 1] - EndOf[dispatched])
    BY <1>2, <2>5, <2>6
  <2> QED
    BY ONLY <2>4, <2>6, <2>7, RestOfUnits
<1>5. TypeOK'
  <2>1. unread' \in Nat /\ valid' \in Nat /\ dispatched' \in Nat
    BY <1>0, <1>2, <1>4
  <2>2. /\ UNCHANGED <<writeOffset, calls, accepted, wire, sentToUs, errors, failed>>
        /\ isDead' \in BOOLEAN /\ writeArmed' \in BOOLEAN /\ readArmed' \in BOOLEAN
        /\ inRead' \in BOOLEAN /\ posted' = <<>> /\ writeQueue' \in Seq(Nat)
    BY <1>0, <1>1
  <2> QED
    BY <2>1, <2>2 DEF IInv, TypeOK
<1>6. OneWaiterForPendingWrites' /\ QueueInv' /\ WireInOrder'
  BY <1>1, DeadKeeps
<1>7. ReadInv'
  BY <1>0, <1>1, <1>2 DEF ReadInv, ReadsWholeMessages
<1> QED
  BY <1>5, <1>6, <1>7 DEF IInv

-----------------------------------------------------------------------------
(* The theorems *)

\* The invariant is inductive: it holds initially, and every task and call keeps it.
THEOREM InductiveInvariant == Spec => []IInv
<1>1. Init => IInv
  BY InitIInv
<1>2. IInv /\ [Next]_vars => IInv'
  <2> SUFFICES ASSUME IInv, [Next]_vars PROVE IInv'
    OBVIOUS
  <2>1. CASE UNCHANGED vars
    <3> USE <2>1 DEF vars, writeVars, readVars
    <3>1. TypeOK'
      BY DEF IInv, TypeOK
    <3>2. OneWaiterForPendingWrites' /\ QueueInv' /\ WireInOrder'
      BY DEF IInv, OneWaiterForPendingWrites, QueueInv, WireInOrder
    <3>3. ReadInv'
      BY DEF IInv, ReadInv, ReadsWholeMessages
    <3> QED
      BY <3>1, <3>2, <3>3 DEF IInv
  <2>2. CASE Next
    BY <2>2, WriteMessageStep, RunTaskStep, OnFileCanWriteStep, ErrorStep, DCheckStep,
       ReceiveStep, OnFileCanReadStep, ShutdownStep, ShutdownInOnReadMessageStep
       DEF Next, IoWrite, IoRead
  <2> QED
    BY <2>1, <2>2
<1> QED
  BY <1>1, <1>2, PTL DEF Spec

\* While the channel is alive, one watcher or one posted task waits for the socket exactly
\* when messages are queued, whichever threads call WriteMessage and whatever write() takes.
THEOREM OneWaiter == Spec => []OneWaiterForPendingWrites
<1>1. IInv => OneWaiterForPendingWrites
  BY DEF IInv
<1> QED
  BY <1>1, InductiveInvariant, PTL

\* Messages leave and arrive whole and in order, for every message size, every split of the
\* data over write() and read() calls, and every sequence of message sizes to read.
THEOREM StreamsAreIntact == Spec => []StreamsIntact
<1>1. IInv => StreamsIntact
  BY DEF IInv, ReadInv, StreamsIntact
<1> QED
  BY <1>1, InductiveInvariant, PTL
=============================================================================
