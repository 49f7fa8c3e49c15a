--------------------------- MODULE CommonLemmas ---------------------------
(***************************************************************************)
(* Facts about numbers, sequences and finite sets that the proofs of more  *)
(* than one component rest on.                                             *)
(***************************************************************************)
EXTENDS Integers, Sequences, FiniteSets, SequenceTheorems, FiniteSetTheorems,
        WellFoundedInduction, TLAPS

-----------------------------------------------------------------------------
(* Numbers and sequences of numbers *)

\* The numbers after a up to b, in order: what a first-in first-out queue holds.
UpTo(a, b) == [k \in 1..(b - a) |-> a + k]

\* It is a sequence of b - a numbers.
LEMMA UpToIsSeq ==
    ASSUME NEW a \in Nat, NEW b \in Nat, a <= b
    PROVE  UpTo(a, b) \in Seq(Nat) /\ Len(UpTo(a, b)) = b - a
<1>1. UpTo(a, b) \in [1..(b - a) -> Nat] /\ b - a \in Nat
  BY DEF UpTo
<1> QED
  BY <1>1, SeqDef

\* Writing the next message.
LEMMA AppendUpTo ==
    ASSUME NEW a \in Nat, NEW b \in Nat, a <= b
    PROVE  Append(UpTo(a, b), b + 1) = UpTo(a, b + 1)
<1> DEFINE q == UpTo(a, b)
           s == Append(q, b + 1)
           r == UpTo(a, b + 1)
<1>1. q \in Seq(Nat) /\ Len(q) = b - a
  BY UpToIsSeq
<1>2. r \in Seq(Nat) /\ Len(r) = b + 1 - a
  BY UpToIsSeq
<1>3. /\ s \in Seq(Nat) /\ Len(s) = b + 1 - a
      /\ \A i \in 1..(b - a) : s[i] = q[i]
      /\ s[b + 1 - a] = b + 1
  <2> HIDE DEF q
  <2> QED BY <1>1, AppendProperties
<1>4. ASSUME NEW i \in 1..(b + 1 - a) PROVE s[i] = r[i]
  <2>1. r[i] = a + i
    BY DEF UpTo
  <2>2. CASE i \in 1..(b - a)
    <3>1. q[i] = a + i
      BY <2>2 DEF UpTo
    <3> HIDE DEF s, r, q
    <3> QED BY <1>3, <2>1, <2>2, <3>1
  <2>3. CASE i = b + 1 - a
    <3> HIDE DEF s, r, q
    <3> QED BY <1>3, <2>1, <2>3
  <2>4. i \in 1..(b - a) \/ i = b + 1 - a
    OBVIOUS
  <2> HIDE DEF s, r
  <2> QED
    BY <2>2, <2>3, <2>4
<1> HIDE DEF s, r
<1> QED
  BY <1>2, <1>3, <1>4, SeqEqual DEF s, r

\* Reading the first message.
LEMMA TailUpTo ==
    ASSUME NEW a \in Nat, NEW b \in Nat, a <= b, UpTo(a, b) # <<>>
    PROVE  a < b /\ Tail(UpTo(a, b)) = UpTo(a + 1, b)
<1> DEFINE q == UpTo(a, b)
           s == Tail(q)
           r == UpTo(a + 1, b)
<1>1. q \in Seq(Nat) /\ Len(q) = b - a /\ q # <<>>
  BY UpToIsSeq
<1>2. a < b
  BY <1>1, EmptySeq
<1>3. /\ s \in Seq(Nat) /\ Len(s) = b - a - 1
      /\ \A i \in 1..(b - a - 1) : s[i] = q[i + 1]
  BY <1>1, HeadTailProperties
<1>4. r \in Seq(Nat) /\ Len(r) = b - a - 1
  <2>1. a + 1 \in Nat /\ a + 1 <= b /\ b - (a + 1) = b - a - 1
    BY <1>2
  <2> QED
    BY <2>1, UpToIsSeq
<1>5. ASSUME NEW i \in 1..(b - a - 1) PROVE s[i] = r[i]
  BY <1>3, <1>2 DEF UpTo
<1> HIDE DEF s, r
<1> QED
  BY <1>2, <1>3, <1>4, <1>5, SeqEqual DEF s, r

\* A set of natural numbers that is not empty has a least element.
LEMMA LeastOf ==
    ASSUME NEW W \in SUBSET Nat, W # {}
    PROVE  \E x \in W : \A y \in W : x <= y
<1> DEFINE R == {ss \in Nat \X Nat : ss[1] < ss[2]}
<1>1. IsWellFoundedOn(R, Nat)
  BY NatLessThanWellFounded DEF OpToRel
<1>2. PICK x \in W : \A y \in W : <<y, x>> \notin R
  <2> HIDE DEF R
  <2> QED BY <1>1, WFMin
<1>3. ASSUME NEW y \in W PROVE x <= y
  <2>1. x \in Nat /\ y \in Nat
    OBVIOUS
  <2>2. ~(y < x)
    BY <1>2, <2>1
  <2> QED BY <2>1, <2>2
<1> QED
  BY <1>3

\* A set of natural numbers that is not empty and is bounded has a greatest element.
LEMMA GreatestOf ==
    ASSUME NEW N \in Nat, NEW W \in SUBSET (0..N), W # {}
    PROVE  \E x \in W : \A y \in W : y <= x
<1> DEFINE V == {N - x : x \in W}
<1>1. V \in SUBSET Nat /\ V # {}
  <2>1. \A x \in W : N - x \in Nat
    OBVIOUS
  <2>2. PICK x \in W : TRUE
    OBVIOUS
  <2> QED
    BY <2>1, <2>2
<1>2. PICK v \in V : \A y \in V : v <= y
  <2> HIDE DEF V
  <2> QED BY <1>1, LeastOf
<1>3. PICK x \in W : v = N - x
  BY <1>2
<1>4. ASSUME NEW y \in W PROVE y <= x
  <2>1. N - y \in V
    OBVIOUS
  <2>2. v <= N - y
    BY <1>2, <2>1
  <2> QED
    BY <1>3, <2>2
<1> QED
  BY <1>4

\* Division by S of a number that is given as a multiple of S and a rest.
LEMMA DivMod ==
    ASSUME NEW S \in Nat, S > 0, NEW K \in Nat, NEW r \in Nat, r < S
    PROVE  (K * S + r) \div S = K /\ (K * S + r) % S = r
<1> DEFINE x == K * S + r
           q == x \div S
           m == x % S
<1>1. x \in Nat
  OBVIOUS
<1>2. q \in Int /\ m \in 0..(S - 1) /\ x = S * q + m
  BY <1>1
<1> QED
  BY <1>2

\* A number below K times S has a quotient below K.
LEMMA DivBound ==
    ASSUME NEW S \in Nat, S > 0, NEW K \in Nat, NEW x \in Nat, x < K * S
    PROVE  x \div S \in Nat /\ x \div S < K
<1> DEFINE q == x \div S
           m == x % S
<1>1. q \in Int /\ m \in 0..(S - 1) /\ x = S * q + m
  OBVIOUS
<1> QED
  BY <1>1

\* Only the empty sequence has length 0.
LEMMA EmptyIffLenZero ==
    ASSUME NEW S, NEW s \in Seq(S)
    PROVE  s = <<>> <=> Len(s) = 0
<1>1. s # <<>> => Len(s) \in Nat \ {0}
  BY EmptySeq
<1>2. Len(<<>>) = 0
  BY EmptySeq
<1> QED
  BY <1>1, <1>2

\* Head and Tail of a queue that is not empty.
LEMMA QueueFacts ==
    ASSUME NEW S, NEW q \in Seq(S), q # <<>>
    PROVE  /\ Len(q) \in Nat /\ Len(q) >= 1
           /\ Head(q) = q[1] /\ Head(q) \in S
           /\ Tail(q) \in Seq(S) /\ Len(Tail(q)) = Len(q) - 1
           /\ \A j \in 1..(Len(q) - 1) : Tail(q)[j] = q[j + 1]
           /\ Tail(q) # <<>> <=> Len(q) > 1
<1>1. Len(q) \in Nat /\ Len(q) >= 1
  BY EmptySeq
<1>2. Head(q) = q[1] /\ Head(q) \in S
  BY HeadTailProperties
<1>3. /\ Tail(q) \in Seq(S) /\ Len(Tail(q)) = Len(q) - 1
      /\ \A j \in 1..(Len(q) - 1) : Tail(q)[j] = q[j + 1]
  BY HeadTailProperties
<1>4. Tail(q) = <<>> <=> Len(Tail(q)) = 0
  BY <1>3, EmptyIffLenZero
<1>5. Len(Tail(q)) = 0 <=> ~(Len(q) > 1)
  <2> HIDE <1>4
  <2> QED BY <1>1, <1>3
<1> QED
  BY <1>1, <1>2, <1>3, <1>4, <1>5
=============================================================================
