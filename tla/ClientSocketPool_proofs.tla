---------------------- MODULE ClientSocketPool_proofs ----------------------
(***************************************************************************)
(* The socket pool for any number of groups, handles and sockets: its      *)
(* counters agree with its groups and keep the limits, nothing stale is    *)
(* reused, nobody who waits is forgotten, no assertion fails, and a pool   *)
(* that is stalled is going to be relieved.                                *)
(***************************************************************************)
EXTENDS ClientSocketPool, CommonLemmas

-----------------------------------------------------------------------------
(* The inductive invariant *)

\* Sockets and jobs of a group are of the present generation.  A job nobody waits for is
\* one of its jobs, and the backup timer runs only while it has one.
GroupOK(gr, generation) ==
    /\ \A i \in 1 .. Len(gr.idle_sockets) : gr.idle_sockets[i] = generation
    /\ \A i \in 1 .. Len(gr.jobs) : gr.jobs[i] = generation
    /\ gr.unassigned_job_count <= Len(gr.jobs)
    /\ gr.backup_job_timer => gr.jobs # <<>>

GroupsInv(p) ==
    \A g \in Groups : /\ GroupOK(p.groups[g], p.generation)
                      /\ g \notin p.group_map => p.groups[g] = NewGroup

\* The counters of idle sockets and of jobs.
IdleOf(p) == [g \in Groups |-> Len(p.groups[g].idle_sockets)]
JobsOf(p) == [g \in Groups |-> Len(p.groups[g].jobs)]

CountsInv(p) == p.idle = SumFunction(IdleOf(p)) /\ p.connecting = SumFunction(JobsOf(p))

\* Who holds a socket; the counters of those handed out.
Holders(p, g) == {h \in Handles : p.handles[h].group = g /\ p.handles[h].socket # NoSocket}
Holding(p) == {h \in Handles : p.handles[h].socket # NoSocket}

HeldInv(p) ==
    /\ p.handed_out = Cardinality(Holding(p))
    /\ \A g \in Groups : p.groups[g].active_socket_count = Cardinality(Holders(p, g))

FreshInv(p) ==
    \A h \in Handles : p.handles[h].socket # NoSocket =>
        p.handles[h].socket = p.handles[h].pool_id /\ p.handles[h].group \in Groups

\* The limits.
Total(p) == p.handed_out + p.connecting + p.idle

LimitsInv(p) ==
    IgnoreLimits = {} =>
        /\ Total(p) <= MaxSockets
        /\ \A g \in Groups : NumActiveSocketSlots(p.groups[g]) <= MaxSocketsPerGroup

\* What every method of the pool keeps, also in the middle of another.
Core(p) ==
    /\ p \in Pools /\ ~p.failed
    /\ GroupsInv(p) /\ CountsInv(p) /\ HeldInv(p) /\ FreshInv(p) /\ LimitsInv(p)

\* What is known of handle k: a free one is as new, one that is initialized has a socket,
\* one that waits is queued in its group or its callback is on the way.
Has(s, x) == \E i \in 1 .. Len(s) : s[i] = x
Once(s) == \A i, j \in 1 .. Len(s) : s[i] = s[j] => i = j

Posted(p, k) == Has(p.tasks, CallbackTask(k))
Queued(p, g, k) == Has(p.groups[g].pending_requests, k)

LinkOf(p, k) ==
    /\ p.handles[k].phase = "free" => p.handles[k] = FreeHandle
    /\ p.handles[k].phase \in {"ready", "parked"} => p.handles[k].socket # NoSocket
    /\ p.handles[k].phase = "waiting" => p.handles[k].group \in Groups
    /\ p.handles[k].phase = "waiting" /\ p.callbacks[k] = "none" =>
            p.handles[k].socket = NoSocket /\ Queued(p, p.handles[k].group, k)
    /\ p.callbacks[k] # "none" =>
            /\ p.handles[k].phase = "waiting" /\ Posted(p, k)
            /\ p.callbacks[k] = "OK" => p.handles[k].socket # NoSocket

\* Who is queued waits for a socket of that group, and is queued once.
QueueOf(p, g) ==
    /\ Once(p.groups[g].pending_requests)
    /\ \A k \in Handles : Queued(p, g, k) =>
            /\ p.handles[k].phase = "waiting" /\ p.handles[k].group = g
            /\ p.callbacks[k] = "none"

\* What holds between two calls, completions, timers or tasks.
Good(p) ==
    /\ Core(p)
    /\ \A k \in Handles : LinkOf(p, k)
    /\ \A g \in Groups : QueueOf(p, g)

\* The same in the middle of what is done for h.
GoodBut(p, h) ==
    /\ Core(p)
    /\ \A k \in Handles \ {h} : LinkOf(p, k)
    /\ \A g \in Groups : QueueOf(p, g)

IInv == Good(pool) /\ requests \in 0 .. load.requests /\ alive \in BOOLEAN /\ load \in Loads

-----------------------------------------------------------------------------
(* Sums over finite sets *)

\* Among some subsets of a finite set one has the fewest elements, so that what holds of
\* a set whenever it holds of the smaller ones holds of all.
LEMMA SmallestOf ==
    ASSUME NEW S, IsFiniteSet(S), NEW W \in SUBSET (SUBSET S), W # {}
    PROVE  \E w \in W : \A v \in W : Cardinality(w) <= Cardinality(v)
<1> DEFINE C == {Cardinality(w) : w \in W}
<1>1. \A w \in W : Cardinality(w) \in Nat
  BY FS_Subset, FS_CardinalityType
<1>2. C \in SUBSET Nat /\ C # {}
  BY <1>1
<1>3. PICK x \in C : \A y \in C : x <= y
  <2> HIDE DEF C
  <2> QED BY <1>2, LeastOf
<1> QED
  BY <1>3

\* A set that is taken from, has one element less.
LEMMA OneLess ==
    ASSUME NEW S, IsFiniteSet(S), NEW s \in SUBSET S, NEW x \in s
    PROVE  /\ Cardinality(s) \in Nat /\ Cardinality(s \ {x}) \in Nat
           /\ Cardinality(s \ {x}) = Cardinality(s) - 1
           /\ s \ {x} \in SUBSET S
BY FS_Subset, FS_CardinalityType, FS_RemoveElement

Chosen(s) == CHOOSE x \in s : TRUE

LEMMA ChosenIn == \A s : s # {} => Chosen(s) \in s
BY DEF Chosen

\* The equations by which a sum is computed.
IsSum(f, S, sum) ==
    sum = [s \in SUBSET S |-> IF s = {} THEN 0 ELSE f[Chosen(s)] + sum[s \ {Chosen(s)}]]

\* They have a solution.
LEMMA SumExists ==
    ASSUME NEW S, IsFiniteSet(S), NEW f \in [S -> Int]
    PROVE  \E sum : IsSum(f, S, sum)
<1> DEFINE Eq(sum, s) == sum[s] = IF s = {} THEN 0 ELSE f[Chosen(s)] + sum[s \ {Chosen(s)}]
           Upto(sum, n) == /\ sum = [s \in SUBSET S |-> sum[s]]
                           /\ \A s \in SUBSET S : Cardinality(s) <= n => Eq(sum, s)
           W == {n \in Nat : ~ \E sum : Upto(sum, n)}
<1>1. \A s \in SUBSET S : IsFiniteSet(s) /\ Cardinality(s) \in Nat
                          /\ Cardinality(s) <= Cardinality(S)
  BY FS_Subset, FS_CardinalityType
<1>2. Cardinality(S) \in Nat
  BY FS_CardinalityType
<1>3. W = {}
  <2>1. SUFFICES ASSUME W # {} PROVE FALSE
    OBVIOUS
  <2>2. PICK n \in W : \A m \in W : n <= m
    <3>1. W \in SUBSET Nat
      OBVIOUS
    <3> HIDE DEF W
    <3> QED BY <2>1, <3>1, LeastOf
  <2>3. n \in Nat /\ ~ \E sum : Upto(sum, n)
    OBVIOUS
  <2>4. n # 0
    <3> DEFINE z == [s \in SUBSET S |-> 0]
    <3>1. ASSUME NEW s \in SUBSET S, Cardinality(s) <= 0 PROVE s = {}
      BY <1>1, <3>1, FS_EmptySet
    <3>2. Upto(z, 0)
      BY <3>1
    <3> HIDE DEF Upto
    <3> QED
      BY <2>3, <3>2
  <2>5. n - 1 \in Nat /\ n - 1 \notin W
    <3>1. n - 1 \in Nat /\ ~(n <= n - 1)
      BY <2>3, <2>4
    <3> HIDE DEF W
    <3> QED BY <2>2, <3>1
  <2>6. PICK u : Upto(u, n - 1)
    BY <2>5
  <2> DEFINE v == [s \in SUBSET S |-> IF Cardinality(s) = n
                                      THEN f[Chosen(s)] + u[s \ {Chosen(s)}] ELSE u[s]]
  <2>7. ASSUME NEW s \in SUBSET S, Cardinality(s) <= n PROVE Eq(v, s)
    <3> DEFINE r == s \ {Chosen(s)}
    <3>1. CASE s = {}
      <4>1. Cardinality(s) = 0
        BY <3>1, FS_EmptySet
      <4>2. v[s] = u[s]
        BY <4>1, <2>4
      <4>3. Eq(u, s)
        <5>1. Cardinality(s) <= n - 1
          BY <2>3, <2>4, <4>1
        <5> HIDE DEF Eq
        <5> QED BY <2>6, <5>1
      <4> QED
        BY <3>1, <4>2, <4>3
    <3>2. CASE s # {}
      <4>1. /\ Chosen(s) \in s /\ r \in SUBSET S /\ Cardinality(r) = Cardinality(s) - 1
            /\ Cardinality(s) \in Nat
        BY <3>2, ChosenIn, OneLess
      <4>2. v[r] = u[r]
        BY <2>3, <2>7, <4>1
      <4>3. CASE Cardinality(s) = n
        BY <3>2, <4>2, <4>3
      <4>4. CASE Cardinality(s) # n
        <5>1. Cardinality(s) <= n - 1
          BY <2>3, <2>7, <4>1, <4>4
        <5>2. Eq(u, s)
          <6> HIDE DEF Eq
          <6> QED BY <2>6, <5>1
        <5>3. v[s] = u[s]
          BY <4>4
        <5> QED BY <3>2, <4>2, <5>2, <5>3
      <4> QED BY <4>3, <4>4
    <3> QED BY <3>1, <3>2
  <2>8. Upto(v, n)
    <3>1. v = [s \in SUBSET S |-> v[s]]
      OBVIOUS
    <3> HIDE DEF v, Eq
    <3> QED BY <2>7, <3>1
  <2> QED
    BY <2>3, <2>8
<1>4. PICK sum : Upto(sum, Cardinality(S))
  BY <1>2, <1>3
<1>5. \A s \in SUBSET S : Eq(sum, s)
  BY <1>1, <1>4
<1>6. sum = [s \in SUBSET S |-> sum[s]]
  BY <1>4
<1> QED
  BY <1>5, <1>6 DEF IsSum

\* A solution for a set is one for its subsets, and its values are integers.
LEMMA SumUnique ==
    ASSUME NEW S, IsFiniteSet(S), NEW f \in [S -> Int], NEW T \in SUBSET S,
           NEW u, IsSum(f, S, u), NEW v, IsSum(f, T, v)
    PROVE  \A s \in SUBSET T : v[s] = u[s] /\ v[s] \in Int
<1> DEFINE W == {s \in SUBSET T : ~(v[s] = u[s] /\ v[s] \in Int)}
<1>1. SUFFICES ASSUME W # {} PROVE FALSE
  OBVIOUS
<1>2. W \in SUBSET (SUBSET S)
  OBVIOUS
<1>3. PICK w \in W : \A s \in W : Cardinality(w) <= Cardinality(s)
  <2> HIDE DEF W
  <2> QED BY <1>1, <1>2, SmallestOf
<1>4. w \in SUBSET T /\ w \in SUBSET S /\ ~(v[w] = u[w] /\ v[w] \in Int)
  OBVIOUS
<1> DEFINE c == Chosen(w)
           r == w \ {c}
<1>5. /\ v[w] = IF w = {} THEN 0 ELSE f[c] + v[r]
      /\ u[w] = IF w = {} THEN 0 ELSE f[c] + u[r]
  BY <1>4 DEF IsSum
<1>6. w # {} /\ c \in w
  BY <1>4, <1>5, ChosenIn
<1>7. Cardinality(r) = Cardinality(w) - 1 /\ Cardinality(w) \in Nat /\ r \in SUBSET T
  BY <1>4, <1>6, OneLess
<1>8. r \notin W
  <2> HIDE DEF W
  <2>1. ~(Cardinality(w) <= Cardinality(r))
    BY <1>7
  <2> QED BY <1>3, <2>1
<1>9. v[r] = u[r] /\ v[r] \in Int
  BY <1>7, <1>8
<1>10. f[c] \in Int
  BY <1>4, <1>6
<1> HIDE DEF r, c, W
<1> QED
  BY <1>4, <1>5, <1>6, <1>9, <1>10

\* How a sum is computed: any element, and the sum of the others.
LEMMA SumChosen ==
    ASSUME NEW S, IsFiniteSet(S), NEW f \in [S -> Int]
    PROVE  /\ SumFunctionOnSet(f, {}) = 0
           /\ \A T \in SUBSET S :
                 /\ SumFunctionOnSet(f, T) \in Int
                 /\ T # {} => SumFunctionOnSet(f, T)
                              = f[Chosen(T)] + SumFunctionOnSet(f, T \ {Chosen(T)})
<1>1. PICK u : IsSum(f, S, u)
  BY SumExists
<1>2. ASSUME NEW T \in SUBSET S
      PROVE  SumFunctionOnSet(f, T) = u[T] /\ u[T] \in Int
  <2> DEFINE g == [x \in T |-> f[x]]
             it == CHOOSE it : it = [s \in SUBSET T |-> IF s = {} THEN 0
                      ELSE f[CHOOSE x \in s : TRUE] + it[s \ {CHOOSE x \in s : TRUE}]]
  <2>1. SumFunctionOnSet(f, T) = it[T]
    BY DEF SumFunctionOnSet, FoldFunctionOnSet, MapThenFoldSet
  <2>2. \E v : IsSum(f, T, v)
    <3>1. IsFiniteSet(T) /\ g \in [T -> Int]
      BY FS_Subset
    <3>2. PICK v : IsSum(g, T, v)
      BY <3>1, SumExists
    <3>3. ASSUME NEW s \in SUBSET T, s # {} PROVE g[Chosen(s)] = f[Chosen(s)]
      BY <3>3, ChosenIn
    <3>4. IsSum(f, T, v)
      BY <3>2, <3>3 DEF IsSum
    <3> QED BY <3>4
  <2>3. IsSum(f, T, it)
    BY <2>2 DEF IsSum, Chosen
  <2> HIDE DEF it
  <2> QED
    BY <1>1, <2>1, <2>3, SumUnique
<1>3. ASSUME NEW T \in SUBSET S, T # {}
      PROVE  u[T] = f[Chosen(T)] + u[T \ {Chosen(T)}]
  BY <1>1, <1>3 DEF IsSum
<1>4. u[{}] = 0
  BY <1>1 DEF IsSum
<1>5. ASSUME NEW T \in SUBSET S, T # {}
      PROVE  SumFunctionOnSet(f, T) = f[Chosen(T)] + SumFunctionOnSet(f, T \ {Chosen(T)})
  <2>1. T \ {Chosen(T)} \in SUBSET S
    OBVIOUS
  <2> QED BY <1>2, <1>3, <1>5, <2>1
<1> QED
  BY <1>2, <1>4, <1>5

LEMMA SumAny ==
    ASSUME NEW S, IsFiniteSet(S), NEW f \in [S -> Int], NEW T \in SUBSET S, NEW x \in T
    PROVE  /\ SumFunctionOnSet(f, T) = f[x] + SumFunctionOnSet(f, T \ {x})
           /\ SumFunctionOnSet(f, T) \in Int /\ SumFunctionOnSet(f, T \ {x}) \in Int
           /\ f[x] \in Int
<1> DEFINE F(t) == SumFunctionOnSet(f, t)
           OneOut(t) == \A y \in t : F(t) = f[y] + F(t \ {y})
           W == {t \in SUBSET S : ~OneOut(t)}
<1>0. /\ \A t \in SUBSET S : F(t) \in Int
      /\ \A t \in SUBSET S : t # {} => F(t) = f[Chosen(t)] + F(t \ {Chosen(t)})
      /\ \A y \in S : f[y] \in Int
  <2>1. /\ \A t \in SUBSET S : F(t) \in Int
        /\ \A t \in SUBSET S : t # {} => F(t) = f[Chosen(t)] + F(t \ {Chosen(t)})
    BY SumChosen, ZenonT(30)
  <2> HIDE DEF F
  <2> QED BY <2>1
<1> HIDE DEF F
<1>1. W = {}
  <2>1. SUFFICES ASSUME W # {} PROVE FALSE
    OBVIOUS
  <2>2. W \in SUBSET (SUBSET S)
    OBVIOUS
  <2>3. PICK w \in W : \A s \in W : Cardinality(w) <= Cardinality(s)
    <3> HIDE DEF W
    <3> QED BY <2>1, <2>2, SmallestOf
  <2>4. w \in SUBSET S /\ ~OneOut(w)
    OBVIOUS
  <2>5. PICK y \in w : F(w) # f[y] + F(w \ {y})
    BY <2>4
  <2> DEFINE c == Chosen(w)
  <2>6. c \in w /\ F(w) = f[c] + F(w \ {c}) /\ w # {}
    BY <1>0, <2>4, <2>5, ChosenIn
  <2>7. y # c
    BY <2>5, <2>6
  <2> HIDE DEF c
  <2>8. ASSUME NEW z \in w PROVE OneOut(w \ {z})
    <3>1. Cardinality(w \ {z}) = Cardinality(w) - 1 /\ Cardinality(w) \in Nat
      BY <2>4, OneLess
    <3>2. w \ {z} \notin W
      <4> HIDE DEF W
      <4> QED BY <2>3, <3>1
    <3> QED BY <2>4, <3>2
  <2>9. F(w \ {c}) = f[y] + F((w \ {c}) \ {y}) /\ F(w \ {y}) = f[c] + F((w \ {y}) \ {c})
    BY <2>6, <2>7, <2>8
  <2>10. (w \ {c}) \ {y} = (w \ {y}) \ {c}
    OBVIOUS
  <2>11. /\ f[c] \in Int /\ f[y] \in Int /\ F(w \ {c}) \in Int /\ F(w \ {y}) \in Int
         /\ F((w \ {y}) \ {c}) \in Int
    <3>1. w \ {c} \in SUBSET S /\ w \ {y} \in SUBSET S /\ (w \ {y}) \ {c} \in SUBSET S
      BY <2>4
    <3> QED BY <1>0, <2>4, <2>6, <3>1
  <2> QED
    <3> DEFINE p == F(w \ {c})
               q == F(w \ {y})
               r == F((w \ {y}) \ {c})
               d == F(w)
    <3>1. /\ d # f[y] + q /\ d = f[c] + p /\ p = f[y] + r /\ q = f[c] + r
          /\ f[c] \in Int /\ f[y] \in Int /\ r \in Int
      BY <2>5, <2>6, <2>9, <2>10, <2>11
    <3> HIDE DEF p, q, r, d
    <3> QED BY <3>1
<1>2. OneOut(T)
  BY <1>1
<1>3. F(T) \in Int /\ F(T \ {x}) \in Int /\ f[x] \in Int
  <2>1. T \ {x} \in SUBSET S
    OBVIOUS
  <2> QED BY <1>0, <2>1
<1> QED
  BY <1>2, <1>3 DEF F

\* Sums are added by adding the terms; those of naturals are naturals.
LEMMA SumPlus ==
    ASSUME NEW S, IsFiniteSet(S), NEW a \in [S -> Int], NEW b \in [S -> Int],
           NEW f \in [S -> Int], NEW T \in SUBSET S, \A x \in T : f[x] = a[x] + b[x]
    PROVE  SumFunctionOnSet(f, T) = SumFunctionOnSet(a, T) + SumFunctionOnSet(b, T)
<1> DEFINE F(t) == SumFunctionOnSet(f, t)
           A(t) == SumFunctionOnSet(a, t)
           B(t) == SumFunctionOnSet(b, t)
           W == {t \in SUBSET T : F(t) # A(t) + B(t)}
<1>1. SUFFICES ASSUME W # {} PROVE FALSE
  <2>1. T \in SUBSET T
    OBVIOUS
  <2> QED BY <2>1
<1>2. W \in SUBSET (SUBSET S)
  OBVIOUS
<1>3. PICK w \in W : \A s \in W : Cardinality(w) <= Cardinality(s)
  <2> HIDE DEF W
  <2> QED BY <1>1, <1>2, SmallestOf
<1>4. w \in SUBSET T /\ w \in SUBSET S /\ F(w) # A(w) + B(w)
  OBVIOUS
<1>5. F({}) = 0 /\ A({}) = 0 /\ B({}) = 0
  BY SumChosen
<1>6. w # {}
  BY <1>4, <1>5
<1>7. PICK x \in w : TRUE
  BY <1>6
<1>8. /\ F(w) = f[x] + F(w \ {x}) /\ F(w \ {x}) \in Int /\ f[x] \in Int
      /\ A(w) = a[x] + A(w \ {x}) /\ A(w \ {x}) \in Int /\ a[x] \in Int
      /\ B(w) = b[x] + B(w \ {x}) /\ B(w \ {x}) \in Int /\ b[x] \in Int
  BY <1>4, <1>7, SumAny
<1>9. w \ {x} \notin W
  <2>1. Cardinality(w \ {x}) = Cardinality(w) - 1 /\ Cardinality(w) \in Nat
    BY <1>4, <1>7, OneLess
  <2> HIDE DEF W
  <2> QED BY <1>3, <2>1
<1>10. F(w \ {x}) = A(w \ {x}) + B(w \ {x})
  BY <1>4, <1>9
<1>11. f[x] = a[x] + b[x]
  BY <1>4, <1>7
<1> HIDE DEF F, A, B, W
<1> QED
  BY <1>4, <1>8, <1>10, <1>11

LEMMA SumZero ==
    ASSUME NEW S, IsFiniteSet(S), NEW f \in [S -> Int], NEW T \in SUBSET S,
           \A x \in T : f[x] = 0
    PROVE  SumFunctionOnSet(f, T) = 0
<1>1. \A x \in T : f[x] = f[x] + f[x]
  OBVIOUS
<1>2. SumFunctionOnSet(f, T) = SumFunctionOnSet(f, T) + SumFunctionOnSet(f, T)
  BY <1>1, SumPlus
<1> DEFINE s == SumFunctionOnSet(f, T)
<1>3. s \in Int /\ s = s + s
  BY <1>2, SumChosen
<1> HIDE DEF s
<1>4. s = 0
  BY <1>3
<1> QED
  BY <1>4 DEF s

LEMMA SumNat ==
    ASSUME NEW S, IsFiniteSet(S), NEW f \in [S -> Nat], NEW T \in SUBSET S
    PROVE  SumFunctionOnSet(f, T) \in Nat
<1> DEFINE F(t) == SumFunctionOnSet(f, t)
           W == {t \in SUBSET S : F(t) \notin Nat}
<1>0. f \in [S -> Int]
  OBVIOUS
<1>1. SUFFICES ASSUME W # {} PROVE FALSE
  OBVIOUS
<1>2. W \in SUBSET (SUBSET S)
  OBVIOUS
<1>3. PICK w \in W : \A s \in W : Cardinality(w) <= Cardinality(s)
  <2> HIDE DEF W
  <2> QED BY <1>1, <1>2, SmallestOf
<1>4. w \in SUBSET S /\ F(w) \notin Nat
  OBVIOUS
<1>5. F({}) = 0
  BY <1>0, SumChosen
<1>6. PICK x \in w : TRUE
  BY <1>4, <1>5
<1>7. F(w) = f[x] + F(w \ {x})
  BY <1>0, <1>4, <1>6, SumAny
<1>8. w \ {x} \notin W
  <2>1. Cardinality(w \ {x}) = Cardinality(w) - 1 /\ Cardinality(w) \in Nat
    BY <1>4, <1>6, OneLess
  <2> HIDE DEF W
  <2> QED BY <1>3, <2>1
<1>9. F(w \ {x}) \in Nat /\ f[x] \in Nat
  BY <1>4, <1>6, <1>8
<1> HIDE DEF F, W
<1> QED
  BY <1>4, <1>7, <1>9

\* When one term changes, so does the sum.
LEMMA SumUpdate ==
    ASSUME NEW S, IsFiniteSet(S), NEW a \in [S -> Nat], NEW b \in [S -> Nat], NEW x \in S,
           \A y \in S \ {x} : b[y] = a[y]
    PROVE  /\ SumFunction(b) = SumFunction(a) + (b[x] - a[x])
           /\ SumFunction(a) >= a[x]
           /\ SumFunction(a) \in Nat /\ SumFunction(b) \in Nat
<1> DEFINE z == [y \in S |-> 0]
           R == S \ {x}
           sa == SumFunctionOnSet(a, S)
           sb == SumFunctionOnSet(b, S)
           ra == SumFunctionOnSet(a, R)
           rb == SumFunctionOnSet(b, R)
<1>1. /\ a \in [S -> Int] /\ b \in [S -> Int] /\ z \in [S -> Int] /\ R \in SUBSET S
      /\ S \in SUBSET S
  OBVIOUS
<1>2. sa = a[x] + ra /\ sb = b[x] + rb
  BY <1>1, SumAny
<1>3. ra \in Nat /\ rb \in Nat /\ sa \in Nat /\ sb \in Nat
  BY <1>1, SumNat
<1>4. rb = ra + SumFunctionOnSet(z, R)
  <2>1. \A y \in R : b[y] = a[y] + z[y]
    OBVIOUS
  <2> HIDE DEF z, R
  <2> QED BY <1>1, <2>1, SumPlus
<1>5. SumFunctionOnSet(z, R) = 0
  <2>1. \A y \in R : z[y] = 0
    OBVIOUS
  <2> HIDE DEF z, R
  <2> QED BY <1>1, <2>1, SumZero
<1>6. SumFunction(a) = sa /\ SumFunction(b) = sb
  BY DEF SumFunction
<1>7. a[x] \in Nat /\ b[x] \in Nat
  OBVIOUS
<1> HIDE DEF sa, sb, ra, rb
<1> QED
  BY <1>2, <1>3, <1>4, <1>5, <1>6, <1>7

\* A sum of naturals is positive if and only if a term is.
LEMMA SumPositive ==
    ASSUME NEW S, IsFiniteSet(S), NEW a \in [S -> Nat]
    PROVE  /\ SumFunction(a) \in Nat
           /\ \A x \in S : SumFunction(a) >= a[x]
           /\ SumFunction(a) = 0 <=> \A x \in S : a[x] = 0
<1>1. a \in [S -> Int] /\ S \in SUBSET S
  OBVIOUS
<1>2. SumFunction(a) = SumFunctionOnSet(a, S)
  BY DEF SumFunction
<1>3. SumFunction(a) \in Nat
  BY <1>1, <1>2, SumNat
<1>4. (\A x \in S : a[x] = 0) => SumFunction(a) = 0
  BY <1>1, <1>2, SumZero
<1>5. ASSUME NEW x \in S PROVE SumFunction(a) >= a[x] /\ a[x] \in Nat
  BY SumUpdate
<1>6. ASSUME SumFunction(a) = 0, NEW x \in S PROVE a[x] = 0
  BY <1>5, <1>6
<1> QED
  BY <1>3, <1>4, <1>5, <1>6

\* A sum is that of its terms that are not zero.
LEMMA SumRestrict ==
    ASSUME NEW S, IsFiniteSet(S), NEW a \in [S -> Nat], NEW T \in SUBSET S,
           \A x \in S \ T : a[x] = 0
    PROVE  SumFunction([x \in T |-> a[x]]) = SumFunction(a)
<1> DEFINE b == [x \in T |-> a[x]]
           W == {t \in SUBSET T : SumFunctionOnSet(b, t) # SumFunctionOnSet(a, t)}
           V == {t \in SUBSET S : T \subseteq t /\ SumFunctionOnSet(a, t) # SumFunctionOnSet(a, T)}
<1>0. /\ a \in [S -> Int] /\ b \in [T -> Int] /\ IsFiniteSet(T)
      /\ T \in SUBSET T /\ S \in SUBSET S
  BY FS_Subset
<1>1. W = {}
  <2>1. SUFFICES ASSUME W # {} PROVE FALSE
    OBVIOUS
  <2>2. W \in SUBSET (SUBSET S)
    OBVIOUS
  <2>3. PICK w \in W : \A s \in W : Cardinality(w) <= Cardinality(s)
    <3> HIDE DEF W
    <3> QED BY <2>1, <2>2, SmallestOf
  <2>4. w \in SUBSET T /\ w \in SUBSET S /\ SumFunctionOnSet(b, w) # SumFunctionOnSet(a, w)
    OBVIOUS
  <2>5. SumFunctionOnSet(b, {}) = 0 /\ SumFunctionOnSet(a, {}) = 0
    BY <1>0, SumChosen
  <2>6. PICK x \in w : TRUE
    BY <2>4, <2>5
  <2>7. w \ {x} \notin W
    <3>1. Cardinality(w \ {x}) = Cardinality(w) - 1 /\ Cardinality(w) \in Nat
      BY <2>4, <2>6, OneLess
    <3> HIDE DEF W
    <3> QED BY <2>3, <3>1
  <2>8. /\ SumFunctionOnSet(b, w) = b[x] + SumFunctionOnSet(b, w \ {x})
        /\ SumFunctionOnSet(a, w) = a[x] + SumFunctionOnSet(a, w \ {x})
    <3> HIDE DEF b
    <3> QED BY <1>0, <2>4, <2>6, SumAny
  <2>9. b[x] = a[x] /\ SumFunctionOnSet(b, w \ {x}) = SumFunctionOnSet(a, w \ {x})
    BY <2>4, <2>6, <2>7
  <2> QED
    BY <2>4, <2>8, <2>9
<1>2. V = {}
  <2>1. SUFFICES ASSUME V # {} PROVE FALSE
    OBVIOUS
  <2>2. V \in SUBSET (SUBSET S)
    OBVIOUS
  <2>3. PICK w \in V : \A s \in V : Cardinality(w) <= Cardinality(s)
    <3> HIDE DEF V
    <3> QED BY <2>1, <2>2, SmallestOf
  <2>4. w \in SUBSET S /\ T \subseteq w /\ SumFunctionOnSet(a, w) # SumFunctionOnSet(a, T)
    OBVIOUS
  <2>6. PICK x \in w \ T : TRUE
    <3>1. w # T
      BY <2>4
    <3> QED BY <2>4, <3>1
  <2>7. w \ {x} \notin V
    <3>1. Cardinality(w \ {x}) = Cardinality(w) - 1 /\ Cardinality(w) \in Nat
      BY <2>4, <2>6, OneLess
    <3> HIDE DEF V
    <3> QED BY <2>3, <3>1
  <2> DEFINE d == SumFunctionOnSet(a, w)
             e == SumFunctionOnSet(a, w \ {x})
  <2>8. d = a[x] + e /\ e \in Int
    BY <1>0, <2>4, <2>6, SumAny
  <2>9. a[x] = 0 /\ e = SumFunctionOnSet(a, T)
    BY <2>4, <2>6, <2>7
  <2>10. d # SumFunctionOnSet(a, T)
    BY <2>4
  <2> HIDE DEF d, e
  <2> QED
    BY <2>8, <2>9, <2>10
<1>3. SumFunctionOnSet(b, T) = SumFunctionOnSet(a, T) /\ SumFunctionOnSet(a, S) = SumFunctionOnSet(a, T)
  BY <1>0, <1>1, <1>2
<1>4. SumFunction(b) = SumFunctionOnSet(b, T) /\ SumFunction(a) = SumFunctionOnSet(a, S)
  BY <1>0 DEF SumFunction
<1> QED
  BY <1>3, <1>4

-----------------------------------------------------------------------------
(* Pools *)

\* The types of the parts of a pool.
LEMMA PoolFields ==
    ASSUME NEW p \in Pools
    PROVE  /\ p.groups \in [Groups -> SocketGroups] /\ p.group_map \in SUBSET Groups
           /\ p.idle \in Nat /\ p.connecting \in Nat /\ p.handed_out \in Nat
           /\ p.generation \in Generations /\ p.generation \in Nat
           /\ p.callbacks \in [Handles -> {"none", "OK", "ERR", "ERR_WITH_SOCKET"}]
           /\ p.tasks \in Seq(Tasks) /\ p.handles \in [Handles -> HandleStates]
           /\ p.failed \in BOOLEAN
BY PoolAssumption DEF Pools, Generations

LEMMA GroupFields ==
    ASSUME NEW gr \in SocketGroups
    PROVE  /\ gr.idle_sockets \in Seq(Generations) /\ gr.jobs \in Seq(Generations)
           /\ gr.unassigned_job_count \in Nat /\ gr.pending_requests \in Seq(Handles)
           /\ gr.active_socket_count \in Nat /\ gr.backup_job_timer \in BOOLEAN
           /\ Len(gr.idle_sockets) \in Nat /\ Len(gr.jobs) \in Nat
           /\ Len(gr.pending_requests) \in Nat
<1>1. /\ gr.idle_sockets \in Seq(Generations) /\ gr.jobs \in Seq(Generations)
      /\ gr.unassigned_job_count \in Nat /\ gr.pending_requests \in Seq(Handles)
      /\ gr.active_socket_count \in Nat /\ gr.backup_job_timer \in BOOLEAN
  BY DEF SocketGroups
<1> QED
  BY <1>1, LenProperties

LEMMA HandleFields ==
    ASSUME NEW p \in Pools, NEW h \in Handles
    PROVE  /\ p.handles[h] \in HandleStates
           /\ p.handles[h].phase \in {"free", "waiting", "ready", "parked"}
           /\ p.handles[h].group \in Groups \cup {None}
           /\ p.handles[h].socket \in Generations \cup {NoSocket}
           /\ p.handles[h].pool_id \in Generations \cup {NoSocket}
<1>1. p.handles[h] \in HandleStates
  BY PoolFields
<1> QED
  BY <1>1 DEF HandleStates

LEMMA NewGroupFields ==
    /\ NewGroup \in SocketGroups /\ IsEmpty(NewGroup)
    /\ NewGroup.idle_sockets = <<>> /\ NewGroup.jobs = <<>>
    /\ NewGroup.pending_requests = <<>> /\ NewGroup.active_socket_count = 0
    /\ NewGroup.unassigned_job_count = 0 /\ NewGroup.backup_job_timer = FALSE
<1>1. <<>> \in Seq(Generations) /\ <<>> \in Seq(Handles)
  BY EmptySeq
<1> QED
  BY <1>1 DEF NewGroup, SocketGroups, IsEmpty

\* What concerns requests and handles is the same, but for the socket of h.
Undisturbed(p, q, h) ==
    /\ q.generation = p.generation /\ q.callbacks = p.callbacks /\ q.tasks = p.tasks
    /\ \A g \in Groups : q.groups[g].pending_requests = p.groups[g].pending_requests
    /\ \A k \in Handles \ {h} : q.handles[k] = p.handles[k]
    /\ h \in Handles => /\ q.handles[h].phase = p.handles[h].phase
                        /\ q.handles[h].group = p.handles[h].group

LEMMA UndisturbedTrans ==
    ASSUME NEW p, NEW q, NEW r, NEW h, Undisturbed(p, q, h), Undisturbed(q, r, h)
    PROVE  Undisturbed(p, r, h)
BY DEF Undisturbed

\* Only group g changes, to gr, and the counters with it.
Regroups(p, q, g, gr) ==
    /\ q \in Pools /\ gr \in SocketGroups /\ GroupOK(gr, p.generation)
    /\ q.groups[g] = gr /\ \A k \in Groups \ {g} : q.groups[k] = p.groups[k]
    /\ \A k \in Groups \ {g} : k \in q.group_map <=> k \in p.group_map
    /\ g \in q.group_map \/ gr = NewGroup
    /\ q.generation = p.generation /\ q.callbacks = p.callbacks /\ q.tasks = p.tasks
    /\ q.handles = p.handles /\ q.handed_out = p.handed_out /\ q.failed = p.failed
    /\ gr.active_socket_count = p.groups[g].active_socket_count
    /\ gr.pending_requests = p.groups[g].pending_requests
    /\ q.idle = p.idle + (Len(gr.idle_sockets) - Len(p.groups[g].idle_sockets))
    /\ q.connecting = p.connecting + (Len(gr.jobs) - Len(p.groups[g].jobs))

Room(q, gr) ==
    IgnoreLimits = {} => /\ Total(q) <= MaxSockets
                         /\ NumActiveSocketSlots(gr) <= MaxSocketsPerGroup

\* The sums follow a group that changes.
LEMMA SumsFollow ==
    ASSUME NEW p \in Pools, NEW q \in Pools, NEW g \in Groups,
           \A k \in Groups \ {g} : q.groups[k] = p.groups[k]
    PROVE  /\ SumFunction(IdleOf(q)) = SumFunction(IdleOf(p))
                + (Len(q.groups[g].idle_sockets) - Len(p.groups[g].idle_sockets))
           /\ SumFunction(JobsOf(q)) = SumFunction(JobsOf(p))
                + (Len(q.groups[g].jobs) - Len(p.groups[g].jobs))
<1>1. /\ \A k \in Groups : p.groups[k] \in SocketGroups /\ q.groups[k] \in SocketGroups
  BY PoolFields
<1>2. /\ IdleOf(p) \in [Groups -> Nat] /\ IdleOf(q) \in [Groups -> Nat]
      /\ JobsOf(p) \in [Groups -> Nat] /\ JobsOf(q) \in [Groups -> Nat]
  BY <1>1, GroupFields DEF IdleOf, JobsOf
<1>3. /\ \A k \in Groups \ {g} : IdleOf(q)[k] = IdleOf(p)[k] /\ JobsOf(q)[k] = JobsOf(p)[k]
      /\ IdleOf(q)[g] = Len(q.groups[g].idle_sockets)
      /\ IdleOf(p)[g] = Len(p.groups[g].idle_sockets)
      /\ JobsOf(q)[g] = Len(q.groups[g].jobs) /\ JobsOf(p)[g] = Len(p.groups[g].jobs)
  BY DEF IdleOf, JobsOf
<1>4. ASSUME NEW a \in [Groups -> Nat], NEW b \in [Groups -> Nat],
             \A k \in Groups \ {g} : b[k] = a[k]
      PROVE  SumFunction(b) = SumFunction(a) + (b[g] - a[g])
  BY <1>4, PoolAssumption, SumUpdate
<1>5. SumFunction(IdleOf(q)) = SumFunction(IdleOf(p)) + (IdleOf(q)[g] - IdleOf(p)[g])
  BY <1>2, <1>3, <1>4
<1>6. SumFunction(JobsOf(q)) = SumFunction(JobsOf(p)) + (JobsOf(q)[g] - JobsOf(p)[g])
  BY <1>2, <1>3, <1>4
<1> QED
  BY <1>3, <1>5, <1>6

LEMMA RegroupsCore ==
    ASSUME NEW p, Core(p), NEW g \in Groups, NEW q, NEW gr, Regroups(p, q, g, gr),
           Room(q, gr), NEW h
    PROVE  Core(q) /\ Undisturbed(p, q, h)
<1>1. p \in Pools /\ q \in Pools /\ ~q.failed
  BY DEF Core, Regroups
<1>2. CountsInv(q)
  BY <1>1, SumsFollow DEF Core, CountsInv, Regroups
<1>3. GroupsInv(q)
  BY DEF Core, GroupsInv, Regroups
<1>4. HeldInv(q)
  BY DEF Core, HeldInv, Regroups, Holding, Holders
<1>5. FreshInv(q)
  BY DEF Core, FreshInv, Regroups
<1>6. LimitsInv(q)
  BY DEF Core, LimitsInv, Regroups, Room
<1>7. Undisturbed(p, q, h)
  BY <1>1 DEF Regroups, Undisturbed
<1> QED
  BY <1>1, <1>2, <1>3, <1>4, <1>5, <1>6, <1>7 DEF Core

-----------------------------------------------------------------------------
(* Sequences *)

LEMMA RemoveAtFacts ==
    ASSUME NEW S, NEW s \in Seq(S), NEW i \in 1 .. Len(s)
    PROVE  /\ RemoveAt(s, i) \in Seq(S) /\ Len(RemoveAt(s, i)) = Len(s) - 1
           /\ \A j \in 1 .. (Len(s) - 1) :
                RemoveAt(s, i)[j] = IF j < i THEN s[j] ELSE s[j + 1]
<1> DEFINE a == SubSeq(s, 1, i - 1)
           b == SubSeq(s, i + 1, Len(s))
           r == RemoveAt(s, i)
<1>1. Len(s) \in Nat /\ i \in Nat /\ 1 <= i /\ i <= Len(s)
  BY LenProperties
<1>2. /\ a \in Seq(S) /\ Len(a) = i - 1 /\ \A j \in 1 .. (i - 1) : a[j] = s[j]
  BY <1>1, SubSeqProperties
<1>3. /\ b \in Seq(S) /\ Len(b) = Len(s) - i /\ \A j \in 1 .. (Len(s) - i) : b[j] = s[i + j]
  BY <1>1, SubSeqProperties
<1>4. r = a \o b
  BY DEF RemoveAt
<1> HIDE DEF a, b, r
<1>5. /\ r \in Seq(S) /\ Len(r) = Len(a) + Len(b)
      /\ \A j \in 1 .. (Len(a) + Len(b)) : r[j] = IF j <= Len(a) THEN a[j] ELSE b[j - Len(a)]
  BY <1>2, <1>3, <1>4, ConcatProperties
<1>6. ASSUME NEW j \in 1 .. (Len(s) - 1) PROVE r[j] = IF j < i THEN s[j] ELSE s[j + 1]
  <2>1. r[j] = IF j <= i - 1 THEN a[j] ELSE b[j - (i - 1)]
    BY <1>1, <1>2, <1>3, <1>5
  <2>2. CASE j < i
    BY <1>1, <1>2, <2>1, <2>2
  <2>3. CASE ~(j < i)
    <3>1. j - (i - 1) \in 1 .. (Len(s) - i) /\ i + (j - (i - 1)) = j + 1
      BY <1>1, <2>3
    <3>2. b[j - (i - 1)] = s[j + 1]
      BY <1>3, <3>1
    <3> QED BY <1>1, <2>1, <2>3, <3>2
  <2> QED BY <2>2, <2>3
<1>7. Len(r) = Len(s) - 1
  BY <1>1, <1>2, <1>3, <1>5
<1> QED
  BY <1>5, <1>6, <1>7 DEF r

LEMMA InsertAtFacts ==
    ASSUME NEW S, NEW s \in Seq(S), NEW i \in 1 .. (Len(s) + 1), NEW e \in S
    PROVE  /\ InsertAt(s, i, e) \in Seq(S) /\ Len(InsertAt(s, i, e)) = Len(s) + 1
           /\ \A j \in 1 .. (Len(s) + 1) :
                InsertAt(s, i, e)[j] = IF j < i THEN s[j] ELSE IF j = i THEN e ELSE s[j - 1]
<1> DEFINE a == SubSeq(s, 1, i - 1)
           m == <<e>>
           am == a \o m
           b == SubSeq(s, i, Len(s))
           r == InsertAt(s, i, e)
<1>1. Len(s) \in Nat /\ i \in Nat /\ 1 <= i /\ i <= Len(s) + 1
  BY LenProperties
<1>2. /\ a \in Seq(S) /\ Len(a) = i - 1 /\ \A j \in 1 .. (i - 1) : a[j] = s[j]
  BY <1>1, SubSeqProperties
<1>3. /\ b \in Seq(S) /\ Len(b) = Len(s) - (i - 1)
      /\ \A j \in 1 .. (Len(s) - (i - 1)) : b[j] = s[(i - 1) + j]
  BY <1>1, SubSeqProperties
<1>4. m \in Seq(S) /\ Len(m) = 1 /\ m[1] = e
  OBVIOUS
<1>5. r = am \o b /\ am = a \o m
  BY DEF InsertAt
<1> HIDE DEF a, m, am, b, r
<1>6. /\ am \in Seq(S) /\ Len(am) = Len(a) + Len(m)
      /\ \A j \in 1 .. (Len(a) + Len(m)) : am[j] = IF j <= Len(a) THEN a[j] ELSE m[j - Len(a)]
  BY <1>2, <1>4, <1>5, ConcatProperties
<1>7. /\ r \in Seq(S) /\ Len(r) = Len(am) + Len(b)
      /\ \A j \in 1 .. (Len(am) + Len(b)) :
            r[j] = IF j <= Len(am) THEN am[j] ELSE b[j - Len(am)]
  <2>1. r = am \o b /\ am \in Seq(S) /\ b \in Seq(S)
    BY <1>3, <1>5, <1>6
  <2> QED BY <2>1, ConcatProperties
<1>8. Len(am) = i /\ Len(r) = Len(s) + 1
  BY <1>1, <1>2, <1>3, <1>4, <1>6, <1>7
<1>9. ASSUME NEW j \in 1 .. (Len(s) + 1)
      PROVE  r[j] = IF j < i THEN s[j] ELSE IF j = i THEN e ELSE s[j - 1]
  <2>1. r[j] = IF j <= i THEN am[j] ELSE b[j - i]
    BY <1>1, <1>7, <1>8
  <2>2. CASE j < i
    <3>1. j \in 1 .. (i - 1) /\ j \in 1 .. (Len(a) + Len(m)) /\ j <= Len(a)
      BY <1>1, <1>2, <1>4, <2>2
    <3>2. am[j] = a[j] /\ a[j] = s[j]
      BY <1>2, <1>6, <3>1
    <3> QED BY <1>1, <2>1, <2>2, <3>2
  <2>3. CASE j = i
    <3>1. i \in 1 .. (Len(a) + Len(m)) /\ ~(i <= Len(a)) /\ i - Len(a) = 1
      BY <1>1, <1>2, <1>4
    <3>2. am[i] = e
      BY <1>4, <1>6, <3>1
    <3> QED BY <1>1, <2>1, <2>3, <3>2
  <2>4. CASE j > i
    <3>1. j - i \in 1 .. (Len(s) - (i - 1)) /\ (i - 1) + (j - i) = j - 1
      BY <1>1, <2>4
    <3>2. b[j - i] = s[j - 1]
      BY <1>3, <3>1
    <3> QED BY <1>1, <2>1, <2>4, <3>2
  <2> QED BY <1>1, <2>2, <2>3, <2>4
<1> QED
  BY <1>7, <1>8, <1>9 DEF r

\* What is left of a sequence has its elements.
LEMMA SubsequenceFacts ==
    ASSUME NEW S, NEW s \in Seq(S), NEW t \in Subsequences(s)
    PROVE  /\ t \in Seq(S) /\ Len(t) \in Nat /\ Len(t) <= Len(s)
           /\ \A i \in 1 .. Len(t) : \E j \in 1 .. Len(s) : t[i] = s[j]
<1>0. PICK n \in 0 .. Len(s) : \E f \in [1 .. n -> DOMAIN s] : t = [i \in 1 .. n |-> s[f[i]]]
  BY DEF Subsequences
<1>1. PICK f \in [1 .. n -> DOMAIN s] : t = [i \in 1 .. n |-> s[f[i]]]
  BY <1>0
<1>2. n \in Nat /\ DOMAIN s = 1 .. Len(s) /\ n <= Len(s)
  BY LenProperties
<1>3. \A i \in 1 .. n : f[i] \in 1 .. Len(s) /\ s[f[i]] \in S
  BY <1>2, ElementOfSeq
<1>4. t \in [1 .. n -> S]
  BY <1>1, <1>3
<1>5. t \in Seq(S)
  BY <1>2, <1>4, SeqDef
<1>6. Len(t) = n
  BY <1>2, <1>4, <1>5, LenProperties
<1> QED
  BY <1>1, <1>2, <1>3, <1>5, <1>6

-----------------------------------------------------------------------------
(* Methods that end in one way *)

\* An assertion that holds changes nothing.
LEMMA CheckHolds ==
    ASSUME NEW p \in Pools, ~p.failed, NEW c \in BOOLEAN, c
    PROVE  Check(p, c) = p
<1>1. (p.failed \/ ~c) = p.failed
  BY PoolFields
<1>2. Check(p, c) = [p EXCEPT !.failed = p.failed]
  BY <1>1 DEF Check
<1> QED
  BY <1>2 DEF Pools

LEMMA GetOrCreateGroupCore ==
    ASSUME NEW p, Core(p), NEW g \in Groups, NEW h
    PROVE  LET q == GetOrCreateGroup(p, g) IN
           /\ Core(q) /\ Undisturbed(p, q, h) /\ g \in q.group_map
           /\ q.groups = p.groups /\ q.handles = p.handles
           /\ q.idle = p.idle /\ Total(q) = Total(p)
           /\ q.group_map = p.group_map \cup {g}
<1> DEFINE q == GetOrCreateGroup(p, g)
           map == p.group_map \cup {g}
           gr == p.groups[g]
<1>1. p \in Pools /\ ~p.failed /\ map \in SUBSET Groups
  BY PoolFields DEF Core
<1>2. q = [p EXCEPT !.group_map = map]
  BY DEF GetOrCreateGroup
<1>3. /\ q.groups = p.groups /\ q.group_map = map /\ q.idle = p.idle
      /\ q.connecting = p.connecting /\ q.handed_out = p.handed_out
      /\ q.generation = p.generation /\ q.callbacks = p.callbacks /\ q.tasks = p.tasks
      /\ q.handles = p.handles /\ q.failed = p.failed
  BY <1>1, <1>2 DEF Pools
<1>4. q \in Pools
  BY <1>1, <1>2 DEF Pools
<1>5. gr \in SocketGroups /\ GroupOK(gr, p.generation)
  BY <1>1, PoolFields DEF Core, GroupsInv
<1>6. Len(gr.idle_sockets) \in Nat /\ Len(gr.jobs) \in Nat /\ p.idle \in Nat /\ p.connecting \in Nat
  BY <1>1, <1>5, GroupFields, PoolFields
<1> HIDE DEF q
<1>7. Regroups(p, q, g, gr)
  BY <1>3, <1>4, <1>5, <1>6 DEF Regroups
<1>8. Total(q) = Total(p) /\ Room(q, gr)
  BY <1>3 DEF Total, Room, Core, LimitsInv
<1> QED
  BY <1>3, <1>7, <1>8, RegroupsCore DEF q

\* The sizes of a pool, its groups and its limits.
LEMMA Sizes ==
    ASSUME NEW p, Core(p)
    PROVE  /\ p \in Pools /\ ~p.failed /\ Total(p) \in Nat
           /\ \A g \in Groups :
                /\ p.groups[g] \in SocketGroups /\ GroupOK(p.groups[g], p.generation)
                /\ NumActiveSocketSlots(p.groups[g]) \in Nat
                /\ g \notin p.group_map => p.groups[g] = NewGroup
                /\ Len(p.groups[g].idle_sockets) <= p.idle
                /\ Len(p.groups[g].jobs) <= p.connecting
<1>1. p \in Pools /\ ~p.failed
  BY DEF Core
<1>2. Total(p) \in Nat
  BY <1>1, PoolFields DEF Total
<1>3. ASSUME NEW g \in Groups
      PROVE  /\ p.groups[g] \in SocketGroups /\ GroupOK(p.groups[g], p.generation)
             /\ NumActiveSocketSlots(p.groups[g]) \in Nat
             /\ g \notin p.group_map => p.groups[g] = NewGroup
  <2>1. p.groups[g] \in SocketGroups
    BY <1>1, PoolFields
  <2>2. NumActiveSocketSlots(p.groups[g]) \in Nat
    <3> DEFINE a == p.groups[g].active_socket_count
               j == Len(p.groups[g].jobs)
               m == Len(p.groups[g].idle_sockets)
    <3>1. a \in Nat /\ j \in Nat /\ m \in Nat
      BY <2>1, GroupFields
    <3>2. NumActiveSocketSlots(p.groups[g]) = a + j + m
      BY DEF NumActiveSocketSlots
    <3> HIDE DEF a, j, m
    <3> QED BY <3>1, <3>2
  <2> QED
    BY <2>1, <2>2 DEF Core, GroupsInv
<1>4. ASSUME NEW g \in Groups
      PROVE  Len(p.groups[g].idle_sockets) <= p.idle /\ Len(p.groups[g].jobs) <= p.connecting
  <2>1. IdleOf(p) \in [Groups -> Nat] /\ JobsOf(p) \in [Groups -> Nat]
    BY <1>3, GroupFields DEF IdleOf, JobsOf
  <2>2. ASSUME NEW a \in [Groups -> Nat] PROVE SumFunction(a) >= a[g]
    <3>1. IsFiniteSet(Groups)
      BY PoolAssumption
    <3>2. \A x \in Groups : SumFunction(a) >= a[x]
      BY <3>1, SumPositive, ZenonT(20)
    <3> QED BY <3>2
  <2>3. p.idle >= IdleOf(p)[g] /\ p.connecting >= JobsOf(p)[g]
    BY <2>1, <2>2 DEF Core, CountsInv
  <2>4. IdleOf(p)[g] = Len(p.groups[g].idle_sockets) /\ JobsOf(p)[g] = Len(p.groups[g].jobs)
    BY DEF IdleOf, JobsOf
  <2>5. /\ p.idle \in Nat /\ p.connecting \in Nat
        /\ IdleOf(p)[g] \in Nat /\ JobsOf(p)[g] \in Nat
    BY <1>1, <2>1, PoolFields
  <2> QED
    BY <2>3, <2>4, <2>5
<1> QED
  BY <1>1, <1>2, <1>3, <1>4

\* Where there is an idle socket, a group has it.
LEMMA SomeIdle ==
    ASSUME NEW p, Core(p)
    PROVE  p.idle > 0 <=> \E g \in Groups : p.groups[g].idle_sockets # <<>>
<1>1. IdleOf(p) \in [Groups -> Nat]
  BY Sizes, GroupFields DEF IdleOf
<1>2. ASSUME NEW a \in [Groups -> Nat]
      PROVE  SumFunction(a) \in Nat /\ (SumFunction(a) = 0 <=> \A g \in Groups : a[g] = 0)
  BY PoolAssumption, SumPositive
<1>3. p.idle \in Nat /\ (p.idle = 0 <=> \A g \in Groups : IdleOf(p)[g] = 0)
  BY <1>1, <1>2 DEF Core, CountsInv
<1>4. ASSUME NEW g \in Groups PROVE IdleOf(p)[g] = 0 <=> p.groups[g].idle_sockets = <<>>
  <2>1. p.groups[g].idle_sockets \in Seq(Generations)
    BY Sizes, GroupFields
  <2> QED BY <2>1, EmptyIffLenZero DEF IdleOf
<1> QED
  BY <1>3, <1>4

LEMMA EmptyGroup ==
    ASSUME NEW gr \in SocketGroups, NEW n, GroupOK(gr, n), IsEmpty(gr)
    PROVE  /\ gr.unassigned_job_count = 0 /\ Len(gr.jobs) = 0 /\ Len(gr.idle_sockets) = 0
           /\ gr.pending_requests = <<>> /\ gr.active_socket_count = 0
           /\ gr.backup_job_timer = FALSE
<1>1. /\ gr.jobs = <<>> /\ gr.idle_sockets = <<>>
      /\ gr.pending_requests = <<>> /\ gr.active_socket_count = 0
  BY DEF IsEmpty
<1>2. Len(gr.jobs) = 0 /\ Len(gr.idle_sockets) = 0
  BY <1>1, EmptySeq
<1>3. gr.unassigned_job_count \in Nat /\ gr.backup_job_timer \in BOOLEAN
  BY GroupFields
<1> QED
  BY <1>1, <1>2, <1>3 DEF GroupOK

\* It is as new.
LEMMA EmptyIsNew ==
    ASSUME NEW gr \in SocketGroups, NEW n, GroupOK(gr, n), IsEmpty(gr)
    PROVE  gr = NewGroup
<1>1. /\ gr.unassigned_job_count = 0 /\ gr.pending_requests = <<>> /\ gr.active_socket_count = 0
      /\ gr.backup_job_timer = FALSE
  BY EmptyGroup
<1>2. gr.jobs = <<>> /\ gr.idle_sockets = <<>>
  BY DEF IsEmpty
<1> QED
  BY <1>1, <1>2 DEF NewGroup, SocketGroups

\* An empty group is deleted.
Shrunk(p, q, g) ==
    /\ \A k \in Groups \ {g} : q.groups[k] = p.groups[k]
    /\ ~IsEmpty(p.groups[g]) => q = p
    /\ IsEmpty(p.groups[g]) => q = RemoveGroup(p, g)
    /\ q.groups = p.groups /\ q.handles = p.handles /\ q.idle = p.idle
    /\ q.connecting = p.connecting /\ q.handed_out = p.handed_out /\ Total(q) = Total(p)
    /\ q.groups[g].idle_sockets = p.groups[g].idle_sockets
    /\ \A k \in Groups \ {g} : k \in q.group_map <=> k \in p.group_map

LEMMA RemoveIfEmptyCore ==
    ASSUME NEW p, Core(p), NEW g \in p.group_map, NEW h
    PROVE  LET q == RemoveIfEmpty(p, g) IN
           Core(q) /\ Undisturbed(p, q, h) /\ Shrunk(p, q, g)
<1> DEFINE q == RemoveIfEmpty(p, g)
           old == p.groups[g]
<1>0. g \in Groups /\ p \in Pools /\ ~p.failed /\ old \in SocketGroups /\ GroupOK(old, p.generation)
  BY Sizes, PoolFields
<1>1. CASE ~IsEmpty(old)
  <2>1. q = p
    BY <1>1 DEF RemoveIfEmpty
  <2>2. Undisturbed(p, p, h)
    BY DEF Undisturbed
  <2> QED BY <1>1, <2>1, <2>2 DEF Shrunk
<1>2. CASE IsEmpty(old)
  <2> DEFINE map == p.group_map \ {g}
             c == g \in p.group_map /\ p.groups[g].unassigned_job_count = 0
  <2>1. /\ old.unassigned_job_count = 0 /\ Len(old.jobs) = 0 /\ Len(old.idle_sockets) = 0
        /\ old.pending_requests = <<>> /\ old.active_socket_count = 0
    BY <1>0, <1>2, EmptyGroup
  <2>2. c \in BOOLEAN /\ c
    BY <2>1
  <2>3. q = [Check(p, c) EXCEPT !.group_map = @ \ {g}, !.groups[g] = NewGroup]
    BY <1>2 DEF RemoveIfEmpty, RemoveGroup
  <2>4. Check(p, c) = p
    <3> HIDE DEF c
    <3> QED BY <1>0, <2>2, CheckHolds
  <2> HIDE DEF c
  <2>5. q = [p EXCEPT !.group_map = map, !.groups[g] = NewGroup]
    BY <2>3, <2>4
  <2>6. map \in SUBSET Groups /\ NewGroup \in SocketGroups
    BY <1>0, PoolFields, NewGroupFields
  <2> HIDE DEF q
  <2>7. /\ q.groups = [p.groups EXCEPT ![g] = NewGroup] /\ q.group_map = map /\ q.idle = p.idle
        /\ q.connecting = p.connecting /\ q.handed_out = p.handed_out
        /\ q.generation = p.generation /\ q.callbacks = p.callbacks /\ q.tasks = p.tasks
        /\ q.handles = p.handles /\ q.failed = p.failed
    BY <1>0, <2>5 DEF Pools
  <2>8. q \in Pools
    BY <1>0, <2>5, <2>6 DEF Pools
  <2>9. q.groups[g] = NewGroup /\ \A k \in Groups \ {g} : q.groups[k] = p.groups[k]
    BY <1>0, <2>7, PoolFields
  <2>10. GroupOK(NewGroup, p.generation) /\ Len(NewGroup.idle_sockets) = 0 /\ Len(NewGroup.jobs) = 0
    BY NewGroupFields, EmptySeq DEF GroupOK
  <2>11. p.idle \in Nat /\ p.connecting \in Nat
    BY <1>0, PoolFields
  <2>12. Regroups(p, q, g, NewGroup)
    BY <2>1, <2>6, <2>7, <2>8, <2>9, <2>10, <2>11, NewGroupFields DEF Regroups
  <2>13. Total(q) = Total(p) /\ Room(q, NewGroup)
    <3>1. NumActiveSocketSlots(NewGroup) = 0
      BY <2>10, NewGroupFields DEF NumActiveSocketSlots
    <3> QED
      BY <2>7, <3>1, PoolAssumption DEF Total, Room, Core, LimitsInv
  <2>14. q.groups[g].idle_sockets = p.groups[g].idle_sockets
    BY <1>2, <2>9, NewGroupFields DEF IsEmpty
  <2>15. q = RemoveGroup(p, g)
    BY <1>2 DEF q, RemoveIfEmpty
  <2>17. q.groups = p.groups
    <3>1. p.groups[g] = NewGroup /\ p.groups \in [Groups -> SocketGroups]
      BY <1>0, <1>2, EmptyIsNew, PoolFields
    <3> QED BY <1>0, <2>7, <3>1
  <2>16. Core(q) /\ Undisturbed(p, q, h)
    BY <1>0, <2>12, <2>13, RegroupsCore
  <2> QED
    BY <1>2, <2>7, <2>9, <2>13, <2>14, <2>15, <2>16, <2>17 DEF q, Shrunk
<1> QED
  BY <1>1, <1>2

\* Group g may have another socket.
RoomForOne(p, g) ==
    IgnoreLimits = {} => Total(p) < MaxSockets /\ HasAvailableSocketSlot(p.groups[g])

\* The pool with another group g and other counters.
Placed(p, g, gr, i, c) == [p EXCEPT !.groups[g] = gr, !.idle = i, !.connecting = c]

LEMMA PlacedFields ==
    ASSUME NEW p \in Pools, NEW g \in Groups, NEW gr \in SocketGroups, NEW i \in Nat, NEW c \in Nat,
           NEW q, q = Placed(p, g, gr, i, c)
    PROVE  /\ q \in Pools /\ q.groups[g] = gr
           /\ \A k \in Groups \ {g} : q.groups[k] = p.groups[k]
           /\ q.idle = i /\ q.connecting = c /\ q.handed_out = p.handed_out
           /\ q.generation = p.generation /\ q.callbacks = p.callbacks /\ q.tasks = p.tasks
           /\ q.handles = p.handles /\ q.failed = p.failed /\ q.group_map = p.group_map
<1>1. q = [p EXCEPT !.groups[g] = gr, !.idle = i, !.connecting = c]
  BY DEF Placed
<1>2. /\ q.groups = [p.groups EXCEPT ![g] = gr] /\ q.group_map = p.group_map
      /\ q.idle = i /\ q.connecting = c /\ q.handed_out = p.handed_out
      /\ q.generation = p.generation /\ q.callbacks = p.callbacks /\ q.tasks = p.tasks
      /\ q.handles = p.handles /\ q.failed = p.failed
  BY <1>1 DEF Pools
<1>3. q \in Pools
  <2>1. [p EXCEPT !.groups[g] = gr, !.idle = i, !.connecting = c] \in Pools
    BY DEF Pools
  <2> QED BY <1>1, <2>1
<1>4. q.groups[g] = gr /\ \A k \in Groups \ {g} : q.groups[k] = p.groups[k]
  BY <1>2, PoolFields
<1> QED
  BY <1>2, <1>3, <1>4

\* A group may become gr and the counters i and c.
Fits(p, g, gr, i, c) ==
    /\ gr \in SocketGroups /\ GroupOK(gr, p.generation) /\ i \in Nat /\ c \in Nat
    /\ gr.active_socket_count = p.groups[g].active_socket_count
    /\ gr.pending_requests = p.groups[g].pending_requests
    /\ i = p.idle + (Len(gr.idle_sockets) - Len(p.groups[g].idle_sockets))
    /\ c = p.connecting + (Len(gr.jobs) - Len(p.groups[g].jobs))
    /\ IgnoreLimits = {} => /\ p.handed_out + c + i <= MaxSockets
                            /\ NumActiveSocketSlots(gr) <= MaxSocketsPerGroup

\* It has become so.
Replaced(p, q, g, gr, i, c) ==
    /\ q.groups[g] = gr /\ \A k \in Groups \ {g} : q.groups[k] = p.groups[k]
    /\ q.group_map = p.group_map /\ q.handles = p.handles
    /\ q.idle = i /\ q.connecting = c /\ q.handed_out = p.handed_out

LEMMA PlacedCore ==
    ASSUME NEW p, Core(p), NEW g \in p.group_map, NEW gr, NEW i, NEW c, NEW h,
           Fits(p, g, gr, i, c), NEW q, q = Placed(p, g, gr, i, c)
    PROVE  Core(q) /\ Undisturbed(p, q, h) /\ Replaced(p, q, g, gr, i, c)
<1>1. p \in Pools /\ g \in Groups
  BY Sizes, PoolFields
<1>2. gr \in SocketGroups /\ i \in Nat /\ c \in Nat
  BY DEF Fits
<1>3. /\ q \in Pools /\ q.groups[g] = gr
      /\ \A k \in Groups \ {g} : q.groups[k] = p.groups[k]
      /\ q.idle = i /\ q.connecting = c /\ q.handed_out = p.handed_out
      /\ q.generation = p.generation /\ q.callbacks = p.callbacks /\ q.tasks = p.tasks
      /\ q.handles = p.handles /\ q.failed = p.failed /\ q.group_map = p.group_map
  BY <1>1, <1>2, PlacedFields
<1>4. Regroups(p, q, g, gr)
  BY <1>3 DEF Regroups, Fits
<1>5. Room(q, gr)
  <2>1. Total(q) = p.handed_out + c + i
    BY <1>3 DEF Total
  <2> QED BY <2>1 DEF Room, Fits
<1>6. Core(q) /\ Undisturbed(p, q, h)
  BY <1>1, <1>4, <1>5, RegroupsCore
<1> QED
  BY <1>3, <1>6 DEF Replaced

\* Group g has a sockets handed out, j jobs, i idle sockets and u jobs for nobody more than
\* before, and the counters follow.
Moves(p, q, g, a, j, i, u) ==
    /\ \A k \in Groups \ {g} : q.groups[k] = p.groups[k]
    /\ q.groups[g].active_socket_count = p.groups[g].active_socket_count + a
    /\ Len(q.groups[g].jobs) = Len(p.groups[g].jobs) + j
    /\ Len(q.groups[g].idle_sockets) = Len(p.groups[g].idle_sockets) + i
    /\ q.groups[g].unassigned_job_count = p.groups[g].unassigned_job_count + u
    /\ q.handed_out = p.handed_out + a /\ q.connecting = p.connecting + j /\ q.idle = p.idle + i

LEMMA ReplacedMoves ==
    ASSUME NEW p, Core(p), NEW g \in Groups, NEW gr, NEW n, NEW c, NEW q, NEW j \in Int, NEW i \in Int,
           NEW u \in Int, Fits(p, g, gr, n, c), Replaced(p, q, g, gr, n, c),
           Len(gr.jobs) = Len(p.groups[g].jobs) + j,
           Len(gr.idle_sockets) = Len(p.groups[g].idle_sockets) + i,
           gr.unassigned_job_count = p.groups[g].unassigned_job_count + u
    PROVE  Moves(p, q, g, 0, j, i, u)
<1> DEFINE old == p.groups[g]
           x == Len(old.jobs)
           y == Len(old.idle_sockets)
           v == Len(gr.jobs)
           w == Len(gr.idle_sockets)
<1>1. /\ old.active_socket_count \in Nat /\ x \in Nat /\ y \in Nat
      /\ p.handed_out \in Nat /\ p.connecting \in Nat /\ p.idle \in Nat
  BY Sizes, GroupFields, PoolFields
<1>2. /\ q.groups[g] = gr /\ \A k \in Groups \ {g} : q.groups[k] = p.groups[k]
      /\ q.idle = n /\ q.connecting = c /\ q.handed_out = p.handed_out
  BY DEF Replaced
<1>3. /\ gr.active_socket_count = old.active_socket_count
      /\ n = p.idle + (w - y) /\ c = p.connecting + (v - x)
  BY DEF Fits
<1>4. n = p.idle + i /\ c = p.connecting + j
  <2>1. w = y + i /\ v = x + j
    OBVIOUS
  <2> HIDE DEF x, y, v, w
  <2> QED BY <1>1, <1>3, <2>1
<1>5. /\ old.active_socket_count + 0 = old.active_socket_count
      /\ p.handed_out + 0 = p.handed_out
  BY <1>1
<1>6. /\ q.groups[g].active_socket_count = old.active_socket_count + 0
      /\ Len(q.groups[g].jobs) = Len(old.jobs) + j
      /\ Len(q.groups[g].idle_sockets) = Len(old.idle_sockets) + i
      /\ q.groups[g].unassigned_job_count = old.unassigned_job_count + u
  BY <1>2, <1>3, <1>5, Zenon
<1> QED
  BY <1>2, <1>4, <1>5, <1>6, Zenon DEF Moves

\* Steps of one group add up.
LEMMA Added ==
    ASSUME NEW e \in Nat, NEW m \in Int, NEW n \in Int, NEW s, NEW t, s = e + m, t = s + n
    PROVE  t = e + (m + n)
OBVIOUS

LEMMA MovesTrans ==
    ASSUME NEW p, Core(p), NEW g \in Groups, NEW q, NEW r,
           NEW a \in Int, NEW j \in Int, NEW i \in Int, NEW u \in Int,
           NEW b \in Int, NEW k \in Int, NEW l \in Int, NEW v \in Int,
           Moves(p, q, g, a, j, i, u), Moves(q, r, g, b, k, l, v)
    PROVE  Moves(p, r, g, a + b, j + k, i + l, u + v)
<1>1. \A f \in Groups \ {g} : r.groups[f] = p.groups[f]
  BY DEF Moves
<1>2. r.groups[g].active_socket_count = p.groups[g].active_socket_count + (a + b)
  <2> DEFINE e == p.groups[g].active_socket_count
             s == q.groups[g].active_socket_count
             t == r.groups[g].active_socket_count
  <2>1. e \in Nat
    BY Sizes, GroupFields, PoolFields
  <2>3. s = e + a /\ t = s + b
    BY Zenon DEF Moves
  <2> HIDE DEF e, s, t
  <2>2. t = e + (a + b)
    BY <2>1, <2>3, Added
  <2> QED BY <2>2 DEF e, t
<1>3. Len(r.groups[g].jobs) = Len(p.groups[g].jobs) + (j + k)
  <2> DEFINE e == Len(p.groups[g].jobs)
             s == Len(q.groups[g].jobs)
             t == Len(r.groups[g].jobs)
  <2>1. e \in Nat
    BY Sizes, GroupFields, PoolFields
  <2>3. s = e + j /\ t = s + k
    BY Zenon DEF Moves
  <2> HIDE DEF e, s, t
  <2>2. t = e + (j + k)
    BY <2>1, <2>3, Added
  <2> QED BY <2>2 DEF e, t
<1>4. Len(r.groups[g].idle_sockets) = Len(p.groups[g].idle_sockets) + (i + l)
  <2> DEFINE e == Len(p.groups[g].idle_sockets)
             s == Len(q.groups[g].idle_sockets)
             t == Len(r.groups[g].idle_sockets)
  <2>1. e \in Nat
    BY Sizes, GroupFields, PoolFields
  <2>3. s = e + i /\ t = s + l
    BY Zenon DEF Moves
  <2> HIDE DEF e, s, t
  <2>2. t = e + (i + l)
    BY <2>1, <2>3, Added
  <2> QED BY <2>2 DEF e, t
<1>5. r.groups[g].unassigned_job_count = p.groups[g].unassigned_job_count + (u + v)
  <2> DEFINE e == p.groups[g].unassigned_job_count
             s == q.groups[g].unassigned_job_count
             t == r.groups[g].unassigned_job_count
  <2>1. e \in Nat
    BY Sizes, GroupFields, PoolFields
  <2>3. s = e + u /\ t = s + v
    BY Zenon DEF Moves
  <2> HIDE DEF e, s, t
  <2>2. t = e + (u + v)
    BY <2>1, <2>3, Added
  <2> QED BY <2>2 DEF e, t
<1>6. r.handed_out = p.handed_out + (a + b)
  <2> DEFINE e == p.handed_out
             s == q.handed_out
             t == r.handed_out
  <2>1. e \in Nat
    BY Sizes, GroupFields, PoolFields
  <2>3. s = e + a /\ t = s + b
    BY Zenon DEF Moves
  <2> HIDE DEF e, s, t
  <2>2. t = e + (a + b)
    BY <2>1, <2>3, Added
  <2> QED BY <2>2 DEF e, t
<1>7. r.connecting = p.connecting + (j + k)
  <2> DEFINE e == p.connecting
             s == q.connecting
             t == r.connecting
  <2>1. e \in Nat
    BY Sizes, GroupFields, PoolFields
  <2>3. s = e + j /\ t = s + k
    BY Zenon DEF Moves
  <2> HIDE DEF e, s, t
  <2>2. t = e + (j + k)
    BY <2>1, <2>3, Added
  <2> QED BY <2>2 DEF e, t
<1>8. r.idle = p.idle + (i + l)
  <2> DEFINE e == p.idle
             s == q.idle
             t == r.idle
  <2>1. e \in Nat
    BY Sizes, GroupFields, PoolFields
  <2>3. s = e + i /\ t = s + l
    BY Zenon DEF Moves
  <2> HIDE DEF e, s, t
  <2>2. t = e + (i + l)
    BY <2>1, <2>3, Added
  <2> QED BY <2>2 DEF e, t
<1> QED
  BY <1>1, <1>2, <1>3, <1>4, <1>5, <1>6, <1>7, <1>8, Zenon DEF Moves

LEMMA AddIdleSocketCore ==
    ASSUME NEW p, Core(p), NEW g \in p.group_map, NEW h, RoomForOne(p, g)
    PROVE  LET q == AddIdleSocket(p, g, p.generation) IN
           /\ Core(q) /\ Undisturbed(p, q, h)
           /\ \A k \in Groups \ {g} : q.groups[k] = p.groups[k]
           /\ q.group_map = p.group_map /\ q.handles = p.handles
           /\ q.groups[g].idle_sockets # <<>>
           /\ Moves(p, q, g, 0, 0, 1, 0)
<1> DEFINE q == AddIdleSocket(p, g, p.generation)
           old == p.groups[g]
           s == Append(old.idle_sockets, p.generation)
           gr == [old EXCEPT !.idle_sockets = s]
           n == Len(old.idle_sockets)
           i == p.idle + 1
<1>0. /\ g \in Groups /\ p \in Pools /\ old \in SocketGroups
      /\ GroupOK(old, p.generation) /\ p.generation \in Generations
      /\ p.idle \in Nat /\ p.connecting \in Nat /\ p.handed_out \in Nat
  BY Sizes, PoolFields
<1>1. /\ s \in Seq(Generations) /\ Len(s) = n + 1 /\ s # <<>> /\ n \in Nat
      /\ \A k \in 1 .. Len(s) : s[k] = p.generation
  <2>1. old.idle_sockets \in Seq(Generations)
    BY <1>0, GroupFields
  <2>2. /\ s \in Seq(Generations) /\ Len(s) = n + 1 /\ n \in Nat
        /\ \A k \in 1 .. n : s[k] = old.idle_sockets[k]
        /\ s[n + 1] = p.generation
    BY <1>0, <2>1, AppendProperties, LenProperties, SMTT(30)
  <2> HIDE DEF s
  <2>3. s # <<>>
    BY <2>2, EmptySeq
  <2> QED BY <1>0, <2>2, <2>3 DEF GroupOK
<1>2. q = Placed(p, g, gr, i, p.connecting)
  BY <1>0 DEF AddIdleSocket, Placed, Pools, SocketGroups
<1> HIDE DEF s
<1>3. gr \in SocketGroups
  BY <1>0, <1>1 DEF SocketGroups
<1>4. /\ gr.jobs = old.jobs /\ gr.unassigned_job_count = old.unassigned_job_count
      /\ gr.idle_sockets = s /\ gr.pending_requests = old.pending_requests
      /\ gr.active_socket_count = old.active_socket_count
      /\ gr.backup_job_timer = old.backup_job_timer
  BY <1>0 DEF SocketGroups
<1> HIDE DEF gr
<1>5. GroupOK(gr, p.generation)
  BY <1>0, <1>1, <1>4 DEF GroupOK
<1>6. NumActiveSocketSlots(gr) = NumActiveSocketSlots(old) + 1
  <2> DEFINE a == old.active_socket_count
             j == Len(old.jobs)
  <2>1. NumActiveSocketSlots(gr) = a + j + (n + 1) /\ NumActiveSocketSlots(old) = a + j + n
    BY <1>1, <1>4 DEF NumActiveSocketSlots
  <2>2. a \in Nat /\ j \in Nat /\ n \in Nat
    BY <1>0, <1>1, GroupFields
  <2> HIDE DEF a, j, n
  <2> QED BY <2>1, <2>2
<1>7. IgnoreLimits = {} => /\ p.handed_out + p.connecting + i <= MaxSockets
                           /\ NumActiveSocketSlots(gr) <= MaxSocketsPerGroup
  <2>1. NumActiveSocketSlots(old) \in Nat /\ MaxSockets \in Nat /\ MaxSocketsPerGroup \in Nat
    BY <1>0, Sizes, PoolAssumption
  <2> QED BY <1>0, <1>6, <2>1 DEF Total, RoomForOne, HasAvailableSocketSlot
<1>8. /\ i = p.idle + (Len(gr.idle_sockets) - Len(old.idle_sockets))
      /\ p.connecting = p.connecting + (Len(gr.jobs) - Len(old.jobs)) /\ i \in Nat
  <2>1. Len(old.jobs) \in Nat
    BY <1>0, GroupFields
  <2> QED BY <1>0, <1>1, <1>4, <2>1, SMTT(30)
<1> HIDE DEF q
<1> HIDE DEF i
<1>9. Fits(p, g, gr, i, p.connecting)
  BY <1>0, <1>3, <1>4, <1>5, <1>7, <1>8 DEF Fits
<1>10. Core(q) /\ Undisturbed(p, q, h) /\ Replaced(p, q, g, gr, i, p.connecting)
  BY <1>2, <1>9, PlacedCore
<1>11. Moves(p, q, g, 0, 0, 1, 0)
  <2>1. /\ Len(gr.jobs) = Len(old.jobs) + 0 /\ Len(gr.idle_sockets) = Len(old.idle_sockets) + 1
        /\ gr.unassigned_job_count = old.unassigned_job_count + 0
    BY <1>0, <1>1, <1>4, GroupFields
  <2> QED BY <1>0, <1>9, <1>10, <2>1, ReplacedMoves
<1> QED
  BY <1>1, <1>4, <1>10, <1>11 DEF q, Replaced

\* A job ends; the backup timer stops with the last one.
LEMMA RemoveConnectJobCore ==
    ASSUME NEW p, Core(p), NEW g \in Groups, NEW i \in DOMAIN p.groups[g].jobs, NEW h
    PROVE  LET q == RemoveConnectJob(p, g, i) IN
           /\ Core(q) /\ Undisturbed(p, q, h) /\ g \in p.group_map /\ RoomForOne(q, g)
           /\ \A k \in Groups \ {g} : q.groups[k] = p.groups[k]
           /\ q.group_map = p.group_map /\ q.handles = p.handles
           /\ \E d \in Int : d <= 0 /\ Moves(p, q, g, 0, -1, 0, d)
<1> DEFINE q == RemoveConnectJob(p, g, i)
           old == p.groups[g]
           left == RemoveAt(old.jobs, i)
           m == Len(old.jobs)
           u == IF Len(left) < old.unassigned_job_count THEN Len(left) ELSE old.unassigned_job_count
           t == old.backup_job_timer /\ left # <<>>
           gr == [old EXCEPT !.jobs = left, !.unassigned_job_count = u, !.backup_job_timer = t]
           c == p.connecting - 1
<1>0. /\ g \in Groups /\ p \in Pools /\ ~p.failed /\ old \in SocketGroups
      /\ GroupOK(old, p.generation) /\ p.generation \in Generations
      /\ p.idle \in Nat /\ p.connecting \in Nat /\ p.handed_out \in Nat
  BY Sizes, PoolFields
<1>1. /\ left \in Seq(Generations) /\ Len(left) = m - 1 /\ m \in Nat /\ m >= 1
      /\ \A k \in 1 .. Len(left) : left[k] = p.generation
  <2>1. old.jobs \in Seq(Generations) /\ m \in Nat /\ i \in 1 .. m
    BY <1>0, GroupFields, LenProperties
  <2>2. /\ left \in Seq(Generations) /\ Len(left) = m - 1
        /\ \A k \in 1 .. (m - 1) : left[k] = IF k < i THEN old.jobs[k] ELSE old.jobs[k + 1]
    BY <2>1, RemoveAtFacts
  <2>3. \A k \in 1 .. m : old.jobs[k] = p.generation
    BY <1>0 DEF GroupOK
  <2> HIDE DEF left, m
  <2> QED BY <2>1, <2>2, <2>3
<1>2. g \in p.group_map
  <2>1. old # NewGroup
    BY <1>1, NewGroupFields, EmptySeq
  <2> QED BY <2>1, Sizes
<1> HIDE DEF left
<1>3. u \in Nat /\ u <= Len(left) /\ t \in BOOLEAN /\ u <= old.unassigned_job_count
  BY <1>0, <1>1, GroupFields
<1> HIDE DEF u
<1>4. p.connecting > 0 /\ c \in Nat
  <2>1. m <= p.connecting
    BY Sizes
  <2> HIDE DEF m
  <2> QED BY <1>0, <1>1, <2>1
<1>5. q = Placed(p, g, gr, p.idle, c)
  <2>1. Check(p, p.connecting > 0) = p
    <3>1. (p.connecting > 0) \in BOOLEAN
      OBVIOUS
    <3> QED BY <1>0, <1>4, <3>1, CheckHolds
  <2>2. gr = RemoveJob(old, i)
    BY DEF RemoveJob, left, u
  <2>3. q = [p EXCEPT !.connecting = @ - 1, !.groups[g] = RemoveJob(@, i)]
    BY <2>1 DEF RemoveConnectJob
  <2> HIDE DEF gr
  <2> QED BY <1>0, <2>2, <2>3 DEF Placed, Pools
<1> HIDE DEF q, t
<1>6. gr \in SocketGroups
  BY <1>0, <1>1, <1>3 DEF SocketGroups
<1>7. /\ gr.jobs = left /\ gr.unassigned_job_count = u
      /\ gr.idle_sockets = old.idle_sockets /\ gr.pending_requests = old.pending_requests
      /\ gr.active_socket_count = old.active_socket_count /\ gr.backup_job_timer = t
  BY <1>0 DEF SocketGroups
<1> HIDE DEF gr
<1>8. GroupOK(gr, p.generation)
  <2>1. t => left # <<>>
    BY DEF t
  <2> QED BY <1>0, <1>1, <1>3, <1>7, <2>1 DEF GroupOK
<1>9. NumActiveSocketSlots(old) = NumActiveSocketSlots(gr) + 1 /\ NumActiveSocketSlots(gr) \in Nat
  <2> DEFINE a == old.active_socket_count
             j == Len(old.idle_sockets)
  <2>1. NumActiveSocketSlots(gr) = a + (m - 1) + j /\ NumActiveSocketSlots(old) = a + m + j
    BY <1>1, <1>7 DEF NumActiveSocketSlots
  <2>2. a \in Nat /\ j \in Nat
    BY <1>0, GroupFields
  <2>3. m \in Nat /\ m >= 1
    BY <1>1
  <2> HIDE DEF a, j, m
  <2> QED BY <2>1, <2>2, <2>3
<1>10. IgnoreLimits = {} => /\ p.handed_out + c + p.idle < MaxSockets
                            /\ NumActiveSocketSlots(gr) < MaxSocketsPerGroup
  <2>1. IgnoreLimits = {} => /\ p.handed_out + p.connecting + p.idle <= MaxSockets
                             /\ NumActiveSocketSlots(old) <= MaxSocketsPerGroup
    BY <1>0 DEF Core, LimitsInv, Total
  <2>2. MaxSockets \in Nat /\ MaxSocketsPerGroup \in Nat
    BY PoolAssumption
  <2> QED BY <1>0, <1>9, <2>1, <2>2
<1>11. Len(old.idle_sockets) \in Nat
  BY <1>0, GroupFields
<1>12. Fits(p, g, gr, p.idle, c)
  <2>1. p.idle = p.idle + (Len(gr.idle_sockets) - Len(old.idle_sockets))
    BY <1>0, <1>7, <1>11
  <2>2. c = p.connecting + (Len(gr.jobs) - m)
    <3>1. Len(gr.jobs) = m - 1 /\ m \in Nat
      BY <1>1, <1>7
    <3> HIDE DEF m
    <3> QED BY <1>0, <3>1
  <2>3. IgnoreLimits = {} => /\ p.handed_out + c + p.idle <= MaxSockets
                             /\ NumActiveSocketSlots(gr) <= MaxSocketsPerGroup
    BY <1>0, <1>4, <1>9, <1>10, PoolAssumption
  <2> HIDE DEF c
  <2> QED BY <1>0, <1>4, <1>6, <1>7, <1>8, <2>1, <2>2, <2>3 DEF Fits
<1> HIDE DEF c
<1>13. Core(q) /\ Undisturbed(p, q, h) /\ Replaced(p, q, g, gr, p.idle, c)
  BY <1>2, <1>5, <1>12, PlacedCore
<1>14. RoomForOne(q, g)
  BY <1>10, <1>13 DEF RoomForOne, Replaced, Total, HasAvailableSocketSlot
<1>15. \E d \in Int : d <= 0 /\ Moves(p, q, g, 0, -1, 0, d)
  <2> DEFINE d == u - old.unassigned_job_count
  <2>1. /\ Len(gr.jobs) = m + (-1) /\ Len(gr.idle_sockets) = Len(old.idle_sockets) + 0
        /\ gr.unassigned_job_count = old.unassigned_job_count + d
    BY <1>0, <1>1, <1>3, <1>7, GroupFields
  <2>2. d \in Int /\ d <= 0
    BY <1>0, <1>3, GroupFields
  <2> HIDE DEF d
  <2> DEFINE e == -1
  <2>3. e \in Int /\ 0 \in Int /\ Len(gr.jobs) = Len(old.jobs) + e
    BY <2>1
  <2> HIDE DEF e, c
  <2>4. Moves(p, q, g, 0, e, 0, d)
    BY <1>0, <1>12, <1>13, <2>1, <2>2, <2>3, ReplacedMoves
  <2>5. Moves(p, q, g, 0, -1, 0, d)
    BY <2>4 DEF e
  <2> QED BY <2>2, <2>5
<1> QED
  BY <1>2, <1>13, <1>14, <1>15 DEF q, Replaced

\* A new job, for which the backup timer may start or stop.
LEMMA AddConnectJobCore ==
    ASSUME NEW p, Core(p), NEW g \in p.group_map, NEW pre \in BOOLEAN, NEW b \in BOOLEAN, NEW h,
           RoomForOne(p, g)
    PROVE  LET q == AddConnectJob([p EXCEPT !.groups[g].backup_job_timer = b], g, pre) IN
           /\ Core(q) /\ Undisturbed(p, q, h)
           /\ q.group_map = p.group_map /\ q.handles = p.handles
           /\ Len(q.groups[g].jobs) \in DOMAIN q.groups[g].jobs
           /\ Moves(p, q, g, 0, 1, 0, IF pre THEN 1 ELSE 0)
<1> DEFINE q == AddConnectJob([p EXCEPT !.groups[g].backup_job_timer = b], g, pre)
           old == p.groups[g]
           jobs == Append(old.jobs, p.generation)
           m == Len(old.jobs)
           n == IF pre THEN old.unassigned_job_count + 1 ELSE old.unassigned_job_count
           gr == [old EXCEPT !.jobs = jobs, !.unassigned_job_count = n, !.backup_job_timer = b]
           c == p.connecting + 1
<1>0. /\ g \in Groups /\ p \in Pools /\ ~p.failed /\ old \in SocketGroups
      /\ GroupOK(old, p.generation) /\ p.generation \in Generations
      /\ p.idle \in Nat /\ p.connecting \in Nat /\ p.handed_out \in Nat
  BY Sizes, PoolFields
<1>1. /\ jobs \in Seq(Generations) /\ Len(jobs) = m + 1 /\ m \in Nat /\ jobs # <<>>
      /\ \A i \in 1 .. Len(jobs) : jobs[i] = p.generation
  <2>1. old.jobs \in Seq(Generations)
    BY <1>0, GroupFields
  <2>2. /\ jobs \in Seq(Generations) /\ Len(jobs) = m + 1 /\ m \in Nat
        /\ \A i \in 1 .. m : jobs[i] = old.jobs[i]
        /\ jobs[m + 1] = p.generation
    BY <1>0, <2>1, AppendProperties, LenProperties, SMTT(30)
  <2> HIDE DEF jobs
  <2>3. jobs # <<>>
    BY <2>2, EmptySeq
  <2> QED BY <1>0, <2>2, <2>3, SMTT(30) DEF GroupOK
<1>2. q = Placed(p, g, gr, p.idle, c)
  <2>1. q = [p EXCEPT !.connecting = c, !.groups[g] = AddJobToGroup(
                [old EXCEPT !.backup_job_timer = b], p.generation, pre)]
    BY <1>0 DEF AddConnectJob, Pools
  <2>2. gr = AddJobToGroup([old EXCEPT !.backup_job_timer = b], p.generation, pre)
    BY <1>0 DEF AddJobToGroup, SocketGroups
  <2> HIDE DEF gr, c, q
  <2> QED BY <1>0, <2>1, <2>2 DEF Placed, Pools
<1> HIDE DEF jobs
<1>3. n \in Nat /\ n <= Len(jobs) /\ n = old.unassigned_job_count + (IF pre THEN 1 ELSE 0)
  <2>1. old.unassigned_job_count \in Nat /\ old.unassigned_job_count <= m
    BY <1>0, GroupFields DEF GroupOK
  <2> HIDE DEF m
  <2> QED BY <1>1, <2>1
<1> HIDE DEF n
<1>4. gr \in SocketGroups
  BY <1>0, <1>1, <1>3 DEF SocketGroups
<1>5. /\ gr.jobs = jobs /\ gr.unassigned_job_count = n /\ gr.idle_sockets = old.idle_sockets
      /\ gr.pending_requests = old.pending_requests
      /\ gr.active_socket_count = old.active_socket_count
  BY <1>0 DEF SocketGroups
<1> HIDE DEF gr, q
<1>6. GroupOK(gr, p.generation)
  BY <1>0, <1>1, <1>3, <1>5 DEF GroupOK
<1>7. NumActiveSocketSlots(gr) = NumActiveSocketSlots(old) + 1 /\ NumActiveSocketSlots(old) \in Nat
  <2> DEFINE a == old.active_socket_count
             j == Len(old.idle_sockets)
  <2>1. NumActiveSocketSlots(gr) = a + (m + 1) + j /\ NumActiveSocketSlots(old) = a + m + j
    BY <1>1, <1>5 DEF NumActiveSocketSlots
  <2>2. a \in Nat /\ j \in Nat
    BY <1>0, GroupFields
  <2>3. m \in Nat
    BY <1>1
  <2> HIDE DEF a, j, m
  <2> QED BY <2>1, <2>2, <2>3
<1>8. IgnoreLimits = {} => /\ p.handed_out + c + p.idle <= MaxSockets
                           /\ NumActiveSocketSlots(gr) <= MaxSocketsPerGroup
  <2>1. MaxSockets \in Nat /\ MaxSocketsPerGroup \in Nat
    BY PoolAssumption
  <2> QED BY <1>0, <1>7, <2>1 DEF Total, RoomForOne, HasAvailableSocketSlot
<1>9. p.idle = p.idle + (Len(gr.idle_sockets) - Len(old.idle_sockets))
  <2>1. Len(old.idle_sockets) \in Nat
    BY <1>0, GroupFields
  <2> QED BY <1>0, <1>5, <2>1
<1>10. c = p.connecting + (Len(gr.jobs) - m) /\ c \in Nat
  <2>1. Len(gr.jobs) = m + 1 /\ m \in Nat
    BY <1>1, <1>5
  <2> HIDE DEF m
  <2> QED BY <1>0, <2>1
<1> HIDE DEF c
<1>11. Fits(p, g, gr, p.idle, c)
  BY <1>0, <1>4, <1>5, <1>6, <1>8, <1>9, <1>10 DEF Fits
<1>12. Core(q) /\ Undisturbed(p, q, h) /\ Replaced(p, q, g, gr, p.idle, c)
  BY <1>2, <1>11, PlacedCore
<1>13. Len(jobs) \in DOMAIN jobs
  BY <1>1, LenProperties
<1>14. Moves(p, q, g, 0, 1, 0, IF pre THEN 1 ELSE 0)
  <2> DEFINE d == IF pre THEN 1 ELSE 0
  <2>1. /\ Len(gr.jobs) = m + 1 /\ Len(gr.idle_sockets) = Len(old.idle_sockets) + 0
        /\ gr.unassigned_job_count = old.unassigned_job_count + d
    BY <1>0, <1>1, <1>3, <1>5, GroupFields
  <2>2. d \in Int
    OBVIOUS
  <2> HIDE DEF d
  <2>3. Moves(p, q, g, 0, 1, 0, d)
    BY <1>0, <1>11, <1>12, <2>1, <2>2, ReplacedMoves
  <2> QED BY <2>3 DEF d
<1> QED
  BY <1>5, <1>12, <1>13, <1>14 DEF q, Replaced

-----------------------------------------------------------------------------
(* Sockets handed out and taken back *)

\* Who holds a socket, when h gets one of group g.
LEMMA HoldersDiffer ==
    ASSUME NEW p, NEW q, NEW h \in Handles, NEW g \in Groups,
           \A k \in Handles \ {h} : q.handles[k] = p.handles[k],
           p.handles[h].socket = NoSocket,
           q.handles[h].socket # NoSocket, q.handles[h].group = g
    PROVE  /\ Cardinality(Holding(p)) \in Nat
           /\ Cardinality(Holding(q)) = Cardinality(Holding(p)) + 1
           /\ Cardinality(Holders(p, g)) \in Nat
           /\ Cardinality(Holders(q, g)) = Cardinality(Holders(p, g)) + 1
           /\ \A k \in Groups \ {g} : Holders(q, k) = Holders(p, k)
<1>1. IsFiniteSet(Handles)
  BY PoolAssumption
<1>2. Holding(q) = Holding(p) \cup {h} /\ h \notin Holding(p) /\ Holding(p) \subseteq Handles
  BY DEF Holding
<1>3. /\ Holders(q, g) = Holders(p, g) \cup {h} /\ h \notin Holders(p, g)
      /\ Holders(p, g) \subseteq Handles
  BY DEF Holders
<1>4. \A k \in Groups \ {g} : Holders(q, k) = Holders(p, k)
  BY DEF Holders
<1>5. ASSUME NEW A \in SUBSET Handles, h \notin A
      PROVE  Cardinality(A) \in Nat /\ Cardinality(A \cup {h}) = Cardinality(A) + 1
  BY <1>1, <1>5, FS_Subset, FS_CardinalityType, FS_AddElement
<1> QED
  BY <1>2, <1>3, <1>4, <1>5

\* The pool with another group g, another handle h and another number of sockets out.
Held(p, g, gr, h, hs, n) == [p EXCEPT !.groups[g] = gr, !.handles[h] = hs, !.handed_out = n]

Regrips(p, q, g, gr, h, hs, n) ==
    /\ q \in Pools /\ q.failed = p.failed /\ q.groups[g] = gr /\ q.handles[h] = hs
    /\ \A k \in Groups \ {g} : q.groups[k] = p.groups[k]
    /\ \A k \in Handles \ {h} : q.handles[k] = p.handles[k]
    /\ q.idle = p.idle /\ q.connecting = p.connecting /\ q.handed_out = n
    /\ q.generation = p.generation /\ q.callbacks = p.callbacks /\ q.tasks = p.tasks
    /\ q.group_map = p.group_map

LEMMA HeldFields ==
    ASSUME NEW p \in Pools, NEW g \in Groups, NEW gr \in SocketGroups, NEW h \in Handles,
           NEW hs \in HandleStates, NEW n \in Nat, NEW q, q = Held(p, g, gr, h, hs, n)
    PROVE  Regrips(p, q, g, gr, h, hs, n)
<1>1. q = [p EXCEPT !.groups[g] = gr, !.handles[h] = hs, !.handed_out = n]
  BY DEF Held
<1>2. /\ q.groups = [p.groups EXCEPT ![g] = gr] /\ q.group_map = p.group_map
      /\ q.idle = p.idle /\ q.connecting = p.connecting /\ q.handed_out = n
      /\ q.generation = p.generation /\ q.callbacks = p.callbacks /\ q.tasks = p.tasks
      /\ q.handles = [p.handles EXCEPT ![h] = hs] /\ q.failed = p.failed
  BY <1>1 DEF Pools
<1>3. q \in Pools
  <2>1. [p EXCEPT !.groups[g] = gr, !.handles[h] = hs, !.handed_out = n] \in Pools
    BY DEF Pools
  <2> QED BY <1>1, <2>1
<1>4. q.groups[g] = gr /\ \A k \in Groups \ {g} : q.groups[k] = p.groups[k]
  BY <1>2, PoolFields
<1>5. q.handles[h] = hs /\ \A k \in Handles \ {h} : q.handles[k] = p.handles[k]
  BY <1>2, PoolFields
<1> QED
  BY <1>2, <1>3, <1>4, <1>5 DEF Regrips

\* Two groups differ at most in the number of sockets handed out.
OnlyActive(old, gr) ==
    /\ gr \in SocketGroups
    /\ gr.idle_sockets = old.idle_sockets /\ gr.jobs = old.jobs
    /\ gr.unassigned_job_count = old.unassigned_job_count
    /\ gr.pending_requests = old.pending_requests
    /\ gr.backup_job_timer = old.backup_job_timer

LEMMA RegripsCore ==
    ASSUME NEW p, Core(p), NEW g \in p.group_map, NEW gr, NEW h \in Handles, NEW hs, NEW n, NEW q,
           Regrips(p, q, g, gr, h, hs, n), OnlyActive(p.groups[g], gr),
           HeldInv(q), FreshInv(q), LimitsInv(q)
    PROVE  /\ Core(q)
           /\ \A k \in Groups : q.groups[k].pending_requests = p.groups[k].pending_requests
<1>1. p \in Pools /\ g \in Groups /\ q \in Pools /\ ~q.failed
  BY Sizes, PoolFields DEF Regrips
<1>2. ASSUME NEW k \in Groups
      PROVE  /\ q.groups[k].idle_sockets = p.groups[k].idle_sockets
             /\ q.groups[k].jobs = p.groups[k].jobs
             /\ q.groups[k].pending_requests = p.groups[k].pending_requests
             /\ q.groups[k].unassigned_job_count = p.groups[k].unassigned_job_count
             /\ q.groups[k].backup_job_timer = p.groups[k].backup_job_timer
  BY DEF Regrips, OnlyActive
<1>3. CountsInv(q)
  <2>1. IdleOf(q) = IdleOf(p) /\ JobsOf(q) = JobsOf(p)
    BY <1>2 DEF IdleOf, JobsOf
  <2> QED BY <2>1 DEF Core, CountsInv, Regrips
<1>4. GroupsInv(q)
  <2>1. ASSUME NEW k \in Groups PROVE GroupOK(q.groups[k], q.generation)
    <3>1. GroupOK(p.groups[k], p.generation) /\ q.generation = p.generation
      BY Sizes DEF Regrips
    <3> QED BY <1>2, <3>1 DEF GroupOK
  <2>2. ASSUME NEW k \in Groups, k \notin q.group_map PROVE q.groups[k] = NewGroup
    BY <2>2, Sizes DEF Regrips
  <2> QED BY <2>1, <2>2 DEF GroupsInv
<1> QED
  BY <1>1, <1>2, <1>3, <1>4 DEF Core

LEMMA RegripsMoves ==
    ASSUME NEW p, Core(p), NEW g \in Groups, NEW gr, NEW h, NEW hs, NEW n, NEW q, NEW a \in Int,
           Regrips(p, q, g, gr, h, hs, n), OnlyActive(p.groups[g], gr), n = p.handed_out + a,
           gr.active_socket_count = p.groups[g].active_socket_count + a
    PROVE  Moves(p, q, g, a, 0, 0, 0)
<1> DEFINE old == p.groups[g]
<1>1. /\ old.active_socket_count \in Nat /\ Len(old.jobs) \in Nat /\ Len(old.idle_sockets) \in Nat
      /\ old.unassigned_job_count \in Nat /\ p.connecting \in Nat /\ p.idle \in Nat
  BY Sizes, GroupFields, PoolFields
<1>2. /\ q.groups[g] = gr /\ \A k \in Groups \ {g} : q.groups[k] = p.groups[k]
      /\ q.idle = p.idle /\ q.connecting = p.connecting /\ q.handed_out = n
  BY DEF Regrips
<1>3. /\ gr.jobs = old.jobs /\ gr.idle_sockets = old.idle_sockets
      /\ gr.unassigned_job_count = old.unassigned_job_count
  BY DEF OnlyActive
<1> QED
  BY <1>1, <1>2, <1>3 DEF Moves

\* A handle of the group gets a new socket.
LEMMA HandOutSocketCore ==
    ASSUME NEW p, Core(p), NEW g \in p.group_map, NEW h \in Handles, RoomForOne(p, g),
           p.handles[h].socket = NoSocket, p.handles[h].group = g
    PROVE  LET q == HandOutSocket(p, g, h, p.generation) IN
           /\ Core(q) /\ Undisturbed(p, q, h) /\ q.group_map = p.group_map
           /\ q.handles[h].socket # NoSocket
           /\ Moves(p, q, g, 1, 0, 0, 0)
<1> DEFINE q == HandOutSocket(p, g, h, p.generation)
           old == p.groups[g]
           gr == [old EXCEPT !.active_socket_count = @ + 1]
           hs == [p.handles[h] EXCEPT !.socket = p.generation, !.pool_id = p.generation]
           n == p.handed_out + 1
<1>0. /\ g \in Groups /\ p \in Pools /\ old \in SocketGroups
      /\ GroupOK(old, p.generation) /\ p.generation \in Generations
      /\ p.idle \in Nat /\ p.connecting \in Nat /\ p.handed_out \in Nat
      /\ p.handles[h] \in HandleStates /\ p.generation \in Nat
  BY Sizes, PoolFields
<1>1. q = Held(p, g, gr, h, hs, n)
  <2> DEFINE H == [p.handles EXCEPT ![h].socket = p.generation, ![h].pool_id = p.generation]
             G == [p.groups EXCEPT ![g].active_socket_count = @ + 1]
  <2>1. H = [p.handles EXCEPT ![h] = hs]
    <3>1. p.handles \in [Handles -> HandleStates]
      BY <1>0, PoolFields
    <3> QED BY <3>1 DEF HandleStates
  <2>2. G = [p.groups EXCEPT ![g] = gr]
    BY <1>0, PoolFields
  <2>3. q = [p EXCEPT !.handles = H, !.handed_out = n, !.groups = G]
    BY <1>0 DEF HandOutSocket, Pools
  <2> HIDE DEF H, G, q, hs, gr, n
  <2>4. q = [p EXCEPT !.groups = [p.groups EXCEPT ![g] = gr], !.handles = [p.handles EXCEPT ![h] = hs],
                      !.handed_out = n]
    BY <1>0, <2>1, <2>2, <2>3 DEF Pools
  <2> QED BY <2>4 DEF Held
<1>2. /\ gr \in SocketGroups /\ OnlyActive(old, gr)
      /\ gr.active_socket_count = old.active_socket_count + 1
  <2>1. old.active_socket_count + 1 \in Nat
    BY <1>0, GroupFields
  <2>2. gr \in SocketGroups
    BY <1>0, <2>1 DEF SocketGroups
  <2>3. gr.active_socket_count = old.active_socket_count + 1
    BY <1>0 DEF SocketGroups
  <2>4. /\ gr.idle_sockets = old.idle_sockets /\ gr.jobs = old.jobs
        /\ gr.unassigned_job_count = old.unassigned_job_count
        /\ gr.pending_requests = old.pending_requests
        /\ gr.backup_job_timer = old.backup_job_timer
    BY <1>0 DEF SocketGroups
  <2> HIDE DEF gr
  <2> QED BY <2>2, <2>3, <2>4 DEF OnlyActive
<1>3. /\ hs \in HandleStates /\ hs.socket = p.generation /\ hs.pool_id = p.generation
      /\ hs.phase = p.handles[h].phase /\ hs.group = p.handles[h].group
  BY <1>0 DEF HandleStates
<1> HIDE DEF gr, hs, q
<1>4. n \in Nat
  BY <1>0
<1>5. Regrips(p, q, g, gr, h, hs, n)
  BY <1>0, <1>1, <1>2, <1>3, <1>4, HeldFields
<1>6. hs.socket # NoSocket
  BY <1>0, <1>3 DEF NoSocket
<1>7. HeldInv(q)
  <2> DEFINE a == Cardinality(Holding(p))
             b == Cardinality(Holders(p, g))
  <2>1. /\ a \in Nat /\ Cardinality(Holding(q)) = a + 1
        /\ b \in Nat /\ Cardinality(Holders(q, g)) = b + 1
        /\ \A k \in Groups \ {g} : Holders(q, k) = Holders(p, k)
    <3>1. /\ \A k \in Handles \ {h} : q.handles[k] = p.handles[k]
          /\ q.handles[h].socket # NoSocket /\ q.handles[h].group = g
      BY <1>3, <1>5, <1>6 DEF Regrips
    <3> QED BY <1>0, <3>1, HoldersDiffer
  <2>2. p.handed_out = a /\ old.active_socket_count = b
        /\ \A k \in Groups : p.groups[k].active_socket_count = Cardinality(Holders(p, k))
    BY <1>0 DEF Core, HeldInv
  <2>3. q.handed_out = a + 1 /\ q.groups[g].active_socket_count = b + 1
        /\ \A k \in Groups \ {g} : q.groups[k] = p.groups[k]
    BY <1>2, <1>5, <2>2 DEF Regrips
  <2> HIDE DEF a, b
  <2> QED BY <2>1, <2>2, <2>3 DEF HeldInv
<1>8. FreshInv(q)
  <2>1. ASSUME NEW k \in Handles, q.handles[k].socket # NoSocket
        PROVE  q.handles[k].socket = q.handles[k].pool_id /\ q.handles[k].group \in Groups
    <3>1. CASE k = h
      BY <1>0, <1>3, <1>5, <3>1 DEF Regrips
    <3>2. CASE k # h
      BY <1>5, <2>1, <3>2 DEF Regrips, Core, FreshInv
    <3> QED BY <3>1, <3>2
  <2> QED BY <2>1 DEF FreshInv
<1>9. LimitsInv(q)
  <2>1. Total(q) = Total(p) + 1
    <3>1. q.handed_out = p.handed_out + 1 /\ q.idle = p.idle /\ q.connecting = p.connecting
      BY <1>5 DEF Regrips
    <3> QED BY <1>0, <3>1 DEF Total
  <2>2. NumActiveSocketSlots(gr) = NumActiveSocketSlots(old) + 1
    <3> DEFINE a == old.active_socket_count
               i == Len(old.idle_sockets)
               j == Len(old.jobs)
    <3>1. NumActiveSocketSlots(gr) = (a + 1) + j + i /\ NumActiveSocketSlots(old) = a + j + i
      BY <1>2 DEF NumActiveSocketSlots, OnlyActive
    <3>2. a \in Nat /\ i \in Nat /\ j \in Nat
      BY <1>0, GroupFields
    <3> HIDE DEF a, i, j
    <3> QED BY <3>1, <3>2
  <2>3. NumActiveSocketSlots(old) \in Nat /\ Total(p) \in Nat
    BY <1>0, Sizes
  <2>4. MaxSockets \in Nat /\ MaxSocketsPerGroup \in Nat
    BY PoolAssumption
  <2>5. IgnoreLimits = {} => Total(q) <= MaxSockets /\ NumActiveSocketSlots(gr) <= MaxSocketsPerGroup
    BY <2>1, <2>2, <2>3, <2>4 DEF RoomForOne, HasAvailableSocketSlot
  <2>6. q.groups[g] = gr /\ \A k \in Groups \ {g} : q.groups[k] = p.groups[k]
    BY <1>5 DEF Regrips
  <2> QED BY <2>5, <2>6 DEF Core, LimitsInv
<1>10. /\ Core(q)
       /\ \A k \in Groups : q.groups[k].pending_requests = p.groups[k].pending_requests
  <2>1. OnlyActive(p.groups[g], gr)
    BY <1>2
  <2> HIDE DEF n, old
  <2> QED BY <1>5, <1>7, <1>8, <1>9, <2>1, RegripsCore
<1>11. Undisturbed(p, q, h)
  BY <1>3, <1>5, <1>10 DEF Undisturbed, Regrips
<1>12. Moves(p, q, g, 1, 0, 0, 0)
  <2>1. n = p.handed_out + 1 /\ 1 \in Int
    OBVIOUS
  <2> HIDE DEF n
  <2> QED BY <1>0, <1>2, <1>5, <2>1, RegripsMoves
<1> QED
  BY <1>3, <1>5, <1>6, <1>10, <1>11, <1>12 DEF q, Regrips

\* Handle h is reset, everybody else is left alone.
Freed(p, q, h) ==
    /\ q.generation = p.generation /\ q.callbacks = p.callbacks /\ q.tasks = p.tasks
    /\ \A g \in Groups : q.groups[g].pending_requests = p.groups[g].pending_requests
    /\ \A k \in Handles \ {h} : q.handles[k] = p.handles[k]
    /\ q.handles[h] = FreeHandle

LEMMA FreeHandleFields ==
    /\ FreeHandle \in HandleStates /\ FreeHandle.socket = NoSocket
    /\ FreeHandle.phase = "free" /\ FreeHandle.group = None
BY DEF FreeHandle, HandleStates

\* What ReleaseSocket does with the counters when handle h was reset.
TakenBack(p, g) ==
    [Check(p, g \in p.group_map /\ p.handed_out > 0 /\ p.groups[g].active_socket_count > 0)
        EXCEPT !.handed_out = @ - 1, !.groups[g].active_socket_count = @ - 1]

LEMMA TakenBackCore ==
    ASSUME NEW p, Core(p), NEW h \in Handles, p.handles[h].socket # NoSocket,
           NEW g, g = p.handles[h].group
    PROVE  LET q == TakenBack([p EXCEPT !.handles[h] = FreeHandle], g) IN
           /\ Core(q) /\ Freed(p, q, h) /\ g \in q.group_map /\ RoomForOne(q, g)
           /\ Moves(p, q, g, -1, 0, 0, 0)
<1> DEFINE r == [p EXCEPT !.handles[h] = FreeHandle]
           q == TakenBack(r, g)
           old == p.groups[g]
           gr == [old EXCEPT !.active_socket_count = @ - 1]
           n == p.handed_out - 1
<1>0. /\ p \in Pools /\ ~p.failed /\ p.handed_out \in Nat /\ p.idle \in Nat /\ p.connecting \in Nat
  BY Sizes, PoolFields
<1>1. g \in Groups
  BY DEF Core, FreshInv
<1>2. old \in SocketGroups /\ GroupOK(old, p.generation)
  BY <1>1, Sizes
<1> DEFINE a == Cardinality(Holding(p))
           b == Cardinality(Holders(p, g))
           others == [k \in Handles |-> IF k = h THEN FreeHandle ELSE p.handles[k]]
           lone == [handles |-> others]
<1>3. /\ Cardinality(Holding(lone)) \in Nat /\ a = Cardinality(Holding(lone)) + 1
      /\ Cardinality(Holders(lone, g)) \in Nat /\ b = Cardinality(Holders(lone, g)) + 1
      /\ \A k \in Groups \ {g} : Holders(p, k) = Holders(lone, k)
  <2>1. /\ \A k \in Handles \ {h} : p.handles[k] = lone.handles[k]
        /\ lone.handles[h].socket = NoSocket
    BY FreeHandleFields
  <2> HIDE DEF lone
  <2> QED BY <1>1, <2>1, HoldersDiffer
<1>4. p.handed_out = a /\ old.active_socket_count = b
  BY <1>1 DEF Core, HeldInv
<1>5. p.handed_out > 0 /\ old.active_socket_count > 0 /\ n \in Nat
  <2> HIDE DEF lone, a, b
  <2> QED BY <1>3, <1>4
<1>6. g \in p.group_map
  <2>1. old # NewGroup
    BY <1>5, NewGroupFields
  <2> QED BY <1>1, <2>1, Sizes
<1>7. q = Held(p, g, gr, h, FreeHandle, n)
  <2>1. r \in Pools /\ ~r.failed
    BY <1>0, FreeHandleFields DEF Pools
  <2>2. /\ r.group_map = p.group_map /\ r.handed_out = p.handed_out /\ r.groups = p.groups
    BY <1>0 DEF Pools
  <2> DEFINE c == g \in r.group_map /\ r.handed_out > 0 /\ r.groups[g].active_socket_count > 0
  <2>3. c \in BOOLEAN /\ c
    BY <1>5, <1>6, <2>2
  <2>4. q = [Check(r, c) EXCEPT !.handed_out = @ - 1, !.groups[g].active_socket_count = @ - 1]
    BY DEF TakenBack
  <2> HIDE DEF r, c
  <2>5. Check(r, c) = r
    BY <2>1, <2>3, CheckHolds
  <2>6. q = [r EXCEPT !.handed_out = @ - 1, !.groups[g].active_socket_count = @ - 1]
    BY <2>4, <2>5
  <2> DEFINE G == [p.groups EXCEPT ![g].active_socket_count = @ - 1]
  <2>7. G = [p.groups EXCEPT ![g] = gr]
    BY <1>0, <1>1, PoolFields
  <2> HIDE DEF q
  <2>8. q = [p EXCEPT !.handles[h] = FreeHandle, !.handed_out = n, !.groups = G]
    BY <1>0, <2>6 DEF r, Pools
  <2> HIDE DEF G, gr, n
  <2>9. q = [p EXCEPT !.groups[g] = gr, !.handles[h] = FreeHandle, !.handed_out = n]
    BY <1>0, <2>7, <2>8 DEF Pools
  <2> QED BY <2>9 DEF Held
<1>8. /\ gr \in SocketGroups /\ OnlyActive(old, gr)
      /\ gr.active_socket_count = old.active_socket_count - 1
  <2>1. old.active_socket_count - 1 \in Nat
    BY <1>2, <1>5, GroupFields
  <2>2. gr \in SocketGroups
    BY <1>2, <2>1 DEF SocketGroups
  <2>3. gr.active_socket_count = old.active_socket_count - 1
    BY <1>2 DEF SocketGroups
  <2>4. /\ gr.idle_sockets = old.idle_sockets /\ gr.jobs = old.jobs
        /\ gr.unassigned_job_count = old.unassigned_job_count
        /\ gr.pending_requests = old.pending_requests
        /\ gr.backup_job_timer = old.backup_job_timer
    BY <1>2 DEF SocketGroups
  <2> HIDE DEF gr
  <2> QED BY <2>2, <2>3, <2>4 DEF OnlyActive
<1> HIDE DEF gr, q, n
<1>9. Regrips(p, q, g, gr, h, FreeHandle, n)
  BY <1>0, <1>1, <1>5, <1>7, <1>8, FreeHandleFields, HeldFields
<1>10. HeldInv(q)
  <2>1. Holding(q) = Holding(lone) /\ \A k \in Groups : Holders(q, k) = Holders(lone, k)
    <3>1. \A k \in Handles : q.handles[k] = lone.handles[k]
      BY <1>9 DEF Regrips
    <3> HIDE DEF lone
    <3> QED BY <3>1 DEF Holding, Holders
  <2>2. q.handed_out = Cardinality(Holding(lone))
    <3> HIDE DEF lone, a
    <3> QED BY <1>0, <1>3, <1>4, <1>9 DEF Regrips, n
  <2>3. q.groups[g].active_socket_count = Cardinality(Holders(lone, g))
    <3>1. q.groups[g].active_socket_count = b - 1
      BY <1>4, <1>8, <1>9 DEF Regrips
    <3> HIDE DEF lone, b
    <3> QED BY <1>3, <3>1
  <2>4. ASSUME NEW k \in Groups \ {g}
        PROVE  q.groups[k].active_socket_count = Cardinality(Holders(lone, k))
    <3>1. p.groups[k].active_socket_count = Cardinality(Holders(p, k)) /\ q.groups[k] = p.groups[k]
      BY <1>9 DEF Core, HeldInv, Regrips
    <3>2. Holders(p, k) = Holders(lone, k)
      BY <1>3
    <3> QED BY <3>1, <3>2
  <2> HIDE DEF lone
  <2> QED BY <2>1, <2>2, <2>3, <2>4 DEF HeldInv
<1>11. FreshInv(q)
  <2>1. ASSUME NEW k \in Handles, q.handles[k].socket # NoSocket
        PROVE  q.handles[k].socket = q.handles[k].pool_id /\ q.handles[k].group \in Groups
    <3>1. k # h
      BY <1>9, <2>1, FreeHandleFields DEF Regrips
    <3> QED
      BY <1>9, <2>1, <3>1 DEF Regrips, Core, FreshInv
  <2> QED BY <2>1 DEF FreshInv
<1>12. Total(p) = Total(q) + 1 /\ Total(q) \in Nat
  <2>1. q.handed_out = p.handed_out - 1 /\ q.idle = p.idle /\ q.connecting = p.connecting
    BY <1>9 DEF Regrips, n
  <2> QED BY <1>0, <1>5, <2>1 DEF Total, n
<1>13. NumActiveSocketSlots(old) = NumActiveSocketSlots(gr) + 1 /\ NumActiveSocketSlots(gr) \in Nat
  <2> DEFINE x == old.active_socket_count
             i == Len(old.idle_sockets)
             j == Len(old.jobs)
  <2>1. NumActiveSocketSlots(gr) = (x - 1) + j + i /\ NumActiveSocketSlots(old) = x + j + i
    BY <1>8 DEF NumActiveSocketSlots, OnlyActive
  <2>2. x \in Nat /\ i \in Nat /\ j \in Nat /\ x > 0
    BY <1>2, <1>5, GroupFields
  <2> HIDE DEF x, i, j
  <2> QED BY <2>1, <2>2
<1>14. LimitsInv(q) /\ RoomForOne(q, g)
  <2>1. q.groups[g] = gr /\ \A k \in Groups \ {g} : q.groups[k] = p.groups[k]
    BY <1>9 DEF Regrips
  <2>2. IgnoreLimits = {} => Total(p) <= MaxSockets /\ NumActiveSocketSlots(old) <= MaxSocketsPerGroup
    BY <1>1 DEF Core, LimitsInv
  <2>3. MaxSockets \in Nat /\ MaxSocketsPerGroup \in Nat
    BY PoolAssumption
  <2>4. IgnoreLimits = {} => Total(q) < MaxSockets /\ NumActiveSocketSlots(gr) < MaxSocketsPerGroup
    BY <1>12, <1>13, <2>2, <2>3
  <2>5. IgnoreLimits = {} => Total(q) <= MaxSockets /\ NumActiveSocketSlots(gr) <= MaxSocketsPerGroup
    BY <1>12, <1>13, <2>3, <2>4
  <2> QED BY <2>1, <2>4, <2>5 DEF Core, LimitsInv, RoomForOne, HasAvailableSocketSlot
<1> HIDE DEF a, b, others, lone, r
<1>15. /\ Core(q)
       /\ \A k \in Groups : q.groups[k].pending_requests = p.groups[k].pending_requests
  <2>1. OnlyActive(p.groups[g], gr) /\ LimitsInv(q)
    BY <1>8, <1>14
  <2> HIDE DEF old
  <2> QED
    BY <1>6, <1>9, <1>10, <1>11, <2>1, RegripsCore
<1>16. Freed(p, q, h) /\ g \in q.group_map
  BY <1>6, <1>9, <1>15 DEF Freed, Regrips
<1>17. Moves(p, q, g, -1, 0, 0, 0)
  <2>1. n = p.handed_out + (-1) /\ gr.active_socket_count = old.active_socket_count + (-1)
    BY <1>0, <1>2, <1>8, GroupFields DEF n
  <2> QED BY <1>1, <1>8, <1>9, <2>1, RegripsMoves
<1> QED
  BY <1>14, <1>15, <1>16, <1>17 DEF q, r

-----------------------------------------------------------------------------
(* Idle sockets that are closed *)

\* Of the idle sockets of g those in s are left, n in all groups.
IsLeft(p, g, s, n) ==
    /\ s \in Seq(Generations) /\ \A k \in 1 .. Len(s) : s[k] = p.generation
    /\ Len(s) <= Len(p.groups[g].idle_sockets)
    /\ n = p.idle - (Len(p.groups[g].idle_sockets) - Len(s))

LeftWith(p, g, s, n) == [p EXCEPT !.groups[g].idle_sockets = s, !.idle = n]

Cut(p, q, g, s, n) ==
    /\ q.groups[g].idle_sockets = s /\ \A k \in Groups \ {g} : q.groups[k] = p.groups[k]
    /\ q.group_map = p.group_map /\ q.handles = p.handles /\ q.idle = n
    /\ Len(s) < Len(p.groups[g].idle_sockets) => RoomForOne(q, g)
    /\ Moves(p, q, g, 0, 0, Len(s) - Len(p.groups[g].idle_sockets), 0)

LEMMA LeftWithCore ==
    ASSUME NEW p, Core(p), NEW g \in p.group_map, NEW s, NEW n, IsLeft(p, g, s, n), NEW h
    PROVE  LET q == LeftWith(p, g, s, n) IN
           Core(q) /\ Undisturbed(p, q, h) /\ Cut(p, q, g, s, n)
<1> DEFINE q == LeftWith(p, g, s, n)
           old == p.groups[g]
           gr == [old EXCEPT !.idle_sockets = s]
           m == Len(old.idle_sockets)
           l == Len(s)
           j == Len(old.jobs)
           a == old.active_socket_count
<1>0. /\ g \in Groups /\ p \in Pools /\ old \in SocketGroups
      /\ GroupOK(old, p.generation) /\ p.idle \in Nat /\ p.connecting \in Nat /\ p.handed_out \in Nat
  BY Sizes, PoolFields
<1>1. s \in Seq(Generations) /\ l <= m /\ n = p.idle - (m - l)
      /\ \A k \in 1 .. l : s[k] = p.generation
  BY DEF IsLeft
<1>2. l \in Nat /\ m \in Nat /\ j \in Nat /\ a \in Nat
  BY <1>0, <1>1, GroupFields, LenProperties
<1>3. m <= p.idle
  BY <1>0, Sizes
<1>4. n \in Nat
  <2> HIDE DEF m, l
  <2> QED BY <1>0, <1>1, <1>2, <1>3
<1>5. q = Placed(p, g, gr, n, p.connecting)
  BY <1>0 DEF LeftWith, Placed, Pools, SocketGroups
<1>6. gr \in SocketGroups
  BY <1>0, <1>1 DEF SocketGroups
<1>7. /\ gr.jobs = old.jobs /\ gr.unassigned_job_count = old.unassigned_job_count
      /\ gr.idle_sockets = s /\ gr.pending_requests = old.pending_requests
      /\ gr.active_socket_count = old.active_socket_count
      /\ gr.backup_job_timer = old.backup_job_timer
  BY <1>0 DEF SocketGroups
<1> HIDE DEF gr, q
<1>8. GroupOK(gr, p.generation)
  BY <1>0, <1>1, <1>7 DEF GroupOK
<1>9. NumActiveSocketSlots(gr) = a + j + l /\ NumActiveSocketSlots(old) = a + j + m
  BY <1>7 DEF NumActiveSocketSlots
<1>10. IgnoreLimits = {} => /\ p.handed_out + p.connecting + p.idle <= MaxSockets
                            /\ a + j + m <= MaxSocketsPerGroup
  BY <1>0, <1>9 DEF Core, LimitsInv, Total
<1>11. MaxSockets \in Nat /\ MaxSocketsPerGroup \in Nat
  BY PoolAssumption
<1>12. IgnoreLimits = {} => /\ p.handed_out + p.connecting + n <= MaxSockets
                            /\ a + j + l <= MaxSocketsPerGroup
                            /\ l < m => /\ p.handed_out + p.connecting + n < MaxSockets
                                        /\ a + j + l < MaxSocketsPerGroup
  <2> HIDE DEF m, l, j, a, old
  <2> QED BY <1>0, <1>1, <1>2, <1>10, <1>11
<1>13. Fits(p, g, gr, n, p.connecting)
  <2>1. n = p.idle + (Len(gr.idle_sockets) - m)
    <3>1. Len(gr.idle_sockets) = l
      BY <1>7
    <3> HIDE DEF m, l
    <3> QED BY <1>0, <1>1, <1>2, <3>1
  <2>2. p.connecting = p.connecting + (Len(gr.jobs) - j)
    <3>1. Len(gr.jobs) = j
      BY <1>7
    <3> HIDE DEF j
    <3> QED BY <1>0, <1>2, <3>1
  <2> QED BY <1>0, <1>4, <1>6, <1>7, <1>8, <1>9, <1>12, <2>1, <2>2 DEF Fits
<1>14. Core(q) /\ Undisturbed(p, q, h) /\ Replaced(p, q, g, gr, n, p.connecting)
  BY <1>5, <1>13, PlacedCore
<1>15. l < m => RoomForOne(q, g)
  BY <1>9, <1>12, <1>14 DEF RoomForOne, Replaced, Total, HasAvailableSocketSlot
<1>16. Moves(p, q, g, 0, 0, l - m, 0)
  <2> DEFINE d == l - m
  <2>1. d \in Int /\ l = m + d
    <3> HIDE DEF l, m
    <3> QED BY <1>2
  <2>2. /\ Len(gr.jobs) = j + 0 /\ Len(gr.idle_sockets) = m + d
        /\ gr.unassigned_job_count = old.unassigned_job_count + 0
    BY <1>0, <1>2, <1>7, <2>1, GroupFields
  <2> HIDE DEF d
  <2>3. Moves(p, q, g, 0, 0, d, 0)
    BY <1>0, <1>13, <1>14, <2>1, <2>2, ReplacedMoves
  <2> QED BY <2>3 DEF d
<1>17. Cut(p, q, g, s, n)
  BY <1>7, <1>14, <1>15, <1>16 DEF Cut, Replaced
<1> QED
  BY <1>14, <1>17 DEF q

\* The outcomes of CloseOneIdleSocketExceptIn.
OneClosed(p, c, g) ==
    /\ c.pool.handles = p.handles
    /\ c.closed => /\ c.pool.groups[g] = p.groups[g]
                   /\ g \in c.pool.group_map <=> g \in p.group_map
                   /\ IgnoreLimits = {} => Total(c.pool) < MaxSockets
    /\ ~c.closed => c.pool = p

LEMMA CloseOneIdleSocketCore ==
    ASSUME NEW p, Core(p), p.idle > 0, NEW except \in SUBSET Groups,
           NEW c \in CloseOneIdleSocketExceptIn(p, except), NEW h
    PROVE  /\ Core(c.pool) /\ Undisturbed(p, c.pool, h)
           /\ c.closed \in BOOLEAN
           /\ \A g \in except : OneClosed(p, c, g)
           /\ c.closed <=> \E g \in Groups \ except : p.groups[g].idle_sockets # <<>>
           /\ ~c.closed => c.pool = p
           /\ c.closed => \E g \in Groups \ except : /\ p.groups[g].idle_sockets # <<>>
                                                     /\ Moves(p, c.pool, g, 0, 0, -1, 0)
<1> DEFINE having == {g \in p.group_map \ except : p.groups[g].idle_sockets # <<>>}
           n == p.idle - 1
           cut(g) == LeftWith(p, g, Tail(p.groups[g].idle_sockets), n)
           Closed(g) == RemoveIfEmpty(cut(g), g)
<1>0. p \in Pools /\ ~p.failed /\ p.idle \in Nat /\ p.group_map \in SUBSET Groups
  BY Sizes, PoolFields
<1>1. having = {g \in Groups \ except : p.groups[g].idle_sockets # <<>>}
  BY <1>0, Sizes, NewGroupFields
<1>2. (p.idle > 0) \in BOOLEAN
  OBVIOUS
<1>3. CASE having = {}
  <2>1. c = [pool |-> Check(p, p.idle > 0), closed |-> FALSE]
    BY <1>3 DEF CloseOneIdleSocketExceptIn
  <2>2. Check(p, p.idle > 0) = p
    BY <1>0, <1>2, CheckHolds
  <2>3. c.pool = p /\ c.closed = FALSE
    BY <2>1, <2>2
  <2>4. Undisturbed(p, p, h)
    BY DEF Undisturbed
  <2> HIDE DEF having
  <2> QED BY <1>3, <2>3, <2>4, <1>1 DEF OneClosed
<1>4. CASE having # {}
  <2>1. PICK g \in having : c = [pool |-> Check(Closed(g), p.idle > 0), closed |-> TRUE]
    <3>1. \A g \in having : Closed(g) = RemoveIfEmpty([p EXCEPT !.groups[g].idle_sockets = Tail(@),
                                             !.idle = @ - 1], g)
      <4>1. ASSUME NEW g \in Groups
            PROVE  cut(g) = [p EXCEPT !.groups[g].idle_sockets = Tail(@), !.idle = @ - 1]
        BY <1>0 DEF LeftWith, Pools, SocketGroups
      <4> QED BY <1>0, <4>1
    <3> HIDE DEF Closed
    <3> QED BY <1>4, <3>1 DEF CloseOneIdleSocketExceptIn
  <2> DEFINE old == p.groups[g]
             t == Tail(old.idle_sockets)
             q == LeftWith(p, g, t, n)
             r == Closed(g)
  <2>2. g \in p.group_map /\ g \in Groups /\ g \notin except /\ old.idle_sockets # <<>>
    BY <1>0
  <2>3. old \in SocketGroups /\ GroupOK(old, p.generation) /\ old.idle_sockets \in Seq(Generations)
    BY <2>2, Sizes, GroupFields
  <2>4. IsLeft(p, g, t, n) /\ Len(t) < Len(old.idle_sockets)
    <3> DEFINE m == Len(old.idle_sockets)
    <3>1. /\ t \in Seq(Generations) /\ Len(t) = m - 1 /\ m \in Nat
          /\ \A k \in 1 .. Len(t) : t[k] = old.idle_sockets[k + 1]
      BY <2>2, <2>3, HeadTailProperties, LenProperties
    <3>2. \A k \in 1 .. m : old.idle_sockets[k] = p.generation
      BY <2>3 DEF GroupOK
    <3>3. m <= p.idle
      BY <2>2, Sizes
    <3> HIDE DEF t
    <3>4. \A k \in 1 .. Len(t) : t[k] = p.generation
      <4> HIDE DEF m
      <4> QED BY <3>1, <3>2
    <3>5. Len(t) <= m /\ n = p.idle - (m - Len(t)) /\ Len(t) < m
      <4> HIDE DEF m
      <4> QED BY <1>0, <3>1
    <3> QED BY <3>1, <3>4, <3>5 DEF IsLeft
  <2> HIDE DEF t, n
  <2>5. Core(q) /\ Undisturbed(p, q, h) /\ Cut(p, q, g, t, n)
    BY <2>2, <2>4, LeftWithCore
  <2> HIDE DEF q
  <2>6. g \in q.group_map
    BY <2>2, <2>5 DEF Cut
  <2>7. r = RemoveIfEmpty(q, g)
    BY DEF q, t
  <2> HIDE DEF r, Closed
  <2>8. Core(r) /\ Undisturbed(q, r, h) /\ Shrunk(q, r, g)
    BY <2>5, <2>6, <2>7, RemoveIfEmptyCore
  <2>9. Undisturbed(p, r, h)
    BY <2>5, <2>8, UndisturbedTrans
  <2>10. c.pool = r /\ c.closed = TRUE
    <3>1. r \in Pools /\ ~r.failed
      BY <2>8, Sizes
    <3>2. Check(r, p.idle > 0) = r
      BY <1>2, <3>1, CheckHolds
    <3> QED BY <2>1, <3>2 DEF r
  <2>11. IgnoreLimits = {} => Total(r) < MaxSockets
    BY <2>4, <2>5, <2>8 DEF Shrunk, Cut, RoomForOne
  <2>12. ASSUME NEW k \in except PROVE OneClosed(p, c, k)
    <3>1. k # g /\ k \in Groups
      BY <2>2
    <3> QED BY <2>5, <2>8, <2>10, <2>11, <3>1 DEF OneClosed, Cut, Shrunk
  <2>13. Moves(p, r, g, 0, 0, -1, 0)
    <3> DEFINE m == Len(old.idle_sockets)
    <3>1. Moves(p, q, g, 0, 0, Len(t) - m, 0)
      BY <2>5 DEF Cut
    <3>2. Len(t) - m = -1
      BY <2>2, <2>3, HeadTailProperties, LenProperties DEF t
    <3>3. Moves(p, q, g, 0, 0, -1, 0)
      BY <3>1, <3>2
    <3> QED BY <2>8, <3>3 DEF Moves, Shrunk
  <2> HIDE DEF having
  <2> QED BY <1>1, <1>4, <2>2, <2>8, <2>9, <2>10, <2>12, <2>13
<1> QED
  BY <1>3, <1>4

-----------------------------------------------------------------------------
(* RequestSocketInternal *)

\* Who asks for a socket of group g: a preconnect, or a handle of g without one.
Asks(p, g, h) ==
    h = None \/ (h \in Handles /\ p.handles[h].group = g /\ p.handles[h].socket = NoSocket)

\* A handle has a socket if and only if the result says so; the group is there unless the
\* request has failed.
Connected(p, o, g, h) ==
    /\ o.rv \in Results
    /\ o.rv \in {"OK", "ERR_IO_PENDING"} => g \in o.pool.group_map
    /\ h \in Handles /\ o.rv \in {"OK", "ERR_WITH_SOCKET"} => o.pool.handles[h].socket # NoSocket
    /\ h = None \/ o.rv \in {"ERR", "ERR_IO_PENDING"} => o.pool.handles = p.handles

NotAssigned(p, q, g) ==
    q.groups[g].idle_sockets = <<>> /\ g \in q.group_map /\ q.handles = p.handles

LEMMA AssignIdleSocketCore ==
    ASSUME NEW p, Core(p), NEW g \in p.group_map, NEW h \in Handles, Asks(p, g, h),
           NEW o \in AssignIdleSocketToRequest(p, g, h)
    PROVE  /\ Core(o.pool) /\ Undisturbed(p, o.pool, h)
           /\ o.rv = "OK" => Connected(p, o, g, h)
           /\ o.rv # "OK" => NotAssigned(p, o.pool, g)
           /\ o.rv = "OK" => \E i \in 1 .. Len(p.groups[g].idle_sockets) : Moves(p, o.pool, g, 1, 0, -i, 0)
           /\ o.rv # "OK" => Moves(p, o.pool, g, 0, 0, -Len(p.groups[g].idle_sockets), 0)
<1> DEFINE old == p.groups[g]
           Kept(s) == [p EXCEPT !.groups[g].idle_sockets = s,
                                !.idle = @ - (Len(p.groups[g].idle_sockets) - Len(s))]
           Taken(s, i) == HandOutSocket(
                             [Kept(s) EXCEPT !.groups[g].idle_sockets = RemoveAt(s, i),
                                             !.idle = @ - 1], g, h, s[i])
<1>0. /\ g \in Groups /\ p \in Pools /\ old \in SocketGroups /\ GroupOK(old, p.generation)
      /\ p.idle \in Nat /\ old.idle_sockets \in Seq(Generations)
  BY Sizes, PoolFields, GroupFields
<1>1. PICK s \in Subsequences(old.idle_sockets) :
          o \in IF s = <<>> THEN {[pool |-> Kept(s), rv |-> "none"]}
                ELSE {[pool |-> Taken(s, i), rv |-> "OK"] : i \in DOMAIN s}
  BY DEF AssignIdleSocketToRequest
<1> DEFINE n == p.idle - (Len(old.idle_sockets) - Len(s))
           q == LeftWith(p, g, s, n)
<1>2. /\ s \in Seq(Generations) /\ Len(s) \in Nat /\ Len(s) <= Len(old.idle_sockets)
      /\ \A i \in 1 .. Len(s) : s[i] = p.generation
  <2>1. /\ s \in Seq(Generations) /\ Len(s) \in Nat /\ Len(s) <= Len(old.idle_sockets)
        /\ \A i \in 1 .. Len(s) : \E j \in 1 .. Len(old.idle_sockets) : s[i] = old.idle_sockets[j]
    BY <1>0, SubsequenceFacts
  <2> QED BY <1>0, <2>1 DEF GroupOK
<1>3. IsLeft(p, g, s, n)
  BY <1>2 DEF IsLeft
<1>4. Kept(s) = q
  BY <1>0 DEF LeftWith, Pools
<1> HIDE DEF n, Kept
<1>5. Core(q) /\ Undisturbed(p, q, h) /\ Cut(p, q, g, s, n)
  BY <1>3, LeftWithCore
<1> HIDE DEF q
<1>6. q.groups[g].idle_sockets = s /\ g \in q.group_map /\ q.handles = p.handles
      /\ q.generation = p.generation
  BY <1>5 DEF Cut, Undisturbed
<1>7. CASE s = <<>>
  <2>1. o.pool = q /\ o.rv = "none"
    BY <1>1, <1>4, <1>7
  <2>2. Moves(p, q, g, 0, 0, -Len(old.idle_sockets), 0)
    <3>1. Len(s) - Len(old.idle_sockets) = -Len(old.idle_sockets)
      BY <1>0, <1>7, LenProperties
    <3> QED BY <1>5, <3>1 DEF Cut
  <2> QED BY <1>5, <1>6, <1>7, <2>1, <2>2 DEF NotAssigned
<1>8. CASE s # <<>>
  <2>1. PICK i \in DOMAIN s : o = [pool |-> Taken(s, i), rv |-> "OK"]
    BY <1>1, <1>8
  <2> DEFINE t == RemoveAt(s, i)
             k == q.idle - 1
             r == LeftWith(q, g, t, k)
             x == HandOutSocket(r, g, h, r.generation)
             l == Len(s)
  <2>2. q \in Pools /\ g \in Groups /\ q.idle \in Nat /\ i \in 1 .. l /\ s[i] = p.generation
    BY <1>0, <1>2, <1>5, Sizes, PoolFields, LenProperties
  <2>3. IsLeft(q, g, t, k) /\ Len(t) < l
    <3>1. /\ t \in Seq(Generations) /\ Len(t) = l - 1
          /\ \A j \in 1 .. (l - 1) : t[j] = IF j < i THEN s[j] ELSE s[j + 1]
      BY <1>2, <2>2, RemoveAtFacts
    <3>2. l \in Nat /\ l >= 1 /\ \A j \in 1 .. l : s[j] = p.generation
      BY <1>2, <2>2
    <3> HIDE DEF t, l
    <3>3. Len(t) <= l /\ Len(t) < l /\ k = q.idle - (l - Len(t))
      BY <2>2, <3>1, <3>2
    <3>4. \A j \in 1 .. Len(t) : t[j] = p.generation
      BY <2>2, <3>1, <3>2
    <3> QED BY <1>6, <3>1, <3>3, <3>4 DEF IsLeft, l
  <2>4. [Kept(s) EXCEPT !.groups[g].idle_sockets = t, !.idle = @ - 1] = r
    BY <1>4, <2>2 DEF LeftWith, Pools
  <2> HIDE DEF t, k
  <2>5. Core(r) /\ Undisturbed(q, r, h) /\ Cut(q, r, g, t, k)
    BY <1>5, <1>6, <2>3, LeftWithCore
  <2> HIDE DEF r
  <2>6. /\ RoomForOne(r, g) /\ g \in r.group_map /\ r.handles = p.handles
        /\ r.generation = p.generation
    <3>1. RoomForOne(r, g)
      BY <1>6, <2>3, <2>5 DEF Cut
    <3> QED BY <1>6, <2>5, <3>1 DEF Cut, Undisturbed
  <2>7. r.handles[h].socket = NoSocket /\ r.handles[h].group = g
    BY <2>6, PoolAssumption DEF Asks
  <2>8. /\ Core(x) /\ Undisturbed(r, x, h) /\ x.group_map = r.group_map
        /\ x.handles[h].socket # NoSocket /\ Moves(r, x, g, 1, 0, 0, 0)
    BY <2>5, <2>6, <2>7, HandOutSocketCore
  <2>9. o.pool = x /\ o.rv = "OK"
    <3>1. Taken(s, i) = x
      BY <2>2, <2>4, <2>6 DEF t
    <3> HIDE DEF x, Taken
    <3> QED BY <2>1, <3>1
  <2> HIDE DEF x
  <2>10. Undisturbed(p, x, h)
    BY <1>5, <2>5, <2>8, UndisturbedTrans
  <2>11. \E d \in 1 .. Len(old.idle_sockets) : Moves(p, x, g, 1, 0, -d, 0)
    <3> DEFINE m == Len(old.idle_sockets)
               d == m - Len(t)
    <3>1. /\ Moves(p, q, g, 0, 0, l - m, 0) /\ Moves(q, r, g, 0, 0, Len(t) - l, 0)
      BY <1>5, <1>6, <2>5 DEF Cut
    <3>2. l \in Nat /\ m \in Nat /\ Len(t) \in Nat /\ Len(t) < l /\ l <= m
      <4>1. t \in Seq(Generations)
        BY <2>3 DEF IsLeft
      <4> QED BY <1>0, <1>2, <2>3, <4>1, LenProperties
    <3> DEFINE b == l - m
               c == Len(t) - l
    <3>3. b \in Int /\ c \in Int /\ d \in 1 .. m /\ -d = 0 + (b + c) + 0 /\ b + c \in Int
      <4> HIDE DEF l, m
      <4> QED BY <3>2
    <3>4. Moves(p, q, g, 0, 0, b, 0) /\ Moves(q, r, g, 0, 0, c, 0)
      BY <3>1
    <3> HIDE DEF b, c, d
    <3>5. Moves(p, r, g, 0 + 0, 0 + 0, b + c, 0 + 0)
      BY <1>0, <3>3, <3>4, MovesTrans
    <3>6. Moves(p, r, g, 0, 0, b + c, 0)
      BY <3>5
    <3> DEFINE e == b + c
    <3>7. Moves(p, r, g, 0, 0, e, 0) /\ e \in Int /\ -d = e + 0
      BY <3>3, <3>6
    <3> HIDE DEF e
    <3>8. Moves(p, x, g, 0 + 1, 0 + 0, e + 0, 0 + 0)
      BY <1>0, <2>8, <3>7, MovesTrans
    <3>9. Moves(p, x, g, 1, 0, -d, 0)
      BY <3>7, <3>8
    <3> QED BY <3>3, <3>9
  <2> QED BY <2>6, <2>8, <2>9, <2>10, <2>11, PoolAssumption DEF Connected, Results
<1> QED
  BY <1>7, <1>8

LEMMA LoadFields ==
    ASSUME load \in Loads
    PROVE  ConnectResults \subseteq Results /\ LowerStalls \subseteq BOOLEAN /\ load.requests \in Nat
BY PoolAssumption DEF Load, ConnectResults, LowerStalls

\* What the group has more afterwards.
Grows(p, o, g, h) ==
    /\ o.rv \in ConnectResults
    /\ o.rv = "OK" /\ h = None => Moves(p, o.pool, g, 0, 0, 1, 0)
    /\ o.rv = "OK" /\ h # None => Moves(p, o.pool, g, 1, 0, 0, 0)
    /\ o.rv = "ERR_IO_PENDING" => Moves(p, o.pool, g, 0, 1, 0, IF h = None THEN 1 ELSE 0)

LEMMA ConnectNewJobCore ==
    ASSUME NEW p, Core(p), load \in Loads, NEW g \in p.group_map, NEW h, Asks(p, g, h),
           RoomForOne(p, g), NEW o \in ConnectNewJob(p, g, h)
    PROVE  /\ Core(o.pool) /\ Undisturbed(p, o.pool, h) /\ Connected(p, o, g, h)
           /\ Grows(p, o, g, h)
<1> DEFINE pre == h = None
           b == p.groups[g].backup_job_timer \/ (BackupJobs /\ IsEmpty(p.groups[g]))
           timed == [p EXCEPT !.groups[g].backup_job_timer = b]
           q == o.pool
<1>0. g \in Groups /\ p \in Pools /\ p.groups[g] \in SocketGroups
  BY Sizes, PoolFields
<1>1. timed = [p EXCEPT !.groups[g].backup_job_timer =
                   @ \/ (BackupJobs /\ IsEmpty(p.groups[g]))]
  BY <1>0 DEF Pools
<1>2. b \in BOOLEAN /\ pre \in BOOLEAN
  BY <1>0, GroupFields
<1>3. h \in Handles <=> ~pre
  BY PoolAssumption DEF Asks
<1> HIDE DEF b
<1>4. /\ o.rv \in ConnectResults /\ o.rv \in Results
      /\ q = CASE o.rv = "OK" /\ pre -> AddIdleSocket(p, g, p.generation)
              [] o.rv = "ERR_IO_PENDING" -> AddConnectJob(timed, g, pre)
              [] o.rv \in {"OK", "ERR_WITH_SOCKET"} /\ ~pre -> HandOutSocket(p, g, h, p.generation)
              [] OTHER -> RemoveIfEmpty(p, g)
  <2> HIDE DEF pre, timed
  <2> QED BY <1>1, LoadFields DEF ConnectNewJob, pre
<1> HIDE DEF pre
<1>5. CASE o.rv = "OK" /\ pre
  <2>1. q = AddIdleSocket(p, g, p.generation)
    BY <1>4, <1>5
  <2> HIDE DEF q
  <2>2. /\ Core(q) /\ Undisturbed(p, q, h) /\ q.group_map = p.group_map /\ q.handles = p.handles
        /\ Moves(p, q, g, 0, 0, 1, 0)
    BY <2>1, AddIdleSocketCore
  <2>3. Connected(p, o, g, h)
    BY <1>3, <1>4, <1>5, <2>2 DEF Connected, q
  <2>4. Grows(p, o, g, h)
    BY <1>4, <1>5, <2>2 DEF Grows, q, pre
  <2> QED BY <2>2, <2>3, <2>4 DEF q
<1>6. CASE o.rv = "ERR_IO_PENDING"
  <2>1. q = AddConnectJob(timed, g, pre)
    BY <1>4, <1>6
  <2> HIDE DEF q
  <2>2. /\ Core(q) /\ Undisturbed(p, q, h) /\ q.group_map = p.group_map /\ q.handles = p.handles
        /\ Moves(p, q, g, 0, 1, 0, IF pre THEN 1 ELSE 0)
    BY <1>2, <2>1, AddConnectJobCore
  <2>3. Connected(p, o, g, h)
    BY <1>3, <1>4, <1>6, <2>2 DEF Connected, q
  <2>4. Grows(p, o, g, h)
    BY <1>4, <1>6, <2>2 DEF Grows, q, pre
  <2> QED BY <2>2, <2>3, <2>4 DEF q
<1>7. CASE o.rv \in {"OK", "ERR_WITH_SOCKET"} /\ ~pre
  <2>1. q = HandOutSocket(p, g, h, p.generation)
    BY <1>4, <1>7
  <2> HIDE DEF q
  <2>2. h \in Handles /\ p.handles[h].socket = NoSocket /\ p.handles[h].group = g
    BY <1>3, <1>7 DEF Asks, pre
  <2>3. /\ Core(q) /\ Undisturbed(p, q, h) /\ q.group_map = p.group_map
        /\ q.handles[h].socket # NoSocket /\ Moves(p, q, g, 1, 0, 0, 0)
    BY <2>1, <2>2, HandOutSocketCore
  <2>4. Connected(p, o, g, h)
    BY <1>3, <1>4, <1>7, <2>3 DEF Connected, q, pre
  <2>5. Grows(p, o, g, h)
    BY <1>4, <1>7, <2>3 DEF Grows, q, pre
  <2> QED BY <2>3, <2>4, <2>5 DEF q
<1>8. CASE o.rv = "ERR" \/ (o.rv = "ERR_WITH_SOCKET" /\ pre)
  <2>1. q = RemoveIfEmpty(p, g)
    BY <1>4, <1>8
  <2> HIDE DEF q
  <2>2. Core(q) /\ Undisturbed(p, q, h) /\ Shrunk(p, q, g)
    BY <2>1, RemoveIfEmptyCore
  <2>3. Connected(p, o, g, h)
    BY <1>3, <1>4, <1>8, <2>2 DEF Connected, q, Shrunk
  <2>4. Grows(p, o, g, h)
    BY <1>4, <1>8 DEF Grows
  <2> QED BY <2>2, <2>3, <2>4 DEF q
<1> QED
  BY <1>4, <1>5, <1>6, <1>7, <1>8 DEF Results

\* A request takes over a job that nobody waits for.
LEMMA AssignJobCore ==
    ASSUME NEW p, Core(p), NEW g \in p.group_map, HasUnassignedJob(p.groups[g]), NEW h
    PROVE  LET q == [p EXCEPT !.groups[g].unassigned_job_count = @ - 1] IN
           /\ Core(q) /\ Undisturbed(p, q, h)
           /\ q.group_map = p.group_map /\ q.handles = p.handles
           /\ Moves(p, q, g, 0, 0, 0, -1)
<1> DEFINE q == [p EXCEPT !.groups[g].unassigned_job_count = @ - 1]
           old == p.groups[g]
           n == old.unassigned_job_count - 1
           gr == [old EXCEPT !.unassigned_job_count = n]
<1>0. /\ g \in Groups /\ p \in Pools /\ old \in SocketGroups /\ GroupOK(old, p.generation)
      /\ p.idle \in Nat /\ p.connecting \in Nat /\ p.handed_out \in Nat
  BY Sizes, PoolFields
<1>1. n \in Nat /\ n <= Len(old.jobs)
  <2>1. old.unassigned_job_count \in Nat /\ old.unassigned_job_count > 0 /\ Len(old.jobs) \in Nat
        /\ old.unassigned_job_count <= Len(old.jobs)
    BY <1>0, GroupFields DEF HasUnassignedJob, GroupOK
  <2> QED BY <2>1
<1>2. q = Placed(p, g, gr, p.idle, p.connecting)
  BY <1>0 DEF Placed, Pools, SocketGroups
<1> HIDE DEF n
<1>3. gr \in SocketGroups
  BY <1>0, <1>1 DEF SocketGroups
<1>4. /\ gr.jobs = old.jobs /\ gr.unassigned_job_count = n
      /\ gr.idle_sockets = old.idle_sockets /\ gr.pending_requests = old.pending_requests
      /\ gr.active_socket_count = old.active_socket_count
      /\ gr.backup_job_timer = old.backup_job_timer
  BY <1>0 DEF SocketGroups
<1> HIDE DEF gr, q
<1>5. GroupOK(gr, p.generation)
  BY <1>0, <1>1, <1>4 DEF GroupOK
<1>6. /\ p.idle = p.idle + (Len(gr.idle_sockets) - Len(old.idle_sockets))
      /\ p.connecting = p.connecting + (Len(gr.jobs) - Len(old.jobs))
  <2>1. Len(old.idle_sockets) \in Nat /\ Len(old.jobs) \in Nat
    BY <1>0, GroupFields
  <2> QED BY <1>0, <1>4, <2>1
<1>7. IgnoreLimits = {} => /\ p.handed_out + p.connecting + p.idle <= MaxSockets
                           /\ NumActiveSocketSlots(gr) <= MaxSocketsPerGroup
  <2>1. NumActiveSocketSlots(gr) = NumActiveSocketSlots(old)
    BY <1>4 DEF NumActiveSocketSlots
  <2> QED BY <1>0, <2>1 DEF Core, LimitsInv, Total
<1>8. Fits(p, g, gr, p.idle, p.connecting)
  BY <1>0, <1>3, <1>4, <1>5, <1>6, <1>7 DEF Fits
<1>9. Core(q) /\ Undisturbed(p, q, h) /\ Replaced(p, q, g, gr, p.idle, p.connecting)
  BY <1>2, <1>8, PlacedCore
<1>10. Moves(p, q, g, 0, 0, 0, -1)
  <2>1. /\ Len(gr.jobs) = Len(old.jobs) + 0 /\ Len(gr.idle_sockets) = Len(old.idle_sockets) + 0
        /\ gr.unassigned_job_count = old.unassigned_job_count + (-1)
    BY <1>0, <1>4, GroupFields DEF n
  <2> QED BY <1>0, <1>8, <1>9, <2>1, ReplacedMoves
<1> QED
  BY <1>9, <1>10 DEF Replaced, q

\* A request that did not find an idle socket.  The limits hold because an idle socket of
\* another group makes way at the limit.
\* An idle socket of another group may have been closed.
Cleared(p, q, g, h) ==
    /\ Core(q) /\ Undisturbed(p, q, h)
    /\ \/ q = p
       \/ \E k \in Groups \ {g} : p.groups[k].idle_sockets # <<>> /\ Moves(p, q, k, 0, 0, -1, 0)

\* The request takes over a job, waits for a slot, or may connect.
Allocated(p, o, g, h) ==
    LET taken == h # None /\ HasUnassignedJob(p.groups[g]) IN
    \/ taken /\ o.rv = "ERR_IO_PENDING" /\ Moves(p, o.pool, g, 0, 0, 0, -1)
    \/ /\ ~taken /\ o.pool = p /\ o.rv = "ERR_IO_PENDING"
       /\ \/ ~HasAvailableSocketSlot(p.groups[g])
          \/ ReachedMaxSocketsLimit(p) /\ p.idle = 0
    \/ h = None /\ o.pool = p /\ o.rv = "ERR"
    \/ /\ ~taken /\ \E q : Cleared(p, q, g, h) /\ Grows(q, o, g, h)
       /\ h \notin IgnoreLimits => /\ HasAvailableSocketSlot(p.groups[g])
                                   /\ ~ReachedMaxSocketsLimit(p) \/ p.idle > 0

LEMMA AllocateSocketCore ==
    ASSUME NEW p, Core(p), load \in Loads, NEW g \in p.group_map, NEW h, Asks(p, g, h),
           h # None => p.groups[g].idle_sockets = <<>>, NEW o \in AllocateSocket(p, g, h)
    PROVE  /\ Core(o.pool) /\ Undisturbed(p, o.pool, h) /\ Connected(p, o, g, h)
           /\ Allocated(p, o, g, h)
<1> DEFINE gr == p.groups[g]
           limited == h \notin IgnoreLimits
           pending == {[pool |-> p, rv |-> "ERR_IO_PENDING"]}
           C == CloseOneIdleSocketExceptIn(p, {g})
           After(c) == IF h = None /\ ~c.closed THEN {[pool |-> c.pool, rv |-> "ERR"]}
                       ELSE ConnectNewJob(c.pool, g, h)
<1>0. g \in Groups /\ p \in Pools /\ p.idle \in Nat /\ Total(p) \in Nat
  BY Sizes, PoolFields
<1>1. CASE h # None /\ HasUnassignedJob(gr)
  <2> DEFINE q == [p EXCEPT !.groups[g].unassigned_job_count = @ - 1]
  <2>1. o.pool = q /\ o.rv = "ERR_IO_PENDING"
    BY <1>1 DEF AllocateSocket
  <2>2. /\ Core(q) /\ Undisturbed(p, q, h) /\ q.group_map = p.group_map /\ q.handles = p.handles
        /\ Moves(p, q, g, 0, 0, 0, -1)
    BY <1>1, AssignJobCore
  <2> HIDE DEF q
  <2>3. Connected(p, o, g, h)
    BY <1>1, <2>1, <2>2 DEF Connected, Results
  <2>4. Allocated(p, o, g, h)
    BY <1>1, <2>1, <2>2 DEF Allocated
  <2> QED BY <2>1, <2>2, <2>3, <2>4
<1>2. CASE ~(h # None /\ HasUnassignedJob(gr))
  <2>1. o \in IF limited /\ ~HasAvailableSocketSlot(gr) THEN pending
              ELSE IF limited /\ ReachedMaxSocketsLimit(p)
              THEN IF p.idle = 0 THEN pending ELSE UNION {After(c) : c \in C}
              ELSE ConnectNewJob(p, g, h)
    BY <1>2 DEF AllocateSocket
  <2>2. CASE /\ o \in pending
             /\ ~HasAvailableSocketSlot(gr) \/ (ReachedMaxSocketsLimit(p) /\ p.idle = 0)
    <3>1. o.pool = p /\ o.rv = "ERR_IO_PENDING"
      BY <2>2
    <3>2. Undisturbed(p, p, h)
      BY DEF Undisturbed
    <3>3. Connected(p, o, g, h)
      BY <3>1 DEF Connected, Results
    <3>4. Allocated(p, o, g, h)
      BY <1>2, <2>2, <3>1 DEF Allocated
    <3> QED BY <3>1, <3>2, <3>3, <3>4
  <2>3. IgnoreLimits = {} => limited
    OBVIOUS
  <2>4. ReachedMaxSocketsLimit(p) <=> Total(p) >= MaxSockets
    BY DEF ReachedMaxSocketsLimit, Total
  <2> HIDE DEF limited, pending, C
  <2>5. CASE /\ ~(limited /\ ~HasAvailableSocketSlot(gr))
             /\ ~(limited /\ ReachedMaxSocketsLimit(p))
    <3>1. o \in ConnectNewJob(p, g, h)
      BY <2>1, <2>5
    <3>2. RoomForOne(p, g)
      <4>1. IgnoreLimits = {} => ~(Total(p) >= MaxSockets) /\ HasAvailableSocketSlot(gr)
        BY <2>3, <2>4, <2>5
      <4>2. MaxSockets \in Nat
        BY PoolAssumption
      <4> QED BY <1>0, <4>1, <4>2 DEF RoomForOne
    <3>3. /\ Core(o.pool) /\ Undisturbed(p, o.pool, h) /\ Connected(p, o, g, h)
          /\ Grows(p, o, g, h)
      BY <3>1, <3>2, ConnectNewJobCore
    <3>4. Cleared(p, p, g, h)
      BY DEF Cleared, Undisturbed
    <3>5. Allocated(p, o, g, h)
      BY <1>2, <2>5, <3>3, <3>4 DEF Allocated, limited
    <3> QED BY <3>3, <3>5
  <2>6. CASE /\ ~(limited /\ ~HasAvailableSocketSlot(gr))
             /\ limited /\ ReachedMaxSocketsLimit(p) /\ p.idle # 0
    <3>1. PICK c \in C : o \in After(c)
      BY <2>1, <2>6
    <3>2. p.idle > 0 /\ {g} \in SUBSET Groups
      BY <1>0, <2>6
    <3>3. /\ Core(c.pool) /\ Undisturbed(p, c.pool, h) /\ c.closed \in BOOLEAN
          /\ OneClosed(p, c, g)
          /\ c.closed <=> \E k \in Groups \ {g} : p.groups[k].idle_sockets # <<>>
          /\ ~c.closed => c.pool = p
          /\ c.closed => \E k \in Groups \ {g} : /\ p.groups[k].idle_sockets # <<>>
                                                 /\ Moves(p, c.pool, k, 0, 0, -1, 0)
      BY <3>2, CloseOneIdleSocketCore DEF C
    <3>4. /\ c.pool.handles = p.handles /\ g \in c.pool.group_map
          /\ c.pool.groups[g] = gr
          /\ c.closed => RoomForOne(c.pool, g)
      BY <2>6, <3>3 DEF OneClosed, RoomForOne
    <3>5. CASE h = None /\ ~c.closed
      <4>1. o.pool = c.pool /\ o.rv = "ERR"
        BY <3>1, <3>5
      <4>2. Connected(p, o, g, h)
        BY <3>3, <3>4, <3>5, <4>1, PoolAssumption DEF Connected, Results
      <4>3. Allocated(p, o, g, h)
        BY <3>3, <3>5, <4>1 DEF Allocated
      <4> QED BY <3>3, <4>1, <4>2, <4>3
    <3>6. CASE ~(h = None /\ ~c.closed)
      <4>1. o \in ConnectNewJob(c.pool, g, h)
        BY <3>1, <3>6
      <4>2. c.closed
        <5>1. \E k \in Groups : p.groups[k].idle_sockets # <<>>
          BY <3>2, SomeIdle
        <5> QED BY <3>3, <3>6, <5>1
      <4>3. Asks(c.pool, g, h)
        BY <3>4 DEF Asks
      <4>4. /\ Core(o.pool) /\ Undisturbed(c.pool, o.pool, h) /\ Connected(c.pool, o, g, h)
            /\ Grows(c.pool, o, g, h)
        BY <3>3, <3>4, <4>1, <4>2, <4>3, ConnectNewJobCore
      <4>5. Undisturbed(p, o.pool, h)
        BY <3>3, <4>4, UndisturbedTrans
      <4>6. Connected(p, o, g, h)
        BY <3>4, <4>4 DEF Connected
      <4>7. Cleared(p, c.pool, g, h)
        BY <3>3, <4>2 DEF Cleared
      <4>8. Allocated(p, o, g, h)
        BY <1>2, <2>6, <3>2, <4>4, <4>7 DEF Allocated, limited
      <4> QED BY <4>4, <4>5, <4>6, <4>8
    <3> QED BY <3>5, <3>6
  <2>7. CASE limited /\ (~HasAvailableSocketSlot(gr) \/ (ReachedMaxSocketsLimit(p) /\ p.idle = 0))
    BY <2>1, <2>2, <2>7
  <2> QED BY <2>5, <2>6, <2>7
<1> QED
  BY <1>1, <1>2

LEMMA RequestSocketInternalCore ==
    ASSUME NEW p, Core(p), load \in Loads, NEW g \in Groups, NEW h, Asks(p, g, h),
           NEW o \in RequestSocketInternal(p, g, h)
    PROVE  Core(o.pool) /\ Undisturbed(p, o.pool, h) /\ Connected(p, o, g, h)
<1> DEFINE found == GetOrCreateGroup(p, g)
           tried == IF h = None THEN {[pool |-> found, rv |-> "none"]}
                    ELSE AssignIdleSocketToRequest(found, g, h)
           Then(t) == IF t.rv = "OK" THEN {t} ELSE AllocateSocket(t.pool, g, h)
<1>1. /\ Core(found) /\ Undisturbed(p, found, h) /\ g \in found.group_map
      /\ found.handles = p.handles
  BY GetOrCreateGroupCore
<1>2. PICK t \in tried : o \in Then(t)
  <2> HIDE DEF found
  <2> QED BY DEF RequestSocketInternal, found
<1> HIDE DEF found
<1>3. Asks(found, g, h)
  BY <1>1 DEF Asks
<1>4. ASSUME NEW q, Core(q), Undisturbed(found, q, h), g \in q.group_map, q.handles = found.handles,
             h # None => q.groups[g].idle_sockets = <<>>, o \in AllocateSocket(q, g, h)
      PROVE  Core(o.pool) /\ Undisturbed(p, o.pool, h) /\ Connected(p, o, g, h)
  <2>1. Asks(q, g, h)
    BY <1>3, <1>4 DEF Asks
  <2>2. Core(o.pool) /\ Undisturbed(q, o.pool, h) /\ Connected(q, o, g, h)
    BY <1>4, <2>1, AllocateSocketCore
  <2>3. Undisturbed(p, o.pool, h)
    BY <1>1, <1>4, <2>2, UndisturbedTrans
  <2>4. q.handles = p.handles
    BY <1>1, <1>4
  <2> QED BY <2>2, <2>3, <2>4 DEF Connected
<1>5. CASE h = None
  <2>1. o \in AllocateSocket(found, g, h)
    BY <1>2, <1>5
  <2>2. Undisturbed(found, found, h)
    BY DEF Undisturbed
  <2> QED BY <1>1, <1>4, <1>5, <2>1, <2>2
<1>6. CASE h # None
  <2>1. h \in Handles /\ t \in AssignIdleSocketToRequest(found, g, h)
    BY <1>2, <1>3, <1>6 DEF Asks
  <2>2. /\ Core(t.pool) /\ Undisturbed(found, t.pool, h)
        /\ t.rv = "OK" => Connected(found, t, g, h)
        /\ t.rv # "OK" => NotAssigned(found, t.pool, g)
    BY <1>1, <1>3, <2>1, AssignIdleSocketCore
  <2>3. CASE t.rv = "OK"
    <3>1. o = t
      BY <1>2, <2>3
    <3>2. Undisturbed(p, t.pool, h)
      BY <1>1, <2>2, UndisturbedTrans
    <3> QED BY <1>1, <2>2, <2>3, <3>1, <3>2 DEF Connected
  <2>4. CASE t.rv # "OK"
    <3>1. o \in AllocateSocket(t.pool, g, h)
      BY <1>2, <2>4
    <3> QED BY <1>4, <2>2, <2>4, <3>1 DEF NotAssigned
  <2> QED BY <2>3, <2>4
<1> QED
  BY <1>5, <1>6

-----------------------------------------------------------------------------
(* Queues *)

LEMMA RemoveFirstFacts ==
    ASSUME NEW S, NEW s \in Seq(S), NEW e, Once(s)
    PROVE  LET r == RemoveFirst(s, e) IN
           /\ r \in Seq(S) /\ Once(r)
           /\ \A x : Has(r, x) <=> Has(s, x) /\ x # e
           /\ Has(s, e) => Len(r) = Len(s) - 1
<1> DEFINE r == RemoveFirst(s, e)
           n == Len(s)
<1>1. CASE ~Has(s, e)
  <2>1. r = s
    BY <1>1 DEF RemoveFirst, Has
  <2> QED BY <1>1, <2>1
<1>2. CASE Has(s, e)
  <2>1. PICK i \in 1 .. n : s[i] = e
    BY <1>2 DEF Has
  <2>2. r = RemoveAt(s, i)
    <3>1. {j \in 1 .. n : s[j] = e} = {i}
      BY <2>1 DEF Once
    <3>2. Min({i}) = i
      BY <2>1 DEF Min
    <3>3. SelectInSeq(s, LAMBDA v : v = e) = i
      BY <3>1, <3>2 DEF SelectInSeq
    <3> QED BY <2>1, <3>3 DEF RemoveFirst
  <2> HIDE DEF r
  <2>3. /\ r \in Seq(S) /\ Len(r) = n - 1 /\ n \in Nat
        /\ \A j \in 1 .. (n - 1) : r[j] = IF j < i THEN s[j] ELSE s[j + 1]
    BY <2>2, RemoveAtFacts, LenProperties
  <2>4. \A j, k \in 1 .. n : s[j] = s[k] => j = k
    BY DEF Once
  <2> HIDE DEF n
  <2>5. ASSUME NEW j \in 1 .. (n - 1), NEW k \in 1 .. (n - 1), r[j] = r[k] PROVE j = k
    <3> DEFINE a == IF j < i THEN j ELSE j + 1
               b == IF k < i THEN k ELSE k + 1
    <3>1. a \in 1 .. n /\ b \in 1 .. n /\ r[j] = s[a] /\ r[k] = s[b]
      BY <2>3
    <3>2. a = b
      <4> HIDE DEF a, b
      <4> QED BY <2>4, <2>5, <3>1
    <3> QED BY <3>2
  <2>6. ASSUME NEW j \in 1 .. (n - 1) PROVE r[j] # e /\ \E k \in 1 .. n : r[j] = s[k]
    <3> DEFINE a == IF j < i THEN j ELSE j + 1
    <3>1. a \in 1 .. n /\ r[j] = s[a] /\ a # i
      BY <2>3
    <3> HIDE DEF a
    <3> QED BY <2>1, <2>4, <3>1
  <2>7. ASSUME NEW k \in 1 .. n, s[k] # e PROVE \E j \in 1 .. (n - 1) : r[j] = s[k]
    <3>1. k # i
      BY <2>1, <2>7
    <3>2. CASE k < i
      <4>1. k \in 1 .. (n - 1) /\ r[k] = s[k]
        BY <2>3, <3>2
      <4> QED BY <4>1
    <3>3. CASE k > i
      <4>1. k - 1 \in 1 .. (n - 1) /\ r[k - 1] = s[k]
        BY <2>3, <3>3
      <4> QED BY <4>1
    <3> QED BY <3>1, <3>2, <3>3
  <2>8. Once(r)
    BY <2>3, <2>5 DEF Once
  <2>9. ASSUME NEW x PROVE Has(r, x) <=> Has(s, x) /\ x # e
    <3>1. Has(s, x) <=> \E k \in 1 .. n : s[k] = x
      BY DEF Has, n
    <3>2. Has(r, x) <=> \E j \in 1 .. (n - 1) : r[j] = x
      BY <2>3 DEF Has
    <3>3. ASSUME NEW j \in 1 .. (n - 1), r[j] = x PROVE x # e /\ \E k \in 1 .. n : s[k] = x
      BY <2>6, <3>3
    <3>4. ASSUME NEW k \in 1 .. n, s[k] = x, x # e PROVE \E j \in 1 .. (n - 1) : r[j] = x
      BY <2>7, <3>4
    <3> QED BY <3>1, <3>2, <3>3, <3>4
  <2> QED BY <2>3, <2>8, <2>9 DEF r, n
<1> QED
  BY <1>1, <1>2

LEMMA InsertFacts ==
    ASSUME NEW S, NEW s \in Seq(S), NEW e \in S, Once(s), ~Has(s, e), NEW i \in 1 .. (Len(s) + 1)
    PROVE  LET r == InsertAt(s, i, e) IN
           /\ r \in Seq(S) /\ Once(r) /\ Len(r) = Len(s) + 1
           /\ \A x : Has(r, x) <=> Has(s, x) \/ x = e
<1> DEFINE r == InsertAt(s, i, e)
           n == Len(s)
<1>1. /\ r \in Seq(S) /\ Len(r) = n + 1 /\ n \in Nat
      /\ \A j \in 1 .. (n + 1) : r[j] = IF j < i THEN s[j] ELSE IF j = i THEN e ELSE s[j - 1]
  BY InsertAtFacts, LenProperties
<1>2. \A j, k \in 1 .. n : s[j] = s[k] => j = k
  BY DEF Once
<1>3. \A j \in 1 .. n : s[j] # e
  BY DEF Has
<1>4. i \in 1 .. (n + 1)
  OBVIOUS
<1> HIDE DEF r, n
<1>5. ASSUME NEW j \in 1 .. (n + 1), NEW k \in 1 .. (n + 1), r[j] = r[k] PROVE j = k
  <2> DEFINE a == IF j < i THEN j ELSE j - 1
             b == IF k < i THEN k ELSE k - 1
  <2>1. CASE j # i /\ k # i
    <3>1. a \in 1 .. n /\ b \in 1 .. n /\ r[j] = s[a] /\ r[k] = s[b]
      BY <1>1, <1>4, <2>1
    <3>2. a = b
      <4> HIDE DEF a, b
      <4> QED BY <1>2, <1>5, <3>1
    <3> QED BY <1>4, <2>1, <3>2
  <2>2. CASE j = i /\ k # i
    <3>1. b \in 1 .. n /\ r[k] = s[b] /\ r[j] = e
      BY <1>1, <1>4, <2>2
    <3> HIDE DEF b
    <3> QED BY <1>3, <1>5, <3>1
  <2>3. CASE j # i /\ k = i
    <3>1. a \in 1 .. n /\ r[j] = s[a] /\ r[k] = e
      BY <1>1, <1>4, <2>3
    <3> HIDE DEF a
    <3> QED BY <1>3, <1>5, <3>1
  <2> QED BY <2>1, <2>2, <2>3
<1>6. ASSUME NEW j \in 1 .. (n + 1) PROVE r[j] = e \/ \E k \in 1 .. n : r[j] = s[k]
  <2> DEFINE a == IF j < i THEN j ELSE j - 1
  <2>1. CASE j # i
    <3>1. a \in 1 .. n /\ r[j] = s[a]
      BY <1>1, <1>4, <2>1
    <3> QED BY <3>1
  <2>2. CASE j = i
    BY <1>1, <1>4, <2>2
  <2> QED BY <2>1, <2>2
<1>7. ASSUME NEW k \in 1 .. n PROVE \E j \in 1 .. (n + 1) : r[j] = s[k]
  <2>1. CASE k < i
    <3>1. k \in 1 .. (n + 1) /\ r[k] = s[k]
      BY <1>1, <2>1
    <3> QED BY <3>1
  <2>2. CASE ~(k < i)
    <3>1. k + 1 \in 1 .. (n + 1) /\ r[k + 1] = s[k]
      BY <1>1, <1>4, <2>2
    <3> QED BY <3>1
  <2> QED BY <2>1, <2>2
<1>8. i \in 1 .. (n + 1) /\ r[i] = e
  BY <1>1, <1>4
<1>9. Once(r)
  BY <1>1, <1>5 DEF Once
<1>10. ASSUME NEW x PROVE Has(r, x) <=> Has(s, x) \/ x = e
  <2>1. Has(s, x) <=> \E k \in 1 .. n : s[k] = x
    BY DEF Has, n
  <2>2. Has(r, x) <=> \E j \in 1 .. (n + 1) : r[j] = x
    BY <1>1 DEF Has
  <2>3. ASSUME NEW j \in 1 .. (n + 1), r[j] = x PROVE x = e \/ \E k \in 1 .. n : s[k] = x
    BY <1>6, <2>3
  <2>4. ASSUME NEW k \in 1 .. n, s[k] = x PROVE \E j \in 1 .. (n + 1) : r[j] = x
    BY <1>7, <2>4
  <2> QED BY <1>8, <2>1, <2>2, <2>3, <2>4
<1> QED
  BY <1>1, <1>9, <1>10 DEF r, n

LEMMA AppendHas ==
    ASSUME NEW S, NEW s \in Seq(S), NEW e \in S
    PROVE  /\ Append(s, e) \in Seq(S)
           /\ \A x : Has(Append(s, e), x) <=> Has(s, x) \/ x = e
<1> DEFINE r == Append(s, e)
           n == Len(s)
<1>1. /\ r \in Seq(S) /\ Len(r) = n + 1 /\ n \in Nat /\ r[n + 1] = e
      /\ \A i \in 1 .. n : r[i] = s[i]
  BY AppendProperties, LenProperties
<1> HIDE DEF r, n
<1>2. ASSUME NEW x PROVE Has(r, x) <=> Has(s, x) \/ x = e
  <2>1. Has(r, x) => Has(s, x) \/ x = e
    BY <1>1 DEF Has, n
  <2>2. Has(s, x) => Has(r, x)
    BY <1>1 DEF Has, n
  <2>3. x = e => Has(r, x)
    <3>1. n + 1 \in 1 .. (n + 1)
      BY <1>1
    <3> QED BY <1>1, <3>1 DEF Has
  <2> QED BY <2>1, <2>2, <2>3
<1> QED
  BY <1>1, <1>2 DEF r

LEMMA TailHas ==
    ASSUME NEW S, NEW s \in Seq(S), s # <<>>
    PROVE  /\ Tail(s) \in Seq(S) /\ Head(s) \in S /\ Has(s, Head(s))
           /\ \A x : Has(s, x) => Has(Tail(s), x) \/ x = Head(s)
<1> DEFINE t == Tail(s)
           n == Len(s)
<1>1. /\ t \in Seq(S) /\ Len(t) = n - 1 /\ n \in Nat /\ n >= 1 /\ Head(s) = s[1] /\ s[1] \in S
      /\ \A i \in 1 .. (n - 1) : t[i] = s[i + 1]
  BY HeadTailProperties, LenProperties, EmptySeq, ElementOfSeq
<1> HIDE DEF t, n
<1>2. ASSUME NEW x, Has(s, x) PROVE Has(t, x) \/ x = s[1]
  <2>1. PICK i \in 1 .. n : s[i] = x
    BY <1>2 DEF Has, n
  <2>2. CASE i # 1
    <3>1. i - 1 \in 1 .. (n - 1) /\ t[i - 1] = x
      BY <1>1, <2>1, <2>2
    <3> QED BY <1>1, <3>1 DEF Has
  <2> QED BY <2>1, <2>2
<1>3. Has(s, s[1])
  <2>1. 1 \in 1 .. n
    BY <1>1
  <2> QED BY <2>1 DEF Has, n
<1> QED
  BY <1>1, <1>2, <1>3 DEF t

-----------------------------------------------------------------------------
(* Requests *)

LEMMA GoodButNobody ==
    ASSUME NEW p
    PROVE  /\ Good(p) <=> GoodBut(p, None)
           /\ \A h : Good(p) => GoodBut(p, h)
           /\ \A h : GoodBut(p, h) /\ (h \in Handles => LinkOf(p, h)) => Good(p)
<1>1. Handles \ {None} = Handles
  BY PoolAssumption
<1> QED
  BY <1>1 DEF Good, GoodBut

\* What leaves the requests alone keeps them in order.
LEMMA UndisturbedGood ==
    ASSUME NEW p, NEW q, NEW h, GoodBut(p, h), Core(q), Undisturbed(p, q, h)
    PROVE  /\ GoodBut(q, h)
           /\ \A g \in Groups : \A k : Queued(q, g, k) <=> Queued(p, g, k)
<1>1. \A g \in Groups : \A k : Queued(q, g, k) <=> Queued(p, g, k)
  BY DEF Undisturbed, Queued
<1>2. \A k : Posted(q, k) <=> Posted(p, k)
  BY DEF Undisturbed, Posted
<1>3. ASSUME NEW k \in Handles \ {h} PROVE LinkOf(q, k)
  <2>1. LinkOf(p, k) /\ q.handles[k] = p.handles[k] /\ q.callbacks = p.callbacks
    BY DEF GoodBut, Undisturbed
  <2> QED BY <1>1, <1>2, <2>1 DEF LinkOf
<1>4. ASSUME NEW g \in Groups PROVE QueueOf(q, g)
  <2>1. QueueOf(p, g) /\ Once(q.groups[g].pending_requests) /\ q.callbacks = p.callbacks
    BY DEF GoodBut, Undisturbed, QueueOf
  <2>2. ASSUME NEW k \in Handles
        PROVE  q.handles[k].phase = p.handles[k].phase /\ q.handles[k].group = p.handles[k].group
    BY DEF Undisturbed
  <2> QED BY <1>1, <2>1, <2>2 DEF QueueOf
<1> QED
  BY <1>1, <1>3, <1>4 DEF GoodBut

LEMMA UndisturbedAll ==
    ASSUME NEW p, NEW q, NEW h, Good(p), Core(q), Undisturbed(p, q, h), q.handles = p.handles
    PROVE  Good(q)
<1>1. Undisturbed(p, q, None)
  BY PoolAssumption DEF Undisturbed
<1>2. GoodBut(p, None)
  BY GoodButNobody
<1>3. GoodBut(q, None)
  BY <1>1, <1>2, UndisturbedGood
<1> QED BY <1>3, GoodButNobody

LEMMA UndisturbedNobody ==
    ASSUME NEW p, NEW q, Good(p), Core(q), Undisturbed(p, q, None)
    PROVE  Good(q)
<1>2. GoodBut(p, None)
  BY GoodButNobody
<1>3. GoodBut(q, None)
  BY <1>2, UndisturbedGood
<1> QED BY <1>3, GoodButNobody

\* No socket or job moves, only requests, callbacks and handles that hold nothing.
SameSockets(old, gr) ==
    /\ gr.idle_sockets = old.idle_sockets /\ gr.jobs = old.jobs
    /\ gr.unassigned_job_count = old.unassigned_job_count
    /\ gr.active_socket_count = old.active_socket_count
    /\ gr.backup_job_timer => old.backup_job_timer

Relabels(p, q) ==
    /\ q \in Pools /\ q.failed = p.failed /\ q.generation = p.generation
    /\ q.group_map = p.group_map /\ q.idle = p.idle /\ q.connecting = p.connecting
    /\ q.handed_out = p.handed_out
    /\ \A g \in Groups : SameSockets(p.groups[g], q.groups[g])
    /\ \A g \in Groups \ p.group_map : q.groups[g] = p.groups[g]
    /\ \A k \in Handles :
          /\ q.handles[k].socket = p.handles[k].socket
          /\ p.handles[k].socket # NoSocket => /\ q.handles[k].group = p.handles[k].group
                                               /\ q.handles[k].pool_id = p.handles[k].pool_id

LEMMA RelabelsCore ==
    ASSUME NEW p, NEW q, Core(p), Relabels(p, q)
    PROVE  /\ Core(q) /\ Total(q) = Total(p)
           /\ \A g \in Groups : RoomForOne(p, g) => RoomForOne(q, g)
<1>1. q \in Pools /\ ~q.failed
  BY DEF Core, Relabels
<1>2. ASSUME NEW g \in Groups
      PROVE  /\ q.groups[g].idle_sockets = p.groups[g].idle_sockets
             /\ q.groups[g].jobs = p.groups[g].jobs
             /\ q.groups[g].unassigned_job_count = p.groups[g].unassigned_job_count
             /\ q.groups[g].active_socket_count = p.groups[g].active_socket_count
             /\ q.groups[g].backup_job_timer => p.groups[g].backup_job_timer
  BY DEF Relabels, SameSockets
<1>3. CountsInv(q)
  <2>1. IdleOf(q) = IdleOf(p) /\ JobsOf(q) = JobsOf(p)
    BY <1>2 DEF IdleOf, JobsOf
  <2> QED BY <2>1 DEF Core, CountsInv, Relabels
<1>4. GroupsInv(q)
  <2>1. ASSUME NEW g \in Groups PROVE GroupOK(q.groups[g], q.generation)
    <3>1. GroupOK(p.groups[g], p.generation) /\ q.generation = p.generation
      BY Sizes DEF Relabels
    <3> QED BY <1>2, <3>1 DEF GroupOK
  <2>2. ASSUME NEW g \in Groups, g \notin q.group_map PROVE q.groups[g] = NewGroup
    BY <2>2, Sizes DEF Relabels
  <2> QED BY <2>1, <2>2 DEF GroupsInv
<1>5. HeldInv(q)
  <2>1. Holding(q) = Holding(p) /\ \A g \in Groups : Holders(q, g) = Holders(p, g)
    BY DEF Relabels, Holding, Holders
  <2> QED BY <1>2, <2>1 DEF Core, HeldInv, Relabels
<1>6. FreshInv(q)
  BY DEF Core, FreshInv, Relabels
<1>7. ASSUME NEW g \in Groups
      PROVE  NumActiveSocketSlots(q.groups[g]) = NumActiveSocketSlots(p.groups[g])
  BY <1>2 DEF NumActiveSocketSlots
<1>8. Total(q) = Total(p)
  BY DEF Total, Relabels
<1>9. LimitsInv(q)
  BY <1>7, <1>8 DEF Core, LimitsInv
<1>10. ASSUME NEW g \in Groups, RoomForOne(p, g) PROVE RoomForOne(q, g)
  BY <1>7, <1>8, <1>10 DEF RoomForOne, HasAvailableSocketSlot
<1> QED
  BY <1>1, <1>3, <1>4, <1>5, <1>6, <1>8, <1>9, <1>10 DEF Core

\* A request leaves the queue of its group.
Popped(p, q, g, h) ==
    /\ q.generation = p.generation /\ q.callbacks = p.callbacks /\ q.tasks = p.tasks
    /\ q.handles = p.handles /\ q.group_map = p.group_map
    /\ q.groups[g].jobs = p.groups[g].jobs
    /\ \A k \in Groups \ {g} : q.groups[k] = p.groups[k]
    /\ RoomForOne(p, g) => RoomForOne(q, g)
    /\ Once(q.groups[g].pending_requests)
    /\ \A x : Queued(q, g, x) <=> Queued(p, g, x) /\ x # h
    /\ Queued(p, g, h) =>
          Len(q.groups[g].pending_requests) = Len(p.groups[g].pending_requests) - 1
    /\ Moves(p, q, g, 0, 0, 0, 0)

LEMMA PopCore ==
    ASSUME NEW p, Core(p), NEW g \in p.group_map, Once(p.groups[g].pending_requests), NEW h
    PROVE  LET q == [p EXCEPT !.groups[g] = RemovePendingRequest(@, h)] IN
           Core(q) /\ Popped(p, q, g, h)
<1> DEFINE q == [p EXCEPT !.groups[g] = RemovePendingRequest(@, h)]
           old == p.groups[g]
           left == RemoveFirst(old.pending_requests, h)
           t == old.backup_job_timer /\ left # <<>>
           gr == [old EXCEPT !.pending_requests = left, !.backup_job_timer = t]
           i == p.idle
           c == p.connecting
<1>0. /\ g \in Groups /\ p \in Pools /\ old \in SocketGroups /\ i \in Nat /\ c \in Nat
      /\ old.pending_requests \in Seq(Handles)
  BY Sizes, PoolFields, GroupFields
<1>1. /\ left \in Seq(Handles) /\ Once(left)
      /\ \A x : Has(left, x) <=> Has(old.pending_requests, x) /\ x # h
      /\ Has(old.pending_requests, h) => Len(left) = Len(old.pending_requests) - 1
  BY <1>0, RemoveFirstFacts
<1>2. t \in BOOLEAN
  OBVIOUS
<1>3. RemovePendingRequest(old, h) = gr
  BY <1>0 DEF RemovePendingRequest, SocketGroups
<1> HIDE DEF left
<1>4. t => old.backup_job_timer
  OBVIOUS
<1> HIDE DEF t
<1>5. gr \in SocketGroups
  BY <1>0, <1>1, <1>2 DEF SocketGroups
<1>6. /\ gr.jobs = old.jobs /\ gr.unassigned_job_count = old.unassigned_job_count
      /\ gr.idle_sockets = old.idle_sockets /\ gr.pending_requests = left
      /\ gr.active_socket_count = old.active_socket_count
      /\ gr.backup_job_timer = t
  BY <1>0 DEF SocketGroups
<1>7. q = Placed(p, g, gr, i, c)
  <2>1. q = [p EXCEPT !.groups[g] = gr]
    BY <1>3
  <2> HIDE DEF gr, q
  <2> QED BY <1>0, <2>1 DEF Placed, Pools
<1> HIDE DEF gr, q, i, c
<1>8. /\ q \in Pools /\ q.groups[g] = gr
      /\ \A k \in Groups \ {g} : q.groups[k] = p.groups[k]
      /\ q.idle = i /\ q.connecting = c /\ q.handed_out = p.handed_out
      /\ q.generation = p.generation /\ q.callbacks = p.callbacks /\ q.tasks = p.tasks
      /\ q.handles = p.handles /\ q.failed = p.failed /\ q.group_map = p.group_map
  <2>1. p \in Pools /\ g \in Groups /\ gr \in SocketGroups /\ i \in Nat /\ c \in Nat
    BY <1>0, <1>5
  <2> QED BY <1>7, <2>1, PlacedFields
<1>9. Relabels(p, q)
  <2>1. ASSUME NEW k \in Groups PROVE SameSockets(p.groups[k], q.groups[k])
    BY <1>4, <1>6, <1>8 DEF SameSockets
  <2> QED BY <1>8, <2>1 DEF Relabels, i, c
<1>10. Core(q) /\ (RoomForOne(p, g) => RoomForOne(q, g))
  BY <1>0, <1>9, RelabelsCore
<1>11. Moves(p, q, g, 0, 0, 0, 0)
  <2>1. /\ Len(old.jobs) \in Nat /\ Len(old.idle_sockets) \in Nat /\ p.handed_out \in Nat
        /\ old.active_socket_count \in Nat /\ old.unassigned_job_count \in Nat
        /\ p.connecting \in Nat /\ p.idle \in Nat
    BY <1>0, GroupFields, PoolFields
  <2>2. \A n \in Nat : n + 0 = n
    OBVIOUS
  <2> QED BY <1>6, <1>8, <2>1, <2>2, Zenon DEF Moves, i, c
<1>12. Popped(p, q, g, h)
  BY <1>1, <1>6, <1>8, <1>10, <1>11 DEF Popped, Queued
<1> QED
  BY <1>10, <1>12 DEF q

\* h has been taken from its queue and is not answered yet.
Answerable(p, h) ==
    /\ GoodBut(p, h) /\ h \in Handles
    /\ p.handles[h].phase = "waiting" /\ p.handles[h].group \in Groups /\ p.callbacks[h] = "none"
    /\ \A g \in Groups : ~Queued(p, g, h)

\* Who is queued waits for a socket of that group and has none.
LEMMA QueuedFacts ==
    ASSUME NEW p, NEW h, Good(p), NEW g \in Groups, NEW k \in Handles, Queued(p, g, k)
    PROVE  /\ g \in p.group_map /\ Asks(p, g, k)
           /\ p.handles[k].phase = "waiting" /\ p.handles[k].group = g /\ p.callbacks[k] = "none"
           /\ p.handles[k].socket = NoSocket
           /\ \A f \in Groups \ {g} : ~Queued(p, f, k)
<1>1. p.handles[k].phase = "waiting" /\ p.handles[k].group = g /\ p.callbacks[k] = "none"
  BY DEF Good, QueueOf
<1>2. p.handles[k].socket = NoSocket
  BY <1>1 DEF Good, LinkOf
<1>3. \A f \in Groups \ {g} : ~Queued(p, f, k)
  BY <1>1 DEF Good, QueueOf
<1>4. g \in p.group_map
  <2>1. SUFFICES ASSUME g \notin p.group_map PROVE FALSE
    OBVIOUS
  <2>2. p.groups[g].pending_requests = <<>>
    BY <2>1, Sizes, NewGroupFields DEF Good
  <2>3. Len(p.groups[g].pending_requests) = 0
    BY <2>2, EmptySeq
  <2> QED BY <2>3 DEF Queued, Has
<1> QED
  BY <1>1, <1>2, <1>3, <1>4 DEF Asks

\* The request of h is taken from the queue.
LEMMA PopGood ==
    ASSUME NEW p, NEW h \in Handles, GoodBut(p, h), NEW g \in Groups, Queued(p, g, h)
    PROVE  LET q == [p EXCEPT !.groups[g] = RemovePendingRequest(@, h)] IN
           /\ Answerable(q, h) /\ Popped(p, q, g, h) /\ g \in p.group_map
<1> DEFINE q == [p EXCEPT !.groups[g] = RemovePendingRequest(@, h)]
<1>1. /\ Core(p) /\ Once(p.groups[g].pending_requests)
      /\ p.handles[h].phase = "waiting" /\ p.handles[h].group = g /\ p.callbacks[h] = "none"
  BY DEF GoodBut, QueueOf
<1>2. g \in p.group_map
  <2>1. SUFFICES ASSUME g \notin p.group_map PROVE FALSE
    OBVIOUS
  <2>2. p.groups[g].pending_requests = <<>>
    BY <1>1, <2>1, Sizes, NewGroupFields
  <2>3. Len(p.groups[g].pending_requests) = 0
    BY <2>2, EmptySeq
  <2> QED BY <2>3 DEF Queued, Has
<1>3. Core(q) /\ Popped(p, q, g, h)
  BY <1>1, <1>2, PopCore
<1> HIDE DEF q
<1>4. /\ \A x : Queued(q, g, x) <=> Queued(p, g, x) /\ x # h
      /\ \A f \in Groups \ {g} : \A x : Queued(q, f, x) <=> Queued(p, f, x)
      /\ q.handles = p.handles /\ q.callbacks = p.callbacks
      /\ \A x : Posted(q, x) <=> Posted(p, x)
  BY <1>3 DEF Popped, Queued, Posted
<1>5. ASSUME NEW k \in Handles \ {h} PROVE LinkOf(q, k)
  <2>1. LinkOf(p, k)
    BY DEF GoodBut
  <2>2. \A f \in Groups : Queued(q, f, k) <=> Queued(p, f, k)
    BY <1>4
  <2> QED BY <1>4, <2>1, <2>2 DEF LinkOf
<1>6. ASSUME NEW f \in Groups PROVE QueueOf(q, f)
  <2>1. QueueOf(p, f)
    BY DEF GoodBut
  <2>2. Once(q.groups[f].pending_requests)
    BY <1>3, <2>1 DEF Popped, QueueOf
  <2>3. \A k \in Handles : Queued(q, f, k) => Queued(p, f, k)
    BY <1>4
  <2> QED BY <1>4, <2>1, <2>2, <2>3 DEF QueueOf
<1>7. \A f \in Groups : ~Queued(q, f, h)
  <2>1. \A f \in Groups \ {g} : ~Queued(p, f, h)
    BY <1>1 DEF GoodBut, QueueOf
  <2> QED BY <1>4, <2>1
<1>8. Answerable(q, h)
  BY <1>1, <1>3, <1>4, <1>5, <1>6, <1>7 DEF Answerable, GoodBut
<1> QED
  BY <1>2, <1>3, <1>8 DEF q

\* Between the two, what leaves requests alone changes nothing of that.
LEMMA UndisturbedAnswerable ==
    ASSUME NEW p, NEW q, NEW h, Answerable(p, h), Core(q), Undisturbed(p, q, h)
    PROVE  Answerable(q, h)
<1>1. GoodBut(q, h) /\ \A g \in Groups : \A k : Queued(q, g, k) <=> Queued(p, g, k)
  BY UndisturbedGood DEF Answerable
<1> QED
  BY <1>1 DEF Answerable, Undisturbed

\* The callback of h is posted.
LEMMA InvokeUserCallbackLaterGood ==
    ASSUME NEW p, NEW h, Answerable(p, h), NEW rv \in {"OK", "ERR", "ERR_WITH_SOCKET"},
           rv = "OK" => p.handles[h].socket # NoSocket
    PROVE  LET q == InvokeUserCallbackLater(p, h, rv) IN
           /\ Good(q) /\ q.groups = p.groups /\ q.group_map = p.group_map
           /\ q.idle = p.idle /\ q.connecting = p.connecting /\ q.handed_out = p.handed_out
           /\ q.handles = p.handles /\ \A x : Has(p.tasks, x) => Has(q.tasks, x)
<1> DEFINE q == InvokeUserCallbackLater(p, h, rv)
           C == [p.callbacks EXCEPT ![h] = rv]
           T == Append(p.tasks, CallbackTask(h))
<1>0. /\ Core(p) /\ p \in Pools /\ ~p.failed /\ h \in Handles /\ p.callbacks[h] = "none"
      /\ p.tasks \in Seq(Tasks) /\ CallbackTask(h) \in Tasks
      /\ p.callbacks \in [Handles -> {"none", "OK", "ERR", "ERR_WITH_SOCKET"}]
  BY PoolFields DEF Answerable, GoodBut, Core, Tasks
<1>1. Check(p, p.callbacks[h] = "none") = p
  <2>1. (p.callbacks[h] = "none") \in BOOLEAN
    OBVIOUS
  <2> QED BY <1>0, <2>1, CheckHolds
<1>2. q = [p EXCEPT !.callbacks = C, !.tasks = T]
  BY <1>0, <1>1 DEF InvokeUserCallbackLater, Pools
<1>3. /\ T \in Seq(Tasks) /\ \A x : Has(T, x) <=> Has(p.tasks, x) \/ x = CallbackTask(h)
  BY <1>0, AppendHas
<1>4. /\ C \in [Handles -> {"none", "OK", "ERR", "ERR_WITH_SOCKET"}] /\ C[h] = rv
      /\ \A k \in Handles \ {h} : C[k] = p.callbacks[k]
  BY <1>0
<1> HIDE DEF q, C, T
<1>5. q \in Pools
  BY <1>0, <1>2, <1>3, <1>4 DEF Pools
<1>6. /\ q.groups = p.groups /\ q.group_map = p.group_map /\ q.idle = p.idle
      /\ q.connecting = p.connecting /\ q.handed_out = p.handed_out
      /\ q.generation = p.generation /\ q.callbacks = C /\ q.tasks = T
      /\ q.handles = p.handles /\ q.failed = p.failed
  BY <1>0, <1>2 DEF Pools
<1>7. Core(q)
  <2>1. Relabels(p, q)
    BY <1>5, <1>6 DEF Relabels, SameSockets
  <2> QED BY <1>0, <2>1, RelabelsCore
<1>8. /\ \A g \in Groups : \A x : Queued(q, g, x) <=> Queued(p, g, x)
      /\ \A x : Posted(p, x) => Posted(q, x)
      /\ Posted(q, h)
  BY <1>3, <1>6 DEF Queued, Posted
<1>9. ASSUME NEW k \in Handles PROVE LinkOf(q, k)
  <2>1. CASE k = h
    <3>1. /\ p.handles[h].phase = "waiting" /\ p.handles[h].group \in Groups
      BY DEF Answerable
    <3> QED BY <1>4, <1>6, <1>8, <2>1, <3>1 DEF LinkOf
  <2>2. CASE k # h
    <3>1. LinkOf(p, k)
      BY <2>2 DEF Answerable, GoodBut
    <3> QED BY <1>4, <1>6, <1>8, <2>2, <3>1 DEF LinkOf
  <2> QED BY <2>1, <2>2
<1>10. ASSUME NEW g \in Groups PROVE QueueOf(q, g)
  <2>1. QueueOf(p, g) /\ ~Queued(p, g, h)
    BY DEF Answerable, GoodBut
  <2>2. ASSUME NEW k \in Handles, Queued(q, g, k) PROVE Queued(p, g, k) /\ k # h
    BY <1>8, <2>1, <2>2
  <2> QED BY <1>4, <1>6, <2>1, <2>2 DEF QueueOf
<1> QED
  BY <1>3, <1>6, <1>7, <1>9, <1>10 DEF Good, q

\* The next request of the group asks again.
LEMMA ProcessPendingRequestGood ==
    ASSUME NEW p, Good(p), load \in Loads, NEW g \in Groups, p.groups[g].pending_requests # <<>>,
           NEW q \in ProcessPendingRequest(p, g)
    PROVE  Good(q)
<1> DEFINE h == Head(p.groups[g].pending_requests)
           Left(o) == [o.pool EXCEPT !.groups[g] = RemovePendingRequest(@, h)]
           Gone(o) == RemoveIfEmpty(Left(o), g)
           Answered(o) == InvokeUserCallbackLater(Gone(o), h, o.rv)
<1>1. h \in Handles /\ Queued(p, g, h) /\ Core(p)
  <2>1. p.groups[g].pending_requests \in Seq(Handles)
    BY Sizes, GroupFields DEF Good
  <2> QED BY <2>1, TailHas DEF Queued, Good
<1>2. PICK o \in RequestSocketInternal(p, g, h) :
          q = IF o.rv = "ERR_IO_PENDING" THEN o.pool ELSE Answered(o)
  BY DEF ProcessPendingRequest
<1> HIDE DEF h
<1>3. Asks(p, g, h)
  BY <1>1, QueuedFacts
<1>4. Core(o.pool) /\ Undisturbed(p, o.pool, h) /\ Connected(p, o, g, h)
  BY <1>1, <1>3, RequestSocketInternalCore
<1>5. CASE o.rv = "ERR_IO_PENDING"
  <2>1. q = o.pool /\ o.pool.handles = p.handles
    BY <1>2, <1>4, <1>5 DEF Connected
  <2> QED BY <1>4, <2>1, UndisturbedAll
<1>6. CASE o.rv # "ERR_IO_PENDING"
  <2>1. GoodBut(o.pool, h) /\ Queued(o.pool, g, h)
    BY <1>1, <1>4, UndisturbedGood, GoodButNobody
  <2>2. Answerable(Left(o), h) /\ Popped(o.pool, Left(o), g, h) /\ g \in o.pool.group_map
    BY <1>1, <2>1, PopGood
  <2> HIDE DEF Left
  <2>3. Core(Left(o)) /\ g \in Left(o).group_map /\ Left(o).handles = o.pool.handles
    BY <2>2 DEF Answerable, GoodBut, Popped
  <2>4. Core(Gone(o)) /\ Undisturbed(Left(o), Gone(o), h) /\ Shrunk(Left(o), Gone(o), g)
    BY <2>3, RemoveIfEmptyCore
  <2> HIDE DEF Gone
  <2>5. Answerable(Gone(o), h)
    BY <2>2, <2>4, UndisturbedAnswerable
  <2>6. Gone(o).handles = o.pool.handles
    BY <2>3, <2>4 DEF Shrunk
  <2>7. o.rv \in {"OK", "ERR", "ERR_WITH_SOCKET"} /\ (o.rv = "OK" => Gone(o).handles[h].socket # NoSocket)
    BY <1>1, <1>4, <1>6, <2>6 DEF Connected, Results
  <2>8. Good(Answered(o))
    BY <2>5, <2>7, InvokeUserCallbackLaterGood
  <2> QED BY <1>2, <1>6, <2>8
<1> QED
  BY <1>5, <1>6

-----------------------------------------------------------------------------
(* Slots that become free *)

LEMMA OnAvailableSocketSlotGood ==
    ASSUME NEW p, Good(p), load \in Loads, NEW g \in p.group_map,
           NEW q \in OnAvailableSocketSlot(p, g)
    PROVE  Good(q)
<1>1. Core(p) /\ p \in Pools /\ ~p.failed /\ g \in Groups
  BY PoolFields DEF Good, Core
<1>2. Check(p, g \in p.group_map) = p
  <2>1. (g \in p.group_map) \in BOOLEAN
    OBVIOUS
  <2> QED BY <1>1, <2>1, CheckHolds
<1>3. q \in IF IsEmpty(p.groups[g]) THEN {RemoveGroup(p, g)}
            ELSE IF p.groups[g].pending_requests # <<>> THEN ProcessPendingRequest(p, g)
            ELSE {p}
  BY <1>2 DEF OnAvailableSocketSlot
<1>4. CASE IsEmpty(p.groups[g])
  <2>1. q = RemoveIfEmpty(p, g)
    BY <1>3, <1>4 DEF RemoveIfEmpty
  <2>2. Core(q) /\ Undisturbed(p, q, None)
    BY <1>1, <2>1, RemoveIfEmptyCore
  <2> QED BY <2>2, UndisturbedNobody
<1>5. CASE ~IsEmpty(p.groups[g]) /\ p.groups[g].pending_requests # <<>>
  <2>1. q \in ProcessPendingRequest(p, g)
    BY <1>3, <1>5
  <2> QED BY <1>1, <1>5, <2>1, ProcessPendingRequestGood
<1>6. CASE ~IsEmpty(p.groups[g]) /\ p.groups[g].pending_requests = <<>>
  BY <1>3, <1>6
<1> QED
  BY <1>4, <1>5, <1>6

LEMMA CloseOneIdleSocketGood ==
    ASSUME NEW p, Good(p), NEW q \in CloseOneIdleSocket(p)
    PROVE  Good(q) /\ Undisturbed(p, q, None)
<1>1. Core(p) /\ p.idle \in Nat
  BY PoolFields DEF Good, Core
<1>2. CASE p.idle = 0
  <2>1. q = p
    BY <1>2 DEF CloseOneIdleSocket
  <2> QED BY <2>1 DEF Undisturbed
<1>3. CASE p.idle # 0
  <2>1. PICK c \in CloseOneIdleSocketExceptIn(p, {}) : q = c.pool
    BY <1>3 DEF CloseOneIdleSocket
  <2>2. p.idle > 0 /\ {} \in SUBSET Groups
    BY <1>1, <1>3
  <2>3. Core(q) /\ Undisturbed(p, q, None)
    BY <1>1, <2>1, <2>2, CloseOneIdleSocketCore
  <2> QED BY <2>3, UndisturbedNobody
<1> QED
  BY <1>2, <1>3

\* A group with requests is in the map.
LEMMA WaitingGroup ==
    ASSUME NEW p, Core(p), NEW g \in Groups, p.groups[g].pending_requests # <<>>
    PROVE  g \in p.group_map
BY Sizes, NewGroupFields

LEMMA CheckForStalledSocketGroupsGood ==
    ASSUME NEW p, Good(p), load \in Loads, NEW q \in CheckForStalledSocketGroups(p)
    PROVE  Good(q)
<1> DEFINE freed == IF ReachedMaxSocketsLimit(p) THEN CloseOneIdleSocket(p) ELSE {p}
<1>1. CASE StalledGroups(p) = {}
  <2>1. \/ q \in CloseOneIdleSocket(p) \/ q = p
    BY <1>1 DEF CheckForStalledSocketGroups
  <2> QED BY <2>1, CloseOneIdleSocketGood
<1>2. CASE StalledGroups(p) # {} /\ ReachedMaxSocketsLimit(p) /\ p.idle = 0
  <2>1. q = p
    BY <1>2 DEF CheckForStalledSocketGroups
  <2> QED BY <2>1
<1>3. CASE StalledGroups(p) # {} /\ ~(ReachedMaxSocketsLimit(p) /\ p.idle = 0)
  <2>1. PICK r \in freed, g \in FindTopStalledGroup(p) : q \in OnAvailableSocketSlot(r, g)
    BY <1>3 DEF CheckForStalledSocketGroups
  <2>2. Good(r) /\ Undisturbed(p, r, None)
    <3>1. r \in CloseOneIdleSocket(p) \/ r = p
      BY <2>1
    <3>2. Undisturbed(p, p, None)
      BY DEF Undisturbed
    <3> QED BY <3>1, <3>2, CloseOneIdleSocketGood
  <2>3. g \in p.group_map /\ p.groups[g].pending_requests # <<>>
    BY <2>1 DEF FindTopStalledGroup, StalledGroups
  <2>4. g \in Groups /\ r.groups[g].pending_requests # <<>>
    BY <2>2, <2>3, PoolFields DEF Good, Core, Undisturbed
  <2>5. g \in r.group_map
    BY <2>2, <2>4, WaitingGroup DEF Good
  <2> QED BY <2>1, <2>2, <2>5, OnAvailableSocketSlotGood
<1> QED
  BY <1>1, <1>2, <1>3

LEMMA OfferSlotGood ==
    ASSUME NEW p, Good(p), load \in Loads, NEW g \in p.group_map, NEW q \in OfferSlot(p, g)
    PROVE  Good(q)
<1>1. PICK r \in OnAvailableSocketSlot(p, g) : q \in CheckForStalledSocketGroups(r)
  BY DEF OfferSlot
<1>2. Good(r)
  BY <1>1, OnAvailableSocketSlotGood
<1> QED
  BY <1>1, <1>2, CheckForStalledSocketGroupsGood

\* Nothing is on the way to h.
Apart(p, h) ==
    /\ GoodBut(p, h) /\ h \in Handles /\ p.callbacks[h] = "none"
    /\ \A g \in Groups : ~Queued(p, g, h)

LEMMA FreedGood ==
    ASSUME NEW p, NEW q, NEW h, Apart(p, h), Core(q), Freed(p, q, h)
    PROVE  Good(q)
<1>1. /\ \A g \in Groups : \A x : Queued(q, g, x) <=> Queued(p, g, x)
      /\ \A x : Posted(q, x) <=> Posted(p, x)
      /\ q.callbacks = p.callbacks /\ q.handles[h] = FreeHandle /\ p.callbacks[h] = "none"
  BY DEF Freed, Queued, Posted, Apart
<1>2. ASSUME NEW k \in Handles PROVE LinkOf(q, k)
  <2>1. CASE k = h
    BY <1>1, <2>1, FreeHandleFields DEF LinkOf
  <2>2. CASE k # h
    <3>1. LinkOf(p, k) /\ q.handles[k] = p.handles[k]
      BY <2>2 DEF Apart, GoodBut, Freed
    <3> QED BY <1>1, <3>1 DEF LinkOf
  <2> QED BY <2>1, <2>2
<1>3. ASSUME NEW g \in Groups PROVE QueueOf(q, g)
  <2>1. QueueOf(p, g) /\ ~Queued(p, g, h)
    BY DEF Apart, GoodBut
  <2>2. Once(q.groups[g].pending_requests)
    BY <2>1 DEF QueueOf, Freed
  <2>3. ASSUME NEW k \in Handles, Queued(q, g, k)
        PROVE  Queued(p, g, k) /\ q.handles[k] = p.handles[k]
    BY <1>1, <2>1, <2>3 DEF Freed
  <2> QED BY <1>1, <2>1, <2>2, <2>3 DEF QueueOf
<1> QED
  BY <1>2, <1>3 DEF Good

\* A handle without a socket is reset.
LEMMA FreeCore ==
    ASSUME NEW p, Core(p), NEW h \in Handles, p.handles[h].socket = NoSocket
    PROVE  LET q == [p EXCEPT !.handles[h] = FreeHandle] IN
           /\ Core(q) /\ Freed(p, q, h) /\ q.groups = p.groups
<1> DEFINE q == [p EXCEPT !.handles[h] = FreeHandle]
<1>0. p \in Pools /\ p.handles \in [Handles -> HandleStates]
  BY PoolFields DEF Core
<1>1. q \in Pools
  BY <1>0, FreeHandleFields DEF Pools
<1>2. /\ q.groups = p.groups /\ q.group_map = p.group_map /\ q.idle = p.idle
      /\ q.connecting = p.connecting /\ q.handed_out = p.handed_out
      /\ q.generation = p.generation /\ q.callbacks = p.callbacks /\ q.tasks = p.tasks
      /\ q.handles = [p.handles EXCEPT ![h] = FreeHandle] /\ q.failed = p.failed
  BY <1>0 DEF Pools
<1> HIDE DEF q
<1>3. q.handles[h] = FreeHandle /\ \A k \in Handles \ {h} : q.handles[k] = p.handles[k]
  BY <1>0, <1>2
<1>4. Relabels(p, q)
  BY <1>1, <1>2, <1>3, FreeHandleFields DEF Relabels, SameSockets
<1>5. Core(q)
  BY <1>4, RelabelsCore
<1>6. Freed(p, q, h)
  BY <1>2, <1>3 DEF Freed
<1> QED
  BY <1>2, <1>5, <1>6 DEF q

\* The socket of h comes back.
LEMMA ReleaseSocketGood ==
    ASSUME NEW p, NEW h, Apart(p, h), load \in Loads, p.handles[h].socket # NoSocket,
           NEW connected \in BOOLEAN,
           NEW q \in ReleaseSocket([p EXCEPT !.handles[h] = FreeHandle], p.handles[h].group,
                                   p.handles[h].socket, p.handles[h].pool_id, connected)
    PROVE  Good(q)
<1> DEFINE r == [p EXCEPT !.handles[h] = FreeHandle]
           old == p.handles[h]
           g == old.group
           b == TakenBack(r, g)
<1>0. Core(p) /\ h \in Handles /\ p \in Pools
  BY DEF Apart, GoodBut, Core
<1>1. Core(b) /\ Freed(p, b, h) /\ g \in b.group_map /\ RoomForOne(b, g)
  BY <1>0, TakenBackCore
<1>2. Good(b)
  <2> HIDE DEF b
  <2> QED BY <1>1, FreedGood
<1>3. q \in IF CanReuse(r, old.pool_id, connected)
            THEN OfferSlot(AddIdleSocket(b, g, old.socket), g)
            ELSE CheckForStalledSocketGroups(b)
  BY DEF ReleaseSocket, TakenBack
<1>4. r.generation = p.generation /\ b.generation = p.generation
  <2>1. r.generation = p.generation
    BY <1>0 DEF Pools
  <2> HIDE DEF r, b
  <2> QED BY <1>1, <2>1 DEF Freed
<1>5. old.socket = old.pool_id
  BY <1>0 DEF Core, FreshInv
<1> HIDE DEF b, r, g
<1>6. CASE CanReuse(r, old.pool_id, connected)
  <2> DEFINE a == AddIdleSocket(b, g, b.generation)
  <2>1. q \in OfferSlot(a, g)
    BY <1>3, <1>4, <1>5, <1>6 DEF CanReuse
  <2>2. Core(a) /\ Undisturbed(b, a, None) /\ a.group_map = b.group_map
    BY <1>1, AddIdleSocketCore
  <2> HIDE DEF a
  <2>3. Good(a) /\ g \in a.group_map
    BY <1>1, <1>2, <2>2, UndisturbedNobody
  <2> QED BY <2>1, <2>3, OfferSlotGood
<1>7. CASE ~CanReuse(r, old.pool_id, connected)
  <2>1. q \in CheckForStalledSocketGroups(b)
    BY <1>3, <1>7
  <2> QED BY <1>2, <2>1, CheckForStalledSocketGroupsGood
<1> QED
  BY <1>6, <1>7

\* Nothing is on the way to a handle that does not wait.
LEMMA NotWaiting ==
    ASSUME NEW p, Good(p), NEW h \in Handles, p.handles[h].phase # "waiting"
    PROVE  Apart(p, h)
<1>1. GoodBut(p, h)
  BY GoodButNobody
<1>2. p.callbacks[h] = "none"
  BY DEF Good, LinkOf
<1>3. \A g \in Groups : ~Queued(p, g, h)
  BY DEF Good, QueueOf
<1> QED
  BY <1>1, <1>2, <1>3 DEF Apart

LEMMA ResetHandleGood ==
    ASSUME NEW p, Good(p), load \in Loads, NEW h \in Handles,
           p.handles[h].phase \in {"ready", "parked"},
           NEW connected \in BOOLEAN, NEW q \in ResetHandle(p, h, connected)
    PROVE  Good(q)
<1>1. Apart(p, h)
  BY NotWaiting
<1>2. p.handles[h].socket # NoSocket
  BY DEF Good, LinkOf
<1>3. q \in ReleaseSocket([p EXCEPT !.handles[h] = FreeHandle], p.handles[h].group,
                          p.handles[h].socket, p.handles[h].pool_id, connected)
  BY DEF ResetHandle
<1> QED
  BY <1>1, <1>2, <1>3, ReleaseSocketGood

-----------------------------------------------------------------------------
(* Handles *)

\* A handle becomes hs and keeps its socket.
Rehandled(p, q, h, hs) ==
    /\ q.generation = p.generation /\ q.callbacks = p.callbacks /\ q.tasks = p.tasks
    /\ q.groups = p.groups /\ q.group_map = p.group_map
    /\ \A k \in Handles \ {h} : q.handles[k] = p.handles[k]
    /\ q.handles[h] = hs

KeepsSocket(old, hs) ==
    /\ hs \in HandleStates /\ hs.socket = old.socket
    /\ old.socket # NoSocket => hs.group = old.group /\ hs.pool_id = old.pool_id

LEMMA RehandledCore ==
    ASSUME NEW p, Core(p), NEW h \in Handles, NEW hs, KeepsSocket(p.handles[h], hs),
           NEW q, q = [p EXCEPT !.handles[h] = hs]
    PROVE  Core(q) /\ Rehandled(p, q, h, hs)
<1>0. p \in Pools /\ p.handles \in [Handles -> HandleStates] /\ hs \in HandleStates
  BY PoolFields DEF Core, KeepsSocket
<1>1. q \in Pools
  <2>1. [p EXCEPT !.handles[h] = hs] \in Pools
    BY <1>0 DEF Pools
  <2> QED BY <2>1
<1>2. /\ q.groups = p.groups /\ q.group_map = p.group_map /\ q.idle = p.idle
      /\ q.connecting = p.connecting /\ q.handed_out = p.handed_out
      /\ q.generation = p.generation /\ q.callbacks = p.callbacks /\ q.tasks = p.tasks
      /\ q.handles = [p.handles EXCEPT ![h] = hs] /\ q.failed = p.failed
  BY <1>0 DEF Pools
<1>3. q.handles[h] = hs /\ \A k \in Handles \ {h} : q.handles[k] = p.handles[k]
  BY <1>0, <1>2
<1>4. Relabels(p, q)
  BY <1>1, <1>2, <1>3 DEF Relabels, SameSockets, KeepsSocket
<1>5. Core(q)
  BY <1>4, RelabelsCore
<1> QED
  BY <1>2, <1>3, <1>5 DEF Rehandled

LEMMA RehandledApart ==
    ASSUME NEW p, NEW h, Apart(p, h), NEW hs, NEW q, Core(q), Rehandled(p, q, h, hs)
    PROVE  /\ Apart(q, h)
           /\ hs.phase \in {"ready", "parked"} /\ hs.socket # NoSocket => Good(q)
<1>1. /\ \A g \in Groups : \A x : Queued(q, g, x) <=> Queued(p, g, x)
      /\ \A x : Posted(q, x) <=> Posted(p, x)
      /\ q.callbacks = p.callbacks /\ q.handles[h] = hs /\ p.callbacks[h] = "none" /\ h \in Handles
  BY DEF Rehandled, Queued, Posted, Apart
<1>2. ASSUME NEW k \in Handles \ {h} PROVE LinkOf(q, k)
  <2>1. LinkOf(p, k) /\ q.handles[k] = p.handles[k]
    BY DEF Apart, GoodBut, Rehandled
  <2> QED BY <1>1, <2>1 DEF LinkOf
<1>3. ASSUME NEW g \in Groups PROVE QueueOf(q, g)
  <2>1. QueueOf(p, g) /\ ~Queued(p, g, h)
    BY DEF Apart, GoodBut
  <2>2. Once(q.groups[g].pending_requests)
    BY <2>1 DEF QueueOf, Rehandled
  <2>3. ASSUME NEW k \in Handles, Queued(q, g, k)
        PROVE  Queued(p, g, k) /\ q.handles[k] = p.handles[k]
    BY <1>1, <2>1, <2>3 DEF Rehandled
  <2> QED BY <1>1, <2>1, <2>2, <2>3 DEF QueueOf
<1>4. GoodBut(q, h)
  BY <1>2, <1>3 DEF GoodBut
<1>5. Apart(q, h)
  BY <1>1, <1>4 DEF Apart
<1>6. ASSUME hs.phase \in {"ready", "parked"}, hs.socket # NoSocket PROVE Good(q)
  <2>1. LinkOf(q, h)
    BY <1>1, <1>6 DEF LinkOf
  <2> QED BY <1>4, <2>1, GoodButNobody
<1> QED
  BY <1>5, <1>6

\* A handle changes its phase.
Initialized == {"ready", "parked"}

LEMMA RephasedFacts ==
    ASSUME NEW p, Core(p), NEW h \in Handles, NEW ph \in Initialized
    PROVE  LET q == [p EXCEPT !.handles[h].phase = ph]
               hs == [p.handles[h] EXCEPT !.phase = ph] IN
           /\ Core(q) /\ Rehandled(p, q, h, hs) /\ hs.phase = ph /\ hs.socket = p.handles[h].socket
<1> DEFINE q == [p EXCEPT !.handles[h].phase = ph]
           hs == [p.handles[h] EXCEPT !.phase = ph]
<1>0. p \in Pools /\ p.handles[h] \in HandleStates
  BY HandleFields DEF Core
<1>1. hs \in HandleStates
  BY <1>0 DEF HandleStates, Initialized
<1>2. /\ hs.phase = ph /\ hs.socket = p.handles[h].socket /\ hs.group = p.handles[h].group
      /\ hs.pool_id = p.handles[h].pool_id
  BY <1>0 DEF HandleStates
<1>3. q = [p EXCEPT !.handles[h] = hs]
  BY <1>0 DEF Pools
<1> HIDE DEF hs, q
<1>4. KeepsSocket(p.handles[h], hs)
  BY <1>1, <1>2 DEF KeepsSocket
<1>5. Core(q) /\ Rehandled(p, q, h, hs)
  BY <1>3, <1>4, RehandledCore
<1> QED
  BY <1>2, <1>5 DEF hs, q

LEMMA HandleInitCompletionGood ==
    ASSUME NEW p, NEW h, Apart(p, h), NEW rv, rv = "OK" => p.handles[h].socket # NoSocket
    PROVE  Good(HandleInitCompletion(p, h, rv))
<1>0. Core(p) /\ h \in Handles
  BY DEF Apart, GoodBut
<1>1. CASE rv # "OK" /\ p.handles[h].socket = NoSocket
  <2> DEFINE q == [p EXCEPT !.handles[h] = FreeHandle]
  <2>1. HandleInitCompletion(p, h, rv) = q
    BY <1>1 DEF HandleInitCompletion
  <2>2. Core(q) /\ Freed(p, q, h)
    BY <1>0, <1>1, FreeCore
  <2>3. Good(q)
    <3> HIDE DEF q
    <3> QED BY <2>2, FreedGood
  <2> QED BY <2>1, <2>3
<1>2. CASE ~(rv # "OK" /\ p.handles[h].socket = NoSocket)
  <2> DEFINE q == [p EXCEPT !.handles[h].phase = "ready"]
             hs == [p.handles[h] EXCEPT !.phase = "ready"]
  <2>1. HandleInitCompletion(p, h, rv) = q
    BY <1>2 DEF HandleInitCompletion
  <2>2. Core(q) /\ Rehandled(p, q, h, hs) /\ hs.phase = "ready" /\ hs.socket = p.handles[h].socket
    <3>1. "ready" \in Initialized
      BY DEF Initialized
    <3> QED BY <1>0, <3>1, RephasedFacts
  <2>3. hs.socket # NoSocket
    BY <1>2, <2>2
  <2>4. Good(q)
    <3> HIDE DEF q, hs
    <3> QED BY <2>2, <2>3, RehandledApart
  <2> QED BY <2>1, <2>4
<1> QED
  BY <1>1, <1>2

\* The callback of h is taken from the map.
LEMMA ForgetCallback ==
    ASSUME NEW p, NEW h \in Handles, GoodBut(p, h), p.callbacks[h] # "none"
    PROVE  LET q == [p EXCEPT !.callbacks[h] = "none"] IN
           Apart(q, h) /\ q.handles = p.handles
<1> DEFINE q == [p EXCEPT !.callbacks[h] = "none"]
           C == [p.callbacks EXCEPT ![h] = "none"]
<1>0. /\ Core(p) /\ p \in Pools
      /\ p.callbacks \in [Handles -> {"none", "OK", "ERR", "ERR_WITH_SOCKET"}]
  BY PoolFields DEF GoodBut, Core
<1>1. q = [p EXCEPT !.callbacks = C]
  BY <1>0 DEF Pools
<1>2. /\ C \in [Handles -> {"none", "OK", "ERR", "ERR_WITH_SOCKET"}] /\ C[h] = "none"
      /\ \A k \in Handles \ {h} : C[k] = p.callbacks[k]
  BY <1>0
<1> HIDE DEF q, C
<1>3. q \in Pools
  BY <1>0, <1>1, <1>2 DEF Pools
<1>4. /\ q.groups = p.groups /\ q.group_map = p.group_map /\ q.idle = p.idle
      /\ q.connecting = p.connecting /\ q.handed_out = p.handed_out
      /\ q.generation = p.generation /\ q.callbacks = C /\ q.tasks = p.tasks
      /\ q.handles = p.handles /\ q.failed = p.failed
  BY <1>0, <1>1 DEF Pools
<1>5. Core(q)
  <2>1. Relabels(p, q)
    BY <1>3, <1>4 DEF Relabels, SameSockets
  <2> QED BY <1>0, <2>1, RelabelsCore
<1>6. /\ \A g \in Groups : \A x : Queued(q, g, x) <=> Queued(p, g, x)
      /\ \A x : Posted(q, x) <=> Posted(p, x)
  BY <1>4 DEF Queued, Posted
<1>7. ASSUME NEW k \in Handles \ {h} PROVE LinkOf(q, k)
  <2>1. LinkOf(p, k)
    BY DEF GoodBut
  <2> QED BY <1>2, <1>4, <1>6, <2>1 DEF LinkOf
<1>8. ASSUME NEW g \in Groups PROVE QueueOf(q, g) /\ ~Queued(q, g, h)
  <2>1. QueueOf(p, g)
    BY DEF GoodBut
  <2>2. ASSUME NEW k \in Handles, Queued(q, g, k) PROVE Queued(p, g, k) /\ k # h
    BY <1>6, <2>1, <2>2 DEF QueueOf
  <2> QED BY <1>2, <1>4, <2>1, <2>2 DEF QueueOf
<1>9. Apart(q, h)
  BY <1>2, <1>4, <1>5, <1>7, <1>8 DEF Apart, GoodBut
<1> QED
  BY <1>4, <1>9 DEF q

LEMMA CancelCallbackGood ==
    ASSUME NEW p, Good(p), load \in Loads, NEW h \in Handles, p.callbacks[h] # "none",
           NEW q \in CancelCallback(p, h)
    PROVE  Good(q)
<1> DEFINE r == [p EXCEPT !.callbacks[h] = "none"]
           old == p.handles[h]
<1>0. p \in Pools /\ GoodBut(p, h)
  BY GoodButNobody DEF Good, Core
<1>1. Apart(r, h) /\ r.handles = p.handles
  BY <1>0, ForgetCallback
<1>2. [p EXCEPT !.callbacks[h] = "none", !.handles[h] = FreeHandle]
        = [r EXCEPT !.handles[h] = FreeHandle]
  BY <1>0 DEF Pools
<1> HIDE DEF r
<1>3. CASE old.socket = NoSocket
  <2> DEFINE s == [r EXCEPT !.handles[h] = FreeHandle]
  <2>1. q = s
    BY <1>2, <1>3 DEF CancelCallback
  <2>2. Core(s) /\ Freed(r, s, h)
    <3>1. Core(r) /\ r.handles[h].socket = NoSocket
      BY <1>1, <1>3 DEF Apart, GoodBut
    <3> QED BY <3>1, FreeCore
  <2>3. Good(s)
    <3> HIDE DEF s
    <3> QED BY <1>1, <2>2, FreedGood
  <2> QED BY <2>1, <2>3
<1>4. CASE old.socket # NoSocket
  <2>1. PICK connected \in {FALSE, p.callbacks[h] = "OK"} :
          q \in ReleaseSocket([r EXCEPT !.handles[h] = FreeHandle],
                              old.group, old.socket, old.pool_id, connected)
    BY <1>2, <1>4 DEF CancelCallback
  <2>2. connected \in BOOLEAN
    OBVIOUS
  <2>3. r.handles[h] = old
    BY <1>1
  <2> HIDE DEF old
  <2> QED BY <1>1, <1>4, <2>1, <2>2, <2>3, ReleaseSocketGood
<1> QED
  BY <1>3, <1>4

LEMMA CancelPendingGood ==
    ASSUME NEW p, Good(p), load \in Loads, NEW h \in Handles, p.handles[h].phase = "waiting",
           p.callbacks[h] = "none", NEW q \in CancelPending(p, h)
    PROVE  Good(q)
<1> DEFINE g == p.handles[h].group
           left == [p EXCEPT !.groups[g] = RemovePendingRequest(@, h)]
           r == [left EXCEPT !.handles[h] = FreeHandle]
<1>0. p \in Pools /\ ~p.failed /\ GoodBut(p, h)
  BY GoodButNobody DEF Good, Core
<1>1. g \in Groups /\ Queued(p, g, h) /\ p.handles[h].socket = NoSocket
  BY DEF Good, LinkOf
<1>2. Answerable(left, h) /\ Popped(p, left, g, h) /\ g \in p.group_map
  BY <1>0, <1>1, PopGood
<1>3. Check(p, g \in p.group_map) = p
  <2>1. (g \in p.group_map) \in BOOLEAN
    OBVIOUS
  <2> QED BY <1>0, <1>2, <2>1, CheckHolds
<1>4. [Check(p, g \in p.group_map) EXCEPT
          !.groups[g] = RemovePendingRequest(@, h), !.handles[h] = FreeHandle] = r
  BY <1>0, <1>3 DEF Pools
<1>5. Apart(left, h) /\ Core(left) /\ left.handles[h].socket = NoSocket
  <2> HIDE DEF left
  <2> QED BY <1>1, <1>2 DEF Answerable, Apart, GoodBut, Popped
<1>6. Core(r) /\ Freed(left, r, h)
  <2> HIDE DEF left
  <2> QED BY <1>5, FreeCore
<1>7. Good(r)
  <2> HIDE DEF left, r
  <2> QED BY <1>5, <1>6, FreedGood
<1>8. \/ q = r
      \/ \E i \in DOMAIN r.groups[g].jobs : q \in CheckForStalledSocketGroups(RemoveConnectJob(r, g, i))
  <2> HIDE DEF left, r
  <2> QED BY <1>4 DEF CancelPending
<1> HIDE DEF left, r, g
<1>9. ASSUME NEW i \in DOMAIN r.groups[g].jobs,
             q \in CheckForStalledSocketGroups(RemoveConnectJob(r, g, i))
      PROVE  Good(q)
  <2> DEFINE s == RemoveConnectJob(r, g, i)
  <2>1. Core(s) /\ Undisturbed(r, s, None)
    BY <1>1, <1>6, RemoveConnectJobCore
  <2> HIDE DEF s
  <2>2. Good(s)
    BY <1>7, <2>1, UndisturbedNobody
  <2>3. q \in CheckForStalledSocketGroups(s)
    BY <1>9 DEF s
  <2> QED BY <2>2, <2>3, CheckForStalledSocketGroupsGood
<1> QED
  BY <1>7, <1>8, <1>9

-----------------------------------------------------------------------------
(* Connect jobs *)

LEMMA OnConnectJobCompleteGood ==
    ASSUME NEW p, Good(p), load \in Loads, NEW g \in Groups, NEW i \in DOMAIN p.groups[g].jobs,
           NEW rv \in {"OK", "ERR", "ERR_WITH_SOCKET"}, NEW q \in OnConnectJobComplete(p, g, i, rv)
    PROVE  Good(q)
<1> DEFINE socket == p.groups[g].jobs[i]
           waiting == p.groups[g].pending_requests # <<>>
           h == Head(p.groups[g].pending_requests)
           removed == RemoveConnectJob(p, g, i)
           popped == [removed EXCEPT !.groups[g] = RemovePendingRequest(@, h)]
<1>0. Core(p) /\ p \in Pools /\ ~p.failed
  BY DEF Good, Core
<1>1. /\ Core(removed) /\ Undisturbed(p, removed, None) /\ g \in p.group_map
      /\ RoomForOne(removed, g) /\ removed.group_map = p.group_map /\ removed.handles = p.handles
  BY <1>0, RemoveConnectJobCore
<1>2. Check(p, g \in p.group_map) = p
  <2>1. (g \in p.group_map) \in BOOLEAN
    OBVIOUS
  <2> QED BY <1>0, <1>1, <2>1, CheckHolds
<1>3. /\ waiting /\ rv \in {"OK", "ERR_WITH_SOCKET"} =>
            q = InvokeUserCallbackLater(HandOutSocket(popped, g, h, socket), h, rv)
      /\ waiting /\ rv = "ERR" => q \in OfferSlot(InvokeUserCallbackLater(popped, h, rv), g)
      /\ ~waiting /\ rv = "OK" => q \in OfferSlot(AddIdleSocket(removed, g, socket), g)
      /\ ~waiting /\ rv # "OK" => q \in OfferSlot(removed, g)
  <2> DEFINE one == InvokeUserCallbackLater(HandOutSocket(popped, g, h, socket), h, rv)
             two == OfferSlot(InvokeUserCallbackLater(popped, h, rv), g)
             three == OfferSlot(AddIdleSocket(removed, g, socket), g)
             four == OfferSlot(removed, g)
  <2>1. q \in CASE waiting /\ rv \in {"OK", "ERR_WITH_SOCKET"} -> {one}
                [] waiting /\ rv = "ERR" -> two
                [] ~waiting /\ rv = "OK" -> three
                [] OTHER -> four
    BY <1>2 DEF OnConnectJobComplete
  <2> HIDE DEF one, two, three, four, waiting
  <2>2. /\ waiting /\ rv \in {"OK", "ERR_WITH_SOCKET"} => q = one
        /\ waiting /\ rv = "ERR" => q \in two
        /\ ~waiting /\ rv = "OK" => q \in three
        /\ ~waiting /\ rv # "OK" => q \in four
    BY <2>1
  <2> QED BY <2>2 DEF one, two, three, four
<1>4. socket = p.generation
  <2>1. p.groups[g].jobs \in Seq(Generations) /\ GroupOK(p.groups[g], p.generation)
    BY <1>0, Sizes, GroupFields
  <2>2. i \in 1 .. Len(p.groups[g].jobs)
    BY <2>1, LenProperties
  <2> QED BY <2>1, <2>2 DEF GroupOK
<1>5. Good(removed) /\ removed.generation = p.generation
  <2> HIDE DEF removed
  <2> QED BY <1>1, UndisturbedNobody DEF Undisturbed
<1>6. CASE waiting
  <2>1. h \in Handles /\ Queued(p, g, h)
    <3>1. p.groups[g].pending_requests \in Seq(Handles)
      BY <1>0, Sizes, GroupFields
    <3> QED BY <1>6, <3>1, TailHas DEF Queued
  <2>2. p.handles[h].group = g /\ p.handles[h].socket = NoSocket
    BY <2>1, QueuedFacts
  <2> HIDE DEF h, removed
  <2>3. Queued(removed, g, h) /\ GoodBut(removed, h)
    BY <1>1, <1>5, <2>1, GoodButNobody DEF Queued, Undisturbed
  <2>4. Answerable(popped, h) /\ Popped(removed, popped, g, h)
    BY <2>1, <2>3, PopGood
  <2> HIDE DEF popped
  <2>5. /\ Core(popped) /\ g \in popped.group_map /\ RoomForOne(popped, g)
        /\ popped.handles[h].group = g /\ popped.handles[h].socket = NoSocket
        /\ popped.generation = p.generation
    BY <1>1, <1>5, <2>2, <2>4 DEF Answerable, GoodBut, Popped
  <2>6. CASE rv \in {"OK", "ERR_WITH_SOCKET"}
    <3> DEFINE r == HandOutSocket(popped, g, h, popped.generation)
    <3>1. Core(r) /\ Undisturbed(popped, r, h) /\ r.handles[h].socket # NoSocket
      BY <2>1, <2>5, HandOutSocketCore
    <3>2. q = InvokeUserCallbackLater(r, h, rv)
      BY <1>3, <1>4, <1>6, <2>5, <2>6
    <3> HIDE DEF r
    <3>3. Answerable(r, h)
      BY <2>4, <3>1, UndisturbedAnswerable
    <3> QED BY <3>1, <3>2, <3>3, InvokeUserCallbackLaterGood
  <2>7. CASE rv = "ERR"
    <3> DEFINE r == InvokeUserCallbackLater(popped, h, rv)
    <3>1. Good(r) /\ r.group_map = popped.group_map
      BY <2>4, <2>7, InvokeUserCallbackLaterGood
    <3>2. q \in OfferSlot(r, g)
      BY <1>3, <1>6, <2>7
    <3> HIDE DEF r
    <3> QED BY <2>5, <3>1, <3>2, OfferSlotGood
  <2> QED BY <2>6, <2>7
<1>7. CASE ~waiting /\ rv = "OK"
  <2> DEFINE r == AddIdleSocket(removed, g, removed.generation)
  <2>1. q \in OfferSlot(r, g)
    BY <1>3, <1>4, <1>5, <1>7
  <2> HIDE DEF removed
  <2>2. Core(r) /\ Undisturbed(removed, r, None) /\ r.group_map = removed.group_map
    BY <1>1, AddIdleSocketCore
  <2> HIDE DEF r
  <2>3. Good(r) /\ g \in r.group_map
    BY <1>1, <1>5, <2>2, UndisturbedNobody
  <2> QED BY <2>1, <2>3, OfferSlotGood
<1>8. CASE ~waiting /\ rv # "OK"
  <2>1. q \in OfferSlot(removed, g) /\ g \in removed.group_map
    BY <1>1, <1>3, <1>8
  <2> HIDE DEF removed
  <2> QED BY <1>5, <2>1, OfferSlotGood
<1> QED
  BY <1>6, <1>7, <1>8

\* The backup timer of a group is stopped.
LEMMA StoppedGood ==
    ASSUME NEW p, Good(p), NEW g \in Groups, g \in p.group_map
    PROVE  LET q == [p EXCEPT !.groups[g].backup_job_timer = FALSE] IN Good(q)
<1> DEFINE q == [p EXCEPT !.groups[g].backup_job_timer = FALSE]
           old == p.groups[g]
           gr == [old EXCEPT !.backup_job_timer = FALSE]
           i == p.idle
           c == p.connecting
<1>0. /\ Core(p) /\ p \in Pools /\ old \in SocketGroups /\ i \in Nat /\ c \in Nat
  BY Sizes, PoolFields DEF Good
<1>1. gr \in SocketGroups
  BY <1>0 DEF SocketGroups
<1>2. /\ gr.jobs = old.jobs /\ gr.unassigned_job_count = old.unassigned_job_count
      /\ gr.idle_sockets = old.idle_sockets /\ gr.pending_requests = old.pending_requests
      /\ gr.active_socket_count = old.active_socket_count
      /\ gr.backup_job_timer = FALSE
  BY <1>0 DEF SocketGroups
<1>3. q = Placed(p, g, gr, i, c)
  BY <1>0 DEF Placed, Pools, SocketGroups
<1> HIDE DEF gr, q, i, c
<1>4. /\ q \in Pools /\ q.groups[g] = gr
      /\ \A k \in Groups \ {g} : q.groups[k] = p.groups[k]
      /\ q.idle = i /\ q.connecting = c /\ q.handed_out = p.handed_out
      /\ q.generation = p.generation /\ q.callbacks = p.callbacks /\ q.tasks = p.tasks
      /\ q.handles = p.handles /\ q.failed = p.failed /\ q.group_map = p.group_map
  <2>1. p \in Pools /\ g \in Groups /\ gr \in SocketGroups /\ i \in Nat /\ c \in Nat
    BY <1>0, <1>1
  <2> QED BY <1>3, <2>1, PlacedFields
<1>5. Relabels(p, q)
  <2>1. ASSUME NEW k \in Groups PROVE SameSockets(p.groups[k], q.groups[k])
    BY <1>2, <1>4 DEF SameSockets
  <2> QED BY <1>4, <2>1 DEF Relabels, i, c
<1>6. Core(q)
  BY <1>0, <1>5, RelabelsCore
<1>7. Undisturbed(p, q, None)
  BY <1>2, <1>4 DEF Undisturbed
<1>8. Good(q)
  BY <1>6, <1>7, UndisturbedNobody
<1> QED
  BY <1>8 DEF q

LEMMA StartBackupJobGood ==
    ASSUME NEW p, Good(p), load \in Loads, NEW g \in Groups, g \in p.group_map, RoomForOne(p, g),
           NEW q \in StartBackupJob(p, g)
    PROVE  Good(q)
<1> DEFINE stopped == [p EXCEPT !.groups[g].backup_job_timer = FALSE]
           added == AddConnectJob(stopped, g, FALSE)
           last == Len(added.groups[g].jobs)
<1>0. Core(p)
  BY DEF Good
<1>1. CASE p.groups[g].pending_requests = <<>>
  <2>1. q = stopped
    BY <1>1 DEF StartBackupJob
  <2>2. Good(stopped)
    BY StoppedGood
  <2> QED BY <2>1, <2>2
<1>2. CASE p.groups[g].pending_requests # <<>>
  <2>1. PICK rv \in ConnectResults : q \in IF rv = "ERR_IO_PENDING" THEN {added}
                                           ELSE OnConnectJobComplete(added, g, last, rv)
    BY <1>2 DEF StartBackupJob
  <2>2. rv \in Results
    BY LoadFields
  <2>3. Core(added) /\ Undisturbed(p, added, None) /\ last \in DOMAIN added.groups[g].jobs
    <3>1. FALSE \in BOOLEAN
      OBVIOUS
    <3> QED BY <1>0, <3>1, AddConnectJobCore
  <2> HIDE DEF added, last
  <2>4. Good(added)
    BY <2>3, UndisturbedNobody
  <2>5. CASE rv = "ERR_IO_PENDING"
    BY <2>1, <2>4, <2>5
  <2>6. CASE rv # "ERR_IO_PENDING"
    <3>1. rv \in {"OK", "ERR", "ERR_WITH_SOCKET"} /\ q \in OnConnectJobComplete(added, g, last, rv)
      BY <2>1, <2>2, <2>6 DEF Results
    <3> QED BY <2>3, <2>4, <3>1, OnConnectJobCompleteGood
  <2> QED BY <2>5, <2>6
<1> QED
  BY <1>1, <1>2

-----------------------------------------------------------------------------
(* Tasks *)

\* A task is taken from the queue.
LEMMA TaskTaken ==
    ASSUME NEW p, Good(p), p.tasks # <<>>
    PROVE  LET q == [p EXCEPT !.tasks = Tail(@)] IN
           /\ Head(p.tasks) \in Tasks
           /\ Head(p.tasks) = CloseTask => Good(q)
           /\ \A h \in Handles : Head(p.tasks) = CallbackTask(h) => GoodBut(q, h)
           /\ \A h \in Handles : Head(p.tasks) = CallbackTask(h) /\ p.callbacks[h] = "none" => Good(q)
           /\ q.handles = p.handles /\ q.callbacks = p.callbacks
<1> DEFINE q == [p EXCEPT !.tasks = Tail(@)]
           T == Tail(p.tasks)
           t == Head(p.tasks)
<1>0. Core(p) /\ p \in Pools /\ p.tasks \in Seq(Tasks)
  BY PoolFields DEF Good, Core
<1>1. q = [p EXCEPT !.tasks = T]
  BY <1>0 DEF Pools
<1>2. T \in Seq(Tasks) /\ t \in Tasks /\ \A x : Has(p.tasks, x) => Has(T, x) \/ x = t
  BY <1>0, TailHas
<1> HIDE DEF q, T, t
<1>3. q \in Pools
  BY <1>0, <1>1, <1>2 DEF Pools
<1>4. /\ q.groups = p.groups /\ q.group_map = p.group_map /\ q.idle = p.idle
      /\ q.connecting = p.connecting /\ q.handed_out = p.handed_out
      /\ q.generation = p.generation /\ q.callbacks = p.callbacks /\ q.tasks = T
      /\ q.handles = p.handles /\ q.failed = p.failed
  BY <1>0, <1>1 DEF Pools
<1>5. Core(q)
  <2>1. Relabels(p, q)
    BY <1>3, <1>4 DEF Relabels, SameSockets
  <2> QED BY <1>0, <2>1, RelabelsCore
<1>6. /\ \A g \in Groups : \A x : Queued(q, g, x) <=> Queued(p, g, x)
      /\ \A x : Posted(p, x) => Posted(q, x) \/ CallbackTask(x) = t
  BY <1>2, <1>4 DEF Queued, Posted
<1>7. ASSUME NEW g \in Groups PROVE QueueOf(q, g)
  BY <1>4, <1>6 DEF Good, QueueOf
<1>8. ASSUME NEW k \in Handles, CallbackTask(k) # t \/ p.callbacks[k] = "none" PROVE LinkOf(q, k)
  <2>1. LinkOf(p, k)
    BY DEF Good
  <2> QED BY <1>4, <1>6, <1>8, <2>1 DEF LinkOf
<1>9. \A h, k : CallbackTask(h) = CallbackTask(k) => h = k
  BY DEF CallbackTask
<1>10. \A h : CallbackTask(h) # CloseTask
  BY DEF CallbackTask, CloseTask
<1>11. t = CloseTask => Good(q)
  BY <1>5, <1>7, <1>8, <1>10 DEF Good
<1>12. ASSUME NEW h \in Handles, t = CallbackTask(h)
       PROVE  GoodBut(q, h) /\ (p.callbacks[h] = "none" => Good(q))
  BY <1>5, <1>7, <1>8, <1>9, <1>12 DEF GoodBut, Good
<1> QED
  BY <1>2, <1>4, <1>11, <1>12 DEF q, t

LEMMA InvokeUserCallbackGood ==
    ASSUME NEW p, Good(p), NEW h \in Handles, NEW q, GoodBut(q, h),
           q.handles = p.handles, q.callbacks = p.callbacks, p.callbacks[h] = "none" => Good(q)
    PROVE  Good(InvokeUserCallback(q, h))
<1> DEFINE r == [q EXCEPT !.callbacks[h] = "none"]
           rv == q.callbacks[h]
<1>0. q \in Pools /\ ~q.failed
  BY DEF GoodBut, Core
<1>1. CASE q.callbacks[h] = "none"
  <2>1. InvokeUserCallback(q, h) = q
    BY <1>1 DEF InvokeUserCallback
  <2> QED BY <1>1, <2>1
<1>2. CASE q.callbacks[h] # "none"
  <2>1. q.handles[h].phase = "waiting" /\ (rv = "OK" => q.handles[h].socket # NoSocket)
    BY <1>2 DEF Good, LinkOf
  <2>2. Check(q, q.handles[h].phase = "waiting") = q
    <3>1. (q.handles[h].phase = "waiting") \in BOOLEAN
      OBVIOUS
    <3> QED BY <1>0, <2>1, <3>1, CheckHolds
  <2>3. InvokeUserCallback(q, h) = HandleInitCompletion(r, h, rv)
    BY <1>2, <2>2 DEF InvokeUserCallback
  <2>4. Apart(r, h) /\ r.handles = q.handles
    BY <1>2, ForgetCallback
  <2> HIDE DEF r, rv
  <2>5. rv = "OK" => r.handles[h].socket # NoSocket
    BY <2>1, <2>4
  <2> QED BY <2>3, <2>4, <2>5, HandleInitCompletionGood
<1> QED
  BY <1>1, <1>2

-----------------------------------------------------------------------------
(* Requests are queued *)

\* The request of h is one more in its group; if that is stalled, the closing task is posted.
Enqueued(p, q, g, h) ==
    /\ Len(q.groups[g].pending_requests) = Len(p.groups[g].pending_requests) + 1
    /\ q.groups[g].active_socket_count = p.groups[g].active_socket_count
    /\ q.groups[g].jobs = p.groups[g].jobs /\ q.groups[g].idle_sockets = p.groups[g].idle_sockets
    /\ q.groups[g].unassigned_job_count = p.groups[g].unassigned_job_count
    /\ \A k \in Groups \ {g} : q.groups[k] = p.groups[k]
    /\ q.idle = p.idle /\ q.connecting = p.connecting /\ q.handed_out = p.handed_out
    /\ \A k \in Handles \ {h} : q.handles[k] = p.handles[k]
    /\ q.handles[h].phase = "waiting"
    /\ \A x : Has(p.tasks, x) => Has(q.tasks, x)
    /\ IsStalledOnPoolMaxSockets(q.groups[g]) => Has(q.tasks, CloseTask)

LEMMA WaitingGood ==
    ASSUME NEW p, NEW h, Apart(p, h), NEW g \in p.group_map, p.handles[h].group = g,
           p.handles[h].socket = NoSocket
    PROVE  Good(Waiting(p, g, h)) /\ Enqueued(p, Waiting(p, g, h), g, h)
<1> DEFINE q == Waiting(p, g, h)
           old == p.groups[g]
           s == old.pending_requests
           before == {i \in DOMAIN s : QueuePriority(s[i]) >= QueuePriority(h)}
           n == Cardinality(before) + 1
           r == InsertAt(s, n, h)
           gr == [old EXCEPT !.pending_requests = r]
           T == IF IsStalledOnPoolMaxSockets(gr) THEN Append(p.tasks, CloseTask) ELSE p.tasks
           hs == [p.handles[h] EXCEPT !.phase = "waiting"]
           G == [p.groups EXCEPT ![g] = gr]
           H == [p.handles EXCEPT ![h] = hs]
<1>0. /\ Core(p) /\ h \in Handles /\ p \in Pools /\ g \in Groups /\ old \in SocketGroups
      /\ s \in Seq(Handles) /\ p.handles[h] \in HandleStates /\ p.tasks \in Seq(Tasks)
      /\ p.groups \in [Groups -> SocketGroups] /\ p.handles \in [Handles -> HandleStates]
  <2>1. Core(p) /\ h \in Handles /\ p \in Pools
    BY DEF Apart, GoodBut, Core
  <2>2. g \in Groups /\ p.groups \in [Groups -> SocketGroups] /\ p.tasks \in Seq(Tasks)
        /\ p.handles \in [Handles -> HandleStates]
    BY <2>1, PoolFields
  <2>3. old \in SocketGroups
    BY <2>2
  <2>4. s \in Seq(Handles)
    BY <2>3, GroupFields
  <2> QED BY <2>1, <2>2, <2>3, <2>4
<1>1. n \in 1 .. (Len(s) + 1)
  <2>1. DOMAIN s = 1 .. Len(s) /\ Len(s) \in Nat
    BY <1>0, LenProperties
  <2>2. IsFiniteSet(1 .. Len(s)) /\ Cardinality(1 .. Len(s)) = Len(s)
    <3> HIDE DEF s
    <3>1. IsFiniteSet(1 .. Len(s)) /\ Cardinality(1 .. Len(s)) = IF 1 > Len(s) THEN 0 ELSE Len(s) - 1 + 1
      BY <2>1, FS_Interval
    <3> QED BY <2>1, <3>1
  <2>3. before \in SUBSET (1 .. Len(s))
    BY <2>1
  <2>4. Cardinality(before) <= Len(s) /\ Cardinality(before) \in Nat
    <3> DEFINE I == 1 .. Len(s)
    <3>1. IsFiniteSet(I) /\ Cardinality(I) = Len(s) /\ before \in SUBSET I
      BY <2>2, <2>3
    <3> HIDE DEF before, I
    <3>2. IsFiniteSet(before) /\ Cardinality(before) <= Cardinality(I)
      BY <3>1, FS_Subset
    <3> QED BY <3>1, <3>2, FS_CardinalityType
  <2> HIDE DEF before, s
  <2> QED BY <2>1, <2>4
<1>2. Once(s) /\ ~Has(s, h)
  BY <1>0 DEF Apart, GoodBut, QueueOf, Queued
<1> HIDE DEF n
<1>3. /\ r \in Seq(Handles) /\ Once(r) /\ Len(r) = Len(s) + 1
      /\ \A x : Has(r, x) <=> Has(s, x) \/ x = h
  <2> HIDE DEF s
  <2> QED BY <1>0, <1>1, <1>2, InsertFacts
<1>4. InsertPendingRequest(old, h) = gr
  BY <1>0 DEF InsertPendingRequest, SocketGroups, n
<1> HIDE DEF r
<1>5. gr \in SocketGroups
  BY <1>0, <1>3 DEF SocketGroups
<1>6. /\ gr.jobs = old.jobs /\ gr.unassigned_job_count = old.unassigned_job_count
      /\ gr.idle_sockets = old.idle_sockets /\ gr.pending_requests = r
      /\ gr.active_socket_count = old.active_socket_count
      /\ gr.backup_job_timer = old.backup_job_timer
  BY <1>0 DEF SocketGroups
<1> HIDE DEF gr
<1>7. /\ T \in Seq(Tasks) /\ \A x : Has(p.tasks, x) => Has(T, x)
      /\ IsStalledOnPoolMaxSockets(gr) => Has(T, CloseTask)
  <2>1. CloseTask \in Tasks
    BY DEF Tasks
  <2> QED BY <1>0, <2>1, AppendHas
<1>8. hs \in HandleStates /\ hs.phase = "waiting" /\ hs.group = g /\ hs.socket = NoSocket
      /\ hs.pool_id = p.handles[h].pool_id
  BY <1>0 DEF HandleStates
<1>9. q = [p EXCEPT !.groups = G, !.handles = H, !.tasks = T]
  <2>1. q = [p EXCEPT !.groups[g] = gr, !.handles[h].phase = "waiting",
                      !.tasks = IF IsStalledOnPoolMaxSockets(gr) THEN Append(@, CloseTask) ELSE @]
    BY <1>4 DEF Waiting
  <2> QED BY <1>0, <2>1 DEF Pools
<1> HIDE DEF q, T, hs
<1>10. /\ G \in [Groups -> SocketGroups] /\ G[g] = gr /\ \A k \in Groups \ {g} : G[k] = p.groups[k]
       /\ H \in [Handles -> HandleStates] /\ H[h] = hs
       /\ \A k \in Handles \ {h} : H[k] = p.handles[k]
  BY <1>0, <1>5, <1>8
<1> HIDE DEF G, H
<1>11. q \in Pools
  BY <1>0, <1>7, <1>9, <1>10 DEF Pools
<1>12. /\ q.groups = G /\ q.group_map = p.group_map /\ q.idle = p.idle
       /\ q.connecting = p.connecting /\ q.handed_out = p.handed_out
       /\ q.generation = p.generation /\ q.callbacks = p.callbacks /\ q.tasks = T
       /\ q.handles = H /\ q.failed = p.failed
  BY <1>0, <1>9 DEF Pools
<1>13. Core(q)
  <2>1. ASSUME NEW k \in Groups PROVE SameSockets(p.groups[k], q.groups[k])
    BY <1>6, <1>10, <1>12 DEF SameSockets
  <2>2. \A k \in Groups \ p.group_map : q.groups[k] = p.groups[k]
    BY <1>10, <1>12
  <2>3. \A k \in Handles :
          /\ q.handles[k].socket = p.handles[k].socket
          /\ p.handles[k].socket # NoSocket => /\ q.handles[k].group = p.handles[k].group
                                               /\ q.handles[k].pool_id = p.handles[k].pool_id
    BY <1>8, <1>10, <1>12
  <2>4. Relabels(p, q)
    BY <1>11, <1>12, <2>1, <2>2, <2>3 DEF Relabels
  <2> QED BY <1>0, <2>4, RelabelsCore
<1>14. /\ \A x : Queued(q, g, x) <=> Queued(p, g, x) \/ x = h
       /\ \A f \in Groups \ {g} : \A x : Queued(q, f, x) <=> Queued(p, f, x)
       /\ \A x : Posted(p, x) => Posted(q, x)
  BY <1>3, <1>6, <1>7, <1>10, <1>12 DEF Queued, Posted
<1>15. ASSUME NEW k \in Handles PROVE LinkOf(q, k)
  <2>1. CASE k = h
    <3>1. q.callbacks[h] = "none" /\ q.handles[h] = hs
      BY <1>10, <1>12 DEF Apart
    <3> QED BY <1>0, <1>8, <1>14, <2>1, <3>1 DEF LinkOf
  <2>2. CASE k # h
    <3>1. LinkOf(p, k) /\ q.handles[k] = p.handles[k] /\ q.callbacks = p.callbacks
      BY <1>10, <1>12, <2>2 DEF Apart, GoodBut
    <3>2. \A f \in Groups : Queued(q, f, k) <=> Queued(p, f, k)
      BY <1>14, <2>2
    <3> QED BY <1>14, <3>1, <3>2 DEF LinkOf
  <2> QED BY <2>1, <2>2
<1>16. ASSUME NEW f \in Groups PROVE QueueOf(q, f)
  <2>1. QueueOf(p, f) /\ ~Queued(p, f, h)
    BY DEF Apart, GoodBut
  <2>2. Once(q.groups[f].pending_requests)
    BY <1>3, <1>6, <1>10, <1>12, <2>1 DEF QueueOf
  <2>3. ASSUME NEW k \in Handles, Queued(q, f, k)
        PROVE  /\ q.handles[k].phase = "waiting" /\ q.handles[k].group = f
               /\ q.callbacks[k] = "none"
    <3>1. CASE k = h
      <4>1. f = g
        BY <1>14, <2>1, <2>3, <3>1
      <4> QED BY <1>8, <1>10, <1>12, <3>1, <4>1 DEF Apart
    <3>2. CASE k # h
      <4>1. Queued(p, f, k) /\ q.handles[k] = p.handles[k]
        BY <1>10, <1>12, <1>14, <2>3, <3>2
      <4> QED BY <1>12, <2>1, <4>1 DEF QueueOf
    <3> QED BY <3>1, <3>2
  <2> QED BY <2>2, <2>3 DEF QueueOf
<1>17. Good(q)
  BY <1>13, <1>15, <1>16 DEF Good
<1>18. Enqueued(p, q, g, h)
  BY <1>3, <1>6, <1>7, <1>8, <1>10, <1>12 DEF Enqueued
<1> QED
  BY <1>17, <1>18 DEF q

-----------------------------------------------------------------------------
(* Idle sockets are closed *)

LEMMA SumMinus ==
    ASSUME NEW S, IsFiniteSet(S), NEW a \in [S -> Nat], NEW b \in [S -> Nat], NEW d \in [S -> Nat],
           \A x \in S : a[x] = b[x] + d[x]
    PROVE  /\ SumFunction(a) - SumFunction(d) = SumFunction(b)
           /\ SumFunction(b) \in Nat /\ SumFunction(b) <= SumFunction(a)
<1>1. DOMAIN a = S /\ DOMAIN b = S /\ DOMAIN d = S /\ S \in SUBSET S
  OBVIOUS
<1>2. a \in [S -> Int] /\ b \in [S -> Int] /\ d \in [S -> Int]
  OBVIOUS
<1>3. SumFunctionOnSet(a, S) = SumFunctionOnSet(b, S) + SumFunctionOnSet(d, S)
  BY <1>1, <1>2, SumPlus
<1>4. /\ SumFunction(a) = SumFunctionOnSet(a, S) /\ SumFunction(b) = SumFunctionOnSet(b, S)
      /\ SumFunction(d) = SumFunctionOnSet(d, S)
  BY <1>1 DEF SumFunction
<1>5. SumFunction(a) \in Nat /\ SumFunction(b) \in Nat /\ SumFunction(d) \in Nat
  BY SumPositive
<1> QED
  BY <1>3, <1>4, <1>5

\* What is kept of the idle sockets of every group.
Keeps(p, keep) ==
    \A g \in Groups :
        /\ keep[g] \in Seq(Generations) /\ \A i \in 1 .. Len(keep[g]) : keep[g][i] = p.generation
        /\ Len(keep[g]) \in Nat /\ Len(keep[g]) <= Len(p.groups[g].idle_sockets)

Swept(p, q, keep) ==
    /\ q.handles = p.handles /\ q.generation = p.generation /\ q.connecting = p.connecting
    /\ q.handed_out = p.handed_out /\ q.idle <= p.idle
    /\ \A g \in Groups : q.groups[g] = [p.groups[g] EXCEPT !.idle_sockets = keep[g]]
    /\ q.group_map = p.group_map \ {g \in p.group_map : q.groups[g] = NewGroup}

LEMMA SweepCore ==
    ASSUME NEW p, Core(p), NEW keep, Keeps(p, keep), NEW h
    PROVE  LET q == Sweep(p, keep) IN
           Core(q) /\ Undisturbed(p, q, h) /\ Swept(p, q, keep)
<1> DEFINE q == Sweep(p, keep)
           kept == [g \in Groups |-> [p.groups[g] EXCEPT !.idle_sockets = keep[g]]]
           gone == {g \in p.group_map : IsEmpty(kept[g])}
           dropped == [g \in Groups |-> Len(p.groups[g].idle_sockets) - Len(keep[g])]
           rest == p.idle - SumFunction(dropped)
           L == [g \in Groups |-> Len(keep[g])]
           map == p.group_map \ gone
           c == \A g \in gone : p.groups[g].unassigned_job_count = 0
<1>0. p \in Pools /\ ~p.failed /\ p.group_map \in SUBSET Groups
      /\ p.groups \in [Groups -> SocketGroups]
      /\ p.connecting \in Nat /\ p.handed_out \in Nat /\ p.idle \in Nat
  BY Sizes, PoolFields
<1>1. ASSUME NEW g \in Groups
      PROVE  /\ p.groups[g] \in SocketGroups /\ GroupOK(p.groups[g], p.generation)
             /\ Len(p.groups[g].idle_sockets) \in Nat /\ Len(p.groups[g].jobs) \in Nat
             /\ p.groups[g].active_socket_count \in Nat
             /\ keep[g] \in Seq(Generations) /\ Len(keep[g]) \in Nat
             /\ Len(keep[g]) <= Len(p.groups[g].idle_sockets)
             /\ \A i \in 1 .. Len(keep[g]) : keep[g][i] = p.generation
  BY Sizes, GroupFields DEF Keeps
<1>2. ASSUME NEW g \in Groups
      PROVE  LET gr == kept[g]
                 old == p.groups[g] IN
             /\ gr \in SocketGroups
             /\ gr.jobs = old.jobs /\ gr.unassigned_job_count = old.unassigned_job_count
             /\ gr.idle_sockets = keep[g] /\ gr.pending_requests = old.pending_requests
             /\ gr.active_socket_count = old.active_socket_count
             /\ gr.backup_job_timer = old.backup_job_timer
  <2> DEFINE old == p.groups[g]
             gr == [old EXCEPT !.idle_sockets = keep[g]]
  <2>1. kept[g] = gr
    OBVIOUS
  <2>2. old \in SocketGroups /\ keep[g] \in Seq(Generations)
    BY <1>1
  <2>3. /\ gr \in SocketGroups
        /\ gr.jobs = old.jobs /\ gr.unassigned_job_count = old.unassigned_job_count
        /\ gr.idle_sockets = keep[g] /\ gr.pending_requests = old.pending_requests
        /\ gr.active_socket_count = old.active_socket_count
        /\ gr.backup_job_timer = old.backup_job_timer
    <3> HIDE DEF old
    <3> QED BY <2>2 DEF SocketGroups
  <2> QED BY <2>1, <2>3
<1>3. kept \in [Groups -> SocketGroups]
  <2>1. kept = [g \in Groups |-> kept[g]]
    OBVIOUS
  <2> HIDE DEF kept
  <2> QED BY <1>2, <2>1
<1>4. ASSUME NEW g \in Groups PROVE kept[g] = [p.groups[g] EXCEPT !.idle_sockets = keep[g]]
  OBVIOUS
<1> HIDE DEF kept
<1>5. ASSUME NEW g \in Groups PROVE GroupOK(kept[g], p.generation)
  BY <1>1, <1>2 DEF GroupOK
<1>6. ASSUME NEW g \in Groups PROVE IsEmpty(kept[g]) <=> kept[g] = NewGroup
  BY <1>2, <1>5, EmptyIsNew, NewGroupFields
<1>7. c \in BOOLEAN /\ c
  <2>1. ASSUME NEW g \in gone PROVE p.groups[g].unassigned_job_count = 0
    BY <1>0, <1>2, <1>6, NewGroupFields
  <2> QED BY <2>1
<1>8. Check(p, c) = p
  <2> HIDE DEF c
  <2> QED BY <1>0, <1>7, CheckHolds
<1>9. q = [p EXCEPT !.groups = kept, !.group_map = map, !.idle = rest]
  <2>1. [g \in Groups |-> IF g \in gone THEN NewGroup ELSE kept[g]] = kept
    <3>1. \A g \in Groups : (IF g \in gone THEN NewGroup ELSE kept[g]) = kept[g]
      BY <1>6
    <3>2. kept = [g \in Groups |-> kept[g]]
      BY <1>3
    <3> HIDE DEF gone
    <3> QED BY <3>1, <3>2
  <2>2. q = [Check(p, c) EXCEPT !.groups = [g \in Groups |-> IF g \in gone THEN NewGroup ELSE kept[g]],
                                !.group_map = @ \ gone, !.idle = @ - SumFunction(dropped)]
    BY DEF Sweep, kept
  <2> HIDE DEF gone, c, q, dropped
  <2> QED BY <1>0, <1>8, <2>1, <2>2 DEF Pools
<1>10. rest = SumFunction(L) /\ rest \in Nat /\ rest <= p.idle
  <2>1. L \in [Groups -> Nat] /\ dropped \in [Groups -> Nat] /\ IdleOf(p) \in [Groups -> Nat]
    BY <1>1 DEF IdleOf
  <2>2. \A g \in Groups : IdleOf(p)[g] = L[g] + dropped[g]
    BY <1>1 DEF IdleOf
  <2>3. p.idle = SumFunction(IdleOf(p)) /\ IsFiniteSet(Groups)
    BY PoolAssumption DEF Core, CountsInv
  <2> HIDE DEF L, dropped
  <2>4. /\ SumFunction(IdleOf(p)) - SumFunction(dropped) = SumFunction(L)
        /\ SumFunction(L) \in Nat /\ SumFunction(L) <= SumFunction(IdleOf(p))
    BY <2>1, <2>2, <2>3, SumMinus
  <2> QED BY <2>3, <2>4
<1>11. map \in SUBSET Groups
  BY <1>0
<1> HIDE DEF q, rest, map, L
<1>12. q \in Pools
  BY <1>0, <1>3, <1>9, <1>10, <1>11 DEF Pools
<1>13. /\ q.groups = kept /\ q.group_map = map /\ q.idle = rest
       /\ q.connecting = p.connecting /\ q.handed_out = p.handed_out
       /\ q.generation = p.generation /\ q.callbacks = p.callbacks /\ q.tasks = p.tasks
       /\ q.handles = p.handles /\ q.failed = p.failed
  BY <1>0, <1>9 DEF Pools
<1>14. GroupsInv(q)
  <2>1. ASSUME NEW g \in Groups, g \notin map PROVE kept[g] = NewGroup
    <3>1. CASE g \in p.group_map
      BY <1>6, <2>1, <3>1 DEF map
    <3>2. CASE g \notin p.group_map
      <4>1. p.groups[g] = NewGroup
        BY <3>2, Sizes
      <4>2. Len(keep[g]) = 0
        <5>1. Len(p.groups[g].idle_sockets) = 0
          BY <4>1, NewGroupFields, EmptySeq
        <5> QED BY <1>1, <5>1
      <4>3. keep[g] = <<>>
        BY <1>1, <4>2, EmptyIffLenZero
      <4>4. IsEmpty(kept[g])
        BY <1>2, <4>1, <4>3, NewGroupFields DEF IsEmpty
      <4> QED BY <1>6, <4>4
    <3> QED BY <3>1, <3>2
  <2> QED BY <1>5, <1>13, <2>1 DEF GroupsInv
<1>15. CountsInv(q)
  <2>1. IdleOf(q) = L /\ JobsOf(q) = JobsOf(p)
    BY <1>2, <1>13 DEF IdleOf, JobsOf, L
  <2> QED BY <1>10, <1>13, <2>1 DEF Core, CountsInv
<1>16. HeldInv(q)
  BY <1>2, <1>13 DEF Core, HeldInv, Holding, Holders
<1>17. FreshInv(q)
  BY <1>13 DEF Core, FreshInv
<1>18. LimitsInv(q)
  <2>1. ASSUME NEW g \in Groups
        PROVE  /\ NumActiveSocketSlots(kept[g]) <= NumActiveSocketSlots(p.groups[g])
               /\ NumActiveSocketSlots(kept[g]) \in Int /\ NumActiveSocketSlots(p.groups[g]) \in Int
    <3> DEFINE a == p.groups[g].active_socket_count
               j == Len(p.groups[g].jobs)
               l == Len(keep[g])
               m == Len(p.groups[g].idle_sockets)
    <3>1. NumActiveSocketSlots(kept[g]) = a + j + l /\ NumActiveSocketSlots(p.groups[g]) = a + j + m
      BY <1>2 DEF NumActiveSocketSlots
    <3>2. a \in Nat /\ j \in Nat /\ l \in Nat /\ m \in Nat /\ l <= m
      BY <1>1
    <3> HIDE DEF a, j, l, m
    <3> QED BY <3>1, <3>2
  <2>2. Total(q) <= Total(p) /\ Total(p) \in Nat /\ Total(q) \in Nat
    BY <1>0, <1>10, <1>13 DEF Total
  <2>3. MaxSockets \in Nat /\ MaxSocketsPerGroup \in Nat
    BY PoolAssumption
  <2>4. LimitsInv(p)
    BY DEF Core
  <2> QED BY <1>13, <2>1, <2>2, <2>3, <2>4 DEF LimitsInv
<1>19. Core(q)
  BY <1>0, <1>12, <1>13, <1>14, <1>15, <1>16, <1>17, <1>18 DEF Core
<1>20. Undisturbed(p, q, h)
  BY <1>2, <1>13 DEF Undisturbed
<1>21. Swept(p, q, keep)
  <2>1. map = p.group_map \ {g \in p.group_map : kept[g] = NewGroup}
    BY <1>0, <1>6 DEF map
  <2> QED BY <1>4, <1>10, <1>13, <2>1 DEF Swept
<1> QED
  BY <1>19, <1>20, <1>21 DEF q

\* No socket is made up.
Prunes(p, q) ==
    /\ p.idle = 0 => q = p
    /\ q.handed_out = p.handed_out /\ q.connecting = p.connecting /\ q.idle <= p.idle
    /\ \A g \in Groups :
          /\ q.groups[g].active_socket_count = p.groups[g].active_socket_count
          /\ q.groups[g].jobs = p.groups[g].jobs
          /\ q.groups[g].unassigned_job_count = p.groups[g].unassigned_job_count
          /\ Len(q.groups[g].idle_sockets) <= Len(p.groups[g].idle_sockets)

LEMMA CleanupIdleSocketsCore ==
    ASSUME NEW p, Core(p), NEW force \in BOOLEAN, NEW q \in CleanupIdleSockets(p, force), NEW h
    PROVE  /\ Core(q) /\ Undisturbed(p, q, h) /\ q.handles = p.handles
           /\ q.connecting = p.connecting
           /\ \A g \in Groups : p.groups[g].jobs = <<>> => q.groups[g].jobs = <<>>
           /\ force => q.idle = 0
           /\ Prunes(p, q)
<1> DEFINE Kept(g) == IF force THEN {<<>>} ELSE Subsequences(p.groups[g].idle_sockets)
<1>1. CASE p.idle = 0
  <2>1. q = p
    BY <1>1 DEF CleanupIdleSockets
  <2>2. \A g \in Groups : Len(p.groups[g].idle_sockets) \in Nat
    BY Sizes, GroupFields
  <2> QED BY <1>1, <2>1, <2>2 DEF Undisturbed, Prunes
<1>2. CASE p.idle # 0
  <2>1. PICK keep \in [Groups -> UNION {Kept(g) : g \in Groups}] :
            /\ \A g \in Groups : keep[g] \in Kept(g)
            /\ q = Sweep(p, keep)
    BY <1>2 DEF CleanupIdleSockets
  <2>2. ASSUME NEW g \in Groups
        PROVE  /\ keep[g] \in Seq(Generations) /\ \A i \in 1 .. Len(keep[g]) : keep[g][i] = p.generation
               /\ Len(keep[g]) \in Nat /\ Len(keep[g]) <= Len(p.groups[g].idle_sockets)
    <3> DEFINE s == p.groups[g].idle_sockets
               k == keep[g]
    <3>1. s \in Seq(Generations) /\ Len(s) \in Nat /\ \A i \in 1 .. Len(s) : s[i] = p.generation
      BY Sizes, GroupFields DEF GroupOK
    <3>2. k \in Kept(g)
      BY <2>1
    <3>3. CASE force
      <4>1. k = <<>>
        BY <3>2, <3>3
      <4>2. k \in Seq(Generations) /\ Len(k) = 0
        BY <4>1, EmptySeq
      <4> HIDE DEF s, k
      <4> QED BY <3>1, <4>2 DEF s, k
    <3>4. CASE ~force
      <4>1. k \in Subsequences(s)
        BY <3>2, <3>4
      <4> HIDE DEF s, k
      <4>2. /\ k \in Seq(Generations) /\ Len(k) \in Nat /\ Len(k) <= Len(s)
            /\ \A i \in 1 .. Len(k) : \E j \in 1 .. Len(s) : k[i] = s[j]
        BY <3>1, <4>1, SubsequenceFacts
      <4>3. \A i \in 1 .. Len(k) : k[i] = p.generation
        BY <3>1, <4>2
      <4> QED BY <4>2, <4>3 DEF s, k
    <3> QED BY <3>3, <3>4
  <2>3. Keeps(p, keep)
    BY <2>2 DEF Keeps
  <2>4. Core(q) /\ Undisturbed(p, q, h) /\ Swept(p, q, keep)
    BY <2>1, <2>3, SweepCore
  <2>5. ASSUME NEW g \in Groups
        PROVE  /\ q.groups[g].jobs = p.groups[g].jobs /\ q.groups[g].idle_sockets = keep[g]
               /\ q.groups[g].active_socket_count = p.groups[g].active_socket_count
               /\ q.groups[g].unassigned_job_count = p.groups[g].unassigned_job_count
    <3>1. p.groups[g] \in SocketGroups
      BY Sizes
    <3>2. q.groups[g] = [p.groups[g] EXCEPT !.idle_sockets = keep[g]]
      BY <2>4 DEF Swept
    <3> QED BY <3>1, <3>2 DEF SocketGroups
  <2>6. force => q.idle = 0
    <3>1. force => \A g \in Groups : q.groups[g].idle_sockets = <<>>
      BY <2>1, <2>5
    <3>2. q.idle \in Nat
      BY <2>4, PoolFields DEF Core
    <3> QED BY <2>4, <3>1, <3>2, SomeIdle
  <2>7. Prunes(p, q)
    BY <1>2, <2>2, <2>4, <2>5 DEF Swept, Prunes
  <2> QED BY <2>4, <2>5, <2>6, <2>7 DEF Swept
<1> QED
  BY <1>1, <1>2

-----------------------------------------------------------------------------
(* Loops *)

\* The equations of a loop that takes step n times, each time from all that it has reached.
IsLoop(f, n, start, step) ==
    f = [k \in 0 .. n |-> IF k = 0 THEN start ELSE UNION {step[o] : o \in f[k - 1]}]

LEMMA LoopExists ==
    ASSUME NEW X, NEW start \in SUBSET X, NEW step \in [X -> SUBSET X], NEW n \in Nat
    PROVE  \E f \in [0 .. n -> SUBSET X] : IsLoop(f, n, start, step)
<1> DEFINE W == {m \in Nat : ~ \E f \in [0 .. m -> SUBSET X] : IsLoop(f, m, start, step)}
<1>1. SUFFICES ASSUME W # {} PROVE FALSE
  OBVIOUS
<1>2. PICK m \in W : \A y \in W : m <= y
  <2>1. W \in SUBSET Nat
    OBVIOUS
  <2> HIDE DEF W
  <2> QED BY <1>1, <2>1, LeastOf
<1>3. m \in Nat /\ ~ \E f \in [0 .. m -> SUBSET X] : IsLoop(f, m, start, step)
  OBVIOUS
<1>4. m # 0
  <2> DEFINE z == [k \in 0 .. 0 |-> start]
  <2>1. z \in [0 .. 0 -> SUBSET X] /\ \A k \in 0 .. 0 : k = 0
    OBVIOUS
  <2>2. IsLoop(z, 0, start, step)
    BY <2>1 DEF IsLoop
  <2> QED BY <1>3, <2>1, <2>2
<1>5. m - 1 \in Nat /\ m - 1 \notin W
  <2>1. m - 1 \in Nat /\ ~(m <= m - 1)
    BY <1>3, <1>4
  <2> HIDE DEF W
  <2> QED BY <1>2, <2>1
<1>6. PICK u \in [0 .. (m - 1) -> SUBSET X] : IsLoop(u, m - 1, start, step)
  BY <1>5
<1> DEFINE last == UNION {step[o] : o \in u[m - 1]}
           v == [k \in 0 .. m |-> IF k = m THEN last ELSE u[k]]
<1>7. m - 1 \in 0 .. (m - 1) /\ \A k \in 0 .. m : k # m => k \in 0 .. (m - 1)
  BY <1>3, <1>5
<1>8. last \in SUBSET X
  BY <1>6, <1>7
<1>9. v \in [0 .. m -> SUBSET X]
  <2> HIDE DEF last
  <2> QED BY <1>7, <1>8
<1>10. ASSUME NEW k \in 0 .. m
       PROVE  v[k] = IF k = 0 THEN start ELSE UNION {step[o] : o \in v[k - 1]}
  <2>1. CASE k = m
    <3>1. v[k] = last /\ v[k - 1] = u[m - 1]
      BY <1>3, <1>4, <2>1
    <3> QED BY <1>4, <2>1, <3>1
  <2>2. CASE k # m
    <3>1. k \in 0 .. (m - 1) /\ v[k] = u[k]
      BY <1>7, <2>2
    <3>2. u[k] = IF k = 0 THEN start ELSE UNION {step[o] : o \in u[k - 1]}
      BY <1>6, <3>1 DEF IsLoop
    <3>3. k # 0 => v[k - 1] = u[k - 1]
      <4>1. k # 0 => k - 1 \in 0 .. m /\ k - 1 # m
        BY <1>3, <3>1
      <4> QED BY <4>1
    <3> HIDE DEF v
    <3> QED BY <3>1, <3>2, <3>3
  <2> QED BY <2>1, <2>2
<1>11. IsLoop(v, m, start, step)
  <2>1. v = [k \in 0 .. m |-> v[k]]
    OBVIOUS
  <2> HIDE DEF v
  <2> QED BY <1>10, <2>1 DEF IsLoop
<1> QED
  BY <1>3, <1>9, <1>11

\* Connections of higher layers are closed while the pool is stalled: Y[k] holds what the first
\* k rounds may leave behind.
ClosesOne(r, s) ==
    \E lower \in LowerStalls :
        IF IsStalled(r, lower) /\ Parked(r) # {}
        THEN \E h \in Parked(r) : s \in ResetHandle(r, h, FALSE)
        ELSE s = r

LEMMA CloseLoop ==
    ASSUME NEW p, Good(p), load \in Loads, NEW q \in TryToCloseSocketsInLayeredPools(p),
           NEW Y, p \in Y[0],
           \A k \in 1 .. Cardinality(Handles) : \A r \in Y[k - 1] : \A s :
                Good(r) /\ Good(s) /\ ClosesOne(r, s) => s \in Y[k]
    PROVE  Good(q) /\ q \in Y[Cardinality(Handles)]
<1> DEFINE Close(r) == UNION {ResetHandle(r, h, FALSE) : h \in Parked(r)}
           Round(r) == UNION {IF IsStalled(r, lower) /\ Parked(r) # {} THEN Close(r) ELSE {r} :
                                 lower \in LowerStalls}
           N == Cardinality(Handles)
           After == CHOOSE After : After = [k \in 0 .. N |->
                        IF k = 0 THEN {p} ELSE UNION {Round(r) : r \in After[k - 1]}]
           X == {r \in Pools : Good(r)}
           step == [r \in X |-> Round(r)]
<1>1. N \in Nat
  BY PoolAssumption, FS_CardinalityType
<1>2. q \in After[N]
  BY DEF TryToCloseSocketsInLayeredPools
<1>3. ASSUME NEW r \in X PROVE Round(r) \in SUBSET X
  <2>1. SUFFICES ASSUME NEW s \in Round(r) PROVE s \in X
    OBVIOUS
  <2>2. s = r \/ \E h \in Parked(r) : s \in ResetHandle(r, h, FALSE)
    BY <2>1
  <2>3. ASSUME NEW h \in Parked(r), s \in ResetHandle(r, h, FALSE) PROVE Good(s)
    <3>1. h \in Handles /\ r.handles[h].phase \in {"ready", "parked"} /\ FALSE \in BOOLEAN
      BY DEF Parked
    <3> QED BY <2>3, <3>1, ResetHandleGood
  <2>4. Good(s)
    BY <2>2, <2>3
  <2> QED BY <2>4 DEF Good, Core
<1>4. {p} \in SUBSET X
  BY DEF Good, Core
<1>5. ASSUME NEW k \in 1 .. N, NEW r \in X, r \in Y[k - 1] PROVE Round(r) \in SUBSET Y[k]
  <2>1. SUFFICES ASSUME NEW s \in Round(r) PROVE s \in Y[k]
    OBVIOUS
  <2>2. ClosesOne(r, s)
    BY <2>1 DEF ClosesOne
  <2>3. s \in X
    BY <1>3, <2>1
  <2> QED BY <1>5, <2>2, <2>3
<1> HIDE DEF Round, X
<1>6. step \in [X -> SUBSET X]
  BY <1>3
<1>7. PICK f \in [0 .. N -> SUBSET X] : IsLoop(f, N, {p}, step)
  <2> HIDE DEF step, N
  <2> QED BY <1>1, <1>4, <1>6, LoopExists
<1>8. f = [k \in 0 .. N |-> IF k = 0 THEN {p} ELSE UNION {Round(r) : r \in f[k - 1]}]
  <2>1. ASSUME NEW k \in 0 .. N, k # 0
        PROVE  UNION {step[r] : r \in f[k - 1]} = UNION {Round(r) : r \in f[k - 1]}
    <3>1. k - 1 \in 0 .. N
      BY <1>1, <2>1
    <3>2. f[k - 1] \in SUBSET X
      BY <1>7, <3>1
    <3> QED BY <3>2
  <2> HIDE DEF step, N
  <2> QED BY <1>7, <2>1 DEF IsLoop
<1> HIDE DEF N, step
<1>9. After = [k \in 0 .. N |-> IF k = 0 THEN {p} ELSE UNION {Round(r) : r \in After[k - 1]}]
  BY <1>8
<1> HIDE DEF After
<1>10. /\ After[0] = {p}
      /\ \A k \in 0 .. N : k # 0 => After[k] = UNION {Round(r) : r \in After[k - 1]}
  BY <1>1, <1>9
<1> DEFINE W == {k \in 0 .. N : ~(After[k] \in SUBSET (X \cap Y[k]))}
<1>11. W = {}
  <2>1. SUFFICES ASSUME W # {} PROVE FALSE
    OBVIOUS
  <2>2. PICK m \in W : \A y \in W : m <= y
    <3>1. W \in SUBSET Nat
      BY <1>1
    <3> HIDE DEF W
    <3> QED BY <2>1, <3>1, LeastOf
  <2>3. m \in 0 .. N /\ ~(After[m] \in SUBSET (X \cap Y[m]))
    OBVIOUS
  <2>4. m # 0
    BY <1>4, <1>10, <2>3
  <2>5. m - 1 \in 0 .. N /\ m - 1 \notin W
    <3>1. m - 1 \in 0 .. N /\ ~(m <= m - 1)
      BY <1>1, <2>3, <2>4
    <3> HIDE DEF W
    <3> QED BY <2>2, <3>1
  <2>6. After[m - 1] \in SUBSET (X \cap Y[m - 1]) /\ m \in 1 .. N
    BY <1>1, <2>3, <2>4, <2>5
  <2>7. After[m] = UNION {Round(r) : r \in After[m - 1]}
    BY <1>10, <2>3, <2>4
  <2> QED BY <1>3, <1>5, <2>3, <2>6, <2>7
<1>12. N \in 0 .. N
  BY <1>1
<1>13. q \in X \cap Y[N]
  BY <1>2, <1>11, <1>12
<1> QED
  BY <1>13 DEF X, N

LEMMA TryToCloseSocketsGood ==
    ASSUME NEW p, Good(p), load \in Loads, NEW q \in TryToCloseSocketsInLayeredPools(p)
    PROVE  Good(q)
<1> DEFINE N == Cardinality(Handles)
           Y == [k \in 0 .. N |-> {r \in Pools : Good(r)}]
<1>1. N \in Nat
  BY PoolAssumption, FS_CardinalityType
<1>2. p \in Pools /\ \A s : Good(s) => s \in Pools
  BY DEF Good, Core
<1> HIDE DEF N
<1>3. p \in Y[0] /\ \A k \in 1 .. N : \A s : Good(s) => s \in Y[k]
  BY <1>1, <1>2
<1> HIDE DEF Y
<1> QED
  BY <1>3, CloseLoop DEF N

\* What a preconnect has reached.
Reached(o, g) ==
    Good(o.pool) /\ (o.rv \in {"OK", "ERR_IO_PENDING"} => g \in o.pool.group_map)

LEMMA PreconnectOnceGood ==
    ASSUME NEW o, NEW g \in Groups, Reached(o, g), load \in Loads, NEW n,
           NEW u \in PreconnectOnce(o, g, n)
    PROVE  Reached(u, g) /\ (u = o \/ (u \in [pool : Pools, rv : Results]))
<1> DEFINE c(q) == q.rv \in {"ERR", "ERR_WITH_SOCKET"} \/ g \in q.pool.group_map
<1>1. CASE u = o
  BY <1>1
<1>2. CASE u # o
  <2>1. PICK q \in RequestSocketInternal(o.pool, g, None) :
            u = [pool |-> Check(q.pool, c(q)), rv |-> q.rv]
    BY <1>2 DEF PreconnectOnce
  <2>2. Core(o.pool) /\ Good(o.pool) /\ Asks(o.pool, g, None)
    BY DEF Reached, Good, Asks
  <2>3. Core(q.pool) /\ Undisturbed(o.pool, q.pool, None) /\ Connected(o.pool, q, g, None)
    BY <2>1, <2>2, RequestSocketInternalCore
  <2>4. c(q) \in BOOLEAN /\ c(q)
    BY <2>3 DEF Connected, Results
  <2>5. Check(q.pool, c(q)) = q.pool
    <3>1. q.pool \in Pools /\ ~q.pool.failed
      BY <2>3 DEF Core
    <3> HIDE DEF c
    <3> QED BY <2>4, <3>1, CheckHolds
  <2>6. u = [pool |-> q.pool, rv |-> q.rv]
    BY <2>1, <2>5
  <2>7. Good(q.pool)
    BY <2>2, <2>3, UndisturbedNobody
  <2>8. u.pool = q.pool /\ u.rv = q.rv
    BY <2>6
  <2>9. q.pool \in Pools /\ q.rv \in Results
    BY <2>3 DEF Core, Connected
  <2>10. u \in [pool : Pools, rv : Results]
    BY <2>6, <2>9
  <2>11. Reached(u, g)
    BY <2>3, <2>7, <2>8 DEF Reached, Connected
  <2> QED BY <2>10, <2>11
<1> QED
  BY <1>1, <1>2

LEMMA PrunedGood ==
    ASSUME NEW p, Good(p), NEW q \in Pruned(p)
    PROVE  Good(q) /\ Undisturbed(p, q, None) /\ q.handles = p.handles
<1>0. Core(p) /\ FALSE \in BOOLEAN
  BY DEF Good
<1>1. CASE q = p
  BY <1>1 DEF Undisturbed
<1>2. CASE q \in CleanupIdleSockets(p, FALSE)
  <2>1. Core(q) /\ Undisturbed(p, q, None) /\ q.handles = p.handles
    BY <1>0, <1>2, CleanupIdleSocketsCore
  <2> QED BY <2>1, UndisturbedNobody
<1> QED
  BY <1>1, <1>2 DEF Pruned

-----------------------------------------------------------------------------
(* Actions *)

\* What holds of the outcomes of a preconnect so far holds of those in the end.
LEMMA PreconnectLoop ==
    ASSUME NEW g \in Groups, NEW num \in 1 .. MaxSocketsPerGroup + 1, RequestSockets(g, num), NEW X,
           \A p \in Pruned(pool) : [pool |-> GetOrCreateGroup(p, g), rv |-> "OK"] \in X,
           \A n : \A o \in X : PreconnectOnce(o, g, n) \in SUBSET X
    PROVE  \E o \in X : pool' = IF g \in o.pool.group_map THEN RemoveIfEmpty(o.pool, g) ELSE o.pool
<1> DEFINE n == IF num > MaxSocketsPerGroup THEN MaxSocketsPerGroup ELSE num
           start == {[pool |-> GetOrCreateGroup(p, g), rv |-> "OK"] : p \in Pruned(pool)}
           After == CHOOSE After : After = [k \in 0 .. n |->
                        IF k = 0 THEN start ELSE UNION {PreconnectOnce(o, g, n) : o \in After[k - 1]}]
           step == [o \in X |-> PreconnectOnce(o, g, n)]
<1>1. n \in Nat
  BY PoolAssumption
<1>2. PICK o \in After[n] :
          pool' = IF g \in o.pool.group_map THEN RemoveIfEmpty(o.pool, g) ELSE o.pool
  BY DEF RequestSockets
<1> HIDE DEF n
<1>3. ASSUME NEW r \in X PROVE PreconnectOnce(r, g, n) \in SUBSET X
  OBVIOUS
<1>4. start \in SUBSET X
  OBVIOUS
<1> HIDE DEF start
<1>5. step \in [X -> SUBSET X]
  BY <1>3
<1>6. PICK f \in [0 .. n -> SUBSET X] : IsLoop(f, n, start, step)
  <2> HIDE DEF step
  <2> QED BY <1>1, <1>4, <1>5, LoopExists
<1>7. f = [k \in 0 .. n |-> IF k = 0 THEN start ELSE UNION {PreconnectOnce(r, g, n) : r \in f[k - 1]}]
  <2>1. ASSUME NEW k \in 0 .. n, k # 0
        PROVE  UNION {step[r] : r \in f[k - 1]} = UNION {PreconnectOnce(r, g, n) : r \in f[k - 1]}
    <3>1. k - 1 \in 0 .. n
      BY <1>1, <2>1
    <3>2. f[k - 1] \in SUBSET X
      BY <1>6, <3>1
    <3> QED BY <3>2
  <2> HIDE DEF step
  <2> QED BY <1>6, <2>1 DEF IsLoop
<1> HIDE DEF step
<1>8. After = [k \in 0 .. n |->
                 IF k = 0 THEN start ELSE UNION {PreconnectOnce(r, g, n) : r \in After[k - 1]}]
  BY <1>7
<1> HIDE DEF After
<1>9. /\ After[0] = start
      /\ \A k \in 0 .. n : k # 0 => After[k] = UNION {PreconnectOnce(r, g, n) : r \in After[k - 1]}
  BY <1>1, <1>8
<1> DEFINE W == {k \in 0 .. n : ~(After[k] \in SUBSET X)}
<1>10. W = {}
  <2>1. SUFFICES ASSUME W # {} PROVE FALSE
    OBVIOUS
  <2>2. PICK m \in W : \A y \in W : m <= y
    <3>1. W \in SUBSET Nat
      BY <1>1
    <3> HIDE DEF W
    <3> QED BY <2>1, <3>1, LeastOf
  <2>3. m \in 0 .. n /\ ~(After[m] \in SUBSET X)
    OBVIOUS
  <2>4. m # 0
    BY <1>4, <1>9, <2>3
  <2>5. m - 1 \in 0 .. n /\ m - 1 \notin W
    <3>1. m - 1 \in 0 .. n /\ ~(m <= m - 1)
      BY <1>1, <2>3, <2>4
    <3> HIDE DEF W
    <3> QED BY <2>2, <3>1
  <2>6. After[m - 1] \in SUBSET X
    BY <2>5
  <2>7. After[m] = UNION {PreconnectOnce(r, g, n) : r \in After[m - 1]}
    BY <1>9, <2>3, <2>4
  <2> QED BY <1>3, <2>3, <2>6, <2>7
<1>11. o \in X
  <2>1. n \in 0 .. n
    BY <1>1
  <2> QED BY <1>2, <1>10, <2>1
<1> QED
  BY <1>2, <1>11

LEMMA RequestSocketsGood ==
    ASSUME IInv, NEW g \in Groups, NEW num \in 1 .. MaxSocketsPerGroup + 1, RequestSockets(g, num)
    PROVE  Good(pool')
<1> DEFINE X == {o \in [pool : Pools, rv : Results] : Reached(o, g)}
<1>0. Good(pool) /\ load \in Loads
  BY DEF IInv
<1>1. ASSUME NEW n, NEW r \in X PROVE PreconnectOnce(r, g, n) \in SUBSET X
  <2>1. ASSUME NEW s \in PreconnectOnce(r, g, n) PROVE s \in X
    BY <1>0, <2>1, PreconnectOnceGood
  <2> QED BY <2>1
<1>2. ASSUME NEW p \in Pruned(pool)
      PROVE  [pool |-> GetOrCreateGroup(p, g), rv |-> "OK"] \in X
  <2> DEFINE q == GetOrCreateGroup(p, g)
             s == [pool |-> q, rv |-> "OK"]
  <2>1. Good(p) /\ Core(p)
    BY <1>0, PrunedGood DEF Good
  <2>2. Core(q) /\ Undisturbed(p, q, None) /\ g \in q.group_map
    BY <2>1, GetOrCreateGroupCore
  <2> HIDE DEF q
  <2>3. Good(q)
    BY <2>1, <2>2, UndisturbedNobody
  <2>4. q \in Pools /\ "OK" \in Results
    BY <2>2 DEF Core, Results
  <2>5. s \in [pool : Pools, rv : Results] /\ s.pool = q
    BY <2>4
  <2>6. Reached(s, g)
    BY <2>2, <2>3, <2>5 DEF Reached
  <2>7. s \in X
    BY <2>5, <2>6
  <2> QED BY <2>7 DEF q
<1>3. PICK o \in X : pool' = IF g \in o.pool.group_map THEN RemoveIfEmpty(o.pool, g) ELSE o.pool
  <2> HIDE DEF X
  <2> QED BY <1>1, <1>2, PreconnectLoop
<1>4. Good(o.pool)
  BY DEF Reached
<1>5. CASE g \in o.pool.group_map
  <2> DEFINE q == RemoveIfEmpty(o.pool, g)
  <2>1. Core(q) /\ Undisturbed(o.pool, q, None)
    <3>1. Core(o.pool)
      BY <1>4 DEF Good
    <3> QED BY <1>5, <3>1, RemoveIfEmptyCore
  <2>2. pool' = q
    BY <1>3, <1>5
  <2> HIDE DEF q
  <2> QED BY <1>4, <2>1, <2>2, UndisturbedNobody
<1>6. CASE g \notin o.pool.group_map
  BY <1>3, <1>4, <1>6
<1> QED
  BY <1>5, <1>6

LEMMA RequestSocketGood ==
    ASSUME IInv, NEW h \in Handles, NEW g \in Groups, RequestSocket(h, g)
    PROVE  Good(pool')
<1>0. Good(pool) /\ load \in Loads /\ pool.handles[h].phase = "free"
  BY DEF IInv, RequestSocket
<1>1. PICK p \in Pruned(pool) :
         \E o \in RequestSocketInternal([p EXCEPT !.handles[h].group = g], g, h) :
            pool' = IF o.rv = "ERR_IO_PENDING" THEN Waiting(o.pool, g, h)
                    ELSE HandleInitCompletion(o.pool, h, o.rv)
  BY DEF RequestSocket
<1> DEFINE q == [p EXCEPT !.handles[h].group = g]
           hs == [p.handles[h] EXCEPT !.group = g]
<1>2. PICK o \in RequestSocketInternal(q, g, h) :
          pool' = IF o.rv = "ERR_IO_PENDING" THEN Waiting(o.pool, g, h)
                  ELSE HandleInitCompletion(o.pool, h, o.rv)
  BY <1>1
<1>3. Good(p) /\ Core(p) /\ p.handles[h].phase = "free"
  BY <1>0, PrunedGood DEF Good
<1>4. Apart(p, h) /\ p.handles[h] = FreeHandle /\ p.handles[h].socket = NoSocket
  BY <1>3, NotWaiting, FreeHandleFields DEF Good, LinkOf
<1>5. p \in Pools /\ p.handles[h] \in HandleStates
  BY <1>3, HandleFields DEF Core
<1>6. /\ hs \in HandleStates /\ hs.group = g /\ hs.socket = NoSocket
  BY <1>4, <1>5 DEF HandleStates
<1>7. q = [p EXCEPT !.handles[h] = hs]
  BY <1>5 DEF Pools
<1> HIDE DEF q, hs
<1>8. KeepsSocket(p.handles[h], hs)
  BY <1>4, <1>6 DEF KeepsSocket
<1>9. Core(q) /\ Rehandled(p, q, h, hs)
  BY <1>3, <1>7, <1>8, RehandledCore
<1>10. Apart(q, h) /\ Asks(q, g, h) /\ q.handles[h] = hs
  BY <1>4, <1>6, <1>9, RehandledApart DEF Asks, Rehandled
<1>11. Core(o.pool) /\ Undisturbed(q, o.pool, h) /\ Connected(q, o, g, h)
  BY <1>0, <1>9, <1>10, RequestSocketInternalCore
<1>12. Apart(o.pool, h)
  <2>1. GoodBut(o.pool, h) /\ \A f \in Groups : \A k : Queued(o.pool, f, k) <=> Queued(q, f, k)
    BY <1>10, <1>11, UndisturbedGood DEF Apart
  <2> QED BY <1>10, <1>11, <2>1 DEF Apart, Undisturbed
<1>13. CASE o.rv = "ERR_IO_PENDING"
  <2>1. o.pool.handles[h] = hs /\ g \in o.pool.group_map
    BY <1>10, <1>11, <1>13 DEF Connected
  <2>2. Good(Waiting(o.pool, g, h))
    BY <1>6, <1>12, <2>1, WaitingGood
  <2> QED BY <1>2, <1>13, <2>2
<1>14. CASE o.rv # "ERR_IO_PENDING"
  <2>1. o.rv = "OK" => o.pool.handles[h].socket # NoSocket
    BY <1>11 DEF Connected
  <2>2. Good(HandleInitCompletion(o.pool, h, o.rv))
    BY <1>12, <2>1, HandleInitCompletionGood
  <2> QED BY <1>2, <1>14, <2>2
<1> QED
  BY <1>13, <1>14

LEMMA ClientActionsGood ==
    ASSUME IInv, NEW h \in Handles,
           \/ \E connected \in BOOLEAN : Release(h, connected)
           \/ CancelRequest(h) \/ Park(h) \/ Unpark(h)
    PROVE  Good(pool')
<1>0. Good(pool) /\ load \in Loads /\ Core(pool) /\ FALSE \in BOOLEAN
  BY DEF IInv, Good
<1>1. ASSUME NEW connected \in BOOLEAN, Release(h, connected) PROVE Good(pool')
  <2>1. pool.handles[h].phase \in {"ready", "parked"} /\ pool' \in ResetHandle(pool, h, connected)
    BY <1>1 DEF Release
  <2> QED BY <1>0, <2>1, ResetHandleGood
<1>2. CASE CancelRequest(h)
  <2>1. CASE pool.callbacks[h] # "none"
    <3>1. pool' \in CancelCallback(pool, h)
      BY <1>2, <2>1 DEF CancelRequest
    <3> QED BY <1>0, <2>1, <3>1, CancelCallbackGood
  <2>2. CASE pool.callbacks[h] = "none"
    <3>1. pool' \in CancelPending(pool, h) /\ pool.handles[h].phase = "waiting"
      BY <1>2, <2>2 DEF CancelRequest
    <3> QED BY <1>0, <2>2, <3>1, CancelPendingGood
  <2> QED BY <2>1, <2>2
<1>3. ASSUME NEW ph \in {"ready", "parked"}, pool.handles[h].phase \in {"ready", "parked"},
             pool' = [pool EXCEPT !.handles[h].phase = ph]
      PROVE  Good(pool')
  <2> DEFINE q == [pool EXCEPT !.handles[h].phase = ph]
             hs == [pool.handles[h] EXCEPT !.phase = ph]
  <2>1. Core(q) /\ Rehandled(pool, q, h, hs) /\ hs.phase = ph /\ hs.socket = pool.handles[h].socket
    <3>1. ph \in Initialized
      BY DEF Initialized
    <3> QED BY <1>0, <3>1, RephasedFacts
  <2>2. Apart(pool, h) /\ pool.handles[h].socket # NoSocket
    BY <1>0, <1>3, NotWaiting DEF Good, LinkOf
  <2> HIDE DEF q, hs
  <2>3. Good(q)
    BY <2>1, <2>2, RehandledApart
  <2> QED BY <1>3, <2>3 DEF q
<1>4. CASE Park(h)
  <2>1. /\ pool.handles[h].phase = "ready"
        /\ \/ pool' \in ResetHandle(pool, h, FALSE)
           \/ pool' = [pool EXCEPT !.handles[h].phase = "parked"]
    BY <1>4 DEF Park
  <2>2. CASE pool' \in ResetHandle(pool, h, FALSE)
    BY <1>0, <2>1, <2>2, ResetHandleGood
  <2>3. CASE pool' = [pool EXCEPT !.handles[h].phase = "parked"]
    BY <1>3, <2>1, <2>3
  <2> QED BY <2>1, <2>2, <2>3
<1>5. CASE Unpark(h)
  <2>1. pool.handles[h].phase = "parked" /\ pool' = [pool EXCEPT !.handles[h].phase = "ready"]
    BY <1>5 DEF Unpark
  <2> QED BY <1>3, <2>1
<1> QED
  BY <1>1, <1>2, <1>4, <1>5

LEMMA ConnectJobCompleteGood ==
    ASSUME IInv, NEW g \in Groups, ConnectJobComplete(g)
    PROVE  Good(pool')
<1>1. Good(pool) /\ load \in Loads
  BY DEF IInv
<1>2. PICK i \in DOMAIN pool.groups[g].jobs, rv \in {"OK", "ERR", "ERR_WITH_SOCKET"} :
          pool' \in OnConnectJobComplete(pool, g, i, rv)
  BY DEF ConnectJobComplete
<1> QED
  BY <1>1, <1>2, OnConnectJobCompleteGood

LEMMA OnBackupJobTimerFiredGood ==
    ASSUME IInv, NEW g \in Groups, OnBackupJobTimerFired(g)
    PROVE  Good(pool')
<1> DEFINE gr == pool.groups[g]
           later == ReachedMaxSocketsLimit(pool) \/ ~HasAvailableSocketSlot(gr)
<1>1. Good(pool) /\ load \in Loads /\ Core(pool)
  BY DEF IInv, Good
<1>2. /\ gr.backup_job_timer
      /\ pool' \in IF gr.jobs = <<>> THEN {Check(pool, FALSE)}
                   ELSE IF later THEN {pool} ELSE StartBackupJob(pool, g)
  BY DEF OnBackupJobTimerFired
<1>3. gr.jobs # <<>> /\ g \in pool.group_map
  <2>1. GroupOK(gr, pool.generation) /\ (g \notin pool.group_map => gr = NewGroup)
    BY <1>1, Sizes
  <2> QED BY <1>2, <2>1, NewGroupFields DEF GroupOK
<1>4. CASE later
  BY <1>1, <1>2, <1>3, <1>4
<1>5. CASE ~later
  <2>1. pool' \in StartBackupJob(pool, g)
    BY <1>2, <1>3, <1>5
  <2>2. Total(pool) < MaxSockets /\ HasAvailableSocketSlot(gr)
    <3>1. Total(pool) \in Nat /\ MaxSockets \in Nat
      BY <1>1, Sizes, PoolAssumption
    <3>2. ~(Total(pool) >= MaxSockets) /\ HasAvailableSocketSlot(gr)
      BY <1>5 DEF ReachedMaxSocketsLimit, Total
    <3> QED BY <3>1, <3>2
  <2>3. RoomForOne(pool, g)
    BY <2>2 DEF RoomForOne
  <2> QED BY <1>1, <1>3, <2>1, <2>3, StartBackupJobGood
<1> QED
  BY <1>4, <1>5

LEMMA IdleActionsGood ==
    ASSUME IInv, OnCleanupTimerFired \/ CloseIdleSockets \/ CloseOneIdleConnection
    PROVE  Good(pool')
<1>0. Good(pool) /\ load \in Loads /\ Core(pool) /\ FALSE \in BOOLEAN /\ TRUE \in BOOLEAN
  BY DEF IInv, Good
<1>1. CASE OnCleanupTimerFired
  <2>1. pool' \in CleanupIdleSockets(pool, FALSE)
    BY <1>1 DEF OnCleanupTimerFired
  <2>2. Core(pool') /\ Undisturbed(pool, pool', None)
    BY <1>0, <2>1, CleanupIdleSocketsCore
  <2> QED BY <1>0, <2>2, UndisturbedNobody
<1>2. CASE CloseIdleSockets
  <2>1. PICK p \in CleanupIdleSockets(pool, TRUE) : pool' = Check(p, p.idle = 0)
    BY <1>2 DEF CloseIdleSockets
  <2>2. Core(p) /\ Undisturbed(pool, p, None) /\ p.idle = 0
    BY <1>0, <2>1, CleanupIdleSocketsCore
  <2>3. Good(p)
    BY <1>0, <2>2, UndisturbedNobody
  <2>4. Check(p, p.idle = 0) = p
    <3>1. p \in Pools /\ ~p.failed /\ (p.idle = 0) \in BOOLEAN
      BY <2>2 DEF Core
    <3> QED BY <2>2, <3>1, CheckHolds
  <2> QED BY <2>1, <2>3, <2>4
<1>3. CASE CloseOneIdleConnection
  <2>1. \/ pool' \in CloseOneIdleSocket(pool)
        \/ \E h \in Parked(pool) : pool' \in ResetHandle(pool, h, FALSE)
    BY <1>3 DEF CloseOneIdleConnection
  <2>2. CASE pool' \in CloseOneIdleSocket(pool)
    BY <1>0, <2>2, CloseOneIdleSocketGood
  <2>3. ASSUME NEW h \in Parked(pool), pool' \in ResetHandle(pool, h, FALSE) PROVE Good(pool')
    <3>1. h \in Handles /\ pool.handles[h].phase \in {"ready", "parked"}
      BY DEF Parked
    <3> QED BY <1>0, <2>3, <3>1, ResetHandleGood
  <2> QED BY <2>1, <2>2, <2>3
<1> QED
  BY <1>1, <1>2, <1>3

LEMMA RunTaskGood ==
    ASSUME IInv, RunTask
    PROVE  Good(pool')
<1> DEFINE task == Head(pool.tasks)
           p == [pool EXCEPT !.tasks = Tail(@)]
<1>0. Good(pool) /\ load \in Loads
  BY DEF IInv
<1>1. /\ pool.tasks # <<>>
      /\ pool' \in (IF task = CloseTask THEN TryToCloseSocketsInLayeredPools(p)
                    ELSE {InvokeUserCallback(p, task.handle)})
  BY DEF RunTask
<1>2. /\ task \in Tasks
      /\ task = CloseTask => Good(p)
      /\ \A h \in Handles : task = CallbackTask(h) => GoodBut(p, h)
      /\ \A h \in Handles : task = CallbackTask(h) /\ pool.callbacks[h] = "none" => Good(p)
      /\ p.handles = pool.handles /\ p.callbacks = pool.callbacks
  BY <1>0, <1>1, TaskTaken
<1> HIDE DEF p, task
<1>3. CASE task = CloseTask
  <2>1. pool' \in TryToCloseSocketsInLayeredPools(p)
    BY <1>1, <1>3
  <2> QED BY <1>0, <1>2, <1>3, <2>1, TryToCloseSocketsGood
<1>4. CASE task # CloseTask
  <2>1. PICK h \in Handles : task = CallbackTask(h)
    BY <1>2, <1>4 DEF Tasks
  <2>2. task.handle = h
    BY <2>1 DEF CallbackTask
  <2>3. pool' = InvokeUserCallback(p, h)
    BY <1>1, <1>4, <2>2
  <2>4. Good(InvokeUserCallback(p, h))
    BY <1>0, <1>2, <2>1, InvokeUserCallbackGood
  <2> QED BY <2>3, <2>4
<1> QED
  BY <1>3, <1>4

-----------------------------------------------------------------------------
(* Sequences of sequences *)

\* An order of a finite set names every element.
LEMMA OrderFacts ==
    ASSUME NEW S, IsFiniteSet(S), NEW order \in SetToSeqs(S)
    PROVE  /\ Cardinality(S) \in Nat /\ order \in [1 .. Cardinality(S) -> S]
           /\ \A x \in S : \E k \in 1 .. Cardinality(S) : order[k] = x
<1> DEFINE N == Cardinality(S)
           D == 1 .. N
<1>1. N \in Nat
  BY FS_CardinalityType
<1>2. order \in [D -> S] /\ \A i, j \in D : i # j => order[i] # order[j]
  BY DEF SetToSeqs
<1>3. order \in Injection(D, S)
  BY <1>2 DEF Injection, IsInjective
<1>4. Cardinality(D) = N
  <2> HIDE DEF N
  <2>1. IsFiniteSet(1 .. N) /\ Cardinality(1 .. N) = IF 1 > N THEN 0 ELSE N - 1 + 1
    BY <1>1, FS_Interval
  <2> QED BY <1>1, <2>1
<1>5. order \in Surjection(D, S)
  <2> HIDE DEF D
  <2> QED BY <1>3, <1>4, FS_Injection
<1> QED
  BY <1>1, <1>2, <1>5 DEF Surjection

\* The equations of FlattenSeq.
IsFlat(f, n, s) == f = [i \in 1 .. n |-> IF i = 1 THEN s[i] ELSE f[i - 1] \o s[i]]

LEMMA FlatExists ==
    ASSUME NEW S, NEW n \in Nat, NEW s \in [1 .. n -> Seq(S)]
    PROVE  \E f \in [1 .. n -> Seq(S)] : IsFlat(f, n, s)
<1> DEFINE W == {m \in 0 .. n : ~ \E f \in [1 .. m -> Seq(S)] : IsFlat(f, m, s)}
<1>1. SUFFICES ASSUME W # {} PROVE FALSE
  <2>1. n \in 0 .. n
    OBVIOUS
  <2> QED BY <2>1
<1>2. PICK m \in W : \A y \in W : m <= y
  <2>1. W \in SUBSET Nat
    OBVIOUS
  <2> HIDE DEF W
  <2> QED BY <1>1, <2>1, LeastOf
<1>3. m \in 0 .. n /\ ~ \E f \in [1 .. m -> Seq(S)] : IsFlat(f, m, s)
  OBVIOUS
<1>4. m # 0
  <2> DEFINE z == [i \in 1 .. 0 |-> <<>>]
  <2>1. \A i \in 1 .. 0 : FALSE
    OBVIOUS
  <2>2. z \in [1 .. 0 -> Seq(S)] /\ IsFlat(z, 0, s)
    BY <2>1 DEF IsFlat
  <2> QED BY <1>3, <2>2
<1>5. m - 1 \in 0 .. n /\ m - 1 \notin W /\ m \in 1 .. n
  <2>1. m - 1 \in 0 .. n /\ ~(m <= m - 1) /\ m \in 1 .. n
    BY <1>3, <1>4
  <2> HIDE DEF W
  <2> QED BY <1>2, <2>1
<1>6. PICK u \in [1 .. (m - 1) -> Seq(S)] : IsFlat(u, m - 1, s)
  BY <1>5
<1> DEFINE last == IF m = 1 THEN s[m] ELSE u[m - 1] \o s[m]
           v == [i \in 1 .. m |-> IF i = m THEN last ELSE u[i]]
<1>7. \A i \in 1 .. m : i # m => i \in 1 .. (m - 1)
  BY <1>5
<1>8. last \in Seq(S)
  <2>1. s[m] \in Seq(S)
    BY <1>5
  <2>2. CASE m = 1
    BY <2>1, <2>2
  <2>3. CASE m # 1
    <3>1. m - 1 \in 1 .. (m - 1)
      BY <1>5, <2>3
    <3>2. u[m - 1] \in Seq(S)
      BY <1>6, <3>1
    <3>3. u[m - 1] \o s[m] \in Seq(S)
      BY <2>1, <3>2, ConcatProperties
    <3> QED BY <2>3, <3>3
  <2> QED BY <2>2, <2>3
<1>9. v \in [1 .. m -> Seq(S)]
  <2> HIDE DEF last
  <2> QED BY <1>6, <1>7, <1>8
<1>10. ASSUME NEW i \in 1 .. m PROVE v[i] = IF i = 1 THEN s[i] ELSE v[i - 1] \o s[i]
  <2>0. i # 1 => i - 1 \in 1 .. m /\ i - 1 # m /\ v[i - 1] = u[i - 1]
    <3>1. i # 1 => i - 1 \in 1 .. m /\ i - 1 # m
      BY <1>5
    <3> HIDE DEF last
    <3> QED BY <3>1
  <2>1. CASE i = m
    <3>1. v[i] = last
      BY <2>1
    <3> QED BY <2>0, <2>1, <3>1
  <2>2. CASE i # m
    <3>1. i \in 1 .. (m - 1) /\ v[i] = u[i]
      BY <1>7, <2>2
    <3>2. u[i] = IF i = 1 THEN s[i] ELSE u[i - 1] \o s[i]
      BY <1>6, <3>1 DEF IsFlat
    <3> HIDE DEF v
    <3> QED BY <2>0, <3>1, <3>2
  <2> QED BY <2>1, <2>2
<1>11. IsFlat(v, m, s)
  <2>1. v = [i \in 1 .. m |-> v[i]]
    OBVIOUS
  <2> HIDE DEF v
  <2> QED BY <1>10, <2>1 DEF IsFlat
<1> QED
  BY <1>3, <1>9, <1>11

LEMMA ConcatHas ==
    ASSUME NEW S, NEW s \in Seq(S), NEW t \in Seq(S)
    PROVE  s \o t \in Seq(S) /\ \A x : Has(s \o t, x) <=> Has(s, x) \/ Has(t, x)
<1> DEFINE r == s \o t
           n == Len(s)
           m == Len(t)
<1>1. /\ r \in Seq(S) /\ Len(r) = n + m /\ n \in Nat /\ m \in Nat
      /\ \A i \in 1 .. (n + m) : r[i] = IF i <= n THEN s[i] ELSE t[i - n]
  BY ConcatProperties, LenProperties
<1> HIDE DEF r, n, m
<1>2. ASSUME NEW x, Has(r, x) PROVE Has(s, x) \/ Has(t, x)
  <2>1. PICK i \in 1 .. (n + m) : r[i] = x
    BY <1>1, <1>2 DEF Has
  <2>2. CASE i <= n
    <3>1. i \in 1 .. n /\ s[i] = x
      BY <1>1, <2>1, <2>2
    <3> QED BY <3>1 DEF Has, n
  <2>3. CASE ~(i <= n)
    <3>1. i - n \in 1 .. m /\ t[i - n] = x
      BY <1>1, <2>1, <2>3
    <3> QED BY <3>1 DEF Has, m
  <2> QED BY <2>2, <2>3
<1>3. ASSUME NEW x, Has(s, x) PROVE Has(r, x)
  <2>1. PICK i \in 1 .. n : s[i] = x
    BY <1>3 DEF Has, n
  <2>2. i \in 1 .. (n + m) /\ r[i] = x
    BY <1>1, <2>1
  <2> QED BY <1>1, <2>2 DEF Has
<1>4. ASSUME NEW x, Has(t, x) PROVE Has(r, x)
  <2>1. PICK i \in 1 .. m : t[i] = x
    BY <1>4 DEF Has, m
  <2>2. n + i \in 1 .. (n + m) /\ ~(n + i <= n) /\ (n + i) - n = i
    BY <1>1
  <2>3. r[n + i] = x
    BY <1>1, <2>1, <2>2
  <2> QED BY <1>1, <2>2, <2>3 DEF Has
<1> QED
  BY <1>1, <1>2, <1>3, <1>4 DEF r

\* FlattenSeq has the elements of all.
LEMMA FlattenFacts ==
    ASSUME NEW S, NEW n \in Nat, NEW s \in [1 .. n -> Seq(S)]
    PROVE  /\ FlattenSeq(s) \in Seq(S)
           /\ \A x : Has(FlattenSeq(s), x) <=> \E k \in 1 .. n : Has(s[k], x)
<1>1. s \in Seq(Seq(S)) /\ Len(s) = n
  BY SeqDef
<1>2. CASE n = 0
  <2>0. s = <<>>
    BY <1>1, <1>2, EmptyIffLenZero
  <2>1. FlattenSeq(s) = s /\ s = <<>>
    <3>1. Len(s) = 0
      BY <1>1, <1>2
    <3> QED BY <2>0, <3>1 DEF FlattenSeq
  <2>2. <<>> \in Seq(S) /\ \A x : ~Has(<<>>, x)
    BY EmptySeq DEF Has
  <2>3. \A k \in 1 .. n : FALSE
    BY <1>2
  <2> QED BY <2>1, <2>2, <2>3
<1>3. CASE n # 0
  <2> DEFINE flatten == CHOOSE flatten : flatten = [i \in 1 .. Len(s) |->
                           IF i = 1 THEN s[i] ELSE flatten[i - 1] \o s[i]]
  <2>1. FlattenSeq(s) = flatten[n]
    BY <1>1, <1>3 DEF FlattenSeq
  <2>2. IsFlat(flatten, n, s)
    <3>1. PICK v : IsFlat(v, n, s)
      BY FlatExists
    <3>2. v = [i \in 1 .. Len(s) |-> IF i = 1 THEN s[i] ELSE v[i - 1] \o s[i]]
      BY <1>1, <3>1 DEF IsFlat
    <3>3. flatten = [i \in 1 .. Len(s) |-> IF i = 1 THEN s[i] ELSE flatten[i - 1] \o s[i]]
      BY <3>2
    <3> HIDE DEF flatten
    <3> QED BY <1>1, <3>3 DEF IsFlat
  <2> HIDE DEF flatten
  <2>3. \A i \in 1 .. n : flatten[i] = IF i = 1 THEN s[i] ELSE flatten[i - 1] \o s[i]
    BY <2>2 DEF IsFlat
  <2> DEFINE Flat(i) == /\ flatten[i] \in Seq(S)
                        /\ \A x : Has(flatten[i], x) <=> \E k \in 1 .. i : Has(s[k], x)
             W == {i \in 1 .. n : ~Flat(i)}
  <2>4. W = {}
    <3>1. SUFFICES ASSUME W # {} PROVE FALSE
      OBVIOUS
    <3>2. PICK m \in W : \A y \in W : m <= y
      <4>1. W \in SUBSET Nat
        OBVIOUS
      <4> HIDE DEF W
      <4> QED BY <3>1, <4>1, LeastOf
    <3>3. m \in 1 .. n /\ ~Flat(m)
      OBVIOUS
    <3>4. m # 1
      <4>1. 1 \in 1 .. n /\ flatten[1] = s[1] /\ s[1] \in Seq(S)
        BY <1>3, <2>3
      <4>2. \A k \in 1 .. 1 : k = 1
        OBVIOUS
      <4>3. 1 \in 1 .. 1
        OBVIOUS
      <4>4. Flat(1)
        BY <4>1, <4>2, <4>3
      <4> HIDE DEF Flat
      <4> QED BY <3>3, <4>4
    <3>5. m - 1 \in 1 .. n /\ m - 1 \notin W
      <4>1. m - 1 \in 1 .. n /\ ~(m <= m - 1)
        BY <3>3, <3>4
      <4> HIDE DEF W
      <4> QED BY <3>2, <4>1
    <3>6. Flat(m - 1)
      <4> HIDE DEF Flat
      <4> QED BY <3>5
    <3>7. flatten[m] = flatten[m - 1] \o s[m] /\ s[m] \in Seq(S)
      BY <2>3, <3>3, <3>4
    <3>8. /\ flatten[m] \in Seq(S)
          /\ \A x : Has(flatten[m], x) <=> Has(flatten[m - 1], x) \/ Has(s[m], x)
      BY <3>6, <3>7, ConcatHas
    <3>9. ASSUME NEW x
          PROVE  (\E k \in 1 .. m : Has(s[k], x))
                    <=> (\E k \in 1 .. (m - 1) : Has(s[k], x)) \/ Has(s[m], x)
      <4>1. m \in 1 .. m /\ \A k : k \in 1 .. m <=> (k \in 1 .. (m - 1) \/ k = m)
        BY <3>3
      <4> QED BY <4>1
    <3>10. Flat(m)
      BY <3>6, <3>8, <3>9
    <3> HIDE DEF Flat
    <3> QED BY <3>3, <3>10
  <2>5. n \in 1 .. n
    BY <1>3
  <2>6. Flat(n)
    <3> HIDE DEF Flat
    <3> QED BY <2>4, <2>5
  <2> QED BY <2>1, <2>6
<1> QED
  BY <1>2, <1>3

-----------------------------------------------------------------------------
(* Flushing *)

\* Nothing is connecting.
NoJobs(p) == p.connecting = 0 /\ \A g \in Groups : p.groups[g].jobs = <<>>

LEMMA CancelAllConnectJobsCore ==
    ASSUME NEW p, Core(p)
    PROVE  LET q == CancelAllConnectJobs(p) IN
           /\ Core(q) /\ Undisturbed(p, q, None) /\ q.handles = p.handles /\ NoJobs(q)
<1> DEFINE q == CancelAllConnectJobs(p)
           left == [g \in Groups |-> [p.groups[g] EXCEPT !.jobs = <<>>,
                                         !.unassigned_job_count = 0,
                                         !.backup_job_timer = FALSE]]
           gone == {g \in p.group_map : IsEmpty(left[g])}
           jobs == [g \in p.group_map |-> Len(p.groups[g].jobs)]
           rest == p.connecting - SumFunction(jobs)
           map == p.group_map \ gone
           c == rest = 0
<1>0. p \in Pools /\ ~p.failed /\ p.group_map \in SUBSET Groups
      /\ p.groups \in [Groups -> SocketGroups]
      /\ p.connecting \in Nat /\ p.handed_out \in Nat /\ p.idle \in Nat
  BY Sizes, PoolFields
<1>1. ASSUME NEW g \in Groups
      PROVE  /\ p.groups[g] \in SocketGroups /\ GroupOK(p.groups[g], p.generation)
             /\ Len(p.groups[g].idle_sockets) \in Nat /\ Len(p.groups[g].jobs) \in Nat
             /\ p.groups[g].active_socket_count \in Nat
  BY Sizes, GroupFields
<1>2. ASSUME NEW g \in Groups
      PROVE  LET gr == left[g]
                 old == p.groups[g] IN
             /\ gr \in SocketGroups
             /\ gr.jobs = <<>> /\ gr.unassigned_job_count = 0
             /\ gr.idle_sockets = old.idle_sockets /\ gr.pending_requests = old.pending_requests
             /\ gr.active_socket_count = old.active_socket_count
             /\ gr.backup_job_timer = FALSE
  <2> DEFINE old == p.groups[g]
             gr == [old EXCEPT !.jobs = <<>>, !.unassigned_job_count = 0, !.backup_job_timer = FALSE]
  <2>1. left[g] = gr
    OBVIOUS
  <2>2. old \in SocketGroups /\ <<>> \in Seq(Generations) /\ 0 \in Nat /\ FALSE \in BOOLEAN
    BY <1>1, EmptySeq
  <2>3. /\ gr \in SocketGroups
        /\ gr.jobs = <<>> /\ gr.unassigned_job_count = 0
        /\ gr.idle_sockets = old.idle_sockets /\ gr.pending_requests = old.pending_requests
        /\ gr.active_socket_count = old.active_socket_count
        /\ gr.backup_job_timer = FALSE
    <3> HIDE DEF old
    <3> QED BY <2>2 DEF SocketGroups
  <2> QED BY <2>1, <2>3
<1>3. left \in [Groups -> SocketGroups]
  <2>1. left = [g \in Groups |-> left[g]]
    OBVIOUS
  <2> HIDE DEF left
  <2> QED BY <1>2, <2>1
<1>4. q = [Check(p, rest = 0) EXCEPT
              !.groups = [g \in Groups |-> IF g \in gone THEN NewGroup ELSE left[g]],
              !.group_map = @ \ gone, !.connecting = rest]
  BY DEF CancelAllConnectJobs
<1> HIDE DEF left
<1>5. ASSUME NEW g \in Groups PROVE GroupOK(left[g], p.generation) /\ Len(left[g].jobs) = 0
  <2>1. Len(left[g].jobs) = 0
    BY <1>2, EmptySeq
  <2> DEFINE gr == left[g]
             s == gr.idle_sockets
             u == gr.unassigned_job_count
             t == gr.backup_job_timer
  <2>2. \A i \in 1 .. Len(s) : s[i] = p.generation
    BY <1>1, <1>2 DEF GroupOK
  <2>3. u <= Len(gr.jobs)
    <3>1. u = 0
      BY <1>2
    <3> HIDE DEF u, gr
    <3> QED BY <2>1, <3>1 DEF gr
  <2>4. \A i \in 1 .. Len(gr.jobs) : FALSE
    BY <2>1
  <2>5. ~t
    BY <1>2
  <2> HIDE DEF gr
  <2> QED BY <2>1, <2>2, <2>3, <2>4, <2>5 DEF GroupOK, gr
<1>6. ASSUME NEW g \in Groups PROVE IsEmpty(left[g]) <=> left[g] = NewGroup
  BY <1>2, <1>5, EmptyIsNew, NewGroupFields
<1>7. rest = 0
  <2>1. JobsOf(p) \in [Groups -> Nat] /\ IsFiniteSet(Groups)
    BY <1>1, PoolAssumption DEF JobsOf
  <2>2. \A g \in Groups \ p.group_map : JobsOf(p)[g] = 0
    BY Sizes, NewGroupFields, EmptySeq DEF JobsOf
  <2>3. jobs = [g \in p.group_map |-> JobsOf(p)[g]]
    BY <1>0 DEF JobsOf
  <2>4. SumFunction([g \in p.group_map |-> JobsOf(p)[g]]) = SumFunction(JobsOf(p))
    BY <1>0, <2>1, <2>2, SumRestrict
  <2>5. p.connecting = SumFunction(JobsOf(p))
    BY DEF Core, CountsInv
  <2> QED BY <1>0, <2>3, <2>4, <2>5
<1> HIDE DEF rest
<1>8. Check(p, c) = p
  <2>1. c \in BOOLEAN /\ c
    BY <1>7
  <2> HIDE DEF c
  <2> QED BY <1>0, <2>1, CheckHolds
<1>9. q = [p EXCEPT !.groups = left, !.group_map = map, !.connecting = 0]
  <2>1. [g \in Groups |-> IF g \in gone THEN NewGroup ELSE left[g]] = left
    <3>1. \A g \in Groups : (IF g \in gone THEN NewGroup ELSE left[g]) = left[g]
      BY <1>6
    <3>2. left = [g \in Groups |-> left[g]]
      BY <1>3
    <3> HIDE DEF gone
    <3> QED BY <3>1, <3>2
  <2> HIDE DEF gone, q
  <2> QED BY <1>0, <1>4, <1>7, <1>8, <2>1 DEF Pools
<1>11. map \in SUBSET Groups
  BY <1>0
<1> HIDE DEF q, map
<1>12. q \in Pools
  BY <1>0, <1>3, <1>9, <1>11 DEF Pools
<1>13. /\ q.groups = left /\ q.group_map = map /\ q.idle = p.idle
       /\ q.connecting = 0 /\ q.handed_out = p.handed_out
       /\ q.generation = p.generation /\ q.callbacks = p.callbacks /\ q.tasks = p.tasks
       /\ q.handles = p.handles /\ q.failed = p.failed
  BY <1>0, <1>9 DEF Pools
<1>14. GroupsInv(q)
  <2>1. ASSUME NEW g \in Groups, g \notin map PROVE left[g] = NewGroup
    <3>1. CASE g \in p.group_map
      BY <1>6, <2>1, <3>1 DEF map
    <3>2. CASE g \notin p.group_map
      <4>1. p.groups[g] = NewGroup
        BY <3>2, Sizes
      <4>4. IsEmpty(left[g])
        BY <1>2, <4>1, NewGroupFields DEF IsEmpty
      <4> QED BY <1>6, <4>4
    <3> QED BY <3>1, <3>2
  <2> QED BY <1>5, <1>13, <2>1 DEF GroupsInv
<1>15. CountsInv(q)
  <2>1. IdleOf(q) = IdleOf(p)
    BY <1>2, <1>13 DEF IdleOf
  <2>2. JobsOf(q) \in [Groups -> Nat] /\ \A g \in Groups : JobsOf(q)[g] = 0
    BY <1>5, <1>13 DEF JobsOf
  <2>3. SumFunction(JobsOf(q)) = 0
    BY <2>2, PoolAssumption, SumPositive
  <2> QED BY <1>13, <2>1, <2>3 DEF Core, CountsInv
<1>16. HeldInv(q)
  <2>1. Holding(q) = Holding(p) /\ \A g \in Groups : Holders(q, g) = Holders(p, g)
    BY <1>13 DEF Holding, Holders
  <2>2. \A g \in Groups : q.groups[g].active_socket_count = p.groups[g].active_socket_count
    BY <1>2, <1>13
  <2> QED BY <1>13, <2>1, <2>2 DEF Core, HeldInv
<1>17. FreshInv(q)
  BY <1>13 DEF Core, FreshInv
<1>18. LimitsInv(q)
  <2>1. ASSUME NEW g \in Groups
        PROVE  /\ NumActiveSocketSlots(left[g]) <= NumActiveSocketSlots(p.groups[g])
               /\ NumActiveSocketSlots(left[g]) \in Int /\ NumActiveSocketSlots(p.groups[g]) \in Int
    <3> DEFINE a == p.groups[g].active_socket_count
               j == Len(p.groups[g].jobs)
               m == Len(p.groups[g].idle_sockets)
    <3>1. NumActiveSocketSlots(left[g]) = a + 0 + m /\ NumActiveSocketSlots(p.groups[g]) = a + j + m
      BY <1>2, <1>5 DEF NumActiveSocketSlots
    <3>2. a \in Nat /\ j \in Nat /\ m \in Nat
      BY <1>1
    <3> HIDE DEF a, j, m
    <3> QED BY <3>1, <3>2
  <2>2. Total(q) <= Total(p) /\ Total(p) \in Nat /\ Total(q) \in Nat
    BY <1>0, <1>13 DEF Total
  <2>3. MaxSockets \in Nat /\ MaxSocketsPerGroup \in Nat
    BY PoolAssumption
  <2>4. LimitsInv(p)
    BY DEF Core
  <2> QED BY <1>13, <2>1, <2>2, <2>3, <2>4 DEF LimitsInv
<1>19. Core(q)
  BY <1>0, <1>12, <1>13, <1>14, <1>15, <1>16, <1>17, <1>18 DEF Core
<1>20. Undisturbed(p, q, None)
  BY <1>2, <1>13, PoolAssumption DEF Undisturbed
<1>21. NoJobs(q)
  BY <1>2, <1>13 DEF NoJobs
<1> QED
  BY <1>13, <1>19, <1>20, <1>21 DEF q

\* A new generation; the order of it and the closing of sockets does not matter.
NextGeneration(p) == [p EXCEPT !.generation = @ + 1]

LEMMA CancelAllNext ==
    ASSUME NEW p \in Pools
    PROVE  CancelAllConnectJobs(NextGeneration(p)) = NextGeneration(CancelAllConnectJobs(p))
<1> DEFINE n == p.generation + 1
           r == [p EXCEPT !.generation = n]
<1>1. NextGeneration(p) = r
  BY DEF NextGeneration
<1>2. /\ r.groups = p.groups /\ r.group_map = p.group_map /\ r.connecting = p.connecting
      /\ r.failed = p.failed /\ r.generation = n /\ r.idle = p.idle
      /\ r.handed_out = p.handed_out /\ r.callbacks = p.callbacks /\ r.tasks = p.tasks
      /\ r.handles = p.handles
  BY DEF Pools
<1> DEFINE left == [g \in Groups |-> [p.groups[g] EXCEPT !.jobs = <<>>,
                                         !.unassigned_job_count = 0,
                                         !.backup_job_timer = FALSE]]
           gone == {g \in p.group_map : IsEmpty(left[g])}
           jobs == [g \in p.group_map |-> Len(p.groups[g].jobs)]
           rest == p.connecting - SumFunction(jobs)
           G == [g \in Groups |-> IF g \in gone THEN NewGroup ELSE left[g]]
           map == p.group_map \ gone
           b == p.failed \/ ~(rest = 0)
<1>3. CancelAllConnectJobs(p) = [p EXCEPT !.failed = b, !.groups = G, !.group_map = map, !.connecting = rest]
  <2>1. CancelAllConnectJobs(p) = [Check(p, rest = 0) EXCEPT
                                     !.groups = G, !.group_map = @ \ gone, !.connecting = rest]
    BY DEF CancelAllConnectJobs
  <2> HIDE DEF G, gone, rest
  <2> QED BY <2>1 DEF Check, Pools
<1>4. CancelAllConnectJobs(r) = [r EXCEPT !.failed = b, !.groups = G, !.group_map = map, !.connecting = rest]
  <2>1. CancelAllConnectJobs(r) = [Check(r, rest = 0) EXCEPT
                                     !.groups = G, !.group_map = @ \ gone, !.connecting = rest]
    <3> HIDE DEF r
    <3> QED BY <1>2 DEF CancelAllConnectJobs
  <2> HIDE DEF G, gone, rest
  <2> QED BY <2>1 DEF Check, Pools
<1> HIDE DEF G, gone, rest, b, map
<1>5. [r EXCEPT !.failed = b, !.groups = G, !.group_map = map, !.connecting = rest]
      = [[p EXCEPT !.failed = b, !.groups = G, !.group_map = map, !.connecting = rest]
            EXCEPT !.generation = @ + 1]
  BY DEF Pools
<1> QED
  BY <1>1, <1>3, <1>4, <1>5 DEF NextGeneration

LEMMA SweepNext ==
    ASSUME NEW p \in Pools, NEW keep
    PROVE  Sweep(NextGeneration(p), keep) = NextGeneration(Sweep(p, keep))
<1> DEFINE n == p.generation + 1
           r == [p EXCEPT !.generation = n]
<1>1. NextGeneration(p) = r
  BY DEF NextGeneration
<1>2. /\ r.groups = p.groups /\ r.group_map = p.group_map /\ r.connecting = p.connecting
      /\ r.failed = p.failed /\ r.generation = n /\ r.idle = p.idle
      /\ r.handed_out = p.handed_out /\ r.callbacks = p.callbacks /\ r.tasks = p.tasks
      /\ r.handles = p.handles
  BY DEF Pools
<1> DEFINE kept == [g \in Groups |-> [p.groups[g] EXCEPT !.idle_sockets = keep[g]]]
           gone == {g \in p.group_map : IsEmpty(kept[g])}
           dropped == [g \in Groups |-> Len(p.groups[g].idle_sockets) - Len(keep[g])]
           c == \A g \in gone : p.groups[g].unassigned_job_count = 0
           G == [g \in Groups |-> IF g \in gone THEN NewGroup ELSE kept[g]]
           map == p.group_map \ gone
           b == p.failed \/ ~c
           rest == p.idle - SumFunction(dropped)
<1>3. Sweep(p, keep) = [p EXCEPT !.failed = b, !.groups = G, !.group_map = map, !.idle = rest]
  <2>1. Sweep(p, keep) = [Check(p, c) EXCEPT !.groups = G, !.group_map = @ \ gone,
                                             !.idle = @ - SumFunction(dropped)]
    BY DEF Sweep
  <2> HIDE DEF G, gone, dropped, c
  <2> QED BY <2>1 DEF Check, Pools
<1>4. Sweep(r, keep) = [r EXCEPT !.failed = b, !.groups = G, !.group_map = map, !.idle = rest]
  <2>1. Sweep(r, keep) = [Check(r, c) EXCEPT !.groups = G, !.group_map = @ \ gone,
                                             !.idle = @ - SumFunction(dropped)]
    <3> HIDE DEF r
    <3> QED BY <1>2 DEF Sweep
  <2> HIDE DEF G, gone, dropped, c
  <2> QED BY <2>1 DEF Check, Pools
<1> HIDE DEF G, gone, rest, b, map
<1>5. [r EXCEPT !.failed = b, !.groups = G, !.group_map = map, !.idle = rest]
      = [[p EXCEPT !.failed = b, !.groups = G, !.group_map = map, !.idle = rest]
            EXCEPT !.generation = @ + 1]
  BY DEF Pools
<1> QED
  BY <1>1, <1>3, <1>4, <1>5 DEF NextGeneration

LEMMA CleanupNext ==
    ASSUME NEW p \in Pools, NEW q \in CleanupIdleSockets(NextGeneration(p), TRUE)
    PROVE  \E r \in CleanupIdleSockets(p, TRUE) : q = NextGeneration(r)
<1> DEFINE n == NextGeneration(p)
           K == {k \in [Groups -> UNION {{<<>>} : g \in Groups}] : \A g \in Groups : k[g] \in {<<>>}}
<1>1. n.idle = p.idle
  BY DEF NextGeneration, Pools
<1>2. \A x : CleanupIdleSockets(x, TRUE) = IF x.idle = 0 THEN {x} ELSE {Sweep(x, k) : k \in K}
  BY DEF CleanupIdleSockets
<1> HIDE DEF n, K
<1>3. q \in CleanupIdleSockets(n, TRUE)
  BY DEF n
<1>4. CASE p.idle = 0
  <2>1. q = n /\ p \in CleanupIdleSockets(p, TRUE)
    BY <1>1, <1>2, <1>3, <1>4
  <2> QED BY <2>1 DEF n
<1>5. CASE p.idle # 0
  <2>1. PICK k \in K : q = Sweep(n, k)
    BY <1>1, <1>2, <1>3, <1>5
  <2>2. Sweep(p, k) \in CleanupIdleSockets(p, TRUE)
    BY <1>2, <1>5
  <2>3. q = NextGeneration(Sweep(p, k))
    BY <2>1, SweepNext DEF n
  <2> QED BY <2>2, <2>3
<1> QED
  BY <1>4, <1>5

\* A pool without idle sockets and jobs may enter a new generation.
LEMMA NextGenerationGood ==
    ASSUME NEW p, Good(p), p.idle = 0, NoJobs(p), p.generation < MaxFlushes
    PROVE  Good(NextGeneration(p))
<1> DEFINE n == p.generation + 1
           q == NextGeneration(p)
<1>0. p \in Pools /\ ~p.failed /\ Core(p)
  BY DEF Good, Core
<1>1. n \in Generations
  <2>1. p.generation \in Nat /\ MaxFlushes \in Nat
    BY <1>0, PoolFields, PoolAssumption
  <2> QED BY <2>1 DEF Generations
<1>2. q = [p EXCEPT !.generation = n]
  BY DEF NextGeneration
<1> HIDE DEF n, q
<1>3. q \in Pools
  BY <1>0, <1>1, <1>2 DEF Pools
<1>4. /\ q.groups = p.groups /\ q.group_map = p.group_map /\ q.connecting = p.connecting
      /\ q.failed = p.failed /\ q.idle = p.idle
      /\ q.handed_out = p.handed_out /\ q.callbacks = p.callbacks /\ q.tasks = p.tasks
      /\ q.handles = p.handles
  BY <1>0, <1>2 DEF Pools
<1>5. ASSUME NEW g \in Groups PROVE GroupOK(q.groups[g], q.generation)
  <2> DEFINE gr == p.groups[g]
  <2>1. gr.idle_sockets = <<>> /\ gr.jobs = <<>>
    <3>1. ~(p.idle > 0)
      OBVIOUS
    <3> QED BY <1>0, <3>1, SomeIdle DEF NoJobs
  <2>2. Len(gr.idle_sockets) = 0 /\ Len(gr.jobs) = 0 /\ \A i \in 1 .. 0 : FALSE
    BY <2>1, EmptySeq
  <2>3. gr.unassigned_job_count <= Len(gr.jobs) /\ (gr.backup_job_timer => gr.jobs # <<>>)
    BY <1>0, Sizes DEF GroupOK
  <2>4. q.groups[g] = gr
    BY <1>4
  <2> HIDE DEF gr
  <2>5. /\ \A i \in 1 .. Len(gr.idle_sockets) : gr.idle_sockets[i] = q.generation
        /\ \A i \in 1 .. Len(gr.jobs) : gr.jobs[i] = q.generation
    BY <2>2
  <2> QED BY <2>3, <2>4, <2>5 DEF GroupOK
<1>6. GroupsInv(q)
  BY <1>0, <1>4, <1>5, Sizes DEF GroupsInv
<1>7. CountsInv(q)
  BY <1>0, <1>4 DEF Core, CountsInv, IdleOf, JobsOf
<1>8. HeldInv(q)
  <2>1. Holding(q) = Holding(p) /\ \A g \in Groups : Holders(q, g) = Holders(p, g)
    BY <1>4 DEF Holding, Holders
  <2> QED BY <1>0, <1>4, <2>1 DEF Core, HeldInv
<1>9. FreshInv(q)
  BY <1>0, <1>4 DEF Core, FreshInv
<1>10. LimitsInv(q)
  BY <1>0, <1>4 DEF Core, LimitsInv, Total
<1>11. Core(q)
  BY <1>0, <1>3, <1>4, <1>6, <1>7, <1>8, <1>9, <1>10 DEF Core
<1>12. ASSUME NEW k \in Handles PROVE LinkOf(q, k)
  <2>1. LinkOf(p, k)
    BY DEF Good
  <2> QED BY <1>4, <2>1 DEF LinkOf, Queued, Posted
<1>13. ASSUME NEW g \in Groups PROVE QueueOf(q, g)
  <2>1. QueueOf(p, g)
    BY DEF Good
  <2> QED BY <1>4, <2>1 DEF QueueOf, Queued
<1> QED
  BY <1>11, <1>12, <1>13 DEF Good, q

\* Nobody is queued, and a group that is in the map is there for a reason.
NoRequests(p) ==
    /\ \A g \in Groups : p.groups[g].pending_requests = <<>>
    /\ \A g \in p.group_map : p.groups[g] # NewGroup

\* Who is told that the pool is flushed: those that are queued.
LEMMA ToldFacts ==
    ASSUME NEW p, Good(p), NEW order \in SetToSeqs(Groups)
    PROVE  LET pending == FlattenSeq([k \in DOMAIN order |-> p.groups[order[k]].pending_requests])
               tasks == [k \in DOMAIN pending |-> CallbackTask(pending[k])] IN
           /\ tasks \in Seq(Tasks)
           /\ \A x : x \in Range(pending) <=> \E g \in Groups : Queued(p, g, x)
           /\ \A x \in Range(pending) : x \in Handles /\ Has(tasks, CallbackTask(x))
<1> DEFINE n == Cardinality(Groups)
           s == [k \in DOMAIN order |-> p.groups[order[k]].pending_requests]
           pending == FlattenSeq(s)
           tasks == [k \in DOMAIN pending |-> CallbackTask(pending[k])]
<1>1. n \in Nat /\ order \in [1 .. n -> Groups] /\ \A g \in Groups : \E k \in 1 .. n : order[k] = g
  BY PoolAssumption, OrderFacts
<1>2. \A g \in Groups : p.groups[g].pending_requests \in Seq(Handles)
  BY Sizes, GroupFields DEF Good
<1> HIDE DEF n
<1>3. s \in [1 .. n -> Seq(Handles)] /\ \A k \in 1 .. n : s[k] = p.groups[order[k]].pending_requests
  BY <1>1, <1>2
<1> HIDE DEF s
<1>4. /\ pending \in Seq(Handles)
      /\ \A x : Has(pending, x) <=> \E k \in 1 .. n : Has(s[k], x)
  BY <1>1, <1>3, FlattenFacts
<1> HIDE DEF pending
<1>5. ASSUME NEW x PROVE Has(pending, x) <=> \E g \in Groups : Queued(p, g, x)
  <2>1. ASSUME NEW k \in 1 .. n, Has(s[k], x) PROVE \E g \in Groups : Queued(p, g, x)
    <3>1. order[k] \in Groups /\ Queued(p, order[k], x)
      BY <1>1, <1>3, <2>1 DEF Queued
    <3> QED BY <3>1
  <2>2. ASSUME NEW g \in Groups, Queued(p, g, x) PROVE \E k \in 1 .. n : Has(s[k], x)
    <3>1. PICK k \in 1 .. n : order[k] = g
      BY <1>1
    <3>2. Has(s[k], x)
      BY <1>3, <2>2, <3>1 DEF Queued
    <3> QED BY <3>2
  <2> QED BY <1>4, <2>1, <2>2
<1>6. /\ DOMAIN pending = 1 .. Len(pending) /\ Len(pending) \in Nat
      /\ \A i \in 1 .. Len(pending) : pending[i] \in Handles
  BY <1>4, LenProperties, ElementOfSeq
<1>7. ASSUME NEW x PROVE x \in Range(pending) <=> Has(pending, x)
  BY <1>6 DEF Range, Has
<1>8. tasks \in [1 .. Len(pending) -> Tasks]
  BY <1>6 DEF Tasks
<1>9. tasks \in Seq(Tasks) /\ Len(tasks) = Len(pending)
  <2> HIDE DEF tasks
  <2> QED BY <1>6, <1>8, SeqDef
<1>10. ASSUME NEW x \in Range(pending) PROVE x \in Handles /\ Has(tasks, CallbackTask(x))
  <2>1. PICK i \in 1 .. Len(pending) : pending[i] = x
    BY <1>7 DEF Has
  <2>2. tasks[i] = CallbackTask(x) /\ x \in Handles
    BY <1>6, <2>1
  <2> HIDE DEF tasks
  <2> QED BY <1>9, <2>2 DEF Has
<1> QED
  BY <1>5, <1>7, <1>9, <1>10 DEF pending, s

LEMMA CancelAllRequestsGood ==
    ASSUME NEW p, Good(p), NEW order \in SetToSeqs(Groups)
    PROVE  LET q == CancelAllRequestsWithError(p, order) IN
           /\ Good(q) /\ q.handles = p.handles /\ q.idle = p.idle
           /\ NoJobs(p) => NoJobs(q)
           /\ NoRequests(q)
<1> DEFINE pending == FlattenSeq([k \in DOMAIN order |-> p.groups[order[k]].pending_requests])
           left == [g \in Groups |-> [p.groups[g] EXCEPT !.pending_requests = <<>>,
                                                         !.backup_job_timer = FALSE]]
           gone == {g \in p.group_map : IsEmpty(left[g])}
           told == Range(pending)
           more == [k \in DOMAIN pending |-> CallbackTask(pending[k])]
           c == \A h \in told : p.callbacks[h] = "none"
           C == [h \in Handles |-> IF h \in told THEN "ERR" ELSE p.callbacks[h]]
           T == p.tasks \o more
           map == p.group_map \ gone
           r == [p EXCEPT !.groups = left, !.callbacks = C, !.tasks = T]
           q == CancelAllRequestsWithError(p, order)
<1>0. /\ p \in Pools /\ ~p.failed /\ Core(p) /\ p.tasks \in Seq(Tasks)
      /\ p.group_map \in SUBSET Groups /\ p.groups \in [Groups -> SocketGroups]
      /\ p.callbacks \in [Handles -> {"none", "OK", "ERR", "ERR_WITH_SOCKET"}]
  BY PoolFields DEF Good, Core
<1>1. /\ more \in Seq(Tasks)
      /\ \A x : x \in told <=> \E g \in Groups : Queued(p, g, x)
      /\ \A x \in told : x \in Handles /\ Has(more, CallbackTask(x))
  BY ToldFacts
<1>2. q = [Check(p, c) EXCEPT
              !.groups = [g \in Groups |-> IF g \in gone THEN NewGroup ELSE left[g]],
              !.group_map = @ \ gone,
              !.callbacks = [h \in Handles |-> IF h \in told THEN "ERR" ELSE @[h]],
              !.tasks = @ \o more]
  BY DEF CancelAllRequestsWithError
<1> HIDE DEF told, more, pending
<1>3. ASSUME NEW g \in Groups
      PROVE  LET gr == left[g]
                 old == p.groups[g] IN
             /\ gr \in SocketGroups /\ gr.pending_requests = <<>>
             /\ SameSockets(old, gr)
  <2> DEFINE old == p.groups[g]
             gr == [old EXCEPT !.pending_requests = <<>>, !.backup_job_timer = FALSE]
  <2>1. left[g] = gr
    OBVIOUS
  <2>2. old \in SocketGroups /\ <<>> \in Seq(Handles) /\ FALSE \in BOOLEAN
    BY <1>0, EmptySeq
  <2>3. /\ gr \in SocketGroups /\ gr.pending_requests = <<>>
        /\ gr.idle_sockets = old.idle_sockets /\ gr.jobs = old.jobs
        /\ gr.unassigned_job_count = old.unassigned_job_count
        /\ gr.active_socket_count = old.active_socket_count
        /\ gr.backup_job_timer = FALSE
    <3> HIDE DEF old
    <3> QED BY <2>2 DEF SocketGroups
  <2> HIDE DEF old, gr
  <2>4. SameSockets(old, gr)
    BY <2>3 DEF SameSockets
  <2> QED BY <2>1, <2>3, <2>4 DEF old
<1>4. left \in [Groups -> SocketGroups] /\ left = [g \in Groups |-> left[g]]
  <2>1. left = [g \in Groups |-> left[g]]
    OBVIOUS
  <2> HIDE DEF left
  <2> QED BY <1>3, <2>1
<1>5. ASSUME NEW g \in Groups, p.groups[g] = NewGroup PROVE left[g] = NewGroup
  <2>1. left[g] = [p.groups[g] EXCEPT !.pending_requests = <<>>, !.backup_job_timer = FALSE]
    OBVIOUS
  <2>2. /\ NewGroup \in SocketGroups /\ NewGroup.pending_requests = <<>>
        /\ NewGroup.backup_job_timer = FALSE
    BY NewGroupFields
  <2>3. [NewGroup EXCEPT !.pending_requests = <<>>, !.backup_job_timer = FALSE] = NewGroup
    BY <2>2 DEF SocketGroups
  <2> HIDE DEF left
  <2> QED BY <1>5, <2>1, <2>3
<1> HIDE DEF left
<1>6. Check(p, c) = p
  <2>1. c
    BY <1>1 DEF Good, QueueOf
  <2>2. c \in BOOLEAN
    OBVIOUS
  <2> HIDE DEF c
  <2> QED BY <1>0, <2>1, <2>2, CheckHolds
<1>7. T \in Seq(Tasks) /\ \A x : Has(T, x) <=> Has(p.tasks, x) \/ Has(more, x)
  BY <1>0, <1>1, ConcatHas
<1>8. C \in [Handles -> {"none", "OK", "ERR", "ERR_WITH_SOCKET"}]
  BY <1>0
<1> HIDE DEF T, C
<1>9. r \in Pools
  BY <1>0, <1>4, <1>7, <1>8 DEF Pools
<1>10. /\ r.groups = left /\ r.group_map = p.group_map /\ r.idle = p.idle
       /\ r.connecting = p.connecting /\ r.handed_out = p.handed_out
       /\ r.generation = p.generation /\ r.callbacks = C /\ r.tasks = T
       /\ r.handles = p.handles /\ r.failed = p.failed
  BY <1>0 DEF Pools
<1> HIDE DEF r
<1>11. Core(r)
  <2>1. \A g \in Groups \ p.group_map : r.groups[g] = p.groups[g]
    BY <1>0, <1>5, <1>10, Sizes
  <2>2. Relabels(p, r)
    BY <1>3, <1>9, <1>10, <2>1 DEF Relabels
  <2> QED BY <1>0, <2>2, RelabelsCore
<1>12. ASSUME NEW g \in Groups PROVE IsEmpty(left[g]) <=> left[g] = NewGroup
  <2>1. left[g] \in SocketGroups /\ GroupOK(left[g], r.generation)
    BY <1>10, <1>11, Sizes
  <2> QED BY <2>1, EmptyIsNew, NewGroupFields
<1>13. q = [r EXCEPT !.group_map = map]
  <2>1. [g \in Groups |-> IF g \in gone THEN NewGroup ELSE left[g]] = left
    <3>1. \A g \in Groups : (IF g \in gone THEN NewGroup ELSE left[g]) = left[g]
      BY <1>12
    <3> HIDE DEF gone
    <3> QED BY <1>4, <3>1
  <2> HIDE DEF gone, q, c
  <2>2. q = [p EXCEPT !.groups = left, !.group_map = map, !.callbacks = C, !.tasks = T]
    BY <1>0, <1>2, <1>6, <2>1 DEF Pools, C, T
  <2> HIDE DEF map
  <2> QED BY <1>0, <2>2 DEF Pools, r
<1>14. map \in SUBSET Groups /\ \A g \in Groups : g \notin map => left[g] = NewGroup
  <2>1. ASSUME NEW g \in Groups, g \notin map PROVE left[g] = NewGroup
    <3>1. CASE g \in p.group_map
      BY <1>12, <2>1, <3>1
    <3>2. CASE g \notin p.group_map
      BY <1>0, <1>5, <3>2, Sizes
    <3> QED BY <3>1, <3>2
  <2> QED BY <1>0, <2>1
<1>15. \A g \in map : g \in Groups /\ left[g] # NewGroup
  BY <1>0, <1>12
<1> HIDE DEF map, q
<1>16. q \in Pools
  BY <1>9, <1>13, <1>14 DEF Pools
<1>17. /\ q.groups = left /\ q.group_map = map /\ q.idle = p.idle
       /\ q.connecting = p.connecting /\ q.handed_out = p.handed_out
       /\ q.generation = p.generation /\ q.callbacks = C /\ q.tasks = T
       /\ q.handles = p.handles /\ q.failed = p.failed
  BY <1>9, <1>10, <1>13 DEF Pools
<1>18. Core(q)
  <2>1. GroupsInv(q)
    BY <1>10, <1>11, <1>14, <1>17, Sizes DEF GroupsInv
  <2>2. CountsInv(q) /\ FreshInv(q) /\ LimitsInv(q)
    BY <1>10, <1>11, <1>17 DEF Core, CountsInv, IdleOf, JobsOf, FreshInv, LimitsInv, Total
  <2>3. HeldInv(q)
    <3>1. Holding(q) = Holding(r) /\ \A g \in Groups : Holders(q, g) = Holders(r, g)
      BY <1>10, <1>17 DEF Holding, Holders
    <3> QED BY <1>10, <1>11, <1>17, <3>1 DEF Core, HeldInv
  <2> QED BY <1>0, <1>16, <1>17, <2>1, <2>2, <2>3 DEF Core
<1>19. \A g \in Groups : \A x : ~Queued(q, g, x)
  BY <1>3, <1>17, EmptySeq DEF Queued, Has
<1>20. ASSUME NEW g \in Groups PROVE QueueOf(q, g)
  <2>1. Once(q.groups[g].pending_requests)
    BY <1>3, <1>17, EmptySeq DEF Once
  <2> QED BY <1>19, <2>1 DEF QueueOf
<1>21. \A x : Posted(p, x) => Posted(q, x)
  BY <1>7, <1>17 DEF Posted
<1>22. ASSUME NEW k \in Handles PROVE LinkOf(q, k)
  <2>1. LinkOf(p, k)
    BY DEF Good
  <2>2. CASE k \in told
    <3>1. PICK g \in Groups : Queued(p, g, k)
      BY <1>1, <2>2
    <3>2. p.handles[k].phase = "waiting" /\ p.handles[k].group = g
      BY <3>1 DEF Good, QueueOf
    <3>3. q.callbacks[k] = "ERR" /\ Posted(q, k)
      BY <1>1, <1>7, <1>17, <2>2 DEF Posted, C
    <3> QED BY <1>17, <3>2, <3>3 DEF LinkOf
  <2>3. CASE k \notin told
    <3>1. q.callbacks[k] = p.callbacks[k]
      BY <1>17, <2>3 DEF C
    <3>2. \A g \in Groups : ~Queued(p, g, k)
      BY <1>1, <2>3
    <3> QED BY <1>17, <1>21, <2>1, <3>1, <3>2 DEF LinkOf
  <2> QED BY <2>2, <2>3
<1>23. Good(q)
  BY <1>18, <1>20, <1>22 DEF Good
<1>24. NoJobs(p) => NoJobs(q)
  BY <1>3, <1>17 DEF NoJobs, SameSockets
<1>25. NoRequests(q)
  BY <1>3, <1>15, <1>17 DEF NoRequests
<1> QED
  BY <1>17, <1>23, <1>24, <1>25 DEF q

\* A flush leaves nothing idle, connecting or waiting.
LEMMA FlushedGood ==
    ASSUME NEW p, Good(p), p.generation < MaxFlushes, NEW q \in Flushed(p)
    PROVE  Good(q) /\ q.handles = p.handles /\ q.idle = 0 /\ NoJobs(q) /\ NoRequests(q)
<1> DEFINE a == CancelAllConnectJobs(p)
<1>0. Core(p) /\ p \in Pools /\ TRUE \in BOOLEAN
  BY DEF Good, Core
<1>1. Core(a) /\ Undisturbed(p, a, None) /\ a.handles = p.handles /\ NoJobs(a)
  BY <1>0, CancelAllConnectJobsCore
<1>2. PICK b \in CleanupIdleSockets(CancelAllConnectJobs(NextGeneration(p)), TRUE),
           order \in SetToSeqs(Groups) :
          q = CancelAllRequestsWithError(Check(b, b.idle = 0), order)
  <2> DEFINE m == CancelAllConnectJobs(NextGeneration(p))
             closed == {Check(x, x.idle = 0) : x \in CleanupIdleSockets(m, TRUE)}
  <2>1. Flushed(p) = {CancelAllRequestsWithError(x, o) : x \in closed, o \in SetToSeqs(Groups)}
    BY DEF Flushed, NextGeneration
  <2>2. PICK x \in closed, o \in SetToSeqs(Groups) : q = CancelAllRequestsWithError(x, o)
    <3> HIDE DEF closed
    <3> QED BY <2>1
  <2>3. PICK b \in CleanupIdleSockets(m, TRUE) : x = Check(b, b.idle = 0)
    OBVIOUS
  <2> QED BY <2>2, <2>3
<1>3. CancelAllConnectJobs(NextGeneration(p)) = NextGeneration(a)
  BY <1>0, CancelAllNext
<1> HIDE DEF a
<1>4. a \in Pools /\ b \in CleanupIdleSockets(NextGeneration(a), TRUE)
  BY <1>1, <1>2, <1>3 DEF Core
<1>5. PICK r \in CleanupIdleSockets(a, TRUE) : b = NextGeneration(r)
  BY <1>4, CleanupNext
<1>6. /\ Core(r) /\ Undisturbed(a, r, None) /\ r.handles = a.handles
      /\ r.connecting = a.connecting
      /\ \A g \in Groups : a.groups[g].jobs = <<>> => r.groups[g].jobs = <<>>
      /\ r.idle = 0
  BY <1>0, <1>1, <1>5, CleanupIdleSocketsCore
<1>7. Good(a)
  BY <1>1, UndisturbedNobody
<1>8. Good(r)
  BY <1>6, <1>7, UndisturbedNobody
<1>9. NoJobs(r)
  BY <1>1, <1>6 DEF NoJobs
<1>10. r.generation < MaxFlushes /\ r \in Pools
  BY <1>1, <1>6 DEF Undisturbed, Core
<1>11. Good(b)
  BY <1>5, <1>6, <1>8, <1>9, <1>10, NextGenerationGood
<1>12. b.idle = 0 /\ b.handles = r.handles /\ NoJobs(b)
  BY <1>5, <1>6, <1>9, <1>10 DEF NextGeneration, NoJobs, Pools
<1>13. Check(b, b.idle = 0) = b
  <2>1. b \in Pools /\ ~b.failed /\ (b.idle = 0) \in BOOLEAN
    BY <1>11 DEF Good, Core
  <2> QED BY <1>12, <2>1, CheckHolds
<1>14. q = CancelAllRequestsWithError(b, order)
  BY <1>2, <1>13
<1> QED
  BY <1>1, <1>6, <1>11, <1>12, <1>14, CancelAllRequestsGood

LEMMA FlushActionsGood ==
    ASSUME IInv, FlushWithError \/ Destroy
    PROVE  Good(pool')
<1>0. Good(pool) /\ pool.generation < MaxFlushes
  BY DEF IInv, FlushWithError, Destroy
<1>1. CASE FlushWithError
  BY <1>0, <1>1, FlushedGood DEF FlushWithError
<1>2. CASE Destroy
  <2> DEFINE Clean(p) == /\ p.group_map = {} /\ p.connecting = 0
                         /\ \A h \in Handles : p.callbacks[h] = "none"
  <2>1. PICK p \in Flushed(pool) : pool' = Check(p, Clean(p))
    BY <1>2 DEF Destroy
  <2>2. Good(p) /\ p.handles = pool.handles /\ p.idle = 0 /\ NoJobs(p) /\ NoRequests(p)
    BY <1>0, <2>1, FlushedGood
  <2>3. Core(p) /\ p \in Pools /\ ~p.failed /\ p.group_map \in SUBSET Groups
    BY <2>2, PoolFields DEF Good, Core
  <2>4. ASSUME NEW h \in Handles PROVE p.handles[h].phase = "free" /\ p.handles[h] = FreeHandle
    <3>1. p.handles[h].phase = "free"
      BY <1>2, <2>2 DEF Destroy
    <3> QED BY <2>2, <3>1 DEF Good, LinkOf
  <2>5. ASSUME NEW h \in Handles PROVE p.callbacks[h] = "none"
    BY <2>2, <2>4 DEF Good, LinkOf
  <2>6. ASSUME NEW g \in p.group_map PROVE FALSE
    <3> DEFINE gr == p.groups[g]
    <3>0. g \in Groups
      BY <2>3
    <3>1. gr.jobs = <<>> /\ gr.pending_requests = <<>> /\ gr # NewGroup
      BY <2>2, <3>0 DEF NoJobs, NoRequests
    <3>2. gr.idle_sockets = <<>>
      <4>1. ~(p.idle > 0)
        BY <2>2
      <4> QED BY <2>3, <3>0, <4>1, SomeIdle
    <3>3. Holders(p, g) = {}
      BY <2>4, FreeHandleFields DEF Holders
    <3>4. gr.active_socket_count = 0
      <4>1. gr.active_socket_count = Cardinality(Holders(p, g))
        BY <2>3, <3>0 DEF Core, HeldInv
      <4> QED BY <3>3, <4>1, FS_EmptySet
    <3>5. gr \in SocketGroups /\ GroupOK(gr, p.generation)
      BY <2>3, <3>0, Sizes
    <3>6. IsEmpty(gr)
      BY <3>1, <3>2, <3>4 DEF IsEmpty
    <3> HIDE DEF gr
    <3> QED BY <3>1, <3>5, <3>6, EmptyIsNew
  <2>7. Clean(p)
    BY <2>2, <2>5, <2>6 DEF NoJobs
  <2>8. Clean(p) \in BOOLEAN
    OBVIOUS
  <2> HIDE DEF Clean
  <2>9. Check(p, Clean(p)) = p
    BY <2>3, <2>7, <2>8, CheckHolds
  <2> QED BY <2>1, <2>2, <2>9
<1> QED
  BY <1>1, <1>2

-----------------------------------------------------------------------------
(* Theorems *)

LEMMA InitIInv == Init => IInv
<1> SUFFICES ASSUME Init PROVE IInv
  OBVIOUS
<1> DEFINE n == [g \in Groups |-> NewGroup]
           C == [h \in Handles |-> "none"]
           F == [h \in Handles |-> FreeHandle]
<1>1. pool = [groups |-> n, group_map |-> {},
              idle |-> 0, connecting |-> 0, handed_out |-> 0, generation |-> 0,
              callbacks |-> C, tasks |-> <<>>, handles |-> F, failed |-> FALSE]
  BY DEF Init
<1>2. /\ n \in [Groups -> SocketGroups] /\ {} \in SUBSET Groups /\ 0 \in Nat
      /\ 0 \in Generations /\ <<>> \in Seq(Tasks) /\ FALSE \in BOOLEAN
      /\ C \in [Handles -> {"none", "OK", "ERR", "ERR_WITH_SOCKET"}]
      /\ F \in [Handles -> HandleStates]
  BY PoolAssumption, NewGroupFields, FreeHandleFields, EmptySeq DEF Generations
<1> HIDE DEF n, C, F
<1>3. pool \in Pools
  BY <1>1, <1>2 DEF Pools
<1>4. /\ pool.groups = n /\ pool.group_map = {} /\ pool.idle = 0 /\ pool.connecting = 0
      /\ pool.handed_out = 0 /\ pool.generation = 0 /\ pool.callbacks = C /\ pool.tasks = <<>>
      /\ pool.handles = F /\ ~pool.failed
  BY <1>1
<1>5. ASSUME NEW g \in Groups PROVE pool.groups[g] = NewGroup
  BY <1>4 DEF n
<1>6. ASSUME NEW h \in Handles
      PROVE  /\ pool.handles[h] = FreeHandle /\ pool.handles[h].socket = NoSocket
             /\ pool.handles[h].phase = "free" /\ pool.callbacks[h] = "none"
  BY <1>4, FreeHandleFields DEF C, F
<1>7. GroupOK(NewGroup, 0) /\ Len(NewGroup.jobs) = 0 /\ Len(NewGroup.idle_sockets) = 0
      /\ NumActiveSocketSlots(NewGroup) = 0
  <2>1. Len(NewGroup.jobs) = 0 /\ Len(NewGroup.idle_sockets) = 0 /\ NewGroup.active_socket_count = 0
    BY NewGroupFields, EmptySeq
  <2>2. \A i \in 1 .. 0 : FALSE
    OBVIOUS
  <2>3. NewGroup.unassigned_job_count = 0 /\ NewGroup.backup_job_timer = FALSE
    BY NewGroupFields
  <2>4. GroupOK(NewGroup, 0)
    BY <2>1, <2>2, <2>3 DEF GroupOK
  <2> QED BY <2>1, <2>4 DEF NumActiveSocketSlots
<1>8. GroupsInv(pool)
  BY <1>4, <1>5, <1>7 DEF GroupsInv
<1>9. CountsInv(pool)
  <2>1. /\ IdleOf(pool) \in [Groups -> Nat] /\ \A g \in Groups : IdleOf(pool)[g] = 0
        /\ JobsOf(pool) \in [Groups -> Nat] /\ \A g \in Groups : JobsOf(pool)[g] = 0
    BY <1>5, <1>7 DEF IdleOf, JobsOf
  <2>2. SumFunction(IdleOf(pool)) = 0 /\ SumFunction(JobsOf(pool)) = 0
    BY <2>1, PoolAssumption, SumPositive
  <2> QED BY <1>4, <2>2 DEF CountsInv
<1>10. HeldInv(pool)
  <2>1. Holding(pool) = {} /\ \A g \in Groups : Holders(pool, g) = {}
    BY <1>6 DEF Holding, Holders
  <2>2. \A g \in Groups : pool.groups[g].active_socket_count = 0
    BY <1>5, NewGroupFields
  <2> QED BY <1>4, <2>1, <2>2, FS_EmptySet DEF HeldInv
<1>11. FreshInv(pool)
  BY <1>6 DEF FreshInv
<1>12. LimitsInv(pool)
  <2>1. Total(pool) = 0 /\ \A g \in Groups : NumActiveSocketSlots(pool.groups[g]) = 0
    BY <1>4, <1>5, <1>7 DEF Total
  <2>2. MaxSockets \in Nat /\ MaxSocketsPerGroup \in Nat
    BY PoolAssumption
  <2> QED BY <2>1, <2>2 DEF LimitsInv
<1>13. Core(pool)
  BY <1>3, <1>4, <1>8, <1>9, <1>10, <1>11, <1>12 DEF Core
<1>14. ASSUME NEW h \in Handles PROVE LinkOf(pool, h)
  BY <1>6 DEF LinkOf
<1>15. ASSUME NEW g \in Groups PROVE QueueOf(pool, g)
  <2>1. Len(pool.groups[g].pending_requests) = 0 /\ \A i \in 1 .. 0 : FALSE
    BY <1>5, NewGroupFields, EmptySeq
  <2>2. \A k : ~Queued(pool, g, k)
    BY <2>1 DEF Queued, Has
  <2>3. Once(pool.groups[g].pending_requests)
    BY <2>1 DEF Once
  <2> QED BY <2>2, <2>3 DEF QueueOf
<1>16. requests \in 0 .. load.requests /\ alive \in BOOLEAN /\ load \in Loads
  <2>1. load.requests \in Nat /\ requests = 0 /\ alive = TRUE /\ load \in Loads
    BY PoolAssumption DEF Init, Load
  <2> QED BY <2>1
<1> QED
  BY <1>13, <1>14, <1>15, <1>16 DEF IInv, Good

\* Whatever happens, what holds between two calls holds after it.
LEMMA NextGood ==
    ASSUME IInv, Next
    PROVE  Good(pool')
<1>1. ASSUME NEW h \in Handles, NEW g \in Groups, RequestSocket(h, g) PROVE Good(pool')
  BY <1>1, RequestSocketGood
<1>2. ASSUME NEW g \in Groups, NEW n \in 1 .. MaxSocketsPerGroup + 1, RequestSockets(g, n)
      PROVE  Good(pool')
  BY <1>2, RequestSocketsGood
<1>3. ASSUME NEW h \in Handles, NEW connected \in BOOLEAN, Release(h, connected) PROVE Good(pool')
  BY <1>3, ClientActionsGood
<1>4. ASSUME NEW h \in Handles, CancelRequest(h) \/ Park(h) \/ Unpark(h) PROVE Good(pool')
  BY <1>4, ClientActionsGood
<1>5. ASSUME NEW g \in Groups, ConnectJobComplete(g) PROVE Good(pool')
  BY <1>5, ConnectJobCompleteGood
<1>6. ASSUME NEW g \in Groups, OnBackupJobTimerFired(g) PROVE Good(pool')
  BY <1>6, OnBackupJobTimerFiredGood
<1>7. ASSUME OnCleanupTimerFired \/ CloseIdleSockets \/ CloseOneIdleConnection PROVE Good(pool')
  BY <1>7, IdleActionsGood
<1>8. ASSUME RunTask PROVE Good(pool')
  BY <1>8, RunTaskGood
<1>9. ASSUME FlushWithError \/ Destroy PROVE Good(pool')
  BY <1>9, FlushActionsGood
<1> QED
  BY <1>1, <1>2, <1>3, <1>4, <1>5, <1>6, <1>7, <1>8, <1>9 DEF Next

\* load never changes, so what refers to it means the same in the next state.
LEMMA LoadStays ==
    ASSUME load' = load
    PROVE  Good(pool)' <=> Good(pool')
<1>1. IgnoreLimits' = IgnoreLimits
  BY DEF IgnoreLimits
<1>2. LimitsInv(pool)' <=> LimitsInv(pool')
  BY <1>1 DEF LimitsInv, Total, NumActiveSocketSlots
<1>3. Core(pool)' <=> Core(pool')
  BY <1>2 DEF Core, GroupsInv, CountsInv, HeldInv, FreshInv
<1> QED
  BY <1>3 DEF Good

LEMMA Counted ==
    ASSUME IInv, Next
    PROVE  requests' \in 0 .. load'.requests /\ alive' \in BOOLEAN /\ load' = load
<1>0. load.requests \in Nat /\ requests \in 0 .. load.requests /\ alive \in BOOLEAN
  BY PoolAssumption DEF IInv, Load
<1>1. CASE CanRequest
  BY <1>0, <1>1 DEF CanRequest
<1>2. CASE UNCHANGED <<requests, alive, load>>
  BY <1>0, <1>2
<1>3. CASE Destroy
  BY <1>0, <1>3 DEF Destroy
<1>4. CanRequest \/ UNCHANGED <<requests, alive, load>> \/ Destroy
  BY DEF Next, RequestSocket, RequestSockets, Release, CancelRequest, Park, Unpark,
         ConnectJobComplete, OnBackupJobTimerFired, OnCleanupTimerFired, CloseIdleSockets,
         CloseOneIdleConnection, RunTask, FlushWithError
<1> QED
  BY <1>1, <1>2, <1>3, <1>4

LEMMA NextIInv == IInv /\ [Next]_vars => IInv'
<1> SUFFICES ASSUME IInv, [Next]_vars PROVE IInv'
  OBVIOUS
<1>1. CASE Next
  <2>1. Good(pool')
    BY <1>1, NextGood
  <2>2. requests' \in 0 .. load'.requests /\ alive' \in BOOLEAN /\ load' = load
    BY <1>1, Counted
  <2>3. Good(pool)'
    BY <2>1, <2>2, LoadStays
  <2>4. load' \in Loads
    BY <2>2 DEF IInv
  <2> QED BY <2>2, <2>3, <2>4 DEF IInv
<1>2. CASE UNCHANGED vars
  <2>1. pool' = pool /\ requests' = requests /\ alive' = alive /\ load' = load
    BY <1>2 DEF vars
  <2>2. Good(pool)'
    <3>1. Good(pool')
      BY <2>1 DEF IInv
    <3> QED BY <2>1, <3>1, LoadStays
  <2> QED BY <2>1, <2>2 DEF IInv
<1> QED
  BY <1>1, <1>2

\* The inductive invariant holds of every behaviour of the pool.
THEOREM SpecIInv == Spec => []IInv
BY InitIInv, NextIInv, PTL DEF Spec

\* How often x is in a sequence in which everything is once.
LEMMA OnceCount ==
    ASSUME NEW S, NEW s \in Seq(S), Once(s), NEW x
    PROVE  LET n == Cardinality({i \in DOMAIN s : s[i] = x}) IN
           n = (IF Has(s, x) THEN 1 ELSE 0)
<1> DEFINE I == {i \in DOMAIN s : s[i] = x}
<1>1. DOMAIN s = 1 .. Len(s)
  BY LenProperties
<1>2. CASE Has(s, x)
  <2>1. PICK i \in 1 .. Len(s) : s[i] = x
    BY <1>2 DEF Has
  <2>2. I = {i}
    BY <1>1, <2>1 DEF Once
  <2> QED BY <1>2, <2>2, FS_Singleton
<1>3. CASE ~Has(s, x)
  <2>1. I = {}
    BY <1>1, <1>3 DEF Has
  <2> QED BY <1>3, <2>1, FS_EmptySet
<1> QED
  BY <1>2, <1>3

LEMMA IInvImplies ==
    ASSUME IInv
    PROVE  TypeOK /\ AssertionsHold /\ SocketsAccounted /\ NothingStaleReused /\ WaitersAccounted
<1>0. Good(pool) /\ Core(pool) /\ pool \in Pools /\ ~pool.failed
  BY DEF IInv, Good, Core
<1>1. TypeOK
  BY <1>0 DEF IInv, TypeOK
<1>2. AssertionsHold
  BY <1>0 DEF AssertionsHold
<1>3. CountersAgree
  <2>1. \A g \in Groups \ pool.group_map : pool.groups[g] = NewGroup
    BY <1>0, Sizes
  <2>2. /\ pool.idle = SumFunction(IdleOf(pool)) /\ pool.connecting = SumFunction(JobsOf(pool))
        /\ HeldInv(pool)
    BY <1>0 DEF Core, CountsInv
  <2> QED BY <2>1, <2>2 DEF CountersAgree, HeldInv, Holders, Holding, IdleOf, JobsOf
<1>4. WithinLimits
  <2>1. /\ pool.idle \in Nat /\ pool.connecting \in Nat /\ pool.handed_out \in Nat
        /\ MaxSockets \in Nat /\ LimitsInv(pool)
    BY <1>0, PoolFields, PoolAssumption DEF Core
  <2>2. Total(pool) = pool.idle + pool.connecting + pool.handed_out
    BY <2>1 DEF Total
  <2> QED BY <2>1, <2>2 DEF WithinLimits, LimitsInv
<1>5. NothingStaleReused
  <2>1. ASSUME NEW g \in Groups
        PROVE  Range(pool.groups[g].idle_sockets) \cup Range(pool.groups[g].jobs)
                  \subseteq {pool.generation}
    <3> DEFINE s == pool.groups[g].idle_sockets
               j == pool.groups[g].jobs
    <3>1. s \in Seq(Generations) /\ j \in Seq(Generations)
      BY <1>0, Sizes, GroupFields
    <3>2. DOMAIN s = 1 .. Len(s) /\ DOMAIN j = 1 .. Len(j)
      BY <3>1, LenProperties
    <3>3. /\ \A i \in 1 .. Len(s) : s[i] = pool.generation
          /\ \A i \in 1 .. Len(j) : j[i] = pool.generation
      BY <1>0, Sizes DEF GroupOK
    <3> HIDE DEF s, j
    <3>4. Range(s) \cup Range(j) \subseteq {pool.generation}
      BY <3>2, <3>3 DEF Range
    <3> QED BY <3>4 DEF s, j
  <2>2. \A h \in Handles : pool.handles[h].socket # NoSocket =>
            pool.handles[h].socket = pool.handles[h].pool_id
    BY <1>0 DEF Core, FreshInv
  <2> QED BY <2>1, <2>2 DEF NothingStaleReused
<1>6. WaitersAccounted
  <2> DEFINE Times(g, h) == Cardinality({i \in DOMAIN pool.groups[g].pending_requests :
                                           pool.groups[g].pending_requests[i] = h})
             group(h) == pool.handles[h].group
             called(h) == pool.callbacks[h] # "none"
  <2>1. ASSUME NEW g \in Groups, NEW h
        PROVE  Times(g, h) = (IF Queued(pool, g, h) THEN 1 ELSE 0)
    <3>1. /\ pool.groups[g].pending_requests \in Seq(Handles)
          /\ Once(pool.groups[g].pending_requests)
      BY <1>0, Sizes, GroupFields DEF Good, QueueOf
    <3> QED BY <3>1, OnceCount DEF Queued
  <2>2. ASSUME NEW h PROVE Posted(pool, h) => CallbackTask(h) \in Range(pool.tasks)
    <3>1. DOMAIN pool.tasks = 1 .. Len(pool.tasks)
      BY <1>0, PoolFields, LenProperties
    <3> QED BY <3>1 DEF Posted, Has, Range
  <2>3. ASSUME NEW h \in Handles
        PROVE  /\ pool.handles[h].phase = "waiting" =>
                     Times(group(h), h) = (IF called(h) THEN 0 ELSE 1)
               /\ pool.handles[h].phase # "waiting" => ~called(h)
               /\ called(h) => CallbackTask(h) \in Range(pool.tasks)
               /\ \A g \in Groups : Times(g, h) > 0 => g = group(h) /\ ~called(h)
    <3> HIDE DEF Times
    <3>1. LinkOf(pool, h) /\ \A g \in Groups : QueueOf(pool, g)
      BY <1>0 DEF Good
    <3>2. pool.handles[h].phase # "waiting" => ~called(h)
      BY <3>1 DEF LinkOf
    <3>3. called(h) => CallbackTask(h) \in Range(pool.tasks)
      BY <2>2, <3>1 DEF LinkOf
    <3>4. ASSUME NEW g \in Groups, Queued(pool, g, h) PROVE g = group(h) /\ ~called(h)
      BY <3>1, <3>4 DEF QueueOf
    <3>5. ASSUME NEW g \in Groups, Times(g, h) > 0 PROVE Queued(pool, g, h)
      BY <2>1, <3>5
    <3>6. ASSUME pool.handles[h].phase = "waiting"
          PROVE  Times(group(h), h) = (IF called(h) THEN 0 ELSE 1)
      <4>1. group(h) \in Groups /\ (~called(h) => Queued(pool, group(h), h))
        BY <3>1, <3>6 DEF LinkOf
      <4>2. called(h) => ~Queued(pool, group(h), h)
        BY <3>4, <4>1
      <4> HIDE DEF called, group
      <4> QED BY <2>1, <4>1, <4>2
    <3> QED BY <3>2, <3>3, <3>4, <3>5, <3>6
  <2> QED BY <2>3 DEF WaitersAccounted
<1> QED
  BY <1>1, <1>2, <1>3, <1>4, <1>5, <1>6 DEF SocketsAccounted

\* The pool, its groups, its handles and its posted tasks keep their shape.
THEOREM TypeCorrect == Spec => []TypeOK
<1>1. IInv => TypeOK
  BY IInvImplies
<1> QED
  BY <1>1, SpecIInv, PTL

\* No CHECK, DCHECK or NOTREACHED that the model has fails, in whatever order the pool's
\* clients, connect jobs, timers, posted tasks and flushes come, and with whatever a
\* connection ends.
THEOREM PoolAssertionsHold == Spec => []AssertionsHold
<1>1. IInv => AssertionsHold
  BY IInvImplies
<1> QED
  BY <1>1, SpecIInv, PTL

\* The counters by which the limits are decided agree with the groups and with the handles
\* that hold a socket, and without requests that ignore them the limits of the pool and of
\* every group hold.
THEOREM SocketsAreAccounted == Spec => []SocketsAccounted
<1>1. IInv => SocketsAccounted
  BY IInvImplies
<1> QED
  BY <1>1, SpecIInv, PTL

\* After a flush no socket or connect job of an earlier generation is left in the pool, and
\* a socket that is held goes back with the generation it was connected in.
THEOREM NothingStaleIsReused == Spec => []NothingStaleReused
<1>1. IInv => NothingStaleReused
  BY IInvImplies
<1> QED
  BY <1>1, SpecIInv, PTL

\* A client that waits is queued once, in the group it asked for, or its callback is posted,
\* and nobody else is queued or called back.
THEOREM WaitersAreAccounted == Spec => []WaitersAccounted
<1>1. IInv => WaitersAccounted
  BY IInvImplies
<1> QED
  BY <1>1, SpecIInv, PTL

-----------------------------------------------------------------------------
(* Stalled groups *)

\* What follows proves StalledPoolRelieved.  Between two events a group is stuck only while the
\* pool is packed (Steady).  A slot that becomes free finds either no stuck group besides its
\* own (Alone), or a pool with that one slot to give (Brim); the group it is offered to, or the
\* one that is woken, uses it, and the pool is steady again.

\* What decides whether a group is stalled: its numbers of sockets, jobs and requests.
Active(p, g) == p.groups[g].active_socket_count
Jobs(p, g) == Len(p.groups[g].jobs)
Idle(p, g) == Len(p.groups[g].idle_sockets)
Unassigned(p, g) == p.groups[g].unassigned_job_count
Requests(p, g) == Len(p.groups[g].pending_requests)

Wants(p, g) == Requests(p, g) > Jobs(p, g)
Stuck(p, g) == Wants(p, g) /\ Active(p, g) + Jobs(p, g) + Idle(p, g) < MaxSocketsPerGroup

\* Jobs for nobody are more than the requests need, and no request waits beside an idle socket.
Covered(p, g) == Unassigned(p, g) = 0 \/ Unassigned(p, g) + Requests(p, g) <= Jobs(p, g)
Calm(p, g) == Covered(p, g) /\ (Wants(p, g) => Idle(p, g) = 0)

Packed(p) == p.idle = 0 /\ p.handed_out + p.connecting >= MaxSockets
Quiet(p) == \A g \in Groups : ~Stuck(p, g)

\* A group is stalled only while the pool has no slot and no idle socket left.
Calms(p) == \A g \in Groups : Calm(p, g)
Steady(p) == Calms(p) /\ (Packed(p) \/ Quiet(p))

LEMMA Numbers ==
    ASSUME NEW p, Core(p)
    PROVE  /\ p.idle \in Nat /\ p.connecting \in Nat /\ p.handed_out \in Nat
           /\ MaxSockets \in Nat /\ MaxSocketsPerGroup \in Nat
           /\ \A g \in Groups :
                 /\ Active(p, g) \in Nat /\ Jobs(p, g) \in Nat /\ Idle(p, g) \in Nat
                 /\ Unassigned(p, g) \in Nat /\ Requests(p, g) \in Nat
                 /\ Unassigned(p, g) <= Jobs(p, g) /\ Idle(p, g) <= p.idle
           /\ IgnoreLimits = {} => p.handed_out + p.connecting + p.idle <= MaxSockets
<1>1. /\ p.idle \in Nat /\ p.connecting \in Nat /\ p.handed_out \in Nat
      /\ MaxSockets \in Nat /\ MaxSocketsPerGroup \in Nat
  BY PoolFields, PoolAssumption, Sizes
<1>2. ASSUME NEW g \in Groups
      PROVE  /\ Active(p, g) \in Nat /\ Jobs(p, g) \in Nat /\ Idle(p, g) \in Nat
             /\ Unassigned(p, g) \in Nat /\ Requests(p, g) \in Nat
             /\ Unassigned(p, g) <= Jobs(p, g) /\ Idle(p, g) <= p.idle
  <2>1. p.groups[g] \in SocketGroups /\ GroupOK(p.groups[g], p.generation)
        /\ Len(p.groups[g].idle_sockets) <= p.idle
    BY Sizes
  <2> QED BY <2>1, GroupFields DEF Active, Jobs, Idle, Unassigned, Requests, GroupOK
<1>3. IgnoreLimits = {} => p.handed_out + p.connecting + p.idle <= MaxSockets
  BY DEF Core, LimitsInv, Total
<1> QED
  BY <1>1, <1>2, <1>3

LEMMA StuckIsStalled ==
    ASSUME NEW p, Core(p)
    PROVE  /\ \A g \in Groups : Stuck(p, g) <=> g \in StalledGroups(p)
           /\ \A g \in Groups : Stuck(p, g) <=> IsStalledOnPoolMaxSockets(p.groups[g])
           /\ \A g \in Groups : Stuck(p, g) => g \in p.group_map
           /\ StalledGroups(p) \subseteq Groups
           /\ ReachedMaxSocketsLimit(p) <=> p.handed_out + p.connecting + p.idle >= MaxSockets
<1>1. ASSUME NEW g \in Groups
      PROVE  /\ Stuck(p, g) <=> g \in StalledGroups(p)
             /\ Stuck(p, g) <=> IsStalledOnPoolMaxSockets(p.groups[g])
             /\ Stuck(p, g) => g \in p.group_map
  <2>1. Stuck(p, g) <=> IsStalledOnPoolMaxSockets(p.groups[g])
    BY DEF Stuck, Wants, Active, Jobs, Idle, Requests, IsStalledOnPoolMaxSockets,
           HasAvailableSocketSlot, NumActiveSocketSlots
  <2>2. Stuck(p, g) => p.groups[g].pending_requests # <<>>
    <3>1. Stuck(p, g) => Requests(p, g) > Jobs(p, g) /\ Jobs(p, g) \in Nat /\ Requests(p, g) \in Nat
      BY Numbers DEF Stuck, Wants
    <3>2. p.groups[g].pending_requests = <<>> => Requests(p, g) = 0
      BY EmptySeq DEF Requests
    <3> QED BY <3>1, <3>2
  <2>3. Stuck(p, g) => g \in p.group_map
    BY <2>2, WaitingGroup
  <2> QED BY <2>1, <2>2, <2>3 DEF StalledGroups
<1>2. StalledGroups(p) \subseteq Groups
  BY PoolFields DEF StalledGroups, Core
<1> QED
  BY <1>1, <1>2 DEF ReachedMaxSocketsLimit

\* Group g has a sockets handed out, j jobs, u jobs for nobody and w requests more than
\* before; idle sockets are only taken, those of g for it.
Spends(p, q, g, a, j, u, w) ==
    /\ \A k \in Groups \ {g} :
          /\ Active(q, k) = Active(p, k) /\ Jobs(q, k) = Jobs(p, k)
          /\ Unassigned(q, k) = Unassigned(p, k) /\ Requests(q, k) = Requests(p, k)
          /\ Idle(q, k) <= Idle(p, k)
    /\ Active(q, g) = Active(p, g) + a /\ Jobs(q, g) = Jobs(p, g) + j
    /\ Unassigned(q, g) = Unassigned(p, g) + u /\ Requests(q, g) = Requests(p, g) + w
    /\ Idle(q, g) <= Idle(p, g)
    /\ q.handed_out = p.handed_out + a /\ q.connecting = p.connecting + j
    /\ q.idle + Idle(p, g) <= p.idle + Idle(q, g)

LEMMA MovesSpends ==
    ASSUME NEW p, NEW q, Core(p), Core(q), NEW g \in Groups, NEW a \in Int, NEW j \in Int, NEW i \in Int,
           NEW u \in Int, i <= 0, Moves(p, q, g, a, j, i, u),
           \A k \in Groups : Requests(q, k) = Requests(p, k)
    PROVE  Spends(p, q, g, a, j, u, 0)
<1>1. /\ \A k \in Groups \ {g} : q.groups[k] = p.groups[k]
      /\ Active(q, g) = Active(p, g) + a /\ Jobs(q, g) = Jobs(p, g) + j
      /\ Idle(q, g) = Idle(p, g) + i /\ Unassigned(q, g) = Unassigned(p, g) + u
      /\ q.handed_out = p.handed_out + a /\ q.connecting = p.connecting + j /\ q.idle = p.idle + i
  BY Zenon DEF Moves, Active, Jobs, Idle, Unassigned
<1>2. \A k \in Groups \ {g} :
          /\ Active(q, k) = Active(p, k) /\ Jobs(q, k) = Jobs(p, k)
          /\ Unassigned(q, k) = Unassigned(p, k) /\ Idle(q, k) = Idle(p, k)
  BY <1>1 DEF Active, Jobs, Idle, Unassigned
<1>3. /\ Idle(p, g) \in Nat /\ p.idle \in Nat /\ Requests(p, g) \in Nat
      /\ \A k \in Groups : Idle(p, k) \in Nat
  BY Numbers
<1> QED
  BY <1>1, <1>2, <1>3 DEF Spends

\* An idle socket of another group makes way.
LEMMA ClosedSpends ==
    ASSUME NEW p, NEW q, Core(p), Core(q), NEW g \in Groups, NEW k \in Groups \ {g},
           Moves(p, q, k, 0, 0, -1, 0),
           \A f \in Groups : Requests(q, f) = Requests(p, f)
    PROVE  Spends(p, q, g, 0, 0, 0, 0)
<1> DEFINE m == -1
<1>0. m \in Int /\ m <= 0 /\ 0 \in Int
  OBVIOUS
<1>1. Moves(p, q, k, 0, 0, m, 0)
  OBVIOUS
<1> HIDE DEF m
<1>2. Spends(p, q, k, 0, 0, 0, 0)
  BY <1>0, <1>1, MovesSpends
<1>3. Idle(q, g) = Idle(p, g)
  BY <1>1 DEF Moves, Idle
<1>4. \A f \in Groups : /\ Active(p, f) \in Nat /\ Jobs(p, f) \in Nat /\ Idle(p, f) \in Nat
                         /\ Unassigned(p, f) \in Nat /\ Requests(p, f) \in Nat
                         /\ Idle(q, f) \in Nat
  BY Numbers
<1>5. p.idle \in Nat /\ q.idle \in Nat /\ p.handed_out \in Nat /\ p.connecting \in Nat
  BY Numbers
<1> QED
  BY <1>2, <1>3, <1>4, <1>5 DEF Spends

LEMMA SpendsTrans ==
    ASSUME NEW p, NEW q, NEW r, Core(p), Core(q), Core(r), NEW g \in Groups,
           NEW a \in Int, NEW j \in Int, NEW u \in Int, NEW w \in Int,
           NEW b \in Int, NEW k \in Int, NEW v \in Int, NEW x \in Int,
           Spends(p, q, g, a, j, u, w), Spends(q, r, g, b, k, v, x)
    PROVE  Spends(p, r, g, a + b, j + k, u + v, w + x)
<1>1. \A f \in Groups : /\ Active(p, f) \in Nat /\ Jobs(p, f) \in Nat /\ Idle(p, f) \in Nat
                         /\ Unassigned(p, f) \in Nat /\ Requests(p, f) \in Nat
                         /\ Idle(q, f) \in Nat /\ Idle(r, f) \in Nat
  BY Numbers
<1>2. /\ p.idle \in Nat /\ q.idle \in Nat /\ r.idle \in Nat
      /\ p.handed_out \in Nat /\ p.connecting \in Nat
  BY Numbers
<1>3. ASSUME NEW f \in Groups \ {g}
      PROVE  /\ Active(r, f) = Active(p, f) /\ Jobs(r, f) = Jobs(p, f)
             /\ Unassigned(r, f) = Unassigned(p, f) /\ Requests(r, f) = Requests(p, f)
             /\ Idle(r, f) <= Idle(p, f)
  BY <1>1 DEF Spends
<1>4. /\ Active(r, g) = Active(p, g) + (a + b) /\ Jobs(r, g) = Jobs(p, g) + (j + k)
      /\ Unassigned(r, g) = Unassigned(p, g) + (u + v) /\ Requests(r, g) = Requests(p, g) + (w + x)
      /\ Idle(r, g) <= Idle(p, g)
  BY <1>1 DEF Spends
<1>5. /\ r.handed_out = p.handed_out + (a + b) /\ r.connecting = p.connecting + (j + k)
      /\ r.idle + Idle(p, g) <= p.idle + Idle(r, g)
  BY <1>1, <1>2 DEF Spends
<1> QED
  BY <1>3, <1>4, <1>5 DEF Spends

LEMMA SameRequests ==
    ASSUME NEW p, NEW q, NEW h, Undisturbed(p, q, h)
    PROVE  \A k \in Groups : Requests(q, k) = Requests(p, k)
BY DEF Undisturbed, Requests

\* What becomes of a request of a handle: it gets a socket; or it takes over a job, starts one,
\* or finds no slot.
Queues(p, q, g) ==
    \/ Unassigned(p, g) > 0 /\ Spends(p, q, g, 0, 0, -1, 0)
    \/ Unassigned(p, g) = 0 /\ Spends(p, q, g, 0, 1, 0, 0)
    \/ /\ Unassigned(p, g) = 0 /\ Spends(p, q, g, 0, 0, 0, 0)
       /\ Active(q, g) + Jobs(q, g) >= MaxSocketsPerGroup \/ Packed(q)

Asked(p, o, g) ==
    /\ o.rv \in {"OK", "ERR_IO_PENDING"}
    /\ o.rv = "OK" => /\ Spends(p, o.pool, g, 1, 0, 0, 0)
                      /\ Idle(o.pool, g) < Idle(p, g) \/ Idle(o.pool, g) = 0
    /\ o.rv = "ERR_IO_PENDING" => Idle(o.pool, g) = 0 /\ Queues(p, o.pool, g)

LEMMA ClearedSpends ==
    ASSUME NEW p, NEW q, NEW g \in Groups, NEW h, Core(p), Cleared(p, q, g, h)
    PROVE  Core(q) /\ Spends(p, q, g, 0, 0, 0, 0)
<1>1. Core(q) /\ \A k \in Groups : Requests(q, k) = Requests(p, k)
  BY SameRequests DEF Cleared
<1>2. CASE q = p
  BY <1>2, Numbers DEF Spends
<1>3. CASE \E k \in Groups \ {g} : Moves(p, q, k, 0, 0, -1, 0)
  BY <1>1, <1>3, ClosedSpends
<1> QED
  BY <1>1, <1>2, <1>3 DEF Cleared

LEMMA AllocateAsked ==
    ASSUME NEW p, Core(p), load \in Loads, SlotsAreUsed, NEW g \in p.group_map, NEW h \in Handles,
           Asks(p, g, h), p.groups[g].idle_sockets = <<>>, NEW o \in AllocateSocket(p, g, h)
    PROVE  Asked(p, o, g)
<1> DEFINE q == o.pool
<1>0. g \in Groups /\ h # None /\ Idle(p, g) = 0 /\ Idle(p, g) \in Nat
  BY PoolFields, PoolAssumption, Numbers, EmptySeq DEF Core, Idle
<1>1. /\ Core(q) /\ Undisturbed(p, q, h) /\ Allocated(p, o, g, h)
  BY <1>0, AllocateSocketCore
<1>2. \A k \in Groups : Requests(q, k) = Requests(p, k)
  BY <1>1, SameRequests
<1>3. Unassigned(p, g) \in Nat /\ Idle(q, g) \in Nat
  BY <1>0, <1>1, Numbers
<1>4. HasUnassignedJob(p.groups[g]) <=> Unassigned(p, g) > 0
  BY DEF HasUnassignedJob, Unassigned
<1> HIDE DEF q
<1>5. CASE HasUnassignedJob(p.groups[g]) /\ o.rv = "ERR_IO_PENDING" /\ Moves(p, q, g, 0, 0, 0, -1)
  <2> DEFINE m == -1
  <2>1. m \in Int /\ 0 \in Int /\ Moves(p, q, g, 0, 0, 0, m)
    BY <1>5
  <2> HIDE DEF m
  <2>2. Spends(p, q, g, 0, 0, m, 0)
    BY <1>0, <1>1, <1>2, <2>1, MovesSpends DEF q
  <2>3. Idle(q, g) = 0
    BY <1>0, <1>3, <2>2 DEF Spends
  <2>4. Queues(p, q, g)
    BY <1>4, <1>5, <2>2 DEF Queues, m
  <2> QED BY <1>5, <2>3, <2>4 DEF Asked, q
<1>6. CASE /\ ~HasUnassignedJob(p.groups[g]) /\ q = p /\ o.rv = "ERR_IO_PENDING"
           /\ ~HasAvailableSocketSlot(p.groups[g]) \/ (ReachedMaxSocketsLimit(p) /\ p.idle = 0)
  <2>1. Spends(p, p, g, 0, 0, 0, 0)
    BY <1>0, Numbers DEF Spends
  <2>2. Active(p, g) + Jobs(p, g) >= MaxSocketsPerGroup \/ Packed(p)
    <3>1. CASE ~HasAvailableSocketSlot(p.groups[g])
      <4>1. ~(Active(p, g) + Jobs(p, g) + Idle(p, g) < MaxSocketsPerGroup)
        BY <3>1 DEF HasAvailableSocketSlot, NumActiveSocketSlots, Active, Jobs, Idle
      <4>2. Active(p, g) \in Nat /\ Jobs(p, g) \in Nat /\ MaxSocketsPerGroup \in Nat
        BY <1>0, Numbers
      <4> QED BY <1>0, <4>1, <4>2
    <3>2. CASE ReachedMaxSocketsLimit(p) /\ p.idle = 0
      <4>1. p.handed_out + p.connecting + 0 >= MaxSockets
        BY <3>2 DEF ReachedMaxSocketsLimit
      <4>2. p.handed_out \in Nat /\ p.connecting \in Nat /\ MaxSockets \in Nat
        BY Numbers
      <4> QED BY <3>2, <4>1, <4>2 DEF Packed
    <3> QED BY <1>6, <3>1, <3>2
  <2>3. Unassigned(p, g) = 0
    BY <1>3, <1>4, <1>6
  <2>4. Queues(p, q, g)
    BY <1>6, <2>1, <2>2, <2>3 DEF Queues
  <2> QED BY <1>0, <1>6, <2>4 DEF Asked, q
<1>7. ASSUME NEW r, ~HasUnassignedJob(p.groups[g]), Cleared(p, r, g, h), Grows(r, o, g, h)
      PROVE  Asked(p, o, g)
  <2>1. Core(r) /\ Spends(p, r, g, 0, 0, 0, 0) /\ Undisturbed(p, r, h)
    BY <1>0, <1>7, ClearedSpends DEF Cleared
  <2>2. Unassigned(p, g) = 0 /\ 0 \in Int /\ 1 \in Int
    BY <1>3, <1>4, <1>7
  <2>3. \A k \in Groups : Requests(q, k) = Requests(r, k)
    BY <1>2, <2>1, SameRequests
  <2>4. o.rv \in {"OK", "ERR_IO_PENDING"}
    BY <1>7 DEF Grows, SlotsAreUsed
  <2>5. ASSUME o.rv = "OK" PROVE Spends(p, q, g, 1, 0, 0, 0)
    <3>1. Moves(r, q, g, 1, 0, 0, 0)
      BY <1>0, <1>7, <2>5 DEF Grows, q
    <3>2. Spends(r, q, g, 1, 0, 0, 0)
      BY <1>0, <1>1, <2>1, <2>2, <2>3, <3>1, MovesSpends DEF q
    <3>3. Spends(p, q, g, 0 + 1, 0 + 0, 0 + 0, 0 + 0)
      BY <1>0, <1>1, <2>1, <2>2, <3>2, SpendsTrans DEF q
    <3> QED BY <3>3
  <2>6. ASSUME o.rv = "ERR_IO_PENDING" PROVE Spends(p, q, g, 0, 1, 0, 0)
    <3>1. Moves(r, q, g, 0, 1, 0, 0)
      BY <1>0, <1>7, <2>6 DEF Grows, q
    <3>2. Spends(r, q, g, 0, 1, 0, 0)
      BY <1>0, <1>1, <2>1, <2>2, <2>3, <3>1, MovesSpends DEF q
    <3>3. Spends(p, q, g, 0 + 0, 0 + 1, 0 + 0, 0 + 0)
      BY <1>0, <1>1, <2>1, <2>2, <3>2, SpendsTrans DEF q
    <3> QED BY <3>3
  <2>7. Idle(q, g) = 0
    <3>1. Idle(q, g) <= Idle(p, g)
      BY <2>4, <2>5, <2>6 DEF Spends
    <3> QED BY <1>0, <1>3, <3>1
  <2>8. o.rv = "ERR_IO_PENDING" => Queues(p, q, g)
    BY <2>2, <2>6 DEF Queues
  <2> QED BY <2>4, <2>5, <2>7, <2>8 DEF Asked, q
<1>8. \/ HasUnassignedJob(p.groups[g]) /\ o.rv = "ERR_IO_PENDING" /\ Moves(p, q, g, 0, 0, 0, -1)
      \/ /\ ~HasUnassignedJob(p.groups[g]) /\ q = p /\ o.rv = "ERR_IO_PENDING"
         /\ ~HasAvailableSocketSlot(p.groups[g]) \/ (ReachedMaxSocketsLimit(p) /\ p.idle = 0)
      \/ ~HasUnassignedJob(p.groups[g]) /\ \E r : Cleared(p, r, g, h) /\ Grows(r, o, g, h)
  BY <1>0, <1>1, Zenon DEF Allocated, q
<1> QED
  BY <1>5, <1>6, <1>7, <1>8

SameCounts(p, q) ==
    /\ \A k \in Groups :
          /\ Active(q, k) = Active(p, k) /\ Jobs(q, k) = Jobs(p, k) /\ Idle(q, k) = Idle(p, k)
          /\ Unassigned(q, k) = Unassigned(p, k) /\ Requests(q, k) = Requests(p, k)
    /\ q.handed_out = p.handed_out /\ q.connecting = p.connecting /\ q.idle = p.idle

LEMMA SameGroups ==
    ASSUME NEW p, NEW q, q.groups = p.groups, q.handed_out = p.handed_out,
           q.connecting = p.connecting, q.idle = p.idle
    PROVE  SameCounts(p, q)
BY DEF SameCounts, Active, Jobs, Idle, Unassigned, Requests

LEMMA SameSpends ==
    ASSUME NEW p, Core(p), NEW q, SameCounts(p, q), NEW g \in Groups
    PROVE  Spends(p, q, g, 0, 0, 0, 0)
BY Numbers DEF SameCounts, Spends

LEMMA FoundSame ==
    ASSUME NEW p, Core(p), NEW g \in Groups
    PROVE  SameCounts(p, GetOrCreateGroup(p, g))
<1> DEFINE q == GetOrCreateGroup(p, g)
<1>1. p \in Pools
  BY DEF Core
<1>2. /\ q.groups = p.groups /\ q.idle = p.idle /\ q.handed_out = p.handed_out
      /\ q.connecting = p.connecting
  BY <1>1 DEF GetOrCreateGroup, Pools
<1> HIDE DEF q
<1> QED BY <1>2, SameGroups DEF q

LEMMA RequestAsked ==
    ASSUME NEW p, Core(p), load \in Loads, SlotsAreUsed, NEW g \in Groups, NEW h \in Handles,
           Asks(p, g, h), NEW o \in RequestSocketInternal(p, g, h)
    PROVE  Asked(p, o, g)
<1> DEFINE found == GetOrCreateGroup(p, g)
<1>0. h # None
  BY PoolAssumption
<1>1. /\ Core(found) /\ g \in found.group_map /\ found.handles = p.handles
      /\ found.groups = p.groups
  BY GetOrCreateGroupCore
<1>2. Spends(p, found, g, 0, 0, 0, 0) /\ Idle(found, g) = Idle(p, g)
  <2>1. SameCounts(p, found)
    BY FoundSame
  <2> HIDE DEF found
  <2> QED BY <2>1, SameSpends DEF SameCounts
<1>3. PICK t \in AssignIdleSocketToRequest(found, g, h) :
          o \in IF t.rv = "OK" THEN {t} ELSE AllocateSocket(t.pool, g, h)
  BY <1>0 DEF RequestSocketInternal
<1> HIDE DEF found
<1>4. Asks(found, g, h)
  BY <1>1 DEF Asks
<1>5. /\ Core(t.pool) /\ Undisturbed(found, t.pool, h)
      /\ t.rv # "OK" => NotAssigned(found, t.pool, g)
      /\ t.rv = "OK" => \E i \in 1 .. Len(found.groups[g].idle_sockets) : Moves(found, t.pool, g, 1, 0, -i, 0)
      /\ t.rv # "OK" => Moves(found, t.pool, g, 0, 0, -Len(found.groups[g].idle_sockets), 0)
  BY <1>1, <1>4, AssignIdleSocketCore
<1>6. /\ \A k \in Groups : Requests(t.pool, k) = Requests(found, k)
      /\ Idle(found, g) \in Nat /\ 0 \in Int /\ 1 \in Int
  BY <1>1, <1>5, SameRequests, Numbers
<1>7. CASE t.rv = "OK"
  <2>1. PICK i \in 1 .. Idle(found, g) : Moves(found, t.pool, g, 1, 0, -i, 0)
    BY <1>5, <1>7 DEF Idle
  <2> DEFINE m == -i
  <2>2. m \in Int /\ m <= 0 /\ m < 0 /\ Moves(found, t.pool, g, 1, 0, m, 0)
    BY <1>6, <2>1
  <2> HIDE DEF m
  <2>3. Spends(found, t.pool, g, 1, 0, 0, 0)
    BY <1>1, <1>5, <1>6, <2>2, MovesSpends
  <2>4. Idle(t.pool, g) < Idle(found, g)
    <3>1. Idle(t.pool, g) = Idle(found, g) + m
      BY <2>2 DEF Moves, Idle
    <3> QED BY <1>6, <2>2, <3>1
  <2>5. Spends(p, t.pool, g, 0 + 1, 0 + 0, 0 + 0, 0 + 0)
    BY <1>1, <1>2, <1>5, <1>6, <2>3, SpendsTrans
  <2>6. Spends(p, t.pool, g, 1, 0, 0, 0)
    BY <2>5
  <2>7. o = t
    BY <1>3, <1>7
  <2> QED BY <1>2, <1>7, <2>4, <2>6, <2>7 DEF Asked
<1>8. CASE t.rv # "OK"
  <2> DEFINE m == -Idle(found, g)
  <2>1. m \in Int /\ m <= 0 /\ Moves(found, t.pool, g, 0, 0, m, 0)
    BY <1>5, <1>6, <1>8 DEF Idle
  <2> HIDE DEF m
  <2>2. Spends(found, t.pool, g, 0, 0, 0, 0)
    BY <1>1, <1>5, <1>6, <2>1, MovesSpends
  <2>3. Spends(p, t.pool, g, 0 + 0, 0 + 0, 0 + 0, 0 + 0)
    BY <1>1, <1>2, <1>5, <1>6, <2>2, SpendsTrans
  <2>4. Spends(p, t.pool, g, 0, 0, 0, 0)
    BY <2>3
  <2>5. o \in AllocateSocket(t.pool, g, h) /\ Asks(t.pool, g, h) /\ g \in t.pool.group_map
        /\ t.pool.groups[g].idle_sockets = <<>>
    BY <1>3, <1>4, <1>5, <1>8 DEF NotAssigned, Asks
  <2>6. Asked(t.pool, o, g) /\ Core(o.pool)
    BY <1>0, <1>5, <2>5, AllocateAsked, AllocateSocketCore
  <2>7. ASSUME NEW a \in Int, NEW j \in Int, NEW u \in Int, Spends(t.pool, o.pool, g, a, j, u, 0)
        PROVE  Spends(p, o.pool, g, a, j, u, 0)
    <3>1. Spends(p, o.pool, g, 0 + a, 0 + j, 0 + u, 0 + 0)
      BY <1>5, <1>6, <2>4, <2>6, <2>7, SpendsTrans
    <3> QED BY <3>1
  <2>8. Unassigned(t.pool, g) = Unassigned(p, g)
    <3>1. Unassigned(t.pool, g) = Unassigned(p, g) + 0 /\ Unassigned(p, g) \in Nat
      BY <2>4, Numbers DEF Spends
    <3> QED BY <3>1
  <2>9. Idle(o.pool, g) = 0 \/ Idle(o.pool, g) < 0
    <3>1. Idle(t.pool, g) = 0
      BY <2>5, EmptySeq DEF Idle
    <3> QED BY <2>6, <3>1 DEF Asked
  <2>10. Idle(o.pool, g) = 0
    BY <2>6, <2>9, Numbers
  <2>11. o.rv = "OK" => Spends(p, o.pool, g, 1, 0, 0, 0)
    BY <1>6, <2>6, <2>7 DEF Asked
  <2>12. o.rv = "ERR_IO_PENDING" => Queues(p, o.pool, g)
    <3>1. o.rv = "ERR_IO_PENDING" => Queues(t.pool, o.pool, g)
      BY <2>6 DEF Asked
    <3>2. -1 \in Int /\ Spends(t.pool, o.pool, g, 0, 0, -1, 0) => Spends(p, o.pool, g, 0, 0, -1, 0)
      BY <1>6, <2>7
    <3>3. /\ Spends(t.pool, o.pool, g, 0, 1, 0, 0) => Spends(p, o.pool, g, 0, 1, 0, 0)
          /\ Spends(t.pool, o.pool, g, 0, 0, 0, 0) => Spends(p, o.pool, g, 0, 0, 0, 0)
      BY <1>6, <2>7
    <3>4. -1 \in Int
      OBVIOUS
    <3> QED BY <2>8, <3>1, <3>2, <3>3, <3>4, Zenon DEF Queues
  <2>13. o.rv \in {"OK", "ERR_IO_PENDING"}
    BY <2>6 DEF Asked
  <2> QED BY <2>10, <2>11, <2>12, <2>13, Zenon DEF Asked
<1> QED
  BY <1>7, <1>8

\* No connection of a higher layer becomes idle, and the task that closes one is not lost.
Follows(p, q) ==
    /\ \A h \in Handles : q.handles[h].phase = "parked" => p.handles[h].phase = "parked"
    /\ Has(p.tasks, CloseTask) => Has(q.tasks, CloseTask)

LEMMA FollowsTrans ==
    ASSUME NEW p, NEW q, NEW r, Follows(p, q), Follows(q, r)
    PROVE  Follows(p, r)
BY DEF Follows

LEMMA UndisturbedFollows ==
    ASSUME NEW p, NEW q, NEW h, Undisturbed(p, q, h)
    PROVE  Follows(p, q)
BY DEF Undisturbed, Follows

LEMMA PoppedSpends ==
    ASSUME NEW p, NEW q, Core(p), Core(q), NEW g \in Groups, NEW h, Popped(p, q, g, h), Queued(p, g, h)
    PROVE  Spends(p, q, g, 0, 0, 0, -1) /\ Idle(q, g) = Idle(p, g)
<1>1. /\ Moves(p, q, g, 0, 0, 0, 0) /\ Requests(q, g) = Requests(p, g) - 1
      /\ \A k \in Groups \ {g} : q.groups[k] = p.groups[k]
  BY DEF Popped, Requests
<1>2. /\ Active(q, g) = Active(p, g) + 0 /\ Jobs(q, g) = Jobs(p, g) + 0
      /\ Idle(q, g) = Idle(p, g) + 0 /\ Unassigned(q, g) = Unassigned(p, g) + 0
      /\ q.handed_out = p.handed_out + 0 /\ q.connecting = p.connecting + 0 /\ q.idle = p.idle + 0
  BY <1>1, Zenon DEF Moves, Active, Jobs, Idle, Unassigned
<1>3. \A k \in Groups \ {g} :
          /\ Active(q, k) = Active(p, k) /\ Jobs(q, k) = Jobs(p, k)
          /\ Unassigned(q, k) = Unassigned(p, k) /\ Idle(q, k) = Idle(p, k)
          /\ Requests(q, k) = Requests(p, k)
  BY <1>1 DEF Active, Jobs, Idle, Unassigned, Requests
<1>4. /\ Idle(p, g) \in Nat /\ p.idle \in Nat /\ Requests(p, g) \in Nat
      /\ \A k \in Groups : Idle(p, k) \in Nat
  BY Numbers
<1> QED
  BY <1>1, <1>2, <1>3, <1>4 DEF Spends

\* The next request of g is served, or goes on waiting.
Serves(p, q, g) ==
    \/ /\ Spends(p, q, g, 1, 0, 0, -1)
       /\ Idle(q, g) < Idle(p, g) \/ Idle(q, g) = 0
    \/ Idle(q, g) = 0 /\ Queues(p, q, g)

LEMMA ProcessServes ==
    ASSUME NEW p, Good(p), load \in Loads, SlotsAreUsed, NEW g \in Groups,
           p.groups[g].pending_requests # <<>>, NEW q \in ProcessPendingRequest(p, g)
    PROVE  Serves(p, q, g) /\ Follows(p, q)
<1> DEFINE h == Head(p.groups[g].pending_requests)
           Left(o) == [o.pool EXCEPT !.groups[g] = RemovePendingRequest(@, h)]
           Gone(o) == RemoveIfEmpty(Left(o), g)
           Answered(o) == InvokeUserCallbackLater(Gone(o), h, o.rv)
<1>1. h \in Handles /\ Queued(p, g, h) /\ Core(p)
  <2>1. p.groups[g].pending_requests \in Seq(Handles)
    BY Sizes, GroupFields DEF Good
  <2> QED BY <2>1, TailHas DEF Queued, Good
<1>2. PICK o \in RequestSocketInternal(p, g, h) :
          q = IF o.rv = "ERR_IO_PENDING" THEN o.pool ELSE Answered(o)
  BY DEF ProcessPendingRequest
<1> HIDE DEF h
<1>3. Asks(p, g, h)
  BY <1>1, QueuedFacts
<1>4. Core(o.pool) /\ Undisturbed(p, o.pool, h) /\ Connected(p, o, g, h)
  BY <1>1, <1>3, RequestSocketInternalCore
<1>5. Asked(p, o, g) /\ Follows(p, o.pool)
  BY <1>1, <1>3, <1>4, RequestAsked, UndisturbedFollows
<1>6. CASE o.rv = "ERR_IO_PENDING"
  BY <1>2, <1>5, <1>6 DEF Asked, Serves
<1>7. CASE o.rv = "OK"
  <2>1. GoodBut(o.pool, h) /\ Queued(o.pool, g, h)
    BY <1>1, <1>4, UndisturbedGood, GoodButNobody
  <2>2. Answerable(Left(o), h) /\ Popped(o.pool, Left(o), g, h) /\ g \in o.pool.group_map
    BY <1>1, <2>1, PopGood
  <2> HIDE DEF Left
  <2>3. Core(Left(o)) /\ g \in Left(o).group_map /\ Left(o).handles = o.pool.handles
    BY <2>2 DEF Answerable, GoodBut, Popped
  <2>4. Core(Gone(o)) /\ Undisturbed(Left(o), Gone(o), h) /\ Shrunk(Left(o), Gone(o), g)
    BY <2>3, RemoveIfEmptyCore
  <2> HIDE DEF Gone
  <2>5. Answerable(Gone(o), h)
    BY <2>2, <2>4, UndisturbedAnswerable
  <2>6. Gone(o).handles = o.pool.handles
    BY <2>3, <2>4 DEF Shrunk
  <2>7. o.rv \in {"OK", "ERR", "ERR_WITH_SOCKET"} /\ (o.rv = "OK" => Gone(o).handles[h].socket # NoSocket)
    BY <1>1, <1>4, <1>7, <2>6 DEF Connected, Results
  <2> DEFINE r == Answered(o)
  <2>8. /\ Good(r) /\ r.groups = Gone(o).groups
        /\ r.idle = Gone(o).idle /\ r.connecting = Gone(o).connecting
        /\ r.handed_out = Gone(o).handed_out
        /\ r.handles = Gone(o).handles /\ \A x : Has(Gone(o).tasks, x) => Has(r.tasks, x)
    BY <2>5, <2>7, InvokeUserCallbackLaterGood
  <2>9. q = r
    BY <1>2, <1>7
  <2> HIDE DEF r
  <2>10. /\ r.groups = Left(o).groups /\ r.idle = Left(o).idle /\ r.connecting = Left(o).connecting
         /\ r.handed_out = Left(o).handed_out
    BY <2>4, <2>8 DEF Shrunk
  <2> DEFINE m == -1
  <2>11. Spends(o.pool, Left(o), g, 0, 0, 0, m) /\ Idle(Left(o), g) = Idle(o.pool, g)
    BY <1>4, <2>1, <2>2, <2>3, PoppedSpends
  <2>12. m \in Int /\ 0 \in Int /\ 1 \in Int
    OBVIOUS
  <2> HIDE DEF m
  <2>13. SameCounts(Left(o), r)
    BY <2>10, SameGroups
  <2>14. Spends(Left(o), r, g, 0, 0, 0, 0) /\ Idle(r, g) = Idle(o.pool, g)
    BY <2>3, <2>11, <2>13, SameSpends DEF SameCounts
  <2>15. Spends(p, o.pool, g, 1, 0, 0, 0)
    BY <1>5, <1>7 DEF Asked
  <2>16. Spends(p, Left(o), g, 1 + 0, 0 + 0, 0 + 0, 0 + m)
    BY <1>1, <1>4, <2>3, <2>11, <2>12, <2>15, SpendsTrans
  <2>17. Spends(p, Left(o), g, 1, 0, 0, m)
    BY <2>12, <2>16
  <2>18. Spends(p, r, g, 1 + 0, 0 + 0, 0 + 0, m + 0)
    BY <1>1, <2>3, <2>8, <2>12, <2>14, <2>17, SpendsTrans DEF Good
  <2>19. Spends(p, r, g, 1, 0, 0, m)
    BY <2>12, <2>18
  <2>20. Serves(p, q, g)
    BY <1>5, <1>7, <2>9, <2>14, <2>19 DEF Serves, Asked, m
  <2>21. Follows(p, q)
    <3>1. Follows(o.pool, Gone(o))
      BY <2>2, <2>4, <2>6 DEF Follows, Undisturbed, Popped
    <3>2. Follows(Gone(o), r)
      BY <2>8 DEF Follows
    <3> QED BY <1>5, <2>9, <3>1, <3>2, FollowsTrans
  <2> QED BY <2>20, <2>21
<1> QED
  BY <1>5, <1>6, <1>7 DEF Asked

\* A slot of g is offered to it.
Offered(p, q, g) ==
    \/ Requests(p, g) = 0 /\ SameCounts(p, q)
    \/ Requests(p, g) > 0 /\ Serves(p, q, g)

LEMMA OnAvailableOffers ==
    ASSUME NEW p, Good(p), load \in Loads, SlotsAreUsed, NEW g \in p.group_map,
           NEW q \in OnAvailableSocketSlot(p, g)
    PROVE  Offered(p, q, g) /\ Follows(p, q) /\ Good(q)
<1>1. /\ Core(p) /\ p \in Pools /\ ~p.failed /\ g \in Groups
      /\ p.groups[g].pending_requests \in Seq(Handles)
  BY Sizes, PoolFields, GroupFields DEF Good
<1>2. Check(p, g \in p.group_map) = p
  <2> DEFINE c == g \in p.group_map
  <2>1. c \in BOOLEAN /\ c
    OBVIOUS
  <2>2. Check(p, c) = p
    <3> HIDE DEF c
    <3> QED BY <1>1, <2>1, CheckHolds
  <2> QED BY <2>2
<1>3. q \in IF IsEmpty(p.groups[g]) THEN {RemoveGroup(p, g)}
            ELSE IF p.groups[g].pending_requests # <<>> THEN ProcessPendingRequest(p, g)
            ELSE {p}
  BY <1>2 DEF OnAvailableSocketSlot
<1>4. Good(q)
  BY OnAvailableSocketSlotGood
<1>5. Requests(p, g) = 0 <=> p.groups[g].pending_requests = <<>>
  BY <1>1, EmptyIffLenZero DEF Requests
<1>6. Requests(p, g) \in Nat
  BY <1>1, Numbers
<1>7. CASE IsEmpty(p.groups[g])
  <2>1. q = RemoveIfEmpty(p, g)
    BY <1>3, <1>7 DEF RemoveIfEmpty
  <2>2. Undisturbed(p, q, None) /\ Shrunk(p, q, g)
    BY <1>1, <2>1, RemoveIfEmptyCore
  <2>3. SameCounts(p, q)
    BY <2>2, SameGroups DEF Shrunk
  <2>4. Requests(p, g) = 0
    BY <1>5, <1>7 DEF IsEmpty
  <2> QED BY <1>4, <2>2, <2>3, <2>4, UndisturbedFollows DEF Offered
<1>8. CASE ~IsEmpty(p.groups[g]) /\ p.groups[g].pending_requests # <<>>
  <2>1. q \in ProcessPendingRequest(p, g)
    BY <1>3, <1>8
  <2>2. Serves(p, q, g) /\ Follows(p, q)
    BY <1>1, <1>8, <2>1, ProcessServes
  <2>3. Requests(p, g) > 0
    BY <1>5, <1>6, <1>8
  <2> QED BY <1>4, <2>2, <2>3 DEF Offered
<1>9. CASE ~IsEmpty(p.groups[g]) /\ p.groups[g].pending_requests = <<>>
  <2>1. q = p
    BY <1>3, <1>9
  <2>2. SameCounts(p, p) /\ Follows(p, p)
    BY DEF SameCounts, Follows
  <2> QED BY <1>4, <1>5, <1>9, <2>1, <2>2 DEF Offered
<1> QED
  BY <1>7, <1>8, <1>9

\* The groups that nothing is done for.
LEMMA SpendsOthers ==
    ASSUME NEW p, NEW q, Core(p), Core(q), NEW g \in Groups, NEW a, NEW j, NEW u, NEW w,
           Spends(p, q, g, a, j, u, w), NEW k \in Groups \ {g}, Calm(p, k)
    PROVE  Calm(q, k) /\ (Stuck(q, k) <=> Stuck(p, k))
<1>1. /\ Active(q, k) = Active(p, k) /\ Jobs(q, k) = Jobs(p, k)
      /\ Unassigned(q, k) = Unassigned(p, k) /\ Requests(q, k) = Requests(p, k)
      /\ Idle(q, k) <= Idle(p, k)
  BY DEF Spends
<1>2. Idle(p, k) \in Nat /\ Idle(q, k) \in Nat
  BY Numbers
<1> QED
  BY <1>1, <1>2 DEF Calm, Covered, Stuck, Wants

-----------------------------------------------------------------------------
(* A slot that has become free *)

\* Group g is the only one that may be stalled, and lacks one socket at most.
Alone(p, g) ==
    /\ \A k \in Groups \ {g} : Calm(p, k) /\ ~Stuck(p, k)
    /\ Covered(p, g)
    /\ Wants(p, g) => Idle(p, g) <= 1
    /\ Wants(p, g) /\ Active(p, g) + Jobs(p, g) < MaxSocketsPerGroup =>
          /\ Active(p, g) + Jobs(p, g) + 1 >= MaxSocketsPerGroup
          /\ IgnoreLimits = {} => p.handed_out + p.connecting + p.idle < MaxSockets + Idle(p, g)

\* One slot of the pool, or one idle socket, is free at most.
Nearly(p) == p.idle <= 1 /\ p.handed_out + p.connecting + 1 >= MaxSockets

\* The one that is free is offered to g.
Brim(p, g) ==
    /\ \A k \in Groups \ {g} : Calm(p, k)
    /\ Covered(p, g)
    /\ Nearly(p) /\ p.idle = Idle(p, g)

LEMMA SameAlone ==
    ASSUME NEW p, NEW q, SameCounts(p, q), NEW g \in Groups
    PROVE  /\ Alone(p, g) => Alone(q, g)
           /\ Brim(p, g) => Brim(q, g)
           /\ \A k \in Groups : Calm(p, k) => Calm(q, k)
           /\ \A k \in Groups : Stuck(p, k) <=> Stuck(q, k)
           /\ Packed(p) <=> Packed(q)
           /\ Steady(p) => Steady(q)
           /\ Quiet(p) <=> Quiet(q)
<1>1. ASSUME NEW k \in Groups
      PROVE  /\ Wants(p, k) <=> Wants(q, k)
             /\ Stuck(p, k) <=> Stuck(q, k)
             /\ Covered(p, k) <=> Covered(q, k)
             /\ Calm(p, k) <=> Calm(q, k)
  BY DEF SameCounts, Wants, Stuck, Covered, Calm
<1>2. (Packed(p) <=> Packed(q)) /\ (Nearly(p) <=> Nearly(q))
  BY DEF SameCounts, Packed, Nearly
<1>3. Alone(p, g) => Alone(q, g)
  BY <1>1 DEF SameCounts, Alone
<1>4. Brim(p, g) => Brim(q, g)
  BY <1>1, <1>2 DEF SameCounts, Brim
<1>5. Quiet(p) <=> Quiet(q)
  BY <1>1 DEF Quiet
<1>6. Steady(p) => Steady(q)
  BY <1>1, <1>2, <1>5 DEF Steady, Calms
<1> QED
  BY <1>1, <1>2, <1>3, <1>4, <1>5, <1>6

\* In every case of an offer: how the numbers of g and of the pool change.
LEMMA ServesCases ==
    ASSUME NEW p, NEW q, Core(p), Core(q), NEW g \in Groups, Serves(p, q, g)
    PROVE  /\ \E a, j, u, w : Spends(p, q, g, a, j, u, w)
           /\ Idle(q, g) < Idle(p, g) \/ Idle(q, g) = 0
           /\ q.idle + Idle(p, g) <= p.idle + Idle(q, g)
           /\ \/ /\ Active(q, g) = Active(p, g) + 1 /\ Jobs(q, g) = Jobs(p, g)
                 /\ Unassigned(q, g) = Unassigned(p, g) /\ Requests(q, g) = Requests(p, g) - 1
                 /\ q.handed_out = p.handed_out + 1 /\ q.connecting = p.connecting
              \/ /\ Active(q, g) = Active(p, g) /\ Jobs(q, g) = Jobs(p, g) /\ Idle(q, g) = 0
                 /\ Unassigned(p, g) > 0
                 /\ Unassigned(q, g) = Unassigned(p, g) - 1 /\ Requests(q, g) = Requests(p, g)
                 /\ q.handed_out = p.handed_out /\ q.connecting = p.connecting
              \/ /\ Active(q, g) = Active(p, g) /\ Jobs(q, g) = Jobs(p, g) + 1 /\ Idle(q, g) = 0
                 /\ Unassigned(q, g) = 0 /\ Requests(q, g) = Requests(p, g)
                 /\ q.handed_out = p.handed_out /\ q.connecting = p.connecting + 1
              \/ /\ Active(q, g) = Active(p, g) /\ Jobs(q, g) = Jobs(p, g) /\ Idle(q, g) = 0
                 /\ Unassigned(q, g) = 0 /\ Requests(q, g) = Requests(p, g)
                 /\ q.handed_out = p.handed_out /\ q.connecting = p.connecting
                 /\ Active(q, g) + Jobs(q, g) >= MaxSocketsPerGroup \/ Packed(q)
<1>1. /\ Active(p, g) \in Nat /\ Jobs(p, g) \in Nat /\ Idle(p, g) \in Nat
      /\ Unassigned(p, g) \in Nat /\ Requests(p, g) \in Nat
      /\ p.handed_out \in Nat /\ p.connecting \in Nat /\ p.idle \in Nat
      /\ Idle(q, g) \in Nat
  BY Numbers
<1>2. CASE Spends(p, q, g, 1, 0, 0, -1) /\ (Idle(q, g) < Idle(p, g) \/ Idle(q, g) = 0)
  <2>1. /\ Active(q, g) = Active(p, g) + 1 /\ Jobs(q, g) = Jobs(p, g)
        /\ Unassigned(q, g) = Unassigned(p, g) /\ Requests(q, g) = Requests(p, g) - 1
        /\ q.handed_out = p.handed_out + 1 /\ q.connecting = p.connecting
        /\ q.idle + Idle(p, g) <= p.idle + Idle(q, g)
    BY <1>1, <1>2 DEF Spends
  <2> QED BY <1>2, <2>1
<1>3. CASE Idle(q, g) = 0 /\ Unassigned(p, g) > 0 /\ Spends(p, q, g, 0, 0, -1, 0)
  <2>1. /\ Active(q, g) = Active(p, g) /\ Jobs(q, g) = Jobs(p, g)
        /\ Unassigned(q, g) = Unassigned(p, g) - 1 /\ Requests(q, g) = Requests(p, g)
        /\ q.handed_out = p.handed_out /\ q.connecting = p.connecting
        /\ q.idle + Idle(p, g) <= p.idle + Idle(q, g)
    BY <1>1, <1>3 DEF Spends
  <2> QED BY <1>3, <2>1
<1>4. CASE Idle(q, g) = 0 /\ Unassigned(p, g) = 0 /\ Spends(p, q, g, 0, 1, 0, 0)
  <2>1. /\ Active(q, g) = Active(p, g) /\ Jobs(q, g) = Jobs(p, g) + 1
        /\ Unassigned(q, g) = 0 /\ Requests(q, g) = Requests(p, g)
        /\ q.handed_out = p.handed_out /\ q.connecting = p.connecting + 1
        /\ q.idle + Idle(p, g) <= p.idle + Idle(q, g)
    BY <1>1, <1>4 DEF Spends
  <2> QED BY <1>4, <2>1
<1>5. CASE /\ Idle(q, g) = 0 /\ Unassigned(p, g) = 0 /\ Spends(p, q, g, 0, 0, 0, 0)
           /\ Active(q, g) + Jobs(q, g) >= MaxSocketsPerGroup \/ Packed(q)
  <2>1. /\ Active(q, g) = Active(p, g) /\ Jobs(q, g) = Jobs(p, g)
        /\ Unassigned(q, g) = 0 /\ Requests(q, g) = Requests(p, g)
        /\ q.handed_out = p.handed_out /\ q.connecting = p.connecting
        /\ q.idle + Idle(p, g) <= p.idle + Idle(q, g)
    BY <1>1, <1>5 DEF Spends
  <2> QED BY <1>5, <2>1
<1> QED
  BY <1>2, <1>3, <1>4, <1>5 DEF Serves, Queues

LEMMA OfferedAlone ==
    ASSUME NEW p, NEW q, Core(p), Core(q), NEW g \in Groups, Alone(p, g), Offered(p, q, g)
    PROVE  Alone(q, g) /\ Calm(q, g)
<1>1. CASE Requests(p, g) = 0 /\ SameCounts(p, q)
  <2>1. Alone(q, g) /\ Requests(q, g) = 0 /\ Jobs(q, g) \in Nat
    BY <1>1, SameAlone, Numbers DEF SameCounts
  <2> QED BY <2>1 DEF Alone, Calm, Wants
<1>2. CASE Serves(p, q, g)
  <2>1. \A k \in Groups \ {g} : Calm(q, k) /\ ~Stuck(q, k)
    <3>1. PICK a, j, u, w : Spends(p, q, g, a, j, u, w)
      BY <1>2, ServesCases
    <3> QED BY <3>1, SpendsOthers DEF Alone
  <2>2. /\ Active(p, g) \in Nat /\ Jobs(p, g) \in Nat /\ Idle(p, g) \in Nat
        /\ Unassigned(p, g) \in Nat /\ Requests(p, g) \in Nat
        /\ p.handed_out \in Nat /\ p.connecting \in Nat /\ p.idle \in Nat
        /\ Idle(q, g) \in Nat /\ q.idle \in Nat /\ MaxSockets \in Nat /\ MaxSocketsPerGroup \in Nat
    BY Numbers
  <2>3. /\ Covered(p, g) /\ (Wants(p, g) => Idle(p, g) <= 1)
        /\ Wants(p, g) /\ Active(p, g) + Jobs(p, g) < MaxSocketsPerGroup =>
              /\ Active(p, g) + Jobs(p, g) + 1 >= MaxSocketsPerGroup
              /\ IgnoreLimits = {} => p.handed_out + p.connecting + p.idle < MaxSockets + Idle(p, g)
    BY DEF Alone
  <2>4. Covered(q, g)
    BY <1>2, <2>2, <2>3, ServesCases DEF Covered
  <2>5. Wants(q, g) => Wants(p, g) /\ Idle(q, g) = 0
    BY <1>2, <2>2, <2>3, ServesCases DEF Covered, Wants
  <2>6. ASSUME Wants(q, g), Active(q, g) + Jobs(q, g) < MaxSocketsPerGroup
        PROVE  /\ Active(q, g) + Jobs(q, g) + 1 >= MaxSocketsPerGroup
               /\ IgnoreLimits = {} => q.handed_out + q.connecting + q.idle < MaxSockets + Idle(q, g)
    <3>1. Wants(p, g)
      BY <2>5, <2>6
    <3>2. Unassigned(p, g) = 0
      BY <2>2, <2>3, <3>1 DEF Covered, Wants
    <3>3. /\ Active(q, g) = Active(p, g) /\ Jobs(q, g) = Jobs(p, g) /\ Idle(q, g) = 0
          /\ q.handed_out = p.handed_out /\ q.connecting = p.connecting
          /\ q.idle + Idle(p, g) <= p.idle + Idle(q, g)
      BY <1>2, <2>2, <2>3, <2>6, <3>1, <3>2, ServesCases
    <3> QED BY <2>2, <2>3, <2>6, <3>1, <3>3
  <2> QED BY <2>1, <2>2, <2>4, <2>5, <2>6 DEF Alone, Calm
<1> QED
  BY <1>1, <1>2 DEF Offered

LEMMA OfferedBrim ==
    ASSUME NEW p, NEW q, Core(p), Core(q), NEW g \in Groups, Brim(p, g), Offered(p, q, g)
    PROVE  Calms(q) /\ Nearly(q)
<1>1. CASE Requests(p, g) = 0 /\ SameCounts(p, q)
  <2>1. Brim(q, g) /\ Requests(q, g) = 0 /\ Jobs(q, g) \in Nat
    BY <1>1, SameAlone, Numbers DEF SameCounts
  <2> QED BY <2>1 DEF Brim, Calms, Calm, Wants
<1>2. CASE Serves(p, q, g)
  <2>1. \A k \in Groups \ {g} : Calm(q, k)
    <3>1. PICK a, j, u, w : Spends(p, q, g, a, j, u, w)
      BY <1>2, ServesCases
    <3> QED BY <3>1, SpendsOthers DEF Brim
  <2>2. /\ Active(p, g) \in Nat /\ Jobs(p, g) \in Nat /\ Idle(p, g) \in Nat
        /\ Unassigned(p, g) \in Nat /\ Requests(p, g) \in Nat
        /\ p.handed_out \in Nat /\ p.connecting \in Nat /\ p.idle \in Nat
        /\ Idle(q, g) \in Nat /\ q.idle \in Nat /\ MaxSockets \in Nat /\ MaxSocketsPerGroup \in Nat
    BY Numbers
  <2>3. /\ Covered(p, g) /\ p.idle = Idle(p, g) /\ p.idle <= 1
        /\ p.handed_out + p.connecting + 1 >= MaxSockets
    BY DEF Brim, Nearly
  <2>4. Covered(q, g)
    BY <1>2, <2>2, <2>3, ServesCases DEF Covered
  <2>5. Idle(q, g) = 0
    BY <1>2, <2>2, <2>3, ServesCases
  <2>6. q.idle = 0 /\ q.handed_out + q.connecting + 1 >= MaxSockets
    BY <1>2, <2>2, <2>3, <2>5, ServesCases
  <2> QED BY <2>1, <2>4, <2>5, <2>6 DEF Calms, Calm, Nearly
<1> QED
  BY <1>1, <1>2 DEF Offered

\* An idle socket is closed, in a group whose requests do not need it.
LEMMA CloseOneKeeps ==
    ASSUME NEW p, Good(p), Calms(p), p.idle > 0, NEW q \in CloseOneIdleSocket(p)
    PROVE  /\ Good(q) /\ Follows(p, q) /\ Calms(q)
           /\ \A f \in Groups : Stuck(q, f) <=> Stuck(p, f)
           /\ q.idle = p.idle - 1 /\ q.handed_out = p.handed_out /\ q.connecting = p.connecting
           /\ \A g \in Groups : Alone(p, g) => Alone(q, g)
<1>0. Core(p)
  BY DEF Good
<1>1. Good(q) /\ Follows(p, q) /\ Core(q)
  BY CloseOneIdleSocketGood, UndisturbedFollows DEF Good
<1>2. PICK k \in Groups : p.groups[k].idle_sockets # <<>> /\ Moves(p, q, k, 0, 0, -1, 0)
  <2>1. PICK c \in CloseOneIdleSocketExceptIn(p, {}) : q = c.pool
    BY DEF CloseOneIdleSocket
  <2>2. \E g \in Groups : p.groups[g].idle_sockets # <<>>
    BY <1>0, SomeIdle
  <2>3. /\ c.closed <=> \E g \in Groups \ {} : p.groups[g].idle_sockets # <<>>
        /\ c.closed => \E g \in Groups \ {} : /\ p.groups[g].idle_sockets # <<>>
                                              /\ Moves(p, c.pool, g, 0, 0, -1, 0)
    BY <1>0, <2>1, CloseOneIdleSocketCore
  <2> QED BY <2>1, <2>2, <2>3
<1>3. /\ Active(q, k) = Active(p, k) + 0 /\ Jobs(q, k) = Jobs(p, k) + 0
      /\ Idle(q, k) = Idle(p, k) + (-1) /\ Unassigned(q, k) = Unassigned(p, k) + 0
      /\ q.handed_out = p.handed_out + 0 /\ q.connecting = p.connecting + 0 /\ q.idle = p.idle + (-1)
      /\ \A f \in Groups \ {k} : q.groups[f] = p.groups[f]
  BY <1>2, Zenon DEF Moves, Active, Jobs, Idle, Unassigned
<1>4. \A f \in Groups : Requests(q, f) = Requests(p, f)
  BY CloseOneIdleSocketGood, SameRequests
<1>5. /\ Active(p, k) \in Nat /\ Jobs(p, k) \in Nat /\ Idle(p, k) \in Nat
      /\ Unassigned(p, k) \in Nat /\ Requests(p, k) \in Nat
      /\ p.handed_out \in Nat /\ p.connecting \in Nat /\ p.idle \in Nat /\ MaxSockets \in Nat
      /\ \A g \in Groups : Idle(p, g) \in Nat /\ Active(p, g) \in Nat /\ Jobs(p, g) \in Nat
  BY <1>0, Numbers
<1>6. Idle(p, k) # 0
  <2>1. p.groups[k].idle_sockets \in Seq(Generations)
    BY <1>0, Sizes, GroupFields
  <2> QED BY <1>2, <2>1, EmptyIffLenZero DEF Idle
<1>7. ~Wants(p, k) /\ ~Wants(q, k) /\ Covered(q, k) /\ Covered(p, k)
  <2>1. ~Wants(p, k) /\ Covered(p, k)
    BY <1>6 DEF Calms, Calm
  <2>2. Jobs(q, k) = Jobs(p, k) /\ Requests(q, k) = Requests(p, k) /\ Unassigned(q, k) = Unassigned(p, k)
    BY <1>3, <1>4, <1>5
  <2> QED BY <2>1, <2>2 DEF Wants, Covered
<1>8. ASSUME NEW f \in Groups \ {k}
      PROVE  /\ Active(q, f) = Active(p, f) /\ Jobs(q, f) = Jobs(p, f) /\ Idle(q, f) = Idle(p, f)
             /\ Unassigned(q, f) = Unassigned(p, f) /\ Requests(q, f) = Requests(p, f)
  BY <1>3, <1>4 DEF Active, Jobs, Idle, Unassigned
<1>9. ASSUME NEW f \in Groups
      PROVE  /\ Calm(q, f) /\ (Stuck(q, f) <=> Stuck(p, f)) /\ (Wants(q, f) <=> Wants(p, f))
             /\ Covered(p, f) => Covered(q, f)
  <2>1. CASE f = k
    BY <1>7, <2>1 DEF Calm, Stuck
  <2>2. CASE f # k
    BY <1>8, <2>2 DEF Calms, Calm, Covered, Stuck, Wants
  <2> QED BY <2>1, <2>2
<1>10. q.idle = p.idle - 1 /\ q.handed_out = p.handed_out /\ q.connecting = p.connecting
  BY <1>3, <1>5
<1>11. ASSUME NEW g \in Groups, Alone(p, g) PROVE Alone(q, g)
  <2>1. \A f \in Groups \ {g} : Calm(q, f) /\ ~Stuck(q, f)
    BY <1>9, <1>11 DEF Alone
  <2>2. Covered(q, g)
    BY <1>9, <1>11 DEF Alone
  <2>3. ASSUME Wants(q, g)
        PROVE  /\ Active(q, g) = Active(p, g) /\ Jobs(q, g) = Jobs(p, g) /\ Idle(q, g) = Idle(p, g)
               /\ Wants(p, g)
    BY <1>7, <1>8, <1>9, <2>3
  <2>4. IgnoreLimits = {} /\ p.handed_out + p.connecting + p.idle < MaxSockets + Idle(p, g) =>
           q.handed_out + q.connecting + q.idle < MaxSockets + Idle(p, g)
    BY <1>5, <1>10
  <2> QED BY <1>11, <2>1, <2>2, <2>3, <2>4 DEF Alone
<1> QED
  BY <1>1, <1>9, <1>10, <1>11 DEF Calms

LEMMA CheckCases ==
    ASSUME NEW p, Good(p), Calms(p), load \in Loads, SlotsAreUsed,
           NEW q \in CheckForStalledSocketGroups(p)
    PROVE  /\ Good(q) /\ Follows(p, q)
           /\ \/ Quiet(p) /\ Calms(q) /\ Quiet(q)
              \/ Packed(p) /\ q = p
              \/ \E r : \E g \in Groups :
                    /\ Good(r) /\ Calms(r) /\ Offered(r, q, g)
                    /\ \A f \in Groups : Stuck(r, f) <=> Stuck(p, f)
                    /\ \A f \in Groups : Alone(p, f) => Alone(r, f)
                    /\ Stuck(r, g)
                    /\ r.handed_out = p.handed_out /\ r.connecting = p.connecting
                    /\ \/ r.idle = p.idle /\ p.handed_out + p.connecting + p.idle < MaxSockets
                       \/ r.idle = p.idle - 1
<1> DEFINE freed == IF ReachedMaxSocketsLimit(p) THEN CloseOneIdleSocket(p) ELSE {p}
<1>0. /\ Core(p) /\ p.idle \in Nat /\ p.handed_out \in Nat /\ p.connecting \in Nat
      /\ MaxSockets \in Nat
  BY Numbers DEF Good
<1>1. Good(q) /\ Follows(p, p)
  BY CheckForStalledSocketGroupsGood DEF Follows
<1>2. CASE StalledGroups(p) = {}
  <2>1. Quiet(p)
    BY <1>0, <1>2, StuckIsStalled DEF Quiet
  <2>2. q \in CloseOneIdleSocket(p) \/ q = p
    BY <1>2 DEF CheckForStalledSocketGroups
  <2>3. p.idle = 0 => q = p
    BY <2>2 DEF CloseOneIdleSocket
  <2>4. CASE q = p
    BY <1>1, <2>1, <2>4
  <2>5. CASE q # p
    <3>1. p.idle > 0 /\ q \in CloseOneIdleSocket(p)
      BY <1>0, <2>2, <2>3, <2>5
    <3>2. Follows(p, q) /\ Calms(q) /\ \A f \in Groups : Stuck(q, f) <=> Stuck(p, f)
      BY <3>1, CloseOneKeeps
    <3> QED BY <1>1, <2>1, <3>2 DEF Quiet
  <2> QED BY <2>4, <2>5
<1>3. CASE StalledGroups(p) # {} /\ ReachedMaxSocketsLimit(p) /\ p.idle = 0
  <2>1. q = p
    BY <1>3 DEF CheckForStalledSocketGroups
  <2>2. Packed(p)
    BY <1>0, <1>3, StuckIsStalled DEF Packed
  <2> QED BY <1>1, <2>1, <2>2
<1>4. CASE StalledGroups(p) # {} /\ ~(ReachedMaxSocketsLimit(p) /\ p.idle = 0)
  <2>1. PICK r \in freed, g \in FindTopStalledGroup(p) : q \in OnAvailableSocketSlot(r, g)
    BY <1>4 DEF CheckForStalledSocketGroups
  <2>2. g \in Groups /\ Stuck(p, g)
    <3>1. g \in StalledGroups(p)
      BY <2>1 DEF FindTopStalledGroup
    <3> QED BY <1>0, <3>1, StuckIsStalled
  <2>3. /\ Good(r) /\ Calms(r) /\ Follows(p, r)
        /\ \A f \in Groups : Stuck(r, f) <=> Stuck(p, f)
        /\ \A f \in Groups : Alone(p, f) => Alone(r, f)
        /\ r.handed_out = p.handed_out /\ r.connecting = p.connecting
        /\ \/ r.idle = p.idle /\ p.handed_out + p.connecting + p.idle < MaxSockets
           \/ r.idle = p.idle - 1
    <3>1. CASE ReachedMaxSocketsLimit(p)
      <4>1. p.idle > 0 /\ r \in CloseOneIdleSocket(p)
        BY <1>0, <1>4, <2>1, <3>1
      <4> QED BY <4>1, CloseOneKeeps
    <3>2. CASE ~ReachedMaxSocketsLimit(p)
      <4>1. r = p
        BY <2>1, <3>2
      <4>2. p.handed_out + p.connecting + p.idle < MaxSockets
        BY <1>0, <3>2, StuckIsStalled
      <4> QED BY <1>1, <4>1, <4>2
    <3> QED BY <3>1, <3>2
  <2>4. Stuck(r, g)
    BY <2>2, <2>3
  <2>5. g \in r.group_map
    BY <2>2, <2>3, <2>4, StuckIsStalled DEF Good
  <2>6. Offered(r, q, g) /\ Follows(r, q)
    BY <2>1, <2>3, <2>5, OnAvailableOffers
  <2>7. Follows(p, q)
    BY <2>3, <2>6, FollowsTrans
  <2> QED BY <1>1, <2>2, <2>3, <2>4, <2>6, <2>7
<1> QED
  BY <1>2, <1>3, <1>4

\* A group that is stalled and gets the slot is not stalled any more, or the pool is full.
LEMMA OfferedStuck ==
    ASSUME NEW p, NEW q, Core(p), Core(q), Calms(p), NEW g \in Groups, Stuck(p, g), Offered(p, q, g)
    PROVE  /\ \A k \in Groups \ {g} : Calm(q, k) /\ (Stuck(q, k) <=> Stuck(p, k))
           /\ Calm(q, g) /\ Idle(q, g) = 0 /\ Idle(p, g) = 0 /\ q.idle <= p.idle
           /\ \/ Active(q, g) + Jobs(q, g) = Active(p, g) + Jobs(p, g) + 1
                 /\ q.handed_out + q.connecting = p.handed_out + p.connecting + 1
              \/ Packed(q) /\ q.handed_out + q.connecting = p.handed_out + p.connecting
<1>1. /\ Active(p, g) \in Nat /\ Jobs(p, g) \in Nat /\ Idle(p, g) \in Nat
      /\ Unassigned(p, g) \in Nat /\ Requests(p, g) \in Nat
      /\ p.handed_out \in Nat /\ p.connecting \in Nat /\ p.idle \in Nat
      /\ Idle(q, g) \in Nat /\ q.idle \in Nat /\ MaxSockets \in Nat /\ MaxSocketsPerGroup \in Nat
  BY Numbers
<1>2. /\ Requests(p, g) > Jobs(p, g) /\ Idle(p, g) = 0 /\ Unassigned(p, g) = 0
      /\ Active(p, g) + Jobs(p, g) < MaxSocketsPerGroup
  BY <1>1 DEF Calms, Calm, Covered, Stuck, Wants
<1>3. Serves(p, q, g)
  BY <1>1, <1>2 DEF Offered
<1>4. \A k \in Groups \ {g} : Calm(q, k) /\ (Stuck(q, k) <=> Stuck(p, k))
  <2>1. PICK a, j, u, w : Spends(p, q, g, a, j, u, w)
    BY <1>3, ServesCases
  <2> QED BY <2>1, SpendsOthers DEF Calms
<1>5. Idle(q, g) = 0 /\ q.idle <= p.idle
  BY <1>1, <1>2, <1>3, ServesCases
<1>6. Calm(q, g)
  <2>1. Unassigned(q, g) = 0
    BY <1>1, <1>2, <1>3, ServesCases
  <2> QED BY <1>5, <2>1 DEF Calm, Covered
<1>7. \/ Active(q, g) + Jobs(q, g) = Active(p, g) + Jobs(p, g) + 1
         /\ q.handed_out + q.connecting = p.handed_out + p.connecting + 1
      \/ Packed(q) /\ q.handed_out + q.connecting = p.handed_out + p.connecting
  BY <1>1, <1>2, <1>3, ServesCases
<1> QED
  BY <1>2, <1>4, <1>5, <1>6, <1>7

LEMMA CheckAlone ==
    ASSUME NEW p, Good(p), Calms(p), load \in Loads, SlotsAreUsed, NEW g \in Groups, Alone(p, g),
           NEW q \in CheckForStalledSocketGroups(p)
    PROVE  Good(q) /\ Follows(p, q) /\ Steady(q) /\ (IgnoreLimits = {} => Quiet(q))
<1>0. /\ Core(p) /\ p.idle \in Nat /\ p.handed_out \in Nat /\ p.connecting \in Nat
      /\ MaxSockets \in Nat /\ MaxSocketsPerGroup \in Nat /\ Idle(p, g) \in Nat
      /\ Active(p, g) \in Nat /\ Jobs(p, g) \in Nat
  BY Numbers DEF Good
<1>1. Good(q) /\ Follows(p, q)
  BY CheckCases
<1>2. CASE Quiet(p) /\ Calms(q) /\ Quiet(q)
  BY <1>1, <1>2 DEF Steady
<1>3. CASE Packed(p) /\ q = p
  <2>1. IgnoreLimits = {} => ~Stuck(p, g)
    BY <1>0, <1>3 DEF Packed, Alone, Stuck, Calms, Calm
  <2> QED BY <1>1, <1>3, <2>1 DEF Steady, Quiet, Alone
<1>4. ASSUME NEW r, NEW f \in Groups,
             Good(r), Calms(r), Offered(r, q, f), \A e \in Groups : Stuck(r, e) <=> Stuck(p, e),
             Alone(p, g) => Alone(r, g), Stuck(r, f)
      PROVE  Steady(q) /\ (IgnoreLimits = {} => Quiet(q))
  <2>1. f = g
    BY <1>4 DEF Alone
  <2>2. Core(r) /\ Core(q) /\ Alone(r, g)
    BY <1>1, <1>4 DEF Good
  <2>3. /\ \A k \in Groups \ {g} : Calm(q, k) /\ (Stuck(q, k) <=> Stuck(r, k))
        /\ Calm(q, g) /\ Idle(q, g) = 0 /\ Idle(r, g) = 0 /\ q.idle <= r.idle
        /\ \/ Active(q, g) + Jobs(q, g) = Active(r, g) + Jobs(r, g) + 1
              /\ q.handed_out + q.connecting = r.handed_out + r.connecting + 1
           \/ Packed(q) /\ q.handed_out + q.connecting = r.handed_out + r.connecting
    BY <1>4, <2>1, <2>2, OfferedStuck
  <2>4. /\ Active(r, g) \in Nat /\ Jobs(r, g) \in Nat /\ r.idle \in Nat
        /\ r.handed_out \in Nat /\ r.connecting \in Nat
        /\ Active(q, g) \in Nat /\ Jobs(q, g) \in Nat /\ q.idle \in Nat
        /\ q.handed_out \in Nat /\ q.connecting \in Nat
    BY <2>2, Numbers
  <2>5. /\ Active(r, g) + Jobs(r, g) + 1 >= MaxSocketsPerGroup
        /\ IgnoreLimits = {} => r.handed_out + r.connecting + r.idle < MaxSockets
    BY <1>0, <1>4, <2>1, <2>2, <2>3, <2>4 DEF Alone, Stuck
  <2>6. Stuck(q, g) => Packed(q) /\ IgnoreLimits # {}
    <3>1. CASE Active(q, g) + Jobs(q, g) = Active(r, g) + Jobs(r, g) + 1
      BY <1>0, <2>3, <2>4, <2>5, <3>1 DEF Stuck
    <3>2. CASE Packed(q) /\ q.handed_out + q.connecting = r.handed_out + r.connecting
      BY <1>0, <2>3, <2>4, <2>5, <3>2 DEF Packed
    <3> QED BY <2>3, <3>1, <3>2
  <2>7. \A k \in Groups \ {g} : ~Stuck(q, k)
    BY <2>2, <2>3 DEF Alone
  <2> QED BY <2>3, <2>6, <2>7 DEF Steady, Calms, Quiet
<1> QED
  BY <1>1, <1>2, <1>3, <1>4, CheckCases

LEMMA CheckNearly ==
    ASSUME NEW p, Good(p), Calms(p), load \in Loads, SlotsAreUsed, Nearly(p),
           NEW q \in CheckForStalledSocketGroups(p)
    PROVE  Good(q) /\ Follows(p, q) /\ Steady(q)
<1>0. /\ Core(p) /\ p.idle \in Nat /\ p.handed_out \in Nat /\ p.connecting \in Nat
      /\ MaxSockets \in Nat
  BY Numbers DEF Good
<1>1. Good(q) /\ Follows(p, q)
  BY CheckCases
<1>2. CASE Quiet(p) /\ Calms(q) /\ Quiet(q)
  BY <1>1, <1>2 DEF Steady
<1>3. CASE Packed(p) /\ q = p
  BY <1>1, <1>3 DEF Steady
<1>4. ASSUME NEW r, NEW f \in Groups,
             Good(r), Calms(r), Offered(r, q, f), Stuck(r, f),
             r.handed_out = p.handed_out /\ r.connecting = p.connecting,
             \/ r.idle = p.idle /\ p.handed_out + p.connecting + p.idle < MaxSockets
             \/ r.idle = p.idle - 1
      PROVE  Steady(q)
  <2>1. Core(r) /\ Core(q)
    BY <1>1, <1>4 DEF Good
  <2>2. /\ r.idle \in Nat /\ q.idle \in Nat /\ q.handed_out \in Nat /\ q.connecting \in Nat
    BY <2>1, Numbers
  <2>3. /\ \A k \in Groups \ {f} : Calm(q, k)
        /\ Calm(q, f) /\ q.idle <= r.idle
        /\ \/ q.handed_out + q.connecting = r.handed_out + r.connecting + 1
           \/ Packed(q)
    BY <1>4, <2>1, OfferedStuck
  <2>4. r.idle = 0
    <3>1. p.idle <= 1 /\ p.handed_out + p.connecting + 1 >= MaxSockets
      BY DEF Nearly
    <3>2. CASE r.idle = p.idle /\ p.handed_out + p.connecting + p.idle < MaxSockets
      BY <1>0, <3>1, <3>2
    <3>3. CASE r.idle = p.idle - 1
      BY <1>0, <2>2, <3>1, <3>3
    <3> QED BY <1>4, <3>2, <3>3
  <2>5. Packed(q)
    BY <1>0, <1>4, <2>2, <2>3, <2>4 DEF Nearly, Packed
  <2> QED BY <2>3, <2>5 DEF Steady, Calms
<1> QED
  BY <1>1, <1>2, <1>3, <1>4, CheckCases

\* The slot of a socket or a job of g has become free; i sockets went idle.
Returns(p, q, g, i) ==
    /\ \A k \in Groups \ {g} :
          /\ Active(q, k) = Active(p, k) /\ Jobs(q, k) = Jobs(p, k) /\ Idle(q, k) = Idle(p, k)
          /\ Unassigned(q, k) = Unassigned(p, k) /\ Requests(q, k) = Requests(p, k)
    /\ Active(q, g) + Jobs(q, g) = Active(p, g) + Jobs(p, g) - 1
    /\ Idle(q, g) = Idle(p, g) + i
    /\ Wants(q, g) => Wants(p, g)
    /\ Covered(q, g)
    /\ q.handed_out + q.connecting = p.handed_out + p.connecting - 1
    /\ q.idle = p.idle + i

LEMMA SlotReturned ==
    ASSUME NEW p, NEW q, Core(p), Core(q), Steady(p), NEW g \in Groups, NEW i \in {0, 1},
           Returns(p, q, g, i)
    PROVE  /\ Quiet(p) => Alone(q, g)
           /\ ~Quiet(p) => Brim(q, g)
           /\ i = 0 => Calms(q)
<1>1. ASSUME NEW k \in Groups \ {g} PROVE Calm(q, k) /\ (Stuck(q, k) <=> Stuck(p, k))
  BY DEF Returns, Steady, Calms, Calm, Covered, Stuck, Wants
<1>2. /\ Active(p, g) \in Nat /\ Jobs(p, g) \in Nat /\ Idle(p, g) \in Nat
      /\ p.handed_out \in Nat /\ p.connecting \in Nat /\ p.idle \in Nat
      /\ Active(q, g) \in Nat /\ Jobs(q, g) \in Nat /\ Idle(p, g) <= p.idle
      /\ q.handed_out \in Nat /\ q.connecting \in Nat
      /\ MaxSockets \in Nat /\ MaxSocketsPerGroup \in Nat
      /\ IgnoreLimits = {} => p.handed_out + p.connecting + p.idle <= MaxSockets
  BY Numbers
<1>3. /\ Active(q, g) + Jobs(q, g) = Active(p, g) + Jobs(p, g) - 1
      /\ Idle(q, g) = Idle(p, g) + i /\ q.idle = p.idle + i
      /\ Wants(q, g) => Wants(p, g)
      /\ Covered(q, g)
      /\ q.handed_out + q.connecting = p.handed_out + p.connecting - 1
  BY DEF Returns
<1>4. Wants(p, g) => Idle(p, g) = 0
  BY DEF Steady, Calms, Calm
<1>5. ASSUME Quiet(p) PROVE Alone(q, g)
  <2>1. \A k \in Groups \ {g} : Calm(q, k) /\ ~Stuck(q, k)
    BY <1>1, <1>5 DEF Quiet
  <2>2. Wants(q, g) => Idle(q, g) <= 1
    BY <1>2, <1>3, <1>4
  <2>3. ASSUME Wants(q, g), Active(q, g) + Jobs(q, g) < MaxSocketsPerGroup
        PROVE  /\ Active(q, g) + Jobs(q, g) + 1 >= MaxSocketsPerGroup
               /\ IgnoreLimits = {} => q.handed_out + q.connecting + q.idle < MaxSockets + Idle(q, g)
    <3>1. Wants(p, g) /\ Idle(p, g) = 0
      BY <1>3, <1>4, <2>3
    <3>2. ~(Active(p, g) + Jobs(p, g) + 0 < MaxSocketsPerGroup)
      BY <1>5, <3>1 DEF Quiet, Stuck
    <3>3. Active(q, g) + Jobs(q, g) + 1 >= MaxSocketsPerGroup
      BY <1>2, <1>3, <3>2
    <3>4. IgnoreLimits = {} => q.handed_out + q.connecting + q.idle < MaxSockets + Idle(q, g)
      BY <1>2, <1>3, <3>1
    <3> QED BY <3>3, <3>4
  <2> QED BY <1>3, <2>1, <2>2, <2>3 DEF Alone
<1>6. ASSUME ~Quiet(p) PROVE Brim(q, g)
  <2>1. p.idle = 0 /\ p.handed_out + p.connecting >= MaxSockets
    BY <1>6 DEF Steady, Packed
  <2>2. Idle(p, g) = 0
    BY <1>2, <2>1
  <2>3. Nearly(q) /\ q.idle = Idle(q, g)
    BY <1>2, <1>3, <2>1, <2>2 DEF Nearly
  <2> QED BY <1>1, <1>3, <2>3 DEF Brim
<1>7. i = 0 => Calms(q)
  BY <1>1, <1>2, <1>3, <1>4 DEF Calms, Calm
<1> QED
  BY <1>5, <1>6, <1>7

-----------------------------------------------------------------------------
(* Methods relieve the pool *)

\* What a step must do: leave the pool steady, and not stall it if there are limits for all.
Relieves(p, q) ==
    Steady(q) /\ (IgnoreLimits = {} /\ Quiet(p) => Quiet(q)) /\ Follows(p, q)

LEMMA RelievesTrans ==
    ASSUME NEW p, NEW q, NEW r, Relieves(p, q), Relieves(q, r)
    PROVE  Relieves(p, r)
BY FollowsTrans DEF Relieves

LEMMA OfferRelieves ==
    ASSUME NEW p, NEW q, Core(p), Good(q), Steady(p), load \in Loads, SlotsAreUsed,
           NEW g \in q.group_map, NEW i \in {0, 1}, Returns(p, q, g, i), Follows(p, q),
           NEW r \in OfferSlot(q, g)
    PROVE  Good(r) /\ Relieves(p, r) /\ Follows(q, r)
<1>0. g \in Groups /\ Core(q)
  BY PoolFields DEF Good, Core
<1>1. (Quiet(p) => Alone(q, g)) /\ (~Quiet(p) => Brim(q, g))
  BY <1>0, SlotReturned
<1>2. PICK s \in OnAvailableSocketSlot(q, g) : r \in CheckForStalledSocketGroups(s)
  BY DEF OfferSlot
<1>3. Offered(q, s, g) /\ Follows(q, s) /\ Good(s) /\ Core(s)
  BY <1>2, OnAvailableOffers DEF Good
<1>4. Follows(p, s)
  BY <1>3, FollowsTrans
<1>5. CASE Quiet(p)
  <2>1. Alone(s, g) /\ Calm(s, g)
    BY <1>0, <1>1, <1>3, <1>5, OfferedAlone
  <2>2. Calms(s)
    BY <2>1 DEF Alone, Calms
  <2>3. Good(r) /\ Follows(s, r) /\ Steady(r) /\ (IgnoreLimits = {} => Quiet(r))
    BY <1>0, <1>2, <1>3, <2>1, <2>2, CheckAlone
  <2> QED BY <1>3, <1>4, <2>3, FollowsTrans DEF Relieves
<1>6. CASE ~Quiet(p)
  <2>1. Calms(s) /\ Nearly(s)
    BY <1>0, <1>1, <1>3, <1>6, OfferedBrim
  <2>2. Good(r) /\ Follows(s, r) /\ Steady(r)
    BY <1>2, <1>3, <2>1, CheckNearly
  <2> QED BY <1>3, <1>4, <1>6, <2>2, FollowsTrans DEF Relieves
<1> QED
  BY <1>5, <1>6

LEMMA CheckRelieves ==
    ASSUME NEW p, NEW q, Core(p), Good(q), Steady(p), load \in Loads, SlotsAreUsed,
           NEW g \in Groups, Returns(p, q, g, 0), Follows(p, q),
           NEW r \in CheckForStalledSocketGroups(q)
    PROVE  Good(r) /\ Relieves(p, r) /\ Follows(q, r)
<1> DEFINE i == 0
<1>0. i \in {0, 1} /\ Returns(p, q, g, i) /\ Core(q)
  BY DEF Good
<1>1. (Quiet(p) => Alone(q, g)) /\ (~Quiet(p) => Brim(q, g)) /\ Calms(q)
  <2>1. (Quiet(p) => Alone(q, g)) /\ (~Quiet(p) => Brim(q, g)) /\ (i = 0 => Calms(q))
    <3> HIDE DEF i
    <3> QED BY <1>0, SlotReturned
  <2> QED BY <2>1
<1>2. CASE Quiet(p)
  <2>1. Good(r) /\ Follows(q, r) /\ Steady(r) /\ (IgnoreLimits = {} => Quiet(r))
    BY <1>1, <1>2, CheckAlone
  <2> QED BY <2>1, FollowsTrans DEF Relieves
<1>3. CASE ~Quiet(p)
  <2>1. Good(r) /\ Follows(q, r) /\ Steady(r)
    BY <1>1, <1>3, CheckNearly DEF Brim
  <2> QED BY <1>3, <2>1, FollowsTrans DEF Relieves
<1> QED
  BY <1>2, <1>3

\* A slot of g is given back: how the numbers change.
LEMMA MovesReturns ==
    ASSUME NEW p, NEW q, Core(p), NEW g \in Groups, NEW a \in Int, NEW j \in Int, NEW i \in Int,
           NEW u \in Int, Moves(p, q, g, a, j, i, u), a + j = -1,
           \A k \in Groups \ {g} : Requests(q, k) = Requests(p, k),
           Wants(q, g) => Wants(p, g), Covered(q, g)
    PROVE  Returns(p, q, g, i)
<1>1. /\ \A k \in Groups \ {g} : q.groups[k] = p.groups[k]
      /\ Active(q, g) = Active(p, g) + a /\ Jobs(q, g) = Jobs(p, g) + j
      /\ Idle(q, g) = Idle(p, g) + i
      /\ q.handed_out = p.handed_out + a /\ q.connecting = p.connecting + j /\ q.idle = p.idle + i
  BY Zenon DEF Moves, Active, Jobs, Idle
<1>2. \A k \in Groups \ {g} :
          /\ Active(q, k) = Active(p, k) /\ Jobs(q, k) = Jobs(p, k)
          /\ Unassigned(q, k) = Unassigned(p, k) /\ Idle(q, k) = Idle(p, k)
  BY <1>1 DEF Active, Jobs, Idle, Unassigned
<1>3. /\ Active(p, g) \in Nat /\ Jobs(p, g) \in Nat /\ p.handed_out \in Nat /\ p.connecting \in Nat
  BY Numbers
<1>4. /\ Active(q, g) + Jobs(q, g) = Active(p, g) + Jobs(p, g) - 1
      /\ q.handed_out + q.connecting = p.handed_out + p.connecting - 1
  BY <1>1, <1>3
<1> QED
  BY <1>1, <1>2, <1>4 DEF Returns

LEMMA FreedFollows ==
    ASSUME NEW p, NEW q, NEW h \in Handles, Freed(p, q, h)
    PROVE  Follows(p, q) /\ q.handles[h].phase # "parked"
BY FreeHandleFields DEF Freed, Follows

\* The socket of h comes back.
LEMMA ReleaseRelieves ==
    ASSUME NEW p, NEW h, Apart(p, h), Steady(p), load \in Loads, SlotsAreUsed,
           p.handles[h].socket # NoSocket, NEW connected \in BOOLEAN,
           NEW q \in ReleaseSocket([p EXCEPT !.handles[h] = FreeHandle], p.handles[h].group,
                                   p.handles[h].socket, p.handles[h].pool_id, connected)
    PROVE  Good(q) /\ Relieves(p, q) /\ q.handles[h].phase # "parked"
<1> DEFINE r == [p EXCEPT !.handles[h] = FreeHandle]
           old == p.handles[h]
           g == old.group
           b == TakenBack(r, g)
           m == -1
<1>0. Core(p) /\ h \in Handles /\ p \in Pools
  BY DEF Apart, GoodBut, Core
<1>1. /\ Core(b) /\ Freed(p, b, h) /\ g \in b.group_map /\ RoomForOne(b, g)
      /\ Moves(p, b, g, m, 0, 0, 0)
  BY <1>0, TakenBackCore
<1>2. Good(b) /\ Follows(p, b) /\ b.handles[h].phase # "parked"
  <2> HIDE DEF b
  <2> QED BY <1>0, <1>1, FreedGood, FreedFollows
<1>3. q \in IF CanReuse(r, old.pool_id, connected)
            THEN OfferSlot(AddIdleSocket(b, g, old.socket), g)
            ELSE CheckForStalledSocketGroups(b)
  BY DEF ReleaseSocket, TakenBack
<1>4. r.generation = p.generation /\ b.generation = p.generation
  <2>1. r.generation = p.generation
    BY <1>0 DEF Pools
  <2> HIDE DEF r, b
  <2> QED BY <1>1, <2>1 DEF Freed
<1>5. old.socket = old.pool_id /\ g \in Groups
  BY <1>0 DEF Core, FreshInv
<1>6. m \in Int /\ 0 \in Int /\ m + 0 = -1 /\ 1 \in Int
  OBVIOUS
<1> HIDE DEF b, r, g, m
<1>7. \A k \in Groups : Requests(b, k) = Requests(p, k)
  BY <1>1 DEF Freed, Requests
<1>8. Calm(p, g)
  BY <1>5 DEF Steady, Calms
<1>9. ASSUME NEW s, NEW i \in Int, Moves(p, s, g, m, 0, i, 0),
             \A k \in Groups : Requests(s, k) = Requests(p, k)
      PROVE  Returns(p, s, g, i)
  <2>1. Jobs(s, g) = Jobs(p, g) + 0 /\ Unassigned(s, g) = Unassigned(p, g) + 0
    BY <1>9, Zenon DEF Moves, Jobs, Unassigned
  <2>2. Jobs(p, g) \in Nat /\ Unassigned(p, g) \in Nat
    BY <1>0, <1>5, Numbers
  <2>3. (Wants(s, g) => Wants(p, g)) /\ Covered(s, g)
    BY <1>5, <1>8, <1>9, <2>1, <2>2 DEF Wants, Calm, Covered
  <2> QED BY <1>0, <1>5, <1>6, <1>9, <2>3, MovesReturns
<1>10. CASE CanReuse(r, old.pool_id, connected)
  <2> DEFINE a == AddIdleSocket(b, g, b.generation)
             i == 1
  <2>1. q \in OfferSlot(a, g)
    BY <1>3, <1>4, <1>5, <1>10 DEF CanReuse
  <2>2. /\ Core(a) /\ Undisturbed(b, a, None) /\ a.group_map = b.group_map
        /\ Moves(b, a, g, 0, 0, i, 0) /\ a.handles = b.handles
    BY <1>1, AddIdleSocketCore
  <2>3. i \in Int /\ i \in {0, 1}
    OBVIOUS
  <2> HIDE DEF a, i
  <2>4. Good(a) /\ g \in a.group_map
    BY <1>1, <1>2, <2>2, UndisturbedNobody
  <2>5. \A k \in Groups : Requests(a, k) = Requests(p, k)
    BY <1>7, <2>2, SameRequests
  <2>6. Moves(p, a, g, m + 0, 0 + 0, 0 + i, 0 + 0)
    BY <1>0, <1>1, <1>5, <1>6, <2>2, <2>3, MovesTrans
  <2>7. Moves(p, a, g, m, 0, i, 0)
    BY <1>6, <2>3, <2>6
  <2>8. Returns(p, a, g, i)
    BY <1>9, <2>3, <2>5, <2>7
  <2>9. Follows(p, a)
    BY <1>2, <2>2, UndisturbedFollows, FollowsTrans
  <2>10. Good(q) /\ Relieves(p, q) /\ Follows(a, q)
    BY <1>0, <2>1, <2>3, <2>4, <2>8, <2>9, OfferRelieves
  <2> QED BY <1>0, <1>2, <2>2, <2>10 DEF Follows
<1>11. CASE ~CanReuse(r, old.pool_id, connected)
  <2>1. q \in CheckForStalledSocketGroups(b)
    BY <1>3, <1>11
  <2>2. Returns(p, b, g, 0)
    BY <1>1, <1>6, <1>7, <1>9
  <2>3. Good(q) /\ Relieves(p, q) /\ Follows(b, q)
    BY <1>0, <1>2, <1>5, <2>1, <2>2, CheckRelieves
  <2> QED BY <1>0, <1>2, <2>3 DEF Follows
<1> QED
  BY <1>10, <1>11

LEMMA ResetRelieves ==
    ASSUME NEW p, Good(p), Steady(p), load \in Loads, SlotsAreUsed, NEW h \in Handles,
           p.handles[h].phase \in {"ready", "parked"},
           NEW connected \in BOOLEAN, NEW q \in ResetHandle(p, h, connected)
    PROVE  Good(q) /\ Relieves(p, q) /\ q.handles[h].phase # "parked"
<1>1. Apart(p, h)
  BY NotWaiting
<1>2. p.handles[h].socket # NoSocket
  BY DEF Good, LinkOf
<1>3. q \in ReleaseSocket([p EXCEPT !.handles[h] = FreeHandle], p.handles[h].group,
                          p.handles[h].socket, p.handles[h].pool_id, connected)
  BY DEF ResetHandle
<1> QED
  BY <1>1, <1>2, <1>3, ReleaseRelieves

\* A job of g has ended, for the next request if there is one.
LEMMA JobGone ==
    ASSUME NEW p, NEW q, Core(p), Core(q), NEW g \in Groups, Calm(p, g),
           NEW a \in Int, NEW i \in Int, NEW d \in Int, d <= 0, Moves(p, q, g, a, -1, i, d),
           Requests(q, g) = Requests(p, g) - 1 \/ (Requests(p, g) = 0 /\ Requests(q, g) = 0)
    PROVE  /\ Wants(q, g) => Wants(p, g)
           /\ Requests(q, g) = Requests(p, g) - 1 => (Wants(p, g) => Wants(q, g))
           /\ Covered(q, g)
<1>1. Jobs(q, g) = Jobs(p, g) + (-1) /\ Unassigned(q, g) = Unassigned(p, g) + d
  BY Zenon DEF Moves, Jobs, Unassigned
<1>2. /\ Jobs(p, g) \in Nat /\ Unassigned(p, g) \in Nat /\ Requests(p, g) \in Nat
      /\ Jobs(q, g) \in Nat /\ Unassigned(q, g) \in Nat /\ Requests(q, g) \in Nat
      /\ Unassigned(q, g) <= Jobs(q, g)
  BY Numbers
<1>3. (Wants(q, g) => Wants(p, g)) /\ (Requests(q, g) = Requests(p, g) - 1 => (Wants(p, g) => Wants(q, g)))
  BY <1>1, <1>2 DEF Wants
<1>4. Covered(q, g)
  BY <1>1, <1>2 DEF Calm, Covered
<1> QED
  BY <1>3, <1>4

\* A job of g became the socket of its next request.
LEMMA JobUsed ==
    ASSUME NEW p, NEW q, Core(p), Core(q), Steady(p), NEW g \in Groups, NEW d \in Int, d <= 0,
           Moves(p, q, g, 1, -1, 0, d), Requests(q, g) = Requests(p, g) - 1,
           \A k \in Groups \ {g} : Requests(q, k) = Requests(p, k)
    PROVE  Steady(q) /\ (Quiet(p) => Quiet(q))
<1>0. Calm(p, g) /\ 1 \in Int /\ 0 \in Int
  BY DEF Steady, Calms
<1>1. /\ \A k \in Groups \ {g} : q.groups[k] = p.groups[k]
      /\ Active(q, g) = Active(p, g) + 1 /\ Jobs(q, g) = Jobs(p, g) + (-1)
      /\ Idle(q, g) = Idle(p, g) + 0
      /\ q.handed_out = p.handed_out + 1 /\ q.connecting = p.connecting + (-1) /\ q.idle = p.idle + 0
  BY Zenon DEF Moves, Active, Jobs, Idle
<1>2. /\ Active(p, g) \in Nat /\ Jobs(p, g) \in Nat /\ Idle(p, g) \in Nat
      /\ p.handed_out \in Nat /\ p.connecting \in Nat /\ p.idle \in Nat
      /\ Active(q, g) \in Nat /\ Jobs(q, g) \in Nat /\ Idle(q, g) \in Nat
      /\ MaxSocketsPerGroup \in Nat /\ MaxSockets \in Nat
  BY Numbers
<1>3. /\ Wants(q, g) => Wants(p, g)
      /\ Wants(p, g) => Wants(q, g)
      /\ Covered(q, g)
  BY <1>0, JobGone
<1>4. Calm(q, g) /\ (Stuck(q, g) => Stuck(p, g))
  BY <1>0, <1>1, <1>2, <1>3 DEF Calm, Stuck
<1>5. ASSUME NEW k \in Groups \ {g} PROVE Calm(q, k) /\ (Stuck(q, k) => Stuck(p, k))
  <2>1. /\ Active(q, k) = Active(p, k) /\ Jobs(q, k) = Jobs(p, k)
        /\ Unassigned(q, k) = Unassigned(p, k) /\ Idle(q, k) = Idle(p, k)
    BY <1>1 DEF Active, Jobs, Idle, Unassigned
  <2>2. Calm(p, k)
    BY DEF Steady, Calms
  <2> QED BY <2>1, <2>2 DEF Calm, Covered, Wants, Stuck
<1>6. Packed(p) => Packed(q)
  BY <1>1, <1>2 DEF Packed
<1>7. Quiet(p) => Quiet(q)
  BY <1>4, <1>5 DEF Quiet
<1> QED
  BY <1>4, <1>5, <1>6, <1>7 DEF Steady, Calms

LEMMA OnConnectJobCompleteRelieves ==
    ASSUME NEW p, Good(p), Steady(p), load \in Loads, SlotsAreUsed, NEW g \in Groups,
           NEW i \in DOMAIN p.groups[g].jobs,
           NEW rv \in {"OK", "ERR", "ERR_WITH_SOCKET"}, NEW q \in OnConnectJobComplete(p, g, i, rv)
    PROVE  Good(q) /\ Relieves(p, q)
<1> DEFINE socket == p.groups[g].jobs[i]
           waiting == p.groups[g].pending_requests # <<>>
           h == Head(p.groups[g].pending_requests)
           removed == RemoveConnectJob(p, g, i)
           popped == [removed EXCEPT !.groups[g] = RemovePendingRequest(@, h)]
           m == -1
<1>0. Core(p) /\ p \in Pools /\ ~p.failed /\ Calm(p, g)
  BY DEF Good, Core, Steady, Calms
<1>1. /\ Core(removed) /\ Undisturbed(p, removed, None) /\ g \in p.group_map
      /\ RoomForOne(removed, g) /\ removed.group_map = p.group_map /\ removed.handles = p.handles
      /\ \E d \in Int : d <= 0 /\ Moves(p, removed, g, 0, m, 0, d)
  BY <1>0, RemoveConnectJobCore
<1>2. Check(p, g \in p.group_map) = p
  <2>1. (g \in p.group_map) \in BOOLEAN
    OBVIOUS
  <2> QED BY <1>0, <1>1, <2>1, CheckHolds
<1>3. /\ waiting /\ rv \in {"OK", "ERR_WITH_SOCKET"} =>
            q = InvokeUserCallbackLater(HandOutSocket(popped, g, h, socket), h, rv)
      /\ waiting /\ rv = "ERR" => q \in OfferSlot(InvokeUserCallbackLater(popped, h, rv), g)
      /\ ~waiting /\ rv = "OK" => q \in OfferSlot(AddIdleSocket(removed, g, socket), g)
      /\ ~waiting /\ rv # "OK" => q \in OfferSlot(removed, g)
  <2> DEFINE one == InvokeUserCallbackLater(HandOutSocket(popped, g, h, socket), h, rv)
             two == OfferSlot(InvokeUserCallbackLater(popped, h, rv), g)
             three == OfferSlot(AddIdleSocket(removed, g, socket), g)
             four == OfferSlot(removed, g)
  <2>1. q \in CASE waiting /\ rv \in {"OK", "ERR_WITH_SOCKET"} -> {one}
                [] waiting /\ rv = "ERR" -> two
                [] ~waiting /\ rv = "OK" -> three
                [] OTHER -> four
    BY <1>2 DEF OnConnectJobComplete
  <2> HIDE DEF one, two, three, four, waiting
  <2>2. /\ waiting /\ rv \in {"OK", "ERR_WITH_SOCKET"} => q = one
        /\ waiting /\ rv = "ERR" => q \in two
        /\ ~waiting /\ rv = "OK" => q \in three
        /\ ~waiting /\ rv # "OK" => q \in four
    BY <2>1
  <2> QED BY <2>2 DEF one, two, three, four
<1>4. socket = p.generation
  <2>1. p.groups[g].jobs \in Seq(Generations) /\ GroupOK(p.groups[g], p.generation)
    BY <1>0, Sizes, GroupFields
  <2>2. i \in 1 .. Len(p.groups[g].jobs)
    BY <2>1, LenProperties
  <2> QED BY <2>1, <2>2 DEF GroupOK
<1>5. PICK d \in Int : d <= 0 /\ Moves(p, removed, g, 0, m, 0, d)
  BY <1>1
<1>6. m \in Int /\ 0 \in Int /\ 1 \in Int /\ m = -1 /\ 0 + m = -1
  OBVIOUS
<1>7. Good(removed) /\ removed.generation = p.generation /\ Follows(p, removed)
      /\ \A k \in Groups : Requests(removed, k) = Requests(p, k)
  <2> HIDE DEF removed
  <2> QED BY <1>1, UndisturbedNobody, UndisturbedFollows, SameRequests DEF Undisturbed
<1>8. Requests(p, g) = 0 <=> ~waiting
  <2>1. p.groups[g].pending_requests \in Seq(Handles)
    BY <1>0, Sizes, GroupFields
  <2> QED BY <2>1, EmptyIffLenZero DEF Requests
<1> HIDE DEF m
<1>9. ASSUME NEW s, Core(s), NEW e \in Int, Moves(p, s, g, 0, m, e, d),
             Requests(s, g) = Requests(p, g) - 1 \/ (Requests(p, g) = 0 /\ Requests(s, g) = 0),
             \A k \in Groups \ {g} : Requests(s, k) = Requests(p, k)
      PROVE  Returns(p, s, g, e)
  <2>1. Moves(p, s, g, 0, -1, e, d)
    BY <1>6, <1>9
  <2>2. (Wants(s, g) => Wants(p, g)) /\ Covered(s, g)
    BY <1>0, <1>5, <1>6, <1>9, <2>1, JobGone
  <2> QED BY <1>0, <1>5, <1>6, <1>9, <2>2, MovesReturns
<1>10. CASE waiting
  <2>1. h \in Handles /\ Queued(p, g, h)
    <3>1. p.groups[g].pending_requests \in Seq(Handles)
      BY <1>0, Sizes, GroupFields
    <3> QED BY <1>10, <3>1, TailHas DEF Queued
  <2>2. p.handles[h].group = g /\ p.handles[h].socket = NoSocket
    BY <2>1, QueuedFacts
  <2> HIDE DEF h, removed
  <2>3. Queued(removed, g, h) /\ GoodBut(removed, h)
    BY <1>1, <1>7, <2>1, GoodButNobody DEF Queued, Undisturbed
  <2>4. Answerable(popped, h) /\ Popped(removed, popped, g, h)
    BY <2>1, <2>3, PopGood
  <2> HIDE DEF popped
  <2>5. /\ Core(popped) /\ g \in popped.group_map /\ RoomForOne(popped, g)
        /\ popped.handles[h].group = g /\ popped.handles[h].socket = NoSocket
        /\ popped.generation = p.generation
    BY <1>1, <1>7, <2>2, <2>4 DEF Answerable, GoodBut, Popped
  <2>6. Moves(removed, popped, g, 0, 0, 0, 0) /\ Follows(removed, popped)
    BY <2>4 DEF Popped, Follows
  <2>7. Moves(p, popped, g, 0, m, 0, d)
    <3>1. Moves(p, popped, g, 0 + 0, m + 0, 0 + 0, d + 0)
      BY <1>0, <1>5, <1>6, <2>6, MovesTrans
    <3> QED BY <1>5, <1>6, <3>1
  <2>8. /\ Requests(popped, g) = Requests(p, g) - 1
        /\ \A k \in Groups \ {g} : Requests(popped, k) = Requests(p, k)
    <3>1. /\ Requests(popped, g) = Requests(removed, g) - 1
          /\ \A k \in Groups \ {g} : Requests(popped, k) = Requests(removed, k)
      BY <2>3, <2>4 DEF Popped, Requests
    <3> QED BY <1>7, <3>1
  <2>9. CASE rv \in {"OK", "ERR_WITH_SOCKET"}
    <3> DEFINE r == HandOutSocket(popped, g, h, popped.generation)
               s == InvokeUserCallbackLater(r, h, rv)
    <3>1. /\ Core(r) /\ Undisturbed(popped, r, h) /\ r.handles[h].socket # NoSocket
          /\ Moves(popped, r, g, 1, 0, 0, 0)
      BY <2>1, <2>5, HandOutSocketCore
    <3>2. q = s
      BY <1>3, <1>4, <1>10, <2>5, <2>9
    <3> HIDE DEF r
    <3>3. Answerable(r, h)
      BY <2>4, <3>1, UndisturbedAnswerable
    <3>4. /\ Good(s) /\ s.groups = r.groups /\ s.idle = r.idle /\ s.connecting = r.connecting
          /\ s.handed_out = r.handed_out
          /\ s.handles = r.handles /\ \A x : Has(r.tasks, x) => Has(s.tasks, x)
      BY <2>9, <3>1, <3>3, InvokeUserCallbackLaterGood
    <3> HIDE DEF s
    <3>5. Moves(p, r, g, 1, m, 0, d)
      <4>1. Moves(p, r, g, 0 + 1, m + 0, 0 + 0, d + 0)
        BY <1>0, <1>5, <1>6, <2>7, <3>1, MovesTrans
      <4> QED BY <1>5, <1>6, <4>1
    <3>6. /\ Requests(r, g) = Requests(p, g) - 1
          /\ \A k \in Groups \ {g} : Requests(r, k) = Requests(p, k)
      BY <2>8, <3>1, SameRequests
    <3>7. Steady(r) /\ (Quiet(p) => Quiet(r))
      BY <1>0, <1>5, <1>6, <3>1, <3>5, <3>6, JobUsed
    <3>8. Steady(s) /\ (Quiet(p) => Quiet(s))
      <4>1. SameCounts(r, s)
        BY <3>4, SameGroups
      <4> QED BY <3>7, <4>1, SameAlone
    <3>9. Follows(p, s)
      <4>1. Follows(popped, r) /\ Follows(r, s)
        BY <3>1, <3>4, UndisturbedFollows DEF Follows
      <4> QED BY <1>7, <2>6, <4>1, FollowsTrans
    <3> QED BY <3>2, <3>4, <3>8, <3>9 DEF Relieves
  <2>10. CASE rv = "ERR"
    <3> DEFINE r == InvokeUserCallbackLater(popped, h, rv)
    <3>1. /\ Good(r) /\ r.group_map = popped.group_map /\ r.groups = popped.groups
          /\ r.idle = popped.idle /\ r.connecting = popped.connecting
          /\ r.handed_out = popped.handed_out
          /\ r.handles = popped.handles /\ \A x : Has(popped.tasks, x) => Has(r.tasks, x)
      BY <2>4, <2>10, InvokeUserCallbackLaterGood
    <3>2. q \in OfferSlot(r, g)
      BY <1>3, <1>10, <2>10
    <3> HIDE DEF r
    <3>3. Moves(p, r, g, 0, m, 0, d)
      BY <2>7, <3>1, Zenon DEF Moves
    <3>4. \A k \in Groups : Requests(r, k) = Requests(popped, k)
      BY <3>1 DEF Requests
    <3>5. Returns(p, r, g, 0)
      BY <1>6, <1>9, <2>8, <3>1, <3>3, <3>4 DEF Good
    <3>6. Follows(p, r)
      <4>1. Follows(popped, r)
        BY <3>1 DEF Follows
      <4> QED BY <1>7, <2>6, <4>1, FollowsTrans
    <3>7. 0 \in {0, 1}
      OBVIOUS
    <3> QED BY <1>0, <2>5, <3>1, <3>2, <3>5, <3>6, <3>7, OfferRelieves
  <2> QED BY <2>9, <2>10
<1>11. CASE ~waiting /\ rv = "OK"
  <2> DEFINE r == AddIdleSocket(removed, g, removed.generation)
             e == 1
  <2>1. q \in OfferSlot(r, g)
    BY <1>3, <1>4, <1>7, <1>11
  <2> HIDE DEF removed
  <2>2. /\ Core(r) /\ Undisturbed(removed, r, None) /\ r.group_map = removed.group_map
        /\ Moves(removed, r, g, 0, 0, e, 0)
    BY <1>1, AddIdleSocketCore
  <2>3. e \in Int /\ e \in {0, 1}
    OBVIOUS
  <2> HIDE DEF r, e
  <2>4. Good(r) /\ g \in r.group_map /\ Follows(p, r)
    BY <1>1, <1>7, <2>2, UndisturbedNobody, UndisturbedFollows, FollowsTrans
  <2>5. Moves(p, r, g, 0, m, e, d)
    <3>1. Moves(p, r, g, 0 + 0, m + 0, 0 + e, d + 0)
      BY <1>0, <1>5, <1>6, <2>2, <2>3, MovesTrans
    <3> QED BY <1>5, <1>6, <2>3, <3>1
  <2>6. \A k \in Groups : Requests(r, k) = Requests(p, k)
    BY <1>7, <2>2, SameRequests
  <2>7. Returns(p, r, g, e)
    BY <1>8, <1>9, <1>11, <2>2, <2>3, <2>5, <2>6
  <2> QED BY <1>0, <2>1, <2>3, <2>4, <2>7, OfferRelieves
<1>12. CASE ~waiting /\ rv # "OK"
  <2>1. q \in OfferSlot(removed, g) /\ g \in removed.group_map
    BY <1>1, <1>3, <1>12
  <2> HIDE DEF removed
  <2>2. Returns(p, removed, g, 0)
    BY <1>1, <1>5, <1>6, <1>7, <1>8, <1>9, <1>12
  <2>3. 0 \in {0, 1}
    OBVIOUS
  <2> QED BY <1>0, <1>7, <2>1, <2>2, <2>3, OfferRelieves
<1> QED
  BY <1>10, <1>11, <1>12

LEMMA SameRelieves ==
    ASSUME NEW p, NEW q, Steady(p), SameCounts(p, q), Follows(p, q)
    PROVE  Relieves(p, q)
<1>1. CASE Groups = {}
  BY <1>1 DEF Relieves, Steady, Calms, Quiet
<1>2. CASE Groups # {}
  <2>1. PICK g \in Groups : TRUE
    BY <1>2
  <2> QED BY <2>1, SameAlone DEF Relieves
<1> QED
  BY <1>1, <1>2

\* One request less.
LEMMA PoppedSteady ==
    ASSUME NEW p, NEW q, Core(p), Core(q), Steady(p), NEW g \in Groups, Moves(p, q, g, 0, 0, 0, 0),
           Requests(q, g) = Requests(p, g) - 1,
           \A k \in Groups \ {g} : Requests(q, k) = Requests(p, k)
    PROVE  Steady(q) /\ (Quiet(p) => Quiet(q))
<1>1. /\ \A k \in Groups \ {g} : q.groups[k] = p.groups[k]
      /\ Active(q, g) = Active(p, g) + 0 /\ Jobs(q, g) = Jobs(p, g) + 0
      /\ Idle(q, g) = Idle(p, g) + 0 /\ Unassigned(q, g) = Unassigned(p, g) + 0
      /\ q.handed_out = p.handed_out + 0 /\ q.connecting = p.connecting + 0 /\ q.idle = p.idle + 0
  BY Zenon DEF Moves, Active, Jobs, Idle, Unassigned
<1>2. /\ Active(p, g) \in Nat /\ Jobs(p, g) \in Nat /\ Idle(p, g) \in Nat
      /\ Unassigned(p, g) \in Nat /\ Requests(p, g) \in Nat
      /\ p.handed_out \in Nat /\ p.connecting \in Nat /\ p.idle \in Nat
  BY Numbers
<1>3. Calm(p, g)
  BY DEF Steady, Calms
<1>4. Calm(q, g) /\ (Stuck(q, g) => Stuck(p, g))
  <2>1. Wants(q, g) => Wants(p, g)
    BY <1>1, <1>2 DEF Wants
  <2>2. Covered(q, g)
    BY <1>1, <1>2, <1>3 DEF Calm, Covered
  <2> QED BY <1>1, <1>2, <1>3, <2>1, <2>2 DEF Calm, Stuck
<1>5. ASSUME NEW k \in Groups \ {g} PROVE Calm(q, k) /\ (Stuck(q, k) => Stuck(p, k))
  <2>1. /\ Active(q, k) = Active(p, k) /\ Jobs(q, k) = Jobs(p, k)
        /\ Unassigned(q, k) = Unassigned(p, k) /\ Idle(q, k) = Idle(p, k)
    BY <1>1 DEF Active, Jobs, Idle, Unassigned
  <2>2. Calm(p, k)
    BY DEF Steady, Calms
  <2> QED BY <2>1, <2>2 DEF Calm, Covered, Wants, Stuck
<1>6. Packed(p) => Packed(q)
  BY <1>1, <1>2 DEF Packed
<1>7. Quiet(p) => Quiet(q)
  BY <1>4, <1>5 DEF Quiet
<1> QED
  BY <1>4, <1>5, <1>6, <1>7 DEF Steady, Calms

LEMMA CancelCallbackRelieves ==
    ASSUME NEW p, Good(p), Steady(p), load \in Loads, SlotsAreUsed, NEW h \in Handles,
           p.callbacks[h] # "none", NEW q \in CancelCallback(p, h)
    PROVE  Relieves(p, q)
<1> DEFINE r == [p EXCEPT !.callbacks[h] = "none"]
           old == p.handles[h]
<1>0. p \in Pools /\ GoodBut(p, h)
  BY GoodButNobody DEF Good, Core
<1>1. Apart(r, h) /\ r.handles = p.handles
  BY <1>0, ForgetCallback
<1>2. [p EXCEPT !.callbacks[h] = "none", !.handles[h] = FreeHandle]
        = [r EXCEPT !.handles[h] = FreeHandle]
  BY <1>0 DEF Pools
<1>3. /\ r.groups = p.groups /\ r.handed_out = p.handed_out /\ r.connecting = p.connecting
      /\ r.idle = p.idle /\ r.tasks = p.tasks
  BY <1>0 DEF Pools
<1> HIDE DEF r
<1>4. Relieves(p, r)
  <2>1. Follows(p, r)
    BY <1>1, <1>3 DEF Follows
  <2> QED BY <1>3, <2>1, SameGroups, SameRelieves
<1>5. CASE old.socket = NoSocket
  <2> DEFINE s == [r EXCEPT !.handles[h] = FreeHandle]
  <2>1. q = s
    BY <1>2, <1>5 DEF CancelCallback
  <2>2. Core(r) /\ r \in Pools
    BY <1>1 DEF Apart, GoodBut, Core
  <2>3. Freed(r, s, h)
    <3>1. r.handles[h].socket = NoSocket
      BY <1>1, <1>5
    <3> QED BY <2>2, <3>1, FreeCore
  <2>4. /\ s.groups = r.groups /\ s.handed_out = r.handed_out /\ s.connecting = r.connecting
        /\ s.idle = r.idle
    BY <2>2 DEF Pools
  <2> HIDE DEF s
  <2>5. Relieves(r, s)
    BY <1>4, <2>3, <2>4, SameGroups, SameRelieves, FreedFollows DEF Relieves
  <2> QED BY <1>4, <2>1, <2>5, RelievesTrans
<1>6. CASE old.socket # NoSocket
  <2>1. PICK connected \in {FALSE, p.callbacks[h] = "OK"} :
          q \in ReleaseSocket([r EXCEPT !.handles[h] = FreeHandle],
                              old.group, old.socket, old.pool_id, connected)
    BY <1>2, <1>6 DEF CancelCallback
  <2>2. connected \in BOOLEAN
    OBVIOUS
  <2>3. r.handles[h] = old /\ Steady(r)
    BY <1>1, <1>4 DEF Relieves
  <2> HIDE DEF old
  <2>4. Relieves(r, q)
    BY <1>1, <1>6, <2>1, <2>2, <2>3, ReleaseRelieves
  <2> QED BY <1>4, <2>4, RelievesTrans
<1> QED
  BY <1>5, <1>6

LEMMA CancelPendingRelieves ==
    ASSUME NEW p, Good(p), Steady(p), load \in Loads, SlotsAreUsed, NEW h \in Handles,
           p.handles[h].phase = "waiting", p.callbacks[h] = "none", NEW q \in CancelPending(p, h)
    PROVE  Relieves(p, q)
<1> DEFINE g == p.handles[h].group
           left == [p EXCEPT !.groups[g] = RemovePendingRequest(@, h)]
           r == [left EXCEPT !.handles[h] = FreeHandle]
<1>0. p \in Pools /\ ~p.failed /\ GoodBut(p, h) /\ Core(p)
  BY GoodButNobody DEF Good, Core
<1>1. g \in Groups /\ Queued(p, g, h) /\ p.handles[h].socket = NoSocket
  BY DEF Good, LinkOf
<1>2. Answerable(left, h) /\ Popped(p, left, g, h) /\ g \in p.group_map
  BY <1>0, <1>1, PopGood
<1>3. Check(p, g \in p.group_map) = p
  <2>1. (g \in p.group_map) \in BOOLEAN
    OBVIOUS
  <2> QED BY <1>0, <1>2, <2>1, CheckHolds
<1>4. [Check(p, g \in p.group_map) EXCEPT
          !.groups[g] = RemovePendingRequest(@, h), !.handles[h] = FreeHandle] = r
  BY <1>0, <1>3 DEF Pools
<1>5. Apart(left, h) /\ Core(left) /\ left.handles[h].socket = NoSocket /\ left \in Pools
  <2> HIDE DEF left
  <2> QED BY <1>1, <1>2 DEF Answerable, Apart, GoodBut, Popped, Core
<1>6. /\ Core(r) /\ Freed(left, r, h) /\ r.groups = left.groups
      /\ r.handed_out = left.handed_out /\ r.connecting = left.connecting /\ r.idle = left.idle
  <2> HIDE DEF left
  <2>1. Core(r) /\ Freed(left, r, h) /\ r.groups = left.groups
    BY <1>5, FreeCore
  <2>2. r.handed_out = left.handed_out /\ r.connecting = left.connecting /\ r.idle = left.idle
    BY <1>5 DEF Pools
  <2> QED BY <2>1, <2>2
<1>7. Good(r)
  <2> HIDE DEF left, r
  <2> QED BY <1>5, <1>6, FreedGood
<1>8. \/ q = r
      \/ \E i \in DOMAIN r.groups[g].jobs : q \in CheckForStalledSocketGroups(RemoveConnectJob(r, g, i))
  <2> HIDE DEF left, r
  <2> QED BY <1>4 DEF CancelPending
<1> HIDE DEF left, r, g
<1>9. Moves(p, r, g, 0, 0, 0, 0)
  <2>1. Moves(p, left, g, 0, 0, 0, 0)
    BY <1>2 DEF Popped
  <2> QED BY <1>6, <2>1, Zenon DEF Moves
<1>10. /\ Requests(r, g) = Requests(p, g) - 1
       /\ \A k \in Groups \ {g} : Requests(r, k) = Requests(p, k)
  BY <1>1, <1>2, <1>6 DEF Popped, Requests
<1>11. Follows(p, r)
  <2>1. Follows(p, left)
    BY <1>2 DEF Popped, Follows
  <2> QED BY <1>6, <2>1, FreedFollows, FollowsTrans
<1>12. CASE q = r
  BY <1>0, <1>1, <1>6, <1>9, <1>10, <1>11, <1>12, PoppedSteady DEF Relieves
<1>13. ASSUME NEW i \in DOMAIN r.groups[g].jobs,
              q \in CheckForStalledSocketGroups(RemoveConnectJob(r, g, i))
       PROVE  Relieves(p, q)
  <2> DEFINE s == RemoveConnectJob(r, g, i)
             m == -1
  <2>1. Core(s) /\ Undisturbed(r, s, None) /\ \E d \in Int : d <= 0 /\ Moves(r, s, g, 0, m, 0, d)
    BY <1>1, <1>6, RemoveConnectJobCore
  <2>2. m \in Int /\ 0 \in Int /\ 0 + m = -1 /\ m = -1
    OBVIOUS
  <2> HIDE DEF s, m
  <2>3. Good(s) /\ Follows(p, s)
    BY <1>7, <1>11, <2>1, UndisturbedNobody, UndisturbedFollows, FollowsTrans
  <2>4. q \in CheckForStalledSocketGroups(s)
    BY <1>13 DEF s
  <2>5. PICK d \in Int : d <= 0 /\ Moves(r, s, g, 0, m, 0, d)
    BY <2>1
  <2>6. Moves(p, s, g, 0, m, 0, d)
    <3>1. Moves(p, s, g, 0 + 0, 0 + m, 0 + 0, 0 + d)
      BY <1>0, <1>1, <1>9, <2>2, <2>5, MovesTrans
    <3> QED BY <2>2, <2>5, <3>1
  <2>7. /\ Requests(s, g) = Requests(p, g) - 1
        /\ \A k \in Groups \ {g} : Requests(s, k) = Requests(p, k)
    BY <1>1, <1>10, <2>1, SameRequests
  <2>8. (Wants(s, g) => Wants(p, g)) /\ Covered(s, g)
    <3>1. Moves(p, s, g, 0, -1, 0, d) /\ Calm(p, g)
      BY <1>1, <2>2, <2>6 DEF Steady, Calms
    <3> QED BY <1>0, <1>1, <2>1, <2>2, <2>5, <2>7, <3>1, JobGone
  <2>9. Returns(p, s, g, 0)
    BY <1>0, <1>1, <2>2, <2>5, <2>6, <2>7, <2>8, MovesReturns
  <2> QED BY <1>0, <1>1, <2>3, <2>4, <2>9, CheckRelieves
<1> QED
  BY <1>8, <1>12, <1>13

LEMMA FreeSlotQuiet ==
    ASSUME NEW p, Core(p), Steady(p), ~ReachedMaxSocketsLimit(p) \/ p.idle > 0
    PROVE  Quiet(p)
<1>1. p.handed_out \in Nat /\ p.connecting \in Nat /\ p.idle \in Nat /\ MaxSockets \in Nat
  BY Numbers
<1>2. ~Packed(p)
  BY <1>1 DEF Packed, ReachedMaxSocketsLimit
<1> QED
  BY <1>2 DEF Steady

\* Idle sockets are closed.
LEMMA PruneRelieves ==
    ASSUME NEW p, Good(p), Steady(p), NEW force \in BOOLEAN, NEW q \in CleanupIdleSockets(p, force)
    PROVE  Good(q) /\ Relieves(p, q)
<1>1. /\ Core(p) /\ Core(q) /\ Undisturbed(p, q, None) /\ Prunes(p, q) /\ Good(q)
      /\ Follows(p, q) /\ p.idle \in Nat
  BY CleanupIdleSocketsCore, UndisturbedNobody, UndisturbedFollows, Numbers DEF Good
<1>2. CASE p.idle = 0
  BY <1>1, <1>2 DEF Prunes, Relieves
<1>3. CASE p.idle > 0
  <2>1. Quiet(p)
    BY <1>1, <1>3, FreeSlotQuiet
  <2>2. ASSUME NEW k \in Groups PROVE Calm(q, k) /\ ~Stuck(q, k)
    <3>1. /\ Active(q, k) = Active(p, k) /\ Jobs(q, k) = Jobs(p, k)
          /\ Unassigned(q, k) = Unassigned(p, k) /\ Idle(q, k) <= Idle(p, k)
          /\ Requests(q, k) = Requests(p, k)
      BY <1>1, SameRequests DEF Prunes, Active, Jobs, Idle, Unassigned
    <3>2. Idle(p, k) \in Nat /\ Idle(q, k) \in Nat /\ Calm(p, k) /\ ~Stuck(p, k)
      BY <1>1, <2>1, Numbers DEF Steady, Calms, Quiet
    <3>3. (Wants(q, k) <=> Wants(p, k)) /\ Covered(q, k)
      BY <3>1, <3>2 DEF Wants, Calm, Covered
    <3>4. Wants(q, k) => Idle(p, k) = 0 /\ Idle(q, k) = 0
      BY <3>1, <3>2, <3>3 DEF Calm
    <3>5. Calm(q, k)
      BY <3>3, <3>4 DEF Calm
    <3>6. ~Stuck(q, k)
      BY <3>1, <3>2, <3>3, <3>4 DEF Stuck
    <3> QED BY <3>5, <3>6
  <2> QED BY <1>1, <2>2 DEF Relieves, Steady, Calms, Quiet
<1> QED
  BY <1>1, <1>2, <1>3

LEMMA PrunedRelieves ==
    ASSUME NEW p, Good(p), Steady(p), NEW q \in Pruned(p)
    PROVE  Good(q) /\ Relieves(p, q)
<1>1. q = p \/ q \in CleanupIdleSockets(p, FALSE)
  BY DEF Pruned
<1>2. Relieves(p, p)
  BY DEF Relieves, Follows
<1>3. FALSE \in BOOLEAN
  OBVIOUS
<1> QED
  BY <1>1, <1>2, <1>3, PruneRelieves

\* A socket or a job of g more, when no group is stalled.
LEMMA GrownQuiet ==
    ASSUME NEW p, NEW q, Core(p), Core(q), Calms(p), Quiet(p), NEW g \in Groups,
           NEW i \in {0, 1}, NEW j \in {0, 1}, NEW u \in {0, 1},
           Moves(p, q, g, 0, j, i, u), \A k \in Groups : Requests(q, k) = Requests(p, k),
           u <= j, i = 1 \/ u = 1 => ~Wants(p, g)
    PROVE  Calms(q) /\ Quiet(q)
<1>1. /\ \A k \in Groups \ {g} : q.groups[k] = p.groups[k]
      /\ Active(q, g) = Active(p, g) + 0 /\ Jobs(q, g) = Jobs(p, g) + j
      /\ Idle(q, g) = Idle(p, g) + i /\ Unassigned(q, g) = Unassigned(p, g) + u
  BY Zenon DEF Moves, Active, Jobs, Idle, Unassigned
<1>2. /\ Active(p, g) \in Nat /\ Jobs(p, g) \in Nat /\ Idle(p, g) \in Nat
      /\ Unassigned(p, g) \in Nat /\ Requests(p, g) \in Nat /\ MaxSocketsPerGroup \in Nat
  BY Numbers
<1>3. Calm(p, g) /\ ~Stuck(p, g)
  BY DEF Calms, Quiet
<1>4. Wants(q, g) => Wants(p, g)
  BY <1>1, <1>2 DEF Wants
<1>5. Covered(q, g)
  BY <1>1, <1>2, <1>3 DEF Calm, Covered, Wants
<1>6. Wants(q, g) => Idle(q, g) = Idle(p, g) /\ Idle(p, g) = 0
  BY <1>1, <1>2, <1>3, <1>4 DEF Calm
<1>7. Calm(q, g)
  BY <1>5, <1>6 DEF Calm
<1>8. ~Stuck(q, g)
  BY <1>1, <1>2, <1>3, <1>4, <1>6 DEF Stuck
<1>9. ASSUME NEW k \in Groups \ {g} PROVE Calm(q, k) /\ ~Stuck(q, k)
  <2>1. /\ Active(q, k) = Active(p, k) /\ Jobs(q, k) = Jobs(p, k)
        /\ Unassigned(q, k) = Unassigned(p, k) /\ Idle(q, k) = Idle(p, k)
    BY <1>1 DEF Active, Jobs, Idle, Unassigned
  <2>2. Calm(p, k) /\ ~Stuck(p, k)
    BY DEF Calms, Quiet
  <2> QED BY <2>1, <2>2 DEF Calm, Covered, Wants, Stuck
<1> QED
  BY <1>7, <1>8, <1>9 DEF Calms, Quiet

LEMMA StartBackupJobRelieves ==
    ASSUME NEW p, Good(p), Steady(p), load \in Loads, SlotsAreUsed, NEW g \in Groups, g \in p.group_map,
           RoomForOne(p, g), ~ReachedMaxSocketsLimit(p), NEW q \in StartBackupJob(p, g)
    PROVE  Relieves(p, q)
<1> DEFINE stopped == [p EXCEPT !.groups[g].backup_job_timer = FALSE]
           added == AddConnectJob(stopped, g, FALSE)
           last == Len(added.groups[g].jobs)
<1>0. Core(p) /\ p \in Pools /\ p.groups[g] \in SocketGroups /\ Quiet(p) /\ Calms(p)
  BY Sizes, FreeSlotQuiet DEF Good, Core, Steady
<1>1. CASE p.groups[g].pending_requests = <<>>
  <2>1. q = stopped
    BY <1>1 DEF StartBackupJob
  <2>2. /\ stopped.handles = p.handles /\ stopped.tasks = p.tasks /\ stopped.idle = p.idle
        /\ stopped.connecting = p.connecting /\ stopped.handed_out = p.handed_out
        /\ \A k \in Groups \ {g} : stopped.groups[k] = p.groups[k]
        /\ stopped.groups[g] = [p.groups[g] EXCEPT !.backup_job_timer = FALSE]
    <3> DEFINE gr == [p.groups[g] EXCEPT !.backup_job_timer = FALSE]
    <3>1. /\ stopped.handles = p.handles /\ stopped.tasks = p.tasks /\ stopped.idle = p.idle
          /\ stopped.connecting = p.connecting /\ stopped.handed_out = p.handed_out
          /\ stopped.groups = [p.groups EXCEPT ![g] = gr]
      BY <1>0 DEF Pools
    <3>2. p.groups \in [Groups -> SocketGroups]
      BY <1>0, PoolFields
    <3> HIDE DEF stopped, gr
    <3>3. /\ stopped.groups[g] = gr
          /\ \A k \in Groups \ {g} : stopped.groups[k] = p.groups[k]
      BY <3>1, <3>2
    <3> QED BY <3>1, <3>3 DEF gr
  <2> HIDE DEF stopped
  <2>3. /\ stopped.groups[g].active_socket_count = p.groups[g].active_socket_count
        /\ stopped.groups[g].jobs = p.groups[g].jobs
        /\ stopped.groups[g].idle_sockets = p.groups[g].idle_sockets
        /\ stopped.groups[g].pending_requests = p.groups[g].pending_requests
        /\ stopped.groups[g].unassigned_job_count = p.groups[g].unassigned_job_count
    BY <1>0, <2>2 DEF SocketGroups
  <2>4. SameCounts(p, stopped)
    <3>1. ASSUME NEW k \in Groups
          PROVE  /\ Active(stopped, k) = Active(p, k) /\ Jobs(stopped, k) = Jobs(p, k)
                 /\ Idle(stopped, k) = Idle(p, k)
                 /\ Unassigned(stopped, k) = Unassigned(p, k)
                 /\ Requests(stopped, k) = Requests(p, k)
      <4>1. CASE k = g
        BY <2>3, <4>1 DEF Active, Jobs, Idle, Unassigned, Requests
      <4>2. CASE k # g
        BY <2>2, <4>2 DEF Active, Jobs, Idle, Unassigned, Requests
      <4> QED BY <4>1, <4>2
    <3> QED BY <2>2, <3>1 DEF SameCounts
  <2>5. Follows(p, stopped)
    BY <2>2 DEF Follows
  <2> QED BY <2>1, <2>4, <2>5, SameRelieves
<1>2. CASE p.groups[g].pending_requests # <<>>
  <2>1. PICK rv \in ConnectResults : q \in IF rv = "ERR_IO_PENDING" THEN {added}
                                           ELSE OnConnectJobComplete(added, g, last, rv)
    BY <1>2 DEF StartBackupJob
  <2>2. rv \in Results
    BY LoadFields
  <2>3. /\ Core(added) /\ Undisturbed(p, added, None) /\ last \in DOMAIN added.groups[g].jobs
        /\ Moves(p, added, g, 0, 1, 0, 0)
    <3>1. FALSE \in BOOLEAN
      OBVIOUS
    <3>2. /\ Core(added) /\ Undisturbed(p, added, None) /\ last \in DOMAIN added.groups[g].jobs
          /\ Moves(p, added, g, 0, 1, 0, IF FALSE THEN 1 ELSE 0)
      BY <1>0, <3>1, AddConnectJobCore
    <3> QED BY <3>2
  <2> HIDE DEF added, last
  <2>4. Good(added) /\ Follows(p, added) /\ \A k \in Groups : Requests(added, k) = Requests(p, k)
    BY <2>3, UndisturbedNobody, UndisturbedFollows, SameRequests
  <2>5. Relieves(p, added)
    <3>1. 0 \in {0, 1} /\ 1 \in {0, 1} /\ 0 <= 1
      OBVIOUS
    <3>2. Calms(added) /\ Quiet(added)
      <4> DEFINE i == 0
                 j == 1
                 u == 0
      <4>1. /\ i \in {0, 1} /\ j \in {0, 1} /\ u \in {0, 1} /\ u <= j /\ i # 1 /\ u # 1
            /\ Moves(p, added, g, 0, j, i, u)
        BY <2>3
      <4> HIDE DEF i, j, u
      <4> QED BY <1>0, <2>3, <2>4, <4>1, GrownQuiet
    <3> QED BY <2>4, <3>2 DEF Relieves, Steady
  <2>6. CASE rv = "ERR_IO_PENDING"
    BY <2>1, <2>5, <2>6
  <2>7. CASE rv # "ERR_IO_PENDING"
    <3>1. rv \in {"OK", "ERR", "ERR_WITH_SOCKET"} /\ q \in OnConnectJobComplete(added, g, last, rv)
      BY <2>1, <2>2, <2>7 DEF Results
    <3>2. Relieves(added, q)
      BY <2>3, <2>4, <2>5, <3>1, OnConnectJobCompleteRelieves DEF Relieves
    <3> QED BY <2>5, <3>2, RelievesTrans
  <2> QED BY <2>6, <2>7
<1> QED
  BY <1>1, <1>2

\* A request of a preconnect.
LEMMA PreconnectRelieves ==
    ASSUME NEW p, Good(p), Steady(p), load \in Loads, SlotsAreUsed, NEW g \in Groups,
           NEW o \in RequestSocketInternal(p, g, None)
    PROVE  Relieves(p, o.pool)
<1> DEFINE found == GetOrCreateGroup(p, g)
           q == o.pool
<1>0. Core(p) /\ Asks(p, g, None)
  BY DEF Good, Asks
<1>1. /\ Core(found) /\ g \in found.group_map /\ found.handles = p.handles
      /\ Undisturbed(p, found, None)
  BY <1>0, GetOrCreateGroupCore
<1>2. SameCounts(p, found)
  BY <1>0, FoundSame
<1>3. o \in AllocateSocket(found, g, None)
  BY DEF RequestSocketInternal
<1> HIDE DEF found
<1>4. Good(found) /\ Relieves(p, found)
  BY <1>1, <1>2, SameRelieves, UndisturbedNobody, UndisturbedFollows
<1>5. /\ Core(q) /\ Undisturbed(found, q, None) /\ Allocated(found, o, g, None)
  <2>1. Asks(found, g, None)
    BY DEF Asks
  <2> QED BY <1>1, <1>3, <2>1, AllocateSocketCore
<1>6. Follows(found, q) /\ \A k \in Groups : Requests(q, k) = Requests(found, k)
  BY <1>5, UndisturbedFollows, SameRequests
<1> HIDE DEF q
<1>7. CASE q = found
  BY <1>4, <1>7 DEF q
<1>8. ASSUME NEW r, Cleared(found, r, g, None), Grows(r, o, g, None),
             HasAvailableSocketSlot(found.groups[g]),
             ~ReachedMaxSocketsLimit(found) \/ found.idle > 0
      PROVE  Relieves(p, q)
  <2>1. Quiet(found) /\ Calms(found) /\ Steady(found)
    BY <1>1, <1>4, <1>8, FreeSlotQuiet DEF Relieves, Steady
  <2>2. Core(r) /\ Spends(found, r, g, 0, 0, 0, 0) /\ Undisturbed(found, r, None)
    BY <1>1, <1>8, ClearedSpends DEF Cleared
  <2>3. ASSUME NEW k \in Groups \ {g} PROVE Calm(r, k) /\ ~Stuck(r, k)
    BY <1>1, <2>1, <2>2, SpendsOthers DEF Calms, Quiet
  <2>4. ~Wants(found, g) /\ Covered(found, g)
    <3>1. Active(found, g) + Jobs(found, g) + Idle(found, g) < MaxSocketsPerGroup
      BY <1>8 DEF HasAvailableSocketSlot, NumActiveSocketSlots, Active, Jobs, Idle
    <3> QED BY <2>1, <3>1 DEF Quiet, Stuck, Calms, Calm
  <2>5. ~Wants(r, g) /\ Covered(r, g)
    <3>1. /\ Jobs(r, g) = Jobs(found, g) + 0 /\ Unassigned(r, g) = Unassigned(found, g) + 0
          /\ Requests(r, g) = Requests(found, g) + 0
      BY <2>2 DEF Spends
    <3>2. Jobs(found, g) \in Nat /\ Unassigned(found, g) \in Nat /\ Requests(found, g) \in Nat
      BY <1>1, Numbers
    <3> QED BY <2>4, <3>1, <3>2 DEF Wants, Covered
  <2>6. Calms(r) /\ Quiet(r)
    BY <2>3, <2>5 DEF Calms, Calm, Quiet, Stuck
  <2>7. \A k \in Groups : Requests(q, k) = Requests(r, k)
    BY <1>6, <2>2, SameRequests
  <2>8. o.rv \in {"OK", "ERR_IO_PENDING"}
    BY <1>8 DEF Grows, SlotsAreUsed
  <2>9. PICK i \in {0, 1}, j \in {0, 1}, u \in {0, 1} : u <= j /\ Moves(r, q, g, 0, j, i, u)
    <3>1. CASE o.rv = "OK"
      <4>1. Moves(r, q, g, 0, 0, 1, 0)
        BY <1>8, <3>1 DEF Grows, q
      <4> QED BY <4>1
    <3>2. CASE o.rv = "ERR_IO_PENDING"
      <4>1. Moves(r, q, g, 0, 1, 0, 1)
        BY <1>8, <3>2 DEF Grows, q
      <4> QED BY <4>1
    <3> QED BY <2>8, <3>1, <3>2
  <2>10. Calms(q) /\ Quiet(q)
    BY <1>5, <2>2, <2>5, <2>6, <2>7, <2>9, GrownQuiet DEF q
  <2>11. Relieves(found, q)
    BY <1>6, <2>10 DEF Relieves, Steady
  <2> QED BY <1>4, <2>11, RelievesTrans
<1>9. q = found \/ \E r : /\ Cleared(found, r, g, None) /\ Grows(r, o, g, None)
                          /\ HasAvailableSocketSlot(found.groups[g])
                          /\ ~ReachedMaxSocketsLimit(found) \/ found.idle > 0
  BY <1>5, Zenon DEF Allocated, q, SlotsAreUsed
<1> QED
  BY <1>7, <1>8, <1>9 DEF q

\* The invariant: if every request minds the limits, a connection of a higher layer is idle while
\* a group is stalled only as long as the task that closes it is posted.
Reclaimed(p) ==
    IgnoreLimits = {} /\ ~Quiet(p) /\ Parked(p) # {} => Has(p.tasks, CloseTask)

Relieved(p) == Steady(p) /\ Reclaimed(p)

LEMMA RelievesKeeps ==
    ASSUME NEW p, NEW q, Relieved(p), Relieves(p, q)
    PROVE  Relieved(q)
<1>1. Parked(q) # {} => Parked(p) # {}
  BY DEF Relieves, Follows, Parked
<1> QED
  BY <1>1 DEF Relieved, Reclaimed, Relieves, Follows

\* A request has got a socket.
LEMMA GotSteady ==
    ASSUME NEW p, NEW q, Core(p), Core(q), Steady(p), NEW g \in Groups,
           Spends(p, q, g, 1, 0, 0, 0), Idle(q, g) < Idle(p, g) \/ Idle(q, g) = 0
    PROVE  Steady(q) /\ (Quiet(p) => Quiet(q))
<1>1. /\ Active(q, g) = Active(p, g) + 1 /\ Jobs(q, g) = Jobs(p, g) + 0
      /\ Unassigned(q, g) = Unassigned(p, g) + 0 /\ Requests(q, g) = Requests(p, g) + 0
      /\ Idle(q, g) <= Idle(p, g)
      /\ q.handed_out = p.handed_out + 1 /\ q.connecting = p.connecting + 0
      /\ q.idle + Idle(p, g) <= p.idle + Idle(q, g)
  BY DEF Spends
<1>2. /\ Active(p, g) \in Nat /\ Jobs(p, g) \in Nat /\ Idle(p, g) \in Nat
      /\ Unassigned(p, g) \in Nat /\ Requests(p, g) \in Nat
      /\ p.handed_out \in Nat /\ p.connecting \in Nat /\ p.idle \in Nat
      /\ q.idle \in Nat /\ Idle(q, g) \in Nat /\ Idle(p, g) <= p.idle
      /\ MaxSocketsPerGroup \in Nat /\ MaxSockets \in Nat
  BY Numbers
<1>3. Calm(p, g)
  BY DEF Steady, Calms
<1>4. (Wants(q, g) <=> Wants(p, g)) /\ Covered(q, g)
  BY <1>1, <1>2, <1>3 DEF Wants, Calm, Covered
<1>5. Wants(q, g) => Idle(p, g) = 0 /\ Idle(q, g) = 0
  BY <1>1, <1>2, <1>3, <1>4 DEF Calm
<1>6. Calm(q, g) /\ (Stuck(q, g) => Stuck(p, g))
  BY <1>1, <1>2, <1>4, <1>5 DEF Calm, Stuck
<1>7. ASSUME NEW k \in Groups \ {g} PROVE Calm(q, k) /\ (Stuck(q, k) <=> Stuck(p, k))
  <2>1. Calm(p, k)
    BY DEF Steady, Calms
  <2> QED BY <2>1, SpendsOthers
<1>8. Packed(p) => Packed(q)
  BY <1>1, <1>2 DEF Packed
<1>9. Quiet(p) => Quiet(q)
  BY <1>6, <1>7 DEF Quiet
<1> QED
  BY <1>6, <1>7, <1>8, <1>9 DEF Steady, Calms

\* A request is queued, which stalls its group only when the pool has no slot left.
LEMMA QueuedSteady ==
    ASSUME NEW p, NEW q, NEW r, Core(p), Core(q), Core(r), Steady(p), NEW g \in Groups,
           Idle(q, g) = 0, Queues(p, q, g), Spends(q, r, g, 0, 0, 0, 1)
    PROVE  Steady(r) /\ (Quiet(p) => Quiet(r) \/ Stuck(r, g))
<1>1. /\ Active(p, g) \in Nat /\ Jobs(p, g) \in Nat /\ Idle(p, g) \in Nat
      /\ Unassigned(p, g) \in Nat /\ Requests(p, g) \in Nat
      /\ p.handed_out \in Nat /\ p.connecting \in Nat /\ p.idle \in Nat
      /\ q.idle \in Nat /\ r.idle \in Nat /\ Idle(q, g) \in Nat /\ Idle(r, g) \in Nat
      /\ Idle(p, g) <= p.idle /\ MaxSocketsPerGroup \in Nat /\ MaxSockets \in Nat
      /\ q.handed_out \in Nat /\ q.connecting \in Nat
      /\ Active(q, g) \in Nat /\ Jobs(q, g) \in Nat /\ Unassigned(q, g) \in Nat
      /\ Requests(q, g) \in Nat
  BY Numbers
<1>2. Calm(p, g)
  BY DEF Steady, Calms
<1>3. ASSUME NEW k \in Groups \ {g} PROVE Calm(r, k) /\ (Stuck(r, k) <=> Stuck(p, k))
  <2>1. Calm(p, k)
    BY DEF Steady, Calms
  <2>2. PICK a, j, u, w : Spends(p, q, g, a, j, u, w)
    BY DEF Queues
  <2>3. Calm(q, k) /\ (Stuck(q, k) <=> Stuck(p, k))
    BY <2>1, <2>2, SpendsOthers
  <2> QED BY <2>3, SpendsOthers
<1>4. /\ Active(r, g) = Active(q, g) /\ Jobs(r, g) = Jobs(q, g)
      /\ Unassigned(r, g) = Unassigned(q, g) /\ Requests(r, g) = Requests(q, g) + 1
      /\ Idle(r, g) = 0 /\ r.handed_out = q.handed_out /\ r.connecting = q.connecting
      /\ r.idle <= q.idle
  <2>1. /\ Active(r, g) = Active(q, g) + 0 /\ Jobs(r, g) = Jobs(q, g) + 0
        /\ Unassigned(r, g) = Unassigned(q, g) + 0 /\ Requests(r, g) = Requests(q, g) + 1
        /\ Idle(r, g) <= Idle(q, g)
        /\ r.handed_out = q.handed_out + 0 /\ r.connecting = q.connecting + 0
        /\ r.idle + Idle(q, g) <= q.idle + Idle(r, g)
    BY DEF Spends
  <2> QED BY <1>1, <2>1
<1>5. ASSUME Calm(r, g), Stuck(r, g) => Stuck(p, g), Packed(p) => Packed(r)
      PROVE  Steady(r) /\ (Quiet(p) => Quiet(r))
  <2>1. Quiet(p) => Quiet(r)
    BY <1>3, <1>5 DEF Quiet
  <2> QED BY <1>3, <1>5, <2>1 DEF Steady, Calms
<1>6. CASE Unassigned(p, g) > 0 /\ Spends(p, q, g, 0, 0, -1, 0)
  <2>1. /\ Jobs(q, g) = Jobs(p, g) + 0 /\ Requests(q, g) = Requests(p, g) + 0
        /\ Unassigned(q, g) = Unassigned(p, g) + (-1)
        /\ q.handed_out = p.handed_out + 0 /\ q.connecting = p.connecting + 0
        /\ q.idle + Idle(p, g) <= p.idle + Idle(q, g)
    BY <1>6 DEF Spends
  <2>2. ~Wants(r, g) /\ Covered(r, g)
    BY <1>1, <1>2, <1>4, <1>6, <2>1 DEF Wants, Covered, Calm
  <2>3. Packed(p) => Packed(r)
    BY <1>1, <1>4, <2>1 DEF Packed
  <2> QED BY <1>5, <2>2, <2>3 DEF Calm, Stuck
<1>7. CASE Unassigned(p, g) = 0 /\ Spends(p, q, g, 0, 1, 0, 0)
  <2>1. /\ Jobs(q, g) = Jobs(p, g) + 1 /\ Requests(q, g) = Requests(p, g) + 0
        /\ Unassigned(q, g) = Unassigned(p, g) + 0 /\ Active(q, g) = Active(p, g) + 0
        /\ q.handed_out = p.handed_out + 0 /\ q.connecting = p.connecting + 1
        /\ q.idle + Idle(p, g) <= p.idle + Idle(q, g)
    BY <1>7 DEF Spends
  <2>2. (Wants(r, g) => Wants(p, g)) /\ Covered(r, g)
    BY <1>1, <1>4, <1>7, <2>1 DEF Wants, Covered
  <2>3. Packed(p) => Packed(r)
    BY <1>1, <1>4, <2>1 DEF Packed
  <2>4. Stuck(r, g) => Stuck(p, g)
    <3>1. Wants(p, g) => Idle(p, g) = 0
      BY <1>2 DEF Calm
    <3> QED BY <1>1, <1>4, <2>1, <2>2, <3>1 DEF Stuck
  <2> QED BY <1>4, <1>5, <2>2, <2>3, <2>4 DEF Calm
<1>8. CASE /\ Unassigned(p, g) = 0 /\ Spends(p, q, g, 0, 0, 0, 0)
           /\ Active(q, g) + Jobs(q, g) >= MaxSocketsPerGroup \/ Packed(q)
  <2>1. /\ Unassigned(q, g) = Unassigned(p, g) + 0
        /\ q.handed_out = p.handed_out + 0 /\ q.connecting = p.connecting + 0
        /\ q.idle + Idle(p, g) <= p.idle + Idle(q, g)
    BY <1>8 DEF Spends
  <2>2. Covered(r, g)
    BY <1>1, <1>4, <1>8, <2>1 DEF Covered
  <2>3. Calms(r)
    BY <1>3, <1>4, <2>2 DEF Calms, Calm
  <2>4. Packed(p) => Packed(r)
    BY <1>1, <1>4, <2>1 DEF Packed
  <2>5. Quiet(p) => Quiet(r) \/ Stuck(r, g)
    BY <1>3 DEF Quiet
  <2>6. CASE Active(q, g) + Jobs(q, g) >= MaxSocketsPerGroup
    <3>1. ~Stuck(r, g)
      BY <1>1, <1>4, <2>6 DEF Stuck
    <3> QED BY <2>3, <2>4, <2>5, <3>1 DEF Steady
  <2>7. CASE Packed(q)
    <3>1. Packed(r)
      BY <1>1, <1>4, <2>7 DEF Packed
    <3> QED BY <2>3, <2>5, <3>1 DEF Steady
  <2> QED BY <1>8, <2>6, <2>7
<1> QED
  BY <1>6, <1>7, <1>8 DEF Queues

\* A handle is told how its request has ended.
LEMMA CompletionFields ==
    ASSUME NEW p, p \in Pools, NEW h \in Handles, NEW rv
    PROVE  LET q == HandleInitCompletion(p, h, rv) IN SameCounts(p, q) /\ Follows(p, q)
<1> DEFINE q == HandleInitCompletion(p, h, rv)
           hs == IF rv # "OK" /\ p.handles[h].socket = NoSocket THEN FreeHandle
                 ELSE [p.handles[h] EXCEPT !.phase = "ready"]
<1>0. p.handles \in [Handles -> HandleStates]
  BY PoolFields
<1>1. q = [p EXCEPT !.handles[h] = hs]
  <2>1. CASE rv # "OK" /\ p.handles[h].socket = NoSocket
    BY <2>1 DEF HandleInitCompletion
  <2>2. CASE ~(rv # "OK" /\ p.handles[h].socket = NoSocket)
    <3>1. q = [p EXCEPT !.handles[h].phase = "ready"] /\ hs = [p.handles[h] EXCEPT !.phase = "ready"]
      BY <2>2 DEF HandleInitCompletion
    <3> HIDE DEF q, hs
    <3>2. [p EXCEPT !.handles[h].phase = "ready"] = [p EXCEPT !.handles[h] = hs]
      BY <3>1 DEF Pools
    <3> QED BY <3>1, <3>2
  <2> QED BY <2>1, <2>2
<1>2. hs.phase # "parked"
  <2>1. [p.handles[h] EXCEPT !.phase = "ready"].phase = "ready"
    BY <1>0 DEF HandleStates
  <2> QED BY <2>1, FreeHandleFields
<1> HIDE DEF q, hs
<1>3. /\ q.groups = p.groups /\ q.handed_out = p.handed_out /\ q.connecting = p.connecting
      /\ q.idle = p.idle /\ q.tasks = p.tasks /\ q.handles = [p.handles EXCEPT ![h] = hs]
  BY <1>1 DEF Pools
<1>4. SameCounts(p, q)
  BY <1>3, SameGroups
<1>5. Follows(p, q)
  BY <1>0, <1>2, <1>3 DEF Follows
<1> QED
  BY <1>4, <1>5 DEF q

-----------------------------------------------------------------------------
(* Every action leaves the pool relieved *)

\* The request of h is queued in g.
LEMMA EnqueuedSpends ==
    ASSUME NEW p, NEW q, Core(p), Core(q), NEW g \in Groups, NEW h, Enqueued(p, q, g, h)
    PROVE  /\ Spends(p, q, g, 0, 0, 0, 1) /\ Follows(p, q)
           /\ Stuck(q, g) => Has(q.tasks, CloseTask)
<1>1. /\ Requests(q, g) = Requests(p, g) + 1 /\ Active(q, g) = Active(p, g)
      /\ Jobs(q, g) = Jobs(p, g) /\ Idle(q, g) = Idle(p, g) /\ Unassigned(q, g) = Unassigned(p, g)
      /\ q.idle = p.idle /\ q.connecting = p.connecting /\ q.handed_out = p.handed_out
      /\ \A k \in Groups \ {g} : q.groups[k] = p.groups[k]
  BY Zenon DEF Enqueued, Requests, Active, Jobs, Idle, Unassigned
<1>2. \A k \in Groups \ {g} :
          /\ Active(q, k) = Active(p, k) /\ Jobs(q, k) = Jobs(p, k) /\ Requests(q, k) = Requests(p, k)
          /\ Unassigned(q, k) = Unassigned(p, k) /\ Idle(q, k) = Idle(p, k)
  BY <1>1 DEF Active, Jobs, Idle, Unassigned, Requests
<1>3. /\ \A k \in Groups : /\ Active(p, k) \in Nat /\ Jobs(p, k) \in Nat /\ Idle(p, k) \in Nat
                           /\ Unassigned(p, k) \in Nat /\ Requests(p, k) \in Nat
      /\ p.idle \in Nat /\ p.connecting \in Nat /\ p.handed_out \in Nat
  BY Numbers
<1>4. Spends(p, q, g, 0, 0, 0, 1)
  BY <1>1, <1>2, <1>3 DEF Spends
<1>5. Follows(p, q)
  BY DEF Enqueued, Follows
<1>6. Stuck(q, g) => Has(q.tasks, CloseTask)
  BY StuckIsStalled DEF Enqueued
<1> QED
  BY <1>4, <1>5, <1>6

LEMMA RequestSocketRelieved ==
    ASSUME IInv, SlotsAreUsed, Relieved(pool), NEW h \in Handles, NEW g \in Groups, RequestSocket(h, g)
    PROVE  Relieved(pool')
<1>0. Good(pool) /\ load \in Loads /\ pool.handles[h].phase = "free" /\ Steady(pool)
  BY DEF IInv, RequestSocket, Relieved
<1>1. PICK p \in Pruned(pool) :
         \E o \in RequestSocketInternal([p EXCEPT !.handles[h].group = g], g, h) :
            pool' = IF o.rv = "ERR_IO_PENDING" THEN Waiting(o.pool, g, h)
                    ELSE HandleInitCompletion(o.pool, h, o.rv)
  BY DEF RequestSocket
<1> DEFINE q == [p EXCEPT !.handles[h].group = g]
           hs == [p.handles[h] EXCEPT !.group = g]
<1>2. PICK o \in RequestSocketInternal(q, g, h) :
          pool' = IF o.rv = "ERR_IO_PENDING" THEN Waiting(o.pool, g, h)
                  ELSE HandleInitCompletion(o.pool, h, o.rv)
  BY <1>1
<1>3. Good(p) /\ Core(p) /\ p.handles[h].phase = "free" /\ Relieves(pool, p)
  BY <1>0, PrunedGood, PrunedRelieves DEF Good
<1>4. Apart(p, h) /\ p.handles[h] = FreeHandle /\ p.handles[h].socket = NoSocket
  BY <1>3, NotWaiting, FreeHandleFields DEF Good, LinkOf
<1>5. p \in Pools /\ p.handles[h] \in HandleStates
  BY <1>3, HandleFields DEF Core
<1>6. hs \in HandleStates /\ hs.group = g /\ hs.socket = NoSocket /\ hs.phase = p.handles[h].phase
  BY <1>4, <1>5 DEF HandleStates
<1>7. q = [p EXCEPT !.handles[h] = hs]
  BY <1>5 DEF Pools
<1> HIDE DEF q, hs
<1>8. KeepsSocket(p.handles[h], hs)
  BY <1>4, <1>6 DEF KeepsSocket
<1>9. Core(q) /\ Rehandled(p, q, h, hs)
  BY <1>3, <1>7, <1>8, RehandledCore
<1>10. Apart(q, h) /\ Asks(q, g, h) /\ q.handles[h] = hs
  BY <1>4, <1>6, <1>9, RehandledApart DEF Asks, Rehandled
<1>11. Core(o.pool) /\ Undisturbed(q, o.pool, h) /\ Connected(q, o, g, h)
  BY <1>0, <1>9, <1>10, RequestSocketInternalCore
<1>12. Apart(o.pool, h)
  <2>1. GoodBut(o.pool, h) /\ \A f \in Groups : \A k : Queued(o.pool, f, k) <=> Queued(q, f, k)
    BY <1>10, <1>11, UndisturbedGood DEF Apart
  <2> QED BY <1>10, <1>11, <2>1 DEF Apart, Undisturbed
<1>13. Relieves(p, q)
  <2>1. SameCounts(p, q)
    <3>1. q.groups = p.groups /\ q.idle = p.idle /\ q.connecting = p.connecting /\ q.handed_out = p.handed_out
      BY <1>5, <1>7 DEF Pools
    <3> QED BY <3>1, SameGroups
  <2>2. Follows(p, q)
    <3>1. q.tasks = p.tasks /\ q.handles = [p.handles EXCEPT ![h] = hs] /\ p.handles \in [Handles -> HandleStates]
      BY <1>5, <1>7 DEF Pools
    <3> QED BY <1>6, <3>1 DEF Follows
  <2> QED BY <1>3, <2>1, <2>2, SameRelieves DEF Relieves
<1>14. Relieves(pool, q) /\ Steady(q) /\ Relieved(q)
  BY <1>3, <1>13, RelievesTrans, RelievesKeeps DEF Relieves
<1>15. Asked(q, o, g)
  BY <1>0, <1>9, <1>10, RequestAsked
<1>16. Follows(q, o.pool)
  BY <1>11, UndisturbedFollows
<1>17. CASE o.rv = "ERR_IO_PENDING"
  <2> DEFINE s == Waiting(o.pool, g, h)
  <2>1. o.pool.handles[h] = hs /\ g \in o.pool.group_map
    BY <1>10, <1>11, <1>17 DEF Connected
  <2>2. Good(s) /\ Enqueued(o.pool, s, g, h)
    BY <1>6, <1>12, <2>1, WaitingGood
  <2>3. pool' = s
    BY <1>2, <1>17
  <2> HIDE DEF s
  <2>4. Core(s)
    BY <2>2 DEF Good
  <2>5. Spends(o.pool, s, g, 0, 0, 0, 1) /\ Follows(o.pool, s) /\ (Stuck(s, g) => Has(s.tasks, CloseTask))
    BY <1>11, <2>2, <2>4, EnqueuedSpends
  <2>6. Idle(o.pool, g) = 0 /\ Queues(q, o.pool, g)
    BY <1>15, <1>17 DEF Asked
  <2>7. Steady(s) /\ (Quiet(q) => Quiet(s) \/ Stuck(s, g))
    BY <1>9, <1>11, <1>14, <2>4, <2>5, <2>6, QueuedSteady
  <2>8. Follows(q, s)
    BY <1>16, <2>5, FollowsTrans
  <2>9. Parked(s) # {} => Parked(q) # {}
    BY <2>8 DEF Follows, Parked
  <2>10. Reclaimed(s)
    BY <1>14, <2>5, <2>7, <2>8, <2>9 DEF Reclaimed, Relieved, Follows
  <2> QED BY <2>3, <2>7, <2>10 DEF Relieved
<1>18. CASE o.rv = "OK"
  <2> DEFINE s == HandleInitCompletion(o.pool, h, o.rv)
  <2>1. pool' = s
    BY <1>2, <1>18
  <2>2. o.pool \in Pools
    BY <1>11 DEF Core
  <2>3. SameCounts(o.pool, s) /\ Follows(o.pool, s)
    BY <2>2, CompletionFields
  <2> HIDE DEF s
  <2>4. Spends(q, o.pool, g, 1, 0, 0, 0) /\ (Idle(o.pool, g) < Idle(q, g) \/ Idle(o.pool, g) = 0)
    BY <1>15, <1>18 DEF Asked
  <2>5. Steady(o.pool) /\ (Quiet(q) => Quiet(o.pool))
    BY <1>9, <1>11, <1>14, <2>4, GotSteady
  <2>6. Relieves(q, o.pool) /\ Relieves(o.pool, s)
    BY <1>16, <2>3, <2>5, SameRelieves DEF Relieves
  <2> QED BY <1>14, <2>1, <2>6, RelievesKeeps
<1> QED
  BY <1>15, <1>17, <1>18 DEF Asked

LEMMA RequestSocketsRelieved ==
    ASSUME IInv, SlotsAreUsed, Relieved(pool), NEW g \in Groups, NEW num \in 1 .. MaxSocketsPerGroup + 1,
           RequestSockets(g, num)
    PROVE  Relieved(pool')
<1> DEFINE X == {o \in [pool : Pools, rv : Results] : Reached(o, g) /\ Relieves(pool, o.pool)}
<1>0. Good(pool) /\ load \in Loads /\ Steady(pool)
  BY DEF IInv, Relieved
<1>1. ASSUME NEW n, NEW r \in X, NEW s \in PreconnectOnce(r, g, n) PROVE s \in X
  <2>1. Reached(s, g) /\ (s = r \/ (s \in [pool : Pools, rv : Results]))
    BY <1>0, <1>1, PreconnectOnceGood
  <2>2. CASE s # r
    <3> DEFINE c(q) == q.rv \in {"ERR", "ERR_WITH_SOCKET"} \/ g \in q.pool.group_map
    <3>1. PICK q \in RequestSocketInternal(r.pool, g, None) :
              s = [pool |-> Check(q.pool, c(q)), rv |-> q.rv]
      BY <1>1, <2>2 DEF PreconnectOnce
    <3>2. Core(r.pool) /\ Good(r.pool) /\ Asks(r.pool, g, None) /\ Steady(r.pool)
      BY DEF Reached, Good, Asks, Relieves
    <3>3. Core(q.pool) /\ Connected(r.pool, q, g, None)
      BY <1>0, <3>1, <3>2, RequestSocketInternalCore
    <3>4. c(q) \in BOOLEAN /\ c(q)
      BY <3>3 DEF Connected, Results
    <3>5. Check(q.pool, c(q)) = q.pool
      <4>1. q.pool \in Pools /\ ~q.pool.failed
        BY <3>3 DEF Core
      <4> HIDE DEF c
      <4> QED BY <3>4, <4>1, CheckHolds
    <3>6. s.pool = q.pool
      BY <3>1, <3>5
    <3>7. Relieves(r.pool, q.pool)
      BY <1>0, <3>1, <3>2, PreconnectRelieves
    <3>8. Relieves(pool, s.pool)
      BY <3>6, <3>7, RelievesTrans
    <3> QED BY <2>1, <2>2, <3>8
  <2> QED BY <2>2
<1>2. ASSUME NEW p \in Pruned(pool)
      PROVE  [pool |-> GetOrCreateGroup(p, g), rv |-> "OK"] \in X
  <2> DEFINE q == GetOrCreateGroup(p, g)
             s == [pool |-> q, rv |-> "OK"]
  <2>1. Good(p) /\ Core(p) /\ Relieves(pool, p) /\ Steady(p)
    BY <1>0, PrunedRelieves DEF Good, Relieves
  <2>2. Core(q) /\ Undisturbed(p, q, None) /\ g \in q.group_map
    BY <2>1, GetOrCreateGroupCore
  <2>3. SameCounts(p, q)
    BY <2>1, FoundSame
  <2> HIDE DEF q
  <2>4. Good(q)
    BY <2>1, <2>2, UndisturbedNobody
  <2>5. Relieves(pool, q)
    BY <2>1, <2>2, <2>3, UndisturbedFollows, SameRelieves, RelievesTrans
  <2>6. q \in Pools /\ "OK" \in Results
    BY <2>2 DEF Core, Results
  <2>7. s \in [pool : Pools, rv : Results] /\ s.pool = q
    BY <2>6
  <2>8. Reached(s, g)
    BY <2>2, <2>4, <2>7 DEF Reached
  <2>9. s \in X
    BY <2>5, <2>7, <2>8
  <2> QED BY <2>9 DEF q
<1>3. PICK o \in X : pool' = IF g \in o.pool.group_map THEN RemoveIfEmpty(o.pool, g) ELSE o.pool
  <2>1. \A n : \A r \in X : PreconnectOnce(r, g, n) \in SUBSET X
    BY <1>1
  <2> HIDE DEF X
  <2> QED BY <1>2, <2>1, PreconnectLoop
<1>4. Good(o.pool) /\ Core(o.pool) /\ Relieves(pool, o.pool)
  BY DEF Reached, Good
<1>5. CASE g \in o.pool.group_map
  <2> DEFINE q == RemoveIfEmpty(o.pool, g)
  <2>1. Core(q) /\ Undisturbed(o.pool, q, None) /\ Shrunk(o.pool, q, g)
    BY <1>4, <1>5, RemoveIfEmptyCore
  <2>2. pool' = q
    BY <1>3, <1>5
  <2> HIDE DEF q
  <2>3. SameCounts(o.pool, q)
    BY <2>1, SameGroups DEF Shrunk
  <2>4. Relieves(o.pool, q)
    BY <1>4, <2>1, <2>3, UndisturbedFollows, SameRelieves DEF Relieves
  <2> QED BY <1>4, <2>2, <2>4, RelievesKeeps
<1>6. CASE g \notin o.pool.group_map
  BY <1>3, <1>4, <1>6, RelievesKeeps
<1> QED
  BY <1>5, <1>6

\* While a group is stuck the pool says that it is stalled.
LEMMA StuckStalls ==
    ASSUME NEW p, Core(p), Steady(p), ~Quiet(p), NEW lower
    PROVE  IsStalled(p, lower)
<1>1. PICK g \in Groups : Stuck(p, g)
  BY DEF Quiet
<1>2. p.handed_out + p.connecting >= MaxSockets
  BY DEF Steady, Packed
<1> QED
  BY <1>1, <1>2, StuckIsStalled DEF IsStalled

LEMMA ClientActionsRelieved ==
    ASSUME IInv, SlotsAreUsed, Relieved(pool), NEW h \in Handles,
           \/ \E connected \in BOOLEAN : Release(h, connected)
           \/ CancelRequest(h) \/ Park(h) \/ Unpark(h)
    PROVE  Relieved(pool')
<1>0. Good(pool) /\ load \in Loads /\ Core(pool) /\ FALSE \in BOOLEAN /\ Steady(pool)
  BY DEF IInv, Good, Relieved
<1>1. ASSUME NEW connected \in BOOLEAN, Release(h, connected) PROVE Relieved(pool')
  <2>1. pool.handles[h].phase \in {"ready", "parked"} /\ pool' \in ResetHandle(pool, h, connected)
    BY <1>1 DEF Release
  <2> QED BY <1>0, <2>1, ResetRelieves, RelievesKeeps
<1>2. CASE CancelRequest(h)
  <2>1. CASE pool.callbacks[h] # "none"
    <3>1. pool' \in CancelCallback(pool, h)
      BY <1>2, <2>1 DEF CancelRequest
    <3> QED BY <1>0, <2>1, <3>1, CancelCallbackRelieves, RelievesKeeps
  <2>2. CASE pool.callbacks[h] = "none"
    <3>1. pool' \in CancelPending(pool, h) /\ pool.handles[h].phase = "waiting"
      BY <1>2, <2>2 DEF CancelRequest
    <3> QED BY <1>0, <2>2, <3>1, CancelPendingRelieves, RelievesKeeps
  <2> QED BY <2>1, <2>2
<1>3. ASSUME NEW ph \in {"ready", "parked"}, pool' = [pool EXCEPT !.handles[h].phase = ph]
      PROVE  /\ SameCounts(pool, pool') /\ pool'.tasks = pool.tasks
             /\ \A k \in Handles \ {h} : pool'.handles[k].phase = pool.handles[k].phase
             /\ pool'.handles[h].phase = ph
  <2> DEFINE q == [pool EXCEPT !.handles[h].phase = ph]
             hs == [pool.handles[h] EXCEPT !.phase = ph]
  <2>1. Core(q) /\ Rehandled(pool, q, h, hs) /\ hs.phase = ph
    <3>1. ph \in Initialized
      BY DEF Initialized
    <3> QED BY <1>0, <3>1, RephasedFacts
  <2>2. q.groups = pool.groups /\ q.handed_out = pool.handed_out /\ q.connecting = pool.connecting
        /\ q.idle = pool.idle
    BY <1>0 DEF Core, Pools
  <2> HIDE DEF q, hs
  <2>3. SameCounts(pool, q)
    BY <2>2, SameGroups
  <2> QED BY <1>3, <2>1, <2>3 DEF Rehandled, q
<1>4. CASE Park(h)
  <2>1. PICK lower \in LowerStalls :
            pool' \in IF IsStalled(pool, lower) THEN ResetHandle(pool, h, FALSE)
                      ELSE {[pool EXCEPT !.handles[h].phase = "parked"]}
    BY <1>4 DEF Park
  <2>2. pool.handles[h].phase \in {"ready", "parked"}
    BY <1>4 DEF Park
  <2>3. CASE IsStalled(pool, lower)
    <3>1. pool' \in ResetHandle(pool, h, FALSE)
      BY <2>1, <2>3
    <3> QED BY <1>0, <2>2, <3>1, ResetRelieves, RelievesKeeps
  <2>4. CASE ~IsStalled(pool, lower)
    <3>1. Quiet(pool)
      BY <1>0, <2>4, StuckStalls
    <3>2. SameCounts(pool, pool')
      BY <1>3, <2>1, <2>4
    <3>3. Steady(pool') /\ Quiet(pool')
      <4>1. CASE Groups = {}
        BY <4>1 DEF Steady, Quiet, Calms
      <4>2. CASE Groups # {}
        BY <1>0, <3>1, <3>2, <4>2, SameAlone
      <4> QED BY <4>1, <4>2
    <3> QED BY <3>3 DEF Relieved, Reclaimed
  <2> QED BY <2>3, <2>4
<1>5. CASE Unpark(h)
  <2>1. pool.handles[h].phase = "parked" /\ pool' = [pool EXCEPT !.handles[h].phase = "ready"]
    BY <1>5 DEF Unpark
  <2>2. SameCounts(pool, pool') /\ Follows(pool, pool')
    BY <1>3, <2>1 DEF Follows
  <2> QED BY <1>0, <2>2, SameRelieves, RelievesKeeps
<1> QED
  BY <1>1, <1>2, <1>4, <1>5

LEMMA JobActionsRelieved ==
    ASSUME IInv, SlotsAreUsed, Relieved(pool), NEW g \in Groups,
           ConnectJobComplete(g) \/ OnBackupJobTimerFired(g)
    PROVE  Relieved(pool')
<1>0. Good(pool) /\ load \in Loads /\ Core(pool) /\ Steady(pool)
  BY DEF IInv, Good, Relieved
<1>1. CASE ConnectJobComplete(g)
  <2>1. PICK i \in DOMAIN pool.groups[g].jobs, rv \in {"OK", "ERR", "ERR_WITH_SOCKET"} :
            pool' \in OnConnectJobComplete(pool, g, i, rv)
    BY <1>1 DEF ConnectJobComplete
  <2> QED BY <1>0, <2>1, OnConnectJobCompleteRelieves, RelievesKeeps
<1>2. CASE OnBackupJobTimerFired(g)
  <2> DEFINE gr == pool.groups[g]
             later == ReachedMaxSocketsLimit(pool) \/ ~HasAvailableSocketSlot(gr)
  <2>1. /\ gr.backup_job_timer
        /\ pool' \in IF gr.jobs = <<>> THEN {Check(pool, FALSE)}
                     ELSE IF later THEN {pool} ELSE StartBackupJob(pool, g)
    BY <1>2 DEF OnBackupJobTimerFired
  <2>2. gr.jobs # <<>> /\ g \in pool.group_map
    <3>1. GroupOK(gr, pool.generation) /\ (g \notin pool.group_map => gr = NewGroup)
      BY <1>0, Sizes
    <3> QED BY <2>1, <3>1, NewGroupFields DEF GroupOK
  <2>3. CASE later
    <3>1. pool' = pool
      BY <2>1, <2>2, <2>3
    <3> QED BY <3>1
  <2>4. CASE ~later
    <3>1. pool' \in StartBackupJob(pool, g)
      BY <2>1, <2>2, <2>4
    <3>2. Total(pool) < MaxSockets /\ HasAvailableSocketSlot(gr)
      <4>1. Total(pool) \in Nat /\ MaxSockets \in Nat
        BY <1>0, Sizes, PoolAssumption
      <4>2. ~(Total(pool) >= MaxSockets) /\ HasAvailableSocketSlot(gr)
        BY <2>4 DEF ReachedMaxSocketsLimit, Total
      <4> QED BY <4>1, <4>2
    <3>3. RoomForOne(pool, g) /\ ~ReachedMaxSocketsLimit(pool)
      BY <2>4, <3>2 DEF RoomForOne
    <3> QED BY <1>0, <2>2, <3>1, <3>3, StartBackupJobRelieves, RelievesKeeps
  <2> QED BY <2>3, <2>4
<1> QED
  BY <1>1, <1>2

LEMMA IdleActionsRelieved ==
    ASSUME IInv, SlotsAreUsed, Relieved(pool),
           OnCleanupTimerFired \/ CloseIdleSockets \/ CloseOneIdleConnection
    PROVE  Relieved(pool')
<1>0. /\ Good(pool) /\ load \in Loads /\ Core(pool) /\ FALSE \in BOOLEAN /\ TRUE \in BOOLEAN
      /\ Steady(pool)
  BY DEF IInv, Good, Relieved
<1>1. CASE OnCleanupTimerFired
  <2>1. pool' \in CleanupIdleSockets(pool, FALSE)
    BY <1>1 DEF OnCleanupTimerFired
  <2> QED BY <1>0, <2>1, PruneRelieves, RelievesKeeps
<1>2. CASE CloseIdleSockets
  <2>1. PICK p \in CleanupIdleSockets(pool, TRUE) : pool' = Check(p, p.idle = 0)
    BY <1>2 DEF CloseIdleSockets
  <2>2. Core(p) /\ p.idle = 0
    BY <1>0, <2>1, CleanupIdleSocketsCore
  <2>3. Check(p, p.idle = 0) = p
    <3>1. p \in Pools /\ ~p.failed /\ (p.idle = 0) \in BOOLEAN
      BY <2>2 DEF Core
    <3> QED BY <2>2, <3>1, CheckHolds
  <2>4. Relieves(pool, p)
    BY <1>0, <2>1, PruneRelieves
  <2> QED BY <2>1, <2>3, <2>4, RelievesKeeps
<1>3. CASE CloseOneIdleConnection
  <2>1. CASE pool.idle > 0
    <3>1. pool' \in CloseOneIdleSocket(pool)
      BY <1>3, <2>1 DEF CloseOneIdleConnection
    <3>2. Quiet(pool) /\ Calms(pool)
      BY <1>0, <2>1, FreeSlotQuiet DEF Steady
    <3>3. /\ Follows(pool, pool') /\ Calms(pool')
          /\ \A f \in Groups : Stuck(pool', f) <=> Stuck(pool, f)
      BY <1>0, <2>1, <3>1, <3>2, CloseOneKeeps
    <3>4. Quiet(pool')
      BY <3>2, <3>3 DEF Quiet
    <3> QED BY <3>3, <3>4 DEF Relieved, Reclaimed, Steady
  <2>2. CASE ~(pool.idle > 0)
    <3>1. PICK h \in Parked(pool) : pool' \in ResetHandle(pool, h, FALSE)
      BY <1>3, <2>2 DEF CloseOneIdleConnection
    <3>2. h \in Handles /\ pool.handles[h].phase \in {"ready", "parked"}
      BY DEF Parked
    <3> QED BY <1>0, <3>1, <3>2, ResetRelieves, RelievesKeeps
  <2> QED BY <2>1, <2>2
<1> QED
  BY <1>1, <1>2, <1>3

\* A round closes a connection of a higher layer, if there is one and a group is stuck.
LEMMA RoundRelieves ==
    ASSUME NEW r, NEW s, Good(r), Steady(r), load \in Loads, SlotsAreUsed, ClosesOne(r, s)
    PROVE  /\ Steady(s) /\ (IgnoreLimits = {} /\ Quiet(r) => Quiet(s))
           /\ \/ \E h \in Parked(r) : Parked(s) \subseteq Parked(r) \ {h}
              \/ s = r /\ (~Quiet(r) => Parked(r) = {})
<1>0. Core(r) /\ FALSE \in BOOLEAN
  BY DEF Good
<1>1. PICK lower \in LowerStalls :
          IF IsStalled(r, lower) /\ Parked(r) # {}
          THEN \E h \in Parked(r) : s \in ResetHandle(r, h, FALSE)
          ELSE s = r
  BY DEF ClosesOne
<1>2. CASE IsStalled(r, lower) /\ Parked(r) # {}
  <2>1. PICK h \in Parked(r) : s \in ResetHandle(r, h, FALSE)
    BY <1>1, <1>2
  <2>2. h \in Handles /\ r.handles[h].phase \in {"ready", "parked"}
    BY DEF Parked
  <2>3. Relieves(r, s) /\ s.handles[h].phase # "parked"
    BY <1>0, <2>1, <2>2, ResetRelieves
  <2>4. Parked(s) \subseteq Parked(r) \ {h}
    BY <2>3 DEF Relieves, Follows, Parked
  <2> QED BY <2>1, <2>3, <2>4 DEF Relieves
<1>3. CASE ~(IsStalled(r, lower) /\ Parked(r) # {})
  <2>1. s = r
    BY <1>1, <1>3
  <2>2. ~Quiet(r) => Parked(r) = {}
    BY <1>0, <1>3, StuckStalls
  <2> QED BY <2>1, <2>2
<1> QED
  BY <1>2, <1>3

\* One round for every handle: in the end no group is stuck, or no connection is left to close.
LEMMA CloseLoopRelieved ==
    ASSUME NEW p, Good(p), Steady(p), load \in Loads, SlotsAreUsed,
           NEW q \in TryToCloseSocketsInLayeredPools(p)
    PROVE  Relieved(q)
<1> DEFINE N == Cardinality(Handles)
           Few(r, k) == IgnoreLimits = {} => Quiet(r) \/ Cardinality(Parked(r)) + k <= N
           Y == [k \in 0 .. N |-> {r \in Pools : Good(r) /\ Steady(r) /\ Few(r, k)}]
<1>1. N \in Nat
  BY PoolAssumption, FS_CardinalityType
<1>2. ASSUME NEW r
      PROVE  /\ IsFiniteSet(Parked(r)) /\ Cardinality(Parked(r)) \in Nat /\ Cardinality(Parked(r)) <= N
             /\ Cardinality(Parked(r)) = 0 => Parked(r) = {}
  <2>1. Parked(r) \subseteq Handles
    BY DEF Parked
  <2>2. IsFiniteSet(Parked(r)) /\ Cardinality(Parked(r)) <= N
    BY <2>1, PoolAssumption, FS_Subset
  <2> QED BY <2>2, FS_CardinalityType, FS_EmptySet
<1>3. Cardinality({}) = 0
  BY FS_EmptySet
<1> HIDE DEF N
<1>4. p \in Pools /\ \A s : Good(s) => s \in Pools
  BY DEF Good, Core
<1>5. Few(p, 0)
  BY <1>1, <1>2
<1>6. ASSUME NEW k \in 1 .. N, NEW r \in Y[k - 1], NEW s, Good(r), Good(s), ClosesOne(r, s)
      PROVE  s \in Y[k]
  <2>1. k - 1 \in 0 .. N /\ k \in 0 .. N /\ k \in Nat
    BY <1>1
  <2>2. Steady(r) /\ Few(r, k - 1)
    BY <2>1
  <2>3. /\ Steady(s) /\ (IgnoreLimits = {} /\ Quiet(r) => Quiet(s))
        /\ \/ \E h \in Parked(r) : Parked(s) \subseteq Parked(r) \ {h}
           \/ s = r /\ (~Quiet(r) => Parked(r) = {})
    BY <1>6, <2>2, RoundRelieves
  <2>4. Few(s, k)
    <3>1. CASE \E h \in Parked(r) : Parked(s) \subseteq Parked(r) \ {h}
      <4>1. PICK h \in Parked(r) : Parked(s) \subseteq Parked(r) \ {h}
        BY <3>1
      <4>2. /\ IsFiniteSet(Parked(r) \ {h})
            /\ Cardinality(Parked(r) \ {h}) = Cardinality(Parked(r)) - 1
        BY <1>2, FS_RemoveElement
      <4>3. Cardinality(Parked(s)) <= Cardinality(Parked(r) \ {h})
        BY <4>1, <4>2, FS_Subset
      <4>4. Cardinality(Parked(r)) \in Nat /\ Cardinality(Parked(s)) \in Nat
        BY <1>2
      <4>5. Cardinality(Parked(r)) + (k - 1) <= N => Cardinality(Parked(s)) + k <= N
        BY <1>1, <2>1, <4>2, <4>3, <4>4
      <4> QED BY <2>2, <2>3, <4>5
    <3>2. CASE s = r /\ (~Quiet(r) => Parked(r) = {})
      <4>1. Parked(r) = {} => Cardinality(Parked(s)) + k <= N
        BY <1>1, <1>3, <2>1, <3>2
      <4> QED BY <3>2, <4>1
    <3> QED BY <2>3, <3>1, <3>2
  <2> HIDE DEF Few
  <2> QED BY <1>4, <1>6, <2>1, <2>3, <2>4
<1>7. p \in Y[0]
  <2>1. 0 \in 0 .. N
    BY <1>1
  <2> HIDE DEF Few
  <2> QED BY <1>4, <1>5, <2>1
<1>8. q \in Y[N]
  <2>1. \A k \in 1 .. N : \A r \in Y[k - 1] : \A s : Good(r) /\ Good(s) /\ ClosesOne(r, s) => s \in Y[k]
    BY <1>6
  <2> HIDE DEF Y
  <2> QED BY <1>7, <2>1, CloseLoop DEF N
<1>9. Steady(q) /\ Few(q, N)
  <2>1. N \in 0 .. N
    BY <1>1
  <2> HIDE DEF Few
  <2> QED BY <1>8, <2>1
<1>10. Cardinality(Parked(q)) + N <= N => Parked(q) = {}
  BY <1>1, <1>2
<1> QED
  BY <1>9, <1>10 DEF Relieved, Reclaimed

LEMMA RunTaskRelieved ==
    ASSUME IInv, SlotsAreUsed, Relieved(pool), RunTask
    PROVE  Relieved(pool')
<1> DEFINE task == Head(pool.tasks)
           p == [pool EXCEPT !.tasks = Tail(@)]
<1>0. Good(pool) /\ load \in Loads /\ Steady(pool) /\ pool \in Pools
  BY DEF IInv, Relieved, Good, Core
<1>1. /\ pool.tasks # <<>>
      /\ pool' \in (IF task = CloseTask THEN TryToCloseSocketsInLayeredPools(p)
                    ELSE {InvokeUserCallback(p, task.handle)})
  BY DEF RunTask
<1>2. /\ task \in Tasks
      /\ task = CloseTask => Good(p)
      /\ \A h \in Handles : task = CallbackTask(h) => GoodBut(p, h)
      /\ p.handles = pool.handles /\ p.callbacks = pool.callbacks
  BY <1>0, <1>1, TaskTaken
<1>3. p.tasks = Tail(pool.tasks) /\ pool.tasks \in Seq(Tasks) /\ p.groups = pool.groups
      /\ p.idle = pool.idle /\ p.connecting = pool.connecting /\ p.handed_out = pool.handed_out
  BY <1>0 DEF Pools
<1>4. \A x : Has(pool.tasks, x) => Has(p.tasks, x) \/ x = task
  BY <1>1, <1>3, TailHas
<1> HIDE DEF p, task
<1>5. SameCounts(pool, p)
  BY <1>3, SameGroups
<1>6. Steady(p)
  <2>1. CASE Groups = {}
    BY <2>1 DEF Steady, Quiet, Calms
  <2>2. CASE Groups # {}
    BY <1>0, <1>5, <2>2, SameAlone
  <2> QED BY <2>1, <2>2
<1>7. CASE task = CloseTask
  <2>1. pool' \in TryToCloseSocketsInLayeredPools(p)
    BY <1>1, <1>7
  <2> QED BY <1>0, <1>2, <1>6, <1>7, <2>1, CloseLoopRelieved
<1>8. CASE task # CloseTask
  <2>1. PICK h \in Handles : task = CallbackTask(h)
    BY <1>2, <1>8 DEF Tasks
  <2>2. task.handle = h
    BY <2>1 DEF CallbackTask
  <2>3. pool' = InvokeUserCallback(p, h)
    BY <1>1, <1>8, <2>2
  <2>4. Follows(pool, p)
    BY <1>2, <1>4, <1>8 DEF Follows
  <2>5. Relieved(p)
    BY <1>0, <1>5, <2>4, SameRelieves, RelievesKeeps
  <2>6. GoodBut(p, h) /\ p \in Pools /\ ~p.failed
    BY <1>2, <2>1 DEF GoodBut, Core
  <2>7. CASE p.callbacks[h] = "none"
    BY <2>3, <2>5, <2>7 DEF InvokeUserCallback
  <2>8. CASE p.callbacks[h] # "none"
    <3> DEFINE c == p.handles[h].phase = "waiting"
               q == [p EXCEPT !.callbacks[h] = "none"]
    <3>1. c \in BOOLEAN /\ c
      BY <1>0, <1>2, <2>8 DEF Good, LinkOf
    <3>2. Check(p, c) = p
      <4> HIDE DEF c
      <4> QED BY <2>6, <3>1, CheckHolds
    <3>3. pool' = HandleInitCompletion(q, h, p.callbacks[h])
      <4>1. pool' = HandleInitCompletion([Check(p, c) EXCEPT !.callbacks[h] = "none"], h, p.callbacks[h])
        BY <2>3, <2>8 DEF InvokeUserCallback
      <4> HIDE DEF c
      <4> QED BY <3>2, <4>1
    <3>4. q \in Pools /\ q.groups = p.groups /\ q.idle = p.idle /\ q.connecting = p.connecting
          /\ q.handed_out = p.handed_out /\ q.handles = p.handles /\ q.tasks = p.tasks
      <4>1. q \in Pools
        <5>1. Apart(q, h)
          BY <2>6, <2>8, ForgetCallback
        <5> QED BY <5>1 DEF Apart, GoodBut, Core
      <4> QED BY <2>6, <4>1 DEF Pools
    <3> HIDE DEF q
    <3>5. SameCounts(p, q) /\ Follows(p, q)
      BY <3>4, SameGroups DEF Follows
    <3>6. Relieved(q)
      BY <1>6, <2>5, <3>5, SameRelieves, RelievesKeeps
    <3>7. SameCounts(q, pool') /\ Follows(q, pool')
      BY <3>3, <3>4, CompletionFields
    <3> QED BY <3>6, <3>7, SameRelieves, RelievesKeeps DEF Relieved
  <2> QED BY <2>7, <2>8
<1> QED
  BY <1>7, <1>8

\* Where nobody waits and nothing connects, nothing is stuck.
LEMMA NobodyWaits ==
    ASSUME NEW p, Core(p),
           \A g \in Groups : p.groups[g].pending_requests = <<>> /\ p.groups[g].jobs = <<>>
    PROVE  Relieved(p)
<1>1. ASSUME NEW g \in Groups PROVE Calm(p, g) /\ ~Stuck(p, g)
  <2>1. Requests(p, g) = 0 /\ Jobs(p, g) = 0
    BY EmptySeq DEF Requests, Jobs
  <2>2. Unassigned(p, g) \in Nat /\ Unassigned(p, g) <= Jobs(p, g)
    BY Numbers
  <2> QED BY <2>1, <2>2 DEF Calm, Covered, Wants, Stuck
<1> QED
  BY <1>1 DEF Relieved, Steady, Reclaimed, Calms, Quiet

LEMMA FlushActionsRelieved ==
    ASSUME IInv, FlushWithError \/ Destroy
    PROVE  Relieved(pool')
<1>0. Good(pool) /\ pool.generation < MaxFlushes
  BY DEF IInv, FlushWithError, Destroy
<1>1. \E p \in Flushed(pool) : \E c \in BOOLEAN : pool' = p \/ pool' = Check(p, c)
  BY DEF FlushWithError, Destroy
<1>2. PICK p \in Flushed(pool) : \E c \in BOOLEAN : pool' = p \/ pool' = Check(p, c)
  BY <1>1
<1>3. Good(p) /\ NoJobs(p) /\ NoRequests(p)
  BY <1>0, FlushedGood
<1>4. Core(pool')
  BY FlushActionsGood DEF Good
<1>5. pool'.groups = p.groups
  <2>1. p \in Pools
    BY <1>3 DEF Good, Core
  <2> QED BY <1>2, <2>1 DEF Check, Pools
<1>6. \A g \in Groups : pool'.groups[g].pending_requests = <<>> /\ pool'.groups[g].jobs = <<>>
  BY <1>3, <1>5 DEF NoJobs, NoRequests
<1> QED
  BY <1>4, <1>6, NobodyWaits

LEMMA InitRelieved ==
    ASSUME Init
    PROVE  Relieved(pool)
<1>1. Core(pool)
  BY InitIInv DEF IInv, Good
<1>2. \A g \in Groups : pool.groups[g] = NewGroup
  BY DEF Init
<1> QED
  BY <1>1, <1>2, NewGroupFields, NobodyWaits

LEMMA NextRelieved ==
    ASSUME IInv, SlotsAreUsed, Relieved(pool), Next
    PROVE  Relieved(pool')
<1>1. ASSUME NEW h \in Handles, NEW g \in Groups, RequestSocket(h, g) PROVE Relieved(pool')
  BY <1>1, RequestSocketRelieved
<1>2. ASSUME NEW g \in Groups, NEW n \in 1 .. MaxSocketsPerGroup + 1, RequestSockets(g, n)
      PROVE  Relieved(pool')
  BY <1>2, RequestSocketsRelieved
<1>3. ASSUME NEW h \in Handles, NEW connected \in BOOLEAN, Release(h, connected) PROVE Relieved(pool')
  BY <1>3, ClientActionsRelieved
<1>4. ASSUME NEW h \in Handles, CancelRequest(h) \/ Park(h) \/ Unpark(h) PROVE Relieved(pool')
  BY <1>4, ClientActionsRelieved
<1>5. ASSUME NEW g \in Groups, ConnectJobComplete(g) \/ OnBackupJobTimerFired(g) PROVE Relieved(pool')
  BY <1>5, JobActionsRelieved
<1>6. ASSUME OnCleanupTimerFired \/ CloseIdleSockets \/ CloseOneIdleConnection PROVE Relieved(pool')
  BY <1>6, IdleActionsRelieved
<1>7. ASSUME RunTask PROVE Relieved(pool')
  BY <1>7, RunTaskRelieved
<1>8. ASSUME FlushWithError \/ Destroy PROVE Relieved(pool')
  BY <1>8, FlushActionsRelieved
<1> QED
  BY <1>1, <1>2, <1>3, <1>4, <1>5, <1>6, <1>7, <1>8 DEF Next

\* What the invariant is strengthened with.
ReliefInv == SlotsAreUsed => Relieved(pool)

LEMMA ReliefStays ==
    ASSUME load' = load
    PROVE  ReliefInv' <=> (SlotsAreUsed => Relieved(pool'))
<1>1. IgnoreLimits' = IgnoreLimits /\ ConnectResults' = ConnectResults
  BY DEF IgnoreLimits, ConnectResults
<1>2. SlotsAreUsed' <=> SlotsAreUsed
  BY <1>1 DEF SlotsAreUsed
<1>3. Steady(pool)' <=> Steady(pool')
  BY DEF Steady, Calms, Calm, Covered, Wants, Packed, Quiet, Stuck, Active, Jobs, Idle, Unassigned, Requests
<1>4. Reclaimed(pool)' <=> Reclaimed(pool')
  BY <1>1 DEF Reclaimed, Quiet, Stuck, Wants, Active, Jobs, Idle, Requests, Parked, Has
<1> QED
  BY <1>2, <1>3, <1>4 DEF ReliefInv, Relieved

LEMMA NextRelief == IInv /\ ReliefInv /\ [Next]_vars => ReliefInv'
<1> SUFFICES ASSUME IInv, ReliefInv, [Next]_vars PROVE ReliefInv'
  OBVIOUS
<1>1. CASE Next
  <2>1. load' = load
    BY <1>1, Counted
  <2>2. SlotsAreUsed => Relieved(pool')
    BY <1>1, NextRelieved DEF ReliefInv
  <2> QED BY <2>1, <2>2, ReliefStays
<1>2. CASE UNCHANGED vars
  <2>1. pool' = pool /\ load' = load
    BY <1>2 DEF vars
  <2>2. SlotsAreUsed => Relieved(pool')
    BY <2>1 DEF ReliefInv
  <2> QED BY <2>1, <2>2, ReliefStays
<1> QED
  BY <1>1, <1>2

LEMMA ReliefImplies == IInv /\ ReliefInv => StalledPoolRelieved
<1> SUFFICES ASSUME IInv, ReliefInv, SlotsAreUsed PROVE StalledPoolRelieved
  BY DEF StalledPoolRelieved, StalledGroupsWoken, IdleConnectionsReclaimed
<1>1. Core(pool) /\ pool \in Pools /\ Relieved(pool)
  BY DEF IInv, Good, Core, ReliefInv
<1>2. ASSUME StalledGroups(pool) # {} PROVE pool.connecting + pool.handed_out > 0
  <2>1. PICK g \in Groups : Stuck(pool, g)
    BY <1>1, <1>2, StuckIsStalled
  <2>2. pool.handed_out + pool.connecting >= MaxSockets
    BY <1>1, <2>1 DEF Relieved, Steady, Quiet, Packed
  <2>3. MaxSockets > 0
    <3>1. Active(pool, g) \in Nat /\ Jobs(pool, g) \in Nat /\ Idle(pool, g) \in Nat
      BY <1>1, Numbers
    <3>2. MaxSockets \in Nat /\ MaxSocketsPerGroup \in 0 .. MaxSockets
      BY PoolAssumption
    <3> QED BY <2>1, <3>1, <3>2 DEF Stuck
  <2>4. pool.handed_out \in Nat /\ pool.connecting \in Nat /\ MaxSockets \in Nat
    BY <1>1, Numbers
  <2> QED BY <2>2, <2>3, <2>4
<1>3. ASSUME IgnoreLimits = {}, IsStalled(pool, FALSE), Parked(pool) # {}
      PROVE  CloseTask \in Range(pool.tasks)
  <2>1. pool.group_map \subseteq Groups /\ pool.tasks \in Seq(Tasks)
    BY <1>1 DEF Pools
  <2>2. ~Quiet(pool)
    <3>1. PICK g \in pool.group_map : IsStalledOnPoolMaxSockets(pool.groups[g])
      BY <1>3 DEF IsStalled
    <3> QED BY <1>1, <2>1, <3>1, StuckIsStalled DEF Quiet
  <2>3. Has(pool.tasks, CloseTask)
    BY <1>1, <1>3, <2>2 DEF Relieved, Reclaimed
  <2>4. DOMAIN pool.tasks = 1 .. Len(pool.tasks)
    BY <2>1
  <2> QED BY <2>3, <2>4 DEF Has, Range
<1> QED
  BY <1>2, <1>3 DEF StalledPoolRelieved, StalledGroupsWoken, IdleConnectionsReclaimed

\* While a group is stalled some socket is connecting or handed out, and while a connection of a
\* higher layer is idle the task that closes it is posted: StalledPoolRelieved, for every number
\* of groups, handles and sockets.
THEOREM StalledPoolIsRelieved == Spec => []StalledPoolRelieved
<1>1. Init => ReliefInv
  BY InitRelieved DEF ReliefInv
<1>2. IInv /\ ReliefInv /\ [Next]_vars => ReliefInv'
  BY NextRelief
<1>3. IInv /\ ReliefInv => StalledPoolRelieved
  BY ReliefImplies
<1> QED
  BY <1>1, <1>2, <1>3, SpecIInv, PTL DEF Spec
=============================================================================
