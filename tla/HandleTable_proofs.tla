------------------------ MODULE HandleTable_proofs ------------------------
(***************************************************************************)
(* What the handle table and the locks of WriteMessage guarantee, for      *)
(* every number of threads, of handle values and of dispatchers.           *)
(***************************************************************************)
EXTENDS HandleTable, CommonLemmas, TLAPS

-----------------------------------------------------------------------------
(* The inductive invariant *)

\* An entry leads to an open dispatcher that was created and not refused, no two
\* entries to the same one, and the invalid handle to none.
EntriesInv ==
    /\ \A h \in MojoHandle : entry[h] # NoDispatcher =>
            /\ h # MOJO_HANDLE_INVALID
            /\ entry[h] \in 1..created
            /\ entry[h] \notin refused
            /\ ~isClosed[entry[h]]
    /\ \A g, h \in MojoHandle : entry[g] = entry[h] /\ entry[g] # NoDispatcher => g = h

SizeInv == Cardinality(InUse) <= MaxTableSize

\* A dispatcher without an entry is closed, or a Close is on its way to it.
CreatedInv ==
    \A d \in 1..created : d \notin refused =>
        \/ \E h \in MojoHandle : entry[h] = d
        \/ isClosed[d]
        \/ \E t \in Thread : op[t] = "close" /\ ref[t] = d

\* The dispatchers that were refused or closed are among those created.
NumberingInv ==
    /\ refused \in SUBSET (1..created)
    /\ \A d \in Dispatcher : isClosed[d] => d \in 1..created

\* What a call knows at each of its steps.  A Close has taken the entry out already.
CallOK(t) ==
    /\ pc[t] = "init0" => ref[t] + 1 \in 1..created
    /\ pc[t] \notin {"idle", "crashed"} => ref[t] \in 1..created
    /\ op[t] = "close" => /\ pc[t] \in {"call", "locked", "crashed"}
                          /\ ref[t] \in 1..created
                          /\ \A h \in MojoHandle : entry[h] # ref[t]
    /\ pc[t] \in {"mark", "release", "unmark"} => op[t] = "write"
    /\ op[t] = "write" => pc[t] \in {"mark", "call", "locked", "release", "unmark"}
    /\ Sending(t) => DOMAIN dispatchers[t] = DOMAIN sending[t]

CallInv == \A t \in Thread : CallOK(t)

\* A call that got the lock of its dispatcher holds it, and it is not one it sends.
LockInv ==
    \A t \in Thread : pc[t] = "locked" =>
        /\ lock[ref[t]] = t
        /\ Sending(t) => ref[t] \notin Range(dispatchers[t])

IInv ==
    /\ TypeOK
    /\ EntriesInv
    /\ SizeInv
    /\ CreatedInv
    /\ NumberingInv
    /\ CallInv
    /\ LockInv
    /\ BusyEntriesOwned
    /\ SentDispatchersHeld

-----------------------------------------------------------------------------
(* Handle values *)

\* The next handle value is one too, and never the invalid one, also at the wrap-around.
LEMMA SuccessorIsValid ==
    ASSUME NEW h \in MojoHandle
    PROVE  Successor(h) \in MojoHandle \ {MOJO_HANDLE_INVALID}
<1>1. CASE h + 1 = HandleSpace
  <2>1. (h + 1) % HandleSpace = 0
    BY <1>1, ConstantsAssumption
  <2> QED
    BY <2>1, ConstantsAssumption DEF Successor, MojoHandle, MOJO_HANDLE_INVALID
<1>2. CASE h + 1 < HandleSpace
  <2>1. (h + 1) % HandleSpace = h + 1
    BY <1>2, ConstantsAssumption DEF MojoHandle
  <2> QED
    BY <1>2, <2>1, ConstantsAssumption DEF Successor, MojoHandle, MOJO_HANDLE_INVALID
<1> QED
  BY <1>1, <1>2, ConstantsAssumption DEF MojoHandle

\* The handles in use are a finite set.
LEMMA HandlesAreFinite ==
    ASSUME NEW used \in SUBSET MojoHandle
    PROVE  IsFiniteSet(used) /\ Cardinality(used) \in Nat
<1>1. IsFiniteSet(MojoHandle)
  BY FS_Interval, ConstantsAssumption DEF MojoHandle
<1> QED
  BY <1>1, FS_Subset, FS_CardinalityType

\* The search of AddDispatcherNoLock ends, at a handle that is valid and free, as long
\* as fewer handles are in use than there are valid ones.
LEMMA NextFreeIsFree ==
    ASSUME NEW used \in SUBSET MojoHandle, NEW h \in MojoHandle,
           Cardinality(used) < HandleSpace - 1
    PROVE  NextFree(used, h) \in MojoHandle \ ({MOJO_HANDLE_INVALID} \cup used)
<1> DEFINE free == MojoHandle \ ({MOJO_HANDLE_INVALID} \cup used)
           Distance(g) == IF g >= h THEN g - h ELSE g + HandleSpace - h
           W == {Distance(g) : g \in free}
<1>1. free # {}
  <2> DEFINE valid == 1..(HandleSpace - 1)
  <2>1. IsFiniteSet(used) /\ IsFiniteSet(valid) /\ Cardinality(valid) = HandleSpace - 1
    BY HandlesAreFinite, FS_Interval, ConstantsAssumption
  <2>2. ~(valid \subseteq used)
    <3>1. SUFFICES ASSUME valid \subseteq used PROVE FALSE
      OBVIOUS
    <3>2. Cardinality(valid) <= Cardinality(used)
      BY <2>1, <3>1, FS_Subset
    <3> QED
      BY <2>1, <3>2, HandlesAreFinite, ConstantsAssumption
  <2> QED
    BY <2>2, ConstantsAssumption DEF MojoHandle, MOJO_HANDLE_INVALID
<1>2. W \in SUBSET Nat /\ W # {}
  BY <1>1, ConstantsAssumption DEF MojoHandle
<1>3. PICK x \in W : \A y \in W : x <= y
  <2> HIDE DEF W
  <2> QED BY <1>2, LeastOf
<1>4. PICK g \in free : x = Distance(g)
  BY <1>3
<1>5. \A k \in free : Distance(g) <= Distance(k)
  BY <1>3, <1>4
<1>6. NextFree(used, h) = CHOOSE c \in free : \A k \in free : Distance(c) <= Distance(k)
  BY DEF NextFree
<1> QED
  <2> HIDE DEF free, Distance
  <2>1. NextFree(used, h) \in free
    BY <1>4, <1>5, <1>6
  <2> QED
    BY <2>1 DEF free

\* The handles a WriteMessage is given are a sequence of handle values.
LEMMA SentHandlesAreSeq ==
    ASSUME NEW hs \in SentHandles
    PROVE  hs \in Seq(MojoHandle)
<1>1. PICK n \in 0..(MaxMsgHandles + 1) : hs \in [1..n -> MojoHandle]
  BY DEF SentHandles
<1>2. n \in Nat
  BY ConstantsAssumption
<1> QED
  BY <1>1, <1>2, SeqDef

-----------------------------------------------------------------------------
(* Every step preserves the invariant *)

LEMMA InitIInv == Init => IInv
<1> SUFFICES ASSUME Init PROVE IInv
  OBVIOUS
<1> USE DEF Init
<1>1. TypeOK
  BY ConstantsAssumption DEF TypeOK, MojoHandle, MOJO_HANDLE_INVALID, Dispatcher,
     NoDispatcher, PCs
<1>2. InUse = {}
  BY DEF InUse
<1>3. SizeInv
  BY <1>2, FS_EmptySet, ConstantsAssumption DEF SizeInv
<1>4. EntriesInv /\ CreatedInv /\ NumberingInv
  BY DEF EntriesInv, CreatedInv, NumberingInv
<1>5. CallInv /\ LockInv /\ BusyEntriesOwned /\ SentDispatchersHeld
  BY DEF CallInv, CallOK, LockInv, BusyEntriesOwned, SentDispatchersHeld, Sending
<1> QED
  BY <1>1, <1>3, <1>4, <1>5 DEF IInv

\* InUse is finite in every typed state.
LEMMA InUseIsFinite ==
    InUse \in SUBSET MojoHandle /\ IsFiniteSet(InUse) /\ Cardinality(InUse) \in Nat
<1>1. InUse \in SUBSET MojoHandle
  BY DEF InUse
<1> QED
  BY <1>1, HandlesAreFinite

\* What CreateMessagePipe does to the table: nothing, or two entries at valid handles
\* that were free.  In every case next_handle_ stays valid.
LEMMA CreateFacts ==
    ASSUME IInv, NEW t \in Thread, CreateMessagePipe(t)
    PROVE  /\ nextHandle' \in MojoHandle \ {MOJO_HANDLE_INVALID}
           /\ \/ /\ refused' = refused \cup {created + 1, created + 2}
                 /\ UNCHANGED <<entry, pc, callVars>>
              \/ \E h0, h1 \in MojoHandle :
                    /\ h0 # h1 /\ h0 # MOJO_HANDLE_INVALID /\ h1 # MOJO_HANDLE_INVALID
                    /\ entry[h0] = NoDispatcher /\ entry[h1] = NoDispatcher
                    /\ entry' = [entry EXCEPT ![h0] = created + 1, ![h1] = created + 2]
                    /\ Cardinality(InUse) + 2 <= MaxTableSize
                    /\ Begin(t, "init0", "use", MOJO_HANDLE_INVALID, created + 1, <<>>)
                    /\ UNCHANGED refused
<1> DEFINE h0 == NextFree(InUse, nextHandle)
           h1 == NextFree(InUse \cup {h0}, Successor(h0))
           size == Cardinality(InUse)
<1>1. /\ InUse \in SUBSET MojoHandle /\ IsFiniteSet(InUse) /\ size \in Nat
      /\ nextHandle \in MojoHandle \ {MOJO_HANDLE_INVALID}
  BY InUseIsFinite DEF IInv, TypeOK
<1>2. CASE TableFull(size)
  <2>1. /\ refused' = refused \cup {created + 1, created + 2}
        /\ UNCHANGED <<entry, nextHandle, pc, callVars>>
    BY <1>2 DEF CreateMessagePipe
  <2> QED
    BY <1>1, <2>1
<1>3. ASSUME ~TableFull(size) PROVE h0 \in MojoHandle \ ({MOJO_HANDLE_INVALID} \cup InUse)
  <2>1. size < HandleSpace - 1
    BY <1>1, <1>3, ConstantsAssumption DEF TableFull
  <2> QED
    BY <1>1, <2>1, NextFreeIsFree
<1>4. CASE ~TableFull(size) /\ TableFull(size + 1)
  <2>1. /\ refused' = refused \cup {created + 1, created + 2}
        /\ nextHandle' = Successor(h0)
        /\ UNCHANGED <<entry, pc, callVars>>
    BY <1>4 DEF CreateMessagePipe
  <2> HIDE DEF h0
  <2> QED
    BY <1>3, <1>4, <2>1, SuccessorIsValid
<1>5. CASE ~TableFull(size) /\ ~TableFull(size + 1)
  <2>1. /\ entry' = [entry EXCEPT ![h0] = created + 1, ![h1] = created + 2]
        /\ nextHandle' = Successor(h1)
        /\ Begin(t, "init0", "use", MOJO_HANDLE_INVALID, created + 1, <<>>)
        /\ UNCHANGED refused
    BY <1>5 DEF CreateMessagePipe
  <2>2. h0 \in MojoHandle \ ({MOJO_HANDLE_INVALID} \cup InUse)
    BY <1>3, <1>5
  <2>3. h1 \in MojoHandle \ ({MOJO_HANDLE_INVALID} \cup (InUse \cup {h0}))
    <3> HIDE DEF h0
    <3>1. Cardinality(InUse \cup {h0}) = size + 1
      BY <1>1, <2>2, FS_AddElement
    <3>2. Cardinality(InUse \cup {h0}) < HandleSpace - 1
      BY <1>1, <1>5, <3>1, ConstantsAssumption DEF TableFull
    <3>3. InUse \cup {h0} \in SUBSET MojoHandle /\ Successor(h0) \in MojoHandle
      BY <1>1, <2>2, SuccessorIsValid
    <3> QED
      BY <3>2, <3>3, NextFreeIsFree
  <2>4. size + 2 <= MaxTableSize
    BY <1>1, <1>5, ConstantsAssumption DEF TableFull
  <2> HIDE DEF h0, h1
  <2>5. nextHandle' \in MojoHandle \ {MOJO_HANDLE_INVALID}
    BY <2>1, <2>3, SuccessorIsValid
  <2>6. entry[h0] = NoDispatcher /\ entry[h1] = NoDispatcher
    BY <2>2, <2>3 DEF InUse
  <2> QED
    BY <2>1, <2>2, <2>3, <2>4, <2>5, <2>6
<1> QED
  BY <1>2, <1>4, <1>5

\* CreateMessagePipe: the new dispatchers are numbered after all others, so no entry,
\* no call and no refusal refers to them.
LEMMA CreateMessagePipeStep ==
    ASSUME IInv, NEW t \in Thread, CreateMessagePipe(t)
    PROVE  IInv'
<1>0. /\ pc[t] = "idle" /\ created + 2 <= MaxDispatchers /\ created' = created + 2
      /\ busy' = busy /\ initialized' = initialized /\ isClosed' = isClosed /\ lock' = lock
      /\ nextHandle' \in MojoHandle \ {MOJO_HANDLE_INVALID}
      /\ created \in Nat /\ created + 1 \in Dispatcher /\ created + 2 \in Dispatcher
  <2>1. /\ pc[t] = "idle" /\ created + 2 <= MaxDispatchers /\ created' = created + 2
        /\ busy' = busy /\ initialized' = initialized /\ isClosed' = isClosed /\ lock' = lock
    BY DEF CreateMessagePipe
  <2>2. created \in Nat
    BY ConstantsAssumption DEF IInv, TypeOK
  <2> QED
    BY <2>1, <2>2, CreateFacts, ConstantsAssumption DEF Dispatcher
<1>1. CASE /\ refused' = refused \cup {created + 1, created + 2}
           /\ UNCHANGED <<entry, pc, callVars>>
  <2>0. /\ entry' = entry /\ pc' = pc /\ op' = op /\ handle' = handle /\ ref' = ref
        /\ sending' = sending /\ dispatchers' = dispatchers
    BY <1>1 DEF callVars
  <2>1. TypeOK'
    BY <1>0, <1>1, <2>0, ConstantsAssumption DEF IInv, TypeOK, Dispatcher
  <2>2. EntriesInv'
    BY <1>0, <1>1, <2>0 DEF IInv, TypeOK, EntriesInv, Dispatcher, NoDispatcher
  <2>3. CreatedInv'
    BY <1>0, <1>1, <2>0 DEF IInv, CreatedInv
  <2>4. NumberingInv' /\ CallInv'
    BY <1>0, <1>1, <2>0 DEF IInv, NumberingInv, CallInv, CallOK, Sending
  <2>5. InUse' = InUse
    BY <2>0 DEF InUse
  <2>6. SizeInv' /\ LockInv' /\ BusyEntriesOwned' /\ SentDispatchersHeld'
    BY <1>0, <2>0, <2>5 DEF IInv, SizeInv, LockInv, BusyEntriesOwned, SentDispatchersHeld,
       Sending
  <2> QED
    BY <2>1, <2>2, <2>3, <2>4, <2>6 DEF IInv
<1>2. ASSUME NEW h0 \in MojoHandle, NEW h1 \in MojoHandle,
             h0 # h1, h0 # MOJO_HANDLE_INVALID, h1 # MOJO_HANDLE_INVALID,
             entry[h0] = NoDispatcher, entry[h1] = NoDispatcher,
             entry' = [entry EXCEPT ![h0] = created + 1, ![h1] = created + 2],
             Cardinality(InUse) + 2 <= MaxTableSize,
             Begin(t, "init0", "use", MOJO_HANDLE_INVALID, created + 1, <<>>),
             refused' = refused
      PROVE  IInv'
  <2>1. TypeOK'
    <3>1. entry' \in [MojoHandle -> Dispatcher \cup {NoDispatcher}]
      BY <1>0, <1>2 DEF IInv, TypeOK
    <3>2. MOJO_HANDLE_INVALID \in MojoHandle
      BY ConstantsAssumption DEF MojoHandle, MOJO_HANDLE_INVALID
    <3>3. created' \in 0..MaxDispatchers
      BY <1>0
    <3>4. /\ pc' \in [Thread -> PCs]
          /\ op' \in [Thread -> {"use", "close", "write"}]
          /\ handle' \in [Thread -> MojoHandle]
          /\ ref' \in [Thread -> Dispatcher \cup {NoDispatcher}]
          /\ sending' \in [Thread -> Seq(MojoHandle)]
          /\ dispatchers' \in [Thread -> Seq(Dispatcher)]
      BY <1>0, <1>2, <3>2 DEF IInv, TypeOK, Begin, GoTo, PCs
    <3> QED
      BY <1>0, <1>2, <3>1, <3>3, <3>4 DEF IInv, TypeOK
  <2>2. /\ op'[t] = "use" /\ pc'[t] = "init0" /\ ref'[t] = created + 1
        /\ \A u \in Thread \ {t} : /\ pc'[u] = pc[u] /\ op'[u] = op[u] /\ ref'[u] = ref[u]
                                   /\ sending'[u] = sending[u]
        /\ dispatchers' = dispatchers
    BY <1>0, <1>2 DEF IInv, TypeOK, Begin, GoTo
  <2>3. op[t] = "use"
    BY <1>0 DEF IInv, TypeOK, CallInv, CallOK
  <2>4. /\ entry'[h0] = created + 1 /\ entry'[h1] = created + 2
        /\ \A h \in MojoHandle \ {h0, h1} : entry'[h] = entry[h]
    BY <1>2 DEF IInv, TypeOK
  <2>5. EntriesInv'
    <3>1. \A d \in {created + 1, created + 2} : ~isClosed[d] /\ d \notin refused
      BY <1>0 DEF IInv, NumberingInv
    <3>2. \A h \in MojoHandle \ {h0, h1} : entry[h] # NoDispatcher =>
            h # MOJO_HANDLE_INVALID /\ entry[h] \in 1..created /\ entry[h] \notin refused
            /\ ~isClosed[entry[h]]
      BY DEF IInv, EntriesInv
    <3>3. ASSUME NEW h \in MojoHandle, entry'[h] # NoDispatcher
          PROVE  /\ h # MOJO_HANDLE_INVALID
                 /\ entry'[h] \in 1..created'
                 /\ entry'[h] \notin refused'
                 /\ ~isClosed'[entry'[h]]
      <4>1. CASE h \in {h0, h1}
        BY <1>0, <1>2, <2>4, <3>1, <4>1
      <4>2. CASE h \notin {h0, h1}
        <5>1. entry'[h] = entry[h] /\ refused' = refused
          BY <1>2, <2>4, <4>2
        <5>2. h \in MojoHandle \ {h0, h1} /\ entry[h] # NoDispatcher
          BY <3>3, <4>2, <5>1
        <5>3. h # MOJO_HANDLE_INVALID /\ entry[h] \in 1..created /\ entry[h] \notin refused
              /\ ~isClosed[entry[h]]
          BY <3>2, <5>2
        <5> QED
          BY <1>0, <5>1, <5>3
      <4> QED
        BY <4>1, <4>2
    <3>4. ASSUME NEW g \in MojoHandle, NEW h \in MojoHandle,
                 entry'[g] = entry'[h], entry'[g] # NoDispatcher
          PROVE  g = h
      <4>1. entry[g] = entry[h] /\ entry[g] # NoDispatcher => g = h
        BY DEF IInv, EntriesInv
      <4> QED
        BY <1>0, <1>2, <2>4, <3>2, <3>4, <4>1 DEF NoDispatcher
    <3> QED
      BY <3>3, <3>4 DEF EntriesInv
  <2>6. SizeInv'
    <3>1. InUse' = (InUse \cup {h0}) \cup {h1}
      BY <1>0, <2>4 DEF InUse, NoDispatcher
    <3>2. h0 \notin InUse /\ h1 \notin InUse \cup {h0}
      BY <1>2 DEF InUse
    <3>3. /\ IsFiniteSet(InUse \cup {h0})
          /\ Cardinality(InUse \cup {h0}) = Cardinality(InUse) + 1
      BY <3>2, InUseIsFinite, FS_AddElement
    <3>4. Cardinality(InUse') = Cardinality(InUse) + 1 + 1
      BY <3>1, <3>2, <3>3, FS_AddElement
    <3> QED
      BY <1>2, <3>4, InUseIsFinite DEF SizeInv
  <2>7. CreatedInv'
    <3>1. SUFFICES ASSUME NEW d \in 1..created', d \notin refused'
                   PROVE  \/ \E h \in MojoHandle : entry'[h] = d
                          \/ isClosed'[d]
                          \/ \E u \in Thread : op'[u] = "close" /\ ref'[u] = d
      BY DEF CreatedInv
    <3>2. CASE d \in 1..created
      <4>1. \/ \E h \in MojoHandle : entry[h] = d
            \/ isClosed[d]
            \/ \E u \in Thread : op[u] = "close" /\ ref[u] = d
        BY <1>2, <3>1, <3>2 DEF IInv, CreatedInv
      <4>2. ASSUME NEW h \in MojoHandle, entry[h] = d PROVE entry'[h] = d
        <5>1. entry[h] # NoDispatcher
          BY <1>0, <3>2, <4>2 DEF NoDispatcher
        <5>2. h \in MojoHandle \ {h0, h1}
          BY <1>2, <5>1
        <5> QED
          BY <2>4, <4>2, <5>2
      <4>3. ASSUME NEW u \in Thread, op[u] = "close", ref[u] = d
            PROVE  op'[u] = "close" /\ ref'[u] = d
        BY <2>2, <2>3, <4>3
      <4> QED
        BY <1>0, <4>1, <4>2, <4>3
    <3>3. d \in 1..created \/ d = created + 1 \/ d = created + 2
      BY <1>0
    <3> QED
      BY <2>4, <3>2, <3>3
  <2>8. NumberingInv'
    BY <1>0, <1>2 DEF IInv, NumberingInv
  <2>9. CallInv'
    <3>1. SUFFICES ASSUME NEW u \in Thread PROVE CallOK(u)'
      BY DEF CallInv
    <3>2. CallOK(u)
      BY DEF IInv, CallInv
    <3>3. CASE u = t
      BY <1>0, <2>2, <3>3 DEF CallOK, Sending
    <3>4. CASE u # t
      <4>1. op[u] = "close" => \A h \in MojoHandle : entry'[h] # ref[u]
        BY <1>0, <2>4, <3>2 DEF CallOK
      <4> QED
        BY <1>0, <2>2, <3>2, <3>4, <4>1 DEF CallOK, Sending
    <3> QED
      BY <3>3, <3>4
  <2>10. LockInv' /\ SentDispatchersHeld'
    BY <1>0, <2>2 DEF IInv, LockInv, SentDispatchersHeld, Sending
  <2>11. BusyEntriesOwned'
    <3>1. \A u \in Thread : Sending(u)' <=> Sending(u) /\ u # t
      BY <2>2, <2>3 DEF Sending
    <3>2. ~Sending(t)
      BY <2>3 DEF Sending
    <3>3. ASSUME NEW u \in Thread, Sending(u), NEW i \in DOMAIN sending[u]
          PROVE  entry'[sending[u][i]] = dispatchers[u][i]
      <4>1. /\ entry[sending[u][i]] = dispatchers[u][i]
            /\ DOMAIN dispatchers[u] = DOMAIN sending[u]
        BY <3>3 DEF IInv, BusyEntriesOwned, CallInv, CallOK
      <4>2. dispatchers[u][i] \in Dispatcher /\ sending[u][i] \in MojoHandle
        BY <3>3, <4>1 DEF IInv, TypeOK
      <4>3. entry[sending[u][i]] # NoDispatcher
        BY <4>1, <4>2 DEF Dispatcher, NoDispatcher
      <4>4. sending[u][i] \in MojoHandle \ {h0, h1}
        BY <1>2, <4>2, <4>3
      <4> QED
        BY <2>4, <4>1, <4>4
    <3> QED
      BY <1>0, <2>2, <3>1, <3>2, <3>3 DEF IInv, BusyEntriesOwned
  <2> QED
    BY <2>1, <2>5, <2>6, <2>7, <2>8, <2>9, <2>10, <2>11 DEF IInv
<1> QED
  BY <1>1, <1>2, CreateFacts

\* A step of t that touches neither the table nor the dispatchers, only the call of t,
\* keeps what the invariant says of the table.
LEMMA CallOnly ==
    ASSUME IInv, NEW t \in Thread,
           entry' = entry, created' = created, refused' = refused, isClosed' = isClosed,
           \A u \in Thread \ {t} : op'[u] = op[u] /\ ref'[u] = ref[u],
           op[t] # "close"
    PROVE  EntriesInv' /\ SizeInv' /\ CreatedInv' /\ NumberingInv'
<1>1. InUse' = InUse
  BY DEF InUse
<1>2. EntriesInv' /\ SizeInv' /\ NumberingInv'
  BY <1>1 DEF IInv, EntriesInv, SizeInv, NumberingInv
<1>3. CreatedInv'
  BY DEF IInv, CreatedInv
<1> QED
  BY <1>2, <1>3

\* A step in which t neither starts nor stops to send, and which leaves alone the marks,
\* the locks and the entries, keeps what is said of sent handles.
LEMMA SendersKeep ==
    ASSUME IInv, NEW t \in Thread,
           entry' = entry, busy' = busy, lock' = lock, isClosed' = isClosed,
           ~Sending(t), ~Sending(t)', dispatchers' \in [Thread -> Seq(Dispatcher)],
           \A u \in Thread \ {t} : /\ pc'[u] = pc[u] /\ op'[u] = op[u]
                                   /\ sending'[u] = sending[u]
                                   /\ dispatchers'[u] = dispatchers[u]
    PROVE  BusyEntriesOwned' /\ SentDispatchersHeld'
<1>1. \A u \in Thread : Sending(u)' <=> Sending(u)
  BY DEF Sending
<1>2. \A u \in Thread : Sending(u) => /\ u # t /\ sending'[u] = sending[u]
                                      /\ dispatchers'[u] = dispatchers[u]
  OBVIOUS
<1>3. BusyEntriesOwned'
  <2>1. ASSUME NEW h \in MojoHandle, busy'[h]
        PROVE  \E u \in Thread :
                    /\ Sending(u)' /\ h \in Range(sending'[u])
                    /\ \A v \in Thread : Sending(v)' /\ h \in Range(sending'[v]) => v = u
    <3>1. PICK u \in Thread :
                    /\ Sending(u) /\ h \in Range(sending[u])
                    /\ \A v \in Thread : Sending(v) /\ h \in Range(sending[v]) => v = u
      BY <2>1 DEF IInv, BusyEntriesOwned
    <3> QED
      BY <1>1, <1>2, <3>1
  <2>2. ASSUME NEW u \in Thread, Sending(u)', NEW i \in DOMAIN sending'[u]
        PROVE  /\ busy'[sending'[u][i]]
               /\ entry'[sending'[u][i]] = dispatchers'[u][i]
    <3>1. Sending(u) /\ sending'[u] = sending[u] /\ dispatchers'[u] = dispatchers[u]
      BY <1>1, <1>2, <2>2
    <3> QED
      BY <3>1 DEF IInv, BusyEntriesOwned
  <2> QED
    BY <2>1, <2>2 DEF BusyEntriesOwned
<1>4. SentDispatchersHeld'
  BY <1>1, <1>2 DEF IInv, SentDispatchersHeld
<1> QED
  BY <1>3, <1>4

\* What is known of a call: the variables indexed by threads have their types.
CallTypeOK ==
    /\ pc \in [Thread -> PCs]
    /\ op \in [Thread -> {"use", "close", "write"}]
    /\ handle \in [Thread -> MojoHandle]
    /\ ref \in [Thread -> Dispatcher \cup {NoDispatcher}]
    /\ sending \in [Thread -> Seq(MojoHandle)]
    /\ dispatchers \in [Thread -> Seq(Dispatcher)]

\* A call returns, and the other calls do not notice.
LEMMA ReturnFacts ==
    ASSUME CallTypeOK, NEW t \in Thread, Return(t)
    PROVE  /\ CallTypeOK'
           /\ pc'[t] = "idle" /\ op'[t] = "use"
           /\ \A u \in Thread \ {t} : /\ pc'[u] = pc[u] /\ op'[u] = op[u] /\ ref'[u] = ref[u]
                                      /\ sending'[u] = sending[u]
                                      /\ dispatchers'[u] = dispatchers[u]
<1>1. MOJO_HANDLE_INVALID \in MojoHandle
  BY ConstantsAssumption DEF MojoHandle, MOJO_HANDLE_INVALID
<1> QED
  BY <1>1 DEF Return, GoTo, CallTypeOK, PCs

\* A call goes on with its dispatcher, and the other calls do not notice.
LEMMA BeginFacts ==
    ASSUME CallTypeOK, NEW t \in Thread, NEW label \in PCs,
           NEW what \in {"use", "close", "write"}, NEW h \in MojoHandle,
           NEW d \in Dispatcher, NEW s \in Seq(MojoHandle), Begin(t, label, what, h, d, s)
    PROVE  /\ CallTypeOK'
           /\ pc'[t] = label /\ op'[t] = what /\ ref'[t] = d
           /\ \A u \in Thread \ {t} : /\ pc'[u] = pc[u] /\ op'[u] = op[u] /\ ref'[u] = ref[u]
                                      /\ sending'[u] = sending[u]
                                      /\ dispatchers'[u] = dispatchers[u]
  BY DEF Begin, GoTo, CallTypeOK

\* MessagePipeDispatcher::Init on the two dispatchers of a new pipe.
LEMMA InitDispatcherStep ==
    ASSUME IInv, NEW t \in Thread, InitDispatcher(t)
    PROVE  IInv'
<1>0. /\ entry' = entry /\ busy' = busy /\ nextHandle' = nextHandle
      /\ created' = created /\ refused' = refused /\ isClosed' = isClosed /\ lock' = lock
      /\ created \in Nat /\ created <= MaxDispatchers
      /\ MOJO_HANDLE_INVALID \in MojoHandle
  BY ConstantsAssumption DEF InitDispatcher, tableVars, IInv, TypeOK, MojoHandle,
     MOJO_HANDLE_INVALID
<1>1. /\ pc[t] \in {"init0", "init1"} /\ op[t] = "use"
      /\ ref[t] \in Dispatcher
      /\ pc[t] = "init0" => ref[t] + 1 \in 1..created /\ ref[t] + 1 \in Dispatcher
  <2>1. pc[t] \in {"init0", "init1"}
    BY DEF InitDispatcher
  <2>2. CallOK(t) /\ op[t] \in {"use", "close", "write"}
    BY DEF IInv, CallInv, TypeOK
  <2>3. op[t] = "use"
    BY <2>1, <2>2 DEF CallOK
  <2>4. /\ ref[t] \in 1..created
        /\ pc[t] = "init0" => ref[t] + 1 \in 1..created
    BY <2>1, <2>2 DEF CallOK
  <2>5. \A d \in 1..created : d \in Dispatcher
    BY <1>0, ConstantsAssumption DEF Dispatcher
  <2> QED
    BY <2>1, <2>3, <2>4, <2>5
<1>2. /\ CallTypeOK'
      /\ op'[t] = "use"
      /\ \/ pc[t] = "init0" /\ pc'[t] = "init1" /\ ref'[t] = ref[t] + 1
         \/ pc'[t] = "idle"
      /\ \A u \in Thread \ {t} : /\ pc'[u] = pc[u] /\ op'[u] = op[u] /\ ref'[u] = ref[u]
                                 /\ sending'[u] = sending[u]
                                 /\ dispatchers'[u] = dispatchers[u]
  <2>1. CallTypeOK /\ "init1" \in PCs /\ <<>> \in Seq(MojoHandle)
    BY DEF IInv, TypeOK, CallTypeOK, PCs
  <2>2. CASE Return(t)
    BY <2>1, <2>2, ReturnFacts
  <2>3. CASE pc[t] = "init0"
             /\ Begin(t, "init1", "use", MOJO_HANDLE_INVALID, ref[t] + 1, <<>>)
    BY <1>0, <1>1, <2>1, <2>3, BeginFacts
  <2> QED
    BY <2>2, <2>3 DEF InitDispatcher
<1>3. TypeOK'
  <2>2. initialized' \in [Dispatcher -> BOOLEAN]
    <3>1. initialized' = [initialized EXCEPT ![ref[t]] = TRUE]
      BY DEF InitDispatcher
    <3> QED
      BY <3>1 DEF IInv, TypeOK
  <2> QED
    BY <1>0, <1>2, <2>2 DEF IInv, TypeOK, CallTypeOK
<1>4. EntriesInv' /\ SizeInv' /\ CreatedInv' /\ NumberingInv'
  BY <1>0, <1>1, <1>2, CallOnly
<1>5. CallInv'
  <2>1. ASSUME NEW u \in Thread PROVE CallOK(u)'
    <3>1. CallOK(u)
      BY DEF IInv, CallInv
    <3>2. CASE u = t
      BY <1>0, <1>1, <1>2, <3>2 DEF CallOK, Sending
    <3>3. CASE u # t
      BY <1>0, <1>2, <3>1, <3>3 DEF CallOK, Sending
    <3> QED
      BY <3>2, <3>3
  <2> QED
    BY <2>1 DEF CallInv
<1>6. LockInv'
  BY <1>0, <1>1, <1>2 DEF IInv, LockInv, Sending
<1>7. BusyEntriesOwned' /\ SentDispatchersHeld'
  <2>1. ~Sending(t) /\ ~Sending(t)' /\ dispatchers' \in [Thread -> Seq(Dispatcher)]
    BY <1>1, <1>2, <1>3 DEF Sending, TypeOK
  <2> QED
    BY <1>0, <1>2, <2>1, SendersKeep
<1> QED
  BY <1>3, <1>4, <1>5, <1>6, <1>7 DEF IInv

\* GetDispatcher: the call learns its dispatcher, or fails.
LEMMA GetDispatcherStep ==
    ASSUME IInv, NEW t \in Thread, NEW h \in MojoHandle, NEW hs \in SentHandles,
           GetDispatcher(t, h, hs)
    PROVE  IInv'
<1>0. /\ entry' = entry /\ busy' = busy /\ nextHandle' = nextHandle
      /\ created' = created /\ refused' = refused /\ isClosed' = isClosed /\ lock' = lock
      /\ initialized' = initialized
      /\ created \in Nat /\ created <= MaxDispatchers
  BY ConstantsAssumption DEF GetDispatcher, tableVars, dispatcherVars, IInv, TypeOK
<1>1. pc[t] = "idle" /\ op[t] = "use"
  BY DEF GetDispatcher, IInv, TypeOK, CallInv, CallOK
<1>2. CASE pc' = pc /\ UNCHANGED callVars
  <2>1. /\ op' = op /\ handle' = handle /\ ref' = ref /\ sending' = sending
        /\ dispatchers' = dispatchers /\ pc' = pc
    BY <1>2 DEF callVars
  <2>2. TypeOK' /\ CallInv'
    BY <1>0, <2>1 DEF IInv, TypeOK, CallInv, CallOK, Sending
  <2>3. LockInv' /\ BusyEntriesOwned' /\ SentDispatchersHeld'
    BY <1>0, <2>1 DEF IInv, LockInv, BusyEntriesOwned, SentDispatchersHeld, Sending
  <2>4. EntriesInv' /\ SizeInv' /\ CreatedInv' /\ NumberingInv'
    BY <1>0, <1>1, <2>1, CallOnly
  <2> QED
    BY <2>2, <2>3, <2>4 DEF IInv
<1>3. ASSUME NEW label \in {"call", "mark"}, NEW what \in {"use", "write"},
             (label = "mark") <=> (what = "write"), NEW s \in Seq(MojoHandle),
             entry[h] # NoDispatcher, Begin(t, label, what, h, entry[h], s)
      PROVE  IInv'
  <2>0. entry[h] \in 1..created /\ entry[h] \in Dispatcher
    BY <1>3 DEF IInv, EntriesInv, TypeOK
  <2>1. /\ CallTypeOK'
        /\ op'[t] = what /\ pc'[t] = label /\ ref'[t] = entry[h]
        /\ \A u \in Thread \ {t} : /\ pc'[u] = pc[u] /\ op'[u] = op[u] /\ ref'[u] = ref[u]
                                   /\ sending'[u] = sending[u]
                                   /\ dispatchers'[u] = dispatchers[u]
    <3>1. CallTypeOK /\ label \in PCs
      BY DEF IInv, TypeOK, CallTypeOK, PCs
    <3> QED
      BY <1>3, <2>0, <3>1, BeginFacts
  <2>2. TypeOK'
    BY <1>0, <2>1 DEF IInv, TypeOK, CallTypeOK
  <2>3. EntriesInv' /\ SizeInv' /\ CreatedInv' /\ NumberingInv'
    BY <1>0, <1>1, <2>1, CallOnly
  <2>4. CallInv'
    <3>1. ASSUME NEW u \in Thread PROVE CallOK(u)'
      <4>1. CallOK(u)
        BY DEF IInv, CallInv
      <4>2. CASE u = t
        BY <1>0, <1>3, <2>0, <2>1, <4>2 DEF CallOK, Sending
      <4>3. CASE u # t
        BY <1>0, <2>1, <4>1, <4>3 DEF CallOK, Sending
      <4> QED
        BY <4>2, <4>3
    <3> QED
      BY <3>1 DEF CallInv
  <2>5. LockInv'
    BY <1>0, <1>1, <1>3, <2>1 DEF IInv, LockInv, Sending
  <2>6. BusyEntriesOwned' /\ SentDispatchersHeld'
    <3>1. ~Sending(t) /\ ~Sending(t)' /\ dispatchers' \in [Thread -> Seq(Dispatcher)]
      BY <1>1, <1>3, <2>1, <2>2 DEF Sending, TypeOK
    <3> QED
      BY <1>0, <2>1, <3>1, SendersKeep
  <2> QED
    BY <2>2, <2>3, <2>4, <2>5, <2>6 DEF IInv
<1>4. hs \in Seq(MojoHandle) /\ <<>> \in Seq(MojoHandle)
  BY SentHandlesAreSeq
<1> QED
  BY <1>2, <1>3, <1>4 DEF GetDispatcher

\* Close: the entry it takes out is not busy, so no WriteMessage sends its handle.
LEMMA CloseStep ==
    ASSUME IInv, NEW t \in Thread, NEW h \in MojoHandle, Close(t, h)
    PROVE  IInv'
<1>0. /\ busy' = busy /\ nextHandle' = nextHandle
      /\ created' = created /\ refused' = refused /\ isClosed' = isClosed /\ lock' = lock
      /\ initialized' = initialized
  BY DEF Close, dispatcherVars
<1>1. pc[t] = "idle" /\ op[t] = "use" /\ ~Sending(t)
  BY DEF Close, IInv, TypeOK, CallInv, CallOK, Sending
<1>2. CASE entry' = entry /\ pc' = pc /\ UNCHANGED callVars
  <2>1. /\ op' = op /\ handle' = handle /\ ref' = ref /\ sending' = sending
        /\ dispatchers' = dispatchers /\ pc' = pc /\ entry' = entry
    BY <1>2 DEF callVars
  <2>2. TypeOK' /\ CallInv'
    BY <1>0, <2>1 DEF IInv, TypeOK, CallInv, CallOK, Sending
  <2>3. LockInv' /\ BusyEntriesOwned' /\ SentDispatchersHeld'
    BY <1>0, <2>1 DEF IInv, LockInv, BusyEntriesOwned, SentDispatchersHeld, Sending
  <2>4. EntriesInv' /\ SizeInv' /\ CreatedInv' /\ NumberingInv'
    BY <1>0, <1>1, <2>1, CallOnly
  <2> QED
    BY <2>2, <2>3, <2>4 DEF IInv
<1>3. CASE /\ entry[h] # NoDispatcher /\ ~busy[h]
           /\ entry' = [entry EXCEPT ![h] = NoDispatcher]
           /\ Begin(t, "call", "close", h, entry[h], <<>>)
  <2> DEFINE d == entry[h]
  <2>0. d \in 1..created /\ d \in Dispatcher
    BY <1>3 DEF IInv, EntriesInv, TypeOK
  <2>1. /\ CallTypeOK'
        /\ op'[t] = "close" /\ pc'[t] = "call" /\ ref'[t] = d
        /\ \A u \in Thread \ {t} : /\ pc'[u] = pc[u] /\ op'[u] = op[u] /\ ref'[u] = ref[u]
                                   /\ sending'[u] = sending[u]
                                   /\ dispatchers'[u] = dispatchers[u]
    <3>1. CallTypeOK /\ "call" \in PCs /\ <<>> \in Seq(MojoHandle)
      BY DEF IInv, TypeOK, CallTypeOK, PCs
    <3>2. Begin(t, "call", "close", h, entry[h], <<>>)
      BY <1>3
    <3> QED
      BY <2>0, <3>1, <3>2 DEF Begin, GoTo, CallTypeOK
  <2>2. /\ entry \in [MojoHandle -> Dispatcher \cup {NoDispatcher}]
        /\ entry' \in [MojoHandle -> Dispatcher \cup {NoDispatcher}]
        /\ entry'[h] = NoDispatcher
        /\ \A g \in MojoHandle \ {h} : entry'[g] = entry[g]
    BY <1>3 DEF IInv, TypeOK
  <2>3. TypeOK'
    BY <1>0, <2>1, <2>2 DEF IInv, TypeOK, CallTypeOK
  <2>4. \A g \in MojoHandle : entry'[g] # d
    <3>1. \A g \in MojoHandle : entry[g] = d => g = h
      <4>1. entry[h] # NoDispatcher
        BY <1>3
      <4> QED
        BY <4>1 DEF IInv, EntriesInv
    <3>2. NoDispatcher # d
      BY <1>3
    <3> HIDE DEF d
    <3> QED
      BY <2>2, <3>1, <3>2
  <2>5. EntriesInv'
    BY <1>0, <2>2 DEF IInv, EntriesInv
  <2>6. SizeInv'
    <3>1. InUse' \subseteq InUse
      BY <2>2 DEF InUse
    <3>2. Cardinality(InUse') <= Cardinality(InUse) /\ Cardinality(InUse') \in Nat
      BY <3>1, InUseIsFinite, FS_Subset, FS_CardinalityType
    <3> QED
      BY <3>2, InUseIsFinite, ConstantsAssumption DEF IInv, SizeInv
  <2>7. CreatedInv'
    <3>1. SUFFICES ASSUME NEW e \in 1..created, e \notin refused
                   PROVE  \/ \E g \in MojoHandle : entry'[g] = e
                          \/ isClosed[e]
                          \/ \E u \in Thread : op'[u] = "close" /\ ref'[u] = e
      BY <1>0 DEF CreatedInv
    <3>2. CASE e = d
      BY <2>1, <3>2
    <3>3. CASE e # d
      <4>1. \/ \E g \in MojoHandle : entry[g] = e
            \/ isClosed[e]
            \/ \E u \in Thread : op[u] = "close" /\ ref[u] = e
        BY <3>1 DEF IInv, CreatedInv
      <4>2. ASSUME NEW g \in MojoHandle, entry[g] = e PROVE entry'[g] = e
        BY <2>2, <3>3, <4>2
      <4>3. ASSUME NEW u \in Thread, op[u] = "close", ref[u] = e
            PROVE  op'[u] = "close" /\ ref'[u] = e
        BY <1>1, <2>1, <4>3
      <4> QED
        BY <4>1, <4>2, <4>3
    <3> QED
      BY <3>2, <3>3
  <2>8. NumberingInv'
    BY <1>0 DEF IInv, NumberingInv
  <2>9. CallInv'
    <3>1. ASSUME NEW u \in Thread PROVE CallOK(u)'
      <4>1. CallOK(u)
        BY DEF IInv, CallInv
      <4>2. CASE u = t
        BY <1>0, <2>0, <2>1, <2>4, <4>2 DEF CallOK, Sending
      <4>3. CASE u # t
        <5>1. op[u] = "close" => \A g \in MojoHandle : entry'[g] # ref[u]
          <6>1. SUFFICES ASSUME op[u] = "close", NEW g \in MojoHandle
                         PROVE  entry'[g] # ref[u]
            OBVIOUS
          <6>2. ref[u] \in 1..created /\ entry[g] # ref[u]
            BY <4>1, <6>1 DEF CallOK
          <6>3. ref[u] # NoDispatcher
            BY <6>2 DEF NoDispatcher, IInv, TypeOK
          <6> QED
            BY <2>2, <6>2, <6>3
        <5> QED
          BY <1>0, <2>1, <4>1, <4>3, <5>1 DEF CallOK, Sending
      <4> QED
        BY <4>2, <4>3
    <3> QED
      BY <3>1 DEF CallInv
  <2>10. LockInv'
    BY <1>0, <1>1, <2>1 DEF IInv, LockInv, Sending
  <2>11. \A u \in Thread : /\ Sending(u)' <=> Sending(u)
                           /\ Sending(u) => /\ u # t /\ pc'[u] = pc[u]
                                            /\ sending'[u] = sending[u]
                                            /\ dispatchers'[u] = dispatchers[u]
    BY <1>1, <2>1 DEF Sending
  <2>12. BusyEntriesOwned'
    <3>1. ASSUME NEW g \in MojoHandle, busy'[g]
          PROVE  \E u \in Thread :
                    /\ Sending(u)' /\ g \in Range(sending'[u])
                    /\ \A v \in Thread : Sending(v)' /\ g \in Range(sending'[v]) => v = u
      <4>1. PICK u \in Thread :
                    /\ Sending(u) /\ g \in Range(sending[u])
                    /\ \A v \in Thread : Sending(v) /\ g \in Range(sending[v]) => v = u
        BY <1>0, <3>1 DEF IInv, BusyEntriesOwned
      <4> QED
        BY <2>11, <4>1
    <3>2. ASSUME NEW u \in Thread, Sending(u)', NEW i \in DOMAIN sending'[u]
          PROVE  /\ busy'[sending'[u][i]]
                 /\ entry'[sending'[u][i]] = dispatchers'[u][i]
      <4>1. Sending(u) /\ sending'[u] = sending[u] /\ dispatchers'[u] = dispatchers[u]
        BY <2>11, <3>2
      <4>2. /\ busy[sending[u][i]] /\ entry[sending[u][i]] = dispatchers[u][i]
        BY <3>2, <4>1 DEF IInv, BusyEntriesOwned
      <4>3. sending[u][i] \in MojoHandle
        BY <3>2, <4>1 DEF IInv, TypeOK
      <4>4. sending[u][i] # h
        BY <1>3, <4>2
      <4> QED
        BY <1>0, <2>2, <4>1, <4>2, <4>3, <4>4
    <3> QED
      BY <3>1, <3>2 DEF BusyEntriesOwned
  <2>13. SentDispatchersHeld'
    BY <1>0, <2>11 DEF IInv, SentDispatchersHeld
  <2> QED
    BY <2>3, <2>5, <2>6, <2>7, <2>8, <2>9, <2>10, <2>12, <2>13 DEF IInv
<1> QED
  BY <1>2, <1>3 DEF Close

\* Acquire: the lock was free, so it is not that of a dispatcher that is being sent.
LEMMA AcquireStep ==
    ASSUME IInv, NEW t \in Thread, Acquire(t)
    PROVE  IInv'
<1>0. /\ entry' = entry /\ busy' = busy /\ nextHandle' = nextHandle
      /\ created' = created /\ refused' = refused /\ isClosed' = isClosed
      /\ initialized' = initialized
      /\ op' = op /\ handle' = handle /\ ref' = ref /\ sending' = sending
      /\ dispatchers' = dispatchers
      /\ pc[t] = "call" /\ lock[ref[t]] = NoThread
  BY DEF Acquire, tableVars, callVars
<1>1. ref[t] \in Dispatcher
  <2>1. ref[t] \in 1..created
    BY <1>0 DEF IInv, CallInv, CallOK
  <2> QED
    BY <2>1, ConstantsAssumption DEF IInv, TypeOK, Dispatcher
<1>2. /\ pc' \in [Thread -> PCs] /\ pc'[t] = "locked"
      /\ \A u \in Thread \ {t} : pc'[u] = pc[u]
  BY DEF Acquire, GoTo, IInv, TypeOK, PCs
<1>3. /\ lock' \in [Dispatcher -> Thread \cup {NoThread}]
      /\ lock'[ref[t]] = t
      /\ \A d \in Dispatcher \ {ref[t]} : lock'[d] = lock[d]
  BY <1>1 DEF Acquire, IInv, TypeOK
<1>4. TypeOK'
  BY <1>0, <1>2, <1>3 DEF IInv, TypeOK
<1>5. InUse' = InUse
  BY <1>0 DEF InUse
<1>6. EntriesInv' /\ SizeInv' /\ CreatedInv' /\ NumberingInv'
  BY <1>0, <1>5 DEF IInv, EntriesInv, SizeInv, CreatedInv, NumberingInv
<1>7. \A u \in Thread : Sending(u)' <=> Sending(u)
  BY <1>0, <1>2 DEF Sending
<1>8. CallInv'
  BY <1>0, <1>2 DEF IInv, CallInv, CallOK, Sending
<1>9. BusyEntriesOwned'
  BY <1>0, <1>7 DEF IInv, BusyEntriesOwned
<1>10. \A u \in Thread : /\ Sending(u) /\ pc[u] # "unmark"
                         => \A d \in Range(dispatchers[u]) : d \in Dispatcher /\ d # ref[t]
  <2>1. SUFFICES ASSUME NEW u \in Thread, Sending(u), pc[u] # "unmark",
                        NEW d \in Range(dispatchers[u])
                 PROVE  d \in Dispatcher /\ d # ref[t]
    OBVIOUS
  <2>2. lock[d] = u
    BY <2>1 DEF IInv, SentDispatchersHeld
  <2>3. d \in Dispatcher
    BY <2>1 DEF IInv, TypeOK, Range
  <2> QED
    BY <1>0, <2>2, <2>3, ConstantsAssumption
<1>11. SentDispatchersHeld'
  BY <1>0, <1>2, <1>3, <1>7, <1>10 DEF IInv, SentDispatchersHeld
<1>12. LockInv'
  <2>1. ASSUME NEW u \in Thread, pc'[u] = "locked"
        PROVE  /\ lock'[ref[u]] = u
               /\ Sending(u) => ref[u] \notin Range(dispatchers[u])
    <3>1. CASE u = t
      BY <1>0, <1>3, <1>10, <3>1
    <3>2. CASE u # t
      <4>1. /\ pc[u] = "locked" /\ lock[ref[u]] = u
            /\ Sending(u) => ref[u] \notin Range(dispatchers[u])
        BY <1>2, <2>1, <3>2 DEF IInv, LockInv
      <4>2. ref[u] \in Dispatcher
        <5>1. ref[u] \in 1..created
          BY <4>1 DEF IInv, CallInv, CallOK
        <5> QED
          BY <5>1, ConstantsAssumption DEF IInv, TypeOK, Dispatcher
      <4>3. ref[u] # ref[t]
        BY <1>0, <4>1, ConstantsAssumption
      <4> QED
        BY <1>3, <4>1, <4>2, <4>3
    <3> QED
      BY <3>1, <3>2
  <2> QED
    BY <1>0, <1>7, <2>1 DEF LockInv
<1> QED
  BY <1>4, <1>6, <1>8, <1>9, <1>11, <1>12 DEF IInv

\* MarkBusy: all handles and dispatchers a WriteMessage takes were nobody's.
LEMMA MarkBusyStep ==
    ASSUME IInv, NEW t \in Thread, MarkBusy(t)
    PROVE  IInv'
<1>0. /\ entry' = entry /\ nextHandle' = nextHandle
      /\ created' = created /\ refused' = refused /\ isClosed' = isClosed
      /\ initialized' = initialized
      /\ pc[t] = "mark"
  BY DEF MarkBusy
<1>1. op[t] = "write" /\ ~Sending(t)
  BY <1>0 DEF IInv, CallInv, CallOK, Sending
<1>2. CASE Return(t) /\ busy' = busy /\ lock' = lock
  <2>1. /\ CallTypeOK'
        /\ op'[t] = "use" /\ pc'[t] = "idle"
        /\ \A u \in Thread \ {t} : /\ pc'[u] = pc[u] /\ op'[u] = op[u] /\ ref'[u] = ref[u]
                                   /\ sending'[u] = sending[u]
                                   /\ dispatchers'[u] = dispatchers[u]
    <3>1. CallTypeOK
      BY DEF IInv, TypeOK, CallTypeOK
    <3> QED
      BY <1>2, <3>1, ReturnFacts
  <2>2. TypeOK'
    BY <1>0, <1>2, <2>1 DEF IInv, TypeOK, CallTypeOK
  <2>3. EntriesInv' /\ SizeInv' /\ CreatedInv' /\ NumberingInv'
    BY <1>0, <1>1, <2>1, CallOnly
  <2>4. CallInv' /\ LockInv'
    BY <1>0, <1>2, <2>1 DEF IInv, CallInv, CallOK, LockInv, Sending
  <2>5. BusyEntriesOwned' /\ SentDispatchersHeld'
    <3>1. ~Sending(t)' /\ dispatchers' \in [Thread -> Seq(Dispatcher)]
      BY <2>1 DEF Sending, CallTypeOK
    <3> QED
      BY <1>0, <1>1, <1>2, <2>1, <3>1, SendersKeep
  <2> QED
    BY <2>2, <2>3, <2>4, <2>5 DEF IInv
<1>3. ASSUME \A i \in DOMAIN sending[t] : CanSend(t, i),
             busy' = [h \in MojoHandle |-> busy[h] \/ h \in Range(sending[t])],
             dispatchers' = [dispatchers EXCEPT ![t] =
                                [i \in DOMAIN sending[t] |-> entry[sending[t][i]]]],
             lock' = [d \in Dispatcher |->
                        IF \E i \in DOMAIN sending[t] : entry[sending[t][i]] = d
                        THEN t ELSE lock[d]],
             GoTo(t, "call"), UNCHANGED <<op, handle, ref, sending>>
      PROVE  IInv'
  <2> DEFINE hs == sending[t]
             ds == [i \in DOMAIN hs |-> entry[hs[i]]]
  <2>0. hs \in Seq(MojoHandle) /\ \A i \in DOMAIN hs : hs[i] \in MojoHandle
    BY DEF IInv, TypeOK
  <2>1. \A i \in DOMAIN hs : /\ entry[hs[i]] \in Dispatcher
                             /\ ~busy[hs[i]]
                             /\ lock[entry[hs[i]]] = NoThread
                             /\ ~isClosed[entry[hs[i]]]
    <3>1. ASSUME NEW i \in DOMAIN hs
          PROVE  /\ entry[hs[i]] \in Dispatcher
                 /\ ~busy[hs[i]]
                 /\ lock[entry[hs[i]]] = NoThread
                 /\ ~isClosed[entry[hs[i]]]
      <4>1. entry[hs[i]] # NoDispatcher /\ ~busy[hs[i]] /\ lock[entry[hs[i]]] = NoThread
        BY <1>3 DEF CanSend
      <4> QED
        BY <2>0, <4>1 DEF IInv, TypeOK, EntriesInv
    <3> QED
      BY <3>1
  <2>2. ds \in Seq(Dispatcher) /\ DOMAIN ds = DOMAIN hs
    <3>1. DOMAIN hs = 1..Len(hs) /\ Len(hs) \in Nat
      BY <2>0
    <3> HIDE DEF hs
    <3>2. ds \in [1..Len(hs) -> Dispatcher]
      BY <2>1, <3>1
    <3> HIDE DEF ds
    <3> QED
      BY <3>1, <3>2, SeqDef
  <2>3. /\ op' = op /\ handle' = handle /\ ref' = ref /\ sending' = sending
        /\ pc' \in [Thread -> PCs] /\ pc'[t] = "call"
        /\ \A u \in Thread \ {t} : pc'[u] = pc[u]
    BY <1>3 DEF IInv, TypeOK, GoTo, PCs
  <2>4. /\ dispatchers' \in [Thread -> Seq(Dispatcher)] /\ dispatchers'[t] = ds
        /\ \A u \in Thread \ {t} : dispatchers'[u] = dispatchers[u]
    <3> HIDE DEF ds
    <3>1. dispatchers' = [dispatchers EXCEPT ![t] = ds]
      BY <1>3 DEF ds
    <3> QED
      BY <2>2, <3>1 DEF IInv, TypeOK
  <2>5. /\ busy' \in [MojoHandle -> BOOLEAN]
        /\ \A h \in MojoHandle : busy'[h] <=> busy[h] \/ h \in Range(hs)
    BY <1>3 DEF IInv, TypeOK
  <2>6. /\ lock' \in [Dispatcher -> Thread \cup {NoThread}]
        /\ \A d \in Dispatcher : d \in Range(ds) => lock'[d] = t
        /\ \A d \in Dispatcher : lock[d] # NoThread => lock'[d] = lock[d]
    <3>1. lock' \in [Dispatcher -> Thread \cup {NoThread}]
      BY <1>3 DEF IInv, TypeOK
    <3>2. \A d \in Dispatcher : d \in Range(ds) => lock'[d] = t
      BY <1>3 DEF Range
    <3>3. ASSUME NEW d \in Dispatcher, lock[d] # NoThread PROVE lock'[d] = lock[d]
      <4>1. ~ \E i \in DOMAIN hs : entry[hs[i]] = d
        BY <2>1, <3>3
      <4> QED
        BY <1>3, <4>1
    <3> QED
      BY <3>1, <3>2, <3>3
  <2> HIDE DEF ds, hs
  <2>7. TypeOK'
    BY <1>0, <2>3, <2>4, <2>5, <2>6 DEF IInv, TypeOK
  <2>8. EntriesInv' /\ SizeInv' /\ CreatedInv' /\ NumberingInv'
    BY <1>0, <1>1, <2>3, CallOnly
  <2>9. \A u \in Thread : /\ Sending(u)' <=> Sending(u) \/ u = t
                          /\ Sending(u) => /\ u # t /\ pc'[u] = pc[u]
                                           /\ dispatchers'[u] = dispatchers[u]
    BY <1>1, <2>3, <2>4 DEF Sending
  <2>10. CallInv'
    <3>1. ASSUME NEW u \in Thread PROVE CallOK(u)'
      <4>1. CallOK(u)
        BY DEF IInv, CallInv
      <4>2. CASE u = t
        BY <1>0, <1>1, <2>2, <2>3, <2>4, <4>1, <4>2 DEF CallOK, Sending, hs
      <4>3. CASE u # t
        BY <1>0, <2>3, <2>4, <4>1, <4>3 DEF CallOK, Sending
      <4> QED
        BY <4>2, <4>3
    <3> QED
      BY <3>1 DEF CallInv
  <2>11. LockInv'
    <3>1. ASSUME NEW u \in Thread, pc'[u] = "locked"
          PROVE  /\ lock'[ref'[u]] = u
                 /\ Sending(u)' => ref'[u] \notin Range(dispatchers'[u])
      <4>1. u # t /\ pc[u] = "locked"
        BY <2>3, <3>1
      <4>2. /\ lock[ref[u]] = u
            /\ Sending(u) => ref[u] \notin Range(dispatchers[u])
        BY <4>1 DEF IInv, LockInv
      <4>3. ref[u] \in Dispatcher
        <5>1. ref[u] \in 1..created
          BY <4>1 DEF IInv, CallInv, CallOK
        <5> QED
          BY <5>1, ConstantsAssumption DEF IInv, TypeOK, Dispatcher
      <4> QED
        BY <2>3, <2>4, <2>6, <2>9, <4>1, <4>2, <4>3, ConstantsAssumption
    <3> QED
      BY <3>1 DEF LockInv
  <2>12. BusyEntriesOwned'
    <3>1. ASSUME NEW h \in MojoHandle, busy'[h]
          PROVE  \E u \in Thread :
                    /\ Sending(u)' /\ h \in Range(sending'[u])
                    /\ \A v \in Thread : Sending(v)' /\ h \in Range(sending'[v]) => v = u
      <4>1. CASE h \in Range(hs)
        <5>1. ~busy[h]
          BY <2>1, <4>1 DEF Range
        <5>2. \A v \in Thread : Sending(v) => h \notin Range(sending[v])
          BY <5>1 DEF IInv, BusyEntriesOwned, Range
        <5> QED
          BY <2>3, <2>9, <4>1, <5>2 DEF hs
      <4>2. CASE h \notin Range(hs)
        <5>1. busy[h]
          BY <2>5, <3>1, <4>2
        <5>2. PICK u \in Thread :
                    /\ Sending(u) /\ h \in Range(sending[u])
                    /\ \A v \in Thread : Sending(v) /\ h \in Range(sending[v]) => v = u
          BY <5>1 DEF IInv, BusyEntriesOwned
        <5> QED
          BY <2>3, <2>9, <4>2, <5>2 DEF hs
      <4> QED
        BY <4>1, <4>2
    <3>2. ASSUME NEW u \in Thread, Sending(u)', NEW i \in DOMAIN sending'[u]
          PROVE  /\ busy'[sending'[u][i]]
                 /\ entry'[sending'[u][i]] = dispatchers'[u][i]
      <4>1. CASE u = t
        <5>1. sending'[u] = hs /\ i \in DOMAIN hs
          BY <2>3, <3>2, <4>1 DEF hs
        <5>2. hs[i] \in MojoHandle /\ hs[i] \in Range(hs)
          BY <2>0, <5>1 DEF Range
        <5>3. dispatchers'[u][i] = entry[hs[i]]
          BY <2>4, <4>1, <5>1 DEF ds
        <5> QED
          BY <1>0, <2>5, <5>1, <5>2, <5>3
      <4>2. CASE u # t
        <5>1. /\ Sending(u) /\ sending'[u] = sending[u] /\ dispatchers'[u] = dispatchers[u]
          BY <2>3, <2>9, <3>2, <4>2
        <5>2. /\ busy[sending[u][i]] /\ entry[sending[u][i]] = dispatchers[u][i]
              /\ sending[u][i] \in MojoHandle
          BY <3>2, <5>1 DEF IInv, BusyEntriesOwned, TypeOK
        <5> QED
          BY <1>0, <2>5, <5>1, <5>2
      <4> QED
        BY <4>1, <4>2
    <3> QED
      BY <3>1, <3>2 DEF BusyEntriesOwned
  <2>13. SentDispatchersHeld'
    <3>1. SUFFICES ASSUME NEW u \in Thread, Sending(u)', pc'[u] # "unmark",
                          NEW d \in Range(dispatchers'[u])
                   PROVE  lock'[d] = u /\ ~isClosed'[d]
      BY DEF SentDispatchersHeld
    <3>2. CASE u = t
      <4>1. d \in Range(ds) /\ d \in Dispatcher
        BY <2>2, <2>4, <3>1, <3>2 DEF Range
      <4>2. ~isClosed[d]
        BY <2>1, <2>2, <4>1 DEF Range, ds
      <4> QED
        BY <1>0, <2>6, <3>2, <4>1, <4>2
    <3>3. CASE u # t
      <4>1. Sending(u) /\ pc[u] # "unmark" /\ d \in Range(dispatchers[u])
        BY <2>9, <3>1, <3>3
      <4>2. lock[d] = u /\ ~isClosed[d]
        BY <4>1 DEF IInv, SentDispatchersHeld
      <4>3. d \in Dispatcher
        BY <4>1 DEF IInv, TypeOK, Range
      <4> QED
        BY <1>0, <2>6, <4>2, <4>3, ConstantsAssumption
    <3> QED
      BY <3>2, <3>3
  <2> QED
    BY <2>7, <2>8, <2>10, <2>11, <2>12, <2>13 DEF IInv
<1> QED
  BY <1>2, <1>3 DEF MarkBusy

\* The call under a dispatcher's lock: what Close closes has no entry, and the lock it
\* releases is its own and not that of a dispatcher that is being sent.
LEMMA OperateStep ==
    ASSUME IInv, NEW t \in Thread, Operate(t)
    PROVE  IInv'
<1>0. /\ entry' = entry /\ busy' = busy /\ nextHandle' = nextHandle
      /\ created' = created /\ refused' = refused /\ initialized' = initialized
      /\ pc[t] = "locked"
  BY DEF Operate, tableVars
<1>1. /\ ref[t] \in 1..created /\ ref[t] \in Dispatcher
      /\ lock[ref[t]] = t
      /\ Sending(t) => ref[t] \notin Range(dispatchers[t])
      /\ op[t] = "close" => \A h \in MojoHandle : entry[h] # ref[t]
  <2>1. /\ ref[t] \in 1..created
        /\ op[t] = "close" => \A h \in MojoHandle : entry[h] # ref[t]
    BY <1>0 DEF IInv, CallInv, CallOK
  <2>2. ref[t] \in Dispatcher
    BY <2>1, ConstantsAssumption DEF IInv, TypeOK, Dispatcher
  <2> QED
    BY <1>0, <2>1, <2>2 DEF IInv, LockInv
<1>2. InUse' = InUse
  BY <1>0 DEF InUse
<1>3. CASE /\ op[t] # "write" /\ GoTo(t, "crashed")
           /\ UNCHANGED <<isClosed, lock, callVars>>
  <2>1. /\ isClosed' = isClosed /\ lock' = lock
        /\ op' = op /\ handle' = handle /\ ref' = ref /\ sending' = sending
        /\ dispatchers' = dispatchers
        /\ pc' \in [Thread -> PCs] /\ pc'[t] = "crashed"
        /\ \A u \in Thread \ {t} : pc'[u] = pc[u]
    BY <1>3 DEF callVars, GoTo, IInv, TypeOK, PCs
  <2>2. TypeOK'
    BY <1>0, <2>1 DEF IInv, TypeOK
  <2>3. EntriesInv' /\ SizeInv' /\ CreatedInv' /\ NumberingInv'
    BY <1>0, <1>2, <2>1 DEF IInv, EntriesInv, SizeInv, CreatedInv, NumberingInv
  <2>4. CallInv' /\ LockInv'
    BY <1>0, <1>1, <1>3, <2>1 DEF IInv, CallInv, CallOK, LockInv, Sending
  <2>5. BusyEntriesOwned' /\ SentDispatchersHeld'
    <3>1. ~Sending(t) /\ ~Sending(t)' /\ dispatchers' \in [Thread -> Seq(Dispatcher)]
      BY <1>3, <2>1 DEF Sending, IInv, TypeOK
    <3> QED
      BY <1>0, <2>1, <3>1, SendersKeep
  <2> QED
    BY <2>2, <2>3, <2>4, <2>5 DEF IInv
<1>4. CASE /\ isClosed' = [isClosed EXCEPT ![ref[t]] = @ \/ op[t] = "close"]
           /\ lock' = [lock EXCEPT ![ref[t]] = NoThread]
           /\ IF op[t] = "write" THEN GoTo(t, "release") /\ UNCHANGED callVars
                                 ELSE Return(t)
  <2>1. /\ lock' \in [Dispatcher -> Thread \cup {NoThread}]
        /\ \A d \in Dispatcher \ {ref[t]} : lock'[d] = lock[d]
    BY <1>1, <1>4 DEF IInv, TypeOK
  <2>2. /\ isClosed' \in [Dispatcher -> BOOLEAN]
        /\ isClosed'[ref[t]] <=> isClosed[ref[t]] \/ op[t] = "close"
        /\ \A d \in Dispatcher \ {ref[t]} : isClosed'[d] = isClosed[d]
    <3>1. isClosed \in [Dispatcher -> BOOLEAN]
      BY DEF IInv, TypeOK
    <3> QED
      BY <1>1, <1>4, <3>1
  <2>3. /\ CallTypeOK'
        /\ op[t] = "write" => op'[t] = "write" /\ pc'[t] = "release" /\ ref'[t] = ref[t]
                              /\ sending'[t] = sending[t] /\ dispatchers'[t] = dispatchers[t]
        /\ op[t] # "write" => op'[t] = "use" /\ pc'[t] = "idle"
        /\ \A u \in Thread \ {t} : /\ pc'[u] = pc[u] /\ op'[u] = op[u] /\ ref'[u] = ref[u]
                                   /\ sending'[u] = sending[u]
                                   /\ dispatchers'[u] = dispatchers[u]
    <3>1. CallTypeOK
      BY DEF IInv, TypeOK, CallTypeOK
    <3>2. CASE op[t] = "write"
      <4>1. GoTo(t, "release") /\ UNCHANGED callVars
        BY <1>4, <3>2
      <4> QED
        BY <3>1, <3>2, <4>1 DEF GoTo, callVars, CallTypeOK, PCs
    <3>3. CASE op[t] # "write"
      <4>1. Return(t)
        BY <1>4, <3>3
      <4> QED
        BY <3>1, <3>3, <4>1, ReturnFacts
    <3> QED
      BY <3>2, <3>3
  <2>4. TypeOK'
    BY <1>0, <2>1, <2>2, <2>3 DEF IInv, TypeOK, CallTypeOK
  <2>5. EntriesInv'
    <3>1. ASSUME NEW h \in MojoHandle, entry[h] # NoDispatcher
          PROVE  /\ h # MOJO_HANDLE_INVALID
                 /\ entry[h] \in 1..created
                 /\ entry[h] \notin refused
                 /\ ~isClosed'[entry[h]]
      <4>1. /\ h # MOJO_HANDLE_INVALID
            /\ entry[h] \in 1..created
            /\ entry[h] \notin refused
            /\ ~isClosed[entry[h]]
            /\ entry[h] \in Dispatcher
        BY <3>1 DEF IInv, EntriesInv, TypeOK
      <4> QED
        BY <1>1, <2>2, <4>1
    <3> QED
      BY <1>0, <3>1 DEF IInv, EntriesInv
  <2>6. SizeInv'
    BY <1>2 DEF IInv, SizeInv
  <2>7. CreatedInv'
    <3>1. SUFFICES ASSUME NEW d \in 1..created, d \notin refused
                   PROVE  \/ \E h \in MojoHandle : entry[h] = d
                          \/ isClosed'[d]
                          \/ \E u \in Thread : op'[u] = "close" /\ ref'[u] = d
      BY <1>0 DEF CreatedInv
    <3>2. \/ \E h \in MojoHandle : entry[h] = d
          \/ isClosed[d]
          \/ \E u \in Thread : op[u] = "close" /\ ref[u] = d
      BY <3>1 DEF IInv, CreatedInv
    <3>3. d \in Dispatcher
      BY ConstantsAssumption DEF IInv, TypeOK, Dispatcher
    <3>4. isClosed[d] => isClosed'[d]
      BY <2>2, <3>3
    <3>5. ASSUME NEW u \in Thread, op[u] = "close", ref[u] = d
          PROVE  isClosed'[d] \/ (op'[u] = "close" /\ ref'[u] = d)
      BY <2>2, <2>3, <3>5
    <3> QED
      BY <3>2, <3>4, <3>5
  <2>8. NumberingInv'
    <3>1. \A d \in Dispatcher : isClosed'[d] => d \in 1..created
      BY <1>1, <2>2 DEF IInv, NumberingInv
    <3> QED
      BY <1>0, <3>1 DEF IInv, NumberingInv
  <2>9. CallInv'
    <3>1. ASSUME NEW u \in Thread PROVE CallOK(u)'
      <4>1. CallOK(u)
        BY DEF IInv, CallInv
      <4>2. CASE u = t
        BY <1>0, <2>3, <4>1, <4>2 DEF CallOK, Sending
      <4>3. CASE u # t
        BY <1>0, <2>3, <4>1, <4>3 DEF CallOK, Sending
      <4> QED
        BY <4>2, <4>3
    <3> QED
      BY <3>1 DEF CallInv
  <2>10. \A u \in Thread : /\ Sending(u)' <=> Sending(u)
                           /\ Sending(u) => /\ pc'[u] = "unmark" <=> pc[u] = "unmark"
                                            /\ sending'[u] = sending[u]
                                            /\ dispatchers'[u] = dispatchers[u]
    BY <1>0, <2>3 DEF Sending
  <2>11. LockInv'
    <3>1. ASSUME NEW u \in Thread, pc'[u] = "locked"
          PROVE  /\ lock'[ref'[u]] = u
                 /\ Sending(u)' => ref'[u] \notin Range(dispatchers'[u])
      <4>1. u # t /\ pc[u] = "locked"
        BY <2>3, <3>1
      <4>2. /\ lock[ref[u]] = u
            /\ Sending(u) => ref[u] \notin Range(dispatchers[u])
        BY <4>1 DEF IInv, LockInv
      <4>3. ref[u] \in Dispatcher
        <5>1. ref[u] \in 1..created
          BY <4>1 DEF IInv, CallInv, CallOK
        <5> QED
          BY <5>1, ConstantsAssumption DEF IInv, TypeOK, Dispatcher
      <4> QED
        BY <1>1, <2>1, <2>3, <2>10, <4>1, <4>2, <4>3
    <3> QED
      BY <3>1 DEF LockInv
  <2>12. BusyEntriesOwned'
    BY <1>0, <2>10 DEF IInv, BusyEntriesOwned
  <2>13. SentDispatchersHeld'
    <3>1. SUFFICES ASSUME NEW u \in Thread, Sending(u)', pc'[u] # "unmark",
                          NEW d \in Range(dispatchers'[u])
                   PROVE  lock'[d] = u /\ ~isClosed'[d]
      BY DEF SentDispatchersHeld
    <3>2. Sending(u) /\ pc[u] # "unmark" /\ d \in Range(dispatchers[u])
      BY <2>10, <3>1
    <3>3. lock[d] = u /\ ~isClosed[d]
      BY <3>2 DEF IInv, SentDispatchersHeld
    <3>4. d \in Dispatcher
      BY <3>2 DEF IInv, TypeOK, Range
    <3>5. d # ref[t]
      BY <1>1, <3>2, <3>3
    <3> QED
      BY <2>1, <2>2, <3>3, <3>4, <3>5
  <2> QED
    BY <2>4, <2>5, <2>6, <2>7, <2>8, <2>9, <2>11, <2>12, <2>13 DEF IInv
<1> QED
  BY <1>3, <1>4 DEF Operate

\* The locks of the sent dispatchers are released: they were all held by this call.
LEMMA ReleaseLocksStep ==
    ASSUME IInv, NEW t \in Thread, ReleaseLocks(t)
    PROVE  IInv'
<1>0. /\ entry' = entry /\ busy' = busy /\ nextHandle' = nextHandle
      /\ created' = created /\ refused' = refused /\ isClosed' = isClosed
      /\ initialized' = initialized
      /\ op' = op /\ handle' = handle /\ ref' = ref /\ sending' = sending
      /\ dispatchers' = dispatchers
      /\ pc[t] = "release"
  BY DEF ReleaseLocks, tableVars, callVars
<1>1. op[t] = "write" /\ Sending(t)
  BY <1>0 DEF IInv, CallInv, CallOK, Sending
<1>2. /\ pc' \in [Thread -> PCs] /\ pc'[t] = "unmark"
      /\ \A u \in Thread \ {t} : pc'[u] = pc[u]
  BY DEF ReleaseLocks, GoTo, IInv, TypeOK, PCs
<1>3. /\ lock' \in [Dispatcher -> Thread \cup {NoThread}]
      /\ \A d \in Dispatcher : lock[d] # t => lock'[d] = lock[d]
  <2>1. \A d \in Range(dispatchers[t]) : lock[d] = t
    BY <1>0, <1>1 DEF IInv, SentDispatchersHeld
  <2> QED
    BY <2>1 DEF ReleaseLocks, IInv, TypeOK
<1>4. TypeOK'
  BY <1>0, <1>2, <1>3 DEF IInv, TypeOK
<1>5. InUse' = InUse
  BY <1>0 DEF InUse
<1>6. EntriesInv' /\ SizeInv' /\ CreatedInv' /\ NumberingInv'
  BY <1>0, <1>5 DEF IInv, EntriesInv, SizeInv, CreatedInv, NumberingInv
<1>7. \A u \in Thread : Sending(u)' <=> Sending(u)
  BY <1>0, <1>1, <1>2 DEF Sending
<1>8. CallInv'
  BY <1>0, <1>1, <1>2 DEF IInv, CallInv, CallOK, Sending
<1>9. BusyEntriesOwned'
  BY <1>0, <1>7 DEF IInv, BusyEntriesOwned
<1>10. SentDispatchersHeld'
  <2>1. SUFFICES ASSUME NEW u \in Thread, Sending(u)', pc'[u] # "unmark",
                        NEW d \in Range(dispatchers[u])
                 PROVE  lock'[d] = u /\ ~isClosed[d]
    BY <1>0 DEF SentDispatchersHeld
  <2>2. u # t /\ Sending(u) /\ pc[u] # "unmark"
    BY <1>2, <1>7, <2>1
  <2>3. lock[d] = u /\ ~isClosed[d]
    BY <2>2 DEF IInv, SentDispatchersHeld
  <2>4. d \in Dispatcher
    BY <2>1 DEF IInv, TypeOK, Range
  <2> QED
    BY <1>3, <2>2, <2>3, <2>4
<1>11. LockInv'
  <2>1. ASSUME NEW u \in Thread, pc'[u] = "locked"
        PROVE  /\ lock'[ref[u]] = u
               /\ Sending(u)' => ref[u] \notin Range(dispatchers[u])
    <3>1. u # t /\ pc[u] = "locked"
      BY <1>2, <2>1
    <3>2. /\ lock[ref[u]] = u
          /\ Sending(u) => ref[u] \notin Range(dispatchers[u])
      BY <3>1 DEF IInv, LockInv
    <3>3. ref[u] \in Dispatcher
      <4>1. ref[u] \in 1..created
        BY <3>1 DEF IInv, CallInv, CallOK
      <4> QED
        BY <4>1, ConstantsAssumption DEF IInv, TypeOK, Dispatcher
    <3> QED
      BY <1>3, <1>7, <3>1, <3>2, <3>3
  <2> QED
    BY <1>0, <2>1 DEF LockInv
<1> QED
  BY <1>4, <1>6, <1>8, <1>9, <1>10, <1>11 DEF IInv

\* The marks are cleared: every mark cleared was this call's.
LEMMA ClearBusyStep ==
    ASSUME IInv, NEW t \in Thread, ClearBusy(t)
    PROVE  IInv'
<1>0. /\ entry' = entry /\ nextHandle' = nextHandle
      /\ created' = created /\ refused' = refused /\ isClosed' = isClosed
      /\ initialized' = initialized /\ lock' = lock
      /\ pc[t] = "unmark"
  BY DEF ClearBusy, dispatcherVars
<1>1. op[t] = "write" /\ Sending(t)
  BY <1>0 DEF IInv, CallInv, CallOK, Sending
<1>2. /\ CallTypeOK'
      /\ op'[t] = "use" /\ pc'[t] = "idle"
      /\ \A u \in Thread \ {t} : /\ pc'[u] = pc[u] /\ op'[u] = op[u] /\ ref'[u] = ref[u]
                                 /\ sending'[u] = sending[u]
                                 /\ dispatchers'[u] = dispatchers[u]
  <2>1. CallTypeOK /\ Return(t)
    BY DEF ClearBusy, IInv, TypeOK, CallTypeOK
  <2> QED
    BY <2>1, ReturnFacts
<1>3. /\ busy' \in [MojoHandle -> BOOLEAN]
      /\ \A h \in MojoHandle : busy'[h] <=> busy[h] /\ h \notin Range(sending[t])
  BY DEF ClearBusy, IInv, TypeOK
<1>4. TypeOK'
  BY <1>0, <1>2, <1>3 DEF IInv, TypeOK, CallTypeOK
<1>5. EntriesInv' /\ SizeInv' /\ CreatedInv' /\ NumberingInv'
  BY <1>0, <1>1, <1>2, CallOnly
<1>6. CallInv' /\ LockInv'
  BY <1>0, <1>2 DEF IInv, CallInv, CallOK, LockInv, Sending
<1>7. \A u \in Thread : /\ Sending(u)' <=> Sending(u) /\ u # t
                        /\ u # t => /\ pc'[u] = pc[u] /\ sending'[u] = sending[u]
                                    /\ dispatchers'[u] = dispatchers[u]
  BY <1>2 DEF Sending
<1>8. BusyEntriesOwned'
  <2>1. ASSUME NEW h \in MojoHandle, busy'[h]
        PROVE  \E u \in Thread :
                  /\ Sending(u)' /\ h \in Range(sending'[u])
                  /\ \A v \in Thread : Sending(v)' /\ h \in Range(sending'[v]) => v = u
    <3>1. busy[h] /\ h \notin Range(sending[t])
      BY <1>3, <2>1
    <3>2. PICK u \in Thread :
                  /\ Sending(u) /\ h \in Range(sending[u])
                  /\ \A v \in Thread : Sending(v) /\ h \in Range(sending[v]) => v = u
      BY <3>1 DEF IInv, BusyEntriesOwned
    <3>3. u # t
      BY <3>1, <3>2
    <3> QED
      BY <1>7, <3>2, <3>3
  <2>2. ASSUME NEW u \in Thread, Sending(u)', NEW i \in DOMAIN sending'[u]
        PROVE  /\ busy'[sending'[u][i]]
               /\ entry'[sending'[u][i]] = dispatchers'[u][i]
    <3>1. /\ u # t /\ Sending(u)
          /\ sending'[u] = sending[u] /\ dispatchers'[u] = dispatchers[u]
      BY <1>7, <2>2
    <3> DEFINE h == sending[u][i]
    <3>2. h \in MojoHandle /\ h \in Range(sending[u])
      BY <2>2, <3>1 DEF IInv, TypeOK, Range
    <3>3. busy[h] /\ entry[h] = dispatchers[u][i]
      BY <2>2, <3>1 DEF IInv, BusyEntriesOwned
    <3>4. h \notin Range(sending[t])
      BY <1>1, <3>1, <3>2, <3>3 DEF IInv, BusyEntriesOwned
    <3> HIDE DEF h
    <3>5. busy'[h]
      BY <1>3, <3>2, <3>3, <3>4
    <3> QED
      BY <1>0, <3>1, <3>3, <3>5 DEF h
  <2> QED
    BY <2>1, <2>2 DEF BusyEntriesOwned
<1>9. SentDispatchersHeld'
  BY <1>0, <1>7 DEF IInv, SentDispatchersHeld
<1> QED
  BY <1>4, <1>5, <1>6, <1>8, <1>9 DEF IInv

\* A step that changes nothing.
LEMMA StutterStep == IInv /\ UNCHANGED vars => IInv'
<1> SUFFICES ASSUME IInv, UNCHANGED vars PROVE IInv'
  OBVIOUS
<1> USE DEF vars, tableVars, dispatcherVars, callVars
<1>1. InUse' = InUse
  BY DEF InUse
<1>2. TypeOK' /\ CallInv'
  BY DEF IInv, TypeOK, CallInv, CallOK, Sending
<1>3. EntriesInv' /\ SizeInv' /\ CreatedInv' /\ NumberingInv'
  BY <1>1 DEF IInv, EntriesInv, SizeInv, CreatedInv, NumberingInv
<1>4. LockInv' /\ BusyEntriesOwned' /\ SentDispatchersHeld'
  BY DEF IInv, LockInv, BusyEntriesOwned, SentDispatchersHeld, Sending
<1> QED
  BY <1>2, <1>3, <1>4 DEF IInv

-----------------------------------------------------------------------------
(* The theorems *)

\* The invariant is inductive: it holds initially, and every handler of CoreImpl keeps it.
THEOREM InductiveInvariant == Spec => []IInv
<1>1. Init => IInv
  BY InitIInv
<1>2. IInv /\ [Next]_vars => IInv'
  <2> SUFFICES ASSUME IInv, [Next]_vars PROVE IInv'
    OBVIOUS
  <2>1. CASE UNCHANGED vars
    BY <2>1, StutterStep
  <2>2. ASSUME NEW t \in Thread, Step(t) PROVE IInv'
    BY <2>2, CreateMessagePipeStep, InitDispatcherStep, CloseStep, GetDispatcherStep,
       MarkBusyStep, AcquireStep, OperateStep, ReleaseLocksStep, ClearBusyStep DEF Step
  <2> QED
    BY <2>1, <2>2 DEF Next
<1> QED
  BY <1>1, <1>2, PTL DEF Spec

\* The types hold for every number of threads and handle values; in particular
\* next_handle_ is never MOJO_HANDLE_INVALID, also when it wraps around.
THEOREM TypeCorrect == Spec => []TypeOK
<1>1. IInv => TypeOK
  BY DEF IInv
<1> QED
  BY <1>1, InductiveInvariant, PTL

\* The entries a WriteMessage marked busy stay its own, and the dispatchers it sends
\* stay locked by it and open, whatever Close and WriteMessage calls run beside it.
THEOREM SentHandlesAreHeld == Spec => []SentHandlesHeld
<1>1. IInv => SentHandlesHeld
  BY DEF IInv, SentHandlesHeld
<1> QED
  BY <1>1, InductiveInvariant, PTL

\* No dispatcher is dropped or shared by the table: it has exactly one handle until a
\* Close takes it out, and that Close closes it.
THEOREM DispatchersHaveOneHandle == Spec => []OneHandlePerDispatcher
<1>1. IInv => OneHandlePerDispatcher
  <2>1. SUFFICES ASSUME IInv, NEW d \in 1..created, d \notin refused
                 PROVE  \/ \E h \in MojoHandle : /\ entry[h] = d /\ ~isClosed[d]
                                    /\ \A g \in MojoHandle : entry[g] = d => g = h
                        \/ /\ \A h \in MojoHandle : entry[h] # d
                           /\ isClosed[d] \/ \E t \in Thread : op[t] = "close" /\ ref[t] = d
    BY DEF OneHandlePerDispatcher
  <2>2. d # NoDispatcher
    BY ConstantsAssumption DEF IInv, TypeOK, NoDispatcher
  <2>3. CASE \E h \in MojoHandle : entry[h] = d
    BY <2>1, <2>2, <2>3 DEF IInv, EntriesInv
  <2>4. CASE ~ \E h \in MojoHandle : entry[h] = d
    BY <2>1, <2>4 DEF IInv, CreatedInv
  <2> QED
    BY <2>3, <2>4
<1> QED
  BY <1>1, InductiveInvariant, PTL

\* The table never grows past kMaxHandleTableSize, and no search for a free handle ever
\* ends at the invalid one.
THEOREM TableIsWithinLimits == Spec => []TableWithinLimits
<1>1. IInv => TableWithinLimits
  BY DEF IInv, SizeInv, EntriesInv, TableWithinLimits, InUse
<1> QED
  BY <1>1, InductiveInvariant, PTL
=============================================================================
