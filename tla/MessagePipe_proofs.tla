------------------------ MODULE MessagePipe_proofs ------------------------
(***************************************************************************)
(* What MessagePipe promises, for every set of threads and pipes and every *)
(* value of its bounds.                                                    *)
(***************************************************************************)
EXTENDS MessagePipe, CommonLemmas, TLAPS

-----------------------------------------------------------------------------
(* Dispatchers and awakening *)

\* GetPeerPort: each dispatcher is the peer of its peer, and not its own.
LEMMA PeerFacts ==
    ASSUME NEW d \in Dispatcher
    PROVE  Peer(d) \in Dispatcher /\ Peer(Peer(d)) = d /\ Peer(d) # d
  BY DEF Dispatcher, Peer

\* WaiterList keeps the entries of one waiter in the order of their wake_result: among
\* the entries of t the first is one of them.
LEMMA FirstOfIsEntry ==
    ASSUME NEW S \in SUBSET WaiterInfo, NEW t,
           \E e \in S : e.waiter = t
    PROVE  FirstOf(S, t) \in S /\ FirstOf(S, t).waiter = t
<1> DEFINE W == {e.wake_result : e \in {f \in S : f.waiter = t}}
<1>1. W \in SUBSET Nat /\ W # {}
  BY ConstantsAssumption DEF WaiterInfo
<1>2. PICK x \in W : \A y \in W : x <= y
  <2> HIDE DEF W
  <2> QED BY <1>1, LeastOf
<1>3. PICK e \in S : e.waiter = t /\ e.wake_result = x
  BY <1>2
<1>4. \A f \in S : f.waiter = t => e.wake_result <= f.wake_result
  BY <1>2, <1>3
<1> QED
  BY <1>3, <1>4 DEF FirstOf

\* AwakeWaitersForStateChange keeps the types of Waiter, wakes nobody up twice, leaves
\* asleep only those the new state neither satisfies nor excludes, and gives the index
\* of a handle only to those it satisfies.
LEMMA AwakeFacts ==
    ASSUME TypeOK, NEW d \in Dispatcher, NEW q, NEW peerOpen,
           AwakeWaitersForStateChange(d, q, peerOpen)
    PROVE  /\ awoken' \in [Thread -> BOOLEAN]
           /\ waitResult' \in [Thread -> Int]
           /\ \A t \in Thread : awoken[t] => awoken'[t]
           /\ \A e \in waiters[d] : ~awoken'[e.waiter] =>
                /\ e.flags \cap SatisfiedFlags(q, peerOpen) = {}
                /\ e.flags \cap SatisfiableFlags(q, peerOpen) # {}
           /\ \A t \in Thread : (~awoken[t] /\ awoken'[t] /\ waitResult'[t] >= 0) =>
                \E e \in waiters[d] :
                    /\ e.waiter = t /\ e.wake_result = waitResult'[t]
                    /\ e.flags \cap SatisfiedFlags(q, peerOpen) # {}
<1> DEFINE sat == SatisfiedFlags(q, peerOpen)
           able == SatisfiableFlags(q, peerOpen)
           hit == Triggered(waiters[d], sat, able)
           woken == {e.waiter : e \in hit}
           res(t) == WakeResult(FirstOf(hit, t), sat)
<1>1. /\ awoken' = [t \in Thread |-> awoken[t] \/ t \in woken]
      /\ waitResult' = [t \in Thread |->
            IF t \in woken /\ ~awoken[t] THEN res(t) ELSE waitResult[t]]
  BY DEF AwakeWaitersForStateChange, Awake
<1>2. hit \subseteq waiters[d] /\ waiters[d] \in SUBSET WaiterInfo
  BY DEF Triggered, TypeOK, WaiterTypeOK
<1>3. ASSUME NEW t \in woken
      PROVE  /\ FirstOf(hit, t) \in waiters[d] /\ FirstOf(hit, t).waiter = t
             /\ FirstOf(hit, t).wake_result \in Int
  <2>1. FirstOf(hit, t) \in hit /\ FirstOf(hit, t).waiter = t
    <3>1. hit \in SUBSET WaiterInfo /\ \E e \in hit : e.waiter = t
      BY <1>2
    <3> HIDE DEF hit
    <3> QED BY <3>1, FirstOfIsEntry
  <2> QED
    BY <1>2, <2>1 DEF WaiterInfo
<1>4. awoken' \in [Thread -> BOOLEAN]
  <2> HIDE DEF woken
  <2> QED BY <1>1, Zenon DEF TypeOK, WaiterTypeOK
<1>5. \A t \in woken : res(t) \in Int
  BY <1>3 DEF WakeResult, MOJO_RESULT_FAILED_PRECONDITION
<1>6. waitResult' \in [Thread -> Int]
  <2> HIDE DEF woken, res
  <2> QED BY <1>1, <1>5 DEF TypeOK, WaiterTypeOK
<1>7. \A t \in Thread : awoken[t] => awoken'[t]
  BY <1>1
<1>8. \A t \in Thread : awoken'[t] <=> (awoken[t] \/ t \in woken)
  <2> HIDE DEF woken
  <2> QED BY <1>1, Zenon
<1>9. ASSUME NEW e \in waiters[d], ~awoken'[e.waiter]
      PROVE  e.flags \cap sat = {} /\ e.flags \cap able # {}
  <2>1. e.waiter \in Thread
    BY <1>2 DEF WaiterInfo
  <2>2. e \notin hit
    BY <1>8, <1>9, <2>1
  <2> QED
    BY <2>2 DEF Triggered
<1>10. ASSUME NEW t \in Thread, ~awoken[t], awoken'[t], waitResult'[t] >= 0
       PROVE  \E e \in waiters[d] :
                /\ e.waiter = t /\ e.wake_result = waitResult'[t]
                /\ e.flags \cap sat # {}
  <2>1. t \in woken
    BY <1>8, <1>10
  <2>2. waitResult'[t] = res(t)
    BY <1>1, <1>10, <2>1
  <2>3. res(t) >= 0
    BY <1>10, <2>2
  <2>4. FirstOf(hit, t).flags \cap sat # {} /\ res(t) = FirstOf(hit, t).wake_result
    BY <2>3 DEF WakeResult, MOJO_RESULT_FAILED_PRECONDITION
  <2> QED
    BY <1>3, <2>1, <2>2, <2>4
<1> QED
  BY <1>4, <1>6, <1>7, <1>9, <1>10

-----------------------------------------------------------------------------
(* The inductive invariant *)

\* What a call's local variables hold between two of its steps: the handles and flags it
\* was given, and loop indices within them.
CallInv ==
    \A t \in Thread :
        /\ pc[t] = "idle" => idx[t] = 1
        /\ pc[t] \in {"write", "read", "close", "closing"} => Len(handles[t]) = 1 /\ idx[t] = 1
        /\ pc[t] \in {"lookup", "add", "wait", "remove"} =>
                /\ Len(handles[t]) \in 1..MaxWaitHandles
                /\ Len(flags[t]) = Len(handles[t])
        /\ pc[t] \in {"lookup", "add"} => idx[t] <= Len(handles[t])
        /\ pc[t] = "remove" => idx[t] <= added[t] /\ added[t] <= Len(handles[t])

\* Who is inside CloseImplNoLock holds the lock of the dispatcher it closes, and a closed
\* dispatcher has no waiters.
ClosingInv ==
    /\ \A t \in Thread : pc[t] = "closing" =>
            /\ lock[handles[t][1]] = t
            /\ isClosed[handles[t][1]]
    /\ \A d \in Dispatcher : isClosed[d] => waiters[d] = {}

\* Nothing is taken that was not sent.
CountInv == \A d \in endpoint : taken[d] <= sent[Peer(d)]

\* A list entry names the call that made it: the handle it was made for, by its index,
\* and the flags asked of it; and that call has still to remove it.
EntryInv ==
    \A d \in Dispatcher : \A e \in waiters[d] :
        LET t == e.waiter
            i == e.wake_result + 1
        IN  /\ pc[t] \in {"add", "wait", "remove"}
            /\ i <= Len(handles[t])
            /\ handles[t][i] = d
            /\ flags[t][i] = e.flags
            /\ pc[t] = "add" => i < idx[t]
            /\ pc[t] = "remove" => idx[t] <= i /\ i <= added[t]

IInv ==
    /\ TypeOK
    /\ CallInv
    /\ ClosingInv
    /\ EndpointLifetime
    /\ FifoExactlyOnce
    /\ CountInv
    /\ EntryInv
    /\ NoLostWakeup

\* The invariant holds when no call has been made yet.
LEMMA InitIInv == Init => IInv
<1> SUFFICES ASSUME Init PROVE IInv
  OBVIOUS
<1>1. TypeOK
  <2>1. PipeTypeOK
    BY DEF Init, PipeTypeOK
  <2>2. WaiterTypeOK
    BY DEF Init, WaiterTypeOK, MOJO_RESULT_INTERNAL
  <2>3. CallTypeOK
    BY DEF Init, CallTypeOK, PCs, MOJO_RESULT_OK
  <2> QED
    BY <2>1, <2>2, <2>3 DEF TypeOK
<1>2. CallInv
  BY DEF Init, CallInv
<1>3. ClosingInv
  BY DEF Init, ClosingInv
<1>4. EndpointLifetime
  BY PeerFacts DEF Init, EndpointLifetime
<1>5. FifoExactlyOnce /\ CountInv
  BY PeerFacts DEF Init, FifoExactlyOnce, CountInv
<1>6. EntryInv /\ NoLostWakeup
  BY DEF Init, EntryInv, NoLostWakeup
<1> QED
  BY <1>1, <1>2, <1>3, <1>4, <1>5, <1>6 DEF IInv

\* A call returns: its local variables get the values they have outside any call.
LEMMA ReturnFacts ==
    ASSUME CallTypeOK, CallInv, NEW t \in Thread, NEW result \in Int, Return(t, result)
    PROVE  CallTypeOK' /\ CallInv'
<1>1. CallTypeOK'
  BY DEF Return, CallTypeOK, PCs
<1>2. CallInv'
  BY DEF Return, CallTypeOK, CallInv
<1> QED
  BY <1>1, <1>2

\* A call on one handle goes on past the handle table.
LEMMA EnterFacts ==
    ASSUME CallTypeOK, CallInv, NEW t \in Thread, NEW d \in Dispatcher, pc[t] = "idle",
           NEW label \in {"write", "read", "close"}, Enter(t, d, label)
    PROVE  CallTypeOK' /\ CallInv'
<1>1. CallTypeOK'
  BY DEF Enter, GoTo, CallTypeOK, PCs, MOJO_RESULT_OK
<1>2. CallInv'
  BY DEF Enter, GoTo, CallTypeOK, CallInv
<1> QED
  BY <1>1, <1>2

\* No call but that of t is affected.
Others(t) ==
    \A u \in Thread \ {t} :
        /\ pc'[u] = pc[u] /\ handles'[u] = handles[u] /\ flags'[u] = flags[u]
        /\ idx'[u] = idx[u] /\ added'[u] = added[u]

\* What the ends of calls leave alone (CoreImpl keeps a call's state on the stack).
LEMMA OthersFacts ==
    ASSUME CallTypeOK, NEW t \in Thread
    PROVE  /\ \A result : Return(t, result) => Others(t) /\ pc'[t] = "idle"
           /\ \A d, label : Enter(t, d, label) => Others(t) /\ pc'[t] = label
           /\ \A result : EndWait(t, result) => Others(t) /\ pc'[t] = "idle"
           /\ \A n, result : StartRemove(t, n, result) =>
                    Others(t) /\ pc'[t] = IF n = 0 THEN "idle" ELSE "remove"
  BY DEF CallTypeOK, Others, Return, Enter, EndWait, StartRemove, GoTo

\* A step of t that is not in, and does not enter, CloseImplNoLock.
LEMMA ClosingKept ==
    ASSUME ClosingInv, NEW t \in Thread, Others(t), pc'[t] # "closing",
           UNCHANGED <<lock, isClosed, waiters>>
    PROVE  ClosingInv'
<1>1. ASSUME NEW u \in Thread, pc'[u] = "closing"
      PROVE  lock'[handles'[u][1]] = u /\ isClosed'[handles'[u][1]]
  BY <1>1 DEF ClosingInv, Others
<1>2. \A d \in Dispatcher : isClosed'[d] => waiters'[d] = {}
  BY DEF ClosingInv
<1> QED
  BY <1>1, <1>2 DEF ClosingInv

\* The same for the endpoints of dispatchers.
LEMMA LifetimeKept ==
    ASSUME EndpointLifetime, NEW t \in Thread, Others(t), pc'[t] # "closing",
           UNCHANGED <<isClosed, endpoint, isPeerOpen>>
    PROVE  EndpointLifetime'
<1>1. ASSUME NEW u \in Thread, pc'[u] = "closing"
      PROVE  handles'[u][1] \in endpoint'
  BY <1>1 DEF EndpointLifetime, Others
<1> QED
  BY <1>1 DEF EndpointLifetime

\* A step of t that has not registered its waiter yet, or has removed it everywhere.
LEMMA EntriesKept ==
    ASSUME EntryInv, WaiterTypeOK, NEW t \in Thread, Others(t), UNCHANGED waiters,
           pc[t] \notin {"add", "wait", "remove"}
    PROVE  EntryInv' /\ \A d \in Dispatcher : \A e \in waiters[d] : e.waiter \in Thread \ {t}
<1>1. ASSUME NEW d \in Dispatcher, NEW e \in waiters[d]
      PROVE  e.waiter \in Thread \ {t}
  BY DEF EntryInv, WaiterTypeOK, WaiterInfo
<1>2. EntryInv'
  BY <1>1 DEF EntryInv, Others
<1> QED
  BY <1>1, <1>2

\* A call looks its handle up (CoreImpl::GetDispatcher).
LEMMA GetDispatcherIInv ==
    ASSUME IInv, NEW t \in Thread, NEW d \in Dispatcher, NEW label \in {"write", "read"},
           GetDispatcher(t, d, label)
    PROVE  IInv'
<1> USE DEF IInv, TypeOK
<1>1. UNCHANGED <<pipeVars, waiterVars>> /\ pc[t] = "idle"
  BY DEF GetDispatcher
<1>2. PipeTypeOK' /\ WaiterTypeOK'
  BY <1>1 DEF PipeTypeOK, WaiterTypeOK, pipeVars, waiterVars
<1>3. CallTypeOK' /\ CallInv'
  BY ReturnFacts, EnterFacts DEF GetDispatcher, MOJO_RESULT_INVALID_ARGUMENT
<1>4. Others(t) /\ pc'[t] # "closing"
  BY OthersFacts DEF GetDispatcher
<1>5. ClosingInv'
  BY <1>1, <1>4, ClosingKept DEF pipeVars, waiterVars
<1>6. EndpointLifetime'
  BY <1>1, <1>4, LifetimeKept DEF pipeVars
<1>7. FifoExactlyOnce' /\ CountInv' /\ NoLostWakeup'
  BY <1>1 DEF FifoExactlyOnce, CountInv, NoLostWakeup, pipeVars, waiterVars
<1>8. EntryInv'
  BY <1>1, <1>4, EntriesKept DEF waiterVars
<1> QED
  BY <1>2, <1>3, <1>5, <1>6, <1>7, <1>8

\* CoreImpl::Close takes the handle out of the table.
LEMMA CloseIInv ==
    ASSUME IInv, NEW t \in Thread, NEW d \in Dispatcher, Close(t, d)
    PROVE  IInv'
<1> USE DEF IInv, TypeOK
<1>1. /\ UNCHANGED <<lock, isClosed, endpoint, isPeerOpen, queue, sent, taken>>
      /\ UNCHANGED <<waiters, awoken, waitResult>>
      /\ pc[t] = "idle"
  BY DEF Close, waiterVars
<1>2. PipeTypeOK' /\ WaiterTypeOK'
  BY <1>1 DEF Close, PipeTypeOK, WaiterTypeOK
<1>3. CallTypeOK' /\ CallInv'
  BY ReturnFacts, EnterFacts DEF Close, MOJO_RESULT_INVALID_ARGUMENT
<1>4. Others(t) /\ pc'[t] # "closing"
  BY OthersFacts DEF Close
<1>5. ClosingInv'
  BY <1>1, <1>4, ClosingKept
<1>6. EndpointLifetime'
  BY <1>1, <1>4, LifetimeKept
<1>7. FifoExactlyOnce' /\ CountInv' /\ NoLostWakeup'
  BY <1>1 DEF FifoExactlyOnce, CountInv, NoLostWakeup
<1>8. EntryInv'
  BY <1>1, <1>4, EntriesKept
<1> QED
  BY <1>2, <1>3, <1>5, <1>6, <1>7, <1>8

\* Dispatcher::Close marks the dispatcher closed and cancels its waiters.
LEMMA DispatcherCloseIInv ==
    ASSUME IInv, NEW t \in Thread, DispatcherClose(t)
    PROVE  IInv'
<1> USE DEF IInv, TypeOK
<1> DEFINE d == handles[t][1]
<1>1. /\ UNCHANGED <<table, endpoint, isPeerOpen, queue, sent, taken>>
      /\ pc[t] = "close" /\ lock[d] = NoThread
  BY DEF DispatcherClose
<1>2. d \in Dispatcher
  BY <1>1 DEF CallInv, CallTypeOK
<1>3. FifoExactlyOnce' /\ CountInv'
  BY <1>1 DEF FifoExactlyOnce, CountInv
<1>4. CASE isClosed[d]
  <2>1. Return(t, MOJO_RESULT_INVALID_ARGUMENT) /\ UNCHANGED <<lock, isClosed, waiters, awoken, waitResult>>
    BY <1>4 DEF DispatcherClose, waiterVars
  <2>2. PipeTypeOK' /\ WaiterTypeOK' /\ NoLostWakeup'
    BY <1>1, <2>1 DEF PipeTypeOK, WaiterTypeOK, NoLostWakeup
  <2>3. CallTypeOK' /\ CallInv'
    BY <2>1, ReturnFacts DEF MOJO_RESULT_INVALID_ARGUMENT
  <2>4. Others(t) /\ pc'[t] # "closing"
    BY <2>1, OthersFacts
  <2>5. ClosingInv' /\ EndpointLifetime' /\ EntryInv'
    BY <1>1, <2>1, <2>4, ClosingKept, LifetimeKept, EntriesKept
  <2> QED
    BY <1>3, <2>2, <2>3, <2>5
<1>5. CASE ~isClosed[d]
  <2>1. /\ lock' = [lock EXCEPT ![d] = t]
        /\ isClosed' = [isClosed EXCEPT ![d] = TRUE]
        /\ waiters' = [waiters EXCEPT ![d] = {}]
        /\ pc' = [pc EXCEPT ![t] = "closing"]
        /\ UNCHANGED <<handles, flags, timed, idx, added, rv>>
    BY <1>5 DEF DispatcherClose, CancelAllWaiters, GoTo, callVars
  <2>2. /\ awoken' \in [Thread -> BOOLEAN] /\ waitResult' \in [Thread -> Int]
        /\ \A u \in Thread : awoken[u] => awoken'[u]
    <3> DEFINE woken == {e.waiter : e \in waiters[d]}
    <3>1. /\ awoken' = [u \in Thread |-> awoken[u] \/ u \in woken]
          /\ waitResult' = [u \in Thread |-> IF u \in woken /\ ~awoken[u]
                                             THEN MOJO_RESULT_CANCELLED ELSE waitResult[u]]
      BY <1>5 DEF DispatcherClose, CancelAllWaiters, Awake
    <3> HIDE DEF woken
    <3>2. awoken' \in [Thread -> BOOLEAN]
      BY <3>1, Zenon DEF WaiterTypeOK
    <3>3. waitResult' \in [Thread -> Int]
      BY <3>1 DEF WaiterTypeOK, MOJO_RESULT_CANCELLED
    <3> QED
      BY <3>1, <3>2, <3>3
  <2>3. PipeTypeOK'
    BY <1>1, <2>1 DEF PipeTypeOK
  <2>4. WaiterTypeOK'
    BY <2>1, <2>2 DEF WaiterTypeOK
  <2>5. CallTypeOK'
    BY <2>1 DEF CallTypeOK, PCs
  <2>6. CallInv'
    BY <1>1, <2>1 DEF CallInv, CallTypeOK
  <2>7. ClosingInv'
    <3>1. ASSUME NEW u \in Thread, pc'[u] = "closing"
          PROVE  lock'[handles'[u][1]] = u /\ isClosed'[handles'[u][1]]
      <4>1. CASE u = t
        BY <1>2, <2>1, <4>1 DEF PipeTypeOK
      <4>2. CASE u # t
        <5>1. pc[u] = "closing" /\ handles'[u] = handles[u]
          BY <2>1, <3>1, <4>2 DEF CallTypeOK
        <5>2. lock[handles[u][1]] = u /\ isClosed[handles[u][1]]
          BY <5>1 DEF ClosingInv
        <5> QED
          BY <1>5, <2>1, <5>1, <5>2 DEF PipeTypeOK
      <4> QED
        BY <4>1, <4>2
    <3>2. ASSUME NEW c \in Dispatcher, isClosed'[c]
          PROVE  waiters'[c] = {}
      BY <2>1, <3>2 DEF ClosingInv, PipeTypeOK, WaiterTypeOK
    <3> QED
      BY <3>1, <3>2 DEF ClosingInv
  <2>8. EndpointLifetime'
    <3>1. d \in endpoint
      BY <1>2, <1>5 DEF EndpointLifetime
    <3>2. \A c \in Dispatcher : ~isClosed'[c] => c \in endpoint'
      BY <1>1, <2>1, <3>1 DEF EndpointLifetime, PipeTypeOK
    <3>3. \A u \in Thread : pc'[u] = "closing" => handles'[u][1] \in endpoint'
      BY <1>1, <2>1, <3>1 DEF EndpointLifetime, CallTypeOK
    <3> QED
      BY <1>1, <3>2, <3>3 DEF EndpointLifetime
  <2>9. \A c \in Dispatcher : waiters'[c] \subseteq waiters[c]
    BY <2>1 DEF WaiterTypeOK
  <2>10. EntryInv'
    <3>1. ASSUME NEW c \in Dispatcher, NEW e \in waiters'[c]
          PROVE  pc'[e.waiter] = pc[e.waiter]
      <4>1. e.waiter \in Thread /\ pc[e.waiter] # "close"
        BY <2>9 DEF EntryInv, WaiterTypeOK, WaiterInfo
      <4> QED
        BY <1>1, <2>1, <4>1 DEF CallTypeOK
    <3> QED
      BY <2>1, <2>9, <3>1 DEF EntryInv
  <2>11. NoLostWakeup'
    BY <1>1, <2>2, <2>9 DEF NoLostWakeup, WaiterTypeOK, WaiterInfo
  <2> QED
    BY <1>3, <2>3, <2>4, <2>5, <2>6, <2>7, <2>8, <2>10, <2>11
<1> QED
  BY <1>4, <1>5

-----------------------------------------------------------------------------
(* Steps that change the state of an endpoint *)

\* A change of the state of endpoint d wakes up exactly whom it has to: who is left asleep
\* waits for something the new state allows and is not, and who is given the index of a
\* handle waits for something the new state is.
WakesRight(d) ==
    /\ awoken' \in [Thread -> BOOLEAN]
    /\ waitResult' \in [Thread -> Int]
    /\ \A t \in Thread : awoken[t] => awoken'[t]
    /\ \A e \in waiters[d] : ~awoken'[e.waiter] =>
            /\ e.flags \cap SatisfiedFlags(queue'[d], isPeerOpen'[d]) = {}
            /\ e.flags \cap SatisfiableFlags(queue'[d], isPeerOpen'[d]) # {}
    /\ \A t \in Thread : (~awoken[t] /\ awoken'[t] /\ waitResult'[t] >= 0) =>
            \E e \in waiters[d] :
                /\ e.waiter = t /\ e.wake_result = waitResult'[t]
                /\ e.flags \cap SatisfiedFlags(queue'[d], isPeerOpen'[d]) # {}

\* Waking nobody up is right when the flags of the endpoint have not changed.
LEMMA NobodyIsRight ==
    ASSUME IInv, NEW d \in Dispatcher, UNCHANGED <<awoken, waitResult>>,
           SatisfiedFlags(queue'[d], isPeerOpen'[d]) = SatisfiedFlags(queue[d], isPeerOpen[d]),
           SatisfiableFlags(queue'[d], isPeerOpen'[d]) = SatisfiableFlags(queue[d], isPeerOpen[d])
    PROVE  WakesRight(d)
  BY DEF IInv, TypeOK, WaiterTypeOK, NoLostWakeup, WakesRight

\* AwakeWaitersForStateChange with the new state is right.
LEMMA AwakeIsRight ==
    ASSUME IInv, NEW d \in Dispatcher,
           AwakeWaitersForStateChange(d, queue'[d], isPeerOpen'[d])
    PROVE  WakesRight(d)
  BY AwakeFacts DEF IInv, WakesRight

\* No wake-up is lost by a step that changes one endpoint and wakes up its waiters rightly.
LEMMA WakeupsKept ==
    ASSUME IInv, NEW d \in Dispatcher, UNCHANGED waiters, WakesRight(d),
           \A c \in Dispatcher \ {d} : queue'[c] = queue[c] /\ isPeerOpen'[c] = isPeerOpen[c]
    PROVE  NoLostWakeup' /\ WaiterTypeOK'
<1> USE DEF IInv, TypeOK
<1>1. WaiterTypeOK'
  BY DEF WaiterTypeOK, WakesRight
<1>2. ASSUME NEW c \in Dispatcher, NEW e \in waiters'[c], ~awoken'[e.waiter]
      PROVE  /\ e.flags \cap SatisfiedFlags(queue'[c], isPeerOpen'[c]) = {}
             /\ e.flags \cap SatisfiableFlags(queue'[c], isPeerOpen'[c]) # {}
  <2>1. CASE c = d
    BY <1>2, <2>1 DEF WakesRight
  <2>2. CASE c # d
    <3>1. ~awoken[e.waiter]
      BY <1>2 DEF WaiterTypeOK, WaiterInfo, WakesRight
    <3> QED
      BY <2>2, <3>1 DEF NoLostWakeup
  <2> QED
    BY <2>1, <2>2
<1> QED
  BY <1>1, <1>2 DEF NoLostWakeup

\* LocalMessagePipeEndpoint::OnPeerClose wakes up whom it has to.
LEMMA OnPeerCloseFacts ==
    ASSUME IInv, NEW d \in Dispatcher, OnPeerClose(d), queue'[d] = queue[d]
    PROVE  /\ WakesRight(d)
           /\ isPeerOpen' = IF d \in endpoint THEN [isPeerOpen EXCEPT ![d] = FALSE]
                                              ELSE isPeerOpen
<1> USE DEF IInv, TypeOK
<1>1. CASE d \notin endpoint
  BY <1>1, NobodyIsRight DEF OnPeerClose
<1>2. CASE d \in endpoint
  <2>1. isPeerOpen' = [isPeerOpen EXCEPT ![d] = FALSE] /\ isPeerOpen'[d] = FALSE
    BY <1>2 DEF OnPeerClose, PipeTypeOK
  <2>2. \/ AwakeWaitersForStateChange(d, queue'[d], isPeerOpen'[d])
        \/ /\ UNCHANGED <<awoken, waitResult>>
           /\ SatisfiedFlags(queue[d], isPeerOpen[d]) = SatisfiedFlags(queue'[d], isPeerOpen'[d])
           /\ SatisfiableFlags(queue[d], isPeerOpen[d]) = SatisfiableFlags(queue'[d], isPeerOpen'[d])
    BY <1>2, <2>1 DEF OnPeerClose
  <2> QED
    BY <1>2, <2>1, <2>2, NobodyIsRight, AwakeIsRight
<1> QED
  BY <1>1, <1>2

\* CloseImplNoLock destroys the endpoint and tells its peer.
LEMMA CloseImplIInv ==
    ASSUME IInv, NEW t \in Thread, CloseImplNoLock(t)
    PROVE  IInv'
<1> USE DEF IInv, TypeOK
<1> DEFINE d == handles[t][1]
<1>1. /\ pc[t] = "closing"
      /\ endpoint' = endpoint \ {d}
      /\ queue' = [queue EXCEPT ![d] = <<>>]
      /\ OnPeerClose(Peer(d))
      /\ lock' = [lock EXCEPT ![d] = NoThread]
      /\ Return(t, MOJO_RESULT_OK)
      /\ UNCHANGED <<table, isClosed, sent, taken, waiters>>
  BY DEF CloseImplNoLock
<1>2. d \in Dispatcher /\ Peer(d) \in Dispatcher /\ Peer(Peer(d)) = d /\ Peer(d) # d
  BY <1>1, PeerFacts DEF CallInv, CallTypeOK
<1>3. d \in endpoint /\ lock[d] = t /\ isClosed[d] /\ waiters[d] = {}
  BY <1>1, <1>2 DEF EndpointLifetime, ClosingInv
<1>4. queue'[Peer(d)] = queue[Peer(d)]
  BY <1>1, <1>2 DEF PipeTypeOK
<1>5. /\ WakesRight(Peer(d))
      /\ isPeerOpen' = IF Peer(d) \in endpoint THEN [isPeerOpen EXCEPT ![Peer(d)] = FALSE]
                                               ELSE isPeerOpen
  BY <1>1, <1>2, <1>4, OnPeerCloseFacts
<1>6. PipeTypeOK'
  <2>1. isPeerOpen' \in [Dispatcher -> BOOLEAN]
    BY <1>5 DEF PipeTypeOK
  <2>2. queue' \in [Dispatcher -> Seq(Nat)]
    BY <1>1, EmptySeq DEF PipeTypeOK
  <2> QED
    BY <1>1, <2>1, <2>2 DEF PipeTypeOK
<1>7. CallTypeOK' /\ CallInv'
  BY <1>1, ReturnFacts DEF MOJO_RESULT_OK
<1>8. Others(t) /\ pc'[t] # "closing"
  BY <1>1, OthersFacts
<1>9. WaiterTypeOK'
  BY <1>1, <1>5 DEF WaiterTypeOK, WakesRight
<1>10. NoLostWakeup'
  <2>1. ASSUME NEW c \in Dispatcher, NEW e \in waiters'[c], ~awoken'[e.waiter]
        PROVE  /\ e.flags \cap SatisfiedFlags(queue'[c], isPeerOpen'[c]) = {}
               /\ e.flags \cap SatisfiableFlags(queue'[c], isPeerOpen'[c]) # {}
    <3>1. CASE c = Peer(d)
      BY <1>1, <1>5, <2>1, <3>1 DEF WakesRight
    <3>2. CASE c = d
      BY <1>1, <1>3, <3>2
    <3>3. CASE c # d /\ c # Peer(d)
      <4>1. queue'[c] = queue[c] /\ isPeerOpen'[c] = isPeerOpen[c]
        BY <1>1, <1>5, <3>3 DEF PipeTypeOK
      <4>2. ~awoken[e.waiter] /\ e \in waiters[c]
        BY <1>1, <1>5, <2>1 DEF WaiterTypeOK, WaiterInfo, WakesRight
      <4> QED
        BY <4>1, <4>2 DEF NoLostWakeup
    <3> QED
      BY <3>1, <3>2, <3>3
  <2> QED
    BY <2>1 DEF NoLostWakeup
<1>11. ClosingInv'
  <2>1. ASSUME NEW u \in Thread, pc'[u] = "closing"
        PROVE  lock'[handles'[u][1]] = u /\ isClosed'[handles'[u][1]]
    <3>1. u # t /\ pc[u] = "closing" /\ handles'[u] = handles[u]
      BY <1>8, <2>1 DEF Others
    <3>2. lock[handles[u][1]] = u /\ isClosed[handles[u][1]]
      BY <3>1 DEF ClosingInv
    <3>3. handles[u][1] # d
      BY <1>3, <3>1, <3>2
    <3> QED
      BY <1>1, <3>1, <3>2, <3>3 DEF PipeTypeOK
  <2> QED
    BY <1>1, <2>1 DEF ClosingInv
<1>12. EndpointLifetime'
  <2>1. \A c \in Dispatcher : ~isClosed'[c] => c \in endpoint'
    BY <1>1, <1>3 DEF EndpointLifetime
  <2>2. ASSUME NEW u \in Thread, pc'[u] = "closing"
        PROVE  handles'[u][1] \in endpoint'
    <3>1. u # t /\ pc[u] = "closing" /\ handles'[u] = handles[u]
      BY <1>8, <2>2 DEF Others
    <3>2. handles[u][1] # d
      BY <1>3, <3>1 DEF ClosingInv
    <3> QED
      BY <1>1, <3>1, <3>2 DEF EndpointLifetime
  <2>3. ASSUME NEW c \in endpoint'
        PROVE  isPeerOpen'[c] <=> Peer(c) \in endpoint'
    <3>1. c \in endpoint /\ c \in Dispatcher /\ c # d /\ Peer(Peer(c)) = c
      BY <1>1, PeerFacts DEF PipeTypeOK
    <3>2. CASE c = Peer(d)
      BY <1>1, <1>2, <1>5, <3>1, <3>2 DEF PipeTypeOK
    <3>3. CASE c # Peer(d)
      <4>1. Peer(c) # d
        BY <3>1, <3>3
      <4>2. isPeerOpen'[c] = isPeerOpen[c]
        BY <1>5, <3>1, <3>3 DEF PipeTypeOK
      <4> QED
        BY <1>1, <3>1, <4>1, <4>2 DEF EndpointLifetime
    <3> QED
      BY <3>2, <3>3
  <2> QED
    BY <2>1, <2>2, <2>3 DEF EndpointLifetime
<1>13. FifoExactlyOnce'
  BY <1>1 DEF FifoExactlyOnce, PipeTypeOK
<1>14. CountInv'
  BY <1>1 DEF CountInv
<1>15. EntryInv'
  BY <1>1, <1>8, EntriesKept
<1> QED
  BY <1>6, <1>7, <1>9, <1>10, <1>11, <1>12, <1>13, <1>14, <1>15

\* LocalMessagePipeEndpoint::EnqueueMessage may skip the waiters when the queue was not
\* empty: the flags are then what they were.
LEMMA EnqueueFacts ==
    ASSUME IInv, NEW d \in Dispatcher, NEW m \in Nat, EnqueueMessage(d, m), UNCHANGED isPeerOpen
    PROVE  /\ WakesRight(d)
           /\ queue' = [queue EXCEPT ![d] = Append(queue[d], m)]
           /\ queue' \in [Dispatcher -> Seq(Nat)]
<1> USE DEF IInv, TypeOK
<1>1. /\ queue' = [queue EXCEPT ![d] = Append(queue[d], m)]
      /\ queue[d] \in Seq(Nat)
  BY DEF EnqueueMessage, PipeTypeOK
<1>2. queue' \in [Dispatcher -> Seq(Nat)] /\ queue'[d] = Append(queue[d], m)
  BY <1>1 DEF PipeTypeOK
<1>3. CASE queue[d] = <<>>
  BY <1>2, <1>3, AwakeIsRight DEF EnqueueMessage
<1>4. CASE queue[d] # <<>>
  <2>1. queue'[d] # <<>>
    BY <1>1, <1>2
  <2>2. UNCHANGED <<awoken, waitResult>>
    BY <1>4 DEF EnqueueMessage
  <2> QED
    BY <1>1, <1>2, <1>4, <2>1, <2>2, NobodyIsRight DEF SatisfiedFlags, SatisfiableFlags
<1> QED
  BY <1>1, <1>2, <1>3, <1>4

\* Reading tells the waiters when the queue becomes empty.
LEMMA PopFacts ==
    ASSUME IInv, NEW d \in Dispatcher, queue[d] # <<>>, PopMessage(d), UNCHANGED isPeerOpen
    PROVE  /\ WakesRight(d)
           /\ queue' = [queue EXCEPT ![d] = Tail(queue[d])]
           /\ queue' \in [Dispatcher -> Seq(Nat)]
           /\ taken' = [taken EXCEPT ![d] = taken[d] + 1]
<1> USE DEF IInv, TypeOK
<1>1. /\ queue' = [queue EXCEPT ![d] = Tail(queue[d])]
      /\ taken' = [taken EXCEPT ![d] = taken[d] + 1]
      /\ queue[d] \in Seq(Nat)
  BY DEF PopMessage, PipeTypeOK
<1>2. queue' \in [Dispatcher -> Seq(Nat)] /\ queue'[d] = Tail(queue[d])
  BY <1>1 DEF PipeTypeOK
<1>3. CASE Tail(queue[d]) = <<>>
  BY <1>2, <1>3, AwakeIsRight DEF PopMessage
<1>4. CASE Tail(queue[d]) # <<>>
  <2>1. UNCHANGED <<awoken, waitResult>>
    BY <1>4 DEF PopMessage
  <2> QED
    BY <1>1, <1>2, <1>4, <2>1, NobodyIsRight DEF SatisfiedFlags, SatisfiableFlags
<1> QED
  BY <1>1, <1>2, <1>3, <1>4

\* A write or read that returns without having changed anything.
LEMMA FailIInv ==
    ASSUME IInv, NEW t \in Thread, NEW result \in Int, pc[t] \in {"write", "read"},
           Return(t, result),
           UNCHANGED <<pipeVars, waiterVars>>
    PROVE  IInv'
<1> USE DEF IInv, TypeOK, pipeVars, waiterVars
<1>1. PipeTypeOK' /\ WaiterTypeOK'
  BY DEF PipeTypeOK, WaiterTypeOK
<1>2. CallTypeOK' /\ CallInv'
  BY ReturnFacts
<1>3. Others(t) /\ pc'[t] # "closing"
  BY OthersFacts
<1>4. ClosingInv' /\ EndpointLifetime' /\ EntryInv'
  BY <1>3, ClosingKept, LifetimeKept, EntriesKept
<1>5. FifoExactlyOnce' /\ CountInv' /\ NoLostWakeup'
  BY DEF FifoExactlyOnce, CountInv, NoLostWakeup
<1> QED
  BY <1>1, <1>2, <1>4, <1>5

\* WriteMessage: the next message goes to the end of the peer's queue.
LEMMA WriteMessageIInv ==
    ASSUME IInv, NEW t \in Thread, NEW check \in Checks, WriteMessage(t, check)
    PROVE  IInv'
<1> USE DEF IInv, TypeOK
<1> DEFINE d == handles[t][1]
<1>1. /\ pc[t] = "write"
      /\ UNCHANGED <<table, lock, isClosed, endpoint, isPeerOpen, taken, waiters>>
  BY DEF WriteMessage
<1>2. d \in Dispatcher /\ Peer(d) \in Dispatcher /\ Peer(Peer(d)) = d /\ Peer(d) # d
  BY <1>1, PeerFacts DEF CallInv, CallTypeOK
<1>3. check \in Int
  BY DEF Checks, MOJO_RESULT_OK, MOJO_RESULT_INVALID_ARGUMENT, MOJO_RESULT_RESOURCE_EXHAUSTED
<1>4. CASE /\ \E result \in Int : Return(t, result)
           /\ UNCHANGED <<queue, sent, awoken, waitResult>>
  BY <1>1, <1>4, FailIInv DEF pipeVars, waiterVars
<1>5. CASE /\ ~isClosed[d]
           /\ EnqueueMessage(Peer(d), sent[d] + 1)
           /\ sent' = [sent EXCEPT ![d] = sent[d] + 1]
           /\ Return(t, MOJO_RESULT_OK)
  <2>1. sent[d] \in Nat /\ d \in endpoint
    BY <1>2, <1>5 DEF PipeTypeOK, EndpointLifetime
  <2>2. /\ WakesRight(Peer(d))
        /\ queue' = [queue EXCEPT ![Peer(d)] = Append(queue[Peer(d)], sent[d] + 1)]
        /\ queue' \in [Dispatcher -> Seq(Nat)]
    BY <1>1, <1>2, <1>5, <2>1, EnqueueFacts
  <2>3. PipeTypeOK'
    BY <1>1, <1>5, <2>1, <2>2 DEF PipeTypeOK
  <2>4. CallTypeOK' /\ CallInv'
    BY <1>5, ReturnFacts DEF MOJO_RESULT_OK
  <2>5. Others(t) /\ pc'[t] # "closing"
    BY <1>5, OthersFacts
  <2>6. ClosingInv' /\ EndpointLifetime' /\ EntryInv'
    BY <1>1, <2>5, ClosingKept, LifetimeKept, EntriesKept
  <2>7. \A c \in Dispatcher \ {Peer(d)} : queue'[c] = queue[c] /\ isPeerOpen'[c] = isPeerOpen[c]
    BY <1>1, <2>2 DEF PipeTypeOK
  <2>8. NoLostWakeup' /\ WaiterTypeOK'
    BY <1>1, <1>2, <2>2, <2>7, WakeupsKept
  <2>9. ASSUME NEW c \in endpoint'
        PROVE  /\ queue'[c] = [k \in 1..(sent'[Peer(c)] - taken'[c]) |-> taken'[c] + k]
               /\ taken'[c] <= sent'[Peer(c)]
    <3>1. c \in endpoint /\ c \in Dispatcher /\ Peer(c) \in Dispatcher /\ Peer(Peer(c)) = c
      BY <1>1, PeerFacts DEF PipeTypeOK
    <3>2. /\ queue[c] = [k \in 1..(sent[Peer(c)] - taken[c]) |-> taken[c] + k]
          /\ taken[c] <= sent[Peer(c)]
          /\ taken[c] \in Nat /\ sent[Peer(c)] \in Nat /\ taken'[c] = taken[c]
      BY <1>1, <3>1 DEF FifoExactlyOnce, CountInv, PipeTypeOK
    <3>3. CASE c = Peer(d)
      <4>1. /\ queue'[c] = Append(queue[c], sent[d] + 1)
            /\ sent'[Peer(c)] = sent[d] + 1 /\ sent[Peer(c)] = sent[d]
        BY <1>2, <1>5, <2>2, <3>3 DEF PipeTypeOK
      <4>2. queue[c] = UpTo(taken[c], sent[d])
        BY <3>2, <4>1 DEF UpTo
      <4>3. queue'[c] = UpTo(taken[c], sent[d] + 1)
        BY <3>2, <4>1, <4>2, AppendUpTo
      <4>4. queue'[c] = UpTo(taken'[c], sent'[Peer(c)])
        BY <3>2, <4>1, <4>3, Zenon
      <4>5. taken'[c] <= sent'[Peer(c)]
        BY <3>2, <4>1, <4>3
      <4> QED
        BY <4>4, <4>5, Zenon DEF UpTo
    <3>4. CASE c # Peer(d)
      <4>1. Peer(c) # d
        BY <3>1, <3>4
      <4> QED
        BY <1>5, <2>7, <3>1, <3>2, <3>4, <4>1 DEF PipeTypeOK
    <3> QED
      BY <3>3, <3>4
  <2>10. FifoExactlyOnce' /\ CountInv'
    BY <2>9 DEF FifoExactlyOnce, CountInv
  <2> QED
    BY <2>3, <2>4, <2>6, <2>8, <2>10
<1> QED
  BY <1>3, <1>4, <1>5
     DEF WriteMessage, MOJO_RESULT_INVALID_ARGUMENT, MOJO_RESULT_FAILED_PRECONDITION

\* ReadMessage: the first message goes, or nothing changes.
LEMMA ReadMessageIInv ==
    ASSUME IInv, NEW t \in Thread, NEW check \in Checks, NEW fits \in BOOLEAN,
           NEW mayDiscard \in BOOLEAN, ReadMessage(t, check, fits, mayDiscard)
    PROVE  IInv'
<1> USE DEF IInv, TypeOK
<1> DEFINE d == handles[t][1]
<1>1. /\ pc[t] = "read"
      /\ UNCHANGED <<table, lock, isClosed, endpoint, isPeerOpen, sent, waiters>>
  BY DEF ReadMessage
<1>2. d \in Dispatcher /\ Peer(d) \in Dispatcher
  BY <1>1, PeerFacts DEF CallInv, CallTypeOK
<1>3. PICK result \in Int : Return(t, result)
  BY DEF ReadMessage, Checks, MOJO_RESULT_OK, MOJO_RESULT_INVALID_ARGUMENT, MOJO_RESULT_NOT_FOUND,
         MOJO_RESULT_FAILED_PRECONDITION, MOJO_RESULT_RESOURCE_EXHAUSTED
<1>4. \/ UNCHANGED <<queue, taken, awoken, waitResult>>
      \/ ~isClosed[d] /\ queue[d] # <<>> /\ PopMessage(d)
  BY DEF ReadMessage
<1>5. CASE UNCHANGED <<queue, taken, awoken, waitResult>>
  BY <1>1, <1>3, <1>5, FailIInv DEF pipeVars, waiterVars
<1>6. CASE ~isClosed[d] /\ queue[d] # <<>> /\ PopMessage(d)
  <2>1. d \in endpoint
    BY <1>2, <1>6 DEF EndpointLifetime
  <2>2. /\ WakesRight(d)
        /\ queue' = [queue EXCEPT ![d] = Tail(queue[d])]
        /\ queue' \in [Dispatcher -> Seq(Nat)]
        /\ taken' = [taken EXCEPT ![d] = taken[d] + 1]
    BY <1>1, <1>2, <1>6, PopFacts
  <2>3. PipeTypeOK'
    BY <1>1, <1>2, <2>2 DEF PipeTypeOK
  <2>4. CallTypeOK' /\ CallInv'
    BY <1>3, ReturnFacts
  <2>5. Others(t) /\ pc'[t] # "closing"
    BY <1>3, OthersFacts
  <2>6. ClosingInv' /\ EndpointLifetime' /\ EntryInv'
    BY <1>1, <2>5, ClosingKept, LifetimeKept, EntriesKept
  <2>7. \A c \in Dispatcher \ {d} : queue'[c] = queue[c] /\ isPeerOpen'[c] = isPeerOpen[c]
    BY <1>1, <2>2 DEF PipeTypeOK
  <2>8. NoLostWakeup' /\ WaiterTypeOK'
    BY <1>1, <1>2, <2>2, <2>7, WakeupsKept
  <2>9. ASSUME NEW c \in endpoint'
        PROVE  /\ queue'[c] = [k \in 1..(sent'[Peer(c)] - taken'[c]) |-> taken'[c] + k]
               /\ taken'[c] <= sent'[Peer(c)]
    <3>1. c \in endpoint /\ c \in Dispatcher /\ Peer(c) \in Dispatcher
      BY <1>1, PeerFacts DEF PipeTypeOK
    <3>2. /\ queue[c] = [k \in 1..(sent[Peer(c)] - taken[c]) |-> taken[c] + k]
          /\ taken[c] <= sent[Peer(c)]
          /\ taken[c] \in Nat /\ sent[Peer(c)] \in Nat /\ sent'[Peer(c)] = sent[Peer(c)]
      BY <1>1, <3>1 DEF FifoExactlyOnce, CountInv, PipeTypeOK
    <3>3. CASE c = d
      <4>1. queue'[c] = Tail(queue[c]) /\ taken'[c] = taken[c] + 1 /\ queue[c] # <<>>
        BY <1>2, <1>6, <2>2, <3>3 DEF PipeTypeOK
      <4>2. queue[c] = UpTo(taken[c], sent[Peer(c)])
        BY <3>2 DEF UpTo
      <4>3. /\ taken[c] < sent[Peer(c)]
            /\ queue'[c] = UpTo(taken[c] + 1, sent[Peer(c)])
        BY <3>2, <4>1, <4>2, TailUpTo
      <4>4. queue'[c] = UpTo(taken'[c], sent'[Peer(c)])
        BY <3>2, <4>1, <4>3, Zenon
      <4>5. taken'[c] <= sent'[Peer(c)]
        BY <3>2, <4>1, <4>3
      <4> QED
        BY <4>4, <4>5, Zenon DEF UpTo
    <3>4. CASE c # d
      BY <2>2, <2>7, <3>1, <3>2, <3>4 DEF PipeTypeOK
    <3> QED
      BY <3>3, <3>4
  <2>10. FifoExactlyOnce' /\ CountInv'
    BY <2>9 DEF FifoExactlyOnce, CountInv
  <2> QED
    BY <2>3, <2>4, <2>6, <2>8, <2>10
<1> QED
  BY <1>4, <1>5, <1>6

-----------------------------------------------------------------------------
(* Waiting *)

\* Only the Waiter of t changes, and no list holds it.
LEMMA OwnWaiterFacts ==
    ASSUME IInv, NEW t \in Thread, UNCHANGED <<queue, isPeerOpen>>,
           waiters' \in [Dispatcher -> SUBSET WaiterInfo],
           \A d \in Dispatcher : waiters'[d] \subseteq waiters[d],
           \A d \in Dispatcher : \A e \in waiters'[d] : e.waiter # t,
           awoken' = [awoken EXCEPT ![t] = FALSE],
           waitResult' = [waitResult EXCEPT ![t] = MOJO_RESULT_INTERNAL]
    PROVE  WaiterTypeOK' /\ NoLostWakeup'
<1> USE DEF IInv, TypeOK
<1>1. WaiterTypeOK'
  BY DEF WaiterTypeOK, MOJO_RESULT_INTERNAL
<1>2. ASSUME NEW d \in Dispatcher, NEW e \in waiters'[d], ~awoken'[e.waiter]
      PROVE  ~awoken[e.waiter] /\ e \in waiters[d]
  BY <1>2 DEF WaiterTypeOK, WaiterInfo
<1>3. NoLostWakeup'
  BY <1>2 DEF NoLostWakeup
<1> QED
  BY <1>1, <1>3

\* A wait whose number of handles is right begins to look them up.
BeginWait(t, hs, fs, finite) ==
    /\ GoTo(t, "lookup")
    /\ handles' = [handles EXCEPT ![t] = hs]
    /\ flags' = [flags EXCEPT ![t] = fs]
    /\ timed' = [timed EXCEPT ![t] = finite]
    /\ rv' = [rv EXCEPT ![t] = MOJO_RESULT_OK]
    /\ UNCHANGED <<idx, added>>

\* Its local variables are then as CallInv says.
LEMMA BeginWaitFacts ==
    ASSUME CallTypeOK, CallInv, NEW t \in Thread, pc[t] = "idle",
           NEW hs \in Seq(Dispatcher), NEW fs \in Seq(MojoWaitFlags), NEW finite \in BOOLEAN,
           Len(fs) = Len(hs), Len(hs) \in 1..MaxWaitHandles, BeginWait(t, hs, fs, finite)
    PROVE  CallTypeOK' /\ CallInv' /\ Others(t) /\ pc'[t] # "closing"
<1>1. CallTypeOK'
  BY DEF BeginWait, GoTo, CallTypeOK, PCs, MOJO_RESULT_OK
<1>2. Others(t)
  BY DEF BeginWait, GoTo, CallTypeOK, Others
<1>3. /\ pc'[t] = "lookup" /\ handles'[t] = hs /\ flags'[t] = fs
      /\ idx'[t] = 1
  BY DEF BeginWait, GoTo, CallTypeOK, CallInv
<1>4. CallInv'
  BY <1>2, <1>3 DEF CallInv, Others
<1> QED
  BY <1>1, <1>2, <1>3, <1>4

\* CoreImpl::Wait and CoreImpl::WaitMany check the number of handles.
LEMMA WaitManyIInv ==
    ASSUME IInv, NEW t \in Thread, NEW n \in Nat, NEW hs \in [1..n -> Dispatcher],
           NEW fs \in [1..n -> WaitFlags], NEW finite \in BOOLEAN, WaitMany(t, hs, fs, finite)
    PROVE  IInv'
<1> USE DEF IInv, TypeOK
<1>1. UNCHANGED <<pipeVars, waiterVars>> /\ pc[t] = "idle"
  BY DEF WaitMany
<1>2. PipeTypeOK' /\ WaiterTypeOK'
  BY <1>1 DEF PipeTypeOK, WaiterTypeOK, pipeVars, waiterVars
<1>3. /\ hs \in Seq(Dispatcher) /\ Len(hs) = n
      /\ fs \in Seq(MojoWaitFlags) /\ Len(fs) = n
  <2>1. fs \in [1..n -> MojoWaitFlags]
    BY ConstantsAssumption DEF MojoWaitFlags, READABLE, WRITABLE
  <2> QED
    BY <2>1, SeqDef
<1>4. \/ \E result \in Int : Return(t, result)
      \/ Len(hs) \in 1..MaxWaitHandles /\ BeginWait(t, hs, fs, finite)
  BY <1>3, ConstantsAssumption
     DEF WaitMany, BeginWait, MOJO_RESULT_INVALID_ARGUMENT, MOJO_RESULT_RESOURCE_EXHAUSTED
<1>5. CallTypeOK' /\ CallInv' /\ Others(t) /\ pc'[t] # "closing"
  <2>1. CASE \E result \in Int : Return(t, result)
    BY <2>1, ReturnFacts, OthersFacts
  <2>2. CASE Len(hs) \in 1..MaxWaitHandles /\ BeginWait(t, hs, fs, finite)
    <3>1. Len(fs) = Len(hs)
      BY <1>3
    <3> QED
      BY <1>1, <1>3, <2>2, <3>1, BeginWaitFacts
  <2> QED
    BY <1>4, <2>1, <2>2
<1>6. ClosingInv' /\ EndpointLifetime' /\ EntryInv'
  BY <1>1, <1>5, ClosingKept, LifetimeKept, EntriesKept DEF pipeVars, waiterVars
<1>7. FifoExactlyOnce' /\ CountInv' /\ NoLostWakeup'
  BY <1>1 DEF FifoExactlyOnce, CountInv, NoLostWakeup, pipeVars, waiterVars
<1> QED
  BY <1>2, <1>5, <1>6, <1>7

\* The handles are looked up; then the Waiter is initialized.
LEMMA LookupIInv ==
    ASSUME IInv, NEW t \in Thread, Lookup(t)
    PROVE  IInv'
<1> USE DEF IInv, TypeOK
<1>1. UNCHANGED <<pipeVars, waiters>> /\ pc[t] = "lookup"
  BY DEF Lookup
<1>2. PipeTypeOK' /\ FifoExactlyOnce' /\ CountInv'
  BY <1>1 DEF PipeTypeOK, FifoExactlyOnce, CountInv, pipeVars
<1>3. CASE Return(t, MOJO_RESULT_INVALID_ARGUMENT) /\ UNCHANGED <<awoken, waitResult>>
  <2>1. Others(t) /\ pc'[t] # "closing"
    BY <1>3, OthersFacts
  <2>2. CallTypeOK' /\ CallInv'
    BY <1>3, ReturnFacts DEF MOJO_RESULT_INVALID_ARGUMENT
  <2>3. ClosingInv' /\ EndpointLifetime' /\ EntryInv'
    BY <1>1, <2>1, ClosingKept, LifetimeKept, EntriesKept DEF pipeVars
  <2>4. WaiterTypeOK' /\ NoLostWakeup'
    BY <1>1, <1>3 DEF WaiterTypeOK, NoLostWakeup, pipeVars
  <2> QED
    BY <1>2, <2>2, <2>3, <2>4
<1>4. CASE /\ idx[t] < Len(handles[t])
           /\ idx' = [idx EXCEPT ![t] = @ + 1]
           /\ UNCHANGED <<pc, rv, handles, flags, timed, added, awoken, waitResult>>
  <2>1. CallTypeOK'
    BY <1>4 DEF CallTypeOK
  <2>2. Others(t) /\ pc'[t] # "closing"
    BY <1>1, <1>4 DEF Others, CallTypeOK
  <2>3. CallInv'
    BY <1>1, <1>4 DEF CallInv, CallTypeOK
  <2>4. ClosingInv' /\ EndpointLifetime' /\ EntryInv'
    BY <1>1, <2>2, ClosingKept, LifetimeKept, EntriesKept DEF pipeVars
  <2>5. WaiterTypeOK' /\ NoLostWakeup'
    BY <1>1, <1>4 DEF WaiterTypeOK, NoLostWakeup, pipeVars
  <2> QED
    BY <1>2, <2>1, <2>3, <2>4, <2>5
<1>5. CASE /\ idx' = [idx EXCEPT ![t] = 1]
           /\ awoken' = [awoken EXCEPT ![t] = FALSE]
           /\ waitResult' = [waitResult EXCEPT ![t] = MOJO_RESULT_INTERNAL]
           /\ pc' = [pc EXCEPT ![t] = "add"]
           /\ UNCHANGED <<rv, handles, flags, timed, added>>
  <2>1. CallTypeOK'
    BY <1>5 DEF CallTypeOK, PCs
  <2>2. Others(t) /\ pc'[t] # "closing"
    BY <1>5 DEF Others, CallTypeOK
  <2>3. CallInv'
    BY <1>1, <1>5 DEF CallInv, CallTypeOK
  <2>4. /\ ClosingInv' /\ EndpointLifetime' /\ EntryInv'
        /\ \A d \in Dispatcher : \A e \in waiters[d] : e.waiter # t
    BY <1>1, <2>2, ClosingKept, LifetimeKept, EntriesKept DEF pipeVars
  <2>5. WaiterTypeOK' /\ NoLostWakeup'
    BY <1>1, <1>5, <2>4, OwnWaiterFacts DEF WaiterTypeOK, pipeVars
  <2> QED
    BY <1>2, <2>1, <2>3, <2>4, <2>5
<1> QED
  BY <1>3, <1>4, <1>5 DEF Lookup, GoTo

\* WaitManyInternal stops waiting: the entries of its Waiter are those of the first n
\* handles, which it goes on to remove.
LEMMA StartRemoveIInv ==
    ASSUME IInv, NEW t \in Thread, NEW n \in 0..Len(handles[t]), NEW result \in Int,
           \/ pc[t] = "add" /\ n = idx[t] - 1
           \/ pc[t] = "wait" /\ n = Len(handles[t]),
           StartRemove(t, n, result), UNCHANGED <<pipeVars, waiters>>
    PROVE  IInv'
<1> USE DEF IInv, TypeOK
<1>1. PipeTypeOK' /\ FifoExactlyOnce' /\ CountInv'
  BY DEF PipeTypeOK, FifoExactlyOnce, CountInv, pipeVars
<1>2. Others(t) /\ pc'[t] = IF n = 0 THEN "idle" ELSE "remove"
  BY OthersFacts
<1>3. ClosingInv' /\ EndpointLifetime'
  BY <1>2, ClosingKept, LifetimeKept DEF pipeVars
<1>4. ASSUME NEW d \in Dispatcher, NEW e \in waiters[d]
      PROVE  /\ e.waiter \in Thread /\ e.wake_result \in Nat
             /\ e.waiter = t => e.wake_result + 1 <= n
  BY ConstantsAssumption DEF EntryInv, CallTypeOK, WaiterTypeOK, WaiterInfo
<1>5. CASE n = 0
  <2>1. EndWait(t, result)
    BY <1>5 DEF StartRemove
  <2>2. CallTypeOK' /\ CallInv'
    BY <2>1, ReturnFacts DEF EndWait
  <2>3. \A d \in Dispatcher : \A e \in waiters[d] : e.waiter \in Thread \ {t}
    BY <1>4, <1>5
  <2>4. EntryInv'
    BY <1>2, <2>3 DEF EntryInv, Others
  <2>5. WaiterTypeOK' /\ NoLostWakeup'
    BY <2>1, <2>3, OwnWaiterFacts DEF EndWait, WaiterTypeOK, pipeVars
  <2> QED
    BY <1>1, <1>3, <2>2, <2>4, <2>5
<1>6. CASE n # 0
  <2>1. /\ pc' = [pc EXCEPT ![t] = "remove"]
        /\ rv' = [rv EXCEPT ![t] = result]
        /\ idx' = [idx EXCEPT ![t] = 1]
        /\ added' = [added EXCEPT ![t] = n]
        /\ UNCHANGED <<handles, flags, timed, awoken, waitResult>>
    BY <1>6 DEF StartRemove, GoTo
  <2>2. n \in Nat /\ n >= 1 /\ n <= Len(handles[t])
    BY <1>6 DEF CallTypeOK
  <2>3. CallTypeOK'
    BY <2>1, <2>2 DEF CallTypeOK, PCs
  <2>4. CallInv'
    BY <2>1, <2>2 DEF CallInv, CallTypeOK
  <2>5. ASSUME NEW d \in Dispatcher, NEW e \in waiters'[d]
        PROVE  LET u == e.waiter
                   i == e.wake_result + 1
               IN  /\ pc'[u] \in {"add", "wait", "remove"}
                   /\ i <= Len(handles'[u])
                   /\ handles'[u][i] = d
                   /\ flags'[u][i] = e.flags
                   /\ pc'[u] = "add" => i < idx'[u]
                   /\ pc'[u] = "remove" => idx'[u] <= i /\ i <= added'[u]
    <3>1. e \in waiters[d] /\ e.waiter \in Thread /\ e.wake_result \in Nat
      BY <1>4
    <3>2. CASE e.waiter = t
      <4>1. /\ pc'[t] = "remove" /\ idx'[t] = 1 /\ added'[t] = n
            /\ e.wake_result + 1 <= n
        BY <1>4, <2>1, <3>1, <3>2 DEF CallTypeOK
      <4> QED
        BY <2>1, <3>1, <3>2, <4>1 DEF EntryInv
    <3>3. CASE e.waiter # t
      BY <1>2, <3>1, <3>3 DEF EntryInv, Others
    <3> QED
      BY <3>2, <3>3
  <2>6. EntryInv'
    BY <2>5 DEF EntryInv
  <2>7. WaiterTypeOK' /\ NoLostWakeup'
    BY <2>1 DEF WaiterTypeOK, NoLostWakeup, pipeVars
  <2> QED
    BY <1>1, <1>3, <2>3, <2>4, <2>6, <2>7
<1> QED
  BY <1>5, <1>6

\* Waiter::Wait returns.
LEMMA WaitIInv ==
    ASSUME IInv, NEW t \in Thread, WaitAwoken(t) \/ WaitDeadline(t)
    PROVE  IInv'
<1>1. PICK result \in Int :
        /\ pc[t] = "wait" /\ StartRemove(t, Len(handles[t]), result)
        /\ UNCHANGED <<pipeVars, waiters>>
  BY DEF IInv, TypeOK, WaiterTypeOK, WaitAwoken, WaitDeadline, MOJO_RESULT_DEADLINE_EXCEEDED
<1>2. Len(handles[t]) \in 0..Len(handles[t])
  BY DEF IInv, TypeOK, CallTypeOK
<1> QED
  BY <1>1, <1>2, StartRemoveIInv

\* Dispatcher::AddWaiter: an entry is made only for flags that are not satisfied but can be.
LEMMA AddWaiterIInv ==
    ASSUME IInv, NEW t \in Thread, AddWaiter(t)
    PROVE  IInv'
<1> USE DEF IInv, TypeOK
<1> DEFINE i == idx[t]
           d == handles[t][i]
           r == AddWaiterResult(d, flags[t][i])
<1>1. pc[t] = "add" /\ UNCHANGED pipeVars
  BY DEF AddWaiter
<1>2. /\ i \in 1..Len(handles[t]) /\ Len(handles[t]) \in 1..MaxWaitHandles
      /\ d \in Dispatcher /\ flags[t][i] \in MojoWaitFlags
  BY <1>1 DEF CallInv, CallTypeOK
<1>3. r \in Int
  BY DEF AddWaiterResult, MOJO_RESULT_INVALID_ARGUMENT, MOJO_RESULT_ALREADY_EXISTS,
         MOJO_RESULT_FAILED_PRECONDITION, MOJO_RESULT_OK
<1>4. CASE (\E result \in Int : StartRemove(t, i - 1, result)) /\ UNCHANGED waiters
  <2>1. i - 1 \in 0..Len(handles[t])
    BY <1>2
  <2> QED
    BY <1>1, <1>4, <2>1, StartRemoveIInv
<1>5. CASE /\ r = MOJO_RESULT_OK
           /\ waiters' = [waiters EXCEPT ![d] = waiters[d] \cup {NewWaiterInfo(t, i)}]
           /\ idx' = [idx EXCEPT ![t] = i + 1]
           /\ pc' = IF i = Len(handles[t]) THEN [pc EXCEPT ![t] = "wait"] ELSE pc
           /\ UNCHANGED <<rv, handles, flags, timed, added, awoken, waitResult>>
  <2> DEFINE new == NewWaiterInfo(t, i)
  <2>1. /\ ~isClosed[d]
        /\ flags[t][i] \cap SatisfiedFlags(queue[d], isPeerOpen[d]) = {}
        /\ flags[t][i] \cap SatisfiableFlags(queue[d], isPeerOpen[d]) # {}
    BY <1>5 DEF AddWaiterResult, MOJO_RESULT_INVALID_ARGUMENT, MOJO_RESULT_ALREADY_EXISTS,
                MOJO_RESULT_FAILED_PRECONDITION, MOJO_RESULT_OK
  <2>2. /\ new \in WaiterInfo /\ new.waiter = t /\ new.flags = flags[t][i]
        /\ new.wake_result = i - 1
    BY <1>2, ConstantsAssumption DEF NewWaiterInfo, WaiterInfo
  <2> HIDE DEF new
  <2>3. /\ \A c \in Dispatcher \ {d} : waiters'[c] = waiters[c]
        /\ waiters'[d] = waiters[d] \cup {new}
        /\ WaiterTypeOK'
    BY <1>2, <1>5, <2>2 DEF WaiterTypeOK, new
  <2>4. PipeTypeOK' /\ FifoExactlyOnce' /\ CountInv'
    BY <1>1 DEF PipeTypeOK, FifoExactlyOnce, CountInv, pipeVars
  <2>5. CallTypeOK'
    BY <1>2, <1>5 DEF CallTypeOK, PCs
  <2>6. /\ pc'[t] = IF i = Len(handles[t]) THEN "wait" ELSE "add"
        /\ idx'[t] = i + 1
        /\ Others(t)
    BY <1>1, <1>5 DEF Others, CallTypeOK
  <2>7. CallInv'
    BY <1>1, <1>2, <1>5, <2>6 DEF CallInv, CallTypeOK, Others
  <2>8. EndpointLifetime'
    BY <1>1, <2>6, LifetimeKept DEF pipeVars
  <2>9. ClosingInv'
    <3>1. ASSUME NEW u \in Thread, pc'[u] = "closing"
          PROVE  lock'[handles'[u][1]] = u /\ isClosed'[handles'[u][1]]
      BY <1>1, <2>6, <3>1 DEF ClosingInv, Others, pipeVars
    <3>2. \A c \in Dispatcher : isClosed'[c] => waiters'[c] = {}
      BY <1>1, <2>1, <2>3 DEF ClosingInv, pipeVars
    <3> QED
      BY <3>1, <3>2 DEF ClosingInv
  <2>10. ASSUME NEW c \in Dispatcher, NEW e \in waiters'[c]
         PROVE  e \in waiters[c] \/ (c = d /\ e = new)
    BY <2>3
  <2>11. EntryInv'
    <3>1. ASSUME NEW c \in Dispatcher, NEW e \in waiters'[c]
          PROVE  LET u == e.waiter
                     j == e.wake_result + 1
                 IN  /\ pc'[u] \in {"add", "wait", "remove"}
                     /\ j <= Len(handles'[u])
                     /\ handles'[u][j] = c
                     /\ flags'[u][j] = e.flags
                     /\ pc'[u] = "add" => j < idx'[u]
                     /\ pc'[u] = "remove" => idx'[u] <= j /\ j <= added'[u]
      <4>1. CASE c = d /\ e = new
        <5>1. e.waiter = t /\ e.wake_result + 1 = i /\ e.flags = flags[t][i]
          BY <1>2, <2>2, <4>1
        <5> QED
          BY <1>2, <1>5, <2>6, <4>1, <5>1
      <4>2. CASE e \in waiters[c] /\ e.waiter = t
        <5>1. /\ e.wake_result \in Nat /\ e.wake_result + 1 < i
              /\ handles[t][e.wake_result + 1] = c /\ flags[t][e.wake_result + 1] = e.flags
          BY <1>1, <4>2, ConstantsAssumption DEF EntryInv, WaiterTypeOK, WaiterInfo
        <5> QED
          BY <1>2, <1>5, <2>6, <4>2, <5>1
      <4>3. CASE e \in waiters[c] /\ e.waiter # t
        <5>1. e.waiter \in Thread
          BY <4>3 DEF WaiterTypeOK, WaiterInfo
        <5> QED
          BY <2>6, <4>3, <5>1 DEF EntryInv, Others
      <4> QED
        BY <2>10, <4>1, <4>2, <4>3
    <3> QED
      BY <3>1 DEF EntryInv
  <2>12. NoLostWakeup'
    BY <1>1, <1>5, <2>1, <2>2, <2>10 DEF NoLostWakeup, pipeVars
  <2> QED
    BY <2>3, <2>4, <2>5, <2>7, <2>8, <2>9, <2>11, <2>12
<1>6. i - 1 \in Int
  BY <1>2
<1> HIDE DEF i, d, r
<1> QED
  BY <1>3, <1>4, <1>5, <1>6 DEF AddWaiter, GoTo, i, d, r

\* Dispatcher::RemoveWaiter on one handle after the other.
LEMMA RemoveWaiterIInv ==
    ASSUME IInv, NEW t \in Thread, RemoveWaiter(t)
    PROVE  IInv'
<1> USE DEF IInv, TypeOK
<1> DEFINE d == handles[t][idx[t]]
<1>1. /\ pc[t] = "remove" /\ UNCHANGED pipeVars
      /\ waiters' = IF isClosed[d] THEN waiters
                    ELSE [waiters EXCEPT ![d] = {e \in waiters[d] : e.waiter # t}]
  BY DEF RemoveWaiter
<1>2. d \in Dispatcher /\ idx[t] \in 1..added[t] /\ added[t] \in 1..Len(handles[t])
  BY <1>1 DEF CallInv, CallTypeOK
<1>3. /\ \A c \in Dispatcher : waiters'[c] \subseteq waiters[c]
      /\ waiters' \in [Dispatcher -> SUBSET WaiterInfo]
      /\ \A e \in waiters'[d] : e.waiter # t
  BY <1>1, <1>2 DEF WaiterTypeOK, ClosingInv
<1>4. PipeTypeOK' /\ FifoExactlyOnce' /\ CountInv'
  BY <1>1 DEF PipeTypeOK, FifoExactlyOnce, CountInv, pipeVars
<1>5. /\ Others(t) /\ pc'[t] # "closing"
      /\ \/ idx[t] = added[t] /\ EndWait(t, rv[t])
         \/ /\ idx[t] # added[t]
            /\ idx' = [idx EXCEPT ![t] = idx[t] + 1]
            /\ UNCHANGED <<pc, rv, handles, flags, timed, added, awoken, waitResult>>
  BY <1>1, OthersFacts DEF RemoveWaiter, Others, CallTypeOK
<1>6. ClosingInv'
  <2>1. ASSUME NEW u \in Thread, pc'[u] = "closing"
        PROVE  lock'[handles'[u][1]] = u /\ isClosed'[handles'[u][1]]
    BY <1>1, <1>5, <2>1 DEF ClosingInv, Others, pipeVars
  <2>2. \A c \in Dispatcher : isClosed'[c] => waiters'[c] = {}
    BY <1>1, <1>3 DEF ClosingInv, pipeVars
  <2> QED
    BY <2>1, <2>2 DEF ClosingInv
<1>7. EndpointLifetime'
  BY <1>1, <1>5, LifetimeKept DEF pipeVars
<1>8. ASSUME NEW c \in Dispatcher, NEW e \in waiters'[c]
      PROVE  /\ e \in waiters[c] /\ e.waiter \in Thread /\ e.wake_result \in Nat
             /\ e.waiter = t => idx[t] + 1 <= e.wake_result + 1 /\ e.wake_result + 1 <= added[t]
  <2>1. e \in waiters[c] /\ e.waiter \in Thread /\ e.wake_result \in Nat
    BY <1>3, ConstantsAssumption DEF WaiterTypeOK, WaiterInfo
  <2>2. ASSUME e.waiter = t
        PROVE  idx[t] + 1 <= e.wake_result + 1 /\ e.wake_result + 1 <= added[t]
    <3>1. c # d
      BY <1>3, <2>2
    <3>2. /\ idx[t] <= e.wake_result + 1 /\ e.wake_result + 1 <= added[t]
          /\ handles[t][e.wake_result + 1] = c
      BY <1>1, <2>1, <2>2 DEF EntryInv
    <3>3. e.wake_result + 1 # idx[t]
      BY <3>1, <3>2
    <3> QED
      BY <1>2, <2>1, <3>2, <3>3
  <2> QED
    BY <2>1, <2>2
<1>9. CASE idx[t] = added[t] /\ EndWait(t, rv[t])
  <2>1. CallTypeOK' /\ CallInv'
    BY <1>9, ReturnFacts DEF EndWait, CallTypeOK
  <2>2. \A c \in Dispatcher : \A e \in waiters'[c] : e.waiter \in Thread \ {t}
    BY <1>2, <1>8, <1>9
  <2>3. EntryInv'
    BY <1>3, <1>5, <2>2 DEF EntryInv, Others
  <2>4. WaiterTypeOK' /\ NoLostWakeup'
    BY <1>1, <1>3, <1>9, <2>2, OwnWaiterFacts DEF EndWait, pipeVars
  <2> QED
    BY <1>4, <1>6, <1>7, <2>1, <2>3, <2>4
<1>10. CASE /\ idx[t] # added[t]
            /\ idx' = [idx EXCEPT ![t] = idx[t] + 1]
            /\ UNCHANGED <<pc, rv, handles, flags, timed, added, awoken, waitResult>>
  <2>1. CallTypeOK'
    BY <1>10 DEF CallTypeOK
  <2>2. CallInv'
    BY <1>1, <1>2, <1>10 DEF CallInv, CallTypeOK
  <2>3. EntryInv'
    <3>1. ASSUME NEW c \in Dispatcher, NEW e \in waiters'[c]
          PROVE  pc'[e.waiter] = "remove" =>
                    /\ idx'[e.waiter] <= e.wake_result + 1
                    /\ e.wake_result + 1 <= added'[e.waiter]
      <4>1. CASE e.waiter = t
        BY <1>8, <1>10, <4>1 DEF CallTypeOK
      <4>2. CASE e.waiter # t
        BY <1>8, <1>10, <4>2 DEF EntryInv, CallTypeOK
      <4> QED
        BY <4>1, <4>2
    <3>2. ASSUME NEW c \in Dispatcher, NEW e \in waiters'[c]
          PROVE  pc'[e.waiter] = "add" => e.wake_result + 1 < idx'[e.waiter]
      BY <1>1, <1>8, <1>10 DEF EntryInv, CallTypeOK
    <3> QED
      BY <1>8, <1>10, <3>1, <3>2 DEF EntryInv
  <2>4. WaiterTypeOK' /\ NoLostWakeup'
    BY <1>1, <1>3, <1>10 DEF WaiterTypeOK, NoLostWakeup, pipeVars
  <2> QED
    BY <1>4, <1>6, <1>7, <2>1, <2>2, <2>3, <2>4
<1> QED
  BY <1>5, <1>9, <1>10

-----------------------------------------------------------------------------
(* Theorems *)

\* Every step keeps the invariant: one case per operation of CoreImpl and Dispatcher.
LEMMA NextIInv == IInv /\ [Next]_vars => IInv'
<1> SUFFICES ASSUME IInv, [Next]_vars PROVE IInv'
  OBVIOUS
<1>1. CASE UNCHANGED vars
  <2>1. UNCHANGED <<table, lock, isClosed, endpoint, isPeerOpen, queue, sent, taken>>
    BY <1>1 DEF vars, pipeVars
  <2>2. UNCHANGED <<waiters, awoken, waitResult>>
    BY <1>1 DEF vars, waiterVars
  <2>3. UNCHANGED <<pc, handles, flags, timed, idx, added, rv>>
    BY <1>1 DEF vars, callVars
  <2>4. TypeOK'
    BY <2>1, <2>2, <2>3 DEF IInv, TypeOK, PipeTypeOK, WaiterTypeOK, CallTypeOK
  <2>5. CallInv'
    BY <2>3 DEF IInv, CallInv
  <2>6. ClosingInv' /\ EndpointLifetime'
    BY <2>1, <2>2, <2>3 DEF IInv, ClosingInv, EndpointLifetime
  <2>7. FifoExactlyOnce' /\ CountInv'
    BY <2>1 DEF IInv, FifoExactlyOnce, CountInv
  <2>8. EntryInv' /\ NoLostWakeup'
    BY <2>1, <2>2, <2>3 DEF IInv, EntryInv, NoLostWakeup
  <2> QED
    BY <2>4, <2>5, <2>6, <2>7, <2>8 DEF IInv
<1>2. ASSUME NEW t \in Thread, NEW d \in Dispatcher, Close(t, d)
      PROVE  IInv'
  BY <1>2, CloseIInv
<1>3. ASSUME NEW t \in Thread, NEW d \in Dispatcher,
             GetDispatcher(t, d, "write") \/ GetDispatcher(t, d, "read")
      PROVE  IInv'
  BY <1>3, GetDispatcherIInv
<1>4. ASSUME NEW t \in Thread, NEW n \in 0..(MaxWaitHandles + 1),
             NEW hs \in [1..n -> Dispatcher], NEW fs \in [1..n -> WaitFlags],
             NEW finite \in BOOLEAN, WaitMany(t, hs, fs, finite)
      PROVE  IInv'
  BY <1>4, WaitManyIInv, ConstantsAssumption
<1>5. ASSUME NEW t \in Thread, DispatcherClose(t)
      PROVE  IInv'
  BY <1>5, DispatcherCloseIInv
<1>6. ASSUME NEW t \in Thread, CloseImplNoLock(t)
      PROVE  IInv'
  BY <1>6, CloseImplIInv
<1>7. ASSUME NEW t \in Thread, NEW check \in Checks, WriteMessage(t, check)
      PROVE  IInv'
  BY <1>7, WriteMessageIInv
<1>8. ASSUME NEW t \in Thread, NEW check \in Checks \ {MOJO_RESULT_RESOURCE_EXHAUSTED},
             NEW fits \in BOOLEAN, NEW mayDiscard \in BOOLEAN,
             ReadMessage(t, check, fits, mayDiscard)
      PROVE  IInv'
  BY <1>8, ReadMessageIInv
<1>9. ASSUME NEW t \in Thread, Lookup(t)
      PROVE  IInv'
  BY <1>9, LookupIInv
<1>10. ASSUME NEW t \in Thread, AddWaiter(t)
       PROVE  IInv'
  BY <1>10, AddWaiterIInv
<1>11. ASSUME NEW t \in Thread, WaitAwoken(t) \/ WaitDeadline(t)
       PROVE  IInv'
  BY <1>11, WaitIInv
<1>12. ASSUME NEW t \in Thread, RemoveWaiter(t)
       PROVE  IInv'
  BY <1>12, RemoveWaiterIInv
<1> QED
  BY <1>1, <1>2, <1>3, <1>4, <1>5, <1>6, <1>7, <1>8, <1>9, <1>10, <1>11, <1>12
     DEF Next, Call, Step

\* The inductive invariant holds in every reachable state.
LEMMA Invariance == Spec => []IInv
  BY InitIInv, NextIInv, PTL DEF Spec

\* Every variable keeps its type, whatever the threads do and however many handles a wait
\* has; for the waiter lists this needs that the loop of WaitManyInternal stays in bounds.
THEOREM TypeCorrect == Spec => []TypeOK
  BY Invariance, PTL DEF IInv

\* No wake-up of a waiter is lost, however writes, reads, closes and waits interleave.
THEOREM WakeupsSafe == Spec => []NoLostWakeup
  BY Invariance, PTL DEF IInv

\* No list points to the Waiter of a call that has returned or removed it from there.
THEOREM WaitersSafe == Spec => []NoDanglingWaiter
<1>1. IInv => NoDanglingWaiter
  <2> SUFFICES ASSUME IInv, NEW d \in Dispatcher, NEW e \in waiters[d]
               PROVE  LET t == e.waiter IN
                      /\ pc[t] \in {"add", "wait", "remove"}
                      /\ \E i \in DOMAIN handles[t] :
                            /\ handles[t][i] = d
                            /\ pc[t] = "add" => i < idx[t]
                            /\ pc[t] = "remove" => idx[t] <= i /\ i <= added[t]
    BY DEF NoDanglingWaiter
  <2> DEFINE t == e.waiter
             i == e.wake_result + 1
  <2>1. t \in Thread /\ e.wake_result \in Nat
    BY ConstantsAssumption DEF IInv, TypeOK, WaiterTypeOK, WaiterInfo
  <2>2. /\ pc[t] \in {"add", "wait", "remove"}
        /\ i <= Len(handles[t])
        /\ handles[t][i] = d
        /\ pc[t] = "add" => i < idx[t]
        /\ pc[t] = "remove" => idx[t] <= i /\ i <= added[t]
    BY DEF IInv, EntryInv
  <2>3. i \in DOMAIN handles[t]
    BY <2>1, <2>2 DEF IInv, TypeOK, CallTypeOK
  <2> QED
    BY <2>2, <2>3
<1> QED
  BY <1>1, Invariance, PTL

\* An open or closing dispatcher has its endpoint, and an endpoint knows whether its peer
\* exists.
THEOREM LifetimeSafe == Spec => []EndpointLifetime
  BY Invariance, PTL DEF IInv

\* An endpoint's queue holds exactly the messages written to it and not yet taken, in order.
THEOREM MessagesSafe == Spec => []FifoExactlyOnce
  BY Invariance, PTL DEF IInv

-----------------------------------------------------------------------------
(* What a step may do *)

\* The effect of a step on the endpoints: none, one message sent, one taken, or one
\* endpoint closed.
Sends(d) ==
    /\ d \in endpoint /\ Peer(d) \in endpoint
    /\ queue' = [queue EXCEPT ![Peer(d)] = Append(queue[Peer(d)], sent[d] + 1)]
    /\ sent' = [sent EXCEPT ![d] = sent[d] + 1]
    /\ UNCHANGED <<endpoint, isPeerOpen, taken>>

Takes(d) ==
    /\ d \in endpoint /\ queue[d] # <<>>
    /\ queue' = [queue EXCEPT ![d] = Tail(queue[d])]
    /\ taken' = [taken EXCEPT ![d] = taken[d] + 1]
    /\ UNCHANGED <<endpoint, isPeerOpen, sent>>

Closes(d) ==
    /\ d \in endpoint
    /\ endpoint' = endpoint \ {d}
    /\ queue' = [queue EXCEPT ![d] = <<>>]
    /\ isPeerOpen' = IF Peer(d) \in endpoint THEN [isPeerOpen EXCEPT ![Peer(d)] = FALSE]
                                             ELSE isPeerOpen
    /\ UNCHANGED <<sent, taken>>

Quiet == UNCHANGED <<endpoint, isPeerOpen, queue, sent, taken>>

\* Who is newly awoken with the index of a handle was woken up rightly.
WakesNobody == \A t \in Thread : awoken'[t] => awoken[t] \/ waitResult'[t] < 0

\* Every step has one of these effects: one case per operation.
LEMMA StepEffect ==
    ASSUME IInv, [Next]_vars
    PROVE  /\ Quiet \/ \E d \in Dispatcher : Sends(d) \/ Takes(d) \/ Closes(d)
           /\ WakesNobody \/ \E d \in Dispatcher : WakesRight(d)
<1> USE DEF IInv, TypeOK
<1>1. CASE \/ UNCHANGED <<pipeVars, waiterVars>>
           \/ \E t \in Thread, d \in Dispatcher : Close(t, d)
  BY <1>1 DEF Close, Quiet, WakesNobody, pipeVars, waiterVars
<1>2. ASSUME NEW t \in Thread, NEW result, EndWait(t, result)
      PROVE  WakesNobody
  BY <1>2 DEF EndWait, WakesNobody, WaiterTypeOK
<1>3. ASSUME NEW t \in Thread, NEW n, NEW result, StartRemove(t, n, result)
      PROVE  WakesNobody
  BY <1>2, <1>3 DEF StartRemove, WakesNobody
<1>4. ASSUME NEW t \in Thread, Lookup(t) \/ AddWaiter(t) \/ WaitAwoken(t) \/ WaitDeadline(t) \/ RemoveWaiter(t)
      PROVE  Quiet /\ WakesNobody
  <2>1. Quiet
    BY <1>4 DEF Quiet, Lookup, AddWaiter, WaitAwoken, WaitDeadline, RemoveWaiter, pipeVars
  <2>2. CASE Lookup(t)
    BY <2>1, <2>2 DEF Lookup, WakesNobody, WaiterTypeOK
  <2>3. CASE AddWaiter(t)
    BY <1>3, <2>1, <2>3 DEF AddWaiter, WakesNobody
  <2>4. CASE WaitAwoken(t) \/ WaitDeadline(t)
    BY <1>3, <2>1, <2>4 DEF WaitAwoken, WaitDeadline
  <2>5. CASE RemoveWaiter(t)
    BY <1>2, <2>1, <2>5 DEF RemoveWaiter, WakesNobody
  <2> QED
    BY <1>4, <2>1, <2>2, <2>3, <2>4, <2>5
<1>5. ASSUME NEW t \in Thread, DispatcherClose(t)
      PROVE  Quiet /\ WakesNobody
  <2>1. Quiet
    BY <1>5 DEF DispatcherClose, Quiet
  <2>2. CASE UNCHANGED waiterVars
    BY <2>1, <2>2 DEF WakesNobody, waiterVars
  <2>3. CASE CancelAllWaiters(handles[t][1])
    <3> DEFINE woken == {e.waiter : e \in waiters[handles[t][1]]}
    <3>1. /\ awoken' = [u \in Thread |-> awoken[u] \/ u \in woken]
          /\ waitResult' = [u \in Thread |-> IF u \in woken /\ ~awoken[u]
                                             THEN MOJO_RESULT_CANCELLED ELSE waitResult[u]]
      BY <2>3 DEF CancelAllWaiters, Awake
    <3> HIDE DEF woken
    <3>2. ASSUME NEW u \in Thread, awoken'[u], ~awoken[u]
          PROVE  waitResult'[u] < 0
      <4>1. u \in woken
        BY <3>1, <3>2, Zenon
      <4> QED
        BY <3>1, <3>2, <4>1 DEF MOJO_RESULT_CANCELLED
    <3> QED
      BY <2>1, <3>2 DEF WakesNobody
  <2> QED
    BY <1>5, <2>1, <2>2, <2>3 DEF DispatcherClose
<1>6. ASSUME NEW t \in Thread, CloseImplNoLock(t)
      PROVE  \E d \in Dispatcher : Closes(d) /\ WakesRight(Peer(d)) /\ Peer(d) \in Dispatcher
  <2> DEFINE d == handles[t][1]
  <2>1. /\ pc[t] = "closing"
        /\ endpoint' = endpoint \ {d}
        /\ queue' = [queue EXCEPT ![d] = <<>>]
        /\ OnPeerClose(Peer(d))
        /\ UNCHANGED <<sent, taken>>
    BY <1>6 DEF CloseImplNoLock
  <2>2. d \in Dispatcher /\ Peer(d) \in Dispatcher /\ Peer(d) # d /\ d \in endpoint
    BY <2>1, PeerFacts DEF CallInv, CallTypeOK, EndpointLifetime
  <2>3. queue'[Peer(d)] = queue[Peer(d)]
    BY <2>1, <2>2 DEF PipeTypeOK
  <2> QED
    BY <2>1, <2>2, <2>3, OnPeerCloseFacts DEF Closes
<1>7. ASSUME NEW t \in Thread, NEW check \in Checks, WriteMessage(t, check)
      PROVE  \/ Quiet /\ WakesNobody
             \/ \E d \in Dispatcher : Sends(d) /\ WakesRight(Peer(d)) /\ Peer(d) \in Dispatcher
  <2> DEFINE d == handles[t][1]
  <2>1. pc[t] = "write" /\ UNCHANGED <<endpoint, isPeerOpen, taken>>
    BY <1>7 DEF WriteMessage
  <2>2. d \in Dispatcher /\ Peer(d) \in Dispatcher
    BY <2>1, PeerFacts DEF CallInv, CallTypeOK
  <2>3. CASE UNCHANGED <<queue, sent, awoken, waitResult>>
    BY <2>1, <2>3 DEF Quiet, WakesNobody
  <2>4. CASE /\ ~isClosed[d] /\ Peer(d) \in endpoint
             /\ EnqueueMessage(Peer(d), sent[d] + 1)
             /\ sent' = [sent EXCEPT ![d] = sent[d] + 1]
    <3>1. sent[d] + 1 \in Nat /\ d \in endpoint
      BY <2>2, <2>4 DEF PipeTypeOK, EndpointLifetime
    <3> QED
      BY <2>1, <2>2, <2>4, <3>1, EnqueueFacts DEF Sends
  <2> QED
    BY <1>7, <2>3, <2>4 DEF WriteMessage
<1>8. ASSUME NEW t \in Thread, NEW check, NEW fits, NEW mayDiscard,
             ReadMessage(t, check, fits, mayDiscard)
      PROVE  \/ Quiet /\ WakesNobody
             \/ \E d \in Dispatcher : Takes(d) /\ WakesRight(d)
  <2> DEFINE d == handles[t][1]
  <2>1. pc[t] = "read" /\ UNCHANGED <<endpoint, isPeerOpen, sent>>
    BY <1>8 DEF ReadMessage
  <2>2. d \in Dispatcher
    BY <2>1 DEF CallInv, CallTypeOK
  <2>3. CASE UNCHANGED <<queue, taken, awoken, waitResult>>
    BY <2>1, <2>3 DEF Quiet, WakesNobody
  <2>4. CASE ~isClosed[d] /\ queue[d] # <<>> /\ PopMessage(d)
    <3>1. d \in endpoint
      BY <2>2, <2>4 DEF EndpointLifetime
    <3> QED
      BY <2>1, <2>2, <2>4, <3>1, PopFacts DEF Takes
  <2> QED
    BY <1>8, <2>3, <2>4 DEF ReadMessage
<1>9. \/ UNCHANGED <<pipeVars, waiterVars>>
      \/ \E t \in Thread, d \in Dispatcher : Close(t, d)
      \/ \E t \in Thread : Lookup(t) \/ AddWaiter(t) \/ WaitAwoken(t) \/ WaitDeadline(t) \/ RemoveWaiter(t)
      \/ \E t \in Thread : DispatcherClose(t)
      \/ \E t \in Thread : CloseImplNoLock(t)
      \/ \E t \in Thread, check \in Checks : WriteMessage(t, check)
      \/ \E t \in Thread, check \in Checks, fits, mayDiscard \in BOOLEAN :
            ReadMessage(t, check, fits, mayDiscard)
  BY DEF Next, Call, Step, GetDispatcher, WaitMany, vars
<1> QED
  BY <1>1, <1>4, <1>5, <1>6, <1>7, <1>8, <1>9

\* A successful wake-up is never spurious.
THEOREM WakeupsTruthful == Spec => WakeIsTruthful
<1>1. ASSUME IInv, [Next]_vars, NEW t \in Thread,
             ~awoken[t], awoken'[t], waitResult'[t] >= 0
      PROVE  LET i == waitResult'[t] + 1
                 d == handles[t][i]
             IN  flags[t][i] \cap SatisfiedFlags(queue'[d], isPeerOpen'[d]) # {}
  <2>1. ~WakesNobody
    <3>1. waitResult'[t] \in Int
      BY <1>1, NextIInv DEF IInv, TypeOK, WaiterTypeOK
    <3> QED
      BY <1>1, <3>1 DEF WakesNobody
  <2>2. PICK c \in Dispatcher : WakesRight(c)
    BY <1>1, <2>1, StepEffect
  <2>3. PICK e \in waiters[c] :
            /\ e.waiter = t /\ e.wake_result = waitResult'[t]
            /\ e.flags \cap SatisfiedFlags(queue'[c], isPeerOpen'[c]) # {}
    BY <1>1, <2>2 DEF WakesRight
  <2>4. handles[t][e.wake_result + 1] = c /\ flags[t][e.wake_result + 1] = e.flags
    BY <1>1, <2>3 DEF IInv, EntryInv
  <2> QED
    BY <2>3, <2>4
<1>2. IInv /\ [Next]_vars => [\A t \in Thread :
        (~awoken[t] /\ awoken'[t] /\ waitResult'[t] >= 0) =>
            LET i == waitResult'[t] + 1
                d == handles[t][i]
            IN  flags[t][i] \cap SatisfiedFlags(queue'[d], isPeerOpen'[d]) # {}]_vars
  BY <1>1
<1> QED
  BY <1>2, Invariance, PTL DEF Spec, WakeIsTruthful

\* MOJO_RESULT_FAILED_PRECONDITION is final.
THEOREM UnsatisfiableStays == Spec => UnsatisfiableForever
<1>1. ASSUME IInv, [Next]_vars, NEW c \in endpoint'
      PROVE  SatisfiableFlags(queue'[c], isPeerOpen'[c]) \subseteq
                SatisfiableFlags(queue[c], isPeerOpen[c])
  <2>0. c \in Dispatcher
    BY <1>1, NextIInv DEF IInv, TypeOK, PipeTypeOK
  <2> USE <1>1, <2>0 DEF IInv, TypeOK, PipeTypeOK, SatisfiableFlags
  <2>1. CASE Quiet
    BY <2>1 DEF Quiet
  <2>2. ASSUME NEW d \in Dispatcher, Sends(d)
        PROVE  SatisfiableFlags(queue'[c], isPeerOpen'[c]) \subseteq
                SatisfiableFlags(queue[c], isPeerOpen[c])
    <3>1. isPeerOpen[Peer(d)] /\ Peer(d) \in Dispatcher
      BY <2>2, PeerFacts DEF Sends, EndpointLifetime
    <3> QED
      BY <2>2, <3>1 DEF Sends
  <2>3. ASSUME NEW d \in Dispatcher, Takes(d)
        PROVE  SatisfiableFlags(queue'[c], isPeerOpen'[c]) \subseteq
                SatisfiableFlags(queue[c], isPeerOpen[c])
    BY <2>3 DEF Takes
  <2>4. ASSUME NEW d \in Dispatcher, Closes(d)
        PROVE  SatisfiableFlags(queue'[c], isPeerOpen'[c]) \subseteq
                SatisfiableFlags(queue[c], isPeerOpen[c])
    <3>1. queue'[c] = queue[c]
      BY <2>4 DEF Closes
    <3>2. isPeerOpen'[c] => isPeerOpen[c]
      BY <2>4 DEF Closes
    <3> QED
      BY <3>1, <3>2
  <2> QED
    BY <2>1, <2>2, <2>3, <2>4, StepEffect
<1>2. IInv /\ [Next]_vars => [\A d \in endpoint' :
        SatisfiableFlags(queue'[d], isPeerOpen'[d]) \subseteq
            SatisfiableFlags(queue[d], isPeerOpen[d])]_vars
  BY <1>1
<1> QED
  BY <1>2, Invariance, PTL DEF Spec, UnsatisfiableForever

-----------------------------------------------------------------------------
(* Refinement *)

\* The endpoints that tell their reader that nothing more will come.
Ended == {d \in endpoint : ~isPeerOpen[d] /\ queue[d] = <<>>}

\* An endpoint says so only when its peer is gone and all it sent has been taken.
EndedIsTrue == \A d \in Ended : Peer(d) \notin endpoint /\ taken[d] = sent[Peer(d)]

\* What EndedIsTrue says follows from the invariant.
LEMMA EndedFacts == IInv => EndedIsTrue
<1> SUFFICES ASSUME IInv, NEW d \in Ended
             PROVE  Peer(d) \notin endpoint /\ taken[d] = sent[Peer(d)]
  BY DEF EndedIsTrue
<1> USE DEF IInv, TypeOK
<1>1. /\ d \in endpoint /\ ~isPeerOpen[d] /\ queue[d] = <<>>
      /\ d \in Dispatcher /\ Peer(d) \in Dispatcher
  BY PeerFacts DEF Ended, PipeTypeOK
<1>2. Peer(d) \notin endpoint
  BY <1>1 DEF EndpointLifetime
<1>3. /\ taken[d] \in Nat /\ sent[Peer(d)] \in Nat /\ taken[d] <= sent[Peer(d)]
      /\ UpTo(taken[d], sent[Peer(d)]) = <<>>
  BY <1>1 DEF CountInv, FifoExactlyOnce, UpTo, PipeTypeOK
<1>4. Len(UpTo(taken[d], sent[Peer(d)])) = sent[Peer(d)] - taken[d]
  BY <1>3, UpToIsSeq
<1>5. sent[Peer(d)] - taken[d] = 0
  BY <1>3, <1>4, EmptySeq
<1> QED
  BY <1>1, <1>2, <1>3, <1>5

\* It never takes that back.
LEMMA EndedStays ==
    ASSUME IInv, [Next]_vars
    PROVE  Ended \cap endpoint' \subseteq Ended'
<1> USE DEF IInv, TypeOK, PipeTypeOK
<1> SUFFICES ASSUME NEW c \in Ended, c \in endpoint'
             PROVE  ~isPeerOpen'[c] /\ queue'[c] = <<>>
  BY DEF Ended
<1>1. c \in endpoint /\ ~isPeerOpen[c] /\ queue[c] = <<>> /\ c \in Dispatcher
  BY DEF Ended
<1>2. Peer(c) \notin endpoint
  BY EndedFacts DEF EndedIsTrue
<1>3. CASE Quiet
  BY <1>1, <1>3 DEF Quiet
<1>4. ASSUME NEW d \in Dispatcher, Sends(d) \/ Takes(d) \/ Closes(d)
      PROVE  ~isPeerOpen'[c] /\ queue'[c] = <<>>
  <2>1. CASE Sends(d)
    <3>1. Peer(d) # c
      BY <1>2, <2>1, PeerFacts DEF Sends
    <3> QED
      BY <1>1, <2>1, <3>1 DEF Sends
  <2>2. CASE Takes(d)
    BY <1>1, <2>2 DEF Takes
  <2>3. CASE Closes(d)
    <3>1. queue'[c] = <<>>
      BY <1>1, <2>3 DEF Closes
    <3>2. ~isPeerOpen'[c]
      BY <1>1, <2>3 DEF Closes
    <3> QED
      BY <3>1, <3>2
  <2> QED
    BY <1>4, <2>1, <2>2, <2>3
<1> QED
  BY <1>3, <1>4, StepEffect

\* A pipe between two threads of one process keeps the contract of message pipes.
THEOREM Refinement == Spec => ImplementsContract
<1>1. Init => Contract!Init
  BY DEF Init, Contract!Init
<1>2. ASSUME IInv, IInv', EndedIsTrue', [Next]_vars
      PROVE  [Contract!Next]_(Contract!vars)
  <2>1. Contract!Tell
    <3>1. Ended \cap endpoint' \subseteq Ended'
      BY <1>2, EndedStays
    <3>2. ASSUME NEW e \in Ended'
          PROVE  /\ e \in endpoint' /\ Peer(e) \notin endpoint' /\ taken'[e] = sent'[Peer(e)]
                 /\ e \in Dispatcher
      BY <1>2 DEF EndedIsTrue, Ended, IInv, TypeOK, PipeTypeOK
    <3> QED
      BY <3>1, <3>2 DEF Contract!Tell, Ended
  <2>2. CASE Quiet
    BY <2>1, <2>2 DEF Quiet, Contract!Next
  <2>3. ASSUME NEW d \in Dispatcher, Sends(d)
        PROVE  Contract!Send(d)
    BY <2>3 DEF Sends, Contract!Send
  <2>4. ASSUME NEW d \in Dispatcher, Takes(d)
        PROVE  Contract!Receive(d)
    <3>1. /\ taken[d] \in Nat /\ sent[Peer(d)] \in Nat /\ taken[d] <= sent[Peer(d)]
          /\ UpTo(taken[d], sent[Peer(d)]) # <<>>
      BY <1>2, <2>4, PeerFacts
         DEF IInv, TypeOK, PipeTypeOK, CountInv, FifoExactlyOnce, UpTo, Takes
    <3>2. taken[d] < sent[Peer(d)]
      BY <3>1, TailUpTo
    <3> QED
      BY <2>4, <3>2 DEF Takes, Contract!Receive
  <2>5. ASSUME NEW d \in Dispatcher, Closes(d)
        PROVE  Contract!Close(d)
    BY <2>5 DEF Closes, Contract!Close
  <2> QED
    BY <1>2, <2>1, <2>2, <2>3, <2>4, <2>5, StepEffect DEF Contract!Next
<1> QED
  BY <1>1, <1>2, EndedFacts, NextIInv, Invariance, PTL DEF Spec, ImplementsContract, Contract!Spec
=============================================================================
