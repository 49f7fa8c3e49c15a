---------------------------- MODULE MessagePipe ----------------------------
(***************************************************************************)
(* Mojo message pipes whose two ends live in one process, and the threads  *)
(* that write, read, close and wait on them (mojo/system).                 *)
(*                                                                         *)
(* A dispatcher is a pair <<pipe, port>>; it has one handle, so `table'    *)
(* (the handles still in CoreImpl::handle_table_) is a set of dispatchers. *)
(* A step is one critical section.  Dispatcher::lock_ is a variable        *)
(* because Close() keeps it across two sections of MessagePipe::lock_;     *)
(* every other operation of a dispatcher takes MessagePipe::lock_ once and *)
(* is one step, enabled when the dispatcher's lock is free.                *)
(***************************************************************************)
EXTENDS Integers, Sequences

CONSTANTS
    Thread,         \* threads that call the Mojo primitives
    Pipe,           \* message pipes
    NoThread,       \* "this lock is free"
    MaxMessages,    \* bound: no write begins once a dispatcher has sent this many
    WaitFlags,      \* the wait flags the callers use
    MaxWaitHandles  \* kMaxWaitManyNumHandles

ASSUME ConstantsAssumption ==
    /\ NoThread \notin Thread
    /\ WaitFlags \subseteq SUBSET {"readable", "writable"}
    /\ MaxMessages \in Nat
    /\ MaxWaitHandles \in Nat \ {0}

Dispatcher == Pipe \X {0, 1}

\* The other end of the pipe (GetPeerPort).
Peer(d) == <<d[1], 1 - d[2]>>

\* |MojoResult|: non-negative values are success codes.
MOJO_RESULT_OK == 0
MOJO_RESULT_CANCELLED == -1
MOJO_RESULT_INVALID_ARGUMENT == -3
MOJO_RESULT_DEADLINE_EXCEEDED == -4
MOJO_RESULT_NOT_FOUND == -5
MOJO_RESULT_ALREADY_EXISTS == -6
MOJO_RESULT_RESOURCE_EXHAUSTED == -8
MOJO_RESULT_FAILED_PRECONDITION == -9
MOJO_RESULT_INTERNAL == -13

READABLE == "readable"
WRITABLE == "writable"
MojoWaitFlags == SUBSET {READABLE, WRITABLE}

VARIABLES
    table,       \* handles present in CoreImpl::handle_table_
    lock,        \* holder of Dispatcher::lock_ between two steps
    isClosed,    \* Dispatcher::is_closed_
    endpoint,    \* dispatchers whose MessagePipe::endpoints_[port] is not null
    isPeerOpen,  \* LocalMessagePipeEndpoint::is_peer_open_
    queue,       \* LocalMessagePipeEndpoint::message_queue_
    waiters,     \* LocalMessagePipeEndpoint::waiter_list_
    sent,        \* history: messages successfully written through a dispatcher
    taken,       \* history: messages popped from an endpoint's queue
    awoken,      \* Waiter::awoken_ of the thread's current Waiter
    waitResult,  \* Waiter::wait_result_
    pc,          \* where the thread is inside its current call
    handles,     \* the handles the call was given
    flags,       \* the wait flags the call was given
    timed,       \* the call has a finite deadline
    idx,         \* loop index (1-based) of WaitManyInternal
    added,       \* num_added of WaitManyInternal
    rv           \* result of the call

pipeVars == <<table, lock, isClosed, endpoint, isPeerOpen, queue, sent, taken>>
waiterVars == <<waiters, awoken, waitResult>>
callVars == <<handles, flags, timed, idx, added>>
vars == <<pipeVars, waiterVars, callVars, pc, rv>>

(***************************************************************************)
(* A waiter list entry.  std::list keeps the entries in the order they     *)
(* were added; only the order of one waiter's own entries can be observed, *)
(* and that is the order of wake_result, so the list is a set.             *)
(***************************************************************************)
WaiterInfo == [waiter : Thread, flags : MojoWaitFlags, wake_result : 0..(MaxWaitHandles - 1)]

PCs == {"idle", "write", "read", "close", "closing", "lookup", "add", "wait", "remove"}

Init ==
    /\ table = Dispatcher
    /\ lock = [d \in Dispatcher |-> NoThread]
    /\ isClosed = [d \in Dispatcher |-> FALSE]
    /\ endpoint = Dispatcher
    /\ isPeerOpen = [d \in Dispatcher |-> TRUE]
    /\ queue = [d \in Dispatcher |-> <<>>]
    /\ waiters = [d \in Dispatcher |-> {}]
    /\ sent = [d \in Dispatcher |-> 0]
    /\ taken = [d \in Dispatcher |-> 0]
    /\ awoken = [t \in Thread |-> FALSE]
    /\ waitResult = [t \in Thread |-> MOJO_RESULT_INTERNAL]
    /\ pc = [t \in Thread |-> "idle"]
    /\ handles = [t \in Thread |-> <<>>]
    /\ flags = [t \in Thread |-> <<>>]
    /\ timed = [t \in Thread |-> FALSE]
    /\ idx = [t \in Thread |-> 1]
    /\ added = [t \in Thread |-> 0]
    /\ rv = [t \in Thread |-> MOJO_RESULT_OK]

-----------------------------------------------------------------------------
(* Waiter and WaiterList *)

SatisfiedFlags(q, peerOpen) ==
    (IF q # <<>> THEN {READABLE} ELSE {}) \cup (IF peerOpen THEN {WRITABLE} ELSE {})

\* Fault: an empty queue is taken for one that stays empty.
SatisfiableFlagsNow(q, peerOpen) ==
    (IF q # <<>> THEN {READABLE} ELSE {}) \cup (IF peerOpen THEN {WRITABLE} ELSE {})

SatisfiableFlags(q, peerOpen) ==
    (IF q # <<>> \/ peerOpen THEN {READABLE} ELSE {})
        \cup (IF peerOpen THEN {WRITABLE} ELSE {})

\* The entries AwakeWaitersForStateChange calls Awake() for.
Triggered(list, satisfied, satisfiable) ==
    {e \in list : e.flags \cap satisfied # {} \/ e.flags \cap satisfiable = {}}

\* Only the first Awake() of a Waiter counts: the entry added first wins.
FirstOf(entries, t) ==
    CHOOSE e \in entries :
        /\ e.waiter = t
        /\ \A f \in entries : f.waiter = t => e.wake_result <= f.wake_result

\* Fault: a waiter that can no longer be satisfied is told it is.
WakeResultAlways(e, satisfied) == e.wake_result

WakeResult(e, satisfied) ==
    IF e.flags \cap satisfied # {} THEN e.wake_result ELSE MOJO_RESULT_FAILED_PRECONDITION

\* The threads in `woken' get Awake(result[t]); one already awoken keeps its result.
Awake(woken, result(_)) ==
    /\ awoken' = [t \in Thread |-> awoken[t] \/ t \in woken]
    /\ waitResult' = [t \in Thread |->
            IF t \in woken /\ ~awoken[t] THEN result(t) ELSE waitResult[t]]

AwakeWaitersForStateChange(d, q, peerOpen) ==
    LET satisfied == SatisfiedFlags(q, peerOpen)
        hit == Triggered(waiters[d], satisfied, SatisfiableFlags(q, peerOpen))
        Result(t) == WakeResult(FirstOf(hit, t), satisfied)
    IN  Awake({e.waiter : e \in hit}, Result)

\* Fault: the list is cleared and nobody is told.
CancelAllWaitersSilently(d) ==
    /\ waiters' = [waiters EXCEPT ![d] = {}]
    /\ UNCHANGED <<awoken, waitResult>>

CancelAllWaiters(d) ==
    LET Cancelled(t) == MOJO_RESULT_CANCELLED
    IN  /\ Awake({e.waiter : e \in waiters[d]}, Cancelled)
        /\ waiters' = [waiters EXCEPT ![d] = {}]

-----------------------------------------------------------------------------
(* Calls and returns *)

Return(t, result) ==
    /\ pc' = [pc EXCEPT ![t] = "idle"]
    /\ rv' = [rv EXCEPT ![t] = result]
    /\ handles' = [handles EXCEPT ![t] = <<>>]
    /\ flags' = [flags EXCEPT ![t] = <<>>]
    /\ timed' = [timed EXCEPT ![t] = FALSE]
    /\ idx' = [idx EXCEPT ![t] = 1]
    /\ added' = [added EXCEPT ![t] = 0]

GoTo(t, label) == pc' = [pc EXCEPT ![t] = label]

\* WaitManyInternal returns: its Waiter, a local variable, is gone.
EndWait(t, result) ==
    /\ Return(t, result)
    /\ awoken' = [awoken EXCEPT ![t] = FALSE]
    /\ waitResult' = [waitResult EXCEPT ![t] = MOJO_RESULT_INTERNAL]

\* A call on handle d goes on past the handle table.
Enter(t, d, label) ==
    /\ GoTo(t, label)
    /\ handles' = [handles EXCEPT ![t] = <<d>>]
    /\ rv' = [rv EXCEPT ![t] = MOJO_RESULT_OK]
    /\ UNCHANGED <<flags, timed, idx, added>>

\* CoreImpl::GetDispatcher() at the head of WriteMessage and ReadMessage.
GetDispatcher(t, d, label) ==
    /\ pc[t] = "idle"
    /\ \/ /\ d \notin table
          /\ Return(t, MOJO_RESULT_INVALID_ARGUMENT)
       \/ /\ d \in table
          /\ Enter(t, d, label)
    /\ UNCHANGED <<pipeVars, waiterVars>>

-----------------------------------------------------------------------------
(* Closing *)

\* CoreImpl::Close: the handle leaves the table before the dispatcher is told.
Close(t, d) ==
    /\ pc[t] = "idle"
    /\ \/ /\ d \notin table
          /\ Return(t, MOJO_RESULT_INVALID_ARGUMENT)
          /\ UNCHANGED table
       \/ /\ d \in table
          /\ table' = table \ {d}
          /\ Enter(t, d, "close")
    /\ UNCHANGED <<lock, isClosed, endpoint, isPeerOpen, queue, sent, taken, waiterVars>>

\* Dispatcher::Close up to and including CancelAllWaitersNoLock.
DispatcherClose(t) ==
    LET d == handles[t][1] IN
    /\ pc[t] = "close"
    /\ lock[d] = NoThread
    /\ \/ /\ isClosed[d]
          /\ Return(t, MOJO_RESULT_INVALID_ARGUMENT)
          /\ UNCHANGED <<lock, isClosed, waiterVars>>
       \/ /\ ~isClosed[d]
          /\ lock' = [lock EXCEPT ![d] = t]
          /\ isClosed' = [isClosed EXCEPT ![d] = TRUE]
          /\ CancelAllWaiters(d)
          /\ GoTo(t, "closing")
          /\ UNCHANGED <<callVars, rv>>
    /\ UNCHANGED <<table, endpoint, isPeerOpen, queue, sent, taken>>

\* Fault: waiters hear of the peer's end, the endpoint forgets it.
OnPeerCloseForgotten(d) ==
    /\ IF d \in endpoint THEN AwakeWaitersForStateChange(d, queue[d], FALSE)
                         ELSE UNCHANGED <<awoken, waitResult>>
    /\ UNCHANGED isPeerOpen

\* LocalMessagePipeEndpoint::OnPeerClose on endpoint d, if it still exists.
OnPeerClose(d) ==
    IF d \in endpoint
    THEN LET q == queue[d] IN
         /\ isPeerOpen' = [isPeerOpen EXCEPT ![d] = FALSE]
         /\ IF \/ SatisfiedFlags(q, isPeerOpen[d]) # SatisfiedFlags(q, FALSE)
               \/ SatisfiableFlags(q, isPeerOpen[d]) # SatisfiableFlags(q, FALSE)
            THEN AwakeWaitersForStateChange(d, q, FALSE)
            ELSE UNCHANGED <<awoken, waitResult>>
    ELSE UNCHANGED <<isPeerOpen, awoken, waitResult>>

\* Fault: the messages the closed end has sent are destroyed with it.
CloseImplUnsent(t) ==
    LET d == handles[t][1] IN
    /\ pc[t] = "closing"
    /\ endpoint' = endpoint \ {d}
    /\ queue' = [queue EXCEPT ![Peer(d)] = <<>>]
    /\ OnPeerClose(Peer(d))
    /\ lock' = [lock EXCEPT ![d] = NoThread]
    /\ Return(t, MOJO_RESULT_OK)
    /\ UNCHANGED <<table, isClosed, sent, taken, waiters>>

\* CloseImplNoLock: MessagePipe::Close(port), then Dispatcher::lock_ is released.
CloseImplNoLock(t) ==
    LET d == handles[t][1] IN
    /\ pc[t] = "closing"
    /\ endpoint' = endpoint \ {d}
    /\ queue' = [queue EXCEPT ![d] = <<>>]
    /\ OnPeerClose(Peer(d))
    /\ lock' = [lock EXCEPT ![d] = NoThread]
    /\ Return(t, MOJO_RESULT_OK)
    /\ UNCHANGED <<table, isClosed, sent, taken, waiters>>

-----------------------------------------------------------------------------
(* Writing and reading *)

\* Fault: push_front.
EnqueueMessageAtFront(d, message) ==
    LET q == <<message>> \o queue[d] IN
    /\ queue' = [queue EXCEPT ![d] = q]
    /\ AwakeWaitersForStateChange(d, q, isPeerOpen[d])

\* LocalMessagePipeEndpoint::EnqueueMessage: waiters are told only of the first message.
EnqueueMessage(d, message) ==
    LET q == Append(queue[d], message) IN
    /\ queue' = [queue EXCEPT ![d] = q]
    /\ IF queue[d] = <<>>
       THEN AwakeWaitersForStateChange(d, q, isPeerOpen[d])
       ELSE UNCHANGED <<awoken, waitResult>>

\* `check' is the outcome of validating the caller's pointer and size.
WriteMessage(t, check) ==
    LET d == handles[t][1] IN
    /\ pc[t] = "write"
    /\ lock[d] = NoThread
    /\ \/ /\ isClosed[d]
          /\ Return(t, MOJO_RESULT_INVALID_ARGUMENT)
          /\ UNCHANGED <<queue, sent, awoken, waitResult>>
       \/ /\ ~isClosed[d] /\ check # MOJO_RESULT_OK
          /\ Return(t, check)
          /\ UNCHANGED <<queue, sent, awoken, waitResult>>
       \/ /\ ~isClosed[d] /\ check = MOJO_RESULT_OK
          /\ Peer(d) \notin endpoint
          /\ Return(t, MOJO_RESULT_FAILED_PRECONDITION)
          /\ UNCHANGED <<queue, sent, awoken, waitResult>>
       \/ /\ ~isClosed[d] /\ check = MOJO_RESULT_OK
          /\ Peer(d) \in endpoint
          /\ EnqueueMessage(Peer(d), sent[d] + 1)
          /\ sent' = [sent EXCEPT ![d] = @ + 1]
          /\ Return(t, MOJO_RESULT_OK)
    /\ UNCHANGED <<table, lock, isClosed, endpoint, isPeerOpen, taken, waiters>>

\* pop_front; an emptied queue is a state change for the waiters.
PopMessage(d) ==
    /\ queue' = [queue EXCEPT ![d] = Tail(@)]
    /\ taken' = [taken EXCEPT ![d] = @ + 1]
    /\ IF Tail(queue[d]) = <<>>
       THEN AwakeWaitersForStateChange(d, <<>>, isPeerOpen[d])
       ELSE UNCHANGED <<awoken, waitResult>>

\* `fits': the message is no larger than the caller's buffer.
\* `mayDiscard': MOJO_READ_MESSAGE_FLAG_MAY_DISCARD.
ReadMessage(t, check, fits, mayDiscard) ==
    LET d == handles[t][1] IN
    /\ pc[t] = "read"
    /\ lock[d] = NoThread
    /\ \/ /\ isClosed[d]
          /\ Return(t, MOJO_RESULT_INVALID_ARGUMENT)
          /\ UNCHANGED <<queue, taken, awoken, waitResult>>
       \/ /\ ~isClosed[d] /\ check # MOJO_RESULT_OK
          /\ Return(t, check)
          /\ UNCHANGED <<queue, taken, awoken, waitResult>>
       \/ /\ ~isClosed[d] /\ check = MOJO_RESULT_OK /\ queue[d] = <<>>
          /\ Return(t, IF isPeerOpen[d] THEN MOJO_RESULT_NOT_FOUND
                                        ELSE MOJO_RESULT_FAILED_PRECONDITION)
          /\ UNCHANGED <<queue, taken, awoken, waitResult>>
       \/ /\ ~isClosed[d] /\ check = MOJO_RESULT_OK /\ queue[d] # <<>>
          /\ IF fits \/ mayDiscard THEN PopMessage(d)
                                   ELSE UNCHANGED <<queue, taken, awoken, waitResult>>
          /\ Return(t, IF fits THEN MOJO_RESULT_OK ELSE MOJO_RESULT_RESOURCE_EXHAUSTED)
    /\ UNCHANGED <<table, lock, isClosed, endpoint, isPeerOpen, sent, waiters>>

-----------------------------------------------------------------------------
(* Waiting *)

\* CoreImpl::Wait (one handle) and CoreImpl::WaitMany.
WaitMany(t, hs, fs, finite) ==
    /\ pc[t] = "idle"
    /\ IF Len(hs) < 1
       THEN Return(t, MOJO_RESULT_INVALID_ARGUMENT)
       ELSE IF Len(hs) > MaxWaitHandles
       THEN Return(t, MOJO_RESULT_RESOURCE_EXHAUSTED)
       ELSE /\ GoTo(t, "lookup")
            /\ handles' = [handles EXCEPT ![t] = hs]
            /\ flags' = [flags EXCEPT ![t] = fs]
            /\ timed' = [timed EXCEPT ![t] = finite]
            /\ rv' = [rv EXCEPT ![t] = MOJO_RESULT_OK]
            /\ UNCHANGED <<idx, added>>
    /\ UNCHANGED <<pipeVars, waiterVars>>

\* The GetDispatcher() loop of WaitManyInternal, then Waiter::Init().
Lookup(t) ==
    /\ pc[t] = "lookup"
    /\ \/ /\ handles[t][idx[t]] \notin table
          /\ Return(t, MOJO_RESULT_INVALID_ARGUMENT)
          /\ UNCHANGED <<awoken, waitResult>>
       \/ /\ handles[t][idx[t]] \in table /\ idx[t] < Len(handles[t])
          /\ idx' = [idx EXCEPT ![t] = @ + 1]
          /\ UNCHANGED <<pc, rv, handles, flags, timed, added, awoken, waitResult>>
       \/ /\ handles[t][idx[t]] \in table /\ idx[t] = Len(handles[t])
          /\ idx' = [idx EXCEPT ![t] = 1]
          /\ awoken' = [awoken EXCEPT ![t] = FALSE]
          /\ waitResult' = [waitResult EXCEPT ![t] = MOJO_RESULT_INTERNAL]
          /\ GoTo(t, "add")
          /\ UNCHANGED <<rv, handles, flags, timed, added>>
    /\ UNCHANGED <<pipeVars, waiters>>

\* Fault: the wait flags may be satisfied already.
AddWaiterResultLate(d, f) ==
    IF isClosed[d] THEN MOJO_RESULT_INVALID_ARGUMENT
    ELSE IF f \cap SatisfiableFlags(queue[d], isPeerOpen[d]) = {}
    THEN MOJO_RESULT_FAILED_PRECONDITION
    ELSE MOJO_RESULT_OK

\* What Dispatcher::AddWaiter answers for dispatcher d and wait flags f.
AddWaiterResult(d, f) ==
    IF isClosed[d] THEN MOJO_RESULT_INVALID_ARGUMENT
    ELSE IF f \cap SatisfiedFlags(queue[d], isPeerOpen[d]) # {}
    THEN MOJO_RESULT_ALREADY_EXISTS
    ELSE IF f \cap SatisfiableFlags(queue[d], isPeerOpen[d]) = {}
    THEN MOJO_RESULT_FAILED_PRECONDITION
    ELSE MOJO_RESULT_OK

\* Fault: num_added is one short.
StartRemoveAllButLast(t, n, result) ==
    IF n <= 1
    THEN EndWait(t, result)
    ELSE /\ GoTo(t, "remove")
         /\ rv' = [rv EXCEPT ![t] = result]
         /\ idx' = [idx EXCEPT ![t] = 1]
         /\ added' = [added EXCEPT ![t] = n - 1]
         /\ UNCHANGED <<handles, flags, timed, awoken, waitResult>>

\* Leave the wait with `result': the waiter must be removed from n dispatchers.
StartRemove(t, n, result) ==
    IF n = 0
    THEN EndWait(t, result)
    ELSE /\ GoTo(t, "remove")
         /\ rv' = [rv EXCEPT ![t] = result]
         /\ idx' = [idx EXCEPT ![t] = 1]
         /\ added' = [added EXCEPT ![t] = n]
         /\ UNCHANGED <<handles, flags, timed, awoken, waitResult>>

\* Fault: the result counts handles from one.
NewWaiterInfoFromOne(t, i) == [waiter |-> t, flags |-> flags[t][i], wake_result |-> i]

\* A success result is the 0-based index of the handle.
NewWaiterInfo(t, i) == [waiter |-> t, flags |-> flags[t][i], wake_result |-> i - 1]

AddWaiter(t) ==
    LET i == idx[t]
        d == handles[t][i]
        r == AddWaiterResult(d, flags[t][i])
    IN
    /\ pc[t] = "add"
    /\ lock[d] = NoThread
    /\ \/ /\ r = MOJO_RESULT_OK
          /\ waiters' = [waiters EXCEPT ![d] = @ \cup {NewWaiterInfo(t, i)}]
          /\ idx' = [idx EXCEPT ![t] = i + 1]
          /\ IF i = Len(handles[t]) THEN GoTo(t, "wait") ELSE UNCHANGED pc
          /\ UNCHANGED <<rv, handles, flags, timed, added, awoken, waitResult>>
       \/ /\ r = MOJO_RESULT_ALREADY_EXISTS
          /\ StartRemove(t, i - 1, i - 1)
          /\ UNCHANGED waiters
       \/ /\ r \notin {MOJO_RESULT_OK, MOJO_RESULT_ALREADY_EXISTS}
          /\ StartRemove(t, i - 1, r)
          /\ UNCHANGED waiters
    /\ UNCHANGED pipeVars

\* Waiter::Wait returns because the waiter has been awoken ...
WaitAwoken(t) ==
    /\ pc[t] = "wait"
    /\ awoken[t]
    /\ StartRemove(t, Len(handles[t]), waitResult[t])
    /\ UNCHANGED <<pipeVars, waiters>>

\* ... or because its deadline has passed.
WaitDeadline(t) ==
    /\ pc[t] = "wait"
    /\ ~awoken[t] /\ timed[t]
    /\ StartRemove(t, Len(handles[t]), MOJO_RESULT_DEADLINE_EXCEEDED)
    /\ UNCHANGED <<pipeVars, waiters>>

\* Dispatcher::RemoveWaiter: every entry of the waiter goes, unless the
\* dispatcher was closed (its list was then emptied by CancelAllWaiters).
RemoveWaiter(t) ==
    LET d == handles[t][idx[t]] IN
    /\ pc[t] = "remove"
    /\ lock[d] = NoThread
    /\ waiters' = IF isClosed[d] THEN waiters
                  ELSE [waiters EXCEPT ![d] = {e \in @ : e.waiter # t}]
    /\ IF idx[t] = added[t]
       THEN EndWait(t, rv[t])
       ELSE /\ idx' = [idx EXCEPT ![t] = @ + 1]
            /\ UNCHANGED <<pc, rv, handles, flags, timed, added, awoken, waitResult>>
    /\ UNCHANGED pipeVars

-----------------------------------------------------------------------------
Checks == {MOJO_RESULT_OK, MOJO_RESULT_INVALID_ARGUMENT, MOJO_RESULT_RESOURCE_EXHAUSTED}

\* One step of a call that has begun.
Step(t) ==
    \/ DispatcherClose(t)
    \/ CloseImplNoLock(t)
    \/ \E check \in Checks : WriteMessage(t, check)
    \/ \E check \in Checks \ {MOJO_RESULT_RESOURCE_EXHAUSTED}, fits, mayDiscard \in BOOLEAN :
            ReadMessage(t, check, fits, mayDiscard)
    \/ Lookup(t)
    \/ AddWaiter(t)
    \/ WaitAwoken(t)
    \/ RemoveWaiter(t)

\* A thread outside any call makes one.
Call(t) ==
    \/ \E d \in Dispatcher : Close(t, d)
    \/ \E d \in Dispatcher : sent[d] < MaxMessages /\ GetDispatcher(t, d, "write")
    \/ \E d \in Dispatcher : GetDispatcher(t, d, "read")
    \/ \E n \in 0..(MaxWaitHandles + 1) : \E hs \in [1..n -> Dispatcher] :
            \E fs \in [1..n -> WaitFlags], finite \in BOOLEAN :
                WaitMany(t, hs, fs, finite)

Next == \E t \in Thread : Call(t) \/ Step(t) \/ WaitDeadline(t)

\* Every thread inside a call is eventually scheduled; nothing obliges an
\* application to make a call, and a deadline may be arbitrarily far away.
Fairness == \A t \in Thread : WF_vars(Step(t))

Spec == Init /\ [][Next]_vars /\ Fairness

-----------------------------------------------------------------------------
(* Properties *)

PipeTypeOK ==
    /\ table \in SUBSET Dispatcher
    /\ lock \in [Dispatcher -> Thread \cup {NoThread}]
    /\ isClosed \in [Dispatcher -> BOOLEAN]
    /\ endpoint \in SUBSET Dispatcher
    /\ isPeerOpen \in [Dispatcher -> BOOLEAN]
    /\ queue \in [Dispatcher -> Seq(Nat)]
    /\ sent \in [Dispatcher -> Nat]
    /\ taken \in [Dispatcher -> Nat]

WaiterTypeOK ==
    /\ waiters \in [Dispatcher -> SUBSET WaiterInfo]
    /\ awoken \in [Thread -> BOOLEAN]
    /\ waitResult \in [Thread -> Int]

CallTypeOK ==
    /\ pc \in [Thread -> PCs]
    /\ handles \in [Thread -> Seq(Dispatcher)]
    /\ flags \in [Thread -> Seq(MojoWaitFlags)]
    /\ timed \in [Thread -> BOOLEAN]
    /\ idx \in [Thread -> Nat \ {0}]
    /\ added \in [Thread -> Nat]
    /\ rv \in [Thread -> Int]

\* Every variable of the model stays within its type.
TypeOK == PipeTypeOK /\ WaiterTypeOK /\ CallTypeOK

\* No wake-up is lost: a waiter still registered with an endpoint and not yet
\* awoken waits for a state the endpoint is not in but can still reach
\* (AwakeWaitersForStateChange is called on every change that matters although
\* EnqueueMessage skips it for a non-empty queue).
NoLostWakeup ==
    \A d \in Dispatcher : \A e \in waiters[d] :
        ~awoken[e.waiter] =>
            /\ e.flags \cap SatisfiedFlags(queue[d], isPeerOpen[d]) = {}
            /\ e.flags \cap SatisfiableFlags(queue[d], isPeerOpen[d]) # {}

\* A Waiter lives on the stack of WaitManyInternal: no list may point to it once
\* the call has returned, nor while it is removing itself, for the dispatchers it
\* has already removed itself from.
NoDanglingWaiter ==
    \A d \in Dispatcher : \A e \in waiters[d] :
        LET t == e.waiter IN
        /\ pc[t] \in {"add", "wait", "remove"}
        /\ \E i \in DOMAIN handles[t] :
            /\ handles[t][i] = d
            /\ pc[t] = "add" => i < idx[t]
            /\ pc[t] = "remove" => idx[t] <= i /\ i <= added[t]

\* The DCHECKs of MessagePipe and LocalMessagePipeEndpoint: a dispatcher that is
\* open, or that is inside CloseImplNoLock, has its endpoint; an endpoint believes
\* its peer open exactly as long as the peer's endpoint exists.
EndpointLifetime ==
    /\ \A d \in Dispatcher : ~isClosed[d] => d \in endpoint
    /\ \A t \in Thread : pc[t] = "closing" => handles[t][1] \in endpoint
    /\ \A d \in endpoint : isPeerOpen[d] <=> Peer(d) \in endpoint

\* While an endpoint exists, its queue holds exactly the messages written to it and
\* not yet popped, in the order of the writes: none is lost, repeated or reordered.
FifoExactlyOnce ==
    \A d \in endpoint :
        queue[d] = [k \in 1..(sent[Peer(d)] - taken[d]) |-> taken[d] + k]

\* Every pipe keeps the contract: see PipeContract.
Contract == INSTANCE PipeContract WITH
    End <- Dispatcher,
    PeerOf <- [d \in Dispatcher |-> Peer(d)],
    open <- endpoint,
    ended <- {d \in endpoint : ~isPeerOpen[d] /\ queue[d] = <<>>}
ImplementsContract == Contract!Spec

\* A successful wake-up is never spurious: when Awake() gives a waiter the index of
\* a handle, that handle satisfies the flags asked of it at that moment.
WakeIsTruthful ==
    [][\A t \in Thread :
        (~awoken[t] /\ awoken'[t] /\ waitResult'[t] >= 0) =>
            LET i == waitResult'[t] + 1
                d == handles[t][i]
            IN  flags[t][i] \cap SatisfiedFlags(queue'[d], isPeerOpen'[d]) # {}]_vars

\* MOJO_RESULT_FAILED_PRECONDITION is final: what an existing endpoint can no longer
\* satisfy it never satisfies later.
UnsatisfiableForever ==
    [][\A d \in endpoint' :
        SatisfiableFlags(queue'[d], isPeerOpen'[d]) \subseteq
            SatisfiableFlags(queue[d], isPeerOpen[d])]_vars

\* Closing a handle releases every thread that waits on it, with or without a deadline.
CloseReleasesWaiters ==
    \A t \in Thread :
        (pc[t] = "wait" /\ \E i \in DOMAIN handles[t] : isClosed[handles[t][i]])
            ~> (pc[t] = "idle")

\* A thread blocked on a handle that becomes readable, or whose peer is closed, returns.
ReadableReleasesWaiters ==
    \A t \in Thread :
        (/\ pc[t] = "wait"
         /\ \E i \in DOMAIN handles[t] :
                /\ READABLE \in flags[t][i]
                /\ queue[handles[t][i]] # <<>> \/ Peer(handles[t][i]) \notin endpoint)
            ~> (pc[t] = "idle")

\* A blocked wait ends once its handle is closed, becomes readable or loses its peer,
\* however close, write and wait interleave and whatever the other handles do.
BlockedWaitsReturn == CloseReleasesWaiters /\ ReadableReleasesWaiters
=============================================================================
