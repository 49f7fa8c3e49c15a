---------------------------- MODULE HandleTable ----------------------------
(***************************************************************************)
(* The global handle table of CoreImpl (mojo/system) and the dispatcher    *)
(* locks that MojoWriteMessage() takes when it is given handles to send.   *)
(*                                                                         *)
(* What is under handle_table_lock_ in the code is one step here.  What is *)
(* under Dispatcher::lock_ is two, taking the lock and using it, because   *)
(* WriteMessage tests other dispatchers' locks with Try().  What the       *)
(* dispatcher does under its lock is the subject of MessagePipe: here it   *)
(* only matters whether it is closed and has been given its pipe.          *)
(***************************************************************************)
EXTENDS Integers, Sequences, FiniteSets, Functions

CONSTANTS
    Thread,         \* threads that call the Mojo primitives
    NoThread,       \* "this lock is free"
    HandleSpace,    \* number of values of a MojoHandle (2^32 in the code)
    MaxTableSize,   \* kMaxHandleTableSize
    MaxMsgHandles,  \* kMaxMessageNumHandles
    MaxDispatchers  \* bound: dispatchers created in a behaviour

ASSUME ConstantsAssumption ==
    /\ NoThread \notin Thread
    /\ HandleSpace \in Nat /\ HandleSpace > 1
    /\ MaxTableSize \in Nat /\ MaxTableSize < HandleSpace
    /\ MaxMsgHandles \in Nat
    /\ MaxDispatchers \in Nat

MOJO_HANDLE_INVALID == 0
MojoHandle == 0..(HandleSpace - 1)

\* Dispatchers are numbered in the order of their creation.
Dispatcher == 1..MaxDispatchers
NoDispatcher == 0

VARIABLES
    entry,        \* handle_table_: the dispatcher of a handle, or NoDispatcher
    busy,         \* HandleTableEntry::busy
    nextHandle,   \* next_handle_
    created,      \* dispatchers created so far
    refused,      \* history: dispatchers whose CreateMessagePipe failed
    initialized,  \* MessagePipeDispatcher::message_pipe_ has been set
    isClosed,     \* Dispatcher::is_closed_
    lock,         \* holder of Dispatcher::lock_
    pc,           \* where the thread is in its call
    op,           \* what the call does to its dispatcher
    handle,       \* the handle the call was given
    ref,          \* the dispatcher the call refers to (scoped_refptr)
    sending,      \* WriteMessage's |handles|
    dispatchers   \* WriteMessage's |dispatchers|

tableVars == <<entry, busy, nextHandle>>
dispatcherVars == <<created, refused, initialized, isClosed, lock>>
callVars == <<op, handle, ref, sending, dispatchers>>
vars == <<tableVars, dispatcherVars, callVars, pc>>

InUse == {h \in MojoHandle : entry[h] # NoDispatcher}

PCs == {"idle", "init0", "init1", "mark", "call", "locked", "release", "unmark", "crashed"}

Init ==
    /\ entry = [h \in MojoHandle |-> NoDispatcher]
    /\ busy = [h \in MojoHandle |-> FALSE]
    /\ nextHandle = MOJO_HANDLE_INVALID + 1
    /\ created = 0
    /\ refused = {}
    /\ initialized = [d \in Dispatcher |-> FALSE]
    /\ isClosed = [d \in Dispatcher |-> FALSE]
    /\ lock = [d \in Dispatcher |-> NoThread]
    /\ pc = [t \in Thread |-> "idle"]
    /\ op = [t \in Thread |-> "use"]
    /\ handle = [t \in Thread |-> MOJO_HANDLE_INVALID]
    /\ ref = [t \in Thread |-> NoDispatcher]
    /\ sending = [t \in Thread |-> <<>>]
    /\ dispatchers = [t \in Thread |-> <<>>]

GoTo(t, label) == pc' = [pc EXCEPT ![t] = label]

\* The call returns and drops its reference.
Return(t) ==
    /\ GoTo(t, "idle")
    /\ op' = [op EXCEPT ![t] = "use"]
    /\ handle' = [handle EXCEPT ![t] = MOJO_HANDLE_INVALID]
    /\ ref' = [ref EXCEPT ![t] = NoDispatcher]
    /\ sending' = [sending EXCEPT ![t] = <<>>]
    /\ dispatchers' = [dispatchers EXCEPT ![t] = <<>>]

\* A call that has found its dispatcher d goes on at `label'.
Begin(t, label, what, h, d, hs) ==
    /\ GoTo(t, label)
    /\ op' = [op EXCEPT ![t] = what]
    /\ handle' = [handle EXCEPT ![t] = h]
    /\ ref' = [ref EXCEPT ![t] = d]
    /\ sending' = [sending EXCEPT ![t] = hs]
    /\ UNCHANGED dispatchers

-----------------------------------------------------------------------------
(* AddDispatcherNoLock and CreateMessagePipe *)

\* ++next_handle_ on a uint32_t, once more if that is the invalid handle.
Successor(h) == IF (h + 1) % HandleSpace = MOJO_HANDLE_INVALID THEN MOJO_HANDLE_INVALID + 1
                                                               ELSE (h + 1) % HandleSpace

\* Fault: the search for a free handle is left out.
NextFreeUnchecked(used, h) == h

\* Fault: the search does not step over the invalid handle.
NextFreeInvalidToo(used, h) ==
    LET Distance(g) == IF g >= h THEN g - h ELSE g + HandleSpace - h
    IN  CHOOSE g \in MojoHandle \ used : \A k \in MojoHandle \ used : Distance(g) <= Distance(k)

\* The handle at which the search from h ends: the first that is not in use.
NextFree(used, h) ==
    LET Distance(g) == IF g >= h THEN g - h ELSE g + HandleSpace - h
    IN  CHOOSE g \in MojoHandle \ ({MOJO_HANDLE_INVALID} \cup used) :
            \A k \in MojoHandle \ ({MOJO_HANDLE_INVALID} \cup used) : Distance(g) <= Distance(k)

TableFull(size) == size >= MaxTableSize

\* Two dispatchers are added under one acquisition of the table lock; when the
\* second does not fit the first is erased again, and both are destroyed.
CreateMessagePipe(t) ==
    LET d0 == created + 1
        d1 == created + 2
        h0 == NextFree(InUse, nextHandle)
        h1 == NextFree(InUse \cup {h0}, Successor(h0))
        size == Cardinality(InUse)
    IN
    /\ pc[t] = "idle"
    /\ d1 <= MaxDispatchers
    /\ created' = d1
    /\ \/ /\ TableFull(size)
          /\ refused' = refused \cup {d0, d1}
          /\ UNCHANGED <<entry, nextHandle, pc, callVars>>
       \/ /\ ~TableFull(size) /\ TableFull(size + 1)
          /\ nextHandle' = Successor(h0)
          /\ refused' = refused \cup {d0, d1}
          /\ UNCHANGED <<entry, pc, callVars>>
       \/ /\ ~TableFull(size) /\ ~TableFull(size + 1)
          /\ entry' = [entry EXCEPT ![h0] = d0, ![h1] = d1]
          /\ nextHandle' = Successor(h1)
          /\ Begin(t, "init0", "use", MOJO_HANDLE_INVALID, d0, <<>>)
          /\ UNCHANGED refused
    /\ UNCHANGED <<busy, initialized, isClosed, lock>>

\* MessagePipeDispatcher::Init on one dispatcher, then on the other: no lock is held.
InitDispatcher(t) ==
    /\ \/ /\ pc[t] = "init0"
          /\ initialized' = [initialized EXCEPT ![ref[t]] = TRUE]
          /\ Begin(t, "init1", "use", MOJO_HANDLE_INVALID, ref[t] + 1, <<>>)
       \/ /\ pc[t] = "init1"
          /\ initialized' = [initialized EXCEPT ![ref[t]] = TRUE]
          /\ Return(t)
    /\ UNCHANGED <<tableVars, created, refused, isClosed, lock>>

-----------------------------------------------------------------------------
(* Close, and the calls that only look a handle up *)

\* Fault: a handle that is being sent may be closed.
CloseBusyToo(t, h) ==
    /\ pc[t] = "idle"
    /\ entry[h] # NoDispatcher
    /\ entry' = [entry EXCEPT ![h] = NoDispatcher]
    /\ Begin(t, "call", "close", h, entry[h], <<>>)
    /\ UNCHANGED <<busy, nextHandle, dispatcherVars>>

\* MOJO_RESULT_INVALID_ARGUMENT for an unknown handle, MOJO_RESULT_BUSY for a busy one.
Close(t, h) ==
    /\ pc[t] = "idle"
    /\ \/ /\ entry[h] = NoDispatcher \/ busy[h]
          /\ UNCHANGED <<entry, pc, callVars>>
       \/ /\ entry[h] # NoDispatcher /\ ~busy[h]
          /\ entry' = [entry EXCEPT ![h] = NoDispatcher]
          /\ Begin(t, "call", "close", h, entry[h], <<>>)
    /\ UNCHANGED <<busy, nextHandle, dispatcherVars>>

\* GetDispatcher() at the head of WriteMessage, ReadMessage and WaitManyInternal.
GetDispatcher(t, h, hs) ==
    /\ pc[t] = "idle"
    /\ \/ /\ entry[h] = NoDispatcher \/ Len(hs) > MaxMsgHandles
          /\ UNCHANGED <<pc, callVars>>
       \/ /\ entry[h] # NoDispatcher /\ hs = <<>>
          /\ Begin(t, "call", "use", h, entry[h], <<>>)
       \/ /\ entry[h] # NoDispatcher /\ hs # <<>> /\ Len(hs) <= MaxMsgHandles
          /\ Begin(t, "mark", "write", h, entry[h], hs)
    /\ UNCHANGED <<tableVars, dispatcherVars>>

-----------------------------------------------------------------------------
(* WriteMessage with handles *)

\* The loop accepts the i-th handle: it is not the one written to, it exists, it is
\* not busy (nor made so by an earlier iteration), and Try() takes its lock.
CanSend(t, i) ==
    LET h == sending[t][i] IN
    /\ h # handle[t]
    /\ entry[h] # NoDispatcher
    /\ ~busy[h]
    /\ \A j \in 1..(i - 1) : sending[t][j] # h
    /\ lock[entry[h]] = NoThread

\* All handles are marked busy and their dispatchers locked, or none is: what was
\* done before the first refusal is undone under the same table lock.
MarkBusy(t) ==
    LET hs == sending[t] IN
    /\ pc[t] = "mark"
    /\ \/ /\ \E i \in DOMAIN hs : ~CanSend(t, i)
          /\ Return(t)
          /\ UNCHANGED <<busy, lock>>
       \/ /\ \A i \in DOMAIN hs : CanSend(t, i)
          /\ busy' = [h \in MojoHandle |-> busy[h] \/ h \in Range(hs)]
          /\ dispatchers' = [dispatchers EXCEPT ![t] = [i \in DOMAIN hs |-> entry[hs[i]]]]
          /\ lock' = [d \in Dispatcher |->
                        IF \E i \in DOMAIN hs : entry[hs[i]] = d THEN t ELSE lock[d]]
          /\ GoTo(t, "call")
          /\ UNCHANGED <<op, handle, ref, sending>>
    /\ UNCHANGED <<entry, nextHandle, created, refused, initialized, isClosed>>

\* Dispatcher::Close, WriteMessage, ... take the dispatcher's lock, and wait for it.
Acquire(t) ==
    /\ pc[t] = "call"
    /\ lock[ref[t]] = NoThread
    /\ lock' = [lock EXCEPT ![ref[t]] = t]
    /\ GoTo(t, "locked")
    /\ UNCHANGED <<tableVars, created, refused, initialized, isClosed, callVars>>

\* The ...ImplNoLock method and the release of the lock.  The pipe of a dispatcher that
\* is open but was not given it yet is dereferenced all the same, unless the call fails
\* before: for its arguments, or, when it sends handles, always (the result is then
\* MOJO_RESULT_UNIMPLEMENTED or an earlier error, whatever the dispatcher).
Operate(t) ==
    LET d == ref[t] IN
    /\ pc[t] = "locked"
    /\ \/ /\ ~isClosed[d] /\ ~initialized[d] /\ op[t] # "write"
          /\ GoTo(t, "crashed")
          /\ UNCHANGED <<isClosed, lock, callVars>>
       \/ /\ isClosed[d] \/ initialized[d] \/ op[t] # "close"
          /\ isClosed' = [isClosed EXCEPT ![d] = @ \/ op[t] = "close"]
          /\ lock' = [lock EXCEPT ![d] = NoThread]
          /\ IF op[t] = "write" THEN GoTo(t, "release") /\ UNCHANGED callVars
                                ELSE Return(t)
    /\ UNCHANGED <<tableVars, created, refused, initialized>>

\* The locks of the sent dispatchers are released outside the table lock ...
ReleaseLocks(t) ==
    /\ pc[t] = "release"
    /\ lock' = [d \in Dispatcher |-> IF d \in Range(dispatchers[t]) THEN NoThread ELSE lock[d]]
    /\ GoTo(t, "unmark")
    /\ UNCHANGED <<tableVars, created, refused, initialized, isClosed, callVars>>

\* ... and the handles, found again by their value, go back to their normal state.
ClearBusy(t) ==
    /\ pc[t] = "unmark"
    /\ busy' = [h \in MojoHandle |-> busy[h] /\ h \notin Range(sending[t])]
    /\ Return(t)
    /\ UNCHANGED <<entry, nextHandle, dispatcherVars>>

-----------------------------------------------------------------------------
SentHandles == UNION {[1..n -> MojoHandle] : n \in 0..(MaxMsgHandles + 1)}

Step(t) ==
    \/ CreateMessagePipe(t)
    \/ InitDispatcher(t)
    \/ \E h \in MojoHandle : Close(t, h)
    \/ \E h \in MojoHandle, hs \in SentHandles : GetDispatcher(t, h, hs)
    \/ MarkBusy(t)
    \/ Acquire(t)
    \/ Operate(t)
    \/ ReleaseLocks(t)
    \/ ClearBusy(t)

\* A crash ends the process.
Next == /\ \A t \in Thread : pc[t] # "crashed"
        /\ \E t \in Thread : Step(t)

Spec == Init /\ [][Next]_vars

-----------------------------------------------------------------------------
(* Properties *)

\* Every variable of the model stays within its type; in particular next_handle_ is
\* never MOJO_HANDLE_INVALID, also when it wraps around.
TypeOK ==
    /\ entry \in [MojoHandle -> Dispatcher \cup {NoDispatcher}]
    /\ busy \in [MojoHandle -> BOOLEAN]
    /\ nextHandle \in MojoHandle \ {MOJO_HANDLE_INVALID}
    /\ created \in 0..MaxDispatchers
    /\ refused \in SUBSET Dispatcher
    /\ initialized \in [Dispatcher -> BOOLEAN]
    /\ isClosed \in [Dispatcher -> BOOLEAN]
    /\ lock \in [Dispatcher -> Thread \cup {NoThread}]
    /\ pc \in [Thread -> PCs]
    /\ op \in [Thread -> {"use", "close", "write"}]
    /\ handle \in [Thread -> MojoHandle]
    /\ ref \in [Thread -> Dispatcher \cup {NoDispatcher}]
    /\ sending \in [Thread -> Seq(MojoHandle)]
    /\ dispatchers \in [Thread -> Seq(Dispatcher)]

\* WriteMessage is between marking the handles it sends and clearing the marks.
Sending(t) == op[t] = "write" /\ pc[t] \in {"call", "locked", "release", "unmark"}

\* A busy entry belongs to exactly one WriteMessage in progress, and each handle such
\* a call sends still leads to the dispatcher whose lock the call took: the entry was
\* neither closed nor reused (the DCHECKs of WriteMessage's last loop), although the
\* call holds only raw pointers and finds the entries again by handle value.
BusyEntriesOwned ==
    /\ \A h \in MojoHandle : busy[h] =>
            \E t \in Thread : /\ Sending(t) /\ h \in Range(sending[t])
                              /\ \A u \in Thread : Sending(u) /\ h \in Range(sending[u]) => u = t
    /\ \A t \in Thread : Sending(t) =>
            \A i \in DOMAIN sending[t] :
                /\ busy[sending[t][i]]
                /\ entry[sending[t][i]] = dispatchers[t][i]

\* The dispatchers a WriteMessage sends stay locked by it until it releases them
\* (lock().AssertAcquired()), and stay open while it holds them.
SentDispatchersHeld ==
    \A t \in Thread : Sending(t) /\ pc[t] # "unmark" =>
        \A d \in Range(dispatchers[t]) : lock[d] = t /\ ~isClosed[d]

\* What WriteMessage sends is its own from the marking of the handles to the clearing of
\* the marks, against every Close and WriteMessage of the other threads: the entries are
\* its, and the dispatchers behind them stay locked and open.
SentHandlesHeld == BusyEntriesOwned /\ SentDispatchersHeld

\* No dispatcher is dropped or shared by the table: one that was created and not
\* refused is reachable through exactly one handle until a Close takes it out, and
\* that Close still has to mark it closed, or has.
OneHandlePerDispatcher ==
    \A d \in 1..created : d \notin refused =>
        \/ \E h \in MojoHandle : /\ entry[h] = d /\ ~isClosed[d]
                                 /\ \A g \in MojoHandle : entry[g] = d => g = h
        \/ /\ \A h \in MojoHandle : entry[h] # d
           /\ isClosed[d] \/ \E t \in Thread : op[t] = "close" /\ ref[t] = d

\* The table never grows past kMaxHandleTableSize, and the invalid handle is never used.
TableWithinLimits ==
    /\ Cardinality(InUse) <= MaxTableSize
    /\ MOJO_HANDLE_INVALID \notin InUse

\* Two threads never wait for each other's dispatcher locks ("While holding a
\* |Dispatcher| lock, you may not unconditionally attempt to take another |Dispatcher|
\* lock ... Doing so would lead to deadlock").
NoLockCycle ==
    ~ \E t, u \in Thread :
        /\ t # u
        /\ pc[t] = "call" /\ lock[ref[t]] = u
        /\ pc[u] = "call" /\ lock[ref[u]] = t

\* ~Dispatcher: a dispatcher that no handle and no call refers to any more, and so has
\* been destroyed, was closed ("Make sure that |Close()| was called").
DestroyedAfterClose ==
    \A d \in 1..created :
        isClosed[d] \/ (\E h \in MojoHandle : entry[h] = d)
                    \/ (\E t \in Thread : pc[t] # "idle" /\ ref[t] = d)
=============================================================================
