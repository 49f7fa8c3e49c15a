# A verification of four concurrent cores of Chromium

This directory holds TLA+ models of four parts of Chromium as it was at the end of 2013:
what they do, which properties make them correct, the TLC runs that check the properties
on small instances and the TLAPS proofs that establish the safety properties for every
instance.

The repository is a whole browser, of which nearly everything is data, platform or user
interface. The four parts were chosen because they are self-contained protocols between
threads, callbacks or processes, on which much else rests, and whose tests exercise
sequences of calls and a few timings while the trouble is in the interleavings:

* `mojo/system`, message pipes: threads of one process, then two processes, exchange
  messages, block on handles, and close them under each other's feet;
* `cc/scheduler` and `cc/trees/thread_proxy.cc`, the compositor's frame pipeline: two
  threads that post each other tasks and in places block on each other;
* `net/socket`, the client socket pool: one thread, but clients, connect jobs, timers,
  posted callbacks and other pools re-enter it in any order;
* `base/threading`, the sequenced worker pool: threads that post, run, flush and shut down.

## 1. Inventory

| Component | State | Operations | Talks to |
|---|---|---|---|
| `CoreImpl` (`core_impl.cc`) | handle table (handle -> dispatcher, busy flag), `next_handle_`, one table lock | `Close`, `Wait`, `WaitMany`, `CreateMessagePipe`, `ReadMessage`, `WriteMessage` | dispatchers, waiters |
| `Dispatcher`, `MessagePipeDispatcher` | `is_closed_`, a lock, the pipe and port | `Close`, `ReadMessage`, `WriteMessage`, `AddWaiter`, `RemoveWaiter`, `Init` | `MessagePipe` |
| `Waiter`, `WaiterList` | `awoken_`, `wait_result_`; list of (waiter, flags, wake result) | `Init`, `Wait`, `Awake`; `AwakeWaitersForStateChange`, `CancelAllWaiters`, `AddWaiter`, `RemoveWaiter` | each other |
| `MessagePipe` | two endpoints, one lock | `Close`, `ReadMessage`, `WriteMessage`, `EnqueueMessage`, `Attach`, `Run`, `HandleControlMessage` | endpoints |
| `LocalMessagePipeEndpoint` | `is_peer_open_`, message queue, waiter list | `OnPeerClose`, `EnqueueMessage`, `ReadMessage`, `AddWaiter` | waiter list |
| `ProxyMessagePipeEndpoint` | `is_peer_open_`, channel and IDs, paused queue | `Close`, `OnPeerClose`, `EnqueueMessage`, `Attach`, `Run` | `Channel` |
| `Channel` | map from local ID to endpoint, raw channel | `Attach/Run/DetachMessagePipeEndpoint`, `WriteMessage`, `OnReadMessage`, `Shutdown` | raw channel, pipes |
| `RawChannelPosix` | `is_dead_`, write queue and offset, watchers, read buffer | `WriteMessage`, the watcher callbacks, posted `WaitToWrite` and `CallOnFatalError`, `Shutdown` | socket, I/O loop, `Channel` |
| `SchedulerStateMachine` (`cc/scheduler`) | state of the output surface, the frame, the commit, the textures, the readback and the forced redraw; two dozen flags | `NextAction`, `UpdateState(action)`, the `Set...`/`On...`/`Did...` notifications | `Scheduler` |
| `Scheduler` | the state machine, the deadline and poll tasks, the last request for frames | `BeginImplFrame`, `OnBeginImplFrameDeadline`, `PollForAnticipatedDrawTriggers`, `ProcessScheduledActions`, the notifications | state machine, `ThreadProxy` |
| `ThreadProxy` | main thread: requests sent, textures, deferred frame, readback; impl thread: completion events, resource update controller | `SetNeedsCommit/Animate/UpdateLayers`, `SetVisible`, `CompositeAndReadback`, `AcquireLayerTextures`, `BeginMainFrame`, `StartCommitOnImplThread`, `BeginMainFrameAbortedOnImplThread`, creation and loss of the surface, the `ScheduledAction...` callbacks | both threads, `LayerTreeHost`, `OutputSurface` |
| `ClientSocketPoolBaseHelper` (`net/socket`) | groups (idle sockets, connect jobs, pending requests, active sockets, backup timer), three counters, posted callbacks, generation, higher and lower pools | `RequestSocket(s)`, `CancelRequest`, `ReleaseSocket`, `OnConnectJobComplete`, `OnBackupJobTimerFired`, `CleanupIdleSockets`, `FlushWithError`, `CheckForStalledSocketGroups`, `CloseOneIdleSocket`, `TryToCloseSocketsInLayeredPools` | `ClientSocketHandle`, `ConnectJob`, layered pools, message loop |
| `ClientSocketHandle` | socket, pool id, callback | `Init`, `Reset`, `OnIOComplete` | the pool |
| `SequencedWorkerPool::Inner` (`base/threading`) | pending tasks, running sequences, threads, counts of blocking tasks, shutdown and cleanup state, one lock and three condition variables | `PostTask`, `ThreadLoop`, `Shutdown`, `CleanupForTesting`, `GetWork`, `PrepareToStartAdditionalThreadIfHelpful` | worker threads, tasks |

Interaction. *Mojo*: an application thread calls `CoreImpl`, which looks the handle up
under the table lock, gives that lock up, and calls the dispatcher, which takes its own
lock and then that of the pipe. A wait registers one `Waiter`, a local variable, with
every handle's endpoint; endpoints wake it up on a change of state. A pipe to another
process has a proxy endpoint: what is enqueued there goes through `Channel` and
`RawChannelPosix` to a socket; the I/O thread of the other side reads it, looks the
endpoint up in the channel's map, gives the channel's lock up, and enqueues the message.

*Compositor*: every event on the impl thread changes the state machine and ends in
`ProcessScheduledActions`, which asks it for actions until there is none, and then asks
the output surface for frames, posts a deadline, or polls. `BeginMainFrame` is posted to
the main thread, which paints, posts `StartCommit` and blocks until the commit is done;
readbacks, `SetVisible`, `AcquireLayerTextures` and the initialization of a surface block
the main thread likewise, on an event the impl thread signals.

*Socket pool*: a client's handle asks for a socket and gets one at once, an error, or a
place in the group's list. Connect jobs are not bound to the requests they were started
for. When a slot becomes free a stalled group is woken; callbacks are posted.

*Worker pool*: posting puts a task into the queue under the lock and wakes one worker or
creates one; a worker looks for a task whose time has come and whose sequence is free.

What is hard, and which property makes each component correct:

* *Waiting*: a message or a close may fall between any two steps of a wait. No wake-up is
  lost, none is spurious, no list keeps a pointer to a dead `Waiter`, a blocked thread
  returns.
* *Closing*: the handle disappears first, the dispatcher is marked next, the endpoint goes
  last, and other calls are under way throughout. Endpoints exist while they are used;
  messages sent before a close are still read; the end of the pipe is told after them.
* *Handle table*: values wrap around and are reused, and `WriteMessage` marks handles busy
  and finds them again by value later. A busy entry stays what it was; every live
  dispatcher has one handle.
* *Raw channel*: two parties write (callers and the I/O thread), writes and reads are
  partial, both can fail, `Shutdown` and posted tasks race. Messages are not mixed, lost
  or repeated, exactly one party waits for the socket, errors are reported.
* *Channel*: the two sides attach, run, write and close in any order. If both are attached
  before either runs the remote pipe looks like a local one; whatever the order, a reader
  loses at most a beginning, which came before its side was attached.
* *Frame pipeline*: surfaces are lost in the middle of a frame, layers are hidden, commits
  deferred, a readback borrows the pipeline, draws fail and are forced. Every commit is
  answered once, no request is lost, nothing is shown that must not be (but between two
  readbacks, section 3), the scheduler never comes to rest with work to do, and the main
  thread is never blocked for ever.
* *Socket pool*: limits of the pool and of each group, jobs that complete late or at once,
  backup jobs, flushes, cancellation between completion and callback. Sockets are counted
  right, limits hold, nothing stale is reused, nobody who waits is forgotten.
* *Worker pool*: one signal per task, one thread created at a time, a cleanup in which
  workers wait for each other. Sequences neither overlap nor overtake, no task is
  forgotten, `Shutdown` and a flush return and leave nothing behind.

`PROJECT.json` lists these hazards with the line each is about, and every other part of
the repository with the reason it is not modelled.

## 2. Modules

| Module | Models | A step is |
|---|---|---|
| `PipeContract` | abstract: what a pipe promises to its two users | one send, receive or close |
| `MessagePipe` | `Waiter`, `WaiterList`, `LocalMessagePipeEndpoint`, `MessagePipe` with two local ends, dispatchers, `Close`/`ReadMessage`/`WriteMessage`/`Wait`/`WaitMany` of `CoreImpl` | one critical section |
| `HandleTable` | the handle table, handle allocation, `CreateMessagePipe`, `WriteMessage` with handles and the locks it takes | one critical section of the table lock; taking, and using, a dispatcher's lock |
| `RawChannel` | `RawChannelPosix` on one socket | `WriteMessage`, one task or watcher event, one `read()` |
| `Channel` | one pipe between two processes: proxy endpoints and `Channel` on both sides | one critical section of the pipe's or the channel's lock |
| `SchedulerStateMachine` | the class of that name, as operators on a record | (no steps of its own) |
| `Compositor` | `Scheduler` and `ThreadProxy` on both threads; extends `SchedulerStateMachine` | impl thread: an event up to the loop, one round of the loop, what follows it; main thread: a call or task up to the next event it waits for |
| `ClientSocketPool` | `ClientSocketPoolBaseHelper`, its handles, jobs, timers and posted tasks | one call, completion, timer or task |
| `SequencedWorkerPool` | `SequencedWorkerPool::Inner` and its workers | one critical section, or what lies between two |
| `MessagePipe_proofs`, `HandleTable_proofs`, `RawChannel_proofs`, `Channel_proofs`, `Compositor_proofs`, `SequencedWorkerPool_proofs`, `ClientSocketPool_proofs` | the theorems about the module each is named after | |
| `CommonLemmas` | lemmas on sequences, least elements and division that those proofs share | |

`MC*.tla` with `MC*.cfg` instantiate them for TLC. A definition that a comment introduces
with *Fault* is a plausible mistake in the code next to it, with which the property named
in `PROJECT.json` fails; no specification uses it.

**MessagePipe.** A dispatcher is a pair of a pipe and a port. `table`, `isClosed`,
`endpoint`, `isPeerOpen`, `queue`, `waiters`, `awoken`, `waitResult` are the members of
the classes; `pc`, `handles`, `flags`, `timed`, `idx`, `added`, `rv` are the local
variables of the call a thread is in. `Close` is three steps because the code gives up
locks in between (`Close`: table; `DispatcherClose`: dispatcher marked and waiters
cancelled, its lock kept; `CloseImplNoLock`: endpoint destroyed, peer told). A wait is one
step per `GetDispatcher`, `AddWaiter` and `RemoveWaiter`. `sent` and `taken` count
messages, which are numbers. A waiter list is a set: entries of different waiters do not
see each other's order, and those of one waiter are ordered by their wake result.

**HandleTable.** `entry`, `busy`, `nextHandle` are the table; handle values are modulo
`HandleSpace` (2^32 in the code). A dispatcher that a second thread uses before
`CreateMessagePipe` has given it its pipe is a crash of the process in the model, as it is
in the code. `WriteMessage` with handles always ends with an error in this version, so
that the branch after a successful transfer is dead code.

**RawChannel.** Bytes are units; a message has several, `write()` takes any number of
them, `read()` returns at most `MaxRead`. A failed `DCHECK` is recorded in `failed` and
ends the behaviour.

**Channel.** Both sides' `MessagePipe` with a local and a proxy endpoint. The link is the
FIFO that `RawChannel` establishes; `Shutdown` cuts it. A failed check is recorded in
`crash` and ends that process. A side may run before the other is attached
(`RunMessagePipeEndpoint` looks at its own map only, and the remote ID of the first pipe is
known beforehand, `channel.h:73`): what then arrives for an ID that is not in the map yet
is dropped (`NotYetAttached`), which the history variable `missed` counts. The initial state
chooses between callers of any kind and *orderly* ones (`orderly`, `MayRun`), which have
attached both sides before they run either, as the one caller in the repository does
(`remote_message_pipe_posix_unittest.cc:70-76`).

**SchedulerStateMachine.** The record `sm` has the members of the class. `Should...`,
`NextAction`, `UpdateState...` and the notifications are operators of the same names. The
code compares the numbers of the frames in which it last swapped, sent a
`BeginMainFrame` or updated tiles with the current one; the model keeps whether they are
equal, which a new frame resets. The settings that are switches are a set.
`readbackTree` is a history variable and no member of the class: whether the active tree
was committed for a readback.
`switch_to_low_latency_if_possible` is not set by `ThreadProxy`'s embedders here, so that
the flag which skips a frame for it is left out, and `DidManageTiles` is called by tests
only.

**Compositor.** `stage` says whether the impl thread is inside
`ProcessScheduledActions`, and what the caller does after it; `Loop` is one round: an
action and its callback into `ThreadProxy`. The layer tree calls back from inside an
action (`ClientCall`s, and `DrawAndSwap...` with its outcomes) and from tasks of its own.
`implQueue` and `mainQueue` are the FIFO queues of the two threads; the deadline and the
poll are delayed tasks and may run in any order relative to the queues. The main thread's
`pc` says which completion event it waits for; `events` are the pointers to such events
the impl thread holds, `signalled` those it has signalled. Texture uploads end at any
time. The output surface is its requests for frames (`needs`, `ready`, `ticking`); it is
lost at any time, from inside a draw too, and its creation fails up to `MaxRecreate` times
(5 in the code). A `DCHECK` that fails is recorded in `failed` and ends the behaviour.
`Compositors` is a set of kinds of compositor, each the settings of an embedder and the
calls that are made on it; the initial state, in which `Start` has created the scheduler
and told it that the layers are visible, chooses one.

**ClientSocketPool.** All state of the pool and its handles is one record, `pool`. A method
that can end in several ways (`Connect()` completes at once or later, an idle socket turns
out to be unusable) is an operator from a pool to the set of pools it can leave, so that a
handler is the composition of the methods the code calls, in the code's order. A socket or
a job is the generation of the pool it was made in, which is all the pool asks of it. A
*parked* handle is the idle connection of a higher layer (an idle SPDY session), which
`CloseOneIdleConnection` of a higher pool gives back. Where the code takes the first
group of a map, the model takes any. `load` chooses what a pool is exposed to:
whose requests ignore limits, what `Connect()` may return, whether the cleanup timer runs.

**SequencedWorkerPool.** `asleep` has the threads that wait on a condition variable; a
signal takes one sleeper out, and is lost if there is none. The loop of a worker holds the
lock over several steps; it gives it up to run a task, to create a thread, to delete tasks
and to wait. `post` is the stage of a thread's `PostTask`: time taken, lock held, signal.
Tasks post tasks. Time is discrete and bounded. Spurious wake-ups are left out: each wait
is in a loop that looks again.

## 3. Runs

| Run | Bounds | Shows |
|---|---|---|
| `message_pipe` | 2 threads, 1 pipe, waits on up to 2 handles | `NoLostWakeup`, `NoDanglingWaiter`, `EndpointLifetime`, `FifoExactlyOnce`, `WakeIsTruthful`, `UnsatisfiableForever`, refinement of `PipeContract` |
| `message_pipe_liveness` | 2 threads, waits on 1 handle, readable or writable | `BlockedWaitsReturn`: a blocked wait returns after a close, a message or the peer's close |
| `handle_table` | 4 handle values, table of 3, messages of 2 handles, 6 dispatchers | `SentHandlesHeld`, `OneHandlePerDispatcher`, `TableWithinLimits` |
| `raw_channel` | 3 messages of 3 units out; messages of 3, 1 and 1 units in, 2 per `read()` | `OneWaiterForPendingWrites`, `StreamsIntact`, `AcceptedIsWritten`, `DeathIsReported` |
| `channel` | 3 messages each way, callers of any kind and orderly ones | `DeliveredThenClosed`, `MapLeadsToProxy`; for orderly callers also refinement of `PipeContract` and `CloseIsSeen` |
| `compositor` | 5 kinds of compositor, 2 failed draws force one, 2 failures to create a surface | `PipelineConsistent`, `MainFrameAccounted`, `RequestNotLost`, `NeverStalls`, `NothingForbiddenShown` |
| `compositor_liveness` | 3 kinds: with readbacks, with layers that are hidden and shown, with commits that wait for activation | `MainThreadUnblocked`, `CommitBegins` |
| `socket_pool` | 2 groups, 3 handles, limits of 2; one flush; rough load: 3 requests, every outcome of `Connect()`, one handle ignores limits, lower pools stall; smooth load: 4 requests | `AssertionsHold`, `SocketsAccounted`, `NothingStaleReused`, `WaitersAccounted`, `StalledPoolRelieved` |
| `socket_pool_liveness` | 2 groups, 2 handles, limits of 2, 4 requests, connections that complete later, well or badly | `WaitsEnd` |
| `worker_pool` | at most 2 of 3 worker names, 2 posting threads, one sequence token and none, 3 tasks of every shutdown behaviour, immediate and delayed, 1 task after shutdown | `SequencesKept`, `ShutdownComplete`, `WithinMaxThreads`, `NoTaskForgotten` |
| `worker_pool_liveness` | 2 workers, 3 tasks, one flush, a shutdown | `FlushComplete`, `FirstFlushReturns`, `ShutdownReturns` |

A property that is a conjunction names its parts, which say more. Each property comes with
a fault of the code that breaks it under the same configuration (`mutants`).

The liveness runs are narrower than the safety runs, so that they end: a wait of
`message_pipe_liveness` is on one handle; in `socket_pool_liveness` connections are made
asynchronously (with `Connect()` failing at once `WaitsEnd` does not hold, see
`StalledGroupsWoken` below); `AcquireLayerTextures` is not
among the calls of `compositor_liveness` (it need not return, see `TexturesAreAcquired`), and
layers are hidden there in a compositor without pending trees only.

Why the bounds are enough to be interesting. *Mojo*: two threads give every pair of racing
calls, among them both closing one handle, and one waiting on two handles while the other
writes, reads and closes; the bound on messages is tested when a write begins, so that two
messages meet in one queue. Four handle values make the counter wrap around past the
invalid handle and meet handles that are in use; a table of three takes one pipe, and then
one of the two handles of the next. Three units and reads of two give a message that needs
two reads, a read that fills the buffer exactly, and one that brings the end of a message
with the next one; three queued messages give every position of a partial write.
*Compositor*: calls are not bounded, only the counters of failed draws and creations are;
each kind of compositor has the calls that interact (readbacks and textures; hiding and
animating; deferring and priorities), together every call, and every surface is lost at
every point. *Socket pool*: two groups and a pool limit of two make one group stall on the
other, with one socket idle, connecting or handed out; three handles give a request that
overtakes by priority, and a job that serves another request than its own. *Worker pool*:
with three tasks one is running in a sequence, one waits behind it and one is free; the
third worker name shows that a third thread is never made.

Symmetry (threads, workers, groups, interchangeable handles) is used in safety runs only.
`CHECK_DEADLOCK FALSE` because each of the systems may stop: threads that wait for each
other's messages without a deadline do so by right, an idle pool or compositor does
nothing, and processes end.

Fairness. `MessagePipe`: weak fairness of each thread's steps inside a call, i.e. the
operating system schedules runnable threads and locks are not held forever; no thread is
obliged to make a call, and deadlines are not obliged to pass. `RawChannel`: the I/O loop
runs its tasks and delivers watcher events, and a socket that is reported writable takes
something. `Channel`: the I/O threads deliver, and a call that was begun is finished.
`Compositor`: both message loops take their tasks in order (strong fairness of taking a
task, since other events may disable it for a while, weak of going on with one), timers
that are set fire, and the tile manager finishes the tiles a pending tree waits for;
nothing is assumed of the embedder, nor that surfaces stay. `ClientSocketPool`: the message
loop runs posted tasks and every connect job completes, which its timeout ensures; clients
need not give anything back. `SequencedWorkerPool`: threads that can go on do (weak), and
a task ends; strong fairness there because a task that is posting is not, for the moment,
at its end.

### Where the code and what it says of itself disagree

`handle_table_lock_cycle` is expected to end with a violation of `NoLockCycle`: two
`WriteMessage` calls that each send the other's handle wait for each other's dispatcher
lock, which `core_impl.cc:64` forbids ("While holding a |Dispatcher| lock, you may not
unconditionally attempt to take another |Dispatcher| lock").

The models reach more such cases. Their properties stand at the end of the modules ("What
the code says and need not hold" in the newer ones) and belong to no run; each is violated
by the configuration named, with the property put in the place of those listed there.

| Property | Reached with | What happens, and what the code says |
|---|---|---|
| `HandleTable!DestroyedAfterClose` | `MCHandleTable.cfg` | `CreateMessagePipe` on a full table destroys dispatchers nobody closed; `dispatcher.cc:76` "Make sure that \|Close()\| was called." |
| `RawChannel!WriteEventOnlyWhenAlive` | `MCRawChannel.cfg` | a read error leaves the write watcher armed; its event finds the channel dead, `raw_channel_posix.cc:310` `DCHECK(!is_dead_)` |
| `Channel!ClosedDestinationTolerated` | `MCChannel.cfg` | data for a local end that was closed before `Run` is fatal; `message_pipe.cc:128` "The destination port need not be open" |
| `Channel!RunFindsEndpoint` | `MCChannel.cfg` | `PeerClosed` that arrives before `RunMessagePipeEndpoint` makes its `CHECK` (`channel.cc:101`) fail |
| `Channel!NothingMissed` | `MCChannel.cfg` | a side runs before the other is attached: its messages, and its `PeerClosed`, are for an ID that is not in the map, logged and dropped at `channel.cc:175-180`; `channel.h:73` documents that nothing is exchanged for the first pipe. Delivery is then without a beginning, `ImplementsContract` and `CloseIsSeen` would not hold without `orderly` |
| `Channel!CloseFindsChannel` | `MCChannel.cfg` | a `PeerClosed` that arrives between the map entry (`channel.cc:86`) and `Attach` (`channel.cc:89`) closes a proxy that has no channel; `proxy_message_pipe_endpoint.cc:34` `DCHECK(is_attached())` |
| `Compositor!SurfaceWhenPainting` | `MCCompositor.cfg`, a threaded compositor with `SetNeedsCommit`, `SetVisible` | a forced redraw sends `BeginMainFrame` before it asks for a surface; `layer_tree_host.cc:740` `DCHECK(!output_surface_lost_)` |
| `Compositor!SurfaceWhenFrameBegins` | `MCCompositor.cfg`, a threaded compositor with `BeginImplFrame`, `SetNeedsCommit` | a lost surface still passes on the browser's frames; `scheduler.cc:187` `DCHECK(state_machine_.HasInitializedOutputSurface())` |
| `Compositor!CreatedWhenCreating` | `MCCompositor.cfg`, `CompositeAndReadback` | a readback creates the surface first, it is lost, and the posted creation runs late; `scheduler_state_machine.cc:1098` |
| `Compositor!ReadbackWhenReady` | `MCCompositor.cfg`, `CompositeAndReadback` | a second readback before the replacement commit is activated; the `DCHECK` at `scheduler_state_machine.cc:1046` allows for two states only |
| `Compositor!ReadbackTreeNeverShown` | `MCCompositor.cfg` | a second readback before the first one's commit is replaced, see below; `scheduler_state_machine.cc:347` "After a readback, make sure not to draw again until we've replaced the readback commit with a real one" |
| `Compositor!TexturesAreAcquired` | `MCCompositorLiveness.cfg`, calls `AcquireLayerTextures`, `SetNeedsRedrawOnImplThread`, `SetNeedsCommit` | an aborted commit leaves the textures with the impl thread, the surface is lost, and its creation waits behind the blocked call; `thread_proxy.cc:1162` "will block until the next compositor draw" |
| `ClientSocketPool!StalledGroupsWoken` without the first part of `SlotsAreUsed` | `MCClientSocketPool.cfg`, `MaxSocketsPerGroup = 1` | a stalled group that is woken fails at once, the slot stays free and the next group sleeps on; `client_socket_pool_base.cc:807` "there is no starvation" |
| `ClientSocketPool!EmptyGroupsRemoved` | `MCClientSocketPool.cfg` | `CancelRequest` and `ReleaseSocket` leave empty groups; `client_socket_pool_base.h:358` "Otherwise, the Group object is removed from the map" |
| `ClientSocketPool!WaitersTakeIdleSockets` | `MCClientSocketPool.cfg` | a preconnect that connects at once leaves an idle socket beside a waiting request |
| `ClientSocketPool!IdleConnectionsReclaimed` without `IgnoreLimits = {}` | `MCClientSocketPool.cfg`, the smooth load with `ignoreLimits` set to `Urgent` | a request that ignores the limits stalls the pool, and no idle connection is closed; `client_socket_pool_base.h:637` |
| `SequencedWorkerPool!FlushReturns` | `MCSequencedWorkerPoolLiveness.cfg`, `Flushes = 2`, `MaxTasks = 4`, two clients, undelayed `SKIP_ON_SHUTDOWN` tasks only | a second flush, before the worker that cleaned up has left `HandleCleanup`, sends that worker to sleep; everybody waits |
| `SequencedWorkerPool!DeletedOutsideLock` | `MCSequencedWorkerPool.cfg` | dropped tasks are deleted at the end of the round, with the lock held; `sequenced_worker_pool.cc:949` "We really want to delete these tasks outside the lock" |

The back-to-back readback. `ShouldDraw` keeps the tree of a readback from the screen by
looking at the readback state. A second readback may be asked for before the replacement
commit has come (`scheduler_state_machine.cc:1043` allows for it); it moves the state on,
from waiting for the replacement to waiting for its own commit, while the tree of the first
readback is still the active one. A deadline with a redraw wanted then swaps that tree.
`ReadbackNeverShown`, a part of `NothingForbiddenShown`, says that this is the only way: the
tree of a readback is not swapped while it is active, be it before the replacement commit,
before the replacement's activation, or after a lost surface, unless another readback has
been asked for (`ReadsBackAgain`).

Five more were met on the way: the bounds on the number of handles in `core_impl.cc:195`
and `dispatcher.cc:26` differ by one; handles are published before their dispatchers are
initialized (`core_impl.cc:164`); a read error on a dead channel cancels its writes again
(`raw_channel_posix.cc:242`); a local close between the I/O thread's lookup and its
`EnqueueMessage` removes the source endpoint (`message_pipe.cc:126`); `Run` sends paused
data after the local end was closed (`proxy_message_pipe_endpoint.cc:119`).

## 4. Proofs

Every theorem below is checked by TLAPS and holds for every value of the constants that
satisfies the `ASSUME` of its module. Each proof module states an inductive invariant
`IInv`, proves it with one lemma per action, and derives the properties the runs check from
it. Three properties have a second invariant that rests on the first (`WakeInv` of the worker
pool, `ReliefInv` of the socket pool, `TreeInv` of the compositor). TLC has checked each of these as an invariant of the
run of its module.

### MessagePipe

For every set of threads and pipes, every set of wait flags and every bound on messages
and handles per wait (`ConstantsAssumption`: `NoThread` is not a thread, the flags are
readable and writable, `MaxMessages` is a natural number and `MaxWaitHandles` a positive
one):

| Theorem | Statement |
|---|---|
| `TypeCorrect` | `Spec => []TypeOK` |
| `WakeupsSafe` | `Spec => []NoLostWakeup` |
| `WaitersSafe` | `Spec => []NoDanglingWaiter` |
| `LifetimeSafe` | `Spec => []EndpointLifetime` |
| `MessagesSafe` | `Spec => []FifoExactlyOnce` |
| `WakeupsTruthful` | `Spec => WakeIsTruthful` (action property) |
| `UnsatisfiableStays` | `Spec => UnsatisfiableForever` (action property) |
| `Refinement` | `Spec => ImplementsContract` (`PipeContract`) |

None of the properties is inductive alone. `IInv` adds

* `CallInv`: the local variables of a call are within the handles it was given (without it
  `AddWaiter` could make an entry whose result is no index);
* `ClosingInv`: who is in `CloseImplNoLock` holds the lock and has marked the dispatcher
  closed, so that no two threads destroy one endpoint; a closed dispatcher has no waiters,
  so that destroying its queue deceives nobody;
* `CountInv`: no more messages are taken than were sent;
* `EntryInv`: a list entry names the handle, by index, and the flags of the call that made
  it, and that call has it still to remove. This is what makes `RemoveWaiter` on the first
  `num_added` handles enough, and a wake result truthful.

`LEMMA NextIInv` has one case per operation, each a lemma of its own. The lemmas on
awakening (`AwakeFacts`, `WakesRight`) say that a change of an endpoint's state leaves
asleep only whom it has to; that `EnqueueMessage` may skip the waiters of a queue that is
not empty is `EnqueueFacts`. For the action properties and the refinement, `StepEffect`
sums up what any step does to the endpoints: nothing, one message sent, one taken, or one
end closed. In the refinement mapping an end of the contract is open while its endpoint
exists, and has ended when its peer is gone and its queue empty.

### HandleTable

For every set of threads, any number of handle values above one, any table size below it
(in the code: 2^32 values, `kMaxHandleTableSize` of a million), any number of handles per
message and of dispatchers:

| Theorem | Statement |
|---|---|
| `TypeCorrect` | `Spec => []TypeOK` |
| `SentHandlesAreHeld` | `Spec => []SentHandlesHeld` |
| `DispatchersHaveOneHandle` | `Spec => []OneHandlePerDispatcher` |
| `TableIsWithinLimits` | `Spec => []TableWithinLimits` |

`MaxTableSize < HandleSpace` is what the search of `AddDispatcherNoLock` needs to end; that
it does end, at a valid handle nobody uses, also across the wrap-around, is the lemma
`NextFreeIsFree`. The invariant adds to the properties: an entry leads to an open dispatcher that was not refused
(`EntriesInv`), a dispatcher without an entry is closed or about to be (`CreatedInv`), what
a call knows at each of its steps (`CallInv`: a `Close` has already taken its entry out,
which is why a busy entry cannot vanish under a `WriteMessage`), and the lock a call
believes it has is its own and not one of those it sends (`LockInv`).

### RawChannel

For every message size and read size above zero, and every sequence of messages to read:

| Theorem | Statement |
|---|---|
| `OneWaiter` | `Spec => []OneWaiterForPendingWrites` |
| `StreamsAreIntact` | `Spec => []StreamsIntact` |

`QueueInv` ties the write queue to the history of accepted messages: the queue is their
end, and only its front is partly written, so that each `write()` continues the stream
where the last one stopped. `ReadInv` bounds what was dispatched. The partial sums of the
message sizes are a recursive function; `EndOfDef` shows that its equations have a
solution, from the least number for which they would not (`LeastOf`), since an induction
theorem cannot be instantiated here. Division with remainder (`DivMod`, `DivBound`) places
a unit in its message.

### Channel

For any number of messages:

| Theorem | Statement |
|---|---|
| `TypeCorrect` | `Spec => []TypeOK` |
| `MapIsSafe` | `Spec => []MapLeadsToProxy` |
| `DeliveryIsOrdered` | `Spec => []DeliveredThenClosed` |
| `Refinement` | `Spec => ImplementsContract` (`PipeContract`, for orderly callers) |

The first three are about every order in which the two sides attach and run; the refinement
is about callers that attach both sides first, and false of others (section 3).

A message is, at any time, in one of four places of its direction: paused at the sender's
proxy, on the link, found by the receiver's `Channel`, in the receiver's queue. `StreamInv`
says that their concatenation (`Reaching`) is what the reader has still to read, in order
and without a gap, with a `PeerClosed` at the end only if the writer has closed; it begins
after the messages that were read or missed (`Passed`). `ClosedInv` says that nothing
follows a `PeerClosed`; `MapInv` when the map has an entry, and that a side which is not in
the map has received nothing, so that what it misses is the beginning. Each action moves an element from
one of the four to the next, or drops the first while nobody is attached, which leaves the
concatenation alone or shortens it at its beginning. `OrderlyInv` is what the orderly
callers add: nothing is sent before both proxies are attached, so that nothing is missed. In the refinement
mapping an end of the contract is open while its local endpoint is, and has ended when
that endpoint knows its peer closed and its queue is empty: the link, the proxies and the
channels are invisible to the contract.

### Compositor

For any set of compositors (every combination of settings and of calls by the embedder and
by `LayerTreeHostImpl`) and any limits on failed draws and on attempts to create a surface:

| Theorem | Statement |
|---|---|
| `TypeCorrect` | `Spec => []TypeOK` |
| `PipelineIsConsistent` | `Spec => []PipelineConsistent` |
| `MainFrameIsAccounted` | `Spec => []MainFrameAccounted` |
| `RequestsAreNotLost` | `Spec => []RequestNotLost` |
| `SchedulerNeverStalls` | `Spec => []NeverStalls` |
| `ReadbackTreeIsReplaced` | `Spec => []Tree` |
| `ShowsNothingForbidden` | `Spec => NothingForbiddenShown` (action property) |
| `InvariantHolds` | `Spec => []IInv` |

`PipelineConsistent` says that the textures have one owner, that `CheckInvariants` of the
state machine holds, and that twelve of the sixteen kinds of other assertions that the
model has of the scheduler, the proxy and the layer tree host never fail (a few are not
modelled, such as that of `SetNeedsManageTiles` at `scheduler.cc:72`). The other four (`update`, `begin`, `create`,
`readback`) can; section 3 lists them. Since a failed `DCHECK` ends the behaviour, the
invariant says nothing more once one has failed: `IInv` is `TypeOK`, `PipelineConsistent`,
and `Good` while `failed` is empty. `Good` says of each thing that goes round the pipeline
where it is:

* `TokenInv`: a `BeginMainFrame`, its answer and the commit are one token. It is posted or
  deferred on the main thread, or queued as `StartCommit` or as an abort, or uploading, and
  the scheduler's commit state says so. A readback is the exception that makes this
  delicate: a second `BeginMainFrame`, the replacement, is then out with the main thread.
* `CallInv`: the call the main thread is blocked in has its task queued, or the loop it
  started runs, or the impl thread keeps its event, or the event is signalled, and only one
  of these. Nothing is posted behind a task the main thread waits for.
* `PipeInv`: which states of the commit, the pending tree, the readback, the forced redraw
  and the surface go together, for instance that a readback draws only between an
  activation and the first draw.
* `ReadbackInv`, `SurfaceInv`, `TextureInv`: what the main thread believes (that it reads
  back, that its surface is there, that the textures are its own) against what the
  scheduler and the renderer are, with the events between them still unread.
* `FrameInv`, `RestInv`: a frame has a deadline, a surface and the stage that belongs to it;
  when the loop has ended, the frames that are needed are asked for.
* `RequestInv`: a request the main thread counts as sent is in the scheduler, in the queue,
  or covered by a `BeginMainFrame` still to come.

`ShowsNothingForbidden` is about the tree that is active and not about the readback state,
by which `ShouldDraw` decides; that the one follows from the other is `TreeInv`, an
invariant on top of `IInv`: while the active tree is that of a readback, the readback has
not come to its end. A commit that is aborted as having nothing new would end it without
replacing the tree; `TreeInv` also says why that does not happen: the `BeginMainFrame`
behind a readback may not be cancelled, since the readback has reset the permission to.
So a state other than those in which `ShouldDraw` refuses, or draws for the readback only,
is that of another readback.

The lemmas on queues (`TailOfQueue`, `ConcatOfQueues`, `AppendToQueue`) say what becomes of
these places when a task is posted or run. `NeverStalls` follows from `FrameInv` and
`RestInv`; it needs `PipeInv` and `TokenInv` because the end of the loop asks for frames by
the state of the commit.

### SequencedWorkerPool

For any finite sets of workers and clients, any tokens, behaviours, delays, and any
maximum of threads:

| Theorem | Statement |
|---|---|
| `TypeCorrect` | `Spec => []TypeOK` |
| `SequencesAreKept` | `Spec => []SequencesKept` |
| `ShutdownIsComplete` | `Spec => []ShutdownComplete` |
| `ThreadsAreWithinMax` | `Spec => []WithinMaxThreads` |
| `FlushIsComplete` | `Spec => FlushComplete` (action property) |
| `NoTaskIsForgotten` | `Spec => []NoTaskForgotten` |

`CreationInv`: one thread at most is between the decision to create it and its start, and
`being_created` says so; with it the decision may look at `threads_` alone. `TaskInv`: the
tokens in `current_sequences_` are those of the running tasks. `NumberInv` and `OrderInv`:
sequence numbers are given out once and in order, and what must run before a task is of
its sequence and due no later, so that the order of `pending_tasks_` never puts it behind.
`CountInv`: the two blocking counters are the cardinalities they stand for. `DelayInv`:
only a task that is skipped on shutdown can be left waiting for its time, so that none
that blocks shutdown is deleted unrun. `CleanupInv` and `FlushInv`: while
one worker cleans up all others idle, and the tasks that a flush found are gone when it
ends.

`NoTaskForgotten` rests on `WakeInv`, whose main part, `SleepInv`, is stronger than the
property and about tasks of the future too: while workers sleep and no cleanup is under
way, some thread is about to look for work, to wake a worker or to create one, or else for
every task that may run a sleeper wakes in time. A worker goes to sleep until the time of
the next task it could run, which makes the second true (`WaiterCovers`); whoever posts a
task, ends one, or starts the shutdown signals once, which makes the first true or finds
nobody asleep (`SignalWakes`). The rest says that a thread which is being created has its creator
(`CreatorInv`), that workers leave only in a shutdown (`ExitInv`), that a cleanup has a
worker (`CleanerInv`), and that without workers nothing is left to run or one is being
created (`DeadInv`).

### ClientSocketPool

For any finite sets of groups and handles, any limits with `MaxSocketsPerGroup` at most
`MaxSockets`, any number of flushes, and every load: whoever ignores the limits, whatever
`Connect()` may return, with or without the cleanup timer, whatever the pools below answer.

| Theorem | Statement |
|---|---|
| `TypeCorrect` | `Spec => []TypeOK` |
| `PoolAssertionsHold` | `Spec => []AssertionsHold` |
| `SocketsAreAccounted` | `Spec => []SocketsAccounted` |
| `NothingStaleIsReused` | `Spec => []NothingStaleReused` |
| `WaitersAreAccounted` | `Spec => []WaitersAccounted` |
| `StalledPoolIsRelieved` | `Spec => []StalledPoolRelieved` |

`AssertionsHold` is about the assertions the model has, those which set `failed`; a few
are not among them, such as `Group::SanityCheck` (`client_socket_pool_base.cc:1235`), whose
bound on unassigned jobs is a part of the invariant below.
The first five are proved together, because each assertion holds by another of them: a
group is found when a socket comes back because active sockets are counted, a deleted group
has no job because unassigned jobs never exceed jobs, a callback is not posted twice because
who is queued has none.

The invariant comes in two strengths. `Core(p)` is about sockets, jobs and counters, and
holds of every pool that any method leaves behind, also in the middle of a handler: groups
that are not in the map are as new, `unassigned_job_count` is at most the number of jobs
and the backup timer runs only while there is one (`GroupsInv`), the counters are the sums
they stand for (`CountsInv`, `HeldInv`), what is held or idle is of the right generation
(`FreshInv`, `GroupOK`), the limits hold (`LimitsInv`). `Good(p)` adds the handles: a free
one is as new, an initialized one has a socket, one that waits is queued in its group or
has its callback posted (`LinkOf`), and who is queued waits for that group and is queued
once (`QueueOf`). Inside a handler it holds for all handles but the one that is being
served, which is `GoodBut(p, h)`.

Methods that may end in several ways have one lemma each about all the pools they may
leave (`CheckForStalledSocketGroupsGood`, `ReleaseSocketGood`, ...), and a handler's lemma
puts those of the methods it calls together, as the handler does. `Undisturbed` is what a
method leaves alone, so that the handles need not be looked at again after a step that
moves only sockets; `RoomForOne` is the room a limit check has found and the next step uses
up. A flush raises the generation before it closes sockets; `CancelAllNext` and
`CleanupNext` show that the order makes no difference, so that the invariant is not needed
in between, where it fails. The sums and loops of the model are
recursive functions; that their equations have solutions is shown from a least
counterexample (`SumExists`, `LoopExists`, `FlatExists`).

`StalledPoolRelieved` has an invariant of its own between the handlers, `Steady`: every group
is `Calm` (jobs count as unassigned only beyond those the queued requests need, and a group
with more requests than jobs has no idle socket), and the pool is `Packed` (all slots taken, none
of them idle) or `Quiet` (no group wants a job it could have). What is hard is that
`CheckForStalledSocketGroups` wakes one group and does not loop. It is enough because one
slot is returned at a time: either the pool was packed, and this slot is the only free one
(`Brim`), or no group but the one that returned it can want it (`Alone`). In the
first case the group that is woken takes the slot and the pool is packed again; in the
second there is no other group to wake. `Relieves` is what a method does to such a pool, and
composes along a handler as the methods do; `CloseLoopRelieved` is the one place where the
code does loop.

The property is about pools whose free slots are used, `SlotsAreUsed`. That no connection
fails at once was known to be needed (section 3). The proof found the second part, that no
preconnect ignores the limits: it would leave its socket idle beside requests of its group,
and the group would hold a socket and want one at once. In this version preconnects do not
carry the flag: `RequestSockets` takes it from the load flags
(`client_socket_pool_manager.cc:158`), `LOAD_IGNORE_LIMITS` is set for resource requests
only (`resource_dispatcher_host_impl.cc:1903`), and `preconnect.cc` sets none.

### Only model-checked

* The liveness properties (`BlockedWaitsReturn`, `AcceptedIsWritten`, `DeathIsReported`,
  `CloseIsSeen`, `MainThreadUnblocked`, `CommitBegins`, `WaitsEnd`, `FirstFlushReturns`,
  `ShutdownReturns`): they rest on fairness, which the prover does not handle.
* `NoLockCycle`, which does not hold.

Every other property that a run checks is a theorem.

## 5. Not modelled

* *Mojo*: `OnFatalError` of `Channel` does nothing in this version ("TODO(vtl): IMPORTANT.
  Notify all our endpoints that they're dead."), so that a wait on a pipe whose other
  process died never ends; `CloseIsSeen` excludes that case. Several pipes on one channel:
  local IDs are not reused with one pipe. `SimpleDispatcher` (tests only), `core.cc`,
  `memory.cc`, message allocation, the Windows stub of the raw channel. Contents and exact
  sizes of messages; validation of pointers is a nondeterministic outcome of the call.
* *Compositor*: `Stop`, `LayerTreeHostClosedOnImplThread` and `FinishAllRendering`; the
  offscreen context, memory policy, scroll and animation data; when
  `RenewTreePriority` changes its mind (the model changes it at any time); the inside of
  `FrameRateController`, a timer here; `SingleThreadProxy`; layers, tiles and drawing.
* *Socket pool*: how a connection is made; load states, histograms and logs;
  which idle socket of a group is preferred, and how long each may be idle, beyond that it
  may turn out to be unusable or be timed out.
* *Worker pool*: named tokens, the `TaskRunner` wrappers, the observer of the tests, the
  destructor's `Join`.
* The rest of the repository: see the components of `PROJECT.json`.

## 6. Plan

1. An abstract specification of the socket pool (a bounded set of sockets handed to those
   who wait) for `ClientSocketPool` to implement.
2. Further components: `ipc/ipc_sync_channel.cc` (nested synchronous messages),
   `net/http/http_cache.cc` (readers and one writer per entry),
   `net/disk_cache/rankings.cc` (recovery of the lists after a crash).
