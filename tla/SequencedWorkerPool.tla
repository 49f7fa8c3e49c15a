------------------------ MODULE SequencedWorkerPool ------------------------
(***************************************************************************)
(* base/threading: SequencedWorkerPool.  Threads post tasks, some of them  *)
(* with a sequence token that forbids two tasks to run at once or out of   *)
(* order; worker threads, created one at a time as they are needed, run    *)
(* them; Shutdown() waits for the tasks that block it and CleanupForTesting *)
(* for all of them.                                                        *)
(*                                                                         *)
(* One lock protects the pool.  An action that holds it from its start to  *)
(* its end requires it to be free; the loop of a worker takes several      *)
(* actions with it.  A thread in asleep waits on the condition variable    *)
(* its program counter stands for; a signal takes one out, and what a      *)
(* signal without a sleeper is worth is nothing.                           *)
(***************************************************************************)
EXTENDS Integers, FiniteSets

CONSTANTS
    Workers,        \* names for the worker threads
    Clients,        \* other threads that post tasks
    Main,           \* the client that owns the pool and shuts it down
    Nobody,         \* holder of a free lock; token of an unsequenced task
    Tokens,         \* sequence tokens
    Behaviors,      \* the WorkerShutdown values in use
    Delays,         \* delays of tasks, 0 for none
    MaxThreads,     \* max_threads_
    MaxAfterShutdown, \* argument of Shutdown()
    Flushes,        \* bound: calls of CleanupForTesting
    MaxTasks,       \* bound: tasks posted
    MaxTime         \* bound: ticks of the clock

ASSUME PoolAssumption ==
    /\ IsFiniteSet(Workers) /\ IsFiniteSet(Clients) /\ Main \in Clients
    /\ Workers \cap Clients = {} /\ Nobody \notin Workers \cup Clients \cup Tokens
    /\ Behaviors \subseteq {"CONTINUE_ON_SHUTDOWN", "SKIP_ON_SHUTDOWN", "BLOCK_SHUTDOWN"}
    /\ Delays \subseteq Nat /\ MaxThreads \in Nat \ {0} /\ MaxAfterShutdown \in Nat
    /\ Flushes \in Nat /\ MaxTasks \in Nat /\ MaxTime \in Nat

VARIABLES
    lock,       \* who holds lock_
    pc,         \* where each thread is
    asleep,     \* threads that wait on a condition variable
    post,       \* the PostTask call each thread is in
    task,       \* the task each worker has taken
    doomed,     \* delete_these_outside_lock of each worker
    deadline,   \* when the TimedWait of a worker ends
    clock,      \* TimeTicks::Now()
    \* the pool
    pending,            \* pending_tasks_
    next_number,        \* next_sequence_task_number_
    blocking_pending,   \* blocking_shutdown_pending_task_count_
    blocking_threads,   \* blocking_shutdown_thread_count_
    current_sequences,  \* current_sequences_
    threads,            \* threads_
    being_created,      \* thread_being_created_
    shutdown_called,    \* shutdown_called_
    budget,             \* max_blocking_tasks_after_shutdown_
    cleanup_state,      \* cleanup_state_
    cleanup_idlers,     \* cleanup_idlers_
    flush               \* calls of CleanupForTesting so far, and the tasks
                        \* that were there at the last one

queueVars    == <<pending, next_number, blocking_pending, budget>>
runVars      == <<blocking_threads, current_sequences, task>>
creationVars == <<threads, being_created>>
cleanupVars  == <<cleanup_state, cleanup_idlers, flush>>
vars == <<lock, pc, asleep, post, doomed, deadline, clock, shutdown_called,
          queueVars, runVars, creationVars, cleanupVars>>

Threads == Workers \cup Clients

NoPost == [stage |-> "none"]
NoTask == [number |-> -1, token |-> Nobody, behavior |-> "CONTINUE_ON_SHUTDOWN",
           time |-> 0, before |-> {}]
Never == MaxTime + 1

-----------------------------------------------------------------------------
(* Tasks.                                                                  *)

\* The order of pending_tasks_.
LessThan(t, u) == t.time < u.time \/ (t.time = u.time /\ t.number < u.number)

\* Fault: nobody looks whether the sequence is running.
AnyTokenRunnable(token, sequences) == TRUE

IsSequenceTokenRunnable(token, sequences) == token = Nobody \/ token \notin sequences

Runnable == {t \in pending : IsSequenceTokenRunnable(t.token, current_sequences)}

\* Runnable tasks that a shutdown in progress drops instead of running.
Droppable == {t \in Runnable : shutdown_called /\ t.behavior # "BLOCK_SHUTDOWN"}

\* The first task GetWork stops at, if any, and the ones it drops before it.
NextTask == {t \in Runnable \ Droppable :
                \A u \in Runnable \ Droppable : u = t \/ LessThan(t, u)}
Dropped == {t \in Droppable : \A u \in NextTask : LessThan(t, u)}

Due(t) == t.time <= clock

Blocks(t) == IF t.behavior = "BLOCK_SHUTDOWN" THEN 1 ELSE 0

-----------------------------------------------------------------------------
(* Condition variables.                                                    *)

AtHasWork    == {t \in asleep : pc[t] = "waiting"}
AtCleanup    == {t \in asleep : pc[t] \in {"cleaning", "idling", "finishing", "flushing"}}
AtCanShutdown == {t \in asleep : pc[t] = "shutting"}

\* What asleep may be after Signal() on the variable the sleepers wait on.
Signal(sleepers) ==
    IF sleepers = {} THEN {asleep} ELSE {asleep \ {t} : t \in sleepers}

-----------------------------------------------------------------------------
(* Creation of threads.                                                    *)

waiting_thread_count == Cardinality({w \in Workers : pc[w] = "waiting"})

\* Fault: thread_being_created_ is not looked at.
HelpfulRegardless(tasks, sequences) ==
    /\ ~shutdown_called /\ cleanup_state = "DONE"
    /\ Cardinality(threads) < MaxThreads
    /\ waiting_thread_count = 0
    /\ \E t \in tasks : IsSequenceTokenRunnable(t.token, sequences)

\* PrepareToStartAdditionalThreadIfHelpful, for the tasks that are pending
\* and the sequences that are running at that moment.
Helpful(tasks, sequences) ==
    /\ ~shutdown_called /\ ~being_created /\ cleanup_state = "DONE"
    /\ Cardinality(threads) < MaxThreads
    /\ waiting_thread_count = 0
    /\ \E t \in tasks : IsSequenceTokenRunnable(t.token, sequences)

\* FinishStartingAdditionalThread: pc of all threads after t goes to next.
Started(t, next) ==
    {[[pc EXCEPT ![w] = "starting"] EXCEPT ![t] = next] : w \in {v \in Workers : pc[v] = "none"}}

-----------------------------------------------------------------------------
(* PostTask, on a client or by a task that runs on a worker.               *)

MayPost(t) ==
    /\ post[t].stage = "none"
    /\ pc[t] = (IF t \in Workers THEN "running" ELSE "idle")

\* time_to_run is taken before the lock.  before are the tasks of the same
\* sequence that are already in the pool and should run first.
PostTask(t, token, behavior, delay) ==
    /\ MayPost(t)
    /\ next_number + Cardinality({u \in Threads : post[u].stage = "stamped"}) < MaxTasks
    /\ delay > 0 => behavior = "SKIP_ON_SHUTDOWN"
    /\ post' = [post EXCEPT ![t] =
                  [stage |-> "stamped", token |-> token, behavior |-> behavior,
                   time |-> clock + delay,
                   before |-> {u.number : u \in {v \in pending : /\ v.token = token
                                                                /\ token # Nobody
                                                                /\ v.time <= clock + delay}}]]
    /\ UNCHANGED <<lock, pc, asleep, doomed, deadline, clock, shutdown_called,
                   queueVars, runVars, creationVars, cleanupVars>>

\* During a shutdown only a blocking task is accepted, from a task that does
\* not continue on shutdown, and only so many of them.
CurrentThreadShutdownBehavior(t) ==
    IF t \in threads THEN task[t].behavior ELSE "CONTINUE_ON_SHUTDOWN"

Accepted(t) ==
    \/ ~shutdown_called
    \/ /\ post[t].behavior = "BLOCK_SHUTDOWN"
       /\ CurrentThreadShutdownBehavior(t) # "CONTINUE_ON_SHUTDOWN"
       /\ budget > 0

PostRefused(t) ==
    /\ lock = Nobody /\ post[t].stage = "stamped"
    /\ ~Accepted(t)
    /\ post' = [post EXCEPT ![t] = NoPost]
    /\ UNCHANGED <<lock, pc, asleep, doomed, deadline, clock, shutdown_called,
                   queueVars, runVars, creationVars, cleanupVars>>

PostLocked(t) ==
    LET new == [number |-> next_number, token |-> post[t].token,
                behavior |-> post[t].behavior, time |-> post[t].time,
                before |-> post[t].before]
        create == Helpful(pending \cup {new}, current_sequences)
    IN  /\ lock = Nobody /\ post[t].stage = "stamped"
        /\ Accepted(t)
        /\ pending' = pending \cup {new}
        /\ next_number' = next_number + 1
        /\ blocking_pending' = blocking_pending + Blocks(new)
        /\ budget' = IF shutdown_called THEN budget - 1 ELSE budget
        /\ being_created' = (being_created \/ create)
        /\ post' = [post EXCEPT ![t] = [stage |-> IF create THEN "create" ELSE "signal"]]
        /\ UNCHANGED <<lock, pc, asleep, doomed, deadline, clock, shutdown_called,
                       runVars, threads, cleanupVars>>

\* Fault: only a new thread is told of the task.
PostFinishQuietly(t) ==
    /\ \/ post[t].stage = "create" /\ pc' \in Started(t, pc[t])
       \/ post[t].stage = "signal" /\ UNCHANGED pc
    /\ post' = [post EXCEPT ![t] = NoPost]
    /\ UNCHANGED <<lock, asleep, doomed, deadline, clock, shutdown_called,
                   queueVars, runVars, creationVars, cleanupVars>>

\* Outside the lock.
PostFinish(t) ==
    /\ \/ /\ post[t].stage = "create"
          /\ pc' \in Started(t, pc[t])
          /\ UNCHANGED asleep
       \/ /\ post[t].stage = "signal"
          /\ asleep' \in Signal(AtHasWork)
          /\ UNCHANGED pc
    /\ post' = [post EXCEPT ![t] = NoPost]
    /\ UNCHANGED <<lock, doomed, deadline, clock, shutdown_called,
                   queueVars, runVars, creationVars, cleanupVars>>

-----------------------------------------------------------------------------
(* ThreadLoop.                                                             *)

Acquire(w) == lock = Nobody /\ lock' = w
Go(w, where) == pc' = [pc EXCEPT ![w] = where]

ThreadStart(w) ==
    /\ pc[w] = "starting" /\ Acquire(w) /\ Go(w, "loop")
    /\ threads' = threads \cup {w}
    /\ being_created' = FALSE
    /\ UNCHANGED <<asleep, post, doomed, deadline, clock, shutdown_called,
                   queueVars, runVars, cleanupVars>>

\* GET_WORK_FOUND and WillRunWorkerTask.
GetWorkFound(w) ==
    \E t \in NextTask :
        LET sequences == current_sequences \cup ({t.token} \ {Nobody})
            create == Helpful(pending \ (Dropped \cup {t}), sequences)
        IN  /\ pc[w] = "getwork" /\ Due(t)
            /\ pending' = pending \ (Dropped \cup {t})
            /\ blocking_pending' = blocking_pending - Blocks(t)
            /\ doomed' = [doomed EXCEPT ![w] = Dropped]
            /\ task' = [task EXCEPT ![w] = t]
            /\ current_sequences' = sequences
            /\ blocking_threads' = blocking_threads +
                  (IF t.behavior # "CONTINUE_ON_SHUTDOWN" THEN 1 ELSE 0)
            /\ being_created' = (being_created \/ create)
            /\ lock' = Nobody
            /\ Go(w, IF create THEN "announce_create" ELSE "announce")
            /\ UNCHANGED <<asleep, post, deadline, clock, shutdown_called, next_number,
                           budget, threads, cleanupVars>>

\* Outside the lock another worker is told, what was dropped is deleted, a
\* thread is created if it was found helpful, and the task runs.
Announce(w) ==
    /\ asleep' \in Signal(AtHasWork)
    /\ doomed' = [doomed EXCEPT ![w] = {}]
    /\ \/ pc[w] = "announce" /\ Go(w, "running")
       \/ pc[w] = "announce_create" /\ pc' \in Started(w, "running")
    /\ UNCHANGED <<lock, post, deadline, clock, shutdown_called,
                   queueVars, runVars, creationVars, cleanupVars>>

\* The task has run and is deleted; DidRunWorkerTask.
DidRunWorkerTask(w) ==
    /\ pc[w] = "running" /\ post[w].stage = "none"
    /\ Acquire(w) /\ Go(w, "loop")
    /\ blocking_threads' = blocking_threads -
          (IF task[w].behavior # "CONTINUE_ON_SHUTDOWN" THEN 1 ELSE 0)
    /\ current_sequences' = current_sequences \ {task[w].token}
    /\ task' = [task EXCEPT ![w] = NoTask]
    /\ UNCHANGED <<asleep, post, doomed, deadline, clock, shutdown_called,
                   queueVars, creationVars, cleanupVars>>

\* No task may run now.
NothingToRun(w) == pc[w] = "getwork" /\ \A t \in NextTask : ~Due(t)

MayExit == shutdown_called /\ blocking_pending = 0

\* When the first task that is not due will be, for TimedWait; else Wait.
WaitUntil == IF NextTask = {} THEN Never ELSE (CHOOSE t \in NextTask : TRUE).time

GetWorkWait(w) ==
    /\ NothingToRun(w) /\ cleanup_state # "RUNNING" /\ ~MayExit
    /\ pending' = pending \ Dropped
    /\ doomed' = [doomed EXCEPT ![w] = Dropped]
    /\ deadline' = [deadline EXCEPT ![w] = WaitUntil]
    /\ asleep' = asleep \cup {w}
    /\ lock' = Nobody /\ Go(w, "waiting")
    /\ UNCHANGED <<post, clock, shutdown_called, next_number, blocking_pending, budget,
                   runVars, creationVars, cleanupVars>>

\* A signal, or the end of the TimedWait.  What was dropped goes with the
\* round of the loop that ends here.
WakeForWork(w) ==
    /\ pc[w] = "waiting"
    /\ w \notin asleep \/ deadline[w] <= clock
    /\ Acquire(w) /\ Go(w, "loop")
    /\ asleep' = asleep \ {w}
    /\ doomed' = [doomed EXCEPT ![w] = {}]
    /\ deadline' = [deadline EXCEPT ![w] = Never]
    /\ UNCHANGED <<post, clock, shutdown_called, queueVars, runVars, creationVars, cleanupVars>>

\* The thread leaves its loop, with the lock.
GetWorkExit(w) ==
    /\ NothingToRun(w) /\ cleanup_state # "RUNNING" /\ MayExit
    /\ pending' = pending \ Dropped
    /\ doomed' = [doomed EXCEPT ![w] = Dropped]
    /\ Go(w, "leaving")
    /\ UNCHANGED <<lock, asleep, post, deadline, clock, shutdown_called, next_number,
                   blocking_pending, budget, runVars, creationVars, cleanupVars>>

\* The locals of the loop are destroyed, then the lock is released.
Leave(w) ==
    /\ pc[w] = "leaving" /\ Go(w, "exiting")
    /\ doomed' = [doomed EXCEPT ![w] = {}]
    /\ lock' = Nobody
    /\ UNCHANGED <<asleep, post, deadline, clock, shutdown_called,
                   queueVars, runVars, creationVars, cleanupVars>>

\* Fault: Shutdown() is not woken.
ExitQuietly(w) ==
    /\ pc[w] = "exiting" /\ Go(w, "exited")
    /\ asleep' \in Signal(AtHasWork)
    /\ UNCHANGED <<lock, post, doomed, deadline, clock, shutdown_called,
                   queueVars, runVars, creationVars, cleanupVars>>

\* The next worker is woken so that it exits too, and Shutdown().
Exit(w) ==
    /\ pc[w] = "exiting" /\ Go(w, "exited")
    /\ \E woken \in Signal(AtHasWork), shut \in Signal(AtCanShutdown) :
          asleep' = woken \cap shut
    /\ UNCHANGED <<lock, post, doomed, deadline, clock, shutdown_called,
                   queueVars, runVars, creationVars, cleanupVars>>

-----------------------------------------------------------------------------
(* Shutdown.                                                               *)

\* Fault: tasks that run are not waited for.
CanShutdownWhileRunning == ~being_created /\ blocking_pending = 0

CanShutdown == ~being_created /\ blocking_threads = 0 /\ blocking_pending = 0

Shutdown ==
    /\ pc[Main] = "idle" /\ post[Main].stage = "none" /\ lock = Nobody
    /\ ~shutdown_called /\ cleanup_state = "DONE"
    /\ shutdown_called' = TRUE
    /\ budget' = MaxAfterShutdown
    /\ asleep' \in Signal(AtHasWork)
    /\ Go(Main, IF CanShutdown THEN "down" ELSE "shutting")
    /\ UNCHANGED <<lock, post, doomed, deadline, clock, pending, next_number,
                   blocking_pending, runVars, creationVars, cleanupVars>>

ShutdownWait ==
    /\ pc[Main] = "shutting" /\ Main \notin asleep /\ lock = Nobody
    /\ IF CanShutdown THEN Go(Main, "down") /\ UNCHANGED asleep
       ELSE asleep' = asleep \cup {Main} /\ UNCHANGED pc
    /\ UNCHANGED <<lock, post, doomed, deadline, clock, shutdown_called,
                   queueVars, runVars, creationVars, cleanupVars>>

-----------------------------------------------------------------------------
(* CleanupForTesting, and the part the workers have in it (HandleCleanup). *)

running == {task[w] : w \in {v \in Workers : task[v] # NoTask}}

CleanupForTesting ==
    /\ pc[Main] = "idle" /\ post[Main].stage = "none" /\ lock = Nobody
    /\ flush.calls < Flushes
    /\ ~shutdown_called /\ cleanup_state = "DONE"
    /\ ~(pending = {} /\ waiting_thread_count = Cardinality(threads))
    /\ cleanup_state' = "REQUESTED"
    /\ cleanup_idlers' = 0
    /\ flush' = [calls |-> flush.calls + 1, tasks |-> pending \cup running]
    /\ \E woken \in Signal(AtHasWork) : asleep' = woken \cup {Main}
    /\ Go(Main, "flushing")
    /\ UNCHANGED <<lock, post, doomed, deadline, clock, shutdown_called,
                   queueVars, runVars, creationVars>>

FlushWakes ==
    /\ pc[Main] = "flushing" /\ Main \notin asleep /\ lock = Nobody
    /\ IF cleanup_state = "DONE" THEN Go(Main, "idle") /\ UNCHANGED asleep
       ELSE asleep' = asleep \cup {Main} /\ UNCHANGED pc
    /\ UNCHANGED <<lock, post, doomed, deadline, clock, shutdown_called,
                   queueVars, runVars, creationVars, cleanupVars>>

\* Everything of the pool that HandleCleanup does not touch.
CleanupLeaves == UNCHANGED <<post, doomed, deadline, clock, shutdown_called,
                             queueVars, runVars, creationVars, flush>>

NoCleanup(w) ==
    /\ pc[w] = "loop" /\ cleanup_state \in {"DONE", "RUNNING"}
    /\ Go(w, "getwork")
    /\ UNCHANGED <<lock, asleep, cleanup_state, cleanup_idlers>> /\ CleanupLeaves

\* The first worker to see the request waits until all others idle.
StartCleanup(w) ==
    /\ pc[w] = "loop" /\ cleanup_state = "REQUESTED"
    /\ cleanup_state' = "STARTING"
    /\ Go(w, "cleaning")
    /\ UNCHANGED <<lock, asleep, cleanup_idlers>> /\ CleanupLeaves

\* Fault: the tasks that run are not waited for.
NoneBeingCreated == ~being_created

AllIdle == ~being_created /\ cleanup_idlers = Cardinality(threads) - 1

AwaitIdlers(w) ==
    /\ pc[w] = "cleaning" /\ w \notin asleep /\ lock \in {w, Nobody}
    /\ IF AllIdle
       THEN /\ cleanup_state' = "RUNNING"
            /\ lock' = w /\ Go(w, "getwork")
            /\ UNCHANGED asleep
       ELSE /\ \E woken \in Signal(AtHasWork) : asleep' = woken \cup {w}
            /\ lock' = Nobody
            /\ UNCHANGED <<pc, cleanup_state>>
    /\ UNCHANGED cleanup_idlers /\ CleanupLeaves

Idle(w) ==
    /\ pc[w] = "loop" /\ cleanup_state = "STARTING"
    /\ cleanup_idlers' = cleanup_idlers + 1
    /\ asleep' = (asleep \ AtCleanup) \cup {w}
    /\ lock' = Nobody /\ Go(w, "idling")
    /\ UNCHANGED cleanup_state /\ CleanupLeaves

\* Fault: an idler leaves without telling those who wait for it.
IdlerLeavesQuietly(w) ==
    /\ pc[w] = "idling" /\ w \notin asleep /\ lock = Nobody
    /\ IF cleanup_state = "FINISHING"
       THEN /\ cleanup_idlers' = cleanup_idlers - 1
            /\ lock' = w /\ Go(w, "getwork")
            /\ UNCHANGED asleep
       ELSE /\ asleep' = asleep \cup {w}
            /\ UNCHANGED <<lock, pc, cleanup_idlers>>
    /\ UNCHANGED cleanup_state /\ CleanupLeaves

IdlerWakes(w) ==
    /\ pc[w] = "idling" /\ w \notin asleep /\ lock = Nobody
    /\ IF cleanup_state = "FINISHING"
       THEN /\ cleanup_idlers' = cleanup_idlers - 1
            /\ asleep' = asleep \ AtCleanup
            /\ lock' = w /\ Go(w, "getwork")
       ELSE /\ asleep' = asleep \cup {w}
            /\ UNCHANGED <<lock, pc, cleanup_idlers>>
    /\ UNCHANGED cleanup_state /\ CleanupLeaves

\* The cleanup is done once every idler has left.
FinishCleanup(w) ==
    /\ \/ pc[w] = "loop" /\ cleanup_state = "FINISHING"
       \/ pc[w] = "finishing" /\ w \notin asleep /\ lock = Nobody
    /\ IF cleanup_idlers # 0
       THEN /\ asleep' = (asleep \ AtCleanup) \cup {w}
            /\ lock' = Nobody /\ Go(w, "finishing")
            /\ UNCHANGED cleanup_state
       ELSE /\ lock' = w /\ Go(w, "getwork")
            /\ IF cleanup_state = "FINISHING"
               THEN cleanup_state' = "DONE" /\ asleep' \in Signal(AtCleanup)
               ELSE UNCHANGED <<cleanup_state, asleep>>
    /\ UNCHANGED cleanup_idlers /\ CleanupLeaves

\* The cleaning worker has found a task that is not due: it is deleted.
CleanupDelayed(w) ==
    /\ NothingToRun(w) /\ cleanup_state = "RUNNING" /\ NextTask # {}
    /\ pending' = pending \ (Dropped \cup NextTask)
    /\ doomed' = [doomed EXCEPT ![w] = Dropped \cup NextTask]
    /\ lock' = Nobody /\ Go(w, "deleting")
    /\ UNCHANGED <<asleep, post, deadline, clock, shutdown_called, next_number,
                   blocking_pending, budget, runVars, creationVars, cleanupVars>>

DeleteDelayed(w) ==
    /\ pc[w] = "deleting" /\ Acquire(w) /\ Go(w, "loop")
    /\ doomed' = [doomed EXCEPT ![w] = {}]
    /\ UNCHANGED <<asleep, post, deadline, clock, shutdown_called,
                   queueVars, runVars, creationVars, cleanupVars>>

CleanupFinds(w) ==
    /\ NothingToRun(w) /\ cleanup_state = "RUNNING" /\ NextTask = {}
    /\ cleanup_state' = "FINISHING"
    /\ asleep' = asleep \ AtCleanup
    /\ Go(w, "loop")
    /\ UNCHANGED <<lock, cleanup_idlers>> /\ CleanupLeaves

-----------------------------------------------------------------------------

Tick ==
    /\ clock < MaxTime
    /\ clock' = clock + 1
    /\ UNCHANGED <<lock, pc, asleep, post, doomed, deadline, shutdown_called,
                   queueVars, runVars, creationVars, cleanupVars>>

Init ==
    /\ lock = Nobody /\ asleep = {} /\ clock = 0
    /\ pc = [t \in Threads |-> IF t \in Workers THEN "none" ELSE "idle"]
    /\ post = [t \in Threads |-> NoPost]
    /\ task = [w \in Workers |-> NoTask]
    /\ doomed = [w \in Workers |-> {}]
    /\ deadline = [w \in Workers |-> Never]
    /\ pending = {} /\ next_number = 0 /\ blocking_pending = 0 /\ budget = 0
    /\ blocking_threads = 0 /\ current_sequences = {}
    /\ threads = {} /\ being_created = FALSE /\ shutdown_called = FALSE
    /\ cleanup_state = "DONE" /\ cleanup_idlers = 0
    /\ flush = [calls |-> 0, tasks |-> {}]

HandleCleanup(w) == NoCleanup(w) \/ StartCleanup(w) \/ AwaitIdlers(w) \/ Idle(w)
                    \/ IdlerWakes(w) \/ FinishCleanup(w)

GetWork(w) == GetWorkFound(w) \/ GetWorkWait(w) \/ GetWorkExit(w)
              \/ CleanupDelayed(w) \/ CleanupFinds(w)

ThreadLoop(w) == ThreadStart(w) \/ HandleCleanup(w) \/ GetWork(w) \/ Announce(w)
                 \/ DidRunWorkerTask(w) \/ WakeForWork(w) \/ DeleteDelayed(w)
                 \/ Leave(w) \/ Exit(w)

Posting(t) == PostRefused(t) \/ PostLocked(t) \/ PostFinish(t)

Next ==
    \/ \E t \in Threads, token \in Tokens \cup {Nobody}, b \in Behaviors, d \in Delays :
          PostTask(t, token, b, d)
    \/ \E t \in Threads : Posting(t)
    \/ \E w \in Workers : ThreadLoop(w)
    \/ Shutdown \/ ShutdownWait \/ CleanupForTesting \/ FlushWakes \/ Tick

Spec == Init /\ [][Next]_vars

\* Every thread that can go on for good does in the end, and a task ends
\* however often it tries to post another one.
Fairness ==
    /\ \A w \in Workers : WF_vars(ThreadLoop(w)) /\ SF_vars(DidRunWorkerTask(w))
    /\ \A t \in Threads : WF_vars(Posting(t))
    /\ WF_vars(ShutdownWait \/ FlushWakes)

FairSpec == Spec /\ Fairness

-----------------------------------------------------------------------------
(* Properties.                                                             *)

Tasks == [number : -1 .. MaxTasks, token : Tokens \cup {Nobody},
          behavior : Behaviors \cup {"CONTINUE_ON_SHUTDOWN"},
          time : Nat, before : SUBSET (0 .. MaxTasks)]

\* Type invariant.
TypeOK ==
    /\ lock \in Workers \cup {Nobody} /\ asleep \subseteq Threads /\ clock \in 0 .. MaxTime
    /\ DOMAIN pc = Threads /\ DOMAIN post = Threads
    /\ task \in [Workers -> Tasks] /\ doomed \in [Workers -> SUBSET Tasks]
    /\ deadline \in [Workers -> Nat]
    /\ pending \subseteq Tasks /\ next_number \in 0 .. MaxTasks
    /\ blocking_pending \in Nat /\ blocking_threads \in Nat /\ budget \in Nat
    /\ current_sequences \subseteq Tokens
    /\ threads \subseteq Workers /\ being_created \in BOOLEAN /\ shutdown_called \in BOOLEAN
    /\ cleanup_state \in {"REQUESTED", "STARTING", "RUNNING", "FINISHING", "DONE"}
    /\ cleanup_idlers \in Nat

\* "No two tasks with the same token will run at the same time."
SequencesExclusive ==
    \A v, w \in Workers :
        v # w /\ task[v] # NoTask /\ task[v].token # Nobody => task[v].token # task[w].token

\* "Tasks posted with the same sequence token are guaranteed to execute in
\* order": when a task runs, none that was there before it and was due no later
\* is still waiting or running, although its time was taken before the lock.
SequencesInOrder ==
    \A w \in Workers : \A t \in pending \cup running : t.number \notin task[w].before

\* A sequence token makes its tasks run one at a time and in order.
SequencesKept == SequencesExclusive /\ SequencesInOrder

\* Once Shutdown() has returned no task that blocks it is left or will come:
\* none that is waiting, none that is running, and no thread is being created.
\* What it deleted unrun was not to block it.
ShutdownComplete ==
    /\ pc[Main] = "down" =>
          /\ \A t \in pending : t.behavior # "BLOCK_SHUTDOWN"
          /\ \A t \in running : t.behavior = "CONTINUE_ON_SHUTDOWN"
          /\ \A w \in Workers : pc[w] # "starting"
    /\ \A w \in Workers : \A t \in doomed[w] : t.behavior # "BLOCK_SHUTDOWN"

\* No more threads are made than were allowed, those on their way included.
WithinMaxThreads ==
    Cardinality({w \in Workers : pc[w] # "none"}) <= MaxThreads

\* A thread that is about to look for a task or to wake one that will.
Attentive(t) ==
    \/ post[t].stage \in {"create", "signal"}
    \/ t \in Workers /\ \/ pc[t] \in {"starting", "loop", "getwork", "announce",
                                      "announce_create", "exiting", "leaving", "deleting"}
                        \/ pc[t] = "waiting" /\ (t \notin asleep \/ deadline[t] <= clock)

\* No wakeup is lost: a task that could run while a worker sleeps has somebody
\* who is about to find it.
NoTaskForgotten ==
    /\ cleanup_state = "DONE"
    /\ \E t \in Runnable : Due(t)
    /\ AtHasWork # {} \/ \A w \in Workers : pc[w] \in {"none", "exited"}
    => \E t \in Threads : Attentive(t)

\* When CleanupForTesting returns every task that was there is done with.
FlushComplete ==
    [][pc[Main] = "flushing" /\ pc'[Main] = "idle" =>
          flush.tasks \cap (pending' \cup running') = {}]_vars

\* Shutdown() returns, whatever is running, waiting or being posted.
ShutdownReturns == pc[Main] = "shutting" ~> pc[Main] = "down"

\* The first CleanupForTesting returns: the workers, each waiting for another on
\* the same condition variable, do not wait for ever.  (A second one, before the
\* worker that cleaned up has left HandleCleanup, may not return.)
FirstFlushReturns == pc[Main] = "flushing" /\ flush.calls = 1 ~> pc[Main] # "flushing"

-----------------------------------------------------------------------------
(* What the code says and need not hold.                                   *)

\* "Blocks until all pending tasks are complete", any number of times.
FlushReturns == pc[Main] = "flushing" ~> pc[Main] # "flushing"

\* Tasks that are not run are deleted "outside the lock in case the closures are
\* holding refs to objects that want to post work".
DeletedOutsideLock ==
    [][\A w \in Workers : doomed[w] # {} /\ doomed'[w] = {} => w \notin {lock, lock'}]_vars

=============================================================================
