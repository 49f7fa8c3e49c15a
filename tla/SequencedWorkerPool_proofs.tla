--------------------- MODULE SequencedWorkerPool_proofs ---------------------
(***************************************************************************)
(* Sequences, shutdown, flush and the number of threads of                 *)
(* SequencedWorkerPool, for any number of threads, tasks and tokens.       *)
(***************************************************************************)
EXTENDS SequencedWorkerPool, CommonLemmas, TLAPS

-----------------------------------------------------------------------------
(* The inductive invariant *)

WorkerPlaces == {"none", "starting", "loop", "getwork", "announce", "announce_create",
                 "running", "waiting", "leaving", "exiting", "exited", "cleaning",
                 "idling", "finishing", "deleting"}
ClientPlaces == {"idle", "shutting", "down", "flushing"}
Home(t) == IF t \in Workers THEN "running" ELSE "idle"

StampedPosts == [stage : {"stamped"}, token : Tokens \cup {Nobody}, behavior : Behaviors,
                 time : Nat, before : SUBSET (0 .. MaxTasks)]
Posts == [stage : {"none", "create", "signal"}] \cup StampedPosts
Stamped == {t \in Threads : post[t].stage = "stamped"}

\* A thread that posts is on a client or runs a task.
PlacesInv ==
    \A t \in Threads :
        /\ t \in Workers => pc[t] \in WorkerPlaces
        /\ t \in Clients => pc[t] \in ClientPlaces
        /\ post[t] \in Posts
        /\ post[t].stage # "none" => pc[t] = Home(t)

\* One thread at most is being created, from the decision to the start.
Creating(t) == post[t].stage = "create" \/ pc[t] \in {"announce_create", "starting"}

CreationInv ==
    /\ \A t \in Threads : Creating(t) => being_created
    /\ \A t, u \in Threads : Creating(t) /\ Creating(u) => t = u
    /\ \A w \in Workers : pc[w] # "none" <=> (w \in threads \/ pc[w] = "starting")
    /\ \A w \in threads : pc[w] # "starting"
    /\ Cardinality(threads) + (IF being_created THEN 1 ELSE 0) <= MaxThreads

\* Tokens in current_sequences are the tokens of the tasks that run.
HasTask(w) == pc[w] \in {"announce", "announce_create", "running"}

TaskInv ==
    /\ \A w \in Workers : task[w] # NoTask <=> HasTask(w)
    /\ \A w \in Workers : task[w].token # Nobody => task[w].token \in current_sequences
    /\ \A s \in current_sequences : \E w \in Workers : task[w].token = s
    /\ SequencesExclusive

\* Numbers are given out in order and once.
NumberInv ==
    /\ \A t \in pending \cup running : t.number \in 0 .. (next_number - 1)
    /\ \A t, u \in pending : t.number = u.number => t = u
    /\ \A t \in pending, u \in running : t.number # u.number
    /\ next_number + Cardinality(Stamped) <= MaxTasks

\* The tasks to run before x have lower numbers than n; those of them that have not run
\* are of its sequence and due no later.
BeforeAmong(x, n, S) ==
    /\ x.before \subseteq 0 .. (n - 1)
    /\ \A t \in S : t.number \in x.before => /\ t.token = x.token /\ x.token # Nobody
                                             /\ t.time <= x.time
BeforeOK(x, n) == BeforeAmong(x, n, pending \cup running)

OrderInv ==
    /\ \A x \in pending : BeforeOK(x, x.number)
    /\ \A t \in Stamped : BeforeOK(post[t], next_number)
    /\ \A w \in Workers : task[w].before \subseteq 0 .. (next_number - 1)
    /\ SequencesInOrder

\* The two counters count what they say; only a task that is skipped on shutdown waits
\* for its time or is deleted unrun.
BlockingTasks == {t \in pending : t.behavior = "BLOCK_SHUTDOWN"}
BlockingWorkers == {w \in Workers : task[w].behavior # "CONTINUE_ON_SHUTDOWN"}

CountInv ==
    /\ IsFiniteSet(pending)
    /\ blocking_pending = Cardinality(BlockingTasks)
    /\ blocking_threads = Cardinality(BlockingWorkers)

DelayInv ==
    /\ \A t \in pending : t.time <= clock \/ t.behavior = "SKIP_ON_SHUTDOWN"
    /\ \A t \in Stamped : post[t].time <= clock \/ post[t].behavior = "SKIP_ON_SHUTDOWN"
    /\ \A w \in Workers : \A t \in doomed[w] : t.behavior # "BLOCK_SHUTDOWN"

DownInv ==
    /\ pc[Main] \in {"shutting", "down"} => shutdown_called
    /\ pc[Main] = "down" => ~being_created /\ blocking_threads = 0 /\ blocking_pending = 0

\* While one worker cleans up, all others idle.
Idlers == {w \in Workers : pc[w] = "idling"}

CleanerAlone ==
    /\ ~being_created
    /\ \E c \in threads : /\ pc[c] \in {"loop", "getwork", "announce", "running", "deleting"}
                          /\ \A w \in threads \ {c} : pc[w] = "idling"

CleanupInv ==
    /\ cleanup_idlers = Cardinality(Idlers)
    /\ cleanup_state # "DONE" => ~shutdown_called /\ pc[Main] = "flushing"
    /\ cleanup_state \in {"DONE", "REQUESTED"} => cleanup_idlers = 0
    /\ cleanup_state = "RUNNING" => CleanerAlone
    /\ \A w \in Workers : pc[w] = "cleaning" => cleanup_state = "STARTING"

\* From the end of the cleanup until CleanupForTesting returns.
Flushed == cleanup_state = "FINISHING" \/ (cleanup_state = "DONE" /\ pc[Main] = "flushing")

FlushInv ==
    /\ \A t \in flush.tasks : t.number \in 0 .. (next_number - 1)
    /\ Flushed => flush.tasks \cap (pending \cup running) = {}

IInv ==
    /\ TypeOK /\ PlacesInv /\ CreationInv /\ TaskInv /\ NumberInv /\ OrderInv
    /\ CountInv /\ DelayInv /\ DownInv /\ CleanupInv /\ FlushInv


-----------------------------------------------------------------------------
(* Tasks *)

\* The order of pending_tasks_ is asymmetric, so GetWork stops at one task.
LEMMA OneNextTask ==
    ASSUME TypeOK, NEW t \in NextTask, NEW u \in NextTask
    PROVE  t = u
<1>1. t \in Tasks /\ u \in Tasks
  BY DEF TypeOK, NextTask, Runnable
<1>2. t.time \in Nat /\ u.time \in Nat /\ t.number \in Int /\ u.number \in Int
  BY <1>1 DEF Tasks
<1>3. ~(LessThan(t, u) /\ LessThan(u, t))
  BY <1>2 DEF LessThan
<1>4. (t = u \/ LessThan(t, u)) /\ (t = u \/ LessThan(u, t))
  BY DEF NextTask
<1> QED
  BY <1>3, <1>4

\* What GetWork drops or stops at was pending, and it drops nothing that blocks a shutdown.
LEMMA DroppedFacts ==
    /\ Dropped \subseteq pending /\ NextTask \subseteq pending
    /\ \A t \in Dropped : t.behavior # "BLOCK_SHUTDOWN"
BY DEF Dropped, Droppable, NextTask, Runnable

\* Among tasks with numbers of their own one is the first, so GetWork finds nothing only
\* when nothing can run.
LEMMA NextTaskExists ==
    ASSUME TypeOK, NumberInv, Runnable \ Droppable # {}
    PROVE  NextTask # {}
<1> DEFINE S == Runnable \ Droppable
<1>1. S \subseteq pending
  BY DEF Runnable
<1>2. \A t \in S : t.time \in Nat /\ t.number \in Nat
  <2>1. TAKE t \in S
  <2>2. t \in pending
    BY <1>1
  <2>3. t \in Tasks
    BY <2>2 DEF TypeOK
  <2>4. t.number \in 0 .. (next_number - 1) /\ next_number \in Int
    BY <2>2 DEF NumberInv, TypeOK
  <2> QED
    BY <2>3, <2>4 DEF Tasks
<1>3. \A t, u \in S : t.number = u.number => t = u
  BY <1>1 DEF NumberInv
<1>4. S # {}
  OBVIOUS
<1>5. NextTask = {t \in S : \A u \in S : u = t \/ LessThan(t, u)}
  BY DEF NextTask
<1> HIDE DEF S
<1> DEFINE T == {t.time : t \in S}
<1>6. PICK m \in T : \A k \in T : m <= k
  <2>1. T \subseteq Nat /\ T # {}
    BY <1>2, <1>4
  <2> HIDE DEF T
  <2> QED
    BY <2>1, LeastOf
<1> DEFINE N == {t.number : t \in {u \in S : u.time = m}}
<1>7. PICK n \in N : \A k \in N : n <= k
  <2>1. N \subseteq Nat /\ N # {}
    BY <1>2, <1>6
  <2> HIDE DEF N, T
  <2> QED
    BY <2>1, LeastOf
<1>8. PICK t \in S : t.time = m /\ t.number = n
  BY <1>7
<1>9. ASSUME NEW u \in S PROVE u = t \/ LessThan(t, u)
  <2>1. t.time <= u.time
    BY <1>6, <1>8
  <2>2. CASE u.time = t.time
    <3>1. u.number \in N
      BY <1>8, <2>2
    <3>2. n <= u.number
      <4> HIDE DEF N, T
      <4> QED BY <3>1, <1>7
    <3>3. u.number = t.number => u = t
      BY <1>3
    <3>4. u.number \in Nat /\ t.number \in Nat
      BY <1>2
    <3>5. u = t \/ t.number < u.number
      <4> HIDE DEF N, T
      <4> QED BY <1>8, <3>2, <3>3, <3>4
    <3> QED
      BY <2>2, <3>5 DEF LessThan
  <2>3. CASE u.time # t.time
    <3>1. u.time \in Nat /\ t.time \in Nat
      BY <1>2
    <3> HIDE DEF N, T
    <3> QED
      BY <2>1, <2>3, <3>1 DEF LessThan
  <2> QED
    BY <2>2, <2>3
<1> QED
  BY <1>5, <1>8, <1>9

-----------------------------------------------------------------------------
(* Steps of a worker without a task *)

Plain == {"loop", "getwork", "waiting", "leaving", "exiting", "exited", "cleaning",
          "idling", "finishing", "deleting"}

\* What the steps of ThreadLoop from one plain place to another have in common.
Roams(w) ==
    /\ pc[w] \in Plain /\ pc'[w] \in Plain
    /\ \A t \in Threads \ {w} : pc'[t] = pc[t]
    /\ UNCHANGED <<post, clock, shutdown_called, next_number, blocking_pending,
                   blocking_threads, current_sequences, task, threads, being_created>>
    /\ pending' \subseteq pending
    /\ \A t \in pending \ pending' : t.behavior # "BLOCK_SHUTDOWN"
    /\ \A t \in doomed'[w] : t \in doomed[w] \/ t.behavior # "BLOCK_SHUTDOWN"
    /\ \A v \in Workers \ {w} : doomed'[v] = doomed[v]

RoamingAction(w) ==
    \/ HandleCleanup(w)
    \/ GetWorkWait(w) \/ GetWorkExit(w) \/ CleanupDelayed(w) \/ CleanupFinds(w)
    \/ WakeForWork(w) \/ DeleteDelayed(w) \/ Leave(w) \/ Exit(w)

LEMMA RoamingActionsRoam ==
    ASSUME IInv, NEW w \in Workers, RoamingAction(w)
    PROVE  Roams(w)
<1> USE DEF Go, queueVars, runVars, creationVars, cleanupVars, Plain
<1>1. DOMAIN pc = Threads /\ w \in Threads /\ doomed \in [Workers -> SUBSET Tasks]
  BY DEF IInv, TypeOK, Threads
<1>2. CASE NoCleanup(w)
  BY <1>1, <1>2 DEF NoCleanup, CleanupLeaves, Roams
<1>3. CASE StartCleanup(w)
  BY <1>1, <1>3 DEF StartCleanup, CleanupLeaves, Roams
<1>4. CASE AwaitIdlers(w)
  BY <1>1, <1>4 DEF AwaitIdlers, CleanupLeaves, Roams
<1>5. CASE Idle(w)
  BY <1>1, <1>5 DEF Idle, CleanupLeaves, Roams
<1>6. CASE IdlerWakes(w)
  BY <1>1, <1>6 DEF IdlerWakes, CleanupLeaves, Roams
<1>7. CASE FinishCleanup(w)
  BY <1>1, <1>7 DEF FinishCleanup, CleanupLeaves, Roams
<1>8. CASE GetWorkWait(w)
  BY <1>1, <1>8, DroppedFacts DEF GetWorkWait, NothingToRun, Roams
<1>9. CASE GetWorkExit(w)
  BY <1>1, <1>9, DroppedFacts DEF GetWorkExit, NothingToRun, Roams
<1>10. CASE CleanupDelayed(w)
  <2>1. \A t \in NextTask : t.behavior # "BLOCK_SHUTDOWN"
    <3>1. TAKE t \in NextTask
    <3>2. ~(t.time <= clock) /\ t \in pending
      BY <1>10, DroppedFacts DEF CleanupDelayed, NothingToRun, Due
    <3> QED
      BY <3>2 DEF IInv, DelayInv
  <2>2. /\ pc[w] = "getwork" /\ pc' = [pc EXCEPT ![w] = "deleting"]
        /\ pending' = pending \ (Dropped \cup NextTask)
        /\ doomed' = [doomed EXCEPT ![w] = Dropped \cup NextTask]
        /\ UNCHANGED <<post, clock, shutdown_called, next_number, blocking_pending,
                       blocking_threads, current_sequences, task, threads, being_created>>
    BY <1>10 DEF CleanupDelayed, NothingToRun
  <2> QED
    BY <1>1, <2>1, <2>2, DroppedFacts DEF Roams
<1>11. CASE CleanupFinds(w)
  BY <1>1, <1>11 DEF CleanupFinds, NothingToRun, CleanupLeaves, Roams
<1>12. CASE WakeForWork(w)
  BY <1>1, <1>12 DEF WakeForWork, Roams
<1>13. CASE DeleteDelayed(w)
  BY <1>1, <1>13 DEF DeleteDelayed, Roams
<1>14. CASE Leave(w)
  BY <1>1, <1>14 DEF Leave, Roams
<1>15. CASE Exit(w)
  BY <1>1, <1>15 DEF Exit, Roams
<1> QED
  BY <1>2, <1>3, <1>4, <1>5, <1>6, <1>7, <1>8, <1>9, <1>10, <1>11, <1>12, <1>13, <1>14,
     <1>15 DEF RoamingAction, HandleCleanup


\* Such a step keeps all that is not about the cleanup.
LEMMA RoamKeeps ==
    ASSUME IInv, NEW w \in Workers, Roams(w)
    PROVE  /\ PlacesInv' /\ CreationInv' /\ TaskInv' /\ NumberInv' /\ OrderInv'
           /\ CountInv' /\ DelayInv' /\ DownInv'
<1>0. w \in Threads /\ w \notin Clients /\ Main \in Clients /\ Main \in Threads
  BY PoolAssumption DEF Threads
<1>1. /\ pc[w] \in Plain /\ pc'[w] \in Plain
      /\ \A t \in Threads \ {w} : pc'[t] = pc[t]
      /\ post' = post /\ threads' = threads /\ being_created' = being_created
      /\ task' = task /\ current_sequences' = current_sequences
      /\ next_number' = next_number /\ clock' = clock
  BY DEF Roams
<1>2. running' = running /\ Stamped' = Stamped
  BY <1>1 DEF running, Stamped
<1>3. pending' \subseteq pending
  BY DEF Roams
<1>4. PlacesInv'
  <2>1. post[w].stage = "none"
    BY <1>0, <1>1 DEF IInv, PlacesInv, Home, Plain
  <2> QED
    BY <1>0, <1>1, <2>1 DEF IInv, PlacesInv, Home, Plain, WorkerPlaces
<1>5. CreationInv'
  <2>1. \A t \in Threads : Creating(t)' <=> Creating(t)
    BY <1>1 DEF Creating, Plain
  <2>2. \A v \in Workers : /\ pc'[v] = "none" <=> pc[v] = "none"
                           /\ pc'[v] = "starting" <=> pc[v] = "starting"
    BY <1>1 DEF Threads, Plain
  <2>3. threads \subseteq Workers
    BY DEF IInv, TypeOK
  <2> QED
    BY <1>1, <2>1, <2>2, <2>3 DEF IInv, CreationInv
<1>6. TaskInv'
  <2>1. \A v \in Workers : HasTask(v)' <=> HasTask(v)
    BY <1>1 DEF HasTask, Plain, Threads
  <2> QED
    BY <1>1, <2>1 DEF IInv, TaskInv, SequencesExclusive
<1>7. NumberInv'
  BY <1>1, <1>2, <1>3 DEF IInv, NumberInv
<1>8. OrderInv'
  BY <1>1, <1>2, <1>3 DEF IInv, OrderInv, BeforeOK, BeforeAmong, SequencesInOrder
<1>9. CountInv'
  <2>1. BlockingTasks' = BlockingTasks
    BY DEF Roams, BlockingTasks
  <2>2. BlockingWorkers' = BlockingWorkers
    BY <1>1 DEF BlockingWorkers
  <2>3. IsFiniteSet(pending')
    BY <1>3, FS_Subset DEF IInv, CountInv
  <2> QED
    BY <2>1, <2>2, <2>3 DEF IInv, CountInv, Roams
<1>10. DelayInv'
  <2>1. \A v \in Workers : \A t \in doomed'[v] : t.behavior # "BLOCK_SHUTDOWN"
    BY DEF Roams, IInv, DelayInv
  <2> QED
    BY <1>1, <1>2, <1>3, <2>1 DEF IInv, DelayInv
<1>11. DownInv'
  <2>1. pc'[Main] = pc[Main]
    BY <1>0, <1>1
  <2> QED
    BY <2>1 DEF IInv, DownInv, Roams
<1> QED
  BY <1>4, <1>5, <1>6, <1>7, <1>8, <1>9, <1>10, <1>11

-----------------------------------------------------------------------------
(* The type invariant *)

\* A set that is one larger, or one smaller.
LEMMA CardinalityOf ==
    ASSUME NEW S, IsFiniteSet(S)
    PROVE  /\ Cardinality(S) \in Nat
           /\ \A x : x \notin S => Cardinality(S \cup {x}) = Cardinality(S) + 1
           /\ \A x : x \in S => /\ Cardinality(S \ {x}) = Cardinality(S) - 1
                                /\ Cardinality(S) - 1 \in Nat
<1>1. ASSUME NEW x \in S
      PROVE  Cardinality(S \ {x}) = Cardinality(S) - 1 /\ Cardinality(S \ {x}) \in Nat
  <2>1. IsFiniteSet(S \ {x}) /\ Cardinality(S \ {x}) = Cardinality(S) - 1
    BY FS_RemoveElement
  <2> QED
    BY <2>1, FS_CardinalityType
<1> QED
  BY <1>1, FS_CardinalityType, FS_AddElement

\* Signal wakes one of the sleepers at most.
LEMMA SignalFacts ==
    ASSUME TypeOK, NEW s, NEW a \in Signal(s)
    PROVE  a \subseteq asleep /\ a \subseteq Threads
BY DEF TypeOK, Signal

LEMMA RoamingType ==
    ASSUME IInv, NEW w \in Workers, RoamingAction(w)
    PROVE  TypeOK'
<1>1. Roams(w)
  BY RoamingActionsRoam
<1>2. TypeOK /\ w \in Threads
  BY DEF IInv, Threads
<1>3. DOMAIN pc' = Threads /\ doomed' \in [Workers -> SUBSET Tasks]
  <2> USE <1>2 DEF Go, TypeOK, CleanupLeaves, queueVars, runVars, creationVars, cleanupVars
  <2>1. CASE HandleCleanup(w)
    BY <2>1 DEF HandleCleanup, NoCleanup, StartCleanup, AwaitIdlers, Idle, IdlerWakes,
                FinishCleanup
  <2>2. CASE GetWorkWait(w) \/ GetWorkExit(w) \/ CleanupDelayed(w) \/ CleanupFinds(w)
    <3>1. Dropped \in SUBSET Tasks /\ (Dropped \cup NextTask) \in SUBSET Tasks
      BY DroppedFacts
    <3> QED
      BY <2>2, <3>1 DEF GetWorkWait, GetWorkExit, CleanupDelayed, CleanupFinds
  <2>3. CASE WakeForWork(w) \/ DeleteDelayed(w) \/ Leave(w) \/ Exit(w)
    BY <2>3 DEF WakeForWork, DeleteDelayed, Leave, Exit
  <2> QED
    BY <2>1, <2>2, <2>3 DEF RoamingAction
<1>4. asleep' \subseteq Threads
  <2> USE <1>2 DEF CleanupLeaves
  <2>1. asleep \subseteq Threads
    BY DEF TypeOK
  <2>2. \A s : \A a \in Signal(s) : a \subseteq Threads
    BY SignalFacts
  <2>3. CASE HandleCleanup(w)
    BY <2>1, <2>2, <2>3 DEF HandleCleanup, NoCleanup, StartCleanup, AwaitIdlers, Idle,
                            IdlerWakes, FinishCleanup
  <2>4. CASE GetWorkWait(w) \/ GetWorkExit(w) \/ CleanupDelayed(w) \/ CleanupFinds(w)
    BY <2>1, <2>4 DEF GetWorkWait, GetWorkExit, CleanupDelayed, CleanupFinds
  <2>5. CASE WakeForWork(w) \/ DeleteDelayed(w) \/ Leave(w) \/ Exit(w)
    BY <2>1, <2>2, <2>5 DEF WakeForWork, DeleteDelayed, Leave, Exit
  <2> QED
    BY <2>3, <2>4, <2>5 DEF RoamingAction
<1>5. deadline' \in [Workers -> Nat]
  <2>1. Never \in Nat /\ deadline \in [Workers -> Nat]
    BY <1>2, PoolAssumption DEF Never, TypeOK
  <2>2. CASE GetWorkWait(w)
    <3>1. WaitUntil \in Nat
      <4>1. \A t \in NextTask : t.time \in Nat
        BY <1>2, DroppedFacts DEF TypeOK, Tasks
      <4> QED
        BY <2>1, <4>1 DEF WaitUntil
    <3> QED
      BY <2>1, <2>2, <3>1 DEF GetWorkWait
  <2>3. CASE WakeForWork(w)
    BY <2>1, <2>3 DEF WakeForWork
  <2>4. CASE ~GetWorkWait(w) /\ ~WakeForWork(w)
    BY <2>1, <2>4 DEF RoamingAction, HandleCleanup, NoCleanup, StartCleanup, AwaitIdlers,
           Idle, IdlerWakes, FinishCleanup, CleanupLeaves, GetWorkExit, CleanupDelayed,
           CleanupFinds, DeleteDelayed, Leave, Exit
  <2> QED
    BY <2>2, <2>3, <2>4
<1>6. lock' \in Workers \cup {Nobody}
  BY <1>2 DEF TypeOK, RoamingAction, HandleCleanup, NoCleanup, StartCleanup, AwaitIdlers,
         Idle, IdlerWakes, FinishCleanup, CleanupLeaves, GetWorkWait, GetWorkExit,
         CleanupDelayed, CleanupFinds, WakeForWork, DeleteDelayed, Leave, Exit, Acquire
<1>7. budget' = budget
  BY DEF RoamingAction, HandleCleanup, NoCleanup, StartCleanup, AwaitIdlers,
         Idle, IdlerWakes, FinishCleanup, CleanupLeaves, GetWorkWait, GetWorkExit,
         CleanupDelayed, CleanupFinds, WakeForWork, DeleteDelayed, Leave, Exit, queueVars
<1>8. cleanup_state' \in {"REQUESTED", "STARTING", "RUNNING", "FINISHING", "DONE"}
  BY <1>2 DEF TypeOK, RoamingAction, HandleCleanup, NoCleanup, StartCleanup, AwaitIdlers,
         Idle, IdlerWakes, FinishCleanup, CleanupLeaves, GetWorkWait, GetWorkExit,
         CleanupDelayed, CleanupFinds, WakeForWork, DeleteDelayed, Leave, Exit, cleanupVars
<1>9. cleanup_idlers' \in Nat
  <2>1. CASE Idle(w)
    BY <1>2, <2>1 DEF TypeOK, Idle
  <2>2. CASE IdlerWakes(w)
    <3>1. w \in Idlers /\ IsFiniteSet(Idlers)
      BY <2>2, PoolAssumption, FS_Subset DEF IdlerWakes, Idlers
    <3>2. Cardinality(Idlers) - 1 \in Nat /\ Cardinality(Idlers) \in Nat
      BY <3>1, CardinalityOf
    <3> QED
      BY <2>2, <3>2 DEF IInv, CleanupInv, IdlerWakes
  <2>3. CASE ~Idle(w) /\ ~IdlerWakes(w)
    BY <1>2, <2>3 DEF TypeOK, RoamingAction, HandleCleanup, NoCleanup, StartCleanup, AwaitIdlers,
         FinishCleanup, CleanupLeaves, GetWorkWait, GetWorkExit,
         CleanupDelayed, CleanupFinds, WakeForWork, DeleteDelayed, Leave, Exit, cleanupVars
  <2> QED
    BY <2>1, <2>2, <2>3
<1>10. TypeOK'
  BY <1>1, <1>2, <1>3, <1>4, <1>5, <1>6, <1>7, <1>8, <1>9 DEF Roams, TypeOK
<1> QED
  BY <1>10


-----------------------------------------------------------------------------
(* The cleanup *)

\* A thread in a plain place is in threads_.
LEMMA PlainThread ==
    ASSUME IInv, NEW w \in Workers, pc[w] \in Plain
    PROVE  w \in threads /\ task[w] = NoTask
BY DEF IInv, CreationInv, TaskInv, HasTask, Plain

\* Only HandleCleanup and the cleaning worker's GetWork change the state of the cleanup,
\* and a cleanup that is over is not taken up again.
LEMMA CleanupStates ==
    ASSUME IInv, NEW w \in Workers, RoamingAction(w)
    PROVE  /\ flush' = flush
           /\ Idle(w) \/ IdlerWakes(w) \/ cleanup_idlers' = cleanup_idlers
           /\ \/ cleanup_state' = cleanup_state
              \/ StartCleanup(w) \/ AwaitIdlers(w) \/ FinishCleanup(w) \/ CleanupFinds(w)
           /\ Idle(w) \/ IdlerWakes(w) \/ (pc[w] # "idling" /\ pc'[w] # "idling")
<1>0. DOMAIN pc = Threads /\ w \in Threads
  BY DEF IInv, TypeOK, Threads
<1> USE DEF Go, CleanupLeaves, cleanupVars
<1>1. CASE HandleCleanup(w)
  BY <1>0, <1>1 DEF HandleCleanup, NoCleanup, StartCleanup, AwaitIdlers, FinishCleanup,
                    Idle, IdlerWakes
<1>2. CASE GetWorkWait(w) \/ GetWorkExit(w) \/ CleanupDelayed(w) \/ CleanupFinds(w)
  BY <1>0, <1>2 DEF GetWorkWait, GetWorkExit, CleanupDelayed, CleanupFinds, NothingToRun
<1>3. CASE WakeForWork(w) \/ DeleteDelayed(w) \/ Leave(w) \/ Exit(w)
  BY <1>0, <1>3 DEF WakeForWork, DeleteDelayed, Leave, Exit
<1> QED
  BY <1>1, <1>2, <1>3 DEF RoamingAction

\* cleanup_idlers_ stays the number of workers that idle.
LEMMA IdlersCounted ==
    ASSUME IInv, NEW w \in Workers, RoamingAction(w)
    PROVE  cleanup_idlers' = Cardinality(Idlers')
<1>0. DOMAIN pc = Threads /\ w \in Threads
  BY DEF IInv, TypeOK, Threads
<1>1. Roams(w)
  BY RoamingActionsRoam
<1>2. \A v \in Workers \ {w} : pc'[v] = pc[v]
  BY <1>1 DEF Roams, Threads
<1>3. IsFiniteSet(Idlers) /\ cleanup_idlers = Cardinality(Idlers)
  BY PoolAssumption, FS_Subset DEF Idlers, IInv, CleanupInv
<1>4. CASE Idle(w)
  <2>1. pc[w] = "loop" /\ pc'[w] = "idling" /\ cleanup_idlers' = cleanup_idlers + 1
    BY <1>0, <1>4 DEF Idle, Go
  <2>2. w \notin Idlers /\ Idlers' = Idlers \cup {w}
    BY <1>2, <2>1 DEF Idlers
  <2> QED
    BY <1>3, <2>1, <2>2, CardinalityOf
<1>5. CASE IdlerWakes(w)
  <2>1. CASE cleanup_state = "FINISHING"
    <3>1. pc[w] = "idling" /\ pc'[w] = "getwork" /\ cleanup_idlers' = cleanup_idlers - 1
      BY <1>0, <1>5, <2>1 DEF IdlerWakes, Go
    <3>2. w \in Idlers /\ Idlers' = Idlers \ {w}
      BY <1>2, <3>1 DEF Idlers
    <3> QED
      BY <1>3, <3>1, <3>2, CardinalityOf
  <2>2. CASE cleanup_state # "FINISHING"
    <3>1. pc' = pc /\ cleanup_idlers' = cleanup_idlers
      BY <1>5, <2>2 DEF IdlerWakes
    <3> QED
      BY <1>3, <3>1 DEF Idlers
  <2> QED
    BY <2>1, <2>2
<1>6. CASE ~Idle(w) /\ ~IdlerWakes(w)
  <2>1. pc[w] # "idling" /\ pc'[w] # "idling" /\ cleanup_idlers' = cleanup_idlers
    BY <1>6, CleanupStates
  <2>2. Idlers' = Idlers
    BY <1>2, <2>1 DEF Idlers
  <2> QED
    BY <1>3, <2>1, <2>2
<1> QED
  BY <1>4, <1>5, <1>6

\* All others idle when the cleaning worker goes on.
LEMMA AllIdleMeansAlone ==
    ASSUME IInv, NEW w \in Workers, pc[w] = "cleaning", AllIdle
    PROVE  \A v \in threads \ {w} : pc[v] = "idling"
<1>1. w \in threads /\ threads \subseteq Workers
  BY PlainThread DEF Plain, IInv, TypeOK
<1>2. Idlers \subseteq threads \ {w}
  BY PlainThread DEF Plain, Idlers
<1>3. IsFiniteSet(threads) /\ IsFiniteSet(threads \ {w})
  BY <1>1, PoolAssumption, FS_Subset
<1>4. Cardinality(threads \ {w}) = Cardinality(threads) - 1
  BY <1>1, <1>3, CardinalityOf
<1>5. Cardinality(Idlers) = Cardinality(threads) - 1
  BY DEF AllIdle, IInv, CleanupInv
<1>6. Idlers = threads \ {w}
  BY <1>2, <1>3, <1>4, <1>5, FS_Subset
<1> QED
  BY <1>6 DEF Idlers

LEMMA RoamingCleanup ==
    ASSUME IInv, NEW w \in Workers, RoamingAction(w)
    PROVE  CleanupInv'
<1>0. /\ DOMAIN pc = Threads /\ w \in Threads /\ Main \in Threads /\ Main # w
      /\ threads \subseteq Workers
  BY PoolAssumption DEF IInv, TypeOK, Threads
<1>1. Roams(w)
  BY RoamingActionsRoam
<1>2. cleanup_idlers' = Cardinality(Idlers')
  BY IdlersCounted
<1>3. pc'[Main] = pc[Main] /\ shutdown_called' = shutdown_called
  BY <1>0, <1>1 DEF Roams
<1>4. cleanup_state' # "DONE" => cleanup_state # "DONE"
  BY CleanupStates DEF StartCleanup, AwaitIdlers, FinishCleanup, CleanupFinds, IInv, CleanupInv
<1>5. cleanup_state' \in {"DONE", "REQUESTED"} => cleanup_idlers' = 0
  <2>1. CASE Idle(w)
    BY <2>1 DEF Idle
  <2>2. CASE IdlerWakes(w)
    BY <2>2 DEF IdlerWakes, IInv, CleanupInv
  <2>3. CASE FinishCleanup(w)
    BY <2>3 DEF FinishCleanup, IInv, CleanupInv
  <2>4. CASE ~Idle(w) /\ ~IdlerWakes(w) /\ ~FinishCleanup(w)
    <3>1. cleanup_idlers' = cleanup_idlers
      BY <2>4, CleanupStates
    <3>2. \/ cleanup_state' = cleanup_state \/ cleanup_state' \notin {"DONE", "REQUESTED"}
      BY <2>4, CleanupStates DEF StartCleanup, AwaitIdlers, CleanupFinds
    <3> QED
      BY <3>1, <3>2 DEF IInv, CleanupInv
  <2> QED
    BY <2>1, <2>2, <2>3, <2>4
<1>6. ASSUME cleanup_state' = "RUNNING" PROVE CleanerAlone'
  <2>1. CASE cleanup_state = "RUNNING"
    <3>1. PICK c \in threads :
              /\ pc[c] \in {"loop", "getwork", "announce", "running", "deleting"}
              /\ \A v \in threads \ {c} : pc[v] = "idling"
      BY <2>1 DEF IInv, CleanupInv, CleanerAlone
    <3>2. w \in threads
      BY <1>1, PlainThread DEF Roams
    <3>3. CASE w = c
      <4>1. pc[w] \in {"loop", "getwork", "deleting"}
        BY <1>1, <3>1, <3>3 DEF Roams, Plain
      <4>2. NoCleanup(w) \/ CleanupDelayed(w) \/ DeleteDelayed(w)
        BY <1>6, <2>1, <4>1 DEF RoamingAction, HandleCleanup, StartCleanup, AwaitIdlers, Idle,
               IdlerWakes, FinishCleanup, GetWorkWait, GetWorkExit, CleanupFinds,
               WakeForWork, Leave, Exit
      <4>3. pc'[w] \in {"loop", "getwork", "deleting"}
        BY <1>0, <4>2 DEF NoCleanup, CleanupDelayed, DeleteDelayed, Go
      <4> QED
        BY <1>0, <1>1, <3>1, <3>3, <4>3, <2>1
           DEF Roams, CleanerAlone, IInv, CleanupInv, Threads
    <3>4. CASE w # c
      <4>1. pc[w] = "idling"
        BY <3>1, <3>2, <3>4
      <4>2. IdlerWakes(w)
        BY <2>1, <4>1 DEF RoamingAction, HandleCleanup, NoCleanup, StartCleanup, AwaitIdlers,
               Idle, FinishCleanup, GetWorkWait, GetWorkExit, CleanupFinds, CleanupDelayed,
               WakeForWork, DeleteDelayed, Leave, Exit, NothingToRun
      <4>3. pc' = pc
        BY <2>1, <4>2 DEF IdlerWakes
      <4> QED
        BY <1>1, <2>1, <4>3 DEF Roams, CleanerAlone, IInv, CleanupInv
    <3> QED
      BY <3>3, <3>4
  <2>2. CASE cleanup_state # "RUNNING"
    <3>1. AwaitIdlers(w)
      BY <1>6, <2>2, CleanupStates DEF StartCleanup, FinishCleanup, CleanupFinds
    <3>2. AllIdle /\ pc[w] = "cleaning" /\ pc'[w] = "getwork"
      BY <1>0, <1>6, <2>2, <3>1 DEF AwaitIdlers, Go
    <3>3. \A v \in threads \ {w} : pc[v] = "idling"
      BY <3>2, AllIdleMeansAlone
    <3>4. w \in threads
      BY <1>1, PlainThread DEF Roams
    <3> QED
      BY <1>0, <1>1, <3>2, <3>3, <3>4 DEF Roams, CleanerAlone, AllIdle, Threads
  <2> QED
    BY <2>1, <2>2
<1>7. ASSUME NEW v \in Workers, pc'[v] = "cleaning" PROVE cleanup_state' = "STARTING"
  <2>1. CASE v = w
    <3>1. StartCleanup(w) \/ AwaitIdlers(w)
      BY <1>0, <1>7, <2>1 DEF RoamingAction, HandleCleanup, NoCleanup, Idle, IdlerWakes,
             FinishCleanup, GetWorkWait, GetWorkExit, CleanupDelayed, CleanupFinds,
             WakeForWork, DeleteDelayed, Leave, Exit, Go
    <3> QED
      BY <1>0, <1>7, <2>1, <3>1 DEF StartCleanup, AwaitIdlers, Go, IInv, CleanupInv
  <2>2. CASE v # w
    <3>1. pc[v] = "cleaning" /\ cleanup_state = "STARTING" /\ v \in threads
      BY <1>1, <1>7, <2>2, PlainThread DEF Roams, Threads, IInv, CleanupInv, Plain
    <3>2. CASE AwaitIdlers(w)
      <4>1. ~AllIdle
        BY <2>2, <3>1, <3>2, AllIdleMeansAlone DEF AwaitIdlers
      <4> QED
        BY <3>1, <3>2, <4>1 DEF AwaitIdlers
    <3>3. CASE ~AwaitIdlers(w)
      BY <3>1, <3>3, CleanupStates DEF StartCleanup, FinishCleanup, CleanupFinds
    <3> QED
      BY <3>2, <3>3
  <2> QED
    BY <2>1, <2>2
<1> QED
  BY <1>2, <1>3, <1>4, <1>5, <1>6, <1>7 DEF IInv, CleanupInv

\* The cleaning worker ends the cleanup when nothing is left in the pool.
LEMMA CleanupFindsNothing ==
    ASSUME IInv, NEW w \in Workers, CleanupFinds(w)
    PROVE  pending \cup running = {}
<1>1. cleanup_state = "RUNNING" /\ pc[w] = "getwork" /\ NextTask = {}
  BY DEF CleanupFinds, NothingToRun
<1>2. w \in threads
  BY <1>1, PlainThread DEF Plain
<1>3. \A v \in Workers : task[v] = NoTask
  <2>1. \A v \in threads \ {w} : pc[v] = "idling"
    BY <1>1, <1>2 DEF IInv, CleanupInv, CleanerAlone
  <2>2. \A v \in Workers : v = w \/ pc[v] \in {"none", "starting", "idling"}
    BY <2>1 DEF IInv, CreationInv
  <2> QED
    BY <1>1, <2>2 DEF IInv, TaskInv, HasTask
<1>4. running = {}
  BY <1>3 DEF running
<1>5. current_sequences = {}
  <2>1. current_sequences \subseteq Tokens /\ Nobody \notin Tokens
    BY PoolAssumption DEF IInv, TypeOK
  <2>2. \A s \in current_sequences : s = Nobody
    BY <1>3 DEF IInv, TaskInv, NoTask
  <2> QED
    BY <2>1, <2>2
<1>6. Runnable = pending
  BY <1>5 DEF Runnable, IsSequenceTokenRunnable
<1>7. Droppable = {}
  BY <1>1 DEF Droppable, IInv, CleanupInv
<1>8. pending = {}
  BY <1>1, <1>6, <1>7, NextTaskExists DEF IInv
<1> QED
  BY <1>4, <1>8

LEMMA RoamingFlush ==
    ASSUME IInv, NEW w \in Workers, RoamingAction(w)
    PROVE  FlushInv'
<1>0. Main \in Threads /\ Main # w
  BY PoolAssumption DEF Threads
<1>1. Roams(w)
  BY RoamingActionsRoam
<1>2. /\ pc'[Main] = pc[Main] /\ flush' = flush /\ next_number' = next_number
      /\ pending' \subseteq pending /\ running' = running
  BY <1>0, <1>1, CleanupStates DEF Roams, running
<1>3. CASE CleanupFinds(w)
  <2>1. pending' \cup running' = {}
    BY <1>2, <1>3, CleanupFindsNothing
  <2> QED
    BY <1>2, <2>1 DEF IInv, FlushInv
<1>4. CASE ~CleanupFinds(w)
  <2>1. Flushed' => Flushed
    <3>1. \/ cleanup_state' = cleanup_state \/ StartCleanup(w) \/ AwaitIdlers(w)
          \/ FinishCleanup(w)
      BY <1>4, CleanupStates
    <3>2. CASE cleanup_state' = cleanup_state
      BY <1>2, <3>2 DEF Flushed
    <3>3. CASE StartCleanup(w)
      BY <3>3 DEF Flushed, StartCleanup
    <3>4. CASE AwaitIdlers(w)
      BY <1>2, <3>4 DEF Flushed, AwaitIdlers
    <3>5. CASE FinishCleanup(w)
      BY <1>2, <3>5 DEF Flushed, FinishCleanup
    <3> QED
      BY <3>1, <3>2, <3>3, <3>4, <3>5
  <2> QED
    BY <1>2, <2>1 DEF IInv, FlushInv
<1> QED
  BY <1>3, <1>4

\* The steps of a worker that has no task and gets none keep the invariant.
LEMMA RoamingStep ==
    ASSUME IInv, NEW w \in Workers, RoamingAction(w)
    PROVE  IInv'
BY RoamingActionsRoam, RoamKeeps, RoamingType, RoamingCleanup, RoamingFlush DEF IInv


-----------------------------------------------------------------------------
(* Steps that leave the tasks where they are *)

TasksKept ==
    /\ UNCHANGED <<pending, next_number, task, blocking_pending, blocking_threads>>
    /\ \A t \in Threads : post'[t].stage = "stamped" => post'[t] = post[t]
    /\ clock <= clock' /\ clock' \in Nat
    /\ \A w \in Workers : doomed'[w] \subseteq doomed[w]

LEMMA ThreadsFinite == IsFiniteSet(Threads)
BY PoolAssumption, FS_Union DEF Threads

LEMMA TasksKeptKeeps ==
    ASSUME IInv, TasksKept
    PROVE  NumberInv' /\ OrderInv' /\ CountInv' /\ DelayInv'
<1>1. running' = running /\ pending' = pending /\ next_number' = next_number /\ task' = task
  BY DEF TasksKept, running
<1>2. Stamped' \subseteq Stamped /\ \A t \in Stamped' : post'[t] = post[t]
  BY DEF TasksKept, Stamped
<1>3. IsFiniteSet(Stamped)
  BY ThreadsFinite, FS_Subset DEF Stamped
<1>4. NumberInv'
  <2>1. /\ Cardinality(Stamped') <= Cardinality(Stamped)
        /\ Cardinality(Stamped') \in Nat /\ Cardinality(Stamped) \in Nat
    BY <1>2, <1>3, FS_Subset, FS_CardinalityType
  <2>2. next_number + Cardinality(Stamped') <= MaxTasks
    BY <2>1, PoolAssumption DEF IInv, NumberInv, TypeOK
  <2> QED
    BY <1>1, <2>2 DEF IInv, NumberInv
<1>5. OrderInv'
  BY <1>1, <1>2 DEF IInv, OrderInv, BeforeOK, BeforeAmong, SequencesInOrder
<1>6. CountInv'
  <2>1. BlockingTasks' = BlockingTasks /\ BlockingWorkers' = BlockingWorkers
    BY <1>1 DEF BlockingTasks, BlockingWorkers
  <2> QED
    BY <1>1, <2>1 DEF IInv, CountInv, TasksKept
<1>7. DelayInv'
  <2>1. \A t \in pending : t.time \in Nat
    BY DEF IInv, TypeOK, Tasks
  <2>2. \A t \in Stamped : post[t].time \in Nat
    BY DEF IInv, PlacesInv, Posts, StampedPosts, Stamped
  <2>3. clock \in Nat /\ clock' \in Nat /\ clock <= clock'
    BY PoolAssumption DEF IInv, TypeOK, TasksKept
  <2>4. \A t \in pending' : t.time <= clock' \/ t.behavior = "SKIP_ON_SHUTDOWN"
    BY <1>1, <2>1, <2>3 DEF IInv, DelayInv
  <2>5. \A t \in Stamped' : post'[t].time <= clock' \/ post'[t].behavior = "SKIP_ON_SHUTDOWN"
    BY <1>2, <2>2, <2>3 DEF IInv, DelayInv
  <2>6. \A w \in Workers : \A t \in doomed'[w] : t.behavior # "BLOCK_SHUTDOWN"
    BY DEF TasksKept, IInv, DelayInv
  <2> QED
    BY <2>4, <2>5, <2>6 DEF DelayInv
<1> QED
  BY <1>4, <1>5, <1>6, <1>7

\* Where a new thread appears.
LEMMA StartedFacts ==
    ASSUME IInv, NEW t \in Threads, NEW q, pc[t] # "none", pc' \in Started(t, q)
    PROVE  /\ DOMAIN pc' = Threads
           /\ \E w \in Workers : /\ pc[w] = "none" /\ pc'[w] = "starting" /\ w # t
                                 /\ pc'[t] = q
                                 /\ \A u \in Threads \ {w, t} : pc'[u] = pc[u]
<1>1. DOMAIN pc = Threads
  BY DEF IInv, TypeOK
<1>2. PICK w \in Workers : /\ pc[w] = "none"
                           /\ pc' = [[pc EXCEPT ![w] = "starting"] EXCEPT ![t] = q]
  BY DEF Started
<1>3. w \in Threads
  BY DEF Threads
<1> QED
  BY <1>1, <1>2, <1>3

\* The moves of the client that owns the pool.
MainMoves ==
    /\ post[Main].stage = "none"
    /\ pc'[Main] \in ClientPlaces
    /\ \A t \in Threads \ {Main} : pc'[t] = pc[t]
    /\ UNCHANGED <<post, current_sequences, task, threads, being_created>>

LEMMA MainMovesKeeps ==
    ASSUME IInv, MainMoves
    PROVE  PlacesInv' /\ CreationInv' /\ TaskInv' /\ Idlers' = Idlers
<1>0. Main \in Clients /\ Main \notin Workers /\ Main \in Threads /\ Workers \subseteq Threads
  BY PoolAssumption DEF Threads
<1>1. pc[Main] \in ClientPlaces
  BY <1>0 DEF IInv, PlacesInv
<1>2. PlacesInv'
  BY <1>0 DEF IInv, PlacesInv, MainMoves
<1>3. CreationInv'
  <2>1. \A t \in Threads : Creating(t)' <=> Creating(t)
    BY <1>0, <1>1 DEF Creating, MainMoves, ClientPlaces
  <2>2. \A v \in Workers : pc'[v] = pc[v]
    BY <1>0 DEF MainMoves
  <2>3. threads \subseteq Workers
    BY DEF IInv, TypeOK
  <2> QED
    BY <2>1, <2>2, <2>3 DEF IInv, CreationInv, MainMoves
<1>4. TaskInv'
  <2>1. \A v \in Workers : HasTask(v)' <=> HasTask(v)
    BY <1>0 DEF HasTask, MainMoves
  <2> QED
    BY <2>1 DEF IInv, TaskInv, SequencesExclusive, MainMoves
<1>5. Idlers' = Idlers
  BY <1>0 DEF Idlers, MainMoves
<1> QED
  BY <1>2, <1>3, <1>4, <1>5

\* CleanerAlone depends on the workers only.
LEMMA CleanerAloneKept ==
    ASSUME IInv, CleanerAlone, UNCHANGED <<threads, being_created>>,
           \A w \in Workers : pc'[w] = pc[w]
    PROVE  CleanerAlone'
BY DEF CleanerAlone, IInv, TypeOK

-----------------------------------------------------------------------------
(* Shutdown and CleanupForTesting *)

LEMMA ShutdownStep ==
    ASSUME IInv, Shutdown
    PROVE  IInv'
<1> USE DEF queueVars, runVars, creationVars, cleanupVars
<1>0. Main \in Threads /\ DOMAIN pc = Threads
  BY PoolAssumption DEF Threads, IInv, TypeOK
<1>1. /\ MainMoves /\ TasksKept
  BY <1>0, PoolAssumption DEF Shutdown, Go, MainMoves, TasksKept, ClientPlaces, IInv, TypeOK
<1>2. /\ PlacesInv' /\ CreationInv' /\ TaskInv' /\ NumberInv' /\ OrderInv' /\ CountInv'
      /\ DelayInv' /\ Idlers' = Idlers
  BY <1>1, MainMovesKeeps, TasksKeptKeeps
<1>3. TypeOK'
  <2>1. asleep' \subseteq Threads
    BY SignalFacts DEF Shutdown, IInv
  <2>2. budget' \in Nat /\ DOMAIN pc' = Threads /\ shutdown_called' \in BOOLEAN
    BY <1>0, PoolAssumption DEF Shutdown, Go
  <2> QED
    BY <2>1, <2>2 DEF Shutdown, IInv, TypeOK
<1>4. DownInv'
  BY <1>0 DEF Shutdown, Go, CanShutdown, DownInv
<1>5. CleanupInv'
  <2>1. pc[Main] = "idle" /\ cleanup_state = "DONE" /\ cleanup_state' = cleanup_state
        /\ cleanup_idlers' = cleanup_idlers
    BY DEF Shutdown
  <2>2. \A w \in Workers : pc'[w] = pc[w]
    BY <1>1, PoolAssumption DEF MainMoves, Threads
  <2> QED
    BY <1>2, <2>1, <2>2 DEF IInv, CleanupInv
<1>6. FlushInv'
  <2>1. /\ cleanup_state' = "DONE" /\ pc'[Main] \in {"down", "shutting"} /\ flush' = flush
        /\ next_number' = next_number
    BY <1>0 DEF Shutdown, Go
  <2> QED
    BY <2>1 DEF FlushInv, Flushed, IInv
<1> QED
  BY <1>2, <1>3, <1>4, <1>5, <1>6 DEF IInv

LEMMA ShutdownWaitStep ==
    ASSUME IInv, ShutdownWait
    PROVE  IInv'
<1> USE DEF queueVars, runVars, creationVars, cleanupVars
<1>0. Main \in Threads /\ DOMAIN pc = Threads /\ Main \in Clients
  BY PoolAssumption DEF Threads, IInv, TypeOK
<1>a. post[Main].stage = "none" /\ pc[Main] = "shutting" /\ Main \notin Workers
  BY <1>0, PoolAssumption DEF IInv, PlacesInv, Home, ShutdownWait
<1>b. /\ UNCHANGED <<lock, post, doomed, deadline, clock, shutdown_called, pending,
                     next_number, blocking_pending, budget, blocking_threads,
                     current_sequences, task, threads, being_created, cleanup_state,
                     cleanup_idlers, flush>>
      /\ pc'[Main] = IF CanShutdown THEN "down" ELSE "shutting"
      /\ DOMAIN pc' = Threads /\ asleep' \subseteq Threads
      /\ \A t \in Threads \ {Main} : pc'[t] = pc[t]
  BY <1>0, <1>a DEF ShutdownWait, Go, IInv, TypeOK
<1>1. MainMoves
  BY <1>a, <1>b DEF MainMoves, ClientPlaces
<1>c. TasksKept
  BY <1>b, PoolAssumption DEF TasksKept, IInv, TypeOK
<1>2. /\ PlacesInv' /\ CreationInv' /\ TaskInv' /\ NumberInv' /\ OrderInv' /\ CountInv'
      /\ DelayInv' /\ Idlers' = Idlers
  BY <1>1, <1>c, MainMovesKeeps, TasksKeptKeeps
<1>3. TypeOK'
  BY <1>b DEF IInv, TypeOK
<1>4. shutdown_called /\ cleanup_state = "DONE"
  BY <1>a DEF IInv, DownInv, CleanupInv
<1>5. DownInv'
  BY <1>b, <1>4 DEF CanShutdown, DownInv
<1>6. CleanupInv'
  <2>1. \A w \in Workers : pc'[w] = pc[w]
    BY <1>a, <1>b DEF Threads
  <2> QED
    BY <1>2, <1>4, <1>b, <2>1 DEF IInv, CleanupInv
<1>7. FlushInv'
  BY <1>4, <1>b DEF FlushInv, Flushed, IInv
<1> QED
  BY <1>2, <1>3, <1>5, <1>6, <1>7 DEF IInv

LEMMA CleanupForTestingStep ==
    ASSUME IInv, CleanupForTesting
    PROVE  IInv'
<1>0. Main \in Threads /\ DOMAIN pc = Threads /\ Main \notin Workers
  BY PoolAssumption DEF Threads, IInv, TypeOK
<1>1. /\ UNCHANGED <<lock, post, doomed, deadline, clock, shutdown_called, pending,
                     next_number, blocking_pending, budget, blocking_threads,
                     current_sequences, task, threads, being_created>>
      /\ post[Main].stage = "none" /\ pc[Main] = "idle" /\ ~shutdown_called
      /\ cleanup_state = "DONE" /\ cleanup_state' = "REQUESTED" /\ cleanup_idlers' = 0
      /\ flush'.tasks = pending \cup running
      /\ pc' = [pc EXCEPT ![Main] = "flushing"]
  BY DEF CleanupForTesting, Go, queueVars, runVars, creationVars
<1>2. asleep' \subseteq Threads
  BY <1>0, SignalFacts DEF CleanupForTesting, IInv
<1>3. /\ pc'[Main] = "flushing" /\ DOMAIN pc' = Threads
      /\ \A t \in Threads \ {Main} : pc'[t] = pc[t]
  BY <1>0, <1>1
<1>4. MainMoves
  BY <1>1, <1>3 DEF MainMoves, ClientPlaces
<1>5. TasksKept
  BY <1>1, PoolAssumption DEF TasksKept, IInv, TypeOK
<1>6. /\ PlacesInv' /\ CreationInv' /\ TaskInv' /\ NumberInv' /\ OrderInv' /\ CountInv'
      /\ DelayInv' /\ Idlers' = Idlers
  BY <1>4, <1>5, MainMovesKeeps, TasksKeptKeeps
<1>7. TypeOK'
  BY <1>1, <1>2, <1>3 DEF IInv, TypeOK
<1>8. DownInv'
  BY <1>3 DEF DownInv
<1>9. CleanupInv'
  <2>1. \A w \in Workers : pc'[w] = pc[w]
    BY <1>0, <1>3 DEF Threads
  <2> QED
    BY <1>1, <1>3, <1>6, <2>1 DEF IInv, CleanupInv
<1>10. FlushInv'
  <2>1. \A t \in pending \cup running : t.number \in 0 .. (next_number - 1)
    BY DEF IInv, NumberInv
  <2> QED
    BY <1>1, <2>1 DEF FlushInv, Flushed
<1> QED
  BY <1>6, <1>7, <1>8, <1>9, <1>10 DEF IInv

LEMMA FlushWakesStep ==
    ASSUME IInv, FlushWakes
    PROVE  IInv'
<1>0. Main \in Threads /\ DOMAIN pc = Threads /\ Main \notin Workers /\ Main \in Clients
  BY PoolAssumption DEF Threads, IInv, TypeOK
<1>a. post[Main].stage = "none" /\ pc[Main] = "flushing"
  BY <1>0 DEF IInv, PlacesInv, Home, FlushWakes
<1>1. /\ UNCHANGED <<lock, post, doomed, deadline, clock, shutdown_called, pending,
                     next_number, blocking_pending, budget, blocking_threads,
                     current_sequences, task, threads, being_created, cleanup_state,
                     cleanup_idlers, flush>>
      /\ pc'[Main] = IF cleanup_state = "DONE" THEN "idle" ELSE "flushing"
      /\ DOMAIN pc' = Threads /\ asleep' \subseteq Threads
      /\ \A t \in Threads \ {Main} : pc'[t] = pc[t]
  BY <1>0, <1>a DEF FlushWakes, Go, IInv, TypeOK, queueVars, runVars, creationVars, cleanupVars
<1>4. MainMoves
  BY <1>1, <1>a DEF MainMoves, ClientPlaces
<1>5. TasksKept
  BY <1>1, PoolAssumption DEF TasksKept, IInv, TypeOK
<1>6. /\ PlacesInv' /\ CreationInv' /\ TaskInv' /\ NumberInv' /\ OrderInv' /\ CountInv'
      /\ DelayInv' /\ Idlers' = Idlers
  BY <1>4, <1>5, MainMovesKeeps, TasksKeptKeeps
<1>7. TypeOK'
  BY <1>1 DEF IInv, TypeOK
<1>8. DownInv'
  BY <1>1 DEF DownInv
<1>9. CleanupInv'
  <2>1. \A w \in Workers : pc'[w] = pc[w]
    BY <1>0, <1>1 DEF Threads
  <2>2. cleanup_state = "RUNNING" => CleanerAlone'
    BY <1>1, <2>1, CleanerAloneKept DEF IInv, CleanupInv
  <2> QED
    BY <1>1, <1>6, <2>1, <2>2 DEF IInv, CleanupInv
<1>10. FlushInv'
  <2>1. running' = running
    BY <1>1 DEF running
  <2> QED
    BY <1>1, <1>a, <2>1 DEF IInv, FlushInv, Flushed
<1> QED
  BY <1>6, <1>7, <1>8, <1>9, <1>10 DEF IInv

-----------------------------------------------------------------------------
(* Time, and posting outside the lock *)

\* Everything about where threads are, when no thread moves.
LEMMA NobodyMoves ==
    ASSUME IInv, UNCHANGED <<pc, task, current_sequences, threads, being_created,
                             shutdown_called, cleanup_state, cleanup_idlers>>
    PROVE  /\ TaskInv' /\ CleanupInv'
           /\ UNCHANGED <<blocking_threads, blocking_pending>> => DownInv'
           /\ UNCHANGED <<flush, pending, next_number>> => FlushInv'
<1>1. TaskInv'
  BY DEF IInv, TaskInv, HasTask, SequencesExclusive
<1>2. CleanupInv'
  <2>1. cleanup_state = "RUNNING" => CleanerAlone'
    BY CleanerAloneKept DEF IInv, CleanupInv
  <2> QED
    BY <2>1 DEF IInv, CleanupInv, Idlers
<1>3. UNCHANGED <<blocking_threads, blocking_pending>> => DownInv'
  BY DEF IInv, DownInv
<1>4. UNCHANGED <<flush, pending, next_number>> => FlushInv'
  BY DEF IInv, FlushInv, Flushed, running
<1> QED
  BY <1>1, <1>2, <1>3, <1>4

LEMMA TickStep ==
    ASSUME IInv, Tick
    PROVE  IInv'
<1>1. /\ UNCHANGED <<lock, pc, asleep, post, doomed, deadline, shutdown_called, pending,
                     next_number, blocking_pending, budget, blocking_threads,
                     current_sequences, task, threads, being_created, cleanup_state,
                     cleanup_idlers, flush>>
      /\ clock < MaxTime /\ clock' = clock + 1
  BY DEF Tick, queueVars, runVars, creationVars, cleanupVars
<1>2. clock \in Nat /\ MaxTime \in Nat /\ clock' \in 0 .. MaxTime /\ clock <= clock'
  BY <1>1, PoolAssumption DEF IInv, TypeOK
<1>3. TasksKept
  BY <1>1, <1>2 DEF TasksKept
<1>4. TypeOK'
  BY <1>1, <1>2 DEF IInv, TypeOK
<1>5. PlacesInv' /\ CreationInv'
  BY <1>1 DEF IInv, PlacesInv, CreationInv, Creating
<1> QED
  BY <1>1, <1>3, <1>4, <1>5, NobodyMoves, TasksKeptKeeps DEF IInv

LEMMA PostRefusedStep ==
    ASSUME IInv, NEW t \in Threads, PostRefused(t)
    PROVE  IInv'
<1>1. /\ UNCHANGED <<lock, pc, asleep, doomed, deadline, clock, shutdown_called, pending,
                     next_number, blocking_pending, budget, blocking_threads,
                     current_sequences, task, threads, being_created, cleanup_state,
                     cleanup_idlers, flush>>
      /\ post' = [post EXCEPT ![t] = NoPost]
  BY DEF PostRefused, queueVars, runVars, creationVars, cleanupVars
<1>2. /\ DOMAIN post' = Threads /\ post'[t] = NoPost
      /\ \A u \in Threads \ {t} : post'[u] = post[u]
  BY <1>1 DEF IInv, TypeOK
<1>3. NoPost \in Posts /\ NoPost.stage = "none"
  BY DEF NoPost, Posts
<1>4. TasksKept
  BY <1>1, <1>2, <1>3, PoolAssumption DEF TasksKept, IInv, TypeOK
<1>5. TypeOK'
  BY <1>1, <1>2 DEF IInv, TypeOK
<1>6. PlacesInv'
  BY <1>1, <1>2, <1>3 DEF IInv, PlacesInv
<1>7. CreationInv'
  <2>1. \A u \in Threads : Creating(u)' => Creating(u)
    BY <1>1, <1>2, <1>3 DEF Creating
  <2> QED
    BY <1>1, <2>1 DEF IInv, CreationInv
<1> QED
  BY <1>1, <1>4, <1>5, <1>6, <1>7, NobodyMoves, TasksKeptKeeps DEF IInv

\* time_to_run and the tasks of the sequence to run before are noted.
LEMMA PostTaskStep ==
    ASSUME IInv, NEW t \in Threads, NEW token \in Tokens \cup {Nobody},
           NEW b \in Behaviors, NEW d \in Delays, PostTask(t, token, b, d)
    PROVE  IInv'
<1> DEFINE p == [stage |-> "stamped", token |-> token, behavior |-> b, time |-> clock + d,
                 before |-> {u.number : u \in {v \in pending : /\ v.token = token
                                                              /\ token # Nobody
                                                              /\ v.time <= clock + d}}]
<1>1. /\ UNCHANGED <<lock, pc, asleep, doomed, deadline, clock, shutdown_called, pending,
                     next_number, blocking_pending, budget, blocking_threads,
                     current_sequences, task, threads, being_created, cleanup_state,
                     cleanup_idlers, flush>>
      /\ post' = [post EXCEPT ![t] = p]
      /\ post[t].stage = "none" /\ pc[t] = Home(t)
      /\ next_number + Cardinality(Stamped) < MaxTasks
      /\ d > 0 => b = "SKIP_ON_SHUTDOWN"
  BY DEF PostTask, MayPost, Home, Stamped, queueVars, runVars, creationVars, cleanupVars
<1>2. /\ DOMAIN post' = Threads /\ post'[t] = p
      /\ \A u \in Threads \ {t} : post'[u] = post[u]
  BY <1>1 DEF IInv, TypeOK
<1>3. \A u \in pending : u.number \in 0 .. (next_number - 1) /\ u.number \in 0 .. MaxTasks
  BY PoolAssumption DEF IInv, NumberInv, TypeOK
<1>4. clock \in Nat /\ d \in Nat /\ clock + d \in Nat
  BY PoolAssumption DEF IInv, TypeOK
<1>5. p \in StampedPosts /\ p.before \subseteq 0 .. (next_number - 1)
  BY <1>3, <1>4 DEF StampedPosts
<1>6. /\ p.stage = "stamped" /\ p.token = token /\ p.behavior = b /\ p.time = clock + d
  OBVIOUS
<1>7. \A u \in pending : u.number \in p.before =>
          u.token = token /\ token # Nobody /\ u.time <= clock + d
  <2>1. TAKE u \in pending
  <2>2. HAVE u.number \in p.before
  <2>3. PICK v \in pending : /\ v.token = token /\ token # Nobody /\ v.time <= clock + d
                             /\ v.number = u.number
    BY <2>2
  <2>4. v = u
    BY <2>3 DEF IInv, NumberInv
  <2> QED
    BY <2>3, <2>4
<1>8. \A u \in running : u.number \notin p.before
  BY DEF IInv, NumberInv
<1>9. t \notin Stamped /\ Stamped' = Stamped \cup {t} /\ IsFiniteSet(Stamped)
  BY <1>1, <1>2, <1>6, ThreadsFinite, FS_Subset DEF Stamped
<1>10. running' = running
  BY <1>1 DEF running
<1> HIDE DEF p
<1>11. NumberInv'
  <2>1. Cardinality(Stamped') = Cardinality(Stamped) + 1 /\ Cardinality(Stamped) \in Nat
    BY <1>9, CardinalityOf
  <2>2. next_number + Cardinality(Stamped') <= MaxTasks
    BY <1>1, <2>1, PoolAssumption DEF IInv, TypeOK
  <2> QED
    BY <1>1, <1>10, <2>2 DEF IInv, NumberInv
<1>12. OrderInv'
  <2>1. BeforeOK(p, next_number)
    BY <1>5, <1>6, <1>7, <1>8 DEF BeforeOK, BeforeAmong
  <2>2. \A u \in Stamped' : BeforeOK(post'[u], next_number)
    BY <1>2, <1>9, <2>1 DEF IInv, OrderInv, Stamped
  <2> QED
    BY <1>1, <1>10, <2>2 DEF IInv, OrderInv, BeforeOK, BeforeAmong, SequencesInOrder
<1>13. CountInv'
  BY <1>1 DEF IInv, CountInv, BlockingTasks, BlockingWorkers
<1>14. DelayInv'
  <2>1. p.time <= clock \/ p.behavior = "SKIP_ON_SHUTDOWN"
    BY <1>1, <1>4, <1>6
  <2> QED
    BY <1>1, <1>2, <1>9, <2>1 DEF IInv, DelayInv, Stamped
<1>15. TypeOK'
  BY <1>1, <1>2 DEF IInv, TypeOK
<1>16. PlacesInv'
  BY <1>1, <1>2, <1>5 DEF IInv, PlacesInv, Posts, Home
<1>17. CreationInv'
  <2>1. \A u \in Threads : Creating(u)' => Creating(u)
    BY <1>1, <1>2, <1>6 DEF Creating
  <2> QED
    BY <1>1, <2>1 DEF IInv, CreationInv
<1> QED
  BY <1>1, <1>11, <1>12, <1>13, <1>14, <1>15, <1>16, <1>17, NobodyMoves DEF IInv


-----------------------------------------------------------------------------
(* Posting with the lock *)

\* Once Shutdown() has returned nothing is accepted: a task that may still post would
\* be counted in blocking_shutdown_thread_count_.
LEMMA NotAcceptedWhenDown ==
    ASSUME IInv, NEW t \in Threads, Accepted(t)
    PROVE  pc[Main] # "down"
<1> SUFFICES ASSUME pc[Main] = "down" PROVE FALSE
  OBVIOUS
<1>1. shutdown_called /\ blocking_threads = 0
  BY DEF IInv, DownInv
<1>2. t \in threads /\ task[t].behavior # "CONTINUE_ON_SHUTDOWN" /\ threads \subseteq Workers
  BY <1>1 DEF Accepted, CurrentThreadShutdownBehavior, IInv, TypeOK
<1>3. t \in BlockingWorkers /\ IsFiniteSet(BlockingWorkers)
  BY <1>2, PoolAssumption, FS_Subset DEF BlockingWorkers
<1>4. Cardinality(BlockingWorkers) = 0
  BY <1>1 DEF IInv, CountInv
<1>5. Cardinality(BlockingWorkers) - 1 \in Nat
  BY <1>3, CardinalityOf
<1> QED
  BY <1>4, <1>5

\* Later tasks do not come before x.
LEMMA BeforeMore ==
    ASSUME NEW x, NEW n \in Int, NEW m \in Int, n <= m, NEW S, NEW R, BeforeAmong(x, n, S),
           \A u \in R : u \in S \/ u.number \notin 0 .. (n - 1)
    PROVE  BeforeAmong(x, m, R)
<1>1. x.before \subseteq 0 .. (n - 1) /\ 0 .. (n - 1) \subseteq 0 .. (m - 1)
  BY DEF BeforeAmong
<1> QED
  BY <1>1 DEF BeforeAmong

LEMMA PostLockedStep ==
    ASSUME IInv, NEW t \in Threads, PostLocked(t)
    PROVE  IInv'
<1> DEFINE new == [number |-> next_number, token |-> post[t].token,
                   behavior |-> post[t].behavior, time |-> post[t].time,
                   before |-> post[t].before]
           create == Helpful(pending \cup {new}, current_sequences)
           p == [stage |-> IF create THEN "create" ELSE "signal"]
<1>1. /\ UNCHANGED <<lock, pc, asleep, doomed, deadline, clock, shutdown_called,
                     blocking_threads, current_sequences, task, threads, cleanup_state,
                     cleanup_idlers, flush>>
      /\ post[t].stage = "stamped" /\ Accepted(t)
      /\ pending' = pending \cup {new} /\ next_number' = next_number + 1
      /\ blocking_pending' = blocking_pending + Blocks(new)
      /\ budget' = IF shutdown_called THEN budget - 1 ELSE budget
      /\ being_created' = (being_created \/ create)
      /\ post' = [post EXCEPT ![t] = p]
  BY DEF PostLocked, runVars, cleanupVars
<1>2. create => ~being_created /\ cleanup_state = "DONE" /\ Cardinality(threads) < MaxThreads
  BY DEF Helpful
<1>3. post[t] \in StampedPosts
  BY <1>1 DEF IInv, PlacesInv, Posts
<1>4. /\ new.number = next_number /\ new.token = post[t].token
      /\ new.behavior = post[t].behavior /\ new.time = post[t].time
      /\ new.before = post[t].before
  OBVIOUS
<1>5. p.stage = (IF create THEN "create" ELSE "signal") /\ p \in Posts
  BY DEF Posts
<1>a. running' = running
  BY <1>1 DEF running
<1> HIDE DEF create, p
<1>6. /\ DOMAIN post' = Threads /\ post'[t] = p
      /\ \A u \in Threads \ {t} : post'[u] = post[u]
  BY <1>1 DEF IInv, TypeOK
<1>7. t \in Stamped /\ Stamped' = Stamped \ {t} /\ IsFiniteSet(Stamped)
  BY <1>1, <1>5, <1>6, ThreadsFinite, FS_Subset DEF Stamped
<1>8. /\ Cardinality(Stamped') = Cardinality(Stamped) - 1
      /\ Cardinality(Stamped) - 1 \in Nat /\ Cardinality(Stamped) \in Nat
  BY <1>7, CardinalityOf
<1>9. next_number \in Nat /\ MaxTasks \in Nat /\ next_number + Cardinality(Stamped) <= MaxTasks
  BY PoolAssumption DEF IInv, TypeOK, NumberInv
<1>10. /\ next_number + 1 \in 0 .. MaxTasks
       /\ (next_number + 1) + Cardinality(Stamped') <= MaxTasks
  BY <1>8, <1>9
<1>11. new \in Tasks
  BY <1>3, <1>9, <1>10 DEF StampedPosts, Tasks
<1>12. /\ \A u \in pending \cup running : u.number \in 0 .. (next_number - 1)
       /\ new \notin pending
  BY <1>4, <1>9 DEF IInv, NumberInv
<1> HIDE DEF new
<1>13. TypeOK'
  <2>1. budget' \in Nat
    BY <1>1 DEF Accepted, IInv, TypeOK
  <2>2. blocking_pending' \in Nat
    BY <1>1 DEF Blocks, IInv, TypeOK
  <2>3. pending' \subseteq Tasks /\ next_number' \in 0 .. MaxTasks
    BY <1>1, <1>10, <1>11 DEF IInv, TypeOK
  <2>4. being_created' \in BOOLEAN
    BY <1>1
  <2> QED
    BY <1>1, <1>6, <2>1, <2>2, <2>3, <2>4 DEF IInv, TypeOK
<1>14. PlacesInv'
  BY <1>1, <1>5, <1>6 DEF IInv, PlacesInv, Home
<1>15. CreationInv'
  <2>1. \A u \in Threads \ {t} : Creating(u)' <=> Creating(u)
    BY <1>1, <1>6 DEF Creating
  <2>2. Cardinality(threads) \in Nat
    BY PoolAssumption, FS_Subset, FS_CardinalityType DEF IInv, TypeOK
  <2>3. CASE create
    <3>1. \A u \in Threads : ~Creating(u)
      BY <1>2, <2>3 DEF IInv, CreationInv
    <3>2. \A u \in Threads : Creating(u)' => u = t
      BY <2>1, <3>1
    <3>3. Cardinality(threads) + 1 <= MaxThreads
      BY <1>2, <2>2, <2>3, PoolAssumption
    <3>4. being_created'
      BY <1>1, <2>3
    <3> QED
      BY <1>1, <3>2, <3>3, <3>4 DEF IInv, CreationInv
  <2>4. CASE ~create
    <3>1. \A u \in Threads : Creating(u)' => Creating(u)
      BY <1>1, <1>5, <1>6, <2>1, <2>4 DEF Creating
    <3>2. being_created' = being_created
      BY <1>1, <2>4 DEF IInv, TypeOK
    <3> QED
      BY <1>1, <3>1, <3>2 DEF IInv, CreationInv
  <2> QED
    BY <2>3, <2>4
<1>16. TaskInv'
  BY <1>1 DEF IInv, TaskInv, HasTask, SequencesExclusive
<1>17. NumberInv'
  <2>1. \A u \in pending' \cup running' : u.number \in 0 .. (next_number' - 1)
    BY <1>1, <1>a, <1>4, <1>9, <1>12
  <2>2. \A u, v \in pending' : u.number = v.number => u = v
    BY <1>1, <1>4, <1>9, <1>12 DEF IInv, NumberInv
  <2>3. \A u \in pending', v \in running' : u.number # v.number
    BY <1>1, <1>a, <1>4, <1>9, <1>12 DEF IInv, NumberInv
  <2> QED
    BY <1>1, <1>10, <2>1, <2>2, <2>3 DEF NumberInv

<1>18. OrderInv'
  <2> DEFINE S == pending \cup running
             R == pending' \cup running'
  <2>0. next_number' = next_number + 1 /\ next_number \in Nat
    BY <1>1, <1>9
  <2>1. \A u \in R : u \in S \/ u.number = next_number
    BY <1>1, <1>a, <1>4
  <2>2. ASSUME NEW x \in pending PROVE BeforeAmong(x, x.number, R)
    <3>1. BeforeAmong(x, x.number, S)
      BY DEF IInv, OrderInv, BeforeOK
    <3>2. x.number \in 0 .. (next_number - 1)
      BY <1>12
    <3>3. \A u \in R : u \in S \/ u.number \notin 0 .. (x.number - 1)
      BY <2>0, <2>1, <3>2
    <3> HIDE DEF S, R
    <3> QED
      BY <3>1, <3>2, <3>3, BeforeMore
  <2>3. \A u \in R : u \in S \/ u.number \notin 0 .. (next_number - 1)
    BY <2>0, <2>1
  <2>4. ASSUME NEW u \in Stamped, NEW m \in Int, next_number <= m
        PROVE  BeforeAmong(post[u], m, R)
    <3>1. BeforeAmong(post[u], next_number, S)
      BY DEF IInv, OrderInv, BeforeOK
    <3> HIDE DEF S, R
    <3> QED
      BY <2>0, <2>3, <2>4, <3>1, BeforeMore
  <2>5. BeforeAmong(new, new.number, R)
    <3>1. BeforeAmong(post[t], next_number, R)
      BY <1>7, <2>0, <2>4
    <3> QED
      BY <1>4, <3>1 DEF BeforeAmong
  <2>6. \A u \in Stamped' : BeforeAmong(post'[u], next_number', R)
    <3>1. \A u \in Stamped' : u \in Stamped /\ post'[u] = post[u]
      BY <1>6, <1>7 DEF Stamped
    <3> QED
      BY <2>0, <2>4, <3>1
  <2>7. \A w \in Workers : task[w].before \subseteq 0 .. (next_number - 1)
    BY DEF IInv, OrderInv
  <2>8. SequencesInOrder'
    <3>1. \A w \in Workers : \A u \in R : u.number \notin task[w].before
      BY <2>0, <2>1, <2>7 DEF IInv, OrderInv, SequencesInOrder
    <3> QED
      BY <1>1, <3>1 DEF SequencesInOrder
  <2>9. \A w \in Workers : task'[w].before \subseteq 0 .. (next_number' - 1)
    <3>1. 0 .. (next_number - 1) \subseteq 0 .. (next_number' - 1)
      BY <2>0
    <3> QED
      BY <1>1, <2>7, <3>1
  <2>10. \A x \in pending' : BeforeAmong(x, x.number, R)
    BY <1>1, <2>2, <2>5
  <2> QED
    BY <2>6, <2>8, <2>9, <2>10 DEF OrderInv, BeforeOK
<1>19. CountInv'
  <2>1. IsFiniteSet(pending) /\ IsFiniteSet(BlockingTasks) /\ new \notin BlockingTasks
    BY <1>12, FS_Subset DEF IInv, CountInv, BlockingTasks
  <2>2. IsFiniteSet(pending')
    BY <1>1, <2>1, FS_AddElement
  <2>3. BlockingWorkers' = BlockingWorkers
    BY <1>1 DEF BlockingWorkers
  <2>4. blocking_pending' = Cardinality(BlockingTasks')
    <3>1. CASE new.behavior = "BLOCK_SHUTDOWN"
      <4>1. BlockingTasks' = BlockingTasks \cup {new}
        BY <1>1, <3>1 DEF BlockingTasks
      <4>2. blocking_pending' = Cardinality(BlockingTasks) + 1
        BY <1>1, <3>1 DEF Blocks, IInv, CountInv
      <4> QED
        BY <2>1, <4>1, <4>2, CardinalityOf
    <3>2. CASE new.behavior # "BLOCK_SHUTDOWN"
      <4>1. BlockingTasks' = BlockingTasks
        BY <1>1, <3>2 DEF BlockingTasks
      <4>2. blocking_pending' = blocking_pending
        BY <1>1, <3>2 DEF Blocks, IInv, TypeOK
      <4> QED
        BY <4>1, <4>2 DEF IInv, CountInv
    <3> QED
      BY <3>1, <3>2
  <2> QED
    BY <1>1, <2>2, <2>3, <2>4 DEF IInv, CountInv
<1>20. DelayInv'
  <2>1. new.time <= clock \/ new.behavior = "SKIP_ON_SHUTDOWN"
    BY <1>4, <1>7 DEF IInv, DelayInv
  <2>2. \A u \in Stamped' : u \in Stamped /\ post'[u] = post[u]
    BY <1>6, <1>7 DEF Stamped
  <2> QED
    BY <1>1, <2>1, <2>2 DEF IInv, DelayInv
<1>21. DownInv'
  BY <1>1, NotAcceptedWhenDown DEF IInv, DownInv
<1>22. CleanupInv'
  <2>1. CASE cleanup_state = "RUNNING"
    <3>1. being_created' = being_created
      BY <1>1, <1>2, <2>1 DEF IInv, TypeOK
    <3>2. CleanerAlone'
      BY <1>1, <2>1, <3>1, CleanerAloneKept DEF IInv, CleanupInv
    <3> QED
      BY <1>1, <3>2 DEF IInv, CleanupInv, Idlers
  <2>2. CASE cleanup_state # "RUNNING"
    BY <1>1, <2>2 DEF IInv, CleanupInv, Idlers
  <2> QED
    BY <2>1, <2>2
<1>23. FlushInv'
  <2>1. \A u \in flush.tasks : u.number \in 0 .. (next_number - 1)
    BY DEF IInv, FlushInv
  <2>2. new \notin flush.tasks
    BY <1>4, <1>9, <2>1
  <2>3. \A u \in flush.tasks : u.number \in 0 .. (next_number' - 1)
    BY <1>1, <1>9, <2>1
  <2> QED
    BY <1>1, <1>a, <2>1, <2>2, <2>3 DEF IInv, FlushInv, Flushed
<1> QED
  BY <1>13, <1>14, <1>15, <1>16, <1>17, <1>18, <1>19, <1>20, <1>21, <1>22, <1>23 DEF IInv


-----------------------------------------------------------------------------
(* New threads *)

CleanerPlaces == {"loop", "getwork", "announce", "running", "deleting"}

\* What a worker that does not take part in the cleanup as an idler does to it.
LEMMA BusyCleanup ==
    ASSUME IInv, NEW w \in Workers,
           pc[w] \notin {"idling", "cleaning"}, pc'[w] \notin {"idling", "cleaning"},
           pc'[Main] = pc[Main],
           \A v \in Workers \ {w} :
               pc'[v] = pc[v] \/ (pc[v] = "none" /\ pc'[v] = "starting"),
           UNCHANGED <<cleanup_state, cleanup_idlers, shutdown_called>>,
           cleanup_state = "RUNNING" =>
               /\ UNCHANGED <<threads, being_created>>
               /\ \A v \in Workers \ {w} : pc'[v] = pc[v]
               /\ pc[w] \in CleanerPlaces /\ pc'[w] \in CleanerPlaces
    PROVE  CleanupInv'
<1>1. Idlers' = Idlers
  BY DEF Idlers
<1>2. \A v \in Workers : pc'[v] = "cleaning" => pc[v] = "cleaning"
  OBVIOUS
<1>3. ASSUME cleanup_state = "RUNNING" PROVE CleanerAlone'
  <2>1. PICK c \in threads : /\ pc[c] \in CleanerPlaces
                             /\ \A v \in threads \ {c} : pc[v] = "idling"
    BY <1>3 DEF IInv, CleanupInv, CleanerAlone, CleanerPlaces
  <2>2. w \in threads /\ threads \subseteq Workers
    BY <1>3 DEF IInv, CreationInv, TypeOK, CleanerPlaces
  <2>3. c = w
    BY <1>3, <2>1, <2>2 DEF CleanerPlaces
  <2> QED
    BY <1>3, <2>1, <2>2, <2>3 DEF CleanerAlone, CleanerPlaces, IInv, CleanupInv
<1> QED
  BY <1>1, <1>2, <1>3 DEF IInv, CleanupInv

\* A thread that was created takes the lock for the first time.
LEMMA ThreadStartStep ==
    ASSUME IInv, NEW w \in Workers, ThreadStart(w)
    PROVE  IInv'
<1>0. w \in Threads /\ Main \in Threads /\ w # Main /\ DOMAIN pc = Threads /\ w \notin Clients
  BY PoolAssumption DEF Threads, IInv, TypeOK
<1>1. /\ UNCHANGED <<asleep, post, doomed, deadline, clock, shutdown_called, pending,
                     next_number, blocking_pending, budget, blocking_threads,
                     current_sequences, task, cleanup_state, cleanup_idlers, flush>>
      /\ pc[w] = "starting" /\ lock' = w
      /\ pc' = [pc EXCEPT ![w] = "loop"]
      /\ threads' = threads \cup {w} /\ being_created' = FALSE
  BY DEF ThreadStart, Acquire, Go, queueVars, runVars, cleanupVars
<1>2. /\ pc'[w] = "loop" /\ DOMAIN pc' = Threads
      /\ \A t \in Threads \ {w} : pc'[t] = pc[t]
  BY <1>0, <1>1
<1>3. TasksKept
  BY <1>1, PoolAssumption DEF TasksKept, IInv, TypeOK
<1>4. post[w].stage = "none"
  BY <1>0, <1>1 DEF IInv, PlacesInv, Home
<1>5. Creating(w) /\ being_created /\ \A t \in Threads \ {w} : ~Creating(t)
  BY <1>0, <1>1 DEF IInv, CreationInv, Creating
<1>6. TypeOK'
  BY <1>1, <1>2 DEF IInv, TypeOK
<1>7. PlacesInv'
  BY <1>0, <1>1, <1>2, <1>4 DEF IInv, PlacesInv, WorkerPlaces, Home
<1>8. CreationInv'
  <2>1. \A t \in Threads : ~Creating(t)'
    BY <1>1, <1>2, <1>4, <1>5 DEF Creating
  <2>2. \A v \in Workers \ {w} : pc'[v] = pc[v]
    BY <1>2 DEF Threads
  <2>3. w \notin threads /\ IsFiniteSet(threads)
    BY <1>1, PoolAssumption, FS_Subset DEF IInv, CreationInv, TypeOK
  <2>4. Cardinality(threads') = Cardinality(threads) + 1 /\ Cardinality(threads) \in Nat
    BY <1>1, <2>3, CardinalityOf
  <2>5. Cardinality(threads') + (IF being_created' THEN 1 ELSE 0) <= MaxThreads
    BY <1>1, <1>5, <2>4 DEF IInv, CreationInv
  <2>6. \A v \in Workers : pc'[v] # "none" <=> (v \in threads' \/ pc'[v] = "starting")
    BY <1>1, <1>2, <2>2 DEF IInv, CreationInv
  <2>7. \A v \in threads' : pc'[v] # "starting"
    <3>1. threads \subseteq Workers
      BY DEF IInv, TypeOK
    <3> QED
      BY <1>1, <1>2, <2>2, <2>3, <3>1 DEF IInv, CreationInv
  <2> QED
    BY <2>1, <2>5, <2>6, <2>7 DEF CreationInv
<1>9. TaskInv'
  <2>1. \A v \in Workers : HasTask(v)' <=> HasTask(v)
    BY <1>1, <1>2 DEF HasTask, Threads
  <2> QED
    BY <1>1, <2>1 DEF IInv, TaskInv, SequencesExclusive
<1>10. DownInv'
  BY <1>0, <1>1, <1>2 DEF IInv, DownInv
<1>11. CleanupInv'
  <2>1. cleanup_state # "RUNNING"
    BY <1>5 DEF IInv, CleanupInv, CleanerAlone
  <2>2. \A v \in Workers \ {w} : pc'[v] = pc[v]
    BY <1>2 DEF Threads
  <2> QED
    BY <1>0, <1>1, <1>2, <2>1, <2>2, BusyCleanup
<1>12. FlushInv'
  BY <1>0, <1>1, <1>2 DEF IInv, FlushInv, Flushed, running
<1> QED
  BY <1>3, <1>6, <1>7, <1>8, <1>9, <1>10, <1>11, <1>12, TasksKeptKeeps DEF IInv

\* What the start of a thread by t, which goes to q and is done with creating, keeps.
LEMMA StartKeeps ==
    ASSUME IInv, NEW t \in Threads, NEW q, Creating(t), pc' \in Started(t, q),
           pc[t] # "none", pc[t] # "starting",
           t \in Clients => q = pc[t],
           t \in Workers => q = "running" /\ HasTask(t),
           post'[t] = NoPost, \A u \in Threads \ {t} : post'[u] = post[u],
           UNCHANGED <<threads, being_created, task, current_sequences, shutdown_called,
                       blocking_threads, blocking_pending, cleanup_state, cleanup_idlers>>
    PROVE  /\ PlacesInv' /\ CreationInv' /\ TaskInv' /\ DownInv' /\ CleanupInv'
           /\ DOMAIN pc' = Threads /\ pc'[Main] = pc[Main]
<1>1. PICK w \in Workers : /\ pc[w] = "none" /\ pc'[w] = "starting" /\ w # t /\ pc'[t] = q
                           /\ \A u \in Threads \ {w, t} : pc'[u] = pc[u]
  BY StartedFacts
<1>2. DOMAIN pc' = Threads
  BY StartedFacts
<1>3. /\ w \in Threads /\ w \notin Clients /\ Main \in Threads /\ Main \in Clients
      /\ Main \notin Workers /\ (t \in Workers \/ t \in Clients) /\ ~(t \in Workers /\ t \in Clients)
  BY PoolAssumption DEF Threads
<1>4. pc'[Main] = pc[Main]
  BY <1>1, <1>3
<1>5. NoPost \in Posts /\ NoPost.stage = "none"
  BY DEF NoPost, Posts
<1>6. post[w].stage = "none" /\ post'[w].stage = "none"
  BY <1>1, <1>3 DEF IInv, PlacesInv, Home
<1>7. PlacesInv'
  <2>1. ASSUME NEW u \in Threads
        PROVE  /\ u \in Workers => pc'[u] \in WorkerPlaces
               /\ u \in Clients => pc'[u] \in ClientPlaces
               /\ post'[u] \in Posts
               /\ post'[u].stage # "none" => pc'[u] = Home(u)
    <3>1. CASE u = w
      BY <1>1, <1>3, <1>6, <3>1 DEF IInv, PlacesInv, WorkerPlaces
    <3>2. CASE u = t
      BY <1>1, <1>3, <1>5, <3>2 DEF IInv, PlacesInv, WorkerPlaces
    <3>3. CASE u # w /\ u # t
      BY <1>1, <3>3 DEF IInv, PlacesInv
    <3> QED
      BY <3>1, <3>2, <3>3
  <2> QED
    BY <2>1 DEF PlacesInv, Home
<1>8. CreationInv'
  <2>1. being_created /\ \A u \in Threads \ {t} : ~Creating(u)
    BY DEF IInv, CreationInv
  <2>2. ~Creating(t)'
    <3>1. q \notin {"announce_create", "starting"}
      BY <1>3 DEF IInv, PlacesInv, ClientPlaces
    <3> QED
      BY <1>1, <1>5, <3>1 DEF Creating
  <2>3. \A u \in Threads \ {t, w} : ~Creating(u)'
    BY <1>1, <2>1 DEF Creating
  <2>4. \A u \in Threads : Creating(u)' => u = w
    BY <2>2, <2>3
  <2>5. t \in Workers => pc'[t] = "running" /\ t \in threads
    BY <1>1 DEF IInv, CreationInv
  <2>6. threads \subseteq Workers /\ w \notin threads
    BY <1>1 DEF IInv, TypeOK, CreationInv
  <2>7. \A v \in Workers : pc'[v] # "none" <=> (v \in threads \/ pc'[v] = "starting")
    <3>1. \A v \in Workers \ {w, t} : pc'[v] = pc[v]
      BY <1>1 DEF Threads
    <3> QED
      BY <1>1, <2>5, <3>1 DEF IInv, CreationInv
  <2>8. \A v \in threads : pc'[v] # "starting"
    <3>1. \A v \in Workers \ {w, t} : pc'[v] = pc[v]
      BY <1>1 DEF Threads
    <3> QED
      BY <1>1, <2>5, <2>6, <3>1 DEF IInv, CreationInv
  <2> QED
    BY <2>1, <2>4, <2>7, <2>8 DEF IInv, CreationInv
<1>9. TaskInv'
  <2>1. \A v \in Workers : HasTask(v)' <=> HasTask(v)
    <3>1. \A v \in Workers \ {w, t} : pc'[v] = pc[v]
      BY <1>1 DEF Threads
    <3> QED
      BY <1>1, <3>1 DEF HasTask
  <2> QED
    BY <2>1 DEF IInv, TaskInv, SequencesExclusive
<1>10. DownInv'
  BY <1>4 DEF IInv, DownInv
<1>11. CleanupInv'
  <2>1. cleanup_state # "RUNNING"
    BY DEF IInv, CleanupInv, CleanerAlone, CreationInv
  <2>2. CASE t \in Workers
    <3>1. \A v \in Workers \ {t} : pc'[v] = pc[v] \/ (pc[v] = "none" /\ pc'[v] = "starting")
      BY <1>1 DEF Threads
    <3>2. pc[t] \notin {"idling", "cleaning"} /\ pc'[t] \notin {"idling", "cleaning"}
      BY <1>1, <2>2 DEF HasTask
    <3> QED
      BY <1>4, <2>1, <2>2, <3>1, <3>2, BusyCleanup
  <2>3. CASE t \notin Workers
    <3>1. \A v \in Workers \ {w} : pc'[v] = pc[v]
      BY <1>1, <2>3 DEF Threads
    <3> QED
      BY <1>1, <1>4, <2>1, <3>1, BusyCleanup
  <2> QED
    BY <2>2, <2>3
<1> QED
  BY <1>2, <1>4, <1>7, <1>8, <1>9, <1>10, <1>11


\* The end of PostTask, outside the lock.
LEMMA PostFinishStep ==
    ASSUME IInv, NEW t \in Threads, PostFinish(t)
    PROVE  IInv'
<1>1. /\ UNCHANGED <<lock, doomed, deadline, clock, shutdown_called, pending,
                     next_number, blocking_pending, budget, blocking_threads,
                     current_sequences, task, threads, being_created, cleanup_state,
                     cleanup_idlers, flush>>
      /\ post' = [post EXCEPT ![t] = NoPost]
  BY DEF PostFinish, queueVars, runVars, creationVars, cleanupVars
<1>2. /\ DOMAIN post' = Threads /\ post'[t] = NoPost
      /\ \A u \in Threads \ {t} : post'[u] = post[u]
  BY <1>1 DEF IInv, TypeOK
<1>3. NoPost \in Posts /\ NoPost.stage = "none"
  BY DEF NoPost, Posts
<1>4. TasksKept
  BY <1>1, <1>2, <1>3, PoolAssumption DEF TasksKept, IInv, TypeOK
<1>5. running' = running
  BY <1>1 DEF running
<1>6. CASE post[t].stage = "create"
  <2>1. pc' \in Started(t, pc[t]) /\ asleep' = asleep
    BY <1>6 DEF PostFinish
  <2>2. pc[t] = Home(t) /\ Creating(t)
    BY <1>6 DEF IInv, PlacesInv, Creating
  <2>3. ~(t \in Workers /\ t \in Clients)
    BY PoolAssumption
  <2>4. /\ pc[t] # "none" /\ pc[t] # "starting"
        /\ t \in Workers => pc[t] = "running" /\ HasTask(t)
    BY <2>2 DEF Home, HasTask
  <2>5. /\ PlacesInv' /\ CreationInv' /\ TaskInv' /\ DownInv' /\ CleanupInv'
        /\ DOMAIN pc' = Threads /\ pc'[Main] = pc[Main]
    BY <1>1, <1>2, <2>1, <2>2, <2>4, StartKeeps
  <2>6. TypeOK'
    BY <1>1, <1>2, <2>1, <2>5 DEF IInv, TypeOK
  <2>7. FlushInv'
    BY <1>1, <1>5, <2>5 DEF IInv, FlushInv, Flushed
  <2> QED
    BY <1>4, <2>5, <2>6, <2>7, TasksKeptKeeps DEF IInv
<1>7. CASE post[t].stage = "signal"
  <2>1. asleep' \in Signal(AtHasWork) /\ pc' = pc
    BY <1>7 DEF PostFinish
  <2>2. asleep' \subseteq Threads
    BY <2>1, SignalFacts DEF IInv
  <2>3. TypeOK'
    BY <1>1, <1>2, <2>1, <2>2 DEF IInv, TypeOK
  <2>4. PlacesInv'
    BY <1>2, <1>3, <2>1 DEF IInv, PlacesInv
  <2>5. CreationInv'
    <3>1. \A u \in Threads : Creating(u)' => Creating(u)
      BY <1>2, <1>3, <2>1 DEF Creating
    <3> QED
      BY <1>1, <2>1, <3>1 DEF IInv, CreationInv
  <2> QED
    BY <1>1, <1>4, <2>1, <2>3, <2>4, <2>5, NobodyMoves, TasksKeptKeeps DEF IInv
<1> QED
  BY <1>6, <1>7 DEF PostFinish

\* A worker tells of more work, creates a thread if that helps, and starts its task.
LEMMA AnnounceStep ==
    ASSUME IInv, NEW w \in Workers, Announce(w)
    PROVE  IInv'
<1>0. w \in Threads /\ Main \in Threads /\ w # Main /\ DOMAIN pc = Threads /\ w \notin Clients
  BY PoolAssumption DEF Threads, IInv, TypeOK
<1>1. /\ UNCHANGED <<lock, post, deadline, clock, shutdown_called, pending,
                     next_number, blocking_pending, budget, blocking_threads,
                     current_sequences, task, threads, being_created, cleanup_state,
                     cleanup_idlers, flush>>
      /\ doomed' = [doomed EXCEPT ![w] = {}]
      /\ asleep' \in Signal(AtHasWork)
  BY DEF Announce, queueVars, runVars, creationVars, cleanupVars
<1>2. /\ doomed' \in [Workers -> SUBSET Tasks]
      /\ \A v \in Workers : doomed'[v] \subseteq doomed[v]
  BY <1>1 DEF IInv, TypeOK
<1>3. asleep' \subseteq Threads
  BY <1>1, SignalFacts DEF IInv
<1>4. TasksKept
  BY <1>1, <1>2, PoolAssumption DEF TasksKept, IInv, TypeOK
<1>5. running' = running
  BY <1>1 DEF running
<1>6. post[w].stage = "none" /\ post[w] \in Posts /\ HasTask(w)
  BY <1>0 DEF IInv, PlacesInv, Home, Announce, HasTask
<1>7. post[w] = NoPost
  BY <1>6 DEF Posts, StampedPosts, NoPost
<1>8. CASE pc[w] = "announce_create"
  <2>1. pc' \in Started(w, "running")
    BY <1>8 DEF Announce
  <2>2. Creating(w)
    BY <1>8 DEF Creating
  <2>3. /\ PlacesInv' /\ CreationInv' /\ TaskInv' /\ DownInv' /\ CleanupInv'
        /\ DOMAIN pc' = Threads /\ pc'[Main] = pc[Main]
    BY <1>0, <1>1, <1>6, <1>7, <1>8, <2>1, <2>2, StartKeeps
  <2>4. TypeOK'
    BY <1>1, <1>2, <1>3, <2>3 DEF IInv, TypeOK
  <2>5. FlushInv'
    BY <1>1, <1>5, <2>3 DEF IInv, FlushInv, Flushed
  <2> QED
    BY <1>4, <2>3, <2>4, <2>5, TasksKeptKeeps DEF IInv
<1>9. CASE pc[w] = "announce"
  <2>1. /\ pc'[w] = "running" /\ DOMAIN pc' = Threads
        /\ \A u \in Threads \ {w} : pc'[u] = pc[u]
    BY <1>0, <1>9 DEF Announce, Go
  <2>2. TypeOK'
    BY <1>1, <1>2, <1>3, <2>1 DEF IInv, TypeOK
  <2>3. PlacesInv'
    BY <1>0, <1>1, <1>6, <2>1 DEF IInv, PlacesInv, WorkerPlaces
  <2>4. CreationInv'
    <3>1. \A u \in Threads : Creating(u)' <=> Creating(u)
      BY <1>1, <1>9, <2>1 DEF Creating
    <3>2. threads \subseteq Workers /\ \A v \in Workers \ {w} : pc'[v] = pc[v]
      BY <2>1 DEF IInv, TypeOK, Threads
    <3> QED
      BY <1>1, <1>9, <2>1, <3>1, <3>2 DEF IInv, CreationInv
  <2>5. TaskInv'
    <3>1. \A v \in Workers : HasTask(v)' <=> HasTask(v)
      BY <1>9, <2>1 DEF HasTask, Threads
    <3> QED
      BY <1>1, <3>1 DEF IInv, TaskInv, SequencesExclusive
  <2>6. DownInv'
    BY <1>0, <1>1, <2>1 DEF IInv, DownInv
  <2>7. CleanupInv'
    <3>1. \A v \in Workers \ {w} : pc'[v] = pc[v]
      BY <2>1 DEF Threads
    <3> QED
      BY <1>0, <1>1, <1>9, <2>1, <3>1, BusyCleanup DEF CleanerPlaces
  <2>8. FlushInv'
    BY <1>0, <1>1, <1>5, <2>1 DEF IInv, FlushInv, Flushed
  <2> QED
    BY <1>4, <2>2, <2>3, <2>4, <2>5, <2>6, <2>7, <2>8, TasksKeptKeeps DEF IInv
<1> QED
  BY <1>8, <1>9 DEF Announce

-----------------------------------------------------------------------------
(* Taking and finishing a task *)

LEMMA DidRunWorkerTaskStep ==
    ASSUME IInv, NEW w \in Workers, DidRunWorkerTask(w)
    PROVE  IInv'
<1>0. w \in Threads /\ Main \in Threads /\ w # Main /\ DOMAIN pc = Threads /\ w \notin Clients
  BY PoolAssumption DEF Threads, IInv, TypeOK
<1>1. /\ UNCHANGED <<asleep, post, doomed, deadline, clock, shutdown_called, pending,
                     next_number, blocking_pending, budget, threads, being_created,
                     cleanup_state, cleanup_idlers, flush>>
      /\ pc[w] = "running" /\ post[w].stage = "none" /\ lock' = w
      /\ pc' = [pc EXCEPT ![w] = "loop"]
      /\ blocking_threads' = blocking_threads -
             (IF task[w].behavior # "CONTINUE_ON_SHUTDOWN" THEN 1 ELSE 0)
      /\ current_sequences' = current_sequences \ {task[w].token}
      /\ task' = [task EXCEPT ![w] = NoTask]
  BY DEF DidRunWorkerTask, Acquire, Go, queueVars, creationVars, cleanupVars
<1>2. /\ pc'[w] = "loop" /\ DOMAIN pc' = Threads
      /\ \A t \in Threads \ {w} : pc'[t] = pc[t]
  BY <1>0, <1>1
<1>3. NoTask \in Tasks
  BY PoolAssumption DEF NoTask, Tasks
<1>4. /\ task' \in [Workers -> Tasks] /\ task'[w] = NoTask
      /\ \A v \in Workers \ {w} : task'[v] = task[v]
  BY <1>1, <1>3 DEF IInv, TypeOK
<1>5. running' \subseteq running
  BY <1>4 DEF running
<1>6. /\ NoTask.token = Nobody /\ NoTask.behavior = "CONTINUE_ON_SHUTDOWN"
      /\ NoTask.before = {}
  BY DEF NoTask
<1>7. IsFiniteSet(BlockingWorkers)
  BY PoolAssumption, FS_Subset DEF BlockingWorkers
<1>8. CountInv'
  <2>1. BlockingTasks' = BlockingTasks
    BY <1>1 DEF BlockingTasks
  <2>2. blocking_threads' = Cardinality(BlockingWorkers')
    <3>1. CASE task[w].behavior # "CONTINUE_ON_SHUTDOWN"
      <4>1. w \in BlockingWorkers /\ BlockingWorkers' = BlockingWorkers \ {w}
        BY <1>4, <1>6, <3>1 DEF BlockingWorkers
      <4>2. blocking_threads' = Cardinality(BlockingWorkers) - 1
        BY <1>1, <3>1 DEF IInv, CountInv
      <4> QED
        BY <1>7, <4>1, <4>2, CardinalityOf
    <3>2. CASE task[w].behavior = "CONTINUE_ON_SHUTDOWN"
      <4>1. BlockingWorkers' = BlockingWorkers
        BY <1>4, <1>6, <3>2 DEF BlockingWorkers
      <4>2. blocking_threads' = blocking_threads
        BY <1>1, <3>2 DEF IInv, TypeOK
      <4> QED
        BY <4>1, <4>2 DEF IInv, CountInv
    <3> QED
      BY <3>1, <3>2
  <2> QED
    BY <1>1, <2>1, <2>2 DEF IInv, CountInv
<1>9. TypeOK'
  <2>1. blocking_threads' \in Nat
    <3>1. IsFiniteSet(BlockingWorkers')
      BY PoolAssumption, FS_Subset DEF BlockingWorkers
    <3> QED
      BY <1>8, <3>1, FS_CardinalityType DEF CountInv
  <2> QED
    BY <1>1, <1>2, <1>4, <2>1 DEF IInv, TypeOK
<1>10. PlacesInv'
  BY <1>0, <1>1, <1>2 DEF IInv, PlacesInv, WorkerPlaces
<1>11. CreationInv'
  <2>1. \A u \in Threads : Creating(u)' <=> Creating(u)
    BY <1>1, <1>2 DEF Creating
  <2>2. threads \subseteq Workers /\ \A v \in Workers \ {w} : pc'[v] = pc[v]
    BY <1>2 DEF IInv, TypeOK, Threads
  <2> QED
    BY <1>1, <1>2, <2>1, <2>2 DEF IInv, CreationInv
<1>12. TaskInv'
  <2>1. \A v \in Workers : task'[v] # NoTask <=> HasTask(v)'
    BY <1>2, <1>4 DEF HasTask, Threads, IInv, TaskInv
  <2>2. ASSUME NEW v \in Workers, task'[v].token # Nobody
        PROVE  task'[v].token \in current_sequences'
    <3>1. v # w /\ task'[v] = task[v] /\ task[v] # NoTask
      BY <1>4, <1>6, <2>2
    <3>2. task[v].token \in current_sequences /\ task[v].token # task[w].token
      BY <2>2, <3>1 DEF IInv, TaskInv, SequencesExclusive
    <3> QED
      BY <1>1, <3>1, <3>2
  <2>3. ASSUME NEW s \in current_sequences'
        PROVE  \E v \in Workers : task'[v].token = s
    <3>1. s \in current_sequences /\ s # task[w].token
      BY <1>1
    <3>2. PICK v \in Workers : task[v].token = s
      BY <3>1 DEF IInv, TaskInv
    <3> QED
      BY <1>4, <3>1, <3>2
  <2>4. SequencesExclusive'
    BY <1>4, <1>6 DEF IInv, TaskInv, SequencesExclusive
  <2> QED
    BY <2>1, <2>2, <2>3, <2>4 DEF TaskInv
<1>13. NumberInv'
  BY <1>1, <1>5 DEF IInv, NumberInv, Stamped
<1>14. OrderInv'
  <2>1. \A v \in Workers : task'[v].before = task[v].before \/ task'[v].before = {}
    BY <1>4, <1>6
  <2>2. SequencesInOrder'
    BY <1>1, <1>5, <2>1 DEF IInv, OrderInv, SequencesInOrder
  <2>3. \A v \in Workers : task'[v].before \subseteq 0 .. (next_number - 1)
    BY <2>1 DEF IInv, OrderInv
  <2>4. \A x \in pending : BeforeOK(x, x.number)'
    BY <1>1, <1>5 DEF IInv, OrderInv, BeforeOK, BeforeAmong
  <2>5. \A t \in Stamped' : BeforeOK(post[t], next_number)'
    BY <1>1, <1>5 DEF IInv, OrderInv, BeforeOK, BeforeAmong, Stamped
  <2> QED
    BY <1>1, <2>2, <2>3, <2>4, <2>5 DEF OrderInv, BeforeOK
<1>15. DelayInv'
  BY <1>1 DEF IInv, DelayInv, Stamped
<1>16. DownInv'
  <2>1. pc'[Main] = pc[Main]
    BY <1>0, <1>2
  <2>2. ASSUME pc[Main] = "down" PROVE blocking_threads' = 0
    <3>1. blocking_threads = 0 /\ blocking_threads' \in Nat
      BY <1>9, <2>2 DEF IInv, DownInv, TypeOK
    <3>2. blocking_threads' = 0 - 1 \/ blocking_threads' = 0 - 0
      BY <1>1, <3>1
    <3> QED
      BY <3>1, <3>2
  <2> QED
    BY <1>1, <2>1, <2>2 DEF IInv, DownInv
<1>17. CleanupInv'
  <2>1. \A v \in Workers \ {w} : pc'[v] = pc[v]
    BY <1>2 DEF Threads
  <2> QED
    BY <1>0, <1>1, <1>2, <2>1, BusyCleanup DEF CleanerPlaces
<1>18. FlushInv'
  BY <1>0, <1>1, <1>2, <1>5 DEF IInv, FlushInv, Flushed
<1> QED
  BY <1>8, <1>9, <1>10, <1>11, <1>12, <1>13, <1>14, <1>15, <1>16, <1>17, <1>18 DEF IInv


\* The task that GetWork hands out has no predecessor left in its sequence: one that is
\* pending would be runnable too and come first, and one that runs holds the token.
LEMMA NothingBeforeNext ==
    ASSUME IInv, NEW t \in NextTask, NEW u \in (pending \ (Dropped \cup {t})) \cup running \cup {t}
    PROVE  u.number \notin t.before
<1> SUFFICES ASSUME u.number \in t.before PROVE FALSE
  OBVIOUS
<1>1. /\ t \in pending /\ t \in Runnable /\ t \notin Droppable
      /\ IsSequenceTokenRunnable(t.token, current_sequences)
  BY DEF NextTask, Runnable
<1>2. /\ t.before \subseteq 0 .. (t.number - 1)
      /\ \A v \in pending \cup running : v.number \in t.before =>
             v.token = t.token /\ t.token # Nobody /\ v.time <= t.time
  BY <1>1 DEF IInv, OrderInv, BeforeOK, BeforeAmong
<1>3. t.number \in Int /\ t.time \in Nat
  BY <1>1 DEF IInv, TypeOK, Tasks
<1>4. CASE u \in running
  <2>1. PICK v \in Workers : task[v] = u
    BY <1>4 DEF running
  <2>2. u.token = t.token /\ t.token # Nobody
    BY <1>2, <1>4
  <2>3. t.token \in current_sequences
    BY <2>1, <2>2 DEF IInv, TaskInv
  <2> QED
    BY <1>1, <2>2, <2>3 DEF IsSequenceTokenRunnable
<1>5. CASE u = t
  BY <1>2, <1>3, <1>5
<1>6. CASE u \in pending \ (Dropped \cup {t})
  <2>1. u.token = t.token /\ u.time <= t.time /\ u.number \in 0 .. (t.number - 1)
    BY <1>2, <1>6
  <2>2. u.number \in Int /\ u.time \in Nat
    BY <1>6 DEF IInv, TypeOK, Tasks
  <2>3. LessThan(u, t) /\ ~LessThan(t, u) /\ u # t
    BY <1>3, <1>6, <2>1, <2>2 DEF LessThan
  <2>4. u \in Runnable
    BY <1>1, <1>6, <2>1 DEF Runnable
  <2>5. CASE u \in Droppable
    <3>1. \A x \in NextTask : x = t
      BY OneNextTask DEF IInv
    <3>2. u \in Dropped
      BY <2>3, <2>5, <3>1 DEF Dropped
    <3> QED
      BY <1>6, <3>2
  <2>6. CASE u \notin Droppable
    BY <2>3, <2>4, <2>6 DEF NextTask
  <2> QED
    BY <2>5, <2>6
<1> QED
  BY <1>4, <1>5, <1>6

LEMMA GetWorkFoundStep ==
    ASSUME IInv, NEW w \in Workers, GetWorkFound(w)
    PROVE  IInv'
<1>0. w \in Threads /\ Main \in Threads /\ w # Main /\ DOMAIN pc = Threads /\ w \notin Clients
  BY PoolAssumption DEF Threads, IInv, TypeOK
<1>1. PICK t \in NextTask :
        LET sequences == current_sequences \cup ({t.token} \ {Nobody})
            create == Helpful(pending \ (Dropped \cup {t}), sequences)
        IN  /\ pc[w] = "getwork" /\ Due(t)
            /\ pending' = pending \ (Dropped \cup {t})
            /\ blocking_pending' = blocking_pending - Blocks(t)
            /\ doomed' = [doomed EXCEPT ![w] = Dropped]
            /\ task' = [task EXCEPT ![w] = t]
            /\ current_sequences' = sequences
            /\ blocking_threads' = blocking_threads +
                  (IF t.behavior # "CONTINUE_ON_SHUTDOWN" THEN 1 ELSE 0)
            /\ being_created' = (being_created \/ create)
            /\ lock' = Nobody
            /\ Go(w, IF create THEN "announce_create" ELSE "announce")
            /\ UNCHANGED <<asleep, post, deadline, clock, shutdown_called, next_number,
                           budget, threads, cleanupVars>>
  BY DEF GetWorkFound
<1> DEFINE create == Helpful(pending \ (Dropped \cup {t}),
                             current_sequences \cup ({t.token} \ {Nobody}))
<1>2. /\ UNCHANGED <<asleep, post, deadline, clock, shutdown_called, next_number,
                     budget, threads, cleanup_state, cleanup_idlers, flush>>
      /\ pc[w] = "getwork" /\ lock' = Nobody
      /\ pending' = pending \ (Dropped \cup {t})
      /\ blocking_pending' = blocking_pending - Blocks(t)
      /\ doomed' = [doomed EXCEPT ![w] = Dropped]
      /\ task' = [task EXCEPT ![w] = t]
      /\ current_sequences' = current_sequences \cup ({t.token} \ {Nobody})
      /\ blocking_threads' = blocking_threads +
             (IF t.behavior # "CONTINUE_ON_SHUTDOWN" THEN 1 ELSE 0)
      /\ being_created' = (being_created \/ create)
      /\ pc' = [pc EXCEPT ![w] = IF create THEN "announce_create" ELSE "announce"]
  BY <1>1 DEF Go, cleanupVars
<1>3. create => ~being_created /\ cleanup_state = "DONE" /\ Cardinality(threads) < MaxThreads
  BY DEF Helpful
<1> HIDE DEF create
<1>4. /\ pc'[w] = (IF create THEN "announce_create" ELSE "announce") /\ DOMAIN pc' = Threads
      /\ \A u \in Threads \ {w} : pc'[u] = pc[u]
  BY <1>0, <1>2
<1>5. /\ t \in pending /\ t \notin Droppable /\ t \in Tasks
      /\ t.number \in 0 .. (next_number - 1)
      /\ t.token = Nobody \/ t.token \notin current_sequences
  <2>1. t \in pending /\ t \notin Droppable /\ (t.token = Nobody \/ t.token \notin current_sequences)
    BY DEF NextTask, Runnable, IsSequenceTokenRunnable
  <2> QED
    BY <2>1 DEF IInv, TypeOK, NumberInv
<1>6. t # NoTask
  BY <1>5 DEF NoTask
<1>7. task[w] = NoTask /\ w \in threads
  BY <1>2, PlainThread DEF Plain
<1>8. /\ task' \in [Workers -> Tasks] /\ task'[w] = t
      /\ \A v \in Workers \ {w} : task'[v] = task[v]
  BY <1>2, <1>5 DEF IInv, TypeOK
<1>9. running' = running \cup {t}
  BY <1>6, <1>7, <1>8 DEF running
<1>10. pending' \subseteq pending /\ Dropped \subseteq pending
       /\ pending' \cup running' \subseteq pending \cup running
  BY <1>2, <1>5, <1>9, DroppedFacts
<1>11. /\ doomed' \in [Workers -> SUBSET Tasks]
       /\ \A v \in Workers : \A u \in doomed'[v] : u.behavior # "BLOCK_SHUTDOWN"
  <2>1. Dropped \in SUBSET Tasks
    BY <1>10 DEF IInv, TypeOK
  <2>2. \A v \in Workers : doomed'[v] = IF v = w THEN Dropped ELSE doomed[v]
    BY <1>2 DEF IInv, TypeOK
  <2>3. doomed' \in [Workers -> SUBSET Tasks]
    BY <1>2, <2>1 DEF IInv, TypeOK
  <2>4. \A v \in Workers : \A u \in doomed[v] : u.behavior # "BLOCK_SHUTDOWN"
    BY DEF IInv, DelayInv
  <2> QED
    BY <2>2, <2>3, <2>4, DroppedFacts
<1>12. /\ NoTask.token = Nobody /\ NoTask.behavior = "CONTINUE_ON_SHUTDOWN"
  BY DEF NoTask
<1>13. CountInv'
  <2>1. IsFiniteSet(pending) /\ IsFiniteSet(BlockingTasks) /\ IsFiniteSet(pending')
    BY <1>10, FS_Subset DEF IInv, CountInv, BlockingTasks
  <2>2. blocking_pending' = Cardinality(BlockingTasks')
    <3>1. CASE t.behavior = "BLOCK_SHUTDOWN"
      <4>1. t \in BlockingTasks /\ BlockingTasks' = BlockingTasks \ {t}
        BY <1>2, <1>5, <3>1, DroppedFacts DEF BlockingTasks
      <4>2. blocking_pending' = Cardinality(BlockingTasks) - 1
        BY <1>2, <3>1 DEF Blocks, IInv, CountInv
      <4> QED
        BY <2>1, <4>1, <4>2, CardinalityOf
    <3>2. CASE t.behavior # "BLOCK_SHUTDOWN"
      <4>1. BlockingTasks' = BlockingTasks
        BY <1>2, <3>2, DroppedFacts DEF BlockingTasks
      <4>2. blocking_pending' = blocking_pending
        BY <1>2, <3>2 DEF Blocks, IInv, TypeOK
      <4> QED
        BY <4>1, <4>2 DEF IInv, CountInv
    <3> QED
      BY <3>1, <3>2
  <2>3. blocking_threads' = Cardinality(BlockingWorkers')
    <3>1. IsFiniteSet(BlockingWorkers) /\ w \notin BlockingWorkers
      BY <1>7, <1>12, PoolAssumption, FS_Subset DEF BlockingWorkers
    <3>2. CASE t.behavior # "CONTINUE_ON_SHUTDOWN"
      <4>1. BlockingWorkers' = BlockingWorkers \cup {w}
        BY <1>8, <3>2 DEF BlockingWorkers
      <4>2. blocking_threads' = Cardinality(BlockingWorkers) + 1
        BY <1>2, <3>2 DEF IInv, CountInv
      <4> QED
        BY <3>1, <4>1, <4>2, CardinalityOf
    <3>3. CASE t.behavior = "CONTINUE_ON_SHUTDOWN"
      <4>1. BlockingWorkers' = BlockingWorkers
        BY <1>7, <1>8, <1>12, <3>3 DEF BlockingWorkers
      <4>2. blocking_threads' = blocking_threads
        BY <1>2, <3>3 DEF IInv, TypeOK
      <4> QED
        BY <4>1, <4>2 DEF IInv, CountInv
    <3> QED
      BY <3>2, <3>3
  <2> QED
    BY <2>1, <2>2, <2>3 DEF CountInv
<1>14. TypeOK'
  <2>1. blocking_threads' \in Nat /\ blocking_pending' \in Nat
    <3>1. IsFiniteSet(BlockingWorkers') /\ IsFiniteSet(BlockingTasks')
      BY <1>13, PoolAssumption, FS_Subset DEF BlockingWorkers, BlockingTasks, CountInv
    <3> QED
      BY <1>13, <3>1, FS_CardinalityType DEF CountInv
  <2>2. current_sequences' \subseteq Tokens
    BY <1>2, <1>5 DEF IInv, TypeOK, Tasks
  <2>3. being_created' \in BOOLEAN
    BY <1>2
  <2> QED
    BY <1>2, <1>4, <1>8, <1>10, <1>11, <2>1, <2>2, <2>3 DEF IInv, TypeOK
<1>15. post[w].stage = "none"
  BY <1>0, <1>2 DEF IInv, PlacesInv, Home
<1>16. PlacesInv'
  BY <1>0, <1>2, <1>4, <1>15 DEF IInv, PlacesInv, WorkerPlaces
<1>17. CreationInv'
  <2>1. \A u \in Threads \ {w} : Creating(u)' <=> Creating(u)
    BY <1>2, <1>4 DEF Creating
  <2>2. Cardinality(threads) \in Nat
    BY PoolAssumption, FS_Subset, FS_CardinalityType DEF IInv, TypeOK
  <2>3. \A v \in Workers \ {w} : pc'[v] = pc[v]
    BY <1>4 DEF Threads
  <2>4. /\ \A v \in Workers : pc'[v] # "none" <=> (v \in threads \/ pc'[v] = "starting")
        /\ \A v \in threads : pc'[v] # "starting"
    BY <1>4, <1>7, <2>3 DEF IInv, CreationInv, TypeOK
  <2>5. CASE create
    <3>1. \A u \in Threads : ~Creating(u)
      BY <1>3, <2>5 DEF IInv, CreationInv
    <3>2. \A u \in Threads : Creating(u)' => u = w
      BY <2>1, <3>1
    <3>3. Cardinality(threads) + 1 <= MaxThreads
      BY <1>3, <2>2, <2>5, PoolAssumption
    <3>4. being_created'
      BY <1>2, <2>5
    <3> QED
      BY <1>2, <2>4, <3>2, <3>3, <3>4 DEF CreationInv
  <2>6. CASE ~create
    <3>1. \A u \in Threads : Creating(u)' => Creating(u)
      BY <1>2, <1>4, <1>15, <2>1, <2>6 DEF Creating
    <3>2. being_created' = being_created
      BY <1>2, <2>6 DEF IInv, TypeOK
    <3> QED
      BY <1>2, <2>4, <3>1, <3>2 DEF IInv, CreationInv
  <2> QED
    BY <2>5, <2>6
<1>18. TaskInv'
  <2>1. \A v \in Workers : task'[v] # NoTask <=> HasTask(v)'
    BY <1>4, <1>6, <1>8 DEF HasTask, Threads, IInv, TaskInv
  <2>2. \A v \in Workers : task'[v].token # Nobody => task'[v].token \in current_sequences'
    BY <1>2, <1>8 DEF IInv, TaskInv
  <2>3. ASSUME NEW s \in current_sequences'
        PROVE  \E v \in Workers : task'[v].token = s
    <3>1. CASE s \in current_sequences
      <4>1. PICK v \in Workers : task[v].token = s
        BY <3>1 DEF IInv, TaskInv
      <4>2. s # Nobody
        BY <3>1, PoolAssumption DEF IInv, TypeOK
      <4> QED
        BY <1>7, <1>8, <1>12, <4>1, <4>2
    <3>2. CASE s \notin current_sequences
      BY <1>2, <1>8, <3>2
    <3> QED
      BY <3>1, <3>2
  <2>4. SequencesExclusive'
    <3>1. SUFFICES ASSUME NEW u \in Workers, NEW v \in Workers, u # v, task'[u].token # Nobody
                   PROVE  task'[u].token # task'[v].token
      BY DEF SequencesExclusive
    <3>2. \A x \in Workers : task[x].token # Nobody => task[x].token \in current_sequences
      BY DEF IInv, TaskInv
    <3>3. CASE u = w
      BY <1>5, <1>8, <3>1, <3>2, <3>3
    <3>4. CASE v = w
      BY <1>5, <1>8, <3>1, <3>2, <3>4
    <3>5. CASE u # w /\ v # w
      BY <1>8, <1>12, <3>1, <3>5 DEF IInv, TaskInv, SequencesExclusive
    <3> QED
      BY <3>3, <3>4, <3>5
  <2> QED
    BY <2>1, <2>2, <2>3, <2>4 DEF TaskInv
<1>19. NumberInv'
  <2>1. \A u \in pending', v \in running' : u.number # v.number
    BY <1>2, <1>5, <1>9 DEF IInv, NumberInv
  <2> QED
    BY <1>2, <1>10, <2>1 DEF IInv, NumberInv, Stamped
<1>20. OrderInv'
  <2>1. \A u \in pending' \cup running' : u.number \notin t.before
    BY <1>2, <1>9, NothingBeforeNext
  <2>2. \A v \in Workers : \A u \in pending \cup running : u.number \notin task[v].before
    BY DEF IInv, OrderInv, SequencesInOrder
  <2>3. SequencesInOrder'
    BY <1>8, <1>10, <2>1, <2>2 DEF SequencesInOrder
  <2>4. t.before \subseteq 0 .. (next_number - 1)
    <3>1. t.before \subseteq 0 .. (t.number - 1) /\ next_number \in Int
      BY <1>5 DEF IInv, OrderInv, BeforeOK, BeforeAmong, TypeOK
    <3> QED
      BY <1>5, <3>1
  <2>5. \A v \in Workers : task'[v].before \subseteq 0 .. (next_number - 1)
    BY <1>8, <2>4 DEF IInv, OrderInv
  <2>6. \A x \in pending' : BeforeOK(x, x.number)'
    BY <1>10 DEF IInv, OrderInv, BeforeOK, BeforeAmong
  <2>7. \A u \in Stamped' : BeforeOK(post[u], next_number)'
    BY <1>2, <1>10 DEF IInv, OrderInv, BeforeOK, BeforeAmong, Stamped
  <2> QED
    BY <1>2, <2>3, <2>5, <2>6, <2>7 DEF OrderInv, BeforeOK
<1>21. DelayInv'
  BY <1>2, <1>10, <1>11 DEF IInv, DelayInv, Stamped
<1>22. pc[Main] # "down"
  <2> SUFFICES ASSUME pc[Main] = "down" PROVE FALSE
    OBVIOUS
  <2>1. shutdown_called /\ blocking_pending = 0
    BY DEF IInv, DownInv
  <2>2. t \in BlockingTasks /\ IsFiniteSet(BlockingTasks)
    BY <1>5, <2>1, FS_Subset DEF NextTask, Droppable, BlockingTasks, IInv, CountInv
  <2>3. Cardinality(BlockingTasks) = 0
    BY <2>1 DEF IInv, CountInv
  <2>4. Cardinality(BlockingTasks) - 1 \in Nat
    BY <2>2, CardinalityOf
  <2> QED
    BY <2>3, <2>4
<1>23. DownInv'
  BY <1>0, <1>2, <1>4, <1>22 DEF IInv, DownInv
<1>24. CleanupInv'
  <2>1. \A v \in Workers \ {w} : pc'[v] = pc[v]
    BY <1>4 DEF Threads
  <2>2. cleanup_state = "RUNNING" => being_created' = being_created /\ pc'[w] = "announce"
    BY <1>2, <1>3, <1>4 DEF IInv, TypeOK
  <2> QED
    BY <1>0, <1>2, <1>4, <2>1, <2>2, BusyCleanup DEF CleanerPlaces
<1>25. FlushInv'
  BY <1>0, <1>2, <1>4, <1>10 DEF IInv, FlushInv, Flushed
<1> QED
  BY <1>13, <1>14, <1>16, <1>17, <1>18, <1>19, <1>20, <1>21, <1>23, <1>24, <1>25 DEF IInv

-----------------------------------------------------------------------------
(* The theorems *)

LEMMA InitIInv ==
    ASSUME Init
    PROVE  IInv
<1>1. Main \in Threads /\ Main \in Clients /\ Main \notin Workers /\ Workers \cap Clients = {}
  BY PoolAssumption DEF Threads
<1>2. NoTask \in Tasks /\ NoTask.token = Nobody /\ NoTask.before = {} /\ Never \in Nat
      /\ NoTask.behavior = "CONTINUE_ON_SHUTDOWN"
  BY PoolAssumption DEF NoTask, Tasks, Never
<1>3. NoPost \in Posts /\ NoPost.stage = "none"
  BY DEF NoPost, Posts
<1>4. TypeOK
  <2>1. 0 \in 0 .. MaxTime /\ 0 \in 0 .. MaxTasks
    BY PoolAssumption
  <2>2. /\ task \in [Workers -> Tasks] /\ deadline \in [Workers -> Nat]
        /\ doomed \in [Workers -> SUBSET Tasks]
    BY <1>2 DEF Init
  <2>3. DOMAIN pc = Threads /\ DOMAIN post = Threads
    BY DEF Init
  <2> QED
    BY <2>1, <2>2, <2>3 DEF Init, TypeOK
<1>5. PlacesInv
  BY <1>1, <1>3 DEF Init, PlacesInv, Threads, WorkerPlaces, ClientPlaces
<1>6. /\ Cardinality(threads) = 0 /\ Stamped = {} /\ running = {} /\ Idlers = {}
      /\ BlockingTasks = {} /\ BlockingWorkers = {} /\ Cardinality({}) = 0 /\ IsFiniteSet({})
  <2>1. \A w \in Workers : pc[w] = "none" /\ task[w] = NoTask
    BY DEF Init, Threads
  <2>2. \A t \in Threads : post[t] = NoPost
    BY DEF Init
  <2>3. Stamped = {} /\ running = {} /\ Idlers = {} /\ BlockingWorkers = {}
    BY <1>2, <1>3, <2>1, <2>2 DEF Stamped, running, Idlers, BlockingWorkers
  <2>4. BlockingTasks = {} /\ threads = {}
    BY DEF Init, BlockingTasks
  <2> QED
    BY <2>3, <2>4, FS_EmptySet
<1>7. CreationInv
  BY <1>1, <1>3, <1>6, PoolAssumption DEF Init, CreationInv, Creating, Threads
<1>8. TaskInv
  BY <1>2 DEF Init, TaskInv, HasTask, SequencesExclusive, Threads
<1>9. NumberInv
  BY <1>6, PoolAssumption DEF Init, NumberInv
<1>10. OrderInv
  BY <1>2, <1>6 DEF Init, OrderInv, SequencesInOrder
<1>11. CountInv /\ DelayInv
  BY <1>6 DEF Init, CountInv, DelayInv
<1>12. pc[Main] = "idle"
  BY <1>1 DEF Init
<1>13. DownInv
  BY <1>12 DEF DownInv
<1>14. CleanupInv
  BY <1>6 DEF Init, CleanupInv, Threads
<1>15. FlushInv
  BY <1>6, <1>12 DEF Init, FlushInv, Flushed
<1> QED
  BY <1>4, <1>5, <1>7, <1>8, <1>9, <1>10, <1>11, <1>13, <1>14, <1>15 DEF IInv

LEMMA NextIInv ==
    ASSUME IInv, Next
    PROVE  IInv'
<1>1. ASSUME NEW t \in Threads, Posting(t) PROVE IInv'
  BY <1>1, PostRefusedStep, PostLockedStep, PostFinishStep DEF Posting
<1>2. ASSUME NEW w \in Workers, ThreadLoop(w) PROVE IInv'
  <2>1. RoamingAction(w) \/ ThreadStart(w) \/ GetWorkFound(w) \/ Announce(w) \/ DidRunWorkerTask(w)
    BY <1>2 DEF ThreadLoop, GetWork, RoamingAction
  <2> QED
    BY <2>1, RoamingStep, ThreadStartStep, GetWorkFoundStep, AnnounceStep, DidRunWorkerTaskStep
<1> QED
  BY <1>1, <1>2, PostTaskStep, ShutdownStep, ShutdownWaitStep, CleanupForTestingStep,
     FlushWakesStep, TickStep DEF Next

\* The invariant is inductive.
THEOREM InductiveInvariant == Spec => []IInv
<1>1. Init => IInv
  BY InitIInv
<1>2. IInv /\ [Next]_vars => IInv'
  <2> SUFFICES ASSUME IInv, [Next]_vars PROVE IInv'
    OBVIOUS
  <2>1. CASE UNCHANGED vars
    <3> USE <2>1 DEF vars, queueVars, runVars, creationVars, cleanupVars
    <3>1. TypeOK' /\ PlacesInv' /\ CreationInv'
      BY DEF IInv, TypeOK, PlacesInv, CreationInv, Creating
    <3>2. TasksKept
      BY PoolAssumption DEF TasksKept, IInv, TypeOK
    <3> QED
      BY <3>1, <3>2, NobodyMoves, TasksKeptKeeps DEF IInv
  <2>2. CASE Next
    BY <2>2, NextIInv
  <2> QED
    BY <2>1, <2>2
<1> QED
  BY <1>1, <1>2, PTL DEF Spec

\* Every variable of the pool stays within its type; no counter becomes negative.
THEOREM TypeCorrect == Spec => []TypeOK
<1>1. IInv => TypeOK
  BY DEF IInv
<1> QED
  BY <1>1, InductiveInvariant, PTL

\* Two tasks of a sequence never run at once or out of order, whatever the number of
\* workers, of sequences and of posting threads.
THEOREM SequencesAreKept == Spec => []SequencesKept
<1>1. IInv => SequencesKept
  BY DEF IInv, TaskInv, OrderInv, SequencesKept
<1> QED
  BY <1>1, InductiveInvariant, PTL

\* When Shutdown() has returned, no task that blocks it is pending or running, no thread
\* is on its way, and no such task was deleted unrun.
THEOREM ShutdownIsComplete == Spec => []ShutdownComplete
<1>1. IInv => ShutdownComplete
  <2> SUFFICES ASSUME IInv PROVE ShutdownComplete
    OBVIOUS
  <2>1. \A w \in Workers : \A t \in doomed[w] : t.behavior # "BLOCK_SHUTDOWN"
    BY DEF IInv, DelayInv
  <2>2. ASSUME pc[Main] = "down"
        PROVE  /\ \A t \in pending : t.behavior # "BLOCK_SHUTDOWN"
               /\ \A t \in running : t.behavior = "CONTINUE_ON_SHUTDOWN"
               /\ \A w \in Workers : pc[w] # "starting"
    <3>1. ~being_created /\ Cardinality(BlockingWorkers) = 0 /\ Cardinality(BlockingTasks) = 0
      BY <2>2 DEF IInv, DownInv, CountInv
    <3>2. IsFiniteSet(BlockingWorkers) /\ IsFiniteSet(BlockingTasks)
      BY PoolAssumption, FS_Subset DEF BlockingWorkers, BlockingTasks, IInv, CountInv
    <3>3. BlockingWorkers = {} /\ BlockingTasks = {}
      BY <3>1, <3>2, FS_EmptySet
    <3>4. \A w \in Workers : pc[w] # "starting"
      BY <3>1 DEF IInv, CreationInv, Creating, Threads
    <3> QED
      BY <3>3, <3>4 DEF BlockingWorkers, BlockingTasks, running
  <2> QED
    BY <2>1, <2>2 DEF ShutdownComplete
<1> QED
  BY <1>1, InductiveInvariant, PTL

\* There are never more threads than max_threads_, the one being created included.
THEOREM ThreadsAreWithinMax == Spec => []WithinMaxThreads
<1>1. IInv => WithinMaxThreads
  <2> SUFFICES ASSUME IInv PROVE WithinMaxThreads
    OBVIOUS
  <2> DEFINE All == {w \in Workers : pc[w] # "none"}
  <2>1. threads \subseteq Workers /\ IsFiniteSet(threads)
    BY PoolAssumption, FS_Subset DEF IInv, TypeOK
  <2>2. Cardinality(threads) \in Nat /\ MaxThreads \in Nat
    BY <2>1, FS_CardinalityType, PoolAssumption
  <2>3. CASE \E w \in Workers : pc[w] = "starting"
    <3>1. PICK w \in Workers : pc[w] = "starting"
      BY <2>3
    <3>2. Creating(w) /\ being_created /\ w \notin threads
      BY <3>1 DEF IInv, CreationInv, Creating, Threads
    <3>3. \A v \in Workers : pc[v] = "starting" => v = w
      BY <3>2 DEF IInv, CreationInv, Creating, Threads
    <3>4. All = threads \cup {w}
      BY <2>1, <3>1, <3>3 DEF IInv, CreationInv
    <3>5. Cardinality(All) = Cardinality(threads) + 1
      BY <2>1, <3>2, <3>4, CardinalityOf
    <3>6. Cardinality(threads) + 1 <= MaxThreads
      BY <3>2 DEF IInv, CreationInv
    <3> QED
      BY <3>5, <3>6 DEF WithinMaxThreads
  <2>4. CASE ~ \E w \in Workers : pc[w] = "starting"
    <3>1. All = threads
      BY <2>1, <2>4 DEF IInv, CreationInv
    <3>2. Cardinality(threads) <= MaxThreads
      BY <2>2 DEF IInv, CreationInv
    <3> QED
      BY <3>1, <3>2 DEF WithinMaxThreads
  <2> QED
    BY <2>3, <2>4
<1> QED
  BY <1>1, InductiveInvariant, PTL

\* CleanupForTesting returns only when each task that was pending or running at the call
\* has run or been deleted.
THEOREM FlushIsComplete == Spec => FlushComplete
<1>1. IInv /\ [Next]_vars =>
        [pc[Main] = "flushing" /\ pc'[Main] = "idle" =>
              flush.tasks \cap (pending' \cup running') = {}]_vars
  <2> SUFFICES ASSUME IInv, Next, pc[Main] = "flushing", pc'[Main] = "idle"
               PROVE  flush.tasks \cap (pending' \cup running') = {}
    BY DEF vars
  <2>0. Main \in Threads /\ Main \in Clients /\ Main \notin Workers /\ DOMAIN pc = Threads
    BY PoolAssumption DEF Threads, IInv, TypeOK
  <2>1. post[Main].stage = "none"
    BY <2>0 DEF IInv, PlacesInv, Home
  <2>2. ASSUME NEW t \in Threads, Posting(t) PROVE FALSE
    <3>1. pc' # pc
      OBVIOUS
    <3>2. PostFinish(t) /\ post[t].stage = "create" /\ pc' \in Started(t, pc[t])
      BY <2>2, <3>1 DEF Posting, PostRefused, PostLocked, PostFinish
    <3>3. Main # t /\ pc[t] = Home(t)
      BY <2>1, <3>2 DEF IInv, PlacesInv
    <3>4. pc'[Main] = pc[Main]
      BY <2>0, <3>2, <3>3, StartedFacts DEF Home
    <3> QED
      BY <3>4
  <2>3. ASSUME NEW w \in Workers, ThreadLoop(w) PROVE FALSE
    <3>0. w # Main /\ w \in Threads
      BY <2>0 DEF Threads
    <3>1. CASE RoamingAction(w)
      BY <2>0, <3>0, <3>1, RoamingActionsRoam DEF Roams
    <3>2. CASE ThreadStart(w) \/ DidRunWorkerTask(w)
      BY <2>0, <3>0, <3>2 DEF ThreadStart, DidRunWorkerTask, Go
    <3>3. CASE GetWorkFound(w)
      BY <2>0, <3>0, <3>3 DEF GetWorkFound, Go
    <3>4. CASE Announce(w)
      <4>1. pc[w] # "none"
        BY <3>4 DEF Announce
      <4>2. CASE pc' \in Started(w, "running")
        BY <2>0, <3>0, <4>1, <4>2, StartedFacts
      <4>3. CASE pc' = [pc EXCEPT ![w] = "running"]
        BY <2>0, <3>0, <4>3
      <4> QED
        BY <3>4, <4>2, <4>3 DEF Announce, Go
    <3> QED
      BY <2>3, <3>1, <3>2, <3>3, <3>4 DEF ThreadLoop, GetWork, RoamingAction
  <2>4. FlushWakes
    <3>1. ~Shutdown /\ ~ShutdownWait /\ ~CleanupForTesting /\ ~Tick
      BY DEF Shutdown, ShutdownWait, CleanupForTesting, Tick
    <3>2. ASSUME NEW t \in Threads, NEW token \in Tokens \cup {Nobody}, NEW b \in Behaviors,
                 NEW d \in Delays, PostTask(t, token, b, d)
          PROVE  FALSE
      BY <3>2 DEF PostTask
    <3> QED
      BY <2>2, <2>3, <3>1, <3>2 DEF Next
  <2>5. cleanup_state = "DONE" /\ pending' = pending /\ running' = running
    BY <2>4 DEF FlushWakes, queueVars, runVars, running
  <2> QED
    BY <2>5 DEF IInv, FlushInv, Flushed
<1> QED
  BY <1>1, InductiveInvariant, PTL DEF Spec, FlushComplete


-----------------------------------------------------------------------------
(* No wakeup is lost *)

\* Who was to create a thread still is, and has not died of it.
CreatorInv == being_created => \E t \in Threads : Creating(t)

\* Workers leave only when the pool shuts down.
ExitInv == \A w \in Workers : pc[w] \in {"leaving", "exiting", "exited"} => shutdown_called

\* A cleanup has a worker to run it.
CleanerInv == cleanup_state # "DONE" => threads # {} \/ being_created

\* Without a worker there is nothing to run, or there will be a worker.
Dead == \A w \in Workers : pc[w] \in {"none", "leaving", "exiting", "exited"}
DeadInv == Dead => Runnable = {} \/ \E t \in Threads : post[t].stage = "create"

\* If all who could look for work sleep, one of them wakes in time for each task.
Covered == \A t \in Runnable : \E w \in AtHasWork : deadline[w] <= t.time
SomeAttentive == \E t \in Threads : Attentive(t)
SleepInv == cleanup_state = "DONE" /\ AtHasWork # {} => SomeAttentive \/ Covered

WakeInv == CreatorInv /\ ExitInv /\ CleanerInv /\ DeadInv /\ SleepInv

\* A signal leaves nobody asleep, or somebody awake.
LEMMA SignalWakes ==
    ASSUME IInv, NEW woken \in Signal(AtHasWork), asleep' \subseteq woken,
           \A t \in Threads : pc'[t] = "waiting" <=> pc[t] = "waiting"
    PROVE  AtHasWork' = {} \/ SomeAttentive'
<1>1. asleep \subseteq Threads
  BY DEF IInv, TypeOK
<1>2. CASE AtHasWork = {}
  <2>1. asleep' \subseteq asleep
    BY <1>2 DEF Signal
  <2> QED BY <1>1, <1>2, <2>1 DEF AtHasWork
<1>3. CASE AtHasWork # {}
  <2>1. PICK t \in AtHasWork : woken = asleep \ {t}
    BY <1>3 DEF Signal
  <2>2. t \in Threads /\ pc[t] = "waiting" /\ t \notin asleep'
    BY <1>1, <2>1 DEF AtHasWork
  <2>3. t \in Workers
    BY <2>2 DEF IInv, PlacesInv, ClientPlaces, Threads
  <2>4. Attentive(t)'
    BY <2>2, <2>3 DEF Attentive
  <2> QED BY <2>2, <2>4 DEF SomeAttentive
<1> QED BY <1>2, <1>3

\* What a worker that looks for work leaves behind is not due before it wakes.
LEMMA WaiterCovers ==
    ASSUME IInv, NEW w \in Workers, GetWorkWait(w)
    PROVE  Covered'
<1>1. /\ pending' = pending \ Dropped /\ deadline' = [deadline EXCEPT ![w] = WaitUntil]
      /\ asleep' = asleep \cup {w} /\ pc' = [pc EXCEPT ![w] = "waiting"]
      /\ UNCHANGED <<shutdown_called, current_sequences, clock>>
      /\ \A t \in NextTask : ~Due(t)
  BY DEF GetWorkWait, Go, NothingToRun, runVars
<1>2. w \in Threads /\ DOMAIN pc = Threads /\ deadline \in [Workers -> Nat]
  BY DEF IInv, TypeOK, Threads
<1>3. w \in AtHasWork' /\ deadline'[w] = WaitUntil
  BY <1>1, <1>2 DEF AtHasWork
<1>4. Runnable' = Runnable \ Dropped
  BY <1>1 DEF Runnable
<1> SUFFICES ASSUME NEW t \in Runnable' PROVE WaitUntil <= t.time
  BY <1>3 DEF Covered
<1>5. t \in Runnable /\ t \notin Dropped
  BY <1>4
<1>6. NextTask # {}
  <2>1. CASE t \in Droppable
    BY <2>1, <1>5 DEF Dropped
  <2>2. CASE t \notin Droppable
    BY <2>2, <1>5, NextTaskExists DEF IInv
  <2> QED BY <2>1, <2>2
<1>7. PICK u \in NextTask : WaitUntil = u.time
  BY <1>6 DEF WaitUntil
<1>8. t \in Tasks /\ u \in Tasks
  BY <1>5 DEF Runnable, NextTask, IInv, TypeOK
<1>9. t.time \in Nat /\ u.time \in Nat /\ t.number \in Int /\ u.number \in Int
  BY <1>8 DEF Tasks
<1>10. CASE t \in Droppable
  <2>1. PICK v \in NextTask : ~LessThan(t, v)
    BY <1>5, <1>10 DEF Dropped
  <2>2. v = u
    BY OneNextTask DEF IInv
  <2> QED BY <2>1, <2>2, <1>7, <1>9 DEF LessThan
<1>11. CASE t \notin Droppable
  <2>1. t = u \/ LessThan(u, t)
    BY <1>5, <1>11 DEF NextTask
  <2> QED BY <2>1, <1>7, <1>9 DEF LessThan
<1> QED BY <1>10, <1>11

\* The last worker to leave leaves nothing that could run.
LEMMA LeaverEmpties ==
    ASSUME IInv, NEW w \in Workers, GetWorkExit(w)
    PROVE  Runnable' = {} /\ shutdown_called
<1>1. /\ pending' = pending \ Dropped /\ current_sequences' = current_sequences
      /\ shutdown_called /\ blocking_pending = 0
  BY DEF GetWorkExit, MayExit, runVars
<1>2. BlockingTasks = {}
  <2>1. IsFiniteSet(BlockingTasks) /\ Cardinality(BlockingTasks) = 0
    BY <1>1, FS_Subset DEF IInv, CountInv, BlockingTasks
  <2> QED BY <2>1, FS_EmptySet
<1>3. Runnable \subseteq Droppable
  BY <1>1, <1>2 DEF Droppable, Runnable, BlockingTasks
<1>4. Dropped = Droppable
  BY <1>3 DEF Dropped, NextTask
<1> QED BY <1>1, <1>3, <1>4 DEF Runnable


\* A worker that is about to look for work, after the step.
LEMMA LooksForWork ==
    ASSUME NEW w \in Workers,
           pc'[w] \in {"starting", "loop", "getwork", "announce", "announce_create",
                       "exiting", "leaving", "deleting"}
    PROVE  SomeAttentive'
BY DEF SomeAttentive, Attentive, Threads

\* The steps of a worker that runs no task.
LEMMA RoamingWakes ==
    ASSUME IInv, WakeInv, NEW w \in Workers, RoamingAction(w)
    PROVE  WakeInv'
<1> USE DEF WakeInv
<1>0. DOMAIN pc = Threads /\ w \in Threads /\ Workers \subseteq Threads
  BY DEF IInv, TypeOK, Threads
<1>1. /\ pc[w] \in Plain /\ pc'[w] \in Plain
      /\ \A t \in Threads \ {w} : pc'[t] = pc[t]
      /\ UNCHANGED <<post, clock, shutdown_called, current_sequences, threads, being_created>>
      /\ pending' \subseteq pending
  BY RoamingActionsRoam DEF Roams
<1>2. Runnable' \subseteq Runnable
  BY <1>1 DEF Runnable
<1>3. cleanup_state = "DONE" => cleanup_state' = "DONE" /\ pc[w] # "idling"
  <2>1. cleanup_state = "DONE" => Idlers = {}
    <3>1. IsFiniteSet(Idlers)
      BY PoolAssumption, FS_Subset DEF Idlers
    <3>2. cleanup_state = "DONE" => Cardinality(Idlers) = 0
      BY DEF IInv, CleanupInv
    <3> QED BY <3>1, <3>2, FS_EmptySet
  <2>2. cleanup_state = "DONE" => pc[w] \notin {"cleaning", "idling"}
    BY <2>1 DEF Idlers, IInv, CleanupInv
  <2>3. \/ cleanup_state' = cleanup_state
        \/ StartCleanup(w) \/ AwaitIdlers(w) \/ FinishCleanup(w) \/ CleanupFinds(w)
    BY CleanupStates
  <2>4. StartCleanup(w) => cleanup_state = "REQUESTED"
    BY DEF StartCleanup
  <2>5. AwaitIdlers(w) => pc[w] = "cleaning"
    BY DEF AwaitIdlers
  <2>6. FinishCleanup(w) /\ cleanup_state = "DONE" => cleanup_state' = "DONE"
    BY DEF FinishCleanup
  <2>7. CleanupFinds(w) => cleanup_state = "RUNNING"
    BY DEF CleanupFinds
  <2> QED BY <2>2, <2>3, <2>4, <2>5, <2>6, <2>7
<1>4. CreatorInv'
  <2>1. \A t \in Threads : Creating(t) => Creating(t)'
    BY <1>1 DEF Creating, Plain
  <2> QED BY <2>1, <1>1 DEF CreatorInv
<1>5. CleanerInv'
  BY <1>1, <1>3 DEF CleanerInv
<1>6. CASE GetWorkExit(w)
  <2>1. Runnable' = {} /\ shutdown_called
    BY <1>6, LeaverEmpties
  <2>2. pc'[w] = "leaving"
    BY <1>0, <1>6 DEF GetWorkExit, Go
  <2>3. SomeAttentive'
    BY <2>2, LooksForWork
  <2> QED BY <2>1, <2>3, <1>1, <1>4, <1>5 DEF ExitInv, DeadInv, SleepInv
<1>7. CASE Leave(w) \/ Exit(w)
  <2>1. pc[w] \in {"leaving", "exiting"} /\ pc'[w] \in {"exiting", "exited"} /\ cleanup_state' = cleanup_state
    BY <1>0, <1>7 DEF Leave, Exit, Go, cleanupVars
  <2>2. ExitInv'
    BY <2>1, <1>0, <1>1 DEF ExitInv
  <2>3. Dead' => Dead
    BY <2>1, <1>0, <1>1 DEF Dead
  <2>4. DeadInv'
    BY <2>3, <1>1, <1>2 DEF DeadInv
  <2>5. SleepInv'
    <3>1. CASE Leave(w)
      <4>1. pc'[w] = "exiting"
        BY <1>0, <3>1 DEF Leave, Go
      <4> QED BY <4>1, LooksForWork DEF SleepInv
    <3>2. CASE Exit(w)
      <4>1. PICK woken \in Signal(AtHasWork), shut \in Signal(AtCanShutdown) : asleep' = woken \cap shut
        BY <3>2 DEF Exit
      <4>2. \A t \in Threads : pc'[t] = "waiting" <=> pc[t] = "waiting"
        BY <2>1, <1>1
      <4> QED BY <4>1, <4>2, SignalWakes DEF SleepInv
    <3> QED BY <3>1, <3>2, <1>7
  <2> QED BY <2>2, <2>4, <2>5, <1>4, <1>5
<1>8. CASE ~(GetWorkExit(w) \/ Leave(w) \/ Exit(w))
  <2>1. \/ pc'[w] \in {"loop", "getwork", "deleting"}
        \/ GetWorkWait(w) /\ pc'[w] = "waiting"
        \/ pc'[w] \in {"cleaning", "idling", "finishing"} /\ cleanup_state' # "DONE"
    <3>1. CASE GetWorkWait(w)
      BY <1>0, <3>1 DEF GetWorkWait, Go
    <3>2. CASE CleanupDelayed(w) \/ CleanupFinds(w) \/ WakeForWork(w) \/ DeleteDelayed(w) \/ NoCleanup(w)
      BY <1>0, <3>2 DEF CleanupDelayed, CleanupFinds, WakeForWork, DeleteDelayed, NoCleanup, Go
    <3>3. CASE StartCleanup(w) \/ Idle(w)
      BY <1>0, <3>3 DEF StartCleanup, Idle, Go
    <3>4. CASE AwaitIdlers(w)
      <4>1. pc[w] = "cleaning" /\ cleanup_state = "STARTING"
        BY <3>4 DEF AwaitIdlers, IInv, CleanupInv
      <4> QED BY <4>1, <1>0, <3>4 DEF AwaitIdlers, Go
    <3>5. CASE IdlerWakes(w)
      <4>1. pc[w] = "idling" /\ cleanup_state # "DONE"
        BY <3>5, <1>3 DEF IdlerWakes
      <4> QED BY <4>1, <1>0, <3>5 DEF IdlerWakes, Go
    <3>6. CASE FinishCleanup(w)
      <4>1. cleanup_idlers # 0 => cleanup_state # "DONE"
        BY DEF IInv, CleanupInv
      <4> QED BY <4>1, <1>0, <3>6 DEF FinishCleanup, Go
    <3> QED BY <3>1, <3>2, <3>3, <3>4, <3>5, <3>6, <1>8 DEF RoamingAction, HandleCleanup
  <2>2. ExitInv'
    BY <2>1, <1>0, <1>1 DEF ExitInv
  <2>3. ~Dead'
    BY <2>1 DEF Dead
  <2>4. SleepInv'
    BY <2>1, LooksForWork, WaiterCovers DEF SleepInv
  <2> QED BY <2>2, <2>3, <2>4, <1>4, <1>5 DEF DeadInv
<1> QED BY <1>6, <1>7, <1>8

\* The steps of a worker that starts, or has a task.
LEMMA BusyWakes ==
    ASSUME IInv, WakeInv, NEW w \in Workers,
           ThreadStart(w) \/ GetWorkFound(w) \/ Announce(w) \/ DidRunWorkerTask(w)
    PROVE  WakeInv'
<1> USE DEF WakeInv
<1>0. DOMAIN pc = Threads /\ w \in Threads /\ Workers \subseteq Threads
  BY DEF IInv, TypeOK, Threads
<1>1. UNCHANGED <<post, clock, shutdown_called, cleanup_state>>
  BY DEF ThreadStart, GetWorkFound, Announce, DidRunWorkerTask, queueVars, cleanupVars
<1>2. CASE ThreadStart(w)
  <2>1. /\ pc'[w] = "loop" /\ \A t \in Threads \ {w} : pc'[t] = pc[t]
        /\ threads' # {} /\ being_created' = FALSE
    BY <1>0, <1>2 DEF ThreadStart, Go
  <2>2. CreatorInv' /\ ExitInv' /\ CleanerInv' /\ DeadInv'
    BY <2>1, <1>0, <1>1 DEF CreatorInv, ExitInv, CleanerInv, DeadInv, Dead
  <2> QED BY <2>1, <2>2, LooksForWork DEF SleepInv
<1>3. CASE GetWorkFound(w)
  <2>1. PICK create \in BOOLEAN :
          /\ pc[w] = "getwork" /\ being_created' = (being_created \/ create)
          /\ pc' = [pc EXCEPT ![w] = IF create THEN "announce_create" ELSE "announce"]
          /\ threads' = threads
    BY <1>3 DEF GetWorkFound, Go
  <2>2. /\ pc'[w] = IF create THEN "announce_create" ELSE "announce"
        /\ \A t \in Threads \ {w} : pc'[t] = pc[t]
    BY <2>1, <1>0
  <2>3. \A t \in Threads : Creating(t) => Creating(t)'
    BY <2>1, <2>2, <1>1 DEF Creating
  <2>4. create => Creating(w)'
    BY <2>2 DEF Creating
  <2>5. CreatorInv'
    BY <2>1, <2>3, <2>4, <1>0 DEF CreatorInv
  <2>6. ExitInv' /\ CleanerInv' /\ DeadInv'
    BY <2>1, <2>2, <1>0, <1>1 DEF ExitInv, CleanerInv, DeadInv, Dead
  <2> QED BY <2>2, <2>5, <2>6, LooksForWork DEF SleepInv
<1>4. CASE DidRunWorkerTask(w)
  <2>1. /\ pc[w] = "running" /\ pc'[w] = "loop" /\ \A t \in Threads \ {w} : pc'[t] = pc[t]
        /\ UNCHANGED <<threads, being_created>>
    BY <1>0, <1>4 DEF DidRunWorkerTask, Go, creationVars
  <2>2. \A t \in Threads : Creating(t) => Creating(t)'
    BY <2>1, <1>1 DEF Creating
  <2>3. CreatorInv' /\ ExitInv' /\ CleanerInv' /\ DeadInv'
    BY <2>1, <2>2, <1>0, <1>1 DEF CreatorInv, ExitInv, CleanerInv, DeadInv, Dead
  <2> QED BY <2>1, <2>3, LooksForWork DEF SleepInv
<1>5. CASE Announce(w)
  <2>1. asleep' \in Signal(AtHasWork) /\ UNCHANGED <<threads, being_created>>
    BY <1>5 DEF Announce, creationVars
  <2>2. CASE pc[w] = "announce"
    <3>1. pc'[w] = "running" /\ \A t \in Threads \ {w} : pc'[t] = pc[t]
      BY <1>0, <1>5, <2>2 DEF Announce, Go
    <3>2. \A t \in Threads : Creating(t) => Creating(t)'
      BY <3>1, <1>1, <2>2 DEF Creating
    <3>3. CreatorInv' /\ ExitInv' /\ CleanerInv' /\ DeadInv'
      BY <3>1, <3>2, <2>1, <1>0, <1>1 DEF CreatorInv, ExitInv, CleanerInv, DeadInv, Dead
    <3>4. \A t \in Threads : pc'[t] = "waiting" <=> pc[t] = "waiting"
      BY <3>1, <2>2
    <3> QED BY <3>3, <3>4, <2>1, SignalWakes DEF SleepInv
  <2>3. CASE pc[w] = "announce_create"
    <3>1. pc' \in Started(w, "running")
      BY <1>5, <2>3 DEF Announce
    <3>2. PICK v \in Workers : /\ pc[v] = "none" /\ pc'[v] = "starting" /\ v # w
                               /\ pc'[w] = "running"
                               /\ \A u \in Threads \ {v, w} : pc'[u] = pc[u]
      BY <1>0, <2>3, <3>1, StartedFacts
    <3>3. Creating(v)' /\ v \in Threads
      BY <3>2 DEF Creating, Threads
    <3>4. CreatorInv' /\ ExitInv' /\ CleanerInv' /\ DeadInv'
      BY <3>2, <3>3, <2>1, <1>0, <1>1 DEF CreatorInv, ExitInv, CleanerInv, DeadInv, Dead
    <3>5. SomeAttentive'
      BY <3>2, LooksForWork
    <3> QED BY <3>4, <3>5 DEF SleepInv
  <2> QED BY <1>5, <2>2, <2>3 DEF Announce
<1> QED BY <1>2, <1>3, <1>4, <1>5


\* Steps after which every thread and every task is where it was, for those who wake.
LEMMA NobodyDisturbed ==
    ASSUME IInv, WakeInv, UNCHANGED <<deadline, pending, current_sequences>>,
           AtHasWork' = AtHasWork,
           \A t \in Threads : Attentive(t) => Attentive(t)',
           cleanup_state' = cleanup_state
    PROVE  SleepInv'
<1>1. Covered => Covered'
  BY DEF Covered, Runnable
<1>2. SomeAttentive => SomeAttentive'
  BY DEF SomeAttentive
<1> QED BY <1>1, <1>2 DEF WakeInv, SleepInv

\* The client that owns the pool moves, or the clock does.
LEMMA MainWakes ==
    ASSUME IInv, WakeInv, Shutdown \/ ShutdownWait \/ CleanupForTesting \/ FlushWakes \/ Tick
    PROVE  WakeInv'
<1> USE DEF WakeInv
<1>0. /\ Main \in Threads /\ Main \notin Workers /\ DOMAIN pc = Threads /\ Workers \subseteq Threads
      /\ asleep \subseteq Threads /\ pc[Main] \in ClientPlaces
  BY PoolAssumption DEF IInv, TypeOK, Threads, PlacesInv
<1>1. /\ UNCHANGED <<post, deadline, pending, current_sequences, threads, being_created>>
      /\ \A t \in Threads \ {Main} : pc'[t] = pc[t]
      /\ pc'[Main] \in ClientPlaces
      /\ shutdown_called => shutdown_called'
  BY <1>0 DEF Shutdown, ShutdownWait, CleanupForTesting, FlushWakes, Tick, Go, queueVars, runVars,
              creationVars, ClientPlaces
<1>2. \A w \in Workers : pc'[w] = pc[w]
  BY <1>0, <1>1
<1>3. CreatorInv'
  <2>1. \A t \in Threads : Creating(t) => Creating(t)'
    BY <1>0, <1>1 DEF Creating, ClientPlaces
  <2> QED BY <2>1, <1>1 DEF CreatorInv
<1>4. ExitInv' /\ DeadInv'
  BY <1>1, <1>2 DEF ExitInv, DeadInv, Dead, Runnable
<1>5. \A t \in Threads : pc'[t] = "waiting" <=> pc[t] = "waiting"
  BY <1>0, <1>1 DEF ClientPlaces
<1>6. CASE CleanupForTesting
  <2>1. cleanup_state' = "REQUESTED" /\ ~shutdown_called
        /\ ~(pending = {} /\ waiting_thread_count = Cardinality(threads))
    BY <1>6 DEF CleanupForTesting
  <2>2. threads # {} \/ being_created
    <3> SUFFICES ASSUME threads = {}, ~being_created PROVE FALSE
      OBVIOUS
    <3>1. \A w \in Workers : pc[w] = "none"
      BY <1>0 DEF IInv, CreationInv, Creating
    <3>2. \A t \in Threads : post[t].stage # "create"
      BY DEF IInv, CreationInv, Creating
    <3>3. Runnable = {}
      BY <3>1, <3>2 DEF DeadInv, Dead
    <3>4. current_sequences = {}
      <4>1. \A w \in Workers : task[w].token = Nobody
        BY <3>1 DEF IInv, TaskInv, HasTask, NoTask
      <4> QED BY <4>1, PoolAssumption DEF IInv, TaskInv, TypeOK
    <3>5. pending = {}
      BY <3>3, <3>4 DEF Runnable, IsSequenceTokenRunnable
    <3>6. {w \in Workers : pc[w] = "waiting"} = {}
      BY <3>1
    <3>7. waiting_thread_count = 0 /\ Cardinality(threads) = 0
      BY <3>6, FS_EmptySet DEF waiting_thread_count
    <3> QED BY <2>1, <3>5, <3>7
  <2> QED BY <2>1, <2>2, <1>1, <1>3, <1>4 DEF CleanerInv, SleepInv
<1>7. CASE ~CleanupForTesting
  <2>1. cleanup_state' = cleanup_state
    BY <1>7 DEF Shutdown, ShutdownWait, FlushWakes, Tick, cleanupVars
  <2>2. CleanerInv'
    BY <2>1, <1>1 DEF CleanerInv
  <2>3. SleepInv'
    <3>1. CASE Shutdown
      <4>1. asleep' \in Signal(AtHasWork)
        BY <3>1 DEF Shutdown
      <4> QED BY <4>1, <1>5, SignalWakes DEF SleepInv
    <3>2. CASE ShutdownWait \/ FlushWakes \/ Tick
      <4>1. asleep' \in {asleep, asleep \cup {Main}}
        BY <3>2 DEF ShutdownWait, FlushWakes, Tick
      <4>2. AtHasWork' = AtHasWork
        BY <4>1, <1>0, <1>1, <1>5 DEF AtHasWork, ClientPlaces
      <4>3. clock \in Nat /\ clock' \in Nat /\ clock <= clock'
        <5>1. clock \in Nat
          BY DEF IInv, TypeOK
        <5> QED BY <5>1, <3>2 DEF ShutdownWait, FlushWakes, Tick
      <4>4. \A t \in Threads : Attentive(t) => Attentive(t)'
        <5> SUFFICES ASSUME NEW t \in Threads, Attentive(t) PROVE Attentive(t)'
          OBVIOUS
        <5>1. CASE post[t].stage \in {"create", "signal"}
          BY <5>1, <1>1 DEF Attentive
        <5>2. CASE t \in Workers
          <6>1. pc'[t] = pc[t] /\ (t \notin asleep => t \notin asleep')
            BY <5>2, <4>1, <1>0, <1>2
          <6>2. deadline'[t] = deadline[t] /\ deadline[t] \in Nat
            BY <5>2, <1>1 DEF IInv, TypeOK
          <6>3. deadline[t] <= clock => deadline'[t] <= clock'
            BY <6>2, <4>3
          <6> QED BY <5>2, <6>1, <6>3, <1>1 DEF Attentive
        <5> QED BY <5>1, <5>2 DEF Attentive
      <4> QED BY <4>2, <4>4, <2>1, <1>1, NobodyDisturbed
    <3> QED BY <3>1, <3>2, <1>7
  <2> QED BY <2>2, <2>3, <1>3, <1>4
<1> QED BY <1>6, <1>7

\* A task that is only stamped, or refused, concerns nobody.
LEMMA StampWakes ==
    ASSUME IInv, WakeInv, NEW t \in Threads,
           \/ PostRefused(t)
           \/ \E token \in Tokens \cup {Nobody}, b \in Behaviors, d \in Delays :
                PostTask(t, token, b, d)
    PROVE  WakeInv'
<1> USE DEF WakeInv
<1>1. /\ UNCHANGED <<pc, asleep, deadline, clock, shutdown_called, pending, current_sequences, threads,
                     being_created, cleanup_state>>
      /\ post[t].stage \in {"none", "stamped"}
  BY DEF PostRefused, PostTask, MayPost, queueVars, runVars, creationVars, cleanupVars
<1>2. post'[t].stage \in {"none", "stamped"} /\ \A u \in Threads \ {t} : post'[u] = post[u]
  <2>1. DOMAIN post = Threads /\ NoPost.stage = "none"
    BY DEF IInv, TypeOK, NoPost
  <2>2. CASE PostRefused(t)
    BY <2>1, <2>2 DEF PostRefused
  <2>3. ASSUME NEW token \in Tokens \cup {Nobody}, NEW b \in Behaviors, NEW d \in Delays,
               PostTask(t, token, b, d)
        PROVE  post'[t].stage \in {"none", "stamped"} /\ \A u \in Threads \ {t} : post'[u] = post[u]
    BY <2>1, <2>3 DEF PostTask
  <2> QED BY <2>2, <2>3
<1>3. \A u \in Threads : (Creating(u) => Creating(u)') /\ (Attentive(u) => Attentive(u)')
  BY <1>1, <1>2 DEF Creating, Attentive
<1>4. \A u \in Threads : post[u].stage = "create" => post'[u].stage = "create"
  BY <1>1, <1>2
<1>5. SleepInv'
  <2>1. AtHasWork' = AtHasWork
    BY <1>1 DEF AtHasWork
  <2> QED BY <2>1, <1>1, <1>3, NobodyDisturbed
<1>6. CreatorInv'
  BY <1>1, <1>3 DEF CreatorInv
<1>7. DeadInv'
  BY <1>1, <1>4 DEF DeadInv, Dead, Runnable
<1>8. ExitInv' /\ CleanerInv'
  BY <1>1 DEF ExitInv, CleanerInv
<1> QED BY <1>5, <1>6, <1>7, <1>8

\* A task comes into the pool: if there is no worker, one will be created for it.
LEMMA PostLockedWakes ==
    ASSUME IInv, WakeInv, NEW t \in Threads, PostLocked(t)
    PROVE  WakeInv'
<1> USE DEF WakeInv
<1> DEFINE new == [number |-> next_number, token |-> post[t].token,
                   behavior |-> post[t].behavior, time |-> post[t].time,
                   before |-> post[t].before]
           create == Helpful(pending \cup {new}, current_sequences)
<1>1. /\ UNCHANGED <<pc, asleep, deadline, clock, shutdown_called, current_sequences, task, threads,
                     cleanup_state>>
      /\ post[t].stage = "stamped" /\ Accepted(t)
      /\ being_created' = (being_created \/ create)
      /\ post' = [post EXCEPT ![t] = [stage |-> IF create THEN "create" ELSE "signal"]]
  BY DEF PostLocked, runVars, cleanupVars
<1>2. /\ post'[t].stage = IF create THEN "create" ELSE "signal"
      /\ \A u \in Threads \ {t} : post'[u] = post[u]
  <2> HIDE DEF create
  <2> QED BY <1>1 DEF IInv, TypeOK
<1>3. ASSUME Dead, ~being_created PROVE create
  <2>0. pc[t] = Home(t)
    BY <1>1 DEF IInv, PlacesInv
  <2>1. t \notin Workers
    BY <1>3, <2>0 DEF Dead, Home
  <2>2. t \notin threads
    BY <2>1 DEF IInv, TypeOK
  <2>3. ~shutdown_called
    BY <1>1, <2>2 DEF Accepted, CurrentThreadShutdownBehavior
  <2>4. \A w \in Workers : pc[w] = "none"
    BY <1>3, <2>3 DEF Dead, ExitInv
  <2>5. threads = {}
    BY <2>4 DEF IInv, CreationInv, TypeOK
  <2>6. cleanup_state = "DONE"
    BY <1>3, <2>5 DEF CleanerInv
  <2>7. Cardinality(threads) < MaxThreads /\ waiting_thread_count = 0
    <3>1. {w \in Workers : pc[w] = "waiting"} = {}
      BY <2>4
    <3> QED BY <2>5, <3>1, FS_EmptySet, PoolAssumption DEF waiting_thread_count
  <2>8. current_sequences = {}
    <3>1. \A w \in Workers : task[w].token = Nobody
      BY <2>4 DEF IInv, TaskInv, HasTask, NoTask
    <3> QED BY <3>1, PoolAssumption DEF IInv, TaskInv, TypeOK
  <2>9. IsSequenceTokenRunnable(new.token, current_sequences)
    BY <2>8 DEF IsSequenceTokenRunnable
  <2> QED BY <1>3, <2>3, <2>6, <2>7, <2>9 DEF Helpful
<1> HIDE DEF create
<1>4. CreatorInv'
  <2>1. \A u \in Threads : Creating(u) => Creating(u)'
    BY <1>1, <1>2 DEF Creating
  <2>2. create => Creating(t)'
    BY <1>2 DEF Creating
  <2> QED BY <2>1, <2>2, <1>1 DEF CreatorInv
<1>5. DeadInv'
  <2> SUFFICES ASSUME Dead PROVE \E u \in Threads : post'[u].stage = "create"
    BY <1>1 DEF DeadInv, Dead
  <2>1. CASE being_created
    <3>1. PICK u \in Threads : Creating(u)
      BY <2>1 DEF CreatorInv
    <3>2. pc[u] \notin {"announce_create", "starting"}
      <4>1. CASE u \in Workers
        BY <4>1 DEF Dead
      <4>2. CASE u \notin Workers
        BY <4>2 DEF IInv, PlacesInv, Threads, ClientPlaces
      <4> QED BY <4>1, <4>2
    <3>3. post[u].stage = "create"
      BY <3>1, <3>2 DEF Creating
    <3> QED BY <3>3, <1>1, <1>2
  <2>2. CASE ~being_created
    BY <2>2, <1>2, <1>3
  <2> QED BY <2>1, <2>2
<1>6. ExitInv' /\ CleanerInv'
  BY <1>1 DEF ExitInv, CleanerInv
<1>7. SleepInv'
  BY <1>2 DEF SleepInv, SomeAttentive, Attentive
<1> QED BY <1>4, <1>5, <1>6, <1>7

\* The thread is created, or a worker is told of the task.
LEMMA PostFinishWakes ==
    ASSUME IInv, WakeInv, NEW t \in Threads, PostFinish(t)
    PROVE  WakeInv'
<1> USE DEF WakeInv
<1>1. /\ UNCHANGED <<deadline, clock, shutdown_called, pending, current_sequences, threads,
                     being_created, cleanup_state>>
      /\ post' = [post EXCEPT ![t] = NoPost]
  BY DEF PostFinish, queueVars, runVars, creationVars, cleanupVars
<1>2. \A u \in Threads \ {t} : post'[u] = post[u]
  BY <1>1 DEF IInv, TypeOK
<1>3. CASE post[t].stage = "create"
  <2>1. pc' \in Started(t, pc[t]) /\ asleep' = asleep
    BY <1>3 DEF PostFinish
  <2>2. pc[t] # "none"
    BY <1>3 DEF IInv, PlacesInv, Home
  <2>3. PICK w \in Workers : /\ pc[w] = "none" /\ pc'[w] = "starting" /\ w # t
                             /\ pc'[t] = pc[t]
                             /\ \A u \in Threads \ {w, t} : pc'[u] = pc[u]
    BY <2>1, <2>2, StartedFacts
  <2>4. Creating(w)' /\ w \in Threads
    BY <2>3 DEF Creating, Threads
  <2>5. CreatorInv' /\ ExitInv' /\ CleanerInv' /\ DeadInv'
    BY <2>3, <2>4, <1>1 DEF CreatorInv, ExitInv, CleanerInv, DeadInv, Dead, Threads
  <2>6. SomeAttentive'
    BY <2>3, LooksForWork
  <2> QED BY <2>5, <2>6 DEF SleepInv
<1>4. CASE post[t].stage = "signal"
  <2>1. pc' = pc /\ asleep' \in Signal(AtHasWork)
    BY <1>4 DEF PostFinish
  <2>2. SleepInv'
    BY <2>1, SignalWakes DEF SleepInv
  <2>3. \A u \in Threads : (Creating(u) => Creating(u)') /\ (post[u].stage = "create" => post'[u].stage = "create")
    BY <2>1, <1>2, <1>4 DEF Creating
  <2>4. CreatorInv' /\ DeadInv'
    BY <2>1, <2>3, <1>1 DEF CreatorInv, DeadInv, Dead, Runnable
  <2>5. ExitInv' /\ CleanerInv'
    BY <2>1, <1>1 DEF ExitInv, CleanerInv
  <2> QED BY <2>2, <2>4, <2>5
<1> QED BY <1>3, <1>4 DEF PostFinish

\* No wakeup is lost, whatever the number of workers, of posting threads and of tasks, in a
\* shutdown and after a cleanup too: while a worker sleeps, or there is none, a task that
\* is due and may run has a thread that is about to look for it, to wake a worker or to
\* create one.
THEOREM NoTaskIsForgotten == Spec => []NoTaskForgotten
<1>1. Init => WakeInv
  <2> SUFFICES ASSUME Init PROVE WakeInv
    OBVIOUS
  <2>1. /\ being_created = FALSE /\ cleanup_state = "DONE" /\ pending = {} /\ asleep = {}
        /\ \A w \in Workers : pc[w] = "none"
    BY DEF Init, Threads
  <2> QED BY <2>1 DEF WakeInv, CreatorInv, ExitInv, CleanerInv, DeadInv, SleepInv, Runnable, AtHasWork
<1>2. IInv /\ WakeInv /\ [Next]_vars => WakeInv'
  <2> SUFFICES ASSUME IInv, WakeInv, [Next]_vars PROVE WakeInv'
    OBVIOUS
  <2>1. ASSUME NEW w \in Workers, ThreadLoop(w) PROVE WakeInv'
    <3>1. RoamingAction(w) \/ ThreadStart(w) \/ GetWorkFound(w) \/ Announce(w) \/ DidRunWorkerTask(w)
      BY <2>1 DEF ThreadLoop, GetWork, RoamingAction
    <3> QED BY <3>1, RoamingWakes, BusyWakes
  <2>2. ASSUME NEW t \in Threads, Posting(t) PROVE WakeInv'
    BY <2>2, StampWakes, PostLockedWakes, PostFinishWakes DEF Posting
  <2>3. CASE UNCHANGED vars
    BY <2>3 DEF vars, queueVars, runVars, creationVars, cleanupVars, WakeInv, CreatorInv, ExitInv,
                CleanerInv, DeadInv, SleepInv, Runnable, AtHasWork, Dead, Covered, SomeAttentive,
                Attentive, Creating
  <2> QED BY <2>1, <2>2, <2>3, StampWakes, MainWakes DEF Next
<1>3. IInv /\ WakeInv => NoTaskForgotten
  <2> SUFFICES ASSUME IInv, WakeInv, cleanup_state = "DONE", NEW t \in Runnable, Due(t),
                      AtHasWork # {} \/ \A w \in Workers : pc[w] \in {"none", "exited"}
               PROVE  SomeAttentive
    BY DEF NoTaskForgotten, SomeAttentive
  <2>1. CASE AtHasWork # {}
    <3> SUFFICES ASSUME Covered PROVE SomeAttentive
      BY <2>1 DEF WakeInv, SleepInv
    <3>1. PICK w \in AtHasWork : deadline[w] <= t.time
      BY DEF Covered
    <3>2. w \in asleep /\ w \in Threads /\ pc[w] = "waiting"
      BY <3>1 DEF AtHasWork, IInv, TypeOK
    <3>3. w \in Workers
      BY <3>2 DEF IInv, PlacesInv, ClientPlaces, Threads
    <3>4. deadline[w] \in Nat /\ t.time \in Nat /\ clock \in Nat
      BY <3>3 DEF IInv, TypeOK, Runnable, Tasks
    <3>5. deadline[w] <= clock
      BY <3>1, <3>4 DEF Due
    <3> QED BY <3>2, <3>3, <3>5 DEF SomeAttentive, Attentive
  <2>2. CASE \A w \in Workers : pc[w] \in {"none", "exited"}
    <3>1. \E u \in Threads : post[u].stage = "create"
      BY <2>2 DEF WakeInv, DeadInv, Dead
    <3> QED BY <3>1 DEF SomeAttentive, Attentive
  <2> QED BY <2>1, <2>2
<1> QED BY <1>1, <1>2, <1>3, InductiveInvariant, PTL DEF Spec
=============================================================================
