-------------------------- MODULE ClientSocketPool --------------------------
(***************************************************************************)
(* net/socket: ClientSocketPoolBaseHelper, the pool that every transport,  *)
(* SSL, SOCKS and proxy socket pool is built on, with the                  *)
(* ClientSocketHandles of its clients and the message loop on which the    *)
(* pool posts its callbacks.  Everything runs on the network thread; what  *)
(* interleaves is the calls of the clients, the completions of connect     *)
(* jobs, three timers, the tasks the pool posts to itself and the calls of *)
(* the pools above and below it.                                           *)
(*                                                                         *)
(* A method that may end in several ways (a Connect() that completes at    *)
(* once or later, an idle socket that turns out to be disconnected) is an  *)
(* operator from a pool to the set of pools it may leave behind, so that a *)
(* handler is the composition of the methods it calls.                     *)
(*                                                                         *)
(* A socket or a connect job is represented by the generation of the pool  *)
(* it was created in; nothing else distinguishes it.  Names of groups are  *)
(* unordered here, so where the code takes the first group of its map the  *)
(* model takes any.                                                        *)
(***************************************************************************)
EXTENDS Integers, Sequences, FiniteSets, SequencesExt

CONSTANTS
    Groups,            \* group names
    Handles,           \* ClientSocketHandles
    None,              \* the handle of a preconnect, the group of a free handle
    Urgent,            \* handles whose requests have the higher priority
    MaxSockets,        \* max_sockets_
    MaxSocketsPerGroup,\* max_sockets_per_group_
    BackupJobs,        \* connect_backup_jobs_enabled_
    MaxFlushes,        \* bound: calls of FlushWithError
    Loads              \* what a pool is and what is done with it, see Load

Results == {"OK", "ERR_IO_PENDING", "ERR", "ERR_WITH_SOCKET"}

Load == [ignoreLimits : SUBSET (Handles \cup {None}), \* whose requests ignore limits
         connectResults : SUBSET Results \ {{}},      \* what Connect() may return
         cleanupTimer : BOOLEAN,                      \* use_cleanup_timer_
         lowerStalls : SUBSET BOOLEAN \ {{}},          \* IsStalled() of the pools below
         requests : Nat]     \* bound: calls of RequestSocket and RequestSockets

ASSUME PoolAssumption ==
    /\ IsFiniteSet(Groups) /\ IsFiniteSet(Handles) /\ None \notin Handles \cup Groups
    /\ Urgent \subseteq Handles
    /\ MaxSockets \in Nat /\ MaxSocketsPerGroup \in 0 .. MaxSockets
    /\ BackupJobs \in BOOLEAN /\ MaxFlushes \in Nat
    /\ Loads \subseteq Load

VARIABLES
    pool,       \* the ClientSocketPoolBaseHelper and its handles, see TypeOK
    requests,   \* calls of RequestSocket and RequestSockets so far
    alive,      \* FALSE once the pool is destroyed
    load        \* never changes

vars == <<pool, requests, alive, load>>

IgnoreLimits == load.ignoreLimits
ConnectResults == load.connectResults
UseCleanupTimer == load.cleanupTimer
LowerStalls == load.lowerStalls

NoSocket == -1
Generations == 0 .. MaxFlushes

NewGroup == [idle_sockets |-> <<>>, jobs |-> <<>>, unassigned_job_count |-> 0,
             pending_requests |-> <<>>, active_socket_count |-> 0,
             backup_job_timer |-> FALSE]

\* A handle on which Init() was not called, or that was reset.
FreeHandle == [phase |-> "free", group |-> None, socket |-> NoSocket,
               pool_id |-> NoSocket]

CallbackTask(h) == [type |-> "InvokeUserCallback", handle |-> h]
CloseTask == [type |-> "TryToCloseSocketsInLayeredPools", handle |-> None]

-----------------------------------------------------------------------------
(* Group: the sockets, jobs and requests of one destination.               *)

IsEmpty(gr) ==
    /\ gr.active_socket_count = 0 /\ gr.idle_sockets = <<>>
    /\ gr.jobs = <<>> /\ gr.pending_requests = <<>>

NumActiveSocketSlots(gr) ==
    gr.active_socket_count + Len(gr.jobs) + Len(gr.idle_sockets)

HasAvailableSocketSlot(gr) == NumActiveSocketSlots(gr) < MaxSocketsPerGroup

IsStalledOnPoolMaxSockets(gr) ==
    HasAvailableSocketSlot(gr) /\ Len(gr.pending_requests) > Len(gr.jobs)

\* Some job was started for no request (TryToUseUnassignedConnectJob).
HasUnassignedJob(gr) == gr.unassigned_job_count > 0

Priority(h) == IF h \in Urgent THEN 1 ELSE 0

\* Requests that ignore the limits go before all others.
QueuePriority(h) == Priority(h) + (IF h \in IgnoreLimits THEN 2 ELSE 0)

\* Behind every request of the same or a higher priority.
InsertPendingRequest(gr, h) ==
    LET before == {i \in DOMAIN gr.pending_requests :
                      QueuePriority(gr.pending_requests[i]) >= QueuePriority(h)}
    IN  [gr EXCEPT !.pending_requests = InsertAt(@, Cardinality(before) + 1, h)]

\* The backup job is not needed once nobody waits for a socket.
RemovePendingRequest(gr, h) ==
    LET left == RemoveFirst(gr.pending_requests, h)
    IN  [gr EXCEPT !.pending_requests = left,
                   !.backup_job_timer = @ /\ left # <<>>]

AddJobToGroup(gr, generation, preconnecting) ==
    [gr EXCEPT !.jobs = Append(@, generation),
               !.unassigned_job_count = IF preconnecting THEN @ + 1 ELSE @]

\* Fault: the backup job timer outlives the jobs.
RemoveJobOnly(gr, i) ==
    LET left == RemoveAt(gr.jobs, i)
    IN  [gr EXCEPT !.jobs = left,
                   !.unassigned_job_count = IF Len(left) < @ THEN Len(left) ELSE @]

\* unassigned_job_count_ never exceeds the number of jobs, and the backup
\* job timer stops with the last job.
RemoveJob(gr, i) ==
    LET left == RemoveAt(gr.jobs, i)
    IN  [gr EXCEPT !.jobs = left,
                   !.unassigned_job_count = IF Len(left) < @ THEN Len(left) ELSE @,
                   !.backup_job_timer = @ /\ left # <<>>]

-----------------------------------------------------------------------------
(* Steps on the whole pool that end in one way.                            *)

\* A CHECK or DCHECK: the first one that fails ends the behaviour.
Check(p, condition) == [p EXCEPT !.failed = @ \/ ~condition]

GetOrCreateGroup(p, g) == [p EXCEPT !.group_map = @ \cup {g}]

\* ~Group() asserts that no job is left unassigned.
RemoveGroup(p, g) ==
    [Check(p, g \in p.group_map /\ p.groups[g].unassigned_job_count = 0)
        EXCEPT !.group_map = @ \ {g}, !.groups[g] = NewGroup]

RemoveIfEmpty(p, g) == IF IsEmpty(p.groups[g]) THEN RemoveGroup(p, g) ELSE p

ReachedMaxSocketsLimit(p) ==
    p.handed_out + p.connecting + p.idle >= MaxSockets

StalledGroups(p) ==
    {g \in p.group_map : /\ p.groups[g].pending_requests # <<>>
                         /\ IsStalledOnPoolMaxSockets(p.groups[g])}

\* lower is what the pools below answer.
IsStalled(p, lower) ==
    \/ lower
    \/ /\ p.handed_out + p.connecting >= MaxSockets
       /\ \E g \in p.group_map : IsStalledOnPoolMaxSockets(p.groups[g])

HandOutSocket(p, g, h, socket) ==
    [p EXCEPT !.handles[h].socket = socket,
              !.handles[h].pool_id = p.generation,
              !.handed_out = @ + 1,
              !.groups[g].active_socket_count = @ + 1]

AddIdleSocket(p, g, socket) ==
    [p EXCEPT !.groups[g].idle_sockets = Append(@, socket), !.idle = @ + 1]

AddConnectJob(p, g, preconnecting) ==
    [p EXCEPT !.connecting = @ + 1,
              !.groups[g] = AddJobToGroup(@, p.generation, preconnecting)]

RemoveConnectJob(p, g, i) ==
    [Check(p, p.connecting > 0) EXCEPT !.connecting = @ - 1,
                                       !.groups[g] = RemoveJob(@, i)]

InvokeUserCallbackLater(p, h, rv) ==
    [Check(p, p.callbacks[h] = "none") EXCEPT
        !.callbacks[h] = rv, !.tasks = Append(@, CallbackTask(h))]

\* ClientSocketHandle::HandleInitCompletion: a failed request without a
\* socket resets its handle.
HandleInitCompletion(p, h, rv) ==
    IF rv # "OK" /\ p.handles[h].socket = NoSocket
    THEN [p EXCEPT !.handles[h] = FreeHandle]
    ELSE [p EXCEPT !.handles[h].phase = "ready"]

-----------------------------------------------------------------------------
(* Idle sockets.                                                           *)

\* What can be left of a sequence when elements of it are dropped.
Subsequences(s) ==
    LET Increasing(n) == {f \in [1 .. n -> DOMAIN s] : \A i, j \in 1 .. n : i < j => f[i] < f[j]}
    IN  UNION {{[i \in 1 .. n |-> s[f[i]]] : f \in Increasing(n)} : n \in 0 .. Len(s)}

\* Every idle socket is dropped that keep does not hold, and every group
\* that is no longer needed is deleted.
Sweep(p, keep) ==
    LET kept == [g \in Groups |->
                    [p.groups[g] EXCEPT !.idle_sockets = keep[g]]]
        gone == {g \in p.group_map : IsEmpty(kept[g])}
        dropped == [g \in Groups |-> Len(p.groups[g].idle_sockets) - Len(keep[g])]
    IN  [Check(p, \A g \in gone : p.groups[g].unassigned_job_count = 0)
            EXCEPT !.groups = [g \in Groups |->
                                  IF g \in gone THEN NewGroup ELSE kept[g]],
                   !.group_map = @ \ gone,
                   !.idle = @ - SumFunction(dropped)]

\* With force every idle socket is closed; otherwise those that timed out or
\* are disconnected or have received data, which may be any of them.
CleanupIdleSockets(p, force) ==
    LET Kept(g) == IF force THEN {<<>>} ELSE Subsequences(p.groups[g].idle_sockets)
    IN  IF p.idle = 0 THEN {p}
        ELSE {Sweep(p, keep) : keep \in
                {k \in [Groups -> UNION {Kept(g) : g \in Groups}] :
                    \A g \in Groups : k[g] \in Kept(g)}}

\* In a group other than those in except; closed says whether there was one.
CloseOneIdleSocketExceptIn(p, except) ==
    LET having == {g \in p.group_map \ except : p.groups[g].idle_sockets # <<>>}
        Closed(g) == RemoveIfEmpty([p EXCEPT !.groups[g].idle_sockets = Tail(@),
                                             !.idle = @ - 1], g)
    IN  IF having = {} THEN {[pool |-> Check(p, p.idle > 0), closed |-> FALSE]}
        ELSE {[pool |-> Check(Closed(g), p.idle > 0), closed |-> TRUE] : g \in having}

CloseOneIdleSocket(p) ==
    IF p.idle = 0 THEN {p}
    ELSE {c.pool : c \in CloseOneIdleSocketExceptIn(p, {})}

\* Sockets of the group that are found disconnected are deleted; one of the
\* others is handed out.  rv is "none" when no one is left.
AssignIdleSocketToRequest(p, g, h) ==
    LET Kept(s) == [p EXCEPT !.groups[g].idle_sockets = s,
                             !.idle = @ - (Len(p.groups[g].idle_sockets) - Len(s))]
        Taken(s, i) == HandOutSocket(
                          [Kept(s) EXCEPT !.groups[g].idle_sockets = RemoveAt(s, i),
                                          !.idle = @ - 1], g, h, s[i])
    IN  UNION {IF s = <<>> THEN {[pool |-> Kept(s), rv |-> "none"]}
               ELSE {[pool |-> Taken(s, i), rv |-> "OK"] : i \in DOMAIN s} :
               s \in Subsequences(p.groups[g].idle_sockets)}

-----------------------------------------------------------------------------
(* RequestSocketInternal: h is the handle of the request, None for a   *)
(* preconnect.  Its outcomes are pairs of a pool and the value returned.   *)

\* ConnectJob::Connect() on a new job, and what becomes of its result.
ConnectNewJob(p, g, h) ==
    LET preconnecting == h = None
        timed == [p EXCEPT !.groups[g].backup_job_timer =
                      @ \/ (BackupJobs /\ IsEmpty(p.groups[g]))]
        After(rv) ==
            CASE rv = "OK" /\ preconnecting -> AddIdleSocket(p, g, p.generation)
              [] rv = "ERR_IO_PENDING" -> AddConnectJob(timed, g, preconnecting)
              [] rv \in {"OK", "ERR_WITH_SOCKET"} /\ ~preconnecting ->
                    HandOutSocket(p, g, h, p.generation)
              [] OTHER -> RemoveIfEmpty(p, g)
    IN  {[pool |-> After(rv), rv |-> rv] : rv \in ConnectResults}

\* Whether a request may have another socket, and what has to go for it.
AllocateSocket(p, g, h) ==
    LET gr == p.groups[g]
        limited == h \notin IgnoreLimits
        pending == {[pool |-> p, rv |-> "ERR_IO_PENDING"]}
    IN  CASE h # None /\ HasUnassignedJob(gr) ->
                {[pool |-> [p EXCEPT !.groups[g].unassigned_job_count = @ - 1],
                  rv |-> "ERR_IO_PENDING"]}
          [] OTHER ->
             IF limited /\ ~HasAvailableSocketSlot(gr) THEN pending
             ELSE IF limited /\ ReachedMaxSocketsLimit(p)
             THEN IF p.idle = 0 THEN pending
                  ELSE UNION {IF h = None /\ ~c.closed
                              THEN {[pool |-> c.pool, rv |-> "ERR"]}
                              ELSE ConnectNewJob(c.pool, g, h) :
                              c \in CloseOneIdleSocketExceptIn(p, {g})}
             ELSE ConnectNewJob(p, g, h)

\* A preconnect bypasses the idle sockets (NO_IDLE_SOCKETS).
RequestSocketInternal(p, g, h) ==
    LET found == GetOrCreateGroup(p, g)
        tried == IF h = None THEN {[pool |-> found, rv |-> "none"]}
                 ELSE AssignIdleSocketToRequest(found, g, h)
    IN  UNION {IF t.rv = "OK" THEN {t} ELSE AllocateSocket(t.pool, g, h) : t \in tried}

ProcessPendingRequest(p, g) ==
    LET h == Head(p.groups[g].pending_requests)
        Answered(o) ==
            InvokeUserCallbackLater(
                RemoveIfEmpty([o.pool EXCEPT !.groups[g] = RemovePendingRequest(@, h)], g),
                h, o.rv)
    IN  {IF o.rv = "ERR_IO_PENDING" THEN o.pool ELSE Answered(o) :
            o \in RequestSocketInternal(p, g, h)}

OnAvailableSocketSlot(p, g) ==
    LET q == Check(p, g \in p.group_map)
    IN  IF IsEmpty(q.groups[g]) THEN {RemoveGroup(q, g)}
        ELSE IF q.groups[g].pending_requests # <<>> THEN ProcessPendingRequest(q, g)
        ELSE {q}

\* The stalled groups whose next request has the highest priority.
FindTopStalledGroup(p) ==
    LET Top(g) == Priority(Head(p.groups[g].pending_requests))
    IN  {g \in StalledGroups(p) : \A o \in StalledGroups(p) : Top(g) >= Top(o)}

\* Fault: at the limit no idle socket makes way for a stalled group.
CheckBelowLimit(p) ==
    IF ReachedMaxSocketsLimit(p) THEN {p}
    ELSE UNION {OnAvailableSocketSlot(p, g) : g \in FindTopStalledGroup(p)}

CheckForStalledSocketGroups(p) ==
    IF StalledGroups(p) = {}
    THEN UNION {IF lower THEN CloseOneIdleSocket(p) ELSE {p} : lower \in LowerStalls}
    ELSE IF ReachedMaxSocketsLimit(p) /\ p.idle = 0 THEN {p}
    ELSE LET freed == IF ReachedMaxSocketsLimit(p) THEN CloseOneIdleSocket(p) ELSE {p}
         IN  UNION {OnAvailableSocketSlot(q, g) :
                       q \in freed, g \in FindTopStalledGroup(p)}

\* The slot of a socket that went idle is offered to its own group first.
OfferSlot(p, g) ==
    UNION {CheckForStalledSocketGroups(q) : q \in OnAvailableSocketSlot(p, g)}

\* Fault: the generation of the socket does not matter.
CanReuseConnected(p, id, connected) == connected

CanReuse(p, id, connected) == connected /\ id = p.generation

ReleaseSocket(p, g, socket, id, connected) ==
    LET q == [Check(p, /\ g \in p.group_map /\ p.handed_out > 0
                       /\ p.groups[g].active_socket_count > 0)
                 EXCEPT !.handed_out = @ - 1,
                        !.groups[g].active_socket_count = @ - 1]
    IN  IF CanReuse(p, id, connected)
        THEN OfferSlot(AddIdleSocket(q, g, socket), g)
        ELSE CheckForStalledSocketGroups(q)

\* ClientSocketHandle::Reset() on an initialized handle.
ResetHandle(p, h, connected) ==
    LET old == p.handles[h]
    IN  ReleaseSocket([p EXCEPT !.handles[h] = FreeHandle],
                      old.group, old.socket, old.pool_id, connected)

\* Job i of the group has ended with rv.
OnConnectJobComplete(p, g, i, rv) ==
    LET socket == p.groups[g].jobs[i]
        waiting == p.groups[g].pending_requests # <<>>
        h == Head(p.groups[g].pending_requests)
        removed == RemoveConnectJob(Check(p, g \in p.group_map), g, i)
        popped == [removed EXCEPT !.groups[g] = RemovePendingRequest(@, h)]
    IN  CASE waiting /\ rv \in {"OK", "ERR_WITH_SOCKET"} ->
                {InvokeUserCallbackLater(HandOutSocket(popped, g, h, socket), h, rv)}
          [] waiting /\ rv = "ERR" ->
                OfferSlot(InvokeUserCallbackLater(popped, h, rv), g)
          [] ~waiting /\ rv = "OK" -> OfferSlot(AddIdleSocket(removed, g, socket), g)
          [] OTHER -> OfferSlot(removed, g)

-----------------------------------------------------------------------------
(* Actions: calls of clients.                                              *)

Alive == alive /\ ~pool.failed

CanRequest == Alive /\ requests < load.requests /\ requests' = requests + 1
              /\ UNCHANGED <<alive, load>>

\* Idle sockets are pruned on requests when there is no timer for it.
Pruned(p) == IF UseCleanupTimer THEN {p} ELSE CleanupIdleSockets(p, FALSE)

\* The request is queued.  If it is stalled on the limit of the pool, idle
\* connections of higher layers shall make way for it, in a task of its own.
Waiting(p, g, h) ==
    LET gr == InsertPendingRequest(p.groups[g], h)
    IN  [p EXCEPT !.groups[g] = gr,
                  !.handles[h].phase = "waiting",
                  !.tasks = IF IsStalledOnPoolMaxSockets(gr) THEN Append(@, CloseTask) ELSE @]

\* ClientSocketHandle::Init on a free handle, and RequestSocket.
RequestSocket(h, g) ==
    /\ CanRequest
    /\ pool.handles[h].phase = "free"
    /\ \E p \in Pruned(pool) :
         \E o \in RequestSocketInternal([p EXCEPT !.handles[h].group = g], g, h) :
            pool' = IF o.rv = "ERR_IO_PENDING" THEN Waiting(o.pool, g, h)
                    ELSE HandleInitCompletion(o.pool, h, o.rv)

\* One iteration of the loop of RequestSockets, until n sockets are in use
\* in the group or a connection fails at once.
PreconnectOnce(o, g, n) ==
    IF o.rv \in {"OK", "ERR_IO_PENDING"} /\ NumActiveSocketSlots(o.pool.groups[g]) < n
    THEN {[pool |-> Check(q.pool, \/ q.rv \in {"ERR", "ERR_WITH_SOCKET"}
                                  \/ g \in q.pool.group_map), rv |-> q.rv] :
             q \in RequestSocketInternal(o.pool, g, None)}
    ELSE {o}

RequestSockets(g, num_sockets) ==
    LET n == IF num_sockets > MaxSocketsPerGroup THEN MaxSocketsPerGroup ELSE num_sockets
        start == {[pool |-> GetOrCreateGroup(p, g), rv |-> "OK"] : p \in Pruned(pool)}
        After[k \in 0 .. n] ==
            IF k = 0 THEN start ELSE UNION {PreconnectOnce(o, g, n) : o \in After[k - 1]}
    IN  /\ CanRequest
        /\ \E o \in After[n] :
             pool' = IF g \in o.pool.group_map THEN RemoveIfEmpty(o.pool, g) ELSE o.pool

\* ClientSocketHandle::Reset on an initialized handle.
Release(h, connected) ==
    /\ Alive
    /\ pool.handles[h].phase = "ready"
    /\ pool' \in ResetHandle(pool, h, connected)
    /\ UNCHANGED <<requests, alive, load>>

\* Fault: the socket is deleted with its handle.
CancelCallbackOnly(p, h) ==
    {[p EXCEPT !.callbacks[h] = "none", !.handles[h] = FreeHandle]}

\* Fault: the entry in the callback map stays.
CancelSocketOnly(p, h) ==
    LET old == p.handles[h]
        q == [p EXCEPT !.handles[h] = FreeHandle]
    IN  IF old.socket = NoSocket THEN {q}
        ELSE ReleaseSocket(q, old.group, old.socket, old.pool_id, FALSE)

\* The callback is already posted: a socket it was to bring goes back.
CancelCallback(p, h) ==
    LET old == p.handles[h]
        q == [p EXCEPT !.callbacks[h] = "none", !.handles[h] = FreeHandle]
    IN  IF old.socket = NoSocket THEN {q}
        ELSE UNION {ReleaseSocket(q, old.group, old.socket, old.pool_id, connected) :
                       connected \in {FALSE, p.callbacks[h] = "OK"}}

\* The request is still waiting: a job nobody waits for ends at the limit.
CancelPending(p, h) ==
    LET g == p.handles[h].group
        q == [Check(p, g \in p.group_map) EXCEPT
                 !.groups[g] = RemovePendingRequest(@, h),
                 !.handles[h] = FreeHandle]
        gr == q.groups[g]
    IN  IF Len(gr.jobs) > Len(gr.pending_requests) /\ ReachedMaxSocketsLimit(q)
        THEN UNION {CheckForStalledSocketGroups(RemoveConnectJob(q, g, i)) :
                       i \in DOMAIN gr.jobs}
        ELSE {q}

\* ClientSocketHandle::Reset on a handle that waits, and CancelRequest.
CancelRequest(h) ==
    /\ Alive
    /\ pool.handles[h].phase = "waiting"
    /\ pool' \in (IF pool.callbacks[h] # "none" THEN CancelCallback(pool, h)
                  ELSE CancelPending(pool, h))
    /\ UNCHANGED <<requests, alive, load>>

-----------------------------------------------------------------------------
(* Actions: connect jobs, timers and tasks.                                *)

\* A connect job ends: by itself or by its timeout (ConnectJob::OnTimeout).
ConnectJobComplete(g) ==
    /\ Alive
    /\ \E i \in DOMAIN pool.groups[g].jobs, rv \in {"OK", "ERR", "ERR_WITH_SOCKET"} :
          pool' \in OnConnectJobComplete(pool, g, i, rv)
    /\ UNCHANGED <<requests, alive, load>>

\* The SYN of the first job may be lost: a second job races it.
StartBackupJob(p, g) ==
    LET gr == p.groups[g]
        stopped == [p EXCEPT !.groups[g].backup_job_timer = FALSE]
        added == AddConnectJob(stopped, g, FALSE)
        last == Len(added.groups[g].jobs)
    IN  IF gr.pending_requests = <<>> THEN {stopped}
        ELSE UNION {IF rv = "ERR_IO_PENDING" THEN {added}
                    ELSE OnConnectJobComplete(added, g, last, rv) : rv \in ConnectResults}

\* At the limits the timer starts again, which changes nothing here.  So it
\* does while the first job is still resolving the host's name.
OnBackupJobTimerFired(g) ==
    LET gr == pool.groups[g]
        later == ReachedMaxSocketsLimit(pool) \/ ~HasAvailableSocketSlot(gr)
    IN  /\ Alive
        /\ gr.backup_job_timer
        /\ pool' \in IF gr.jobs = <<>> THEN {Check(pool, FALSE)}
                     ELSE IF later THEN {pool} ELSE StartBackupJob(pool, g)
        /\ UNCHANGED <<requests, alive, load>>

\* The timer runs as long as there are idle sockets.
OnCleanupTimerFired ==
    /\ Alive /\ UseCleanupTimer /\ pool.idle > 0
    /\ pool' \in CleanupIdleSockets(pool, FALSE)
    /\ UNCHANGED <<requests, alive, load>>

CloseIdleSockets ==
    /\ Alive
    /\ pool' \in {Check(p, p.idle = 0) : p \in CleanupIdleSockets(pool, TRUE)}
    /\ UNCHANGED <<requests, alive, load>>

InvokeUserCallback(p, h) ==
    IF p.callbacks[h] = "none" THEN p
    ELSE HandleInitCompletion(
            [Check(p, p.handles[h].phase = "waiting") EXCEPT !.callbacks[h] = "none"],
            h, p.callbacks[h])

-----------------------------------------------------------------------------
(* The pools above.  A handle that is parked belongs to a connection of a  *)
(* higher layer (a SpdySession) that has nothing to do on it.              *)

Parked(p) == {h \in Handles : p.handles[h].phase = "parked"}

\* As long as the pool is stalled and a higher layer has an idle connection,
\* that is closed, which releases its socket.
TryToCloseSocketsInLayeredPools(p) ==
    LET Close(q) == UNION {ResetHandle(q, h, FALSE) : h \in Parked(q)}
        Once(q) == UNION {IF IsStalled(q, lower) /\ Parked(q) # {} THEN Close(q) ELSE {q} :
                             lower \in LowerStalls}
        After[k \in 0 .. Cardinality(Handles)] ==
            IF k = 0 THEN {p} ELSE UNION {Once(q) : q \in After[k - 1]}
    IN  After[Cardinality(Handles)]

RunTask ==
    LET task == Head(pool.tasks)
        p == [pool EXCEPT !.tasks = Tail(@)]
    IN  /\ Alive
        /\ pool.tasks # <<>>
        /\ pool' \in (IF task = CloseTask THEN TryToCloseSocketsInLayeredPools(p)
                      ELSE {InvokeUserCallback(p, task.handle)})
        /\ UNCHANGED <<requests, alive, load>>

\* The last stream of a session ends: it closes if the pool is stalled.
Park(h) ==
    /\ Alive
    /\ pool.handles[h].phase = "ready"
    /\ \E lower \in LowerStalls :
          pool' \in IF IsStalled(pool, lower) THEN ResetHandle(pool, h, FALSE)
                    ELSE {[pool EXCEPT !.handles[h].phase = "parked"]}
    /\ UNCHANGED <<requests, alive, load>>

\* A new stream of the session.
Unpark(h) ==
    /\ Alive
    /\ pool.handles[h].phase = "parked"
    /\ pool' = [pool EXCEPT !.handles[h].phase = "ready"]
    /\ UNCHANGED <<requests, alive, load>>

\* A pool below is stalled and asks for a connection.
CloseOneIdleConnection ==
    /\ Alive /\ TRUE \in LowerStalls
    /\ pool' \in IF pool.idle > 0 THEN CloseOneIdleSocket(pool)
                 ELSE UNION {ResetHandle(pool, h, FALSE) : h \in Parked(pool)}
    /\ UNCHANGED <<requests, alive, load>>

-----------------------------------------------------------------------------
(* Flushing.                                                               *)

CancelAllConnectJobs(p) ==
    LET left == [g \in Groups |-> [p.groups[g] EXCEPT !.jobs = <<>>,
                                      !.unassigned_job_count = 0,
                                      !.backup_job_timer = FALSE]]
        gone == {g \in p.group_map : IsEmpty(left[g])}
        jobs == [g \in p.group_map |-> Len(p.groups[g].jobs)]
        rest == p.connecting - SumFunction(jobs)
    IN  [Check(p, rest = 0) EXCEPT
            !.groups = [g \in Groups |-> IF g \in gone THEN NewGroup ELSE left[g]],
            !.group_map = @ \ gone, !.connecting = rest]

\* The requests of every group in the order of the map are answered.
CancelAllRequestsWithError(p, order) ==
    LET pending == FlattenSeq([k \in DOMAIN order |-> p.groups[order[k]].pending_requests])
        left == [g \in Groups |-> [p.groups[g] EXCEPT !.pending_requests = <<>>,
                                                      !.backup_job_timer = FALSE]]
        gone == {g \in p.group_map : IsEmpty(left[g])}
        told == Range(pending)
    IN  [Check(p, \A h \in told : p.callbacks[h] = "none") EXCEPT
            !.groups = [g \in Groups |-> IF g \in gone THEN NewGroup ELSE left[g]],
            !.group_map = @ \ gone,
            !.callbacks = [h \in Handles |-> IF h \in told THEN "ERR" ELSE @[h]],
            !.tasks = @ \o [k \in DOMAIN pending |-> CallbackTask(pending[k])]]

Flushed(p) ==
    LET cancelled == CancelAllConnectJobs([p EXCEPT !.generation = @ + 1])
        closed == {Check(q, q.idle = 0) : q \in CleanupIdleSockets(cancelled, TRUE)}
    IN  {CancelAllRequestsWithError(q, order) :
            q \in closed, order \in SetToSeqs(Groups)}

\* OnIPAddressChanged, or a call of the owner.
FlushWithError ==
    /\ Alive /\ pool.generation < MaxFlushes
    /\ pool' \in Flushed(pool)
    /\ UNCHANGED <<requests, alive, load>>

\* The pool is destroyed after its clients.
Destroy ==
    /\ Alive /\ pool.generation < MaxFlushes
    /\ \A h \in Handles : pool.handles[h].phase = "free"
    /\ pool' \in {Check(p, /\ p.group_map = {} /\ p.connecting = 0
                           /\ \A h \in Handles : p.callbacks[h] = "none") :
                     p \in Flushed(pool)}
    /\ alive' = FALSE
    /\ UNCHANGED <<requests, load>>

-----------------------------------------------------------------------------

Init ==
    /\ pool = [groups |-> [g \in Groups |-> NewGroup], group_map |-> {},
               idle |-> 0, connecting |-> 0, handed_out |-> 0, generation |-> 0,
               callbacks |-> [h \in Handles |-> "none"], tasks |-> <<>>,
               handles |-> [h \in Handles |-> FreeHandle], failed |-> FALSE]
    /\ requests = 0
    /\ alive = TRUE
    /\ load \in Loads

Next ==
    \/ \E h \in Handles, g \in Groups : RequestSocket(h, g)
    \/ \E g \in Groups, n \in 1 .. MaxSocketsPerGroup + 1 : RequestSockets(g, n)
    \/ \E h \in Handles, connected \in BOOLEAN : Release(h, connected)
    \/ \E h \in Handles : CancelRequest(h) \/ Park(h) \/ Unpark(h)
    \/ \E g \in Groups : ConnectJobComplete(g) \/ OnBackupJobTimerFired(g)
    \/ OnCleanupTimerFired \/ CloseIdleSockets \/ CloseOneIdleConnection
    \/ RunTask \/ FlushWithError \/ Destroy

Spec == Init /\ [][Next]_vars

\* The message loop runs the posted tasks, and a connect job ends at the
\* latest by its timeout.  Nothing is assumed of the clients.
Fairness ==
    /\ WF_vars(RunTask)
    /\ \A g \in Groups : WF_vars(ConnectJobComplete(g))

FairSpec == Spec /\ Fairness

-----------------------------------------------------------------------------
(* Properties.                                                             *)

SocketGroups == [idle_sockets : Seq(Generations), jobs : Seq(Generations),
                 unassigned_job_count : Nat, pending_requests : Seq(Handles),
                 active_socket_count : Nat, backup_job_timer : BOOLEAN]
HandleStates == [phase : {"free", "waiting", "ready", "parked"},
                 group : Groups \cup {None}, socket : Generations \cup {NoSocket},
                 pool_id : Generations \cup {NoSocket}]
Tasks == {CloseTask} \cup {CallbackTask(h) : h \in Handles}
Pools == [groups : [Groups -> SocketGroups], group_map : SUBSET Groups,
          idle : Nat, connecting : Nat, handed_out : Nat, generation : Generations,
          callbacks : [Handles -> {"none", "OK", "ERR", "ERR_WITH_SOCKET"}],
          tasks : Seq(Tasks), handles : [Handles -> HandleStates], failed : BOOLEAN]

\* Type invariant: the pool, its groups and its handles keep their shape.
TypeOK ==
    /\ pool \in Pools
    /\ requests \in 0 .. load.requests /\ alive \in BOOLEAN /\ load \in Loads

\* None of the CHECKs, DCHECKs and NOTREACHEDs that the model has, those which
\* set pool.failed, fails: a group is found when a
\* socket or a request of it comes back, no callback is posted twice, a group
\* that is deleted has no job left over, a backup job timer that fires finds a
\* job, and a pool destroyed after its clients has no group left.
AssertionsHold == ~pool.failed

\* The three counters of the pool that its limits are decided by agree with
\* the groups, and the active sockets of a group with the handles that hold
\* one, whether or not their callback has run.
CountersAgree ==
    LET idle == [g \in Groups |-> Len(pool.groups[g].idle_sockets)]
        jobs == [g \in Groups |-> Len(pool.groups[g].jobs)]
        Holders(g) == {h \in Handles : /\ pool.handles[h].group = g
                                       /\ pool.handles[h].socket # NoSocket}
    IN  /\ pool.idle = SumFunction(idle)
        /\ pool.connecting = SumFunction(jobs)
        /\ pool.handed_out = Cardinality({h \in Handles : pool.handles[h].socket # NoSocket})
        /\ \A g \in Groups : pool.groups[g].active_socket_count = Cardinality(Holders(g))
        /\ \A g \in Groups \ pool.group_map : pool.groups[g] = NewGroup

\* Without requests that ignore them the limits hold: connecting, idle and
\* handed out sockets together never exceed max_sockets_, nor those of a group
\* max_sockets_per_group_, whatever completes at once, backs up or is
\* preconnected.
WithinLimits ==
    IgnoreLimits = {} =>
    /\ pool.idle + pool.connecting + pool.handed_out <= MaxSockets
    /\ \A g \in Groups : NumActiveSocketSlots(pool.groups[g]) <= MaxSocketsPerGroup

\* Every socket is counted where it is, and no more exist than may.
SocketsAccounted == CountersAgree /\ WithinLimits

\* After a flush no socket of an earlier generation is ever reused: what is
\* idle or connecting is of the present generation, and a socket that is held
\* will be released with the id of the generation it was connected in.
NothingStaleReused ==
    /\ \A g \in Groups :
          Range(pool.groups[g].idle_sockets) \cup Range(pool.groups[g].jobs)
              \subseteq {pool.generation}
    /\ \A h \in Handles : pool.handles[h].socket # NoSocket =>
          pool.handles[h].socket = pool.handles[h].pool_id

\* A client that waits is never forgotten: its request is queued once, in the
\* group it asked for, or its callback is on the way to it; and nobody else is
\* queued or called back.
WaitersAccounted ==
    \A h \in Handles :
        LET Queued(g) == Cardinality({i \in DOMAIN pool.groups[g].pending_requests :
                                        pool.groups[g].pending_requests[i] = h})
            group == pool.handles[h].group
            called == pool.callbacks[h] # "none"
        IN  /\ pool.handles[h].phase = "waiting" =>
                 Queued(group) = (IF called THEN 0 ELSE 1)
            /\ pool.handles[h].phase # "waiting" => ~called
            /\ called => CallbackTask(h) \in Range(pool.tasks)
            /\ \A g \in Groups : Queued(g) > 0 => g = group /\ ~called

\* A slot that becomes free is used: no connection fails at once, which would leave free
\* the slot that a group was woken for (CheckForStalledSocketGroups wakes one group and does
\* not loop), and no preconnect ignores the limits, which would leave its socket idle
\* beside the requests of its group.
SlotsAreUsed ==
    ConnectResults \subseteq {"ERR_IO_PENDING", "OK"} /\ None \notin IgnoreLimits

\* No starvation: while a group is stalled some socket is connecting or
\* handed out, whose end will wake a stalled group, if free slots are used.
StalledGroupsWoken ==
    SlotsAreUsed /\ StalledGroups(pool) # {} => pool.connecting + pool.handed_out > 0

\* While the pool is stalled on its own limit, an idle connection of a higher
\* layer is about to be closed: the task that does so is posted.  (A request
\* that ignores the limits can stall the pool without posting it, and so can one
\* that takes a slot which a stalled group failed to use.)
IdleConnectionsReclaimed ==
    SlotsAreUsed /\ IgnoreLimits = {} /\ IsStalled(pool, FALSE) /\ Parked(pool) # {} =>
        CloseTask \in Range(pool.tasks)

\* A pool that is stalled is going to be relieved: by its own sockets, and by the idle
\* connections of the layers above it.
StalledPoolRelieved == StalledGroupsWoken /\ IdleConnectionsReclaimed

\* A request is answered (or cancelled) unless clients keep their sockets: if
\* none is handed out, what the pool has started ends every wait.
WaitsEnd ==
    \A h \in Handles :
        pool.handles[h].phase = "waiting" ~>
            \/ pool.handles[h].phase # "waiting"
            \/ pool.handed_out > 0
            \/ ~alive

-----------------------------------------------------------------------------
(* What the code says and need not hold.                                   *)

\* A group that is no longer needed is removed from the map: every group in it
\* has a socket, a job or a request.
EmptyGroupsRemoved == \A g \in pool.group_map : ~IsEmpty(pool.groups[g])

\* A request does not wait in a group that has an idle socket for it.  (A preconnect
\* that connects at once leaves its socket idle beside the requests of the group.)
WaitersTakeIdleSockets ==
    \A g \in Groups : pool.groups[g].pending_requests # <<>> =>
        pool.groups[g].idle_sockets = <<>>
=============================================================================
