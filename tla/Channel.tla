------------------------------ MODULE Channel ------------------------------
(***************************************************************************)
(* A message pipe between two processes (mojo/system).  Each side has a    *)
(* MessagePipe with a LocalMessagePipeEndpoint, which its user holds, and  *)
(* a ProxyMessagePipeEndpoint, which a Channel connects to the other side. *)
(*                                                                         *)
(* A step is one critical section of MessagePipe::lock_ (Channel::lock_ is *)
(* taken inside it) or of Channel::lock_ alone.  The I/O thread looks a    *)
(* message's endpoint up in one section and enqueues it in another.  The   *)
(* raw channel is a FIFO link (see RawChannel), cut by Shutdown.  Waiters  *)
(* and dispatchers are the subject of MessagePipe.  A failed DCHECK ends   *)
(* the process or, in a build without it, has no effect.                   *)
(***************************************************************************)
EXTENDS Integers, Sequences, SequencesExt

CONSTANT MaxMessages  \* bound: messages written on each side

ASSUME ConstantsAssumption == MaxMessages \in Nat

Side == {0, 1}
Other(s) == 1 - s

\* Data messages are numbered from 1.
PeerClosed == 0

VARIABLES
    local,          \* sides whose local endpoint exists
    queue,          \* LocalMessagePipeEndpoint::message_queue_
    localPeerOpen,  \* LocalMessagePipeEndpoint::is_peer_open_
    proxy,          \* state of the proxy endpoint
    proxyPeerOpen,  \* ProxyMessagePipeEndpoint::is_peer_open_
    paused,         \* ProxyMessagePipeEndpoint::paused_message_queue_
    mapped,         \* sides whose local ID is in local_id_to_endpoint_info_map_
    up,             \* sides whose Channel::raw_channel_ is not null
    link,           \* messages on their way to a side
    found,          \* message whose EndpointInfo the I/O thread has copied, if any
    run,            \* progress of RunMessagePipeEndpoint
    crash,          \* the failed check that ended the process, or "no"
    sent,           \* history: messages whose write succeeded
    taken,          \* history: messages read
    missed,         \* history: messages dropped because the side was not attached yet
    orderly         \* whether the callers attach both sides before they run either

vars == <<local, queue, localPeerOpen, proxy, proxyPeerOpen, paused, mapped, up,
          link, found, run, crash, sent, taken, missed, orderly>>

Crashes == {"no", "EnqueueMessage", "HandleLocalError", "HandleControlMessage",
            "RunMessagePipeEndpoint", "Run", "ProxyEnqueueMessage", "Close"}

Init ==
    /\ local = Side
    /\ queue = [s \in Side |-> <<>>]
    /\ localPeerOpen = [s \in Side |-> TRUE]
    /\ proxy = [s \in Side |-> "detached"]
    /\ proxyPeerOpen = [s \in Side |-> TRUE]
    /\ paused = [s \in Side |-> <<>>]
    /\ mapped = {}
    /\ up = Side
    /\ link = [s \in Side |-> <<>>]
    /\ found = [s \in Side |-> <<>>]
    /\ run = [s \in Side |-> "no"]
    /\ crash = [s \in Side |-> "no"]
    /\ sent = [s \in Side |-> 0]
    /\ taken = [s \in Side |-> 0]
    /\ missed = [s \in Side |-> 0]
    /\ orderly \in BOOLEAN

Crash(s, check) ==
    /\ crash' = [crash EXCEPT ![s] = check]
    /\ UNCHANGED <<local, queue, localPeerOpen, proxy, proxyPeerOpen, paused, mapped, up,
                   link, found, run, sent, taken, missed, orderly>>

\* Channel::WriteMessage of the messages ms on side s.
Transmit(s, ms) ==
    link' = IF s \in up THEN [link EXCEPT ![Other(s)] = @ \o ms] ELSE link

\* Fault: the channel keeps the ID.
CloseProxyStillMapped(s) ==
    /\ proxy' = [proxy EXCEPT ![s] = "gone"]
    /\ paused' = [paused EXCEPT ![s] = <<>>]
    /\ UNCHANGED mapped

\* ProxyMessagePipeEndpoint::Close: detached from the channel, then destroyed.
CloseProxy(s) ==
    /\ proxy' = [proxy EXCEPT ![s] = "gone"]
    /\ mapped' = mapped \ {s}
    /\ paused' = [paused EXCEPT ![s] = <<>>]

-----------------------------------------------------------------------------
(* Connecting *)

\* Channel::AttachMessagePipeEndpoint: an entry in the map, ...
AttachMessagePipeEndpoint(s) ==
    /\ proxy[s] = "detached"
    /\ s \notin mapped
    /\ mapped' = mapped \cup {s}
    /\ UNCHANGED <<local, queue, localPeerOpen, proxy, proxyPeerOpen, paused, up,
                   link, found, run, crash, sent, taken, missed, orderly>>

\* ... then MessagePipe::Attach.
Attach(s) ==
    /\ proxy[s] = "detached"
    /\ s \in mapped
    /\ proxy' = [proxy EXCEPT ![s] = "attached"]
    /\ UNCHANGED <<local, queue, localPeerOpen, proxyPeerOpen, paused, mapped, up,
                   link, found, run, crash, sent, taken, missed, orderly>>

\* Channel::RunMessagePipeEndpoint needs the ID that AttachMessagePipeEndpoint returned, and
\* a remote ID, which for the first pipe is known beforehand (kBootstrapEndpointId): the
\* other side may be attached or not.  The entry is looked up, ...
RunMessagePipeEndpoint(s) ==
    /\ run[s] = "no"
    /\ proxy[s] # "detached"
    /\ \/ /\ s \notin mapped
          /\ Crash(s, "RunMessagePipeEndpoint")
       \/ /\ s \in mapped
          /\ run' = [run EXCEPT ![s] = "found"]
          /\ UNCHANGED <<local, queue, localPeerOpen, proxy, proxyPeerOpen, paused, mapped, up,
                         link, found, crash, sent, taken, missed, orderly>>

\* ... then MessagePipe::Run sends what was paused.
Run(s) ==
    /\ run[s] = "found"
    /\ \/ /\ proxy[s] = "gone"
          /\ Crash(s, "Run")
       \/ /\ proxy[s] # "gone"
          /\ ~proxyPeerOpen[s] /\ paused[s] # <<PeerClosed>>
          /\ Crash(s, "ProxyEnqueueMessage")
       \/ /\ proxy[s] # "gone"
          /\ Transmit(s, paused[s])
          /\ run' = [run EXCEPT ![s] = "done"]
          /\ IF proxyPeerOpen[s]
             THEN /\ proxy' = [proxy EXCEPT ![s] = "running"]
                  /\ paused' = [paused EXCEPT ![s] = <<>>]
                  /\ UNCHANGED mapped
             ELSE CloseProxy(s)
          /\ UNCHANGED <<local, queue, localPeerOpen, proxyPeerOpen, up,
                         found, crash, sent, taken, missed, orderly>>

-----------------------------------------------------------------------------
(* The user of the local endpoint *)

\* MessagePipe::WriteMessage to the proxy endpoint; fails when there is none or when
\* the channel has been shut down.
WriteMessage(s) ==
    LET m == sent[s] + 1
        running == proxy[s] = "running"
        ok == proxy[s] # "gone" /\ (running => s \in up)
    IN
    /\ s \in local
    /\ sent[s] < MaxMessages
    /\ ok
    /\ sent' = [sent EXCEPT ![s] = m]
    /\ IF running THEN Transmit(s, <<m>>) /\ UNCHANGED paused
                  ELSE paused' = [paused EXCEPT ![s] = Append(@, m)] /\ UNCHANGED link
    /\ UNCHANGED <<local, queue, localPeerOpen, proxy, proxyPeerOpen, mapped, up,
                   found, run, crash, taken, missed, orderly>>

ReadMessage(s) ==
    /\ s \in local
    /\ queue[s] # <<>>
    /\ queue' = [queue EXCEPT ![s] = Tail(@)]
    /\ taken' = [taken EXCEPT ![s] = @ + 1]
    /\ UNCHANGED <<local, localPeerOpen, proxy, proxyPeerOpen, paused, mapped, up,
                   link, found, run, crash, sent, missed, orderly>>

\* Fault: OnPeerClose forgets that messages may be waiting for Run.
DestroyedOnPeerCloseAlways(s) == TRUE

\* ProxyMessagePipeEndpoint::OnPeerClose returns false: nothing is left to send.
DestroyedOnPeerClose(s) == proxy[s] = "running"

\* Fault: the control message is sent ahead of what is paused.
PauseFirst(s, m) == <<m>> \o paused[s]

Pause(s, m) == Append(paused[s], m)

\* MessagePipe::Close of the local port.
Close(s) ==
    /\ s \in local
    /\ local' = local \ {s}
    /\ queue' = [queue EXCEPT ![s] = <<>>]
    /\ \/ /\ proxy[s] = "gone"
          /\ UNCHANGED <<proxy, proxyPeerOpen, paused, mapped, link>>
       \/ /\ proxy[s] # "gone"
          /\ proxyPeerOpen' = [proxyPeerOpen EXCEPT ![s] = FALSE]
          /\ IF proxy[s] = "running" THEN Transmit(s, <<PeerClosed>>) ELSE UNCHANGED link
          /\ IF DestroyedOnPeerClose(s)
             THEN CloseProxy(s)
             ELSE /\ paused' = [paused EXCEPT ![s] = Pause(s, PeerClosed)]
                  /\ UNCHANGED <<proxy, mapped>>
    /\ UNCHANGED <<localPeerOpen, up, found, run, crash, sent, taken, missed, orderly>>

-----------------------------------------------------------------------------
(* The I/O thread *)

NotYetAttached(s) == proxy[s] = "detached" /\ s \notin mapped

\* Channel::OnReadMessageForDownstream up to the release of Channel::lock_; a message
\* for an ID that is not in the map, yet or any more, is dropped.
OnReadMessage(s) ==
    /\ s \in up
    /\ found[s] = <<>>
    /\ link[s] # <<>>
    /\ link' = [link EXCEPT ![s] = Tail(@)]
    /\ found' = [found EXCEPT ![s] = IF s \in mapped THEN <<Head(link[s])>> ELSE <<>>]
    /\ missed' = [missed EXCEPT ![s] = IF NotYetAttached(s) /\ Head(link[s]) # PeerClosed
                                       THEN @ + 1 ELSE @]
    /\ UNCHANGED <<local, queue, localPeerOpen, proxy, proxyPeerOpen, paused, mapped, up,
                   run, crash, sent, taken, orderly>>

\* MessagePipe::EnqueueMessage of a data message for the local port.
EnqueueMessage(s) ==
    /\ found[s] # <<>> /\ found[s] # <<PeerClosed>>
    /\ \/ /\ proxy[s] = "gone"
          /\ \E check \in {"EnqueueMessage", "HandleLocalError"} : Crash(s, check)
       \/ /\ proxy[s] # "gone" /\ s \notin local
          /\ Crash(s, "HandleLocalError")
       \/ /\ proxy[s] # "gone" /\ s \in local
          /\ queue' = [queue EXCEPT ![s] = @ \o found[s]]
          /\ found' = [found EXCEPT ![s] = <<>>]
          /\ UNCHANGED <<local, localPeerOpen, proxy, proxyPeerOpen, paused, mapped, up,
                         link, run, crash, sent, taken, missed, orderly>>

\* Fault: the local endpoint is not told.
HandleControlMessageQuietly(s) ==
    /\ found[s] = <<PeerClosed>>
    /\ proxy[s] \in {"attached", "running"}
    /\ CloseProxy(s)
    /\ found' = [found EXCEPT ![s] = <<>>]
    /\ UNCHANGED <<local, queue, localPeerOpen, proxyPeerOpen, up, link, run, crash, sent, taken, missed, orderly>>

\* MessagePipe::HandleControlMessage: the proxy goes, the local endpoint is told.  A proxy
\* that is in the map but not attached yet has no channel to be detached from.
HandleControlMessage(s) ==
    /\ found[s] = <<PeerClosed>>
    /\ \/ /\ proxy[s] = "gone"
          /\ Crash(s, "HandleControlMessage")
       \/ /\ proxy[s] = "detached"
          /\ Crash(s, "Close")
       \/ /\ proxy[s] \in {"attached", "running"}
          /\ CloseProxy(s)
          /\ localPeerOpen' = [localPeerOpen EXCEPT ![s] = IF s \in local THEN FALSE ELSE @]
          /\ found' = [found EXCEPT ![s] = <<>>]
          /\ UNCHANGED <<local, queue, proxyPeerOpen, up, link, run, crash, sent, taken, missed, orderly>>

\* Channel::Shutdown.  What the raw channel had not written yet is lost, and what was
\* sent to this side is never read.
Shutdown(s) ==
    /\ s \in up
    /\ found[s] = <<>>
    /\ up' = up \ {s}
    /\ \E k \in 0..Len(link[Other(s)]) :
            link' = [link EXCEPT ![Other(s)] = SubSeq(@, 1, k)]
    /\ UNCHANGED <<local, queue, localPeerOpen, proxy, proxyPeerOpen, paused, mapped,
                   found, run, crash, sent, taken, missed, orderly>>

-----------------------------------------------------------------------------
\* Nothing in RunMessagePipeEndpoint asks for it, but orderly callers, such as
\* ConnectMessagePipesOnIOThread of the tests, have attached both sides when they run one.
MayRun == orderly => \A r \in Side : proxy[r] # "detached"

IoStep(s) == crash[s] = "no" /\ (OnReadMessage(s) \/ EnqueueMessage(s) \/ HandleControlMessage(s))

Next ==
    \E s \in Side :
        /\ crash[s] = "no"
        /\ \/ AttachMessagePipeEndpoint(s) \/ Attach(s)
           \/ MayRun /\ RunMessagePipeEndpoint(s)
           \/ Run(s)
           \/ WriteMessage(s) \/ ReadMessage(s) \/ Close(s)
           \/ OnReadMessage(s) \/ EnqueueMessage(s) \/ HandleControlMessage(s)
           \/ Shutdown(s)

\* The I/O threads deliver what arrives; a call that was begun is finished.
Fairness ==
    \A s \in Side : WF_vars(IoStep(s)) /\ WF_vars(crash[s] = "no" /\ (Attach(s) \/ Run(s)))

Spec == Init /\ [][Next]_vars /\ Fairness

-----------------------------------------------------------------------------
(* Properties *)

\* Every variable of the model stays within its type.
TypeOK ==
    LET Messages == Seq(Nat) IN
    /\ local \subseteq Side /\ mapped \subseteq Side /\ up \subseteq Side
    /\ queue \in [Side -> Messages] /\ paused \in [Side -> Messages]
    /\ link \in [Side -> Messages] /\ found \in [Side -> Messages]
    /\ \A s \in Side : Len(found[s]) <= 1
    /\ localPeerOpen \in [Side -> BOOLEAN] /\ proxyPeerOpen \in [Side -> BOOLEAN]
    /\ proxy \in [Side -> {"detached", "attached", "running", "gone"}]
    /\ run \in [Side -> {"no", "found", "done"}]
    /\ crash \in [Side -> Crashes]
    /\ sent \in [Side -> Nat] /\ taken \in [Side -> Nat] /\ missed \in [Side -> Nat]
    /\ orderly \in BOOLEAN

\* The messages on their way to side s, the oldest first.
Flow(s) == queue[s] \o found[s] \o link[s] \o paused[Other(s)]

\* The messages of its peer that side s has read, or missed before it was attached.
Passed(s) == taken[s] + missed[s]

\* While the reader's end is open and both channels are up, what was written on one side
\* and not yet read on the other is on its way, in order: from the paused queue through
\* the link and the I/O thread to the local queue, also across Run and the writer's Close.
\* What a side misses is what arrives before it is in its channel's map, and nothing
\* after it: it reads on from there without a gap.  Nothing follows but the PeerClosed
\* message.
RemoteFifo ==
    \A s \in Side :
        (s \in local /\ localPeerOpen[s] /\ up = Side) =>
            LET unread == sent[Other(s)] - Passed(s) IN
            /\ Len(Flow(s)) >= unread
            /\ \A k \in 1..Len(Flow(s)) :
                    Flow(s)[k] = IF k <= unread THEN Passed(s) + k ELSE PeerClosed

\* The PeerClosed message is the last one of its direction, so that everything written
\* before the Close is read before the end of the pipe is seen.
PeerClosedIsLast ==
    \A s \in Side :
        LET all == found[s] \o link[s] \o paused[Other(s)] IN
        \A i \in 1..Len(all) : all[i] = PeerClosed =>
            /\ i = Len(all)
            /\ Other(s) \notin local

\* A remote pipe delivers what was written, in order, and then the end of the pipe; only
\* what arrives before the reader's side is attached is dropped, and that is a beginning.
DeliveredThenClosed == RemoteFifo /\ PeerClosedIsLast

\* An ID in the channel's map leads to a proxy endpoint that exists, which its pipe keeps
\* until its messages are sent: messages are paused only before Run, and one that has
\* lost its peer stays only while it has messages paused.
MapLeadsToProxy ==
    \A s \in Side :
        /\ s \in mapped => proxy[s] # "gone"
        /\ proxy[s] \in {"attached", "running"} => s \in mapped
        /\ paused[s] # <<>> => proxy[s] \in {"detached", "attached"}
        /\ (s \notin local /\ proxy[s] # "gone") => Last(paused[s]) = PeerClosed

\* Seen from its two users the connected pipes are one message pipe, if orderly callers
\* connect them: PipeContract, with the end of the stream told when the peer is closed and
\* the local queue is empty.  What other callers lose is NothingMissed.
Contract == INSTANCE PipeContract WITH
    End <- Side,
    PeerOf <- [s \in Side |-> Other(s)],
    open <- local,
    ended <- {s \in local : ~localPeerOpen[s] /\ queue[s] = <<>>}
ImplementsContract ==
    Contract!Init /\ [][orderly => [Contract!Next]_(Contract!vars)]_vars

\* Once both sides run, closing one is seen by the other, unless a channel is shut down
\* or a process has died; provided that orderly callers connected them, for a PeerClosed
\* that arrives before its side is attached is dropped.
CloseIsSeen ==
    \A s \in Side :
        (orderly /\ s \notin local /\ \A r \in Side : run[r] = "done")
            ~> (\/ Other(s) \notin local \/ ~localPeerOpen[Other(s)]
                \/ up # Side \/ \E r \in Side : crash[r] # "no")

\* "The destination port need not be open, unlike the source port": a message for a local
\* endpoint that was closed is not fatal to the process.
ClosedDestinationTolerated == \A s \in Side : crash[s] # "HandleLocalError"

\* RunMessagePipeEndpoint's CHECK: the endpoint to be run is still attached.
RunFindsEndpoint == \A s \in Side : crash[s] # "RunMessagePipeEndpoint"

\* Nothing that a side sends is dropped because the other one is not attached yet, which
\* only orderly callers ensure.
NothingMissed == \A s \in Side : missed[s] = 0

\* Close's DCHECK of the proxy: it has a channel to be detached from.
CloseFindsChannel == \A s \in Side : crash[s] # "Close"
=============================================================================
