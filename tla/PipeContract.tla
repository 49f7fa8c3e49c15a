---------------------------- MODULE PipeContract ----------------------------
(***************************************************************************)
(* What a message pipe promises to its two users, whether both ends are in *)
(* one process (MessagePipe) or in two (Channel): messages are received in *)
(* the order they were sent, each once, and a reader is told that no more  *)
(* will come (MOJO_RESULT_FAILED_PRECONDITION) only when the other end is  *)
(* closed and everything it sent has been received.                        *)
(***************************************************************************)
EXTENDS Naturals

CONSTANTS
    End,    \* ends of pipes
    PeerOf  \* the function from an end to the other end of its pipe

VARIABLES
    open,   \* ends that are open
    sent,   \* number of messages sent from an end
    taken,  \* number of messages received at an end: numbers 1..taken of its peer
    ended   \* open ends that have been told that nothing more will come

vars == <<open, sent, taken, ended>>

Init ==
    /\ open = End
    /\ sent = [e \in End |-> 0]
    /\ taken = [e \in End |-> 0]
    /\ ended = {}

\* A step may tell an end that its stream has ended, and never takes it back.
Tell ==
    /\ ended \cap open' \subseteq ended'
    /\ \A e \in ended' : /\ e \in open'
                         /\ PeerOf[e] \notin open'
                         /\ taken'[e] = sent'[PeerOf[e]]

Send(e) ==
    /\ e \in open
    /\ sent' = [sent EXCEPT ![e] = @ + 1]
    /\ UNCHANGED <<open, taken>>

Receive(e) ==
    /\ e \in open
    /\ taken[e] < sent[PeerOf[e]]
    /\ taken' = [taken EXCEPT ![e] = @ + 1]
    /\ UNCHANGED <<open, sent>>

Close(e) ==
    /\ e \in open
    /\ open' = open \ {e}
    /\ UNCHANGED <<sent, taken>>

Next ==
    /\ Tell
    /\ \/ \E e \in End : Send(e) \/ Receive(e) \/ Close(e)
       \/ UNCHANGED <<open, sent, taken>>

Spec == Init /\ [][Next]_vars
=============================================================================
