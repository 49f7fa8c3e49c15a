----------------------------- MODULE RawChannel -----------------------------
(***************************************************************************)
(* RawChannelPosix (mojo/system): messages written by any thread go out on *)
(* a non-blocking socket in order, the rest of a message that did not fit  *)
(* is written later by the I/O thread, and bytes read by the I/O thread    *)
(* are put together into messages again.                                   *)
(*                                                                         *)
(* Data is counted in units.  A message written is MessageSize of them, of *)
(* which write() takes some; the messages read have the sizes ReadSizes,   *)
(* and read() returns at most MaxRead.  WriteMessage runs under            *)
(* write_lock_ and is one step, and so is one task or watcher event of the *)
(* I/O thread, except that its read callback is one step per read().  A    *)
(* failed DCHECK ends the behaviour.                                       *)
(***************************************************************************)
EXTENDS Integers, Sequences

CONSTANTS
    MessageSize,  \* size_with_header_and_padding() of the messages written
    MaxWrites,    \* bound: calls of WriteMessage
    ReadSizes,    \* bound: the messages the other side sends, by their sizes
    MaxRead       \* kReadSize

ASSUME ConstantsAssumption ==
    /\ MessageSize \in Nat \ {0} /\ MaxRead \in Nat \ {0}
    /\ MaxWrites \in Nat
    /\ ReadSizes \in Seq(Nat \ {0})

VARIABLES
    isDead,       \* is_dead_
    writeQueue,   \* write_message_queue_ (message = number of the WriteMessage call)
    writeOffset,  \* write_message_offset_
    posted,       \* tasks posted to the I/O loop: "WaitToWrite", "CallOnFatalError"
    writeArmed,   \* write_watcher_ is watching
    readArmed,    \* read_watcher_ exists and is watching; false after Shutdown
    calls,        \* history: calls of WriteMessage
    accepted,     \* history: messages for which WriteMessage returned true
    wire,         \* history: units written to the socket, <<message, unit>>
    sentToUs,     \* units the other side has put on the socket
    unread,       \* of those, units not read yet
    valid,        \* read_buffer_num_valid_bytes_
    dispatched,   \* history: messages given to OnReadMessage
    inRead,       \* the I/O thread is inside OnFileCanReadWithoutBlocking
    errors,       \* history: the errors OnFatalError was called with
    failed        \* the DCHECK that ended the behaviour, or "no"

writeVars == <<isDead, writeQueue, writeOffset, posted, writeArmed, calls, accepted, wire>>
readVars == <<readArmed, sentToUs, unread, valid, dispatched, inRead>>
vars == <<writeVars, readVars, errors, failed>>

Init ==
    /\ isDead = FALSE
    /\ writeQueue = <<>>
    /\ writeOffset = 0
    /\ posted = <<>>
    /\ writeArmed = FALSE
    /\ readArmed = TRUE
    /\ calls = 0
    /\ accepted = <<>>
    /\ wire = <<>>
    /\ sentToUs = 0
    /\ unread = 0
    /\ valid = 0
    /\ dispatched = 0
    /\ inRead = FALSE
    /\ errors = {}
    /\ failed = "no"

-----------------------------------------------------------------------------
(* Writing *)

\* The units first..last of message m.
Units(m, first, last) == [i \in 1..(last - first + 1) |-> <<m, first + i - 1>>]

\* Fault: the offset of a partly written message is forgotten.
WriteFrontRestarting(q, n) ==
    /\ wire' = wire \o Units(Head(q), writeOffset + 1, writeOffset + n)
    /\ writeOffset' = 0
    /\ writeQueue' = IF writeOffset + n < MessageSize THEN q ELSE Tail(q)

\* WriteFrontMessageNoLock on queue q when write() takes n units (none: EAGAIN).
WriteFront(q, n) ==
    /\ wire' = wire \o Units(Head(q), writeOffset + 1, writeOffset + n)
    /\ IF writeOffset + n < MessageSize
       THEN /\ writeOffset' = writeOffset + n
            /\ writeQueue' = q
       ELSE /\ writeOffset' = 0
            /\ writeQueue' = Tail(q)

\* Fault: waiting for the socket is set up only once per message.
NeedsWaitAtStart(q, n) == writeOffset = 0 /\ n < MessageSize

\* After n units of the front of q something is left to write.
NeedsWait(q, n) == writeOffset + n < MessageSize \/ Len(q) > 1

\* CancelPendingWritesNoLock, its DCHECK apart.
CancelPendingWrites ==
    /\ isDead' = TRUE
    /\ writeQueue' = <<>>

RefusesWrites == isDead

\* `onIO': the caller is the I/O thread, which then sets up the watcher itself.
WriteMessage(onIO) ==
    LET m == calls + 1 IN
    /\ calls < MaxWrites
    /\ onIO => ~inRead
    /\ calls' = m
    /\ \/ /\ RefusesWrites
          /\ UNCHANGED <<isDead, writeQueue, writeOffset, posted, writeArmed, accepted, wire>>
       \/ /\ ~RefusesWrites /\ writeQueue # <<>>
          /\ writeQueue' = Append(writeQueue, m)
          /\ accepted' = Append(accepted, m)
          /\ UNCHANGED <<isDead, writeOffset, posted, writeArmed, wire>>
       \/ /\ ~RefusesWrites /\ writeQueue = <<>>
          /\ \E n \in 0..MessageSize :
                /\ WriteFront(<<m>>, n)
                /\ writeArmed' = (writeArmed \/ (NeedsWait(<<m>>, n) /\ onIO))
                /\ posted' = IF NeedsWait(<<m>>, n) /\ ~onIO
                             THEN Append(posted, "WaitToWrite") ELSE posted
          /\ accepted' = Append(accepted, m)
          /\ UNCHANGED isDead
       \/ /\ ~RefusesWrites /\ writeQueue = <<>>   \* write() fails
          /\ CancelPendingWrites
          /\ posted' = Append(posted, "CallOnFatalError")
          /\ UNCHANGED <<writeOffset, writeArmed, accepted, wire>>
    /\ UNCHANGED <<readVars, errors, failed>>

\* Fault: a task is run only if the channel is alive.
RunTaskAlive ==
    /\ ~inRead
    /\ posted # <<>>
    /\ posted' = Tail(posted)
    /\ writeArmed' = (writeArmed \/ (~isDead /\ Head(posted) = "WaitToWrite"))
    /\ errors' = IF ~isDead /\ Head(posted) = "CallOnFatalError"
                 THEN errors \cup {"FAILED_WRITE"} ELSE errors
    /\ UNCHANGED <<isDead, writeQueue, writeOffset, calls, accepted, wire, readVars, failed>>

\* A posted task runs (InvalidateWeakPtrs has emptied `posted' if there was a Shutdown).
RunTask ==
    /\ ~inRead
    /\ posted # <<>>
    /\ posted' = Tail(posted)
    /\ \/ /\ Head(posted) = "WaitToWrite"
          /\ writeArmed' = TRUE
          /\ UNCHANGED errors
       \/ /\ Head(posted) = "CallOnFatalError"
          /\ errors' = errors \cup {"FAILED_WRITE"}
          /\ UNCHANGED writeArmed
    /\ UNCHANGED <<isDead, writeQueue, writeOffset, calls, accepted, wire, readVars, failed>>

\* The watcher is not persistent: WaitToWrite sets it up again if something is left.
OnFileCanWrite(n) ==
    /\ ~inRead
    /\ writeArmed
    /\ ~isDead
    /\ n <= MessageSize - writeOffset
    /\ WriteFront(writeQueue, n)
    /\ writeArmed' = NeedsWait(writeQueue, n)
    /\ UNCHANGED <<isDead, posted, calls, accepted, readVars, errors, failed>>

\* write() fails.
OnFileCanWriteError ==
    /\ ~inRead
    /\ writeArmed
    /\ ~isDead
    /\ CancelPendingWrites
    /\ writeArmed' = FALSE
    /\ errors' = errors \cup {"FAILED_WRITE"}
    /\ UNCHANGED <<writeOffset, posted, calls, accepted, wire, readVars, failed>>

\* DCHECK(!is_dead_) of OnFileCanWriteWithoutBlocking.
OnFileCanWriteDead ==
    /\ ~inRead
    /\ writeArmed
    /\ isDead
    /\ failed' = "OnFileCanWriteWithoutBlocking"
    /\ UNCHANGED <<writeVars, readVars, errors>>

-----------------------------------------------------------------------------
(* Reading *)

\* Where the n-th message to us ends in the stream of units.
EndOf[n \in 0..Len(ReadSizes)] == IF n = 0 THEN 0 ELSE EndOf[n - 1] + ReadSizes[n]

\* The other side sends part of a message.
Receive ==
    /\ sentToUs < EndOf[Len(ReadSizes)]
    /\ sentToUs' = sentToUs + 1
    /\ unread' = unread + 1
    /\ UNCHANGED <<writeVars, readArmed, valid, dispatched, inRead, errors, failed>>

\* The messages up to the n-th are in the `available' units of the buffer.
IsWhole(n, available) == EndOf[n] - EndOf[dispatched] <= available

\* The number of messages dispatched when the buffer has so many units.
DispatchedAfter(available) ==
    CHOOSE n \in dispatched..Len(ReadSizes) :
        /\ n = dispatched \/ IsWhole(n, available)
        /\ \A k \in (n + 1)..Len(ReadSizes) : ~IsWhole(k, available)

\* One read() of n units.
Read(n) ==
    /\ readArmed
    /\ n = IF unread < MaxRead THEN unread ELSE MaxRead
    /\ inRead \/ unread > 0
    /\ unread' = unread - n

\* Every whole message is dispatched.  The callback goes on reading only if it
\* dispatched nothing and read() returned as much as it could.
OnFileCanRead(n) ==
    LET last == DispatchedAfter(valid + n) IN
    /\ Read(n)
    /\ dispatched' = last
    /\ valid' = valid + n - (EndOf[last] - EndOf[dispatched])
    /\ inRead' = (last = dispatched /\ n = MaxRead)
    /\ UNCHANGED <<writeVars, readArmed, sentToUs, errors, failed>>

\* A read() that fails: DCHECK(!is_dead_) of CancelPendingWritesNoLock holds, ...
OnFileCanReadError ==
    /\ readArmed
    /\ ~isDead
    /\ CancelPendingWrites
    /\ errors' = errors \cup {"FAILED_READ"}
    /\ inRead' = FALSE
    /\ UNCHANGED <<writeOffset, posted, writeArmed, calls, accepted, wire,
                   readArmed, sentToUs, unread, valid, dispatched, failed>>

\* ... or not.
OnFileCanReadErrorDead ==
    /\ readArmed
    /\ isDead
    /\ failed' = "CancelPendingWritesNoLock"
    /\ UNCHANGED <<writeVars, readVars, errors>>

\* Shutdown's effect on the watchers and on the tasks that were posted.
ShutdownWrites ==
    /\ isDead' = TRUE
    /\ writeQueue' = IF isDead THEN writeQueue ELSE <<>>
    /\ posted' = <<>>
    /\ writeArmed' = FALSE
    /\ readArmed' = FALSE
    /\ UNCHANGED <<writeOffset, calls, accepted, wire>>

Shutdown ==
    /\ readArmed
    /\ ~inRead
    /\ ShutdownWrites
    /\ UNCHANGED <<sentToUs, unread, valid, dispatched, inRead, errors, failed>>

\* OnReadMessage shuts the channel down on message k: the callback returns and
\* neither dispatches nor accounts for what follows.
ShutdownInOnReadMessage(n, k) ==
    /\ Read(n)
    /\ k \in (dispatched + 1)..DispatchedAfter(valid + n)
    /\ dispatched' = k
    /\ valid' = valid + n - (EndOf[k - 1] - EndOf[dispatched])
    /\ inRead' = FALSE
    /\ ShutdownWrites
    /\ UNCHANGED <<sentToUs, errors, failed>>

-----------------------------------------------------------------------------
IoWrite == \E n \in 0..MessageSize : OnFileCanWrite(n)
IoRead == \E n \in 0..MaxRead : OnFileCanRead(n)

Next ==
    /\ failed = "no"
    /\ \/ \E onIO \in BOOLEAN : WriteMessage(onIO)
       \/ RunTask
       \/ IoWrite
       \/ OnFileCanWriteError
       \/ OnFileCanWriteDead
       \/ Receive
       \/ IoRead
       \/ OnFileCanReadError
       \/ OnFileCanReadErrorDead
       \/ Shutdown
       \/ \E n \in 0..MaxRead, k \in 1..Len(ReadSizes) : ShutdownInOnReadMessage(n, k)

\* A write that takes something: the watcher reports only a writable socket.
ProgressWrite == failed = "no" /\ \E n \in 1..MessageSize : OnFileCanWrite(n)

\* The I/O loop runs its tasks and its watchers; nobody has to write, send or shut down.
Fairness ==
    /\ WF_vars(failed = "no" /\ RunTask)
    /\ WF_vars(ProgressWrite)
    /\ WF_vars(failed = "no" /\ IoRead)

Spec == Init /\ [][Next]_vars /\ Fairness

-----------------------------------------------------------------------------
(* Properties *)

\* Every variable of the model stays within its type.
TypeOK ==
    /\ isDead \in BOOLEAN /\ writeArmed \in BOOLEAN /\ readArmed \in BOOLEAN
    /\ inRead \in BOOLEAN
    /\ writeQueue \in Seq(Nat) /\ accepted \in Seq(Nat)
    /\ writeOffset \in 0..(MessageSize - 1)
    /\ posted \in Seq({"WaitToWrite", "CallOnFatalError"})
    /\ calls \in Nat
    /\ wire \in Seq(Nat \X (1..MessageSize))
    /\ sentToUs \in Nat /\ unread \in Nat /\ valid \in Nat /\ dispatched \in Nat
    /\ errors \subseteq {"FAILED_READ", "FAILED_WRITE"}
    /\ failed \in {"no", "OnFileCanWriteWithoutBlocking", "CancelPendingWritesNoLock"}

\* As long as the channel is alive, the I/O thread is going to be told that the socket
\* is writable exactly when there is something to write, and through one watcher or one
\* posted WaitToWrite, never two (DCHECK(!write_message_queue_.empty()) when it is).
OneWaiterForPendingWrites ==
    ~isDead =>
        /\ posted \in {<<>>, <<"WaitToWrite">>}
        /\ ~(writeArmed /\ posted # <<>>)
        /\ writeQueue # <<>> <=> (writeArmed \/ posted # <<>>)

\* The socket carries the accepted messages in the order of the WriteMessage calls, each
\* complete before the next begins, whichever threads wrote the parts; what is missing of
\* them is what the queue and the offset say.
WireInOrder ==
    /\ \A i \in 1..Len(wire) :
            wire[i] = <<accepted[((i - 1) \div MessageSize) + 1], ((i - 1) % MessageSize) + 1>>
    /\ ~isDead => Len(wire) + Len(writeQueue) * MessageSize
                    = Len(accepted) * MessageSize + writeOffset

\* No unit that was read is lost or counted twice, and when the read callback returns no
\* whole message is left in the buffer, where only more data would bring it out.
ReadsWholeMessages ==
    readArmed =>
        /\ EndOf[dispatched] + valid + unread = sentToUs
        /\ dispatched < Len(ReadSizes) => valid < ReadSizes[dispatched + 1]

\* Neither byte stream is cut wrongly: messages leave and arrive whole and in order,
\* across partial writes, partial reads and several messages in one read.
StreamsIntact == WireInOrder /\ ReadsWholeMessages

\* A message that was accepted is written completely, unless the channel dies.
AcceptedIsWritten == (writeQueue # <<>>) ~> (writeQueue = <<>>)

\* A channel that died was shut down, or its delegate is told of the error.
DeathIsReported == isDead ~> (errors # {} \/ ~readArmed \/ failed # "no")

\* DCHECK(!is_dead_) in OnFileCanWriteWithoutBlocking.
WriteEventOnlyWhenAlive == failed # "OnFileCanWriteWithoutBlocking"
=============================================================================
