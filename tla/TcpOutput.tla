------------------------------ MODULE TcpOutput ------------------------------
(***************************************************************************)
(* The output of one TcpConnection: send() from any thread, sendInLoop,    *)
(* handleWrite, the write-complete and high-water-mark callbacks, and a    *)
(* socket whose send buffer holds Room bytes. TcpServer has the life of    *)
(* the connection and only knows whether output is pending; here are the   *)
(* bytes.                                                                  *)
(*                                                                         *)
(* outputBuffer_ is the sequence of its unread bytes, which is what Buffer *)
(* promises (BufferSpec's ImplementsByteQueue); queue is the loop's queue, *)
(* first in first out (EventLoop's ImplementsTaskQueue). The user stops    *)
(* producing in highWaterMarkCallback_ and goes on in                      *)
(* writeCompleteCallback_.                                                 *)
(***************************************************************************)
EXTENDS Naturals, Sequences

CONSTANTS Room,             \* bytes the socket's send buffer holds
          highWaterMark_,
          MaxSends, MaxLen  \* bounds on the calls of send() and their bytes

ASSUME OutputAssumption ==
    /\ {Room, highWaterMark_, MaxSends, MaxLen} \subseteq Nat
    /\ highWaterMark_ > 0 /\ Room > 0

VARIABLES state_,
          writing,        \* channel_->isWriting()
          outputBuffer_,
          kernel,         \* bytes in the socket's send buffer
          wrClosed,       \* shutdown(SHUT_WR) was called
          peer,           \* "open", "closed" (its end of stream) or "reset"
          queue,          \* the loop's pending functors
          calls,          \* sends of other threads between test and push
          throttled,      \* the user was told of the high water mark
          sends,          \* number of sends so far
          accepted,       \* history: the bytes sendInLoop did not refuse
          received        \* history: the bytes the peer has read

connVars == <<state_, writing, outputBuffer_>>
netVars  == <<kernel, wrClosed, peer, received>>
vars == <<connVars, netVars, queue, calls, throttled, sends, accepted>>

Garbage == <<0, 0>>
Bytes == (0..MaxSends) \X (0..MaxLen)
Send(data) == [op |-> "send", data |-> data]
WriteComplete == [op |-> "writeComplete", data |-> <<>>]
HighWater == [op |-> "highWater", data |-> <<>>]
Sends == [op : {"send"}, data : Seq(Bytes)]
Functor == Sends \cup {WriteComplete, HighWater}

TypeOK ==
    /\ state_ \in {"kConnected", "kDisconnecting", "kDisconnected"}
    /\ writing \in BOOLEAN /\ wrClosed \in BOOLEAN
    /\ throttled \in BOOLEAN
    /\ outputBuffer_ \in Seq(Bytes) /\ kernel \in Seq(Bytes) /\ Len(kernel) <= Room
    /\ accepted \in Seq(Bytes) /\ received \in Seq(Bytes)
    /\ peer \in {"open", "closed", "reset"}
    /\ queue \in Seq(Functor) /\ calls \subseteq Sends
    /\ sends \in 0..MaxSends

(* After connectEstablished, with both callbacks set by the user.          *)
Init ==
    /\ state_ = "kConnected" /\ peer = "open"
    /\ writing = FALSE /\ wrClosed = FALSE /\ throttled = FALSE
    /\ outputBuffer_ = <<>> /\ kernel = <<>> /\ received = <<>> /\ accepted = <<>>
    /\ queue = <<>> /\ calls = {} /\ sends = 0

-----------------------------------------------------------------------------
(* The bytes of the n-th send.                                             *)
Data(n, len) == [i \in 1..len |-> <<n, i>>]

WriteFails == peer = "reset" \/ wrClosed
SpaceFor(s) == IF Len(s) <= Room - Len(kernel) THEN Len(s) ELSE Room - Len(kernel)

(* Mutant: the socket is written to although output is pending.            *)
DirectAlways == TRUE

(* sendInLoop: is nothing pending, so that it may write to the socket?     *)
Direct == ~writing /\ outputBuffer_ = <<>>

(* sendInLoop: the backlog rises from below the mark to it or above.       *)
Crosses(old, new) == old < highWaterMark_ /\ new >= highWaterMark_

(* Mutant: sendInLoop forgets to enable writing.                           *)
NotEnabled(rest) == writing

(* sendInLoop: is the channel's write event on after it?                   *)
Enabled(rest) == writing \/ rest # <<>>

(* sendInLoop. The write takes nwrote bytes; none if it would block, and   *)
(* on an error other than EPIPE and ECONNRESET. q: the queue before it.    *)
SendInLoop(data, nwrote, q) ==
    LET fault   == Direct /\ WriteFails
        refused == state_ = "kDisconnected" \/ fault
        rest    == SubSeq(data, nwrote + 1, Len(data))
        old     == Len(outputBuffer_)
        done    == Direct /\ rest = <<>>
        high    == rest # <<>> /\ Crosses(old, old + Len(rest))
    IN  /\ nwrote \in 0..(IF Direct /\ ~refused THEN SpaceFor(data) ELSE 0)
        /\ IF refused
           THEN queue' = q /\ UNCHANGED <<writing, outputBuffer_, kernel, accepted>>
           ELSE /\ kernel' = kernel \o SubSeq(data, 1, nwrote)
                /\ queue' = q \o (IF done THEN <<WriteComplete>> ELSE <<>>)
                              \o (IF high THEN <<HighWater>> ELSE <<>>)
                /\ outputBuffer_' = outputBuffer_ \o rest
                /\ writing' = Enabled(rest)
                /\ accepted' = accepted \o data
        /\ UNCHANGED <<state_, wrClosed, peer, received>>

(* send() in a callback of the loop's thread.                              *)
InLoopSend(len, nwrote) ==
    /\ state_ = "kConnected" /\ sends < MaxSends
    /\ sends' = sends + 1
    /\ SendInLoop(Data(sends', len), nwrote, queue)
    /\ UNCHANGED <<calls, throttled>>

(* send() in another thread: the test of state_, and then runInLoop. Empty *)
(* strings are left to InLoopSend.                                         *)
OtherSend(len) ==
    /\ state_ = "kConnected" /\ sends < MaxSends
    /\ sends' = sends + 1
    /\ calls' = calls \cup {Send(Data(sends', len))}
    /\ UNCHANGED <<connVars, netVars, queue, throttled, accepted>>

OtherPush(f) ==
    /\ f \in calls
    /\ calls' = calls \ {f}
    /\ queue' = Append(queue, f)
    /\ UNCHANGED <<connVars, netVars, throttled, sends, accepted>>

(* What the functor finds at buf.c_str(): the bytes, or whatever is there  *)
(* if the caller of send() has destroyed its string since.                 *)
ReadAtCStr(data) == {data, [j \in DOMAIN data |-> Garbage]}

RunSend(nwrote) ==
    /\ queue # <<>> /\ Head(queue).op = "send"
    /\ \E data \in ReadAtCStr(Head(queue).data) : SendInLoop(data, nwrote, Tail(queue))
    /\ UNCHANGED <<calls, throttled, sends>>

RunCallback ==
    /\ queue # <<>> /\ Head(queue).op # "send"
    /\ throttled' = (Head(queue) = HighWater)
    /\ queue' = Tail(queue)
    /\ UNCHANGED <<connVars, netVars, calls, sends, accepted>>

-----------------------------------------------------------------------------
(* shutdownInLoop.                                                         *)
ShutdownInLoop(w) == wrClosed' = (wrClosed \/ ~w)

(* Mutant: the callback is called at once, before the ones already queued. *)
NotQueued == queue

(* handleWrite has emptied the buffer: writeCompleteCallback_ is queued.   *)
CompleteQueued == Append(queue, WriteComplete)

(* handleWrite; on an error it only logs.                                  *)
HandleWrite(n) ==
    /\ writing /\ ~WriteFails
    /\ n \in 1..SpaceFor(outputBuffer_)
    /\ kernel' = kernel \o SubSeq(outputBuffer_, 1, n)
    /\ outputBuffer_' = SubSeq(outputBuffer_, n + 1, Len(outputBuffer_))
    /\ IF outputBuffer_' = <<>>
       THEN /\ writing' = FALSE
            /\ queue' = CompleteQueued
            /\ IF state_ = "kDisconnecting" THEN ShutdownInLoop(FALSE) ELSE UNCHANGED wrClosed
       ELSE UNCHANGED <<writing, queue, wrClosed>>
    /\ UNCHANGED <<state_, peer, received, calls, throttled, sends, accepted>>

(* handleClose, at the end of the peer's stream and on a reset; a channel  *)
(* whose writing was enabled again hears of the hang-up a second time.     *)
HandleClose ==
    /\ peer # "open"
    /\ state_ = "kConnected" \/ (writing /\ WriteFails)
    /\ state_' = "kDisconnected"
    /\ writing' = FALSE
    /\ UNCHANGED <<outputBuffer_, netVars, queue, calls, throttled, sends, accepted>>

(* shutdown() in a callback of the loop's thread. It acts on a connection  *)
(* that is disconnected.                                                   *)
Shutdown ==
    /\ IF state_ = "kDisconnected"
       THEN state_' = "kDisconnecting" /\ ShutdownInLoop(writing)
       ELSE UNCHANGED <<state_, wrClosed>>
    /\ UNCHANGED <<writing, outputBuffer_, kernel, peer, received, queue, calls,
                   throttled, sends, accepted>>

-----------------------------------------------------------------------------
(* The peer reads what the kernel has sent; it closes, or resets.          *)
PeerReads(n) ==
    /\ peer # "reset" /\ n \in 1..Len(kernel)
    /\ received' = received \o SubSeq(kernel, 1, n)
    /\ kernel' = SubSeq(kernel, n + 1, Len(kernel))
    /\ UNCHANGED <<connVars, wrClosed, peer, queue, calls, throttled, sends, accepted>>

PeerLeaves(how) ==
    /\ peer = "open" \/ (peer = "closed" /\ how = "reset")
    /\ peer' = how
    /\ UNCHANGED <<connVars, kernel, wrClosed, received, queue, calls, throttled,
                   sends, accepted>>

-----------------------------------------------------------------------------
LoopStep ==
    \/ RunCallback \/ HandleClose
    \/ \E n \in 0..MaxLen : RunSend(n)
    \/ \E n \in 1..Room : HandleWrite(n)

Next ==
    \/ LoopStep \/ Shutdown
    \/ \E len, n \in 0..MaxLen : InLoopSend(len, n)
    \/ \E len \in 1..MaxLen : OtherSend(len)
    \/ \E f \in calls : OtherPush(f)
    \/ \E n \in 1..Room : PeerReads(n)
    \/ \E how \in {"closed", "reset"} : PeerLeaves(how)

Spec == Init /\ [][Next]_vars

(* The loop's thread is scheduled, and a peer that has not left reads.     *)
FairSpec == Spec /\ WF_vars(LoopStep) /\ WF_vars(\E n \in 1..Room : PeerReads(n))

-----------------------------------------------------------------------------
(* Nothing is lost, doubled or overtaken on its way, whether it was        *)
(* written at once by sendInLoop or later by handleWrite: what the peer    *)
(* has read, what the socket holds and what is pending are together what   *)
(* sendInLoop accepted, in that order.                                     *)
StreamIntact == received \o kernel \o outputBuffer_ = accepted

(* A writeCompleteCallback_ is on its way, behind position i of the queue. *)
CompleteComes(i) ==
    \/ writing /\ outputBuffer_ # <<>>
    \/ \E j \in (i + 1)..Len(queue) : queue[j] = WriteComplete

(* A user who stops at the high water mark is always told to go on: behind *)
(* every highWaterMarkCallback_ that has run or is queued comes a          *)
(* writeCompleteCallback_, as long as the connection is up.                *)
ThrottledIsReleased ==
    state_ = "kConnected" =>
        /\ throttled => CompleteComes(0)
        /\ \A i \in 1..Len(queue) : queue[i] = HighWater => CompleteComes(i)

(* The backlog never rises past the mark without the user being told: at   *)
(* or above the mark the user is throttled, or will be.                    *)
MarkIsTold ==
    state_ = "kConnected" /\ Len(outputBuffer_) >= highWaterMark_ =>
        throttled \/ \E i \in 1..Len(queue) : queue[i] = HighWater

(* The flow control a fast sender relies on.                               *)
FlowControl == MarkIsTold /\ ThrottledIsReleased

(* Pending output is written as long as the peer reads and the connection  *)
(* is up.                                                                  *)
OutputDrains == outputBuffer_ # <<>> ~> outputBuffer_ = <<>> \/ peer # "open"
=============================================================================
