---------------------------- MODULE AsyncLogging -----------------------------
(***************************************************************************)
(* AsyncLogging: threads append messages to a current buffer under mutex_; *)
(* the logging thread swaps the filled buffers out, writes them, and keeps *)
(* two of them to hand back as fresh ones.                                 *)
(*                                                                         *)
(* A message is its number in the order of the calls to append; a buffer   *)
(* is the sequence of messages in it, an empty one that waits to be used   *)
(* only a flag. pc is the logging thread's place: "test" (while running_), *)
(* "wait" (for mutex_ and cond_), "drop" (buffers swapped out), "write",   *)
(* "refill", "done".                                                       *)
(***************************************************************************)
EXTENDS Naturals, Sequences, SequencesExt

CONSTANTS Capacity,   \* kLargeBuffer
          Sizes,      \* sizes of messages
          DropAbove,  \* more buffers than this at once are dropped (25)
          MaxMsgs,    \* bound on the calls of append
          Renames     \* does somebody call setAsyncLogFileName?

ASSUME AsyncAssumption ==
    /\ Capacity \in Nat /\ Sizes \subseteq Nat /\ MaxMsgs \in Nat
    /\ DropAbove \in Nat /\ DropAbove >= 2
    /\ Renames \in BOOLEAN

VARIABLES currentBuffer_, used,   \* its messages and its length()
          nextBuffer_,            \* is there one?
          buffers_,
          newBuffer1, newBuffer2, \* are there ones?
          buffersToWrite,
          todo,                   \* those of them not yet written
          pc, running_,
          fdOpen,                 \* does log_fd_ name an open file?
          appended,               \* calls of append so far
          written,                \* history: messages in the log file
          gone                    \* history: messages not kept, dropped or
                                  \* not taken by write

frontVars == <<currentBuffer_, used, nextBuffer_, buffers_, appended>>
backVars == <<newBuffer1, newBuffer2, buffersToWrite, todo, pc>>
vars == <<frontVars, backVars, running_, fdOpen, written, gone>>

Buffer == Seq(Nat)

TypeOK ==
    /\ currentBuffer_ \in Buffer /\ used \in 0..Capacity
    /\ nextBuffer_ \in BOOLEAN
    /\ buffers_ \in Seq(Buffer)
    /\ newBuffer1 \in BOOLEAN /\ newBuffer2 \in BOOLEAN
    /\ buffersToWrite \in Seq(Buffer) /\ todo \in Seq(Buffer)
    /\ pc \in {"test", "wait", "drop", "write", "refill", "done"}
    /\ running_ \in BOOLEAN /\ fdOpen \in BOOLEAN
    /\ appended \in Nat
    /\ written \in Seq(Nat) /\ gone \in SUBSET Nat

(* After start(): the latch has let the caller through.                    *)
Init ==
    /\ currentBuffer_ = <<>> /\ used = 0
    /\ nextBuffer_ = TRUE
    /\ buffers_ = <<>>
    /\ newBuffer1 = TRUE /\ newBuffer2 = TRUE
    /\ buffersToWrite = <<>> /\ todo = <<>>
    /\ pc = "test" /\ running_ = TRUE /\ fdOpen = TRUE
    /\ appended = 0
    /\ written = <<>> /\ gone = {}

-----------------------------------------------------------------------------
(* append, under mutex_.                                                   *)

(* avail() > size, in append and again in FixedBuffer::append.             *)
Fits(len, size) == Capacity > len + size

AppendToCurrent(size) ==
    /\ appended < MaxMsgs /\ Fits(used, size)
    /\ appended' = appended + 1
    /\ currentBuffer_' = Append(currentBuffer_, appended + 1)
    /\ used' = used + size
    /\ UNCHANGED <<nextBuffer_, buffers_, gone, backVars, running_, fdOpen, written>>

(* Mutant: the filled buffer is thrown away.                               *)
FilledBufferLost == buffers_

FilledBufferPushed == Append(buffers_, currentBuffer_)

(* The current buffer is full: it is pushed, and nextBuffer_ or a new one  *)
(* takes its place. A message too long for an empty buffer is not kept.    *)
AppendToNext(size) ==
    /\ appended < MaxMsgs /\ ~Fits(used, size)
    /\ appended' = appended + 1
    /\ buffers_' = FilledBufferPushed
    /\ nextBuffer_' = FALSE
    /\ IF Fits(0, size)
       THEN currentBuffer_' = <<appended + 1>> /\ used' = size /\ UNCHANGED gone
       ELSE currentBuffer_' = <<>> /\ used' = 0 /\ gone' = gone \cup {appended + 1}
    /\ UNCHANGED <<backVars, running_, fdOpen, written>>

-----------------------------------------------------------------------------
(* stop(), and setAsyncLogFileName: its statement                          *)
(* std::unique_lock<std::mutex>(mutex_) declares a variable, so nothing is *)
(* locked, and log_fd_ is closed and opened again in two steps.            *)

Stop ==
    /\ running_
    /\ running_' = FALSE
    /\ UNCHANGED <<frontVars, backVars, fdOpen, written, gone>>

RenameCloses ==
    /\ Renames /\ running_ /\ fdOpen
    /\ fdOpen' = FALSE
    /\ UNCHANGED <<frontVars, backVars, running_, written, gone>>

(* An open that fails changes nothing here.                                *)
RenameOpens ==
    /\ Renames /\ ~fdOpen /\ pc # "done"
    /\ fdOpen' = TRUE
    /\ UNCHANGED <<frontVars, backVars, running_, written, gone>>

-----------------------------------------------------------------------------
(* The logging thread.                                                     *)

TestRunning ==
    /\ pc = "test"
    /\ IF running_ THEN pc' = "wait" /\ UNCHANGED fdOpen
                   ELSE pc' = "done" /\ fdOpen' = FALSE
    /\ UNCHANGED <<frontVars, newBuffer1, newBuffer2, buffersToWrite, todo, running_, written, gone>>

(* What is left of newBuffer2 after if (!nextBuffer_).                     *)
NewBuffer2Left == newBuffer2 /\ nextBuffer_

(* rollOver, when it is time for it, closes the file and opens another, if *)
(* it can; it runs under mutex_, which setAsyncLogFileName does not take.  *)
rollOver(roll, opens) == fdOpen' = IF roll THEN opens ELSE fdOpen

(* The critical section, once buffers_ is not empty or flushInterval_ is   *)
(* over (a notification alone does not end the wait).                      *)
Swap(roll, opens) ==
    /\ pc = "wait"
    /\ buffersToWrite' = Append(buffers_, currentBuffer_)
    /\ todo' = buffersToWrite'
    /\ buffers_' = <<>>
    /\ currentBuffer_' = <<>> /\ used' = 0
    /\ newBuffer1' = FALSE
    /\ newBuffer2' = NewBuffer2Left
    /\ nextBuffer_' = TRUE
    /\ rollOver(roll, opens)
    /\ pc' = "drop"
    /\ UNCHANGED <<appended, running_, written, gone>>

(* Mutant: one buffer is kept instead of two.                              *)
KeepOne(bs) == IF Len(bs) > DropAbove THEN SubSeq(bs, 1, 1) ELSE bs

Keep(bs) == IF Len(bs) > DropAbove THEN SubSeq(bs, 1, 2) ELSE bs

DropExcess ==
    /\ pc = "drop"
    /\ buffersToWrite' = Keep(buffersToWrite)
    /\ todo' = buffersToWrite'
    /\ gone' = gone \cup UNION {ToSet(buffersToWrite[i]) :
                                   i \in Len(buffersToWrite') + 1 .. Len(buffersToWrite)}
    /\ pc' = "write"
    /\ UNCHANGED <<frontVars, newBuffer1, newBuffer2, running_, fdOpen, written>>

(* write takes the first n messages whole. It may be short or fail (to a   *)
(* closed descriptor it does) and nobody looks at the result.              *)
WriteBuffer(n) ==
    /\ pc = "write" /\ todo # <<>>
    /\ n <= Len(Head(todo)) /\ (fdOpen \/ n = 0)
    /\ todo' = Tail(todo)
    /\ written' = written \o SubSeq(Head(todo), 1, n)
    /\ gone' = gone \cup ToSet(SubSeq(Head(todo), n + 1, Len(Head(todo))))
    /\ UNCHANGED <<frontVars, newBuffer1, newBuffer2, buffersToWrite, pc, running_, fdOpen>>

(* All written: at most two buffers are kept.                              *)
EndWrite ==
    /\ pc = "write" /\ todo = <<>>
    /\ buffersToWrite' = IF Len(buffersToWrite) > 2 THEN SubSeq(buffersToWrite, 1, 2) ELSE buffersToWrite
    /\ pc' = "refill"
    /\ UNCHANGED <<frontVars, newBuffer1, newBuffer2, todo, running_, fdOpen, written, gone>>

(* newBuffer1 and newBuffer2, where missing, are taken from the back.      *)
Refill ==
    /\ pc = "refill"
    /\ newBuffer1' = TRUE /\ newBuffer2' = TRUE
    /\ buffersToWrite' = <<>>
    /\ pc' = "test"
    /\ UNCHANGED <<frontVars, todo, running_, fdOpen, written, gone>>

-----------------------------------------------------------------------------
LoggerStep ==
    \/ TestRunning
    \/ \E roll, opens \in BOOLEAN : Swap(roll, opens)
    \/ \E n \in 0..MaxMsgs : WriteBuffer(n)
    \/ DropExcess \/ EndWrite \/ Refill

Next ==
    \/ LoggerStep
    \/ \E size \in Sizes : AppendToCurrent(size) \/ AppendToNext(size)
    \/ Stop \/ RenameCloses \/ RenameOpens

Spec == Init /\ [][Next]_vars

(* The logging thread is scheduled, and wait_for's timeout passes.         *)
FairSpec == Spec /\ WF_vars(LoggerStep)

-----------------------------------------------------------------------------
Needed == (IF newBuffer1 THEN 0 ELSE 1) + (IF newBuffer2 THEN 0 ELSE 1)

(* buffersToWrite.back() is never called on an empty vector: there are     *)
(* always as many written buffers as there are spare ones to replace, even *)
(* after the drop and the resize to two.                                   *)
BackNeverEmpty == pc = "refill" => Len(buffersToWrite) >= Needed

(* Why: nextBuffer_ is only missing after append pushed a full buffer, so  *)
(* the round that has to give newBuffer2 away swaps out two or more.       *)
SpareInv ==
    /\ ~nextBuffer_ => buffers_ # <<>>
    /\ pc \in {"test", "wait"} => newBuffer1 /\ newBuffer2
    /\ pc \in {"drop", "write", "refill"} => Len(buffersToWrite) >= Needed

(* The file, then the buffers swapped out, then the full ones, then the    *)
(* current one.                                                            *)
Stored == <<written>> \o todo \o buffers_ \o <<currentBuffer_>>

(* Every message in ss is younger than the ones before it, in its own      *)
(* buffer and in the earlier ones.                                         *)
InOrder(ss) ==
    \A i, j \in DOMAIN ss : \A p \in DOMAIN ss[i], q \in DOMAIN ss[j] :
        i < j \/ (i = j /\ p < q) => ss[i][p] < ss[j][q]

Held(ss) == UNION {ToSet(ss[i]) : i \in DOMAIN ss}

(* Messages are written in the order of the appends and nothing is lost or *)
(* doubled on the way: the file and the buffers hold, each once and in     *)
(* order, every message except those that are gone: too long for a buffer, *)
(* dropped with the excess, or not taken by write.                         *)
InOrderNoLoss == InOrder(Stored) /\ Held(Stored) = (1..appended) \ gone

(* Every message appended while logging runs is written or given up; only  *)
(* stop() leaves messages behind.                                          *)
MessageWritten ==
    \A m \in 1..MaxMsgs : appended >= m ~> m \in ToSet(written) \cup gone \/ ~running_
=============================================================================
