------------------------------ MODULE EventLoop ------------------------------
(***************************************************************************)
(* One EventLoop: the thread that owns it, the eventfd that wakes it, the  *)
(* queue of pending functors under mutex_, and other threads that call     *)
(* queueInLoop/runInLoop and quit.                                         *)
(*                                                                         *)
(* pc is the owner thread's place in the code:                             *)
(*   "idle"     outside loop()            "test"    at while (!quit_)      *)
(*   "poll"     in epoll_wait             "events"  between two handlers   *)
(*   "event"    in a user event handler   "run"     between two functors   *)
(*   "functor"  in a functor                                               *)
(* User code of the owner thread runs in "idle", "event" and "functor".    *)
(***************************************************************************)
EXTENDS Naturals, Sequences, FiniteSets

CONSTANTS Functors,            \* callbacks, each handed to the loop at most once
          Threads,             \* the threads other than the owner
          Channels,            \* I/O channels registered with the loop
          Wakeup,              \* wakeupChannel_
          EfdMax,              \* largest value of an eventfd counter
          kInitEventListSize   \* initial length of EPollPoller::events_

ASSUME EfdMaxAssumption == EfdMax \in Nat \ {0}
ASSUME ChannelAssumption == Wakeup \notin Channels
ASSUME ListAssumption == kInitEventListSize \in Nat \ {0}

VARIABLES pc,
          quit_,
          callingPendingFunctors_,
          pendingFunctors_,    \* shared, guarded by mutex_
          functors,            \* doPendingFunctors's local vector, rest to run
          wakeupFd,            \* counter of the eventfd
          activeChannels_,     \* reported by the last poll, not yet handled
          ready,               \* I/O channels with an unhandled event
          listSize,            \* EPollPoller::events_.size()
          tpc,                 \* other threads: "ready", or "wake" before wakeup()
          executed,            \* history: functors started, in order
          early                \* history: queued by the owner outside loop()

loopVars == <<callingPendingFunctors_, functors, activeChannels_, listSize>>
vars == <<pc, quit_, pendingFunctors_, wakeupFd, ready, tpc, executed, early,
          callingPendingFunctors_, functors, activeChannels_, listSize>>

Elements(s) == {s[i] : i \in 1..Len(s)}
Fresh(f) == f \notin Elements(executed) \cup Elements(functors)
                     \cup Elements(pendingFunctors_)

UserCode == {"idle", "event", "functor"}

looping_ == pc # "idle"

TypeOK ==
    /\ pc \in {"idle", "test", "poll", "events", "event", "run", "functor"}
    /\ quit_ \in BOOLEAN
    /\ callingPendingFunctors_ \in BOOLEAN
    /\ pendingFunctors_ \in Seq(Functors)
    /\ functors \in Seq(Functors)
    /\ wakeupFd \in 0..EfdMax
    /\ activeChannels_ \in SUBSET (Channels \cup {Wakeup})
    /\ ready \in SUBSET Channels
    /\ listSize \in Nat \ {0}
    /\ tpc \in [Threads -> {"ready", "wake"}]
    /\ executed \in Seq(Functors)
    /\ early \in SUBSET Functors

Init ==
    /\ pc = "idle"
    /\ quit_ = FALSE
    /\ callingPendingFunctors_ = FALSE
    /\ pendingFunctors_ = <<>>
    /\ functors = <<>>
    /\ wakeupFd = 0
    /\ activeChannels_ = {}
    /\ ready = {}
    /\ listSize = kInitEventListSize
    /\ tpc = [t \in Threads |-> "ready"]
    /\ executed = <<>>
    /\ early = {}

-----------------------------------------------------------------------------
(* The eventfd: a write adds one and fails with EAGAIN at the limit (the   *)
(* error is only logged); a read returns the counter and clears it.        *)

WakeupFdWritten == IF wakeupFd < EfdMax THEN wakeupFd + 1 ELSE wakeupFd

(* Mutant: the wakeup is skipped when a functor of the loop queues.        *)
NeedsWakeupOnlyFromOutside(inLoopThread) == ~inLoopThread

(* queueInLoop: who has to write the eventfd after the push.               *)
NeedsWakeup(inLoopThread) == ~inLoopThread \/ callingPendingFunctors_

-----------------------------------------------------------------------------
(* Other threads.                                                          *)

(* queueInLoop, and runInLoop outside the loop's thread: push under mutex_. *)
QueueInLoop(t, f) ==
    /\ tpc[t] = "ready"
    /\ Fresh(f)
    /\ pendingFunctors_' = Append(pendingFunctors_, f)
    /\ tpc' = [tpc EXCEPT ![t] = IF NeedsWakeup(FALSE) THEN "wake" ELSE "ready"]
    /\ UNCHANGED <<pc, quit_, wakeupFd, ready, executed, early, loopVars>>

(* Mutant: a quit from another thread does not wake the loop.              *)
QuitSilently(t) ==
    /\ tpc[t] = "ready"
    /\ quit_' = TRUE
    /\ UNCHANGED <<tpc, pc, pendingFunctors_, wakeupFd, ready, executed, early, loopVars>>

Quit(t) ==
    /\ tpc[t] = "ready"
    /\ quit_' = TRUE
    /\ tpc' = [tpc EXCEPT ![t] = "wake"]
    /\ UNCHANGED <<pc, pendingFunctors_, wakeupFd, ready, executed, early, loopVars>>

WakeupLoop(t) ==
    /\ tpc[t] = "wake"
    /\ tpc' = [tpc EXCEPT ![t] = "ready"]
    /\ wakeupFd' = WakeupFdWritten
    /\ UNCHANGED <<pc, quit_, pendingFunctors_, ready, executed, early, loopVars>>

(* The kernel: an I/O channel becomes readable or writable.                *)
Arrive(c) ==
    /\ c \notin ready
    /\ ready' = ready \cup {c}
    /\ UNCHANGED <<pc, quit_, pendingFunctors_, wakeupFd, tpc, executed, early, loopVars>>

-----------------------------------------------------------------------------
(* User code of the owner thread.                                          *)

InLoopQueue(f) ==
    /\ pc \in UserCode
    /\ Fresh(f)
    /\ pendingFunctors_' = Append(pendingFunctors_, f)
    /\ wakeupFd' = IF NeedsWakeup(TRUE) THEN WakeupFdWritten ELSE wakeupFd
    /\ early' = IF pc = "idle" THEN early \cup {f} ELSE early
    /\ UNCHANGED <<pc, quit_, ready, tpc, executed, loopVars>>

(* runInLoop in the loop's own thread calls cb at once.                    *)
InLoopRun(f) ==
    /\ pc \in UserCode
    /\ Fresh(f)
    /\ executed' = Append(executed, f)
    /\ UNCHANGED <<pc, quit_, pendingFunctors_, wakeupFd, ready, tpc, early, loopVars>>

InLoopQuit ==
    /\ pc \in UserCode
    /\ quit_' = TRUE
    /\ UNCHANGED <<pc, pendingFunctors_, wakeupFd, ready, tpc, executed, early, loopVars>>

-----------------------------------------------------------------------------
(* loop(), step by step.                                                   *)

StartLoop ==
    /\ pc = "idle"
    /\ pc' = "test"
    /\ quit_' = FALSE
    /\ UNCHANGED <<pendingFunctors_, wakeupFd, ready, tpc, executed, early, loopVars>>

TestQuit ==
    /\ pc = "test"
    /\ IF quit_ THEN pc' = "idle" /\ UNCHANGED activeChannels_
                ELSE pc' = "poll" /\ activeChannels_' = {}
    /\ UNCHANGED <<quit_, callingPendingFunctors_, pendingFunctors_, functors,
                   wakeupFd, ready, listSize, tpc, executed, early>>

Reportable == ready \cup (IF wakeupFd > 0 THEN {Wakeup} ELSE {})

(* Mutant: the event list keeps its first length.                          *)
FixedList(n) == listSize

GrownList(n) == IF n = listSize THEN 2 * listSize ELSE listSize

(* EPollPoller::poll with events: at most events_.size() of them.          *)
PollReturns(reported) ==
    /\ pc = "poll"
    /\ reported # {}
    /\ \/ reported = Reportable /\ Cardinality(reported) <= listSize
       \/ Cardinality(reported) = listSize
    /\ activeChannels_' = reported
    /\ listSize' = GrownList(Cardinality(reported))
    /\ pc' = "events"
    /\ UNCHANGED <<quit_, callingPendingFunctors_, pendingFunctors_, functors,
                   wakeupFd, ready, tpc, executed, early>>

(* EPollPoller::poll after kPollTimeMs, or interrupted by a signal.        *)
PollTimesOut ==
    /\ pc = "poll"
    /\ Reportable = {}
    /\ activeChannels_' = {}
    /\ pc' = "events"
    /\ UNCHANGED <<quit_, callingPendingFunctors_, pendingFunctors_, functors,
                   wakeupFd, ready, listSize, tpc, executed, early>>

(* EventLoop::handleRead drains the eventfd.                               *)
HandleWakeup ==
    /\ pc = "events"
    /\ Wakeup \in activeChannels_
    /\ activeChannels_' = activeChannels_ \ {Wakeup}
    /\ wakeupFd' = 0
    /\ UNCHANGED <<pc, quit_, callingPendingFunctors_, pendingFunctors_, functors,
                   ready, listSize, tpc, executed, early>>

(* A handler consumes the event it was called for and runs user code.      *)
BeginEvent(c) ==
    /\ pc = "events"
    /\ c \in activeChannels_ \cap Channels
    /\ activeChannels_' = activeChannels_ \ {c}
    /\ ready' = ready \ {c}
    /\ pc' = "event"
    /\ UNCHANGED <<quit_, callingPendingFunctors_, pendingFunctors_, functors,
                   wakeupFd, listSize, tpc, executed, early>>

EndEvent ==
    /\ pc = "event"
    /\ pc' = "events"
    /\ UNCHANGED <<quit_, pendingFunctors_, wakeupFd, ready, tpc, executed, early, loopVars>>

(* Mutant: the queue is copied and cleared in two critical sections, so a  *)
(* push in between is lost; here: whatever is newest is dropped.           *)
SwappedInTwoSections == IF pendingFunctors_ = <<>> THEN <<>> ELSE <<Head(pendingFunctors_)>>

SwappedOut == pendingFunctors_

(* doPendingFunctors: set the flag, swap the queue out under mutex_.       *)
BeginPending ==
    /\ pc = "events"
    /\ activeChannels_ = {}
    /\ callingPendingFunctors_' = TRUE
    /\ functors' = SwappedOut
    /\ pendingFunctors_' = <<>>
    /\ pc' = "run"
    /\ UNCHANGED <<quit_, wakeupFd, ready, activeChannels_, listSize, tpc, executed, early>>

BeginFunctor ==
    /\ pc = "run"
    /\ functors # <<>>
    /\ executed' = Append(executed, Head(functors))
    /\ functors' = Tail(functors)
    /\ pc' = "functor"
    /\ UNCHANGED <<quit_, callingPendingFunctors_, pendingFunctors_, wakeupFd,
                   ready, activeChannels_, listSize, tpc, early>>

EndFunctor ==
    /\ pc = "functor"
    /\ pc' = "run"
    /\ UNCHANGED <<quit_, pendingFunctors_, wakeupFd, ready, tpc, executed, early, loopVars>>

EndPending ==
    /\ pc = "run"
    /\ functors = <<>>
    /\ callingPendingFunctors_' = FALSE
    /\ pc' = "test"
    /\ UNCHANGED <<quit_, pendingFunctors_, functors, wakeupFd, ready,
                   activeChannels_, listSize, tpc, executed, early>>

-----------------------------------------------------------------------------
(* What the loop's thread does by itself once loop() is entered, without   *)
(* the poll timeout: the promises below do not lean on the ten seconds.    *)
LoopStep ==
    \/ TestQuit
    \/ \E reported \in SUBSET Reportable : PollReturns(reported)
    \/ HandleWakeup
    \/ \E c \in Channels : BeginEvent(c)
    \/ EndEvent
    \/ BeginPending
    \/ BeginFunctor
    \/ EndFunctor
    \/ EndPending

OtherStep(t) == WakeupLoop(t) \/ Quit(t) \/ \E f \in Functors : QueueInLoop(t, f)

UserStep ==
    \/ InLoopQuit
    \/ StartLoop
    \/ \E f \in Functors : InLoopQueue(f) \/ InLoopRun(f)

Next ==
    \/ LoopStep
    \/ PollTimesOut
    \/ UserStep
    \/ \E t \in Threads : OtherStep(t)
    \/ \E c \in Channels : Arrive(c)

Spec == Init /\ [][Next]_vars

(* The loop's thread and a thread between push and wakeup are scheduled;   *)
(* nobody is obliged to call anything.                                     *)
Fairness == WF_vars(LoopStep) /\ \A t \in Threads : WF_vars(WakeupLoop(t))
FairSpec == Spec /\ Fairness

-----------------------------------------------------------------------------
(* Somebody has written the eventfd, or is about to.                       *)
Notified == wakeupFd > 0 \/ \E t \in Threads : tpc[t] = "wake"

(* The loop never blocks in epoll_wait over work it was handed: with no    *)
(* wakeup pending or on its way, the queue holds at most functors that the *)
(* owner queued before it called loop(), and no quit is waiting.           *)
NoLostWakeup ==
    (pc = "poll" /\ ~Notified) => Elements(pendingFunctors_) \subseteq early /\ ~quit_

(* The inductive form: unnotified work exists only while the loop is on    *)
(* its way to doPendingFunctors, and handleRead finds the eventfd readable.*)
WakeupInv ==
    /\ callingPendingFunctors_ <=> pc \in {"run", "functor"}
    /\ \/ Elements(pendingFunctors_) \subseteq early
       \/ Notified
       \/ pc \in {"events", "event"}
    /\ pc = "poll" /\ quit_ => Notified
    /\ Wakeup \in activeChannels_ => wakeupFd > 0
    /\ pc \notin {"run", "functor"} => functors = <<>>

(* The queue is first in, first out, and every functor runs exactly once.  *)
Tasks == INSTANCE TaskQueue WITH queue <- functors \o pendingFunctors_, done <- executed
ImplementsTaskQueue == Tasks!Spec

(* A functor handed over while the loop runs is run, unless the loop ends. *)
FunctorRuns ==
    \A f \in Functors :
        (f \in Elements(pendingFunctors_) \ early) /\ looping_
            ~> f \in Elements(executed) \/ ~looping_

(* A quit that finds the loop running ends it, without another event.      *)
QuitEndsLoop == quit_ /\ looping_ ~> ~looping_

(* No ready channel is passed over for ever, however many are ready.       *)
ReadyChannelHandled == \A c \in Channels : c \in ready /\ looping_ ~> c \notin ready \/ ~looping_
=============================================================================
