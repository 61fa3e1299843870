--------------------------- MODULE EventLoopThread ---------------------------
(***************************************************************************)
(* A thread that runs one EventLoop: Thread::start with its latch,         *)
(* startLoop waiting until threadFunc has published the loop, and the      *)
(* destructor, which quits the loop and joins the thread.                  *)
(*                                                                         *)
(* The thread that owns the EventLoopThread object is Owner; the started   *)
(* thread is the loop's own thread, whose steps inside loop() are those of *)
(* EventLoop.                                                              *)
(*                                                                         *)
(* opc, the owner:   "new" -> "latch" (in latch_.wait()) -> "wait" (in     *)
(*   startLoop's wait) -> "using" -> "dtor" (loop_ read) -> "join" -> "gone" *)
(* wpc, the thread:  "none" -> "starting" -> "entered" (in threadFunc) ->  *)
(*   "init" (loop built, callback_ running) -> "published" -> "looping" -> *)
(*   "unlock" (loop_ = nullptr, mutex_ held) -> "destroy" -> "dead"        *)
(***************************************************************************)
EXTENDS EventLoop

CONSTANT Owner         \* one of Threads

ASSUME OwnerAssumption == Owner \in Threads

VARIABLES opc, wpc,
          latch,       \* Thread::latch_.count_
          loop_,       \* has threadFunc published its loop?
          otherQuit    \* history: somebody else than the destructor called quit()

threadVars == <<opc, wpc, latch, loop_, otherQuit>>
allVars == <<vars, threadVars>>

ThreadTypeOK ==
    /\ TypeOK
    /\ opc \in {"new", "latch", "wait", "using", "dtor", "join", "gone"}
    /\ wpc \in {"none", "starting", "entered", "init", "published", "looping",
                "unlock", "destroy", "dead"}
    /\ latch \in 0..1
    /\ loop_ \in BOOLEAN /\ otherQuit \in BOOLEAN

ThreadInit ==
    /\ Init
    /\ opc = "new"
    /\ wpc = "none"
    /\ latch = 1
    /\ loop_ = FALSE
    /\ otherQuit = FALSE

loopAlive == wpc \in {"init", "published", "looping", "unlock", "destroy"}

-----------------------------------------------------------------------------
(* The owner.                                                              *)

(* Thread::start: create the thread, then wait for the latch.              *)
Start ==
    /\ opc = "new"
    /\ opc' = "latch"
    /\ wpc' = "starting"
    /\ UNCHANGED <<vars, latch, loop_, otherQuit>>

LatchOpen ==
    /\ opc = "latch"
    /\ latch = 0
    /\ opc' = "wait"
    /\ UNCHANGED <<vars, wpc, latch, loop_, otherQuit>>

(* startLoop leaves its wait once loop_ is set, whatever woke it.          *)
StartLoopReturns ==
    /\ opc = "wait"
    /\ loop_
    /\ opc' = "using"
    /\ UNCHANGED <<vars, wpc, latch, loop_, otherQuit>>

(* Mutant: the destructor does not test loop_.                             *)
DestructorDoesNotTest ==
    /\ opc \in {"new", "using"}
    /\ \A t \in Threads : tpc[t] = "ready"
    /\ opc' = "dtor"
    /\ UNCHANGED <<vars, wpc, latch, loop_, otherQuit>>

(* ~EventLoopThread reads loop_ without mutex_. On nullptr it is done, and *)
(* ~Thread detaches a thread that was started.                             *)
BeginDestructor ==
    /\ opc \in {"new", "using"}
    /\ \A t \in Threads : tpc[t] = "ready"
    /\ opc' = IF loop_ THEN "dtor" ELSE "gone"
    /\ UNCHANGED <<vars, wpc, latch, loop_, otherQuit>>

(* Mutant: the destructor does not join.                                   *)
DestructorDetaches ==
    /\ opc = "dtor"
    /\ Quit(Owner)
    /\ opc' = "gone"
    /\ UNCHANGED <<wpc, latch, loop_, otherQuit>>

(* If another quit() has ended the loop since the test, this one is made   *)
(* on a loop that is gone (QuitTargetAlive); it has no effect then, and    *)
(* the join returns.                                                       *)
DestructorQuits ==
    /\ opc = "dtor"
    /\ Quit(Owner)
    /\ opc' = "join"
    /\ UNCHANGED <<wpc, latch, loop_, otherQuit>>

JoinReturns ==
    /\ opc = "join"
    /\ tpc[Owner] = "ready"
    /\ wpc = "dead"
    /\ opc' = "gone"
    /\ UNCHANGED <<vars, wpc, latch, loop_, otherQuit>>

OwnerStep ==
    \/ Start
    \/ LatchOpen
    \/ StartLoopReturns
    \/ BeginDestructor
    \/ DestructorQuits
    \/ JoinReturns

-----------------------------------------------------------------------------
(* The started thread.                                                     *)

(* Mutant: the latch is never counted down.                                *)
EnterWithoutCountDown ==
    /\ wpc = "starting"
    /\ wpc' = "entered"
    /\ UNCHANGED <<vars, opc, latch, loop_, otherQuit>>

(* Thread's lambda counts the latch down and calls threadFunc.             *)
EnterThreadFunc ==
    /\ wpc = "starting"
    /\ latch' = latch - 1
    /\ wpc' = "entered"
    /\ UNCHANGED <<vars, opc, loop_, otherQuit>>

BuildLoop ==
    /\ wpc = "entered"
    /\ wpc' = "init"
    /\ UNCHANGED <<vars, opc, latch, loop_, otherQuit>>

Publish ==
    /\ wpc = "init"
    /\ loop_' = TRUE
    /\ wpc' = "published"
    /\ UNCHANGED <<vars, opc, latch, otherQuit>>

EnterLoop ==
    /\ wpc = "published"
    /\ StartLoop
    /\ wpc' = "looping"
    /\ UNCHANGED <<opc, latch, loop_, otherQuit>>

Unpublish ==
    /\ wpc = "looping"
    /\ ~looping_
    /\ loop_' = FALSE
    /\ wpc' = "unlock"
    /\ UNCHANGED <<vars, opc, latch, otherQuit>>

(* The locals go in reverse order: first the lock_guard, then the loop.    *)
LeaveThreadFunc ==
    /\ wpc \in {"unlock", "destroy"}
    /\ wpc' = IF wpc = "unlock" THEN "destroy" ELSE "dead"
    /\ UNCHANGED <<vars, opc, latch, loop_, otherQuit>>

(* A quit() that is not the destructor's.                                  *)
NoteQuit == otherQuit' = TRUE /\ UNCHANGED <<opc, wpc, latch, loop_>>

(* callback_ and the handlers and functors of the loop are user code; they *)
(* queue, run, and quit the loop they run in.                              *)
InLoopUserStep ==
    /\ wpc = "init" \/ looping_
    /\ \/ (\E f \in Functors : InLoopQueue(f) \/ InLoopRun(f)) /\ UNCHANGED threadVars
       \/ InLoopQuit /\ NoteQuit

WorkerStep ==
    \/ EnterThreadFunc
    \/ BuildLoop
    \/ Publish
    \/ EnterLoop
    \/ looping_ /\ LoopStep /\ UNCHANGED threadVars
    \/ Unpublish
    \/ LeaveThreadFunc

PollTimeout == PollTimesOut /\ UNCHANGED threadVars

(* Threads that got the loop from startLoop queue and quit, as long as the *)
(* loop exists and until the object is destroyed. A thread that is between *)
(* quit_ = true and wakeup() when the loop is destroyed writes in vain.    *)
CallerStep ==
    \E t \in Threads :
        \/ WakeupLoop(t) /\ UNCHANGED threadVars
        \/ /\ opc = "using" /\ loopAlive
           /\ \/ (\E f \in Functors : QueueInLoop(t, f)) /\ UNCHANGED threadVars
              \/ Quit(t) /\ NoteQuit

ThreadNext ==
    \/ OwnerStep
    \/ WorkerStep
    \/ PollTimeout
    \/ InLoopUserStep
    \/ CallerStep
    \/ looping_ /\ (\E c \in Channels : Arrive(c)) /\ UNCHANGED threadVars

ThreadSpec == ThreadInit /\ [][ThreadNext]_allVars

(* Both threads are scheduled, and a thread inside wakeup() finishes it.   *)
(* Nobody has to call startLoop or to destroy the object. As in EventLoop  *)
(* nothing leans on the poll timeout, except where it is named.            *)
ThreadFairness ==
    /\ WF_allVars(LatchOpen \/ StartLoopReturns \/ DestructorQuits \/ JoinReturns)
    /\ WF_allVars(WorkerStep)
    /\ \A t \in Threads : WF_allVars(WakeupLoop(t) /\ UNCHANGED threadVars)
ThreadFairSpec == ThreadSpec /\ ThreadFairness
TimeoutFairSpec == ThreadFairSpec /\ WF_allVars(PollTimeout)

-----------------------------------------------------------------------------
(* The destructor's quit() finds the loop alive, though loop_ was read     *)
(* without mutex_, unless somebody else had called quit() too: then the    *)
(* loop may end, and be destroyed, between the test and the call.          *)
QuitTargetAlive == opc = "dtor" => loopAlive \/ (otherQuit /\ wpc = "dead")

(* threadFunc uses mutex_ and loop_ of the EventLoopThread object. The     *)
(* object is never destroyed while the thread is before or in loop(). It   *)
(* outlives the thread altogether, unless somebody else called quit():     *)
(* then the destructor may find loop_ cleared, join nothing, and be done   *)
(* while threadFunc still holds mutex_ or destroys its loop.               *)
ObjectOutlivesThread ==
    opc = "gone" => \/ wpc \in {"none", "dead"}
                    \/ otherQuit /\ wpc \in {"unlock", "destroy"}

(* Why, as an inductive invariant. The latch is counted down once; loop_   *)
(* is set exactly while the thread is between publishing and unpublishing; *)
(* only quit() sets quit_, so until the destructor or somebody else has    *)
(* called it, the loop that the owner uses cannot end.                     *)
ThreadInv ==
    /\ latch = (IF wpc \in {"none", "starting"} THEN 1 ELSE 0)
    /\ loop_ <=> wpc \in {"published", "looping"}
    /\ looping_ => wpc = "looping"
    /\ opc = "new" => wpc = "none"
    /\ opc \in {"using", "dtor"} => wpc \in {"published", "looping", "unlock", "destroy", "dead"}
    /\ opc = "gone" => wpc \in {"none", "unlock", "destroy", "dead"}
    /\ quit_ => opc \in {"join", "gone"} \/ otherQuit
    /\ \/ wpc \in {"unlock", "destroy", "dead"}
       \/ wpc = "looping" /\ ~looping_
       => opc \in {"join", "gone"} \/ otherQuit
    /\ opc = "gone" => wpc \in {"none", "dead"} \/ otherQuit

(* startLoop returns once the thread is started, unless the loop was quit  *)
(* from inside so early that it is over before startLoop has looked: loop_ *)
(* is nullptr again then, and the wait has no end.                         *)
StartLoopTerminates ==
    opc \in {"latch", "wait"} ~>
        opc = "using" \/ (otherQuit /\ wpc \in {"unlock", "destroy", "dead"})

(* A destructor whose quit() reaches a loop that has entered loop() joins. *)
QuitWhileLoopingJoins == opc = "join" /\ quit_ /\ wpc = "looping" ~> opc = "gone"

(* The comment on quit(): called from another thread, it ends the loop. So *)
(* the destructor's join returns.                                          *)
JoinTerminates == opc = "join" ~> opc = "gone"
=============================================================================
