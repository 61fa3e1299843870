----------------------------- MODULE MCEventLoop -----------------------------
(***************************************************************************)
(* The two ways in which the program uses an EventLoop: in a thread that   *)
(* built it, as main() does with the base loop (module EventLoop), and in  *)
(* an EventLoopThread, as the pool does (module EventLoopThread).          *)
(***************************************************************************)
EXTENDS EventLoopThread

VARIABLE hosted       \* is the loop in an EventLoopThread?

mcVars == <<allVars, hosted>>

MCInit == ThreadInit /\ hosted \in BOOLEAN

MCNext ==
    /\ \/ ~hosted /\ Next /\ UNCHANGED threadVars
       \/ hosted /\ ThreadNext
    /\ UNCHANGED hosted

(* Fairness of EventLoop, and ThreadFairness of EventLoopThread.           *)
MCFairSpec ==
    /\ MCInit /\ [][MCNext]_mcVars
    /\ WF_mcVars(~hosted /\ LoopStep /\ UNCHANGED <<threadVars, hosted>>)
    /\ WF_mcVars(hosted /\ WorkerStep /\ UNCHANGED hosted)
    /\ WF_mcVars(/\ hosted
                 /\ LatchOpen \/ StartLoopReturns \/ DestructorQuits \/ JoinReturns
                 /\ UNCHANGED hosted)
    /\ \A t \in Threads : WF_mcVars(WakeupLoop(t) /\ UNCHANGED <<threadVars, hosted>>)
=============================================================================
