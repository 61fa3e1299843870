------------------------------ MODULE MCLogging ------------------------------
(***************************************************************************)
(* The two places a line of the log goes to: the g_output that             *)
(* AsyncLogging installs, or the Logger's own file. A program uses one.    *)
(***************************************************************************)
EXTENDS AsyncLogging, Logger

VARIABLE async        \* is AsyncLogging installed?

mcVars == <<vars, loggerVars, async>>

MCInit == Init /\ LoggerInit /\ async \in BOOLEAN

MCNext ==
    /\ \/ async /\ Next /\ UNCHANGED loggerVars
       \/ ~async /\ LoggerNext /\ UNCHANGED vars
    /\ UNCHANGED async

(* The fairness of FairSpec and of LoggerFairSpec.                         *)
MCFairSpec ==
    /\ MCInit /\ [][MCNext]_mcVars
    /\ WF_mcVars(async /\ LoggerStep /\ UNCHANGED <<loggerVars, async>>)
    /\ \A t \in Threads : WF_mcVars(~async /\ ThreadStep(t) /\ UNCHANGED <<vars, async>>)
=============================================================================
