----------------------------- MODULE ServerStart -----------------------------
(***************************************************************************)
(* From TcpServer::start to the first event of a connection: the thread    *)
(* pool starts its loops one after the other, the acceptor listens, and    *)
(* newConnection hands every client to the next loop. start() may be       *)
(* called by several threads, and by the base loop's thread before or in   *)
(* loop(). The process has a limited number of descriptors.                *)
(*                                                                         *)
(* spc, in start():   "idle" -> "pool" (at the head of the pool's for) ->  *)
(*   "wait" (in startLoop) -> "pool" ... -> "listen" -> "idle"             *)
(* worker:  "none" -> "init" (before callback_) -> "ready" (loop published *)
(*   and running)                                                          *)
(* EventLoopThread has what is inside startLoop, and TcpServer what        *)
(* happens to a connection afterwards.                                     *)
(***************************************************************************)
EXTENDS Naturals, FiniteSets

CONSTANTS Base, Others,   \* the base loop's thread, and other callers of start()
          MaxThreads,     \* setThreadNum(0..MaxThreads)
          Fds,            \* descriptors that are left for connections
          MaxClients, MaxStarts

ASSUME StartAssumption ==
    /\ {MaxThreads, Fds, MaxClients, MaxStarts} \subseteq Nat
    /\ Base \notin Others /\ Base \notin Nat

Callers == Others \cup {Base}
IoLoops == 1..MaxThreads
Loops == IoLoops \cup {Base}

VARIABLES numThreads_,
          started_,         \* TcpServer::started_, the number of calls
          spc,
          loops_,           \* size of the pool's loops_; loop i is its i-th
          next_,
          worker,           \* the threads of the pool
          inited,           \* loops that threadInitCallback_ was called for
          inLoop,           \* the base loop is in loop()
          listenQueued,     \* Acceptor::listen waits in the base loop's queue
          listening,
          backlog,          \* clients the kernel holds for accept
          free,             \* free descriptors
          establishing, up, \* of every loop: queued connectEstablished, connections
          arrived,
          ended             \* LOG_FATAL ended the process

startVars == <<numThreads_, started_, spc>>
poolVars  == <<loops_, next_, worker, inited>>
loopVars  == <<inLoop, listenQueued, listening>>
connVars  == <<backlog, free, establishing, up, arrived>>
vars == <<startVars, poolVars, loopVars, connVars, ended>>

TypeOK ==
    /\ numThreads_ \in 0..MaxThreads /\ started_ \in 0..MaxStarts
    /\ spc \in [Callers -> {"idle", "pool", "wait", "listen"}]
    /\ loops_ \in 0..MaxThreads /\ next_ \in 0..MaxThreads
    /\ worker \in [IoLoops -> {"none", "init", "ready"}] /\ inited \subseteq Loops
    /\ inLoop \in BOOLEAN /\ listenQueued \in BOOLEAN /\ listening \in BOOLEAN
    /\ backlog \in 0..MaxClients /\ free \in 0..Fds /\ arrived \in 0..MaxClients
    /\ establishing \in [IoLoops -> 0..Fds] /\ up \in [Loops -> 0..Fds]
    /\ ended \in BOOLEAN

Init ==
    /\ numThreads_ \in 0..MaxThreads
    /\ started_ = 0 /\ spc = [c \in Callers |-> "idle"]
    /\ loops_ = 0 /\ next_ = 0 /\ worker = [i \in IoLoops |-> "none"] /\ inited = {}
    /\ inLoop = FALSE /\ listenQueued = FALSE /\ listening = FALSE
    /\ backlog = 0 /\ free = Fds /\ arrived = 0
    /\ establishing = [i \in IoLoops |-> 0] /\ up = [l \in Loops |-> 0]
    /\ ended = FALSE

Goto(c, where) == spc' = [spc EXCEPT ![c] = where]

-----------------------------------------------------------------------------
(* TcpServer::start and EventLoopThreadPool::start.                        *)

(* Mutant: ++started_ == 0.                                                *)
FirstOfPreIncrement(old) == old + 1 = 0

(* started_++ == 0.                                                        *)
FirstStart(old) == old = 0

(* Mutant: the acceptor listens before the pool is started.                *)
ListenComesFirst == "listen"

(* What start() does first.                                                *)
PoolComesFirst == "pool"

CallStart(c) ==
    /\ ~ended /\ spc[c] = "idle" /\ started_ < MaxStarts
    /\ started_' = started_ + 1
    /\ IF FirstStart(started_) THEN Goto(c, PoolComesFirst) ELSE UNCHANGED spc
    /\ UNCHANGED <<numThreads_, poolVars, loopVars, connVars, ended>>

(* A turn of the pool's for: a new EventLoopThread, and into startLoop.    *)
NewThread(c) ==
    /\ ~ended /\ spc[c] = "pool" /\ loops_ < numThreads_
    /\ worker' = [worker EXCEPT ![loops_ + 1] = "init"]
    /\ Goto(c, "wait")
    /\ UNCHANGED <<numThreads_, started_, loops_, next_, inited, loopVars, connVars, ended>>

(* threadFunc calls threadInitCallback_ and then publishes its loop.       *)
ThreadFunc(i) ==
    /\ ~ended /\ worker[i] = "init"
    /\ worker' = [worker EXCEPT ![i] = "ready"] /\ inited' = inited \cup {i}
    /\ UNCHANGED <<startVars, loops_, next_, loopVars, connVars, ended>>

StartLoopReturns(c) ==
    /\ ~ended /\ spc[c] = "wait" /\ worker[loops_ + 1] = "ready"
    /\ loops_' = loops_ + 1
    /\ Goto(c, "pool")
    /\ UNCHANGED <<numThreads_, started_, next_, worker, inited, loopVars, connVars, ended>>

(* The end of the pool's start. Without threads the callback is called for *)
(* the base loop, in the thread that called start().                       *)
PoolStarted(c) ==
    /\ ~ended /\ spc[c] = "pool" /\ loops_ = numThreads_
    /\ inited' = IF numThreads_ = 0 THEN inited \cup {Base} ELSE inited
    /\ Goto(c, "listen")
    /\ UNCHANGED <<numThreads_, started_, loops_, next_, worker, loopVars, connVars, ended>>

(* runInLoop(Acceptor::listen): at once in the base loop's thread.         *)
StartListening(c) ==
    /\ ~ended /\ spc[c] = "listen"
    /\ Goto(c, "idle")
    /\ IF c = Base THEN listening' = TRUE /\ UNCHANGED listenQueued
                   ELSE listenQueued' = TRUE /\ UNCHANGED listening
    /\ UNCHANGED <<numThreads_, started_, poolVars, inLoop, connVars, ended>>

CallerStep(c) ==
    \/ NewThread(c) \/ StartLoopReturns(c) \/ PoolStarted(c) \/ StartListening(c)

-----------------------------------------------------------------------------
(* The base loop; a start() called in one of its callbacks keeps it busy.  *)

EnterLoop ==
    /\ ~ended /\ ~inLoop /\ spc[Base] = "idle"
    /\ inLoop' = TRUE
    /\ UNCHANGED <<startVars, poolVars, listenQueued, listening, connVars, ended>>

BaseFree == ~ended /\ inLoop /\ spc[Base] = "idle"

(* Acceptor::listen as a functor.                                          *)
RunListen ==
    /\ BaseFree /\ listenQueued
    /\ listening' = TRUE /\ listenQueued' = FALSE
    /\ UNCHANGED <<startVars, poolVars, inLoop, connVars, ended>>

(* getNextLoop.                                                            *)
NextLoop == IF loops_ = 0 THEN Base ELSE next_ + 1
NextAfter == IF loops_ = 0 \/ next_ + 1 >= loops_ THEN 0 ELSE next_ + 1

(* Acceptor::handleRead, newConnection, and connectEstablished through     *)
(* runInLoop.                                                              *)
Accept ==
    /\ BaseFree /\ listening /\ backlog > 0 /\ free > 0
    /\ backlog' = backlog - 1 /\ free' = free - 1
    /\ next_' = NextAfter
    /\ IF NextLoop = Base
       THEN up' = [up EXCEPT ![Base] = @ + 1] /\ UNCHANGED establishing
       ELSE establishing' = [establishing EXCEPT ![NextLoop] = @ + 1] /\ UNCHANGED up
    /\ UNCHANGED <<startVars, loops_, worker, inited, loopVars, arrived, ended>>

(* accept4 fails, without a descriptor or because of the network:          *)
(* Socket::accept calls LOG_FATAL, and what handleRead would do with       *)
(* idleFd_ is never reached.                                               *)
AcceptFails ==
    /\ BaseFree /\ listening /\ backlog > 0
    /\ ended' = TRUE
    /\ UNCHANGED <<startVars, poolVars, loopVars, connVars>>

BaseStep == RunListen \/ Accept \/ (free = 0 /\ AcceptFails)

-----------------------------------------------------------------------------
Establish(i) ==
    /\ ~ended /\ worker[i] = "ready" /\ establishing[i] > 0
    /\ establishing' = [establishing EXCEPT ![i] = @ - 1]
    /\ up' = [up EXCEPT ![i] = @ + 1]
    /\ UNCHANGED <<startVars, poolVars, loopVars, backlog, free, arrived, ended>>

ConnectionEnds(l) ==
    /\ ~ended /\ up[l] > 0
    /\ up' = [up EXCEPT ![l] = @ - 1] /\ free' = free + 1
    /\ UNCHANGED <<startVars, poolVars, loopVars, backlog, establishing, arrived, ended>>

ClientArrives ==
    /\ ~ended /\ listening /\ arrived < MaxClients
    /\ arrived' = arrived + 1 /\ backlog' = backlog + 1
    /\ UNCHANGED <<startVars, poolVars, loopVars, free, establishing, up, ended>>

Next ==
    \/ \E c \in Callers : CallStart(c) \/ CallerStep(c)
    \/ \E i \in IoLoops : ThreadFunc(i) \/ Establish(i)
    \/ EnterLoop \/ RunListen \/ Accept \/ AcceptFails \/ ClientArrives
    \/ \E l \in Loops : ConnectionEnds(l)

Spec == Init /\ [][Next]_vars

(* Every thread is scheduled, and the base loop's thread calls loop().     *)
FairSpec ==
    /\ Spec
    /\ WF_vars(EnterLoop) /\ WF_vars(BaseStep)
    /\ \A c \in Callers : WF_vars(CallerStep(c))
    /\ \A i \in IoLoops : WF_vars(ThreadFunc(i) \/ Establish(i))

-----------------------------------------------------------------------------
(* No client reaches a loop before threadInitCallback_ was called for it,  *)
(* nor while the pool is still being filled, whoever calls start(): the    *)
(* vector loops_ is not read while it grows, and no loop is left out.      *)
InitBeforeUse ==
    \A l \in Loops : up[l] + (IF l = Base THEN 0 ELSE establishing[l]) > 0 =>
        l \in inited /\ loops_ = numThreads_

(* As long as no accept fails: a server that was started listens, and its  *)
(* clients get a connection on some loop. A failed accept ends the process *)
(* by LOG_FATAL, also when it failed for want of a descriptor, and nobody  *)
(* is served then: that case is FullTableSurvived's.                       *)
StartListens == started_ > 0 ~> listening
ClientsServed == backlog > 0 ~> backlog = 0 /\ \A i \in IoLoops : establishing[i] = 0
ServerServes == []~ended => StartListens /\ ClientsServed

(* What idleFd_ in Acceptor is for: a client that comes when no descriptor *)
(* is left is accepted and closed, and the server goes on.                 *)
FullTableSurvived == ended => free > 0
=============================================================================
