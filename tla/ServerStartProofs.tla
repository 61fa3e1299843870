-------------------------- MODULE ServerStartProofs --------------------------
(***************************************************************************)
(* For any number of threads in the pool, of callers of start(), of        *)
(* clients and of descriptors: no client reaches a loop before it is       *)
(* initialized, nor while the pool is still being filled.                  *)
(***************************************************************************)
EXTENDS ServerStart, TLAPS

(* The types, without the bounds that come from counting descriptors.      *)
Types ==
    /\ numThreads_ \in 0..MaxThreads /\ started_ \in Nat
    /\ spc \in [Callers -> {"idle", "pool", "wait", "listen"}]
    /\ loops_ \in Nat /\ next_ \in Nat
    /\ worker \in [IoLoops -> {"none", "init", "ready"}]
    /\ listenQueued \in BOOLEAN /\ listening \in BOOLEAN
    /\ backlog \in Nat
    /\ establishing \in [IoLoops -> Nat] /\ up \in [Loops -> Nat]

(* Only the first call of start() goes beyond started_, so one caller at   *)
(* most is in it, and the acceptor is not asked to listen before its end.  *)
OneStarter ==
    /\ \A c, d \in Callers : spc[c] # "idle" /\ spc[d] # "idle" => c = d
    /\ \A c \in Callers : spc[c] # "idle" => started_ > 0 /\ ~listening /\ ~listenQueued
    /\ listening \/ listenQueued => started_ > 0

(* The pool: what is in loops_ was initialized, and it is complete once    *)
(* start() is past the pool.                                               *)
Complete == loops_ = numThreads_ /\ (numThreads_ = 0 => Base \in inited)

PoolFilled ==
    /\ loops_ <= numThreads_
    /\ \A i \in IoLoops : worker[i] = "ready" => i \in inited
    /\ \A i \in 1..loops_ : worker[i] = "ready"
    /\ \A c \in Callers : /\ spc[c] = "wait" => loops_ < numThreads_
                          /\ spc[c] = "listen" => Complete
    /\ listening \/ listenQueued => Complete

(* Clients come after listen, and getNextLoop only names loops of the      *)
(* pool, or the base loop if it has none.                                  *)
Assigned ==
    /\ loops_ = 0 => next_ = 0
    /\ loops_ > 0 => next_ < loops_
    /\ ~listening => backlog = 0
    /\ \A i \in IoLoops : establishing[i] > 0 => listening /\ i \in 1..loops_
    /\ \A l \in Loops : up[l] > 0 =>
           listening /\ (l \in 1..loops_ \/ (l = Base /\ loops_ = 0))

StartInv == Types /\ OneStarter /\ PoolFilled /\ Assigned

(* Before start() nobody listens, and there is no client.                  *)
LEMMA StartInvInit == Init => StartInv
<1> SUFFICES ASSUME Init PROVE StartInv
  OBVIOUS
<1> USE StartAssumption DEF Init
<1>1. Types BY DEF Types
<1>2. OneStarter BY DEF OneStarter
<1>3. PoolFilled BY DEF PoolFilled
<1>4. Assigned BY DEF Assigned
<1> QED BY <1>1, <1>2, <1>3, <1>4 DEF StartInv

(* The steps of start(), of the pool's threads and of the loops keep the   *)
(* invariant.                                                              *)
LEMMA StartInvStep == StartInv /\ [Next]_vars => StartInv'
<1> SUFFICES ASSUME StartInv, [Next]_vars PROVE StartInv'
  OBVIOUS
<1> USE StartAssumption DEF startVars, poolVars, loopVars, connVars, Goto
<1>a. Types /\ OneStarter /\ PoolFilled /\ Assigned
  BY DEF StartInv
<1>b. IoLoops \subseteq Nat /\ Base \notin IoLoops /\ Base \in Loops /\ Base \in Callers
  BY DEF IoLoops, Loops, Callers
<1>1. ASSUME NEW c \in Callers, CallStart(c) PROVE StartInv'
  <2>1. started_' = started_ + 1 /\ (spc' = spc \/ (started_ = 0 /\ spc' = [spc EXCEPT ![c] = "pool"]))
    BY <1>1 DEF CallStart, FirstStart, PoolComesFirst
  <2>2. UNCHANGED <<numThreads_, poolVars, loopVars, connVars, ended>>
    BY <1>1 DEF CallStart
  <2>3. Types' BY <1>a, <2>1, <2>2 DEF Types
  <2>4. OneStarter' BY <1>a, <2>1, <2>2 DEF Types, OneStarter
  <2>5. PoolFilled' BY <1>a, <2>1, <2>2 DEF Types, PoolFilled, Complete
  <2>6. Assigned' BY <1>a, <2>2 DEF Assigned
  <2> QED BY <2>3, <2>4, <2>5, <2>6 DEF StartInv
<1>2. ASSUME NEW c \in Callers, NewThread(c) PROVE StartInv'
  <2>1. loops_ + 1 \in IoLoops /\ loops_ + 1 \notin 1..loops_
    BY <1>2, <1>a DEF NewThread, Types, IoLoops
  <2>2. /\ worker' = [worker EXCEPT ![loops_ + 1] = "init"]
        /\ spc' = [spc EXCEPT ![c] = "wait"] /\ spc[c] = "pool" /\ loops_ < numThreads_
        /\ UNCHANGED <<numThreads_, started_, loops_, next_, inited, loopVars, connVars, ended>>
    BY <1>2 DEF NewThread
  <2>3. Types' BY <1>a, <2>2 DEF Types
  <2>4. OneStarter' BY <1>a, <2>2 DEF Types, OneStarter
  <2>5. PoolFilled'
    <3>1. 1..loops_ \subseteq IoLoops
      BY <2>1, <1>a DEF IoLoops, Types
    <3> QED BY <1>a, <2>1, <2>2, <3>1 DEF Types, PoolFilled, Complete
  <2>6. Assigned' BY <1>a, <2>2 DEF Assigned
  <2> QED BY <2>3, <2>4, <2>5, <2>6 DEF StartInv
<1>3. ASSUME NEW i \in IoLoops, ThreadFunc(i) PROVE StartInv'
  <2>1. /\ worker' = [worker EXCEPT ![i] = "ready"] /\ inited' = inited \cup {i}
        /\ UNCHANGED <<startVars, loops_, next_, loopVars, connVars, ended>>
    BY <1>3 DEF ThreadFunc
  <2>2. 1..loops_ \subseteq IoLoops
    BY <1>a DEF IoLoops, Types, PoolFilled
  <2>3. Types' BY <1>a, <2>1 DEF Types
  <2>4. OneStarter' BY <1>a, <2>1 DEF OneStarter
  <2>5. PoolFilled' BY <1>a, <2>1, <2>2 DEF Types, PoolFilled, Complete
  <2>6. Assigned' BY <1>a, <2>1 DEF Assigned
  <2> QED BY <2>3, <2>4, <2>5, <2>6 DEF StartInv
<1>4. ASSUME NEW c \in Callers, StartLoopReturns(c) PROVE StartInv'
  <2>1. /\ loops_' = loops_ + 1 /\ spc' = [spc EXCEPT ![c] = "pool"]
        /\ spc[c] = "wait" /\ worker[loops_ + 1] = "ready"
        /\ UNCHANGED <<numThreads_, started_, next_, worker, inited, loopVars, connVars, ended>>
    BY <1>4 DEF StartLoopReturns
  <2>2. loops_ < numThreads_ /\ ~listening /\ ~listenQueued
    BY <1>a, <2>1 DEF PoolFilled, OneStarter
  <2>3. Types' BY <1>a, <2>1 DEF Types
  <2>4. OneStarter' BY <1>a, <2>1 DEF Types, OneStarter
  <2>5. PoolFilled'
    <3>1. \A i \in 1..loops_' : worker'[i] = "ready"
      <4> SUFFICES ASSUME NEW i \in 1..loops_' PROVE worker'[i] = "ready"
        OBVIOUS
      <4>1. i \in 1..loops_ \/ i = loops_ + 1
        BY <1>a, <2>1 DEF Types
      <4> QED BY <1>a, <2>1, <4>1 DEF PoolFilled
    <3>2. \A d \in Callers : d # c => spc[d] = "idle"
      BY <1>a, <2>1 DEF OneStarter
    <3>3. \A d \in Callers : spc'[d] # "wait" /\ spc'[d] # "listen"
      BY <1>a, <2>1, <3>2 DEF Types
    <3> QED BY <1>a, <2>1, <2>2, <3>1, <3>3 DEF Types, PoolFilled
  <2>6. Assigned' BY <1>a, <2>1, <2>2 DEF Types, Assigned
  <2> QED BY <2>3, <2>4, <2>5, <2>6 DEF StartInv
<1>5. ASSUME NEW c \in Callers, PoolStarted(c) PROVE StartInv'
  <2>1. /\ spc' = [spc EXCEPT ![c] = "listen"] /\ spc[c] = "pool" /\ loops_ = numThreads_
        /\ inited' = IF numThreads_ = 0 THEN inited \cup {Base} ELSE inited
        /\ UNCHANGED <<numThreads_, started_, loops_, next_, worker, loopVars, connVars, ended>>
    BY <1>5 DEF PoolStarted
  <2>2. Complete' BY <2>1 DEF Complete
  <2>3. Types' BY <1>a, <2>1 DEF Types
  <2>4. OneStarter' BY <1>a, <2>1 DEF Types, OneStarter
  <2>5. PoolFilled' BY <1>a, <2>1, <2>2 DEF Types, PoolFilled
  <2>6. Assigned' BY <1>a, <2>1 DEF Assigned
  <2> QED BY <2>3, <2>4, <2>5, <2>6 DEF StartInv
<1>6. ASSUME NEW c \in Callers, StartListening(c) PROVE StartInv'
  <2>1. /\ spc' = [spc EXCEPT ![c] = "idle"] /\ spc[c] = "listen"
        /\ listening' \in BOOLEAN /\ listenQueued' \in BOOLEAN
        /\ listening => listening'
        /\ UNCHANGED <<numThreads_, started_, poolVars, inLoop, connVars, ended>>
    BY <1>6, <1>a DEF StartListening, Types
  <2>2. Complete' /\ started_ > 0
    BY <1>a, <2>1 DEF PoolFilled, Complete, OneStarter
  <2>3. \A d \in Callers : spc'[d] = "idle"
    BY <1>a, <2>1 DEF OneStarter, Types
  <2>4. Types' BY <1>a, <2>1 DEF Types
  <2>5. OneStarter' BY <2>1, <2>2, <2>3 DEF OneStarter
  <2>6. PoolFilled' BY <1>a, <2>1, <2>2, <2>3 DEF Types, PoolFilled
  <2>7. Assigned' BY <1>a, <2>1 DEF Assigned
  <2> QED BY <2>4, <2>5, <2>6, <2>7 DEF StartInv
<1>7. CASE EnterLoop
  <2>1. UNCHANGED <<startVars, poolVars, listenQueued, listening, connVars>>
    BY <1>7 DEF EnterLoop
  <2> QED BY <1>a, <2>1 DEF StartInv, Types, OneStarter, PoolFilled, Complete, Assigned
<1>8. CASE RunListen
  <2>1. /\ listenQueued /\ listening' = TRUE /\ listenQueued' = FALSE
        /\ UNCHANGED <<startVars, poolVars, connVars>>
    BY <1>8 DEF RunListen
  <2>2. Types' BY <1>a, <2>1 DEF Types
  <2>3. OneStarter' BY <1>a, <2>1 DEF OneStarter
  <2>4. PoolFilled' BY <1>a, <2>1 DEF PoolFilled, Complete
  <2>5. Assigned' BY <1>a, <2>1 DEF Assigned
  <2> QED BY <2>2, <2>3, <2>4, <2>5 DEF StartInv
<1>9. CASE Accept
  <2>1. /\ listening /\ backlog > 0 /\ backlog' = backlog - 1 /\ next_' = NextAfter
        /\ UNCHANGED <<startVars, loops_, worker, inited, loopVars, arrived, ended>>
    BY <1>9 DEF Accept
  <2>2. CASE loops_ = 0
    <3>1. up' = [up EXCEPT ![Base] = @ + 1] /\ establishing' = establishing /\ next_' = 0
      BY <1>9, <2>2 DEF Accept, NextLoop, NextAfter
    <3>2. Types' BY <1>a, <1>b, <2>1, <3>1 DEF Types
    <3>3. OneStarter' BY <1>a, <2>1 DEF OneStarter
    <3>4. PoolFilled' BY <1>a, <2>1 DEF PoolFilled, Complete
    <3>5. Assigned' BY <1>a, <1>b, <2>1, <2>2, <3>1 DEF Types, Assigned
    <3> QED BY <3>2, <3>3, <3>4, <3>5 DEF StartInv
  <2>3. CASE loops_ # 0
    <3>1. next_ + 1 \in 1..loops_ /\ next_ + 1 \in IoLoops /\ next_ + 1 # Base
      BY <1>a, <2>3 DEF Types, Assigned, PoolFilled, IoLoops
    <3>2. /\ establishing' = [establishing EXCEPT ![next_ + 1] = @ + 1] /\ up' = up
          /\ next_' \in Nat /\ next_' < loops_
      BY <1>9, <1>a, <2>3, <3>1 DEF Accept, NextLoop, NextAfter, Types
    <3>3. Types' BY <1>a, <2>1, <3>1, <3>2 DEF Types
    <3>4. OneStarter' BY <1>a, <2>1 DEF OneStarter
    <3>5. PoolFilled' BY <1>a, <2>1 DEF PoolFilled, Complete
    <3>6. Assigned' BY <1>a, <2>1, <2>3, <3>1, <3>2 DEF Types, Assigned
    <3> QED BY <3>3, <3>4, <3>5, <3>6 DEF StartInv
  <2> QED BY <2>2, <2>3
<1>10. CASE AcceptFails
  <2>1. UNCHANGED <<startVars, poolVars, loopVars, connVars>>
    BY <1>10 DEF AcceptFails
  <2> QED BY <1>a, <2>1 DEF StartInv, Types, OneStarter, PoolFilled, Complete, Assigned
<1>11. ASSUME NEW i \in IoLoops, Establish(i) PROVE StartInv'
  <2>1. /\ establishing[i] > 0 /\ establishing' = [establishing EXCEPT ![i] = @ - 1]
        /\ up' = [up EXCEPT ![i] = @ + 1]
        /\ UNCHANGED <<startVars, poolVars, loopVars, backlog, free, arrived, ended>>
    BY <1>11 DEF Establish
  <2>2. i \in Loops /\ listening /\ i \in 1..loops_
    BY <1>a, <2>1 DEF Assigned, Loops
  <2>3. Types' BY <1>a, <2>1, <2>2 DEF Types
  <2>4. OneStarter' BY <1>a, <2>1 DEF OneStarter
  <2>5. PoolFilled' BY <1>a, <2>1 DEF PoolFilled, Complete
  <2>6. Assigned' BY <1>a, <2>1, <2>2 DEF Types, Assigned
  <2> QED BY <2>3, <2>4, <2>5, <2>6 DEF StartInv
<1>12. ASSUME NEW l \in Loops, ConnectionEnds(l) PROVE StartInv'
  <2>1. /\ up[l] > 0 /\ up' = [up EXCEPT ![l] = @ - 1]
        /\ UNCHANGED <<startVars, poolVars, loopVars, backlog, establishing, arrived, ended>>
    BY <1>12 DEF ConnectionEnds
  <2>2. Types' BY <1>a, <2>1 DEF Types
  <2>3. OneStarter' BY <1>a, <2>1 DEF OneStarter
  <2>4. PoolFilled' BY <1>a, <2>1 DEF PoolFilled, Complete
  <2>5. Assigned' BY <1>a, <2>1 DEF Types, Assigned
  <2> QED BY <2>2, <2>3, <2>4, <2>5 DEF StartInv
<1>13. CASE ClientArrives
  <2>1. /\ listening /\ backlog' = backlog + 1
        /\ UNCHANGED <<startVars, poolVars, loopVars, free, establishing, up, ended>>
    BY <1>13 DEF ClientArrives
  <2>2. Types' BY <1>a, <2>1 DEF Types
  <2>3. OneStarter' BY <1>a, <2>1 DEF OneStarter
  <2>4. PoolFilled' BY <1>a, <2>1 DEF PoolFilled, Complete
  <2>5. Assigned' BY <1>a, <2>1 DEF Assigned
  <2> QED BY <2>2, <2>3, <2>4, <2>5 DEF StartInv
<1>14. CASE UNCHANGED vars
  BY <1>a, <1>14 DEF vars, StartInv, Types, OneStarter, PoolFilled, Complete, Assigned
<1> QED BY <1>1, <1>2, <1>3, <1>4, <1>5, <1>6, <1>7, <1>8, <1>9, <1>10, <1>11, <1>12,
           <1>13, <1>14 DEF Next, CallerStep

(* No client reaches a loop that threadInitCallback_ was not called for,   *)
(* nor a pool that start() is still filling, for any number of loops,      *)
(* callers of start() and clients.                                         *)
THEOREM ClientsFindLoopsReady == Spec => []InitBeforeUse
<1>1. StartInv => InitBeforeUse
  <2> SUFFICES ASSUME StartInv, NEW l \in Loops,
                      up[l] + (IF l = Base THEN 0 ELSE establishing[l]) > 0
               PROVE  l \in inited /\ loops_ = numThreads_
    BY DEF InitBeforeUse
  <2> USE StartAssumption DEF StartInv, Types, PoolFilled, Assigned, Complete
  <2>1. CASE l = Base
    <3>1. up[l] > 0
      BY <2>1
    <3>2. listening /\ (l \in 1..loops_ \/ loops_ = 0)
      BY <3>1
    <3>3. l \notin 1..loops_
      BY <2>1
    <3> QED BY <2>1, <3>2, <3>3
  <2>2. CASE l # Base
    <3>1. l \in IoLoops
      BY <2>2 DEF Loops
    <3>2. up[l] > 0 \/ establishing[l] > 0
      BY <2>2, <3>1
    <3>3. listening /\ l \in 1..loops_
      BY <2>2, <3>1, <3>2
    <3> QED BY <3>1, <3>3
  <2> QED BY <2>1, <2>2
<1> QED BY <1>1, StartInvInit, StartInvStep, PTL DEF Spec
=============================================================================
