-------------------------- MODULE TimerQueueProofs ---------------------------
(***************************************************************************)
(* For any number of addresses and timers and any delays: the sets of      *)
(* TimerQueue describe the same live timers, no timer is lost, one that is *)
(* cancelled once its add has run is gone, and the timerfd is set for the  *)
(* earliest one.                                                           *)
(***************************************************************************)
EXTENDS TimerQueue, SequenceTheorems, WellFoundedInduction, TLAPS

-----------------------------------------------------------------------------
(* The inductive invariant.                                                *)

(* Sequence numbers identify timers.                                       *)
SequencesUnique ==
    /\ \A a \in Addrs : Live(a) => heap[a].seq <= created
    /\ \A a, b \in Addrs : Live(a) /\ Live(b) /\ heap[a].seq = heap[b].seq => a = b
    /\ cancelled \subseteq 1..created

(* A timer whose addTimerInLoop is queued exists and is in no set; it is   *)
(* queued once.                                                            *)
AddWaits(f) ==
    f.op = "add" => /\ Live(f.id[1]) /\ Key(f.id[1]) = f.id
                    /\ f.id[1] \notin timers_ \cup expired

AddsOnce(q) ==
    \A i, j \in 1..Len(q) :
        q[i].op = "add" /\ q[j].op = "add" /\ q[i].id[1] = q[j].id[1] => i = j

QueuedAdds == AddsOnce(queue) /\ \A i \in 1..Len(queue) : AddWaits(queue[i])

(* handleRead has timers in hand only while it runs, and what it has       *)
(* called has run.                                                         *)
BatchInOrder ==
    /\ pc = "idle" => expired = {}
    /\ \A a \in expired \ todo : heap[a].seq \in ran

(* A cancelled timer that still exists is one that handleRead has in hand  *)
(* and that reset will not put back.                                       *)
CancelNoted ==
    \A a \in Addrs : Live(a) /\ heap[a].seq \in cancelled =>
        a \in expired /\ Key(a) \in cancelingTimers_

(* ArmedForEarliest, timer by timer.                                       *)
ArmedForEach ==
    pc = "idle" =>
        \A a \in timers_ :
            \/ readable
            \/ armed > 0 /\ (steps > 0 \/ armed = 1 \/ armed <= due[a])

Inv ==
    /\ TypeOK /\ SetsAgree /\ SequencesUnique /\ QueuedAdds /\ BatchInOrder
    /\ CancelNoted /\ NoTimerLost /\ ArmedForEach

(* All of it but what is about the queue.                                  *)
SetsInv ==
    SetsAgree /\ SequencesUnique /\ BatchInOrder /\ CancelNoted /\ NoTimerLost /\ ArmedForEach

-----------------------------------------------------------------------------
(* Numbers.                                                                *)

(* The assumptions on the constants, in the form the steps use.            *)
LEMMA Bounds ==
    /\ MaxDelay \in Nat /\ MaxDelay > 0 /\ MaxTimers \in Nat /\ MaxTimers > 0
    /\ MaxSteps \in Nat /\ None \notin Addrs /\ None \notin Timer
BY TimerAssumption DEF Timer, Seqs

(* Min of a set of naturals is its least element.                          *)
LEMMA LeastNatural ==
    ASSUME NEW T \in SUBSET Nat, T # {}
    PROVE  Min(T) \in T /\ \A m \in T : Min(T) <= m
<1>1. \E n \in T : \A m \in T : ~(<<m, n>> \in OpToRel(<, Nat))
  BY NatLessThanWellFounded, WFMin
<1>2. ASSUME NEW m \in Nat, NEW n \in Nat, m < n
      PROVE  <<m, n>> \in OpToRel(<, Nat)
  BY <1>2, Zenon DEF OpToRel
<1>3. PICK n \in T : \A m \in T : ~(<<m, n>> \in OpToRel(<, Nat))
  BY <1>1
<1>4. \A m \in T : ~(m < n)
  BY <1>2, <1>3
<1>5. \E x \in T : \A y \in T : x =< y
  BY <1>4
<1> QED BY <1>5 DEF Min

(* Max of two naturals.                                                    *)
LEMMA MaxOfTwo ==
    ASSUME NEW m \in Nat, NEW n \in Nat
    PROVE  Max({m, n}) = IF m >= n THEN m ELSE n
BY DEF Max

(* resetTimerfd arms for one tick at least, and clears the old expiry.     *)
LEMMA RearmFacts ==
    ASSUME NEW ticks \in 0..MaxDelay, Rearm(ticks)
    PROVE  /\ armed' \in 0..MaxDelay
           /\ readable' = FALSE /\ readable' \in BOOLEAN
           /\ armed' = IF ticks >= 1 THEN ticks ELSE 1
<1>1. armed' = IF ticks >= 1 THEN ticks ELSE 1
  BY MaxOfTwo, Bounds DEF Rearm
<1>2. armed' \in 0..MaxDelay
  BY <1>1, Bounds
<1>3. readable' = FALSE
  BY DEF Rearm
<1> QED BY <1>1, <1>2, <1>3

-----------------------------------------------------------------------------
(* The types.                                                              *)

(* Every step keeps the types.                                             *)
LEMMA TypesKept == TypeOK /\ SetsAgree /\ [Next]_vars => TypeOK'
<1> SUFFICES ASSUME TypeOK, SetsAgree, [Next]_vars PROVE TypeOK'
  OBVIOUS
<1> USE Bounds DEF TypeOK, timerVars, batchVars, fdVars, callVars, histVars
<1>n. ASSUME NEW a \in Addrs, NEW d \in 0..MaxDelay, NEW every \in {0, MaxDelay},
             NewTimer(a, d, every)
      PROVE  /\ created' \in 0..MaxTimers /\ created + 1 \in Seqs
             /\ <<a, created + 1>> \in Id
             /\ heap' \in [Addrs -> Timer \cup {None}] /\ due' \in [Addrs -> 0..MaxDelay]
  <2>1. created' \in 0..MaxTimers /\ created + 1 \in Seqs
    BY <1>n DEF NewTimer, Seqs
  <2>2. [seq |-> created + 1, every |-> every] \in Timer
    BY <2>1 DEF Timer
  <2>3. <<a, created + 1>> \in Id
    BY <2>1 DEF Id, Seqs
  <2> QED BY <1>n, <2>1, <2>2, <2>3 DEF NewTimer
<1>a. ASSUME NEW a \in Addrs, NEW s, <<a, s>> \in Id, NEW d \in 0..MaxDelay,
             AddTimerInLoop(a, s, d)
      PROVE  /\ timers_' \subseteq Addrs /\ activeTimers_' \subseteq Id
             /\ armed' \in 0..MaxDelay /\ readable' \in BOOLEAN
  <2>1. timers_' \subseteq Addrs /\ activeTimers_' \subseteq Id
    BY <1>a DEF AddTimerInLoop
  <2>2. CASE Rearm(d)
    BY <2>1, <2>2, RearmFacts
  <2>3. CASE UNCHANGED fdVars
    BY <2>1, <2>3
  <2> QED BY <1>a, <2>2, <2>3 DEF AddTimerInLoop
<1>c. ASSUME NEW id \in Id, CancelInLoop(id)
      PROVE  /\ timers_' \subseteq Addrs /\ activeTimers_' \subseteq Id
             /\ cancelingTimers_' \subseteq Id /\ cancelled' \subseteq Seqs
             /\ heap' \in [Addrs -> Timer \cup {None}]
  <2>1. id[1] \in Addrs
    BY DEF Id
  <2>2. Live(id[1]) => heap[id[1]].seq \in Seqs
    BY <2>1 DEF Live, Timer
  <2>3. cancelled' \subseteq Seqs
    <3>1. Names(id) => id[2] \in Seqs
      BY <2>2 DEF Names
    <3> QED BY <1>c, <3>1 DEF CancelInLoop
  <2> QED BY <1>c, <2>1, <2>3 DEF CancelInLoop, NoteCanceling
<1>1. CASE RunFunctor
  <2>1. Head(queue) \in Functor /\ queue' \in Seq(Functor)
    BY <1>1, HeadTailProperties DEF RunFunctor
  <2>2. Head(queue).id \in Id /\ Head(queue).id[1] \in Addrs
        /\ Head(queue).id = <<Head(queue).id[1], Head(queue).id[2]>>
    BY <2>1 DEF Functor, Id
  <2>3. CASE AddTimerInLoop(Head(queue).id[1], Head(queue).id[2], due[Head(queue).id[1]])
             /\ UNCHANGED <<heap, cancelingTimers_, cancelled>>
    <3>1. due[Head(queue).id[1]] \in 0..MaxDelay
      BY <2>2
    <3>2. /\ timers_' \subseteq Addrs /\ activeTimers_' \subseteq Id
          /\ armed' \in 0..MaxDelay /\ readable' \in BOOLEAN
      <4> DEFINE id == Head(queue).id
      <4>1. id[1] \in Addrs /\ <<id[1], id[2]>> \in Id /\ due[id[1]] \in 0..MaxDelay
        BY <2>2, <3>1
      <4>2. AddTimerInLoop(id[1], id[2], due[id[1]])
        BY <2>3
      <4> HIDE DEF id
      <4> QED BY <1>a, <4>1, <4>2
    <3> QED BY <1>1, <2>1, <2>3, <3>2 DEF RunFunctor
  <2>4. CASE CancelInLoop(Head(queue).id) /\ UNCHANGED fdVars
    <3>1. /\ timers_' \subseteq Addrs /\ activeTimers_' \subseteq Id
          /\ cancelingTimers_' \subseteq Id /\ cancelled' \subseteq Seqs
          /\ heap' \in [Addrs -> Timer \cup {None}]
      BY <1>c, <2>2, <2>4
    <3> QED BY <1>1, <2>1, <2>4, <3>1 DEF RunFunctor
  <2>5. \/ /\ AddTimerInLoop(Head(queue).id[1], Head(queue).id[2], due[Head(queue).id[1]])
           /\ UNCHANGED <<heap, cancelingTimers_, cancelled>>
        \/ CancelInLoop(Head(queue).id) /\ UNCHANGED fdVars
    BY <1>1 DEF RunFunctor
  <2> QED BY <2>3, <2>4, <2>5
<1>2. CASE BeginExpired
  <2>1. expired' \subseteq Addrs /\ todo' = expired' /\ timers_' \subseteq Addrs
    BY <1>2 DEF BeginExpired, Expired
  <2>2. activeTimers_' \subseteq Id
    BY <1>2 DEF BeginExpired, ActiveWithout
  <2>3. elapsed' \in 0..MaxDelay
    BY <1>2 DEF BeginExpired
  <2>4. readable' \in BOOLEAN /\ reported' \in BOOLEAN /\ cancelingTimers_' \subseteq Id
    BY <1>2 DEF BeginExpired
  <2> QED BY <1>2, <2>1, <2>2, <2>3, <2>4 DEF BeginExpired
<1>3. ASSUME NEW a \in Addrs, RunTimer(a) PROVE TypeOK'
  <2>1. ran' \in SUBSET Seqs
    BY <1>3 DEF RunTimer, SetsAgree, Live, Timer
  <2> QED BY <1>3, <2>1 DEF RunTimer
<1>4. CASE EndCallback
  BY <1>4 DEF EndCallback
<1>5. CASE Reset
  <2> DEFINE again == {a \in expired : Restarts(a)}
  <2>1. timers_' \subseteq Addrs /\ heap' \in [Addrs -> Timer \cup {None}]
    BY <1>5 DEF Reset
  <2>2. \A a \in expired : Live(a) /\ heap[a] \in Timer
    BY DEF SetsAgree, Live
  <2>3. {Key(a) : a \in again} \subseteq Id
    BY <2>2 DEF Key, Timer, Seqs, Id
  <2>4. \A a \in again : Restarted(a) \in 0..MaxDelay
    BY <2>2 DEF Restarted, Timer
  <2>5. due' \in [Addrs -> 0..MaxDelay]
    BY <1>5, <2>4 DEF Reset
  <2>6. armed' \in 0..MaxDelay /\ readable' \in BOOLEAN
    <3>1. CASE timers_' # {}
      <4>1. {due'[a] : a \in timers_'} \subseteq 0..MaxDelay /\ {due'[a] : a \in timers_'} # {}
        BY <2>1, <2>5, <3>1
      <4>2. Min({due'[a] : a \in timers_'}) \in 0..MaxDelay
        <5> DEFINE times == {due'[a] : a \in timers_'}
        <5>1. times \in SUBSET Nat /\ times # {} /\ times \subseteq 0..MaxDelay
          BY <4>1
        <5> HIDE DEF times
        <5>2. Min(times) \in times
          BY <5>1, LeastNatural
        <5>3. Min(times) \in 0..MaxDelay
          BY <5>1, <5>2
        <5> QED BY <5>3 DEF times
      <4>3. Rearm(Min({due'[a] : a \in timers_'}))
        BY <1>5, <3>1 DEF Reset
      <4> QED BY <4>2, <4>3, RearmFacts
    <3>2. CASE timers_' = {}
      BY <1>5, <3>2 DEF Reset
    <3> QED BY <3>1, <3>2
  <2>7. activeTimers_' \subseteq Id
    BY <1>5, <2>3 DEF Reset
  <2>8. expired' = {} /\ todo' = {} /\ pc' = "idle"
        /\ UNCHANGED <<cancelingTimers_, elapsed, callVars, reported, steps, histVars>>
    BY <1>5 DEF Reset
  <2> QED BY <2>1, <2>5, <2>6, <2>7, <2>8
<1>6. ASSUME NEW a \in Addrs, NEW d \in 0..MaxDelay, NEW every \in {0, MaxDelay},
             LoopAdds(a, d, every)
      PROVE  TypeOK'
  <2>1. /\ created' \in 0..MaxTimers /\ <<a, created + 1>> \in Id
        /\ heap' \in [Addrs -> Timer \cup {None}] /\ due' \in [Addrs -> 0..MaxDelay]
    BY <1>6, <1>n DEF LoopAdds
  <2>2. /\ timers_' \subseteq Addrs /\ activeTimers_' \subseteq Id
        /\ armed' \in 0..MaxDelay /\ readable' \in BOOLEAN
    BY <1>6, <1>a, <2>1 DEF LoopAdds
  <2> QED BY <1>6, <2>1, <2>2 DEF LoopAdds
<1>7. ASSUME NEW a \in Addrs, NEW d \in 0..MaxDelay, NEW every \in {0, MaxDelay},
             OutsiderAdds(a, d, every)
      PROVE  TypeOK'
  <2>1. [op |-> "add", id |-> <<a, created + 1>>] \in Functor
    BY <1>7, <1>n DEF OutsiderAdds, Functor
  <2>2. queue' \in Seq(Functor)
    BY <1>7, <2>1, AppendProperties DEF OutsiderAdds
  <2> QED BY <1>7, <1>n, <2>2 DEF OutsiderAdds
<1>8. ASSUME NEW id \in ids, LoopCancels(id) PROVE TypeOK'
  BY <1>8, <1>c DEF LoopCancels
<1>9. ASSUME NEW id \in ids, OutsiderCancels(id) PROVE TypeOK'
  <2>1. [op |-> "cancel", id |-> id] \in Functor
    BY DEF Functor
  <2>2. queue' \in Seq(Functor)
    BY <1>9, <2>1, AppendProperties DEF OutsiderCancels
  <2> QED BY <1>9, <2>2 DEF OutsiderCancels
<1>10. ASSUME NEW seq \in 0..MaxTimers, OutsiderGetsId(seq) PROVE TypeOK'
  <2>1. <<acall, seq>> \in Id /\ ids' = ids \cup {<<acall, seq>>}
    BY <1>10 DEF OutsiderGetsId, Id
  <2> QED BY <1>10, <2>1 DEF OutsiderGetsId
<1>d. \A n \in 0..MaxDelay : Down(n) \in 0..MaxDelay /\ Up(n) \in 0..MaxDelay
  BY DEF Down, Up
<1>w. WallClockTick => due' \in [Addrs -> 0..MaxDelay] /\ elapsed' \in 0..MaxDelay
  <2>1. 0 \in 0..MaxDelay
    OBVIOUS
  <2>2. \A a \in Addrs : Down(due[a]) \in 0..MaxDelay
    BY <1>d
  <2>3. WallClockTick => due' \in [Addrs -> 0..MaxDelay]
    BY <2>2 DEF WallClockTick
  <2>4. WallClockTick => elapsed' = 0 \/ elapsed' = Up(elapsed)
    BY DEF WallClockTick
  <2> QED BY <1>d, <2>1, <2>3, <2>4
<1>11. CASE Tick
  <2>1. armed' \in 0..MaxDelay /\ readable' \in BOOLEAN
    BY <1>d, <1>11 DEF Tick
  <2> QED BY <1>w, <1>11, <2>1 DEF Tick, TimeUnchanged
<1>12. CASE StepForward
  <2>1. steps' \in 0..MaxSteps
    BY <1>12 DEF StepForward
  <2> QED BY <1>w, <1>12, <2>1 DEF StepForward, TimeUnchanged
<1>13. CASE StepBack
  <2>1. due' \in [Addrs -> 0..MaxDelay]
    BY <1>13 DEF StepBack
  <2>2. steps' \in 0..MaxSteps /\ elapsed' \in 0..MaxDelay
    BY <1>d, <1>13 DEF StepBack
  <2> QED BY <1>13, <2>1, <2>2 DEF StepBack, TimeUnchanged
<1>14. CASE UNCHANGED vars
  BY <1>14 DEF vars
<1>p. CASE PollReports
  BY <1>p DEF PollReports
<1> HIDE DEF TypeOK
<1>15. CASE HandleReadStep
  BY <1>3, <1>4, <1>5, <1>15 DEF HandleReadStep
<1>16. CASE UserStep
  BY <1>6, <1>7, <1>8, <1>9, <1>10, <1>16 DEF UserStep, AddStep
<1> QED BY <1>1, <1>2, <1>11, <1>12, <1>13, <1>14, <1>15, <1>16, <1>p DEF Next

-----------------------------------------------------------------------------
(* The queue of functors.                                                  *)

(* Taking the first functor leaves every address queued for an add once.   *)
LEMMA PopAdds ==
    ASSUME NEW q \in Seq(Functor), q # <<>>, AddsOnce(q)
    PROVE  /\ AddsOnce(Tail(q))
           /\ Head(q) = q[1] /\ 1 \in 1..Len(q)
           /\ \A i \in 1..Len(Tail(q)) : i + 1 \in 1..Len(q) /\ Tail(q)[i] = q[i + 1]
           /\ Head(q).op = "add" => \A i \in 1..Len(Tail(q)) :
                  Tail(q)[i].op = "add" => Tail(q)[i].id[1] # Head(q).id[1]
<1>1. /\ Len(Tail(q)) = Len(q) - 1 /\ Len(q) \in Nat /\ Len(q) > 0
      /\ \A i \in 1..Len(Tail(q)) : Tail(q)[i] = q[i + 1]
  BY HeadTailProperties, EmptySeq
<1>2. \A i \in 1..Len(Tail(q)) : i + 1 \in 1..Len(q) /\ i + 1 # 1
  BY <1>1
<1>3. AddsOnce(Tail(q))
  BY <1>1, <1>2 DEF AddsOnce
<1>4. Head(q) = q[1] /\ 1 \in 1..Len(q)
  BY <1>1
<1>5. ASSUME NEW i \in 1..Len(Tail(q)), Head(q).op = "add", Tail(q)[i].op = "add"
      PROVE  Tail(q)[i].id[1] # Head(q).id[1]
  BY <1>1, <1>2, <1>4, <1>5 DEF AddsOnce
<1> QED BY <1>1, <1>2, <1>3, <1>4, <1>5

(* So does queueing a functor that adds another address.                   *)
LEMMA PushAdds ==
    ASSUME NEW q \in Seq(Functor), NEW f \in Functor, AddsOnce(q),
           \A i \in 1..Len(q) : f.op = "add" /\ q[i].op = "add" => q[i].id[1] # f.id[1]
    PROVE  AddsOnce(Append(q, f))
<1>1. /\ Len(Append(q, f)) = Len(q) + 1 /\ Len(q) \in Nat
      /\ \A i \in 1..Len(q) : Append(q, f)[i] = q[i]
      /\ Append(q, f)[Len(q) + 1] = f
  BY AppendProperties, LenProperties
<1> DEFINE r == Append(q, f)
<1> HIDE DEF r
<1>2. ASSUME NEW i \in 1..(Len(q) + 1), NEW j \in 1..(Len(q) + 1),
             r[i].op = "add", r[j].op = "add", r[i].id[1] = r[j].id[1]
      PROVE  i = j
  <2>1. CASE i = Len(q) + 1 /\ j = Len(q) + 1
    BY <2>1
  <2>2. CASE i = Len(q) + 1 /\ j \in 1..Len(q)
    BY <1>1, <1>2, <2>2 DEF r
  <2>3. CASE i \in 1..Len(q) /\ j = Len(q) + 1
    BY <1>1, <1>2, <2>3 DEF r
  <2>4. CASE i \in 1..Len(q) /\ j \in 1..Len(q)
    BY <1>1, <1>2, <2>4 DEF r, AddsOnce
  <2> QED BY <1>1, <2>1, <2>2, <2>3, <2>4
<1> QED BY <1>1, <1>2 DEF AddsOnce, r

(* What waits goes on waiting: with the queue as it was, and with f added. *)
LEMMA SameAdds ==
    ASSUME TypeOK, QueuedAdds, UNCHANGED queue,
           \A g \in Functor : AddWaits(g) /\ (\E i \in 1..Len(queue) : queue[i] = g) => AddWaits(g)'
    PROVE  QueuedAdds'
<1>1. \A i \in 1..Len(queue) : queue[i] \in Functor
  BY ElementOfSeq DEF TypeOK
<1>2. ASSUME NEW i \in 1..Len(queue) PROVE AddWaits(queue[i])'
  <2>1. PICK g \in Functor : g = queue[i]
    BY <1>1
  <2>2. AddWaits(g)'
    BY <2>1 DEF QueuedAdds
  <2> QED BY <2>1, <2>2
<1> QED BY <1>2 DEF QueuedAdds

(* A functor queued by the other thread keeps the queued timers out of the *)
(* sets.                                                                   *)
LEMMA AppendAdds ==
    ASSUME TypeOK, QueuedAdds, NEW f \in Functor, queue' = Append(queue, f), AddWaits(f)',
           \A i \in 1..Len(queue) : f.op = "add" /\ queue[i].op = "add" => queue[i].id[1] # f.id[1],
           \A g \in Functor : AddWaits(g) /\ (\E i \in 1..Len(queue) : queue[i] = g) => AddWaits(g)'
    PROVE  QueuedAdds'
<1>1. \A i \in 1..Len(queue) : queue[i] \in Functor
  BY ElementOfSeq DEF TypeOK
<1>2. AddsOnce(queue')
  BY PushAdds DEF TypeOK, QueuedAdds
<1>3. /\ Len(queue') = Len(queue) + 1 /\ Len(queue) \in Nat
      /\ \A i \in 1..Len(queue) : queue'[i] = queue[i]
      /\ queue'[Len(queue) + 1] = f
  BY AppendProperties, LenProperties DEF TypeOK
<1>4. ASSUME NEW i \in 1..Len(queue') PROVE AddWaits(queue[i])'
  <2>1. CASE i = Len(queue) + 1
    BY <1>3, <2>1
  <2>2. CASE i \in 1..Len(queue)
    <3>1. PICK g \in Functor : g = queue[i]
      BY <1>1, <2>2
    <3>2. AddWaits(g)'
      BY <2>2, <3>1 DEF QueuedAdds
    <3> QED BY <1>3, <2>2, <3>1, <3>2
  <2> QED BY <1>3, <2>1, <2>2
<1> QED BY <1>2, <1>4 DEF QueuedAdds

(* So does running the first functor.                                      *)
LEMMA TailAdds ==
    ASSUME TypeOK, QueuedAdds, queue # <<>>, queue' = Tail(queue),
           \A g \in Functor : AddWaits(g)
                /\ (\E i \in 1..Len(Tail(queue)) : Tail(queue)[i] = g) => AddWaits(g)'
    PROVE  QueuedAdds'
<1>1. \A i \in 1..Len(queue) : queue[i] \in Functor
  BY ElementOfSeq DEF TypeOK
<1>2. /\ AddsOnce(Tail(queue))
      /\ \A i \in 1..Len(Tail(queue)) : i + 1 \in 1..Len(queue) /\ Tail(queue)[i] = queue[i + 1]
  BY PopAdds DEF TypeOK, QueuedAdds
<1>3. ASSUME NEW i \in 1..Len(queue') PROVE AddWaits(queue[i])'
  <2>1. PICK g \in Functor : g = queue[i + 1]
    BY <1>1, <1>2
  <2>2. AddWaits(g)
    BY <1>2, <2>1 DEF QueuedAdds
  <2>3. AddWaits(g)'
    BY <1>2, <2>1, <2>2
  <2> QED BY <1>2, <2>1, <2>3
<1> QED BY <1>2, <1>3 DEF QueuedAdds

-----------------------------------------------------------------------------
(* addTimerInLoop leaves the timerfd set for the earliest timer.           *)
LEMMA AddArms ==
    ASSUME TypeOK, ArmedForEach, NEW a \in Addrs, NEW s, NEW d \in 0..MaxDelay,
           AddTimerInLoop(a, s, d), due'[a] = d, \A b \in timers_ : due'[b] = due[b],
           UNCHANGED <<pc, steps>>
    PROVE  ArmedForEach'
<1> SUFFICES ASSUME pc = "idle", NEW b \in timers_ \cup {a}
             PROVE  \/ readable'
                    \/ armed' > 0 /\ (steps > 0 \/ armed' = 1 \/ armed' <= due'[b])
  BY DEF ArmedForEach, AddTimerInLoop
<1>1. \A e \in timers_ : due[e] \in Nat
  BY DEF TypeOK
<1>2. CASE EarliestChanged(a, d)
  <2>1. armed' = IF d >= 1 THEN d ELSE 1
    BY <1>2, RearmFacts DEF AddTimerInLoop
  <2>2. b # a => d < due'[b]
    BY <1>2 DEF EarliestChanged
  <2> QED BY <1>1, <2>1, <2>2
<1>3. CASE ~EarliestChanged(a, d)
  <2>1. UNCHANGED fdVars
    BY <1>3 DEF AddTimerInLoop
  <2>2. PICK e \in timers_ : ~(d < due[e])
    BY <1>3 DEF EarliestChanged
  <2>3. armed \in Nat
    BY DEF TypeOK
  <2>4. CASE b = a
    BY <1>1, <2>1, <2>2, <2>3, <2>4 DEF ArmedForEach, fdVars
  <2>5. CASE b # a
    BY <2>1, <2>5 DEF ArmedForEach, fdVars
  <2> QED BY <2>4, <2>5
<1> QED BY <1>2, <1>3

-----------------------------------------------------------------------------
(* cancelInLoop, of whatever TimerId.                                      *)
LEMMA CancelKeeps ==
    ASSUME TypeOK, SetsInv, NEW id \in Id, CancelInLoop(id),
           UNCHANGED <<due, expired, todo, pc, armed, readable, steps, created, ran>>
    PROVE  /\ SetsInv'
           /\ \A f \in Functor : AddWaits(f) => AddWaits(f)'
<1> USE DEF SetsInv
<1>1. CASE Found(id)
  <2>1. PICK a \in timers_ : id = Key(a)
    BY <1>1 DEF Found, SetsAgree
  <2>2. /\ a \in Addrs /\ id[1] = a /\ id[2] = heap[a].seq /\ Live(a) /\ a \notin expired
        /\ heap[a].seq \in 1..created
    BY <2>1 DEF Key, SetsAgree, TypeOK, SequencesUnique, Live, Timer, Seqs
  <2>3. /\ timers_' = timers_ \ {a} /\ activeTimers_' = activeTimers_ \ {Key(a)}
        /\ heap' = [heap EXCEPT ![a] = None] /\ UNCHANGED cancelingTimers_
        /\ cancelled' = cancelled \cup {heap[a].seq}
    BY <1>1, <2>2 DEF CancelInLoop, Names
  <2>4. /\ ~Live(a)'
        /\ \A b \in Addrs : b # a => heap'[b] = heap[b] /\ Key(b)' = Key(b) /\ Live(b)' = Live(b)
    BY <2>2, <2>3 DEF TypeOK, Live, Key
  <2>5. SetsAgree'
    <3>1. \A b \in timers_ : b # a => Key(b) # Key(a)
      BY DEF Key
    <3>2. activeTimers_' = {Key(b) : b \in timers_'}
      BY <2>3, <3>1 DEF SetsAgree
    <3>3. \A b \in timers_' : b \in Addrs /\ b # a
      BY <2>3 DEF TypeOK
    <3>4. {Key(b) : b \in timers_'} = {Key(b)' : b \in timers_'}
      BY <2>4, <3>3
    <3>5. (\A b \in timers_ \cup expired : Live(b))' /\ timers_' \cap expired' = {}
      BY <2>2, <2>3, <2>4 DEF SetsAgree, TypeOK
    <3> QED BY <3>2, <3>4, <3>5 DEF SetsAgree
  <2>6. SequencesUnique'
    <3>1. cancelled' \subseteq 1..created'
      BY <2>2, <2>3 DEF SequencesUnique
    <3>2. (\A b \in Addrs : Live(b) => heap[b].seq <= created)'
      BY <2>4 DEF SequencesUnique
    <3>3. (\A b, e \in Addrs : Live(b) /\ Live(e) /\ heap[b].seq = heap[e].seq => b = e)'
      BY <2>4 DEF SequencesUnique
    <3> QED BY <3>1, <3>2, <3>3 DEF SequencesUnique
  <2>7. BatchInOrder'
    BY <2>2, <2>4 DEF BatchInOrder, TypeOK
  <2>8. CancelNoted'
    <3> SUFFICES ASSUME NEW b \in Addrs, Live(b)', heap'[b].seq \in cancelled'
                 PROVE  b \in expired' /\ Key(b)' \in cancelingTimers_'
      BY DEF CancelNoted
    <3>1. b # a /\ Live(b) /\ heap[b].seq \in cancelled'
      BY <2>4
    <3>2. heap[b].seq # heap[a].seq
      BY <2>2, <3>1 DEF SequencesUnique
    <3>3. heap[b].seq \in cancelled
      BY <2>3, <3>1, <3>2
    <3> QED BY <2>3, <2>4, <3>1, <3>3 DEF CancelNoted
  <2>9. NoTimerLost'
    <3> SUFFICES ASSUME NEW t \in 1..created
                 PROVE  t \in cancelled' \/ (\E b \in Addrs : Live(b) /\ heap[b].seq = t)' \/ t \in ran
      BY DEF NoTimerLost
    <3>1. t = heap[a].seq => t \in cancelled'
      BY <2>3
    <3>2. t # heap[a].seq /\ t \notin cancelled' /\ t \notin ran
             => \E b \in Addrs : b # a /\ Live(b) /\ heap[b].seq = t
      BY <2>3 DEF NoTimerLost
    <3> QED BY <2>4, <3>1, <3>2
  <2>10. ArmedForEach'
    BY <2>3 DEF ArmedForEach
  <2>11. ASSUME NEW f \in Functor, AddWaits(f) PROVE AddWaits(f)'
    <3>1. f.id[1] \in Addrs
      BY DEF Functor, Id
    <3> QED BY <2>1, <2>3, <2>4, <2>11, <3>1 DEF AddWaits
  <2> QED BY <2>5, <2>6, <2>7, <2>8, <2>9, <2>10, <2>11
<1>2. CASE ~Found(id)
  <2>1. /\ UNCHANGED <<timers_, activeTimers_, heap>>
        /\ cancelingTimers_' = IF pc # "idle" THEN cancelingTimers_ \cup {id} ELSE cancelingTimers_
    BY <1>2 DEF CancelInLoop, NoteCanceling
  <2>2. \A b : Live(b)' = Live(b) /\ Key(b)' = Key(b)
    BY <2>1 DEF Live, Key
  <2>3. \/ cancelled' = cancelled
        \/ /\ id[1] \in expired /\ Live(id[1]) /\ heap[id[1]].seq = id[2]
           /\ cancelled' = cancelled \cup {id[2]}
    <3>1. id[1] \in timers_ /\ heap[id[1]].seq = id[2] => FALSE
      BY <1>2 DEF Found, SetsAgree, Key, Id
    <3> QED BY <3>1 DEF CancelInLoop, Names
  <2>4. id[1] \in Addrs /\ id = <<id[1], id[2]>>
    BY DEF Id
  <2>5. SetsAgree'
    BY <2>1, <2>2 DEF SetsAgree
  <2>6. SequencesUnique'
    <3>1. Live(id[1]) => heap[id[1]].seq \in 1..created
      BY <2>4 DEF SequencesUnique, Live, TypeOK, Timer, Seqs
    <3> QED BY <2>1, <2>2, <2>3, <3>1 DEF SequencesUnique
  <2>7. BatchInOrder' /\ NoTimerLost' /\ ArmedForEach'
    BY <2>1, <2>2, <2>3 DEF BatchInOrder, NoTimerLost, ArmedForEach
  <2>8. CancelNoted'
    <3> SUFFICES ASSUME NEW b \in Addrs, Live(b), heap[b].seq \in cancelled'
                 PROVE  b \in expired /\ Key(b) \in cancelingTimers_'
      BY <2>1, <2>2 DEF CancelNoted
    <3>1. CASE heap[b].seq \in cancelled
      BY <2>1, <3>1 DEF CancelNoted
    <3>2. CASE heap[b].seq \notin cancelled
      <4>1. id[1] \in expired /\ Live(id[1]) /\ heap[id[1]].seq = id[2] /\ heap[b].seq = id[2]
        BY <2>3, <3>2
      <4>2. b = id[1]
        BY <2>4, <4>1 DEF SequencesUnique
      <4>3. pc # "idle"
        BY <4>1 DEF BatchInOrder
      <4>4. Key(b) = id
        BY <2>4, <4>1, <4>2 DEF Key
      <4> QED BY <2>1, <4>1, <4>2, <4>3, <4>4
    <3> QED BY <3>1, <3>2
  <2>9. \A f \in Functor : AddWaits(f) => AddWaits(f)'
    BY <2>1, <2>2 DEF AddWaits
  <2> QED BY <2>5, <2>6, <2>7, <2>8, <2>9
<1> QED BY <1>1, <1>2

-----------------------------------------------------------------------------
(* new Timer takes an address that no set, vector or queued functor names. *)
LEMMA NewTimerKeeps ==
    ASSUME Inv, NEW a \in Addrs, NEW d \in 0..MaxDelay, NEW every \in {0, MaxDelay},
           NewTimer(a, d, every),
           UNCHANGED <<expired, todo, pc, cancelingTimers_, ran, cancelled>>
    PROVE  /\ a \notin timers_ \cup expired
           /\ Live(a)' /\ Key(a)' = <<a, created + 1>> /\ due'[a] = d
           /\ \A b \in Addrs : b # a => /\ heap'[b] = heap[b] /\ due'[b] = due[b]
                                        /\ Live(b)' = Live(b) /\ Key(b)' = Key(b)
           /\ \A i \in 1..Len(queue) : queue[i].op = "add" => queue[i].id[1] # a
           /\ SequencesUnique' /\ BatchInOrder' /\ CancelNoted' /\ NoTimerLost'
<1> USE DEF Inv
<1>1. ~Live(a) /\ created' = created + 1 /\ created \in Nat
  BY Bounds DEF NewTimer, TypeOK
<1>2. a \notin timers_ \cup expired
  BY <1>1 DEF SetsAgree
<1>3. heap'[a] = [seq |-> created + 1, every |-> every] /\ due'[a] = d
  BY DEF NewTimer, TypeOK
<1>4. [seq |-> created + 1, every |-> every] \in Timer
  BY <1>1, Bounds DEF NewTimer, Timer, Seqs, TypeOK
<1>5. Live(a)' /\ Key(a)' = <<a, created + 1>> /\ heap'[a].seq = created + 1
  BY <1>3, <1>4, Bounds DEF Live, Key
<1>6. \A b \in Addrs : b # a => heap'[b] = heap[b] /\ due'[b] = due[b]
  BY DEF NewTimer, TypeOK
<1>7. \A b \in Addrs : b # a => Live(b)' = Live(b) /\ Key(b)' = Key(b)
  BY <1>6 DEF Live, Key
<1>8. \A i \in 1..Len(queue) : queue[i].op = "add" => queue[i].id[1] # a
  BY <1>1 DEF QueuedAdds, AddWaits
<1>9. \A b \in Addrs : Live(b) => heap[b].seq \in 1..created
  BY DEF TypeOK, SequencesUnique, Live, Timer, Seqs
<1>10. SequencesUnique'
  <2>1. (\A b \in Addrs : Live(b) => heap[b].seq <= created)'
    BY <1>1, <1>5, <1>6, <1>7, <1>9
  <2>2. ASSUME NEW b \in Addrs, NEW e \in Addrs, Live(b)', Live(e)', heap'[b].seq = heap'[e].seq
        PROVE  b = e
    BY <1>1, <1>5, <1>6, <1>7, <1>9, <2>2 DEF SequencesUnique
  <2>3. cancelled' \subseteq 1..created'
    BY <1>1 DEF SequencesUnique
  <2> QED BY <2>1, <2>2, <2>3 DEF SequencesUnique
<1>11. BatchInOrder'
  BY <1>2, <1>6 DEF BatchInOrder, TypeOK
<1>12. CancelNoted'
  <2> SUFFICES ASSUME NEW b \in Addrs, Live(b)', heap'[b].seq \in cancelled
               PROVE  b \in expired /\ Key(b)' \in cancelingTimers_
    BY DEF CancelNoted
  <2>1. b # a
    BY <1>1, <1>5 DEF SequencesUnique
  <2> QED BY <1>6, <1>7, <2>1 DEF CancelNoted
<1>13. NoTimerLost'
  <2> SUFFICES ASSUME NEW t \in 1..(created + 1)
               PROVE  t \in cancelled \/ (\E b \in Addrs : Live(b)' /\ heap'[b].seq = t) \/ t \in ran
    BY <1>1 DEF NoTimerLost
  <2>1. CASE t = created + 1
    BY <1>5, <2>1
  <2>2. CASE t \in 1..created
    BY <1>1, <1>6, <1>7, <2>2 DEF NoTimerLost
  <2> QED BY <1>1, <2>1, <2>2
<1> QED BY <1>2, <1>3, <1>5, <1>6, <1>7, <1>8, <1>10, <1>11, <1>12, <1>13

(* addTimer in the loop keeps the invariant.                               *)
LEMMA LoopAddsKeeps ==
    ASSUME Inv, NEW a \in Addrs, NEW d \in 0..MaxDelay, NEW every \in {0, MaxDelay},
           LoopAdds(a, d, every), TypeOK'
    PROVE  Inv'
<1> USE DEF Inv
<1>1. /\ NewTimer(a, d, every) /\ AddTimerInLoop(a, created + 1, d)
      /\ UNCHANGED <<expired, todo, pc, cancelingTimers_, ran, cancelled, queue, steps>>
  BY DEF LoopAdds, batchVars, histVars
<1>2. /\ a \notin timers_ \cup expired
      /\ Live(a)' /\ Key(a)' = <<a, created + 1>> /\ due'[a] = d
      /\ \A b \in Addrs : b # a => /\ heap'[b] = heap[b] /\ due'[b] = due[b]
                                   /\ Live(b)' = Live(b) /\ Key(b)' = Key(b)
      /\ \A i \in 1..Len(queue) : queue[i].op = "add" => queue[i].id[1] # a
      /\ SequencesUnique' /\ BatchInOrder' /\ CancelNoted' /\ NoTimerLost'
  BY <1>1, NewTimerKeeps
<1>3. timers_' = timers_ \cup {a} /\ activeTimers_' = activeTimers_ \cup {<<a, created + 1>>}
  BY <1>1 DEF AddTimerInLoop
<1>4. SetsAgree'
  <2>2. \A b \in timers_ : Key(b)' = Key(b)
    BY <1>2 DEF TypeOK
  <2>1. {Key(b)' : b \in timers_'} = {Key(b) : b \in timers_} \cup {<<a, created + 1>>}
    BY <1>2, <1>3, <2>2
  <2> QED BY <1>1, <1>2, <1>3, <2>1, SMTT(30) DEF SetsAgree, TypeOK
<1>5. ArmedForEach'
  BY <1>1, <1>2, AddArms DEF TypeOK
<1>6. QueuedAdds'
  <2>1. ASSUME NEW g \in Functor, AddWaits(g), \E i \in 1..Len(queue) : queue[i] = g
        PROVE  AddWaits(g)'
    <3>1. g.id[1] \in Addrs
      BY DEF Functor, Id
    <3> QED BY <1>1, <1>2, <1>3, <2>1, <3>1 DEF AddWaits
  <2> QED BY <1>1, <2>1, SameAdds
<1> QED BY <1>2, <1>4, <1>5, <1>6

(* addTimer of another thread keeps the invariant.                         *)
LEMMA OutsiderAddsKeeps ==
    ASSUME Inv, NEW a \in Addrs, NEW d \in 0..MaxDelay, NEW every \in {0, MaxDelay},
           OutsiderAdds(a, d, every), TypeOK'
    PROVE  Inv'
<1> USE DEF Inv
<1> PICK f : f = [op |-> "add", id |-> <<a, created + 1>>]
  OBVIOUS
<1>1. /\ NewTimer(a, d, every) /\ queue' = Append(queue, f)
      /\ UNCHANGED <<expired, todo, pc, cancelingTimers_, ran, cancelled, timers_, activeTimers_,
                     armed, readable, steps>>
  BY DEF OutsiderAdds, batchVars, histVars, fdVars
<1>2. /\ a \notin timers_ \cup expired
      /\ Live(a)' /\ Key(a)' = <<a, created + 1>> /\ due'[a] = d
      /\ \A b \in Addrs : b # a => /\ heap'[b] = heap[b] /\ due'[b] = due[b]
                                   /\ Live(b)' = Live(b) /\ Key(b)' = Key(b)
      /\ \A i \in 1..Len(queue) : queue[i].op = "add" => queue[i].id[1] # a
      /\ SequencesUnique' /\ BatchInOrder' /\ CancelNoted' /\ NoTimerLost'
  BY <1>1, NewTimerKeeps
<1>3. SetsAgree'
  <2>1. {Key(b)' : b \in timers_'} = {Key(b) : b \in timers_}
    BY <1>1, <1>2, SMTT(30) DEF TypeOK
  <2> QED BY <1>1, <1>2, <2>1 DEF SetsAgree, TypeOK
<1>4. ArmedForEach'
  BY <1>1, <1>2 DEF ArmedForEach, TypeOK
<1>5. f \in Functor
  <2>1. created + 1 \in 0..MaxTimers
    BY <1>1, Bounds DEF NewTimer, TypeOK
  <2> QED BY <2>1 DEF Functor, Id
<1>6. AddWaits(f)'
  BY <1>1, <1>2 DEF AddWaits
<1>7. ASSUME NEW g \in Functor, AddWaits(g), \E i \in 1..Len(queue) : queue[i] = g
      PROVE  AddWaits(g)'
  <2>1. g.id[1] \in Addrs
    BY DEF Functor, Id
  <2> QED BY <1>1, <1>2, <1>7, <2>1 DEF AddWaits
<1>8. QueuedAdds'
  BY <1>1, <1>2, <1>5, <1>6, <1>7, AppendAdds
<1> QED BY <1>2, <1>3, <1>4, <1>8

-----------------------------------------------------------------------------
(* The functors, and the calls of cancel.                                  *)

(* addTimerInLoop and cancelInLoop as functors keep the invariant.         *)
LEMMA RunFunctorKeeps ==
    ASSUME Inv, RunFunctor, TypeOK'
    PROVE  Inv'
<1> USE DEF Inv
<1>1. PICK f : f = Head(queue)
  OBVIOUS
<1>2. /\ pc = "idle" /\ queue # <<>> /\ queue' = Tail(queue)
      /\ UNCHANGED <<due, expired, todo, pc, steps, created, ran>>
  BY DEF RunFunctor
<1>3. /\ f = queue[1] /\ 1 \in 1..Len(queue)
      /\ f.op = "add" => \A i \in 1..Len(Tail(queue)) :
              Tail(queue)[i].op = "add" => Tail(queue)[i].id[1] # f.id[1]
  BY <1>1, <1>2, PopAdds DEF TypeOK, QueuedAdds
<1>4. f \in Functor /\ AddWaits(f)
  BY <1>3, ElementOfSeq DEF TypeOK, QueuedAdds
<1>5. f.id \in Id /\ f.id[1] \in Addrs /\ f.id = <<f.id[1], f.id[2]>>
  BY <1>4 DEF Functor, Id
<1>6. CASE /\ f.op = "add"
           /\ AddTimerInLoop(f.id[1], f.id[2], due[f.id[1]])
           /\ UNCHANGED <<heap, cancelingTimers_, cancelled>>
  <2> PICK a : a = f.id[1]
    OBVIOUS
  <2>1. /\ Live(a) /\ Key(a) = f.id /\ a \notin timers_ \cup expired /\ a \in Addrs
        /\ due[a] \in 0..MaxDelay
    BY <1>4, <1>5, <1>6 DEF AddWaits, TypeOK
  <2>2. timers_' = timers_ \cup {a} /\ activeTimers_' = activeTimers_ \cup {Key(a)}
    BY <1>5, <1>6, <2>1 DEF AddTimerInLoop
  <2>3. \A b : Live(b)' = Live(b) /\ Key(b)' = Key(b)
    BY <1>6 DEF Live, Key
  <2>4. SetsAgree'
    <3>1. {Key(b)' : b \in timers_'} = {Key(b) : b \in timers_} \cup {Key(a)}
      BY <2>2, <2>3
    <3> QED BY <1>2, <2>1, <2>2, <2>3, <3>1 DEF SetsAgree
  <2>5. SequencesUnique' /\ BatchInOrder' /\ NoTimerLost'
    BY <1>2, <1>6, <2>3 DEF SequencesUnique, BatchInOrder, NoTimerLost
  <2>6. CancelNoted'
    BY <1>2, <1>6, <2>3 DEF CancelNoted
  <2>7. ArmedForEach'
    BY <1>2, <1>6, <2>1, AddArms
  <2>8. ASSUME NEW g \in Functor, AddWaits(g),
               \E i \in 1..Len(Tail(queue)) : Tail(queue)[i] = g
        PROVE  AddWaits(g)'
    <3>1. g.op = "add" => g.id[1] # a
      BY <1>3, <1>6, <2>8
    <3> QED BY <1>2, <2>2, <2>3, <2>8, <3>1 DEF AddWaits
  <2>9. QueuedAdds'
    BY <1>2, <2>8, TailAdds
  <2> QED BY <2>4, <2>5, <2>6, <2>7, <2>9
<1>7. CASE CancelInLoop(f.id) /\ UNCHANGED fdVars
  <2>1. SetsInv' /\ \A g \in Functor : AddWaits(g) => AddWaits(g)'
    BY <1>2, <1>5, <1>7, CancelKeeps DEF SetsInv, fdVars
  <2>2. QueuedAdds'
    BY <1>2, <2>1, TailAdds
  <2> QED BY <2>1, <2>2 DEF SetsInv
<1> QED BY <1>1, <1>6, <1>7 DEF RunFunctor

(* cancel in the loop, in a callback too, keeps the invariant.             *)
LEMMA LoopCancelsKeeps ==
    ASSUME Inv, NEW id \in ids, LoopCancels(id), TypeOK'
    PROVE  Inv'
<1> USE DEF Inv
<1>1. id \in Id /\ CancelInLoop(id)
      /\ UNCHANGED <<due, expired, todo, pc, armed, readable, steps, created, ran, queue>>
  BY DEF TypeOK, LoopCancels, fdVars, callVars
<1>2. SetsInv' /\ \A g \in Functor : AddWaits(g) => AddWaits(g)'
  BY <1>1, CancelKeeps DEF SetsInv
<1>3. QueuedAdds'
  BY <1>1, <1>2, SameAdds
<1> QED BY <1>2, <1>3 DEF SetsInv

(* Steps that leave the timers and handleRead's state alone.               *)
LEMMA OthersKeep ==
    ASSUME SetsInv, UNCHANGED <<timerVars, batchVars, fdVars, created, steps, histVars>>
    PROVE  /\ SetsInv'
           /\ \A g \in Functor : AddWaits(g) => AddWaits(g)'
<1>1. /\ UNCHANGED <<heap, due, timers_, activeTimers_, cancelingTimers_, expired, todo, pc>>
      /\ UNCHANGED <<armed, readable, created, steps, ran, cancelled>>
  BY DEF timerVars, batchVars, fdVars, histVars
<1>2. \A b : Live(b)' = Live(b) /\ Key(b)' = Key(b)
  BY <1>1 DEF Live, Key
<1>3. SetsAgree' /\ SequencesUnique'
  BY <1>1, <1>2 DEF SetsInv, SetsAgree, SequencesUnique
<1>4. BatchInOrder' /\ CancelNoted' /\ NoTimerLost' /\ ArmedForEach'
  BY <1>1, <1>2 DEF SetsInv, BatchInOrder, CancelNoted, NoTimerLost, ArmedForEach
<1>5. \A g \in Functor : AddWaits(g) => AddWaits(g)'
  BY <1>1, <1>2 DEF AddWaits
<1> QED BY <1>3, <1>4, <1>5 DEF SetsInv

(* cancel of another thread keeps the invariant.                           *)
LEMMA OutsiderCancelsKeeps ==
    ASSUME Inv, NEW id \in ids, OutsiderCancels(id), TypeOK'
    PROVE  Inv'
<1> USE DEF Inv
<1> PICK f : f = [op |-> "cancel", id |-> id]
  OBVIOUS
<1>1. f \in Functor /\ f.op # "add"
  BY DEF TypeOK, Functor
<1>2. queue' = Append(queue, f)
      /\ UNCHANGED <<timerVars, batchVars, fdVars, created, steps, histVars>>
  BY DEF OutsiderCancels
<1>3. SetsInv' /\ \A g \in Functor : AddWaits(g) => AddWaits(g)'
  BY <1>2, OthersKeep DEF SetsInv
<1>4. AddWaits(f)'
  BY <1>1 DEF AddWaits
<1>5. QueuedAdds'
  BY <1>1, <1>2, <1>3, <1>4, AppendAdds
<1> QED BY <1>3, <1>5 DEF SetsInv

-----------------------------------------------------------------------------
(* handleRead.                                                             *)

(* getExpired keeps the invariant.                                         *)
LEMMA BeginExpiredKeeps ==
    ASSUME Inv, BeginExpired, TypeOK'
    PROVE  Inv'
<1> USE DEF Inv
<1>1. /\ pc = "idle" /\ pc' = "calling"
      /\ expired' = {a \in timers_ : due[a] = 0} /\ todo' = expired'
      /\ timers_' = timers_ \ expired'
      /\ activeTimers_' = activeTimers_ \ {Key(a) : a \in expired'}
      /\ UNCHANGED <<heap, due, queue, created, steps, ran, cancelled>>
  BY DEF BeginExpired, Expired, ActiveWithout, callVars, histVars
<1>2. expired = {} /\ expired' \subseteq timers_
  BY <1>1 DEF BatchInOrder
<1>3. \A b : Live(b)' = Live(b) /\ Key(b)' = Key(b)
  BY <1>1 DEF Live, Key
<1>4. SetsAgree'
  <2>1. \A b, e \in timers_ : Key(b) = Key(e) => b = e
    BY DEF Key
  <2>2. activeTimers_' = {Key(a) : a \in timers_'}
    BY <1>1, <1>2, <2>1 DEF SetsAgree
  <2> QED BY <1>1, <1>2, <1>3, <2>2 DEF SetsAgree
<1>5. SequencesUnique' /\ BatchInOrder' /\ NoTimerLost' /\ ArmedForEach'
  BY <1>1, <1>3 DEF SequencesUnique, BatchInOrder, NoTimerLost, ArmedForEach
<1>6. CancelNoted'
  BY <1>1, <1>2, <1>3 DEF CancelNoted
<1>7. ASSUME NEW g \in Functor, AddWaits(g) PROVE AddWaits(g)'
  BY <1>1, <1>2, <1>3, <1>7 DEF AddWaits
<1>8. QueuedAdds'
  BY <1>1, <1>7, SameAdds
<1> QED BY <1>4, <1>5, <1>6, <1>8

(* The callback of an expired timer keeps the invariant.                   *)
LEMMA RunTimerKeeps ==
    ASSUME Inv, NEW a \in Addrs, RunTimer(a), TypeOK'
    PROVE  Inv'
<1> USE DEF Inv
<1>1. /\ pc = "calling" /\ pc' = "callback" /\ a \in todo
      /\ todo' = todo \ {a} /\ ran' = ran \cup {heap[a].seq}
      /\ UNCHANGED <<heap, due, timers_, activeTimers_, cancelingTimers_, expired, queue>>
      /\ UNCHANGED <<created, steps, cancelled>>
  BY DEF RunTimer, timerVars, callVars
<1>2. \A b : Live(b)' = Live(b) /\ Key(b)' = Key(b)
  BY <1>1 DEF Live, Key
<1>3. SetsAgree' /\ SequencesUnique' /\ CancelNoted' /\ ArmedForEach'
  BY <1>1, <1>2 DEF SetsAgree, SequencesUnique, CancelNoted, ArmedForEach
<1>4. BatchInOrder' /\ NoTimerLost'
  BY <1>1, <1>2 DEF BatchInOrder, NoTimerLost
<1>5. \A g \in Functor : AddWaits(g) => AddWaits(g)'
  BY <1>1, <1>2 DEF AddWaits
<1>6. QueuedAdds'
  BY <1>1, <1>5, SameAdds
<1> QED BY <1>3, <1>4, <1>6

(* The end of the last callback, with reset, keeps the invariant.          *)
LEMMA EndCallbackKeeps ==
    ASSUME Inv, EndCallback, TypeOK'
    PROVE  Inv'
<1> USE DEF Inv
<1>1. /\ pc = "callback" /\ pc' = "calling"
      /\ UNCHANGED <<heap, due, timers_, activeTimers_, cancelingTimers_, expired, todo, queue>>
      /\ UNCHANGED <<created, steps, ran, cancelled>>
  BY DEF EndCallback, timerVars, callVars, histVars
<1>2. \A b : Live(b)' = Live(b) /\ Key(b)' = Key(b)
  BY <1>1 DEF Live, Key
<1>3. SetsAgree' /\ SequencesUnique' /\ CancelNoted' /\ ArmedForEach'
  BY <1>1, <1>2 DEF SetsAgree, SequencesUnique, CancelNoted, ArmedForEach
<1>4. BatchInOrder' /\ NoTimerLost'
  BY <1>1, <1>2 DEF BatchInOrder, NoTimerLost
<1>5. \A g \in Functor : AddWaits(g) => AddWaits(g)'
  BY <1>1, <1>2 DEF AddWaits
<1>6. QueuedAdds'
  BY <1>1, <1>5, SameAdds
<1> QED BY <1>3, <1>4, <1>6

(* The batch is over: what goes back was not cancelled, what is deleted    *)
(* has run, and the timerfd is set for the least of the expirations.       *)
LEMMA ResetKeeps ==
    ASSUME Inv, Reset, TypeOK'
    PROVE  Inv'
<1> USE DEF Inv
<1> DEFINE again == {a \in expired : Restarts(a)}
<1>1. /\ pc = "calling" /\ todo = {} /\ pc' = "idle" /\ expired' = {} /\ todo' = {}
      /\ timers_' = timers_ \cup again
      /\ activeTimers_' = activeTimers_ \cup {Key(a) : a \in again}
      /\ heap' = [a \in Addrs |-> IF a \in expired \ again THEN None ELSE heap[a]]
      /\ UNCHANGED <<cancelingTimers_, queue, created, steps, ran, cancelled>>
  BY DEF Reset, callVars, histVars
<1>2. again \subseteq expired /\ expired \subseteq Addrs /\ timers_ \subseteq Addrs
  BY DEF TypeOK
<1>3. \A a \in again : Key(a) \notin cancelingTimers_
  BY DEF Restarts
<1> HIDE DEF again
<1>4. /\ \A a \in expired \ again : ~Live(a)'
      /\ \A a \in Addrs : a \notin expired \ again =>
            heap'[a] = heap[a] /\ Live(a)' = Live(a) /\ Key(a)' = Key(a)
  BY <1>1, <1>2 DEF Live, Key
<1>5. \A a \in Addrs : Live(a)' => Live(a) /\ heap'[a] = heap[a] /\ Key(a)' = Key(a)
                                     /\ a \notin expired \ again
  BY <1>4
<1>6. SetsAgree'
  <2>1. \A a \in timers_' : a \in Addrs /\ Live(a)' /\ Key(a)' = Key(a)
    BY <1>1, <1>2, <1>4 DEF SetsAgree
  <2>2. {Key(a)' : a \in timers_'} = {Key(a) : a \in timers_} \cup {Key(a) : a \in again}
    BY <1>1, <2>1
  <2> QED BY <1>1, <2>1, <2>2 DEF SetsAgree
<1>7. SequencesUnique'
  <2>1. (\A a \in Addrs : Live(a) => heap[a].seq <= created)'
    BY <1>1, <1>5 DEF SequencesUnique
  <2>2. (\A a, b \in Addrs : Live(a) /\ Live(b) /\ heap[a].seq = heap[b].seq => a = b)'
    BY <1>5 DEF SequencesUnique
  <2> QED BY <1>1, <2>1, <2>2 DEF SequencesUnique
<1>8. BatchInOrder'
  BY <1>1 DEF BatchInOrder
<1>9. CancelNoted'
  <2> SUFFICES ASSUME NEW a \in Addrs, Live(a)', heap'[a].seq \in cancelled'
               PROVE  FALSE
    BY DEF CancelNoted
  <2>1. a \in expired /\ Key(a) \in cancelingTimers_
    BY <1>1, <1>5 DEF CancelNoted
  <2>2. a \in again
    BY <1>5, <2>1
  <2> QED BY <1>3, <2>1, <2>2
<1>10. NoTimerLost'
  <2> SUFFICES ASSUME NEW t \in 1..created, t \notin cancelled, t \notin ran
               PROVE  \E a \in Addrs : Live(a)' /\ heap'[a].seq = t
    BY <1>1 DEF NoTimerLost
  <2>1. PICK a \in Addrs : Live(a) /\ heap[a].seq = t
    BY DEF NoTimerLost
  <2>2. a \notin expired
    BY <1>1, <2>1 DEF BatchInOrder
  <2> QED BY <1>4, <2>1, <2>2
<1>11. ArmedForEach'
  <2> SUFFICES ASSUME NEW a \in timers_'
               PROVE  armed' > 0 /\ (armed' = 1 \/ armed' <= due'[a])
    BY DEF ArmedForEach
  <2> DEFINE times == {due'[b] : b \in timers_'}
  <2>1. times \in SUBSET (0..MaxDelay) /\ due'[a] \in times
    BY <1>1, <1>2 DEF TypeOK
  <2>2. Rearm(Min(times))
    BY DEF Reset
  <2> HIDE DEF times
  <2>3. times \in SUBSET Nat /\ times # {}
    BY <2>1, Bounds
  <2>4. Min(times) \in times /\ Min(times) <= due'[a]
    BY <2>1, <2>3, LeastNatural
  <2>5. Min(times) \in 0..MaxDelay
    BY <2>1, <2>4
  <2>6. armed' = IF Min(times) >= 1 THEN Min(times) ELSE 1
    BY <2>2, <2>5, RearmFacts
  <2>7. due'[a] \in 0..MaxDelay
    BY <2>1
  <2>8. due'[a] \in Nat /\ Min(times) \in Nat
    BY <2>5, <2>7, Bounds
  <2> QED BY <2>4, <2>6, <2>8
<1>12. ASSUME NEW g \in Functor, AddWaits(g) PROVE AddWaits(g)'
  <2>1. g.id[1] \in Addrs
    BY DEF Functor, Id
  <2> QED BY <1>1, <1>2, <1>4, <1>12, <2>1 DEF AddWaits
<1>13. QueuedAdds'
  BY <1>1, <1>12, SameAdds
<1> QED BY <1>6, <1>7, <1>8, <1>9, <1>10, <1>11, <1>13

-----------------------------------------------------------------------------
(* Time.                                                                   *)

(* Only the timerfd's part of the invariant is about times.                *)
LEMMA TimeKeeps ==
    ASSUME Inv, TimeUnchanged, ArmedForEach', TypeOK'
    PROVE  Inv'
<1> USE DEF Inv
<1>1. UNCHANGED <<heap, timers_, activeTimers_, cancelingTimers_, expired, todo, pc, queue, created,
                  ran, cancelled>>
  BY DEF TimeUnchanged, callVars, histVars
<1>2. \A b : Live(b)' = Live(b) /\ Key(b)' = Key(b)
  BY <1>1 DEF Live, Key
<1>3. SetsAgree' /\ SequencesUnique' /\ CancelNoted'
  BY <1>1, <1>2 DEF SetsAgree, SequencesUnique, CancelNoted
<1>4. BatchInOrder' /\ NoTimerLost'
  BY <1>1, <1>2 DEF BatchInOrder, NoTimerLost
<1>5. \A g \in Functor : AddWaits(g) => AddWaits(g)'
  BY <1>1, <1>2 DEF AddWaits
<1>6. QueuedAdds'
  BY <1>1, <1>5, SameAdds
<1> QED BY <1>3, <1>4, <1>6

(* A tick takes one from the timerfd and at most one from every timer; a   *)
(* step of the wall clock leaves the timerfd armed.                        *)
LEMMA TimePassesKeeps ==
    ASSUME Inv, Tick \/ StepForward \/ StepBack, TypeOK'
    PROVE  Inv'
<1>1. UNCHANGED <<timers_, pc>> /\ TimeUnchanged
  BY DEF Tick, StepForward, StepBack, TimeUnchanged
<1>2. CASE Tick
  <2> SUFFICES ASSUME pc = "idle", NEW a \in timers_, ~readable'
               PROVE  armed' > 0 /\ (steps > 0 \/ armed' = 1 \/ armed' <= due'[a])
    <3>1. ArmedForEach'
      BY <1>1, <1>2 DEF ArmedForEach, Tick
    <3> QED BY <1>1, <3>1, TimeKeeps
  <2>1. a \in Addrs /\ due[a] \in Nat /\ armed \in Nat /\ steps \in Nat
    BY Bounds DEF Inv, TypeOK
  <2>2. ~readable /\ armed # 1 /\ armed' = Down(armed) /\ due'[a] = Down(due[a])
    BY <1>2, <2>1 DEF Tick, WallClockTick
  <2>3. armed > 0 /\ (steps > 0 \/ armed = 1 \/ armed <= due[a])
    BY <2>2 DEF Inv, ArmedForEach
  <2> QED BY <2>1, <2>2, <2>3 DEF Down
<1>3. CASE StepForward \/ StepBack
  <2>1. steps' = steps + 1 /\ UNCHANGED <<armed, readable>> /\ steps \in Nat
    BY <1>3, Bounds DEF StepForward, StepBack, fdVars, Inv, TypeOK
  <2>2. steps' > 0
    BY <2>1
  <2>3. ArmedForEach'
    BY <1>1, <2>1, <2>2 DEF Inv, ArmedForEach
  <2> QED BY <1>1, <2>3, TimeKeeps
<1> QED BY <1>2, <1>3

-----------------------------------------------------------------------------
(* A new TimerQueue has no timers.                                         *)
LEMMA InvInit == Init => Inv
<1> SUFFICES ASSUME Init PROVE Inv
  OBVIOUS
<1> USE Bounds DEF Init
<1>1. TypeOK
  <2>1. heap \in [Addrs -> Timer \cup {None}] /\ due \in [Addrs -> 0..MaxDelay]
    OBVIOUS
  <2>2. elapsed \in 0..MaxDelay /\ armed \in 0..MaxDelay /\ created \in 0..MaxTimers
        /\ steps \in 0..MaxSteps
    OBVIOUS
  <2>3. queue \in Seq(Functor)
    OBVIOUS
  <2>4. readable \in BOOLEAN /\ reported \in BOOLEAN
    OBVIOUS
  <2> QED BY <2>1, <2>2, <2>3, <2>4 DEF TypeOK
<1>2. SetsAgree /\ SequencesUnique /\ BatchInOrder
  BY DEF SetsAgree, SequencesUnique, BatchInOrder, Live
<1>3. QueuedAdds /\ CancelNoted /\ NoTimerLost /\ ArmedForEach
  BY DEF QueuedAdds, AddsOnce, CancelNoted, NoTimerLost, ArmedForEach, Live
<1> QED BY <1>1, <1>2, <1>3 DEF Inv

(* Every step keeps the invariant.                                         *)
LEMMA InvStep == Inv /\ [Next]_vars => Inv'
<1> SUFFICES ASSUME Inv, [Next]_vars PROVE Inv'
  OBVIOUS
<1>t. TypeOK'
  BY TypesKept DEF Inv
<1>1. CASE RunFunctor
  BY <1>1, <1>t, RunFunctorKeeps
<1>2. CASE BeginExpired
  BY <1>2, <1>t, BeginExpiredKeeps
<1>3. CASE HandleReadStep
  BY <1>3, <1>t, RunTimerKeeps, EndCallbackKeeps, ResetKeeps DEF HandleReadStep
<1>4. CASE \E a \in Addrs, d \in 0..MaxDelay, every \in {0, MaxDelay} :
             LoopAdds(a, d, every) \/ OutsiderAdds(a, d, every)
  BY <1>4, <1>t, LoopAddsKeeps, OutsiderAddsKeeps
<1>5. CASE \E id \in ids : LoopCancels(id) \/ OutsiderCancels(id)
  BY <1>5, <1>t, LoopCancelsKeeps, OutsiderCancelsKeeps
<1>6. ASSUME UNCHANGED <<timerVars, batchVars, fdVars, queue, created, steps, histVars>>
      PROVE  Inv'
  <2>1. SetsInv' /\ \A g \in Functor : AddWaits(g) => AddWaits(g)'
    BY <1>6, OthersKeep DEF Inv, SetsInv
  <2>2. QueuedAdds'
    BY <1>6, <2>1, SameAdds DEF Inv
  <2> QED BY <1>t, <2>1, <2>2 DEF Inv, SetsInv
<1>7. CASE \E seq \in 0..MaxTimers : OutsiderGetsId(seq)
  BY <1>6, <1>7 DEF OutsiderGetsId
<1>8. CASE Tick \/ StepForward \/ StepBack
  BY <1>8, <1>t, TimePassesKeeps
<1>9. CASE UNCHANGED vars
  BY <1>6, <1>9 DEF vars, callVars
<1>10. CASE PollReports
  BY <1>6, <1>10 DEF PollReports, callVars
<1> QED BY <1>1, <1>2, <1>3, <1>4, <1>5, <1>7, <1>8, <1>9, <1>10 DEF Next, UserStep, AddStep

(* The invariant holds in every state.                                     *)
LEMMA InvHolds == Spec => []Inv
BY InvInit, InvStep, PTL DEF Spec

-----------------------------------------------------------------------------
(* The results.                                                            *)

(* timers_ and activeTimers_ of TimerQueue describe the same live timers,  *)
(* and what handleRead has in hand is live and in neither: no timer is     *)
(* freed twice or used after it was freed.                                 *)
THEOREM TimerSetsAgree == Spec => []SetsAgree
<1>1. Inv => SetsAgree
  BY DEF Inv
<1> QED BY <1>1, InvHolds, PTL

(* A timer exists until it has run or was cancelled, however addresses are *)
(* reused and whatever stale TimerIds are cancelled.                       *)
THEOREM TimersNotLost == Spec => []NoTimerLost
<1>1. Inv => NoTimerLost
  BY DEF Inv
<1> QED BY <1>1, InvHolds, PTL

(* Outside handleRead no timer exists that was cancelled after its         *)
(* addTimerInLoop had run: cancelInLoop deletes it, or notes it in         *)
(* cancelingTimers_ and reset deletes it. A cancel that comes before that  *)
(* is lost (MCTimerQueue), and the theorem does not speak of it.           *)
THEOREM CancelsStick == Spec => []CancelAfterAddSticks
<1>1. Inv => CancelAfterAddSticks
  BY DEF Inv, CancelNoted, BatchInOrder, CancelAfterAddSticks
<1> QED BY <1>1, InvHolds, PTL

(* While a timer waits the timerfd is armed or has expired; until the wall *)
(* clock first steps it is armed for no later than the earliest timer.     *)
THEOREM TimerfdArmed == Spec => []ArmedForEarliest
<1>1. ASSUME Inv PROVE ArmedForEarliest
  <2> SUFFICES ASSUME pc = "idle", timers_ # {}, ~readable
               PROVE  /\ armed > 0
                      /\ steps > 0 \/ armed <= Max({1, Min({due[a] : a \in timers_})})
    BY DEF ArmedForEarliest
  <2> DEFINE times == {due[a] : a \in timers_}
  <2>1. times \in SUBSET Nat /\ times # {}
    BY <1>1, Bounds DEF Inv, TypeOK
  <2>2. \A a \in timers_ : armed > 0 /\ (steps > 0 \/ armed = 1 \/ armed <= due[a])
    BY <1>1 DEF Inv, ArmedForEach
  <2>3. Min(times) \in times
    <3> HIDE DEF times
    <3> QED BY <2>1, LeastNatural
  <2>4. PICK a \in timers_ : Min(times) = due[a]
    BY <2>3
  <2>5. Min(times) \in Nat /\ armed \in Nat
    BY <1>1, <2>1, <2>3, Bounds DEF Inv, TypeOK
  <2> HIDE DEF times
  <2>6. Max({1, Min(times)}) = IF 1 >= Min(times) THEN 1 ELSE Min(times)
    BY <2>5, MaxOfTwo
  <2>7. armed > 0 /\ (steps > 0 \/ armed <= Max({1, Min(times)}))
    BY <2>2, <2>4, <2>5, <2>6
  <2> QED BY <2>7 DEF times
<1> QED BY <1>1, InvHolds, PTL
=============================================================================
