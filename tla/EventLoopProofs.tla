--------------------------- MODULE EventLoopProofs ---------------------------
(***************************************************************************)
(* For any number of functors, threads and channels: EventLoop keeps its   *)
(* types, never blocks over work it was handed, and implements TaskQueue;  *)
(* an EventLoopThread runs such a loop, and outlives every use of it that  *)
(* ends by its own destructor.                                             *)
(***************************************************************************)
EXTENDS EventLoopThread, SequenceTheorems, TLAPS

-----------------------------------------------------------------------------
(* Facts about sequences.                                                  *)

(* What is in a queue after queueInLoop.                                   *)
LEMMA ElementsAppend ==
    ASSUME NEW S, NEW s \in Seq(S), NEW f \in S
    PROVE  Elements(Append(s, f)) = Elements(s) \cup {f}
BY DEF Elements

(* What is in the pending functors and the swapped-out ones together.      *)
LEMMA ElementsConcat ==
    ASSUME NEW S, NEW s \in Seq(S), NEW t \in Seq(S)
    PROVE  Elements(s \o t) = Elements(s) \cup Elements(t)
<1>1. Elements(s \o t) \subseteq Elements(s) \cup Elements(t)
  <2> SUFFICES ASSUME NEW i \in 1..Len(s \o t)
               PROVE  (s \o t)[i] \in Elements(s) \cup Elements(t)
    BY DEF Elements
  <2>1. CASE i <= Len(s)
    BY <2>1, ConcatProperties DEF Elements
  <2>2. CASE i > Len(s)
    <3>1. i - Len(s) \in 1..Len(t) /\ (s \o t)[i] = t[i - Len(s)]
      BY <2>2, ConcatProperties
    <3> QED BY <3>1 DEF Elements
  <2> QED BY <2>1, <2>2, ConcatProperties
<1>2. ASSUME NEW i \in 1..Len(s) PROVE s[i] \in Elements(s \o t)
  BY ConcatProperties DEF Elements
<1>3. ASSUME NEW i \in 1..Len(t) PROVE t[i] \in Elements(s \o t)
  <2>1. /\ Len(s) + i \in 1..Len(s \o t)
        /\ (s \o t)[Len(s) + i] = t[i]
    BY ConcatProperties
  <2> QED BY <2>1 DEF Elements
<1>4. Elements(s) \subseteq Elements(s \o t) /\ Elements(t) \subseteq Elements(s \o t)
  BY <1>2, <1>3 DEF Elements
<1> QED BY <1>1, <1>4

(* Taking from the first of two queues takes from both.                    *)
LEMMA HeadTailConcat ==
    ASSUME NEW S, NEW s \in Seq(S), NEW t \in Seq(S), s # <<>>
    PROVE  /\ s \o t # <<>>
           /\ Head(s \o t) = Head(s)
           /\ Tail(s \o t) = Tail(s) \o t
OBVIOUS

(* Adding to the second of two queues adds to both.                        *)
LEMMA AppendConcat ==
    ASSUME NEW S, NEW s \in Seq(S), NEW t \in Seq(S), NEW f \in S
    PROVE  Append(s \o t, f) = s \o Append(t, f)
OBVIOUS

-----------------------------------------------------------------------------
(* The loop keeps its types: in particular the eventfd counter stays in    *)
(* its range although wakeup() never looks at it.                          *)
THEOREM TypeCorrect == Spec => []TypeOK
<1>1. ASSUME Init PROVE TypeOK
  <2>1. tpc \in [Threads -> {"ready", "wake"}]
    BY <1>1 DEF Init
  <2>2. wakeupFd \in 0..EfdMax /\ listSize \in Nat \ {0}
    BY <1>1, EfdMaxAssumption, ListAssumption DEF Init
  <2>3. /\ pendingFunctors_ \in Seq(Functors)
        /\ functors \in Seq(Functors)
        /\ executed \in Seq(Functors)
    BY <1>1 DEF Init
  <2> QED BY <1>1, <2>1, <2>2, <2>3 DEF Init, TypeOK
<1>2. TypeOK /\ [Next]_vars => TypeOK'
  <2> SUFFICES ASSUME TypeOK, [Next]_vars PROVE TypeOK'
    OBVIOUS
  <2> USE DEF TypeOK, loopVars
  <2>1. CASE LoopStep
    <3>1. CASE TestQuit BY <3>1 DEF TestQuit
    <3>2. ASSUME NEW r \in SUBSET Reportable, PollReturns(r) PROVE TypeOK'
      <4>1. GrownList(Cardinality(r)) \in Nat \ {0}
        BY DEF GrownList
      <4>2. r \in SUBSET (Channels \cup {Wakeup})
        BY DEF Reportable
      <4> QED BY <3>2, <4>1, <4>2 DEF PollReturns
    <3>3. CASE HandleWakeup BY <3>3, EfdMaxAssumption DEF HandleWakeup
    <3>4. ASSUME NEW c \in Channels, BeginEvent(c) PROVE TypeOK'
      BY <3>4 DEF BeginEvent
    <3>5. CASE EndEvent BY <3>5 DEF EndEvent
    <3>6. CASE BeginPending BY <3>6 DEF BeginPending, SwappedOut
    <3>7. CASE BeginFunctor BY <3>7 DEF BeginFunctor
    <3>8. CASE EndFunctor BY <3>8 DEF EndFunctor
    <3>9. CASE EndPending BY <3>9 DEF EndPending
    <3> QED BY <2>1, <3>1, <3>2, <3>3, <3>4, <3>5, <3>6, <3>7, <3>8, <3>9 DEF LoopStep
  <2>2. CASE PollTimesOut BY <2>2 DEF PollTimesOut
  <2> WakeupFdWritten \in 0..EfdMax
    BY EfdMaxAssumption DEF WakeupFdWritten
  <2>3. CASE UserStep
    <3>1. CASE InLoopQuit BY <3>1 DEF InLoopQuit
    <3>2. CASE StartLoop BY <3>2 DEF StartLoop
    <3>3. ASSUME NEW f \in Functors, InLoopQueue(f) PROVE TypeOK'
      <4>1. pendingFunctors_' \in Seq(Functors) /\ early' \in SUBSET Functors
        BY <3>3 DEF InLoopQueue
      <4>2. wakeupFd' \in 0..EfdMax
        BY <3>3 DEF InLoopQueue
      <4> QED BY <3>3, <4>1, <4>2 DEF InLoopQueue
    <3>4. ASSUME NEW f \in Functors, InLoopRun(f) PROVE TypeOK'
      BY <3>4 DEF InLoopRun
    <3> QED BY <2>3, <3>1, <3>2, <3>3, <3>4 DEF UserStep
  <2>4. ASSUME NEW t \in Threads, OtherStep(t) PROVE TypeOK'
    <3>1. CASE WakeupLoop(t) BY <3>1 DEF WakeupLoop
    <3>2. CASE Quit(t) BY <3>2 DEF Quit
    <3>3. ASSUME NEW f \in Functors, QueueInLoop(t, f) PROVE TypeOK'
      BY <3>3 DEF QueueInLoop
    <3> QED BY <2>4, <3>1, <3>2, <3>3 DEF OtherStep
  <2>5. ASSUME NEW c \in Channels, Arrive(c) PROVE TypeOK'
    BY <2>5 DEF Arrive
  <2>6. CASE UNCHANGED vars BY <2>6 DEF vars
  <2> QED BY <2>1, <2>2, <2>3, <2>4, <2>5, <2>6 DEF Next
<1> QED BY <1>1, <1>2, PTL DEF Spec

-----------------------------------------------------------------------------
(* WakeupInv is inductive once the types are known.                        *)
LEMMA WakeupInvStep == TypeOK /\ TypeOK' /\ WakeupInv /\ [Next]_vars => WakeupInv'
<1> SUFFICES ASSUME TypeOK, TypeOK', WakeupInv, [Next]_vars PROVE WakeupInv'
  OBVIOUS
<1> USE DEF WakeupInv, loopVars
<1>1. CASE LoopStep
  <2> USE DEF Notified
  <2>1. CASE TestQuit BY <2>1 DEF TestQuit
  <2>2. ASSUME NEW r \in SUBSET Reportable, PollReturns(r) PROVE WakeupInv'
    <3>1. Wakeup \in r => wakeupFd > 0
      BY ChannelAssumption DEF Reportable, TypeOK
    <3> QED BY <2>2, <3>1 DEF PollReturns
  <2>3. CASE HandleWakeup BY <2>3 DEF HandleWakeup
  <2>4. ASSUME NEW c \in Channels, BeginEvent(c) PROVE WakeupInv'
    BY <2>4 DEF BeginEvent
  <2>5. CASE EndEvent BY <2>5 DEF EndEvent
  <2>6. CASE BeginPending BY <2>6 DEF BeginPending, Elements
  <2>7. CASE BeginFunctor BY <2>7 DEF BeginFunctor
  <2>8. CASE EndFunctor BY <2>8 DEF EndFunctor
  <2>9. CASE EndPending BY <2>9 DEF EndPending
  <2> QED BY <1>1, <2>1, <2>2, <2>3, <2>4, <2>5, <2>6, <2>7, <2>8, <2>9 DEF LoopStep
<1>2. CASE PollTimesOut BY <1>2 DEF PollTimesOut, Notified
<1>a. WakeupFdWritten > 0
  BY EfdMaxAssumption DEF WakeupFdWritten, TypeOK
<1>3. CASE UserStep
  <2>1. CASE InLoopQuit BY <2>1 DEF InLoopQuit, UserCode, Notified
  <2>2. CASE StartLoop BY <2>2 DEF StartLoop, Notified
  <2>3. ASSUME NEW f \in Functors, InLoopQueue(f) PROVE WakeupInv'
    <3>1. Elements(pendingFunctors_') = Elements(pendingFunctors_) \cup {f}
      BY <2>3, ElementsAppend DEF InLoopQueue, TypeOK
    <3>2. wakeupFd > 0 => wakeupFd' > 0
      BY <2>3, <1>a DEF InLoopQueue
    <3>3. Notified => Notified'
      BY <2>3, <3>2 DEF InLoopQueue, Notified
    <3>4. CASE pc = "idle"
      BY <2>3, <3>1, <3>2, <3>3, <3>4 DEF InLoopQueue
    <3>5. CASE pc = "event"
      BY <2>3, <3>2, <3>3, <3>5 DEF InLoopQueue
    <3>6. CASE pc = "functor"
      <4>1. wakeupFd' > 0
        BY <2>3, <1>a, <3>6 DEF InLoopQueue, NeedsWakeup
      <4> QED BY <2>3, <3>2, <3>3, <3>6, <4>1 DEF InLoopQueue, Notified
    <3> QED BY <2>3, <3>4, <3>5, <3>6 DEF InLoopQueue, UserCode
  <2>4. ASSUME NEW f \in Functors, InLoopRun(f) PROVE WakeupInv'
    BY <2>4 DEF InLoopRun, Notified
  <2> QED BY <1>3, <2>1, <2>2, <2>3, <2>4 DEF UserStep
<1>4. ASSUME NEW t \in Threads, OtherStep(t) PROVE WakeupInv'
  <2>1. CASE WakeupLoop(t)
    BY <2>1, <1>a DEF WakeupLoop, Notified, TypeOK
  <2>2. CASE Quit(t)
    BY <2>2 DEF Quit, Notified, TypeOK
  <2>3. ASSUME NEW f \in Functors, QueueInLoop(t, f) PROVE WakeupInv'
    <3>1. tpc'[t] = "wake"
      BY <2>3 DEF QueueInLoop, NeedsWakeup, TypeOK
    <3> QED BY <2>3, <3>1 DEF QueueInLoop, Notified
  <2> QED BY <1>4, <2>1, <2>2, <2>3 DEF OtherStep
<1>5. ASSUME NEW c \in Channels, Arrive(c) PROVE WakeupInv'
  BY <1>5 DEF Arrive, Notified
<1>6. CASE UNCHANGED vars BY <1>6 DEF vars, Notified
<1> QED BY <1>1, <1>2, <1>3, <1>4, <1>5, <1>6 DEF Next

(* The loop never blocks in epoll_wait over a functor or a quit that some  *)
(* thread handed to it while it ran: a wakeup is there or on its way.      *)
THEOREM NeverSleepsOverWork == Spec => [](WakeupInv /\ NoLostWakeup)
<1>1. Init => WakeupInv
  BY DEF Init, WakeupInv, Elements
<1>2. WakeupInv => NoLostWakeup
  BY DEF WakeupInv, NoLostWakeup
<1> QED BY <1>1, <1>2, WakeupInvStep, TypeCorrect, PTL DEF Spec

-----------------------------------------------------------------------------
(* EventLoop implements TaskQueue: pushes, swaps and pops of the two       *)
(* vectors are one first-in-first-out queue in which nothing is lost.      *)

(* Every step of the loop is one of the abstract task queue, or stutters.  *)
LEMMA TaskStep ==
    TypeOK /\ WakeupInv /\ [Next]_vars => [Tasks!Next]_(Tasks!vars)
<1> SUFFICES ASSUME TypeOK, WakeupInv, [Next]_vars PROVE [Tasks!Next]_(Tasks!vars)
  OBVIOUS
<1> USE DEF loopVars, Tasks!vars
<1>k. Tasks!Known = Elements(executed) \cup Elements(functors) \cup Elements(pendingFunctors_)
  <2>1. Tasks!Elements(functors \o pendingFunctors_) = Elements(functors \o pendingFunctors_)
    BY DEF Tasks!Elements, Elements
  <2>2. Tasks!Elements(executed) = Elements(executed)
    BY DEF Tasks!Elements, Elements
  <2> QED BY <2>1, <2>2, ElementsConcat DEF Tasks!Known, TypeOK
<1>s. ASSUME NEW f \in Functors, Fresh(f), UNCHANGED <<functors, executed>>,
             pendingFunctors_' = Append(pendingFunctors_, f)
      PROVE  Tasks!Submit(f)
  BY <1>s, <1>k, AppendConcat, SMTT(30) DEF Tasks!Submit, Fresh, TypeOK
<1>1. CASE LoopStep
  <2>1. CASE TestQuit BY <2>1 DEF TestQuit
  <2>2. ASSUME NEW r \in SUBSET Reportable, PollReturns(r) PROVE UNCHANGED Tasks!vars
    BY <2>2 DEF PollReturns
  <2>3. CASE HandleWakeup BY <2>3 DEF HandleWakeup
  <2>4. ASSUME NEW c \in Channels, BeginEvent(c) PROVE UNCHANGED Tasks!vars
    BY <2>4 DEF BeginEvent
  <2>5. CASE EndEvent BY <2>5 DEF EndEvent
  <2>6. CASE BeginPending
    <3>1. functors = <<>> /\ functors' = pendingFunctors_ /\ pendingFunctors_' = <<>>
      BY <2>6 DEF BeginPending, SwappedOut, WakeupInv
    <3>2. functors' \o pendingFunctors_' = functors \o pendingFunctors_
      BY <3>1, ConcatEmptySeq DEF TypeOK
    <3> QED BY <2>6, <3>2 DEF BeginPending
  <2>7. CASE BeginFunctor
    BY <2>7, HeadTailConcat DEF BeginFunctor, Tasks!Next, Tasks!RunNext, TypeOK
  <2>8. CASE EndFunctor BY <2>8 DEF EndFunctor
  <2>9. CASE EndPending BY <2>9 DEF EndPending
  <2> QED BY <1>1, <2>1, <2>2, <2>3, <2>4, <2>5, <2>6, <2>7, <2>8, <2>9 DEF LoopStep
<1>2. CASE PollTimesOut BY <1>2 DEF PollTimesOut
<1>3. CASE UserStep
  <2>1. CASE InLoopQuit BY <2>1 DEF InLoopQuit
  <2>2. CASE StartLoop BY <2>2 DEF StartLoop
  <2>3. ASSUME NEW f \in Functors, InLoopQueue(f) PROVE Tasks!Submit(f)
    BY <2>3, <1>s DEF InLoopQueue
  <2>4. ASSUME NEW f \in Functors, InLoopRun(f) PROVE Tasks!RunDirectly(f)
    BY <2>4, <1>k DEF InLoopRun, Tasks!RunDirectly, Fresh
  <2> QED BY <1>3, <2>1, <2>2, <2>3, <2>4 DEF UserStep, Tasks!Next
<1>4. ASSUME NEW t \in Threads, OtherStep(t) PROVE [Tasks!Next]_(Tasks!vars)
  <2>1. CASE WakeupLoop(t) BY <2>1 DEF WakeupLoop
  <2>2. CASE Quit(t) BY <2>2 DEF Quit
  <2>3. ASSUME NEW f \in Functors, QueueInLoop(t, f) PROVE Tasks!Submit(f)
    BY <2>3, <1>s DEF QueueInLoop
  <2> QED BY <1>4, <2>1, <2>2, <2>3 DEF OtherStep, Tasks!Next
<1>5. ASSUME NEW c \in Channels, Arrive(c) PROVE UNCHANGED Tasks!vars
  BY <1>5 DEF Arrive
<1>6. CASE UNCHANGED vars BY <1>6 DEF vars
<1> QED BY <1>1, <1>2, <1>3, <1>4, <1>5, <1>6 DEF Next

(* Queued callbacks run first in, first out, each exactly once, whatever   *)
(* threads queue them and wherever in loop() the swap happens.             *)
THEOREM QueueRefinement == Spec => ImplementsTaskQueue
<1>1. Init => Tasks!Init
  BY DEF Init, Tasks!Init
<1> QED
  BY <1>1, TaskStep, TypeCorrect, NeverSleepsOverWork, PTL
  DEF Spec, ImplementsTaskQueue, Tasks!Spec

-----------------------------------------------------------------------------
(* EventLoopThread.                                                        *)

(* Every step of an EventLoopThread is a step of its loop or leaves the    *)
(* loop alone.                                                             *)
LEMMA ThreadStepIsLoopStep == [ThreadNext]_allVars => [Next]_vars
<1> SUFFICES ASSUME [ThreadNext]_allVars PROVE [Next]_vars
  OBVIOUS
<1>1. CASE OwnerStep
  <2>1. CASE DestructorQuits
    BY <2>1, OwnerAssumption DEF DestructorQuits, Next, OtherStep
  <2>2. CASE Start \/ LatchOpen \/ StartLoopReturns \/ BeginDestructor \/ JoinReturns
    BY <2>2 DEF Start, LatchOpen, StartLoopReturns, BeginDestructor, JoinReturns
  <2> QED BY <1>1, <2>1, <2>2 DEF OwnerStep
<1>2. CASE WorkerStep
  <2>1. CASE EnterLoop BY <2>1 DEF EnterLoop, Next, UserStep
  <2>2. CASE LoopStep BY <2>2 DEF Next
  <2>3. CASE EnterThreadFunc \/ BuildLoop \/ Publish \/ Unpublish \/ LeaveThreadFunc
    BY <2>3 DEF EnterThreadFunc, BuildLoop, Publish, Unpublish, LeaveThreadFunc
  <2> QED BY <1>2, <2>1, <2>2, <2>3 DEF WorkerStep
<1>3. CASE PollTimeout BY <1>3 DEF PollTimeout, Next
<1>4. CASE InLoopUserStep BY <1>4 DEF InLoopUserStep, Next, UserStep
<1>5. CASE CallerStep BY <1>5 DEF CallerStep, Next, OtherStep
<1>6. CASE \E c \in Channels : Arrive(c) BY <1>6 DEF Next
<1>7. CASE UNCHANGED allVars BY <1>7 DEF allVars
<1> QED BY <1>1, <1>2, <1>3, <1>4, <1>5, <1>6, <1>7 DEF ThreadNext

(* A loop inside an EventLoopThread keeps every promise of EventLoop: no   *)
(* lost wakeup, and a first-in-first-out queue.                            *)
THEOREM ThreadRunsLoop == ThreadSpec => Spec /\ []NoLostWakeup /\ ImplementsTaskQueue
<1>1. ThreadInit => Init
  BY DEF ThreadInit
<1>2. ThreadSpec => Spec
  BY <1>1, ThreadStepIsLoopStep, PTL DEF ThreadSpec, Spec
<1> QED BY <1>2, NeverSleepsOverWork, QueueRefinement, PTL

(* What the steps of the loop do to the flags an EventLoopThread looks at. *)
LEMMA LoopStepKeepsQuit ==
    ASSUME LoopStep \/ PollTimesOut
    PROVE  /\ quit_' = quit_
           /\ looping_ /\ ~looping_' => quit_
           /\ ~looping_ => ~looping_'
<1>1. CASE TestQuit BY <1>1 DEF TestQuit, looping_
<1>2. ASSUME NEW r \in SUBSET Reportable, PollReturns(r)
      PROVE  quit_' = quit_ /\ looping_ /\ looping_'
  BY <1>2 DEF PollReturns, looping_
<1>3. CASE HandleWakeup BY <1>3 DEF HandleWakeup, looping_
<1>4. ASSUME NEW c \in Channels, BeginEvent(c)
      PROVE  quit_' = quit_ /\ looping_ /\ looping_'
  BY <1>4 DEF BeginEvent, looping_
<1>5. CASE EndEvent BY <1>5 DEF EndEvent, looping_
<1>6. CASE BeginPending BY <1>6 DEF BeginPending, looping_
<1>7. CASE BeginFunctor BY <1>7 DEF BeginFunctor, looping_
<1>8. CASE EndFunctor BY <1>8 DEF EndFunctor, looping_
<1>9. CASE EndPending BY <1>9 DEF EndPending, looping_
<1>10. CASE PollTimesOut BY <1>10 DEF PollTimesOut, looping_
<1> QED BY <1>1, <1>2, <1>3, <1>4, <1>5, <1>6, <1>7, <1>8, <1>9, <1>10 DEF LoopStep

(* Every step of the owner, of the new thread and of its loop keeps        *)
(* ThreadInv.                                                              *)
LEMMA ThreadInvStep ==
    ThreadTypeOK /\ ThreadInv /\ [ThreadNext]_allVars => ThreadInv'
<1> SUFFICES ASSUME ThreadTypeOK, ThreadInv, [ThreadNext]_allVars PROVE ThreadInv'
  OBVIOUS
<1> USE DEF ThreadInv, threadVars
<1>1. CASE OwnerStep
  <2> USE DEF vars, looping_
  <2>1. CASE Start BY <2>1 DEF Start
  <2>2. CASE LatchOpen BY <2>2 DEF LatchOpen
  <2>3. CASE StartLoopReturns BY <2>3 DEF StartLoopReturns
  <2>4. CASE BeginDestructor BY <2>4 DEF BeginDestructor
  <2>5. CASE DestructorQuits BY <2>5 DEF DestructorQuits, Quit
  <2>6. CASE JoinReturns BY <2>6 DEF JoinReturns
  <2> QED BY <1>1, <2>1, <2>2, <2>3, <2>4, <2>5, <2>6 DEF OwnerStep
<1>2. CASE WorkerStep
  <2>1. CASE EnterThreadFunc BY <2>1 DEF EnterThreadFunc, vars, looping_
  <2>2. CASE BuildLoop BY <2>2 DEF BuildLoop, vars, looping_
  <2>3. CASE Publish BY <2>3 DEF Publish, vars, looping_
  <2>4. CASE EnterLoop BY <2>4 DEF EnterLoop, StartLoop, looping_
  <2>5. CASE looping_ /\ LoopStep /\ UNCHANGED threadVars
    BY <2>5, LoopStepKeepsQuit
  <2>6. CASE Unpublish BY <2>6 DEF Unpublish, vars, looping_
  <2>7. CASE LeaveThreadFunc BY <2>7 DEF LeaveThreadFunc, vars, looping_
  <2> QED BY <1>2, <2>1, <2>2, <2>3, <2>4, <2>5, <2>6, <2>7 DEF WorkerStep
<1>3. CASE PollTimeout
  BY <1>3, LoopStepKeepsQuit DEF PollTimeout
<1>4. CASE UNCHANGED <<pc, quit_, threadVars>>
  BY <1>4 DEF looping_
<1>a. ASSUME NoteQuit, UNCHANGED pc PROVE ThreadInv'
  BY <1>a DEF NoteQuit, looping_
<1>5. CASE InLoopUserStep
  <2>1. CASE (\E f \in Functors : InLoopQueue(f) \/ InLoopRun(f)) /\ UNCHANGED threadVars
    BY <1>4, <2>1 DEF InLoopQueue, InLoopRun
  <2>2. CASE InLoopQuit /\ NoteQuit
    BY <1>a, <2>2 DEF InLoopQuit
  <2> QED BY <1>5, <2>1, <2>2 DEF InLoopUserStep
<1>6. CASE CallerStep
  <2> PICK t \in Threads :
        \/ WakeupLoop(t) /\ UNCHANGED threadVars
        \/ (\E f \in Functors : QueueInLoop(t, f)) /\ UNCHANGED threadVars
        \/ Quit(t) /\ NoteQuit
    BY <1>6 DEF CallerStep
  <2>1. CASE WakeupLoop(t) /\ UNCHANGED threadVars
    BY <1>4, <2>1 DEF WakeupLoop
  <2>2. CASE (\E f \in Functors : QueueInLoop(t, f)) /\ UNCHANGED threadVars
    BY <1>4, <2>2 DEF QueueInLoop
  <2>3. CASE Quit(t) /\ NoteQuit
    BY <1>a, <2>3 DEF Quit
  <2> QED BY <2>1, <2>2, <2>3
<1>7. CASE (\E c \in Channels : Arrive(c)) /\ UNCHANGED threadVars
  BY <1>4, <1>7 DEF Arrive
<1>8. CASE UNCHANGED allVars
  BY <1>4, <1>8 DEF allVars, vars
<1> QED BY <1>1, <1>2, <1>3, <1>5, <1>6, <1>7, <1>8 DEF ThreadNext

(* The object and its thread keep their types; the latch is counted down   *)
(* once, so its count never falls below zero.                              *)
THEOREM ThreadInvariants == ThreadSpec => [](ThreadTypeOK /\ ThreadInv)
<1>1. ThreadInit => ThreadInv
  BY DEF ThreadInit, Init, ThreadInv, looping_
<1>2. ThreadTypeOK /\ ThreadInv /\ [ThreadNext]_allVars /\ TypeOK' => ThreadTypeOK'
  <2> SUFFICES ASSUME ThreadTypeOK, ThreadInv, [ThreadNext]_allVars, TypeOK'
               PROVE  ThreadTypeOK'
    OBVIOUS
  <2> USE DEF ThreadTypeOK, threadVars
  <2>1. CASE OwnerStep
    BY <2>1 DEF OwnerStep, Start, LatchOpen, StartLoopReturns, BeginDestructor,
                DestructorQuits, JoinReturns
  <2>2. CASE EnterThreadFunc
    BY <2>2 DEF EnterThreadFunc, ThreadInv
  <2>3. CASE WorkerStep /\ ~EnterThreadFunc
    BY <2>3 DEF WorkerStep, BuildLoop, Publish, EnterLoop, Unpublish, LeaveThreadFunc
  <2>4. CASE UNCHANGED threadVars
    BY <2>4
  <2>5. CASE NoteQuit
    BY <2>5 DEF NoteQuit
  <2>6. CASE PollTimeout \/ InLoopUserStep \/ CallerStep
    BY <2>4, <2>5, <2>6 DEF PollTimeout, InLoopUserStep, CallerStep
  <2> QED BY <2>1, <2>2, <2>3, <2>4, <2>6 DEF ThreadNext, allVars
<1>3. ThreadInit /\ TypeOK => ThreadTypeOK
  <2>1. ThreadInit => latch \in 0..1
    BY DEF ThreadInit
  <2> QED BY <2>1 DEF ThreadInit, ThreadTypeOK
<1> QED BY <1>1, <1>2, <1>3, ThreadInvStep, ThreadRunsLoop, TypeCorrect, PTL DEF ThreadSpec

(* The unlocked test of loop_ in ~EventLoopThread: the loop that the       *)
(* destructor then quits is alive, or it was ended by a quit() that        *)
(* somebody else had made.                                                 *)
THEOREM QuitFindsLoop == ThreadSpec => []QuitTargetAlive
<1>1. ThreadInv => QuitTargetAlive
  BY DEF ThreadInv, QuitTargetAlive, loopAlive
<1> QED BY <1>1, ThreadInvariants, PTL

(* The destructor of EventLoopThread is over only when no thread is left   *)
(* that uses mutex_, cond_ or loop_ of the object; but if somebody else    *)
(* had quit the loop, threadFunc may be between clearing loop_ and its     *)
(* end, never earlier.                                                     *)
THEOREM ObjectOutlives == ThreadSpec => []ObjectOutlivesThread
<1>1. ThreadInv => ObjectOutlivesThread
  BY DEF ThreadInv, ObjectOutlivesThread
<1> QED BY <1>1, ThreadInvariants, PTL
=============================================================================
