----------------------------- MODULE TimerQueue ------------------------------
(***************************************************************************)
(* TimerQueue: timers on one timerfd, added and cancelled by the loop's    *)
(* thread (between events and from timer callbacks) and by one other       *)
(* thread, through the loop's queue of functors.                           *)
(*                                                                         *)
(* Times are relative: due[a] is the expiration of the timer at address a, *)
(* in ticks (of 100 us, the shortest time the timerfd is armed for) from   *)
(* now; 0 is "now or earlier". The timerfd counts monotonic ticks while    *)
(* expirations are wall clock times, which may step against them.          *)
(*                                                                         *)
(* pc: "idle" outside handleRead (other handlers and functors run there),  *)
(* "calling" between two callbacks of handleRead, "callback" in one.       *)
(***************************************************************************)
EXTENDS Naturals, Sequences, FiniteSets, FiniteSetsExt

CONSTANTS Addrs,       \* addresses malloc may return for a Timer
          None,
          MaxDelay,    \* longest delay and interval, in ticks
          MaxTimers,   \* bound on the number of timers created
          MaxSteps     \* bound on the steps of the wall clock

ASSUME TimerAssumption ==
    /\ {MaxDelay, MaxTimers} \subseteq Nat \ {0}
    /\ MaxSteps \in Nat
    /\ None \notin Addrs /\ None \notin [seq : 1..MaxTimers, every : 0..MaxDelay]

VARIABLES heap,              \* address -> the Timer there, or None
          due,               \* address -> its expiration_
          timers_,           \* addresses in the ordered set
          activeTimers_,     \* <<address, sequence>> pairs
          cancelingTimers_,
          expired,           \* handleRead's vector
          todo,              \* its timers that have not run
          pc,
          elapsed,           \* wall clock ticks since handleRead took now
          armed, readable,   \* the timerfd: ticks to go (0: disarmed), expired
          queue,             \* functors of the other thread
          acall,             \* address whose sequence addTimer is about to read
          ids,               \* TimerIds that addTimer returned
          created,           \* s_numCreated_
          reported,          \* timerfdChannel_ is in the loop's activeChannels_
          steps,
          ran,               \* history: sequences of timers started
          cancelled          \* history: of timers cancelled after their add had run

timerVars == <<heap, due, timers_, activeTimers_>>
batchVars == <<cancelingTimers_, expired, todo, pc, elapsed>>
fdVars == <<armed, readable>>
callVars == <<queue, acall, ids, created>>
histVars == <<ran, cancelled>>
vars == <<timerVars, batchVars, fdVars, callVars, reported, steps, histVars>>

Seqs == 1..MaxTimers
Id == Addrs \X (0..MaxTimers)
Functor == [op : {"add", "cancel"}, id : Id]
Timer == [seq : Seqs, every : 0..MaxDelay]
Live(a) == heap[a] # None
Key(a) == <<a, heap[a].seq>>

(* Is id the TimerId of a timer that exists?                               *)
Names(id) == Live(id[1]) /\ heap[id[1]].seq = id[2]

TypeOK ==
    /\ heap \in [Addrs -> Timer \cup {None}]
    /\ due \in [Addrs -> 0..MaxDelay]
    /\ timers_ \subseteq Addrs
    /\ activeTimers_ \subseteq Id /\ cancelingTimers_ \subseteq Id
    /\ expired \subseteq Addrs /\ todo \subseteq expired
    /\ pc \in {"idle", "calling", "callback"}
    /\ elapsed \in 0..MaxDelay
    /\ armed \in 0..MaxDelay /\ readable \in BOOLEAN
    /\ queue \in Seq(Functor)
    /\ acall \in Addrs \cup {None}
    /\ ids \subseteq Id
    /\ created \in 0..MaxTimers /\ reported \in BOOLEAN /\ steps \in 0..MaxSteps
    /\ ran \subseteq Seqs /\ cancelled \subseteq Seqs

Init ==
    /\ heap = [a \in Addrs |-> None]
    /\ due = [a \in Addrs |-> 0]
    /\ timers_ = {} /\ activeTimers_ = {} /\ cancelingTimers_ = {}
    /\ expired = {} /\ todo = {} /\ pc = "idle" /\ elapsed = 0
    /\ armed = 0 /\ readable = FALSE
    /\ queue = <<>> /\ acall = None /\ ids = {} /\ created = 0
    /\ reported = FALSE /\ steps = 0
    /\ ran = {} /\ cancelled = {}

-----------------------------------------------------------------------------
(* resetTimerfd: never armed for less than a tick; a pending expiration of *)
(* the old setting is discarded.                                           *)
Rearm(ticks) == armed' = Max({ticks, 1}) /\ readable' = FALSE

(* Mutant: the timerfd is set only when the queue was empty.               *)
ChangesOnlyIfEmpty(a, d) == timers_ = {}

(* Mutant: the test for an empty queue is missing.                         *)
ChangesUnlessEmpty(a, d) == \E b \in timers_ : d < due[b]

(* insert's result: is the timer at a, due in d, the new earliest one?     *)
EarliestChanged(a, d) == \A b \in timers_ : d < due[b]

(* addTimerInLoop of the timer at address a, due in d ticks.               *)
AddTimerInLoop(a, seq, d) ==
    /\ timers_' = timers_ \cup {a}
    /\ activeTimers_' = activeTimers_ \cup {<<a, seq>>}
    /\ IF EarliestChanged(a, d) THEN Rearm(d) ELSE UNCHANGED fdVars

(* new Timer: a free address and the next sequence number.                 *)
NewTimer(a, d, every) ==
    /\ ~Live(a) /\ created < MaxTimers
    /\ created' = created + 1
    /\ heap' = [heap EXCEPT ![a] = [seq |-> created + 1, every |-> every]]
    /\ due' = [due EXCEPT ![a] = d]

(* Mutant: the timer is looked up by its address alone.                    *)
FoundByAddress(id) == \E k \in activeTimers_ : k[1] = id[1]

Found(id) == id \in activeTimers_

(* Mutant: a timer that is in handleRead's vector cannot be cancelled.     *)
NoteNothing(id) == cancelingTimers_

(* cancelInLoop's else branch.                                             *)
NoteCanceling(id) == IF pc # "idle" THEN cancelingTimers_ \cup {id} ELSE cancelingTimers_

(* A timer that is found in neither set, since its addTimerInLoop is still *)
(* queued, is not cancelled: nothing remembers the call.                   *)
CancelInLoop(id) ==
    /\ cancelled' = cancelled \cup
                      (IF Names(id) /\ id[1] \in timers_ \cup expired THEN {id[2]} ELSE {})
    /\ IF Found(id)
       THEN /\ timers_' = timers_ \ {id[1]}
            /\ activeTimers_' = activeTimers_ \ {Key(id[1])}
            /\ heap' = [heap EXCEPT ![id[1]] = None]
            /\ UNCHANGED cancelingTimers_
       ELSE /\ cancelingTimers_' = NoteCanceling(id)
            /\ UNCHANGED <<timers_, activeTimers_, heap>>

-----------------------------------------------------------------------------
(* The loop's thread: user code (in a callback or between events).         *)

InUserCode == pc \in {"idle", "callback"}

(* runAt, runAfter, runEvery.                                              *)
LoopAdds(a, d, every) ==
    /\ InUserCode
    /\ NewTimer(a, d, every)
    /\ AddTimerInLoop(a, created + 1, d)
    /\ ids' = ids \cup {<<a, created + 1>>}
    /\ UNCHANGED <<batchVars, queue, acall, reported, steps, histVars>>

LoopCancels(id) ==
    /\ InUserCode
    /\ id \in ids
    /\ CancelInLoop(id)
    /\ UNCHANGED <<due, expired, todo, pc, elapsed, fdVars, callVars, reported, steps, ran>>

(* doPendingFunctors, after the handlers of what poll has reported.        *)
RunFunctor ==
    /\ pc = "idle" /\ ~reported /\ queue # <<>>
    /\ queue' = Tail(queue)
    /\ LET f == Head(queue) IN
          \/ /\ f.op = "add"
             /\ AddTimerInLoop(f.id[1], f.id[2], due[f.id[1]])
             /\ UNCHANGED <<heap, cancelingTimers_, cancelled>>
          \/ /\ f.op = "cancel"
             /\ CancelInLoop(f.id)
             /\ UNCHANGED fdVars
    /\ UNCHANGED <<due, expired, todo, pc, elapsed, acall, ids, created, reported, steps, ran>>

-----------------------------------------------------------------------------
(* The other thread. addTimer queues the timer and then reads its sequence *)
(* to make the TimerId; if the timer is gone by then, it reads whatever is *)
(* in the freed memory.                                                    *)

OutsiderAdds(a, d, every) ==
    /\ acall = None
    /\ NewTimer(a, d, every)
    /\ queue' = Append(queue, [op |-> "add", id |-> <<a, created + 1>>])
    /\ acall' = a
    /\ UNCHANGED <<timers_, activeTimers_, batchVars, fdVars, ids, reported, steps, histVars>>

OutsiderGetsId(seq) ==
    /\ acall # None
    /\ IF Live(acall) THEN seq = heap[acall].seq ELSE seq \in 0..MaxTimers
    /\ ids' = ids \cup {<<acall, seq>>}
    /\ acall' = None
    /\ UNCHANGED <<timerVars, batchVars, fdVars, queue, created, reported, steps, histVars>>

OutsiderCancels(id) ==
    /\ acall = None
    /\ id \in ids
    /\ \A i \in 1..Len(queue) : queue[i] # [op |-> "cancel", id |-> id]
    /\ queue' = Append(queue, [op |-> "cancel", id |-> id])
    /\ UNCHANGED <<timerVars, batchVars, fdVars, acall, ids, created, reported, steps, histVars>>

-----------------------------------------------------------------------------
(* handleRead.                                                             *)

(* getExpired: everything due now or earlier.                              *)
Expired == {a \in timers_ : due[a] = 0}

(* Mutant: getExpired leaves the expired timers in activeTimers_.          *)
StillActive(e) == activeTimers_

ActiveWithout(e) == activeTimers_ \ {Key(a) : a \in e}

(* epoll_wait reports the timerfd. Another handler of the round may set it *)
(* again before handleRead is called, which then has nothing to read and   *)
(* only logs that.                                                         *)
PollReports ==
    /\ pc = "idle" /\ readable /\ ~reported
    /\ reported' = TRUE
    /\ UNCHANGED <<timerVars, batchVars, fdVars, callVars, steps, histVars>>

BeginExpired ==
    /\ pc = "idle" /\ reported
    /\ reported' = FALSE
    /\ readable' = FALSE
    /\ expired' = Expired
    /\ todo' = expired'
    /\ timers_' = timers_ \ expired'
    /\ activeTimers_' = ActiveWithout(expired')
    /\ cancelingTimers_' = {}
    /\ elapsed' = 0
    /\ pc' = "calling"
    /\ UNCHANGED <<heap, due, armed, callVars, steps, histVars>>

RunTimer(a) ==
    /\ pc = "calling" /\ a \in todo
    /\ pc' = "callback"
    /\ todo' = todo \ {a}
    /\ ran' = ran \cup {heap[a].seq}
    /\ UNCHANGED <<timerVars, cancelingTimers_, expired, elapsed, fdVars, callVars, reported, steps, cancelled>>

EndCallback ==
    /\ pc = "callback"
    /\ pc' = "calling"
    /\ UNCHANGED <<timerVars, cancelingTimers_, expired, todo, elapsed, fdVars, callVars, reported, steps, histVars>>

Restarts(a) == heap[a].every > 0 /\ Key(a) \notin cancelingTimers_
Restarted(a) == IF heap[a].every > elapsed THEN heap[a].every - elapsed ELSE 0

(* reset: repeating timers go back, relative to the now of handleRead; the *)
(* others are deleted; the timerfd is set for the earliest one. (valid()   *)
(* of its expiration fails only at the epoch, a time no clock here has.)   *)
Reset ==
    /\ pc = "calling" /\ todo = {}
    /\ LET again == {a \in expired : Restarts(a)} IN
          /\ timers_' = timers_ \cup again
          /\ activeTimers_' = activeTimers_ \cup {Key(a) : a \in again}
          /\ heap' = [a \in Addrs |-> IF a \in expired \ again THEN None ELSE heap[a]]
          /\ due' = [a \in Addrs |-> IF a \in again THEN Restarted(a) ELSE due[a]]
    /\ IF timers_' # {} THEN Rearm(Min({due'[a] : a \in timers_'})) ELSE UNCHANGED fdVars
    /\ expired' = {}
    /\ pc' = "idle"
    /\ UNCHANGED <<cancelingTimers_, todo, elapsed, callVars, reported, steps, histVars>>

-----------------------------------------------------------------------------
(* Time.                                                                   *)

Down(n) == IF n = 0 THEN 0 ELSE n - 1
Up(n) == IF n = MaxDelay THEN n ELSE n + 1

WallClockTick ==
    /\ due' = [a \in Addrs |-> Down(due[a])]
    /\ elapsed' = IF pc = "idle" THEN 0 ELSE Up(elapsed)

TimeUnchanged == UNCHANGED <<heap, timers_, activeTimers_, cancelingTimers_, expired, todo, pc,
                             callVars, reported, histVars>>

Tick ==
    /\ WallClockTick
    /\ armed' = Down(armed)
    /\ readable' = (readable \/ armed = 1)
    /\ TimeUnchanged /\ UNCHANGED steps

(* The wall clock steps forwards, or back.                                 *)
StepForward ==
    /\ steps < MaxSteps /\ steps' = steps + 1
    /\ WallClockTick
    /\ TimeUnchanged /\ UNCHANGED fdVars

StepBack ==
    /\ steps < MaxSteps /\ steps' = steps + 1
    /\ \A a \in Addrs : due[a] < MaxDelay
    /\ due' = [a \in Addrs |-> due[a] + 1]
    /\ elapsed' = Down(elapsed)
    /\ TimeUnchanged /\ UNCHANGED fdVars

-----------------------------------------------------------------------------
HandleReadStep == (\E a \in Addrs : RunTimer(a)) \/ EndCallback \/ Reset

AddStep ==
    \E a \in Addrs, d \in 0..MaxDelay, every \in {0, MaxDelay} :
        LoopAdds(a, d, every) \/ OutsiderAdds(a, d, every)

UserStep ==
    \/ AddStep
    \/ \E id \in ids : LoopCancels(id) \/ OutsiderCancels(id)
    \/ \E seq \in 0..MaxTimers : OutsiderGetsId(seq)

Next ==
    \/ RunFunctor \/ PollReports \/ BeginExpired \/ HandleReadStep
    \/ UserStep \/ Tick \/ StepForward \/ StepBack

Spec == Init /\ [][Next]_vars

(* The loop's thread is scheduled, callbacks return, and time passes. A    *)
(* round of loop() handles what poll reported and then the functors, so    *)
(* neither keeps the other waiting for ever (EventLoop's FunctorRuns and   *)
(* ReadyChannelHandled); timers may fire before every round of functors,   *)
(* hence the strong fairness.                                              *)
FairSpec ==
    /\ Spec
    /\ WF_vars(PollReports \/ BeginExpired) /\ WF_vars(HandleReadStep) /\ SF_vars(RunFunctor)
    /\ WF_vars(Tick)

-----------------------------------------------------------------------------
(* The two sets describe the same timers, all of them allocated, and the   *)
(* timers handleRead is working on are allocated and in neither: nothing   *)
(* is freed twice or used after it was freed.                              *)
SetsAgree ==
    /\ \A a \in timers_ \cup expired : Live(a)
    /\ activeTimers_ = {Key(a) : a \in timers_}
    /\ timers_ \cap expired = {}

(* Outside handleRead a waiting timer has the timerfd armed or expired; as *)
(* long as the wall clock has not stepped, for no later than the earliest. *)
ArmedForEarliest ==
    (pc = "idle" /\ timers_ # {}) =>
        /\ readable \/ armed > 0
        /\ readable \/ steps > 0 \/ armed <= Max({1, Min({due[a] : a \in timers_})})

(* A timer exists until it has run (for a repeating one: for ever) or was  *)
(* cancelled after its add had run: nobody's stale TimerId, though its     *)
(* address was given to a new timer, takes that one away.                  *)
NoTimerLost ==
    \A s \in 1..created :
        \/ s \in cancelled
        \/ \E a \in Addrs : Live(a) /\ heap[a].seq = s
        \/ s \in ran

(* A timer that was in the queue when it was cancelled, or in handleRead's *)
(* batch, is gone when handleRead is done, also if it repeats and was      *)
(* cancelled from its own callback. Of a timer whose add another thread    *)
(* has only queued so far it says nothing.                                 *)
CancelAfterAddSticks ==
    pc = "idle" => \A a \in Addrs : Live(a) => heap[a].seq \notin cancelled

(* Every timer fires, unless it is cancelled after its add has run.        *)
TimerFires ==
    \A s \in Seqs : created >= s ~> s \in ran \cup cancelled
=============================================================================
