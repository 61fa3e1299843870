---------------------------- MODULE MCTimerQueue -----------------------------
(***************************************************************************)
(* TimerQueue with a history of every cancel of a timer that exists, also  *)
(* of those that come while its addTimerInLoop is still queued.            *)
(***************************************************************************)
EXTENDS TimerQueue

VARIABLE asked        \* sequences that cancelInLoop was called for

Asked(id) == IF Names(id) THEN asked \cup {id[2]} ELSE asked

HistoryInit == Init /\ asked = {}

HistoryNext ==
    \/ \E id \in ids : LoopCancels(id) /\ asked' = Asked(id)
    \/ /\ RunFunctor
       /\ asked' = IF Head(queue).op = "cancel" THEN Asked(Head(queue).id) ELSE asked
    \/ /\ \/ PollReports \/ BeginExpired \/ HandleReadStep \/ AddStep \/ Tick
          \/ \E id \in ids : OutsiderCancels(id)
          \/ \E seq \in 0..MaxTimers : OutsiderGetsId(seq)
       /\ UNCHANGED asked

HistorySpec == HistoryInit /\ [][HistoryNext]_<<vars, asked>>

(* What thread-safe functions to add and to cancel timers would promise:   *)
(* outside handleRead no timer is waiting to fire that was cancelled,      *)
(* whichever thread has added it.                                          *)
CancelSticks == pc = "idle" => \A a \in timers_ : heap[a].seq \notin asked
=============================================================================
