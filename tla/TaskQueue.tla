------------------------------ MODULE TaskQueue ------------------------------
(***************************************************************************)
(* What an event loop promises about the callbacks handed to it: queued    *)
(* callbacks run in the order they were queued, each exactly once, while   *)
(* a callback that the loop's own thread passes to runInLoop runs at once  *)
(* and may overtake the queued ones.                                       *)
(***************************************************************************)
EXTENDS Naturals, Sequences

CONSTANT Functors      \* the callbacks; each is submitted at most once

VARIABLES queue,       \* callbacks queued and not started
          done         \* callbacks started, in the order they started

vars == <<queue, done>>

Elements(s) == {s[i] : i \in 1..Len(s)}
Known       == Elements(queue) \cup Elements(done)

TypeOK == queue \in Seq(Functors) /\ done \in Seq(Functors)

Init == queue = <<>> /\ done = <<>>

Submit(f) ==
    /\ f \notin Known
    /\ queue' = Append(queue, f)
    /\ UNCHANGED done

RunNext ==
    /\ queue # <<>>
    /\ done' = Append(done, Head(queue))
    /\ queue' = Tail(queue)

RunDirectly(f) ==
    /\ f \notin Known
    /\ done' = Append(done, f)
    /\ UNCHANGED queue

Next == RunNext \/ \E f \in Functors : Submit(f) \/ RunDirectly(f)

Spec == Init /\ [][Next]_vars
=============================================================================
