------------------------------ MODULE ByteQueue ------------------------------
(***************************************************************************)
(* What a Buffer promises: bytes leave it in the order they entered, each  *)
(* once. result is what the last call handed out or removed.               *)
(***************************************************************************)
EXTENDS Naturals, Sequences

CONSTANT Chunks     \* sequences of bytes that may enter at once

VARIABLES content, result

Init == content = <<>> /\ result = <<>>

Enter(data) ==
    /\ content' = content \o data
    /\ result' = <<>>

Peek(n) ==
    /\ result' = SubSeq(content, 1, n)
    /\ UNCHANGED content

Leave(n) ==
    /\ content' = SubSeq(content, n + 1, Len(content))
    /\ result' = SubSeq(content, 1, n)

Next ==
    \/ \E data \in Chunks : Enter(data)
    \/ \E n \in 0..Len(content) : Peek(n) \/ Leave(n)

Spec == Init /\ [][Next]_<<content, result>>
=============================================================================
