----------------------------- MODULE MCTcpServer -----------------------------
EXTENDS TcpServer

CONSTANTS c1, c2

(* One connection on an I/O loop, with a user thread: what is left to race *)
(* is all there, as connections share only the map and next_.              *)
PoolProgram == [numThreads_ |-> 1, clients |-> {c1}, writeComplete |-> TRUE,
                userThread |-> TRUE, lateShutdown |-> FALSE]

(* Two connections on the base loop itself, where one is removed while the *)
(* channel of the other waits in activeChannels_, and user code that calls *)
(* shutdown() in every callback, as the echo server does.                  *)
EchoProgram == [numThreads_ |-> 0, clients |-> {c1, c2}, writeComplete |-> FALSE,
                userThread |-> FALSE, lateShutdown |-> TRUE]

(* The same calls from a user thread, for a connection on an I/O loop: its *)
(* send() may be queued while a callback or it calls shutdown().           *)
LateProgram == [numThreads_ |-> 1, clients |-> {c1}, writeComplete |-> FALSE,
                userThread |-> TRUE, lateShutdown |-> TRUE]

MCPrograms == {PoolProgram, EchoProgram}

LatePrograms == {LateProgram}
=============================================================================
