---------------------------- MODULE MCHttpServer -----------------------------
(***************************************************************************)
(* A Buffer under any sequence of calls (BufferSpec), or the inputBuffer_  *)
(* of an HTTP connection (HttpServer).                                     *)
(***************************************************************************)
EXTENDS BufferSpec, HttpServer

VARIABLE serves       \* is it the HTTP server's?

mcVars == <<vars, httpVars, serves>>

MCInit == Init /\ HttpInit /\ serves \in BOOLEAN

MCNext ==
    /\ \/ ~serves /\ Next /\ UNCHANGED httpVars
       \/ serves /\ HttpNext /\ UNCHANGED vars
    /\ UNCHANGED serves

MCSpec == MCInit /\ [][MCNext]_mcVars
=============================================================================
