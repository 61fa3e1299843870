------------------------------- MODULE Poller -------------------------------
(***************************************************************************)
(* What a Poller promises to EventLoop, whatever system call is behind it: *)
(* channels are listed with the events they are interested in, and poll()  *)
(* hands out some of the listed channels, or none after a timeout or a     *)
(* signal, each with events that it wants and that its descriptor has. HUP *)
(* stands for EPOLLHUP and EPOLLERR, which are reported without being      *)
(* asked for.                                                              *)
(***************************************************************************)
EXTENDS Channel

CONSTANT Channels

VARIABLES listed,      \* channels_
          interest,    \* events_ of every channel
          ready,       \* the kernel at the last poll: events of every descriptor
          active       \* the last poll's channels and their revents_

pollerVars == <<listed, interest, ready, active>>

Revents == Events \cup {"HUP"}

Init ==
    /\ listed = {} /\ interest = [c \in Channels |-> {}]
    /\ ready = [c \in Channels |-> {}] /\ active = {}

updateChannelTo(c, events) ==
    /\ listed' = listed \cup {c}
    /\ interest' = [interest EXCEPT ![c] = events]
    /\ UNCHANGED <<ready, active>>

removeChannelOf(c) ==
    /\ listed' = listed \ {c}
    /\ interest' = [interest EXCEPT ![c] = {}]
    /\ UNCHANGED <<ready, active>>

(* The events poll() may report.                                           *)
Wanting == {c \in listed : interest[c] # {}}
Due(r) == UNION {{c} \X (r[c] \cap (interest[c] \cup {"HUP"})) : c \in Wanting}

poll ==
    /\ ready' \in [Channels -> SUBSET Revents]
    /\ active' \subseteq Due(ready')
    /\ UNCHANGED <<listed, interest>>

Next ==
    \/ poll
    \/ \E c \in Channels : removeChannelOf(c) \/ \E e \in SUBSET Events : updateChannelTo(c, e)

Spec == Init /\ [][Next]_pollerVars
=============================================================================
