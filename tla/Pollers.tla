------------------------------- MODULE Pollers -------------------------------
(***************************************************************************)
(* The poller_ of an EventLoop is one of the two Pollers and stays the     *)
(* same. Either gets the calls that the program makes of its Channels,     *)
(* here named by their descriptors.                                        *)
(***************************************************************************)
EXTENDS EPollPoller, Integers, FiniteSets

ASSUME DescriptorAssumption == Channels \subseteq Nat /\ IsFiniteSet(Channels)

VARIABLES poller_,                    \* "epoll" or "select"
          events, channels_,          \* of the channels of a SelectPoller
          readfds_, writefds_, exceptfds_, maxfd_,
          readyFds, activeFds         \* its last poll

Select == INSTANCE SelectPoller WITH Fds <- Channels, ready <- readyFds, active <- activeFds

selectVars == <<events, channels_, readfds_, writefds_, exceptfds_, maxfd_, readyFds, activeFds>>
pollersVars == <<vars, poller_, selectVars>>

PollersInit == poller_ \in {"epoll", "select"} /\ Init /\ Select!Init

PollersNext ==
    \/ poller_ = "epoll" /\ Next /\ UNCHANGED <<poller_, selectVars>>
    \/ poller_ = "select" /\ Select!Next /\ UNCHANGED <<poller_, vars>>

PollersSpec == PollersInit /\ [][PollersNext]_pollersVars

-----------------------------------------------------------------------------
(* select is asked for exactly what the channels want, however they come   *)
(* and go: the sets follow the interest, and maxfd_ leaves nobody out.     *)
AsksForInterest ==
    \A fd \in Channels, e \in Events : fd \in Select!Asked(e) <=> e \in events[fd]

(* Why, as an inductive invariant: the two sets are the interest, who has  *)
(* an interest is listed, and maxfd_ is the largest descriptor listed.     *)
SelectInv ==
    /\ events \in [Channels -> SUBSET Events]
    /\ readfds_ = {fd \in Channels : "R" \in events[fd]}
    /\ writefds_ = {fd \in Channels : "W" \in events[fd]}
    /\ channels_ \in SUBSET Channels
    /\ readfds_ \cup writefds_ \subseteq channels_
    /\ maxfd_ \in channels_ \cup {-1}
    /\ \A fd \in channels_ : fd <= maxfd_
=============================================================================
