---------------------------- MODULE SelectPoller ----------------------------
(***************************************************************************)
(* SelectPoller, the other Poller of the library, with a Channel named by  *)
(* its descriptor and called as in EPollPoller. newDefaultPoller never     *)
(* creates one.                                                            *)
(*                                                                         *)
(* For select a hang-up makes a descriptor readable; urgent data is an     *)
(* exceptional condition.                                                  *)
(***************************************************************************)
EXTENDS Integers, FiniteSetsExt

CONSTANT Fds      \* a finite set of descriptors

VARIABLES events,       \* events_ of every channel
          channels_,    \* the channels with index_ = kAdded, too
          readfds_, writefds_, exceptfds_, maxfd_,
          ready,        \* the kernel at the last poll
          active        \* activeChannels_ with their revents_

setVars  == <<readfds_, writefds_, exceptfds_, maxfd_>>
vars == <<events, channels_, setVars, ready, active>>

Events == {"R", "W"}

Init ==
    /\ events = [fd \in Fds |-> {}] /\ channels_ = {}
    /\ readfds_ = {} /\ writefds_ = {} /\ exceptfds_ = {} /\ maxfd_ = -1
    /\ ready = [fd \in Fds |-> {}] /\ active = {}

SetIf(b, fd, set) == IF b THEN set \cup {fd} ELSE set \ {fd}

(* Channel::update and updateChannel; index_ is kAdded from then on.       *)
updateChannel(fd, wanted) ==
    /\ events' = [events EXCEPT ![fd] = wanted]
    /\ channels_' = channels_ \cup {fd}
    /\ readfds_' = SetIf("R" \in wanted, fd, readfds_)
    /\ writefds_' = SetIf("W" \in wanted, fd, writefds_)
    /\ exceptfds_' = exceptfds_ \cup {fd}
    /\ maxfd_' = Max({fd, maxfd_})
    /\ UNCHANGED <<ready, active>>

(* Mutant: maxfd_ is reset, but not calculated again.                      *)
MaxReset(fds) == -1

(* removeChannel: the largest descriptor that is left.                     *)
MaxOf(fds) == Max(fds \cup {-1})

removeChannel(fd) ==
    /\ channels_' = channels_ \ {fd}
    /\ readfds_' = readfds_ \ {fd}
    /\ writefds_' = writefds_ \ {fd}
    /\ exceptfds_' = exceptfds_ \ {fd}
    /\ maxfd_' = IF fd = maxfd_ THEN MaxOf(channels_') ELSE maxfd_
    /\ UNCHANGED <<ready, active>>

(* enableReading to disableAll, as in EPollPoller.                         *)
Update(fd) ==
    \E e \in Events :
        \/ updateChannel(fd, events[fd] \cup {e})
        \/ e \in events[fd] /\ updateChannel(fd, events[fd] \ {e})
        \/ e \in events[fd] /\ updateChannel(fd, {})

(* remove(), alone or after disableAll() in a destructor; that disableAll  *)
(* lists a channel only for the remove() that follows.                     *)
Remove(fd) == events' = [events EXCEPT ![fd] = {}] /\ removeChannel(fd)

(* What select looks at for event e.                                       *)
Asked(e) == {fd \in (IF e = "R" THEN readfds_ ELSE writefds_) : fd <= maxfd_}

(* fillActiveChannels looks for the bits in the sets of the object, not in *)
(* the ones that select has returned.                                      *)
Filled(fd) == {e \in Events : fd \in (IF e = "R" THEN readfds_ ELSE writefds_)}

(* poll and fillActiveChannels. urgent: the descriptors with an            *)
(* exceptional condition. channels_ is walked in the order of its hash     *)
(* table until numEvents channels are found. An error is like a timeout.   *)
Poll ==
    \E r \in [Fds -> SUBSET Events] :
    \E urgent \in SUBSET {fd \in exceptfds_ : "R" \in r[fd]} :
    LET numEvents == Cardinality(urgent) + Cardinality({fd \in Asked("R") : "R" \in r[fd]})
                                         + Cardinality({fd \in Asked("W") : "W" \in r[fd]})
        found == {fd \in channels_ : Filled(fd) # {}}
    IN  \E filled \in SUBSET found :
        /\ filled = {} \/ Cardinality(filled) = Min({numEvents, Cardinality(found)})
        /\ ready' = r
        /\ active' = UNION {{fd} \X Filled(fd) : fd \in filled}
        /\ UNCHANGED <<events, channels_, setVars>>

Next == Poll \/ \E fd \in Fds : Update(fd) \/ Remove(fd)

Spec == Init /\ [][Next]_vars

=============================================================================
