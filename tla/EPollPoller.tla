----------------------------- MODULE EPollPoller -----------------------------
(***************************************************************************)
(* EPollPoller under any sequence of calls that the program makes of a     *)
(* Channel: it disables what is enabled, removes a channel without events  *)
(* that was added, and the destructors of Acceptor, TimerQueue and         *)
(* EventLoop call disableAll() and remove() in any state, also on a        *)
(* channel that was never added. How events_ grows is in EventLoop.        *)
(***************************************************************************)
EXTENDS Channel

CONSTANT Channels

VARIABLES chan,      \* the channels with their registration
          ready,     \* the kernel at the last poll
          active     \* activeChannels_ with their revents_

vars == <<chan, ready, active>>

Init ==
    /\ chan = [c \in Channels |-> NewChannel]
    /\ ready = [c \in Channels |-> {}] /\ active = {}

Become(c, ch) == chan' = [chan EXCEPT ![c] = ch] /\ UNCHANGED <<ready, active>>

Enable(c) == Become(c, enableReading(chan[c])) \/ Become(c, enableWriting(chan[c]))

Disable(c) ==
    \/ "R" \in chan[c].events /\ Become(c, disableReading(chan[c]))
    \/ isWriting(chan[c]) /\ Become(c, disableWriting(chan[c]))
    \/ ~isNoneEvent(chan[c]) /\ Become(c, disableAll(chan[c]))

Remove(c) ==
    /\ isNoneEvent(chan[c]) /\ chan[c].listed
    /\ Become(c, remove(chan[c]))

DisableAndRemove(c) == Become(c, remove(disableAll(chan[c])))

(* What epoll_wait has to report of channel c.                             *)
EpollEvents(c, r) == IF chan[c].polled THEN r[c] \cap (chan[c].mask \cup {"HUP"}) ELSE {}

(* poll and fillActiveChannels: epoll_wait fills the list with channels    *)
(* that have events, or it times out or is interrupted.                    *)
Poll ==
    \E r \in [Channels -> SUBSET (Events \cup {"HUP"})] :
    LET have == {c \in Channels : EpollEvents(c, r) # {}} IN
    \E reported \in SUBSET have :
        /\ ready' = r
        /\ active' = UNION {{c} \X EpollEvents(c, r) : c \in reported}
        /\ UNCHANGED chan

Next ==
    \/ Poll
    \/ \E c \in Channels : Enable(c) \/ Disable(c) \/ Remove(c) \/ DisableAndRemove(c)

Spec == Init /\ [][Next]_vars

-----------------------------------------------------------------------------
(* The poller's bookkeeping is the kernel's: a channel is in the epoll set *)
(* exactly when its index_ says kAdded, with the mask the program wants,   *)
(* it is listed until removeChannel, and no ADD or MOD is ever refused.    *)
Agrees(ch) ==
    /\ ch.polled <=> ch.index = "kAdded"
    /\ ch.polled => ch.mask = ch.events
    /\ ch.listed <=> ch.index # "kNew"
    /\ ~ch.fatal

PollerAgrees == \A c \in Channels : Agrees(chan[c])

(* Between two calls a channel is in the epoll set exactly while it wants  *)
(* something.                                                              *)
PolledIsWanted == \A c \in Channels : chan[c].polled <=> ~isNoneEvent(chan[c])

TypeOK ==
    /\ chan \in [Channels -> ChannelType]
    /\ ready \in [Channels -> SUBSET (Events \cup {"HUP"})]
    /\ active \in SUBSET (Channels \X (Events \cup {"HUP"}))

(* EPollPoller is a Poller: what it reports are events that the channel    *)
(* still wants and that its descriptor has.                                *)
Abstract == INSTANCE Poller WITH
    listed   <- {c \in Channels : chan[c].listed},
    interest <- [c \in Channels |-> chan[c].events]
ImplementsPoller == Abstract!Spec
=============================================================================
