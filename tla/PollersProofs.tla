---------------------------- MODULE PollersProofs ----------------------------
(***************************************************************************)
(* For any finite set of channels: EPollPoller's bookkeeping is the        *)
(* kernel's, EPollPoller implements Poller, and SelectPoller asks select   *)
(* for exactly what its channels want.                                     *)
(***************************************************************************)
EXTENDS Pollers, FiniteSetTheorems, WellFoundedInduction, TLAPS

-----------------------------------------------------------------------------
(* Finite sets of numbers.                                                 *)

(* A set of naturals that is not empty has a least element.                *)
LEMMA LeastNatural ==
    ASSUME NEW T \in SUBSET Nat, T # {}
    PROVE  \E n \in T : \A m \in T : n <= m
<1>1. \E n \in T : \A m \in T : ~(<<m, n>> \in OpToRel(<, Nat))
  BY NatLessThanWellFounded, WFMin
<1>2. ASSUME NEW m \in Nat, NEW n \in Nat, m < n
      PROVE  <<m, n>> \in OpToRel(<, Nat)
  BY <1>2, Zenon DEF OpToRel
<1>3. PICK n \in T : \A m \in T : ~(<<m, n>> \in OpToRel(<, Nat))
  BY <1>1
<1>4. \A m \in T : ~(m < n)
  BY <1>2, <1>3
<1> QED BY <1>4

(* A finite set of numbers that is not empty has a largest element, by a   *)
(* smallest counterexample.                                                *)
LEMMA FiniteSetHasMax ==
    ASSUME NEW S \in SUBSET Int, IsFiniteSet(S), S # {}
    PROVE  \E m \in S : \A s \in S : s <= m
<1> DEFINE HasMax(T) == \E m \in T : \A s \in T : s <= m
           Bad == {n \in Nat : \E T \in SUBSET S : T # {} /\ Cardinality(T) = n /\ ~HasMax(T)}
<1>1. ASSUME Bad # {} PROVE FALSE
  <2>1. PICK n \in Bad : \A m \in Bad : n <= m
    BY <1>1, LeastNatural
  <2>2. PICK T \in SUBSET S : T # {} /\ Cardinality(T) = n /\ ~HasMax(T)
    BY <2>1
  <2>3. PICK x \in T : TRUE
    BY <2>2
  <2>4. /\ IsFiniteSet(T)
        /\ IsFiniteSet(T \ {x})
        /\ Cardinality(T \ {x}) = n - 1
    BY <2>2, <2>3, FS_Subset, FS_RemoveElement
  <2>5. CASE T \ {x} = {}
    <3>1. \A s \in T : s <= x
      BY <2>5
    <3> QED BY <2>2, <2>3, <3>1
  <2>6. CASE T \ {x} # {}
    <3>1. n - 1 \in Nat
      BY <2>4, FS_CardinalityType
    <3>2. n - 1 \notin Bad
      BY <2>1, <3>1
    <3>3. HasMax(T \ {x})
      BY <2>4, <2>6, <3>1, <3>2
    <3>4. PICK m \in T \ {x} : \A s \in T \ {x} : s <= m
      BY <3>3
    <3>5. \A s \in T : s <= (IF m <= x THEN x ELSE m)
      BY <3>4
    <3> QED BY <2>2, <2>3, <3>4, <3>5
  <2> QED BY <2>5, <2>6
<1>2. Cardinality(S) \in Nat /\ S \in SUBSET S
  BY FS_CardinalityType
<1>3. HasMax(S)
  BY <1>1, <1>2
<1> QED BY <1>3

-----------------------------------------------------------------------------
(* What the methods of Channel do to a registration that is in order: it   *)
(* stays so, and it is listed, or not any more.                            *)

(* EPollPoller::updateChannel keeps index and kernel in agreement,         *)
(* whatever the channel now wants.                                         *)
LEMMA UpdateAgrees ==
    ASSUME NEW ch \in ChannelType, Agrees(ch), NEW wanted \in SUBSET Events,
           NEW new, new = update([ch EXCEPT !.events = wanted])
    PROVE  /\ new \in ChannelType
           /\ Agrees(new)
           /\ new.events = wanted
           /\ new.listed
           /\ (~isNoneEvent(ch) => ch.polled) /\ (~isNoneEvent(ch) \/ wanted # {})
                => (new.polled <=> wanted # {})
<1> DEFINE asked == [ch EXCEPT !.events = wanted, !.added = TRUE]
<1>1. new = updateChannel(asked)
  BY DEF update, ChannelType
<1>2. /\ asked \in ChannelType
      /\ asked.events = wanted /\ asked.index = ch.index /\ asked.polled = ch.polled
      /\ asked.mask = ch.mask /\ asked.listed = ch.listed /\ asked.fatal = ch.fatal
  BY DEF ChannelType
<1> HIDE DEF asked
<1>3. CASE ch.index = "kAdded" /\ wanted = {}
  <2>1. updateChannel(asked) = [asked EXCEPT !.polled = FALSE, !.mask = {}, !.index = "kDeleted"]
    BY <1>2, <1>3 DEF updateChannel, isNoneEvent, EpollDel, ChannelType
  <2>2. new \in ChannelType
    BY <1>1, <1>2, <2>1 DEF ChannelType
  <2>3. /\ new.events = wanted /\ new.index = "kDeleted" /\ new.polled = FALSE
        /\ new.listed = ch.listed /\ new.fatal = ch.fatal
    BY <1>1, <1>2, <2>1, ZenonT(30) DEF ChannelType
  <2> QED BY <1>2, <1>3, <2>2, <2>3 DEF Agrees, isNoneEvent
<1>4. CASE ch.index = "kAdded" /\ wanted # {}
  <2>1. updateChannel(asked) = [asked EXCEPT !.mask = wanted, !.fatal = FALSE]
    BY <1>2, <1>4 DEF updateChannel, isNoneEvent, EpollMod, ChannelType, Agrees
  <2>2. new \in ChannelType
    BY <1>1, <1>2, <2>1 DEF ChannelType
  <2>3. /\ new.events = wanted /\ new.index = ch.index /\ new.polled = ch.polled
        /\ new.mask = wanted /\ new.listed = ch.listed /\ new.fatal = FALSE
    BY <1>1, <1>2, <2>1, ZenonT(30) DEF ChannelType
  <2> QED BY <1>2, <1>4, <2>2, <2>3 DEF Agrees, isNoneEvent
<1>5. CASE ch.index # "kAdded"
  <2> DEFINE entered == [asked EXCEPT !.index = "kAdded", !.listed = TRUE]
  <2>1. entered \in ChannelType /\ entered.events = wanted /\ entered.polled = FALSE
        /\ entered.fatal = FALSE /\ entered.index = "kAdded" /\ entered.listed = TRUE
    BY <1>2, <1>5 DEF ChannelType, Agrees
  <2>2. new = EpollAdd(entered)
    BY <1>1, <1>2, <1>5 DEF updateChannel
  <2> HIDE DEF entered
  <2>3. new \in ChannelType
    BY <2>1, <2>2 DEF EpollAdd, ChannelType
  <2>4. /\ new.events = wanted /\ new.index = "kAdded" /\ new.polled = TRUE
        /\ new.mask = wanted /\ new.listed = TRUE /\ new.fatal = FALSE
    BY <2>1, <2>2 DEF EpollAdd, ChannelType
  <2> QED BY <1>2, <1>5, <2>3, <2>4 DEF Agrees, isNoneEvent
<1> QED BY <1>3, <1>4, <1>5

(* removeChannel leaves the channel neither in the map nor in the kernel.  *)
LEMMA RemoveAgrees ==
    ASSUME NEW ch \in ChannelType, Agrees(ch)
    PROVE  /\ remove(ch) \in ChannelType
           /\ Agrees(remove(ch))
           /\ remove(ch).events = ch.events
           /\ ~remove(ch).listed
           /\ ~remove(ch).polled
BY DEF remove, removeChannel, EpollDel, Agrees, ChannelType

-----------------------------------------------------------------------------
(* EPollPoller.                                                            *)

EpollInv == TypeOK /\ PollerAgrees /\ PolledIsWanted

(* A call either updates a channel or removes it.                          *)
Updates(c, new) ==
    /\ Become(c, new)
    /\ new \in ChannelType /\ Agrees(new) /\ new.listed
    /\ new.polled <=> ~isNoneEvent(new)

Removes(c, new) ==
    /\ Become(c, new)
    /\ new \in ChannelType /\ Agrees(new) /\ ~new.listed /\ ~new.polled
    /\ isNoneEvent(new)

(* Each call of the program on a channel ends in updateChannel or in       *)
(* removeChannel.                                                          *)
LEMMA CallUpdatesOrRemoves ==
    ASSUME EpollInv, NEW c \in Channels,
           Enable(c) \/ Disable(c) \/ Remove(c) \/ DisableAndRemove(c)
    PROVE  \E new : Updates(c, new) \/ Removes(c, new)
<1> DEFINE ch == chan[c]
<1>a. ch \in ChannelType /\ Agrees(ch) /\ (ch.polled <=> ~isNoneEvent(ch))
  BY DEF EpollInv, TypeOK, PollerAgrees, PolledIsWanted
<1>b. ch.events \in SUBSET Events
  BY <1>a DEF ChannelType
<1> HIDE DEF ch
<1>u. ASSUME NEW wanted \in SUBSET Events, ~isNoneEvent(ch) \/ wanted # {},
             Become(c, update([ch EXCEPT !.events = wanted]))
      PROVE  \E new : Updates(c, new)
  <2> DEFINE new == update([ch EXCEPT !.events = wanted])
  <2> HIDE DEF new
  <2>1. /\ new \in ChannelType /\ Agrees(new) /\ new.events = wanted /\ new.listed
        /\ new.polled <=> wanted # {}
    BY <1>a, <1>u, UpdateAgrees DEF new
  <2> QED BY <1>u, <2>1 DEF Updates, new, isNoneEvent
<1>1. CASE Enable(c)
  <2>1. ch.events \cup {"R"} \in SUBSET Events /\ ch.events \cup {"W"} \in SUBSET Events
    BY <1>b DEF Events
  <2>2. \/ Become(c, update([ch EXCEPT !.events = ch.events \cup {"R"}]))
        \/ Become(c, update([ch EXCEPT !.events = ch.events \cup {"W"}]))
    BY <1>1 DEF Enable, enableReading, enableWriting, ch
  <2> QED BY <1>u, <2>1, <2>2
<1>2. CASE Disable(c)
  <2>1. ch.events \ {"R"} \in SUBSET Events /\ ch.events \ {"W"} \in SUBSET Events
    BY <1>b
  <2>2. /\ ~isNoneEvent(ch)
        /\ \/ Become(c, update([ch EXCEPT !.events = ch.events \ {"R"}]))
           \/ Become(c, update([ch EXCEPT !.events = ch.events \ {"W"}]))
           \/ Become(c, update([ch EXCEPT !.events = {}]))
    BY <1>2 DEF Disable, disableReading, disableWriting, disableAll, isWriting, isNoneEvent, ch
  <2> QED BY <1>u, <2>1, <2>2
<1>3. CASE Remove(c)
  <2>1. isNoneEvent(ch) /\ Become(c, remove(ch))
    BY <1>3 DEF Remove, ch
  <2> QED BY <1>a, <2>1, RemoveAgrees DEF Removes, isNoneEvent
<1>4. CASE DisableAndRemove(c)
  <2> DEFINE off == disableAll(ch)
  <2>1. off \in ChannelType /\ Agrees(off) /\ off.events = {}
    BY <1>a, UpdateAgrees DEF disableAll
  <2>2. Become(c, remove(off))
    BY <1>4 DEF DisableAndRemove, ch
  <2> HIDE DEF off
  <2> QED BY <2>1, <2>2, RemoveAgrees DEF Removes, isNoneEvent
<1> QED BY <1>1, <1>2, <1>3, <1>4

(* What epoll_wait reports has been asked for by a channel in the set.     *)
LEMMA ReportsAreDue ==
    ASSUME EpollInv, NEW r \in [Channels -> SUBSET (Events \cup {"HUP"})],
           NEW c \in Channels
    PROVE  /\ EpollEvents(c, r) \in SUBSET (Events \cup {"HUP"})
           /\ EpollEvents(c, r) # {} =>
                 /\ chan[c].listed /\ chan[c].events # {}
                 /\ EpollEvents(c, r) = r[c] \cap (chan[c].events \cup {"HUP"})
BY DEF EpollInv, TypeOK, PollerAgrees, PolledIsWanted, Agrees, isNoneEvent, EpollEvents

(* Every step keeps the bookkeeping of EPollPoller that of the kernel.     *)
LEMMA EpollInvStep == EpollInv /\ [Next]_vars => EpollInv'
<1> SUFFICES ASSUME EpollInv, [Next]_vars PROVE EpollInv'
  OBVIOUS
<1>1. CASE Poll
  <2>1. PICK r \in [Channels -> SUBSET (Events \cup {"HUP"})] :
           /\ ready' = r
           /\ \E reported \in SUBSET Channels :
                 active' = UNION {{c} \X EpollEvents(c, r) : c \in reported}
           /\ UNCHANGED chan
    BY <1>1 DEF Poll
  <2>2. active' \in SUBSET (Channels \X (Events \cup {"HUP"}))
    BY <2>1, ReportsAreDue
  <2> QED BY <2>1, <2>2 DEF EpollInv, TypeOK, PollerAgrees, PolledIsWanted
<1>2. ASSUME NEW c \in Channels,
             Enable(c) \/ Disable(c) \/ Remove(c) \/ DisableAndRemove(c)
      PROVE  EpollInv'
  <2>1. PICK new : Updates(c, new) \/ Removes(c, new)
    BY <1>2, CallUpdatesOrRemoves
  <2>2. /\ new \in ChannelType /\ Agrees(new) /\ (new.polled <=> ~isNoneEvent(new))
        /\ chan' = [chan EXCEPT ![c] = new] /\ UNCHANGED <<ready, active>>
    BY <2>1 DEF Updates, Removes, Become
  <2>3. \A d \in Channels : chan'[d] = IF d = c THEN new ELSE chan[d]
    BY <2>2 DEF EpollInv, TypeOK
  <2>4. TypeOK'
    BY <2>2 DEF EpollInv, TypeOK
  <2> QED BY <2>2, <2>3, <2>4 DEF EpollInv, PollerAgrees, PolledIsWanted
<1>3. CASE UNCHANGED vars
  BY <1>3 DEF vars, EpollInv, TypeOK, PollerAgrees, PolledIsWanted
<1> QED BY <1>1, <1>2, <1>3 DEF Next

(* Before the first call no channel is known.                              *)
LEMMA EpollInvInit == Init => EpollInv
<1> SUFFICES ASSUME Init PROVE EpollInv
  OBVIOUS
<1>1. NewChannel \in ChannelType /\ Agrees(NewChannel) /\ ~NewChannel.polled
      /\ isNoneEvent(NewChannel)
  BY DEF NewChannel, ChannelType, Agrees, isNoneEvent
<1>2. \A c \in Channels : chan[c] = NewChannel
  BY DEF Init
<1> QED BY <1>1, <1>2 DEF Init, EpollInv, TypeOK, PollerAgrees, PolledIsWanted

(* A step of both pollers is one of EPollPoller.                           *)
LEMMA PollersStepIsEpollStep == [PollersNext]_pollersVars => [Next]_vars
BY DEF PollersNext, pollersVars

(* The bookkeeping of EPollPoller is that of the kernel in every state.    *)
LEMMA EpollInvHolds == PollersSpec => []EpollInv
<1>1. PollersInit => Init
  BY DEF PollersInit
<1> QED BY <1>1, EpollInvInit, EpollInvStep, PollersStepIsEpollStep, PTL DEF PollersSpec

(* Whatever sequence of enable, disable and remove calls is made of the    *)
(* channels, index_ tells what the epoll set holds, with the events that   *)
(* the channel wants, and no epoll_ctl is refused.                         *)
THEOREM EpollBookkeeping == PollersSpec => []PollerAgrees
<1>1. EpollInv => PollerAgrees
  BY DEF EpollInv
<1> QED BY <1>1, EpollInvHolds, PTL

(* Every step of EPollPoller is one of the abstract Poller, or stutters.   *)
LEMMA AbstractStep == EpollInv /\ [Next]_vars => [Abstract!Next]_(Abstract!pollerVars)
<1> SUFFICES ASSUME EpollInv, [Next]_vars PROVE [Abstract!Next]_(Abstract!pollerVars)
  OBVIOUS
<1> DEFINE listed == {c \in Channels : chan[c].listed}
           interest == [c \in Channels |-> chan[c].events]
<1>1. CASE Poll
  <2>1. PICK r \in [Channels -> SUBSET (Events \cup {"HUP"})] :
           \E reported \in SUBSET {c \in Channels : EpollEvents(c, r) # {}} :
              /\ ready' = r
              /\ active' = UNION {{c} \X EpollEvents(c, r) : c \in reported}
              /\ UNCHANGED chan
    BY <1>1 DEF Poll
  <2>2. PICK reported \in SUBSET {c \in Channels : EpollEvents(c, r) # {}} :
              /\ ready' = r
              /\ active' = UNION {{c} \X EpollEvents(c, r) : c \in reported}
              /\ UNCHANGED chan
    BY <2>1
  <2>3. \A c \in reported : /\ c \in Abstract!Wanting
                            /\ EpollEvents(c, r) = r[c] \cap (interest[c] \cup {"HUP"})
    BY ReportsAreDue DEF Abstract!Wanting
  <2>4. active' \subseteq Abstract!Due(ready')
    BY <2>2, <2>3 DEF Abstract!Due
  <2>5. ready' \in [Channels -> SUBSET Abstract!Revents]
    BY <2>2 DEF Abstract!Revents, Abstract!Events, Events
  <2> QED BY <2>2, <2>4, <2>5 DEF Abstract!Next, Abstract!poll
<1>2. ASSUME NEW c \in Channels,
             Enable(c) \/ Disable(c) \/ Remove(c) \/ DisableAndRemove(c)
      PROVE  Abstract!Next
  <2>1. PICK new : Updates(c, new) \/ Removes(c, new)
    BY <1>2, CallUpdatesOrRemoves
  <2>2. chan' = [chan EXCEPT ![c] = new] /\ UNCHANGED <<ready, active>>
    BY <2>1 DEF Updates, Removes, Become
  <2>3. \A d \in Channels : chan'[d] = IF d = c THEN new ELSE chan[d]
    BY <2>2 DEF EpollInv, TypeOK
  <2>4. interest' = [interest EXCEPT ![c] = new.events]
    BY <2>3
  <2>5. CASE Updates(c, new)
    <3>1. listed' = listed \cup {c}
      BY <2>3, <2>5 DEF Updates
    <3>2. new.events \in SUBSET Abstract!Events
      BY <2>5 DEF Updates, ChannelType, Abstract!Events, Events
    <3>3. Abstract!updateChannelTo(c, new.events)
      BY <2>2, <2>4, <3>1 DEF Abstract!updateChannelTo
    <3> QED BY <3>2, <3>3 DEF Abstract!Next
  <2>6. CASE Removes(c, new)
    <3>1. listed' = listed \ {c}
      BY <2>3, <2>6 DEF Removes
    <3>2. new.events = {}
      BY <2>6 DEF Removes, isNoneEvent
    <3>3. Abstract!removeChannelOf(c)
      BY <2>2, <2>4, <3>1, <3>2 DEF Abstract!removeChannelOf
    <3> QED BY <3>3 DEF Abstract!Next
  <2> QED BY <2>1, <2>5, <2>6
<1>3. CASE UNCHANGED vars
  BY <1>3 DEF vars, Abstract!pollerVars
<1> QED BY <1>1, <1>2, <1>3 DEF Next

(* EPollPoller is a Poller: its channels_ and the channels' interest change *)
(* as a Poller's do, and poll() hands out only events that a listed        *)
(* channel wants and that its descriptor has.                              *)
THEOREM EpollRefinement == PollersSpec => ImplementsPoller
<1>1. PollersInit => Abstract!Init
  BY DEF PollersInit, Init, NewChannel, Abstract!Init
<1> QED
  BY <1>1, AbstractStep, EpollInvHolds, PollersStepIsEpollStep, PTL
  DEF PollersSpec, ImplementsPoller, Abstract!Spec

-----------------------------------------------------------------------------
(* SelectPoller.                                                           *)

(* The descriptor that SelectPoller gives select is the largest one.       *)
LEMMA MaxIsLargest ==
    ASSUME NEW S \in SUBSET Int, IsFiniteSet(S), S # {}
    PROVE  Select!Max(S) \in S /\ \A s \in S : s <= Select!Max(S)
<1>1. \E m \in S : \A s \in S : m >= s
  BY FiniteSetHasMax
<1> QED BY <1>1 DEF Select!Max

(* SelectPoller::updateChannel keeps sets, map and largest descriptor in   *)
(* agreement.                                                              *)
LEMMA UpdateKeepsSelectInv ==
    ASSUME SelectInv, NEW fd \in Channels, NEW wanted \in SUBSET Events,
           Select!updateChannel(fd, wanted)
    PROVE  SelectInv'
<1> USE DEF SelectInv, Select!updateChannel
<1>1. events' \in [Channels -> SUBSET Events]
  OBVIOUS
<1>2. \A d \in Channels : events'[d] = IF d = fd THEN wanted ELSE events[d]
  OBVIOUS
<1>3. /\ readfds_' = {d \in Channels : "R" \in events'[d]}
      /\ writefds_' = {d \in Channels : "W" \in events'[d]}
  BY <1>2 DEF Select!SetIf
<1>4. /\ channels_' = channels_ \cup {fd}
      /\ readfds_' \cup writefds_' \subseteq channels_'
  BY DEF Select!SetIf
<1>5. {fd, maxfd_} \in SUBSET Int /\ IsFiniteSet({fd, maxfd_})
  <2>1. IsFiniteSet({fd} \cup {maxfd_})
    BY FS_Singleton, FS_AddElement
  <2>2. {fd} \cup {maxfd_} = {fd, maxfd_}
    OBVIOUS
  <2> QED BY <2>1, <2>2, DescriptorAssumption
<1>6. maxfd_' \in {fd, maxfd_} /\ fd <= maxfd_' /\ maxfd_ <= maxfd_'
  BY <1>5, MaxIsLargest
<1>7. \A d \in channels_' : d <= maxfd_'
  BY <1>4, <1>5, <1>6, DescriptorAssumption
<1> QED BY <1>1, <1>3, <1>4, <1>6, <1>7

(* SelectPoller::removeChannel keeps them in agreement, also when the      *)
(* largest goes.                                                           *)
LEMMA RemoveKeepsSelectInv ==
    ASSUME SelectInv, NEW fd \in Channels, Select!Remove(fd)
    PROVE  SelectInv'
<1> USE DEF SelectInv, Select!Remove, Select!removeChannel
<1>1. events' \in [Channels -> SUBSET Events]
  OBVIOUS
<1>2. \A d \in Channels : events'[d] = IF d = fd THEN {} ELSE events[d]
  OBVIOUS
<1>3. /\ readfds_' = {d \in Channels : "R" \in events'[d]}
      /\ writefds_' = {d \in Channels : "W" \in events'[d]}
      /\ channels_' \in SUBSET Channels
      /\ readfds_' \cup writefds_' \subseteq channels_'
  BY <1>2
<1>4. CASE fd = maxfd_
  <2>1. channels_' \cup {-1} \in SUBSET Int /\ IsFiniteSet(channels_' \cup {-1})
    <3>1. IsFiniteSet(channels_')
      BY <1>3, DescriptorAssumption, FS_Subset
    <3>2. IsFiniteSet(channels_' \cup {-1})
      BY <3>1, FS_AddElement
    <3> QED BY <1>3, <3>2, DescriptorAssumption
  <2>2. maxfd_' = Select!Max(channels_' \cup {-1})
    BY <1>4 DEF Select!MaxOf
  <2>3. maxfd_' \in channels_' \cup {-1} /\ \A d \in channels_' : d <= maxfd_'
    BY <2>1, <2>2, MaxIsLargest
  <2> QED BY <1>1, <1>3, <2>3
<1>5. CASE fd # maxfd_
  BY <1>1, <1>3, <1>5
<1> QED BY <1>4, <1>5

(* Every step keeps the sets of SelectPoller in agreement with its         *)
(* channels.                                                               *)
LEMMA SelectInvStep == SelectInv /\ [PollersNext]_pollersVars => SelectInv'
<1> SUFFICES ASSUME SelectInv, [PollersNext]_pollersVars PROVE SelectInv'
  OBVIOUS
<1>1. CASE Select!Poll
  BY <1>1 DEF Select!Poll, Select!setVars, SelectInv
<1>2. ASSUME NEW fd \in Channels, Select!Update(fd) PROVE SelectInv'
  <2>1. PICK e \in Events : \/ Select!updateChannel(fd, events[fd] \cup {e})
                           \/ Select!updateChannel(fd, events[fd] \ {e})
                           \/ Select!updateChannel(fd, {})
    BY <1>2 DEF Select!Update, Select!Events, Events
  <2>2. events[fd] \cup {e} \in SUBSET Events /\ events[fd] \ {e} \in SUBSET Events
    BY DEF SelectInv
  <2> QED BY <2>1, <2>2, UpdateKeepsSelectInv
<1>3. ASSUME NEW fd \in Channels, Select!Remove(fd) PROVE SelectInv'
  BY <1>3, RemoveKeepsSelectInv
<1>4. CASE UNCHANGED selectVars
  BY <1>4 DEF selectVars, SelectInv
<1> QED BY <1>1, <1>2, <1>3, <1>4 DEF PollersNext, Select!Next, pollersVars

(* SelectPoller hands select exactly the descriptors that want to be read  *)
(* or written, and an nfds that covers them all, however channels come and *)
(* go, the largest one included.                                           *)
THEOREM SelectAsks == PollersSpec => [](SelectInv /\ AsksForInterest)
<1>1. PollersInit => SelectInv
  BY DEF PollersInit, Select!Init, SelectInv
<1>2. SelectInv => AsksForInterest
  BY DescriptorAssumption DEF SelectInv, AsksForInterest, Select!Asked, Events
<1> QED BY <1>1, <1>2, SelectInvStep, PTL DEF PollersSpec
=============================================================================
