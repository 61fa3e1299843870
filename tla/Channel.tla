------------------------------- MODULE Channel -------------------------------
(***************************************************************************)
(* A Channel and its registration in EPollPoller, as a value and the       *)
(* functions that the Channel methods apply to it:                         *)
(*   events   events_, the interest the program wants                      *)
(*   index    index_, what EPollPoller believes of the registration        *)
(*   added    addedToLoop_                                                 *)
(*   listed   is the channel in EPollPoller::channels_?                    *)
(*   polled, mask   the kernel's side: is the fd in the epoll set, and for *)
(*            which events                                                 *)
(*   fatal    epoll_ctl refused an ADD or a MOD (LOG_FATAL)                *)
(***************************************************************************)
Events == {"R", "W"}     \* kReadEvent, kWriteEvent

ChannelType == [events : SUBSET Events, index : {"kNew", "kAdded", "kDeleted"},
                added : BOOLEAN, listed : BOOLEAN,
                polled : BOOLEAN, mask : SUBSET Events, fatal : BOOLEAN]

NewChannel == [events |-> {}, index |-> "kNew", added |-> FALSE, listed |-> FALSE,
               polled |-> FALSE, mask |-> {}, fatal |-> FALSE]

isNoneEvent(ch) == ch.events = {}
isWriting(ch)   == "W" \in ch.events

-----------------------------------------------------------------------------
(* EPollPoller::update. The kernel refuses to add twice and to modify what *)
(* it does not have; a refused DEL is only logged.                         *)

EpollAdd(ch) == [ch EXCEPT !.polled = TRUE, !.mask = ch.events,
                           !.fatal = @ \/ ch.polled]
EpollMod(ch) == [ch EXCEPT !.mask = ch.events, !.fatal = @ \/ ~ch.polled]
EpollDel(ch) == [ch EXCEPT !.polled = FALSE, !.mask = {}]

(* Mutant: removeChannel trusts that nothing is in the epoll set.          *)
RemoveLeavesSet(ch) == [ch EXCEPT !.listed = FALSE, !.index = "kNew"]

(* Mutant: a channel without events is deleted, but keeps index kAdded.    *)
UpdateKeepsIndex(ch) ==
    CASE ch.index = "kAdded" /\ isNoneEvent(ch) -> EpollDel(ch)
      [] ch.index = "kAdded" /\ ~isNoneEvent(ch) -> EpollMod(ch)
      [] OTHER -> EpollAdd([ch EXCEPT !.index = "kAdded", !.listed = TRUE])

(* EPollPoller::updateChannel. A deleted channel is still listed.          *)
updateChannel(ch) ==
    CASE ch.index = "kAdded" /\ isNoneEvent(ch) -> [EpollDel(ch) EXCEPT !.index = "kDeleted"]
      [] ch.index = "kAdded" /\ ~isNoneEvent(ch) -> EpollMod(ch)
      [] OTHER -> EpollAdd([ch EXCEPT !.index = "kAdded", !.listed = TRUE])

(* EPollPoller::removeChannel.                                             *)
removeChannel(ch) ==
    [(IF ch.index = "kAdded" THEN EpollDel(ch) ELSE ch)
        EXCEPT !.listed = FALSE, !.index = "kNew"]

-----------------------------------------------------------------------------
(* Channel's own methods; each calls update() or removeChannel.            *)

update(ch) == updateChannel([ch EXCEPT !.added = TRUE])

enableReading(ch)  == update([ch EXCEPT !.events = @ \cup {"R"}])
enableWriting(ch)  == update([ch EXCEPT !.events = @ \cup {"W"}])
disableReading(ch) == update([ch EXCEPT !.events = @ \ {"R"}])
disableWriting(ch) == update([ch EXCEPT !.events = @ \ {"W"}])
disableAll(ch)     == update([ch EXCEPT !.events = {}])
remove(ch)         == removeChannel([ch EXCEPT !.added = FALSE])
=============================================================================
