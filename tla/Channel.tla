------------------------------- MODULE Channel -------------------------------
(***************************************************************************)
(* A benet::Channel together with the entry EPoller keeps for it and the   *)
(* kernel's epoll registration of its fd.  The operators are the calls an  *)
(* owner of a channel makes; each maps the record to its new value.        *)
(***************************************************************************)
EXTENDS FiniteSets

Interests == {"R", "W"}   \* kReadEvent, kWriteEvent

Channels ==
  [events     : SUBSET Interests,              \* events_
   index      : {"New", "Added", "Deleted"},   \* index_
   added      : BOOLEAN,                       \* added_in_loop_
   mapped     : BOOLEAN,                       \* EPoller::channels_ holds it
   registered : BOOLEAN,                       \* its fd is in the epoll set
   interest   : SUBSET Interests,              \* the events epoll watches for
   fatal      : BOOLEAN]                       \* an EPOLL_CTL_ADD/MOD failed: exit

\* The constructor; it leaves added_in_loop_ uninitialized.
NewChannels ==
  [events : {{}}, index : {"New"}, added : BOOLEAN, mapped : {FALSE},
   registered : {FALSE}, interest : {{}}, fatal : {FALSE}]

(* update_epoll_operation: ADD of a registered fd (EEXIST) and MOD of an   *)
(* unregistered one (ENOENT) are fatal, DEL of an unregistered one is      *)
(* logged.                                                                 *)
EpollAdd(ch) == [ch EXCEPT !.registered = TRUE, !.interest = ch.events,
                           !.fatal = @ \/ ch.registered]
EpollMod(ch) == [ch EXCEPT !.interest = ch.events, !.fatal = @ \/ ~ch.registered]
EpollDel(ch) == [ch EXCEPT !.registered = FALSE, !.interest = {}]

\* Mutant: a channel taken out of epoll is modified instead of added again.
UpdateChannelNoReadd(ch) ==
  CASE ch.index = "New"                        -> [EpollAdd(ch) EXCEPT !.index = "Added", !.mapped = TRUE]
    [] ch.index # "New" /\ ch.events = {}      -> [EpollDel(ch) EXCEPT !.index = "Deleted"]
    [] ch.index # "New" /\ ch.events # {}      -> EpollMod(ch)

\* EPoller::UpdateChannel.  A new or deleted channel is added even when it wants
\* no event at all; epoll then still reports EPOLLHUP and EPOLLERR.
UpdateChannel(ch) ==
  CASE ch.index = "New"                        -> [EpollAdd(ch) EXCEPT !.index = "Added", !.mapped = TRUE]
    [] ch.index = "Deleted"                    -> [EpollAdd(ch) EXCEPT !.index = "Added"]
    [] ch.index = "Added" /\ ch.events = {}    -> [EpollDel(ch) EXCEPT !.index = "Deleted"]
    [] ch.index = "Added" /\ ch.events # {}    -> EpollMod(ch)

\* Channel::update_events, after the assignment to events_.
SetEvents(ch, events) == UpdateChannel([ch EXCEPT !.events = events, !.added = TRUE])

EnableReadEvent(ch)   == SetEvents(ch, ch.events \cup {"R"})
DisableReadEvent(ch)  == SetEvents(ch, ch.events \ {"R"})
EnableWriteEvent(ch)  == SetEvents(ch, ch.events \cup {"W"})
DisableWriteEvent(ch) == SetEvents(ch, ch.events \ {"W"})
DisableAllEvent(ch)   == SetEvents(ch, {})

IsNoneEvent(ch)  == ch.events = {}
IsReadEvent(ch)  == "R" \in ch.events
IsWriteEvent(ch) == "W" \in ch.events

\* Channel::RemoveFromLoop, whose assert is IsNoneEvent, and EPoller::RemoveChannel.
RemoveFromLoop(ch) ==
  LET gone == IF ch.index = "Added" THEN EpollDel(ch) ELSE ch
  IN  [gone EXCEPT !.index = "New", !.added = FALSE, !.mapped = FALSE]

\* The asserts of ~Channel about its loop.
Destructible(ch) == ~ch.added /\ ~ch.mapped

(* The bookkeeping of Channel and EPoller agrees with the kernel: the      *)
(* channel is registered exactly when its index says so, with exactly the  *)
(* events it asked for last, and no epoll_ctl ever failed fatally.         *)
Consistent(ch) ==
  /\ ch.registered <=> ch.index = "Added"
  /\ ch.registered => ch.interest = ch.events
  /\ ch.index = "Deleted" => ch.events = {}
  /\ ch.mapped <=> ch.index # "New"
  /\ ch.mapped => ch.added
  /\ ~ch.fatal
=============================================================================
