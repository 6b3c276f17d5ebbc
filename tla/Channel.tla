------------------------------ MODULE Channel ------------------------------
(***************************************************************************)
(* One Channel (network/Channel.cpp) and its entry in the epoll set of the *)
(* loop that owns it (network/multiplexing/Epoll.cpp).                     *)
(*                                                                         *)
(* A Channel keeps two event masks: the one it asked epoll to watch        *)
(* (epEvent) and the one epoll reported last (event).  The second is only  *)
(* rewritten when epoll reports the channel again, so between two reports  *)
(* it is a memory of the past; IsWriting() reads that memory.              *)
(***************************************************************************)

VARIABLES
  event,      \* event_: the events of the last report of epoll
  epEvent,    \* ep_event_: the events the channel asked for
  chStatus,   \* channel_status_
  inEpoll,    \* the descriptor is in the kernel's interest list ...
  mask        \* ... and these are the events the kernel watches it for

channelVars == <<event, epEvent, chStatus, inEpoll, mask>>

Events == {"IN", "OUT"}
ChannelStatus == {"NEW", "ADDED", "DEL"}

ChannelTypeOK ==
  /\ event \subseteq Events
  /\ epEvent \subseteq Events
  /\ chStatus \in ChannelStatus
  /\ inEpoll \in BOOLEAN
  /\ mask \subseteq Events

ChannelInit ==
  /\ event = {}
  /\ epEvent = {}
  /\ chStatus = "NEW"
  /\ inEpoll = FALSE
  /\ mask = {}

IsWriting == "OUT" \in event

(***************************************************************************)
(* Epoll::UpdateChannel for a channel whose mask and status are about to   *)
(* be ev and st: EPOLL_CTL_ADD, EPOLL_CTL_MOD (which fails for a           *)
(* descriptor that is not in the list) or EPOLL_CTL_DEL.                   *)
(***************************************************************************)
UpdateChannel(ev, st) ==
  /\ epEvent' = ev
  /\ \/ /\ st = "NEW"
        /\ chStatus' = "ADDED"
        /\ inEpoll' = TRUE
        /\ mask' = ev
     \/ /\ st = "ADDED"
        /\ chStatus' = "ADDED"
        /\ mask' = IF inEpoll THEN ev ELSE mask
        /\ UNCHANGED inEpoll
     \/ /\ st = "DEL"
        /\ chStatus' = "NEW"
        /\ inEpoll' = FALSE
        /\ mask' = {}
  /\ UNCHANGED event

\* Mutants: the mask is replaced instead of extended; OUT is never taken back.
EnableWritableOnly == UpdateChannel({"OUT"}, chStatus)
DisableWritableForgotten == UNCHANGED channelVars

EnableReadable  == UpdateChannel(epEvent \cup {"IN"}, chStatus)
EnableWritable  == UpdateChannel(epEvent \cup {"OUT"}, chStatus)
DisableWritable == UpdateChannel(epEvent \ {"OUT"}, chStatus)
DisableAll      == UpdateChannel({}, "DEL")

(***************************************************************************)
(* Epoll::FillActiveSocketVector: a reported channel remembers what was    *)
(* reported; a channel that is not reported keeps its old event mask.      *)
(***************************************************************************)
SetEvent(ev) ==
  /\ event' = ev
  /\ UNCHANGED <<epEvent, chStatus, inEpoll, mask>>

\* Socket::~Socket closes the descriptor, which takes it out of epoll.
CloseFd ==
  /\ inEpoll' = FALSE
  /\ mask' = {}
  /\ UNCHANGED <<event, epEvent, chStatus>>

=============================================================================
