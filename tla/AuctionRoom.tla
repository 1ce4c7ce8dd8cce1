----------------------------- MODULE AuctionRoom -----------------------------
(***************************************************************************)
(* What the clients of an auction's room are shown.  The module adds to      *)
(* Bidding the way of an event from Redis Pub/Sub to the sockets             *)
(* (redis.service.ts, the pmessage handler) and the rest of                  *)
(* handleJoinAuction (auction.gateway.ts) after getAuctionState.             *)
(*                                                                           *)
(* One gateway is modelled, with the sockets that are connected to it: each  *)
(* gateway subscribes to all events and emits to its own sockets (the Redis  *)
(* adapter of Socket.IO is never installed).  Each call of getAuctionState   *)
(* in Bidding is the join of one client here.                                *)
(***************************************************************************)
EXTENDS Bidding

VARIABLES
  channel,  \* events published on auction_updates:<id> and not received yet, oldest first
  told,     \* history: what the events that left the channel say of the auction
  place,    \* per client: not in the room yet, in it, left out of it by a failing join, gone
  view,     \* per client: what it has been sent last
  read,     \* history: per client: was the state it loaded older than what had been told by then?
  behind    \* history: clients of the room that an event has missed

historyVars == <<read, behind>>
roomVars == <<channel, told, place, view, historyVars>>
allVars == <<vars, roomVars>>

OpenRoom == [highest |-> 0, winner |-> None, isOpen |-> TRUE]

RoomInit ==
  /\ Init
  /\ channel = <<>>
  /\ told = OpenRoom
  /\ place = [j \in Joiners |-> "outside"]
  /\ view = [j \in Joiners |-> None]
  /\ read = [j \in Joiners |-> "current"]
  /\ behind = {}

-----------------------------------------------------------------------------
(* Events *)

BidEvent(m) == [event |-> "newBid", amount |-> m.amount, user |-> m.user]
EndEvent(s) == [event |-> "auctionEnd", amount |-> s.amount, user |-> s.user]

\* Mutated form of After: the payload of newBid has no bidder.
AfterWithoutBidder(r, events) ==
  [highest |-> events[Len(events)].amount,
   winner |-> None,
   isOpen |-> r.isOpen /\ \A i \in DOMAIN events : events[i].event = "newBid"]

\* What a client that shows r shows after events, of which there is at least one.
After(r, events) ==
  [highest |-> events[Len(events)].amount,
   winner |-> events[Len(events)].user,
   isOpen |-> r.isOpen /\ \A i \in DOMAIN events : events[i].event = "newBid"]

\* placeBid and endAuction publish.
AnnounceBid(w) ==
  /\ PublishNewBid(w)
  /\ channel' = Append(channel, BidEvent(Current(w)))
  /\ UNCHANGED <<told, place, view, historyVars>>

AnnounceEnd(c) ==
  /\ EndPublish(c)
  /\ channel' = Append(channel, EndEvent(summary[c]))
  /\ UNCHANGED <<told, place, view, historyVars>>

\* State r is from before an event that t tells of.
Older(r, t) == r.highest < t.highest \/ (r.isOpen /\ ~t.isOpen)

\* Every other step of Bidding.  When it gives a state to a join, it is noted whether that
\* state is older than what has been told, and whether it is from the cache or the row.
Unannounced ==
  /\ Next
  /\ \A w \in Workers : ~(pc[w] = "publish" /\ pc'[w] = "cache")
  /\ \A c \in Admins : ~(endPc[c] = "publish" /\ endPc'[c] = "cache")
  /\ read' = [j \in Joiners |-> IF loaded'[j] \in {loaded[j], None} THEN read[j]
                               ELSE IF ~Older(loaded'[j], told) THEN "current"
                               ELSE IF joinPc[j] = "start" THEN "staleCache" ELSE "staleRow"]
  /\ UNCHANGED <<channel, told, place, view, behind>>

-----------------------------------------------------------------------------
(* The subscriber of the gateway *)

InRoom == {j \in Joiners : place[j] = "room"}

\* An event is emitted to the sockets that are in the room.
Emit(e) ==
  view' = [j \in Joiners |-> IF j \in InRoom THEN After(view[j], <<e>>) ELSE view[j]]

\* As long as the end has not been told, a client of the room to which an event is emitted
\* has caught up, whatever it has missed.
CatchUp ==
  /\ behind' = IF told.isOpen THEN behind \ InRoom ELSE behind
  /\ read' = [j \in Joiners |-> IF told.isOpen /\ j \in InRoom THEN "current" ELSE read[j]]

\* Mutated form of Deliver: the newest event is taken first.
DeliverNewest ==
  LET last == channel[Len(channel)] IN
    /\ channel # <<>>
    /\ channel' = SubSeq(channel, 1, Len(channel) - 1)
    /\ told' = After(told, <<last>>)
    /\ Emit(last)
    /\ place' = [j \in Joiners |->
                   IF j \in InRoom /\ last.event = "auctionEnd" THEN "gone" ELSE place[j]]
    /\ CatchUp
    /\ UNCHANGED vars

\* Mutated form of Deliver: auctionEnd does not disconnect the sockets of the room.
DeliverOnly ==
  /\ channel # <<>>
  /\ channel' = Tail(channel)
  /\ told' = After(told, <<Head(channel)>>)
  /\ Emit(Head(channel))
  /\ CatchUp
  /\ UNCHANGED <<vars, place>>

\* auctionEnd disconnects all sockets of the room.
Deliver ==
  /\ channel # <<>>
  /\ channel' = Tail(channel)
  /\ told' = After(told, <<Head(channel)>>)
  /\ Emit(Head(channel))
  /\ place' = [j \in Joiners |->
                 IF j \in InRoom /\ Head(channel).event = "auctionEnd" THEN "gone" ELSE place[j]]
  /\ CatchUp
  /\ UNCHANGED vars

\* The subscriber's connection breaks.  Pub/Sub keeps nothing for it: what is on its
\* way is lost.
LoseEvents ==
  /\ Fault
  /\ channel # <<>>
  /\ channel' = <<>>
  /\ told' = After(told, channel)
  /\ behind' = behind \cup InRoom
  /\ UNCHANGED <<place, view, read>>
  /\ UNCHANGED <<topicVars, workerVars, dbVars, cache, eventVars, endVars, joinVars>>

-----------------------------------------------------------------------------
(* handleJoinAuction, once getAuctionState has returned *)

Loaded(j) == joinPc[j] = "done" /\ place[j] = "outside"

\* The auction does not exist: the client is disconnected.
TurnAway(j) ==
  /\ Loaded(j)
  /\ loaded[j] = None
  /\ place' = [place EXCEPT ![j] = "gone"]
  /\ UNCHANGED <<vars, channel, told, view, historyVars>>

\* A call to Redis fails before the socket enters the room: it stays connected, and
\* outside.
JoinFails(j) ==
  /\ Fault
  /\ Loaded(j)
  /\ loaded[j] # None
  /\ place' = [place EXCEPT ![j] = "failed"]
  /\ UNCHANGED <<channel, told, view, historyVars>>
  /\ UNCHANGED <<topicVars, workerVars, dbVars, cache, eventVars, endVars, joinVars>>

\* The state that j loaded was as new as what had been told, and an event has come since.
MissedSinceRead(j) == read[j] = "current" /\ Older(loaded[j], told)

\* The socket enters the room and is sent the state that was loaded; if that state is
\* closed, it is disconnected.
Enter(j) ==
  /\ Loaded(j)
  /\ loaded[j] # None
  /\ view' = [view EXCEPT ![j] = loaded[j]]
  /\ place' = [place EXCEPT ![j] = IF loaded[j].isOpen THEN "room" ELSE "gone"]
  /\ behind' = IF MissedSinceRead(j) THEN behind \cup {j} ELSE behind
  /\ UNCHANGED <<vars, channel, told, read>>

\* The client leaves, or loses its connection, also while its join is in progress.
Leave(j) ==
  /\ joinPc[j] # "start"
  /\ place[j] \in {"outside", "room"}
  /\ place' = [place EXCEPT ![j] = "gone"]
  /\ UNCHANGED <<vars, channel, told, view, historyVars>>

-----------------------------------------------------------------------------
(* The specification *)

RoomNext ==
  \/ \E w \in Workers : AnnounceBid(w)
  \/ \E c \in Admins : AnnounceEnd(c)
  \/ Unannounced
  \/ Deliver
  \/ LoseEvents
  \/ \E j \in Joiners : TurnAway(j) \/ JoinFails(j) \/ Enter(j) \/ Leave(j)

RoomSafeSpec == RoomInit /\ [][RoomNext]_allVars

\* The gateway keeps receiving.  Nobody has to join or to leave.
RoomSpec == RoomSafeSpec /\ Fairness /\ WF_allVars(Deliver)

-----------------------------------------------------------------------------
(* Properties *)

\* Clients to which the cache gave a state from before an event that was past.
Misled == {j \in Joiners : read[j] = "staleCache"}

\* Every Bid row was announced: no consumer died between its commit and its newBid.
Announced == \A i \in DOMAIN bids : \E n \in newBids : n.req = bids[i].req

\* A client in the room is shown an open auction.  Once nothing is on its way, it is
\* shown what the Auction row says.  The exceptions are a bid that was never announced and
\* two kinds of client: one that an event has missed, because it came between the client's
\* read of the state and its entry into the room or was lost; and one that joined after an
\* event, and to which the cache gave the state from before it (a late cache write or fill).
\* A client that read the row is never of the second kind.  Both kinds catch up with the
\* next bid.
RoomShowsTheRow ==
  /\ \A j \in InRoom : view[j].isOpen
  /\ Quiet /\ channel = <<>> /\ Announced =>
       \A j \in InRoom \ (behind \cup Misled) : view[j] = LoadedRoom

\* The bid that a client of the room is shown falls only while a bid that is at least
\* as high as the one it was shown is on its way to it, or was never announced.
ShownBidRecovers ==
  [][\A j \in Joiners :
       place[j] = "room" /\ place'[j] = "room" /\ view'[j].highest < view[j].highest =>
         \/ \E i \in DOMAIN channel' : channel'[i].amount >= view[j].highest
         \/ ~Announced']_allVars

\* A client that is in the room when the auction is closed is told so and disconnected,
\* unless auctionEnd has missed it, the cache let it in after auctionEnd as to an open
\* auction, or the call that closed the auction died.
RoomIsToldOfTheEnd ==
  \A j \in Joiners :
    (place[j] = "room" /\ ~auction.isOpen) ~>
      \/ place[j] = "gone"
      \/ j \in behind \cup Misled /\ ~told.isOpen
      \/ \E c \in Admins : endPc[c] = "failed"
=============================================================================
