-------------------------- MODULE AuctionRoomProofs --------------------------
(***************************************************************************)
(* Theorems about AuctionRoom, for every number of bids, of calls of         *)
(* endAuction, of clients and of faults, and one consumer of the bids.       *)
(***************************************************************************)
EXTENDS AuctionRoom, BiddingProofs

-----------------------------------------------------------------------------
(* The bids under the room *)

\* What the theorems of Bidding rest on.
Base ==
  /\ TypeOK /\ RowInv /\ CacheInv /\ PublishInv
  /\ BidsAscend /\ FirstCopies /\ RowsFromLog

\* A step of the subscriber or of a join that meets with a fault.
FaultOnly ==
  /\ Fault
  /\ UNCHANGED <<topicVars, workerVars, dbVars, cache, eventVars, endVars, joinVars>>

\* What a step of the room does to the bids.
LEMMA RoomSteps ==
  ASSUME [RoomNext]_allVars
  PROVE  [Next]_vars \/ FaultOnly
  <1>1. ASSUME NEW w \in Workers, AnnounceBid(w) PROVE Next
    BY <1>1 DEF AnnounceBid, Next, PlaceBidStep
  <1>2. ASSUME NEW c \in Admins, AnnounceEnd(c) PROVE Next
    BY <1>2 DEF AnnounceEnd, Next, EndAuctionStep
  <1>3. CASE LoseEvents
    BY <1>3 DEF LoseEvents, FaultOnly
  <1>4. ASSUME NEW j \in Joiners, JoinFails(j) PROVE FaultOnly
    BY <1>4 DEF JoinFails, FaultOnly
  <1>5. ASSUME NEW j \in Joiners, TurnAway(j) \/ Enter(j) \/ Leave(j) PROVE UNCHANGED vars
    BY <1>5 DEF TurnAway, Enter, Leave
  <1>6. CASE Unannounced \/ Deliver \/ UNCHANGED allVars
    BY <1>6 DEF Unannounced, Deliver, allVars
  <1> QED BY <1>1, <1>2, <1>3, <1>4, <1>5, <1>6 DEF RoomNext

LEMMA BaseInit == Init => Base
  <1>1. Init => TypeOK
    BY TypesInit
  <1>2. Init => BidsAscend /\ FirstCopies /\ RowsFromLog
    BY DEF Init, BidsAscend, FirstCopies, RowsFromLog
  <1> QED BY <1>1, <1>2, RowInit, CacheInit, PublishInit DEF Base

\* A fault of the room leaves the bids as they are.
LEMMA FaultKeeps ==
  ASSUME FaultOnly
  PROVE  /\ TypeOK => TypeOK'
         /\ RowInv => RowInv'
         /\ CacheInv => CacheInv'
         /\ PublishInv => PublishInv'
         /\ BidsAscend /\ FirstCopies /\ RowsFromLog => (BidsAscend /\ FirstCopies /\ RowsFromLog)'
  <1> USE DEF topicVars, workerVars, dbVars, eventVars, endVars, joinVars
  <1>1. UNCHANGED <<log, committed, owner, pos, pc, auction, bids, rowsAtClose, cache,
                    newBids, endings, rejects, endPc, summary, joinPc, loaded>>
    BY DEF FaultOnly
  <1>2. ASSUME TypeOK PROVE TypeOK'
    <2>1. faults' \in 0 .. MaxFaults
      BY <1>2, BoundsAssumption DEF FaultOnly, Fault, TypeOK
    <2> QED BY <1>1, <1>2, <2>1 DEF TypeOK
  <1>3. RowInv => RowInv'
    BY <1>1 DEF RowInv, SoleWriter, WriterBeats, InCents, HighestIsTopBid, Current
  <1>4. CacheInv => CacheInv'
    BY <1>1 DEF CacheInv, Shows, RoomSound, Current
  <1>5. PublishInv => PublishInv'
    BY <1>1 DEF PublishInv, HasRow, Current
  <1>6. BidsAscend /\ FirstCopies /\ RowsFromLog => (BidsAscend /\ FirstCopies /\ RowsFromLog)'
    BY <1>1 DEF BidsAscend, FirstCopies, RowsFromLog
  <1> QED BY <1>2, <1>3, <1>4, <1>5, <1>6

LEMMA BaseStep ==
  ASSUME ~TxOutlivesSession, WholeCents, Base, [RoomNext]_allVars
  PROVE  Base'
  <1>1. CASE [Next]_vars
    BY <1>1, TypesStep, RowStep, CacheStep, PublishStep, LogStep, AscendStep DEF Base
  <1>2. CASE FaultOnly
    BY <1>2, FaultKeeps DEF Base
  <1> QED BY <1>1, <1>2, RoomSteps

\* The bids keep their invariant under the steps of the room.
LEMMA BaseInvariant == ASSUME ~TxOutlivesSession, WholeCents PROVE RoomSafeSpec => []Base
  <1>1. RoomInit => Base
    BY BaseInit DEF RoomInit
  <1>2. Base /\ [RoomNext]_allVars => Base'
    BY BaseStep
  <1> QED BY <1>1, <1>2, PTL DEF RoomSafeSpec

-----------------------------------------------------------------------------
(* The channel *)

Events == [event : {"newBid", "auctionEnd"}, amount : Int, user : Bidders \cup {None}]

\* The events on their way, and what the events before them say.
ChannelTypes == channel \in Seq(Events) /\ told \in Rooms

\* The event of bid n is on its way.
OnWay(n) == \E i \in DOMAIN channel : channel[i] = BidEvent(n)

IsBid(i) == channel[i].event = "newBid"

\* The newBid events that are on their way are of bids that were published; they ascend, and
\* are above all that are past.
EventsAscend ==
  /\ \A i \in DOMAIN channel : IsBid(i) => \E n \in newBids : channel[i] = BidEvent(n)
  /\ \A i, k \in DOMAIN channel : i < k /\ IsBid(i) /\ IsBid(k) => channel[i].amount < channel[k].amount
  /\ \A n \in newBids : OnWay(n) \/ \A i \in DOMAIN channel : IsBid(i) => n.amount < channel[i].amount

\* As long as no auctionEnd is past, what was told is the highest bid that is.
ToldIsHighest == told.isOpen => \A n \in newBids : OnWay(n) \/ n.amount <= told.highest

\* When the auction is closed, the call that closed it is to announce this, has done so, or
\* has died.
EndIsAnnounced ==
  ~auction.isOpen =>
    \/ ~told.isOpen
    \/ \E i \in DOMAIN channel : ~IsBid(i)
    \/ \E c \in Admins : endPc[c] \in {"publish", "failed"}

ChannelInv == ChannelTypes /\ EventsAscend /\ ToldIsHighest /\ EndIsAnnounced

\* An event that is published comes last.
LEMMA PublishEffect ==
  ASSUME ChannelTypes, NEW e \in Events, channel' = Append(channel, e)
  PROVE  /\ channel' \in Seq(Events)
         /\ Len(channel) + 1 \in DOMAIN channel' /\ channel'[Len(channel) + 1] = e
         /\ \A i \in DOMAIN channel : i \in DOMAIN channel' /\ channel'[i] = channel[i] /\ i < Len(channel) + 1
         /\ \A i \in DOMAIN channel' : i \in DOMAIN channel \/ i = Len(channel) + 1
         /\ DOMAIN channel \subseteq Int /\ Len(channel) + 1 \in Int
  BY DEF ChannelTypes

\* The oldest event is delivered, and the others move up.
LEMMA DeliverEffect ==
  ASSUME ChannelTypes, Deliver
  PROVE  /\ channel' \in Seq(Events)
         /\ 1 \in DOMAIN channel /\ channel[1] \in Events
         /\ \A i \in DOMAIN channel' : i + 1 \in DOMAIN channel /\ channel'[i] = channel[i + 1] /\ i + 1 > 1 /\ i \in Int
         /\ \A i \in DOMAIN channel : i # 1 => i - 1 \in DOMAIN channel' /\ channel'[i - 1] = channel[i] /\ 1 < i
         /\ told' = [highest |-> channel[1].amount, winner |-> channel[1].user,
                     isOpen |-> (told.isOpen /\ IsBid(1))]
         /\ told'.isOpen <=> told.isOpen /\ IsBid(1)
         /\ told' \in Rooms
  <1>1. channel \in Seq(Events) /\ channel # <<>> /\ channel' = Tail(channel) /\ told \in Rooms
    BY DEF ChannelTypes, Deliver
  <1>2. 1 \in DOMAIN channel /\ Head(channel) = channel[1] /\ channel[1] \in Events
    BY <1>1
  <1>3. Len(<<Head(channel)>>) = 1 /\ DOMAIN <<Head(channel)>> = {1} /\ <<Head(channel)>>[1] = channel[1]
    BY <1>2
  <1>4. told' = [highest |-> channel[1].amount, winner |-> channel[1].user,
                 isOpen |-> (told.isOpen /\ IsBid(1))]
    BY <1>3 DEF Deliver, After, IsBid
  <1>5. told' \in Rooms
    BY <1>1, <1>2, <1>4 DEF Rooms, Events, IsBid
  <1>6. channel' \in Seq(Events)
    BY <1>1
  <1>7. \A i \in DOMAIN channel' : i + 1 \in DOMAIN channel /\ channel'[i] = channel[i + 1] /\ i + 1 > 1 /\ i \in Int
    BY <1>1
  <1>8. ASSUME NEW i \in DOMAIN channel, i # 1
        PROVE  i - 1 \in DOMAIN channel' /\ channel'[i - 1] = channel[i] /\ 1 < i
    <2>1. i \in 1 .. Len(channel) /\ i - 1 \in 1 .. Len(channel) - 1
      BY <1>1, <1>8
    <2>2. DOMAIN channel' = 1 .. Len(channel) - 1
      BY <1>1
    <2>3. channel'[i - 1] = channel[(i - 1) + 1]
      BY <1>7, <2>1, <2>2
    <2> QED BY <2>1, <2>2, <2>3
  <1>9. told'.isOpen <=> told.isOpen /\ IsBid(1)
    BY <1>4
  <1> QED BY <1>2, <1>4, <1>5, <1>6, <1>7, <1>8, <1>9

\* When events are lost, the last of them is what they would have told last.
LEMMA LoseEffect ==
  ASSUME ChannelTypes, LoseEvents
  PROVE  /\ channel' = <<>> /\ Len(channel) \in DOMAIN channel
         /\ \A i \in DOMAIN channel : i <= Len(channel) /\ i \in Int
         /\ told'.highest = channel[Len(channel)].amount
         /\ told'.winner = channel[Len(channel)].user
         /\ told'.isOpen <=> told.isOpen /\ \A i \in DOMAIN channel : IsBid(i)
         /\ told' \in Rooms
  <1>1. channel \in Seq(Events) /\ channel # <<>> /\ channel' = <<>> /\ told \in Rooms
    BY DEF ChannelTypes, LoseEvents
  <1>2. /\ Len(channel) \in DOMAIN channel /\ channel[Len(channel)] \in Events
        /\ \A i \in DOMAIN channel : i <= Len(channel) /\ i \in Int
    BY <1>1
  <1>3. told' = [highest |-> channel[Len(channel)].amount, winner |-> channel[Len(channel)].user,
                 isOpen |-> (told.isOpen /\ \A i \in DOMAIN channel : IsBid(i))]
    BY DEF LoseEvents, After, IsBid
  <1>4. told' \in Rooms
    BY <1>1, <1>2, <1>3 DEF Rooms, Events
  <1> QED BY <1>1, <1>2, <1>3, <1>4

\* What a step does to the channel and to what feeds it: a bid or an end is published, the
\* oldest event is delivered, all are lost, or none of this.
LEMMA ChannelCases ==
  ASSUME TypeOK, [RoomNext]_allVars
  PROVE  \/ \E w \in Workers : AnnounceBid(w)
         \/ \E c \in Admins : AnnounceEnd(c)
         \/ Deliver
         \/ LoseEvents
         \/ UNCHANGED <<channel, told, newBids>> /\ ~\E c \in Admins : endPc[c] = "publish" /\ endPc'[c] = "cache"
  <1> USE DEF topicVars, workerVars, dbVars, eventVars, endVars, joinVars, roomVars
  <1>1. CASE Unannounced
    <2>1. ASSUME newBids' # newBids PROVE FALSE
      <3>1. [Next]_vars
        BY <1>1 DEF Unannounced
      <3>2. PICK w \in Workers : PublishNewBid(w) /\ pc[w] = "publish"
        BY <2>1, <3>1, AnnounceStep
      <3>3. pc'[w] = "cache"
        BY <3>2 DEF PublishNewBid, TypeOK
      <3> QED BY <1>1, <3>2, <3>3 DEF Unannounced
    <2> QED BY <1>1, <2>1 DEF Unannounced
  <1>2. CASE \/ UNCHANGED allVars
             \/ \E j \in Joiners : TurnAway(j) \/ JoinFails(j) \/ Enter(j) \/ Leave(j)
    <2>1. UNCHANGED <<channel, told, newBids, endPc>>
      BY <1>2 DEF allVars, vars, TurnAway, JoinFails, Enter, Leave
    <2> QED BY <2>1
  <1> QED BY <1>1, <1>2 DEF RoomNext

\* The bid that is announced is above all that were announced before.
LEMMA BidAnnounced ==
  ASSUME OneConsumer, Base, NEW w \in Workers, AnnounceBid(w)
  PROVE  /\ newBids' = newBids \cup {Current(w)} /\ channel' = Append(channel, BidEvent(Current(w)))
         /\ Current(w).amount \in Int /\ BidEvent(Current(w)) \in Events
         /\ \A n \in newBids : n.amount < Current(w).amount
         /\ UNCHANGED <<told, auction, endPc, place, view, behind, bids, loaded, joinPc>>
  <1>1. pc[w] = "publish" /\ newBids' = newBids \cup {Current(w)}
        /\ channel' = Append(channel, BidEvent(Current(w)))
        /\ UNCHANGED <<told, auction, endPc, place, view, behind, bids, loaded, joinPc>>
    BY DEF AnnounceBid, PublishNewBid, dbVars, endVars, joinVars, historyVars
  <1>2. Current(w) \in Messages /\ Current(w).amount \in Int
    BY <1>1, CurrentType DEF Base, TypeOK
  <1>3. BidEvent(Current(w)) \in Events
    BY <1>2 DEF BidEvent, Events, Messages
  <1>4. Current(w).amount = auction.highest
    BY <1>1 DEF Base, PublishInv
  <1>5. \A n \in newBids : n.amount < Current(w).amount
    BY <1>1, <1>4 DEF Base, PublishInv
  <1> QED BY <1>1, <1>2, <1>3, <1>5

\* ChannelInv is kept by every step.
LEMMA ChannelStep ==
  ASSUME ~TxOutlivesSession, WholeCents, OneConsumer, Base, ChannelInv, [RoomNext]_allVars
  PROVE  ChannelInv'
  <1>0. /\ TypeOK /\ ChannelTypes /\ \A i \in DOMAIN channel : channel[i].amount \in Int
        /\ \A n \in newBids : n.amount \in Int
    <2>1. \A i \in DOMAIN channel : channel[i] \in Events
      BY DEF ChannelInv, ChannelTypes
    <2>2. \A n \in newBids : n.amount \in Int
      BY AmountsAssumption DEF Base, TypeOK, Messages
    <2> QED BY <2>1, <2>2 DEF Events, Base, ChannelInv
  <1>1. ASSUME NEW w \in Workers, AnnounceBid(w) PROVE ChannelInv'
    <2>0. PICK m : m = Current(w)
      OBVIOUS
    <2> DEFINE last == Len(channel) + 1
    <2>1. /\ newBids' = newBids \cup {m} /\ channel' = Append(channel, BidEvent(m))
          /\ m.amount \in Int /\ BidEvent(m) \in Events
          /\ \A n \in newBids : n.amount < m.amount
          /\ UNCHANGED <<told, auction, endPc>>
      BY <1>1, <2>0, BidAnnounced
    <2>2. BidEvent(m).event = "newBid" /\ BidEvent(m).amount = m.amount
      BY DEF BidEvent
    <2>3. /\ channel' \in Seq(Events)
          /\ last \in DOMAIN channel' /\ channel'[last] = BidEvent(m)
          /\ \A i \in DOMAIN channel : i \in DOMAIN channel' /\ channel'[i] = channel[i] /\ i < last
          /\ \A i \in DOMAIN channel' : i \in DOMAIN channel \/ i = last
          /\ DOMAIN channel \subseteq Int /\ last \in Int
      BY <1>0, <2>1, PublishEffect
    <2> HIDE DEF last
    <2>4. \A i \in DOMAIN channel : IsBid(i) => channel[i].amount < m.amount
      BY <2>1 DEF ChannelInv, EventsAscend, BidEvent
    <2>5. \A n \in newBids : OnWay(n) => OnWay(n)'
      BY <2>3 DEF OnWay, BidEvent
    <2>6. OnWay(m)'
      BY <2>3 DEF OnWay, BidEvent
    <2>7. ChannelTypes'
      BY <1>0, <2>1, <2>3 DEF ChannelTypes
    <2>8. EventsAscend'
      <3>1. \A i \in DOMAIN channel' : IsBid(i)' => \E n \in newBids' : channel'[i] = BidEvent(n)
        BY <2>1, <2>3 DEF ChannelInv, EventsAscend, IsBid
      <3>2. \A i, k \in DOMAIN channel' : i < k /\ IsBid(i)' /\ IsBid(k)' => channel'[i].amount < channel'[k].amount
        <4> SUFFICES ASSUME NEW i \in DOMAIN channel', NEW k \in DOMAIN channel', i < k, IsBid(i)', IsBid(k)'
                     PROVE  channel'[i].amount < channel'[k].amount
          OBVIOUS
        <4>1. i \in DOMAIN channel /\ channel'[i] = channel[i] /\ IsBid(i)
          BY <2>3 DEF IsBid
        <4>2. CASE k = last
          BY <2>2, <2>3, <2>4, <4>1, <4>2
        <4>3. CASE k \in DOMAIN channel
          BY <2>3, <4>1, <4>3 DEF ChannelInv, EventsAscend, IsBid
        <4> QED BY <2>3, <4>2, <4>3
      <3>3. ASSUME NEW n \in newBids'
            PROVE  OnWay(n)' \/ \A i \in DOMAIN channel' : IsBid(i)' => n.amount < channel'[i].amount
        <4>1. CASE n = m
          BY <2>6, <4>1
        <4>2. CASE n \in newBids /\ OnWay(n)
          BY <2>5, <4>2
        <4>3. CASE n \in newBids /\ ~OnWay(n)
          BY <2>1, <2>2, <2>3, <4>3 DEF ChannelInv, EventsAscend, IsBid
        <4> QED BY <2>1, <4>1, <4>2, <4>3
      <3> QED BY <3>1, <3>2, <3>3 DEF EventsAscend
    <2>9. ToldIsHighest'
      BY <2>1, <2>5, <2>6 DEF ChannelInv, ToldIsHighest
    <2>10. EndIsAnnounced'
      BY <2>1, <2>3 DEF ChannelInv, EndIsAnnounced, IsBid
    <2> QED BY <2>7, <2>8, <2>9, <2>10 DEF ChannelInv
  <1>2. ASSUME NEW c \in Admins, AnnounceEnd(c) PROVE ChannelInv'
    <2> DEFINE e == EndEvent(summary[c])
               last == Len(channel) + 1
    <2>1. newBids' = newBids /\ channel' = Append(channel, e) /\ UNCHANGED told
      BY <1>2 DEF AnnounceEnd, EndPublish
    <2>2. e \in Events /\ e.event = "auctionEnd"
      BY <1>0 DEF EndEvent, Events, TypeOK, Summaries
    <2> HIDE DEF e
    <2>3. /\ channel' \in Seq(Events)
          /\ last \in DOMAIN channel' /\ channel'[last] = e
          /\ \A i \in DOMAIN channel : i \in DOMAIN channel' /\ channel'[i] = channel[i] /\ i < last
          /\ \A i \in DOMAIN channel' : i \in DOMAIN channel \/ i = last
          /\ DOMAIN channel \subseteq Int /\ last \in Int
      BY <1>0, <2>1, <2>2, PublishEffect
    <2> HIDE DEF last
    <2>4. \A i \in DOMAIN channel' : IsBid(i)' => i \in DOMAIN channel /\ channel'[i] = channel[i] /\ IsBid(i)
      BY <2>2, <2>3 DEF IsBid
    <2>5. \A n \in newBids : OnWay(n) => OnWay(n)'
      BY <2>3 DEF OnWay, BidEvent
    <2>6. EventsAscend'
      BY <2>1, <2>4, <2>5 DEF ChannelInv, EventsAscend
    <2>7. ToldIsHighest'
      BY <2>1, <2>5 DEF ChannelInv, ToldIsHighest
    <2>8. EndIsAnnounced'
      BY <2>2, <2>3 DEF EndIsAnnounced, IsBid
    <2> QED BY <1>0, <2>1, <2>3, <2>6, <2>7, <2>8 DEF ChannelInv, ChannelTypes
  <1>3. CASE Deliver
    <2>1. /\ channel' \in Seq(Events)
          /\ 1 \in DOMAIN channel /\ channel[1] \in Events
          /\ \A i \in DOMAIN channel' : i + 1 \in DOMAIN channel /\ channel'[i] = channel[i + 1] /\ i + 1 > 1 /\ i \in Int
          /\ \A i \in DOMAIN channel : i # 1 => i - 1 \in DOMAIN channel' /\ channel'[i - 1] = channel[i] /\ 1 < i
          /\ told'.highest = channel[1].amount
          /\ told'.isOpen <=> told.isOpen /\ IsBid(1)
          /\ told' \in Rooms
      BY <1>0, <1>3, DeliverEffect
    <2>2. UNCHANGED <<newBids, auction, endPc>>
      BY <1>3 DEF Deliver, vars
    <2>3. \A i \in DOMAIN channel' : IsBid(i)' => IsBid(i + 1)
      BY <2>1 DEF IsBid
    <2>4. ASSUME NEW n \in newBids, OnWay(n) PROVE OnWay(n)' \/ channel[1] = BidEvent(n)
      BY <2>1, <2>4 DEF OnWay, BidEvent
    <2>5. EventsAscend'
      <3>1. \A i \in DOMAIN channel' : IsBid(i)' => \E n \in newBids' : channel'[i] = BidEvent(n)
        BY <2>1, <2>2, <2>3 DEF ChannelInv, EventsAscend
      <3>2. \A i, k \in DOMAIN channel' : i < k /\ IsBid(i)' /\ IsBid(k)' => channel'[i].amount < channel'[k].amount
        <4> SUFFICES ASSUME NEW i \in DOMAIN channel', NEW k \in DOMAIN channel', i < k, IsBid(i)', IsBid(k)'
                     PROVE  channel'[i].amount < channel'[k].amount
          OBVIOUS
        <4>1. i + 1 < k + 1 /\ i + 1 \in DOMAIN channel /\ k + 1 \in DOMAIN channel /\ IsBid(i + 1) /\ IsBid(k + 1)
          BY <2>1, <2>3
        <4> QED BY <2>1, <4>1 DEF ChannelInv, EventsAscend
      <3>3. ASSUME NEW n \in newBids
            PROVE  OnWay(n)' \/ \A i \in DOMAIN channel' : IsBid(i)' => n.amount < channel'[i].amount
        <4>1. CASE OnWay(n)' \/ ~OnWay(n)
          BY <2>1, <2>3, <4>1 DEF ChannelInv, EventsAscend
        <4>2. CASE channel[1] = BidEvent(n)
          <5>1. IsBid(1) /\ channel[1].amount = n.amount
            BY <4>2 DEF IsBid, BidEvent
          <5> QED BY <2>1, <2>3, <5>1 DEF ChannelInv, EventsAscend
        <4> QED BY <2>4, <4>1, <4>2
      <3> QED BY <2>2, <3>1, <3>2, <3>3 DEF EventsAscend
    <2>6. ToldIsHighest'
      <3> SUFFICES ASSUME told'.isOpen, NEW n \in newBids PROVE OnWay(n)' \/ n.amount <= told'.highest
        BY <2>2 DEF ToldIsHighest
      <3>1. IsBid(1) /\ channel[1].amount \in Int /\ n.amount \in Int
        BY <1>0, <2>1
      <3>2. CASE ~OnWay(n)
        <4>1. n.amount < channel[1].amount
          BY <2>1, <3>1, <3>2 DEF ChannelInv, EventsAscend
        <4> QED BY <2>1, <3>1, <4>1
      <3>3. CASE channel[1] = BidEvent(n)
        BY <2>1, <3>1, <3>3 DEF BidEvent
      <3> QED BY <2>4, <3>2, <3>3
    <2>7. EndIsAnnounced'
      BY <2>1, <2>2 DEF ChannelInv, EndIsAnnounced, IsBid
    <2> QED BY <2>1, <2>5, <2>6, <2>7 DEF ChannelInv, ChannelTypes
  <1>4. CASE LoseEvents
    <2>1. /\ channel' = <<>> /\ Len(channel) \in DOMAIN channel
          /\ \A i \in DOMAIN channel : i <= Len(channel) /\ i \in Int
          /\ told'.highest = channel[Len(channel)].amount
          /\ told'.isOpen <=> told.isOpen /\ \A i \in DOMAIN channel : IsBid(i)
          /\ told' \in Rooms
      BY <1>0, <1>4, LoseEffect
    <2>2. UNCHANGED <<newBids, auction, endPc>>
      BY <1>4 DEF LoseEvents, eventVars, dbVars, endVars
    <2>3. channel' \in Seq(Events) /\ DOMAIN channel' = {}
      BY <2>1
    <2>4. EventsAscend'
      BY <2>3 DEF EventsAscend
    <2>5. ToldIsHighest'
      <3> SUFFICES ASSUME told'.isOpen, NEW n \in newBids PROVE n.amount <= told'.highest
        BY <2>2 DEF ToldIsHighest
      <3>1. IsBid(Len(channel)) /\ channel[Len(channel)].amount \in Int /\ n.amount \in Int
        BY <1>0, <2>1
      <3>2. CASE OnWay(n)
        <4>1. PICK i \in DOMAIN channel : channel[i] = BidEvent(n)
          BY <3>2 DEF OnWay
        <4>2. IsBid(i) /\ channel[i].amount = n.amount
          BY <4>1 DEF IsBid, BidEvent
        <4>3. CASE i = Len(channel)
          BY <2>1, <3>1, <4>2, <4>3
        <4>4. CASE i < Len(channel)
          <5>1. channel[i].amount < channel[Len(channel)].amount
            BY <2>1, <3>1, <4>2, <4>4 DEF ChannelInv, EventsAscend
          <5> QED BY <2>1, <3>1, <4>2, <5>1
        <4> QED BY <2>1, <4>3, <4>4
      <3>3. CASE ~OnWay(n)
        <4>1. n.amount < channel[Len(channel)].amount
          BY <2>1, <3>1, <3>3 DEF ChannelInv, EventsAscend
        <4> QED BY <2>1, <3>1, <4>1
      <3> QED BY <3>2, <3>3
    <2>6. EndIsAnnounced'
      BY <2>1, <2>2 DEF ChannelInv, EndIsAnnounced, IsBid
    <2> QED BY <2>1, <2>3, <2>4, <2>5, <2>6 DEF ChannelInv, ChannelTypes
  <1>5. CASE /\ UNCHANGED <<channel, told, newBids>>
             /\ ~\E c \in Admins : endPc[c] = "publish" /\ endPc'[c] = "cache"
    <2>1. EndIsAnnounced'
      <3> SUFFICES ASSUME ~auction'.isOpen, told.isOpen, \A i \in DOMAIN channel : IsBid(i)
                   PROVE  \E c \in Admins : endPc'[c] \in {"publish", "failed"}
        BY <1>5 DEF EndIsAnnounced, IsBid
      <3>1. [Next]_vars \/ FaultOnly
        BY RoomSteps
      <3>2. CASE FaultOnly
        BY <3>2 DEF FaultOnly, dbVars, endVars, ChannelInv, EndIsAnnounced
      <3>3. ASSUME NEW c \in Admins, EndUpdate(c) PROVE endPc'[c] = "publish"
        BY <1>0, <3>3 DEF EndUpdate, TypeOK
      <3>4. ASSUME NEW w \in Workers, TxWrite(w) PROVE auction'.isOpen = auction.isOpen
        BY <1>0, <3>4 DEF TxWrite, RowAfterBid, TypeOK
      <3>5. ASSUME [Next]_vars, ~auction.isOpen, NEW c \in Admins, endPc[c] \in {"publish", "failed"}
            PROVE  endPc'[c] \in {"publish", "failed"}
        <4>1. endPc \in [Admins -> {"start", "update", "publish", "cache", "done", "failed"}]
          BY <1>0 DEF TypeOK
        <4>2. ASSUME NEW d \in Admins,
                     EndRead(d) \/ EndUpdate(d) \/ EndPublish(d) \/ EndCache(d) \/ EndDies(d)
              PROVE  endPc'[c] \in {"publish", "failed"}
          BY <1>5, <3>5, <4>1, <4>2 DEF EndRead, AfterEndRead, EndUpdate, EndPublish, EndCache, EndDies
        <4>3. \/ UNCHANGED endPc
              \/ \E d \in Admins : EndRead(d) \/ EndUpdate(d) \/ EndPublish(d) \/ EndCache(d) \/ EndDies(d)
          BY <3>5 DEF Next, vars, endVars, PlaceBid, ResendBid, Assign, CommitOffset, SessionTimeout, Crash,
             HandlerThrows, PlaceBidStep, TxRead, TxWrite, TxOverflow, PublishNewBid, CacheNewBid,
             PublishRejection, EndAuctionStep, CacheLookup, DbLookup, CacheFill, CacheExpire
        <4> QED BY <3>5, <4>2, <4>3
      <3>6. CASE [Next]_vars /\ auction.isOpen
        BY <1>0, <3>3, <3>4, <3>6, RowsStay
      <3>7. CASE [Next]_vars /\ ~auction.isOpen
        BY <3>5, <3>7 DEF ChannelInv, EndIsAnnounced
      <3> QED BY <3>1, <3>2, <3>6, <3>7
    <2>2. ChannelTypes' /\ EventsAscend' /\ ToldIsHighest'
      BY <1>5 DEF ChannelInv, ChannelTypes, EventsAscend, ToldIsHighest, OnWay, IsBid
    <2> QED BY <2>1, <2>2 DEF ChannelInv
  <1> QED BY <1>0, <1>1, <1>2, <1>3, <1>4, <1>5, ChannelCases

LEMMA ChannelInit == RoomInit => ChannelInv
  <1> SUFFICES ASSUME RoomInit PROVE ChannelInv
    OBVIOUS
  <1>1. channel \in Seq(Events) /\ DOMAIN channel = {} /\ newBids = {} /\ told \in Rooms /\ auction.isOpen
    BY DEF RoomInit, Init, OpenRoom, Rooms
  <1> QED BY <1>1 DEF ChannelInv, ChannelTypes, EventsAscend, ToldIsHighest, EndIsAnnounced

-----------------------------------------------------------------------------
(* What the clients of the room are shown *)

RoomTypes ==
  /\ place \in [Joiners -> {"outside", "room", "failed", "gone"}]
  /\ view \in [Joiners -> Rooms \cup {None}]
  /\ read \in [Joiners -> {"current", "staleCache", "staleRow"}]
  /\ behind \subseteq Joiners

\* Room r is one that a client of the room may be shown.
OpenOnARow(r) == r \in Rooms /\ r.isOpen /\ Shows(r.highest, r.winner)

\* The clients that nothing has misled: no event has missed them, and the cache gave them no
\* state from before an event.
Informed == InRoom \ (behind \cup Misled)

\* Clients of the room have loaded their state, and are shown an open auction and an accepted
\* bid, or none.  What is read from the row is never older than what was told.  The clients
\* that nothing has misled are shown what was told, and there are none left once the end was.
RoomInv ==
  /\ RoomTypes
  /\ \A j \in InRoom : joinPc[j] = "done" /\ OpenOnARow(view[j])
  /\ \A j \in Joiners : read[j] # "staleRow"
  /\ \A j \in Informed : told.isOpen /\ view[j].highest >= told.highest

\* What shows a row goes on to show one, and a closed auction stays closed.
LEMMA RowsRemain ==
  ASSUME TypeOK, [RoomNext]_allVars, NEW h, NEW u
  PROVE  (Shows(h, u) => Shows(h, u)') /\ (auction'.isOpen => auction.isOpen)
  <1>1. CASE [Next]_vars
    BY <1>1, ShowsStays, RowsStay
  <1>2. CASE FaultOnly
    BY <1>2 DEF FaultOnly, dbVars, Shows
  <1> QED BY <1>1, <1>2, RoomSteps

\* What a client is shown goes on to be a row.
LEMMA OpenOnARowStays ==
  ASSUME TypeOK, [RoomNext]_allVars, NEW r, OpenOnARow(r)
  PROVE  OpenOnARow(r)'
  BY RowsRemain DEF OpenOnARow, Rooms

-----------------------------------------------------------------------------
(* What was told is true *)

\* An event tells of a row, and auctionEnd of a closed auction.
EventSound(e) == Shows(e.amount, e.user) /\ (e.event = "newBid" \/ ~auction.isOpen)

\* So do all events: those that are past, and those on their way.
SoundInv == RoomSound(told) /\ \A i \in DOMAIN channel : EventSound(channel[i])

LEMMA EventSoundStays ==
  ASSUME TypeOK, [RoomNext]_allVars, NEW e, EventSound(e)
  PROVE  EventSound(e)'
  BY RowsRemain DEF EventSound

\* SoundInv is kept by every step.
LEMMA SoundStep ==
  ASSUME Base, ChannelInv, SoundInv, [RoomNext]_allVars
  PROVE  SoundInv'
  <1>0. TypeOK /\ ChannelTypes
    BY DEF Base, ChannelInv
  <1>1. ASSUME told' = told PROVE RoomSound(told)'
    <2>1. PICK r : r = told
      OBVIOUS
    <2>2. RoomSound(r)'
      BY <1>0, <2>1, RowsRemain DEF SoundInv, RoomSound
    <2> QED BY <1>1, <2>1, <2>2 DEF RoomSound, Shows
  <1>2. ASSUME NEW i \in DOMAIN channel PROVE \A e : e = channel[i] => EventSound(e)'
    BY <1>0, EventSoundStays DEF SoundInv
  <1>3. ASSUME NEW e \in Events, EventSound(e), channel' = Append(channel, e), told' = told
        PROVE  SoundInv'
    <2>1. ASSUME NEW i \in DOMAIN channel' PROVE EventSound(channel[i])'
      <3>1. PICK d : d = channel'[i]
        OBVIOUS
      <3>2. d = e \/ (i \in DOMAIN channel /\ d = channel[i])
        BY <1>0, <1>3, <3>1, PublishEffect
      <3>3. EventSound(d)'
        BY <1>0, <1>2, <1>3, <3>2, EventSoundStays
      <3> QED BY <3>1, <3>3 DEF EventSound, Shows
    <2> QED BY <1>1, <1>3, <2>1 DEF SoundInv
  <1>4. ASSUME NEW w \in Workers, AnnounceBid(w) PROVE SoundInv'
    <2>1. pc[w] = "publish" /\ told' = told
      BY <1>4 DEF AnnounceBid, PublishNewBid
    <2>2. PICK e : e = BidEvent(Current(w))
      OBVIOUS
    <2>3. e \in Events
      <3>1. Current(w) \in Messages
        BY <1>0, <2>1, CurrentType DEF TypeOK
      <3> QED BY <2>2, <3>1, AmountsAssumption DEF BidEvent, Events, Messages
    <2>4. EventSound(e)
      BY <2>1, <2>2 DEF EventSound, BidEvent, Base, CacheInv
    <2>5. channel' = Append(channel, e)
      BY <1>4, <2>2 DEF AnnounceBid
    <2> QED BY <1>3, <2>1, <2>3, <2>4, <2>5
  <1>5. ASSUME NEW c \in Admins, AnnounceEnd(c) PROVE SoundInv'
    <2>1. endPc[c] = "publish" /\ told' = told
      BY <1>5 DEF AnnounceEnd, EndPublish
    <2>2. PICK e : e = EndEvent(summary[c])
      OBVIOUS
    <2>3. e \in Events
      BY <1>0, <2>2 DEF EndEvent, Events, TypeOK, Summaries
    <2>4. EventSound(e)
      BY <2>1, <2>2 DEF EventSound, EndEvent, Base, CacheInv, Closing
    <2>5. channel' = Append(channel, e)
      BY <1>5, <2>2 DEF AnnounceEnd
    <2> QED BY <1>3, <2>1, <2>3, <2>4, <2>5
  <1>6. CASE Deliver
    <2>1. /\ 1 \in DOMAIN channel
          /\ told' = [highest |-> channel[1].amount, winner |-> channel[1].user,
                      isOpen |-> (told.isOpen /\ IsBid(1))]
          /\ told'.isOpen <=> told.isOpen /\ IsBid(1)
          /\ \A i \in DOMAIN channel' : i + 1 \in DOMAIN channel /\ channel'[i] = channel[i + 1]
      BY <1>0, <1>6, DeliverEffect
    <2>2. UNCHANGED <<auction, bids>>
      BY <1>6 DEF Deliver, vars
    <2>3. \A i \in DOMAIN channel' : EventSound(channel[i])'
      BY <2>1, <2>2 DEF SoundInv, EventSound, Shows
    <2>4. told'.highest = channel[1].amount /\ told'.winner = channel[1].user
      BY <2>1
    <2>5. RoomSound(told)'
      BY <2>1, <2>2, <2>4 DEF SoundInv, EventSound, RoomSound, Shows, IsBid
    <2> QED BY <2>3, <2>5 DEF SoundInv
  <1>7. CASE LoseEvents
    <2>1. /\ channel' = <<>> /\ Len(channel) \in DOMAIN channel
          /\ told'.highest = channel[Len(channel)].amount
          /\ told'.winner = channel[Len(channel)].user
          /\ told'.isOpen <=> told.isOpen /\ \A i \in DOMAIN channel : IsBid(i)
      BY <1>0, <1>7, LoseEffect
    <2>2. UNCHANGED <<auction, bids>>
      BY <1>7 DEF LoseEvents, dbVars
    <2>3. RoomSound(told)'
      BY <2>1, <2>2 DEF SoundInv, EventSound, RoomSound, Shows, IsBid
    <2>4. DOMAIN channel' = {}
      BY <2>1
    <2> QED BY <2>3, <2>4 DEF SoundInv
  <1>8. CASE UNCHANGED <<channel, told>>
    <2>1. ASSUME NEW i \in DOMAIN channel PROVE EventSound(channel[i])'
      <3>1. PICK e : e = channel[i]
        OBVIOUS
      <3>2. EventSound(e)'
        BY <1>2, <3>1
      <3> QED BY <1>8, <3>1, <3>2 DEF EventSound, Shows
    <2> QED BY <1>1, <1>8, <2>1 DEF SoundInv
  <1> QED BY <1>0, <1>4, <1>5, <1>6, <1>7, <1>8, ChannelCases

LEMMA SoundInit == RoomInit => SoundInv
  BY DEF RoomInit, Init, OpenRoom, SoundInv, RoomSound, Shows

\* The row is at least as new as what was told.
LEMMA RowNotOlder ==
  ASSUME Base, ChannelInv, SoundInv
  PROVE  ~Older(LoadedRoom, told)
  <1>1. told.highest \in Int /\ auction.highest \in Int /\ 0 <= auction.highest /\ bids \in Seq(Rows)
    BY DEF Base, TypeOK, ChannelInv, ChannelTypes, Rooms, PublishInv
  <1>2. \A i \in DOMAIN bids : bids[i].amount <= auction.highest
    <2>1. bids = <<>> => DOMAIN bids = {}
      OBVIOUS
    <2> QED BY <2>1 DEF Base, RowInv, HighestIsTopBid
  <1>3. told.highest <= auction.highest
    BY <1>1, <1>2 DEF SoundInv, RoomSound, Shows
  <1>4. auction.isOpen => told.isOpen
    BY DEF SoundInv, RoomSound
  <1> QED BY <1>1, <1>3, <1>4 DEF Older, LoadedRoom

-----------------------------------------------------------------------------
(* What the clients of the room are shown, continued *)

\* What a join that goes on is given is a hit or the row; a join that is done stays so.
LEMMA JoinEffect ==
  ASSUME TypeOK, [RoomNext]_allVars, NEW j \in Joiners
  PROVE  /\ joinPc[j] = "done" => joinPc'[j] = "done" /\ loaded'[j] = loaded[j]
         /\ loaded'[j] \in {loaded[j], None} \/ joinPc[j] = "start" \/ loaded'[j] = LoadedRoom
  <1>0. loaded \in [Joiners -> Rooms \cup {None}] /\ joinPc \in [Joiners -> {"start", "load", "fill", "done"}]
    BY DEF TypeOK
  <1>1. ASSUME NEW i \in Joiners, CacheLookup(i) \/ DbLookup(i) \/ CacheFill(i)
        PROVE  /\ joinPc[j] = "done" => joinPc'[j] = "done" /\ loaded'[j] = loaded[j]
               /\ loaded'[j] \in {loaded[j], None} \/ joinPc[j] = "start" \/ loaded'[j] = LoadedRoom
    BY <1>0, <1>1 DEF CacheLookup, DbLookup, CacheFill
  <1>2. CASE [Next]_vars
    <2>1. UNCHANGED <<joinPc, loaded>> \/ \E i \in Joiners : CacheLookup(i) \/ DbLookup(i) \/ CacheFill(i)
      BY <1>2 DEF Next, vars, joinVars, PlaceBid, ResendBid, Assign, CommitOffset, SessionTimeout, Crash,
           HandlerThrows, PlaceBidStep, TxRead, TxWrite, TxOverflow, PublishNewBid, CacheNewBid,
           PublishRejection, EndRead, EndDies, EndAuctionStep, EndUpdate, EndPublish, EndCache, CacheExpire
    <2> QED BY <1>1, <2>1
  <1>3. CASE FaultOnly
    BY <1>3 DEF FaultOnly, joinVars
  <1> QED BY <1>2, <1>3, RoomSteps

\* What is read from the row is never noted as older than what was told, and nothing is
\* noted of a client that has its state.
LEMMA ReadStep ==
  ASSUME Base, ChannelInv, SoundInv, RoomTypes, [RoomNext]_allVars, ~Deliver,
         NEW j \in Joiners, read[j] # "staleRow"
  PROVE  read'[j] # "staleRow" /\ (joinPc[j] = "done" => read'[j] = read[j])
  <1>1. CASE Unannounced
    <2>1. read'[j] = IF loaded'[j] \in {loaded[j], None} THEN read[j]
                     ELSE IF ~Older(loaded'[j], told) THEN "current"
                     ELSE IF joinPc[j] = "start" THEN "staleCache" ELSE "staleRow"
      BY <1>1 DEF Unannounced
    <2>2. loaded'[j] = LoadedRoom => ~Older(loaded'[j], told)
      BY RowNotOlder
    <2>3. /\ joinPc[j] = "done" => loaded'[j] = loaded[j]
          /\ loaded'[j] \in {loaded[j], None} \/ joinPc[j] = "start" \/ loaded'[j] = LoadedRoom
      BY JoinEffect DEF Base
    <2> HIDE DEF Older
    <2> QED BY <2>1, <2>2, <2>3
  <1>2. CASE read' = read
    BY <1>2
  <1>3. Unannounced \/ read' = read
    BY DEF RoomNext, allVars, roomVars, historyVars, AnnounceBid, AnnounceEnd, LoseEvents, TurnAway,
       JoinFails, Enter, Leave
  <1> QED BY <1>1, <1>2, <1>3

\* A step that brings nobody into the room and tells it nothing keeps RoomInv.
LEMMA RoomFrame ==
  ASSUME Base, ChannelInv, SoundInv, RoomInv, [RoomNext]_allVars, ~Deliver,
         view' = view, told' = told, behind' = behind,
         place' \in [Joiners -> {"outside", "room", "failed", "gone"}],
         \A j \in Joiners : place'[j] = "room" => place[j] = "room"
  PROVE  RoomInv'
  <1>0. TypeOK /\ RoomTypes
    BY DEF Base, RoomInv
  <1>1. ASSUME NEW j \in Joiners, place'[j] = "room" PROVE joinPc'[j] = "done" /\ OpenOnARow(view[j])'
    <2>1. PICK r : r = view[j]
      OBVIOUS
    <2>2. OpenOnARow(r) /\ joinPc[j] = "done"
      BY <1>1, <2>1 DEF RoomInv, InRoom
    <2>3. OpenOnARow(r)'
      BY <1>0, <2>2, OpenOnARowStays
    <2>4. joinPc'[j] = "done"
      BY <1>0, <2>2, JoinEffect
    <2> QED BY <2>1, <2>3, <2>4 DEF OpenOnARow, Shows, Rooms
  <1>2. \A j \in Joiners : read'[j] # "staleRow" /\ (joinPc[j] = "done" => read'[j] = read[j])
    BY <1>0, ReadStep DEF RoomInv
  <1>3. read' \in [Joiners -> {"current", "staleCache", "staleRow"}]
    BY <1>0 DEF RoomNext, RoomTypes, allVars, roomVars, historyVars, AnnounceBid, AnnounceEnd, Unannounced,
       LoseEvents, TurnAway, JoinFails, Enter, Leave
  <1>4. RoomTypes'
    BY <1>0, <1>3 DEF RoomTypes
  <1>5. ASSUME NEW j \in Joiners, place'[j] = "room", j \notin behind, read'[j] # "staleCache"
        PROVE  told.isOpen /\ view[j].highest >= told.highest
    <2>1. place[j] = "room" /\ joinPc[j] = "done"
      BY <1>5 DEF RoomInv, InRoom
    <2>2. read[j] # "staleCache"
      BY <1>2, <1>5, <2>1
    <2> QED BY <1>5, <2>1, <2>2 DEF RoomInv, Informed, InRoom, Misled
  <1> QED BY <1>1, <1>2, <1>4, <1>5 DEF RoomInv, Informed, InRoom, Misled

\* RoomInv is kept by every step.
LEMMA RoomStep ==
  ASSUME Base, ChannelInv, SoundInv, RoomInv, [RoomNext]_allVars
  PROVE  RoomInv'
  <1>0. TypeOK /\ ChannelTypes /\ RoomTypes /\ loaded \in [Joiners -> Rooms \cup {None}]
        /\ told.highest \in Int
    BY DEF Base, ChannelInv, ChannelTypes, RoomInv, TypeOK, Rooms
  <1>1. CASE UNCHANGED <<view, told, behind, place>> /\ ~Deliver
    BY <1>0, <1>1, RoomFrame DEF RoomTypes
  <1>2. ASSUME NEW j \in Joiners, TurnAway(j) \/ JoinFails(j) \/ Leave(j) PROVE RoomInv'
    <2>1. /\ place' \in [Joiners -> {"outside", "room", "failed", "gone"}]
          /\ \A k \in Joiners : place'[k] = "room" => place[k] = "room"
          /\ view' = view /\ told' = told /\ behind' = behind
      BY <1>0, <1>2 DEF RoomTypes, TurnAway, JoinFails, Leave, historyVars
    <2>2. CASE ~Deliver
      BY <2>1, <2>2, RoomFrame
    <2>3. ~Deliver
      BY <1>0, <1>2 DEF ChannelTypes, Deliver, TurnAway, JoinFails, Leave
    <2> QED BY <2>2, <2>3
  <1>3. ASSUME NEW j \in Joiners, Enter(j) PROVE RoomInv'
    <2>1. /\ view' = [view EXCEPT ![j] = loaded[j]]
          /\ place' = [place EXCEPT ![j] = IF loaded[j].isOpen THEN "room" ELSE "gone"]
          /\ behind' = (IF MissedSinceRead(j) THEN behind \cup {j} ELSE behind)
          /\ joinPc[j] = "done" /\ loaded[j] # None /\ told' = told /\ read' = read /\ UNCHANGED vars
      BY <1>3 DEF Enter, Loaded
    <2>2. PICK r : r = loaded[j]
      OBVIOUS
    <2>3. r \in Rooms /\ Shows(r.highest, r.winner)
      BY <1>0, <2>1, <2>2 DEF Base, CacheInv, RoomSound
    <2>4. RoomTypes'
      <3>1. place' \in [Joiners -> {"outside", "room", "failed", "gone"}]
        BY <1>0, <2>1 DEF RoomTypes
      <3>2. view' \in [Joiners -> Rooms \cup {None}]
        BY <1>0, <2>1, <2>2, <2>3 DEF RoomTypes
      <3>3. behind' \subseteq Joiners /\ read' \in [Joiners -> {"current", "staleCache", "staleRow"}]
        BY <1>0, <2>1 DEF RoomTypes
      <3> QED BY <3>1, <3>2, <3>3 DEF RoomTypes, Rooms
    <2>5. ASSUME NEW k \in Joiners, k # j PROVE place'[k] = place[k] /\ view'[k] = view[k]
      BY <1>0, <2>1, <2>5 DEF RoomTypes
    <2>6. view'[j] = r /\ (place'[j] = "room" => r.isOpen)
      BY <1>0, <2>1, <2>2 DEF RoomTypes
    <2>7. ASSUME NEW k \in Joiners, place'[k] = "room" PROVE joinPc'[k] = "done" /\ OpenOnARow(view[k])'
      <3>1. CASE k = j
        <4>1. OpenOnARow(r)
          BY <2>3, <2>6, <2>7, <3>1 DEF OpenOnARow
        <4> QED BY <2>1, <2>6, <3>1, <4>1 DEF OpenOnARow, Shows, Rooms, vars
      <3>2. CASE k # j
        <4>1. OpenOnARow(view[k]) /\ joinPc[k] = "done"
          BY <2>5, <2>7, <3>2 DEF RoomInv, InRoom
        <4> QED BY <2>1, <2>5, <3>2, <4>1 DEF OpenOnARow, Shows, Rooms, vars
      <3> QED BY <3>1, <3>2
    <2>8. ASSUME NEW k \in Joiners, place'[k] = "room", k \notin behind', read[k] # "staleCache"
          PROVE  told.isOpen /\ view'[k].highest >= told.highest
      <3>1. CASE k = j
        <4>0. read[j] = "current"
          BY <1>0, <2>8, <3>1 DEF RoomInv, RoomTypes
        <4>1. ~Older(r, told)
          BY <2>1, <2>2, <2>8, <3>1, <4>0 DEF MissedSinceRead
        <4>2. r.isOpen /\ r.highest \in Int
          BY <2>3, <2>6, <2>8, <3>1 DEF Rooms
        <4> QED BY <1>0, <2>6, <3>1, <4>1, <4>2 DEF Older
      <3>2. CASE k # j
        BY <2>1, <2>5, <2>8, <3>2 DEF RoomInv, Informed, InRoom, Misled
      <3> QED BY <3>1, <3>2
    <2> QED BY <2>1, <2>4, <2>7, <2>8 DEF RoomInv, Informed, InRoom, Misled
  <1>4. CASE Deliver
    <2>1. /\ 1 \in DOMAIN channel /\ channel[1] \in Events
          /\ told' = [highest |-> channel[1].amount, winner |-> channel[1].user,
                      isOpen |-> (told.isOpen /\ IsBid(1))]
          /\ told'.isOpen <=> told.isOpen /\ IsBid(1)
      BY <1>0, <1>4, DeliverEffect
    <2>2. Head(channel) = channel[1]
      BY <1>0, <1>4 DEF ChannelTypes, Deliver
    <2>3. PICK e : e = channel[1]
      OBVIOUS
    <2>4. /\ view' = [j \in Joiners |-> IF j \in InRoom THEN After(view[j], <<e>>) ELSE view[j]]
          /\ place' = [j \in Joiners |-> IF j \in InRoom /\ e.event = "auctionEnd" THEN "gone" ELSE place[j]]
          /\ behind' = (IF told.isOpen THEN behind \ InRoom ELSE behind)
          /\ read' = [j \in Joiners |-> IF told.isOpen /\ j \in InRoom THEN "current" ELSE read[j]]
          /\ UNCHANGED vars
      BY <1>4, <2>2, <2>3 DEF Deliver, Emit, CatchUp
    <2>5. ASSUME NEW r
          PROVE  After(r, <<e>>) = [highest |-> e.amount, winner |-> e.user,
                                    isOpen |-> r.isOpen /\ e.event = "newBid"]
      <3>1. Len(<<e>>) = 1 /\ DOMAIN <<e>> = {1} /\ <<e>>[1] = e
        OBVIOUS
      <3> QED BY <3>1 DEF After
    <2>6. e \in Events /\ e.amount \in Int /\ e.user \in Bidders \cup {None}
          /\ e.event \in {"newBid", "auctionEnd"}
      BY <2>1, <2>3 DEF Events
    <2>7. e.event = "newBid" => Shows(e.amount, e.user)
      <3> SUFFICES ASSUME e.event = "newBid" PROVE Shows(e.amount, e.user)
        OBVIOUS
      <3>1. PICK n \in newBids : e = BidEvent(n)
        BY <2>1, <2>3 DEF ChannelInv, EventsAscend, IsBid
      <3>2. HasRow(n) /\ e.amount = n.amount /\ e.user = n.user
        BY <3>1 DEF Base, PublishInv, BidEvent
      <3> QED BY <3>2 DEF HasRow, Shows
    <2>8. ASSUME NEW j \in Joiners, place'[j] = "room"
          PROVE  /\ place[j] = "room" /\ e.event = "newBid" /\ view[j] \in Rooms /\ view[j].isOpen
                 /\ view'[j] = [highest |-> e.amount, winner |-> e.user, isOpen |-> TRUE]
      <3>1. place[j] = "room" /\ e.event = "newBid"
        BY <2>4, <2>6, <2>8 DEF InRoom
      <3>2. view[j] \in Rooms /\ view[j].isOpen
        BY <3>1 DEF RoomInv, InRoom, OpenOnARow
      <3>3. view'[j] = After(view[j], <<e>>)
        BY <2>4, <3>1 DEF InRoom
      <3>4. view'[j] = [highest |-> e.amount, winner |-> e.user,
                        isOpen |-> view[j].isOpen /\ e.event = "newBid"]
        BY <2>5, <3>3
      <3> QED BY <3>1, <3>2, <3>4
    <2>9. RoomTypes'
      <3>1. place' \in [Joiners -> {"outside", "room", "failed", "gone"}]
        BY <1>0, <2>4 DEF RoomTypes
      <3>2. behind' \subseteq Joiners /\ read' \in [Joiners -> {"current", "staleCache", "staleRow"}]
        BY <1>0, <2>4 DEF RoomTypes
      <3>3. ASSUME NEW j \in Joiners, j \in InRoom PROVE After(view[j], <<e>>) \in Rooms
        <4> DEFINE open == view[j].isOpen /\ e.event = "newBid"
        <4>1. open \in BOOLEAN
          OBVIOUS
        <4>2. After(view[j], <<e>>) = [highest |-> e.amount, winner |-> e.user, isOpen |-> open]
          BY <2>5
        <4> HIDE DEF open
        <4> QED BY <2>6, <4>1, <4>2 DEF Rooms
      <3>4. view' \in [Joiners -> Rooms \cup {None}]
        BY <1>0, <2>4, <3>3 DEF RoomTypes
      <3> QED BY <3>1, <3>2, <3>4 DEF RoomTypes, Rooms
    <2>10. ASSUME NEW j \in Joiners, place'[j] = "room" PROVE joinPc'[j] = "done" /\ OpenOnARow(view[j])'
      <3>1. PICK r : r = view'[j]
        OBVIOUS
      <3>2. r.highest = e.amount /\ r.winner = e.user /\ r.isOpen /\ r \in Rooms
        <4>1. r = [highest |-> e.amount, winner |-> e.user, isOpen |-> TRUE]
          BY <2>8, <2>10, <3>1
        <4> QED BY <2>6, <4>1 DEF Rooms
      <3>3. OpenOnARow(r)
        BY <2>7, <2>8, <2>10, <3>2 DEF OpenOnARow
      <3>4. joinPc'[j] = "done"
        BY <2>4, <2>8, <2>10 DEF RoomInv, InRoom, vars
      <3> QED BY <2>4, <3>1, <3>3, <3>4 DEF OpenOnARow, Shows, Rooms, vars
    <2>11. ASSUME NEW j \in Joiners, place'[j] = "room", j \notin behind', read'[j] # "staleCache"
           PROVE  told'.isOpen /\ view'[j].highest >= told'.highest
      <3>1. place[j] = "room" /\ e.event = "newBid" /\ view'[j].highest = e.amount
        BY <2>8, <2>11
      <3>2. told.isOpen
        BY <2>4, <2>11, <3>1 DEF RoomInv, Informed, InRoom, Misled
      <3>3. told'.isOpen /\ told'.highest = e.amount
        BY <2>1, <2>3, <3>1, <3>2 DEF IsBid
      <3> QED BY <2>6, <3>1, <3>3
    <2>12. \A j \in Joiners : read'[j] # "staleRow"
      BY <2>4 DEF RoomInv
    <2> QED BY <2>9, <2>10, <2>11, <2>12 DEF RoomInv, Informed, InRoom, Misled
  <1>5. CASE LoseEvents
    <2>1. /\ behind' = behind \cup InRoom /\ place' = place /\ view' = view /\ read' = read
          /\ joinPc' = joinPc
      BY <1>5 DEF LoseEvents, joinVars
    <2>2. ASSUME NEW j \in Joiners, place[j] = "room" PROVE OpenOnARow(view[j])'
      <3>1. PICK r : r = view[j]
        OBVIOUS
      <3>2. OpenOnARow(r)'
        BY <1>0, <2>2, <3>1, OpenOnARowStays DEF RoomInv, InRoom
      <3> QED BY <2>1, <3>1, <3>2 DEF OpenOnARow, Shows, Rooms
    <2> QED BY <2>1, <2>2 DEF RoomInv, RoomTypes, Informed, InRoom, Misled
  <1>6. \/ UNCHANGED <<view, told, behind, place>> \/ Deliver \/ LoseEvents
        \/ \E j \in Joiners : TurnAway(j) \/ JoinFails(j) \/ Leave(j) \/ Enter(j)
    BY DEF RoomNext, allVars, roomVars, historyVars, AnnounceBid, AnnounceEnd, Unannounced
  <1> QED BY <1>1, <1>2, <1>3, <1>4, <1>5, <1>6

LEMMA RoomStart == RoomInit => RoomInv
  BY DEF RoomInit, RoomInv, RoomTypes, Informed, InRoom

-----------------------------------------------------------------------------
(* The theorems *)

IRoom == Base /\ ChannelInv /\ SoundInv /\ RoomInv

LEMMA RoomInvariant ==
  ASSUME ~TxOutlivesSession, WholeCents, OneConsumer PROVE RoomSafeSpec => []IRoom
  <1>1. RoomInit => IRoom
    BY BaseInit, ChannelInit, SoundInit, RoomStart DEF IRoom, RoomInit
  <1>2. IRoom /\ [RoomNext]_allVars => IRoom'
    BY BaseStep, ChannelStep, SoundStep, RoomStep DEF IRoom
  <1> QED BY <1>1, <1>2, PTL DEF RoomSafeSpec

\* The bids keep their types while clients come and go.
THEOREM RoomTypeCorrect == RoomSafeSpec => []TypeOK
  <1>1. RoomInit => TypeOK
    BY TypesInit DEF RoomInit
  <1>2. TypeOK /\ [RoomNext]_allVars => TypeOK'
    BY RoomSteps, TypesStep, FaultKeeps
  <1> QED BY <1>1, <1>2, PTL DEF RoomSafeSpec

\* Neither the subscriber nor the joins disturb what the cache shows.
THEOREM RoomCacheShowsRows == ASSUME WholeCents PROVE RoomSafeSpec => []CacheShowsARow
  <1>1. RoomInit => CacheInv
    BY CacheInit DEF RoomInit
  <1>2. TypeOK /\ CacheInv /\ [RoomNext]_allVars => CacheInv'
    BY RoomSteps, CacheStep, FaultKeeps
  <1>3. CacheInv => CacheShowsARow
    BY DEF CacheInv, RoomSound, Shows, CacheShowsARow
  <1> QED BY <1>1, <1>2, <1>3, RoomTypeCorrect, PTL DEF RoomSafeSpec

\* The events of the channel are published in ascending order.
THEOREM RoomAnnouncementsAscend ==
  ASSUME ~TxOutlivesSession, WholeCents, OneConsumer PROVE RoomSafeSpec => NewBidsAscend
  <1>1. Base /\ [RoomNext]_allVars =>
          [\A new \in newBids' \ newBids : \A old \in newBids : old.amount < new.amount]_newBids
    <2> SUFFICES ASSUME Base, [RoomNext]_allVars, newBids' # newBids,
                        NEW new \in newBids' \ newBids, NEW old \in newBids
                 PROVE  old.amount < new.amount
      OBVIOUS
    <2>1. [Next]_vars
      BY RoomSteps DEF FaultOnly, eventVars
    <2>2. PICK w \in Workers : newBids' = newBids \cup {Current(w)} /\ pc[w] = "publish"
      BY <2>1, AnnounceStep DEF Base
    <2> QED BY <2>2 DEF Base, PublishInv
  <1> QED BY <1>1, BaseInvariant, PTL DEF RoomSafeSpec, NewBidsAscend

\* A bid that was announced is that of the row of its request.
LEMMA AnnouncedRow ==
  ASSUME Base, NEW i \in DOMAIN bids, NEW n \in newBids, n.req = bids[i].req
  PROVE  n.amount = bids[i].amount /\ 0 < n.amount
  <1>1. OneRowPerRequest
    BY OneRow DEF Base, BidsInv
  <1>2. PICK k \in DOMAIN bids : bids[k].req = n.req /\ bids[k].amount = n.amount
    BY DEF Base, PublishInv, HasRow
  <1> QED BY <1>1, <1>2 DEF OneRowPerRequest, Base, PublishInv

\* Clients of the room are shown an open auction, and those that no event has missed, and to
\* which the cache gave no state from before a past event, are shown the Auction row once
\* nothing is on its way.
THEOREM RoomShowsTheAuction ==
  ASSUME ~TxOutlivesSession, WholeCents, OneConsumer PROVE RoomSafeSpec => []RoomShowsTheRow
  <1>1. IRoom => RoomShowsTheRow
    <2> SUFFICES ASSUME IRoom PROVE RoomShowsTheRow
      OBVIOUS
    <2>1. \A j \in InRoom : view[j].isOpen
      BY DEF IRoom, RoomInv, OpenOnARow
    <2>2. ASSUME Quiet, channel = <<>>, Announced, NEW j \in Informed
          PROVE  view[j] = LoadedRoom
      <3>1. PICK r : r = view[j]
        OBVIOUS
      <3>2. /\ r \in Rooms /\ r.isOpen /\ Shows(r.highest, r.winner)
            /\ told.isOpen /\ told.highest \in Int /\ r.highest >= told.highest
        BY <2>2, <3>1 DEF IRoom, RoomInv, Informed, OpenOnARow, ChannelInv, ChannelTypes, Rooms
      <3>3. DOMAIN channel = {}
        BY <2>2
      <3>4. auction.isOpen
        BY <2>2, <3>2, <3>3 DEF IRoom, ChannelInv, EndIsAnnounced, Quiet
      <3>5. ASSUME NEW n \in newBids PROVE n.amount <= r.highest
        <4>1. n.amount <= told.highest
          BY <3>2, <3>3 DEF IRoom, ChannelInv, ToldIsHighest, OnWay
        <4>2. n.amount \in Int /\ r.highest \in Int
          BY <3>2, AmountsAssumption DEF IRoom, Base, TypeOK, Messages, Rooms
        <4> QED BY <3>2, <4>1, <4>2
      <3>6. r.highest = auction.highest /\ r.winner = auction.winner
        <4>0. /\ bids \in Seq(Rows) /\ HighestIsTopBid /\ auction.highest \in Int /\ r.highest \in Int
              /\ \A i \in DOMAIN bids : bids[i].amount \in Int
          <5>1. bids \in Seq(Rows) /\ HighestIsTopBid /\ auction.highest \in Int /\ r.highest \in Int
            BY <3>2 DEF IRoom, Base, TypeOK, RowInv, Rooms
          <5>2. \A i \in DOMAIN bids : bids[i] \in Rows
            BY <5>1
          <5> QED BY <5>1, <5>2 DEF Rows
        <4>1. CASE bids = <<>>
          BY <3>2, <4>0, <4>1 DEF HighestIsTopBid, Shows
        <4>2. CASE bids # <<>>
          <5>1. Len(bids) \in DOMAIN bids /\ \A i \in DOMAIN bids : i \in Int /\ (i = Len(bids) \/ i < Len(bids))
            BY <4>0, <4>2
          <5>2. PICK n \in newBids : n.req = bids[Len(bids)].req
            BY <2>2, <5>1 DEF Announced
          <5>3. n.amount = bids[Len(bids)].amount /\ 0 < n.amount /\ n.amount <= r.highest
            BY <3>5, <5>1, <5>2, AnnouncedRow DEF IRoom
          <5>4. auction.highest = bids[Len(bids)].amount /\ auction.winner = bids[Len(bids)].user
            BY <4>0, <4>2 DEF HighestIsTopBid
          <5>5. PICK i \in DOMAIN bids : r.highest = bids[i].amount /\ r.winner = bids[i].user
            BY <3>2, <4>0, <5>1, <5>3 DEF Shows
          <5>6. i = Len(bids)
            <6>1. SUFFICES ASSUME i < Len(bids) PROVE FALSE
              BY <5>1
            <6>2. bids[i].amount < bids[Len(bids)].amount
              BY <5>1, <6>1 DEF IRoom, Base, BidsAscend
            <6> QED BY <4>0, <5>1, <5>3, <5>5, <6>2
          <5> QED BY <5>4, <5>5, <5>6
        <4> QED BY <4>1, <4>2
      <3>7. r = [highest |-> auction.highest, winner |-> auction.winner, isOpen |-> TRUE]
        BY <3>2, <3>6 DEF Rooms
      <3> QED BY <3>1, <3>4, <3>7 DEF LoadedRoom, IRoom, Base, TypeOK
    <2> QED BY <2>1, <2>2 DEF RoomShowsTheRow, Informed
  <1> QED BY <1>1, RoomInvariant, PTL

\* What a client that stays in the room is shown changes only when an event is delivered:
\* a newBid, of which it is shown the amount.
LEMMA ShownByEvents ==
  ASSUME IRoom, [RoomNext]_allVars, NEW j \in Joiners, place[j] = "room", place'[j] = "room",
         view'[j] # view[j]
  PROVE  Deliver /\ IsBid(1) /\ view'[j].highest = channel[1].amount
  <1>0. TypeOK /\ RoomTypes /\ ChannelTypes
    BY DEF IRoom, Base, RoomInv, ChannelInv
  <1>1. ASSUME NEW k \in Joiners, Enter(k) PROVE FALSE
    BY <1>0, <1>1 DEF Enter, Loaded, RoomTypes
  <1>2. Deliver
    BY <1>1 DEF RoomNext, allVars, roomVars, AnnounceBid, AnnounceEnd, Unannounced, LoseEvents,
       TurnAway, JoinFails, Leave
  <1>3. Head(channel) = channel[1] /\ channel[1] \in Events
    BY <1>0, <1>2 DEF ChannelTypes, Deliver
  <1>4. IsBid(1)
    BY <1>2, <1>3 DEF Deliver, InRoom, Events, IsBid
  <1>5. view'[j] = After(view[j], <<channel[1]>>)
    BY <1>2, <1>3 DEF Deliver, Emit, InRoom
  <1>6. view'[j].highest = channel[1].amount
    <2>1. Len(<<channel[1]>>) = 1 /\ <<channel[1]>>[1] = channel[1]
      BY <1>3
    <2> QED BY <1>5, <2>1 DEF After
  <1> QED BY <1>2, <1>4, <1>6

\* The bid that a client of the room is shown falls only while a bid that is at least as
\* high is on its way to it, or was never announced.
THEOREM ShownBidsRecover ==
  ASSUME ~TxOutlivesSession, WholeCents, OneConsumer PROVE RoomSafeSpec => ShownBidRecovers
  <1>1. ASSUME IRoom, [RoomNext]_allVars, NEW j \in Joiners,
               place[j] = "room", place'[j] = "room", view'[j].highest < view[j].highest, Announced'
        PROVE  \E i \in DOMAIN channel' : channel'[i].amount >= view[j].highest
    <2>1. PICK h : h = view[j].highest
      OBVIOUS
    <2>2. h \in Int /\ Shows(h, view[j].winner)
      BY <1>1, <2>1 DEF IRoom, RoomInv, InRoom, OpenOnARow, Rooms
    <2>3. view'[j] # view[j]
      BY <1>1, <2>1, <2>2
    <2>4. Deliver /\ IsBid(1) /\ channel[1].amount < h
      BY <1>1, <2>1, <2>3, ShownByEvents
    <2>5. /\ 1 \in DOMAIN channel
          /\ \A k \in DOMAIN channel : k # 1 => k - 1 \in DOMAIN channel' /\ channel'[k - 1] = channel[k]
      BY <2>4, DeliverEffect, <1>1 DEF IRoom, ChannelInv
    <2>6. PICK e \in newBids : channel[1] = BidEvent(e)
      BY <1>1, <2>4, <2>5 DEF IRoom, ChannelInv, EventsAscend
    <2>7. 0 < channel[1].amount /\ channel[1].amount \in Int
      <3>1. 0 < e.amount /\ e.amount \in Int
        BY <1>1, AmountsAssumption DEF IRoom, Base, PublishInv, TypeOK, Messages
      <3>2. channel[1].amount = e.amount
        BY <2>6 DEF BidEvent
      <3> QED BY <3>1, <3>2
    <2>8. Announced
      BY <1>1, <2>4 DEF Deliver, vars, Announced
    <2>9. PICK i \in DOMAIN bids : bids[i].amount = h
      BY <2>2, <2>4, <2>7 DEF Shows
    <2>10. PICK n \in newBids : n.req = bids[i].req
      BY <2>8 DEF Announced
    <2>11. n.amount = h
      BY <1>1, <2>9, <2>10, AnnouncedRow DEF IRoom
    <2>12. OnWay(n)
      BY <1>1, <2>2, <2>4, <2>5, <2>7, <2>11 DEF IRoom, ChannelInv, EventsAscend
    <2>13. PICK k \in DOMAIN channel : channel[k] = BidEvent(n)
      BY <2>12 DEF OnWay
    <2>14. channel[k].amount = h
      BY <2>11, <2>13 DEF BidEvent
    <2>15. k # 1
      BY <2>2, <2>4, <2>7, <2>14
    <2> QED BY <2>1, <2>2, <2>5, <2>14, <2>15
  <1>2. IRoom /\ [RoomNext]_allVars =>
          [\A j \in Joiners :
             place[j] = "room" /\ place'[j] = "room" /\ view'[j].highest < view[j].highest =>
               \/ \E i \in DOMAIN channel' : channel'[i].amount >= view[j].highest
               \/ ~Announced']_allVars
    BY <1>1
  <1> QED BY <1>2, RoomInvariant, PTL DEF RoomSafeSpec, ShownBidRecovers
=============================================================================
