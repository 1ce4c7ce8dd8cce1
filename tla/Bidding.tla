------------------------------- MODULE Bidding -------------------------------
(***************************************************************************)
(* The bids of one auction, from the Kafka partition that holds them to the *)
(* database row, the cached state and the events other services see:        *)
(*                                                                           *)
(*   - the gateway appends bids to the auction's partition of the bid-events *)
(*     topic (auction.gateway.ts, kafka.producer.service.ts);                *)
(*   - the members of the bid-processor consumer group take them off it one  *)
(*     at a time and run placeBid (bid-events.consumer.service.ts);          *)
(*   - an administrator's request runs endAuction, and a client that joins   *)
(*     runs getAuctionState (auction.service.ts).                            *)
(*                                                                           *)
(* Every await of these three handlers is a boundary between two actions.   *)
(* The partition, the group and its offsets are modelled from how the code  *)
(* uses kafkajs: one owner per partition, delivery from the last committed  *)
(* offset, autocommit some time after the handler returns.                  *)
(*                                                                           *)
(* Amounts are integers in tenths of a cent: the smallest unit in which the  *)
(* rounding of a Decimal(14, 2) column can be seen.                          *)
(***************************************************************************)
EXTENDS Integers, Sequences

CONSTANTS
  Bidders,            \* the users who bid
  Amounts,            \* the amounts of the bid messages, in tenths of a cent
  Workers,            \* the instances of BidEventsConsumerService
  Admins,             \* the calls of endAuction
  Joiners,            \* the calls of getAuctionState
  None,               \* no winner, no owner, an absent cache key
  TxOutlivesSession,  \* may a transaction still be open when its consumer's session has expired?
  MaxStorable,        \* the largest amount a Decimal(14, 2) column holds
  MaxLog,             \* bound: messages in the partition
  MaxFaults           \* bound: faults (retried sends, thrown handlers, expired sessions, crashes)

ASSUME AmountsAssumption == Amounts \subseteq Int
ASSUME NoneAssumption == None \notin Bidders \cup Workers
ASSUME SessionAssumption == TxOutlivesSession \in BOOLEAN
ASSUME BoundsAssumption == MaxStorable \in Nat /\ MaxLog \in Nat /\ MaxFaults \in Nat

VARIABLES
  log,          \* the partition: messages [req, user, amount]; req is the offset of a message's first copy
  committed,    \* the group's committed offset: messages before it are not delivered again
  owner,        \* the consumer the partition is assigned to
  pos,          \* per consumer: messages it has handled, so that the next one is log[pos + 1]
  pc,           \* per consumer: where its placeBid stands
  auction,      \* the Auction row
  bids,         \* the Bid rows of the auction, in commit order
  rowsAtClose,  \* history: Bid rows at the time the auction was first closed
  cache,        \* the key auction:<id>:state, or None
  newBids,      \* history: newBid events published on auction_updates:<id>
  endings,      \* history: auctionEnd events published on auction_updates:<id>
  rejects,      \* history: rejections published on emit-to-socket
  endPc,        \* per call of endAuction: where it stands
  summary,      \* per call of endAuction: the winning bid it has read
  joinPc,       \* per call of getAuctionState: where it stands
  loaded,       \* per call of getAuctionState: the state it has found, and returns when it is done
  faults        \* faults so far

topicVars == <<log, committed, owner>>
workerVars == <<pos, pc>>
dbVars == <<auction, bids, rowsAtClose>>
eventVars == <<newBids, endings, rejects>>
endVars == <<endPc, summary>>
joinVars == <<joinPc, loaded>>
vars == <<log, committed, owner, pos, pc, auction, bids, rowsAtClose, cache,
          newBids, endings, rejects, endPc, summary, joinPc, loaded, faults>>

-----------------------------------------------------------------------------
(* Data *)

Cent == 10

\* What a Decimal(14, 2) column keeps of an amount: the nearest cent, halves up.
Stored(a) == a - (a % Cent) + (IF 2 * (a % Cent) >= Cent THEN Cent ELSE 0)

Refusals == {"AUCTION_NOT_FOUND", "AUCTION_CLOSED", "BID_TOO_LOW"}

NoBids == [amount |-> 0, user |-> None]

\* Mutated form of Verdict: a bid that equals the highest one passes.
VerdictAllowsEqual(amount) ==
  CASE ~auction.exists -> "AUCTION_NOT_FOUND"
    [] auction.exists /\ ~auction.isOpen -> "AUCTION_CLOSED"
    [] auction.exists /\ auction.isOpen /\ amount < auction.highest -> "BID_TOO_LOW"
    [] OTHER -> "write"

\* Mutated form of Verdict: the amount is not compared.
VerdictIgnoresAmount(amount) ==
  CASE ~auction.exists -> "AUCTION_NOT_FOUND"
    [] auction.exists /\ ~auction.isOpen -> "AUCTION_CLOSED"
    [] OTHER -> "write"

\* Mutated form of Verdict: the auction's isOpen is not consulted.
VerdictIgnoresClose(amount) ==
  CASE ~auction.exists -> "AUCTION_NOT_FOUND"
    [] auction.exists /\ amount <= auction.highest -> "BID_TOO_LOW"
    [] OTHER -> "write"

\* Mutated form of Verdict: a minimum increment of a cent is off by one.
VerdictOffByOne(amount) ==
  CASE ~auction.exists -> "AUCTION_NOT_FOUND"
    [] auction.exists /\ ~auction.isOpen -> "AUCTION_CLOSED"
    [] auction.exists /\ auction.isOpen /\ amount <= auction.highest + Cent -> "BID_TOO_LOW"
    [] OTHER -> "write"

\* How the transaction of placeBid judges a bid against the row it has read:
\* "write" lets it through.
Verdict(amount) ==
  CASE ~auction.exists -> "AUCTION_NOT_FOUND"
    [] auction.exists /\ ~auction.isOpen -> "AUCTION_CLOSED"
    [] auction.exists /\ auction.isOpen /\ amount <= auction.highest -> "BID_TOO_LOW"
    [] OTHER -> "write"

\* Mutated form of RowAfterBid: winnerId is not updated.
RowAfterBidKeepsWinner(m) ==
  [auction EXCEPT !.highest = Stored(m.amount), !.version = @ + 1]

\* The Auction row after an accepted bid.
RowAfterBid(m) ==
  [auction EXCEPT !.highest = Stored(m.amount), !.winner = m.user, !.version = @ + 1]

\* Mutated form of RoomAfterBid: winnerId is left out.
RoomAfterBidNoWinner(m) == [highest |-> m.amount, winner |-> None, isOpen |-> TRUE]

\* The state placeBid caches: the amount as it was sent, and the isOpen its
\* transaction has read, which is TRUE of every accepted bid.
RoomAfterBid(m) == [highest |-> m.amount, winner |-> m.user, isOpen |-> TRUE]

\* The state getAuctionState builds from the row.
LoadedRoom == [highest |-> auction.highest, winner |-> auction.winner, isOpen |-> auction.isOpen]

\* The state endAuction caches.
ClosedRoom(s) == [highest |-> s.amount, winner |-> s.user, isOpen |-> FALSE]

\* Mutated form of TopRows: orderBy amount "asc".
BottomRows == {i \in DOMAIN bids : \A j \in DOMAIN bids : bids[i].amount <= bids[j].amount}

\* The rows that orderBy amount "desc" may put first: equal amounts have no order.
TopRows == {i \in DOMAIN bids : \A j \in DOMAIN bids : bids[j].amount <= bids[i].amount}

\* What endAuction may read as the winning bid.
WinningBids ==
  IF bids = <<>> THEN {NoBids}
  ELSE {[amount |-> bids[i].amount, user |-> bids[i].user] : i \in TopRows}

-----------------------------------------------------------------------------
(* The initial states: the topic is empty, the auction, if there is one, is  *)
(* open with no bids, and nothing is cached.                                  *)

Init ==
  /\ log = <<>>
  /\ committed = 0
  /\ owner = None
  /\ pos = [w \in Workers |-> 0]
  /\ pc = [w \in Workers |-> "idle"]
  /\ \E exists \in BOOLEAN :
       auction = [exists |-> exists, isOpen |-> TRUE, highest |-> 0, winner |-> None, version |-> 1]
  /\ bids = <<>>
  /\ rowsAtClose = 0
  /\ cache = None
  /\ newBids = {}
  /\ endings = {}
  /\ rejects = {}
  /\ endPc = [c \in Admins |-> "start"]
  /\ summary = [c \in Admins |-> NoBids]
  /\ joinPc = [j \in Joiners |-> "start"]
  /\ loaded = [j \in Joiners |-> None]
  /\ faults = 0

-----------------------------------------------------------------------------
(* The topic and the consumer group *)

\* handlePlaceBid produces the bid to the auction's partition.
PlaceBid(user, amount) ==
  /\ Len(log) < MaxLog
  /\ log' = Append(log, [req |-> Len(log) + 1, user |-> user, amount |-> amount])
  /\ UNCHANGED <<committed, owner, workerVars, dbVars, cache, eventVars, endVars, joinVars, faults>>

\* A fault may happen: there is one left.
Fault ==
  /\ faults < MaxFaults
  /\ faults' = faults + 1

\* The acknowledgement of a send is lost, and the producer, which is not
\* idempotent, sends the message again.
ResendBid(k) ==
  /\ Fault
  /\ Len(log) < MaxLog
  /\ log' = Append(log, log[k])
  /\ UNCHANGED <<committed, owner, workerVars, dbVars, cache, eventVars, endVars, joinVars>>

\* A consumer that is between messages is assigned the partition, and starts at
\* the committed offset.
Assign(w) ==
  /\ owner = None
  /\ pc[w] = "idle"
  /\ owner' = w
  /\ pos' = [pos EXCEPT ![w] = committed]
  /\ UNCHANGED <<log, committed, pc, dbVars, cache, eventVars, endVars, joinVars, faults>>

\* Mutated form of CommitPoint: the message being handled counts as handled.
CommitPointAhead(w) == pos[w] + 1

\* The offset autocommit commits: the messages whose handler has returned.
CommitPoint(w) == pos[w]

\* Autocommit, at the end of a batch or before it is given up.
CommitOffset(w) ==
  /\ owner = w
  /\ committed # CommitPoint(w)
  /\ committed' = CommitPoint(w)
  /\ UNCHANGED <<log, owner, workerVars, dbVars, cache, eventVars, endVars, joinVars, faults>>

\* The session of a consumer expires, and the partition is free for another one
\* while its handler, if one is running, goes on.
SessionTimeout(w) ==
  /\ Fault
  /\ owner = w
  /\ pc[w] = "write" => TxOutlivesSession
  /\ owner' = None
  /\ UNCHANGED <<log, committed, workerVars, dbVars, cache, eventVars, endVars, joinVars>>

\* A consumer's process dies.  Its open transaction is rolled back.
Crash(w) ==
  /\ Fault
  /\ owner = w \/ pc[w] # "idle"
  /\ owner' = IF owner = w THEN None ELSE owner
  /\ pos' = [pos EXCEPT ![w] = 0]
  /\ pc' = [pc EXCEPT ![w] = "idle"]
  /\ UNCHANGED <<log, committed, dbVars, cache, eventVars, endVars, joinVars>>

-----------------------------------------------------------------------------
(* placeBid *)

Current(w) == log[pos[w] + 1]

\* eachMessage hands the next message to placeBid, whose transaction reads the
\* row and judges the bid.
TxRead(w) ==
  /\ owner = w
  /\ pc[w] = "idle"
  /\ pos[w] < Len(log)
  /\ pc' = [pc EXCEPT ![w] = Verdict(Current(w).amount)]
  /\ UNCHANGED <<topicVars, pos, dbVars, cache, eventVars, endVars, joinVars, faults>>

\* The transaction inserts the Bid row, updates the Auction row by its id alone
\* (version is incremented, never compared) and commits.  The row is locked from
\* the update to the commit, so that the writes of two transactions do not mix.
TxWrite(w) ==
  /\ pc[w] = "write"
  /\ Stored(Current(w).amount) <= MaxStorable
  /\ bids' = Append(bids, [req |-> Current(w).req, user |-> Current(w).user,
                           amount |-> Stored(Current(w).amount)])
  /\ auction' = RowAfterBid(Current(w))
  /\ pc' = [pc EXCEPT ![w] = "publish"]
  /\ UNCHANGED <<topicVars, pos, rowsAtClose, cache, eventVars, endVars, joinVars, faults>>

\* The insert of an amount the column cannot hold fails: the transaction is
\* rolled back and placeBid throws.
TxOverflow(w) ==
  /\ pc[w] = "write"
  /\ Stored(Current(w).amount) > MaxStorable
  /\ pc' = [pc EXCEPT ![w] = "idle"]
  /\ UNCHANGED <<topicVars, pos, dbVars, cache, eventVars, endVars, joinVars, faults>>

\* An accepted bid is announced to the room.
PublishNewBid(w) ==
  /\ pc[w] = "publish"
  /\ newBids' = newBids \cup {Current(w)}
  /\ pc' = [pc EXCEPT ![w] = "cache"]
  /\ UNCHANGED <<topicVars, pos, dbVars, cache, endings, rejects, endVars, joinVars, faults>>

\* placeBid returns, and the consumer moves on to the next message.
Handled(w) ==
  /\ pos' = [pos EXCEPT ![w] = @ + 1]
  /\ pc' = [pc EXCEPT ![w] = "idle"]

\* An accepted bid replaces the cached state.
CacheNewBid(w) ==
  /\ pc[w] = "cache"
  /\ cache' = RoomAfterBid(Current(w))
  /\ Handled(w)
  /\ UNCHANGED <<topicVars, dbVars, eventVars, endVars, joinVars, faults>>

\* A refused bid is reported to the socket it came from.
PublishRejection(w) ==
  /\ pc[w] \in Refusals
  /\ rejects' = rejects \cup {[req |-> Current(w).req, amount |-> Current(w).amount, code |-> pc[w]]}
  /\ Handled(w)
  /\ UNCHANGED <<topicVars, dbVars, cache, newBids, endings, endVars, joinVars, faults>>

\* A call to the database or to Redis fails under placeBid.  kafkajs gives the
\* same message to it again.
HandlerThrows(w) ==
  /\ Fault
  /\ pc[w] # "idle"
  /\ pc' = [pc EXCEPT ![w] = "idle"]
  /\ UNCHANGED <<topicVars, pos, dbVars, cache, eventVars, endVars, joinVars>>

-----------------------------------------------------------------------------
(* endAuction *)

\* What endAuction does next, by the row it has read: nothing if there is no
\* open auction.
AfterEndRead == IF auction.exists /\ auction.isOpen THEN "update" ELSE "done"

EndRead(c) ==
  /\ endPc[c] = "start"
  /\ endPc' = [endPc EXCEPT ![c] = AfterEndRead]
  /\ UNCHANGED <<topicVars, workerVars, dbVars, cache, eventVars, summary, joinVars, faults>>

\* The row is closed, whether it still is open or not, and the winning bid is
\* read under the lock of that update.
EndUpdate(c) ==
  /\ endPc[c] = "update"
  /\ auction' = [auction EXCEPT !.isOpen = FALSE]
  /\ rowsAtClose' = IF auction.isOpen THEN Len(bids) ELSE rowsAtClose
  /\ \E s \in WinningBids : summary' = [summary EXCEPT ![c] = s]
  /\ endPc' = [endPc EXCEPT ![c] = "publish"]
  /\ UNCHANGED <<topicVars, workerVars, bids, cache, eventVars, joinVars, faults>>

\* Mutated form of EndPublish: an auction without bids ends in silence.
EndPublishIfWon(c) ==
  /\ endPc[c] = "publish"
  /\ endings' = IF summary[c].user = None THEN endings
                ELSE endings \cup {[call |-> c, amount |-> summary[c].amount, user |-> summary[c].user]}
  /\ endPc' = [endPc EXCEPT ![c] = "cache"]
  /\ UNCHANGED <<topicVars, workerVars, dbVars, cache, newBids, rejects, summary, joinVars, faults>>

EndPublish(c) ==
  /\ endPc[c] = "publish"
  /\ endings' = endings \cup {[call |-> c, amount |-> summary[c].amount, user |-> summary[c].user]}
  /\ endPc' = [endPc EXCEPT ![c] = "cache"]
  /\ UNCHANGED <<topicVars, workerVars, dbVars, cache, newBids, rejects, summary, joinVars, faults>>

EndCache(c) ==
  /\ endPc[c] = "cache"
  /\ cache' = ClosedRoom(summary[c])
  /\ endPc' = [endPc EXCEPT ![c] = "done"]
  /\ UNCHANGED <<topicVars, workerVars, dbVars, eventVars, summary, joinVars, faults>>

\* endAuction throws, or its process dies: nothing takes the call up again.
EndDies(c) ==
  /\ Fault
  /\ endPc[c] \in {"update", "publish", "cache"}
  /\ endPc' = [endPc EXCEPT ![c] = "failed"]
  /\ UNCHANGED <<topicVars, workerVars, dbVars, cache, eventVars, summary, joinVars>>

-----------------------------------------------------------------------------
(* getAuctionState and the cache *)

\* A hit is returned; a miss goes to the database.
CacheLookup(j) ==
  /\ joinPc[j] = "start"
  /\ loaded' = [loaded EXCEPT ![j] = cache]
  /\ joinPc' = [joinPc EXCEPT ![j] = IF cache = None THEN "load" ELSE "done"]
  /\ UNCHANGED <<topicVars, workerVars, dbVars, cache, eventVars, endVars, faults>>

\* An auction that does not exist is not cached.
DbLookup(j) ==
  /\ joinPc[j] = "load"
  /\ loaded' = [loaded EXCEPT ![j] = IF auction.exists THEN LoadedRoom ELSE None]
  /\ joinPc' = [joinPc EXCEPT ![j] = IF auction.exists THEN "fill" ELSE "done"]
  /\ UNCHANGED <<topicVars, workerVars, dbVars, cache, eventVars, endVars, faults>>

CacheFill(j) ==
  /\ joinPc[j] = "fill"
  /\ cache' = loaded[j]
  /\ joinPc' = [joinPc EXCEPT ![j] = "done"]
  /\ UNCHANGED <<topicVars, workerVars, dbVars, eventVars, endVars, loaded, faults>>

\* Mutated form of CacheExpire: the key is set without a time to live.
CacheStays == cache # None /\ UNCHANGED vars

\* The key's time to live runs out.
CacheExpire ==
  /\ cache # None
  /\ cache' = None
  /\ UNCHANGED <<topicVars, workerVars, dbVars, eventVars, endVars, joinVars, faults>>

-----------------------------------------------------------------------------
(* The specification *)

PlaceBidStep(w) ==
  TxRead(w) \/ TxWrite(w) \/ TxOverflow(w) \/ PublishNewBid(w) \/ CacheNewBid(w) \/ PublishRejection(w)

EndAuctionStep(c) == EndUpdate(c) \/ EndPublish(c) \/ EndCache(c)

Next ==
  \/ \E user \in Bidders, amount \in Amounts : PlaceBid(user, amount)
  \/ \E k \in DOMAIN log : ResendBid(k)
  \/ \E w \in Workers :
       \/ Assign(w)
       \/ CommitOffset(w)
       \/ SessionTimeout(w)
       \/ Crash(w)
       \/ HandlerThrows(w)
       \/ PlaceBidStep(w)
  \/ \E c \in Admins : EndRead(c) \/ EndDies(c) \/ EndAuctionStep(c)
  \/ \E j \in Joiners : CacheLookup(j) \/ DbLookup(j) \/ CacheFill(j)
  \/ CacheExpire

\* The group keeps assigning the partition to a consumer that is free, a consumer
\* keeps handling and committing, and a request in progress goes on.  Redis
\* expires the key.  Nobody has to bid, to end the auction or to join it, and no
\* fault has to happen.
Fairness ==
  /\ WF_vars(\E w \in Workers : Assign(w))
  /\ \A w \in Workers : WF_vars(PlaceBidStep(w)) /\ WF_vars(CommitOffset(w))
  /\ \A c \in Admins : WF_vars(EndAuctionStep(c))
  /\ WF_vars(CacheExpire)

SafeSpec == Init /\ [][Next]_vars

Spec == SafeSpec /\ Fairness

-----------------------------------------------------------------------------
(* Properties *)

Messages == [req : Nat \ {0}, user : Bidders, amount : Amounts]
Rows == [req : Nat \ {0}, user : Bidders, amount : Int]
Rooms == [highest : Int, winner : Bidders \cup {None}, isOpen : BOOLEAN]
Summaries == [amount : Int, user : Bidders \cup {None}]

\* The state has its types; in particular no offset, of the group or of a
\* consumer, is past the end of the partition.
TypeOK ==
  /\ log \in Seq(Messages)
  /\ committed \in 0 .. Len(log)
  /\ owner \in Workers \cup {None}
  /\ pos \in [Workers -> 0 .. Len(log)]
  /\ pc \in [Workers -> {"idle", "write", "publish", "cache"} \cup Refusals]
  /\ \A w \in Workers : pc[w] # "idle" => pos[w] < Len(log)
  /\ auction \in [exists : BOOLEAN, isOpen : BOOLEAN, highest : Int,
                  winner : Bidders \cup {None}, version : Nat]
  /\ bids \in Seq(Rows)
  /\ rowsAtClose \in 0 .. Len(bids)
  /\ cache \in Rooms \cup {None}
  /\ newBids \subseteq Messages
  /\ endings \subseteq [call : Admins, amount : Int, user : Bidders \cup {None}]
  /\ rejects \subseteq [req : Nat \ {0}, amount : Amounts, code : Refusals]
  /\ endPc \in [Admins -> {"start", "update", "publish", "cache", "done", "failed"}]
  /\ summary \in [Admins -> Summaries]
  /\ joinPc \in [Joiners -> {"start", "load", "fill", "done"}]
  /\ loaded \in [Joiners -> Rooms \cup {None}]
  /\ faults \in 0 .. MaxFaults

\* All amounts are whole cents, as in every bid the browser client's form is meant for.
WholeCents == \A a \in Amounts : a % Cent = 0

\* Bid rows committed after the close.
LateBids == IF auction.isOpen THEN 0 ELSE Len(bids) - rowsAtClose

\* The Auction row and the Bid rows, which placeBid writes separately, agree: the
\* row's highest bid and winner are those of the last Bid row, and no row beats it.
\* This is what two transactions that overlap would break (a lost update).
HighestIsTopBid ==
  /\ bids = <<>> => auction.highest = 0 /\ auction.winner = None
  /\ bids # <<>> =>
       /\ auction.highest = bids[Len(bids)].amount
       /\ auction.winner = bids[Len(bids)].user
       /\ \A i \in DOMAIN bids : bids[i].amount <= auction.highest

\* Each accepted bid beats all bids accepted before it.
BidsAscend ==
  \A i, j \in DOMAIN bids : i < j => bids[i].amount < bids[j].amount

\* A bid that was sent once is accepted at most once, although the partition may
\* hold it twice and its handler may run several times.
OneRowPerRequest ==
  \A i, j \in DOMAIN bids : bids[i].req = bids[j].req => i = j

\* At most one bid is accepted after the close: the one whose transaction had read
\* the open row.
AtMostOneLateBid == LateBids <= 1

\* The cache never shows a bid that was not committed, neither a refused bid nor one
\* whose transaction was rolled back, nor a close that did not happen.  (One that says
\* open may be wrong.)
CacheShowsARow ==
  cache # None =>
    /\ \/ cache.highest = 0 /\ cache.winner = None
       \/ \E i \in DOMAIN bids : cache.highest = bids[i].amount /\ cache.winner = bids[i].user
    /\ cache.isOpen \/ ~auction.isOpen

\* Every auctionEnd event names the winner of record, unless a late bid has
\* changed that winner since.
AnnouncementStands ==
  \A e \in endings : LateBids = 0 => e.user = auction.winner /\ e.amount = auction.highest

\* A bid that was refused stays refused for a reason that is still true, however
\* late its rejection is published.
RejectedForCause ==
  \A r \in rejects :
    /\ r.code = "AUCTION_NOT_FOUND" => ~auction.exists
    /\ r.code = "AUCTION_CLOSED" => ~auction.isOpen
    /\ r.code = "BID_TOO_LOW" => r.amount <= auction.highest

\* The highest bid never falls, and a closed auction is not opened again.
HighestNeverFalls ==
  [][auction'.highest >= auction.highest /\ (auction'.isOpen => auction.isOpen)]_auction

\* newBid events are published in ascending order of their amounts.
NewBidsAscend ==
  [][\A new \in newBids' \ newBids : \A old \in newBids : old.amount < new.amount]_newBids

\* The bidder of message k has been told what became of it.
Answered(k) ==
  \/ \E n \in newBids : n.req = log[k].req
  \/ \E r \in rejects : r.req = log[k].req

\* A bid that the column cannot hold stops the partition: kafkajs gives it to placeBid
\* again and again.
Blocked(k) == \E i \in 1 .. k : Stored(log[i].amount) > MaxStorable

\* Every bid that is in the partition is answered in the end, through crashes, expired
\* sessions and handlers that throw, unless it or a bid before it does not fit the
\* column.
EveryBidAnswered ==
  \A k \in 1 .. MaxLog : k <= Len(log) ~> (k <= Len(log) /\ (Answered(k) \/ Blocked(k)))

\* Whatever races have left in the cache, once bidding is over it is gone or is
\* what the database holds.
CacheSettles == <>[](cache = None \/ cache = LoadedRoom)

\* An auction that was closed is announced as closed, unless the call that closed it died.
CloseIsAnnounced ==
  ~auction.isOpen ~> (endings # {} \/ \E c \in Admins : endPc[c] = "failed")
-----------------------------------------------------------------------------
(* The inductive invariant: what makes the properties above hold *)

Closing == {"publish", "cache"}

\* An open transaction belongs to the owner of the partition, so there is at most
\* one.  It is this, not the version field, that keeps bids apart.
SoleWriter == \A w \in Workers : pc[w] = "write" => owner = w

\* The judgement of a bid, made when the row was read, is still right when the row
\* is written, except that the auction may have been closed.
WriterBeats ==
  \A w \in Workers : pc[w] = "write" => auction.exists /\ auction.highest < Current(w).amount

InCents == auction.highest % Cent = 0

RowInv == SoleWriter /\ WriterBeats /\ InCents /\ HighestIsTopBid

\* req names the first copy of a message, and copies are equal.
FirstCopies == \A k \in DOMAIN log : log[k].req \in DOMAIN log /\ log[log[k].req] = log[k]

\* A Bid row is the row of a message.
RowsFromLog ==
  \A i \in DOMAIN bids :
    /\ bids[i].req \in DOMAIN log
    /\ bids[i].amount = Stored(log[bids[i].req].amount)

BidsInv == RowInv /\ BidsAscend /\ FirstCopies /\ RowsFromLog

\* A transaction that is open after the close is the first one since.
LateInv ==
  /\ AtMostOneLateBid
  /\ \A w \in Workers : pc[w] = "write" => LateBids = 0

\* Calls that have a summary have closed the auction, and the summary is right as
\* long as no late bid has landed.
SummaryInv ==
  /\ \A c \in Admins : endPc[c] \in Closing =>
       /\ ~auction.isOpen
       /\ LateBids = 0 => summary[c] = [amount |-> auction.highest, user |-> auction.winner]
  /\ endings # {} => ~auction.isOpen
  /\ AnnouncementStands

\* Refusals that are not published yet are as true as those that are.
RefusalInv ==
  /\ RejectedForCause
  /\ \A w \in Workers :
       /\ pc[w] = "AUCTION_NOT_FOUND" => ~auction.exists
       /\ pc[w] = "AUCTION_CLOSED" => ~auction.isOpen
       /\ pc[w] = "BID_TOO_LOW" => Current(w).amount <= auction.highest

IInv == BidsInv /\ LateInv /\ SummaryInv /\ RefusalInv

-----------------------------------------------------------------------------
(* What the documentation says and the code does not keep *)

\* The version field prevents races of bids with other updates of the row
\* (README.md:75, schema.prisma:33): no bid is accepted by a closed auction.
NoBidAfterClose == LateBids = 0

\* bidRejected is for a bid that failed (README.md:24 and 215): no bid is both
\* accepted and reported as rejected.
NoRejectionOfAcceptedBid ==
  \A r \in rejects : \A i \in DOMAIN bids : bids[i].req # r.req

\* No message, call or cache fill is in progress.
Quiet ==
  /\ \A w \in Workers : pc[w] = "idle"
  /\ committed = Len(log)
  /\ \A c \in Admins : endPc[c] \in {"start", "done"}
  /\ \A j \in Joiners : joinPc[j] \in {"start", "done"}

\* auctionState holds the current state of the auction (README.md:212): once nothing
\* is in progress, what a client that joins would be given is what the row says.
QuietCacheIsCurrent == Quiet /\ cache # None => cache = LoadedRoom

-----------------------------------------------------------------------------
(* The promise kept *)

Ascending == INSTANCE AscendingAuction
  WITH isOpen <- auction.isOpen, highest <- auction.highest, winner <- auction.winner,
       late <- LateBids, MaxLate <- 1, Amounts <- {Stored(a) : a \in Amounts}

\* Seen through the Auction row, the pipeline is an ascending auction in which at
\* most one bid lands after the close: no redelivery, no change of the partition's
\* owner, no second call of endAuction and no failure adds a behaviour.
KeepsAscending == Ascending!Spec
=============================================================================
