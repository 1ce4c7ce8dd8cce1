# Formal verification of the real-time car auction

TLA+ modules of the auction backend (NestJS, Socket.IO, Kafka, Redis, PostgreSQL
through Prisma), the TLC configurations that check them on small instances, and
theorems about them that TLAPS proves for every instance. Paths below are
relative to the repository; `auction/` stands for `src/auction/`, and so on.

## 1. Inventory of the system

A client opens a WebSocket to the `auction` namespace, joins the room of an
auction and places bids. A bid passes guards and a throttle, is appended to a
Kafka partition, is judged and committed by a consumer, and is announced through
Redis Pub/Sub to every socket of the room. An administrator's `endAuction` message,
over the same WebSocket, closes the auction.

| Component | State | Operations | Talks to |
|---|---|---|---|
| `BidEventsConsumerService` (`kafka/consumer/bid-events.consumer.service.ts`) | offsets of its consumer group | `placeBid` per message of the bid-events topic | PostgreSQL, Redis Pub/Sub, Redis cache |
| `AuctionService` (`auction/auction.service.ts`) | none of its own | `endAuction`, `getAuctionState`, `findAll` | PostgreSQL, Redis Pub/Sub, Redis cache |
| Prisma schema (`prisma/schema.prisma`) | rows `Auction`, `Bid`, `User` | transactions | - |
| `RedisService` (`redis/redis.service.ts`) | keys of the cache, of sessions, of presence, of the throttle; a Pub/Sub subscriber | `setCache`, `getCache`, `registerSocket`, `unregisterSocket`, `onlineInAuctionID`, `zadd`..., `publish` | Socket.IO rooms |
| `AuctionGateway` (`auction/auction.gateway.ts`) | Socket.IO rooms | `handleConnection`, `handleJoinAuction`, `handlePlaceBid`, `handleEndAuction`, `handleDisconnect` | all of the above |
| `WsConnectionRateLimitGuard` | none (reads the session sets) | `canActivate` for each message | Redis, Kafka (audit) |
| `WsConnectionAuthGuard`, `WsRolesGuard` | `client.user` | `canActivate` | JWT |
| `BidThrottleInterceptor` | none (reads and writes a sorted set per user) | `intercept` for each bid | Redis, Kafka (audit) |
| `KafkaProducerService` | a producer | `produceBidEvent` and the notification and audit messages | Kafka |
| `AuditLogsConsumer`, `AuctionNotificationsConsumer` | offsets | log what they receive; the first publishes refusals of the throttle for their sockets | Redis |
| `AuthService`, `AuthController` | rows `User` | `register`, `login` | PostgreSQL, JWT |
| `KafkaClientService`, modules, `main.ts`, `constants.ts`, `RedisIoAdapter`, `index.html` | configuration | wiring; a test page | - |

What is hard, and what makes each part correct:

* **Bids and closing.** `placeBid`, `endAuction` and `getAuctionState` meet at the
  `Auction` row and at one cache key with no common lock. Kafka delivers at least
  once, the handler is not idempotent, the update of the row does not compare the
  `version` it increments, and the cache is written by three handlers. Correct
  means: the row agrees with the bids; accepted bids ascend; a request is accepted
  once; a close is final, announced, and names the winner of record; clients are
  shown committed states; every bid is answered.
* **Sessions.** Handlers of one socket run concurrently and a disconnect stops
  none of them; the limits are checked before the socket is counted. Correct
  means: a socket in a room is counted, a socket that left is not, limits hold.
* **Throttle.** A check and an update in separate Redis calls. Correct means: the
  limit holds, and nobody is refused who kept to it.
* **Announcements to the room.** The state a joining client is given and the
  events it receives afterwards come over different paths. Correct means: what the
  client shows converges to the row.
* **Fan-out of a bid message.** `handlePlaceBid` produces to three topics in a
  row, into the partition that has the auction's number; a refusal goes through the
  audit topic and Pub/Sub back to its socket. Correct means: what is reported agrees
  with what was produced, and every bid is queued or answered.
* **Accounts and guards.** Two unique columns behind one error message; roles and
  usernames are copied into tokens; `client.user` belongs to the socket and is shared
  by its concurrent messages. Correct means: names identify accounts, who has
  registered can log in, a handler acts for the account of the token, and only
  administrators end auctions.

## 2. Plan

Written so far, in this order:

1. `Bidding`, with the abstract `AscendingAuction` and `BiddingProofs`.
2. `Sessions`, now with what is shown as online and by how much a limit is passed.
3. `BidThrottle`.
4. `AuctionRoom`, which composes `Bidding` with the Pub/Sub channel and the room.
5. `BidPipeline`.
6. `Accounts`, and `Access`, which composes it with the guards of a message.
7. The theorems about each of them: `BiddingProofs`, `SessionsProofs`,
   `BidThrottleProofs`, `BidPipelineProofs`, `AccountsProofs`, `AccessProofs` and
   `AuctionRoomProofs`, in that order.

Every invariant and every action property of the runs now has its theorem. Liveness is
left to the runs (section 6). What would add most next: the invariants of `Sessions`
that still hold when keys expire, and the theorems about `Bidding` without whole cents,
stated up to a rounding.

## 3. The modules

### Bidding

One auction, from the partition that holds its bids to the row, the cache and the
published events. Each `await` of the three handlers separates two actions.

| Code | Action |
|---|---|
| `produceBidEvent` | `PlaceBid`; `ResendBid` when the acknowledgement is lost |
| kafkajs consumer group (external) | `Assign`, `CommitOffset`, `SessionTimeout`, `Crash`, `HandlerThrows` |
| `placeBid`: reads of the transaction | `TxRead`, which judges the bid with `Verdict` |
| `placeBid`: writes and commit | `TxWrite`, or `TxOverflow` when the amount does not fit the column |
| `placeBid`: `newBid`, then the cache | `PublishNewBid`, `CacheNewBid` |
| `placeBid`: `bidRejected` | `PublishRejection` |
| `endAuction` | `EndRead`, `EndUpdate`, `EndPublish`, `EndCache`; `EndDies` |
| `getAuctionState` | `CacheLookup`, `DbLookup`, `CacheFill` |
| time to live of the cache | `CacheExpire` |

Amounts are integers in tenths of a cent, `Stored` is the rounding of
`Decimal(14, 2)`, and `MaxStorable` stands for its range. The verdict compares the
amount as sent with the amount as stored, as the code does. `version` is part of
the row and is incremented; nothing reads it. `startingBid` and `endTime` are
not state of the module because no handler looks at them. The topic is read from
the group's committed offset; a group that has none yet starts at the end of the
topic (`fromBeginning: false`), and is outside the model.

`TxOutlivesSession` says whether a transaction may still be open when its
consumer's session has expired. It is FALSE in all runs: Prisma ends an
interactive transaction after 5 s, and the session times out after 30 s without a
heartbeat. With TRUE, two transactions can overlap and one loses its update.

### AscendingAuction

The promise: a bid is accepted when it beats the highest one, and closing is final
up to `MaxLate` bids. `Bidding` implements it with `MaxLate = 1`
(`KeepsAscending`), seen through the row: `highest`, `winner` and `isOpen` are its
columns and `late` is the number of `Bid` rows since the close.

### Sessions

The life of a socket: `CheckUser`, `CheckIp`, `Reject` and `RejectThrows` are the
guard; `LoadAuction`, `TurnAway`, `Register` (one `MULTI`) and `Enter` are
`handleJoinAuction`; `ReadName`, `ReadAddress`, `ReadAuction`, `Remove` (one
`MULTI`), `CountRemaining` and `GoOffline` are `unregisterSocket`; `Close` and
`Broadcast` are what `endAuction` means to a room. `Expire...` are the times to
live; `KeysExpire` is FALSE where sessions are taken to be shorter than `REDIS_TTL`
(an hour). Messages other than `joinAuction` pass the same guard and end there.
A token verifies with the first message of its socket and may have expired by a later
one. `verified` is what the rate-limit guard finds: when it is FALSE, `CheckUser` does
not look at the user's count (`ws-connection-rate-limit.guard.ts:44`), and the message
goes on with the `client.user` of an earlier one (`ws-connection-auth.guard.ts:25`). A
socket is taken to have that `client.user` from its first message on, also when this one
is rejected: the model lets more through than the code.

Three histories. `overlap` is the largest number of joins that were between the guard,
which counts, and the registration, which adds. `late` holds the sockets that were
registered after they had been unregistered. `raced` holds a socket and an auction when,
at its registration there, the disconnect of another socket had found that the user has
none left (`CountRemaining`) and had yet to take the user off the list (`GoOffline`). The
presence events that accompany changes of `online` are not modelled.

### AuctionRoom

What a client is shown. It extends `Bidding`: the `newBid` and `auctionEnd` that
`PublishNewBid` and `EndPublish` publish are appended to `channel`
(`AnnounceBid`, `AnnounceEnd`), `Deliver` is the `pmessage` handler, and a call of
`getAuctionState` in `Bidding` is the beginning of a client's `joinAuction`, which
goes on with `TurnAway`, `Enter` or `JoinFails`. `LoseEvents` is a broken connection
of the subscriber. `view` is what the client was sent last.

Two kinds of client may show something else than the row when nothing is on its way, and
each has a history of its own. An event has missed the clients in `behind`: it came
between their read of the state and their entry, or it was lost. `read` says whether the
state a join was given was older than what had been told by then, and whether it came
from the cache or the row. `Misled` are the clients that joined after an event and to
which the cache gave the state from before it, because a late `CacheNewBid` or
`CacheFill` had put that state back (`auction.service.ts:34-38`). No client is misled by
the row (`"staleRow"` is never reached). These two, and an accepted bid whose consumer
died before its `newBid`, are the only reasons (`RoomShowsTheRow`); the next `newBid`
ends the first two.

One gateway is modelled. Every gateway subscribes to all channels and emits to its
own sockets, so that another one changes nothing.

### BidPipeline

A `placeBid` message after its guards, in the order Nest runs it: throttle
(`Refuse`, `Admit`, `ThrottleFails`), pipe (`Validate`), and the sends of the handler,
one after the other (`Send`). A refused bid is sent to the audit topic and ends with
an exception. `SendTwice` and `SendFails` are what a send may do without idempotence,
`SendNowhere` and a `Send` that stores nothing what it may do when the topic has no
such partition: kafkajs groups messages by the leaders it knows, and a
partition it does not know gets none. `Consume` is the handler of the audit and of
the notification consumer, `EmitsFor` the one branch of the former that does more than
log, and `EmitToSocket` the subscriber of the gateway. Both consumers are taken to
have committed an offset before the first message (`fromBeginning: false`).

### Accounts and Access

`Accounts`: `Insert` is `register` (its hash is awaited before anything is read),
`Arrive`, `Lookup` and `Compare` are `login`; `Insert` and `Compare` sign a
token, which is the row as it was read. `Expire` is `JWT_EXPIRY`; `SetRole` stands for
a change in the database, since no code changes a role.

`Access` adds sockets, which present one token or none for their whole life, and the
guards of each message: `Verify` and `OverLimits` are the rate-limit guard,
`Authenticate`, `Reverify` and `Audit` the auth guard, `CheckRole` the roles guard of
`endAuction`, and `Act` the handler, which reads `client.user`. `AuditFails` is an
audit event that cannot be sent: the guard throws.

### BidThrottle

The bids of one user in `intercept`: `Arrive` takes the time, `Trim`, `Count`,
`Add` and `Report` are its calls, `CallFails` is a Redis call that fails, and
`KeyExpire` and `Tick` are time. The score and the member of an entry are the same
number, so the sorted set is a set of times. `MAX_BIDS` and `WINDOW` are defined
as `constants.ts` defines them, from `MAX_SOCKETS_PER_USER`, or 5 and 10 where it is
`Unset`. `RedisService.zadd` sends `ZADD` and `EXPIRE` in one go: a bid that fails there
(`"charged"`) is in the set and may have left the key the time to live it had
(`renewed`), or none if it was new (`lasts`).

## 4. The runs

| Run | Result | What it shows |
|---|---|---|
| `bidding_group` | holds | Two consumers taking the partition from each other, two concurrent closes, two faults, an amount that does not fit: the row agrees with the bids, bids ascend, requests are accepted once, at most one bid lands after the close, announcements and refusals stand, the abstract auction is implemented; `IInv` is the inductive invariant of the proofs |
| `bidding_live` | holds | Under fairness and one fault every bid is answered, unless it is behind one that does not fit the column, every close whose call survives is announced, and the cache settles |
| `room` | holds | One consumer, a close, a join, Pub/Sub and one fault: the cache never shows a bid that was not committed nor a close that did not happen; a client in the room shows the row once events have arrived, but for those an event has missed and those the cache misled; it falls back to a lower bid only while a higher one is on its way, and is told of the end |
| `bidding_late` | violated | A bid is committed after the close (`NoBidAfterClose`): README.md:75 presents `version` as what prevents this |
| `bidding_redelivery` | violated | An accepted bid that is delivered again is reported as rejected (`NoRejectionOfAcceptedBid`) |
| `bidding_stale` | violated | The cache shows an open auction after the close when nothing is in progress (`QuietCacheIsCurrent`) |
| `sessions_races` | holds | Three sockets of a user, three messages, two auctions, tokens that expire: sockets in rooms are counted, keys agree, only a join that was under way at the disconnect leaks, limits are passed by no more than the overlap by sockets that the guard counted, who is shown as online has a socket there or has left in one of two named ways, and who is in a room is shown unless a disconnect had counted before the registration and removed after it |
| `sessions_expire` | holds | One socket, two messages, an auction that exists and one that does not: with times to live, what leaked is gone in the end |
| `throttle_limits` | holds | Nobody is refused without cause; the limit holds for bids that do not overlap nor share a millisecond; the excess is bounded by the concurrency |
| `pipeline` | holds | Three bids on two auctions, one of which has no partition, one fault: the topics agree, a refused bid is not queued, each other one is queued or answered, and refusals reach their socket |
| `pipeline_partitions` | violated | A bid for an auction whose id is beyond the partitions is lost without an answer (`EveryAuctionTakesBids`): README.md:18 partitions by `auctionId` |
| `access` | holds | Three registrations that collide in the email or the username, a login, a change of role, expiry, two messages of a socket, one fault: who gets to a handler, and for whom it acts |

**Bounds.** `MaxLog` messages in the partition (2 or 3): two are enough for a bid that
is overtaken, refused or delivered again, the third puts a bid behind it. `MaxFaults` (1
or 2): one fault splits a handler, the second one hits the recovery; the theorems cover
any number. Two or three amounts: equal, lower and higher ones, and in `bidding_group`
one that does not fit. Two consumers and two closing calls: an overlap involves two. In
`Sessions` three messages allow two joins of a socket and one of another, or a join of
each of three. The limit of a user is 0 and that of the address 1 in `sessions_races`,
so that its three sockets can pass both. `FewAfterClose` is a bound of that run: once an
auction is closed, no third message is sent (what a close does to a socket meets two
messages, the races of three messages happen while the auctions are open). In
`BidThrottle` a limit of 2 in a window of 4 ticks with 4 bids and a clock of 5 ticks:
the third bid of a window meets the limit and the window moves on; two bids at a time
are an overlap. In `AuctionRoom` one client joins before, during or after two bids and a
close; there is one consumer, as the properties of the views need (section 5), and the
theorems have any number of clients, closes and faults. In `BidPipeline` two partitions
stand for ten: the third bid is for the auction just past them, and the bids of auction
1 share a partition with each other while reports share partition 0. In `Access` the
second registration has the email of the first and the third its username; one of two
messages is `endAuction`, so that each can be verified while the other is handled.
Deadlock is not checked: messages, requests, faults and the clock are bounded, and
nobody has to act, so that every model stops.

**Fairness.** In `Bidding`: a free partition is assigned (the group coordinator does
so), a consumer goes on with `placeBid` and commits (its loop never waits for
anything else), a call of `endAuction` that has closed the auction goes on, and
Redis expires keys. In `AuctionRoom`, besides, the gateway receives what is published.
In `Sessions`: handlers go on, and keys expire. In `BidPipeline`: a message in the
gateway goes on (it passes or is refused), consumers consume and the subscriber
receives. In `Access`: a message goes on. Weak fairness is
enough, since no other actor disables these steps for ever. Nobody has to bid,
join, close or leave, and no fault has to happen.

**Symmetry** is used only in runs without liveness properties, over the names of users,
consumers, sockets, messages, bids, and auctions where all of them exist.

## 5. What is proved

Theorems hold for every value of the constants that satisfies the named ASSUMEs of the
module: any sets of users, sockets, messages and calls, any limits and any bounds.
Each safety theorem rests on an inductive invariant, which was checked by TLC on a
small instance before it was proved; a step lemma shows that every action keeps it.

T stands for `~TxOutlivesSession`, W for `WholeCents` (no bid has a fraction of a
cent), 1 for `OneConsumer` (`Workers` has at most one member), K for `~KeysExpire`
(sessions are shorter than `REDIS_TTL`).

### Bids: `BiddingProofs`, of `SafeSpec`

| Theorem | Property | Assumes |
|---|---|---|
| `TypeCorrect` | `TypeOK` | - |
| `RowAgreesWithBids` | `HighestIsTopBid` | T |
| `HighestNeverFallsHolds` | `HighestNeverFalls` | T |
| `OneLateBid` | `AtMostOneLateBid` | T |
| `RefusalsStayRight` | `RejectedForCause` | T |
| `AcceptedBidsAscend` | `BidsAscend` | T, W |
| `AcceptedOnce` | `OneRowPerRequest` | T, W |
| `AnnouncementsStand` | `AnnouncementStands` | T, W |
| `InvariantHolds` | `IInv` | T, W |
| `ImplementsAscending` | `KeepsAscending` | T, W |
| `CacheShowsRows` | `CacheShowsARow` | W |
| `OwnersAscend` | (`OwnersAnnounceInOrder`) | T, W |
| `AnnouncementsAscend` | `NewBidsAscend` | T, W, 1 |

`HighestIsTopBid` is not inductive: a write by a consumer that is no
longer alone, or whose verdict is out of date, would break it. `RowInv` adds
`SoleWriter` (an open transaction belongs to the owner of the partition: this and
not `version` keeps bids apart), `WriterBeats` (a verdict stays right until the
write, except that the auction may have been closed) and `InCents`. `BidsInv` adds
that a message and its copies are equal and that rows come from messages: a second
copy of an accepted bid cannot beat itself. `LateInv` says that a transaction open
after the close is the first since. `SummaryInv` and `RefusalInv` carry the truth of a
summary or a verdict from the time it is read to the time it is published. `IInv`
is their conjunction. `StepCases` splits `Next` by what a step can disturb, so that
the steps that touch neither the rows nor the open transactions are handled once.

`CacheInv` follows what the cache may be filled from: the row, the bid of a
consumer that has written it, the summary of a close, the state a join has loaded. It
needs neither T nor an order of the handlers, since rows are never removed.

`PublishInv` says of the consumer that has committed a bid and not announced it yet
that it announces more than anybody before, if its bid is the highest. It is the
highest when the consumer owns the partition. A consumer whose session expired
between its commit and its `newBid` may announce its bid after its successor's
higher one: with two consumers `NewBidsAscend` is false, and TLC finds the
behaviour. Hence `OwnersAscend` for any number of consumers, and `NewBidsAscend` for
one. The system as it is wired starts one consumer in each process.

W is needed: with fractions of a cent, 0.012 is accepted after 0.012, which was
stored as 0.01. The theorems without W hold for such amounts as well.

### The room: `AuctionRoomProofs`, of `RoomSafeSpec`

| Theorem | Property | Assumes |
|---|---|---|
| `RoomTypeCorrect` | `TypeOK` | - |
| `RoomCacheShowsRows` | `CacheShowsARow` | W |
| `RoomAnnouncementsAscend` | `NewBidsAscend` | T, W, 1 |
| `RoomShowsTheAuction` | `RoomShowsTheRow` | T, W, 1 |
| `ShownBidsRecover` | `ShownBidRecovers` | T, W, 1 |

A step of the room is a step of `Bidding` or a fault (`RoomSteps`), so that the step
lemmas of `BiddingProofs` carry over (`Base`). `ChannelInv` is about what is under way:
the `newBid` events in the channel are of published bids, ascend, and are above all that
left it (`EventsAscend`); what was told is the highest bid that is not in the channel
(`ToldIsHighest`); a close is told, in the channel, or its call is at it or dead
(`EndIsAnnounced`). `RoomInv` adds the clients: they are shown an open auction and a bid
that has a row; those that are neither `behind` nor `Misled` (`Informed`) are shown at
least what was told. When nothing is under way the row is announced, told, shown, and
not surpassed, so that it is what is shown; rows ascend, so that amounts name bidders.
`SoundInv` says that what was told, or is about to be, is true of the row; hence a row
that is read is at least as new as what was told (`RowNotOlder`), and only the cache can
mislead. 1 is needed for both properties of the views: with two consumers a late
`newBid` makes a client show a lower bid than the row, and nothing corrects it until the
next bid.

### Sessions: `SessionsProofs`, of `SafeSpec`

| Theorem | Property | Assumes |
|---|---|---|
| `LimitsOverrunBounded` | `OverrunIsBounded` | - |
| `SessionsTypeCorrect` | `TypeOK` | K |
| `OnlyLateJoins` | `OnlyLateJoinsLeak` | K |
| `RoomsAreCounted` | `RoomMembersAreCounted` | K |
| `RoomsAreShown` | `MembersAreShownOnline` | K |
| `OnlineForACause` | `ShownOnlineForACause` | K |

`Base` (types, what a message in progress knows of its socket, and that the joins past
the check are counted in `overlap`) holds with and without K. `LimitsInv` adds the
sockets counted to the joins that are about to be counted: the sum is within the limit
and the overlap. For a user it is about the sockets that joined with a token that
verified (`VerifiedSockets`), since the guard counts for them only. `KeysInv` says what
the keys of a socket are at each stage of its disconnect and what the disconnect has read
of them. `RoomsInv` extends the claims about sockets in rooms to joins that are registered
and about to enter; and, whenever the user is about to be taken off the list of an auction
where a socket is present, that socket has `raced` (`ShownOrRaced`), since one that was
registered before the count would have been counted. `OnlineInv`
gives each entry of the online list, and each record of an auction, a socket and a
reason. K is needed: an expired key leaves a socket in the room uncounted.

### Throttle: `BidThrottleProofs`, of `Spec`

| Theorem | Property |
|---|---|
| `ThrottleTypeCorrect` | `TypeOK` |
| `OverrunBounded` | `OverrunIsBounded` |
| `RefusalsHaveCause` | `RefusedForCause` |
| `SerialBidsLimited` | `SerialLimit` |

`OverrunInv` needs `TypeOK` and the bound on the messages in the interceptor; its proof
adds up cardinalities of bids past the check and of times in the set. `CauseInv`: every
time in the set is that of a bid that was taken (`StampsSound`), and when a bid comes to
count, all of them are within its window (`CountSound`). `SerialInv`: the time of a bid
that passed, which has renewed the time to live, stays in the set until it is out of the
window or the key expires (`TimesKept`), no other bid is at work while one is alone
(`AloneSound`), so that it passed the check with room for it (`RoomFound`).

### A bid's messages: `BidPipelineProofs`, of `SafeSpec`

| Theorem | Property |
|---|---|
| `TypeCorrect` | `TypeOK` |
| `RecordsFollowTheQueue` | `RecordsAreOfQueuedBids` |
| `RefusalsAreTrue` | `RefusedIsNotQueued` |

`PipelineInv`: the topics hold the messages of a bid up to the send its handler is at; a
bid that was refused does not come back to the sends; refusals on their way to a
socket are on record.

### Accounts and access: `AccountsProofs`, of `AccountsSpec`; `AccessProofs`, of `SafeSpec`

| Theorem | Property |
|---|---|
| `AccountsTypeCorrect` | (`AccountsTypeOK`) |
| `NamesAreAccounts`, `NamesIdentify` | `NamesIdentifyAccounts` |
| `SuccessMeansLogin`, `RegisteredLogIn` | `RegisteredCanLogin` |
| `AccessTypeCorrect` | `TypeOK` |
| `HandlersActForTokens` | `HandlersActForTheToken` |
| `EndedByAdmins` | `OnlyAdminsEnd` |

`AccountsInv`: rows are unique in both columns, tokens name rows, and a login in
progress holds the row of its email. `AccessInv`: a token that is valid was so when
its socket connected, `client.user` is what that token says, a message past the auth
guard belongs to a socket that is identified, and stays so. The theorems about
accounts are stated for `Access` as well, where faults of the gateway count with
those of the accounts.

## 6. Model-checked only, and not modelled

Only model-checked: liveness (`EveryBidAnswered`, `CloseIsAnnounced`,
`CacheSettles`, `RoomIsToldOfTheEnd`, `LeaksExpire`, `EveryBidQueuedOrAnswered`,
`RefusalReachesSocket`, `RefusedIsDisconnected`), since the prover handles neither
fairness nor ENABLED. Every other property of a passing run is the statement of a
theorem.

Seen while modelling, and not among the runs: with `TxOutlivesSession` a lost update;
a `newBid` event of a consumer that lost the partition, published after a higher one
(two consumers, one expired session: `NewBidsAscend` and `RoomShowsTheRow` are false);
a call of `endAuction` that dies after its update, after which another call returns
without announcing the close; bids that overlap, or share a millisecond, and pass
the throttle together (`SerialLimit` says these are the only ways).

* A bid that does not fit `Decimal(14, 2)` makes the handler throw at every delivery
  and stops its partition: the exception `Blocked` of `EveryBidAnswered`. `PlaceBidDto`
  checks only that the amount is a number.
* The rate-limit guard compares the count, without the joining socket, with `>`: a user
  gets one socket more than `MAX_SOCKETS_PER_USER` also when nothing overlaps
  (`OverrunIsBounded` counts the join itself in `overlap`).
* `constants.ts` lines 41 and 42 read `MAX_BIDS` and `WINDOW_SECONDS` from the variable
  `MAX_SOCKETS_PER_USER`: the values `.env.example` names have no effect.
* A second `joinAuction` of a socket replaces its auction key, and the disconnect
  leaves the user online in the first auction: the exception `JoinsTwice` of
  `ShownOnlineForACause`.
* A disconnect that counts before another socket of the user registers, and removes
  after it, takes a user off the list who is there: the exception `raced` of
  `MembersAreShownOnline`.
* A client that enters the room after `auctionEnd` with a state from before it stays in
  the room and is not told. It had read before the event (`behind`), or the cache gave it
  the open auction after the event (`Misled`): exceptions of `RoomIsToldOfTheEnd`.
* A taken username is answered with "Email already in use."
  (`auth.controller.ts:28`); so is the retry of a registration whose answer was lost.
* A socket keeps `client.user` when its token expires, and its later messages pass the
  auth guard; with the token no longer valid the rate-limit guard counts the address
  only, so that the sockets of a user pass the user's limit one by one: the exception
  `JoinsUnverified` of `OverrunIsBounded`.
* What the exceptions and assumptions leave out is not caught by any property: a lost
  update of overlapping transactions (`TxOutlivesSession`), fractions of a cent in the
  runs (some theorems hold for them), keys that expire under a long session.
* The page's handler of `auctionEnd` reads `bidderId` and `bidderUsername`, the server
  sends `userId` and `username`; the auth guard emits `rejectedConnection`, README.md:216
  names `connectionRejected`.

Not modelled: `presenceDelta` events; formatting in the audit and notification
consumers; configuration and wiring; the browser page; what several gateways share
beyond Redis and Kafka; and `RedisIoAdapter`, whose use is commented out in `main.ts`.
`findAll` only reads.
