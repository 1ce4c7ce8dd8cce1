----------------------------- MODULE BidPipeline -----------------------------
(***************************************************************************)
(* A placeBid message from the gateway to the Kafka topics, and a refusal    *)
(* from there back to its socket: the throttle's answer                      *)
(* (bid-throttle.interceptor.ts), the validation pipe and handlePlaceBid     *)
(* (auction.gateway.ts), the sends (kafka.producer.service.ts), the          *)
(* consumers of the audit and the notification topic, and the emit-to-socket *)
(* channel (redis.service.ts).  What happens to the bids of the bid-events   *)
(* topic is the subject of Bidding, and how the throttle decides that of     *)
(* BidThrottle.                                                              *)
(*                                                                           *)
(* A send is modelled from how the code uses kafkajs: it awaits the          *)
(* acknowledgement, and is retried without idempotence.  A message whose     *)
(* partition the topic does not have is stored nowhere, whatever the call    *)
(* reports.                                                                  *)
(***************************************************************************)
EXTENDS Integers, Sequences

CONSTANTS
  Bids,            \* the placeBid messages, each from a socket that stays connected
  AuctionOf,       \* the auctionId of each
  PartitionCount,  \* partitions of each topic
  RejectionKeys,   \* keys of the audit events of other rejections
  None,            \* no bid
  MaxRejections,   \* bound: other rejections
  MaxFaults        \* bound: faults

ASSUME AuctionsAssumption == AuctionOf \in [Bids -> Nat]
ASSUME PartitionsAssumption == PartitionCount \in Nat \ {0}
ASSUME KeysAssumption == None \notin Bids /\ RejectionKeys \cap {"bid", "rate_limit_exceeded"} = {}
ASSUME BoundsAssumption == MaxRejections \in Nat /\ MaxFaults \in Nat

VARIABLES
  stage,       \* per bid: where its message stands in the gateway
  topic,       \* per topic and partition: the messages stored
  read,        \* per topic and partition: the messages its consumer has handled
  emits,       \* the emit-to-socket events published and not received yet: the bids they are about
  missed,      \* history: the bids an emit-to-socket event of which was lost
  told,        \* per bid: what its socket was sent because of it
  rejections,  \* other rejections so far
  faults       \* faults so far

vars == <<stage, topic, read, emits, missed, told, rejections, faults>>

Partitions == 0 .. PartitionCount - 1
Topics == {"bid-events", "auction-notifications", "audit-logs"}

\* The topics whose consumers are modelled here.
Logged == {"auction-notifications", "audit-logs"}

Init ==
  /\ stage = [b \in Bids |-> "unsent"]
  /\ topic = [t \in Topics |-> [p \in Partitions |-> <<>>]]
  /\ read = [t \in Logged |-> [p \in Partitions |-> 0]]
  /\ emits = <<>>
  /\ missed = {}
  /\ told = [b \in Bids |-> {}]
  /\ rejections = 0
  /\ faults = 0

Fault ==
  /\ faults < MaxFaults
  /\ faults' = faults + 1

Goto(b, s) == stage' = [stage EXCEPT ![b] = s]

\* Nest answers an exception of the interceptor, the pipe or the handler with an error.
Throw(b) ==
  /\ Goto(b, "failed")
  /\ told' = [told EXCEPT ![b] = @ \cup {"exception"}]

-----------------------------------------------------------------------------
(* The gateway *)

\* The message has passed the guards.
Receive(b) ==
  /\ stage[b] = "unsent"
  /\ Goto(b, "throttle")
  /\ UNCHANGED <<topic, read, emits, missed, told, rejections, faults>>

\* Mutated form of Refuse: the interceptor reports the bid and lets it pass.
RefuseAndPass(b) ==
  /\ stage[b] = "throttle"
  /\ \E s \in {"report", "pipe"} : Goto(b, s)
  /\ told' = [told EXCEPT ![b] = @ \cup {"bidRejected"}]
  /\ UNCHANGED <<topic, read, emits, missed, rejections, faults>>

\* The throttle finds too many bids of the user.
Refuse(b) ==
  /\ stage[b] = "throttle"
  /\ Goto(b, "report")
  /\ UNCHANGED <<topic, read, emits, missed, told, rejections, faults>>

Admit(b) ==
  /\ stage[b] = "throttle"
  /\ Goto(b, "pipe")
  /\ UNCHANGED <<topic, read, emits, missed, told, rejections, faults>>

\* A Redis call of the throttle fails.
ThrottleFails(b) ==
  /\ Fault
  /\ stage[b] = "throttle"
  /\ Throw(b)
  /\ UNCHANGED <<topic, read, emits, missed, rejections>>

\* The pipe, which runs after the interceptor, takes the payload or does not.
Validate(b) ==
  /\ stage[b] = "pipe"
  /\ \/ Goto(b, "bid") /\ UNCHANGED told
     \/ Throw(b)
  /\ UNCHANGED <<topic, read, emits, missed, rejections, faults>>

\* The sends of handlePlaceBid, one after the other, and that of the interceptor.
Sending == {"bid", "notify", "audit", "report"}

\* Mutated form of TopicOf: the audit event is sent first.
TopicOfAuditFirst(s) ==
  CASE s = "bid" -> "audit-logs"
    [] s = "notify" -> "auction-notifications"
    [] s = "audit" -> "bid-events"
    [] s = "report" -> "audit-logs"

TopicOf(s) ==
  CASE s = "bid" -> "bid-events"
    [] s = "notify" -> "auction-notifications"
    [] s \in {"audit", "report"} -> "audit-logs"

\* handlePlaceBid names the auction as the partition; reports go to partition 0.
PartitionOf(b) == IF stage[b] = "report" THEN 0 ELSE AuctionOf[b]

\* Mutated form of MessageOf: the report does not name the socket.
MessageWithoutSocket(b) ==
  [key |-> IF stage[b] = "report" THEN "rate_limit_exceeded" ELSE "bid",
   bid |-> IF stage[b] = "report" THEN None ELSE b]

MessageOf(b) == [key |-> IF stage[b] = "report" THEN "rate_limit_exceeded" ELSE "bid", bid |-> b]

\* What follows a send that has returned.  The interceptor throws.
Continue(b) ==
  \/ stage[b] = "bid" /\ Goto(b, "notify") /\ UNCHANGED told
  \/ stage[b] = "notify" /\ Goto(b, "audit") /\ UNCHANGED told
  \/ stage[b] = "audit" /\ Goto(b, "done") /\ UNCHANGED told
  \/ stage[b] = "report" /\ Throw(b)

\* The message is stored n times, if its partition exists.
Store(b, n) ==
  IF PartitionOf(b) \in Partitions
  THEN topic' = [topic EXCEPT ![TopicOf(stage[b])][PartitionOf(b)] =
                   @ \o [i \in 1 .. n |-> MessageOf(b)]]
  ELSE UNCHANGED topic

\* The send is acknowledged.
Send(b) ==
  /\ stage[b] \in Sending
  /\ Store(b, 1)
  /\ Continue(b)
  /\ UNCHANGED <<read, emits, missed, rejections, faults>>

\* The send reports that there is no such partition.
SendNowhere(b) ==
  /\ stage[b] \in Sending
  /\ PartitionOf(b) \notin Partitions
  /\ Throw(b)
  /\ UNCHANGED <<topic, read, emits, missed, rejections, faults>>

\* An acknowledgement is lost, and the message is sent again.
SendTwice(b) ==
  /\ Fault
  /\ stage[b] \in Sending
  /\ Store(b, 2)
  /\ Continue(b)
  /\ UNCHANGED <<read, emits, missed, rejections>>

\* Mutated form of SendFails: handlePlaceBid swallows the error.
SendFailsInSilence(b) ==
  /\ Fault
  /\ stage[b] \in Sending
  /\ UNCHANGED topic
  /\ Goto(b, "failed")
  /\ UNCHANGED <<read, emits, missed, told, rejections>>

\* The send gives up.  The broker may have stored the message.
SendFails(b) ==
  /\ Fault
  /\ stage[b] \in Sending
  /\ Store(b, 1) \/ UNCHANGED topic
  /\ Throw(b)
  /\ UNCHANGED <<read, emits, missed, rejections>>

\* What is on its way to the subscriber is lost: Pub/Sub keeps nothing for it.
DropEmits ==
  /\ emits' = <<>>
  /\ missed' = missed \cup {emits[i] : i \in DOMAIN emits}

\* The gateway dies, with the handlers in progress and the events it had not received.
GatewayDies ==
  /\ Fault
  /\ stage' = [b \in Bids |-> IF stage[b] \in {"throttle", "pipe"} \cup Sending THEN "lost" ELSE stage[b]]
  /\ DropEmits
  /\ UNCHANGED <<topic, read, told, rejections>>

\* Guards and joinAuction produce audit events of rejected sockets, to partition 0.
AuditRejection(key) ==
  /\ rejections < MaxRejections
  /\ rejections' = rejections + 1
  /\ topic' = [topic EXCEPT !["audit-logs"][0] = Append(@, [key |-> key, bid |-> None])]
  /\ UNCHANGED <<stage, read, emits, missed, told, faults>>

-----------------------------------------------------------------------------
(* The consumers *)

Unread(t, p) == read[t][p] < Len(topic[t][p])
NextMessage(t, p) == topic[t][p][read[t][p] + 1]

\* Mutated form of EmitsFor: the audit event of a placed bid is taken for a refusal.
EmitsForPlaced(t, m) == IF t = "audit-logs" /\ m.key = "bid" THEN <<m.bid>> ELSE <<>>

\* A reported refusal is published for its socket; other events are logged.
EmitsFor(t, m) == IF t = "audit-logs" /\ m.key = "rate_limit_exceeded" THEN <<m.bid>> ELSE <<>>

Consume(t, p) ==
  /\ Unread(t, p)
  /\ emits' = emits \o EmitsFor(t, NextMessage(t, p))
  /\ read' = [read EXCEPT ![t][p] = @ + 1]
  /\ UNCHANGED <<stage, topic, missed, told, rejections, faults>>

\* A consumer dies before it has committed its offset, and starts again from an
\* earlier one; the events it had published stay published.
ConsumerRestarts(t, p) ==
  /\ Fault
  /\ \E k \in 0 .. read[t][p] - 1 : read' = [read EXCEPT ![t][p] = k]
  /\ UNCHANGED <<stage, topic, emits, missed, told, rejections>>

\* The gateway's subscriber emits bidRejected to the socket.
EmitToSocket ==
  /\ emits # <<>>
  /\ emits' = Tail(emits)
  /\ told' = [told EXCEPT ![Head(emits)] = @ \cup {"bidRejected"}]
  /\ UNCHANGED <<stage, topic, read, missed, rejections, faults>>

\* The subscriber's connection breaks.
LoseEmits ==
  /\ Fault
  /\ emits # <<>>
  /\ DropEmits
  /\ UNCHANGED <<stage, topic, read, told, rejections>>

-----------------------------------------------------------------------------
(* The specification *)

Handle(b) == Refuse(b) \/ Admit(b) \/ Validate(b) \/ Send(b) \/ SendNowhere(b)

Next ==
  \/ \E b \in Bids :
       Receive(b) \/ Handle(b) \/ ThrottleFails(b) \/ SendTwice(b) \/ SendFails(b)
  \/ \E t \in Logged, p \in Partitions : Consume(t, p) \/ ConsumerRestarts(t, p)
  \/ \E key \in RejectionKeys : AuditRejection(key)
  \/ GatewayDies
  \/ EmitToSocket
  \/ LoseEmits

\* Handlers go on, consumers consume, and the subscriber receives.  Nobody has to bid.
Fairness ==
  /\ \A b \in Bids : WF_vars(Handle(b))
  /\ \A t \in Logged, p \in Partitions : WF_vars(Consume(t, p))
  /\ WF_vars(EmitToSocket)

SafeSpec == Init /\ [][Next]_vars

Spec == SafeSpec /\ Fairness

-----------------------------------------------------------------------------
(* Properties *)

Stages == {"unsent", "throttle", "pipe", "done", "failed", "lost"} \cup Sending
Messages == [key : {"bid", "rate_limit_exceeded"}, bid : Bids] \cup [key : RejectionKeys, bid : {None}]

\* The state has its types, and no consumer is past the end of a partition.
TypeOK ==
  /\ stage \in [Bids -> Stages]
  /\ topic \in [Topics -> [Partitions -> Seq(Messages)]]
  /\ read \in [Logged -> [Partitions -> Nat]]
  /\ \A t \in Logged, p \in Partitions : read[t][p] <= Len(topic[t][p])
  /\ emits \in Seq(Bids)
  /\ missed \subseteq Bids
  /\ told \in [Bids -> SUBSET {"exception", "bidRejected"}]
  /\ rejections \in 0 .. MaxRejections
  /\ faults \in 0 .. MaxFaults

\* The topic holds a message of the bid, in some partition.
Holds(t, key, b) ==
  \E p \in Partitions : \E i \in DOMAIN topic[t][p] : topic[t][p][i] = [key |-> key, bid |-> b]

\* What is on record agrees with what was queued: the audit log has no bid that was not
\* announced to the notification topic, and neither has a bid that was not queued, also
\* when sends fail half-way, are repeated or are cut off by the end of the gateway.
RecordsAreOfQueuedBids ==
  \A b \in Bids :
    /\ Holds("audit-logs", "bid", b) => Holds("auction-notifications", "bid", b)
    /\ Holds("auction-notifications", "bid", b) => Holds("bid-events", "bid", b)

\* A bid that its socket is told the throttle has refused is not queued, and never was:
\* it is on record as refused.
RefusedIsNotQueued ==
  \A b \in Bids :
    "bidRejected" \in told[b] =>
      Holds("audit-logs", "rate_limit_exceeded", b) /\ ~Holds("bid-events", "bid", b)

\* The bid is queued, or its socket was sent something because of it, or the gateway
\* died on it.
AccountedFor(b) == Holds("bid-events", "bid", b) \/ told[b] # {} \/ stage[b] = "lost"

\* Every bid on an auction that has a partition is queued, or answered with an error,
\* unless the gateway died on it.
EveryBidQueuedOrAnswered ==
  \A b \in Bids : AuctionOf[b] \in Partitions => (stage[b] = "throttle" ~> AccountedFor(b))

\* A refusal that is on record reaches the socket, unless Pub/Sub lost it: other audit
\* events in its partition, a second copy and a restart of the consumer delay it at most.
RefusalReachesSocket ==
  \A b \in Bids :
    Holds("audit-logs", "rate_limit_exceeded", b) ~> ("bidRejected" \in told[b] \/ b \in missed)

-----------------------------------------------------------------------------
(* What the documentation says and the code does not keep *)

\* Bids are partitioned by auctionId so that they are processed (README.md:18),
\* whatever the id is.
EveryAuctionTakesBids == \A b \in Bids : stage[b] = "throttle" ~> AccountedFor(b)
=============================================================================
