-------------------------- MODULE BidPipelineProofs --------------------------
(***************************************************************************)
(* Theorems about BidPipeline, for every set of bids on any auctions, every  *)
(* number of partitions and every number of rejections and faults.           *)
(***************************************************************************)
EXTENDS BidPipeline, SequenceTheorems, TLAPS

-----------------------------------------------------------------------------
(* What a send does to the topics *)

\* The topics are typed.
TopicsTyped == topic \in [Topics -> [Partitions -> Seq(Messages)]]

\* n copies of a message are a sequence.
LEMMA CopiesType ==
  ASSUME NEW m \in Messages, NEW n \in Nat
  PROVE  /\ [i \in 1 .. n |-> m] \in Seq(Messages)
         /\ Len([i \in 1 .. n |-> m]) = n
  OBVIOUS

\* Partition 0 exists.
LEMMA FirstPartition == 0 \in Partitions
  BY PartitionsAssumption DEF Partitions

\* A bid in one of its sends makes a message of its own for one of the topics.
LEMMA MessageType ==
  ASSUME NEW b \in Bids, stage[b] \in Sending
  PROVE  /\ MessageOf(b) \in Messages
         /\ MessageOf(b).bid = b
         /\ MessageOf(b).key = IF stage[b] = "report" THEN "rate_limit_exceeded" ELSE "bid"
         /\ TopicOf(stage[b]) \in Topics
         /\ TopicOf(stage[b]) = CASE stage[b] = "bid" -> "bid-events"
                                  [] stage[b] = "notify" -> "auction-notifications"
                                  [] stage[b] \in {"audit", "report"} -> "audit-logs"
  BY DEF MessageOf, Messages, TopicOf, Topics, Sending

\* The messages that a topic holds, in any partition.
Kept(t) == {m \in Messages : \E p \in Partitions : \E i \in DOMAIN topic[t][p] : topic[t][p][i] = m}

\* Appending the sequence s to one partition keeps the types, shortens no partition, and
\* makes the topic keep the messages of s in addition.
LEMMA AppendEffect ==
  ASSUME TopicsTyped, NEW t \in Topics, NEW p \in Partitions, NEW s \in Seq(Messages),
         topic' = [topic EXCEPT ![t][p] = @ \o s]
  PROVE  /\ TopicsTyped'
         /\ \A u \in Topics, q \in Partitions : Len(topic[u][q]) <= Len(topic'[u][q])
         /\ \A u \in Topics \ {t} : Kept(u)' = Kept(u)
         /\ Kept(t)' = Kept(t) \cup {s[i] : i \in DOMAIN s}
  <1>1. topic[t][p] \in Seq(Messages)
    BY DEF TopicsTyped
  <1>2. /\ topic[t][p] \o s \in Seq(Messages)
        /\ Len(topic[t][p] \o s) = Len(topic[t][p]) + Len(s)
        /\ \A i \in 1 .. Len(topic[t][p]) + Len(s) :
             (topic[t][p] \o s)[i] = IF i <= Len(topic[t][p]) THEN topic[t][p][i] ELSE s[i - Len(topic[t][p])]
    BY <1>1, ConcatProperties
  <1>3. /\ topic'[t][p] = topic[t][p] \o s
        /\ \A u \in Topics, q \in Partitions : u # t \/ q # p => topic'[u][q] = topic[u][q]
    BY DEF TopicsTyped
  <1>4. TopicsTyped'
    BY <1>2 DEF TopicsTyped
  <1>5. \A u \in Topics, q \in Partitions : Len(topic[u][q]) <= Len(topic'[u][q])
    BY <1>1, <1>2, <1>3 DEF TopicsTyped
  <1>6. ASSUME NEW m
        PROVE  (\E i \in DOMAIN topic'[t][p] : topic'[t][p][i] = m) <=>
                 \/ \E i \in DOMAIN topic[t][p] : topic[t][p][i] = m
                 \/ \E i \in DOMAIN s : s[i] = m
    <2>1. /\ DOMAIN topic[t][p] = 1 .. Len(topic[t][p]) /\ DOMAIN s = 1 .. Len(s)
          /\ DOMAIN topic'[t][p] = 1 .. Len(topic[t][p]) + Len(s)
          /\ Len(topic[t][p]) \in Nat /\ Len(s) \in Nat
      BY <1>1, <1>2, <1>3
    <2>2. \A i \in DOMAIN topic[t][p] : i \in DOMAIN topic'[t][p] /\ topic'[t][p][i] = topic[t][p][i]
      BY <1>2, <1>3, <2>1
    <2>3. \A i \in DOMAIN s : /\ Len(topic[t][p]) + i \in DOMAIN topic'[t][p]
                              /\ topic'[t][p][Len(topic[t][p]) + i] = s[i]
      BY <1>2, <1>3, <2>1
    <2>4. \A i \in DOMAIN topic'[t][p] :
            \/ i \in DOMAIN topic[t][p] /\ topic'[t][p][i] = topic[t][p][i]
            \/ i - Len(topic[t][p]) \in DOMAIN s /\ topic'[t][p][i] = s[i - Len(topic[t][p])]
      BY <1>2, <1>3, <2>1
    <2>5. ASSUME NEW i \in DOMAIN topic'[t][p], topic'[t][p][i] = m
          PROVE  (\E k \in DOMAIN topic[t][p] : topic[t][p][k] = m) \/ \E k \in DOMAIN s : s[k] = m
      BY <2>4, <2>5
    <2>6. ASSUME NEW i \in DOMAIN topic[t][p], topic[t][p][i] = m
          PROVE  \E k \in DOMAIN topic'[t][p] : topic'[t][p][k] = m
      BY <2>2, <2>6
    <2>7. ASSUME NEW i \in DOMAIN s, s[i] = m
          PROVE  \E k \in DOMAIN topic'[t][p] : topic'[t][p][k] = m
      BY <2>3, <2>7
    <2> QED BY <2>5, <2>6, <2>7
  <1>7. \A u \in Topics \ {t} : Kept(u)' = Kept(u)
    BY <1>3 DEF Kept
  <1>8. ASSUME NEW m \in Messages
        PROVE  m \in Kept(t)' <=> m \in Kept(t) \/ \E i \in DOMAIN s : s[i] = m
    <2>1. \A q \in Partitions \ {p} : topic'[t][q] = topic[t][q]
      BY <1>3
    <2>2. m \in Kept(t) <=>
            \/ \E i \in DOMAIN topic[t][p] : topic[t][p][i] = m
            \/ \E q \in Partitions \ {p} : \E i \in DOMAIN topic[t][q] : topic[t][q][i] = m
      BY DEF Kept
    <2>3. m \in Kept(t)' <=>
            \/ \E i \in DOMAIN topic'[t][p] : topic'[t][p][i] = m
            \/ \E q \in Partitions \ {p} : \E i \in DOMAIN topic'[t][q] : topic'[t][q][i] = m
      BY DEF Kept
    <2>4. (\E q \in Partitions \ {p} : \E i \in DOMAIN topic'[t][q] : topic'[t][q][i] = m) <=>
            \E q \in Partitions \ {p} : \E i \in DOMAIN topic[t][q] : topic[t][q][i] = m
      BY <2>1
    <2>5. (\E i \in DOMAIN topic'[t][p] : topic'[t][p][i] = m) <=>
            \/ \E i \in DOMAIN topic[t][p] : topic[t][p][i] = m
            \/ \E i \in DOMAIN s : s[i] = m
      BY <1>6
    <2> QED BY <2>2, <2>3, <2>4, <2>5
  <1>9. \A i \in DOMAIN s : s[i] \in Messages
    OBVIOUS
  <1>10. Kept(t)' = Kept(t) \cup {s[i] : i \in DOMAIN s}
    <2>1. Kept(t) \subseteq Messages /\ Kept(t)' \subseteq Messages
      BY DEF Kept
    <2> QED BY <1>8, <1>9, <2>1
  <1> QED BY <1>4, <1>5, <1>7, <1>10

\* A send that stores n copies, at least one, makes its topic keep the message in
\* addition, if the partition exists.
LEMMA StoreEffect ==
  ASSUME TopicsTyped, NEW b \in Bids, stage[b] \in Sending, NEW n \in Nat \ {0}, Store(b, n)
  PROVE  /\ TopicsTyped'
         /\ \A u \in Topics, q \in Partitions : Len(topic[u][q]) <= Len(topic'[u][q])
         /\ \A u \in Topics :
              Kept(u)' = IF PartitionOf(b) \in Partitions /\ u = TopicOf(stage[b])
                         THEN Kept(u) \cup {MessageOf(b)} ELSE Kept(u)
  <1>1. MessageOf(b) \in Messages /\ MessageOf(b).bid = b /\ TopicOf(stage[b]) \in Topics
    BY MessageType
  <1>2. CASE PartitionOf(b) \in Partitions
    <2>1. PICK t \in Topics : t = TopicOf(stage[b])
      BY <1>1
    <2>2. PICK p \in Partitions : p = PartitionOf(b)
      BY <1>2
    <2>3. PICK s \in Seq(Messages) : s = [i \in 1 .. n |-> MessageOf(b)]
      BY <1>1, CopiesType
    <2>4. topic' = [topic EXCEPT ![t][p] = @ \o s]
      BY <1>2, <2>1, <2>2, <2>3 DEF Store
    <2>5. {s[i] : i \in DOMAIN s} = {MessageOf(b)}
      BY <2>3
    <2>6. /\ TopicsTyped'
          /\ \A u \in Topics, q \in Partitions : Len(topic[u][q]) <= Len(topic'[u][q])
          /\ \A u \in Topics \ {t} : Kept(u)' = Kept(u)
          /\ Kept(t)' = Kept(t) \cup {s[i] : i \in DOMAIN s}
      BY <2>4, AppendEffect, ZenonT(30)
    <2> QED BY <1>2, <2>1, <2>5, <2>6
  <1>3. CASE PartitionOf(b) \notin Partitions
    <2>1. topic' = topic
      BY <1>3 DEF Store
    <2>2. \A u \in Topics, q \in Partitions : Len(topic[u][q]) \in Nat
      BY DEF TopicsTyped
    <2> QED BY <1>3, <2>1, <2>2 DEF TopicsTyped, Kept
  <1> QED BY <1>2, <1>3

\* An audit event of another rejection adds no message of a bid.
LEMMA RejectionEffect ==
  ASSUME TopicsTyped, NEW key \in RejectionKeys, AuditRejection(key)
  PROVE  /\ TopicsTyped'
         /\ \A u \in Topics, q \in Partitions : Len(topic[u][q]) <= Len(topic'[u][q])
         /\ \A u \in Topics : Kept(u)' = IF u = "audit-logs" THEN Kept(u) \cup {[key |-> key, bid |-> None]}
                                         ELSE Kept(u)
  <1>1. PICK t \in Topics : t = "audit-logs"
    BY DEF Topics
  <1>2. PICK p \in Partitions : p = 0
    BY FirstPartition
  <1>3. [key |-> key, bid |-> None] \in Messages
    BY DEF Messages
  <1>4. PICK s \in Seq(Messages) : s = <<[key |-> key, bid |-> None]>>
    <2>1. <<[key |-> key, bid |-> None]>> \in Seq(Messages)
      BY <1>3
    <2> QED BY <2>1
  <1>5. topic' = [topic EXCEPT ![t][p] = @ \o s]
    <2>1. topic[t][p] \in Seq(Messages)
      BY DEF TopicsTyped
    <2>2. Append(topic[t][p], [key |-> key, bid |-> None]) = topic[t][p] \o s
      BY <1>3, <1>4, <2>1, SMTT(30)
    <2> QED BY <1>1, <1>2, <2>2 DEF AuditRejection, TopicsTyped
  <1>6. {s[i] : i \in DOMAIN s} = {[key |-> key, bid |-> None]}
    BY <1>4
  <1>7. /\ TopicsTyped'
        /\ \A u \in Topics, q \in Partitions : Len(topic[u][q]) <= Len(topic'[u][q])
        /\ \A u \in Topics \ {t} : Kept(u)' = Kept(u)
        /\ Kept(t)' = Kept(t) \cup {s[i] : i \in DOMAIN s}
    BY <1>5, AppendEffect
  <1> QED BY <1>1, <1>6, <1>7

-----------------------------------------------------------------------------
(* Type correctness *)

\* The types of a bid's stage and of what its socket was told are kept by Throw and by
\* Continue.
LEMMA BidTypes ==
  ASSUME TypeOK, NEW b \in Bids, Throw(b) \/ Continue(b)
  PROVE  stage' \in [Bids -> Stages] /\ told' \in [Bids -> SUBSET {"exception", "bidRejected"}]
  BY SMTT(30) DEF TypeOK, Throw, Continue, Goto, Stages, Sending

\* The message a consumer has before it is one its topic keeps.
LEMMA NextIsKept ==
  ASSUME TypeOK, NEW t \in Logged, NEW p \in Partitions, Unread(t, p)
  PROVE  /\ NextMessage(t, p) \in Kept(t)
         /\ read[t][p] + 1 \in 1 .. Len(topic[t][p])
  <1>1. topic[t][p] \in Seq(Messages) /\ read[t][p] \in Nat
    BY DEF TypeOK, Logged, Topics
  <1>2. read[t][p] + 1 \in 1 .. Len(topic[t][p])
    BY <1>1 DEF Unread
  <1> QED BY <1>1, <1>2 DEF NextMessage, Kept

\* What a consumer publishes are bids.
LEMMA EmitsType ==
  ASSUME NEW t, NEW m \in Messages
  PROVE  EmitsFor(t, m) \in Seq(Bids)
  BY KeysAssumption DEF EmitsFor, Messages

\* The types are kept by every step.
LEMMA TypeStep == ASSUME TypeOK, [Next]_vars PROVE TypeOK'
  <1> USE BoundsAssumption
  <1> USE DEF TypeOK, Goto
  <1>0. TopicsTyped
    BY DEF TopicsTyped
  <1>1. ASSUME TopicsTyped', UNCHANGED read,
               \A u \in Topics, q \in Partitions : Len(topic[u][q]) <= Len(topic'[u][q])
        PROVE  \A t \in Logged, p \in Partitions : read'[t][p] <= Len(topic'[t][p])
    <2> SUFFICES ASSUME NEW t \in Logged, NEW p \in Partitions PROVE read'[t][p] <= Len(topic'[t][p])
      OBVIOUS
    <2>1. t \in Topics /\ read[t][p] \in Nat
      BY DEF Logged, Topics
    <2>2. Len(topic[t][p]) \in Nat /\ Len(topic'[t][p]) \in Nat
      BY <1>0, <1>1, <2>1 DEF TopicsTyped
    <2> QED BY <1>1, <2>1, <2>2
  <1>2. ASSUME NEW b \in Bids, Receive(b) \/ Refuse(b) \/ Admit(b) PROVE TypeOK'
    BY <1>2 DEF Receive, Refuse, Admit, Stages, Sending
  <1>3. ASSUME NEW b \in Bids, ThrottleFails(b) PROVE TypeOK'
    BY <1>3, BidTypes DEF ThrottleFails, Fault
  <1>4. ASSUME NEW b \in Bids, Validate(b) PROVE TypeOK'
    BY <1>4, BidTypes DEF Validate, Stages, Sending
  <1>5. ASSUME NEW b \in Bids, Send(b) PROVE TypeOK'
    <2>1. /\ TopicsTyped'
          /\ \A u \in Topics, q \in Partitions : Len(topic[u][q]) <= Len(topic'[u][q])
      BY <1>0, <1>5, StoreEffect DEF Send
    <2> QED BY <1>1, <1>5, <2>1, BidTypes DEF Send, TopicsTyped
  <1>6. ASSUME NEW b \in Bids, SendNowhere(b) PROVE TypeOK'
    BY <1>6, BidTypes DEF SendNowhere
  <1>7. ASSUME NEW b \in Bids, SendTwice(b) PROVE TypeOK'
    <2>1. /\ TopicsTyped'
          /\ \A u \in Topics, q \in Partitions : Len(topic[u][q]) <= Len(topic'[u][q])
      BY <1>0, <1>7, StoreEffect DEF SendTwice
    <2> QED BY <1>1, <1>7, <2>1, BidTypes DEF SendTwice, TopicsTyped, Fault
  <1>8. ASSUME NEW b \in Bids, SendFails(b) PROVE TypeOK'
    <2>1. CASE Store(b, 1)
      <3>1. /\ TopicsTyped'
            /\ \A u \in Topics, q \in Partitions : Len(topic[u][q]) <= Len(topic'[u][q])
        BY <1>0, <1>8, <2>1, StoreEffect DEF SendFails
      <3> QED BY <1>1, <1>8, <3>1, BidTypes DEF SendFails, TopicsTyped, Fault
    <2>2. CASE UNCHANGED topic
      BY <1>8, <2>2, BidTypes DEF SendFails, Fault
    <2> QED BY <1>8, <2>1, <2>2 DEF SendFails
  <1>9. ASSUME NEW key \in RejectionKeys, AuditRejection(key) PROVE TypeOK'
    <2>1. /\ TopicsTyped'
          /\ \A u \in Topics, q \in Partitions : Len(topic[u][q]) <= Len(topic'[u][q])
      BY <1>0, <1>9, RejectionEffect
    <2> QED BY <1>1, <1>9, <2>1 DEF AuditRejection, TopicsTyped
  <1>10. ASSUME DropEmits PROVE emits' \in Seq(Bids) /\ missed' \subseteq Bids
    BY <1>10 DEF DropEmits
  <1>11. CASE GatewayDies
    BY <1>10, <1>11 DEF GatewayDies, Fault, Stages
  <1>12. CASE LoseEmits
    BY <1>10, <1>12 DEF LoseEmits, Fault
  <1>13. CASE EmitToSocket
    BY <1>13 DEF EmitToSocket
  <1>14. ASSUME NEW t \in Logged, NEW p \in Partitions, Consume(t, p) PROVE TypeOK'
    <2>1. NextMessage(t, p) \in Messages /\ read[t][p] + 1 \in 1 .. Len(topic[t][p])
      BY <1>14, NextIsKept DEF Consume, Kept
    <2>2. emits' \in Seq(Bids)
      BY <1>14, <2>1, EmitsType, ConcatProperties DEF Consume
    <2>3. /\ read' \in [Logged -> [Partitions -> Nat]]
          /\ \A u \in Logged, q \in Partitions : read'[u][q] <= Len(topic[u][q])
      BY <1>14, <2>1 DEF Consume
    <2> QED BY <1>14, <2>2, <2>3 DEF Consume
  <1>15. ASSUME NEW t \in Logged, NEW p \in Partitions, ConsumerRestarts(t, p) PROVE TypeOK'
    <2>1. PICK k \in 0 .. read[t][p] - 1 : read' = [read EXCEPT ![t][p] = k]
      BY <1>15 DEF ConsumerRestarts
    <2>2. read[t][p] \in Nat /\ Len(topic[t][p]) \in Nat /\ k \in Nat /\ k <= Len(topic[t][p])
      BY <2>1 DEF Logged, Topics
    <2> QED BY <1>15, <2>1, <2>2 DEF ConsumerRestarts, Fault
  <1>16. CASE UNCHANGED vars
    BY <1>16 DEF vars
  <1> QED
    BY <1>2, <1>3, <1>4, <1>5, <1>6, <1>7, <1>8, <1>9, <1>11, <1>12, <1>13, <1>14, <1>15, <1>16
       DEF Next, Handle

\* The state keeps its types, and no consumer gets past the end of a partition.
THEOREM TypeCorrect == SafeSpec => []TypeOK
  <1>1. Init => TypeOK
    <2> SUFFICES ASSUME Init PROVE TypeOK
      OBVIOUS
    <2>1. topic \in [Topics -> [Partitions -> Seq(Messages)]]
      BY DEF Init
    <2>2. \A t \in Logged, p \in Partitions : read[t][p] = 0 /\ Len(topic[t][p]) = 0
      BY DEF Init, Logged, Topics
    <2>3. emits \in Seq(Bids)
      BY DEF Init
    <2> QED BY <2>1, <2>2, <2>3, BoundsAssumption DEF Init, TypeOK, Stages, Sending
  <1>2. TypeOK /\ [Next]_vars => TypeOK'
    BY TypeStep
  <1> QED BY <1>1, <1>2, PTL DEF SafeSpec

-----------------------------------------------------------------------------
(* Where the messages of a bid can be *)

\* The message that a bid was placed, and the one that it was refused.
Placed(b) == [key |-> "bid", bid |-> b]
Refused(b) == [key |-> "rate_limit_exceeded", bid |-> b]

\* A bid is queued from its first send on.
QueuedInOrder(b) == Placed(b) \in Kept("bid-events") => stage[b] \in {"notify", "audit", "done", "failed", "lost"}

\* A bid whose partition exists is in the topics of the sends that have returned.
SendsReturned(b) ==
  AuctionOf[b] \in Partitions =>
    /\ stage[b] \in {"notify", "audit"} => Placed(b) \in Kept("bid-events")
    /\ stage[b] = "audit" => Placed(b) \in Kept("auction-notifications")

\* The records of a bid are those of a queued bid.
Recorded(b) ==
  /\ Placed(b) \in Kept("audit-logs") => Placed(b) \in Kept("auction-notifications")
  /\ Placed(b) \in Kept("auction-notifications") => Placed(b) \in Kept("bid-events")

\* A bid that is on record as refused has failed, and is not queued.
RefusedFails(b) == Refused(b) \in Kept("audit-logs") => stage[b] = "failed" /\ Placed(b) \notin Kept("bid-events")

BidInv(b) == QueuedInOrder(b) /\ SendsReturned(b) /\ Recorded(b) /\ RefusedFails(b)

\* Refusals that are on their way to a socket, or have arrived, are on record.
RefusalsOnRecord ==
  /\ \A i \in DOMAIN emits : Refused(emits[i]) \in Kept("audit-logs")
  /\ \A b \in Bids : "bidRejected" \in told[b] => Refused(b) \in Kept("audit-logs")

PipelineInv == (\A b \in Bids : BidInv(b)) /\ RefusalsOnRecord

\* The messages of a bid, as the properties name them.
LEMMA HoldsIsKept ==
  ASSUME NEW t \in Topics, NEW b \in Bids
  PROVE  /\ Holds(t, "bid", b) <=> Placed(b) \in Kept(t)
         /\ Holds(t, "rate_limit_exceeded", b) <=> Refused(b) \in Kept(t)
  BY DEF Holds, Kept, Placed, Refused, Messages

\* Whether the topics keep the messages of c does not change.
SameMessages(c) ==
  \A u \in Topics : /\ Placed(c) \in Kept(u)' <=> Placed(c) \in Kept(u)
                    /\ Refused(c) \in Kept(u)' <=> Refused(c) \in Kept(u)

\* A bid keeps its invariant while its messages and its stage stay.
LEMMA BidStays ==
  ASSUME NEW c \in Bids, BidInv(c), SameMessages(c), stage'[c] = stage[c]
  PROVE  BidInv(c)'
  BY DEF BidInv, QueuedInOrder, SendsReturned, Recorded, RefusedFails, SameMessages, Topics, Placed, Refused

\* A bid that moves on before its first send, or fails or is lost, keeps its invariant.
LEMMA BidMoves ==
  ASSUME NEW c \in Bids, BidInv(c), SameMessages(c),
         \/ stage[c] \in {"unsent", "throttle", "pipe"} /\ stage'[c] \in {"throttle", "report", "pipe", "bid"}
         \/ stage'[c] = "failed"
         \/ stage[c] # "failed" /\ stage'[c] = "lost"
  PROVE  BidInv(c)'
  BY DEF BidInv, QueuedInOrder, SendsReturned, Recorded, RefusedFails, SameMessages, Topics, Placed, Refused

\* A step that leaves the topics alone leaves the messages of all bids.
LEMMA NoSend == ASSUME UNCHANGED topic PROVE \A c \in Bids : SameMessages(c)
  BY DEF SameMessages, Kept

\* A send that stores its message at least once, and goes on or throws, keeps the
\* invariants of all bids, and what is kept of refusals.
LEMMA SendKeeps ==
  ASSUME TypeOK, \A c \in Bids : BidInv(c), NEW b \in Bids, stage[b] \in Sending,
         NEW n \in Nat \ {0}, Store(b, n), Continue(b) \/ Throw(b)
  PROVE  /\ \A c \in Bids : BidInv(c)'
         /\ \A c \in Bids : Refused(c) \in Kept("audit-logs") => Refused(c) \in Kept("audit-logs")'
  <1> USE DEF Goto
  <1>1. /\ MessageOf(b) = IF stage[b] = "report" THEN Refused(b) ELSE Placed(b)
        /\ stage[b] = "bid" => TopicOf(stage[b]) = "bid-events"
        /\ stage[b] = "notify" => TopicOf(stage[b]) = "auction-notifications"
        /\ stage[b] \in {"audit", "report"} => TopicOf(stage[b]) = "audit-logs"
        /\ PartitionOf(b) = IF stage[b] = "report" THEN 0 ELSE AuctionOf[b]
    BY DEF MessageOf, Placed, Refused, TopicOf, PartitionOf, Sending
  <1>2. \A u \in Topics :
          Kept(u)' = IF PartitionOf(b) \in Partitions /\ u = TopicOf(stage[b])
                     THEN Kept(u) \cup {MessageOf(b)} ELSE Kept(u)
    BY StoreEffect DEF TypeOK, TopicsTyped
  <1>3. /\ "bid-events" \in Topics /\ "auction-notifications" \in Topics /\ "audit-logs" \in Topics
        /\ 0 \in Partitions
    BY FirstPartition DEF Topics
  <1>5. Placed(b) # Refused(b)
    BY DEF Placed, Refused
  <1>6. /\ stage[b] \in {"bid", "notify", "audit", "report"}
        /\ \/ stage'[b] = "failed"
           \/ stage[b] = "bid" /\ stage'[b] = "notify"
           \/ stage[b] = "notify" /\ stage'[b] = "audit"
           \/ stage[b] = "audit" /\ stage'[b] = "done"
    BY DEF TypeOK, Continue, Throw, Sending
  <1>7. \A u \in Topics :
          Placed(b) \in Kept(u)' <=>
            \/ Placed(b) \in Kept(u)
            \/ AuctionOf[b] \in Partitions /\ stage[b] # "report" /\ u = TopicOf(stage[b])
    <2> SUFFICES ASSUME NEW u \in Topics
                 PROVE  Placed(b) \in Kept(u)' <=>
                          \/ Placed(b) \in Kept(u)
                          \/ AuctionOf[b] \in Partitions /\ stage[b] # "report" /\ u = TopicOf(stage[b])
      OBVIOUS
    <2>1. CASE stage[b] = "report"
      BY <1>1, <1>2, <1>5, <2>1
    <2>2. CASE stage[b] # "report"
      BY <1>1, <1>2, <2>2
    <2> QED BY <2>1, <2>2
  <1>8. \A u \in Topics :
          Refused(b) \in Kept(u)' <=> Refused(b) \in Kept(u) \/ (stage[b] = "report" /\ u = "audit-logs")
    BY <1>1, <1>2, <1>3, <1>5
  <1>9. /\ Placed(b) \in Kept("bid-events") => stage[b] \in {"notify", "audit"}
        /\ AuctionOf[b] \in Partitions =>
             /\ stage[b] \in {"notify", "audit"} => Placed(b) \in Kept("bid-events")
             /\ stage[b] = "audit" => Placed(b) \in Kept("auction-notifications")
        /\ Placed(b) \in Kept("audit-logs") => Placed(b) \in Kept("auction-notifications")
        /\ Placed(b) \in Kept("auction-notifications") => Placed(b) \in Kept("bid-events")
        /\ Refused(b) \notin Kept("audit-logs")
    BY <1>6 DEF BidInv, QueuedInOrder, SendsReturned, Recorded, RefusedFails
  <1>10. /\ Placed(b) \in Kept("bid-events")' <=>
              Placed(b) \in Kept("bid-events") \/ (AuctionOf[b] \in Partitions /\ stage[b] = "bid")
         /\ Placed(b) \in Kept("auction-notifications")' <=>
              Placed(b) \in Kept("auction-notifications") \/ (AuctionOf[b] \in Partitions /\ stage[b] = "notify")
         /\ Placed(b) \in Kept("audit-logs")' <=>
              Placed(b) \in Kept("audit-logs") \/ (AuctionOf[b] \in Partitions /\ stage[b] = "audit")
         /\ Refused(b) \in Kept("audit-logs")' <=> stage[b] = "report"
    BY <1>1, <1>3, <1>6, <1>7, <1>8, <1>9
  <1>11. BidInv(b)'
    <2>1. QueuedInOrder(b)'
      BY <1>6, <1>9, <1>10 DEF QueuedInOrder, Placed
    <2>2. SendsReturned(b)'
      BY <1>6, <1>9, <1>10 DEF SendsReturned, Placed
    <2>3. Recorded(b)'
      BY <1>6, <1>9, <1>10 DEF Recorded, Placed
    <2>4. RefusedFails(b)'
      BY <1>6, <1>9, <1>10 DEF RefusedFails, Placed, Refused
    <2> QED BY <2>1, <2>2, <2>3, <2>4 DEF BidInv
  <1>12. ASSUME NEW c \in Bids, c # b PROVE BidInv(c)'
    <2>1. Placed(c) # MessageOf(b) /\ Refused(c) # MessageOf(b)
      <3>1. Placed(c).bid = c /\ Refused(c).bid = c /\ MessageOf(b).bid = b
        BY DEF Placed, Refused, MessageOf
      <3> QED BY <1>12, <3>1
    <2>2. SameMessages(c)
      BY <1>2, <2>1 DEF SameMessages
    <2>3. stage'[c] = stage[c]
      BY <1>12 DEF TypeOK, Continue, Throw
    <2> QED BY <2>2, <2>3, BidStays
  <1>13. ASSUME NEW c \in Bids, Refused(c) \in Kept("audit-logs") PROVE Refused(c) \in Kept("audit-logs")'
    BY <1>2, <1>3, <1>13
  <1> QED BY <1>11, <1>12, <1>13

\* What a step publishes anew, or tells a socket anew, is a refusal on record, and what
\* is on record of refusals stays: then refusals stay on record.
LEMMA RefusalsStay ==
  ASSUME TypeOK, RefusalsOnRecord,
         \A c \in Bids : Refused(c) \in Kept("audit-logs") => Refused(c) \in Kept("audit-logs")',
         UNCHANGED emits \/ emits' = <<>>,
         \A c \in Bids : "bidRejected" \in told'[c] => "bidRejected" \in told[c]
  PROVE  RefusalsOnRecord'
  <1>1. \A i \in DOMAIN emits : emits[i] \in Bids
    BY DEF TypeOK
  <1>2. ASSUME NEW i \in DOMAIN emits' PROVE Refused(emits'[i]) \in Kept("audit-logs")'
    BY <1>1, <1>2 DEF RefusalsOnRecord
  <1>3. ASSUME NEW c \in Bids, "bidRejected" \in told'[c] PROVE Refused(c) \in Kept("audit-logs")'
    BY <1>3 DEF RefusalsOnRecord
  <1> QED BY <1>2, <1>3 DEF RefusalsOnRecord, Refused

\* A step of the gateway before a bid's first send, that throws, or that finds no
\* partition, keeps the invariant.
LEMMA QuietStep ==
  ASSUME TypeOK, PipelineInv, NEW b \in Bids, UNCHANGED topic, UNCHANGED emits,
         \/ /\ stage[b] \in {"unsent", "throttle", "pipe"}
            /\ \E s \in {"throttle", "report", "pipe", "bid"} : Goto(b, s)
            /\ UNCHANGED told
         \/ Throw(b)
  PROVE  PipelineInv'
  <1>1. \A c \in Bids : SameMessages(c)
    BY NoSend
  <1>2. \A c \in Bids \ {b} : stage'[c] = stage[c]
    BY DEF TypeOK, Goto, Throw
  <1>3. \/ stage[b] \in {"unsent", "throttle", "pipe"} /\ stage'[b] \in {"throttle", "report", "pipe", "bid"}
        \/ stage'[b] = "failed"
    BY DEF TypeOK, Goto, Throw
  <1>4. ASSUME NEW c \in Bids PROVE BidInv(c)'
    <2>1. CASE c = b
      BY <1>1, <1>3, <2>1, BidMoves DEF PipelineInv
    <2>2. CASE c # b
      BY <1>1, <1>2, <2>2, BidStays DEF PipelineInv
    <2> QED BY <2>1, <2>2
  <1>5. \A c \in Bids : "bidRejected" \in told'[c] => "bidRejected" \in told[c]
    BY ZenonT(30) DEF TypeOK, Throw
  <1>6. \A c \in Bids : Refused(c) \in Kept("audit-logs") => Refused(c) \in Kept("audit-logs")'
    BY <1>1 DEF SameMessages, Topics
  <1>7. RefusalsOnRecord'
    BY <1>5, <1>6, RefusalsStay DEF PipelineInv
  <1> QED BY <1>4, <1>7 DEF PipelineInv

\* A send that stores its message keeps the invariant.
LEMMA SendStep ==
  ASSUME TypeOK, PipelineInv, NEW b \in Bids, stage[b] \in Sending, NEW n \in Nat \ {0},
         Store(b, n), Continue(b) \/ Throw(b), UNCHANGED emits
  PROVE  PipelineInv'
  <1>1. /\ \A c \in Bids : BidInv(c)'
        /\ \A c \in Bids : Refused(c) \in Kept("audit-logs") => Refused(c) \in Kept("audit-logs")'
    BY SendKeeps DEF PipelineInv
  <1>2. \A c \in Bids : "bidRejected" \in told'[c] => "bidRejected" \in told[c]
    BY DEF TypeOK, Throw, Continue
  <1>3. RefusalsOnRecord'
    BY <1>1, <1>2, RefusalsStay DEF PipelineInv
  <1> QED BY <1>1, <1>3 DEF PipelineInv

\* A step that leaves the stages of all bids, and their messages, keeps what they satisfy.
LEMMA BidsStay ==
  ASSUME PipelineInv, \A c \in Bids : SameMessages(c), UNCHANGED stage
  PROVE  \A c \in Bids : BidInv(c)'
  BY BidStays DEF PipelineInv

\* What a consumer publishes of a message that is kept is a refusal on record.
LEMMA ConsumeStep ==
  ASSUME TypeOK, PipelineInv, NEW t \in Logged, NEW p \in Partitions, Consume(t, p)
  PROVE  PipelineInv'
  <1>1. \A c \in Bids : SameMessages(c)
    BY NoSend DEF Consume
  <1>2. \A c \in Bids : BidInv(c)'
    BY <1>1, BidsStay DEF Consume
  <1>3. Kept("audit-logs")' = Kept("audit-logs")
    BY DEF Consume, Kept
  <1>4. PICK m \in Messages : m = NextMessage(t, p) /\ m \in Kept(t)
    BY NextIsKept DEF Consume, Kept
  <1>5. PICK e \in Seq(Bids) : e = EmitsFor(t, m)
    BY EmitsType
  <1>6. \A i \in DOMAIN e : Refused(e[i]) \in Kept("audit-logs")
    <2>1. CASE t = "audit-logs" /\ m.key = "rate_limit_exceeded"
      <3>1. m = Refused(m.bid)
        BY <2>1, KeysAssumption DEF Messages, Refused
      <3>2. e = <<m.bid>>
        BY <1>5, <2>1 DEF EmitsFor
      <3> QED BY <1>4, <2>1, <3>1, <3>2
    <2>2. CASE ~(t = "audit-logs" /\ m.key = "rate_limit_exceeded")
      BY <1>5, <2>2 DEF EmitsFor
    <2> QED BY <2>1, <2>2
  <1>7. emits \in Seq(Bids) /\ emits' = emits \o e
    BY <1>4, <1>5 DEF TypeOK, Consume
  <1>8. ASSUME NEW i \in DOMAIN emits' PROVE Refused(emits'[i]) \in Kept("audit-logs")
    <2>1. \/ i \in DOMAIN emits /\ emits'[i] = emits[i]
          \/ i - Len(emits) \in DOMAIN e /\ emits'[i] = e[i - Len(emits)]
      BY <1>7
    <2> QED BY <1>6, <2>1 DEF PipelineInv, RefusalsOnRecord
  <1>9. \A c \in Bids : "bidRejected" \in told'[c] => Refused(c) \in Kept("audit-logs")
    BY DEF PipelineInv, RefusalsOnRecord, Consume
  <1> QED BY <1>2, <1>3, <1>8, <1>9 DEF PipelineInv, RefusalsOnRecord, Refused

\* A refusal that arrives at its socket is on record.
LEMMA EmitStep == ASSUME TypeOK, PipelineInv, EmitToSocket PROVE PipelineInv'
  <1>1. \A c \in Bids : SameMessages(c)
    BY NoSend DEF EmitToSocket
  <1>2. \A c \in Bids : BidInv(c)'
    BY <1>1, BidsStay DEF EmitToSocket
  <1>3. Kept("audit-logs")' = Kept("audit-logs")
    BY DEF EmitToSocket, Kept
  <1>4. /\ emits \in Seq(Bids) /\ emits # <<>>
        /\ Head(emits) = emits[1] /\ 1 \in DOMAIN emits
        /\ \A i \in DOMAIN emits' : i + 1 \in DOMAIN emits /\ emits'[i] = emits[i + 1]
    BY DEF EmitToSocket, TypeOK
  <1>5. ASSUME NEW i \in DOMAIN emits' PROVE Refused(emits'[i]) \in Kept("audit-logs")
    BY <1>4 DEF PipelineInv, RefusalsOnRecord
  <1>6. ASSUME NEW c \in Bids, "bidRejected" \in told'[c] PROVE Refused(c) \in Kept("audit-logs")
    <2>1. CASE c = Head(emits)
      BY <1>4, <2>1 DEF PipelineInv, RefusalsOnRecord
    <2>2. CASE c # Head(emits)
      BY <1>6, <2>2 DEF PipelineInv, RefusalsOnRecord, EmitToSocket, TypeOK
    <2> QED BY <2>1, <2>2
  <1> QED BY <1>2, <1>3, <1>5, <1>6 DEF PipelineInv, RefusalsOnRecord, Refused

\* The audit event of another rejection is about no bid.
LEMMA RejectionStep ==
  ASSUME TypeOK, PipelineInv, NEW key \in RejectionKeys, AuditRejection(key)
  PROVE  PipelineInv'
  <1>1. \A u \in Topics : Kept(u)' = IF u = "audit-logs" THEN Kept(u) \cup {[key |-> key, bid |-> None]}
                                     ELSE Kept(u)
    BY RejectionEffect DEF TypeOK, TopicsTyped
  <1>2. ASSUME NEW c \in Bids PROVE SameMessages(c)
    <2>1. Placed(c) # [key |-> key, bid |-> None] /\ Refused(c) # [key |-> key, bid |-> None]
      <3>1. Placed(c).bid = c /\ Refused(c).bid = c /\ [key |-> key, bid |-> None].bid = None
        BY DEF Placed, Refused
      <3> QED BY <3>1, KeysAssumption
    <2> QED BY <1>1, <2>1 DEF SameMessages
  <1>3. \A c \in Bids : BidInv(c)'
    BY <1>2, BidsStay DEF AuditRejection
  <1>4. \A c \in Bids : Refused(c) \in Kept("audit-logs") => Refused(c) \in Kept("audit-logs")'
    BY <1>2 DEF SameMessages, Topics
  <1>5. RefusalsOnRecord'
    BY <1>4, RefusalsStay DEF PipelineInv, AuditRejection
  <1> QED BY <1>3, <1>5 DEF PipelineInv

\* The end of the gateway, a broken subscriber and a consumer that starts again keep the
\* messages.
LEMMA LossStep ==
  ASSUME TypeOK, PipelineInv, UNCHANGED topic, UNCHANGED told, UNCHANGED emits \/ emits' = <<>>,
         \A c \in Bids : stage'[c] = stage[c] \/ (stage[c] # "failed" /\ stage'[c] = "lost")
  PROVE  PipelineInv'
  <1>1. \A c \in Bids : SameMessages(c)
    BY NoSend
  <1>2. ASSUME NEW c \in Bids PROVE BidInv(c)'
    BY <1>1, BidStays, BidMoves DEF PipelineInv
  <1>3. \A c \in Bids : Refused(c) \in Kept("audit-logs") => Refused(c) \in Kept("audit-logs")'
    BY <1>1 DEF SameMessages, Topics
  <1>4. RefusalsOnRecord'
    BY <1>3, RefusalsStay DEF PipelineInv
  <1> QED BY <1>2, <1>4 DEF PipelineInv

\* Every step keeps the invariant.
LEMMA PipelineStep == ASSUME TypeOK, PipelineInv, [Next]_vars PROVE PipelineInv'
  <1>1. ASSUME NEW b \in Bids,
               Receive(b) \/ Refuse(b) \/ Admit(b) \/ ThrottleFails(b) \/ Validate(b) \/ SendNowhere(b)
        PROVE  PipelineInv'
    BY <1>1, QuietStep DEF Receive, Refuse, Admit, ThrottleFails, Validate, SendNowhere
  <1>2. ASSUME NEW b \in Bids, Send(b) PROVE PipelineInv'
    BY <1>2, SendStep DEF Send
  <1>3. ASSUME NEW b \in Bids, SendTwice(b) PROVE PipelineInv'
    BY <1>3, SendStep DEF SendTwice
  <1>4. ASSUME NEW b \in Bids, SendFails(b) PROVE PipelineInv'
    BY <1>4, SendStep, QuietStep DEF SendFails
  <1>5. CASE GatewayDies
    <2>1. \A c \in Bids : stage'[c] = stage[c] \/ (stage[c] # "failed" /\ stage'[c] = "lost")
      BY <1>5 DEF GatewayDies, Sending
    <2> QED BY <1>5, <2>1, LossStep DEF GatewayDies, DropEmits
  <1>6. CASE LoseEmits
    BY <1>6, LossStep DEF LoseEmits, DropEmits
  <1>7. ASSUME NEW t \in Logged, NEW p \in Partitions, ConsumerRestarts(t, p) PROVE PipelineInv'
    BY <1>7, LossStep DEF ConsumerRestarts
  <1>8. CASE UNCHANGED vars
    BY <1>8, LossStep DEF vars
  <1> QED
    BY <1>1, <1>2, <1>3, <1>4, <1>5, <1>6, <1>7, <1>8, ConsumeStep, EmitStep, RejectionStep DEF Next, Handle

\* The invariant of the gateway's sends and of the refusals holds of every state.
LEMMA PipelineInvariant == SafeSpec => [](TypeOK /\ PipelineInv)
  <1>1. Init => PipelineInv
    <2> SUFFICES ASSUME Init PROVE PipelineInv
      OBVIOUS
    <2>1. \A t \in Topics, p \in Partitions : DOMAIN topic[t][p] = {}
      BY DEF Init
    <2>2. \A t \in Topics : Kept(t) = {}
      BY <2>1 DEF Kept
    <2>3. \A b \in Bids : BidInv(b)
      BY <2>2 DEF BidInv, QueuedInOrder, SendsReturned, Recorded, RefusedFails, Init, Topics
    <2>4. RefusalsOnRecord
      BY DEF RefusalsOnRecord, Init
    <2> QED BY <2>3, <2>4 DEF PipelineInv
  <1>2. TypeOK /\ PipelineInv /\ [Next]_vars => PipelineInv'
    BY PipelineStep
  <1> QED BY <1>1, <1>2, TypeCorrect, PTL DEF SafeSpec

\* Whatever sends fail half-way, are repeated or are cut off by the end of the gateway,
\* the audit log has no bid that was not announced, and neither has a bid that was not
\* queued: handlePlaceBid sends in that order and awaits each send.
THEOREM RecordsFollowTheQueue == SafeSpec => []RecordsAreOfQueuedBids
  <1>1. PipelineInv => RecordsAreOfQueuedBids
    <2> SUFFICES ASSUME PipelineInv, NEW b \in Bids
                 PROVE  /\ Holds("audit-logs", "bid", b) => Holds("auction-notifications", "bid", b)
                        /\ Holds("auction-notifications", "bid", b) => Holds("bid-events", "bid", b)
      BY DEF RecordsAreOfQueuedBids
    <2> QED BY HoldsIsKept DEF PipelineInv, BidInv, Recorded, Topics
  <1> QED BY <1>1, PipelineInvariant, PTL

\* A socket that is told that the throttle refused its bid is told the truth: the refusal
\* is in the audit log, and no message of the bid is in the bid-events topic.
THEOREM RefusalsAreTrue == SafeSpec => []RefusedIsNotQueued
  <1>1. PipelineInv => RefusedIsNotQueued
    <2> SUFFICES ASSUME PipelineInv, NEW b \in Bids, "bidRejected" \in told[b]
                 PROVE  Holds("audit-logs", "rate_limit_exceeded", b) /\ ~Holds("bid-events", "bid", b)
      BY DEF RefusedIsNotQueued
    <2> QED BY HoldsIsKept DEF PipelineInv, BidInv, RefusedFails, RefusalsOnRecord, Topics
  <1> QED BY <1>1, PipelineInvariant, PTL
=============================================================================
