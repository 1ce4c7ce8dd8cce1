---------------------------- MODULE BiddingProofs ----------------------------
(***************************************************************************)
(* Theorems about Bidding, for every set of bidders, amounts, consumers and *)
(* calls, and every number of messages and faults.                          *)
(***************************************************************************)
EXTENDS Bidding, TLAPS

-----------------------------------------------------------------------------
(* The operators *)

\* A stored amount is an integer.
LEMMA StoredType == ASSUME NEW a \in Int PROVE Stored(a) \in Int
  BY DEF Stored, Cent

\* Storing rounds to whole cents.
LEMMA StoredInCents == ASSUME NEW a \in Int PROVE Stored(a) % Cent = 0
  BY DEF Stored, Cent

\* Rounding keeps an amount on its side of a whole number of cents.
LEMMA StoredKeepsOrder ==
  ASSUME NEW a \in Int, NEW h \in Int, h % Cent = 0, h < a
  PROVE  h <= Stored(a)
  BY DEF Stored, Cent

\* A whole number of cents is stored as it is.
LEMMA StoredWhole == ASSUME NEW a \in Int, a % Cent = 0 PROVE Stored(a) = a
  BY DEF Stored, Cent

\* placeBid lets a bid through exactly when the row it has read is open and lower.
LEMMA VerdictCases ==
  ASSUME NEW a \in Int, auction.exists \in BOOLEAN, auction.isOpen \in BOOLEAN, auction.highest \in Int
  PROVE  /\ Verdict(a) \in {"write"} \cup Refusals
         /\ Verdict(a) = "write" => auction.exists /\ auction.isOpen /\ auction.highest < a
         /\ Verdict(a) = "AUCTION_NOT_FOUND" => ~auction.exists
         /\ Verdict(a) = "AUCTION_CLOSED" => ~auction.isOpen
         /\ Verdict(a) = "BID_TOO_LOW" => a <= auction.highest
  <1>1. CASE ~auction.exists
    BY <1>1 DEF Verdict, Refusals
  <1>2. CASE auction.exists /\ ~auction.isOpen
    BY <1>2 DEF Verdict, Refusals
  <1>3. CASE auction.exists /\ auction.isOpen /\ a <= auction.highest
    BY <1>3 DEF Verdict, Refusals
  <1>4. CASE auction.exists /\ auction.isOpen /\ ~(a <= auction.highest)
    BY <1>4 DEF Verdict, Refusals
  <1> QED BY <1>1, <1>2, <1>3, <1>4

\* What endAuction reads as the winning bid is a summary.
LEMMA WinningBidsType ==
  ASSUME bids \in Seq(Rows), NEW s \in WinningBids
  PROVE  s \in Summaries
  <1>1. CASE bids = <<>>
    BY <1>1 DEF WinningBids, Summaries, NoBids
  <1>2. CASE bids # <<>>
    <2>1. PICK i \in TopRows : s = [amount |-> bids[i].amount, user |-> bids[i].user]
      BY <1>2 DEF WinningBids
    <2>2. bids[i] \in Rows
      BY <2>1 DEF TopRows
    <2> QED BY <2>1, <2>2 DEF Rows, Summaries
  <1> QED BY <1>1, <1>2

-----------------------------------------------------------------------------
(* Type correctness *)

\* A consumer that is short of the end of the partition has a message before it.
LEMMA CurrentType ==
  ASSUME TypeOK, NEW w \in Workers, pos[w] < Len(log)
  PROVE  /\ Current(w) \in Messages
         /\ Current(w).amount \in Int
         /\ pos[w] + 1 \in DOMAIN log
  <1>1. log \in Seq(Messages) /\ pos[w] \in 0 .. Len(log)
    BY DEF TypeOK
  <1>2. pos[w] + 1 \in 1 .. Len(log)
    BY <1>1
  <1>3. log[pos[w] + 1] \in Messages
    BY <1>1, <1>2
  <1>4. log[pos[w] + 1].amount \in Int
    BY <1>3, AmountsAssumption DEF Messages
  <1>5. pos[w] + 1 \in DOMAIN log
    BY <1>1, <1>2
  <1> QED BY <1>3, <1>4, <1>5 DEF Current

\* Initially the state is of its types.
LEMMA TypesInit == Init => TypeOK
  <1> SUFFICES ASSUME Init PROVE TypeOK
    OBVIOUS
  <1>1. log \in Seq(Messages) /\ Len(log) = 0 /\ bids \in Seq(Rows) /\ Len(bids) = 0
    BY DEF Init
  <1>2. auction \in [exists : BOOLEAN, isOpen : BOOLEAN, highest : Int,
                     winner : Bidders \cup {None}, version : Nat]
    BY DEF Init
  <1>3. summary \in [Admins -> Summaries]
    BY DEF Init, Summaries, NoBids
  <1>4. /\ committed \in 0 .. Len(log)
        /\ owner \in Workers \cup {None}
        /\ pos \in [Workers -> 0 .. Len(log)]
        /\ pc \in [Workers -> {"idle", "write", "publish", "cache"} \cup Refusals]
        /\ \A w \in Workers : pc[w] # "idle" => pos[w] < Len(log)
        /\ rowsAtClose \in 0 .. Len(bids)
        /\ faults \in 0 .. MaxFaults
    BY <1>1, BoundsAssumption DEF Init
  <1>5. /\ cache \in Rooms \cup {None}
        /\ newBids = {} /\ endings = {} /\ rejects = {}
        /\ endPc \in [Admins -> {"start", "update", "publish", "cache", "done", "failed"}]
        /\ joinPc \in [Joiners -> {"start", "load", "fill", "done"}]
        /\ loaded \in [Joiners -> Rooms \cup {None}]
    BY DEF Init
  <1> QED BY <1>1, <1>2, <1>3, <1>4, <1>5 DEF TypeOK

\* The state stays in its types.
LEMMA TypesStep == ASSUME TypeOK, [Next]_vars PROVE TypeOK'
  <1> USE NoneAssumption, AmountsAssumption, BoundsAssumption
  <1> USE DEF TypeOK, topicVars, workerVars, dbVars, eventVars, endVars, joinVars
  <1>1. ASSUME NEW user \in Bidders, NEW amount \in Amounts, PlaceBid(user, amount) PROVE TypeOK'
    BY <1>1, SMTT(30) DEF PlaceBid, Messages
  <1>2. ASSUME NEW k \in DOMAIN log, ResendBid(k) PROVE TypeOK'
    BY <1>2, SMTT(30) DEF ResendBid, Fault
  <1>3. ASSUME NEW w \in Workers, Assign(w) PROVE TypeOK'
    BY <1>3 DEF Assign
  <1>4. ASSUME NEW w \in Workers, CommitOffset(w) PROVE TypeOK'
    BY <1>4 DEF CommitOffset, CommitPoint
  <1>5. ASSUME NEW w \in Workers, SessionTimeout(w) PROVE TypeOK'
    BY <1>5 DEF SessionTimeout, Fault
  <1>6. ASSUME NEW w \in Workers, Crash(w) PROVE TypeOK'
    BY <1>6 DEF Crash, Fault
  <1>7. ASSUME NEW w \in Workers, HandlerThrows(w) PROVE TypeOK'
    BY <1>7 DEF HandlerThrows, Fault
  <1>8. ASSUME NEW w \in Workers, TxRead(w) PROVE TypeOK'
    <2>1. Current(w).amount \in Int
      BY <1>8, CurrentType DEF TxRead
    <2>2. Verdict(Current(w).amount) \in {"write"} \cup Refusals
      BY <2>1, VerdictCases
    <2> QED BY <1>8, <2>2 DEF TxRead
  <1>9. ASSUME NEW w \in Workers, TxWrite(w) PROVE TypeOK'
    <2>1. Current(w) \in Messages /\ Current(w).amount \in Int
      BY <1>9, CurrentType DEF TxWrite
    <2>2. Stored(Current(w).amount) \in Int
      BY <2>1, StoredType DEF Messages
    <2>3. auction' \in [exists : BOOLEAN, isOpen : BOOLEAN, highest : Int,
                        winner : Bidders \cup {None}, version : Nat]
      <3>1. Current(w).user \in Bidders
        BY <2>1 DEF Messages
      <3>2. auction' = RowAfterBid(Current(w))
        BY <1>9 DEF TxWrite
      <3>3. auction' = [exists |-> auction.exists, isOpen |-> auction.isOpen,
                        highest |-> Stored(Current(w).amount), winner |-> Current(w).user,
                        version |-> auction.version + 1]
        BY <3>2 DEF RowAfterBid
      <3>4. auction.exists \in BOOLEAN /\ auction.isOpen \in BOOLEAN /\ auction.version + 1 \in Nat
        OBVIOUS
      <3> QED BY <2>2, <3>1, <3>3, <3>4
    <2>4. bids' \in Seq(Rows) /\ Len(bids') = Len(bids) + 1
      BY <1>9, <2>1, <2>2 DEF TxWrite, Messages, Rows
    <2> QED BY <1>9, <2>3, <2>4, SMTT(30) DEF TxWrite
  <1>10. ASSUME NEW w \in Workers, TxOverflow(w) PROVE TypeOK'
    BY <1>10 DEF TxOverflow
  <1>11. ASSUME NEW w \in Workers, PublishNewBid(w) PROVE TypeOK'
    <2>1. Current(w) \in Messages
      BY <1>11, CurrentType DEF PublishNewBid
    <2> QED BY <1>11, <2>1 DEF PublishNewBid
  <1>12. ASSUME NEW w \in Workers, CacheNewBid(w) PROVE TypeOK'
    <2>1. Current(w) \in Messages /\ Current(w).amount \in Int
      BY <1>12, CurrentType DEF CacheNewBid
    <2>2. cache' \in Rooms
      BY <1>12, <2>1 DEF CacheNewBid, RoomAfterBid, Messages, Rooms
    <2> QED BY <1>12, <2>2 DEF CacheNewBid, Handled
  <1>13. ASSUME NEW w \in Workers, PublishRejection(w) PROVE TypeOK'
    <2>1. Current(w) \in Messages
      BY <1>13, CurrentType DEF PublishRejection, Refusals
    <2>2. rejects' \subseteq [req : Nat \ {0}, amount : Amounts, code : Refusals]
      BY <1>13, <2>1 DEF PublishRejection, Messages
    <2> QED BY <1>13, <2>2 DEF PublishRejection, Handled, Refusals
  <1>14. ASSUME NEW c \in Admins, EndRead(c) PROVE TypeOK'
    BY <1>14 DEF EndRead, AfterEndRead
  <1>15. ASSUME NEW c \in Admins, EndUpdate(c) PROVE TypeOK'
    <2>1. summary' \in [Admins -> Summaries]
      BY <1>15, WinningBidsType DEF EndUpdate
    <2>2. auction' \in [exists : BOOLEAN, isOpen : BOOLEAN, highest : Int,
                        winner : Bidders \cup {None}, version : Nat]
      BY <1>15 DEF EndUpdate
    <2>3. rowsAtClose' \in 0 .. Len(bids')
      BY <1>15 DEF EndUpdate
    <2> QED BY <1>15, <2>1, <2>2, <2>3 DEF EndUpdate
  <1>16. ASSUME NEW c \in Admins, EndPublish(c) PROVE TypeOK'
    BY <1>16 DEF EndPublish, Summaries
  <1>17. ASSUME NEW c \in Admins, EndCache(c) PROVE TypeOK'
    BY <1>17 DEF EndCache, ClosedRoom, Summaries, Rooms
  <1>18. ASSUME NEW c \in Admins, EndDies(c) PROVE TypeOK'
    BY <1>18 DEF EndDies, Fault
  <1>19. ASSUME NEW j \in Joiners, CacheLookup(j) PROVE TypeOK'
    BY <1>19 DEF CacheLookup
  <1>20. ASSUME NEW j \in Joiners, DbLookup(j) PROVE TypeOK'
    BY <1>20 DEF DbLookup, LoadedRoom, Rooms
  <1>21. ASSUME NEW j \in Joiners, CacheFill(j) PROVE TypeOK'
    BY <1>21 DEF CacheFill
  <1>22. CASE CacheExpire
    BY <1>22 DEF CacheExpire
  <1>23. CASE UNCHANGED vars
    BY <1>23 DEF vars
  <1> QED
    BY <1>1, <1>2, <1>3, <1>4, <1>5, <1>6, <1>7, <1>8, <1>9, <1>10, <1>11, <1>12, <1>13, <1>14,
       <1>15, <1>16, <1>17, <1>18, <1>19, <1>20, <1>21, <1>22, <1>23
       DEF Next, PlaceBidStep, EndAuctionStep

\* The state stays in its types; in particular no consumer and no commit gets past
\* the end of the partition.
THEOREM TypeCorrect == SafeSpec => []TypeOK
  <1>1. Init => TypeOK
    BY TypesInit
  <1>2. TypeOK /\ [Next]_vars => TypeOK'
    BY TypesStep
  <1> QED BY <1>1, <1>2, PTL DEF SafeSpec

-----------------------------------------------------------------------------
(* The steps, by what they do to the rows *)

\* A step that leaves the rows, the log and what was announced alone, judges no
\* bid, takes no partition from an open transaction and closes no auction.
Bystander ==
  /\ UNCHANGED <<log, auction, bids, rowsAtClose, endings, rejects, summary>>
  /\ \A w \in Workers : pc'[w] \in {"write"} \cup Refusals => pc'[w] = pc[w] /\ pos'[w] = pos[w]
  /\ \A w \in Workers : pc'[w] = "write" => owner' = w
  /\ \A c \in Admins : endPc'[c] \in Closing => endPc[c] \in Closing

\* As long as an open transaction belongs to the owner of the partition, a step is
\* one of seven that matter to the rows, or a bystander.
LEMMA StepCases ==
  ASSUME TypeOK, SoleWriter, ~TxOutlivesSession, [Next]_vars
  PROVE  \/ \E user \in Bidders, amount \in Amounts : PlaceBid(user, amount)
         \/ \E k \in DOMAIN log : ResendBid(k)
         \/ \E w \in Workers : TxRead(w)
         \/ \E w \in Workers : TxWrite(w)
         \/ \E w \in Workers : PublishRejection(w)
         \/ \E c \in Admins : EndUpdate(c)
         \/ \E c \in Admins : EndPublish(c)
         \/ Bystander
  <1> USE NoneAssumption
  <1> USE DEF topicVars, workerVars, dbVars, eventVars, endVars, joinVars, Refusals, Closing
  <1>0. /\ pc \in [Workers -> {"idle", "write", "publish", "cache"} \cup Refusals]
        /\ pos \in [Workers -> 0 .. Len(log)]
        /\ owner \in Workers \cup {None}
        /\ endPc \in [Admins -> {"start", "update", "publish", "cache", "done", "failed"}]
    BY DEF TypeOK
  <1>1. ASSUME NEW w \in Workers, Assign(w) PROVE Bystander
    BY <1>0, <1>1 DEF Assign, Bystander, SoleWriter
  <1>2. ASSUME NEW w \in Workers, CommitOffset(w) PROVE Bystander
    BY <1>0, <1>2 DEF CommitOffset, Bystander, SoleWriter
  <1>3. ASSUME NEW w \in Workers, SessionTimeout(w) PROVE Bystander
    BY <1>0, <1>3 DEF SessionTimeout, Bystander, SoleWriter
  <1>4. ASSUME NEW w \in Workers, Crash(w) PROVE Bystander
    BY <1>0, <1>4 DEF Crash, Bystander, SoleWriter
  <1>5. ASSUME NEW w \in Workers, HandlerThrows(w) PROVE Bystander
    BY <1>0, <1>5 DEF HandlerThrows, Bystander, SoleWriter
  <1>6. ASSUME NEW w \in Workers, TxOverflow(w) PROVE Bystander
    BY <1>0, <1>6 DEF TxOverflow, Bystander, SoleWriter
  <1>7. ASSUME NEW w \in Workers, PublishNewBid(w) PROVE Bystander
    BY <1>0, <1>7 DEF PublishNewBid, Bystander, SoleWriter
  <1>8. ASSUME NEW w \in Workers, CacheNewBid(w) PROVE Bystander
    BY <1>0, <1>8 DEF CacheNewBid, Handled, Bystander, SoleWriter
  <1>9. ASSUME NEW c \in Admins, EndRead(c) PROVE Bystander
    BY <1>0, <1>9 DEF EndRead, AfterEndRead, Bystander, SoleWriter
  <1>10. ASSUME NEW c \in Admins, EndCache(c) PROVE Bystander
    BY <1>0, <1>10 DEF EndCache, Bystander, SoleWriter
  <1>11. ASSUME NEW c \in Admins, EndDies(c) PROVE Bystander
    BY <1>0, <1>11 DEF EndDies, Bystander, SoleWriter
  <1>12. ASSUME NEW j \in Joiners, CacheLookup(j) PROVE Bystander
    BY <1>0, <1>12 DEF CacheLookup, Bystander, SoleWriter
  <1>13. ASSUME NEW j \in Joiners, DbLookup(j) PROVE Bystander
    BY <1>0, <1>13 DEF DbLookup, Bystander, SoleWriter
  <1>14. ASSUME NEW j \in Joiners, CacheFill(j) PROVE Bystander
    BY <1>0, <1>14 DEF CacheFill, Bystander, SoleWriter
  <1>15. CASE CacheExpire
    BY <1>0, <1>15 DEF CacheExpire, Bystander, SoleWriter
  <1>16. CASE UNCHANGED vars
    BY <1>0, <1>16 DEF vars, Bystander, SoleWriter
  <1> QED
    BY <1>1, <1>2, <1>3, <1>4, <1>5, <1>6, <1>7, <1>8, <1>9, <1>10, <1>11, <1>12, <1>13, <1>14,
       <1>15, <1>16
       DEF Next, PlaceBidStep, EndAuctionStep

\* The log only grows: what a consumer has before it stays.
LEMMA CurrentStays ==
  ASSUME TypeOK, NEW w \in Workers, pos[w] < Len(log), pos'[w] = pos[w],
         \/ log' = log
         \/ \E m \in Messages : log' = Append(log, m)
  PROVE  Current(w)' = Current(w)
  <1>1. log \in Seq(Messages) /\ pos[w] \in 0 .. Len(log)
    BY DEF TypeOK
  <1>2. pos[w] + 1 \in 1 .. Len(log)
    BY <1>1
  <1> QED BY <1>1, <1>2 DEF Current

\* A send appends a message to the log and touches nothing else that matters here.
LEMMA SendAppends ==
  ASSUME TypeOK,
         \/ \E user \in Bidders, amount \in Amounts : PlaceBid(user, amount)
         \/ \E k \in DOMAIN log : ResendBid(k)
  PROVE  /\ UNCHANGED <<owner, pos, pc, auction, bids, rowsAtClose, endings, rejects, endPc, summary>>
         /\ \E m \in Messages : log' = Append(log, m)
  <1> USE DEF topicVars, workerVars, dbVars, eventVars, endVars, joinVars
  <1>1. ASSUME NEW user \in Bidders, NEW amount \in Amounts, PlaceBid(user, amount)
        PROVE  [req |-> Len(log) + 1, user |-> user, amount |-> amount] \in Messages
    BY DEF TypeOK, Messages
  <1>2. ASSUME NEW k \in DOMAIN log, ResendBid(k) PROVE log[k] \in Messages
    BY DEF TypeOK
  <1> QED BY <1>1, <1>2 DEF PlaceBid, ResendBid

-----------------------------------------------------------------------------
(* The row agrees with the Bid rows *)

\* A step that leaves the rows alone, starts no transaction and keeps the partition
\* with an open one keeps RowInv.
LEMMA RowFrame ==
  ASSUME RowInv, UNCHANGED bids,
         auction'.exists = auction.exists, auction'.highest = auction.highest,
         auction'.winner = auction.winner,
         \A w \in Workers : pc'[w] = "write" =>
           pc[w] = "write" /\ owner' = w /\ Current(w)' = Current(w)
  PROVE  RowInv'
  BY DEF RowInv, SoleWriter, WriterBeats, InCents, HighestIsTopBid

\* The accepted bid becomes the last Bid row and the highest bid of the Auction row.
LEMMA WriteEffect ==
  ASSUME TypeOK, RowInv, NEW w \in Workers, TxWrite(w)
  PROVE  /\ Current(w) \in Messages /\ Current(w).amount \in Int
         /\ auction'.exists = auction.exists /\ auction'.isOpen = auction.isOpen
         /\ auction'.highest = Stored(Current(w).amount)
         /\ auction'.winner = Current(w).user
         /\ bids' = Append(bids, [req |-> Current(w).req, user |-> Current(w).user,
                                  amount |-> Stored(Current(w).amount)])
         /\ auction.highest \in Int /\ auction'.highest \in Int
         /\ auction.highest < Current(w).amount
         /\ auction.highest <= auction'.highest
         /\ \A v \in Workers : pc'[v] # "write"
  <1>1. Current(w) \in Messages /\ Current(w).amount \in Int
    BY CurrentType DEF TxWrite, TypeOK
  <1>2. auction' = RowAfterBid(Current(w))
    BY DEF TxWrite
  <1>3. /\ auction'.exists = auction.exists /\ auction'.isOpen = auction.isOpen
        /\ auction'.highest = Stored(Current(w).amount)
        /\ auction'.winner = Current(w).user
    BY <1>2 DEF RowAfterBid, TypeOK
  <1>4. auction.highest \in Int /\ auction.highest < Current(w).amount
    BY DEF TypeOK, RowInv, WriterBeats, TxWrite
  <1>5. auction.highest <= Stored(Current(w).amount)
    BY <1>1, <1>4, StoredKeepsOrder DEF RowInv, InCents
  <1>6. \A v \in Workers : pc'[v] # "write"
    BY DEF TxWrite, RowInv, SoleWriter, TypeOK
  <1>7. auction'.highest \in Int
    BY <1>1, <1>3, StoredType
  <1> QED BY <1>1, <1>3, <1>4, <1>5, <1>6, <1>7 DEF TxWrite

\* RowInv is kept by every step.
LEMMA RowStep ==
  ASSUME ~TxOutlivesSession, TypeOK, RowInv, [Next]_vars
  PROVE  RowInv'
  <1> USE DEF topicVars, workerVars, dbVars, eventVars, endVars, joinVars
  <1>0. SoleWriter
    BY DEF RowInv
  <1>1. CASE \/ \E user \in Bidders, amount \in Amounts : PlaceBid(user, amount)
             \/ \E k \in DOMAIN log : ResendBid(k)
    <2>1. /\ UNCHANGED <<owner, pos, pc, auction, bids>>
          /\ \E m \in Messages : log' = Append(log, m)
      BY <1>1, SendAppends
    <2>2. ASSUME NEW w \in Workers, pc'[w] = "write"
          PROVE  pc[w] = "write" /\ owner' = w /\ Current(w)' = Current(w)
      <3>1. pc[w] = "write" /\ pos[w] < Len(log) /\ pos'[w] = pos[w]
        BY <2>1, <2>2 DEF TypeOK
      <3>2. Current(w)' = Current(w)
        BY <2>1, <3>1, CurrentStays
      <3> QED BY <1>0, <2>1, <3>1, <3>2 DEF SoleWriter
    <2> QED BY <2>1, <2>2, RowFrame
  <1>2. ASSUME NEW w \in Workers, TxRead(w) PROVE RowInv'
    <2>1. UNCHANGED <<log, owner, pos, auction, bids>> /\ owner = w
      BY <1>2 DEF TxRead
    <2>2. \A v \in Workers : v # w => pc'[v] # "write"
      BY <1>0, <1>2 DEF TxRead, SoleWriter, TypeOK
    <2>3. Current(w)' = Current(w) /\ Current(w).amount \in Int
      BY <1>2, <2>1, CurrentType DEF TxRead, Current
    <2>4. pc'[w] = Verdict(Current(w).amount)
      BY <1>2 DEF TxRead, TypeOK
    <2>5. pc'[w] = "write" => auction.exists /\ auction.highest < Current(w).amount
      BY <2>3, <2>4, VerdictCases DEF TypeOK
    <2>6. SoleWriter' /\ WriterBeats'
      BY <2>1, <2>2, <2>3, <2>5 DEF SoleWriter, WriterBeats
    <2>7. InCents' /\ HighestIsTopBid'
      BY <2>1 DEF RowInv, InCents, HighestIsTopBid
    <2> QED BY <2>6, <2>7 DEF RowInv
  <1>3. ASSUME NEW w \in Workers, TxWrite(w) PROVE RowInv'
    <2> DEFINE row == [req |-> Current(w).req, user |-> Current(w).user,
                       amount |-> Stored(Current(w).amount)]
    <2>1. /\ auction'.highest = Stored(Current(w).amount) /\ auction'.winner = Current(w).user
          /\ bids' = Append(bids, row)
          /\ auction.highest \in Int /\ auction'.highest \in Int
          /\ auction.highest <= auction'.highest
          /\ \A v \in Workers : pc'[v] # "write"
      BY <1>3, WriteEffect
    <2>2. SoleWriter' /\ WriterBeats'
      BY <2>1 DEF SoleWriter, WriterBeats
    <2>3. InCents'
      <3>1. Current(w).amount \in Int
        BY <1>3, WriteEffect
      <3> QED BY <2>1, <3>1, StoredInCents DEF InCents
    <2>4. HighestIsTopBid'
      <3> HIDE DEF row
      <3>1. bids \in Seq(Rows)
        BY DEF TypeOK
      <3>2. /\ Len(bids') = Len(bids) + 1 /\ bids'[Len(bids')] = row
            /\ \A i \in DOMAIN bids : bids'[i] = bids[i]
            /\ DOMAIN bids' = DOMAIN bids \cup {Len(bids')}
            /\ bids' # <<>>
        BY <2>1, <3>1
      <3>3. row.amount = auction'.highest /\ row.user = auction'.winner
        BY <2>1 DEF row
      <3>4. \A i \in DOMAIN bids : bids[i].amount \in Int /\ bids[i].amount <= auction.highest
        <4> SUFFICES ASSUME NEW i \in DOMAIN bids
                     PROVE  bids[i].amount \in Int /\ bids[i].amount <= auction.highest
          OBVIOUS
        <4>1. bids[i] \in Rows /\ bids # <<>>
          BY <3>1
        <4>2. bids[i].amount \in Int
          BY <4>1 DEF Rows
        <4> QED BY <4>1, <4>2 DEF RowInv, HighestIsTopBid
      <3>5. \A i \in DOMAIN bids' : bids'[i].amount <= auction'.highest
        BY <2>1, <3>2, <3>3, <3>4
      <3> QED BY <3>2, <3>3, <3>5 DEF HighestIsTopBid
    <2> QED BY <2>2, <2>3, <2>4 DEF RowInv
  <1>4. ASSUME NEW w \in Workers, PublishRejection(w) PROVE RowInv'
    <2>1. UNCHANGED <<log, owner, auction, bids>>
      BY <1>4 DEF PublishRejection
    <2>2. \A v \in Workers : pc'[v] = "write" => v # w /\ pc[v] = "write" /\ pos'[v] = pos[v]
      BY <1>4 DEF PublishRejection, Handled, TypeOK, Refusals
    <2>3. \A v \in Workers : pc'[v] = "write" => Current(v)' = Current(v) /\ owner' = v
      BY <1>0, <2>1, <2>2 DEF Current, SoleWriter
    <2> QED BY <2>1, <2>2, <2>3, RowFrame
  <1>5. ASSUME NEW c \in Admins, EndUpdate(c) PROVE RowInv'
    <2>1. UNCHANGED <<log, owner, pos, pc, bids>>
      BY <1>5 DEF EndUpdate
    <2>2. /\ auction'.exists = auction.exists /\ auction'.highest = auction.highest
          /\ auction'.winner = auction.winner
      BY <1>5 DEF EndUpdate, TypeOK
    <2>3. \A w \in Workers : pc'[w] = "write" =>
            pc[w] = "write" /\ owner' = w /\ Current(w)' = Current(w)
      BY <1>0, <2>1 DEF SoleWriter, Current
    <2> QED BY <2>1, <2>2, <2>3, RowFrame
  <1>6. ASSUME NEW c \in Admins, EndPublish(c) PROVE RowInv'
    <2>1. UNCHANGED <<log, owner, pos, pc, auction, bids>>
      BY <1>6 DEF EndPublish
    <2>2. \A w \in Workers : pc'[w] = "write" =>
            pc[w] = "write" /\ owner' = w /\ Current(w)' = Current(w)
      BY <1>0, <2>1 DEF SoleWriter, Current
    <2> QED BY <2>1, <2>2, RowFrame
  <1>7. CASE Bystander
    <2>1. UNCHANGED <<log, auction, bids>>
      BY <1>7 DEF Bystander
    <2>2. \A w \in Workers : pc'[w] = "write" =>
            pc[w] = "write" /\ owner' = w /\ Current(w)' = Current(w)
      BY <1>7 DEF Bystander, Current
    <2> QED BY <2>1, <2>2, RowFrame
  <1> QED BY <1>0, <1>1, <1>2, <1>3, <1>4, <1>5, <1>6, <1>7, StepCases

\* Initially there are no rows, and no transaction is open.
LEMMA RowInit == Init => RowInv
  BY DEF Init, RowInv, SoleWriter, WriterBeats, InCents, HighestIsTopBid, Cent

\* RowInv is an invariant: there is at most one open transaction, its judgement
\* holds until it writes, and the two tables agree.
LEMMA RowInvariant == ASSUME ~TxOutlivesSession PROVE SafeSpec => []RowInv
  <1>1. Init => RowInv
    BY RowInit
  <1>2. TypeOK /\ RowInv /\ [Next]_vars => RowInv'
    BY RowStep
  <1> QED BY <1>1, <1>2, TypeCorrect, PTL DEF SafeSpec

\* The Auction row's highest bid and winner are those of the last Bid row, and no
\* Bid row beats them, whatever is redelivered, reassigned or crashes: as long as no
\* transaction is still open when its consumer's session has expired.
THEOREM RowAgreesWithBids == ASSUME ~TxOutlivesSession PROVE SafeSpec => []HighestIsTopBid
  <1>1. RowInv => HighestIsTopBid
    BY DEF RowInv
  <1> QED BY <1>1, RowInvariant, PTL

\* The highest bid of the Auction row never falls and a closed auction stays closed.
THEOREM HighestNeverFallsHolds == ASSUME ~TxOutlivesSession PROVE SafeSpec => HighestNeverFalls
  <1>1. TypeOK /\ RowInv /\ [Next]_vars
          => [auction'.highest >= auction.highest /\ (auction'.isOpen => auction.isOpen)]_auction
    <2> SUFFICES ASSUME TypeOK, RowInv, [Next]_vars, auction' # auction
                 PROVE  auction'.highest >= auction.highest /\ (auction'.isOpen => auction.isOpen)
      OBVIOUS
    <2> USE DEF topicVars, workerVars, dbVars, eventVars, endVars, joinVars
    <2>1. ASSUME NEW w \in Workers, TxWrite(w)
          PROVE  auction'.highest >= auction.highest /\ (auction'.isOpen => auction.isOpen)
      BY <2>1, WriteEffect
    <2>2. ASSUME NEW c \in Admins, EndUpdate(c)
          PROVE  auction'.highest >= auction.highest /\ (auction'.isOpen => auction.isOpen)
      BY <2>2 DEF EndUpdate, TypeOK
    <2>3. \/ \E w \in Workers : TxWrite(w)
          \/ \E c \in Admins : EndUpdate(c)
      <3>1. SoleWriter
        BY DEF RowInv
      <3> QED BY <3>1, StepCases, SendAppends
                 DEF TxRead, PublishRejection, EndPublish, Bystander
    <2> QED BY <2>1, <2>2, <2>3
  <1> QED BY <1>1, TypeCorrect, RowInvariant, PTL DEF SafeSpec, HighestNeverFalls

-----------------------------------------------------------------------------
(* Late bids *)

\* A step that leaves the rows alone and starts no transaction keeps LateInv.
LEMMA LateFrame ==
  ASSUME LateInv, UNCHANGED <<auction, bids, rowsAtClose>>,
         \A w \in Workers : pc'[w] = "write" => pc[w] = "write"
  PROVE  LateInv'
  BY DEF LateInv, AtMostOneLateBid, LateBids

\* LateInv is kept by every step.
LEMMA LateStep ==
  ASSUME ~TxOutlivesSession, TypeOK, RowInv, LateInv, [Next]_vars
  PROVE  LateInv'
  <1> USE DEF topicVars, workerVars, dbVars, eventVars, endVars, joinVars
  <1>0. SoleWriter
    BY DEF RowInv
  <1>1. CASE \/ \E user \in Bidders, amount \in Amounts : PlaceBid(user, amount)
             \/ \E k \in DOMAIN log : ResendBid(k)
    BY <1>1, SendAppends, LateFrame
  <1>2. ASSUME NEW w \in Workers, TxRead(w) PROVE LateInv'
    <2>1. UNCHANGED <<auction, bids, rowsAtClose>>
      BY <1>2 DEF TxRead
    <2>2. \A v \in Workers : v # w => pc'[v] # "write"
      BY <1>0, <1>2 DEF TxRead, SoleWriter, TypeOK
    <2>3. pc'[w] = "write" => auction.isOpen
      <3>1. Current(w).amount \in Int
        BY <1>2, CurrentType DEF TxRead
      <3>2. pc'[w] = Verdict(Current(w).amount)
        BY <1>2 DEF TxRead, TypeOK
      <3> QED BY <3>1, <3>2, VerdictCases DEF TypeOK
    <2> QED BY <2>1, <2>2, <2>3 DEF LateInv, AtMostOneLateBid, LateBids
  <1>3. ASSUME NEW w \in Workers, TxWrite(w) PROVE LateInv'
    <2>1. /\ auction'.isOpen = auction.isOpen
          /\ \A v \in Workers : pc'[v] # "write"
      BY <1>3, WriteEffect
    <2>2. bids \in Seq(Rows) /\ rowsAtClose \in Int /\ rowsAtClose' = rowsAtClose
      BY <1>3 DEF TxWrite, TypeOK
    <2>3. Len(bids') = Len(bids) + 1
      <3> DEFINE row == [req |-> Current(w).req, user |-> Current(w).user,
                         amount |-> Stored(Current(w).amount)]
      <3>1. bids' = Append(bids, row)
        BY <1>3, WriteEffect
      <3> HIDE DEF row
      <3> QED BY <2>2, <3>1
    <2>4. LateBids = 0
      BY <1>3 DEF TxWrite, LateInv
    <2>5. LateBids' <= 1
      BY <2>1, <2>2, <2>3, <2>4 DEF LateBids
    <2> QED BY <2>1, <2>5 DEF LateInv, AtMostOneLateBid
  <1>4. ASSUME NEW w \in Workers, PublishRejection(w) PROVE LateInv'
    <2>1. \A v \in Workers : pc'[v] = "write" => pc[v] = "write"
      BY <1>4 DEF PublishRejection, Handled, TypeOK
    <2> QED BY <1>4, <2>1, LateFrame DEF PublishRejection
  <1>5. ASSUME NEW c \in Admins, EndUpdate(c) PROVE LateInv'
    <2>1. ~auction'.isOpen /\ bids' = bids /\ pc' = pc
      BY <1>5 DEF EndUpdate, TypeOK
    <2>2. rowsAtClose' = IF auction.isOpen THEN Len(bids) ELSE rowsAtClose
      BY <1>5 DEF EndUpdate
    <2>3. Len(bids) \in Nat
      BY DEF TypeOK
    <2>4. LateBids' = LateBids
      BY <2>1, <2>2, <2>3 DEF LateBids
    <2> QED BY <2>1, <2>4 DEF LateInv, AtMostOneLateBid
  <1>6. ASSUME NEW c \in Admins, EndPublish(c) PROVE LateInv'
    BY <1>6, LateFrame DEF EndPublish
  <1>7. CASE Bystander
    BY <1>7, LateFrame DEF Bystander
  <1> QED BY <1>0, <1>1, <1>2, <1>3, <1>4, <1>5, <1>6, <1>7, StepCases

\* LateInv is an invariant.
LEMMA LateInvariant == ASSUME ~TxOutlivesSession PROVE SafeSpec => []LateInv
  <1>1. Init => LateInv
    BY DEF Init, LateInv, AtMostOneLateBid, LateBids
  <1>2. TypeOK /\ RowInv /\ LateInv /\ [Next]_vars => LateInv'
    BY LateStep
  <1> QED BY <1>1, <1>2, TypeCorrect, RowInvariant, PTL DEF SafeSpec

\* At most one bid is accepted after the auction was closed.
THEOREM OneLateBid == ASSUME ~TxOutlivesSession PROVE SafeSpec => []AtMostOneLateBid
  <1>1. LateInv => AtMostOneLateBid
    BY DEF LateInv
  <1> QED BY <1>1, LateInvariant, PTL

-----------------------------------------------------------------------------
(* Refusals *)

\* RefusalInv is kept by every step.
LEMMA RefusalStep ==
  ASSUME ~TxOutlivesSession, TypeOK, RowInv, RefusalInv, [Next]_vars
  PROVE  RefusalInv'
  <1> USE DEF topicVars, workerVars, dbVars, eventVars, endVars, joinVars
  <1> DEFINE Pending(w) ==
        /\ pc[w] = "AUCTION_NOT_FOUND" => ~auction.exists
        /\ pc[w] = "AUCTION_CLOSED" => ~auction.isOpen
        /\ pc[w] = "BID_TOO_LOW" => Current(w).amount <= auction.highest
  <1>0. SoleWriter /\ RejectedForCause /\ \A w \in Workers : Pending(w)
    BY DEF RowInv, RefusalInv
  <1>a. \A w \in Workers : pc[w] # "idle" => pos[w] < Len(log) /\ Current(w).amount \in Int
    BY CurrentType DEF TypeOK
  <1>b. auction.highest \in Int /\ \A r \in rejects : r.amount \in Int
    BY AmountsAssumption DEF TypeOK
  <1>1. CASE \/ \E user \in Bidders, amount \in Amounts : PlaceBid(user, amount)
             \/ \E k \in DOMAIN log : ResendBid(k)
    <2>1. /\ UNCHANGED <<pos, pc, auction, rejects>>
          /\ \E m \in Messages : log' = Append(log, m)
      BY <1>1, SendAppends
    <2>2. \A w \in Workers : pc[w] # "idle" => Current(w)' = Current(w)
      BY <1>a, <2>1, CurrentStays
    <2> QED BY <1>0, <2>1, <2>2 DEF RefusalInv, RejectedForCause
  <1>2. ASSUME NEW w \in Workers, TxRead(w) PROVE RefusalInv'
    <2>1. UNCHANGED <<log, pos, auction, rejects>>
      BY <1>2 DEF TxRead
    <2>2. pc' = [pc EXCEPT ![w] = Verdict(Current(w).amount)] /\ Current(w).amount \in Int
      BY <1>2, CurrentType DEF TxRead
    <2>3. Pending(w)'
      BY <2>1, <2>2, VerdictCases DEF TypeOK, Current
    <2>4. \A v \in Workers : v # w => Pending(v)'
      BY <1>0, <2>1, <2>2 DEF TypeOK, Current
    <2> QED BY <1>0, <2>1, <2>3, <2>4 DEF RefusalInv, RejectedForCause
  <1>3. ASSUME NEW w \in Workers, TxWrite(w) PROVE RefusalInv'
    <2>1. /\ auction'.exists = auction.exists /\ auction'.isOpen = auction.isOpen
          /\ auction'.highest \in Int /\ auction.highest <= auction'.highest
      BY <1>3, WriteEffect
    <2>2. UNCHANGED <<log, pos, rejects>> /\ pc' = [pc EXCEPT ![w] = "publish"]
      BY <1>3 DEF TxWrite
    <2>3. RejectedForCause'
      BY <1>0, <1>b, <2>1, <2>2 DEF RejectedForCause
    <2>4. \A v \in Workers : Pending(v)'
      BY <1>0, <1>a, <1>b, <2>1, <2>2, SMTT(30) DEF TypeOK, Current
    <2> QED BY <2>3, <2>4 DEF RefusalInv
  <1>4. ASSUME NEW w \in Workers, PublishRejection(w) PROVE RefusalInv'
    <2>1. UNCHANGED <<log, auction>>
      BY <1>4 DEF PublishRejection
    <2>2. rejects' = rejects \cup {[req |-> Current(w).req, amount |-> Current(w).amount, code |-> pc[w]]}
      BY <1>4 DEF PublishRejection
    <2>3. RejectedForCause'
      BY <1>0, <2>1, <2>2 DEF RejectedForCause
    <2>4. \A v \in Workers : Pending(v)'
      BY <1>0, <1>4, <2>1 DEF PublishRejection, Handled, TypeOK, Current
    <2> QED BY <2>3, <2>4 DEF RefusalInv
  <1>5. ASSUME NEW c \in Admins, EndUpdate(c) PROVE RefusalInv'
    <2>1. /\ auction'.exists = auction.exists /\ ~auction'.isOpen
          /\ auction'.highest = auction.highest
      BY <1>5 DEF EndUpdate, TypeOK
    <2>2. UNCHANGED <<log, pos, pc, rejects>>
      BY <1>5 DEF EndUpdate
    <2>3. \A w \in Workers : Pending(w)'
      BY <1>0, <2>1, <2>2 DEF Current
    <2> QED BY <1>0, <2>1, <2>2, <2>3 DEF RefusalInv, RejectedForCause
  <1>6. ASSUME NEW c \in Admins, EndPublish(c) PROVE RefusalInv'
    BY <1>0, <1>6 DEF EndPublish, RefusalInv, RejectedForCause, Current
  <1>7. CASE Bystander
    <2>1. UNCHANGED <<log, auction, rejects>>
      BY <1>7 DEF Bystander
    <2>2. \A w \in Workers : Pending(w)'
      BY <1>0, <1>7 DEF Bystander, Current, Refusals
    <2> QED BY <1>0, <2>1, <2>2 DEF RefusalInv, RejectedForCause
  <1> QED BY <1>0, <1>1, <1>2, <1>3, <1>4, <1>5, <1>6, <1>7, StepCases

\* RefusalInv is an invariant.
LEMMA RefusalInvariant == ASSUME ~TxOutlivesSession PROVE SafeSpec => []RefusalInv
  <1>1. Init => RefusalInv
    BY DEF Init, RefusalInv, RejectedForCause
  <1>2. TypeOK /\ RowInv /\ RefusalInv /\ [Next]_vars => RefusalInv'
    BY RefusalStep
  <1> QED BY <1>1, <1>2, TypeCorrect, RowInvariant, PTL DEF SafeSpec

\* A refused bid stays refused for a reason that is true: nothing that happens to
\* the auction after the judgement, or after the rejection, makes it wrong.
THEOREM RefusalsStayRight == ASSUME ~TxOutlivesSession PROVE SafeSpec => []RejectedForCause
  <1>1. RefusalInv => RejectedForCause
    BY DEF RefusalInv
  <1> QED BY <1>1, RefusalInvariant, PTL

-----------------------------------------------------------------------------
(* Accepted bids ascend, and a request has one row *)

\* The log after a send: the old messages, and a new one at the end that is the
\* first copy of its request or equal to it.
LEMMA SendKeepsFirstCopies ==
  ASSUME TypeOK, FirstCopies,
         \/ \E user \in Bidders, amount \in Amounts : PlaceBid(user, amount)
         \/ \E k \in DOMAIN log : ResendBid(k)
  PROVE  /\ FirstCopies'
         /\ \A k \in DOMAIN log : k \in DOMAIN log' /\ log'[k] = log[k]
  <1>1. PICK m \in Messages : log' = Append(log, m)
    BY SendAppends
  <1>2. log \in Seq(Messages)
    BY DEF TypeOK
  <1>3. /\ DOMAIN log' = DOMAIN log \cup {Len(log) + 1}
        /\ \A k \in DOMAIN log : log'[k] = log[k]
        /\ log'[Len(log) + 1] = m
    BY <1>1, <1>2
  <1>4. m.req = Len(log) + 1 \/ \E k \in DOMAIN log : m = log[k]
    <2>1. ASSUME NEW user \in Bidders, NEW amount \in Amounts, PlaceBid(user, amount)
          PROVE  m.req = Len(log) + 1
      <3>1. log' = Append(log, [req |-> Len(log) + 1, user |-> user, amount |-> amount])
        BY <2>1 DEF PlaceBid
      <3>2. log'[Len(log) + 1] = [req |-> Len(log) + 1, user |-> user, amount |-> amount]
        BY <1>2, <3>1
      <3> QED BY <1>3, <3>2
    <2>2. ASSUME NEW k \in DOMAIN log, ResendBid(k) PROVE m = log[k]
      <3>1. log' = Append(log, log[k])
        BY <2>2 DEF ResendBid
      <3>2. log'[Len(log) + 1] = log[k]
        BY <1>2, <3>1
      <3> QED BY <1>3, <3>2
    <2> QED BY <2>1, <2>2
  <1>5. m.req \in DOMAIN log' /\ log'[m.req] = m
    BY <1>3, <1>4 DEF FirstCopies
  <1> QED BY <1>3, <1>5 DEF FirstCopies

\* A Bid row keeps its message.
LEMMA LogStep ==
  ASSUME ~TxOutlivesSession, TypeOK, RowInv, FirstCopies, RowsFromLog, [Next]_vars
  PROVE  FirstCopies' /\ RowsFromLog'
  <1> USE DEF topicVars, workerVars, dbVars, eventVars, endVars, joinVars
  <1>0. SoleWriter
    BY DEF RowInv
  <1>1. CASE \/ \E user \in Bidders, amount \in Amounts : PlaceBid(user, amount)
             \/ \E k \in DOMAIN log : ResendBid(k)
    <2>1. bids' = bids
      BY <1>1, SendAppends
    <2>2. /\ FirstCopies'
          /\ \A k \in DOMAIN log : k \in DOMAIN log' /\ log'[k] = log[k]
      BY <1>1, SendKeepsFirstCopies
    <2> QED BY <2>1, <2>2 DEF RowsFromLog
  <1>2. ASSUME NEW w \in Workers, TxWrite(w) PROVE FirstCopies' /\ RowsFromLog'
    <2> DEFINE row == [req |-> Current(w).req, user |-> Current(w).user,
                       amount |-> Stored(Current(w).amount)]
    <2>1. log' = log /\ bids' = Append(bids, row) /\ bids \in Seq(Rows)
      BY <1>2 DEF TxWrite, TypeOK
    <2>2. pos[w] + 1 \in DOMAIN log
      BY <1>2, CurrentType DEF TxWrite, TypeOK
    <2>3. row.req \in DOMAIN log /\ row.amount = Stored(log[row.req].amount)
      BY <2>2 DEF FirstCopies, Current
    <2> HIDE DEF row
    <2>4. /\ DOMAIN bids' = DOMAIN bids \cup {Len(bids) + 1}
          /\ bids'[Len(bids) + 1] = row
          /\ \A i \in DOMAIN bids : bids'[i] = bids[i]
      BY <2>1
    <2> QED BY <2>1, <2>3, <2>4 DEF FirstCopies, RowsFromLog
  <1>3. CASE UNCHANGED <<log, bids>>
    BY <1>3 DEF FirstCopies, RowsFromLog
  <1> QED
    BY <1>0, <1>1, <1>2, <1>3, StepCases
       DEF TxRead, PublishRejection, EndUpdate, EndPublish, Bystander

\* With whole cents, each accepted bid beats those before it.
LEMMA AscendStep ==
  ASSUME ~TxOutlivesSession, WholeCents, TypeOK, RowInv, BidsAscend, [Next]_vars
  PROVE  BidsAscend'
  <1> USE DEF topicVars, workerVars, dbVars, eventVars, endVars, joinVars
  <1>0. SoleWriter
    BY DEF RowInv
  <1>1. ASSUME NEW w \in Workers, TxWrite(w) PROVE BidsAscend'
    <2> DEFINE row == [req |-> Current(w).req, user |-> Current(w).user,
                       amount |-> Stored(Current(w).amount)]
    <2>1. bids' = Append(bids, row) /\ bids \in Seq(Rows)
      BY <1>1 DEF TxWrite, TypeOK
    <2>2. /\ Current(w).amount \in Int /\ Current(w).amount \in Amounts
          /\ auction.highest < Current(w).amount /\ auction.highest \in Int
      BY <1>1, WriteEffect DEF Messages
    <2>3. row.amount = Current(w).amount
      BY <2>2, StoredWhole DEF WholeCents
    <2>4. \A i \in DOMAIN bids : bids[i].amount \in Int /\ bids[i].amount <= auction.highest
      <3> SUFFICES ASSUME NEW i \in DOMAIN bids
                   PROVE  bids[i].amount \in Int /\ bids[i].amount <= auction.highest
        OBVIOUS
      <3>1. bids[i] \in Rows /\ bids # <<>>
        BY <2>1
      <3>2. bids[i].amount \in Int
        BY <3>1 DEF Rows
      <3> QED BY <3>1, <3>2 DEF RowInv, HighestIsTopBid
    <2> HIDE DEF row
    <2>5. /\ DOMAIN bids = 1 .. Len(bids) /\ Len(bids) \in Nat
          /\ DOMAIN bids' = 1 .. Len(bids) + 1
          /\ bids'[Len(bids) + 1] = row
          /\ \A i \in DOMAIN bids : bids'[i] = bids[i]
      BY <2>1
    <2>6. \A i \in DOMAIN bids : bids[i].amount < row.amount
      BY <2>2, <2>3, <2>4
    <2> SUFFICES ASSUME NEW i \in DOMAIN bids', NEW j \in DOMAIN bids', i < j
                 PROVE  bids'[i].amount < bids'[j].amount
      BY DEF BidsAscend
    <2>7. i \in DOMAIN bids /\ (j \in DOMAIN bids \/ j = Len(bids) + 1)
      BY <2>5
    <2> QED BY <2>5, <2>6, <2>7 DEF BidsAscend
  <1>2. CASE UNCHANGED bids
    BY <1>2 DEF BidsAscend
  <1> QED
    BY <1>0, <1>1, <1>2, StepCases, SendAppends
       DEF TxRead, PublishRejection, EndUpdate, EndPublish, Bystander

\* BidsInv is an invariant when all amounts are whole cents.
LEMMA BidsInvariant == ASSUME ~TxOutlivesSession, WholeCents PROVE SafeSpec => []BidsInv
  <1>1. Init => BidsAscend /\ FirstCopies /\ RowsFromLog
    BY DEF Init, BidsAscend, FirstCopies, RowsFromLog
  <1>2. TypeOK /\ RowInv /\ BidsAscend /\ FirstCopies /\ RowsFromLog /\ [Next]_vars
          => (BidsAscend /\ FirstCopies /\ RowsFromLog)'
    BY LogStep, AscendStep
  <1>3. RowInv /\ BidsAscend /\ FirstCopies /\ RowsFromLog => BidsInv
    BY DEF BidsInv
  <1> QED BY <1>1, <1>2, <1>3, TypeCorrect, RowInvariant, PTL DEF SafeSpec

\* Each accepted bid beats all bids accepted before it.
THEOREM AcceptedBidsAscend ==
  ASSUME ~TxOutlivesSession, WholeCents PROVE SafeSpec => []BidsAscend
  <1>1. BidsInv => BidsAscend
    BY DEF BidsInv
  <1> QED BY <1>1, BidsInvariant, PTL

\* Rows of one request have one amount, and rows ascend.
LEMMA OneRow == ASSUME TypeOK, BidsInv PROVE OneRowPerRequest
  <1> SUFFICES ASSUME NEW i \in DOMAIN bids, NEW j \in DOMAIN bids, bids[i].req = bids[j].req, i # j
               PROVE  FALSE
    BY DEF OneRowPerRequest
  <1>1. bids[i].amount = bids[j].amount
    BY DEF BidsInv, RowsFromLog
  <1>2. bids[i] \in Rows /\ bids[j] \in Rows /\ i \in Int /\ j \in Int
    BY DEF TypeOK
  <1>3. bids[i].amount \in Int /\ bids[j].amount \in Int
    BY <1>2 DEF Rows
  <1>4. bids[i].amount < bids[j].amount \/ bids[j].amount < bids[i].amount
    BY <1>2 DEF BidsInv, BidsAscend
  <1> QED BY <1>1, <1>3, <1>4

\* However often a bid is sent or delivered again, it is accepted at most once.
THEOREM AcceptedOnce ==
  ASSUME ~TxOutlivesSession, WholeCents PROVE SafeSpec => []OneRowPerRequest
  <1>1. TypeOK /\ BidsInv => OneRowPerRequest
    BY OneRow
  <1> QED BY <1>1, TypeCorrect, BidsInvariant, PTL

-----------------------------------------------------------------------------
(* Announcements *)

\* Closing the auction, or closing it again, does not change the number of late bids.
LEMMA CloseEffect ==
  ASSUME TypeOK, NEW c \in Admins, EndUpdate(c)
  PROVE  /\ ~auction'.isOpen /\ auction'.exists = auction.exists
         /\ auction'.highest = auction.highest /\ auction'.winner = auction.winner
         /\ ~auction.isOpen => auction' = auction
         /\ bids' = bids
         /\ LateBids' = LateBids
  <1> USE DEF topicVars, workerVars, dbVars, eventVars, endVars, joinVars
  <1>1. auction' = [auction EXCEPT !.isOpen = FALSE] /\ bids' = bids
    BY DEF EndUpdate
  <1>2. /\ ~auction'.isOpen /\ auction'.exists = auction.exists
        /\ auction'.highest = auction.highest /\ auction'.winner = auction.winner
        /\ ~auction.isOpen => auction' = auction
    BY <1>1 DEF TypeOK
  <1>3. rowsAtClose' = IF auction.isOpen THEN Len(bids) ELSE rowsAtClose
    BY DEF EndUpdate
  <1>4. Len(bids) \in Nat
    BY DEF TypeOK
  <1>5. LateBids' = LateBids
    BY <1>1, <1>2, <1>3, <1>4 DEF LateBids
  <1> QED BY <1>1, <1>2, <1>5

\* When accepted bids ascend, endAuction has no choice: the winning bid it reads is
\* the one the Auction row names.
LEMMA WinningBidIsHighest ==
  ASSUME TypeOK, BidsInv, NEW s \in WinningBids
  PROVE  s = [amount |-> auction.highest, user |-> auction.winner]
  <1>1. CASE bids = <<>>
    BY <1>1 DEF WinningBids, NoBids, BidsInv, RowInv, HighestIsTopBid
  <1>2. CASE bids # <<>>
    <2>1. PICK i \in TopRows : s = [amount |-> bids[i].amount, user |-> bids[i].user]
      BY <1>2 DEF WinningBids
    <2>2. /\ bids \in Seq(Rows) /\ i \in DOMAIN bids /\ Len(bids) \in DOMAIN bids
          /\ i <= Len(bids) /\ i \in Int /\ Len(bids) \in Int
      BY <1>2, <2>1 DEF TopRows, TypeOK
    <2>3. bids[Len(bids)].amount <= bids[i].amount
      BY <2>1, <2>2 DEF TopRows
    <2>4. i < Len(bids) => bids[i].amount < bids[Len(bids)].amount
      BY <2>2 DEF BidsInv, BidsAscend
    <2>5. bids[i] \in Rows /\ bids[Len(bids)] \in Rows
      BY <2>2
    <2>6. bids[i].amount \in Int /\ bids[Len(bids)].amount \in Int
      BY <2>5 DEF Rows
    <2>7. i = Len(bids)
      BY <2>2, <2>3, <2>4, <2>6
    <2> QED BY <1>2, <2>1, <2>7 DEF BidsInv, RowInv, HighestIsTopBid
  <1> QED BY <1>1, <1>2

\* The effect of an accepted bid on the number of late bids.
LEMMA LateEffect ==
  ASSUME TypeOK, RowInv, LateInv, NEW w \in Workers, TxWrite(w)
  PROVE  LateBids = 0 /\ LateBids' = (IF auction.isOpen THEN 0 ELSE 1)
  <1> USE DEF topicVars, workerVars, dbVars, eventVars, endVars, joinVars
  <1> DEFINE row == [req |-> Current(w).req, user |-> Current(w).user,
                     amount |-> Stored(Current(w).amount)]
  <1>1. bids' = Append(bids, row) /\ auction'.isOpen = auction.isOpen
    BY WriteEffect
  <1>2. bids \in Seq(Rows) /\ rowsAtClose \in Int /\ rowsAtClose' = rowsAtClose
    BY DEF TxWrite, TypeOK
  <1>3. LateBids = 0
    BY DEF TxWrite, LateInv
  <1> HIDE DEF row
  <1>4. Len(bids') = Len(bids) + 1
    BY <1>1, <1>2
  <1> QED BY <1>1, <1>2, <1>3, <1>4 DEF LateBids

\* A step that leaves the rows, the announcements and the summaries alone, and takes
\* no call beyond its update, keeps SummaryInv.
LEMMA SummaryFrame ==
  ASSUME SummaryInv, UNCHANGED <<auction, bids, rowsAtClose, endings, summary>>,
         \A c \in Admins : endPc'[c] \in Closing => endPc[c] \in Closing
  PROVE  SummaryInv'
  BY DEF SummaryInv, AnnouncementStands, LateBids

\* SummaryInv is kept by every step.
LEMMA SummaryStep ==
  ASSUME ~TxOutlivesSession, TypeOK, BidsInv, LateInv, SummaryInv, [Next]_vars
  PROVE  SummaryInv'
  <1> USE DEF topicVars, workerVars, dbVars, eventVars, endVars, joinVars
  <1>0. SoleWriter /\ RowInv
    BY DEF BidsInv, RowInv
  <1>1. CASE \/ \E user \in Bidders, amount \in Amounts : PlaceBid(user, amount)
             \/ \E k \in DOMAIN log : ResendBid(k)
    <2>1. UNCHANGED <<auction, bids, rowsAtClose, endings, endPc, summary>>
      BY <1>1, SendAppends
    <2> QED BY <2>1, SummaryFrame
  <1>2. ASSUME NEW w \in Workers, TxRead(w) PROVE SummaryInv'
    BY <1>2, SummaryFrame DEF TxRead
  <1>3. ASSUME NEW w \in Workers, TxWrite(w) PROVE SummaryInv'
    <2>1. auction'.isOpen = auction.isOpen
      BY <1>0, <1>3, WriteEffect
    <2>2. LateBids' = IF auction.isOpen THEN 0 ELSE 1
      BY <1>0, <1>3, LateEffect
    <2>3. UNCHANGED <<endPc, summary, endings>>
      BY <1>3 DEF TxWrite
    <2> QED BY <2>1, <2>2, <2>3 DEF SummaryInv, AnnouncementStands
  <1>4. ASSUME NEW w \in Workers, PublishRejection(w) PROVE SummaryInv'
    BY <1>4, SummaryFrame DEF PublishRejection
  <1>5. ASSUME NEW c \in Admins, EndUpdate(c) PROVE SummaryInv'
    <2>1. /\ ~auction'.isOpen
          /\ auction'.highest = auction.highest /\ auction'.winner = auction.winner
          /\ LateBids' = LateBids
      BY <1>5, CloseEffect
    <2>2. PICK s \in WinningBids : summary' = [summary EXCEPT ![c] = s]
      BY <1>5 DEF EndUpdate
    <2>3. s = [amount |-> auction.highest, user |-> auction.winner]
      BY WinningBidIsHighest
    <2>4. endings' = endings /\ endPc' = [endPc EXCEPT ![c] = "publish"]
      BY <1>5 DEF EndUpdate
    <2>5. summary \in [Admins -> Summaries] /\ endPc \in [Admins -> {"start", "update", "publish", "cache", "done", "failed"}]
      BY DEF TypeOK
    <2>6. ASSUME NEW d \in Admins, endPc'[d] \in Closing, LateBids' = 0
          PROVE  summary'[d] = [amount |-> auction'.highest, user |-> auction'.winner]
      <3>1. CASE d = c
        BY <2>1, <2>2, <2>3, <2>5, <3>1
      <3>2. CASE d # c
        <4>1. endPc[d] \in Closing /\ summary'[d] = summary[d]
          BY <2>2, <2>4, <2>5, <2>6, <3>2
        <4> QED BY <2>1, <2>6, <4>1 DEF SummaryInv
      <3> QED BY <3>1, <3>2
    <2>7. AnnouncementStands'
      BY <2>1, <2>4 DEF SummaryInv, AnnouncementStands
    <2> QED BY <2>1, <2>6, <2>7 DEF SummaryInv
  <1>6. ASSUME NEW c \in Admins, EndPublish(c) PROVE SummaryInv'
    <2>1. UNCHANGED <<auction, bids, rowsAtClose, summary>>
      BY <1>6 DEF EndPublish
    <2>2. endings' = endings \cup {[call |-> c, amount |-> summary[c].amount, user |-> summary[c].user]}
      BY <1>6 DEF EndPublish
    <2>3. endPc[c] \in Closing /\ \A d \in Admins : endPc'[d] \in Closing => endPc[d] \in Closing
      BY <1>6 DEF EndPublish, Closing, TypeOK
    <2>4. LateBids' = LateBids
      BY <2>1 DEF LateBids
    <2>5. AnnouncementStands'
      BY <2>1, <2>2, <2>3, <2>4 DEF SummaryInv, AnnouncementStands
    <2> QED BY <2>1, <2>3, <2>4, <2>5 DEF SummaryInv
  <1>7. CASE Bystander
    BY <1>7, SummaryFrame DEF Bystander
  <1> QED BY <1>0, <1>1, <1>2, <1>3, <1>4, <1>5, <1>6, <1>7, StepCases

\* SummaryInv is an invariant when all amounts are whole cents.
LEMMA SummaryInvariant == ASSUME ~TxOutlivesSession, WholeCents PROVE SafeSpec => []SummaryInv
  <1>1. Init => SummaryInv
    BY DEF Init, SummaryInv, AnnouncementStands, Closing
  <1>2. TypeOK /\ BidsInv /\ LateInv /\ SummaryInv /\ [Next]_vars => SummaryInv'
    BY SummaryStep
  <1> QED BY <1>1, <1>2, TypeCorrect, BidsInvariant, LateInvariant, PTL DEF SafeSpec

\* Every auctionEnd event, of however many concurrent calls of endAuction, names the
\* winner of record, unless a late bid has changed that winner.
THEOREM AnnouncementsStand ==
  ASSUME ~TxOutlivesSession, WholeCents PROVE SafeSpec => []AnnouncementStands
  <1>1. SummaryInv => AnnouncementStands
    BY DEF SummaryInv
  <1> QED BY <1>1, SummaryInvariant, PTL

\* The invariant all of the above rests on, as the run bidding_group checks it.
THEOREM InvariantHolds == ASSUME ~TxOutlivesSession, WholeCents PROVE SafeSpec => []IInv
  <1>1. BidsInv /\ LateInv /\ SummaryInv /\ RefusalInv => IInv
    BY DEF IInv
  <1> QED BY <1>1, BidsInvariant, LateInvariant, SummaryInvariant, RefusalInvariant, PTL

-----------------------------------------------------------------------------
(* Refinement *)

\* Every step of the pipeline is a step of the ascending auction or a stutter.
LEMMA AscendingStep ==
  ASSUME ~TxOutlivesSession, WholeCents, TypeOK, RowInv, LateInv, [Next]_vars
  PROVE  [Ascending!Next]_(Ascending!vars)
  <1> USE DEF topicVars, workerVars, dbVars, eventVars, endVars, joinVars
  <1>0. SoleWriter
    BY DEF RowInv
  <1>1. ASSUME NEW w \in Workers, TxWrite(w) PROVE Ascending!Next
    <2> DEFINE user == Current(w).user
               amount == Stored(Current(w).amount)
    <2>1. /\ Current(w) \in Messages /\ Current(w).amount \in Int
          /\ auction'.isOpen = auction.isOpen
          /\ auction'.highest = amount /\ auction'.winner = user
          /\ auction.highest \in Int /\ auction.highest < Current(w).amount
      BY <1>1, WriteEffect
    <2>2. user \in Bidders /\ Current(w).amount \in Amounts
      BY <2>1 DEF Messages
    <2>3. amount > auction.highest
      BY <2>1, <2>2, StoredWhole DEF WholeCents
    <2>4. amount \in {Stored(a) : a \in Amounts}
      BY <2>2
    <2>5. LateBids = 0 /\ LateBids' = (IF auction.isOpen THEN 0 ELSE 1)
      BY <1>1, LateEffect
    <2> HIDE DEF user, amount
    <2>6. CASE auction.isOpen
      <3>1. Ascending!Accept(user, amount)
        BY <2>1, <2>3, <2>5, <2>6 DEF Ascending!Accept, Ascending!Beat
      <3> QED BY <2>2, <2>4, <3>1 DEF Ascending!Next
    <2>7. CASE ~auction.isOpen
      <3>1. Ascending!AcceptLate(user, amount)
        BY <2>1, <2>3, <2>5, <2>7 DEF Ascending!AcceptLate, Ascending!Beat
      <3> QED BY <2>2, <2>4, <3>1 DEF Ascending!Next
    <2> QED BY <2>6, <2>7
  <1>2. ASSUME NEW c \in Admins, EndUpdate(c) PROVE [Ascending!Next]_(Ascending!vars)
    <2>1. CASE auction.isOpen
      BY <1>2, <2>1, CloseEffect DEF Ascending!Next, Ascending!Close
    <2>2. CASE ~auction.isOpen
      BY <1>2, <2>2, CloseEffect DEF Ascending!vars
    <2> QED BY <2>1, <2>2
  <1>3. CASE UNCHANGED <<auction, bids, rowsAtClose>>
    BY <1>3 DEF Ascending!vars, LateBids
  <1> QED
    BY <1>0, <1>1, <1>2, <1>3, StepCases, SendAppends
       DEF TxRead, PublishRejection, EndPublish, Bystander

\* The pipeline implements an ascending auction with at most one late bid, when
\* amounts are whole cents and no transaction outlives its consumer's session.
THEOREM ImplementsAscending ==
  ASSUME ~TxOutlivesSession, WholeCents PROVE SafeSpec => KeepsAscending
  <1>1. Init => Ascending!Init
    BY DEF Init, Ascending!Init, LateBids
  <1>2. TypeOK /\ RowInv /\ LateInv /\ [Next]_vars => [Ascending!Next]_(Ascending!vars)
    BY AscendingStep
  <1> QED
    BY <1>1, <1>2, TypeCorrect, RowInvariant, LateInvariant, PTL
       DEF SafeSpec, KeepsAscending, Ascending!Spec

-----------------------------------------------------------------------------
(* The steps, by what they do to one consumer, to one call and to the rows *)

\* The partition keeps its messages.
LEMMA LogGrows ==
  ASSUME TypeOK, [Next]_vars
  PROVE  log' = log \/ \E m \in Messages : log' = Append(log, m)
  <1>1. CASE \/ \E user \in Bidders, amount \in Amounts : PlaceBid(user, amount)
             \/ \E k \in DOMAIN log : ResendBid(k)
    BY <1>1, SendAppends
  <1>2. CASE ~\/ \E user \in Bidders, amount \in Amounts : PlaceBid(user, amount)
              \/ \E k \in DOMAIN log : ResendBid(k)
    BY <1>2 DEF Next, vars, topicVars, Assign, CommitOffset, SessionTimeout, Crash, HandlerThrows, PlaceBidStep,
         TxRead, TxWrite, TxOverflow, PublishNewBid, CacheNewBid, PublishRejection, EndRead, EndDies,
         EndAuctionStep, EndUpdate, EndPublish, EndCache, CacheLookup, DbLookup, CacheFill, CacheExpire
  <1> QED BY <1>1, <1>2

\* A consumer takes a message up, accepts it and announces it; as long as it is at work on a
\* message, it is the same one.
LEMMA WorkerStep ==
  ASSUME TypeOK, [Next]_vars, NEW w \in Workers, pc'[w] # "idle"
  PROVE  /\ pc[w] = "idle" => TxRead(w)
         /\ pc[w] # "idle" => Current(w)' = Current(w)
         /\ pc'[w] = "publish" => pc[w] = "publish" \/ TxWrite(w)
         /\ pc'[w] = "cache" => pc[w] = "cache" \/ PublishNewBid(w)
  <1> USE DEF topicVars, workerVars
  <1>0. /\ pc \in [Workers -> {"idle", "write", "publish", "cache"} \cup Refusals]
        /\ pos \in [Workers -> 0 .. Len(log)]
        /\ pc[w] # "idle" => pos[w] < Len(log)
    BY DEF TypeOK
  <1>1. ASSUME NEW v \in Workers, TxRead(v)
        PROVE  /\ pos' = pos /\ (v # w => pc'[w] = pc[w]) /\ pc[v] = "idle"
               /\ pc'[v] \notin {"publish", "cache"}
    <2>1. Current(v).amount \in Int
      BY <1>1, CurrentType DEF TxRead
    <2>2. pc'[v] \in {"write"} \cup Refusals
      BY <1>0, <1>1, <2>1, VerdictCases DEF TxRead, TypeOK
    <2> QED BY <1>0, <1>1, <2>2 DEF TxRead, Refusals
  <1>2. ASSUME NEW v \in Workers, TxWrite(v) \/ PublishNewBid(v)
        PROVE  pos' = pos /\ pc[v] # "idle" /\ (v # w => pc'[w] = pc[w])
               /\ (TxWrite(v) => pc'[v] = "publish") /\ (PublishNewBid(v) => pc'[v] = "cache")
    BY <1>0, <1>2 DEF TxWrite, PublishNewBid
  <1>3. ASSUME NEW v \in Workers,
               Crash(v) \/ HandlerThrows(v) \/ TxOverflow(v) \/ CacheNewBid(v) \/ PublishRejection(v)
        PROVE  v # w /\ pc'[w] = pc[w] /\ pos'[w] = pos[w]
    BY <1>0, <1>3 DEF Crash, HandlerThrows, TxOverflow, CacheNewBid, PublishRejection, Handled
  <1>4. ASSUME NEW v \in Workers, Assign(v)
        PROVE  pc' = pc /\ (pc[w] # "idle" => pos'[w] = pos[w])
    BY <1>0, <1>4 DEF Assign
  <1>5. CASE UNCHANGED <<pc, pos>>
    BY <1>0, <1>5, LogGrows, CurrentStays
  <1>6. CASE ~UNCHANGED <<pc, pos>>
    <2>1. PICK v \in Workers : \/ TxRead(v) \/ TxWrite(v) \/ PublishNewBid(v) \/ Assign(v)
                               \/ Crash(v) \/ HandlerThrows(v) \/ TxOverflow(v) \/ CacheNewBid(v)
                               \/ PublishRejection(v)
      BY <1>6 DEF Next, vars, PlaceBid, ResendBid, CommitOffset, SessionTimeout, PlaceBidStep,
           EndRead, EndDies, EndAuctionStep, EndUpdate, EndPublish, EndCache, CacheLookup, DbLookup,
           CacheFill, CacheExpire
    <2>2. pc[w] # "idle" => Current(w)' = Current(w)
      <3>1. pc[w] # "idle" => pos'[w] = pos[w]
        BY <1>1, <1>2, <1>3, <1>4, <2>1
      <3> QED BY <1>0, <3>1, LogGrows, CurrentStays
    <2> QED BY <1>1, <1>2, <1>3, <1>4, <2>1, <2>2
  <1> QED BY <1>5, <1>6

\* Bid rows stay, and a closed auction stays closed.
LEMMA RowsStay ==
  ASSUME TypeOK, [Next]_vars
  PROVE  /\ \A i \in DOMAIN bids : i \in DOMAIN bids' /\ bids'[i] = bids[i]
         /\ auction'.isOpen => auction.isOpen
         /\ UNCHANGED <<auction, bids>> \/ (\E w \in Workers : TxWrite(w)) \/ (\E c \in Admins : EndUpdate(c))
  <1> USE DEF dbVars
  <1>1. ASSUME NEW w \in Workers, TxWrite(w)
        PROVE  /\ \A i \in DOMAIN bids : i \in DOMAIN bids' /\ bids'[i] = bids[i]
               /\ auction'.isOpen = auction.isOpen
    <2> DEFINE row == [req |-> Current(w).req, user |-> Current(w).user,
                       amount |-> Stored(Current(w).amount)]
    <2>1. bids' = Append(bids, row) /\ bids \in Seq(Rows)
      BY <1>1 DEF TxWrite, TypeOK
    <2>2. auction'.isOpen = auction.isOpen
      BY <1>1 DEF TxWrite, RowAfterBid, TypeOK
    <2> HIDE DEF row
    <2> QED BY <2>1, <2>2
  <1>2. ASSUME NEW c \in Admins, EndUpdate(c) PROVE bids' = bids /\ ~auction'.isOpen
    BY <1>2 DEF EndUpdate, TypeOK
  <1>3. UNCHANGED <<auction, bids>> \/ (\E w \in Workers : TxWrite(w)) \/ (\E c \in Admins : EndUpdate(c))
    BY DEF Next, vars, PlaceBid, ResendBid, Assign, CommitOffset, SessionTimeout, Crash, HandlerThrows,
         PlaceBidStep, TxRead, TxOverflow, PublishNewBid, CacheNewBid, PublishRejection, EndRead, EndDies,
         EndAuctionStep, EndPublish, EndCache, CacheLookup, DbLookup, CacheFill, CacheExpire
  <1> QED BY <1>1, <1>2, <1>3

\* A call of endAuction that has its summary has read it, or has it still.
LEMMA CloserStep ==
  ASSUME TypeOK, [Next]_vars, NEW c \in Admins, endPc'[c] \in Closing
  PROVE  EndUpdate(c) \/ (endPc[c] \in Closing /\ summary'[c] = summary[c])
  <1> USE DEF endVars, Closing
  <1>0. endPc \in [Admins -> {"start", "update", "publish", "cache", "done", "failed"}]
        /\ summary \in [Admins -> Summaries]
    BY DEF TypeOK
  <1>1. ASSUME NEW d \in Admins, EndUpdate(d), d # c PROVE endPc'[c] = endPc[c] /\ summary'[c] = summary[c]
    BY <1>0, <1>1 DEF EndUpdate
  <1>2. ASSUME NEW d \in Admins, EndRead(d) \/ EndPublish(d) \/ EndCache(d) \/ EndDies(d)
        PROVE  endPc[c] \in Closing /\ summary' = summary
    BY <1>0, <1>2 DEF EndRead, AfterEndRead, EndPublish, EndCache, EndDies
  <1>3. CASE UNCHANGED <<endPc, summary>>
    BY <1>3
  <1>4. CASE ~UNCHANGED <<endPc, summary>>
    <2>1. \E d \in Admins : EndUpdate(d) \/ EndRead(d) \/ EndPublish(d) \/ EndCache(d) \/ EndDies(d)
      BY <1>4 DEF Next, vars, PlaceBid, ResendBid, Assign, CommitOffset, SessionTimeout, Crash, HandlerThrows,
           PlaceBidStep, TxRead, TxWrite, TxOverflow, PublishNewBid, CacheNewBid, PublishRejection,
           EndAuctionStep, CacheLookup, DbLookup, CacheFill, CacheExpire
    <2> QED BY <1>1, <1>2, <2>1
  <1> QED BY <1>3, <1>4

-----------------------------------------------------------------------------
(* The cache shows rows *)

\* Amount h and bidder u are those of a Bid row, or there is no bid to show.
Shows(h, u) ==
  \/ h = 0 /\ u = None
  \/ \E i \in DOMAIN bids : h = bids[i].amount /\ u = bids[i].user

\* A state that may be cached: it shows a row, and says closed only of a closed auction.
RoomSound(r) == Shows(r.highest, r.winner) /\ (r.isOpen \/ ~auction.isOpen)

\* All that the cache may be filled from shows rows.
CacheInv ==
  /\ Shows(auction.highest, auction.winner)
  /\ \A w \in Workers : pc[w] \in {"publish", "cache"} => Shows(Current(w).amount, Current(w).user)
  /\ \A c \in Admins : endPc[c] \in Closing =>
       ~auction.isOpen /\ Shows(summary[c].amount, summary[c].user)
  /\ \A j \in Joiners : loaded[j] # None => RoomSound(loaded[j])
  /\ cache # None => RoomSound(cache)

\* What shows a row goes on to show one.
LEMMA ShowsStays ==
  ASSUME TypeOK, [Next]_vars, NEW h, NEW u, Shows(h, u)
  PROVE  Shows(h, u)'
  BY RowsStay DEF Shows

LEMMA RoomSoundStays ==
  ASSUME TypeOK, [Next]_vars, NEW r, RoomSound(r)
  PROVE  RoomSound(r)'
  <1>1. Shows(r.highest, r.winner)'
    BY ShowsStays DEF RoomSound
  <1> QED BY <1>1, RowsStay DEF RoomSound

\* A bid of whole cents that is accepted is shown by its row, and by the Auction row.
LEMMA WriteShows ==
  ASSUME WholeCents, TypeOK, NEW w \in Workers, TxWrite(w)
  PROVE  Shows(Current(w).amount, Current(w).user)' /\ Shows(auction.highest, auction.winner)'
  <1> DEFINE row == [req |-> Current(w).req, user |-> Current(w).user,
                     amount |-> Stored(Current(w).amount)]
  <1>1. Current(w) \in Messages /\ Current(w).amount \in Int /\ Current(w).amount \in Amounts
    BY CurrentType DEF TxWrite, TypeOK, Messages
  <1>2. Stored(Current(w).amount) = Current(w).amount
    BY <1>1, StoredWhole DEF WholeCents
  <1>3. bids' = Append(bids, row) /\ bids \in Seq(Rows)
    BY DEF TxWrite, TypeOK
  <1>4. row.amount = Current(w).amount /\ row.user = Current(w).user
    BY <1>2
  <1>5. Len(bids) + 1 \in DOMAIN bids' /\ bids'[Len(bids) + 1] = row
    <2> HIDE DEF row
    <2> QED BY <1>3
  <1>6. Current(w)' = Current(w)
    BY DEF TxWrite, topicVars, Current
  <1>7. auction'.highest = Current(w).amount /\ auction'.winner = Current(w).user
    BY <1>2 DEF TxWrite, RowAfterBid, TypeOK
  <1> QED BY <1>4, <1>5, <1>6, <1>7 DEF Shows

\* The winning bid that endAuction reads is a row.
LEMMA SummaryShows ==
  ASSUME NEW s \in WinningBids
  PROVE  Shows(s.amount, s.user)
  <1>1. CASE bids = <<>>
    BY <1>1 DEF WinningBids, NoBids, Shows
  <1>2. CASE bids # <<>>
    BY <1>2 DEF WinningBids, TopRows, Shows
  <1> QED BY <1>1, <1>2

\* What a joiner holds, it holds still, or has just read from the cache or from the row.
LEMMA JoinerStep ==
  ASSUME TypeOK, CacheInv, [Next]_vars, NEW j \in Joiners, loaded'[j] # None
  PROVE  RoomSound(loaded'[j])
  <1>0. loaded \in [Joiners -> Rooms \cup {None}]
    BY DEF TypeOK
  <1>1. ASSUME NEW i \in Joiners, CacheLookup(i), loaded'[j] # loaded[j]
        PROVE  loaded'[j] = cache
    BY <1>0, <1>1 DEF CacheLookup
  <1>2. ASSUME NEW i \in Joiners, DbLookup(i), loaded'[j] # loaded[j]
        PROVE  loaded'[j] = LoadedRoom
    BY <1>0, <1>2 DEF DbLookup
  <1>3. loaded'[j] = loaded[j] \/ loaded'[j] = cache \/ loaded'[j] = LoadedRoom
    <2>1. UNCHANGED loaded \/ \E i \in Joiners : CacheLookup(i) \/ DbLookup(i)
      BY DEF Next, vars, joinVars, PlaceBid, ResendBid, Assign, CommitOffset, SessionTimeout, Crash,
           HandlerThrows, PlaceBidStep, TxRead, TxWrite, TxOverflow, PublishNewBid, CacheNewBid,
           PublishRejection, EndRead, EndDies, EndAuctionStep, EndUpdate, EndPublish, EndCache, CacheFill,
           CacheExpire
    <2> QED BY <1>1, <1>2, <2>1
  <1>4. RoomSound(LoadedRoom)
    BY DEF RoomSound, LoadedRoom, CacheInv, TypeOK
  <1> QED BY <1>3, <1>4 DEF CacheInv

\* CacheInv is kept by every step.
LEMMA CacheStep ==
  ASSUME WholeCents, TypeOK, CacheInv, [Next]_vars
  PROVE  CacheInv'
  <1>1. Shows(auction.highest, auction.winner)'
    <2>1. ASSUME NEW c \in Admins, EndUpdate(c)
          PROVE  auction'.highest = auction.highest /\ auction'.winner = auction.winner
      BY <2>1 DEF EndUpdate, TypeOK
    <2>2. ASSUME auction'.highest = auction.highest, auction'.winner = auction.winner
          PROVE  Shows(auction.highest, auction.winner)'
      <3>1. PICK h, u : h = auction.highest /\ u = auction.winner
        OBVIOUS
      <3>2. Shows(h, u)'
        BY <3>1, ShowsStays DEF CacheInv
      <3> QED BY <2>2, <3>1, <3>2 DEF Shows
    <2> QED BY <2>1, <2>2, RowsStay, WriteShows
  <1>2. ASSUME NEW w \in Workers, pc'[w] \in {"publish", "cache"}
        PROVE  Shows(Current(w).amount, Current(w).user)'
    <2>1. CASE pc[w] \in {"publish", "cache"}
      <3>1. PICK m : m = Current(w)
        OBVIOUS
      <3>2. Current(w)' = m
        BY <1>2, <2>1, <3>1, WorkerStep
      <3>3. Shows(m.amount, m.user)'
        BY <2>1, <3>1, ShowsStays DEF CacheInv
      <3> QED BY <3>2, <3>3 DEF Shows
    <2>2. CASE pc[w] \notin {"publish", "cache"}
      <3>1. TxWrite(w)
        BY <1>2, <2>2, WorkerStep DEF PublishNewBid
      <3> QED BY <3>1, WriteShows
    <2> QED BY <2>1, <2>2
  <1>3. ASSUME NEW c \in Admins, endPc'[c] \in Closing
        PROVE  ~auction'.isOpen /\ Shows(summary[c].amount, summary[c].user)'
    <2>1. CASE endPc[c] \in Closing /\ summary'[c] = summary[c]
      <3>1. PICK s : s = summary[c]
        OBVIOUS
      <3>2. Shows(s.amount, s.user)' /\ ~auction'.isOpen
        BY <2>1, <3>1, ShowsStays, RowsStay DEF CacheInv
      <3> QED BY <2>1, <3>1, <3>2 DEF Shows
    <2>2. CASE EndUpdate(c)
      <3>1. PICK s \in WinningBids : summary' = [summary EXCEPT ![c] = s]
        BY <2>2 DEF EndUpdate
      <3>2. Shows(s.amount, s.user)'
        BY SummaryShows, ShowsStays
      <3>3. summary'[c] = s /\ ~auction'.isOpen
        BY <2>2, <3>1 DEF EndUpdate, TypeOK
      <3> QED BY <3>2, <3>3 DEF Shows
    <2> QED BY <1>3, <2>1, <2>2, CloserStep
  <1>4. ASSUME NEW j \in Joiners, loaded'[j] # None PROVE RoomSound(loaded[j])'
    <2>1. PICK r : r = loaded'[j]
      OBVIOUS
    <2>2. RoomSound(r)'
      BY <1>4, <2>1, JoinerStep, RoomSoundStays
    <2> QED BY <2>1, <2>2 DEF RoomSound, Shows
  <1>5. ASSUME cache' # None PROVE RoomSound(cache)'
    <2>1. PICK r : r = cache'
      OBVIOUS
    <2>2. RoomSound(r)
      <3>1. CASE cache' = cache
        BY <1>5, <2>1, <3>1 DEF CacheInv
      <3>2. ASSUME NEW w \in Workers, CacheNewBid(w) PROVE RoomSound(r)
        <4>1. pc[w] = "cache" /\ r = RoomAfterBid(Current(w))
          BY <2>1, <3>2 DEF CacheNewBid
        <4> QED BY <4>1 DEF CacheInv, RoomAfterBid, RoomSound
      <3>3. ASSUME NEW c \in Admins, EndCache(c) PROVE RoomSound(r)
        <4>1. endPc[c] \in Closing /\ r = ClosedRoom(summary[c])
          BY <2>1, <3>3 DEF EndCache, Closing
        <4> QED BY <4>1 DEF CacheInv, ClosedRoom, RoomSound
      <3>4. ASSUME NEW j \in Joiners, CacheFill(j) PROVE RoomSound(r)
        BY <1>5, <2>1, <3>4 DEF CacheFill, CacheInv
      <3>5. \/ cache' = cache \/ cache' = None
            \/ \E w \in Workers : CacheNewBid(w)
            \/ \E c \in Admins : EndCache(c)
            \/ \E j \in Joiners : CacheFill(j)
        BY DEF Next, vars, PlaceBid, ResendBid, Assign, CommitOffset, SessionTimeout, Crash,
             HandlerThrows, PlaceBidStep, TxRead, TxWrite, TxOverflow, PublishNewBid,
             PublishRejection, EndRead, EndDies, EndAuctionStep, EndUpdate, EndPublish, CacheLookup,
             DbLookup, CacheExpire
      <3> QED BY <1>5, <3>1, <3>2, <3>3, <3>4, <3>5
    <2>3. RoomSound(r)'
      BY <2>2, RoomSoundStays
    <2> QED BY <2>1, <2>3 DEF RoomSound, Shows
  <1> QED BY <1>1, <1>2, <1>3, <1>4, <1>5 DEF CacheInv

\* Initially there is nothing to show, and no bid is shown.
LEMMA CacheInit == Init => CacheInv
  BY DEF Init, CacheInv, Shows, Closing

\* The cache shows a Bid row or none, and says closed only of a closed auction: whatever
\* consumers, calls of endAuction and joins overlap, and also when a transaction outlives
\* its consumer's session.
THEOREM CacheShowsRows == ASSUME WholeCents PROVE SafeSpec => []CacheShowsARow
  <1>1. TypeOK /\ CacheInv /\ [Next]_vars => CacheInv'
    BY CacheStep
  <1>2. CacheInv => CacheShowsARow
    BY DEF CacheInv, RoomSound, Shows, CacheShowsARow
  <1> QED BY <1>1, <1>2, CacheInit, TypeCorrect, PTL DEF SafeSpec

-----------------------------------------------------------------------------
(* The order of the announcements *)

\* One consumer takes the bids.
OneConsumer == \A v, w \in Workers : v = w

\* Message m is that of a Bid row.
HasRow(m) == \E i \in DOMAIN bids : bids[i].req = m.req /\ bids[i].amount = m.amount /\ bids[i].user = m.user

\* What was announced was accepted.  The consumer that is to announce the highest bid
\* announces more than anybody has, or will before it; the one that is to announce as the
\* owner of the partition, or as the only consumer there is, announces the highest.
PublishInv ==
  /\ auction.highest >= 0
  /\ \A n \in newBids : HasRow(n) /\ 0 < n.amount /\ n.amount <= auction.highest
  /\ \A w \in Workers : pc[w] = "publish" =>
       /\ HasRow(Current(w)) /\ 0 < Current(w).amount /\ Current(w).amount <= auction.highest
       /\ owner = w \/ OneConsumer => Current(w).amount = auction.highest
       /\ Current(w).amount = auction.highest =>
            /\ \A n \in newBids : n.amount < Current(w).amount
            /\ \A v \in Workers \ {w} : pc[v] = "publish" => Current(v).amount < Current(w).amount

LEMMA HasRowStays ==
  ASSUME TypeOK, [Next]_vars, NEW m, HasRow(m)
  PROVE  HasRow(m)'
  BY RowsStay DEF HasRow

\* An accepted bid of whole cents has its row, and is the highest, above all before.
LEMMA WritePublishes ==
  ASSUME WholeCents, TypeOK, RowInv, PublishInv, NEW w \in Workers, TxWrite(w)
  PROVE  /\ HasRow(Current(w))' /\ Current(w)' = Current(w)
         /\ auction'.highest = Current(w).amount /\ Current(w).amount \in Int
         /\ auction.highest < Current(w).amount /\ auction.highest \in Int
         /\ newBids' = newBids /\ pc' = [pc EXCEPT ![w] = "publish"] /\ owner' = owner /\ owner = w
         /\ pc[w] = "write"
  <1> USE DEF topicVars, workerVars, eventVars
  <1> DEFINE row == [req |-> Current(w).req, user |-> Current(w).user,
                     amount |-> Stored(Current(w).amount)]
  <1>1. /\ Current(w) \in Messages /\ Current(w).amount \in Int
        /\ auction'.highest = Stored(Current(w).amount)
        /\ auction.highest \in Int /\ auction.highest < Current(w).amount
        /\ bids' = Append(bids, row)
    BY WriteEffect
  <1>2. Current(w).amount \in Amounts
    BY <1>1 DEF Messages
  <1>3. Stored(Current(w).amount) = Current(w).amount
    BY <1>1, <1>2, StoredWhole DEF WholeCents
  <1>4. row.req = Current(w).req /\ row.amount = Current(w).amount /\ row.user = Current(w).user
    BY <1>3
  <1>5. Len(bids) + 1 \in DOMAIN bids' /\ bids'[Len(bids) + 1] = row
    <2>1. bids \in Seq(Rows)
      BY DEF TypeOK
    <2> HIDE DEF row
    <2> QED BY <1>1, <2>1
  <1>6. Current(w)' = Current(w)
    BY DEF TxWrite, Current
  <1>7. HasRow(Current(w))'
    BY <1>4, <1>5, <1>6 DEF HasRow
  <1> QED BY <1>1, <1>3, <1>6, <1>7 DEF TxWrite, RowInv, SoleWriter

\* A step that accepts and announces nothing and hands the partition to no announcer keeps
\* PublishInv.
LEMMA PublishFrame ==
  ASSUME TypeOK, PublishInv, [Next]_vars,
         newBids' = newBids, auction'.highest = auction.highest,
         \A w \in Workers : pc'[w] = "publish" => pc[w] = "publish" /\ (owner' = w => owner = w)
  PROVE  PublishInv'
  <1>1. \A w \in Workers : pc'[w] = "publish" => Current(w)' = Current(w)
    BY WorkerStep
  <1>2. \A n \in newBids : HasRow(n)'
    BY HasRowStays DEF PublishInv
  <1>3. ASSUME NEW w \in Workers, pc'[w] = "publish" PROVE HasRow(Current(w))'
    <2>1. PICK m : m = Current(w)
      OBVIOUS
    <2>2. HasRow(m)' /\ Current(w)' = m
      BY <1>1, <1>3, <2>1, HasRowStays DEF PublishInv
    <2> QED BY <2>2 DEF HasRow
  <1> QED BY <1>1, <1>2, <1>3 DEF PublishInv

\* PublishInv is kept by every step.
LEMMA PublishStep ==
  ASSUME WholeCents, TypeOK, RowInv, PublishInv, [Next]_vars
  PROVE  PublishInv'
  <1> USE DEF topicVars, workerVars, dbVars, eventVars
  <1>0. /\ pc \in [Workers -> {"idle", "write", "publish", "cache"} \cup Refusals]
        /\ auction.highest \in Int
        /\ \A w \in Workers : pc[w] # "idle" => Current(w).amount \in Int
        /\ \A n \in newBids : n.amount \in Int
    BY AmountsAssumption, CurrentType DEF TypeOK, Messages
  <1>1. ASSUME NEW w \in Workers, TxWrite(w) PROVE PublishInv'
    <2>1. /\ HasRow(Current(w))' /\ Current(w)' = Current(w)
          /\ auction'.highest = Current(w).amount /\ Current(w).amount \in Int
          /\ auction.highest < Current(w).amount
          /\ newBids' = newBids /\ pc' = [pc EXCEPT ![w] = "publish"] /\ owner' = owner /\ owner = w
          /\ pc[w] = "write"
      BY <1>1, WritePublishes
    <2>2. auction'.highest >= 0 /\ 0 < Current(w).amount
      BY <1>0, <2>1 DEF PublishInv
    <2>3. ASSUME NEW n \in newBids PROVE HasRow(n)' /\ 0 < n.amount /\ n.amount < auction'.highest
      <3>1. HasRow(n)'
        BY HasRowStays DEF PublishInv
      <3>2. n.amount <= auction.highest /\ 0 < n.amount
        BY DEF PublishInv
      <3> QED BY <1>0, <2>1, <3>1, <3>2
    <2>4. ASSUME NEW v \in Workers, v # w, pc'[v] = "publish"
          PROVE  /\ HasRow(Current(v))' /\ Current(v)' = Current(v) /\ Current(v).amount \in Int
                 /\ 0 < Current(v).amount /\ Current(v).amount < auction'.highest
      <3>1. pc[v] = "publish" /\ Current(v)' = Current(v)
        BY <1>0, <2>1, <2>4, WorkerStep
      <3>2. HasRow(Current(v)) /\ 0 < Current(v).amount /\ Current(v).amount <= auction.highest
        BY <3>1 DEF PublishInv
      <3>3. PICK m : m = Current(v)
        OBVIOUS
      <3>4. HasRow(m)'
        BY <3>2, <3>3, HasRowStays
      <3>5. HasRow(Current(v))'
        BY <3>1, <3>3, <3>4 DEF HasRow
      <3> QED BY <1>0, <2>1, <3>1, <3>2, <3>5
    <2>5. \A n \in newBids' : HasRow(n)' /\ 0 < n.amount /\ n.amount <= auction'.highest
      BY <1>0, <2>1, <2>3
    <2>6. ASSUME NEW v \in Workers, pc'[v] = "publish"
          PROVE  /\ HasRow(Current(v))' /\ 0 < Current(v)'.amount /\ Current(v)'.amount <= auction'.highest
                 /\ owner' = v \/ OneConsumer => Current(v)'.amount = auction'.highest
                 /\ Current(v)'.amount = auction'.highest =>
                      /\ \A n \in newBids' : n.amount < Current(v)'.amount
                      /\ \A u \in Workers \ {v} : pc'[u] = "publish" => Current(u)'.amount < Current(v)'.amount
      <3>1. CASE v = w
        BY <2>1, <2>2, <2>3, <2>4, <3>1
      <3>2. CASE v # w
        <4>1. /\ HasRow(Current(v))' /\ Current(v)' = Current(v) /\ Current(v).amount \in Int
              /\ 0 < Current(v).amount /\ Current(v).amount < auction'.highest
          BY <2>4, <2>6, <3>2
        <4>2. ~(owner' = v \/ OneConsumer)
          BY <2>1, <3>2 DEF OneConsumer
        <4> QED BY <2>1, <4>1, <4>2
      <3> QED BY <3>1, <3>2
    <2> QED BY <2>2, <2>5, <2>6 DEF PublishInv
  <1>2. ASSUME NEW w \in Workers, PublishNewBid(w) PROVE PublishInv'
    <2>1. /\ newBids' = newBids \cup {Current(w)} /\ pc[w] = "publish" /\ pc' = [pc EXCEPT ![w] = "cache"]
          /\ UNCHANGED <<log, pos, bids, auction, owner>>
      BY <1>2 DEF PublishNewBid
    <2>2. \A v \in Workers : Current(v)' = Current(v)
      BY <2>1 DEF Current
    <2>3. \A v \in Workers : pc'[v] = "publish" => pc[v] = "publish" /\ v # w
      BY <1>0, <2>1
    <2>4. \A n \in newBids' : HasRow(n) /\ 0 < n.amount /\ n.amount <= auction.highest
      BY <2>1 DEF PublishInv
    <2>5. \A v \in Workers : pc'[v] = "publish" /\ Current(v).amount = auction.highest =>
            \A n \in newBids' : n.amount < Current(v).amount
      BY <2>1, <2>3 DEF PublishInv
    <2> QED BY <2>1, <2>2, <2>3, <2>4, <2>5 DEF PublishInv, HasRow
  <1>3. CASE ~\E w \in Workers : TxWrite(w) \/ PublishNewBid(w)
    <2>1. \A w \in Workers : pc'[w] = "publish" => pc[w] = "publish"
      BY <1>3, WorkerStep
    <2>2. auction'.highest = auction.highest
      <3>1. ASSUME NEW c \in Admins, EndUpdate(c) PROVE auction'.highest = auction.highest
        BY <3>1 DEF EndUpdate, TypeOK
      <3> QED BY <1>3, <3>1, RowsStay
    <2>3. newBids' = newBids
      BY <1>3 DEF Next, vars, PlaceBid, ResendBid, Assign, CommitOffset, SessionTimeout, Crash,
           HandlerThrows, PlaceBidStep, TxRead, TxOverflow, CacheNewBid, PublishRejection, EndRead,
           EndDies, EndAuctionStep, EndUpdate, EndPublish, EndCache, CacheLookup, DbLookup, CacheFill,
           CacheExpire
    <2>4. ASSUME NEW w \in Workers, pc'[w] = "publish", owner' = w PROVE owner = w
      <3>1. CASE UNCHANGED owner
        BY <2>4, <3>1
      <3>2. ASSUME NEW v \in Workers, Assign(v) PROVE FALSE
        BY <1>0, <2>4, <3>2 DEF Assign
      <3>3. ASSUME NEW v \in Workers, SessionTimeout(v) \/ Crash(v) PROVE owner' \in {owner, None}
        BY <3>3 DEF SessionTimeout, Crash
      <3>4. \/ UNCHANGED owner
            \/ \E v \in Workers : Assign(v) \/ SessionTimeout(v) \/ Crash(v)
        BY DEF Next, vars, PlaceBid, ResendBid, CommitOffset, HandlerThrows, PlaceBidStep, TxRead, TxWrite,
             TxOverflow, PublishNewBid, CacheNewBid, PublishRejection, EndRead, EndDies, EndAuctionStep,
             EndUpdate, EndPublish, EndCache, CacheLookup, DbLookup, CacheFill, CacheExpire
      <3> QED BY <2>4, <3>1, <3>2, <3>3, <3>4, NoneAssumption
    <2> QED BY <2>1, <2>2, <2>3, <2>4, PublishFrame
  <1> QED BY <1>1, <1>2, <1>3

LEMMA PublishInit == Init => PublishInv
  BY DEF Init, PublishInv

LEMMA PublishInvariant == ASSUME ~TxOutlivesSession, WholeCents PROVE SafeSpec => []PublishInv
  <1>1. TypeOK /\ RowInv /\ PublishInv /\ [Next]_vars => PublishInv'
    BY PublishStep
  <1> QED BY <1>1, PublishInit, TypeCorrect, RowInvariant, PTL DEF SafeSpec

\* A step that announces a bid announces that of the consumer that is at it.
LEMMA AnnounceStep ==
  ASSUME TypeOK, [Next]_vars, newBids' # newBids
  PROVE  \E w \in Workers : PublishNewBid(w) /\ newBids' = newBids \cup {Current(w)} /\ pc[w] = "publish"
  <1>1. \E w \in Workers : PublishNewBid(w)
    BY DEF Next, vars, eventVars, PlaceBid, ResendBid, Assign, CommitOffset, SessionTimeout, Crash,
         HandlerThrows, PlaceBidStep, TxRead, TxWrite, TxOverflow, CacheNewBid, PublishRejection, EndRead,
         EndDies, EndAuctionStep, EndUpdate, EndPublish, EndCache, CacheLookup, DbLookup, CacheFill,
         CacheExpire
  <1> QED BY <1>1 DEF PublishNewBid

\* Of any number of consumers, the owner of the partition announces more than was announced
\* before.  (A consumer that has lost the partition between its commit and its newBid may
\* announce its bid after a higher one.)
OwnersAnnounceInOrder ==
  [][\A w \in Workers : PublishNewBid(w) /\ owner = w =>
       \A old \in newBids : old.amount < Current(w).amount]_vars

THEOREM OwnersAscend == ASSUME ~TxOutlivesSession, WholeCents PROVE SafeSpec => OwnersAnnounceInOrder
  <1>1. PublishInv /\ [Next]_vars =>
          [\A w \in Workers : PublishNewBid(w) /\ owner = w =>
             \A old \in newBids : old.amount < Current(w).amount]_vars
    BY DEF PublishInv, PublishNewBid
  <1> QED BY <1>1, PublishInvariant, PTL DEF SafeSpec, OwnersAnnounceInOrder

\* With one consumer all newBid events ascend, also when its session expires or it crashes
\* in the middle of a bid.
THEOREM AnnouncementsAscend ==
  ASSUME ~TxOutlivesSession, WholeCents, OneConsumer PROVE SafeSpec => NewBidsAscend
  <1>1. TypeOK /\ PublishInv /\ [Next]_vars =>
          [\A new \in newBids' \ newBids : \A old \in newBids : old.amount < new.amount]_newBids
    <2> SUFFICES ASSUME TypeOK, PublishInv, [Next]_vars, newBids' # newBids,
                        NEW new \in newBids' \ newBids, NEW old \in newBids
                 PROVE  old.amount < new.amount
      OBVIOUS
    <2>1. PICK w \in Workers : newBids' = newBids \cup {Current(w)} /\ pc[w] = "publish"
      BY AnnounceStep
    <2> QED BY <2>1 DEF PublishInv
  <1> QED BY <1>1, TypeCorrect, PublishInvariant, PTL DEF SafeSpec, NewBidsAscend
=============================================================================
