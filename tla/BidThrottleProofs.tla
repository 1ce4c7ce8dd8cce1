-------------------------- MODULE BidThrottleProofs --------------------------
(***************************************************************************)
(* Theorems about BidThrottle, for every number of bids, every limit and    *)
(* every pace of the clock.                                                 *)
(***************************************************************************)
EXTENDS BidThrottle, FiniteSetTheorems, TLAPS

-----------------------------------------------------------------------------
(* Numbers and sets of them *)

\* The limits are positive, and the key outlives the window.
LEMMA Limits ==
  /\ MAX_BIDS \in Nat \ {0} /\ WINDOW \in Nat \ {0}
  /\ Ttl \in Nat /\ WINDOW <= Ttl
  /\ MaxInFlight \in Nat \ {0} /\ MaxTime \in Nat /\ IsFiniteSet(Bids)
  <1>1. \A m, n \in Nat \ {0} : m * n \in Nat \ {0}
    BY SMT
  <1>2. FromEnv(5) \in Nat \ {0} /\ FromEnv(10) \in Nat \ {0}
    BY ThrottleAssumption DEF FromEnv
  <1> QED BY <1>1, <1>2, ThrottleAssumption DEF MAX_BIDS, WINDOW

\* A set of times and what is within it, or gains one element, or loses one.
LEMMA SetsOfTimes ==
  ASSUME NEW n \in Nat, NEW S \in SUBSET (0 .. n)
  PROVE  /\ IsFiniteSet(S) /\ Cardinality(S) \in Nat
         /\ \A T \in SUBSET S : Cardinality(T) \in Nat /\ Cardinality(T) <= Cardinality(S)
         /\ \A x : IsFiniteSet(S \cup {x}) /\ Cardinality(S \cup {x}) \in Nat
                   /\ Cardinality(S \cup {x}) <= Cardinality(S) + 1
         /\ \A x \in S : Cardinality(S) = Cardinality(S \ {x}) + 1
  <1>1. IsFiniteSet(S)
    <2>1. IsFiniteSet(0 .. n)
      BY FS_Interval
    <2> QED BY <2>1, FS_Subset
  <1>2. Cardinality(S) \in Nat
    BY <1>1, FS_CardinalityType
  <1>3. \A T \in SUBSET S : Cardinality(T) \in Nat /\ Cardinality(T) <= Cardinality(S)
    BY <1>1, FS_Subset, FS_CardinalityType
  <1>4. ASSUME NEW x
        PROVE  IsFiniteSet(S \cup {x}) /\ Cardinality(S \cup {x}) \in Nat
               /\ Cardinality(S \cup {x}) <= Cardinality(S) + 1
    BY <1>1, <1>2, FS_AddElement
  <1>5. ASSUME NEW x \in S PROVE Cardinality(S) = Cardinality(S \ {x}) + 1
    <2>1. Cardinality(S \ {x}) = Cardinality(S) - 1
      BY <1>1, <1>5, FS_RemoveElement
    <2> QED BY <1>2, <2>1
  <1> QED BY <1>1, <1>2, <1>3, <1>4, <1>5

\* Times that there are have a latest one: of the intervals that begin at them and end at n,
\* one has no other within it.
LEMMA LatestTime ==
  ASSUME NEW n \in Nat, NEW T \in SUBSET (0 .. n), T # {}
  PROVE  \E m \in T : \A x \in T : x <= m
  <1> DEFINE W == {x .. n : x \in T}
  <1>1. IsFiniteSet(0 .. n)
    BY FS_Interval
  <1>2. IsWellFoundedOn(StrictSubsetOrdering(0 .. n), SUBSET (0 .. n))
    BY <1>1, FS_StrictSubsetOrderingWellFounded, FS_FiniteSubsetsOfFinite
  <1>3. W \subseteq SUBSET (0 .. n) /\ W # {}
    <2>1. ASSUME NEW x \in T PROVE x .. n \subseteq 0 .. n
      OBVIOUS
    <2> QED BY <2>1
  <1>4. PICK w \in W : \A v \in W : <<v, w>> \notin StrictSubsetOrdering(0 .. n)
    <2> HIDE DEF W
    <2> QED BY <1>2, <1>3, WFMin
  <1>5. PICK m \in T : w = m .. n
    BY <1>4
  <1>6. ASSUME NEW x \in T, x > m PROVE FALSE
    <2>1. x .. n \subseteq m .. n /\ m \notin x .. n /\ m \in m .. n
      BY <1>6
    <2>2. <<x .. n, m .. n>> \in StrictSubsetOrdering(0 .. n)
      BY <2>1 DEF StrictSubsetOrdering
    <2> QED BY <1>4, <1>5, <2>2
  <1> QED BY <1>6

\* A set of times is no larger than a set of bids that has a bid of each of them.
LEMMA BidsForTimes ==
  ASSUME NEW n \in Nat, NEW S \in SUBSET (0 .. n), NEW C \in SUBSET Bids, NEW f \in [Bids -> Nat],
         \A x \in S : \E c \in C : f[c] = x
  PROVE  Cardinality(S) \in Nat /\ Cardinality(C) \in Nat /\ Cardinality(S) <= Cardinality(C)
  <1> DEFINE D == {c \in C : f[c] \in S}
             g == [c \in D |-> f[c]]
  <1>1. IsFiniteSet(C) /\ Cardinality(C) \in Nat
    BY Limits, FS_Subset, FS_CardinalityType
  <1>2. IsFiniteSet(D) /\ Cardinality(D) \in Nat /\ Cardinality(D) <= Cardinality(C)
    BY <1>1, FS_Subset, FS_CardinalityType
  <1>3. g \in Surjection(D, S)
    BY DEF Surjection
  <1>4. IsFiniteSet(S) /\ Cardinality(S) <= Cardinality(D)
    <2> HIDE DEF D, g
    <2> QED BY <1>2, <1>3, FS_Surjection
  <1> QED BY <1>1, <1>2, <1>4, FS_CardinalityType

-----------------------------------------------------------------------------
(* Types *)

LEMMA InitTypes == Init => TypeOK
  <1> SUFFICES ASSUME Init PROVE TypeOK
    OBVIOUS
  <1>1. lasts \in BOOLEAN /\ alone \in [Bids -> BOOLEAN]
    BY Zenon DEF Init
  <1>2. pc \in [Bids -> States]
    BY DEF Init, States
  <1>3. /\ now \in 0 .. MaxTime /\ stamps \subseteq 0 .. now /\ renewed \in 0 .. now
        /\ at \in [Bids -> 0 .. now] /\ takenAt \in [Bids -> 0 .. now]
    BY Limits DEF Init
  <1> QED BY <1>1, <1>2, <1>3 DEF TypeOK

LEMMA TypesStep ==
  ASSUME TypeOK, [Next]_vars
  PROVE  TypeOK'
  <1> USE Limits DEF TypeOK, States, keyVars
  <1>1. ASSUME NEW b \in Bids, Arrive(b) PROVE TypeOK'
    <2>1. alone' \in [Bids -> BOOLEAN]
      BY <1>1, Zenon DEF Arrive
    <2>2. pc' \in [Bids -> States] /\ at' \in [Bids -> 0 .. now]
      BY <1>1 DEF Arrive
    <2> QED BY <1>1, <2>1, <2>2 DEF Arrive
  <1>2. ASSUME NEW b \in Bids, Trim(b) PROVE TypeOK'
    BY <1>2 DEF Trim, Trimmed
  <1>3. ASSUME NEW b \in Bids, Count(b) PROVE TypeOK'
    BY <1>3 DEF Count
  <1>4. ASSUME NEW b \in Bids, Add(b) PROVE TypeOK'
    <2>1. PICK outcome \in {"passed", "charged"} : pc' = [pc EXCEPT ![b] = outcome]
      BY <1>4 DEF Add
    <2>2. pc' \in [Bids -> States] /\ takenAt' \in [Bids -> 0 .. now]
      BY <1>4, <2>1 DEF Add
    <2>3. stamps' \subseteq 0 .. now /\ renewed' \in 0 .. now
      <3>1. stamps' = stamps \cup {at[b]} /\ renewed' \in {renewed, now}
        BY <1>4 DEF Add, Member, Renew, NotRenewed
      <3>2. at[b] \in 0 .. now /\ stamps \subseteq 0 .. now /\ now \in 0 .. now
        OBVIOUS
      <3> QED BY <3>1, <3>2
    <2>4. lasts' \in BOOLEAN
      BY <1>4 DEF Add, Renew, NotRenewed
    <2> QED BY <1>4, <2>2, <2>3, <2>4 DEF Add
  <1>5. ASSUME NEW b \in Bids, Report(b) \/ CallFails(b) PROVE TypeOK'
    BY <1>5 DEF Report, CallFails
  <1>6. CASE KeyExpire
    BY <1>6 DEF KeyExpire
  <1>7. CASE Tick
    <2>1. now' = now + 1 /\ now' \in 0 .. MaxTime /\ \A x \in 0 .. now : x \in 0 .. now'
      BY <1>7 DEF Tick
    <2> QED BY <1>7, <2>1 DEF Tick
  <1>8. CASE UNCHANGED vars
    BY <1>8 DEF vars
  <1> QED BY <1>1, <1>2, <1>3, <1>4, <1>5, <1>6, <1>7, <1>8 DEF Next, Intercept

\* Every time that is kept is one the clock has shown (bid-throttle.interceptor.ts).
THEOREM ThrottleTypeCorrect == Spec => []TypeOK
  <1>1. Init => TypeOK
    BY InitTypes
  <1>2. TypeOK /\ [Next]_vars => TypeOK'
    BY TypesStep
  <1> QED BY <1>1, <1>2, PTL DEF Spec

-----------------------------------------------------------------------------
(* How far the limit is overrun *)

Adding == {b \in Bids : pc[b] = "add"}

\* The bids in the interceptor are at most MaxInFlight, and those past the check and those
\* in the set together are at most as many above MAX_BIDS - 1.
OverrunInv ==
  /\ Cardinality(InHand) <= MaxInFlight
  /\ OverrunIsBounded

\* A set of bids, and one with at most one bid more, or with one less.
LEMMA SetsOfBids ==
  ASSUME NEW S \in SUBSET Bids
  PROVE  /\ IsFiniteSet(S) /\ Cardinality(S) \in Nat
         /\ \A T \in SUBSET S : Cardinality(T) \in Nat /\ Cardinality(T) <= Cardinality(S)
         /\ \A x : Cardinality(S \cup {x}) \in Nat /\ Cardinality(S \cup {x}) <= Cardinality(S) + 1
         /\ \A x \in S : Cardinality(S) = Cardinality(S \ {x}) + 1
  <1>1. IsFiniteSet(S)
    BY Limits, FS_Subset
  <1>2. Cardinality(S) \in Nat
    BY <1>1, FS_CardinalityType
  <1>3. \A T \in SUBSET S : Cardinality(T) \in Nat /\ Cardinality(T) <= Cardinality(S)
    BY <1>1, FS_Subset, FS_CardinalityType
  <1>4. ASSUME NEW x
        PROVE  Cardinality(S \cup {x}) \in Nat /\ Cardinality(S \cup {x}) <= Cardinality(S) + 1
    <2>1. Cardinality(S \cup {x}) = IF x \in S THEN Cardinality(S) ELSE Cardinality(S) + 1
      BY <1>1, FS_AddElement
    <2> QED BY <1>2, <2>1
  <1>5. ASSUME NEW x \in S PROVE Cardinality(S) = Cardinality(S \ {x}) + 1
    <2>1. Cardinality(S \ {x}) = Cardinality(S) - 1
      BY <1>1, <1>5, FS_RemoveElement
    <2> QED BY <1>2, <2>1
  <1> QED BY <1>1, <1>2, <1>3, <1>4, <1>5

\* What a step does to the bids in hand: one arrives where there is room, or none does.
LEMMA InHandStep ==
  ASSUME TypeOK, [Next]_vars
  PROVE  \/ InHand' \subseteq InHand
         \/ Cardinality(InHand) < MaxInFlight /\ \E b \in Bids : InHand' \subseteq InHand \cup {b}
  <1>1. ASSUME NEW b \in Bids, Arrive(b)
        PROVE  Cardinality(InHand) < MaxInFlight /\ InHand' \subseteq InHand \cup {b}
    BY <1>1 DEF Arrive, InHand, TypeOK
  <1>2. ASSUME NEW b \in Bids, Trim(b) \/ Count(b) \/ Report(b) \/ CallFails(b)
        PROVE  InHand' \subseteq InHand
    BY <1>2 DEF Trim, Count, Report, CallFails, InHand, TypeOK
  <1>3. ASSUME NEW b \in Bids, Add(b) PROVE InHand' \subseteq InHand
    <2>1. PICK outcome \in {"passed", "charged"} : pc' = [pc EXCEPT ![b] = outcome]
      BY <1>3 DEF Add
    <2> QED BY <2>1 DEF InHand, TypeOK
  <1>4. CASE KeyExpire \/ Tick \/ UNCHANGED vars
    BY <1>4 DEF KeyExpire, Tick, vars, InHand, keyVars
  <1> QED BY <1>1, <1>2, <1>3, <1>4 DEF Next, Intercept

\* What a step does to the set and to the bids that will add to it: one bid more passes the
\* check, where it finds room; or one adds its time; or they only shrink.
LEMMA OverrunCases ==
  ASSUME TypeOK, [Next]_vars
  PROVE  \/ stamps' = stamps /\ ~Over(Cardinality(stamps)) /\ Adding' \subseteq InHand'
         \/ \E b \in Adding : stamps' = stamps \cup {at[b]} /\ Adding' = Adding \ {b}
         \/ stamps' \subseteq stamps /\ Adding' \subseteq Adding
  <1>1. ASSUME NEW b \in Bids, Count(b), ~Over(Cardinality(stamps))
        PROVE  stamps' = stamps /\ Adding' \subseteq InHand'
    BY <1>1 DEF Count, Adding, InHand, keyVars
  <1>2. ASSUME NEW b \in Bids, Count(b), Over(Cardinality(stamps))
        PROVE  stamps' \subseteq stamps /\ Adding' \subseteq Adding
    BY <1>2 DEF Count, Adding, TypeOK, keyVars
  <1>3. ASSUME NEW b \in Bids, Add(b)
        PROVE  b \in Adding /\ stamps' = stamps \cup {at[b]} /\ Adding' = Adding \ {b}
    <2>1. PICK outcome \in {"passed", "charged"} : pc' = [pc EXCEPT ![b] = outcome]
      BY <1>3 DEF Add
    <2> QED BY <1>3, <2>1 DEF Add, Member, Adding, TypeOK
  <1>4. ASSUME NEW b \in Bids, Arrive(b) \/ Trim(b) \/ Report(b) \/ CallFails(b)
        PROVE  stamps' \subseteq stamps /\ Adding' \subseteq Adding
    BY <1>4 DEF Arrive, Trim, Trimmed, Report, CallFails, Adding, TypeOK, keyVars
  <1>5. CASE KeyExpire \/ Tick \/ UNCHANGED vars
    BY <1>5 DEF KeyExpire, Tick, vars, Adding, keyVars
  <1> QED BY <1>1, <1>2, <1>3, <1>4, <1>5 DEF Next, Intercept

LEMMA OverrunStep ==
  ASSUME TypeOK, OverrunInv, [Next]_vars
  PROVE  OverrunInv'
  <1> USE Limits
  <1>1. PICK S : S = stamps'
    OBVIOUS
  <1>2. PICK H : H = InHand' /\ H \in SUBSET Bids
    BY DEF InHand
  <1>3. PICK A : A = Adding' /\ A \in SUBSET Bids
    BY DEF Adding
  <1>4. /\ now \in Nat /\ stamps \in SUBSET (0 .. now) /\ InHand \in SUBSET Bids /\ Adding \in SUBSET Bids
        /\ Cardinality(stamps) + Cardinality(Adding) <= (MAX_BIDS - 1) + MaxInFlight
    BY DEF TypeOK, InHand, Adding, OverrunInv, OverrunIsBounded
  <1>5. Cardinality(InHand) \in Nat /\ Cardinality(Adding) \in Nat /\ Cardinality(stamps) \in Nat
        /\ Cardinality(A) \in Nat /\ Cardinality(H) \in Nat
    BY <1>2, <1>3, <1>4, SetsOfBids, SetsOfTimes
  <1>6. Cardinality(H) <= MaxInFlight
    <2>1. CASE H \subseteq InHand
      BY <1>4, <1>5, <2>1, SetsOfBids DEF OverrunInv
    <2>2. ASSUME NEW b \in Bids, Cardinality(InHand) < MaxInFlight, H \subseteq InHand \cup {b}
          PROVE  Cardinality(H) <= MaxInFlight
      <3>1. Cardinality(InHand \cup {b}) \in Nat /\ Cardinality(InHand \cup {b}) <= Cardinality(InHand) + 1
        BY <1>4, SetsOfBids
      <3>2. Cardinality(H) <= Cardinality(InHand \cup {b})
        BY <1>4, <2>2, SetsOfBids
      <3> QED BY <1>5, <2>2, <3>1, <3>2
    <2> QED BY <1>2, <2>1, <2>2, InHandStep
  <1>7. Cardinality(S) + Cardinality(A) <= (MAX_BIDS - 1) + MaxInFlight
    <2>1. CASE S = stamps /\ ~Over(Cardinality(stamps)) /\ A \subseteq H
      <3>1. Cardinality(S) <= MAX_BIDS - 1
        BY <1>5, <2>1 DEF Over
      <3>2. Cardinality(A) <= Cardinality(H)
        BY <1>2, <2>1, SetsOfBids
      <3> QED BY <1>5, <1>6, <2>1, <3>1, <3>2
    <2>2. ASSUME NEW b \in Adding, S = stamps \cup {at[b]}, A = Adding \ {b}
          PROVE  Cardinality(S) + Cardinality(A) <= (MAX_BIDS - 1) + MaxInFlight
      <3>1. Cardinality(S) \in Nat /\ Cardinality(S) <= Cardinality(stamps) + 1
        BY <1>4, <2>2, SetsOfTimes
      <3>2. Cardinality(Adding) = Cardinality(A) + 1
        BY <1>4, <2>2, SetsOfBids
      <3> QED BY <1>4, <1>5, <3>1, <3>2
    <2>3. CASE S \subseteq stamps /\ A \subseteq Adding
      <3>1. Cardinality(S) \in Nat /\ Cardinality(S) <= Cardinality(stamps)
        BY <1>4, <2>3, SetsOfTimes
      <3>2. Cardinality(A) <= Cardinality(Adding)
        BY <1>4, <2>3, SetsOfBids
      <3> QED BY <1>4, <1>5, <3>1, <3>2
    <2> QED BY <1>1, <1>2, <1>3, <2>1, <2>2, <2>3, OverrunCases
  <1> QED BY <1>1, <1>2, <1>3, <1>6, <1>7 DEF OverrunInv, OverrunIsBounded, Adding

\* However bids overlap, those past the check and those in the set exceed what is free by
\* less than the messages in the interceptor at once (bid-throttle.interceptor.ts).
THEOREM OverrunBounded == Spec => []OverrunIsBounded
  <1>1. Init => OverrunInv
    <2> SUFFICES ASSUME Init PROVE OverrunInv
      OBVIOUS
    <2>1. stamps = {} /\ InHand = {} /\ {b \in Bids : pc[b] = "add"} = {}
      BY DEF Init, InHand
    <2>2. Cardinality({}) = 0
      BY FS_EmptySet
    <2>3. Cardinality(stamps) = 0 /\ Cardinality(InHand) = 0 /\ Cardinality({b \in Bids : pc[b] = "add"}) = 0
      BY <2>1, <2>2
    <2>4. 0 + 0 <= (MAX_BIDS - 1) + MaxInFlight /\ 0 <= MaxInFlight
      BY Limits
    <2> QED BY <2>3, <2>4 DEF OverrunInv, OverrunIsBounded
  <1>2. TypeOK /\ OverrunInv /\ [Next]_vars => OverrunInv'
    BY OverrunStep
  <1>3. OverrunInv => OverrunIsBounded
    BY DEF OverrunInv
  <1> QED BY <1>1, <1>2, <1>3, ThrottleTypeCorrect, PTL DEF Spec

-----------------------------------------------------------------------------
(* What a step does to one bid, and to the bids that were taken *)

\* A bid that was sent keeps its time; one that was not arrives now, or is not sent.
LEMMA SentStep ==
  ASSUME TypeOK, [Next]_vars, NEW b \in Bids
  PROVE  /\ pc[b] # "unsent" => pc'[b] # "unsent" /\ at'[b] = at[b]
         /\ pc[b] = "unsent" => pc'[b] = "unsent" \/ Arrive(b)
  <1> USE DEF TypeOK
  <1>1. ASSUME NEW c \in Bids, Arrive(c)
        PROVE  (pc[c] = "unsent" /\ \A d \in Bids : d # c => pc'[d] = pc[d] /\ at'[d] = at[d])
    BY <1>1 DEF Arrive
  <1>2. ASSUME NEW c \in Bids, Trim(c) \/ Count(c) \/ Report(c) \/ CallFails(c)
        PROVE  /\ at' = at /\ pc[c] # "unsent" /\ pc'[c] # "unsent"
               /\ \A d \in Bids : d # c => pc'[d] = pc[d]
    <2>1. PICK to \in {"count", "report", "add", "refused", "failed"} : pc' = [pc EXCEPT ![c] = to]
      BY <1>2 DEF Trim, Count, Report, CallFails
    <2> QED BY <1>2, <2>1 DEF Trim, Count, Report, CallFails, InHand
  <1>3. ASSUME NEW c \in Bids, Add(c)
        PROVE  /\ at' = at /\ pc[c] # "unsent" /\ pc'[c] # "unsent"
               /\ \A d \in Bids : d # c => pc'[d] = pc[d]
    <2>1. PICK outcome \in {"passed", "charged"} : pc' = [pc EXCEPT ![c] = outcome]
      BY <1>3 DEF Add
    <2> QED BY <1>3, <2>1 DEF Add
  <1>4. CASE KeyExpire \/ Tick \/ UNCHANGED vars
    BY <1>4 DEF KeyExpire, Tick, vars, keyVars
  <1>5. CASE \E c \in Bids : Intercept(c)
    <2>1. PICK c \in Bids : Intercept(c)
      BY <1>5
    <2>2. CASE Arrive(c)
      BY <1>1, <2>2
    <2>3. CASE ~Arrive(c)
      BY <1>2, <1>3, <2>1, <2>3 DEF Intercept
    <2> QED BY <2>2, <2>3
  <1> QED BY <1>4, <1>5 DEF Next

\* Where a bid that is taken or turned away comes from.
LEMMA OutcomeStep ==
  ASSUME TypeOK, [Next]_vars, NEW b \in Bids, pc'[b] # pc[b]
  PROVE  /\ pc'[b] = "count" => Trim(b)
         /\ pc'[b] \in {"report", "add"} => Count(b)
         /\ pc'[b] = "refused" => pc[b] = "report"
         /\ pc'[b] \in {"passed", "charged"} => Add(b)
         /\ pc'[b] = "trim" => Arrive(b)
         /\ pc[b] \notin {"passed", "charged", "refused"}
  <1> USE DEF TypeOK
  <1>1. \E c \in Bids : Intercept(c)
    BY DEF Next, KeyExpire, Tick, vars, keyVars
  <1>2. PICK c \in Bids : Intercept(c)
    BY <1>1
  <1>3. PICK to \in States : pc' = [pc EXCEPT ![c] = to]
    BY <1>2 DEF Intercept, Arrive, Trim, Count, Add, Report, CallFails, States
  <1>4. c = b
    BY <1>3
  <1>5. CASE Arrive(b) \/ Trim(b) \/ Count(b) \/ Report(b) \/ CallFails(b)
    BY <1>5 DEF Arrive, Trim, Count, Report, CallFails, InHand
  <1>6. CASE Add(b)
    <2>1. PICK outcome \in {"passed", "charged"} : pc' = [pc EXCEPT ![b] = outcome]
      BY <1>6 DEF Add
    <2> QED BY <1>6, <2>1 DEF Add
  <1> QED BY <1>2, <1>4, <1>5, <1>6 DEF Intercept

\* One bid is taken, now, and its time is in the set; or none is, and nothing enters the set.
\* The time to live is renewed for a bid that passes, and perhaps for one that is charged.
LEMMA TakenStep ==
  ASSUME TypeOK, [Next]_vars
  PROVE  \/ /\ Taken' = Taken /\ Passed' = Passed /\ takenAt' = takenAt /\ renewed' = renewed
            /\ stamps' \subseteq stamps
         \/ \E b \in Adding :
              /\ Taken' = Taken \cup {b} /\ b \notin Taken
              /\ takenAt' = [takenAt EXCEPT ![b] = now]
              /\ \/ Passed' = Passed \cup {b} /\ renewed' = now
                 \/ Passed' = Passed /\ renewed' \in {renewed, now}
              /\ stamps' = stamps \cup {at[b]}
              /\ at' = at /\ now' = now /\ alone' = alone
  <1> USE DEF TypeOK
  <1>1. ASSUME NEW b \in Bids, Add(b)
        PROVE  /\ b \in Adding /\ Taken' = Taken \cup {b} /\ b \notin Taken
               /\ takenAt' = [takenAt EXCEPT ![b] = now]
               /\ \/ Passed' = Passed \cup {b} /\ renewed' = now
                  \/ Passed' = Passed /\ renewed' \in {renewed, now}
               /\ stamps' = stamps \cup {at[b]}
               /\ at' = at /\ now' = now /\ alone' = alone
    <2>1. PICK outcome \in {"passed", "charged"} :
            /\ pc' = [pc EXCEPT ![b] = outcome]
            /\ renewed' = now \/ (outcome = "charged" /\ renewed' = renewed)
      BY <1>1 DEF Add, Renew, NotRenewed
    <2>2. Taken' = Taken \cup {b} /\ b \notin Taken /\ b \in Adding
      BY <1>1, <2>1 DEF Add, Taken, Adding
    <2>3. Passed' = IF outcome = "passed" THEN Passed \cup {b} ELSE Passed
      BY <1>1, <2>1 DEF Add, Passed
    <2> QED BY <1>1, <2>1, <2>2, <2>3 DEF Add, Member
  <1>2. ASSUME NEW b \in Bids, Arrive(b) \/ Trim(b) \/ Count(b) \/ Report(b) \/ CallFails(b)
        PROVE  /\ Taken' = Taken /\ Passed' = Passed /\ takenAt' = takenAt /\ renewed' = renewed
               /\ stamps' \subseteq stamps
    <2>1. PICK to \in {"trim", "count", "report", "add", "refused", "failed"} : pc' = [pc EXCEPT ![b] = to]
      BY <1>2 DEF Arrive, Trim, Count, Report, CallFails
    <2>2. pc[b] \notin {"passed", "charged"}
      BY <1>2 DEF Arrive, Trim, Count, Report, CallFails, InHand
    <2>3. Taken' = Taken /\ Passed' = Passed
      BY <2>1, <2>2 DEF Taken, Passed
    <2> QED BY <1>2, <2>3 DEF Arrive, Trim, Trimmed, Count, Report, CallFails, keyVars
  <1>3. CASE KeyExpire \/ Tick \/ UNCHANGED vars
    BY <1>3 DEF KeyExpire, Tick, vars, keyVars, Taken, Passed
  <1> QED BY <1>1, <1>2, <1>3 DEF Next, Intercept

-----------------------------------------------------------------------------
(* Refusals have a cause *)

\* The bids that were added since the window before bid b opened.
Lasting(b) == {c \in Taken : takenAt[c] + WINDOW > at[b]}

\* The set holds times of bids that were taken, each at its time or later; the time to live
\* runs from the latest of them that passed, or from a later time.
StampsSound ==
  /\ \A c \in Taken : at[c] <= takenAt[c]
  /\ \A c \in Passed : takenAt[c] <= renewed
  /\ \A x \in stamps : \E c \in Taken : at[c] = x

\* What a bid counts, bids have added since the window before it opened.
CountSound ==
  \A b \in Bids : pc[b] = "count" => \A x \in stamps : \E c \in Lasting(b) : at[c] = x

CauseInv == StampsSound /\ CountSound /\ RefusedForCause

LEMMA StampsStep ==
  ASSUME TypeOK, StampsSound, [Next]_vars
  PROVE  StampsSound'
  <1>1. \A c \in Taken : c \in Bids /\ pc[c] # "unsent"
    BY DEF Taken
  <1>2. \A c \in Taken : at'[c] = at[c]
    BY <1>1, SentStep
  <1>3. CASE /\ Taken' = Taken /\ Passed' = Passed /\ takenAt' = takenAt /\ renewed' = renewed
             /\ stamps' \subseteq stamps
    BY <1>2, <1>3 DEF StampsSound
  <1>4. ASSUME NEW b \in Adding,
               Taken' = Taken \cup {b}, b \notin Taken, at' = at, stamps' = stamps \cup {at[b]},
               takenAt' = [takenAt EXCEPT ![b] = now],
               \/ Passed' = Passed \cup {b} /\ renewed' = now
               \/ Passed' = Passed /\ renewed' \in {renewed, now}
        PROVE  StampsSound'
    <2>1. b \in Bids /\ at[b] <= now /\ takenAt'[b] = now /\ now \in Nat /\ renewed <= now /\ renewed \in Nat
      BY <1>4 DEF Adding, TypeOK
    <2>2. ASSUME NEW c \in Taken PROVE takenAt'[c] = takenAt[c] /\ takenAt[c] \in Nat
      BY <1>1, <1>4 DEF TypeOK
    <2>3. ASSUME NEW c \in Taken' PROVE at'[c] <= takenAt'[c]
      <3>1. CASE c = b
        BY <1>4, <2>1, <3>1
      <3>2. CASE c \in Taken
        BY <1>4, <2>2, <3>2 DEF StampsSound
      <3> QED BY <1>4, <3>1, <3>2
    <2>4. ASSUME NEW x \in stamps' PROVE \E c \in Taken' : at'[c] = x
      BY <1>4, <2>1 DEF StampsSound
    <2>5. ASSUME NEW c \in Passed' PROVE takenAt'[c] <= renewed'
      <3>1. CASE c = b /\ renewed' = now
        BY <2>1, <3>1
      <3>2. CASE c \in Passed
        <4>1. takenAt'[c] = takenAt[c] /\ takenAt[c] \in Nat /\ takenAt[c] <= renewed
          BY <2>2, <3>2 DEF StampsSound, Passed, Taken
        <4> QED BY <1>4, <2>1, <4>1
      <3> QED BY <1>4, <3>1, <3>2
    <2> QED BY <2>3, <2>4, <2>5 DEF StampsSound
  <1> QED BY <1>3, <1>4, TakenStep

\* No bid leaves those that were added since.
LEMMA LastingStep ==
  ASSUME TypeOK, [Next]_vars, NEW b \in Bids, pc[b] # "unsent", NEW c \in Lasting(b)
  PROVE  c \in Lasting(b)' /\ at'[c] = at[c]
  <1>1. c \in Bids /\ c \in Taken /\ pc[c] # "unsent" /\ takenAt[c] + WINDOW > at[b]
    BY DEF Lasting, Taken
  <1>2. at'[b] = at[b] /\ at'[c] = at[c]
    BY <1>1, SentStep
  <1>3. c \in Taken' /\ takenAt'[c] = takenAt[c]
    BY <1>1, TakenStep DEF TypeOK
  <1> QED BY <1>1, <1>2, <1>3 DEF Lasting

LEMMA CountSoundStep ==
  ASSUME TypeOK, StampsSound, CountSound, [Next]_vars
  PROVE  CountSound'
  <1> SUFFICES ASSUME NEW b \in Bids, pc'[b] = "count", NEW x \in stamps'
               PROVE  \E c \in Lasting(b)' : at'[c] = x
    BY DEF CountSound
  <1>1. CASE pc[b] = "count" /\ x \in stamps
    BY <1>1, LastingStep DEF CountSound
  <1>2. CASE pc[b] = "count" /\ x \notin stamps
    <2>1. PICK d \in Adding :
            /\ Taken' = Taken \cup {d} /\ takenAt' = [takenAt EXCEPT ![d] = now]
            /\ stamps' = stamps \cup {at[d]} /\ at' = at
      BY <1>2, TakenStep
    <2>2. x = at[d] /\ d \in Bids /\ takenAt'[d] = now
      BY <1>2, <2>1 DEF Adding, TypeOK
    <2>3. now + WINDOW > at[b]
      BY Limits DEF TypeOK
    <2> QED BY <2>1, <2>2, <2>3 DEF Lasting
  <1>3. CASE pc[b] # "count"
    <2>1. Trim(b)
      BY <1>3, OutcomeStep
    <2>2. x \in stamps /\ x + WINDOW > at[b] /\ pc[b] # "unsent"
      BY <2>1 DEF Trim, Trimmed
    <2>3. PICK c \in Taken : at[c] = x /\ at[c] <= takenAt[c]
      BY <2>2 DEF StampsSound
    <2>4. takenAt[c] + WINDOW > at[b]
      BY <2>2, <2>3, Limits DEF TypeOK, Taken
    <2> QED BY <2>2, <2>3, <2>4, LastingStep DEF Lasting
  <1> QED BY <1>1, <1>2, <1>3

LEMMA RefusedStep ==
  ASSUME TypeOK, CountSound, RefusedForCause, [Next]_vars
  PROVE  RefusedForCause'
  <1> SUFFICES ASSUME NEW b \in Bids, pc'[b] \in {"report", "refused"}
               PROVE  Cardinality(Lasting(b)') >= MAX_BIDS
    BY DEF RefusedForCause, Lasting
  <1>1. PICK L : L = Lasting(b)' /\ L \in SUBSET Bids
    BY DEF Lasting, Taken
  <1>2. pc[b] # "unsent"
    BY OutcomeStep DEF Count
  <1>3. Lasting(b) \subseteq L /\ Lasting(b) \in SUBSET Bids
    BY <1>1, <1>2, LastingStep DEF Lasting, Taken
  <1>4. Cardinality(L) \in Nat /\ Cardinality(Lasting(b)) \in Nat /\ Cardinality(Lasting(b)) <= Cardinality(L)
    BY <1>1, <1>3, SetsOfBids
  <1>5. Cardinality(Lasting(b)) >= MAX_BIDS
    <2>1. CASE pc[b] \in {"report", "refused"}
      BY <2>1 DEF RefusedForCause, Lasting
    <2>2. CASE pc[b] \notin {"report", "refused"}
      <3>1. Count(b) /\ pc'[b] = "report"
        BY <2>2, OutcomeStep
      <3>2. pc[b] = "count" /\ Over(Cardinality(stamps))
        BY <3>1 DEF Count, TypeOK
      <3>3. \A x \in stamps : \E c \in Lasting(b) : at[c] = x
        BY <3>2 DEF CountSound
      <3>4. now \in Nat /\ stamps \in SUBSET (0 .. now) /\ at \in [Bids -> Nat]
        BY DEF TypeOK
      <3>5. Cardinality(stamps) \in Nat /\ Cardinality(stamps) <= Cardinality(Lasting(b))
        BY <1>3, <3>3, <3>4, BidsForTimes
      <3> QED BY <1>4, <3>2, <3>5, Limits DEF Over
    <2> QED BY <2>1, <2>2
  <1> QED BY <1>1, <1>4, <1>5, Limits

\* No bid is refused to a user who kept to the limit (bid-throttle.interceptor.ts).
THEOREM RefusalsHaveCause == Spec => []RefusedForCause
  <1>1. Init => CauseInv
    BY DEF Init, CauseInv, StampsSound, CountSound, RefusedForCause, Taken, Passed
  <1>2. TypeOK /\ CauseInv /\ [Next]_vars => CauseInv'
    BY StampsStep, CountSoundStep, RefusedStep DEF CauseInv
  <1>3. CauseInv => RefusedForCause
    BY DEF CauseInv
  <1> QED BY <1>1, <1>2, <1>3, ThrottleTypeCorrect, PTL DEF Spec

-----------------------------------------------------------------------------
(* Bids that do not overlap keep to the limit *)

\* The times of bids that passed before bid d and are in the window that ends with it.
EarlierBids(d) == {c \in Passed : at[c] < at[d] /\ at[c] + WINDOW > at[d]}
Earlier(d) == {at[c] : c \in EarlierBids(d)}

\* The time of a bid that passed stays in the set until a bid that is a window later trims
\* it, or the key expires.
TimesKept ==
  \A c \in Passed :
    \/ at[c] \in stamps
    \/ at[c] + Ttl <= now
    \/ \E e \in Bids : pc[e] # "unsent" /\ at[c] + WINDOW <= at[e]

\* With a bid that was alone no other is in hand, and those that are in hand after it came
\* after it.
AloneSound ==
  \A d, e \in Bids :
    alone[d] /\ pc[d] # "unsent" /\ pc[e] # "unsent" /\ e # d =>
      /\ e \in InHand => d \notin InHand /\ at[d] <= at[e]
      /\ d \in InHand => at[e] <= at[d]

\* A bid that was alone passed the check with room for it, unless it was so slow that the key
\* may have expired.
Roomy(d) ==
  \/ Cardinality(Earlier(d)) <= MAX_BIDS - 1
  \/ at[d] + Ttl < (IF pc[d] = "add" THEN now ELSE takenAt[d]) + WINDOW

RoomFound == \A d \in Bids : alone[d] /\ (pc[d] = "add" \/ d \in Taken) => Roomy(d)

SerialInv == StampsSound /\ TimesKept /\ AloneSound /\ RoomFound

LEMMA KeptStep ==
  ASSUME TypeOK, StampsSound, TimesKept, [Next]_vars
  PROVE  TimesKept'
  <1> SUFFICES ASSUME NEW c \in Passed'
               PROVE  \/ at'[c] \in stamps'
                      \/ at'[c] + Ttl <= now'
                      \/ \E e \in Bids : pc'[e] # "unsent" /\ at'[c] + WINDOW <= at'[e]
    BY DEF TimesKept
  <1>0. c \in Bids /\ now \in Nat /\ now' \in Nat /\ now <= now' /\ Ttl \in Nat /\ WINDOW \in Nat
        /\ at \in [Bids -> Nat] /\ takenAt \in [Bids -> Nat] /\ renewed \in Nat
    <2>1. now <= now' /\ now' \in Nat
      <3>1. now' = now \/ now' = now + 1
        BY DEF Next, Intercept, Arrive, Trim, Count, Add, Report, CallFails, KeyExpire, Tick, vars
      <3> QED BY <3>1 DEF TypeOK
    <2> QED BY <2>1, Limits DEF Passed, TypeOK
  <1>1. CASE c \notin Passed
    <2>1. PICK b \in Adding : Passed' = Passed \cup {b} /\ stamps' = stamps \cup {at[b]} /\ at' = at
      BY <1>1, TakenStep
    <2> QED BY <1>1, <2>1
  <1>2. CASE c \in Passed
    <2>0. pc[c] # "unsent" /\ at'[c] = at[c]
      BY <1>0, <1>2, SentStep DEF Passed
    <2>1. CASE at[c] + Ttl <= now
      BY <1>0, <2>0, <2>1
    <2>2. ASSUME NEW e \in Bids, pc[e] # "unsent", at[c] + WINDOW <= at[e]
          PROVE  pc'[e] # "unsent" /\ at'[c] + WINDOW <= at'[e]
      BY <2>0, <2>2, SentStep
    <2>3. CASE at[c] \in stamps /\ at[c] \notin stamps'
      <3>1. KeyExpire \/ \E e \in Bids : Trim(e)
        BY <2>3 DEF Next, Intercept, Arrive, Count, Add, Report, CallFails, Tick, vars, keyVars
      <3>2. ASSUME NEW e \in Bids, Trim(e)
            PROVE  pc'[e] # "unsent" /\ at'[c] + WINDOW <= at'[e]
        <4>1. pc[e] # "unsent" /\ at[c] + WINDOW <= at[e]
          BY <1>0, <2>3, <3>2 DEF Trim, Trimmed
        <4> QED BY <2>2, <4>1
      <3>3. CASE KeyExpire
        <4>1. renewed + Ttl <= now /\ at[c] <= takenAt[c] /\ takenAt[c] <= renewed
          BY <1>2, <3>3 DEF KeyExpire, StampsSound, Passed, Taken
        <4>2. at[c] + Ttl <= now
          BY <1>0, <4>1
        <4> QED BY <1>0, <2>0, <4>2
      <3> QED BY <3>1, <3>2, <3>3
    <2> QED BY <1>2, <2>0, <2>1, <2>2, <2>3 DEF TimesKept
  <1> QED BY <1>1, <1>2

\* A bid is in hand that was, unless it arrives; a bid stays alone unless another arrives.
LEMMA AloneStep ==
  ASSUME TypeOK, AloneSound, [Next]_vars
  PROVE  AloneSound'
  <1> USE DEF TypeOK
  <1>1. ASSUME NEW b \in Bids, Arrive(b) PROVE AloneSound'
    <2> SUFFICES ASSUME NEW d \in Bids, NEW e \in Bids,
                        alone'[d], pc'[d] # "unsent", pc'[e] # "unsent", e # d
                 PROVE  /\ e \in InHand' => d \notin InHand' /\ at'[d] <= at'[e]
                        /\ d \in InHand' => at'[e] <= at'[d]
      BY DEF AloneSound
    <2>1. /\ pc[b] = "unsent" /\ pc' = [pc EXCEPT ![b] = "trim"] /\ at' = [at EXCEPT ![b] = now]
          /\ InHand' = InHand \cup {b} /\ b \notin InHand
      BY <1>1 DEF Arrive, InHand
    <2>2. alone'[d] = IF d = b THEN InHand = {} ELSE IF d \in InHand THEN FALSE ELSE alone[d]
      BY <1>1, Zenon DEF Arrive
    <2>3. CASE d = b
      <3>1. InHand = {} /\ e \notin InHand'
        BY <2>1, <2>2, <2>3
      <3>2. at'[e] = at[e] /\ at'[d] = now /\ at[e] <= now
        BY <2>1, <2>3
      <3> QED BY <3>1, <3>2
    <2>4. CASE d # b /\ e = b
      <3>1. d \notin InHand /\ alone[d]
        BY <2>2, <2>4
      <3> QED BY <2>1, <2>4, <3>1
    <2>5. CASE d # b /\ e # b
      <3>1. d \notin InHand /\ alone[d]
        BY <2>2, <2>5
      <3> QED BY <2>1, <2>5, <3>1 DEF AloneSound
    <2> QED BY <2>3, <2>4, <2>5
  <1>2. CASE ~\E b \in Bids : Arrive(b)
    <2>1. ASSUME NEW b \in Bids, pc'[b] # "unsent" PROVE pc[b] # "unsent" /\ at'[b] = at[b]
      BY <1>2, <2>1, SentStep
    <2>2. InHand' \subseteq InHand
      <3> SUFFICES ASSUME NEW b \in InHand', b \notin InHand PROVE FALSE
        OBVIOUS
      <3>1. b \in Bids /\ pc'[b] # pc[b] /\ pc'[b] \in {"trim", "count", "add"}
        BY DEF InHand
      <3>2. Trim(b) \/ Count(b)
        BY <1>2, <3>1, OutcomeStep
      <3> QED BY <3>2 DEF Trim, Count, InHand
    <2>3. alone' = alone
      BY <1>2 DEF Next, Intercept, Trim, Count, Add, Report, CallFails, KeyExpire, Tick, vars
    <2> QED BY <2>1, <2>2, <2>3 DEF AloneSound
  <1> QED BY <1>1, <1>2

\* The times before a bid that was alone are settled.
LEMMA EarlierStep ==
  ASSUME TypeOK, AloneSound, [Next]_vars, NEW d \in Bids, alone[d], pc[d] # "unsent"
  PROVE  Earlier(d)' = Earlier(d)
  <1>1. \A c \in Passed : c \in Bids /\ at'[c] = at[c]
    BY SentStep DEF Passed
  <1>2. at'[d] = at[d]
    BY SentStep
  <1>3. CASE Passed' = Passed
    BY <1>1, <1>2, <1>3 DEF Earlier, EarlierBids
  <1>4. ASSUME NEW b \in Adding, Passed' = Passed \cup {b}, at' = at
        PROVE  Earlier(d)' = Earlier(d)
    <2>1. b \in InHand /\ b \in Bids /\ pc[b] # "unsent" /\ at \in [Bids -> Nat]
      BY DEF Adding, InHand, TypeOK
    <2>2. ~(at[b] < at[d])
      BY <2>1 DEF AloneSound, TypeOK
    <2>3. EarlierBids(d)' = EarlierBids(d)
      BY <1>4, <2>2 DEF EarlierBids
    <2> QED BY <1>4, <2>3 DEF Earlier
  <1> QED BY <1>3, <1>4, TakenStep

\* What a bid that is alone counts has all times before it, unless the key may have expired.
LEMMA CountsEarlier ==
  ASSUME TypeOK, TimesKept, AloneSound, NEW d \in Bids, alone[d], d \in InHand,
         ~(at[d] + Ttl < now + WINDOW)
  PROVE  Earlier(d) \subseteq stamps
  <1> SUFFICES ASSUME NEW c \in EarlierBids(d) PROVE at[c] \in stamps
    BY DEF Earlier
  <1>1. c \in Passed /\ c \in Bids /\ at[c] < at[d] /\ at[c] + WINDOW > at[d]
    BY DEF EarlierBids, Passed
  <1>2. at \in [Bids -> Nat] /\ now \in Nat /\ WINDOW \in Nat /\ Ttl \in Nat
    BY Limits DEF TypeOK
  <1>3. ~(at[c] + Ttl <= now)
    BY <1>1, <1>2
  <1>4. ASSUME NEW e \in Bids, pc[e] # "unsent", at[c] + WINDOW <= at[e] PROVE FALSE
    <2>1. pc[d] # "unsent"
      BY DEF InHand
    <2>2. at[e] <= at[d]
      BY <1>2, <1>4, <2>1 DEF AloneSound
    <2> QED BY <1>1, <1>2, <1>4, <2>2
  <1> QED BY <1>1, <1>3, <1>4 DEF TimesKept

\* A bid in hand never becomes alone again.
LEMMA AloneStays ==
  ASSUME TypeOK, [Next]_vars, NEW d \in Bids, alone'[d], pc[d] # "unsent"
  PROVE  alone[d]
  <1>1. ASSUME NEW b \in Bids, Arrive(b) PROVE alone[d]
    <2>1. d # b
      BY <1>1 DEF Arrive
    <2>2. alone'[d] = IF d = b THEN InHand = {} ELSE IF d \in InHand THEN FALSE ELSE alone[d]
      BY <1>1, Zenon DEF Arrive
    <2> QED BY <2>1, <2>2
  <1>2. CASE ~\E b \in Bids : Arrive(b)
    BY <1>2 DEF Next, Intercept, Trim, Count, Add, Report, CallFails, KeyExpire, Tick, vars
  <1> QED BY <1>1, <1>2

\* The check lets a bid pass that was alone when it has room.
LEMMA CountFindsRoom ==
  ASSUME TypeOK, TimesKept, AloneSound, NEW d \in Bids, alone[d], Count(d), pc'[d] = "add"
  PROVE  \/ Cardinality(Earlier(d)) <= MAX_BIDS - 1
         \/ at[d] + Ttl < now + WINDOW
  <1>1. pc[d] = "count" /\ d \in InHand /\ ~Over(Cardinality(stamps))
    BY DEF Count, InHand, TypeOK
  <1>2. now \in Nat /\ stamps \in SUBSET (0 .. now)
    BY DEF TypeOK
  <1>3. CASE ~(at[d] + Ttl < now + WINDOW)
    <2>1. Earlier(d) \subseteq stamps
      BY <1>1, <1>3, CountsEarlier
    <2>2. Cardinality(Earlier(d)) \in Nat /\ Cardinality(stamps) \in Nat
          /\ Cardinality(Earlier(d)) <= Cardinality(stamps)
      BY <1>2, <2>1, SetsOfTimes
    <2> QED BY <1>1, <2>2, Limits DEF Over
  <1> QED BY <1>3

LEMMA RoomStep ==
  ASSUME TypeOK, TimesKept, AloneSound, RoomFound, [Next]_vars
  PROVE  RoomFound'
  <1> SUFFICES ASSUME NEW d \in Bids, alone'[d], pc'[d] = "add" \/ d \in Taken'
               PROVE  \/ Cardinality(Earlier(d)') <= MAX_BIDS - 1
                      \/ at'[d] + Ttl < (IF pc'[d] = "add" THEN now' ELSE takenAt'[d]) + WINDOW
    BY DEF RoomFound, Roomy
  <1>1. pc'[d] \in {"add", "passed", "charged"}
    BY DEF Taken
  <1>2. pc[d] # "unsent"
    BY <1>1, OutcomeStep DEF Count, Add
  <1>3. alone[d] /\ Earlier(d)' = Earlier(d) /\ at'[d] = at[d]
    BY <1>2, AloneStays, EarlierStep, SentStep
  <1>4. now' \in Nat /\ now \in Nat /\ now <= now' /\ at[d] \in Nat /\ Ttl \in Nat /\ WINDOW \in Nat
    <2>1. now' = now \/ now' = now + 1
      BY DEF Next, Intercept, Arrive, Trim, Count, Add, Report, CallFails, KeyExpire, Tick, vars
    <2> QED BY <2>1, Limits DEF TypeOK
  <1>5. CASE pc'[d] = "add" /\ pc[d] = "add"
    <2>1. \/ Cardinality(Earlier(d)) <= MAX_BIDS - 1
          \/ at[d] + Ttl < now + WINDOW
      BY <1>3, <1>5 DEF RoomFound, Roomy
    <2> QED BY <1>3, <1>4, <1>5, <2>1
  <1>6. CASE pc'[d] = "add" /\ pc[d] # "add"
    <2>1. Count(d) /\ now' = now
      BY <1>6, OutcomeStep DEF Count
    <2> QED BY <1>3, <1>6, <2>1, CountFindsRoom
  <1>7. CASE pc'[d] # "add" /\ pc[d] \in {"passed", "charged"}
    <2>1. d \in Taken /\ takenAt'[d] = takenAt[d]
      BY <1>7, TakenStep DEF Taken, TypeOK
    <2> QED BY <1>3, <1>7, <2>1 DEF RoomFound, Roomy
  <1>8. CASE pc'[d] # "add" /\ pc[d] \notin {"passed", "charged"}
    <2>1. Add(d)
      BY <1>1, <1>8, OutcomeStep
    <2>2. pc[d] = "add" /\ takenAt'[d] = now
      BY <2>1 DEF Add, TypeOK
    <2> QED BY <1>3, <1>8, <2>2 DEF RoomFound, Roomy
  <1> QED BY <1>5, <1>6, <1>7, <1>8

\* The times of orderly bids in a window are those before the latest of them, and its own.
LEMMA RoomLimits ==
  ASSUME TypeOK, RoomFound
  PROVE  SerialLimit
  <1> SUFFICES ASSUME NEW b \in Passed
               PROVE  Cardinality({at[c] : c \in {d \in InWindow(Passed, b, WINDOW) : Orderly(d)}}) <= MAX_BIDS
    BY DEF SerialLimit
  <1> DEFINE C == {d \in InWindow(Passed, b, WINDOW) : Orderly(d)}
             T == {at[c] : c \in C}
  <1>0. /\ at \in [Bids -> Nat] /\ at \in [Bids -> 0 .. now] /\ takenAt \in [Bids -> Nat]
        /\ now \in Nat /\ Ttl \in Nat /\ WINDOW \in Nat /\ MAX_BIDS \in Nat \ {0} /\ b \in Bids
    BY Limits DEF TypeOK, Passed
  <1>1. \A c \in C : c \in Taken /\ c \in Bids /\ pc[c] = "passed" /\ alone[c]
                     /\ takenAt[c] + WINDOW <= at[c] + Ttl /\ at[c] <= at[b] /\ at[c] + WINDOW > at[b]
    BY DEF InWindow, Orderly, Passed, Taken
  <1>2. T \in SUBSET (0 .. now)
    BY <1>0, <1>1
  <1>3. CASE T = {}
    BY <1>0, <1>3, FS_EmptySet
  <1>4. CASE T # {}
    <2>1. PICK m \in T : \A x \in T : x <= m
      <3> HIDE DEF T
      <3> QED BY <1>0, <1>2, <1>4, LatestTime
    <2>2. PICK d \in C : at[d] = m
      BY <2>1
    <2>3. Cardinality(Earlier(d)) <= MAX_BIDS - 1
      <3>1. Roomy(d) /\ ~(at[d] + Ttl < takenAt[d] + WINDOW) /\ pc[d] # "add"
        BY <1>0, <1>1, <2>2 DEF RoomFound
      <3> QED BY <3>1 DEF Roomy
    <2>4. T \ {m} \subseteq Earlier(d)
      <3> SUFFICES ASSUME NEW c \in C, at[c] # m PROVE c \in EarlierBids(d)
        BY DEF Earlier
      <3>1. c \in Passed /\ c \in Bids /\ d \in Bids
        BY <1>1, <2>2 DEF Passed
      <3>2. at[c] <= m /\ at[c] \in Nat /\ at[d] \in Nat /\ at[b] \in Nat
        BY <1>0, <2>1, <3>1
      <3>3. at[c] < at[d]
        BY <2>2, <3>2
      <3>4. at[c] + WINDOW > at[d]
        BY <1>0, <1>1, <2>2, <3>2
      <3> QED BY <3>1, <3>3, <3>4 DEF EarlierBids
    <2>5. Earlier(d) \in SUBSET (0 .. now)
      BY <1>0 DEF Earlier, EarlierBids, Passed
    <2>6. Cardinality(T \ {m}) \in Nat /\ Cardinality(Earlier(d)) \in Nat
          /\ Cardinality(T \ {m}) <= Cardinality(Earlier(d))
      <3> HIDE DEF T
      <3> QED BY <1>0, <2>4, <2>5, SetsOfTimes
    <2>7. Cardinality(T) = Cardinality(T \ {m}) + 1
      <3> HIDE DEF T
      <3> QED BY <1>0, <1>2, <2>1, SetsOfTimes
    <2>8. Cardinality(T) <= MAX_BIDS
      <3> HIDE DEF T
      <3> QED BY <1>0, <2>3, <2>6, <2>7
    <2> QED BY <2>8
  <1> QED BY <1>3, <1>4

\* The limit holds for the bids that are alone in the interceptor and quicker than the
\* expiry, one for each millisecond (bid-throttle.interceptor.ts).
THEOREM SerialBidsLimited == Spec => []SerialLimit
  <1>1. Init => SerialInv
    BY DEF Init, SerialInv, StampsSound, TimesKept, AloneSound, RoomFound, Taken, Passed
  <1>2. TypeOK /\ SerialInv /\ [Next]_vars => SerialInv'
    BY StampsStep, KeptStep, AloneStep, RoomStep DEF SerialInv
  <1>3. TypeOK /\ SerialInv => SerialLimit
    BY RoomLimits DEF SerialInv
  <1> QED BY <1>1, <1>2, <1>3, ThrottleTypeCorrect, PTL DEF Spec
=============================================================================
