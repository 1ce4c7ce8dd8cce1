----------------------------- MODULE BidThrottle -----------------------------
(***************************************************************************)
(* BidThrottleInterceptor.intercept: the limit on the bids of one user.     *)
(*                                                                         *)
(* Redis keeps, under one key per user, a sorted set with the time in       *)
(* milliseconds of each bid that was let through.  A bid                    *)
(*   takes the time, removes the times that have left the window, counts    *)
(*   the rest, and is refused or adds its own time and goes on;             *)
(* every one of these calls is awaited, so that the bids of a user with     *)
(* several sockets, or with several messages on one, interleave between     *)
(* them.  Score and member of an entry both are the time of the bid: the    *)
(* sorted set is a set of times.                                            *)
(***************************************************************************)
EXTENDS Naturals, FiniteSets

CONSTANTS
  Bids,           \* the placeBid messages of one user
  MaxInFlight,    \* bound: messages in the interceptor at once
  MaxTime,        \* bound: the last tick of the clock
  EnvMaxSockets,  \* MAX_SOCKETS_PER_USER of the environment
  Unset,          \* its value when the environment does not have it
  PerSecond,      \* bound: ticks of the clock in a second (1000 in the code)
  Ttl             \* REDIS_TTL, in ticks

\* constants.ts reads MAX_SOCKETS_PER_USER for both limits, and MAX_BIDS and WINDOW_SECONDS
\* of the environment for none.
FromEnv(default) == IF EnvMaxSockets = Unset THEN default ELSE EnvMaxSockets

MAX_BIDS == FromEnv(5)
WINDOW == FromEnv(10) * PerSecond

ASSUME ThrottleAssumption ==
  /\ IsFiniteSet(Bids)
  /\ MaxInFlight \in Nat \ {0}
  /\ MaxTime \in Nat
  /\ EnvMaxSockets \in (Nat \ {0}) \cup {Unset}
  /\ PerSecond \in Nat \ {0}
  /\ Ttl \in Nat /\ Ttl >= WINDOW

VARIABLES
  now,       \* Date.now(), in ticks
  stamps,    \* the sorted set user:{username}:bid_timestamps
  renewed,   \* when the key's time to live was last set: the key expires Ttl later
  lasts,     \* the key has no time to live
  pc,        \* pc[b]: the call that bid b awaits, or its outcome
  at,        \* at[b]: the time that bid b took
  takenAt,   \* history: when bid b was added to the set
  alone      \* history: no other bid was in the interceptor with b

keyVars == <<stamps, renewed, lasts>>
vars == <<now, keyVars, pc, at, takenAt, alone>>

InHand == {b \in Bids : pc[b] \in {"trim", "count", "add"}}

Init ==
  /\ now = 0
  /\ stamps = {}
  /\ renewed = 0
  /\ lasts = FALSE
  /\ pc = [b \in Bids |-> "unsent"]
  /\ at = [b \in Bids |-> 0]
  /\ takenAt = [b \in Bids |-> 0]
  /\ alone = [b \in Bids |-> TRUE]

-----------------------------------------------------------------------------
(* The steps of intercept. *)

\* Mutated form of Trimmed: the end of the range is exclusive.
TrimmedExclusive(s, t) == {x \in s : x + WINDOW >= t}

\* zremrangebyscore(key, 0, now - WINDOW * 1000): what is left of set s at
\* time t.  Both ends of the range are inclusive.
Trimmed(s, t) == {x \in s : x + WINDOW > t}

\* Mutated form of Over: the limit itself passes.
OverTooLate(count) == count > MAX_BIDS

\* Whether a bid that sees count entries is refused.
Over(count) == count >= MAX_BIDS

\* Mutated form of Member: the end of the window is recorded.
MemberIsExpiry(t) == t + WINDOW

\* The member of the sorted set a bid at time t is recorded as.
Member(t) == t

Arrive(b) ==
  /\ pc[b] = "unsent"
  /\ Cardinality(InHand) < MaxInFlight
  /\ pc' = [pc EXCEPT ![b] = "trim"]
  /\ at' = [at EXCEPT ![b] = now]
  /\ alone' = [c \in Bids |->
                 CASE c = b         -> InHand = {}
                   [] c \in InHand  -> FALSE
                   [] OTHER         -> alone[c]]
  /\ UNCHANGED <<now, keyVars, takenAt>>

Trim(b) ==
  /\ pc[b] = "trim"
  /\ stamps' = Trimmed(stamps, at[b])
  /\ pc' = [pc EXCEPT ![b] = "count"]
  /\ UNCHANGED <<now, renewed, lasts, at, takenAt, alone>>

\* zcard, and what the bid does with it before it awaits anything else.
Count(b) ==
  /\ pc[b] = "count"
  /\ pc' = [pc EXCEPT ![b] = IF Over(Cardinality(stamps)) THEN "report" ELSE "add"]
  /\ UNCHANGED <<now, keyVars, at, takenAt, alone>>

\* EXPIRE after the ZADD.
Renew == renewed' = now /\ lasts' = FALSE

\* No EXPIRE after the ZADD: the key keeps the time to live it has, and a new key has none.
NotRenewed == renewed' = renewed /\ lasts' = (lasts \/ stamps = {})

\* RedisService.zadd sends ZADD and EXPIRE in one go.  When the answer to the
\* second is an error, or does not come, the bid is counted and goes no further.
Add(b) ==
  /\ pc[b] = "add"
  /\ stamps' = stamps \cup {Member(at[b])}
  /\ takenAt' = [takenAt EXCEPT ![b] = now]
  /\ \/ pc' = [pc EXCEPT ![b] = "passed"] /\ Renew
     \/ pc' = [pc EXCEPT ![b] = "charged"] /\ (Renew \/ NotRenewed)
  /\ UNCHANGED <<now, at, alone>>

\* rateLimitExceeded, then the exception; if Kafka fails, its exception.
Report(b) ==
  /\ pc[b] = "report"
  /\ pc' = [pc EXCEPT ![b] = "refused"]
  /\ UNCHANGED <<now, keyVars, at, takenAt, alone>>

\* A call to Redis that fails: the exception ends the message.
CallFails(b) ==
  /\ b \in InHand
  /\ pc' = [pc EXCEPT ![b] = "failed"]
  /\ UNCHANGED <<now, keyVars, at, takenAt, alone>>

\* The whole key goes when its time to live is over.
KeyExpire ==
  /\ stamps # {}
  /\ ~lasts
  /\ now >= renewed + Ttl
  /\ stamps' = {}
  /\ UNCHANGED <<now, renewed, lasts, pc, at, takenAt, alone>>

Tick ==
  /\ now < MaxTime
  /\ now' = now + 1
  /\ UNCHANGED <<keyVars, pc, at, takenAt, alone>>

Intercept(b) ==
  Arrive(b) \/ Trim(b) \/ Count(b) \/ Add(b) \/ Report(b) \/ CallFails(b)

Next == (\E b \in Bids : Intercept(b)) \/ KeyExpire \/ Tick

Spec == Init /\ [][Next]_vars

-----------------------------------------------------------------------------
(* Properties. *)

States == {"unsent", "trim", "count", "add", "report",
           "passed", "charged", "refused", "failed"}

\* Every time that is kept is one the clock has shown (BidThrottleInterceptor
\* lines 52 and 83: scores are times of bids, never deadlines).
TypeOK ==
  /\ now \in 0 .. MaxTime
  /\ stamps \subseteq 0 .. now
  /\ renewed \in 0 .. now
  /\ lasts \in BOOLEAN
  /\ pc \in [Bids -> States]
  /\ at \in [Bids -> 0 .. now]
  /\ takenAt \in [Bids -> 0 .. now]
  /\ alone \in [Bids -> BOOLEAN]

Passed == {b \in Bids : pc[b] = "passed"}
Taken == {b \in Bids : pc[b] \in {"passed", "charged"}}

\* The bids of S placed in the window of length w that ends with bid b.
InWindow(S, b, w) == {c \in S : at[c] <= at[b] /\ at[c] + w > at[b]}

\* No bid is refused to a user who kept to the limit: since the window before
\* it opened, MAX_BIDS other bids were added to the set (lines 54-63).  Bids
\* that were themselves refused never count, however often the user tries.
RefusedForCause ==
  \A b \in Bids :
    pc[b] \in {"report", "refused"} =>
      Cardinality({c \in Taken : takenAt[c] + WINDOW > at[b]}) >= MAX_BIDS

\* A bid that was never in the interceptor together with another, and did not
\* take so long that the key expired under it (an hour, in the code).
Orderly(b) == alone[b] /\ takenAt[b] + WINDOW <= at[b] + Ttl

\* The limit holds for the orderly bids that come in different milliseconds,
\* whatever the bids between them do to the set: the only ways past it are the
\* overlap and the millisecond (lines 61-83).
SerialLimit ==
  \A b \in Passed :
    Cardinality({at[c] : c \in {d \in InWindow(Passed, b, WINDOW) : Orderly(d)}})
      <= MAX_BIDS

\* However bids overlap, those past the check and those in the set are at most
\* MAX_BIDS - 1 more than the messages in the interceptor at once (lines
\* 61-83): the excess is bounded by the concurrency and does not build up.
OverrunIsBounded ==
  Cardinality(stamps) + Cardinality({b \in Bids : pc[b] = "add"})
    <= (MAX_BIDS - 1) + MaxInFlight
=============================================================================
