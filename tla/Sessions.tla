------------------------------- MODULE Sessions -------------------------------
(***************************************************************************)
(* The sockets of the auction namespace: how a message passes the rate-limit *)
(* guard (ws-connection-rate-limit.guard.ts), how joinAuction registers a    *)
(* socket in Redis and puts it in the room of an auction, and how it is      *)
(* unregistered when it disconnects (auction.gateway.ts, redis.service.ts).  *)
(*                                                                           *)
(* Handlers run concurrently, also those of one socket, and a disconnect     *)
(* stops none of them.  Every await is a boundary between two actions; a     *)
(* Redis MULTI is one action.  All sockets present a token that is valid when *)
(* they send their first message, and may expire later.                       *)
(***************************************************************************)
EXTENDS Integers, FiniteSets

CONSTANTS
  Sockets, Users, Ips, Auctions,
  UserOf,        \* the user of each socket's token
  IpOf,          \* the normalized address of each socket
  Known,         \* the auctions that exist
  Requests,      \* the messages of all sockets
  None,          \* an absent key
  MaxPerUser,    \* MAX_SOCKETS_PER_USER
  MaxPerIp,      \* MAX_SOCKETS_PER_IP
  KeysExpire     \* do sessions last longer than REDIS_TTL?

ASSUME OwnersAssumption == UserOf \in [Sockets -> Users] /\ IpOf \in [Sockets -> Ips]
ASSUME KnownAssumption == Known \subseteq Auctions
ASSUME AbsentAssumption == None \notin Users \cup Ips \cup Auctions \cup Sockets
ASSUME LimitsAssumption == MaxPerUser \in Nat /\ MaxPerIp \in Nat /\ KeysExpire \in BOOLEAN

VARIABLES
  connected,    \* the sockets that are connected
  rooms,        \* Socket.IO: the sockets in the room of each auction
  closed,       \* the auctions whose row is closed
  announced,    \* the auctions whose auctionEnd was broadcast
  userSockets,  \* user:<name>:sockets
  ipSockets,    \* ip:<ip>:sockets
  nameKey,      \* socket:<id>:username
  ipKey,        \* socket:<id>:ip
  auctionKey,   \* socket:<id>:auctionId
  online,       \* auction:<id>:username, the users shown as online
  userAuction,  \* user:<name>:<auctionId>, the user's sockets in an auction
  request,      \* per message: where its guards and its handler stand
  leaving,      \* per socket: where handleDisconnect stands
  late,         \* history: sockets registered after they were unregistered
  overlap,      \* history: the most joins that were between the guard and the registration at once
  raced         \* history: sockets registered in an auction while their user was being taken off its list

socketVars == <<connected, rooms>>
auctionVars == <<closed, announced>>
countVars == <<userSockets, ipSockets>>
keyVars == <<nameKey, ipKey, auctionKey>>
presenceVars == <<online, userAuction>>
vars == <<connected, rooms, closed, announced, userSockets, ipSockets, nameKey, ipKey, auctionKey,
          online, userAuction, request, leaving, late, overlap, raced>>

historyVars == <<late, overlap, raced>>

Unsent ==
  [pc |-> "unsent", socket |-> None, auction |-> None, join |-> FALSE, verified |-> FALSE, open |-> FALSE]
NotLeaving == [pc |-> "connected", name |-> None, ip |-> None, auction |-> None]

Init ==
  /\ connected = Sockets
  /\ rooms = [a \in Auctions |-> {}]
  /\ closed = {}
  /\ announced = {}
  /\ userSockets = [u \in Users |-> {}]
  /\ ipSockets = [i \in Ips |-> {}]
  /\ nameKey = [s \in Sockets |-> None]
  /\ ipKey = [s \in Sockets |-> None]
  /\ auctionKey = [s \in Sockets |-> None]
  /\ online = [a \in Auctions |-> {}]
  /\ userAuction = [u \in Users |-> [a \in Auctions |-> {}]]
  /\ request = [r \in Requests |-> Unsent]
  /\ leaving = [s \in Sockets |-> NotLeaving]
  /\ late = {}
  /\ overlap = 0
  /\ raced = {}

-----------------------------------------------------------------------------
(* Connections *)

\* The sockets of S that are connected are closed, by the client or by the server:
\* they leave their rooms, and handleDisconnect starts for each of them.
Drop(S) ==
  /\ connected' = connected \ S
  /\ rooms' = [a \in Auctions |-> rooms[a] \ S]
  /\ leaving' = [s \in Sockets |->
                   IF s \in S \cap connected THEN [leaving[s] EXCEPT !.pc = "name"] ELSE leaving[s]]

\* The client closes its connection, or loses it.
Disconnect(s) ==
  /\ s \in connected
  /\ Drop({s})
  /\ UNCHANGED <<auctionVars, countVars, keyVars, presenceVars, request, historyVars>>

At(r, pc) == request[r].pc = pc
Goto(r, pc) == request' = [request EXCEPT ![r].pc = pc]

\* Whether the token of a socket may verify, or not, with its next message.  It does with
\* the first one, which gives the socket the client.user that lets its later messages pass
\* the auth guard; when it has expired, it never does again.  (A first message that is
\* rejected does not give the socket client.user: more may pass here than in the code.)
MayVerify(s, verified) ==
  LET earlier == {q \in Requests : request[q].socket = s} IN
    IF verified THEN \A q \in earlier : request[q].verified ELSE earlier # {}

\* A connected client sends joinAuction, or another message (join is FALSE), which
\* passes the same guard.  The guard begins with the verification of the token.
Send(r, s, a, join, verified) ==
  /\ At(r, "unsent")
  /\ s \in connected
  /\ MayVerify(s, verified)
  /\ request' = [request EXCEPT ![r] =
                   [pc |-> "user", socket |-> s, auction |-> IF join THEN a ELSE None, join |-> join,
                    verified |-> verified, open |-> FALSE]]
  /\ UNCHANGED <<socketVars, auctionVars, countVars, keyVars, presenceVars, leaving, historyVars>>

-----------------------------------------------------------------------------
(* WsConnectionRateLimitGuard *)

\* Mutated form of Over: the limit is off by one more.
OverByTwo(S, limit) == Cardinality(S) > limit + 1

\* The guard lets up to one socket more than the limit be counted.
Over(S, limit) == Cardinality(S) > limit

\* The joins that a guard has let pass and that are not registered yet.
Passing == {r \in Requests : request[r].join /\ request[r].pc \in {"ip", "load", "register"}}

\* The sockets of the user are counted, but only if the token was verified.
CheckUser(r) ==
  /\ At(r, "user")
  /\ Goto(r, IF request[r].verified /\ Over(userSockets[UserOf[request[r].socket]], MaxPerUser)
             THEN "reject" ELSE "ip")
  /\ overlap' = IF Cardinality(Passing') > overlap THEN Cardinality(Passing') ELSE overlap
  /\ UNCHANGED <<socketVars, auctionVars, countVars, keyVars, presenceVars, leaving, late, raced>>

CheckIp(r) ==
  /\ At(r, "ip")
  /\ Goto(r, CASE Over(ipSockets[IpOf[request[r].socket]], MaxPerIp) -> "reject"
               [] ~Over(ipSockets[IpOf[request[r].socket]], MaxPerIp) /\ request[r].join -> "load"
               [] OTHER -> "done")
  /\ UNCHANGED <<socketVars, auctionVars, countVars, keyVars, presenceVars, leaving, historyVars>>

\* The client is disconnected once the audit event is sent.
Reject(r) ==
  /\ At(r, "reject")
  /\ Drop({request[r].socket})
  /\ Goto(r, "done")
  /\ UNCHANGED <<auctionVars, countVars, keyVars, presenceVars, historyVars>>

\* The audit event cannot be sent: the guard throws before it disconnects the client.
RejectThrows(r) ==
  /\ At(r, "reject")
  /\ Goto(r, "done")
  /\ UNCHANGED <<socketVars, auctionVars, countVars, keyVars, presenceVars, leaving, historyVars>>

-----------------------------------------------------------------------------
(* handleJoinAuction *)

\* Mutated form of LoadAuction: the socket enters the room before it is registered.
LoadAndEnter(r) ==
  /\ At(r, "load")
  /\ request[r].auction \in Known
  /\ request' = [request EXCEPT ![r].pc = "enter", ![r].open = request[r].auction \notin closed]
  /\ UNCHANGED <<socketVars, auctionVars, countVars, keyVars, presenceVars, leaving, historyVars>>

\* The auction exists, and its state is kept for the end of the handler.
LoadAuction(r) ==
  /\ At(r, "load")
  /\ request[r].auction \in Known
  /\ request' = [request EXCEPT ![r].pc = "register", ![r].open = request[r].auction \notin closed]
  /\ UNCHANGED <<socketVars, auctionVars, countVars, keyVars, presenceVars, leaving, historyVars>>

\* The auction does not exist: the client is disconnected.
TurnAway(r) ==
  /\ At(r, "load")
  /\ request[r].auction \notin Known
  /\ Drop({request[r].socket})
  /\ Goto(r, "done")
  /\ UNCHANGED <<auctionVars, countVars, keyVars, presenceVars, historyVars>>

\* A socket has found that the user has no other in the auction, and has yet to take the
\* user off its list.
BeingTakenOff(u, a) ==
  \E t \in Sockets : leaving[t].pc = "offline" /\ leaving[t].name = u /\ leaving[t].auction = a

\* registerSocket: one MULTI.
Register(r) ==
  LET s == request[r].socket
      u == UserOf[s]
      i == IpOf[s]
      a == request[r].auction
  IN /\ At(r, "register")
     /\ ipSockets' = [ipSockets EXCEPT ![i] = @ \cup {s}]
     /\ userSockets' = [userSockets EXCEPT ![u] = @ \cup {s}]
     /\ ipKey' = [ipKey EXCEPT ![s] = i]
     /\ nameKey' = [nameKey EXCEPT ![s] = u]
     /\ auctionKey' = [auctionKey EXCEPT ![s] = a]
     /\ online' = [online EXCEPT ![a] = @ \cup {u}]
     /\ userAuction' = [userAuction EXCEPT ![u][a] = @ \cup {s}]
     /\ late' = IF leaving[s].pc \in {"count", "offline", "done"} THEN late \cup {s} ELSE late
     /\ raced' = IF BeingTakenOff(u, a) THEN raced \cup {<<s, a>>} ELSE raced \ {<<s, a>>}
     /\ Goto(r, "enter")
     /\ UNCHANGED <<socketVars, auctionVars, leaving, overlap>>

\* The room once the socket has entered it; join is void after a disconnect.
RoomWith(s, a) == rooms[a] \cup ({s} \cap connected)

\* The socket enters the room and is told the state that was loaded; it is
\* disconnected when that state was closed.  The state is gone with the handler.
Enter(r) ==
  LET s == request[r].socket
      a == request[r].auction
  IN /\ At(r, "enter")
     /\ IF request[r].open
        THEN rooms' = [rooms EXCEPT ![a] = RoomWith(s, a)] /\ UNCHANGED <<connected, leaving>>
        ELSE Drop({s})
     /\ request' = [request EXCEPT ![r].pc = "done", ![r].open = FALSE]
     /\ UNCHANGED <<auctionVars, countVars, keyVars, presenceVars, historyVars>>

-----------------------------------------------------------------------------
(* endAuction, as far as sockets see it *)

\* The row is closed.
Close(a) ==
  /\ a \in Known \ closed
  /\ closed' = closed \cup {a}
  /\ UNCHANGED <<socketVars, announced, countVars, keyVars, presenceVars, request, leaving, historyVars>>

\* auctionEnd reaches the subscriber, which disconnects all sockets of the room.
Broadcast(a) ==
  /\ a \in closed \ announced
  /\ announced' = announced \cup {a}
  /\ Drop(rooms[a])
  /\ UNCHANGED <<closed, countVars, keyVars, presenceVars, request, historyVars>>

-----------------------------------------------------------------------------
(* unregisterSocket *)

\* The first read: a socket that has no username key was not registered.
ReadName(s) ==
  /\ leaving[s].pc = "name"
  /\ leaving' = [leaving EXCEPT ![s].pc = IF nameKey[s] = None THEN "done" ELSE "address",
                                ![s].name = nameKey[s]]
  /\ UNCHANGED <<socketVars, auctionVars, countVars, keyVars, presenceVars, request, historyVars>>

ReadAddress(s) ==
  /\ leaving[s].pc = "address"
  /\ leaving' = [leaving EXCEPT ![s].pc = "auction", ![s].ip = ipKey[s]]
  /\ UNCHANGED <<socketVars, auctionVars, countVars, keyVars, presenceVars, request, historyVars>>

ReadAuction(s) ==
  /\ leaving[s].pc = "auction"
  /\ leaving' = [leaving EXCEPT ![s].pc = "remove", ![s].auction = auctionKey[s]]
  /\ UNCHANGED <<socketVars, auctionVars, countVars, keyVars, presenceVars, request, historyVars>>

\* Mutated form of RemoveCounts: the user's set of sockets is forgotten.
RemoveIpCount(s, was) ==
  /\ ipSockets' = [i \in Ips |-> IF i = was.ip THEN ipSockets[i] \ {s} ELSE ipSockets[i]]
  /\ UNCHANGED userSockets

\* The socket is removed from the sets that limit connections; an address key that
\* had expired names a set that does not exist.
RemoveCounts(s, was) ==
  /\ ipSockets' = [i \in Ips |-> IF i = was.ip THEN ipSockets[i] \ {s} ELSE ipSockets[i]]
  /\ userSockets' = [userSockets EXCEPT ![was.name] = @ \ {s}]

\* Mutated form of RemoveKeys: the auction's key is left.
RemoveNameAndIp(s) ==
  /\ ipKey' = [ipKey EXCEPT ![s] = None]
  /\ nameKey' = [nameKey EXCEPT ![s] = None]
  /\ UNCHANGED auctionKey

\* The keys of the socket are deleted.
RemoveKeys(s) ==
  /\ ipKey' = [ipKey EXCEPT ![s] = None]
  /\ nameKey' = [nameKey EXCEPT ![s] = None]
  /\ auctionKey' = [auctionKey EXCEPT ![s] = None]

\* The MULTI that removes the socket, by what the three reads returned.
Remove(s) ==
  LET was == leaving[s] IN
    /\ was.pc = "remove"
    /\ RemoveCounts(s, was)
    /\ RemoveKeys(s)
    /\ userAuction' = [userAuction EXCEPT ![was.name] =
                         [a \in Auctions |-> IF a = was.auction THEN @[a] \ {s} ELSE @[a]]]
    /\ leaving' = [leaving EXCEPT ![s].pc = "count"]
    /\ UNCHANGED <<socketVars, auctionVars, online, request, historyVars>>

\* Mutated form of Remaining: the user's sockets of all auctions are counted.
RemainingAnywhere(was) == userSockets[was.name]

\* The sockets the user has left in the auction are counted.
Remaining(was) == IF was.auction = None THEN {} ELSE userAuction[was.name][was.auction]

\* Mutated form of CountRemaining: the number of sockets that are left is not looked at.
CountNothing(s) ==
  /\ leaving[s].pc = "count"
  /\ leaving' = [leaving EXCEPT ![s].pc = "offline"]
  /\ UNCHANGED <<socketVars, auctionVars, countVars, keyVars, presenceVars, request, historyVars>>

CountRemaining(s) ==
  /\ leaving[s].pc = "count"
  /\ leaving' = [leaving EXCEPT ![s].pc = IF Remaining(leaving[s]) = {} THEN "offline" ELSE "done"]
  /\ UNCHANGED <<socketVars, auctionVars, countVars, keyVars, presenceVars, request, historyVars>>

\* A user with none is shown as offline.
GoOffline(s) ==
  LET was == leaving[s] IN
    /\ was.pc = "offline"
    /\ online' = [a \in Auctions |-> IF a = was.auction THEN online[a] \ {was.name} ELSE online[a]]
    /\ leaving' = [leaving EXCEPT ![s].pc = "done"]
    /\ UNCHANGED <<socketVars, auctionVars, countVars, keyVars, userAuction, request, historyVars>>

-----------------------------------------------------------------------------
(* Redis forgets.  Keys of one MULTI have one time to live; that of a set is      *)
(* renewed by each registration, so that it is past only when those of its        *)
(* members' own keys are.                                                          *)

Expired(S) == \A s \in S : nameKey[s] = None

ExpireSocket(s) ==
  /\ KeysExpire
  /\ nameKey[s] # None
  /\ nameKey' = [nameKey EXCEPT ![s] = None]
  /\ ipKey' = [ipKey EXCEPT ![s] = None]
  /\ auctionKey' = [auctionKey EXCEPT ![s] = None]
  /\ UNCHANGED <<socketVars, auctionVars, countVars, presenceVars, request, leaving, historyVars>>

\* Mutated form of ExpireUser: user:<name>:sockets is given no time to live.
ExpireUserNever(u) ==
  /\ FALSE
  /\ UNCHANGED vars

ExpireUser(u) ==
  /\ KeysExpire
  /\ userSockets[u] # {}
  /\ Expired(userSockets[u])
  /\ userSockets' = [userSockets EXCEPT ![u] = {}]
  /\ UNCHANGED <<socketVars, auctionVars, ipSockets, keyVars, presenceVars, request, leaving, historyVars>>

ExpireIp(i) ==
  /\ KeysExpire
  /\ ipSockets[i] # {}
  /\ Expired(ipSockets[i])
  /\ ipSockets' = [ipSockets EXCEPT ![i] = {}]
  /\ UNCHANGED <<socketVars, auctionVars, userSockets, keyVars, presenceVars, request, leaving, historyVars>>

\* A set of an auction is renewed by the registrations for that auction alone.
ExpireUserAuction(u, a) ==
  /\ KeysExpire
  /\ userAuction[u][a] # {}
  /\ \A s \in userAuction[u][a] : auctionKey[s] # a
  /\ userAuction' = [userAuction EXCEPT ![u][a] = {}]
  /\ UNCHANGED <<socketVars, auctionVars, countVars, keyVars, online, request, leaving, historyVars>>

ExpireOnline(a) ==
  /\ KeysExpire
  /\ online[a] # {}
  /\ \A s \in Sockets : auctionKey[s] # a
  /\ online' = [online EXCEPT ![a] = {}]
  /\ UNCHANGED <<socketVars, auctionVars, countVars, keyVars, userAuction, request, leaving, historyVars>>

-----------------------------------------------------------------------------
(* The specification *)

Handle(r) ==
  CheckUser(r) \/ CheckIp(r) \/ Reject(r) \/ RejectThrows(r) \/ LoadAuction(r) \/ TurnAway(r)
    \/ Register(r) \/ Enter(r)

Unregister(s) ==
  ReadName(s) \/ ReadAddress(s) \/ ReadAuction(s) \/ Remove(s) \/ CountRemaining(s) \/ GoOffline(s)

Next ==
  \/ \E r \in Requests :
       \/ \E s \in Sockets, a \in Auctions : \E join, verified \in BOOLEAN : Send(r, s, a, join, verified)
       \/ Handle(r)
  \/ \E s \in Sockets : Disconnect(s) \/ Unregister(s) \/ ExpireSocket(s)
  \/ \E a \in Auctions : Close(a) \/ Broadcast(a) \/ ExpireOnline(a)
  \/ \E u \in Users : ExpireUser(u) \/ \E a \in Auctions : ExpireUserAuction(u, a)
  \/ \E i \in Ips : ExpireIp(i)

\* Handlers that have started go on, and Redis expires keys.  Nobody has to connect,
\* to send or to leave.
Fairness ==
  /\ \A r \in Requests : WF_vars(Handle(r))
  /\ \A s \in Sockets : WF_vars(Unregister(s)) /\ WF_vars(ExpireSocket(s))
  /\ \A u \in Users : WF_vars(ExpireUser(u))

SafeSpec == Init /\ [][Next]_vars

Spec == SafeSpec /\ Fairness

-----------------------------------------------------------------------------
(* Properties *)

RequestTypes ==
  [pc : {"unsent", "user", "ip", "reject", "load", "register", "enter", "done"},
   socket : Sockets \cup {None}, auction : Auctions \cup {None}, join : BOOLEAN, verified : BOOLEAN,
   open : BOOLEAN]

LeavingTypes ==
  [pc : {"connected", "name", "address", "auction", "remove", "count", "offline", "done"},
   name : Users \cup {None}, ip : Ips \cup {None}, auction : Auctions \cup {None}]

\* The keys of a socket name its user, its address and an auction together or not at
\* all, and a socket with keys is counted: an unregistration that finds the name can
\* find the rest.
KeysAgree ==
  \A s \in Sockets :
    /\ nameKey[s] = None <=> auctionKey[s] = None
    /\ nameKey[s] = None <=> ipKey[s] = None
    /\ nameKey[s] # None => nameKey[s] = UserOf[s] /\ s \in userSockets[UserOf[s]]

\* The variables have their types, and a socket is being unregistered exactly when it
\* is not connected.
Types ==
  /\ connected \subseteq Sockets
  /\ rooms \in [Auctions -> SUBSET connected]
  /\ announced \subseteq closed /\ closed \subseteq Known
  /\ userSockets \in [Users -> SUBSET Sockets]
  /\ ipSockets \in [Ips -> SUBSET Sockets]
  /\ nameKey \in [Sockets -> Users \cup {None}]
  /\ ipKey \in [Sockets -> Ips \cup {None}]
  /\ auctionKey \in [Sockets -> Auctions \cup {None}]
  /\ online \in [Auctions -> SUBSET Users]
  /\ userAuction \in [Users -> [Auctions -> SUBSET Sockets]]
  /\ request \in [Requests -> RequestTypes]
  /\ leaving \in [Sockets -> LeavingTypes]
  /\ \A s \in Sockets : s \in connected <=> leaving[s].pc = "connected"
  /\ late \subseteq Sockets \ connected
  /\ overlap \in Nat
  /\ raced \subseteq Sockets \X Auctions

\* The state has its types, and the keys agree.  (Sessions shorter than the time to live.)
TypeOK == Types /\ KeysAgree

\* Every socket in a room is counted against the limits of its user and of its
\* address, and its user has a socket on record in that auction: what a join and the
\* disconnects of other sockets do, in any order, never hides it.  (Sessions shorter
\* than the time to live.)
RoomMembersAreCounted ==
  \A a \in Auctions : \A s \in rooms[a] :
    /\ s \in userSockets[UserOf[s]]
    /\ s \in ipSockets[IpOf[s]]
    /\ s \in userAuction[UserOf[s]][a]
    /\ nameKey[s] = UserOf[s]

\* A socket that has been unregistered is counted no longer, unless a join that was
\* under way registered it again.
OnlyLateJoinsLeak ==
  \A s \in Sockets \ (connected \cup late) :
    leaving[s].pc \in {"count", "offline", "done"} =>
      s \notin userSockets[UserOf[s]] /\ s \notin ipSockets[IpOf[s]] /\ nameKey[s] = None

\* The socket has asked to join with a token that was no longer valid.
JoinsUnverified(s) == \E r \in Requests : request[r].socket = s /\ request[r].join /\ ~request[r].verified

\* An address has at most one socket more than its limit for each join that was between
\* the guard, which counts, and the registration at the same time.  So has a user, but
\* for sockets that joined after their token had expired: the guard passes them without a
\* look at the user's count.
OverrunIsBounded ==
  /\ \A u \in Users : Cardinality({s \in userSockets[u] : ~JoinsUnverified(s)}) <= MaxPerUser + overlap
  /\ \A i \in Ips : Cardinality(ipSockets[i]) <= MaxPerIp + overlap

\* Nothing is under way that changes where a user is shown as online.
Settled(u) ==
  /\ \A r \in Requests : At(r, "register") => UserOf[request[r].socket] # u
  /\ \A s \in Sockets : UserOf[s] = u => leaving[s].pc \in {"connected", "done"}

\* The socket has asked to join more than one auction.
JoinsTwice(s) ==
  \E r, q \in Requests :
    /\ request[r].socket = s /\ request[q].socket = s
    /\ None \notin {request[r].auction, request[q].auction}
    /\ request[r].auction # request[q].auction

\* A user who is shown as online in an auction has a socket there, unless a join was
\* registered after its disconnect or a second join has replaced the socket's auction
\* key, so that its disconnect forgot the first auction.
ShownOnlineForACause ==
  \A u \in Users : \A a \in Auctions :
    Settled(u) /\ u \in online[a] =>
      \E s \in Sockets :
        /\ UserOf[s] = u
        /\ (s \in connected /\ auctionKey[s] = a) \/ s \in late \/ JoinsTwice(s)

\* The user of a socket in the room is shown as online there, unless another socket of
\* the user had found none left in the auction before this one was registered, and took
\* the user off the list afterwards: the count and the removal are two calls.
MembersAreShownOnline ==
  \A a \in Auctions : \A s \in rooms[a] : UserOf[s] \in online[a] \/ <<s, a>> \in raced

\* With keys that expire, the sockets that leaked do not count against their user for
\* ever: once the user stops joining, the set is gone.
LeaksExpire == \A u \in Users : <>[](userSockets[u] = {})

=============================================================================
