---------------------------- MODULE SessionsProofs ----------------------------
(***************************************************************************)
(* Theorems about Sessions, for every number of sockets, users, addresses,  *)
(* auctions and messages, and for any limits.                               *)
(***************************************************************************)
EXTENDS Sessions, FiniteSetTheorems, TLAPS

-----------------------------------------------------------------------------
(* Requests: what a message that a handler works on carries *)

Joining == {"load", "register", "enter"}

RequestSound(r) ==
  /\ At(r, "unsent") => request[r] = Unsent
  /\ ~At(r, "unsent") => request[r].socket \in Sockets
  /\ request[r].join => request[r].auction \in Auctions
  /\ request[r].pc \in Joining => request[r].join

RequestsSound == \A r \in Requests : RequestSound(r)

\* A message is sent, is at most one step further, or stays where it is; its socket, its
\* auction and its kind stay.
Proceeds(r) ==
  \/ request' = request
  \/ /\ At(r, "unsent") /\ At(r, "user")'
     /\ request'[r].socket \in connected
     /\ request' = [request EXCEPT ![r] = request'[r]]
     /\ request'[r].join => request'[r].auction \in Auctions
  \/ /\ ~At(r, "unsent") /\ ~At(r, "unsent")'
     /\ request'[r].socket = request[r].socket
     /\ request'[r].auction = request[r].auction
     /\ request'[r].join = request[r].join
     /\ request'[r].verified = request[r].verified
     /\ request' = [request EXCEPT ![r] = request'[r]]
     /\ request'[r].pc \in Joining => request[r].join

\* Every action that a message takes part in makes it proceed.
LEMMA HandlersProceed ==
  ASSUME Types, RequestsSound, NEW r \in Requests,
         (\E s \in Sockets, a \in Auctions : \E join, verified \in BOOLEAN : Send(r, s, a, join, verified)) \/ Handle(r)
  PROVE  Proceeds(r) /\ request' \in [Requests -> RequestTypes]
  <1>0. request \in [Requests -> RequestTypes] /\ RequestSound(r)
    BY DEF Types, RequestsSound
  <1>1. ASSUME NEW s \in Sockets, NEW a \in Auctions, NEW join \in BOOLEAN, NEW verified \in BOOLEAN,
               Send(r, s, a, join, verified)
        PROVE  Proceeds(r) /\ request' \in [Requests -> RequestTypes]
    BY <1>0, <1>1 DEF Send, At, Proceeds, RequestTypes, Types
  <1>2. ASSUME NEW pc \in {"user", "ip", "reject", "load", "register", "enter", "done"},
               Goto(r, pc), ~At(r, "unsent"), pc \in Joining => request[r].join
        PROVE  Proceeds(r) /\ request' \in [Requests -> RequestTypes]
    BY <1>0, <1>2 DEF Goto, At, Proceeds, RequestTypes
  <1>3. CASE CheckUser(r)
    BY <1>0, <1>2, <1>3 DEF CheckUser, At, Joining
  <1>4. CASE CheckIp(r)
    <2>1. PICK pc \in {"reject", "load", "done"} : Goto(r, pc) /\ (pc = "load" => request[r].join)
      <3>1. CASE Over(ipSockets[IpOf[request[r].socket]], MaxPerIp)
        BY <1>4, <3>1 DEF CheckIp
      <3>2. CASE ~Over(ipSockets[IpOf[request[r].socket]], MaxPerIp) /\ request[r].join
        BY <1>4, <3>2 DEF CheckIp
      <3>3. CASE ~Over(ipSockets[IpOf[request[r].socket]], MaxPerIp) /\ ~request[r].join
        BY <1>4, <3>3 DEF CheckIp
      <3> QED BY <3>1, <3>2, <3>3
    <2> QED BY <1>2, <1>4, <2>1 DEF CheckIp, At, Joining
  <1>5. CASE Reject(r) \/ RejectThrows(r) \/ TurnAway(r)
    BY <1>2, <1>5 DEF Reject, RejectThrows, TurnAway, At, Joining
  <1>6. CASE LoadAuction(r)
    <2>1. PICK open \in BOOLEAN : request' = [request EXCEPT ![r] = [request[r] EXCEPT !.pc = "register", !.open = open]]
      BY <1>6 DEF LoadAuction
    <2>2. /\ request[r] \in RequestTypes
          /\ request'[r] = [request[r] EXCEPT !.pc = "register", !.open = open]
      BY <1>0, <2>1
    <2>3. request'[r] \in RequestTypes
      BY <2>2 DEF RequestTypes
    <2>4. request[r].pc = "load" /\ request[r].join /\ request'[r].pc = "register"
      BY <1>0, <1>6, <2>2 DEF LoadAuction, At, Joining, RequestSound, RequestTypes
    <2> QED BY <1>0, <2>1, <2>2, <2>3, <2>4 DEF Proceeds, At, RequestTypes
  <1>7. CASE Register(r)
    BY <1>0, <1>2, <1>7 DEF Register, At, Joining, RequestSound
  <1>8. CASE Enter(r)
    <2>1. request' = [request EXCEPT ![r] = [request[r] EXCEPT !.pc = "done", !.open = FALSE]]
      BY <1>8 DEF Enter
    <2>2. /\ request[r] \in RequestTypes
          /\ request'[r] = [request[r] EXCEPT !.pc = "done", !.open = FALSE]
      BY <1>0, <2>1
    <2>3. request'[r] \in RequestTypes
      BY <2>2 DEF RequestTypes
    <2>4. request'[r].pc = "done"
      BY <2>2 DEF RequestTypes
    <2>5. request[r].pc = "enter"
      BY <1>8 DEF Enter, At
    <2> QED BY <1>0, <2>1, <2>2, <2>3, <2>4, <2>5 DEF Proceeds, At, RequestTypes, Joining
  <1> QED BY <1>1, <1>3, <1>4, <1>5, <1>6, <1>7, <1>8 DEF Handle

\* The other actions leave all messages alone.
LEMMA OthersLeaveRequests ==
  ASSUME [Next]_vars,
         ~\E r \in Requests : (\E s \in Sockets, a \in Auctions : \E join, verified \in BOOLEAN : Send(r, s, a, join, verified)) \/ Handle(r)
  PROVE  request' = request
  BY DEF Next, vars, Disconnect, Unregister, ReadName, ReadAddress, ReadAuction, Remove, CountRemaining,
         GoOffline, ExpireSocket, Close, Broadcast, ExpireOnline, ExpireUser, ExpireUserAuction, ExpireIp

\* What messages carry stays sound.
LEMMA RequestsStep ==
  ASSUME Types, RequestsSound, [Next]_vars
  PROVE  RequestsSound' /\ request' \in [Requests -> RequestTypes]
  <1>1. ASSUME NEW r \in Requests, Proceeds(r) PROVE RequestsSound'
    <2> SUFFICES ASSUME NEW q \in Requests PROVE RequestSound(q)'
      BY DEF RequestsSound
    <2>1. CASE q = r
      BY <1>1, <2>1 DEF Types, RequestsSound, RequestSound, Proceeds, At, RequestTypes, Unsent, Joining
    <2>2. CASE q # r
      BY <1>1, <2>2 DEF Types, RequestsSound, RequestSound, Proceeds, At, Unsent
    <2> QED BY <2>1, <2>2
  <1>2. CASE request' = request
    BY <1>2 DEF Types, RequestsSound, RequestSound, At, Unsent
  <1> QED BY <1>1, <1>2, HandlersProceed, OthersLeaveRequests

\* What a message of a socket has asked for, and whether its token was verified, stays.
LEMMA SentStays ==
  ASSUME Types, RequestsSound, [Next]_vars, NEW s \in Sockets, NEW r \in Requests, request[r].socket = s
  PROVE  /\ request'[r].socket = s /\ request'[r].auction = request[r].auction
         /\ request'[r].join = request[r].join /\ request'[r].verified = request[r].verified
  <1>1. request[r].pc # "unsent"
    BY AbsentAssumption DEF RequestsSound, RequestSound, At, Unsent
  <1>2. ASSUME NEW q \in Requests, Proceeds(q)
        PROVE  /\ request'[r].socket = s /\ request'[r].auction = request[r].auction
               /\ request'[r].join = request[r].join /\ request'[r].verified = request[r].verified
    <2>1. CASE q = r
      BY <1>1, <1>2, <2>1 DEF Proceeds, At
    <2>2. CASE q # r
      BY <1>2, <2>2 DEF Proceeds, Types
    <2> QED BY <2>1, <2>2
  <1> QED BY <1>2, HandlersProceed, OthersLeaveRequests

\* A socket that has joined with a token that did not verify stays such a socket.
LEMMA UnverifiedStays ==
  ASSUME Types, RequestsSound, [Next]_vars, NEW s \in Sockets, JoinsUnverified(s)
  PROVE  JoinsUnverified(s)'
  BY SentStays DEF JoinsUnverified

-----------------------------------------------------------------------------
(* Cardinalities *)

\* A set that gains at most one element, stays within another, or loses one.
LEMMA CardinalityFacts ==
  ASSUME NEW S, IsFiniteSet(S)
  PROVE  /\ Cardinality(S) \in Nat
         /\ \A T : T \subseteq S => IsFiniteSet(T) /\ Cardinality(T) \in Nat /\ Cardinality(T) <= Cardinality(S)
         /\ \A T, x : T \subseteq S \cup {x} =>
              IsFiniteSet(T) /\ Cardinality(T) \in Nat /\ Cardinality(T) <= Cardinality(S) + 1
         /\ \A T, x : T \subseteq S \ {x} /\ x \in S =>
              IsFiniteSet(T) /\ Cardinality(T) \in Nat /\ Cardinality(T) <= Cardinality(S) - 1
  <1>1. Cardinality(S) \in Nat
    BY FS_CardinalityType
  <1>2. ASSUME NEW T, T \subseteq S
        PROVE  IsFiniteSet(T) /\ Cardinality(T) \in Nat /\ Cardinality(T) <= Cardinality(S)
    BY <1>2, FS_Subset, FS_CardinalityType
  <1>3. ASSUME NEW T, NEW x, T \subseteq S \cup {x}
        PROVE  IsFiniteSet(T) /\ Cardinality(T) \in Nat /\ Cardinality(T) <= Cardinality(S) + 1
    <2>1. IsFiniteSet(S \cup {x}) /\ Cardinality(S \cup {x}) \in Nat /\ Cardinality(S \cup {x}) <= Cardinality(S) + 1
      BY <1>1, FS_AddElement, FS_CardinalityType
    <2>2. IsFiniteSet(T) /\ Cardinality(T) <= Cardinality(S \cup {x})
      BY <1>3, <2>1, FS_Subset
    <2> QED BY <1>1, <2>1, <2>2, FS_CardinalityType
  <1>4. ASSUME NEW T, NEW x, T \subseteq S \ {x}, x \in S
        PROVE  IsFiniteSet(T) /\ Cardinality(T) \in Nat /\ Cardinality(T) <= Cardinality(S) - 1
    <2>1. IsFiniteSet(S \ {x}) /\ Cardinality(S \ {x}) = Cardinality(S) - 1
      BY <1>4, FS_RemoveElement
    <2>2. IsFiniteSet(T) /\ Cardinality(T) <= Cardinality(S \ {x})
      BY <1>4, <2>1, FS_Subset
    <2> QED BY <1>1, <2>1, <2>2, FS_CardinalityType
  <1> QED BY <1>1, <1>2, <1>3, <1>4

\* The joins between the guard and the registration are finitely many, and overlap has
\* counted them.
PassingCounted == IsFiniteSet(Passing) /\ Cardinality(Passing) <= overlap

\* A join gets there by a check of its own that finds room, or was there before.
LEMMA PassingComes ==
  ASSUME Types, RequestsSound, [Next]_vars, NEW q \in Passing'
  PROVE  /\ q \in Requests /\ request[q].socket \in Sockets /\ request'[q].socket = request[q].socket
         /\ request'[q].verified = request[q].verified
         /\ \/ CheckUser(q) /\ request'[q].pc = "ip"
            \/ CheckIp(q) /\ request'[q].pc = "load" /\ q \in Passing
            \/ q \in Passing /\ (request'[q].pc # "ip" => request[q].pc # "ip")
  <1>0. /\ request \in [Requests -> RequestTypes] /\ q \in Requests /\ RequestSound(q)
        /\ request'[q].join /\ request'[q].pc \in {"ip", "load", "register"}
    BY DEF Types, Passing, RequestsSound
  <1>1. CASE request'[q] = request[q]
    BY <1>0, <1>1 DEF Passing, RequestSound, At
  <1>2. CASE request'[q] # request[q]
    <2>1. PICK r \in Requests :
            (\E s \in Sockets, a \in Auctions : \E join, verified \in BOOLEAN : Send(r, s, a, join, verified)) \/ Handle(r)
      BY <1>2, OthersLeaveRequests
    <2>2. Proceeds(r)
      BY <2>1, HandlersProceed
    <2>3. q = r
      BY <1>0, <1>2, <2>2 DEF Proceeds, Types
    <2>4. /\ request[q].socket \in Sockets /\ request'[q].socket = request[q].socket
          /\ request[q].join = request'[q].join /\ request'[q].verified = request[q].verified
      BY <1>0, <1>2, <2>2, <2>3 DEF Proceeds, At, RequestSound
    <2>5. CASE CheckUser(q)
      <3>1. request'[q].pc \in {"reject", "ip"}
        BY <1>0, <2>5 DEF CheckUser, Goto, RequestTypes
      <3> QED BY <1>0, <2>4, <2>5, <3>1
    <2>6. CASE CheckIp(q)
      <3>1. request'[q].pc \in {"reject", "load", "done"} /\ request[q].pc = "ip"
        BY <1>0, <2>6 DEF CheckIp, Goto, RequestTypes, At
      <3> QED BY <1>0, <2>4, <2>6, <3>1 DEF Passing
    <2>7. CASE LoadAuction(q)
      <3>1. request[q].pc = "load"
        BY <2>7 DEF LoadAuction, At
      <3> QED BY <1>0, <2>4, <3>1 DEF Passing
    <2>8. CASE (\E s \in Sockets, a \in Auctions : \E join, verified \in BOOLEAN : Send(q, s, a, join, verified))
      BY <1>0, <2>8 DEF Send
    <2>9. CASE Reject(q) \/ RejectThrows(q) \/ TurnAway(q) \/ Register(q) \/ Enter(q)
      <3>1. Goto(q, "done") \/ Goto(q, "enter") \/ request' = [request EXCEPT ![q].pc = "done", ![q].open = FALSE]
        BY <2>9 DEF Reject, RejectThrows, TurnAway, Register, Enter
      <3> QED BY <1>0, <3>1 DEF Goto, RequestTypes
    <2> QED BY <2>1, <2>3, <2>5, <2>6, <2>7, <2>8, <2>9 DEF Handle
  <1> QED BY <1>1, <1>2

\* Overlap grows only when a user's sockets are checked.
LEMMA OverlapStays ==
  ASSUME [Next]_vars, ~\E r \in Requests : CheckUser(r)
  PROVE  overlap' = overlap
  BY ZenonT(100) DEF Next, vars, Handle, Send, CheckIp, Reject, RejectThrows, LoadAuction, TurnAway, Register, Enter,
         Disconnect, Unregister, ReadName, ReadAddress, ReadAuction, Remove, CountRemaining, GoOffline,
         ExpireSocket, Close, Broadcast, ExpireOnline, ExpireUser, ExpireUserAuction, ExpireIp, historyVars

\* Overlap counts all joins that have passed.
LEMMA PassingStep ==
  ASSUME Types, RequestsSound, PassingCounted, [Next]_vars
  PROVE  PassingCounted' /\ overlap' \in Nat /\ overlap <= overlap'
  <1>0. overlap \in Nat
    BY DEF Types
  <1>1. PICK P : P = Passing'
    OBVIOUS
  <1>2. ASSUME NEW r \in Requests, CheckUser(r)
        PROVE  PassingCounted' /\ overlap' \in Nat /\ overlap <= overlap'
    <2>1. P \subseteq Passing \cup {r}
      BY <1>1, <1>2 DEF Types, CheckUser, Goto, Passing
    <2>2. IsFiniteSet(P) /\ Cardinality(P) \in Nat
      BY <2>1, CardinalityFacts DEF PassingCounted
    <2>3. overlap' = IF Cardinality(P) > overlap THEN Cardinality(P) ELSE overlap
      BY <1>1, <1>2 DEF CheckUser
    <2>4. overlap' \in Nat /\ overlap <= overlap' /\ Cardinality(P) <= overlap'
      BY <1>0, <2>2, <2>3
    <2> QED BY <1>1, <2>2, <2>4 DEF PassingCounted
  <1>3. CASE ~\E r \in Requests : CheckUser(r)
    <2>1. P \subseteq Passing
      BY <1>1, <1>3, PassingComes
    <2>2. IsFiniteSet(P) /\ Cardinality(P) <= Cardinality(Passing) /\ Cardinality(P) \in Nat
          /\ Cardinality(Passing) \in Nat
      BY <2>1, CardinalityFacts DEF PassingCounted
    <2>3. overlap' = overlap
      BY <1>3, OverlapStays
    <2>4. Cardinality(P) <= overlap'
      BY <1>0, <2>2, <2>3 DEF PassingCounted
    <2> QED BY <1>0, <1>1, <2>2, <2>3, <2>4 DEF PassingCounted
  <1> QED BY <1>2, <1>3

-----------------------------------------------------------------------------
(* Types *)

\* A disconnect is the first step of the unregistration of its sockets.
Leaves(s) ==
  \/ leaving'[s] = leaving[s]
  \/ leaving[s].pc = "connected" /\ leaving'[s] = [leaving[s] EXCEPT !.pc = "name"]

\* The types of what Drop changes.
LEMMA DropEffect ==
  ASSUME Types, NEW S, Drop(S)
  PROVE  /\ connected' = connected \ S
         /\ rooms' \in [Auctions -> SUBSET connected']
         /\ \A a \in Auctions : rooms'[a] \subseteq rooms[a]
         /\ leaving' \in [Sockets -> LeavingTypes]
         /\ \A s \in Sockets : s \in connected' <=> leaving'[s].pc = "connected"
         /\ \A s \in Sockets : Leaves(s)
  <1>0. /\ rooms \in [Auctions -> SUBSET connected] /\ connected \subseteq Sockets
        /\ leaving \in [Sockets -> LeavingTypes]
        /\ \A s \in Sockets : s \in connected <=> leaving[s].pc = "connected"
    BY DEF Types
  <1>1. connected' = connected \ S /\ rooms' = [a \in Auctions |-> rooms[a] \ S]
    BY DEF Drop
  <1>2. ASSUME NEW s \in Sockets
        PROVE  /\ leaving'[s] = IF s \in S \cap connected THEN [leaving[s] EXCEPT !.pc = "name"] ELSE leaving[s]
               /\ leaving'[s] \in LeavingTypes
               /\ s \in connected' <=> leaving'[s].pc = "connected"
               /\ Leaves(s)
    <2>1. leaving'[s] = IF s \in S \cap connected THEN [leaving[s] EXCEPT !.pc = "name"] ELSE leaving[s]
      BY DEF Drop
    <2>2. CASE s \in S \cap connected
      BY <1>0, <1>1, <2>1, <2>2 DEF LeavingTypes, Leaves
    <2>3. CASE s \notin S \cap connected
      BY <1>0, <1>1, <2>1, <2>3 DEF Leaves
    <2> QED BY <2>1, <2>2, <2>3
  <1>3. leaving' \in [Sockets -> LeavingTypes]
    <2>1. leaving' = [s \in Sockets |-> leaving'[s]]
      BY DEF Drop
    <2> QED BY <1>2, <2>1
  <1> QED BY <1>0, <1>1, <1>2, <1>3

\* The steps of a handler that change no keys and no sets: sockets may be dropped or
\* enter a room.
Coming(r) ==
  \/ \E s \in Sockets, a \in Auctions : \E join, verified \in BOOLEAN : Send(r, s, a, join, verified)
  \/ CheckUser(r) \/ CheckIp(r) \/ Reject(r) \/ RejectThrows(r) \/ LoadAuction(r) \/ TurnAway(r) \/ Enter(r)

\* What they, a disconnect and a broadcast do to the sockets.
LEMMA SocketEffect ==
  ASSUME Types, RequestsSound,
         \/ \E r \in Requests : Coming(r)
         \/ \E s \in Sockets : Disconnect(s)
         \/ \E a \in Auctions : Broadcast(a)
  PROVE  /\ connected' \subseteq connected
         /\ rooms' \in [Auctions -> SUBSET connected']
         /\ leaving' \in [Sockets -> LeavingTypes]
         /\ \A s \in Sockets : s \in connected' <=> leaving'[s].pc = "connected"
         /\ \A s \in Sockets : Leaves(s)
  <1>0. /\ rooms \in [Auctions -> SUBSET connected]
        /\ leaving \in [Sockets -> LeavingTypes]
        /\ \A s \in Sockets : s \in connected <=> leaving[s].pc = "connected"
    BY DEF Types
  <1>1. ASSUME NEW S, Drop(S)
        PROVE  /\ connected' \subseteq connected
               /\ rooms' \in [Auctions -> SUBSET connected']
               /\ leaving' \in [Sockets -> LeavingTypes]
               /\ \A s \in Sockets : s \in connected' <=> leaving'[s].pc = "connected"
               /\ \A s \in Sockets : Leaves(s)
    BY <1>1, DropEffect
  <1>2. ASSUME connected' = connected, rooms' \in [Auctions -> SUBSET connected], leaving' = leaving
        PROVE  /\ connected' \subseteq connected
               /\ rooms' \in [Auctions -> SUBSET connected']
               /\ leaving' \in [Sockets -> LeavingTypes]
               /\ \A s \in Sockets : s \in connected' <=> leaving'[s].pc = "connected"
               /\ \A s \in Sockets : Leaves(s)
    BY <1>0, <1>2 DEF Leaves
  <1>3. ASSUME NEW r \in Requests, Enter(r)
        PROVE  (\E S : Drop(S)) \/ (connected' = connected /\ rooms' \in [Auctions -> SUBSET connected]
                                      /\ leaving' = leaving)
    BY <1>0, <1>3 DEF Enter, RoomWith
  <1>4. ASSUME NEW r \in Requests, Coming(r)
        PROVE  (\E S : Drop(S)) \/ (connected' = connected /\ rooms' \in [Auctions -> SUBSET connected]
                                      /\ leaving' = leaving)
    BY <1>0, <1>3, <1>4 DEF Coming, Send, CheckUser, CheckIp, Reject, RejectThrows, LoadAuction, TurnAway, socketVars
  <1>5. ASSUME NEW s \in Sockets, Disconnect(s) PROVE \E S : Drop(S)
    BY <1>5 DEF Disconnect
  <1>6. ASSUME NEW a \in Auctions, Broadcast(a) PROVE \E S : Drop(S)
    BY <1>6 DEF Broadcast
  <1> QED BY <1>1, <1>2, <1>4, <1>5, <1>6

\* The steps that read and count for an unregistration change nothing else.
Going(s) == ReadName(s) \/ ReadAddress(s) \/ ReadAuction(s) \/ CountRemaining(s) \/ GoOffline(s)

\* The step from one state of an unregistration to the next.
LEMMA LeavingEffect ==
  ASSUME Types, NEW s \in Sockets, Going(s) \/ Remove(s)
  PROVE  /\ leaving' = [leaving EXCEPT ![s] = leaving'[s]]
         /\ leaving' \in [Sockets -> LeavingTypes]
         /\ leaving[s].pc # "connected" /\ leaving'[s].pc # "connected"
         /\ UNCHANGED <<socketVars, auctionVars, request, historyVars>>
  <1>0. leaving \in [Sockets -> LeavingTypes] /\ leaving[s] \in LeavingTypes
        /\ nameKey[s] \in Users \cup {None} /\ ipKey[s] \in Ips \cup {None} /\ auctionKey[s] \in Auctions \cup {None}
    BY DEF Types
  <1>1. ASSUME NEW pc \in {"address", "auction", "remove", "count", "offline", "done"}, leaving[s].pc # "connected",
               \/ leaving' = [leaving EXCEPT ![s].pc = pc]
               \/ leaving' = [leaving EXCEPT ![s].pc = pc, ![s].name = nameKey[s]]
               \/ leaving' = [leaving EXCEPT ![s].pc = pc, ![s].ip = ipKey[s]]
               \/ leaving' = [leaving EXCEPT ![s].pc = pc, ![s].auction = auctionKey[s]]
        PROVE  /\ leaving' = [leaving EXCEPT ![s] = leaving'[s]]
               /\ leaving' \in [Sockets -> LeavingTypes]
               /\ leaving[s].pc # "connected" /\ leaving'[s].pc # "connected"
    BY <1>0, <1>1 DEF LeavingTypes
  <1>2. UNCHANGED <<socketVars, auctionVars, request, historyVars>>
    BY DEF Going, ReadName, ReadAddress, ReadAuction, CountRemaining, GoOffline, Remove
  <1>3. CASE ReadName(s)
    BY <1>1, <1>2, <1>3 DEF ReadName
  <1>4. CASE ReadAddress(s) \/ ReadAuction(s) \/ Remove(s)
    BY <1>1, <1>2, <1>4 DEF ReadAddress, ReadAuction, Remove
  <1>5. CASE CountRemaining(s)
    BY <1>1, <1>2, <1>5 DEF CountRemaining
  <1>6. CASE GoOffline(s)
    BY <1>1, <1>2, <1>6 DEF GoOffline
  <1> QED BY <1>3, <1>4, <1>5, <1>6 DEF Going

\* Redis forgets.
Expiring ==
  \/ \E s \in Sockets : ExpireSocket(s)
  \/ \E u \in Users : ExpireUser(u) \/ \E a \in Auctions : ExpireUserAuction(u, a)
  \/ \E i \in Ips : ExpireIp(i)
  \/ \E a \in Auctions : ExpireOnline(a)

\* The steps of the specification, by what they do.
LEMMA NextCases ==
  ASSUME [Next]_vars
  PROVE  \/ \E r \in Requests : Coming(r)
         \/ \E r \in Requests : Register(r)
         \/ \E s \in Sockets : Disconnect(s)
         \/ \E a \in Auctions : Broadcast(a)
         \/ \E a \in Auctions : Close(a)
         \/ \E s \in Sockets : Going(s)
         \/ \E s \in Sockets : Remove(s)
         \/ KeysExpire /\ Expiring
         \/ UNCHANGED vars
  BY DEF Next, Handle, Unregister, Coming, Going, Expiring, ExpireSocket, ExpireUser, ExpireUserAuction,
         ExpireIp, ExpireOnline

\* Every step keeps the types.
LEMMA TypesStep ==
  ASSUME Types, RequestsSound, PassingCounted, [Next]_vars
  PROVE  Types'
  <1>0. request' \in [Requests -> RequestTypes] /\ overlap' \in Nat
    BY RequestsStep, PassingStep
  <1>1. ASSUME \/ \E r \in Requests : Coming(r)
               \/ \E s \in Sockets : Disconnect(s)
               \/ \E a \in Auctions : Broadcast(a)
        PROVE  Types'
    <2>1. /\ connected' \subseteq connected
          /\ rooms' \in [Auctions -> SUBSET connected']
          /\ leaving' \in [Sockets -> LeavingTypes]
          /\ \A s \in Sockets : s \in connected' <=> leaving'[s].pc = "connected"
      BY <1>1, SocketEffect
    <2>2. UNCHANGED <<closed, countVars, keyVars, presenceVars, late, raced>>
      BY <1>1 DEF Coming, Send, CheckUser, CheckIp, Reject, RejectThrows, LoadAuction, TurnAway, Enter,
                  Disconnect, Broadcast, auctionVars, historyVars
    <2>3. announced' \subseteq closed
      BY <1>1 DEF Coming, Send, CheckUser, CheckIp, Reject, RejectThrows, LoadAuction, TurnAway, Enter,
                  Disconnect, Broadcast, auctionVars, Types
    <2> QED BY <1>0, <2>1, <2>2, <2>3 DEF Types, countVars, keyVars, presenceVars
  <1>2. ASSUME NEW r \in Requests, Register(r) PROVE Types'
    <2>1. PICK s \in Sockets, a \in Auctions : s = request[r].socket /\ a = request[r].auction
      BY <1>2 DEF Register, At, RequestsSound, RequestSound, Joining, Types, RequestTypes
    <2>2. PICK u \in Users, i \in Ips : u = UserOf[s] /\ i = IpOf[s]
      BY OwnersAssumption
    <2>3. /\ ipSockets' = [ipSockets EXCEPT ![i] = @ \cup {s}]
          /\ userSockets' = [userSockets EXCEPT ![u] = @ \cup {s}]
          /\ ipKey' = [ipKey EXCEPT ![s] = i]
          /\ nameKey' = [nameKey EXCEPT ![s] = u]
          /\ auctionKey' = [auctionKey EXCEPT ![s] = a]
          /\ online' = [online EXCEPT ![a] = @ \cup {u}]
          /\ userAuction' = [userAuction EXCEPT ![u][a] = @ \cup {s}]
          /\ late' = IF leaving[s].pc \in {"count", "offline", "done"} THEN late \cup {s} ELSE late
          /\ raced' = IF BeingTakenOff(u, a) THEN raced \cup {<<s, a>>} ELSE raced \ {<<s, a>>}
          /\ UNCHANGED <<socketVars, auctionVars, leaving>>
      BY <1>2, <2>1, <2>2 DEF Register
    <2>4. late' \subseteq Sockets \ connected /\ raced' \subseteq Sockets \X Auctions
      BY <2>3 DEF Types
    <2>5. /\ ipSockets' \in [Ips -> SUBSET Sockets]
          /\ userSockets' \in [Users -> SUBSET Sockets]
          /\ ipKey' \in [Sockets -> Ips \cup {None}]
          /\ nameKey' \in [Sockets -> Users \cup {None}]
          /\ auctionKey' \in [Sockets -> Auctions \cup {None}]
          /\ online' \in [Auctions -> SUBSET Users]
      BY <2>3 DEF Types
    <2>6. userAuction' \in [Users -> [Auctions -> SUBSET Sockets]]
      BY <2>3 DEF Types
    <2> QED BY <1>0, <2>3, <2>4, <2>5, <2>6 DEF Types, socketVars, auctionVars
  <1>3. ASSUME NEW a \in Auctions, Close(a) PROVE Types'
    BY <1>0, <1>3 DEF Close, Types, socketVars, countVars, keyVars, presenceVars, historyVars
  <1>4. ASSUME NEW s \in Sockets, Going(s) PROVE Types'
    <2>1. /\ leaving' \in [Sockets -> LeavingTypes]
          /\ \A t \in Sockets : t \in connected <=> leaving'[t].pc = "connected"
          /\ UNCHANGED <<socketVars, auctionVars, request, historyVars>>
      BY <1>4, LeavingEffect DEF Types
    <2>2. UNCHANGED <<countVars, keyVars, userAuction>>
      BY <1>4 DEF Going, ReadName, ReadAddress, ReadAuction, CountRemaining, GoOffline, presenceVars
    <2>3. online' \in [Auctions -> SUBSET Users]
      <3>1. online \in [Auctions -> SUBSET Users]
        BY DEF Types
      <3>2. CASE GoOffline(s)
        <4>1. PICK n, b : leaving[s].name = n /\ leaving[s].auction = b
          OBVIOUS
        <4>2. online' = [a \in Auctions |-> IF a = b THEN online[a] \ {n} ELSE online[a]]
          BY <3>2, <4>1 DEF GoOffline
        <4> QED BY <3>1, <4>2
      <3>3. CASE ReadName(s) \/ ReadAddress(s) \/ ReadAuction(s) \/ CountRemaining(s)
        BY <3>1, <3>3 DEF ReadName, ReadAddress, ReadAuction, CountRemaining, presenceVars
      <3> QED BY <1>4, <3>2, <3>3 DEF Going
    <2> QED BY <1>0, <2>1, <2>2, <2>3 DEF Types, socketVars, auctionVars, countVars, keyVars, historyVars
  <1>5. ASSUME NEW s \in Sockets, Remove(s) PROVE Types'
    <2>1. /\ leaving' \in [Sockets -> LeavingTypes]
          /\ \A t \in Sockets : t \in connected <=> leaving'[t].pc = "connected"
          /\ UNCHANGED <<socketVars, auctionVars, request, historyVars>>
      BY <1>5, LeavingEffect DEF Types
    <2>2. PICK n, i, a : leaving[s].name = n /\ leaving[s].ip = i /\ leaving[s].auction = a
      OBVIOUS
    <2>3. /\ ipSockets' = [k \in Ips |-> IF k = i THEN ipSockets[k] \ {s} ELSE ipSockets[k]]
          /\ userSockets' = [userSockets EXCEPT ![n] = @ \ {s}]
          /\ userAuction' = [userAuction EXCEPT ![n] = [b \in Auctions |-> IF b = a THEN @[b] \ {s} ELSE @[b]]]
          /\ RemoveKeys(s) /\ online' = online
      BY <1>5, <2>2 DEF Remove, RemoveCounts
    <2>4. ipSockets' \in [Ips -> SUBSET Sockets] /\ userSockets' \in [Users -> SUBSET Sockets]
      BY <2>3 DEF Types
    <2>5. userAuction' \in [Users -> [Auctions -> SUBSET Sockets]]
      <3>1. userAuction \in [Users -> [Auctions -> SUBSET Sockets]]
        BY DEF Types
      <3>2. CASE n \in Users
        <4>1. userAuction[n] \in [Auctions -> SUBSET Sockets]
          BY <3>1, <3>2
        <4>2. [b \in Auctions |-> IF b = a THEN userAuction[n][b] \ {s} ELSE userAuction[n][b]]
                \in [Auctions -> SUBSET Sockets]
          BY <4>1
        <4> QED BY <2>3, <3>1, <3>2, <4>2
      <3>3. CASE n \notin Users
        BY <2>3, <3>1, <3>3
      <3> QED BY <3>2, <3>3
    <2>6. /\ ipKey' \in [Sockets -> Ips \cup {None}]
          /\ nameKey' \in [Sockets -> Users \cup {None}]
          /\ auctionKey' \in [Sockets -> Auctions \cup {None}]
      BY <2>3 DEF Types, RemoveKeys
    <2> QED BY <1>0, <2>1, <2>3, <2>4, <2>5, <2>6 DEF Types, socketVars, auctionVars, historyVars
  <1>6. CASE Expiring
    <2>1. UNCHANGED <<socketVars, auctionVars, leaving, late, raced>>
      BY <1>6 DEF Expiring, ExpireSocket, ExpireUser, ExpireUserAuction, ExpireIp, ExpireOnline, historyVars
    <2>2. ipSockets' \in [Ips -> SUBSET Sockets] /\ userSockets' \in [Users -> SUBSET Sockets]
      BY <1>6, ZenonT(100) DEF Expiring, ExpireSocket, ExpireUser, ExpireUserAuction, ExpireIp, ExpireOnline, countVars, Types
    <2>3. userAuction' \in [Users -> [Auctions -> SUBSET Sockets]]
      <3>1. userAuction \in [Users -> [Auctions -> SUBSET Sockets]]
        BY DEF Types
      <3>2. ASSUME NEW u \in Users, NEW a \in Auctions, ExpireUserAuction(u, a)
            PROVE  userAuction' \in [Users -> [Auctions -> SUBSET Sockets]]
        BY <3>1, <3>2 DEF ExpireUserAuction
      <3>3. ASSUME UNCHANGED userAuction PROVE userAuction' \in [Users -> [Auctions -> SUBSET Sockets]]
        BY <3>1, <3>3
      <3> QED BY <1>6, <3>2, <3>3 DEF Expiring, ExpireSocket, ExpireUser, ExpireIp, ExpireOnline, presenceVars
    <2>4. online' \in [Auctions -> SUBSET Users]
      BY <1>6 DEF Expiring, ExpireSocket, ExpireUser, ExpireUserAuction, ExpireIp, ExpireOnline, presenceVars, Types
    <2>5. /\ ipKey' \in [Sockets -> Ips \cup {None}]
          /\ nameKey' \in [Sockets -> Users \cup {None}]
          /\ auctionKey' \in [Sockets -> Auctions \cup {None}]
      BY <1>6 DEF Expiring, ExpireSocket, ExpireUser, ExpireUserAuction, ExpireIp, ExpireOnline, keyVars, Types
    <2> QED BY <1>0, <2>1, <2>2, <2>3, <2>4, <2>5 DEF Types, socketVars, auctionVars
  <1>7. CASE UNCHANGED vars
    BY <1>7 DEF vars, Types
  <1> QED BY <1>1, <1>2, <1>3, <1>4, <1>5, <1>6, <1>7, NextCases

\* The invariant that holds whether or not keys expire.
Base == Types /\ RequestsSound /\ PassingCounted

LEMMA BaseStep == ASSUME Base, [Next]_vars PROVE Base'
  BY RequestsStep, PassingStep, TypesStep DEF Base

LEMMA BaseInit == ASSUME Init PROVE Base
  <1>1. Types
    <2>1. NotLeaving \in LeavingTypes /\ NotLeaving.pc = "connected" /\ Unsent \in RequestTypes
      BY DEF NotLeaving, LeavingTypes, Unsent, RequestTypes
    <2> QED BY <2>1 DEF Init, Types
  <1>2. RequestsSound
    BY DEF Init, RequestsSound, RequestSound, At, Unsent, Joining
  <1>3. Passing = {}
    BY DEF Init, Passing, Unsent
  <1>4. PassingCounted
    BY <1>3, FS_EmptySet DEF PassingCounted, Init
  <1> QED BY <1>1, <1>2, <1>4 DEF Base

-----------------------------------------------------------------------------
(* How far the limits can be overrun *)

\* The joins that the limit of a user has let pass, and those that the limit of an address
\* has; the sockets of a user that only joined with a valid token.
PassingUser(u) == {r \in Passing : request[r].verified /\ UserOf[request[r].socket] = u}
VerifiedSockets(u) == {s \in userSockets[u] : ~JoinsUnverified(s)}
PassingIp(i) == {r \in Passing : request[r].pc # "ip" /\ IpOf[request[r].socket] = i}

\* The sockets counted and those about to be are within the limit and the overlap.
Within(S, P, limit) == IsFiniteSet(S) /\ Cardinality(S) + Cardinality(P) <= limit + overlap

LimitsInv ==
  /\ \A u \in Users : IsFiniteSet(userSockets[u]) /\ Within(VerifiedSockets(u), PassingUser(u), MaxPerUser)
  /\ \A i \in Ips : Within(ipSockets[i], PassingIp(i), MaxPerIp)

\* The sum stays within the limit when both sets lose elements only, when no more
\* sockets than the limit are counted, or when a socket is counted that was about to be.
LEMMA WithinStays ==
  ASSUME Base, Base', overlap <= overlap', NEW S, NEW P, NEW S2, NEW P2, NEW limit \in Nat,
         Within(S, P, limit), P \subseteq Passing, P2 \subseteq Passing',
         \/ S2 \subseteq S /\ P2 \subseteq P
         \/ S2 \subseteq S /\ Cardinality(S) <= limit
         \/ \E s, r : S2 \subseteq S \cup {s} /\ P2 \subseteq P \ {r} /\ r \in P
  PROVE  IsFiniteSet(S2) /\ Cardinality(S2) + Cardinality(P2) <= limit + overlap'
  <1>0. /\ overlap \in Nat /\ overlap' \in Nat
        /\ IsFiniteSet(S) /\ Cardinality(S) \in Nat
        /\ IsFiniteSet(P) /\ Cardinality(P) \in Nat
        /\ IsFiniteSet(P2) /\ Cardinality(P2) \in Nat /\ Cardinality(P2) <= overlap'
        /\ Cardinality(S) + Cardinality(P) <= limit + overlap
    <2>1. IsFiniteSet(Passing) /\ IsFiniteSet(Passing') /\ Cardinality(Passing') <= overlap'
          /\ overlap \in Nat /\ overlap' \in Nat
      BY DEF Base, PassingCounted, Types
    <2>2. Cardinality(P2) \in Nat /\ Cardinality(P2) <= Cardinality(Passing') /\ Cardinality(Passing') \in Nat
      BY <2>1, CardinalityFacts
    <2>3. Cardinality(P2) <= overlap'
      BY <2>1, <2>2
    <2> QED BY <2>1, <2>2, <2>3, CardinalityFacts DEF Within
  <1>1. CASE S2 \subseteq S /\ P2 \subseteq P
    <2>1. IsFiniteSet(S2) /\ Cardinality(S2) \in Nat /\ Cardinality(S2) <= Cardinality(S)
          /\ Cardinality(P2) <= Cardinality(P)
      BY <1>0, <1>1, CardinalityFacts
    <2> QED BY <1>0, <2>1
  <1>2. CASE S2 \subseteq S /\ Cardinality(S) <= limit
    <2>1. IsFiniteSet(S2) /\ Cardinality(S2) \in Nat /\ Cardinality(S2) <= Cardinality(S)
      BY <1>0, <1>2, CardinalityFacts
    <2> QED BY <1>0, <1>2, <2>1, LimitsAssumption
  <1>3. CASE \E s, r : S2 \subseteq S \cup {s} /\ P2 \subseteq P \ {r} /\ r \in P
    <2>1. PICK s, r : S2 \subseteq S \cup {s} /\ P2 \subseteq P \ {r} /\ r \in P
      BY <1>3
    <2>2. IsFiniteSet(S2) /\ Cardinality(S2) \in Nat /\ Cardinality(S2) <= Cardinality(S) + 1
          /\ Cardinality(P2) <= Cardinality(P) - 1
      BY <1>0, <2>1, CardinalityFacts
    <2> QED BY <1>0, <2>2
  <1> QED BY <1>1, <1>2, <1>3

\* What a registration does, with its socket, auction, user and address named.
RegisterAs(r, s, a, u, i) ==
  /\ s = request[r].socket /\ a = request[r].auction /\ u = UserOf[s] /\ i = IpOf[s]
  /\ r \in Passing /\ request[r].pc = "register" /\ Goto(r, "enter")
  /\ ipSockets' = [ipSockets EXCEPT ![i] = @ \cup {s}]
  /\ userSockets' = [userSockets EXCEPT ![u] = @ \cup {s}]
  /\ ipKey' = [ipKey EXCEPT ![s] = i]
  /\ nameKey' = [nameKey EXCEPT ![s] = u]
  /\ auctionKey' = [auctionKey EXCEPT ![s] = a]
  /\ online' = [online EXCEPT ![a] = @ \cup {u}]
  /\ userAuction' = [userAuction EXCEPT ![u][a] = @ \cup {s}]
  /\ late' = IF leaving[s].pc \in {"count", "offline", "done"} THEN late \cup {s} ELSE late
  /\ raced' = IF BeingTakenOff(u, a) THEN raced \cup {<<s, a>>} ELSE raced \ {<<s, a>>}
  /\ UNCHANGED <<socketVars, auctionVars, leaving, overlap>>

LEMMA RegisterEffect ==
  ASSUME Types, RequestsSound, NEW r \in Requests, Register(r)
  PROVE  \E s \in Sockets, a \in Auctions, u \in Users, i \in Ips : RegisterAs(r, s, a, u, i)
  <1>1. /\ request[r].pc = "register" /\ request[r].join
        /\ request[r].socket \in Sockets /\ request[r].auction \in Auctions
    BY DEF Register, At, RequestsSound, RequestSound, Joining
  <1>2. PICK s \in Sockets, a \in Auctions : s = request[r].socket /\ a = request[r].auction
    BY <1>1
  <1>3. PICK u \in Users, i \in Ips : u = UserOf[s] /\ i = IpOf[s]
    BY OwnersAssumption
  <1>4. r \in Passing
    BY <1>1 DEF Passing
  <1> QED BY <1>1, <1>2, <1>3, <1>4 DEF Register, RegisterAs

\* The sets that count sockets grow by registrations only.
LEMMA CountsShrink ==
  ASSUME Types, RequestsSound, [Next]_vars, ~\E r \in Requests : Register(r)
  PROVE  /\ \A u \in Users : userSockets'[u] \subseteq userSockets[u]
         /\ \A i \in Ips : ipSockets'[i] \subseteq ipSockets[i]
         /\ (\E r \in Requests : CheckUser(r) \/ CheckIp(r)) => UNCHANGED countVars
  <1>0. userSockets \in [Users -> SUBSET Sockets] /\ ipSockets \in [Ips -> SUBSET Sockets]
    BY DEF Types
  <1>1. ASSUME NEW s \in Sockets, Remove(s)
        PROVE  /\ \A u \in Users : userSockets'[u] \subseteq userSockets[u]
               /\ \A i \in Ips : ipSockets'[i] \subseteq ipSockets[i]
    <2>1. PICK n, k : leaving[s].name = n /\ leaving[s].ip = k
      OBVIOUS
    <2>2. /\ ipSockets' = [i \in Ips |-> IF i = k THEN ipSockets[i] \ {s} ELSE ipSockets[i]]
          /\ userSockets' = [userSockets EXCEPT ![n] = @ \ {s}]
      BY <1>1, <2>1 DEF Remove, RemoveCounts
    <2> QED BY <1>0, <2>2
  <1>2. ASSUME Expiring
        PROVE  /\ \A u \in Users : userSockets'[u] \subseteq userSockets[u]
               /\ \A i \in Ips : ipSockets'[i] \subseteq ipSockets[i]
    <2>1. userSockets' = userSockets \/ \E u \in Users : userSockets' = [userSockets EXCEPT ![u] = {}]
      BY <1>2 DEF Expiring, ExpireSocket, ExpireUser, ExpireUserAuction, ExpireIp, ExpireOnline, countVars
    <2>2. ipSockets' = ipSockets \/ \E i \in Ips : ipSockets' = [ipSockets EXCEPT ![i] = {}]
      BY <1>2 DEF Expiring, ExpireSocket, ExpireUser, ExpireUserAuction, ExpireIp, ExpireOnline, countVars
    <2>3. \A u \in Users : userSockets'[u] \subseteq userSockets[u]
      BY <1>0, <2>1
    <2>4. \A i \in Ips : ipSockets'[i] \subseteq ipSockets[i]
      BY <1>0, <2>2
    <2> QED BY <2>3, <2>4
  <1>3. ASSUME \/ \E r \in Requests : Coming(r)
               \/ \E s \in Sockets : Disconnect(s) \/ Going(s)
               \/ \E a \in Auctions : Broadcast(a) \/ Close(a)
               \/ UNCHANGED vars
        PROVE  UNCHANGED countVars
    BY <1>3 DEF Coming, Send, CheckUser, CheckIp, Reject, RejectThrows, LoadAuction, TurnAway, Enter,
                Disconnect, Broadcast, Close, Going, ReadName, ReadAddress, ReadAuction, CountRemaining, GoOffline,
                vars, countVars
  <1>4. (\E r \in Requests : CheckUser(r) \/ CheckIp(r)) => UNCHANGED countVars
    BY <1>3 DEF Coming
  <1> QED BY <1>1, <1>2, <1>3, <1>4, NextCases DEF countVars

\* Every step keeps the sums.
LEMMA LimitsStep == ASSUME Base, LimitsInv, [Next]_vars PROVE LimitsInv'
  <1>0. /\ Types /\ RequestsSound /\ Base' /\ overlap <= overlap'
        /\ userSockets \in [Users -> SUBSET Sockets] /\ ipSockets \in [Ips -> SUBSET Sockets]
        /\ request \in [Requests -> RequestTypes]
    BY BaseStep, PassingStep DEF Base, Types
  <1>1. ASSUME NEW u \in Users, NEW S, NEW P, NEW S2, NEW P2,
               S = VerifiedSockets(u), P = PassingUser(u), S2 = VerifiedSockets(u)', P2 = PassingUser(u)'
        PROVE  \/ S2 \subseteq S /\ P2 \subseteq P
               \/ S2 \subseteq S /\ Cardinality(S) <= MaxPerUser
               \/ \E s, r : S2 \subseteq S \cup {s} /\ P2 \subseteq P \ {r} /\ r \in P
    <2>0. ASSUME NEW s \in S2, s \in userSockets[u] PROVE s \in S
      BY <1>0, <1>1, <2>0, UnverifiedStays DEF VerifiedSockets
    <2>1. ASSUME NEW q \in P2
          PROVE  \/ q \in P
                 \/ /\ CheckUser(q) /\ request[q].verified
                    /\ UserOf[request[q].socket] = u /\ request'[q].pc = "ip"
      <3>1. q \in Passing' /\ UserOf[request'[q].socket] = u /\ request'[q].verified
        BY <1>1, <2>1 DEF PassingUser
      <3>2. /\ q \in Requests /\ request'[q].socket = request[q].socket
            /\ request'[q].verified = request[q].verified
            /\ (CheckUser(q) /\ request'[q].pc = "ip") \/ q \in Passing
        BY <1>0, <3>1, PassingComes
      <3> QED BY <1>1, <3>1, <3>2 DEF PassingUser
    <2>2. P2 \subseteq Passing'
      BY <1>1 DEF PassingUser
    <2>3. ASSUME NEW r \in Requests, Register(r)
          PROVE  \/ S2 \subseteq S /\ P2 \subseteq P
                 \/ \E s, q : S2 \subseteq S \cup {s} /\ P2 \subseteq P \ {q} /\ q \in P
      <3>0. PICK s \in Sockets, a \in Auctions, v \in Users, i \in Ips : RegisterAs(r, s, a, v, i)
        BY <1>0, <2>3, RegisterEffect
      <3>1. /\ s = request[r].socket /\ v = UserOf[s] /\ r \in Passing
            /\ request[r].pc = "register" /\ Goto(r, "enter")
            /\ userSockets' = [userSockets EXCEPT ![v] = @ \cup {s}]
        BY <3>0 DEF RegisterAs
      <3>a. userSockets'[u] \subseteq userSockets[u] \cup (IF v = u THEN {s} ELSE {})
        BY <1>0, <3>1
      <3>b. S2 \subseteq userSockets'[u]
        BY <1>1 DEF VerifiedSockets
      <3>2. r \notin P2
        BY <1>0, <2>2, <3>1 DEF Passing, Goto
      <3>3. P2 \subseteq P
        <4>1. ASSUME NEW q \in P2, CheckUser(q) PROVE FALSE
          <5>1. q \in Requests /\ request[q].pc = "user"
            BY <2>2, <4>1 DEF Passing, CheckUser, At
          <5>2. request'[q] = request[q]
            BY <1>0, <3>1, <5>1 DEF Goto
          <5> QED BY <2>2, <5>1, <5>2 DEF Passing
        <4> QED BY <2>1, <4>1
      <3>4. CASE v = u /\ request[r].verified
        <4>1. S2 \subseteq S \cup {s}
          BY <2>0, <3>a, <3>b
        <4>2. r \in P
          BY <1>1, <3>1, <3>4 DEF PassingUser
        <4> QED BY <3>2, <3>3, <4>1, <4>2
      <3>5. CASE v = u /\ ~request[r].verified
        <4>1. request[r].join /\ r \in Requests
          BY <3>1 DEF Passing
        <4>2. JoinsUnverified(s)'
          BY <1>0, <3>0, <3>1, <3>5, <4>1, UnverifiedStays DEF JoinsUnverified
        <4>3. s \notin S2
          BY <1>1, <4>2 DEF VerifiedSockets
        <4> QED BY <2>0, <3>3, <3>a, <3>b, <4>3
      <3>6. CASE v # u
        BY <2>0, <3>3, <3>6, <3>a, <3>b
      <3> QED BY <3>4, <3>5, <3>6
    <2>4. CASE ~\E r \in Requests : Register(r)
      <3>1. S2 \subseteq S
        <4>1. userSockets'[u] \subseteq userSockets[u]
          BY <1>0, <2>4, CountsShrink
        <4>2. S2 \subseteq userSockets'[u]
          BY <1>1 DEF VerifiedSockets
        <4> QED BY <2>0, <4>1, <4>2
      <3>2. CASE P2 \subseteq P
        BY <3>1, <3>2
      <3>3. ASSUME NEW q \in P2, CheckUser(q), request[q].verified, UserOf[request[q].socket] = u,
                   request'[q].pc = "ip"
            PROVE  Cardinality(S) <= MaxPerUser
        <4>1. q \in Requests
          BY <2>2, <3>3 DEF Passing
        <4>2. ~Over(userSockets[u], MaxPerUser)
          BY <1>0, <3>3, <4>1 DEF CheckUser, Goto
        <4>3. IsFiniteSet(userSockets[u]) /\ S \subseteq userSockets[u]
          BY <1>1 DEF LimitsInv, VerifiedSockets
        <4>4. /\ Cardinality(S) \in Nat /\ Cardinality(userSockets[u]) \in Nat
              /\ Cardinality(S) <= Cardinality(userSockets[u])
          BY <4>3, CardinalityFacts
        <4> QED BY <4>2, <4>4, LimitsAssumption DEF Over
      <3> QED BY <2>1, <3>1, <3>2, <3>3
    <2> QED BY <2>3, <2>4
  <1>2. ASSUME NEW i \in Ips, NEW S, NEW P, NEW S2, NEW P2,
               S = ipSockets[i], P = PassingIp(i), S2 = ipSockets'[i], P2 = PassingIp(i)'
        PROVE  \/ S2 \subseteq S /\ P2 \subseteq P
               \/ S2 \subseteq S /\ Cardinality(S) <= MaxPerIp
               \/ \E s, r : S2 \subseteq S \cup {s} /\ P2 \subseteq P \ {r} /\ r \in P
    <2>1. ASSUME NEW q \in P2 PROVE q \in P \/ (CheckIp(q) /\ IpOf[request[q].socket] = i /\ request'[q].pc = "load")
      <3>1. q \in Passing' /\ IpOf[request'[q].socket] = i /\ request'[q].pc # "ip"
        BY <1>2, <2>1 DEF PassingIp
      <3>2. /\ q \in Requests /\ request'[q].socket = request[q].socket
            /\ \/ CheckIp(q) /\ request'[q].pc = "load"
               \/ q \in Passing /\ request[q].pc # "ip"
        BY <1>0, <3>1, PassingComes
      <3> QED BY <1>2, <3>1, <3>2 DEF PassingIp
    <2>2. P2 \subseteq Passing'
      BY <1>2 DEF PassingIp
    <2>3. ASSUME NEW r \in Requests, Register(r)
          PROVE  \/ S2 \subseteq S /\ P2 \subseteq P
                 \/ \E s, q : S2 \subseteq S \cup {s} /\ P2 \subseteq P \ {q} /\ q \in P
      <3>0. PICK s \in Sockets, a \in Auctions, u \in Users, k \in Ips : RegisterAs(r, s, a, u, k)
        BY <1>0, <2>3, RegisterEffect
      <3>1. /\ s = request[r].socket /\ k = IpOf[s] /\ r \in Passing
            /\ request[r].pc = "register" /\ Goto(r, "enter")
            /\ ipSockets' = [ipSockets EXCEPT ![k] = @ \cup {s}]
        BY <3>0 DEF RegisterAs
      <3>2. r \notin P2
        BY <1>0, <2>2, <3>1 DEF Passing, Goto
      <3>3. P2 \subseteq P
        <4>1. ASSUME NEW q \in P2, CheckIp(q), request'[q].pc = "load" PROVE FALSE
          <5>1. q \in Requests /\ request[q].pc = "ip"
            BY <2>2, <4>1 DEF Passing, CheckIp, At
          <5>2. request'[q] = request[q]
            BY <1>0, <3>1, <5>1 DEF Goto
          <5> QED BY <4>1, <5>1, <5>2
        <4> QED BY <2>1, <4>1
      <3>4. CASE k = i
        <4>1. S2 \subseteq S \cup {s}
          BY <1>0, <1>2, <3>1, <3>4
        <4>2. r \in P
          BY <1>2, <3>1, <3>4 DEF PassingIp
        <4> QED BY <3>2, <3>3, <4>1, <4>2
      <3>5. CASE k # i
        BY <1>0, <1>2, <3>1, <3>3, <3>5
      <3> QED BY <3>4, <3>5
    <2>4. CASE ~\E r \in Requests : Register(r)
      <3>1. /\ S2 \subseteq S
            /\ (\E r \in Requests : CheckIp(r)) => S2 = S
        BY <1>0, <1>2, <2>4, CountsShrink DEF countVars
      <3>2. CASE P2 \subseteq P
        BY <3>1, <3>2
      <3>3. ASSUME NEW q \in P2, CheckIp(q), IpOf[request[q].socket] = i, request'[q].pc = "load"
            PROVE  S2 = S /\ Cardinality(S) <= MaxPerIp
        <4>1. q \in Requests
          BY <2>2, <3>3 DEF Passing
        <4>2. ~Over(ipSockets[i], MaxPerIp)
          <5>1. CASE Over(ipSockets[i], MaxPerIp)
            <6>1. Goto(q, "reject")
              BY <3>3, <5>1 DEF CheckIp
            <6> QED BY <1>0, <3>3, <4>1, <6>1 DEF Goto
          <5> QED BY <5>1
        <4>3. Cardinality(S) \in Nat
          BY <1>2, FS_CardinalityType DEF LimitsInv, Within
        <4> QED BY <1>2, <3>1, <3>3, <4>1, <4>2, <4>3, LimitsAssumption DEF Over
      <3> QED BY <2>1, <3>2, <3>3
    <2> QED BY <2>3, <2>4
  <1>3. ASSUME NEW u \in Users PROVE IsFiniteSet(userSockets'[u]) /\ Within(VerifiedSockets(u), PassingUser(u), MaxPerUser)'
    <2>0. IsFiniteSet(userSockets'[u])
      <3>1. PICK S, S2 : S = userSockets[u] /\ S2 = userSockets'[u] /\ IsFiniteSet(S)
        BY DEF LimitsInv
      <3>2. ASSUME NEW r \in Requests, Register(r) PROVE \E s : S2 \subseteq S \cup {s}
        <4>1. PICK s \in Sockets, a \in Auctions, v \in Users, i \in Ips : RegisterAs(r, s, a, v, i)
          BY <1>0, <3>2, RegisterEffect
        <4> QED BY <1>0, <3>1, <4>1 DEF RegisterAs
      <3>3. S2 \subseteq S \/ \E s : S2 \subseteq S \cup {s}
        BY <1>0, <3>1, <3>2, CountsShrink
      <3>4. IsFiniteSet(S)
        BY <3>1
      <3>5. ASSUME S2 \subseteq S PROVE IsFiniteSet(S2)
        BY <3>4, <3>5, FS_Subset
      <3>6. ASSUME NEW s, S2 \subseteq S \cup {s} PROVE IsFiniteSet(S2)
        BY <3>4, <3>6, FS_AddElement, FS_Subset
      <3>7. IsFiniteSet(S2)
        BY <3>3, <3>5, <3>6
      <3> QED BY <3>1, <3>7
    <2>1. PICK S, P, S2, P2 :
            S = VerifiedSockets(u) /\ P = PassingUser(u) /\ S2 = VerifiedSockets(u)' /\ P2 = PassingUser(u)'
      OBVIOUS
    <2>2. P \subseteq Passing /\ P2 \subseteq Passing'
      BY <2>1 DEF PassingUser
    <2>3. Within(S, P, MaxPerUser)
      BY <2>1 DEF LimitsInv
    <2>4. \/ S2 \subseteq S /\ P2 \subseteq P
          \/ S2 \subseteq S /\ Cardinality(S) <= MaxPerUser
          \/ \E s, r : S2 \subseteq S \cup {s} /\ P2 \subseteq P \ {r} /\ r \in P
      BY <1>1, <2>1
    <2>5. MaxPerUser \in Nat
      BY LimitsAssumption
    <2>6. IsFiniteSet(S2) /\ Cardinality(S2) + Cardinality(P2) <= MaxPerUser + overlap'
      BY <1>0, <2>2, <2>3, <2>4, <2>5, WithinStays
    <2> QED BY <2>0, <2>1, <2>6 DEF Within
  <1>4. ASSUME NEW i \in Ips PROVE Within(ipSockets[i], PassingIp(i), MaxPerIp)'
    <2>1. PICK S, P, S2, P2 : S = ipSockets[i] /\ P = PassingIp(i) /\ S2 = ipSockets'[i] /\ P2 = PassingIp(i)'
      OBVIOUS
    <2>2. P \subseteq Passing /\ P2 \subseteq Passing'
      BY <2>1 DEF PassingIp
    <2>3. Within(S, P, MaxPerIp)
      BY <2>1 DEF LimitsInv
    <2>4. \/ S2 \subseteq S /\ P2 \subseteq P
          \/ S2 \subseteq S /\ Cardinality(S) <= MaxPerIp
          \/ \E s, r : S2 \subseteq S \cup {s} /\ P2 \subseteq P \ {r} /\ r \in P
      BY <1>2, <2>1
    <2>5. MaxPerIp \in Nat
      BY LimitsAssumption
    <2>6. IsFiniteSet(S2) /\ Cardinality(S2) + Cardinality(P2) <= MaxPerIp + overlap'
      BY <1>0, <2>2, <2>3, <2>4, <2>5, WithinStays
    <2> QED BY <2>1, <2>6 DEF Within
  <1> QED BY <1>3, <1>4 DEF LimitsInv

\* What does not depend on how long keys live holds of every state.
LEMMA BaseInvariant == SafeSpec => []Base
  <1>1. Init => Base
    BY BaseInit
  <1>2. Base /\ [Next]_vars => Base'
    BY BaseStep
  <1> QED BY <1>1, <1>2, PTL DEF SafeSpec

\* However joins interleave, an address has at most one socket more than the limit for
\* each join that was between the guard's check and the registration at the same time
\* (ws-connection-rate-limit.guard.ts checks, registerSocket counts), and so has a user of
\* the sockets that did not join with an expired token, which the guard does not check.
THEOREM LimitsOverrunBounded == SafeSpec => []OverrunIsBounded
  <1>1. Init => LimitsInv
    <2> SUFFICES ASSUME Init PROVE LimitsInv
      OBVIOUS
    <2>1. Passing = {}
      BY DEF Init, Passing, Unsent
    <2>2. (\A u \in Users : PassingUser(u) = {}) /\ (\A i \in Ips : PassingIp(i) = {})
      BY <2>1 DEF PassingUser, PassingIp
    <2>3. IsFiniteSet({}) /\ Cardinality({}) = 0
      BY FS_EmptySet
    <2>4. overlap = 0 /\ (\A u \in Users : userSockets[u] = {}) /\ (\A i \in Ips : ipSockets[i] = {})
      BY DEF Init
    <2>5. (\A u \in Users : VerifiedSockets(u) = {}) /\ IsFiniteSet({})
      BY <2>3, <2>4 DEF VerifiedSockets
    <2>6. Within({}, {}, MaxPerUser) /\ Within({}, {}, MaxPerIp)
      BY <2>3, <2>4, LimitsAssumption DEF Within
    <2> QED BY <2>2, <2>4, <2>5, <2>6 DEF LimitsInv
  <1>2. Base /\ LimitsInv /\ [Next]_vars => LimitsInv'
    BY LimitsStep
  <1>3. Base /\ LimitsInv => OverrunIsBounded
    <2> SUFFICES ASSUME Base, LimitsInv PROVE OverrunIsBounded
      OBVIOUS
    <2>1. overlap \in Nat /\ IsFiniteSet(Passing)
      BY DEF Base, Types, PassingCounted
    <2>2. ASSUME NEW S, NEW P, NEW limit \in Nat, P \subseteq Passing, Within(S, P, limit)
          PROVE  Cardinality(S) <= limit + overlap
      <3>1. Cardinality(P) \in Nat /\ Cardinality(S) \in Nat
        BY <2>1, <2>2, CardinalityFacts DEF Within
      <3> QED BY <2>1, <2>2, <3>1 DEF Within
    <2>3. (\A u \in Users : PassingUser(u) \subseteq Passing) /\ (\A i \in Ips : PassingIp(i) \subseteq Passing)
      BY DEF PassingUser, PassingIp
    <2> QED BY <2>2, <2>3, LimitsAssumption DEF LimitsInv, OverrunIsBounded, VerifiedSockets
  <1> QED BY <1>1, <1>2, <1>3, BaseInvariant, PTL DEF SafeSpec

-----------------------------------------------------------------------------
(* The keys of sockets, of sessions shorter than the time to live *)

\* A socket has its three keys, and is counted, all at once or not at all.
KeySound(s) ==
  /\ nameKey[s] \in {None, UserOf[s]}
  /\ auctionKey[s] = None <=> nameKey[s] = None
  /\ ipKey[s] = IF nameKey[s] = None THEN None ELSE IpOf[s]
  /\ \A u \in Users : s \in userSockets[u] <=> nameKey[s] # None /\ u = UserOf[s]
  /\ \A i \in Ips : s \in ipSockets[i] <=> nameKey[s] # None /\ i = IpOf[s]

\* What an unregistration has read is what was registered, and the keys are there until
\* it removes them; after that they are back only if a join was late.
ReadSound(s) ==
  /\ leaving[s].pc \in {"address", "auction", "remove"} => nameKey[s] # None
  /\ leaving[s].pc \in {"address", "auction", "remove", "count", "offline"} => leaving[s].name = UserOf[s]
  /\ leaving[s].pc \in {"auction", "remove", "count", "offline"} => leaving[s].ip = IpOf[s]
  /\ leaving[s].pc \in {"remove", "count", "offline"} => leaving[s].auction \in Auctions
  /\ leaving[s].pc \in {"count", "offline", "done"} /\ s \notin late => nameKey[s] = None

KeysInv == \A s \in Sockets : KeySound(s) /\ ReadSound(s)

\* No key is the absent one.
LEMMA NeverNone == ASSUME NEW s \in Sockets PROVE UserOf[s] \in Users /\ IpOf[s] \in Ips /\ UserOf[s] # None /\ IpOf[s] # None
  BY OwnersAssumption, AbsentAssumption

\* Steps that leave the keys and the counts alone, and start unregistrations at most.
LEMMA KeysStay ==
  ASSUME KeysInv, UNCHANGED <<countVars, keyVars, late>>, \A s \in Sockets : Leaves(s), Types
  PROVE  KeysInv'
  <1> SUFFICES ASSUME NEW s \in Sockets PROVE KeySound(s)' /\ ReadSound(s)'
    BY DEF KeysInv
  <1>1. KeySound(s)'
    BY DEF KeysInv, KeySound, countVars, keyVars
  <1>2. CASE leaving'[s] = leaving[s]
    BY <1>1, <1>2 DEF KeysInv, ReadSound, countVars, keyVars
  <1>3. CASE leaving[s].pc = "connected" /\ leaving'[s] = [leaving[s] EXCEPT !.pc = "name"]
    <2>1. leaving'[s].pc = "name"
      BY <1>3 DEF Types, LeavingTypes
    <2> QED BY <1>1, <2>1 DEF ReadSound
  <1> QED BY <1>2, <1>3 DEF Leaves

\* A registration writes all keys of one socket.
LEMMA KeysRegister ==
  ASSUME Types, RequestsSound, KeysInv, NEW r \in Requests, Register(r)
  PROVE  KeysInv'
  <1>1. PICK s \in Sockets, a \in Auctions, u \in Users, i \in Ips : RegisterAs(r, s, a, u, i)
    BY RegisterEffect
  <1>2. /\ u = UserOf[s] /\ i = IpOf[s] /\ u # None /\ i # None /\ a # None
        /\ ipSockets' = [ipSockets EXCEPT ![i] = @ \cup {s}]
        /\ userSockets' = [userSockets EXCEPT ![u] = @ \cup {s}]
        /\ ipKey' = [ipKey EXCEPT ![s] = i]
        /\ nameKey' = [nameKey EXCEPT ![s] = u]
        /\ auctionKey' = [auctionKey EXCEPT ![s] = a]
        /\ late' = IF leaving[s].pc \in {"count", "offline", "done"} THEN late \cup {s} ELSE late
        /\ leaving' = leaving
    BY <1>1, AbsentAssumption DEF RegisterAs
  <1>3. /\ userSockets \in [Users -> SUBSET Sockets] /\ ipSockets \in [Ips -> SUBSET Sockets]
        /\ nameKey \in [Sockets -> Users \cup {None}] /\ ipKey \in [Sockets -> Ips \cup {None}]
        /\ auctionKey \in [Sockets -> Auctions \cup {None}]
    BY DEF Types
  <1>4. KeySound(s)'
    <2>1. nameKey'[s] = u /\ auctionKey'[s] = a /\ ipKey'[s] = i
      BY <1>2, <1>3
    <2>2. \A v \in Users : s \in userSockets'[v] <=> v = u
      BY <1>2, <1>3 DEF KeysInv, KeySound
    <2>3. \A k \in Ips : s \in ipSockets'[k] <=> k = i
      BY <1>2, <1>3 DEF KeysInv, KeySound
    <2> QED BY <1>2, <2>1, <2>2, <2>3 DEF KeySound
  <1>5. ReadSound(s)'
    BY <1>2, <1>3 DEF KeysInv, ReadSound
  <1>6. ASSUME NEW t \in Sockets, t # s PROVE KeySound(t)' /\ ReadSound(t)'
    <2>1. nameKey'[t] = nameKey[t] /\ auctionKey'[t] = auctionKey[t] /\ ipKey'[t] = ipKey[t]
          /\ (t \in late' <=> t \in late)
      BY <1>2, <1>3, <1>6
    <2>2. \A v \in Users : t \in userSockets'[v] <=> t \in userSockets[v]
      BY <1>2, <1>3, <1>6
    <2>3. \A k \in Ips : t \in ipSockets'[k] <=> t \in ipSockets[k]
      BY <1>2, <1>3, <1>6
    <2>4. KeySound(t)'
      BY <2>1, <2>2, <2>3 DEF KeysInv, KeySound
    <2>5. ReadSound(t)'
      BY <1>2, <2>1 DEF KeysInv, ReadSound
    <2> QED BY <2>4, <2>5
  <1> QED BY <1>4, <1>5, <1>6 DEF KeysInv

\* What the MULTI of an unregistration does, with what was read named.
RemoveAs(s, u, i, a) ==
  /\ leaving[s].pc = "remove" /\ leaving[s].auction = a /\ u = UserOf[s] /\ i = IpOf[s] /\ leaving[s].name = u
  /\ ipSockets' = [k \in Ips |-> IF k = i THEN ipSockets[k] \ {s} ELSE ipSockets[k]]
  /\ userSockets' = [userSockets EXCEPT ![u] = @ \ {s}]
  /\ ipKey' = [ipKey EXCEPT ![s] = None]
  /\ nameKey' = [nameKey EXCEPT ![s] = None]
  /\ auctionKey' = [auctionKey EXCEPT ![s] = None]
  /\ userAuction' = [userAuction EXCEPT ![u] = [b \in Auctions |-> IF b = a THEN @[b] \ {s} ELSE @[b]]]
  /\ leaving' = [leaving EXCEPT ![s].pc = "count"]
  /\ UNCHANGED <<socketVars, auctionVars, online, request, historyVars>>

LEMMA RemoveEffect ==
  ASSUME Types, KeysInv, NEW s \in Sockets, Remove(s)
  PROVE  \E u \in Users, i \in Ips, a \in Auctions : RemoveAs(s, u, i, a)
  <1>1. /\ leaving[s].pc = "remove" /\ leaving[s].name = UserOf[s] /\ leaving[s].ip = IpOf[s]
        /\ leaving[s].auction \in Auctions
    BY DEF Remove, KeysInv, ReadSound
  <1>2. PICK u \in Users, i \in Ips, a \in Auctions : u = UserOf[s] /\ i = IpOf[s] /\ a = leaving[s].auction
    BY <1>1, NeverNone
  <1>3. /\ ipSockets' = [k \in Ips |-> IF k = i THEN ipSockets[k] \ {s} ELSE ipSockets[k]]
        /\ userSockets' = [userSockets EXCEPT ![u] = @ \ {s}]
        /\ RemoveKeys(s)
    BY <1>1, <1>2 DEF Remove, RemoveCounts
  <1>4. userAuction' = [userAuction EXCEPT ![u] = [b \in Auctions |-> IF b = a THEN @[b] \ {s} ELSE @[b]]]
    BY <1>1, <1>2 DEF Remove
  <1>5. /\ leaving' = [leaving EXCEPT ![s].pc = "count"]
        /\ UNCHANGED <<socketVars, auctionVars, online, request, historyVars>>
    BY DEF Remove
  <1>6. RemoveAs(s, u, i, a)
    BY <1>1, <1>2, <1>3, <1>4, <1>5 DEF RemoveAs, RemoveKeys
  <1> QED BY <1>6

\* An unregistration removes all keys of one socket.
LEMMA KeysRemove ==
  ASSUME Types, KeysInv, NEW s \in Sockets, Remove(s)
  PROVE  KeysInv'
  <1>1. PICK u \in Users, i \in Ips, a \in Auctions : RemoveAs(s, u, i, a)
    BY RemoveEffect
  <1>2. /\ u = UserOf[s] /\ i = IpOf[s]
        /\ ipSockets' = [k \in Ips |-> IF k = i THEN ipSockets[k] \ {s} ELSE ipSockets[k]]
        /\ userSockets' = [userSockets EXCEPT ![u] = @ \ {s}]
        /\ ipKey' = [ipKey EXCEPT ![s] = None]
        /\ nameKey' = [nameKey EXCEPT ![s] = None]
        /\ auctionKey' = [auctionKey EXCEPT ![s] = None]
        /\ leaving' = [leaving EXCEPT ![s].pc = "count"]
        /\ leaving[s].pc = "remove" /\ late' = late
    BY <1>1 DEF RemoveAs, historyVars
  <1>3. /\ userSockets \in [Users -> SUBSET Sockets] /\ ipSockets \in [Ips -> SUBSET Sockets]
        /\ nameKey \in [Sockets -> Users \cup {None}] /\ ipKey \in [Sockets -> Ips \cup {None}]
        /\ auctionKey \in [Sockets -> Auctions \cup {None}]
        /\ leaving \in [Sockets -> LeavingTypes]
    BY DEF Types
  <1>4. nameKey'[s] = None /\ auctionKey'[s] = None /\ ipKey'[s] = None
    BY <1>2, <1>3
  <1>5. KeySound(s)'
    <2>1. \A v \in Users : s \notin userSockets'[v]
      BY <1>2, <1>3 DEF KeysInv, KeySound
    <2>2. \A k \in Ips : s \notin ipSockets'[k]
      BY <1>2, <1>3 DEF KeysInv, KeySound
    <2> QED BY <1>4, <2>1, <2>2 DEF KeySound
  <1>6. ReadSound(s)'
    <2>1. /\ leaving'[s].pc = "count" /\ leaving'[s].name = leaving[s].name /\ leaving'[s].ip = leaving[s].ip
          /\ leaving'[s].auction = leaving[s].auction
      BY <1>2, <1>3 DEF LeavingTypes
    <2> QED BY <1>2, <1>4, <2>1 DEF KeysInv, ReadSound
  <1>7. ASSUME NEW t \in Sockets, t # s PROVE KeySound(t)' /\ ReadSound(t)'
    <2>1. nameKey'[t] = nameKey[t] /\ auctionKey'[t] = auctionKey[t] /\ ipKey'[t] = ipKey[t]
          /\ leaving'[t] = leaving[t]
      BY <1>2, <1>3, <1>7
    <2>2. \A v \in Users : t \in userSockets'[v] <=> t \in userSockets[v]
      BY <1>2, <1>3, <1>7
    <2>3. \A k \in Ips : t \in ipSockets'[k] <=> t \in ipSockets[k]
      BY <1>2, <1>3, <1>7
    <2>4. KeySound(t)'
      BY <2>1, <2>2, <2>3 DEF KeysInv, KeySound
    <2>5. ReadSound(t)'
      BY <1>2, <2>1 DEF KeysInv, ReadSound
    <2> QED BY <2>4, <2>5
  <1> QED BY <1>5, <1>6, <1>7 DEF KeysInv

\* The steps that read keep what is read sound.
LEMMA KeysGoing ==
  ASSUME Types, KeysInv, NEW s \in Sockets, Going(s)
  PROVE  KeysInv'
  <1>1. /\ leaving \in [Sockets -> LeavingTypes] /\ leaving' = [leaving EXCEPT ![s] = leaving'[s]]
        /\ late' = late
    BY LeavingEffect DEF Types, historyVars
  <1>2. UNCHANGED <<countVars, keyVars>>
    BY DEF Going, ReadName, ReadAddress, ReadAuction, CountRemaining, GoOffline
  <1>3. \A t \in Sockets : KeySound(t)'
    BY <1>2 DEF KeysInv, KeySound, countVars, keyVars
  <1>4. ASSUME NEW t \in Sockets, t # s PROVE ReadSound(t)'
    BY <1>1, <1>2, <1>4 DEF KeysInv, ReadSound, keyVars
  <1>5. KeySound(s) /\ ReadSound(s) /\ leaving[s] \in LeavingTypes /\ nameKey' = nameKey
        /\ auctionKey[s] \in Auctions \cup {None}
    BY <1>2 DEF KeysInv, Types, keyVars
  <1>6. ReadSound(s)'
    <2>1. CASE ReadName(s)
      <3>1. /\ leaving'[s].pc = IF nameKey[s] = None THEN "done" ELSE "address"
            /\ leaving'[s].name = nameKey[s]
        BY <1>1, <1>5, <2>1 DEF ReadName, LeavingTypes
      <3> QED BY <1>1, <1>5, <3>1 DEF ReadSound, KeySound
    <2>2. CASE ReadAddress(s)
      <3>1. /\ leaving'[s].pc = "auction" /\ leaving'[s].name = leaving[s].name /\ leaving'[s].ip = ipKey[s]
            /\ leaving[s].pc = "address"
        BY <1>1, <1>5, <2>2 DEF ReadAddress, LeavingTypes
      <3> QED BY <1>1, <1>5, <3>1 DEF ReadSound, KeySound
    <2>3. CASE ReadAuction(s)
      <3>1. /\ leaving'[s].pc = "remove" /\ leaving'[s].name = leaving[s].name /\ leaving'[s].ip = leaving[s].ip
            /\ leaving'[s].auction = auctionKey[s] /\ leaving[s].pc = "auction"
        BY <1>1, <1>5, <2>3 DEF ReadAuction, LeavingTypes
      <3> QED BY <1>1, <1>5, <3>1 DEF ReadSound, KeySound
    <2>4. CASE CountRemaining(s) \/ GoOffline(s)
      <3>1. /\ leaving'[s].pc \in {"offline", "done"} /\ leaving[s].pc \in {"count", "offline"}
            /\ leaving'[s].name = leaving[s].name /\ leaving'[s].ip = leaving[s].ip
            /\ leaving'[s].auction = leaving[s].auction
        <4>1. PICK pc \in {"offline", "done"} : leaving' = [leaving EXCEPT ![s].pc = pc]
          BY <2>4 DEF CountRemaining, GoOffline
        <4>2. leaving[s].pc \in {"count", "offline"}
          BY <2>4 DEF CountRemaining, GoOffline
        <4> QED BY <1>1, <1>5, <4>1, <4>2 DEF LeavingTypes
      <3> QED BY <1>1, <1>5, <3>1 DEF ReadSound
    <2> QED BY <2>1, <2>2, <2>3, <2>4 DEF Going
  <1> QED BY <1>3, <1>4, <1>6 DEF KeysInv

\* Every step keeps the keys sound, while Redis forgets none of them.
LEMMA KeysStep ==
  ASSUME ~KeysExpire, Base, KeysInv, [Next]_vars
  PROVE  KeysInv'
  <1>0. Types /\ RequestsSound
    BY DEF Base
  <1>1. ASSUME \/ \E r \in Requests : Coming(r)
               \/ \E s \in Sockets : Disconnect(s)
               \/ \E a \in Auctions : Broadcast(a)
        PROVE  KeysInv'
    <2>1. \A s \in Sockets : Leaves(s)
      BY <1>0, <1>1, SocketEffect
    <2>2. UNCHANGED <<countVars, keyVars, late>>
      BY <1>1 DEF Coming, Send, CheckUser, CheckIp, Reject, RejectThrows, LoadAuction, TurnAway, Enter,
                  Disconnect, Broadcast, historyVars
    <2> QED BY <1>0, <2>1, <2>2, KeysStay
  <1>2. ASSUME UNCHANGED vars \/ \E a \in Auctions : Close(a) PROVE KeysInv'
    <2>1. UNCHANGED <<countVars, keyVars, late>> /\ leaving' = leaving
      BY <1>2 DEF vars, Close, countVars, keyVars, historyVars
    <2> QED BY <1>0, <2>1, KeysStay DEF Leaves
  <1> QED BY <1>0, <1>1, <1>2, NextCases, KeysRegister, KeysRemove, KeysGoing

\* The keys and what is read of them are sound in every state.
LEMMA KeysInvariant == ASSUME ~KeysExpire PROVE SafeSpec => [](Base /\ KeysInv)
  <1>1. Init => KeysInv
    BY DEF Init, KeysInv, KeySound, ReadSound, NotLeaving
  <1>2. Base /\ KeysInv /\ [Next]_vars => KeysInv'
    BY KeysStep
  <1> QED BY <1>1, <1>2, BaseInvariant, PTL DEF SafeSpec

\* The state has its types, and the keys of a socket agree with each other and with what
\* counts it: registerSocket and unregisterSocket write them in one MULTI each.
THEOREM SessionsTypeCorrect == ASSUME ~KeysExpire PROVE SafeSpec => []TypeOK
  <1>1. Base /\ KeysInv => TypeOK
    BY NeverNone DEF Base, KeysInv, KeySound, TypeOK, KeysAgree
  <1> QED BY <1>1, KeysInvariant, PTL

\* A socket that has been unregistered is counted no longer, unless a join of its own that
\* was under way registered it again: registerSocket does not ask whether the socket still
\* is connected.
THEOREM OnlyLateJoins == ASSUME ~KeysExpire PROVE SafeSpec => []OnlyLateJoinsLeak
  <1>1. Base /\ KeysInv => OnlyLateJoinsLeak
    BY NeverNone DEF KeysInv, KeySound, ReadSound, OnlyLateJoinsLeak
  <1> QED BY <1>1, KeysInvariant, PTL

-----------------------------------------------------------------------------
(* The sockets in a room *)

\* The socket has registered for the auction, and is about to enter its room.
Registered(s, a) ==
  /\ s \in connected
  /\ \E r \in Requests : request[r].pc = "enter" /\ request[r].socket = s /\ request[r].auction = a

Present(s, a) == s \in rooms[a] \/ Registered(s, a)

Counted(s, a) == nameKey[s] # None /\ s \in userAuction[UserOf[s]][a]

\* The user is shown as online in the auction, or was being taken off its list when the
\* socket registered; while it is being taken off the list, that was so.
ShownOrRaced(s, a) ==
  /\ UserOf[s] \in online[a] \/ <<s, a>> \in raced
  /\ BeingTakenOff(UserOf[s], a) => <<s, a>> \in raced

RoomsInv == \A s \in Sockets, a \in Auctions : Present(s, a) => Counted(s, a) /\ ShownOrRaced(s, a)

\* A socket that becomes present registers in that step; a socket that is present was
\* connected before the step.
LEMMA PresentComes ==
  ASSUME Types, RequestsSound, [Next]_vars, NEW s \in Sockets, NEW a \in Auctions, Present(s, a)'
  PROVE  /\ s \in connected
         /\ \/ Present(s, a)
            \/ \E r \in Requests : Register(r) /\ request[r].socket = s /\ request[r].auction = a
  <1>0. /\ rooms \in [Auctions -> SUBSET connected] /\ connected' \subseteq connected
        /\ request \in [Requests -> RequestTypes]
    <2>1. connected' \subseteq connected
      <3>1. ASSUME \/ \E r \in Requests : Coming(r)
                   \/ \E t \in Sockets : Disconnect(t)
                   \/ \E b \in Auctions : Broadcast(b)
            PROVE  connected' \subseteq connected
        BY <3>1, SocketEffect
      <3>2. ASSUME \/ \E r \in Requests : Register(r)
                   \/ \E t \in Sockets : Going(t) \/ Remove(t)
                   \/ \E b \in Auctions : Close(b)
                   \/ Expiring
                   \/ UNCHANGED vars
            PROVE  connected' = connected
        BY <3>2 DEF Register, Going, ReadName, ReadAddress, ReadAuction, CountRemaining, GoOffline, Remove, Close,
                    Expiring, ExpireSocket, ExpireUser, ExpireUserAuction, ExpireIp, ExpireOnline, vars, socketVars
      <3> QED BY <3>1, <3>2, NextCases
    <2> QED BY <2>1 DEF Types
  <1>1. CASE Registered(s, a)'
    <2>1. PICK r \in Requests : request'[r].pc = "enter" /\ request'[r].socket = s /\ request'[r].auction = a
      BY <1>1 DEF Registered
    <2>2. s \in connected
      BY <1>0, <1>1 DEF Registered
    <2>3. CASE request'[r] = request[r]
      BY <2>1, <2>2, <2>3 DEF Present, Registered
    <2>4. CASE request'[r] # request[r]
      <3>1. PICK q \in Requests :
              (\E t \in Sockets, b \in Auctions : \E join, verified \in BOOLEAN : Send(q, t, b, join, verified)) \/ Handle(q)
        BY <2>4, OthersLeaveRequests
      <3>2. Proceeds(q)
        BY <3>1, HandlersProceed
      <3>3. q = r
        BY <1>0, <2>4, <3>2 DEF Proceeds
      <3>4. request[r].socket = s /\ request[r].auction = a
        BY <2>1, <2>4, <3>2, <3>3 DEF Proceeds, At
      <3>5. Register(r)
        <4>1. CASE \E t \in Sockets, b \in Auctions : \E join, verified \in BOOLEAN : Send(r, t, b, join, verified)
          BY <1>0, <2>1, <4>1 DEF Send
        <4>2. CASE CheckUser(r) \/ CheckIp(r)
          <5>1. \E pc \in {"ip", "reject", "load", "done"} : Goto(r, pc)
            BY <4>2 DEF CheckUser, CheckIp
          <5> QED BY <1>0, <2>1, <5>1 DEF Goto, RequestTypes
        <4>3. CASE Reject(r) \/ RejectThrows(r) \/ TurnAway(r) \/ Enter(r)
          <5>1. Goto(r, "done") \/ request' = [request EXCEPT ![r].pc = "done", ![r].open = FALSE]
            BY <4>3 DEF Reject, RejectThrows, TurnAway, Enter
          <5> QED BY <1>0, <2>1, <5>1 DEF Goto, RequestTypes
        <4>4. CASE LoadAuction(r)
          BY <1>0, <2>1, <4>4 DEF LoadAuction, RequestTypes
        <4> QED BY <3>1, <3>3, <4>1, <4>2, <4>3, <4>4 DEF Handle
      <3> QED BY <2>2, <3>4, <3>5
    <2> QED BY <2>3, <2>4
  <1>2. CASE s \in rooms'[a]
    <2>1. ASSUME NEW S, Drop(S) PROVE s \in rooms[a] /\ s \in connected
      BY <1>0, <1>2, <2>1 DEF Drop
    <2>2. CASE rooms' = rooms
      BY <1>0, <1>2, <2>2 DEF Present
    <2>3. ASSUME NEW r \in Requests, Enter(r) PROVE s \in connected /\ Present(s, a)
      <3>1. CASE request[r].open
        <4>1. PICK t, b : t = request[r].socket /\ b = request[r].auction
          OBVIOUS
        <4>2. rooms' = [rooms EXCEPT ![b] = rooms[b] \cup ({t} \cap connected)] /\ request[r].pc = "enter"
          BY <2>3, <3>1, <4>1 DEF Enter, RoomWith, At
        <4>3. s \in rooms[a] \/ (b = a /\ t = s /\ s \in connected)
          BY <1>0, <1>2, <4>2
        <4> QED BY <1>0, <4>1, <4>2, <4>3 DEF Present, Registered
      <3>2. CASE ~request[r].open
        BY <2>1, <2>3, <3>2 DEF Enter, Present
      <3> QED BY <3>1, <3>2
    <2>4. rooms' = rooms \/ (\E S : Drop(S)) \/ \E r \in Requests : Enter(r)
      BY ZenonT(100) DEF Next, Handle, Send, CheckUser, CheckIp, Reject, RejectThrows, LoadAuction, TurnAway, Register,
             Disconnect, Unregister, ReadName, ReadAddress, ReadAuction, Remove, CountRemaining, GoOffline,
             ExpireSocket, Close, Broadcast, ExpireOnline, ExpireUser, ExpireUserAuction, ExpireIp, vars, socketVars
    <2> QED BY <2>1, <2>2, <2>3, <2>4 DEF Present
  <1> QED BY <1>1, <1>2 DEF Present

\* A registration counts its socket and shows its user.
LEMMA RegisterShows ==
  ASSUME Types, RequestsSound, NEW r \in Requests, Register(r),
         NEW s \in Sockets, NEW a \in Auctions, request[r].socket = s, request[r].auction = a
  PROVE  Counted(s, a)' /\ ShownOrRaced(s, a)'
  <1>1. PICK t \in Sockets, b \in Auctions, u \in Users, i \in Ips : RegisterAs(r, t, b, u, i)
    BY RegisterEffect
  <1>2. /\ u = UserOf[s] /\ u # None
        /\ nameKey' = [nameKey EXCEPT ![s] = u]
        /\ online' = [online EXCEPT ![a] = @ \cup {u}]
        /\ userAuction' = [userAuction EXCEPT ![u][a] = @ \cup {s}]
        /\ leaving' = leaving
        /\ raced' = IF BeingTakenOff(u, a) THEN raced \cup {<<s, a>>} ELSE raced \ {<<s, a>>}
    BY <1>1, NeverNone DEF RegisterAs
  <1>3. nameKey'[s] = u /\ u \in online'[a]
    BY <1>2 DEF Types
  <1>5. BeingTakenOff(u, a)' => <<s, a>> \in raced'
    BY <1>2 DEF BeingTakenOff
  <1>4. s \in userAuction'[u][a]
    BY <1>2 DEF Types
  <1> QED BY <1>2, <1>3, <1>4, <1>5 DEF Counted, ShownOrRaced

\* A socket that is connected stays counted.
LEMMA CountedStays ==
  ASSUME ~KeysExpire, Base, KeysInv, [Next]_vars,
         NEW s \in Sockets, NEW a \in Auctions, s \in connected, Counted(s, a)
  PROVE  Counted(s, a)'
  <1>0. /\ Types /\ RequestsSound /\ UserOf[s] \in Users
        /\ nameKey \in [Sockets -> Users \cup {None}] /\ userAuction \in [Users -> [Auctions -> SUBSET Sockets]]
    BY NeverNone DEF Base, Types
  <1>1. ASSUME NEW r \in Requests, Register(r) PROVE Counted(s, a)'
    <2>1. PICK t \in Sockets, b \in Auctions, u \in Users, i \in Ips : RegisterAs(r, t, b, u, i)
      BY <1>0, <1>1, RegisterEffect
    <2>2. /\ u # None
          /\ nameKey' = [nameKey EXCEPT ![t] = u]
          /\ userAuction' = [userAuction EXCEPT ![u][b] = @ \cup {t}]
      BY <2>1, AbsentAssumption DEF RegisterAs
    <2>3. nameKey'[s] # None
      BY <1>0, <2>2 DEF Counted
    <2>4. userAuction[UserOf[s]][a] \subseteq userAuction'[UserOf[s]][a]
      BY <1>0, <2>2
    <2> QED BY <2>3, <2>4 DEF Counted
  <1>2. ASSUME NEW t \in Sockets, Remove(t) PROVE Counted(s, a)'
    <2>1. PICK u \in Users, i \in Ips, b \in Auctions : RemoveAs(t, u, i, b)
      BY <1>0, <1>2, RemoveEffect
    <2>2. /\ nameKey' = [nameKey EXCEPT ![t] = None]
          /\ userAuction' = [userAuction EXCEPT ![u] = [c \in Auctions |-> IF c = b THEN @[c] \ {t} ELSE @[c]]]
          /\ leaving[t].pc = "remove"
      BY <2>1 DEF RemoveAs
    <2>3. s # t
      BY <1>0, <2>2 DEF Types
    <2>4. nameKey'[s] = nameKey[s]
      BY <1>0, <2>2, <2>3
    <2>5. s \in userAuction'[UserOf[s]][a]
      <3>1. s \in userAuction[UserOf[s]][a]
        BY DEF Counted
      <3>2. CASE u = UserOf[s]
        <4>1. userAuction'[u] = [c \in Auctions |-> IF c = b THEN userAuction[u][c] \ {t} ELSE userAuction[u][c]]
          BY <1>0, <2>2
        <4> QED BY <2>3, <3>1, <3>2, <4>1
      <3>3. CASE u # UserOf[s]
        BY <1>0, <2>2, <3>1, <3>3
      <3> QED BY <3>2, <3>3
    <2> QED BY <2>4, <2>5 DEF Counted
  <1>3. ASSUME UNCHANGED <<nameKey, userAuction>> PROVE Counted(s, a)'
    BY <1>3 DEF Counted
  <1>4. ASSUME \/ \E r \in Requests : Coming(r)
               \/ \E t \in Sockets : Disconnect(t) \/ Going(t)
               \/ \E b \in Auctions : Broadcast(b) \/ Close(b)
               \/ UNCHANGED vars
        PROVE  UNCHANGED <<nameKey, userAuction>>
    BY <1>4 DEF Coming, Send, CheckUser, CheckIp, Reject, RejectThrows, LoadAuction, TurnAway, Enter,
                Disconnect, Broadcast, Close, Going, ReadName, ReadAddress, ReadAuction, CountRemaining, GoOffline,
                vars, keyVars, presenceVars
  <1> QED BY <1>1, <1>2, <1>3, <1>4, NextCases

\* The user of a socket that is connected and counted stays shown, unless it was being
\* taken off the list when the socket registered: nobody else finds that none is left.
LEMMA ShownStays ==
  ASSUME ~KeysExpire, Base, KeysInv, [Next]_vars,
         NEW s \in Sockets, NEW a \in Auctions, s \in connected, Counted(s, a), ShownOrRaced(s, a)
  PROVE  ShownOrRaced(s, a)'
  <1>0. /\ Types /\ RequestsSound
        /\ leaving \in [Sockets -> LeavingTypes] /\ online \in [Auctions -> SUBSET Users]
        /\ leaving[s].pc = "connected"
    BY DEF Base, Types
  <1>1. ASSUME online[a] \subseteq online'[a], raced' = raced,
               \A t \in Sockets : /\ leaving'[t].pc = "offline" /\ leaving'[t].name = UserOf[s]
                                  /\ leaving'[t].auction = a
                                  => leaving'[t] = leaving[t]
        PROVE  ShownOrRaced(s, a)'
    <2>1. BeingTakenOff(UserOf[s], a)' => BeingTakenOff(UserOf[s], a)
      BY <1>1 DEF BeingTakenOff
    <2> QED BY <1>1, <2>1 DEF ShownOrRaced
  <1>2. ASSUME \/ \E r \in Requests : Coming(r)
               \/ \E t \in Sockets : Disconnect(t)
               \/ \E b \in Auctions : Broadcast(b)
        PROVE  ShownOrRaced(s, a)'
    <2>1. \A t \in Sockets : Leaves(t)
      BY <1>0, <1>2, SocketEffect
    <2>2. online' = online /\ raced' = raced
      BY <1>2 DEF Coming, Send, CheckUser, CheckIp, Reject, RejectThrows, LoadAuction, TurnAway, Enter,
                  Disconnect, Broadcast, presenceVars, historyVars
    <2>3. \A t \in Sockets : leaving'[t].pc = "offline" => leaving'[t] = leaving[t]
      BY <1>0, <2>1 DEF Leaves, LeavingTypes
    <2> QED BY <1>1, <2>2, <2>3
  <1>3. ASSUME NEW r \in Requests, Register(r) PROVE ShownOrRaced(s, a)'
    <2>1. PICK t \in Sockets, b \in Auctions, u \in Users, i \in Ips : RegisterAs(r, t, b, u, i)
      BY <1>0, <1>3, RegisterEffect
    <2>2. /\ online' = [online EXCEPT ![b] = @ \cup {u}] /\ leaving' = leaving /\ u = UserOf[t]
          /\ raced' = IF BeingTakenOff(u, b) THEN raced \cup {<<t, b>>} ELSE raced \ {<<t, b>>}
      BY <2>1 DEF RegisterAs
    <2>3. online[a] \subseteq online'[a] /\ (b = a => u \in online'[a])
      BY <1>0, <2>2
    <2>4. BeingTakenOff(UserOf[s], a)' <=> BeingTakenOff(UserOf[s], a)
      BY <2>2 DEF BeingTakenOff
    <2>5. CASE t = s /\ b = a
      BY <2>2, <2>3, <2>4, <2>5 DEF ShownOrRaced
    <2>6. CASE ~(t = s /\ b = a)
      <3>1. <<s, a>> \in raced <=> <<s, a>> \in raced'
        BY <2>2, <2>6
      <3> QED BY <2>3, <2>4, <3>1 DEF ShownOrRaced
    <2> QED BY <2>5, <2>6
  <1>4. ASSUME UNCHANGED <<online, leaving, raced>> PROVE ShownOrRaced(s, a)'
    BY <1>1, <1>4
  <1>5. ASSUME NEW t \in Sockets, Going(t) \/ Remove(t), ~GoOffline(t), ~CountRemaining(t)
        PROVE  ShownOrRaced(s, a)'
    <2>1. leaving' = [leaving EXCEPT ![t] = leaving'[t]] /\ raced' = raced
      BY <1>0, <1>5, LeavingEffect DEF historyVars
    <2>2. online' = online
      BY <1>5 DEF Going, ReadName, ReadAddress, ReadAuction, Remove, presenceVars
    <2>3. leaving'[t].pc # "offline"
      BY <1>0, <1>5 DEF Going, ReadName, ReadAddress, ReadAuction, Remove, LeavingTypes
    <2> QED BY <1>0, <1>1, <2>1, <2>2, <2>3
  <1>6. ASSUME NEW t \in Sockets, CountRemaining(t) PROVE ShownOrRaced(s, a)'
    <2>1. PICK n, b : leaving[t].name = n /\ leaving[t].auction = b
      OBVIOUS
    <2>2. /\ leaving[t].pc = "count" /\ n = UserOf[t] /\ b \in Auctions /\ b # None
          /\ leaving' = [leaving EXCEPT ![t].pc = IF userAuction[n][b] = {} THEN "offline" ELSE "done"]
          /\ online' = online /\ raced' = raced
      BY <1>6, <2>1, AbsentAssumption DEF CountRemaining, Remaining, KeysInv, ReadSound, presenceVars, historyVars
    <2>3. /\ leaving'[t].pc = IF userAuction[n][b] = {} THEN "offline" ELSE "done"
          /\ leaving'[t].name = n /\ leaving'[t].auction = b
          /\ \A q \in Sockets \ {t} : leaving'[q] = leaving[q]
      BY <1>0, <2>1, <2>2 DEF LeavingTypes
    <2>4. ~(leaving'[t].pc = "offline" /\ leaving'[t].name = UserOf[s] /\ leaving'[t].auction = a)
      BY <2>3 DEF Counted
    <2> QED BY <1>1, <2>2, <2>3, <2>4
  <1>7. ASSUME NEW t \in Sockets, GoOffline(t) PROVE ShownOrRaced(s, a)'
    <2>1. PICK n, b : leaving[t].name = n /\ leaving[t].auction = b
      OBVIOUS
    <2>2. /\ leaving[t].pc = "offline"
          /\ online' = [c \in Auctions |-> IF c = b THEN online[c] \ {n} ELSE online[c]]
          /\ leaving' = [leaving EXCEPT ![t].pc = "done"] /\ raced' = raced
      BY <1>7, <2>1 DEF GoOffline, historyVars
    <2>3. leaving'[t].pc = "done" /\ \A q \in Sockets \ {t} : leaving'[q] = leaving[q]
      BY <1>0, <2>1, <2>2 DEF LeavingTypes
    <2>4. CASE b = a /\ n = UserOf[s]
      <3>1. <<s, a>> \in raced
        BY <2>1, <2>2, <2>4 DEF ShownOrRaced, BeingTakenOff
      <3> QED BY <2>2, <3>1 DEF ShownOrRaced
    <2>5. CASE ~(b = a /\ n = UserOf[s])
      <3>1. UserOf[s] \in online[a] => UserOf[s] \in online'[a]
        BY <1>0, <2>2, <2>5
      <3>2. BeingTakenOff(UserOf[s], a)' => BeingTakenOff(UserOf[s], a)
        BY <2>2, <2>3 DEF BeingTakenOff
      <3> QED BY <2>2, <3>1, <3>2 DEF ShownOrRaced
    <2> QED BY <2>4, <2>5
  <1>8. ASSUME UNCHANGED vars \/ \E b \in Auctions : Close(b) PROVE UNCHANGED <<online, leaving, raced>>
    BY <1>8 DEF vars, Close, presenceVars, historyVars
  <1> QED BY <1>2, <1>3, <1>4, <1>5, <1>6, <1>7, <1>8, NextCases

\* Every step keeps what sockets in rooms satisfy.
LEMMA RoomsStep == ASSUME ~KeysExpire, Base, KeysInv, RoomsInv, [Next]_vars PROVE RoomsInv'
  <1> SUFFICES ASSUME NEW s \in Sockets, NEW a \in Auctions, Present(s, a)'
               PROVE  Counted(s, a)' /\ ShownOrRaced(s, a)'
    BY DEF RoomsInv
  <1>1. /\ s \in connected
        /\ \/ Present(s, a)
           \/ \E r \in Requests : Register(r) /\ request[r].socket = s /\ request[r].auction = a
    BY PresentComes DEF Base
  <1>2. CASE Present(s, a)
    BY <1>1, <1>2, CountedStays, ShownStays DEF RoomsInv
  <1>3. CASE \E r \in Requests : Register(r) /\ request[r].socket = s /\ request[r].auction = a
    BY <1>3, RegisterShows DEF Base
  <1> QED BY <1>1, <1>2, <1>3

LEMMA RoomsInvariant == ASSUME ~KeysExpire PROVE SafeSpec => [](Base /\ KeysInv /\ RoomsInv)
  <1>1. Init => RoomsInv
    BY DEF Init, RoomsInv, Present, Registered, Unsent
  <1>2. Base /\ KeysInv /\ RoomsInv /\ [Next]_vars => RoomsInv'
    BY RoomsStep
  <1> QED BY <1>1, <1>2, KeysInvariant, PTL DEF SafeSpec

\* Every socket in a room is counted against both limits and is on record in that auction,
\* whatever other sockets, and its own other joins, do at the same time.
THEOREM RoomsAreCounted == ASSUME ~KeysExpire PROVE SafeSpec => []RoomMembersAreCounted
  <1>1. Base /\ KeysInv /\ RoomsInv => RoomMembersAreCounted
    <2> SUFFICES ASSUME Base, KeysInv, RoomsInv, NEW a \in Auctions, NEW s \in rooms[a]
                 PROVE  /\ s \in userSockets[UserOf[s]]
                        /\ s \in ipSockets[IpOf[s]]
                        /\ s \in userAuction[UserOf[s]][a]
                        /\ nameKey[s] = UserOf[s]
      BY DEF RoomMembersAreCounted
    <2>1. s \in Sockets
      BY DEF Base, Types
    <2>2. Counted(s, a) /\ KeySound(s)
      BY <2>1 DEF RoomsInv, Present, KeysInv
    <2> QED BY <2>1, <2>2, NeverNone DEF Counted, KeySound
  <1> QED BY <1>1, RoomsInvariant, PTL

\* The user of a socket in a room is shown as online there, unless another socket of the
\* user had counted none left when this one registered, and had yet to take the user off
\* the list: unregisterSocket counts and removes in two calls.
THEOREM RoomsAreShown == ASSUME ~KeysExpire PROVE SafeSpec => []MembersAreShownOnline
  <1>1. Base /\ RoomsInv => MembersAreShownOnline
    <2> SUFFICES ASSUME Base, RoomsInv, NEW a \in Auctions, NEW s \in rooms[a]
                 PROVE  UserOf[s] \in online[a] \/ <<s, a>> \in raced
      BY DEF MembersAreShownOnline
    <2>1. s \in Sockets
      BY DEF Base, Types
    <2> QED BY <2>1 DEF RoomsInv, Present, ShownOrRaced
  <1> QED BY <1>1, RoomsInvariant, PTL

-----------------------------------------------------------------------------
(* Who is shown as online *)

AskedFor(s, a) == \E r \in Requests : request[r].socket = s /\ request[r].auction = a

\* Why the user of the socket is shown in the auction: the socket has it for its key, is
\* about to take the user off its list, or has joined a second auction.  (A socket that
\* registered late has the key.)
Cause(s, a) ==
  \/ JoinsTwice(s)
  \/ auctionKey[s] = a
  \/ leaving[s].pc \in {"count", "offline"} /\ leaving[s].auction = a

\* Keys and what is read of them are auctions that the socket asked for.
KeysAskedFor ==
  \A s \in Sockets, a \in Auctions : auctionKey[s] = a \/ leaving[s].auction = a => AskedFor(s, a)

\* A socket on record in an auction is its user's, asked for it, and has it for its key.
OnRecord(u, a, t) == UserOf[t] = u /\ AskedFor(t, a) /\ (auctionKey[t] = a \/ JoinsTwice(t))

RecordsSound == \A u \in Users, a \in Auctions, t \in Sockets : t \in userAuction[u][a] => OnRecord(u, a, t)

OnlineSound == \A u \in Users, a \in Auctions : u \in online[a] => \E s \in Sockets : UserOf[s] = u /\ Cause(s, a)

OnlineInv == KeysAskedFor /\ RecordsSound /\ OnlineSound

\* Two auctions asked for are a second join.
LEMMA AskedTwice ==
  ASSUME NEW s \in Sockets, NEW a \in Auctions, NEW b \in Auctions, a # b, AskedFor(s, a), AskedFor(s, b)
  PROVE  JoinsTwice(s)
  BY AbsentAssumption DEF AskedFor, JoinsTwice

\* What a socket has asked for stays asked for.
LEMMA AskedStays ==
  ASSUME Types, RequestsSound, [Next]_vars, NEW s \in Sockets
  PROVE  /\ \A a \in Auctions : AskedFor(s, a) => AskedFor(s, a)'
         /\ JoinsTwice(s) => JoinsTwice(s)'
  <1>1. ASSUME NEW r \in Requests, request[r].socket = s
        PROVE  request'[r].socket = s /\ request'[r].auction = request[r].auction
    BY <1>1, SentStays
  <1>2. \A a \in Auctions : AskedFor(s, a) => AskedFor(s, a)'
    BY <1>1 DEF AskedFor
  <1>3. JoinsTwice(s) => JoinsTwice(s)'
    BY <1>1 DEF JoinsTwice
  <1> QED BY <1>2, <1>3

\* A step that changes neither keys nor records, and of unregistrations only those that
\* neither count nor go offline, keeps the causes.
LEMMA CausesStay ==
  ASSUME Types, RequestsSound, [Next]_vars, OnlineInv,
         UNCHANGED <<auctionKey, userAuction, online>>,
         \A s \in Sockets : /\ leaving'[s].auction \in {leaving[s].auction, auctionKey[s]}
                            /\ leaving[s].pc \in {"count", "offline"} => leaving'[s] = leaving[s]
  PROVE  OnlineInv'
  <1>0. /\ auctionKey \in [Sockets -> Auctions \cup {None}] /\ leaving \in [Sockets -> LeavingTypes]
    BY DEF Types
  <1>1. KeysAskedFor'
    BY AskedStays DEF OnlineInv, KeysAskedFor
  <1>2. ASSUME NEW s \in Sockets, NEW a \in Auctions, Cause(s, a) PROVE Cause(s, a)'
    BY <1>2, AskedStays DEF Cause
  <1>3. OnlineSound'
    BY <1>2 DEF OnlineInv, OnlineSound
  <1>4. RecordsSound'
    BY AskedStays DEF OnlineInv, RecordsSound, OnRecord
  <1> QED BY <1>1, <1>3, <1>4 DEF OnlineInv

\* A registration gives its socket a record, a key and a user that is shown.
LEMMA CausesRegister ==
  ASSUME Types, RequestsSound, [Next]_vars, OnlineInv, NEW r \in Requests, Register(r)
  PROVE  OnlineInv'
  <1>1. PICK s \in Sockets, a \in Auctions, u \in Users, i \in Ips : RegisterAs(r, s, a, u, i)
    BY RegisterEffect
  <1>2. /\ s = request[r].socket /\ a = request[r].auction /\ u = UserOf[s]
        /\ auctionKey' = [auctionKey EXCEPT ![s] = a]
        /\ online' = [online EXCEPT ![a] = @ \cup {u}]
        /\ userAuction' = [userAuction EXCEPT ![u][a] = @ \cup {s}]
        /\ leaving' = leaving
    BY <1>1 DEF RegisterAs
  <1>3. /\ auctionKey \in [Sockets -> Auctions \cup {None}] /\ online \in [Auctions -> SUBSET Users]
        /\ userAuction \in [Users -> [Auctions -> SUBSET Sockets]]
    BY DEF Types
  <1>4. AskedFor(s, a) /\ AskedFor(s, a)'
    BY <1>2, AskedStays DEF AskedFor
  <1>5. /\ auctionKey'[s] = a
        /\ \A t \in Sockets \ {s} : auctionKey'[t] = auctionKey[t]
    BY <1>2, <1>3
  <1>6. KeysAskedFor'
    BY <1>2, <1>4, <1>5, AskedStays DEF OnlineInv, KeysAskedFor
  <1>7. ASSUME NEW b \in Auctions, b # a, AskedFor(s, b) PROVE JoinsTwice(s)'
    BY <1>4, <1>7, AskedTwice, AskedStays
  <1>8. ASSUME NEW t \in Sockets, NEW b \in Auctions, auctionKey[t] = b
        PROVE  auctionKey'[t] = b \/ JoinsTwice(t)'
    BY <1>5, <1>7, <1>8 DEF OnlineInv, KeysAskedFor
  <1>9. RecordsSound'
    <2> SUFFICES ASSUME NEW v \in Users, NEW b \in Auctions, NEW t \in Sockets, t \in userAuction'[v][b]
                 PROVE  OnRecord(v, b, t)'
      BY DEF RecordsSound
    <2>1. CASE t \in userAuction[v][b]
      <3>1. UserOf[t] = v /\ AskedFor(t, b) /\ (auctionKey[t] = b \/ JoinsTwice(t))
        BY <2>1 DEF OnlineInv, RecordsSound, OnRecord
      <3> QED BY <1>8, <3>1, AskedStays DEF OnRecord
    <2>2. CASE t \notin userAuction[v][b]
      <3>1. v = u /\ b = a /\ t = s
        BY <1>2, <1>3, <2>2
      <3> QED BY <1>2, <1>4, <1>5, <3>1 DEF OnRecord
    <2> QED BY <2>1, <2>2
  <1>10. OnlineSound'
    <2> SUFFICES ASSUME NEW v \in Users, NEW b \in Auctions, v \in online'[b]
                 PROVE  \E t \in Sockets : UserOf[t] = v /\ Cause(t, b)'
      BY DEF OnlineSound
    <2>1. CASE v \in online[b]
      <3>1. PICK t \in Sockets : UserOf[t] = v /\ Cause(t, b)
        BY <2>1 DEF OnlineInv, OnlineSound
      <3>2. Cause(t, b)'
        BY <1>2, <1>8, <3>1, AskedStays DEF Cause
      <3> QED BY <3>1, <3>2
    <2>2. CASE v \notin online[b]
      <3>1. v = u /\ b = a
        BY <1>2, <1>3, <2>2
      <3>2. Cause(s, a)'
        BY <1>5 DEF Cause
      <3> QED BY <1>2, <3>1, <3>2
    <2> QED BY <2>1, <2>2
  <1> QED BY <1>6, <1>9, <1>10 DEF OnlineInv

\* An unregistration forgets the auction it has read; if the key or a record names
\* another one, the socket has joined twice.
LEMMA CausesRemove ==
  ASSUME Types, RequestsSound, KeysInv, [Next]_vars, OnlineInv, NEW s \in Sockets, Remove(s)
  PROVE  OnlineInv'
  <1>1. PICK u \in Users, i \in Ips, a \in Auctions : RemoveAs(s, u, i, a)
    BY RemoveEffect
  <1>2. /\ leaving[s].pc = "remove" /\ leaving[s].auction = a /\ u = UserOf[s]
        /\ auctionKey' = [auctionKey EXCEPT ![s] = None]
        /\ userAuction' = [userAuction EXCEPT ![u] = [b \in Auctions |-> IF b = a THEN @[b] \ {s} ELSE @[b]]]
        /\ leaving' = [leaving EXCEPT ![s].pc = "count"]
        /\ online' = online
    BY <1>1 DEF RemoveAs
  <1>3. /\ auctionKey \in [Sockets -> Auctions \cup {None}] /\ leaving \in [Sockets -> LeavingTypes]
        /\ userAuction \in [Users -> [Auctions -> SUBSET Sockets]]
    BY DEF Types
  <1>4. /\ auctionKey'[s] = None
        /\ leaving'[s].pc = "count" /\ leaving'[s].auction = a
        /\ \A t \in Sockets \ {s} : auctionKey'[t] = auctionKey[t] /\ leaving'[t] = leaving[t]
    BY <1>2, <1>3 DEF LeavingTypes
  <1>5. AskedFor(s, a)
    BY <1>2 DEF OnlineInv, KeysAskedFor
  <1>6. KeysAskedFor'
    <2> SUFFICES ASSUME NEW t \in Sockets, NEW b \in Auctions, auctionKey'[t] = b \/ leaving'[t].auction = b
                 PROVE  AskedFor(t, b)'
      BY DEF KeysAskedFor
    <2>1. auctionKey[t] = b \/ leaving[t].auction = b
      BY <1>2, <1>4, AbsentAssumption
    <2> QED BY <2>1, AskedStays DEF OnlineInv, KeysAskedFor
  <1>7. ASSUME NEW b \in Auctions, b # a, AskedFor(s, b) PROVE JoinsTwice(s)'
    BY <1>5, <1>7, AskedTwice, AskedStays
  <1>8. ASSUME NEW t \in Sockets, NEW b \in Auctions, auctionKey[t] = b, t # s \/ b # a
        PROVE  auctionKey'[t] = b \/ JoinsTwice(t)'
    BY <1>4, <1>7, <1>8 DEF OnlineInv, KeysAskedFor
  <1>9. RecordsSound'
    <2> SUFFICES ASSUME NEW v \in Users, NEW b \in Auctions, NEW t \in Sockets, t \in userAuction'[v][b]
                 PROVE  OnRecord(v, b, t)'
      BY DEF RecordsSound
    <2>1. t \in userAuction[v][b] /\ (v = u /\ b = a => t # s)
      BY <1>2, <1>3
    <2>2. UserOf[t] = v /\ AskedFor(t, b) /\ (auctionKey[t] = b \/ JoinsTwice(t))
      BY <2>1 DEF OnlineInv, RecordsSound, OnRecord
    <2>3. t # s \/ b # a
      BY <1>2, <2>1, <2>2
    <2> QED BY <1>8, <2>2, <2>3, AskedStays DEF OnRecord
  <1>10. ASSUME NEW t \in Sockets, NEW b \in Auctions, Cause(t, b) PROVE Cause(t, b)'
    <2>1. CASE JoinsTwice(t)
      BY <2>1, AskedStays DEF Cause
    <2>2. CASE auctionKey[t] = b
      BY <1>4, <1>8, <2>2 DEF Cause
    <2>3. CASE leaving[t].pc \in {"count", "offline"} /\ leaving[t].auction = b
      BY <1>2, <1>4, <2>3 DEF Cause
    <2> QED BY <1>10, <2>1, <2>2, <2>3 DEF Cause
  <1>11. OnlineSound'
    BY <1>2, <1>10 DEF OnlineInv, OnlineSound
  <1> QED BY <1>6, <1>9, <1>11 DEF OnlineInv

\* A socket that finds others of its user on record leaves the user on the list: one of
\* them is the cause.
LEMMA CausesCount ==
  ASSUME Types, RequestsSound, KeysInv, [Next]_vars, OnlineInv, NEW s \in Sockets, CountRemaining(s)
  PROVE  OnlineInv'
  <1>1. PICK a \in Auctions, u \in Users : leaving[s].auction = a /\ leaving[s].name = u /\ u = UserOf[s]
    BY NeverNone DEF CountRemaining, KeysInv, ReadSound
  <1>2. /\ leaving[s].pc = "count"
        /\ leaving' = [leaving EXCEPT ![s].pc = IF userAuction[u][a] = {} THEN "offline" ELSE "done"]
        /\ UNCHANGED <<auctionKey, userAuction, online>>
    BY <1>1, AbsentAssumption DEF CountRemaining, Remaining, keyVars, presenceVars
  <1>3. /\ leaving'[s].pc = IF userAuction[u][a] = {} THEN "offline" ELSE "done"
        /\ leaving'[s].auction = a
        /\ \A t \in Sockets \ {s} : leaving'[t] = leaving[t]
    BY <1>1, <1>2 DEF Types, LeavingTypes
  <1>4. KeysAskedFor'
    BY <1>1, <1>2, <1>3, AskedStays DEF OnlineInv, KeysAskedFor
  <1>5. RecordsSound'
    BY <1>2, AskedStays DEF OnlineInv, RecordsSound, OnRecord
  <1>6. ASSUME NEW t \in Sockets, NEW b \in Auctions, Cause(t, b)
        PROVE  Cause(t, b)' \/ (t = s /\ b = a /\ userAuction[u][a] # {})
    <2>1. CASE t = s
      BY <1>1, <1>2, <1>3, <1>6, <2>1, AskedStays DEF Cause
    <2>2. CASE t # s
      BY <1>2, <1>3, <1>6, <2>2, AskedStays DEF Cause
    <2> QED BY <2>1, <2>2
  <1>7. ASSUME userAuction[u][a] # {} PROVE \E t \in Sockets : UserOf[t] = u /\ Cause(t, a)'
    <2>1. PICK t \in Sockets : t \in userAuction[u][a]
      BY <1>7 DEF Types
    <2>2. UserOf[t] = u /\ (auctionKey[t] = a \/ JoinsTwice(t))
      BY <2>1 DEF OnlineInv, RecordsSound, OnRecord
    <2> QED BY <1>2, <2>2, AskedStays DEF Cause
  <1>8. OnlineSound'
    <2> SUFFICES ASSUME NEW v \in Users, NEW b \in Auctions, v \in online[b]
                 PROVE  \E t \in Sockets : UserOf[t] = v /\ Cause(t, b)'
      BY <1>2 DEF OnlineSound
    <2>1. PICK t \in Sockets : UserOf[t] = v /\ Cause(t, b)
      BY DEF OnlineInv, OnlineSound
    <2> QED BY <1>1, <1>6, <1>7, <2>1
  <1> QED BY <1>4, <1>5, <1>8 DEF OnlineInv

\* A socket takes its user off the list of the auction it was the cause for.
LEMMA CausesOffline ==
  ASSUME Types, RequestsSound, KeysInv, [Next]_vars, OnlineInv, NEW s \in Sockets, GoOffline(s)
  PROVE  OnlineInv'
  <1>1. PICK a \in Auctions, u \in Users : leaving[s].auction = a /\ leaving[s].name = u /\ u = UserOf[s]
    BY NeverNone DEF GoOffline, KeysInv, ReadSound
  <1>2. /\ online' = [b \in Auctions |-> IF b = a THEN online[b] \ {u} ELSE online[b]]
        /\ leaving' = [leaving EXCEPT ![s].pc = "done"]
        /\ UNCHANGED <<auctionKey, userAuction>>
    BY <1>1 DEF GoOffline, keyVars
  <1>3. /\ leaving'[s].auction = a
        /\ \A t \in Sockets \ {s} : leaving'[t] = leaving[t]
    BY <1>1, <1>2 DEF Types, LeavingTypes
  <1>4. KeysAskedFor'
    BY <1>1, <1>2, <1>3, AskedStays DEF OnlineInv, KeysAskedFor
  <1>5. RecordsSound'
    BY <1>2, AskedStays DEF OnlineInv, RecordsSound, OnRecord
  <1>6. ASSUME NEW t \in Sockets, NEW b \in Auctions, Cause(t, b), ~(t = s /\ b = a) PROVE Cause(t, b)'
    <2>1. CASE t = s
      BY <1>1, <1>2, <1>6, <2>1, AskedStays DEF Cause
    <2>2. CASE t # s
      BY <1>2, <1>3, <1>6, <2>2, AskedStays DEF Cause
    <2> QED BY <2>1, <2>2
  <1>7. OnlineSound'
    <2> SUFFICES ASSUME NEW v \in Users, NEW b \in Auctions, v \in online'[b]
                 PROVE  \E t \in Sockets : UserOf[t] = v /\ Cause(t, b)'
      BY DEF OnlineSound
    <2>1. v \in online[b] /\ ~(v = u /\ b = a)
      BY <1>2
    <2>2. PICK t \in Sockets : UserOf[t] = v /\ Cause(t, b)
      BY <2>1 DEF OnlineInv, OnlineSound
    <2> QED BY <1>1, <1>6, <2>1, <2>2
  <1> QED BY <1>4, <1>5, <1>7 DEF OnlineInv

\* Every step keeps a cause for all who are shown.
LEMMA OnlineStep == ASSUME ~KeysExpire, Base, KeysInv, OnlineInv, [Next]_vars PROVE OnlineInv'
  <1>0. Types /\ RequestsSound /\ leaving \in [Sockets -> LeavingTypes]
    BY DEF Base, Types
  <1>1. ASSUME \/ \E r \in Requests : Coming(r)
               \/ \E s \in Sockets : Disconnect(s)
               \/ \E a \in Auctions : Broadcast(a)
        PROVE  OnlineInv'
    <2>1. \A s \in Sockets : Leaves(s)
      BY <1>0, <1>1, SocketEffect
    <2>2. UNCHANGED <<auctionKey, userAuction, online>>
      BY <1>1 DEF Coming, Send, CheckUser, CheckIp, Reject, RejectThrows, LoadAuction, TurnAway, Enter,
                  Disconnect, Broadcast, keyVars, presenceVars
    <2>3. \A s \in Sockets : /\ leaving'[s].auction \in {leaving[s].auction, auctionKey[s]}
                             /\ leaving[s].pc \in {"count", "offline"} => leaving'[s] = leaving[s]
      BY <1>0, <2>1 DEF Leaves, LeavingTypes
    <2> QED BY <1>0, <2>2, <2>3, CausesStay
  <1>2. ASSUME UNCHANGED vars \/ \E a \in Auctions : Close(a) PROVE OnlineInv'
    <2>1. UNCHANGED <<auctionKey, userAuction, online, leaving>>
      BY <1>2 DEF vars, Close, keyVars, presenceVars
    <2> QED BY <1>0, <2>1, CausesStay
  <1>3. ASSUME NEW s \in Sockets, ReadName(s) \/ ReadAddress(s) \/ ReadAuction(s) PROVE OnlineInv'
    <2>1. UNCHANGED <<auctionKey, userAuction, online>>
      BY <1>3 DEF ReadName, ReadAddress, ReadAuction, keyVars, presenceVars
    <2>2. leaving' = [leaving EXCEPT ![s] = leaving'[s]] /\ leaving[s].pc \notin {"count", "offline"}
      BY <1>0, <1>3, LeavingEffect DEF Going, ReadName, ReadAddress, ReadAuction
    <2>3. leaving'[s].auction \in {leaving[s].auction, auctionKey[s]}
      BY <1>0, <1>3 DEF ReadName, ReadAddress, ReadAuction, LeavingTypes
    <2>4. \A t \in Sockets \ {s} : leaving'[t] = leaving[t]
      BY <1>0, <2>2
    <2>5. \A t \in Sockets : /\ leaving'[t].auction \in {leaving[t].auction, auctionKey[t]}
                             /\ leaving[t].pc \in {"count", "offline"} => leaving'[t] = leaving[t]
      BY <2>2, <2>3, <2>4
    <2> QED BY <1>0, <2>1, <2>5, CausesStay
  <1> QED BY <1>0, <1>1, <1>2, <1>3, NextCases, CausesRegister, CausesRemove, CausesCount, CausesOffline DEF Going

\* A user that is shown as online in an auction, when none of its joins and disconnects is
\* under way, has a socket there, unless one of its sockets registered late or joined a
\* second auction.
THEOREM OnlineForACause == ASSUME ~KeysExpire PROVE SafeSpec => []ShownOnlineForACause
  <1>1. Init => OnlineInv
    <2> SUFFICES ASSUME Init PROVE OnlineInv
      OBVIOUS
    <2>1. KeysAskedFor
      BY AbsentAssumption DEF Init, KeysAskedFor, NotLeaving
    <2>2. RecordsSound /\ OnlineSound
      BY DEF Init, RecordsSound, OnlineSound
    <2> QED BY <2>1, <2>2 DEF OnlineInv
  <1>2. Base /\ KeysInv /\ OnlineInv /\ [Next]_vars => OnlineInv'
    BY OnlineStep
  <1>3. Base /\ KeysInv /\ OnlineInv => ShownOnlineForACause
    <2> SUFFICES ASSUME Base, KeysInv, OnlineInv, NEW u \in Users, NEW a \in Auctions, Settled(u), u \in online[a]
                 PROVE  \E s \in Sockets :
                          /\ UserOf[s] = u
                          /\ (s \in connected /\ auctionKey[s] = a) \/ s \in late \/ JoinsTwice(s)
      BY DEF ShownOnlineForACause
    <2>1. PICK s \in Sockets : UserOf[s] = u /\ Cause(s, a)
      BY DEF OnlineInv, OnlineSound
    <2>2. leaving[s].pc \in {"connected", "done"} /\ (leaving[s].pc = "connected" => s \in connected)
      BY <2>1 DEF Settled, Base, Types
    <2>3. ASSUME auctionKey[s] = a, s \notin late PROVE s \in connected
      BY <2>2, <2>3, AbsentAssumption DEF KeysInv, KeySound, ReadSound
    <2> QED BY <2>1, <2>2, <2>3 DEF Cause
  <1> QED BY <1>1, <1>2, <1>3, KeysInvariant, PTL DEF SafeSpec
=============================================================================
