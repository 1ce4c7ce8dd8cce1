----------------------------- MODULE AccessProofs -----------------------------
(***************************************************************************)
(* Theorems about Access, for every set of accounts, sockets and messages    *)
(* and every number of role changes and faults.                              *)
(***************************************************************************)
EXTENDS Access, AccountsProofs

-----------------------------------------------------------------------------
(* What a step of Access does to the accounts *)

\* A step of the gateway leaves the accounts alone, but for the count of faults.
LEMMA AccountsSteps ==
  ASSUME Next \/ UNCHANGED vars
  PROVE  \/ AccountsNext /\ UNCHANGED <<socketVars, messageVars>>
         \/ /\ UNCHANGED <<users, tokens, expired, regPc, logPc, found, sub, known, admins, roleChanges>>
            /\ UNCHANGED faults \/ Fault
  BY DEF Next, vars, accountVars, Connect, Disconnect, Handle, Send, Verify, OverLimits, Authenticate,
         Reverify, Audit, AuditFails, CheckRole, Act

\* The invariants of the accounts hold here too.
LEMMA AccountsKept ==
  ASSUME Typed, AccountsInv, AdminsOnRecord, [Next]_vars
  PROVE  Typed' /\ AccountsInv' /\ AdminsOnRecord'
  <1>1. CASE AccountsNext
    BY <1>1, AccountsTypeStep, AccountsInvStep, AdminsStep
  <1>2. CASE /\ UNCHANGED <<users, tokens, expired, regPc, logPc, found, sub, known, admins, roleChanges>>
             /\ UNCHANGED faults \/ Fault
    <2>1. Typed'
      BY <1>2, AccountBoundsAssumption DEF Typed, AccountsTypeOK, RowFound, Payloads, Fault
    <2>2. AccountsInv'
      BY <1>2 DEF AccountsInv, UniqueRows, TokensNameRows, FoundIsRow, RegisteredHaveRows, Registered,
                  RegisteredCanLogin
    <2>3. AdminsOnRecord'
      BY <1>2 DEF AdminsOnRecord
    <2> QED BY <2>1, <2>2, <2>3
  <1> QED BY <1>1, <1>2, AccountsSteps

\* Tokens are never taken back, and never become valid again.
LEMMA TokensStay ==
  ASSUME Typed, [Next]_vars
  PROVE  /\ DOMAIN tokens \subseteq DOMAIN tokens'
         /\ \A t \in DOMAIN tokens : tokens'[t] = tokens[t]
         /\ expired \subseteq expired'
         /\ Payloads \subseteq Payloads'
  <1>1. CASE AccountsNext
    <2>1. Payloads \subseteq Payloads'
      BY <1>1, RowsStay DEF Payloads
    <2>2. (DOMAIN tokens \subseteq DOMAIN tokens') /\ \A t \in DOMAIN tokens : tokens'[t] = tokens[t]
      <3>1. tokens \in Seq(Payloads)
        BY DEF Typed, AccountsTypeOK
      <3>2. UNCHANGED tokens \/ \E id, row : tokens' = Append(tokens, Claims(id, row))
        BY <1>1 DEF AccountsNext, Sign, Insert, InsertFails, Arrive, Lookup, LookupFails, Compare,
                    SetRole, Expire
      <3> QED BY <3>1, <3>2
    <2>3. expired \subseteq expired'
      BY <1>1 DEF AccountsNext, Insert, InsertFails, Arrive, Lookup, LookupFails, Compare, SetRole, Expire
    <2> QED BY <2>1, <2>2, <2>3
  <1>2. CASE UNCHANGED <<users, tokens, expired>>
    BY <1>2 DEF Payloads
  <1> QED BY <1>1, <1>2, AccountsSteps

-----------------------------------------------------------------------------
(* Type correctness *)

\* A message that is on its way has a socket.
SentBySocket == \A m \in Messages : stage[m] # "unsent" => sender[m] \in Sockets

\* The types of the sockets and the messages.
GatewayTypeOK ==
  /\ socket \in [Sockets -> {"new", "connected", "gone"}]
  /\ token \in [Sockets -> DOMAIN tokens \cup {0}]
  /\ user \in [Sockets -> Payloads \cup {None}]
  /\ fresh \subseteq Sockets
  /\ stage \in [Messages -> Stages]
  /\ sender \in [Messages -> Sockets \cup {None}]
  /\ actor \in [Messages -> Payloads \cup {None}]
  /\ SentBySocket

\* What is attached to a socket are claims.
LEMMA AttachType ==
  ASSUME Typed, GatewayTypeOK, NEW s \in Sockets, Attach(s)
  PROVE  user' \in [Sockets -> Payloads \cup {None}]
  <1>1. \A t \in DOMAIN tokens : tokens[t] \in Payloads
    BY DEF Typed, AccountsTypeOK
  <1> QED BY <1>1 DEF Attach, Valid, GatewayTypeOK

\* The types of the sockets and the messages are kept by every step.
LEMMA GatewayTypeStep ==
  ASSUME Typed, GatewayTypeOK, [Next]_vars
  PROVE  GatewayTypeOK'
  <1>0. DOMAIN tokens \subseteq DOMAIN tokens' /\ Payloads \subseteq Payloads'
    BY TokensStay
  <1> USE MessagesAssumption
  <1> USE DEF GatewayTypeOK, SentBySocket, Goto, Drop, socketVars, messageVars, Stages
  <1>1. CASE UNCHANGED <<socketVars, messageVars>>
    BY <1>0, <1>1
  <1>2. ASSUME NEW s \in Sockets, Connect(s) PROVE GatewayTypeOK'
    BY <1>0, <1>2 DEF Connect
  <1>3. ASSUME NEW s \in Sockets, Disconnect(s) PROVE GatewayTypeOK'
    BY <1>0, <1>3 DEF Disconnect
  <1>4. ASSUME NEW m \in Messages, NEW s \in Sockets, Send(m, s) PROVE GatewayTypeOK'
    BY <1>0, <1>4 DEF Send
  <1>5. ASSUME NEW m \in Messages, Verify(m) PROVE GatewayTypeOK'
    BY <1>0, <1>5, AttachType DEF Verify
  <1>6. ASSUME NEW m \in Messages, OverLimits(m) PROVE GatewayTypeOK'
    BY <1>0, <1>6 DEF OverLimits
  <1>7. ASSUME NEW m \in Messages, Authenticate(m) PROVE GatewayTypeOK'
    BY <1>0, <1>7 DEF Authenticate, Onward
  <1>8. ASSUME NEW m \in Messages, Reverify(m) PROVE GatewayTypeOK'
    BY <1>0, <1>8, AttachType DEF Reverify, Onward
  <1>9. ASSUME NEW m \in Messages, Audit(m) PROVE GatewayTypeOK'
    BY <1>0, <1>9 DEF Audit
  <1>10. ASSUME NEW m \in Messages, AuditFails(m) PROVE GatewayTypeOK'
    BY <1>0, <1>10 DEF AuditFails
  <1>11. ASSUME NEW m \in Messages, CheckRole(m) PROVE GatewayTypeOK'
    BY <1>0, <1>11 DEF CheckRole
  <1>12. ASSUME NEW m \in Messages, Act(m) PROVE GatewayTypeOK'
    BY <1>0, <1>12 DEF Act
  <1> QED
    BY <1>1, <1>2, <1>3, <1>4, <1>5, <1>6, <1>7, <1>8, <1>9, <1>10, <1>11, <1>12
       DEF Next, vars, Handle

\* The accounts and the gateway stay in their types, under the invariants of the accounts.
Base == Typed /\ AccountsInv /\ AdminsOnRecord /\ GatewayTypeOK

\* Base is an invariant.
LEMMA BaseInvariant == SafeSpec => []Base
  <1>1. AccessInit => Base
    <2> SUFFICES ASSUME AccessInit PROVE Base
      OBVIOUS
    <2>1. Init /\ users = <<>> /\ tokens = <<>> /\ DOMAIN users = {} /\ DOMAIN tokens = {}
      BY DEF AccessInit, Init
    <2>2. users \in Seq(Rows) /\ tokens \in Seq(Payloads)
      BY <2>1
    <2>3. Typed
      BY <2>1, <2>2, AccountBoundsAssumption DEF Init, Typed, AccountsTypeOK, RowFound
    <2>4. AccountsInv /\ AdminsOnRecord
      BY <2>1, AccountsInvInit DEF AdminsOnRecord, Init
    <2>5. GatewayTypeOK
      BY DEF AccessInit, GatewayTypeOK, SentBySocket, Stages
    <2> QED BY <2>3, <2>4, <2>5 DEF Base
  <1>2. Base /\ [Next]_vars => Base'
    BY AccountsKept, GatewayTypeStep DEF Base
  <1> QED BY <1>1, <1>2, PTL DEF SafeSpec

-----------------------------------------------------------------------------
(* Claims *)

\* The claims of the socket's own token are attached to it, and that token was valid
\* when the socket connected.
Identified(s) == s \in fresh /\ token[s] \in DOMAIN tokens /\ user[s] = tokens[token[s]]

\* A token that is valid now was valid when its socket connected.
ValidWasFresh == \A s \in Sockets : Valid(token[s]) => s \in fresh

\* A socket that has not connected has neither token nor claims.
NewHasNone == \A s \in Sockets : socket[s] = "new" => token[s] = 0 /\ user[s] = None

\* Claims that are attached are those of the token.
ClaimsOfToken == \A s \in Sockets : user[s] # None => Identified(s)

\* A message that the guards of the class have passed has an identified socket.
PassedIsIdentified ==
  \A m \in Messages : stage[m] \in {"roles", "handler", "done"} => Identified(sender[m])

\* The handler that has run acted for the claims of the token.
DoneForToken == \A m \in Messages : stage[m] = "done" => actor[m] = tokens[token[sender[m]]]

\* endAuction is handled only under a token with the role admin.
EndsAsAdmin ==
  \A m \in EndMessages :
    stage[m] \in {"handler", "done"} => tokens[token[sender[m]]].role = "admin"

AccessInv ==
  ValidWasFresh /\ NewHasNone /\ ClaimsOfToken /\ PassedIsIdentified /\ DoneForToken /\ EndsAsAdmin

\* An identified socket stays what it is.
LEMMA IdentifiedStays ==
  ASSUME Base, NewHasNone, NEW s \in Sockets, Identified(s), [Next]_vars
  PROVE  Identified(s)' /\ token'[s] = token[s] /\ tokens'[token[s]] = tokens[token[s]]
  <1> USE DEF Base, GatewayTypeOK, Identified, socketVars, messageVars
  <1>0. /\ token[s] \in DOMAIN tokens' /\ tokens'[token[s]] = tokens[token[s]]
        /\ DOMAIN tokens = 1 .. Len(tokens)
    BY TokensStay DEF Typed, AccountsTypeOK
  <1>1. CASE UNCHANGED socketVars
    BY <1>0, <1>1
  <1>2. ASSUME NEW r \in Sockets, Connect(r) PROVE token'[s] = token[s] /\ s \in fresh' /\ user' = user
    <2>1. r # s
      BY <1>0, <1>2 DEF Connect, NewHasNone
    <2> QED BY <1>2, <2>1 DEF Connect
  <1>3. ASSUME NEW r \in Sockets, UNCHANGED <<token, fresh, tokens>>, Attach(r)
        PROVE  user'[s] = tokens[token[s]]
    BY <1>3 DEF Attach
  <1>4. ASSUME NEW m \in Messages, Verify(m) \/ Reverify(m) PROVE sender[m] \in Sockets
    BY <1>4 DEF Verify, Reverify, SentBySocket
  <1> QED
    BY <1>0, <1>1, <1>2, <1>3, <1>4
       DEF Next, vars, accountVars, Disconnect, Handle, Send, Verify, OverLimits, Authenticate,
           Reverify, Audit, AuditFails, CheckRole, Act

\* Only a valid token is ever attached, so its claims are those of an identified socket.
LEMMA AttachIdentifies ==
  ASSUME Base, ValidWasFresh, NEW s \in Sockets, Attach(s), Valid(token[s]),
         UNCHANGED <<tokens, expired, token, fresh>>
  PROVE  Identified(s)'
  BY DEF Base, GatewayTypeOK, ValidWasFresh, Identified, Attach, Valid

\* What is known of the sockets is kept by every step.
LEMMA SocketsStep ==
  ASSUME Base, ValidWasFresh, NewHasNone, ClaimsOfToken, [Next]_vars
  PROVE  ValidWasFresh' /\ NewHasNone' /\ ClaimsOfToken'
  <1> USE DEF Base, GatewayTypeOK, socketVars, messageVars
  <1>0. /\ DOMAIN tokens \subseteq DOMAIN tokens' /\ expired \subseteq expired'
        /\ \A s \in Sockets : Identified(s) => Identified(s)'
    BY TokensStay, IdentifiedStays
  <1>1. CASE UNCHANGED socketVars
    <2>1. \A s \in Sockets : token[s] \in DOMAIN tokens \cup {0} /\ 0 \notin DOMAIN tokens'
      <3>1. tokens' \in Seq(Payloads')
        BY AccountsKept DEF Typed, AccountsTypeOK
      <3> QED BY <3>1
    <2>2. ValidWasFresh'
      BY <1>0, <1>1, <2>1 DEF ValidWasFresh, Valid
    <2> QED BY <1>0, <1>1, <2>2 DEF NewHasNone, ClaimsOfToken
  <1>2. ASSUME NEW r \in Sockets, Connect(r) PROVE ValidWasFresh' /\ NewHasNone' /\ ClaimsOfToken'
    <2>1. UNCHANGED <<tokens, expired, user>> /\ user[r] = None
      BY <1>2 DEF Connect, accountVars, NewHasNone
    <2>2. ValidWasFresh'
      BY <1>2, <2>1 DEF Connect, ValidWasFresh, Valid
    <2>3. NewHasNone'
      BY <1>2 DEF Connect, NewHasNone
    <2> QED BY <1>0, <2>1, <2>2, <2>3 DEF ClaimsOfToken
  <1>3. ASSUME UNCHANGED <<tokens, expired, token, user, fresh>>, NEW s, Drop(s) \/ UNCHANGED socket
        PROVE  ValidWasFresh' /\ NewHasNone' /\ ClaimsOfToken'
    <2>1. ValidWasFresh' /\ ClaimsOfToken'
      BY <1>0, <1>3 DEF ValidWasFresh, Valid, ClaimsOfToken
    <2>2. NewHasNone'
      BY <1>3 DEF NewHasNone, Drop
    <2> QED BY <2>1, <2>2
  <1>4. ASSUME NEW m \in Messages, Verify(m) \/ Reverify(m)
        PROVE  ValidWasFresh' /\ NewHasNone' /\ ClaimsOfToken'
    <2> DEFINE s == sender[m]
    <2>1. /\ s \in Sockets /\ Attach(s)
          /\ UNCHANGED <<tokens, expired, token, fresh>>
          /\ Drop(s) \/ UNCHANGED socket
      BY <1>4 DEF Verify, Reverify, SentBySocket, accountVars
    <2>2. \A r \in Sockets : user'[r] # user[r] => r = s /\ Valid(token[s])
      BY <2>1 DEF Attach
    <2>3. ValidWasFresh'
      BY <2>1 DEF ValidWasFresh, Valid
    <2>4. NewHasNone'
      <3>1. \A r \in Sockets : Valid(token[r]) => socket[r] # "new"
        BY DEF NewHasNone, Valid, Typed, AccountsTypeOK
      <3> QED BY <2>1, <2>2, <3>1 DEF NewHasNone, Drop
    <2>5. ClaimsOfToken'
      BY <1>0, <2>1, <2>2, AttachIdentifies DEF ClaimsOfToken
    <2> QED BY <2>3, <2>4, <2>5
  <1> QED
    BY <1>1, <1>2, <1>3, <1>4
       DEF Next, vars, accountVars, Disconnect, Handle, Send, OverLimits, Authenticate, Audit,
           AuditFails, CheckRole, Act

\* What is known of the messages past the guards is kept by every step.
LEMMA MessagesStep ==
  ASSUME Base, AccessInv, [Next]_vars
  PROVE  PassedIsIdentified' /\ DoneForToken' /\ EndsAsAdmin'
  <1> USE MessagesAssumption
  <1> USE DEF Base, GatewayTypeOK, socketVars, messageVars, Goto, AccessInv
  <1> DEFINE Passed == {"roles", "handler", "done"}
             Known(m) ==
               /\ stage[m] \in Passed => Identified(sender[m])
               /\ stage[m] = "done" => actor[m] = tokens[token[sender[m]]]
               /\ m \in EndMessages /\ stage[m] \in {"handler", "done"} =>
                    tokens[token[sender[m]]].role = "admin"
  <1>0. \A s \in Sockets : Identified(s) =>
          Identified(s)' /\ token'[s] = token[s] /\ tokens'[token[s]] = tokens[token[s]]
    BY IdentifiedStays
  <1>1. ASSUME NEW m \in Messages, stage'[m] = stage[m], sender'[m] = sender[m], actor'[m] = actor[m]
        PROVE  Known(m)'
    <2>1. stage[m] \in Passed =>
            sender[m] \in Sockets /\ Identified(sender[m]) /\ Identified(sender[m])'
      BY <1>0, <1>1 DEF SentBySocket, PassedIsIdentified
    <2> QED BY <1>0, <1>1, <2>1 DEF DoneForToken, EndsAsAdmin, Identified
  <1>2. ASSUME NEW m \in Messages, stage'[m] \notin Passed PROVE Known(m)'
    BY <1>2
  <1>3. ASSUME NEW m \in Messages, Authenticate(m) PROVE Known(m)'
    <2>1. CASE user[sender[m]] # None /\ Goto(m, Onward(m))
      <3>1. Identified(sender[m]) /\ sender[m] \in Sockets
        BY <1>3, <2>1 DEF Authenticate, SentBySocket, ClaimsOfToken
      <3> QED BY <1>0, <1>3, <2>1, <3>1 DEF Authenticate, Onward
    <2>2. CASE Goto(m, "noToken") \/ Goto(m, "reverify")
      BY <1>2, <2>2
    <2> QED BY <1>3, <2>1, <2>2 DEF Authenticate
  <1>4. ASSUME NEW m \in Messages, Reverify(m) PROVE Known(m)'
    <2>1. CASE Valid(token[sender[m]]) /\ Goto(m, Onward(m))
      <3>1. Identified(sender[m])'
        BY <1>4, <2>1, AttachIdentifies DEF Reverify, SentBySocket, accountVars
      <3> QED BY <1>4, <2>1, <3>1 DEF Reverify, Onward
    <2>2. CASE Goto(m, "invalid")
      BY <1>2, <2>2
    <2> QED BY <1>4, <2>1, <2>2 DEF Reverify
  <1>5. ASSUME NEW m \in Messages, CheckRole(m) PROVE Known(m)'
    <2>1. Identified(sender[m]) /\ sender[m] \in Sockets
      BY <1>5 DEF CheckRole, PassedIsIdentified, SentBySocket
    <2>2. stage'[m] = "handler" => tokens[token[sender[m]]].role = "admin"
      BY <1>5, <2>1 DEF CheckRole, MayEnd, Identified
    <2> QED BY <1>0, <1>5, <2>1, <2>2 DEF CheckRole
  <1>6. ASSUME NEW m \in Messages, Act(m) PROVE Known(m)'
    <2>1. Identified(sender[m]) /\ sender[m] \in Sockets
      BY <1>6 DEF Act, PassedIsIdentified, SentBySocket
    <2>2. stage'[m] = "done" /\ actor'[m] = tokens[token[sender[m]]] /\ sender'[m] = sender[m]
      BY <1>6, <2>1 DEF Act, Identified
    <2>3. m \in EndMessages => tokens[token[sender[m]]].role = "admin"
      BY <1>6 DEF Act, EndsAsAdmin
    <2> QED BY <1>0, <2>1, <2>2, <2>3
  <1>7. ASSUME NEW m \in Messages,
               \/ Verify(m) \/ OverLimits(m) \/ Audit(m) \/ AuditFails(m)
               \/ \E s \in Sockets : Send(m, s)
        PROVE  stage'[m] \notin Passed
    BY <1>7 DEF Verify, OverLimits, Audit, AuditFails, Send
  <1>8. ASSUME NEW m \in Messages, NEW k \in Messages, k # m,
               Handle(m) \/ AuditFails(m) \/ \E s \in Sockets : Send(m, s)
        PROVE  stage'[k] = stage[k] /\ sender'[k] = sender[k] /\ actor'[k] = actor[k]
    BY <1>8 DEF Handle, Send, Verify, OverLimits, Authenticate, Reverify, Audit, AuditFails, CheckRole, Act
  <1>9. UNCHANGED messageVars \/ \E m \in Messages : Handle(m) \/ AuditFails(m) \/ \E s \in Sockets : Send(m, s)
    BY DEF Next, vars, Connect, Disconnect
  <1>10. ASSUME NEW m \in Messages, Handle(m) \/ AuditFails(m) \/ \E s \in Sockets : Send(m, s)
         PROVE  Known(m)'
    <2> HIDE DEF Known
    <2> QED BY <1>2, <1>3, <1>4, <1>5, <1>6, <1>7, <1>10 DEF Handle
  <1>11. \A k \in Messages : Known(k)'
    <2> HIDE DEF Known
    <2> QED BY <1>1, <1>8, <1>9, <1>10
  <1> QED BY <1>11 DEF PassedIsIdentified, DoneForToken, EndsAsAdmin

\* AccessInv is an invariant.
LEMMA AccessInvariant == SafeSpec => []AccessInv
  <1>1. AccessInit => AccessInv
    <2> SUFFICES ASSUME AccessInit PROVE AccessInv
      OBVIOUS
    <2>1. DOMAIN tokens = {}
      BY DEF AccessInit, Init
    <2> QED
      BY <2>1, MessagesAssumption
         DEF AccessInit, AccessInv, ValidWasFresh, NewHasNone, ClaimsOfToken, PassedIsIdentified,
             DoneForToken, EndsAsAdmin, Valid
  <1>2. Base /\ AccessInv /\ [Next]_vars => AccessInv'
    BY SocketsStep, MessagesStep DEF AccessInv
  <1> QED BY <1>1, <1>2, BaseInvariant, PTL DEF SafeSpec

-----------------------------------------------------------------------------
(* Theorems *)

\* The accounts, the sockets and the messages keep their types.
THEOREM AccessTypeCorrect == SafeSpec => []TypeOK
  <1>1. Base => TypeOK
    BY DEF Base, Typed, GatewayTypeOK, TypeOK
  <1> QED BY <1>1, BaseInvariant, PTL

\* A handler that runs acts for the account of the socket's own token, which was valid
\* when the socket connected, whatever expires and is verified meanwhile.
THEOREM HandlersActForTokens == SafeSpec => []HandlersActForTheToken
  <1>1. AccessInv => HandlersActForTheToken
    BY DEF AccessInv, PassedIsIdentified, DoneForToken, Identified, HandlersActForTheToken
  <1> QED BY <1>1, AccessInvariant, PTL

\* endAuction is handled only for an account whose row has had the role admin.
THEOREM EndedByAdmins == SafeSpec => []OnlyAdminsEnd
  <1>1. Base /\ AccessInv => OnlyAdminsEnd
    <2> SUFFICES ASSUME Base, AccessInv, NEW m \in EndMessages, stage[m] = "done"
                 PROVE  actor[m].role = "admin" /\ actor[m].sub \in admins
      BY DEF OnlyAdminsEnd
    <2>1. /\ token[sender[m]] \in DOMAIN tokens
          /\ actor[m] = tokens[token[sender[m]]]
          /\ tokens[token[sender[m]]].role = "admin"
      BY MessagesAssumption DEF AccessInv, PassedIsIdentified, Identified, DoneForToken, EndsAsAdmin
    <2> QED BY <2>1 DEF Base, AdminsOnRecord
  <1> QED BY <1>1, BaseInvariant, AccessInvariant, PTL

\* Sessions and throttles, which go by the username, and bids, which go by the account,
\* agree on who is who, also while sockets come and go.
THEOREM NamesIdentify == SafeSpec => []NamesIdentifyAccounts
  <1>1. Base => NamesIdentifyAccounts
    BY NamesFromRows DEF Base
  <1> QED BY <1>1, BaseInvariant, PTL

\* Whoever was told of a successful registration can log in, also while sockets come and
\* go and their faults count.
THEOREM RegisteredLogIn == SafeSpec => []RegisteredCanLogin
  <1>1. Base => RegisteredCanLogin
    BY DEF Base, AccountsInv
  <1> QED BY <1>1, BaseInvariant, PTL
=============================================================================
