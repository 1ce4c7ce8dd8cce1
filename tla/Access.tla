-------------------------------- MODULE Access --------------------------------
(***************************************************************************)
(* Who gets through to a handler of the gateway: the sockets with the token  *)
(* of their handshake, and for each message the guards in the order Nest     *)
(* runs them: WsConnectionRateLimitGuard, WsConnectionAuthGuard, and         *)
(* WsRolesGuard for endAuction.  The tokens are those of Accounts.           *)
(*                                                                           *)
(* client.user belongs to the socket and is shared by the messages that are  *)
(* in progress on it.  The counting of the rate-limit guard is the subject   *)
(* of Sessions: here it refuses whom it likes.                               *)
(***************************************************************************)
EXTENDS Accounts

CONSTANTS
  Sockets,
  Messages,     \* the messages of all sockets
  EndMessages   \* those that are endAuction

ASSUME MessagesAssumption == EndMessages \subseteq Messages

VARIABLES
  socket,    \* per socket: not connected yet, connected, gone
  token,     \* per socket: the token of its handshake, 0 when there is none
  user,      \* per socket: client.user
  fresh,     \* history: the sockets whose token was valid when they connected
  stage,     \* per message: where it stands
  sender,    \* per message: its socket
  actor      \* per message: client.user as its handler read it

socketVars == <<socket, token, user, fresh>>
messageVars == <<stage, sender, actor>>
vars == <<accountVars, socketVars, messageVars>>

AccessInit ==
  /\ Init
  /\ socket = [s \in Sockets |-> "new"]
  /\ token = [s \in Sockets |-> 0]
  /\ user = [s \in Sockets |-> None]
  /\ fresh = {}
  /\ stage = [m \in Messages |-> "unsent"]
  /\ sender = [m \in Messages |-> None]
  /\ actor = [m \in Messages |-> None]

Goto(m, s) == stage' = [stage EXCEPT ![m] = s]
Drop(s) == socket' = [socket EXCEPT ![s] = "gone"]

\* verifyAsync; there is no token 0.
Valid(t) == t \in DOMAIN tokens \ expired

-----------------------------------------------------------------------------
(* Sockets *)

\* A client connects, with one of the tokens or with none; nothing checks it yet.
Connect(s) ==
  /\ socket[s] = "new"
  /\ socket' = [socket EXCEPT ![s] = "connected"]
  /\ \E t \in DOMAIN tokens \cup {0} :
       /\ token' = [token EXCEPT ![s] = t]
       /\ fresh' = IF Valid(t) THEN fresh \cup {s} ELSE fresh
  /\ UNCHANGED <<accountVars, user, messageVars>>

\* The client leaves; its messages in progress go on.
Disconnect(s) ==
  /\ socket[s] = "connected"
  /\ Drop(s)
  /\ UNCHANGED <<accountVars, token, user, fresh, messageVars>>

Send(m, s) ==
  /\ stage[m] = "unsent"
  /\ socket[s] = "connected"
  /\ sender' = [sender EXCEPT ![m] = s]
  /\ Goto(m, "verify")
  /\ UNCHANGED <<accountVars, socketVars, actor>>

-----------------------------------------------------------------------------
(* WsConnectionRateLimitGuard *)

\* Mutated form of Attach: the result of a verification that failed is attached too.
AttachAny(s) == user' = [user EXCEPT ![s] = IF Valid(token[s]) THEN tokens[token[s]] ELSE None]

\* The claims of a valid token are attached to the socket; otherwise it keeps what it has.
Attach(s) == user' = IF Valid(token[s]) THEN [user EXCEPT ![s] = tokens[token[s]]] ELSE user

Verify(m) ==
  /\ stage[m] = "verify"
  /\ Attach(sender[m])
  /\ Goto(m, "limits")
  /\ UNCHANGED <<accountVars, socket, token, fresh, sender, actor>>

\* A limit is exceeded: the refusal is audited and the socket is disconnected.
OverLimits(m) ==
  /\ stage[m] = "limits"
  /\ Drop(sender[m])
  /\ Goto(m, "refused")
  /\ UNCHANGED <<accountVars, token, user, fresh, sender, actor>>

-----------------------------------------------------------------------------
(* WsConnectionAuthGuard *)

\* What follows the guards of the class.
Onward(m) == IF m \in EndMessages THEN "roles" ELSE "handler"

\* The message is within the limits, and this guard follows at once.  Claims are attached,
\* or there is no token, or it is verified once more.
Authenticate(m) ==
  /\ stage[m] = "limits"
  /\ \/ user[sender[m]] # None /\ Goto(m, Onward(m))
     \/ user[sender[m]] = None /\ token[sender[m]] = 0 /\ Goto(m, "noToken")
     \/ user[sender[m]] = None /\ token[sender[m]] # 0 /\ Goto(m, "reverify")
  /\ UNCHANGED <<accountVars, socketVars, sender, actor>>

\* Mutated form of Reverify: the socket is disconnected once the refusal is audited.
ReverifyLate(m) ==
  /\ stage[m] = "reverify"
  /\ Attach(sender[m])
  /\ Goto(m, IF Valid(token[sender[m]]) THEN Onward(m) ELSE "invalid")
  /\ UNCHANGED <<accountVars, socket, token, fresh, sender, actor>>

\* The second verification, of a token the first one has found invalid; a socket whose
\* token is not valid is disconnected.
Reverify(m) ==
  /\ stage[m] = "reverify"
  /\ Attach(sender[m])
  /\ IF Valid(token[sender[m]])
     THEN Goto(m, Onward(m)) /\ UNCHANGED socket
     ELSE Goto(m, "invalid") /\ Drop(sender[m])
  /\ UNCHANGED <<accountVars, token, fresh, sender, actor>>

\* The refusal is audited, and the socket is disconnected.
Audit(m) ==
  /\ stage[m] \in {"noToken", "invalid"}
  /\ Drop(sender[m])
  /\ Goto(m, "refused")
  /\ UNCHANGED <<accountVars, token, user, fresh, sender, actor>>

\* The audit event cannot be sent: the guard throws, and the socket stays as it is.
AuditFails(m) ==
  /\ Fault
  /\ stage[m] \in {"limits", "noToken", "invalid"}
  /\ Goto(m, "threw")
  /\ UNCHANGED <<users, tokens, expired, regPc, logPc, found, sub, known, admins, roleChanges>>
  /\ UNCHANGED <<socketVars, sender, actor>>

-----------------------------------------------------------------------------
(* WsRolesGuard and the handlers *)

\* Mutated form of MayEnd: any role will do.
MayEndAny(claims) == claims # None

MayEnd(claims) == claims # None /\ claims.role = "admin"

CheckRole(m) ==
  /\ stage[m] = "roles"
  /\ Goto(m, IF MayEnd(user[sender[m]]) THEN "handler" ELSE "forbidden")
  /\ UNCHANGED <<accountVars, socketVars, sender, actor>>

\* The handler acts for client.user as it is now.
Act(m) ==
  /\ stage[m] = "handler"
  /\ actor' = [actor EXCEPT ![m] = user[sender[m]]]
  /\ Goto(m, "done")
  /\ UNCHANGED <<accountVars, socketVars, sender>>

-----------------------------------------------------------------------------
(* The specification *)

Handle(m) ==
  Verify(m) \/ OverLimits(m) \/ Authenticate(m) \/ Reverify(m) \/ Audit(m)
    \/ CheckRole(m) \/ Act(m)

Next ==
  \/ AccountsNext /\ UNCHANGED <<socketVars, messageVars>>
  \/ \E s \in Sockets : Connect(s) \/ Disconnect(s)
  \/ \E m \in Messages : Handle(m) \/ AuditFails(m) \/ \E s \in Sockets : Send(m, s)

SafeSpec == AccessInit /\ [][Next]_vars

\* A message that has arrived goes on.  Nobody has to register, to connect or to send.
Spec == SafeSpec /\ \A m \in Messages : WF_vars(Handle(m))

-----------------------------------------------------------------------------
(* Properties *)

Stages == {"unsent", "verify", "limits", "noToken", "reverify", "invalid", "roles", "handler",
           "done", "refused", "forbidden", "threw"}

\* The state has its types.
TypeOK ==
  /\ AccountsTypeOK
  /\ socket \in [Sockets -> {"new", "connected", "gone"}]
  /\ token \in [Sockets -> DOMAIN tokens \cup {0}]
  /\ user \in [Sockets -> Payloads \cup {None}]
  /\ fresh \subseteq Sockets
  /\ stage \in [Messages -> Stages]
  /\ sender \in [Messages -> Sockets \cup {None}]
  /\ actor \in [Messages -> Payloads \cup {None}]

\* A handler acts for the account that the token of the socket names, also when the
\* token expires between the guards and the handler or another message of the socket is
\* verified meanwhile; and a socket whose token had expired before it connected reaches
\* no handler.
HandlersActForTheToken ==
  \A m \in Messages :
    stage[m] = "done" => sender[m] \in fresh /\ actor[m] = tokens[token[sender[m]]]

\* An auction is ended only for an account whose role has been admin, through the row,
\* the token and the socket.
OnlyAdminsEnd ==
  \A m \in EndMessages : stage[m] = "done" => actor[m].role = "admin" /\ actor[m].sub \in admins

\* Whom the auth guard refuses is disconnected in the end; only the client that has no
\* token stays when the refusal cannot be audited.
RefusedIsDisconnected ==
  \A m \in Messages :
    stage[m] \in {"noToken", "invalid"} ~>
      \E s \in Sockets :
        sender[m] = s /\ (socket[s] = "gone" \/ (stage[m] = "threw" /\ token[s] = 0))
=============================================================================
