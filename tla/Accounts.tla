------------------------------- MODULE Accounts -------------------------------
(***************************************************************************)
(* The accounts and their tokens: POST /auth/register and POST /auth/login   *)
(* (auth.controller.ts, auth.service.ts) over the User rows                  *)
(* (schema.prisma).  Requests run concurrently; each await is a boundary     *)
(* between two actions.                                                      *)
(*                                                                           *)
(* A row is known by its position in users, which stands for its id.  A      *)
(* token is known by its position in tokens; it cannot be told from another  *)
(* one with the same claims, but it expires on its own.  A password that is  *)
(* hashed and compared is compared for equality.  The role of a row is       *)
(* changed by nothing in the code, only in the database.                     *)
(***************************************************************************)
EXTENDS Integers, Sequences

CONSTANTS
  Registrations,   \* the calls of register
  Logins,          \* the calls of login
  Emails, Usernames, Passwords,
  RegisterForm,    \* the email, username and password of each registration
  LoginForm,       \* the email and password of each login
  None,            \* no row read
  MaxRoleChanges,  \* bound: changes of roles
  MaxFaults        \* bound: faults

ASSUME RegisterFormAssumption ==
  RegisterForm \in [Registrations -> [email : Emails, username : Usernames, password : Passwords]]
ASSUME LoginFormAssumption == LoginForm \in [Logins -> [email : Emails, password : Passwords]]
ASSUME AccountBoundsAssumption == MaxRoleChanges \in Nat /\ MaxFaults \in Nat

VARIABLES
  users,        \* the User rows, in the order of their insertion
  tokens,       \* the claims of the tokens that were signed
  expired,      \* the tokens that have expired
  regPc,        \* per registration: where it stands, or its answer
  logPc,        \* per login: where it stands, or its answer
  found,        \* per login: the row it read
  sub,          \* history, per login: the account its token names
  known,        \* history, per login: the registrations answered with success before it arrived
  admins,       \* history: the rows whose role has been admin
  roleChanges,  \* changes of roles so far
  faults        \* faults so far

accountVars ==
  <<users, tokens, expired, regPc, logPc, found, sub, known, admins, roleChanges, faults>>

Init ==
  /\ users = <<>>
  /\ tokens = <<>>
  /\ expired = {}
  /\ regPc = [r \in Registrations |-> "unsent"]
  /\ logPc = [l \in Logins |-> "unsent"]
  /\ found = [l \in Logins |-> None]
  /\ sub = [l \in Logins |-> None]
  /\ known = [l \in Logins |-> {}]
  /\ admins = {}
  /\ roleChanges = 0
  /\ faults = 0

Fault ==
  /\ faults < MaxFaults
  /\ faults' = faults + 1

GotoReg(r, s) == regPc' = [regPc EXCEPT ![r] = s]
GotoLog(l, s) == logPc' = [logPc EXCEPT ![l] = s]

\* Mutated form of Claims: the payload has the email for the username.
ClaimsByEmail(id, row) == [sub |-> id, username |-> row.email, role |-> row.role]

\* generateToken, of a row that was read or created.
Claims(id, row) == [sub |-> id, username |-> row.username, role |-> row.role]

Sign(id, row) == tokens' = Append(tokens, Claims(id, row))

-----------------------------------------------------------------------------
(* register *)

\* Mutated form of Taken: only the email is unique.
TakenEmail(form) == \E i \in DOMAIN users : users[i].email = form.email

\* Both columns are unique.
Taken(form) ==
  \E i \in DOMAIN users : users[i].email = form.email \/ users[i].username = form.username

NewRow(r) ==
  [email |-> RegisterForm[r].email, username |-> RegisterForm[r].username,
   password |-> RegisterForm[r].password, role |-> "user"]

\* The password is hashed, which nothing can disturb, the row is created, and its token
\* signed; or the insertion finds one of the columns taken, and the answer is that the
\* email is in use.
Insert(r) ==
  /\ regPc[r] = "unsent"
  /\ \/ /\ ~Taken(RegisterForm[r])
        /\ users' = Append(users, NewRow(r))
        /\ Sign(Len(users'), NewRow(r))
        /\ GotoReg(r, "registered")
     \/ /\ Taken(RegisterForm[r])
        /\ GotoReg(r, "conflict")
        /\ UNCHANGED <<users, tokens>>
  /\ UNCHANGED <<expired, logPc, found, sub, known, admins, roleChanges, faults>>

\* The call of the database fails, before the row is created or when only the answer is
\* lost.
InsertFails(r) ==
  /\ Fault
  /\ regPc[r] = "unsent"
  /\ \/ ~Taken(RegisterForm[r]) /\ users' = Append(users, NewRow(r))
     \/ UNCHANGED users
  /\ GotoReg(r, "failed")
  /\ UNCHANGED <<tokens, expired, logPc, found, sub, known, admins, roleChanges>>

-----------------------------------------------------------------------------
(* login *)

Registered == {r \in Registrations : regPc[r] = "registered"}

Arrive(l) ==
  /\ logPc[l] = "unsent"
  /\ GotoLog(l, "lookup")
  /\ known' = [known EXCEPT ![l] = Registered]
  /\ UNCHANGED <<users, tokens, expired, regPc, found, sub, admins, roleChanges, faults>>

\* Mutated form of Matching: the email is not part of the query.
MatchingFirst(email) == {1} \cap DOMAIN users

\* The rows with the email, of which there is at most one.
Matching(email) == {i \in DOMAIN users : users[i].email = email}

\* The row is read by its email.
Lookup(l) ==
  /\ logPc[l] = "lookup"
  /\ \/ \E i \in Matching(LoginForm[l].email) :
          /\ found' = [found EXCEPT ![l] = users[i]]
          /\ sub' = [sub EXCEPT ![l] = i]
          /\ GotoLog(l, "compare")
     \/ /\ Matching(LoginForm[l].email) = {}
        /\ GotoLog(l, "unauthorized")
        /\ UNCHANGED <<found, sub>>
  /\ UNCHANGED <<users, tokens, expired, regPc, known, admins, roleChanges, faults>>

\* The call of the database fails.
LookupFails(l) ==
  /\ Fault
  /\ logPc[l] = "lookup"
  /\ GotoLog(l, "failed")
  /\ UNCHANGED <<users, tokens, expired, regPc, found, sub, known, admins, roleChanges>>

\* The password is compared with that of the row that was read, and a token is signed
\* for that row.
Compare(l) ==
  /\ logPc[l] = "compare"
  /\ \/ /\ found[l].password = LoginForm[l].password
        /\ Sign(sub[l], found[l])
        /\ GotoLog(l, "authenticated")
     \/ /\ found[l].password # LoginForm[l].password
        /\ GotoLog(l, "unauthorized")
        /\ UNCHANGED tokens
  /\ found' = [found EXCEPT ![l] = None]
  /\ UNCHANGED <<users, expired, regPc, sub, known, admins, roleChanges, faults>>

-----------------------------------------------------------------------------
(* Outside the code *)

\* A role is changed in the database.
SetRole(i, role) ==
  /\ roleChanges < MaxRoleChanges
  /\ users[i].role # role
  /\ users' = [users EXCEPT ![i].role = role]
  /\ admins' = IF role = "admin" THEN admins \cup {i} ELSE admins
  /\ roleChanges' = roleChanges + 1
  /\ UNCHANGED <<tokens, expired, regPc, logPc, found, sub, known, faults>>

\* A token reaches JWT_EXPIRY.
Expire(t) ==
  /\ t \notin expired
  /\ expired' = expired \cup {t}
  /\ UNCHANGED <<users, tokens, regPc, logPc, found, sub, known, admins, roleChanges, faults>>

AccountsNext ==
  \/ \E r \in Registrations : Insert(r) \/ InsertFails(r)
  \/ \E l \in Logins : Arrive(l) \/ Lookup(l) \/ LookupFails(l) \/ Compare(l)
  \/ \E i \in DOMAIN users, role \in {"user", "admin"} : SetRole(i, role)
  \/ \E t \in DOMAIN tokens : Expire(t)

AccountsSpec == Init /\ [][AccountsNext]_accountVars

-----------------------------------------------------------------------------
(* Properties *)

Rows == [email : Emails, username : Usernames, password : Passwords, role : {"user", "admin"}]
Payloads == [sub : DOMAIN users, username : Usernames, role : {"user", "admin"}]

\* The rows, the tokens and the calls have their types.
AccountsTypeOK ==
  /\ users \in Seq(Rows)
  /\ tokens \in Seq(Payloads)
  /\ expired \subseteq DOMAIN tokens
  /\ regPc \in [Registrations -> {"unsent", "registered", "conflict", "failed"}]
  /\ logPc \in [Logins -> {"unsent", "lookup", "compare", "authenticated", "unauthorized", "failed"}]
  /\ found \in [Logins -> Rows \cup {None}]
  /\ sub \in [Logins -> DOMAIN users \cup {None}]
  /\ known \in [Logins -> SUBSET Registrations]
  /\ admins \subseteq DOMAIN users
  /\ roleChanges \in 0 .. MaxRoleChanges
  /\ faults \in 0 .. MaxFaults

\* Tokens with the same username are of the same account, and the other way round:
\* sessions and throttles are kept by username, bids by account, and the two agree.
NamesIdentifyAccounts ==
  \A t, q \in DOMAIN tokens : tokens[t].username = tokens[q].username <=> tokens[t].sub = tokens[q].sub

\* Who was told that the registration had succeeded can log in: a login that arrives
\* later, with the email and the password of that registration, is not refused.
RegisteredCanLogin ==
  \A l \in Logins : \A r \in known[l] :
    /\ RegisterForm[r].email = LoginForm[l].email
    /\ RegisterForm[r].password = LoginForm[l].password
    => logPc[l] # "unauthorized"
=============================================================================
