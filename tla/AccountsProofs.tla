---------------------------- MODULE AccountsProofs ----------------------------
(***************************************************************************)
(* Theorems about Accounts, for every set of registrations and logins with   *)
(* any forms, and every number of role changes and faults.                   *)
(***************************************************************************)
EXTENDS Accounts, TLAPS

-----------------------------------------------------------------------------
(* Type correctness *)

\* A login that compares passwords holds a row, and knows its place.
RowFound == \A l \in Logins : logPc[l] = "compare" => found[l] \in Rows /\ sub[l] \in DOMAIN users

Typed == AccountsTypeOK /\ RowFound

\* Inserting a row keeps the types that mention the rows.
LEMMA AppendRow ==
  ASSUME Typed, NEW r \in Registrations, users' = Append(users, NewRow(r))
  PROVE  /\ NewRow(r) \in Rows
         /\ users' \in Seq(Rows)
         /\ Len(users') = Len(users) + 1
         /\ DOMAIN users' = DOMAIN users \cup {Len(users')}
         /\ Len(users') \notin DOMAIN users
         /\ \A i \in DOMAIN users : users'[i] = users[i]
         /\ users'[Len(users')] = NewRow(r)
         /\ Payloads \subseteq Payloads'
  <1>1. NewRow(r) \in Rows
    BY RegisterFormAssumption DEF NewRow, Rows
  <1>2. users \in Seq(Rows)
    BY DEF Typed, AccountsTypeOK
  <1>3. /\ users' \in Seq(Rows)
        /\ Len(users') = Len(users) + 1
        /\ DOMAIN users' = DOMAIN users \cup {Len(users')}
        /\ Len(users') \notin DOMAIN users
    BY <1>1, <1>2
  <1>4. (\A i \in DOMAIN users : users'[i] = users[i]) /\ users'[Len(users')] = NewRow(r)
    BY <1>1, <1>2
  <1>5. Payloads \subseteq Payloads'
    BY <1>3 DEF Payloads
  <1> QED BY <1>1, <1>3, <1>4, <1>5

\* Changing a role keeps all else of the rows.
LEMMA RoleChanged ==
  ASSUME Typed, NEW i \in DOMAIN users, NEW role \in {"user", "admin"}, SetRole(i, role)
  PROVE  /\ users' \in Seq(Rows) /\ DOMAIN users' = DOMAIN users
         /\ \A k \in DOMAIN users : /\ users'[k].email = users[k].email
                                    /\ users'[k].username = users[k].username
                                    /\ users'[k].password = users[k].password
                                    /\ users'[k].role = IF k = i THEN role ELSE users[k].role
         /\ Payloads' = Payloads
  <1>1. users \in Seq(Rows) /\ users[i] \in Rows
    BY DEF Typed, AccountsTypeOK
  <1>2. users' = [users EXCEPT ![i] = [users[i] EXCEPT !.role = role]]
    BY DEF SetRole
  <1>3. [users[i] EXCEPT !.role = role] \in Rows
    BY <1>1 DEF Rows
  <1>4. users' \in Seq(Rows) /\ DOMAIN users' = DOMAIN users
    BY <1>1, <1>2, <1>3
  <1>5. ASSUME NEW k \in DOMAIN users
        PROVE  /\ users'[k].email = users[k].email
               /\ users'[k].username = users[k].username
               /\ users'[k].password = users[k].password
               /\ users'[k].role = IF k = i THEN role ELSE users[k].role
    BY <1>1, <1>2 DEF Rows
  <1>6. Payloads' = Payloads
    BY <1>4 DEF Payloads
  <1> QED BY <1>4, <1>5, <1>6

\* The types of the rows, the tokens and the calls are kept by every step.
LEMMA AccountsTypeStep ==
  ASSUME Typed, [AccountsNext]_accountVars
  PROVE  Typed'
  <1> USE RegisterFormAssumption, LoginFormAssumption, AccountBoundsAssumption
  <1> USE DEF Typed, AccountsTypeOK, RowFound, GotoReg, GotoLog, Sign
  <1>1. ASSUME NEW r \in Registrations, Insert(r) PROVE Typed'
    <2>1. CASE /\ users' = Append(users, NewRow(r))
               /\ tokens' = Append(tokens, Claims(Len(users'), NewRow(r)))
               /\ regPc' = [regPc EXCEPT ![r] = "registered"]
      <3>1. /\ NewRow(r) \in Rows /\ Len(users') \in DOMAIN users'
            /\ users' \in Seq(Rows) /\ DOMAIN users \subseteq DOMAIN users' /\ Payloads \subseteq Payloads'
        BY <2>1, AppendRow
      <3>2. Claims(Len(users'), NewRow(r)) \in Payloads'
        BY <3>1 DEF Payloads, Claims, Rows
      <3>3. tokens' \in Seq(Payloads') /\ DOMAIN tokens \subseteq DOMAIN tokens'
        BY <2>1, <3>1, <3>2
      <3> QED BY <1>1, <2>1, <3>1, <3>3 DEF Insert
    <2>2. CASE UNCHANGED <<users, tokens>> /\ regPc' = [regPc EXCEPT ![r] = "conflict"]
      BY <1>1, <2>2 DEF Insert, Payloads
    <2> QED BY <1>1, <2>1, <2>2 DEF Insert
  <1>2. ASSUME NEW r \in Registrations, InsertFails(r) PROVE Typed'
    <2>1. users' \in Seq(Rows) /\ DOMAIN users \subseteq DOMAIN users' /\ Payloads \subseteq Payloads'
      <3>1. CASE users' = Append(users, NewRow(r))
        BY <3>1, AppendRow
      <3>2. CASE UNCHANGED users
        BY <3>2 DEF Payloads
      <3> QED BY <1>2, <3>1, <3>2 DEF InsertFails
    <2>2. tokens' \in Seq(Payloads')
      BY <1>2, <2>1 DEF InsertFails
    <2> QED BY <1>2, <2>1, <2>2 DEF InsertFails, Fault
  <1>3. ASSUME NEW l \in Logins, Arrive(l) PROVE Typed'
    BY <1>3 DEF Arrive, Payloads, Registered
  <1>4. ASSUME NEW l \in Logins, Lookup(l) PROVE Typed'
    <2>1. UNCHANGED Payloads
      BY <1>4 DEF Lookup, Payloads
    <2>2. CASE \E i \in Matching(LoginForm[l].email) :
                 /\ found' = [found EXCEPT ![l] = users[i]]
                 /\ sub' = [sub EXCEPT ![l] = i]
                 /\ GotoLog(l, "compare")
      <3>1. PICK i \in DOMAIN users : /\ found' = [found EXCEPT ![l] = users[i]]
                                      /\ sub' = [sub EXCEPT ![l] = i]
                                      /\ GotoLog(l, "compare")
        BY <2>2 DEF Matching
      <3>2. users[i] \in Rows
        OBVIOUS
      <3> QED BY <1>4, <2>1, <3>1, <3>2 DEF Lookup
    <2>3. CASE GotoLog(l, "unauthorized") /\ UNCHANGED <<found, sub>>
      BY <1>4, <2>1, <2>3 DEF Lookup
    <2> QED BY <1>4, <2>2, <2>3 DEF Lookup
  <1>5. ASSUME NEW l \in Logins, LookupFails(l) PROVE Typed'
    BY <1>5 DEF LookupFails, Payloads, Fault
  <1>6. ASSUME NEW l \in Logins, Compare(l) PROVE Typed'
    <2>1. UNCHANGED Payloads
      BY <1>6 DEF Compare, Payloads
    <2>2. Claims(sub[l], found[l]) \in Payloads
      BY <1>6 DEF Compare, Claims, Payloads, Rows
    <2>3. tokens' \in Seq(Payloads) /\ DOMAIN tokens \subseteq DOMAIN tokens'
      <3>1. CASE tokens' = Append(tokens, Claims(sub[l], found[l]))
        BY <2>2, <3>1
      <3>2. CASE UNCHANGED tokens
        BY <3>2
      <3> QED BY <1>6, <3>1, <3>2 DEF Compare
    <2> QED BY <1>6, <2>1, <2>3 DEF Compare
  <1>7. ASSUME NEW i \in DOMAIN users, NEW role \in {"user", "admin"}, SetRole(i, role)
        PROVE  Typed'
    <2>1. users' \in Seq(Rows) /\ DOMAIN users' = DOMAIN users /\ Payloads' = Payloads
      BY <1>7, RoleChanged
    <2> QED BY <1>7, <2>1 DEF SetRole
  <1>8. ASSUME NEW t \in DOMAIN tokens, Expire(t) PROVE Typed'
    BY <1>8 DEF Expire, Payloads
  <1>9. CASE UNCHANGED accountVars
    BY <1>9 DEF accountVars, Payloads
  <1> QED BY <1>1, <1>2, <1>3, <1>4, <1>5, <1>6, <1>7, <1>8, <1>9 DEF AccountsNext

\* The accounts stay in their types, and a login compares with a row it has read.
LEMMA AccountsTyped == AccountsSpec => []Typed
  <1>1. Init => Typed
    <2> SUFFICES ASSUME Init PROVE Typed
      OBVIOUS
    <2>1. users = <<>> /\ tokens = <<>> /\ DOMAIN users = {} /\ DOMAIN tokens = {}
      BY DEF Init
    <2>2. users \in Seq(Rows) /\ tokens \in Seq(Payloads)
      BY <2>1
    <2> QED BY <2>1, <2>2, AccountBoundsAssumption DEF Init, Typed, AccountsTypeOK, RowFound
  <1>2. Typed /\ [AccountsNext]_accountVars => Typed'
    BY AccountsTypeStep
  <1> QED BY <1>1, <1>2, PTL DEF AccountsSpec

-----------------------------------------------------------------------------
(* The rows identify the accounts *)

\* Email and username each identify a row.
UniqueRows ==
  \A i, j \in DOMAIN users :
    users[i].email = users[j].email \/ users[i].username = users[j].username => i = j

\* A row and the row rec have the same columns that nothing updates.
SameAccount(rec, row) ==
  rec.email = row.email /\ rec.username = row.username /\ rec.password = row.password

\* The row of a token has its username.
TokensNameRows == \A t \in DOMAIN tokens : tokens[t].username = users[tokens[t].sub].username

\* The row a login has read is, up to its role, still the row at its place, and is the
\* one it asked for.
FoundIsRow ==
  \A l \in Logins : logPc[l] = "compare" =>
    SameAccount(found[l], users[sub[l]]) /\ found[l].email = LoginForm[l].email

\* A registration that was answered with success has its row.
RegisteredHaveRows ==
  \A r \in Registered : \E i \in DOMAIN users :
    users[i].email = RegisterForm[r].email /\ users[i].password = RegisterForm[r].password

AccountsInv ==
  /\ UniqueRows
  /\ TokensNameRows
  /\ FoundIsRow
  /\ RegisteredHaveRows
  /\ \A l \in Logins : known[l] \subseteq Registered
  /\ RegisteredCanLogin

\* Rows are never removed, and their columns are never updated, but for the role.
LEMMA RowsStay ==
  ASSUME Typed, [AccountsNext]_accountVars
  PROVE  /\ DOMAIN users \subseteq DOMAIN users'
         /\ \A i \in DOMAIN users : SameAccount(users'[i], users[i])
  <1>1. ASSUME NEW r \in Registrations, users' = Append(users, NewRow(r))
        PROVE  /\ DOMAIN users \subseteq DOMAIN users'
               /\ \A i \in DOMAIN users : SameAccount(users'[i], users[i])
    BY <1>1, AppendRow DEF SameAccount
  <1>2. ASSUME NEW i \in DOMAIN users, NEW role \in {"user", "admin"}, SetRole(i, role)
        PROVE  /\ DOMAIN users \subseteq DOMAIN users'
               /\ \A k \in DOMAIN users : SameAccount(users'[k], users[k])
    BY <1>2, RoleChanged DEF SameAccount
  <1>3. CASE UNCHANGED users
    BY <1>3 DEF SameAccount
  <1> QED
    BY <1>1, <1>2, <1>3
       DEF AccountsNext, accountVars, Insert, InsertFails, Arrive, Lookup, LookupFails, Compare, Expire

\* A row is inserted only where neither column is taken.
LEMMA InsertedIsUnique ==
  ASSUME Typed, UniqueRows, [AccountsNext]_accountVars
  PROVE  UniqueRows'
  <1>1. ASSUME NEW r \in Registrations, ~Taken(RegisterForm[r]), users' = Append(users, NewRow(r))
        PROVE  UniqueRows'
    <2>1. /\ DOMAIN users' = DOMAIN users \cup {Len(users')}
          /\ \A i \in DOMAIN users : users'[i] = users[i]
          /\ users'[Len(users')] = NewRow(r)
      BY <1>1, AppendRow
    <2>2. \A i \in DOMAIN users : /\ users[i].email # NewRow(r).email
                                  /\ users[i].username # NewRow(r).username
      BY <1>1 DEF Taken, NewRow
    <2> QED BY <2>1, <2>2 DEF UniqueRows
  <1>2. ASSUME NEW i \in DOMAIN users, NEW role \in {"user", "admin"}, SetRole(i, role)
        PROVE  UniqueRows'
    BY <1>2, RoleChanged DEF UniqueRows
  <1>3. CASE UNCHANGED users
    BY <1>3 DEF UniqueRows
  <1> QED
    BY <1>1, <1>2, <1>3
       DEF AccountsNext, accountVars, Insert, InsertFails, Arrive, Lookup, LookupFails, Compare, Expire

\* A token is signed for the row it names, created just now or read by the login.
LEMMA SignedNamesRow ==
  ASSUME Typed, TokensNameRows, FoundIsRow, [AccountsNext]_accountVars
  PROVE  TokensNameRows'
  <1> USE DEF TokensNameRows, Sign
  <1>1. /\ DOMAIN users \subseteq DOMAIN users'
        /\ \A i \in DOMAIN users : SameAccount(users'[i], users[i])
    BY RowsStay
  <1>2. \A t \in DOMAIN tokens : /\ tokens[t].sub \in DOMAIN users
                                 /\ tokens[t].username = users'[tokens[t].sub].username
    <2> SUFFICES ASSUME NEW t \in DOMAIN tokens
                 PROVE  /\ tokens[t].sub \in DOMAIN users
                        /\ tokens[t].username = users'[tokens[t].sub].username
      OBVIOUS
    <2>1. tokens[t] \in Payloads
      BY DEF Typed, AccountsTypeOK
    <2>2. tokens[t].sub \in DOMAIN users
      BY <2>1 DEF Payloads
    <2> QED BY <1>1, <2>2 DEF SameAccount
  <1>3. ASSUME NEW id \in DOMAIN users', NEW row,
               row.username = users'[id].username, tokens' = Append(tokens, Claims(id, row))
        PROVE  TokensNameRows'
    <2>1. /\ DOMAIN tokens' = DOMAIN tokens \cup {Len(tokens')}
          /\ \A t \in DOMAIN tokens : tokens'[t] = tokens[t]
          /\ tokens'[Len(tokens')] = Claims(id, row)
      BY <1>3 DEF Typed, AccountsTypeOK
    <2>2. Claims(id, row).sub = id /\ Claims(id, row).username = row.username
      BY DEF Claims
    <2> QED BY <1>2, <1>3, <2>1, <2>2
  <1>4. ASSUME NEW r \in Registrations, Insert(r) PROVE TokensNameRows'
    <2>1. CASE users' = Append(users, NewRow(r)) /\ tokens' = Append(tokens, Claims(Len(users'), NewRow(r)))
      <3>1. Len(users') \in DOMAIN users' /\ users'[Len(users')] = NewRow(r)
        BY <2>1, AppendRow
      <3> QED BY <1>3, <2>1, <3>1
    <2>2. CASE UNCHANGED tokens
      BY <1>2, <2>2
    <2> QED BY <1>4, <2>1, <2>2 DEF Insert
  <1>5. ASSUME NEW l \in Logins, Compare(l) PROVE TokensNameRows'
    <2>1. CASE tokens' = Append(tokens, Claims(sub[l], found[l]))
      <3>1. sub[l] \in DOMAIN users' /\ found[l].username = users'[sub[l]].username
        BY <1>1, <1>5 DEF Compare, Typed, RowFound, FoundIsRow, SameAccount
      <3> QED BY <1>3, <2>1, <3>1
    <2>2. CASE UNCHANGED tokens
      BY <1>2, <2>2
    <2> QED BY <1>5, <2>1, <2>2 DEF Compare
  <1>6. CASE UNCHANGED tokens
    BY <1>2, <1>6
  <1> QED
    BY <1>4, <1>5, <1>6
       DEF AccountsNext, accountVars, InsertFails, Arrive, Lookup, LookupFails, SetRole, Expire

\* What a login has read stays true of the row while it compares passwords.
LEMMA FoundStaysRow ==
  ASSUME Typed, FoundIsRow, [AccountsNext]_accountVars
  PROVE  FoundIsRow'
  <1> USE DEF GotoLog, GotoReg
  <1>1. /\ DOMAIN users \subseteq DOMAIN users'
        /\ \A i \in DOMAIN users : SameAccount(users'[i], users[i])
    BY RowsStay
  <1>2. ASSUME NEW k \in Logins, logPc[k] = "compare", found'[k] = found[k], sub'[k] = sub[k]
        PROVE  SameAccount(found'[k], users'[sub'[k]]) /\ found'[k].email = LoginForm[k].email
    BY <1>1, <1>2 DEF FoundIsRow, SameAccount, Typed, RowFound
  <1>3. ASSUME NEW l \in Logins, Lookup(l) PROVE FoundIsRow'
    <2>1. CASE GotoLog(l, "unauthorized") /\ UNCHANGED <<found, sub>>
      BY <1>2, <2>1 DEF FoundIsRow, Typed, AccountsTypeOK
    <2>2. CASE \E i \in Matching(LoginForm[l].email) :
                 /\ found' = [found EXCEPT ![l] = users[i]]
                 /\ sub' = [sub EXCEPT ![l] = i]
                 /\ GotoLog(l, "compare")
      <3>1. PICK i \in DOMAIN users : /\ users[i].email = LoginForm[l].email
                                      /\ found' = [found EXCEPT ![l] = users[i]]
                                      /\ sub' = [sub EXCEPT ![l] = i]
                                      /\ GotoLog(l, "compare")
        BY <2>2 DEF Matching
      <3>2. found'[l] = users[i] /\ sub'[l] = i /\ users' = users
        BY <1>3, <3>1 DEF Typed, AccountsTypeOK, Lookup
      <3>3. \A k \in Logins \ {l} : /\ logPc'[k] = logPc[k]
                                    /\ found'[k] = found[k] /\ sub'[k] = sub[k]
        BY <3>1 DEF Typed, AccountsTypeOK
      <3> QED BY <1>2, <3>1, <3>2, <3>3 DEF FoundIsRow, SameAccount
    <2> QED BY <1>3, <2>1, <2>2 DEF Lookup
  <1>4. ASSUME NEW l \in Logins, Compare(l) PROVE FoundIsRow'
    <2>1. \A k \in Logins : logPc'[k] = "compare" =>
            logPc[k] = "compare" /\ found'[k] = found[k] /\ sub'[k] = sub[k]
      BY <1>4 DEF Compare, Typed, AccountsTypeOK
    <2> QED BY <1>2, <2>1 DEF FoundIsRow
  <1>5. ASSUME UNCHANGED <<found, sub>>, \A l \in Logins : logPc'[l] = "compare" => logPc[l] = "compare"
        PROVE  FoundIsRow'
    BY <1>2, <1>5 DEF FoundIsRow
  <1>6. ASSUME NEW l \in Logins, Arrive(l) \/ LookupFails(l)
        PROVE  UNCHANGED <<found, sub>> /\ \A k \in Logins : logPc'[k] = "compare" => logPc[k] = "compare"
    BY <1>6 DEF Arrive, LookupFails, Typed, AccountsTypeOK
  <1> QED
    BY <1>3, <1>4, <1>5, <1>6
       DEF AccountsNext, accountVars, Insert, InsertFails, SetRole, Expire

\* Success is answered after the insertion.
LEMMA AnsweredHasRow ==
  ASSUME Typed, RegisteredHaveRows, [AccountsNext]_accountVars
  PROVE  RegisteredHaveRows' /\ Registered \subseteq Registered'
  <1> USE DEF GotoReg
  <1>1. /\ DOMAIN users \subseteq DOMAIN users'
        /\ \A i \in DOMAIN users : SameAccount(users'[i], users[i])
    BY RowsStay
  <1>2. \A r \in Registered : \E i \in DOMAIN users' :
          users'[i].email = RegisterForm[r].email /\ users'[i].password = RegisterForm[r].password
    BY <1>1 DEF RegisteredHaveRows, SameAccount
  <1>3. ASSUME NEW r \in Registrations, Insert(r)
        PROVE  RegisteredHaveRows' /\ Registered \subseteq Registered'
    <2>1. CASE users' = Append(users, NewRow(r)) /\ regPc' = [regPc EXCEPT ![r] = "registered"]
      <3>1. Len(users') \in DOMAIN users' /\ users'[Len(users')] = NewRow(r)
        BY <2>1, AppendRow
      <3>2. /\ users'[Len(users')].email = RegisterForm[r].email
            /\ users'[Len(users')].password = RegisterForm[r].password
        BY <3>1 DEF NewRow
      <3>3. Registered' = Registered \cup {r}
        BY <2>1 DEF Registered, Typed, AccountsTypeOK
      <3> QED BY <1>2, <3>1, <3>2, <3>3 DEF RegisteredHaveRows
    <2>2. CASE regPc' = [regPc EXCEPT ![r] = "conflict"]
      <3>1. Registered' = Registered
        BY <1>3, <2>2 DEF Insert, Registered, Typed, AccountsTypeOK
      <3> QED BY <1>2, <3>1 DEF RegisteredHaveRows
    <2> QED BY <1>3, <2>1, <2>2 DEF Insert
  <1>4. ASSUME NEW r \in Registrations, InsertFails(r) PROVE Registered' = Registered
    BY <1>4 DEF InsertFails, Registered, Typed, AccountsTypeOK
  <1>5. ASSUME UNCHANGED regPc PROVE Registered' = Registered
    BY <1>5 DEF Registered
  <1>6. ASSUME Registered' = Registered
        PROVE  RegisteredHaveRows' /\ Registered \subseteq Registered'
    BY <1>2, <1>6 DEF RegisteredHaveRows
  <1> QED
    BY <1>3, <1>4, <1>5, <1>6
       DEF AccountsNext, accountVars, Arrive, Lookup, LookupFails, Compare, SetRole, Expire

\* A login that knows of a registration finds its row, and the password it compares with.
LEMMA KnownCanLogin ==
  ASSUME Typed, AccountsInv, [AccountsNext]_accountVars
  PROVE  (\A l \in Logins : known'[l] \subseteq Registered') /\ RegisteredCanLogin'
  <1> USE DEF GotoLog
  <1>0. Registered \subseteq Registered'
    BY AnsweredHasRow DEF AccountsInv
  <1>1. ASSUME UNCHANGED known,
               \A l \in Logins : logPc'[l] = "unauthorized" => logPc[l] = "unauthorized"
        PROVE  (\A l \in Logins : known'[l] \subseteq Registered') /\ RegisteredCanLogin'
    BY <1>0, <1>1 DEF AccountsInv, RegisteredCanLogin
  <1>2. ASSUME NEW l \in Logins, Arrive(l)
        PROVE  (\A k \in Logins : known'[k] \subseteq Registered') /\ RegisteredCanLogin'
    <2>1. \A k \in Logins : known'[k] \subseteq Registered'
      BY <1>0, <1>2 DEF Arrive, AccountsInv, Typed, AccountsTypeOK
    <2>2. logPc'[l] # "unauthorized"
      BY <1>2 DEF Arrive, Typed, AccountsTypeOK
    <2>3. \A k \in Logins \ {l} : logPc'[k] = logPc[k] /\ known'[k] = known[k]
      BY <1>2 DEF Arrive, Typed, AccountsTypeOK
    <2> QED BY <2>1, <2>2, <2>3 DEF AccountsInv, RegisteredCanLogin
  <1>3. ASSUME NEW l \in Logins, UNCHANGED known, logPc' = [logPc EXCEPT ![l] = "unauthorized"],
               \A r \in known[l] : ~(/\ RegisterForm[r].email = LoginForm[l].email
                                     /\ RegisterForm[r].password = LoginForm[l].password)
        PROVE  (\A k \in Logins : known'[k] \subseteq Registered') /\ RegisteredCanLogin'
    <2>1. \A k \in Logins \ {l} : logPc'[k] = logPc[k]
      BY <1>3 DEF Typed, AccountsTypeOK
    <2> QED BY <1>0, <1>3, <2>1 DEF AccountsInv, RegisteredCanLogin
  <1>4. \A l \in Logins : \A r \in known[l] : \E i \in DOMAIN users :
          users[i].email = RegisterForm[r].email /\ users[i].password = RegisterForm[r].password
    BY DEF AccountsInv, RegisteredHaveRows
  <1>5. ASSUME NEW l \in Logins, Lookup(l)
        PROVE  (\A k \in Logins : known'[k] \subseteq Registered') /\ RegisteredCanLogin'
    <2>1. CASE Matching(LoginForm[l].email) = {} /\ GotoLog(l, "unauthorized")
      <3>1. \A r \in known[l] : RegisterForm[r].email # LoginForm[l].email
        BY <1>4, <2>1 DEF Matching
      <3> QED BY <1>3, <1>5, <2>1, <3>1 DEF Lookup
    <2>2. CASE GotoLog(l, "compare")
      <3>1. \A k \in Logins : logPc'[k] = "unauthorized" => logPc[k] = "unauthorized"
        BY <2>2 DEF Typed, AccountsTypeOK
      <3> QED BY <1>1, <1>5, <3>1 DEF Lookup
    <2> QED BY <1>5, <2>1, <2>2 DEF Lookup
  <1>6. ASSUME NEW l \in Logins, Compare(l)
        PROVE  (\A k \in Logins : known'[k] \subseteq Registered') /\ RegisteredCanLogin'
    <2>1. CASE found[l].password # LoginForm[l].password /\ GotoLog(l, "unauthorized")
      <3>1. ASSUME NEW r \in known[l], RegisterForm[r].email = LoginForm[l].email
            PROVE  RegisterForm[r].password # LoginForm[l].password
        <4>1. PICK i \in DOMAIN users : /\ users[i].email = RegisterForm[r].email
                                        /\ users[i].password = RegisterForm[r].password
          BY <1>4
        <4>2. /\ sub[l] \in DOMAIN users /\ SameAccount(found[l], users[sub[l]])
              /\ found[l].email = LoginForm[l].email
          BY <1>6 DEF Compare, AccountsInv, FoundIsRow, Typed, RowFound
        <4>3. i = sub[l]
          BY <3>1, <4>1, <4>2 DEF AccountsInv, UniqueRows, SameAccount
        <4> QED BY <2>1, <4>1, <4>2, <4>3 DEF SameAccount
      <3> QED BY <1>3, <1>6, <2>1, <3>1 DEF Compare
    <2>2. CASE GotoLog(l, "authenticated")
      <3>1. \A k \in Logins : logPc'[k] = "unauthorized" => logPc[k] = "unauthorized"
        BY <2>2 DEF Typed, AccountsTypeOK
      <3> QED BY <1>1, <1>6, <3>1 DEF Compare
    <2> QED BY <1>6, <2>1, <2>2 DEF Compare
  <1>7. ASSUME NEW l \in Logins, LookupFails(l)
        PROVE  \A k \in Logins : logPc'[k] = "unauthorized" => logPc[k] = "unauthorized"
    BY <1>7 DEF LookupFails, Typed, AccountsTypeOK
  <1> QED
    BY <1>1, <1>2, <1>5, <1>6, <1>7
       DEF AccountsNext, accountVars, Insert, InsertFails, LookupFails, SetRole, Expire

\* AccountsInv is kept by every step.
LEMMA AccountsInvStep ==
  ASSUME Typed, AccountsInv, [AccountsNext]_accountVars
  PROVE  AccountsInv'
  BY InsertedIsUnique, SignedNamesRow, FoundStaysRow, AnsweredHasRow, KnownCanLogin DEF AccountsInv

\* AccountsInv holds when there are no accounts.
LEMMA AccountsInvInit == ASSUME Init PROVE AccountsInv
  BY DEF Init, AccountsInv, UniqueRows, TokensNameRows, FoundIsRow, RegisteredHaveRows, Registered,
         RegisteredCanLogin

\* AccountsInv is an invariant.
LEMMA AccountsInvariant == AccountsSpec => []AccountsInv
  <1>1. Init => AccountsInv
    BY AccountsInvInit
  <1>2. Typed /\ AccountsInv /\ [AccountsNext]_accountVars => AccountsInv'
    BY AccountsInvStep
  <1> QED BY <1>1, <1>2, AccountsTyped, PTL DEF AccountsSpec

\* As rows are unique, tokens with one username have one row, and the other way round.
LEMMA NamesFromRows == ASSUME Typed, AccountsInv PROVE NamesIdentifyAccounts
  <1> SUFFICES ASSUME NEW t \in DOMAIN tokens, NEW q \in DOMAIN tokens
               PROVE  tokens[t].username = tokens[q].username <=> tokens[t].sub = tokens[q].sub
    BY DEF NamesIdentifyAccounts
  <1>1. tokens[t] \in Payloads /\ tokens[q] \in Payloads
    BY DEF Typed, AccountsTypeOK
  <1>2. tokens[t].sub \in DOMAIN users /\ tokens[q].sub \in DOMAIN users
    BY <1>1 DEF Payloads
  <1> QED BY <1>2 DEF AccountsInv, TokensNameRows, UniqueRows

-----------------------------------------------------------------------------
(* Where the role admin comes from *)

\* Whoever has the role admin in a row, a token or a login in progress is on record as
\* an admin.
AdminsOnRecord ==
  /\ \A i \in DOMAIN users : users[i].role = "admin" => i \in admins
  /\ \A t \in DOMAIN tokens : tokens[t].role = "admin" => tokens[t].sub \in admins
  /\ \A l \in Logins : logPc[l] = "compare" /\ found[l].role = "admin" => sub[l] \in admins

\* AdminsOnRecord is kept by every step.
LEMMA AdminsStep ==
  ASSUME Typed, AdminsOnRecord, [AccountsNext]_accountVars
  PROVE  AdminsOnRecord'
  <1> USE DEF GotoLog, GotoReg, Sign
  <1>1. ASSUME NEW r \in Registrations, users' = Append(users, NewRow(r)), UNCHANGED admins
        PROVE  \A i \in DOMAIN users' : users'[i].role = "admin" => i \in admins'
    <2>1. NewRow(r).role # "admin"
      BY DEF NewRow
    <2> QED BY <1>1, <2>1, AppendRow DEF AdminsOnRecord
  <1>2. ASSUME NEW id, NEW row, row.role = "admin" => id \in admins', admins \subseteq admins',
               tokens' = Append(tokens, Claims(id, row))
        PROVE  \A t \in DOMAIN tokens' : tokens'[t].role = "admin" => tokens'[t].sub \in admins'
    <2>1. /\ DOMAIN tokens' = DOMAIN tokens \cup {Len(tokens')}
          /\ \A t \in DOMAIN tokens : tokens'[t] = tokens[t]
          /\ tokens'[Len(tokens')] = Claims(id, row)
      BY <1>2 DEF Typed, AccountsTypeOK
    <2>2. Claims(id, row).sub = id /\ Claims(id, row).role = row.role
      BY DEF Claims
    <2> QED BY <1>2, <2>1, <2>2 DEF AdminsOnRecord
  <1>3. ASSUME NEW r \in Registrations, Insert(r) PROVE AdminsOnRecord'
    <2>1. CASE users' = Append(users, NewRow(r)) /\ tokens' = Append(tokens, Claims(Len(users'), NewRow(r)))
      <3>1. NewRow(r).role # "admin"
        BY DEF NewRow
      <3>2. \A t \in DOMAIN tokens' : tokens'[t].role = "admin" => tokens'[t].sub \in admins'
        BY <1>2, <1>3, <2>1, <3>1 DEF Insert
      <3> QED BY <1>1, <1>3, <2>1, <3>2 DEF Insert, AdminsOnRecord
    <2>2. CASE UNCHANGED <<users, tokens>>
      BY <1>3, <2>2 DEF Insert, AdminsOnRecord
    <2> QED BY <1>3, <2>1, <2>2 DEF Insert
  <1>4. ASSUME NEW r \in Registrations, InsertFails(r) PROVE AdminsOnRecord'
    <2>1. \A i \in DOMAIN users' : users'[i].role = "admin" => i \in admins'
      BY <1>1, <1>4 DEF InsertFails, AdminsOnRecord
    <2> QED BY <1>4, <2>1 DEF InsertFails, AdminsOnRecord
  <1>5. ASSUME NEW l \in Logins, Arrive(l) \/ LookupFails(l) PROVE AdminsOnRecord'
    BY <1>5 DEF Arrive, LookupFails, AdminsOnRecord, Typed, AccountsTypeOK
  <1>6. ASSUME NEW l \in Logins, Lookup(l) PROVE AdminsOnRecord'
    BY <1>6 DEF Lookup, Matching, AdminsOnRecord, Typed, AccountsTypeOK
  <1>7. ASSUME NEW l \in Logins, Compare(l) PROVE AdminsOnRecord'
    <2>1. \A t \in DOMAIN tokens' : tokens'[t].role = "admin" => tokens'[t].sub \in admins'
      <3>1. CASE tokens' = Append(tokens, Claims(sub[l], found[l]))
        BY <1>2, <1>7, <3>1 DEF Compare, AdminsOnRecord
      <3>2. CASE UNCHANGED tokens
        BY <1>7, <3>2 DEF Compare, AdminsOnRecord
      <3> QED BY <1>7, <3>1, <3>2 DEF Compare
    <2>2. \A k \in Logins : logPc'[k] = "compare" => logPc[k] = "compare" /\ found'[k] = found[k]
      BY <1>7 DEF Compare, Typed, AccountsTypeOK
    <2> QED BY <1>7, <2>1, <2>2 DEF Compare, AdminsOnRecord
  <1>8. ASSUME NEW i \in DOMAIN users, NEW role \in {"user", "admin"}, SetRole(i, role)
        PROVE  AdminsOnRecord'
    <2>1. admins \subseteq admins' /\ (role = "admin" => i \in admins')
      BY <1>8 DEF SetRole
    <2>2. \A k \in DOMAIN users' : users'[k].role = "admin" => k \in admins'
      BY <1>8, <2>1, RoleChanged DEF AdminsOnRecord
    <2> QED BY <1>8, <2>1, <2>2 DEF SetRole, AdminsOnRecord
  <1>9. CASE UNCHANGED <<users, tokens, logPc, found, sub, admins>>
    BY <1>9 DEF AdminsOnRecord
  <1> QED
    BY <1>3, <1>4, <1>5, <1>6, <1>7, <1>8, <1>9 DEF AccountsNext, accountVars, Expire

-----------------------------------------------------------------------------
(* Theorems *)

\* The rows, the tokens and the calls of the auth endpoints keep their types: a token
\* always names a row.
THEOREM AccountsTypeCorrect == AccountsSpec => []AccountsTypeOK
  <1>1. Typed => AccountsTypeOK
    BY DEF Typed
  <1> QED BY <1>1, AccountsTyped, PTL

\* However registrations and logins overlap and fail, tokens have the same username
\* exactly when they are of the same account.
THEOREM NamesAreAccounts == AccountsSpec => []NamesIdentifyAccounts
  <1>1. Typed /\ AccountsInv => NamesIdentifyAccounts
    BY NamesFromRows
  <1> QED BY <1>1, AccountsTyped, AccountsInvariant, PTL

\* A login that arrives after a registration was answered with success, with the email
\* and the password of that registration, is never answered with Unauthorized.
THEOREM SuccessMeansLogin == AccountsSpec => []RegisteredCanLogin
  <1>1. AccountsInv => RegisteredCanLogin
    BY DEF AccountsInv
  <1> QED BY <1>1, AccountsInvariant, PTL
=============================================================================
