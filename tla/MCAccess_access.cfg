CONSTANTS
  r1 = r1
  r2 = r2
  r3 = r3
  l1 = l1
  e1 = e1
  e2 = e2
  n1 = n1
  n2 = n2
  p1 = p1
  p2 = p2
  s1 = s1
  m1 = m1
  m2 = m2
  None = None
  Registrations = {r1, r2, r3}
  Logins = {l1}
  Emails = {e1, e2}
  Usernames = {n1, n2}
  Passwords = {p1, p2}
  RegisterForm <- Forms
  LoginForm <- FirstEmail
  Sockets = {s1}
  Messages = {m1, m2}
  EndMessages = {m1}
  MaxRoleChanges = 1
  MaxFaults = 1
SPECIFICATION Spec
INVARIANT TypeOK
INVARIANT NamesIdentifyAccounts
INVARIANT RegisteredCanLogin
INVARIANT HandlersActForTheToken
INVARIANT OnlyAdminsEnd
PROPERTY RefusedIsDisconnected
CHECK_DEADLOCK FALSE
