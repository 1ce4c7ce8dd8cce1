CONSTANTS
  s1 = s1
  s2 = s2
  s3 = s3
  a1 = a1
  a2 = a2
  r1 = r1
  r2 = r2
  r3 = r3
  user = user
  ip = ip
  None = None
  Sockets = {s1, s2, s3}
  Users = {user}
  Ips = {ip}
  UserOf <- OneUser
  IpOf <- OneIp
  Auctions = {a1, a2}
  Known = {a1, a2}
  Requests = {r1, r2, r3}
  MaxPerUser = 0
  MaxPerIp = 1
  KeysExpire = FALSE
SPECIFICATION SafeSpec
CONSTRAINT FewAfterClose
SYMMETRY RaceSymmetry
INVARIANT TypeOK
INVARIANT RoomMembersAreCounted
INVARIANT OnlyLateJoinsLeak
INVARIANT OverrunIsBounded
INVARIANT ShownOnlineForACause
INVARIANT MembersAreShownOnline
CHECK_DEADLOCK FALSE
