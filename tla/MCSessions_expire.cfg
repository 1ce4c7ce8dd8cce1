CONSTANTS
  s1 = s1
  s2 = s2
  s3 = s3
  a1 = a1
  a2 = a2
  r1 = r1
  r2 = r2
  r3 = r3
  user = user
  ip = ip
  None = None
  Sockets = {s1}
  Users = {user}
  Ips = {ip}
  UserOf <- OneUser
  IpOf <- OneIp
  Auctions = {a1, a2}
  Known = {a1}
  Requests = {r1, r2}
  MaxPerUser = 1
  MaxPerIp = 1
  KeysExpire = TRUE
SPECIFICATION Spec
PROPERTY LeaksExpire
CHECK_DEADLOCK FALSE
