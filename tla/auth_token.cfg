\* An expired or unreadable access token at GET /me.
SPECIFICATION Spec
CONSTANTS
  admin = admin
  name1 = name1
  name2 = name2
  mail1 = mail1
  mail2 = mail2
  pass1 = pass1
  Req = {r1, r2}
  UserId = {r1, r2, admin}
  Username = {name1}
  Email = {mail1}
  Password = {pass1}
  NoUser = NoUser
  None = None
  InitialUsers <- OneAccount
  Ops = {"login", "me"}
  AccessSecret = "access"
  RefreshSecret = "refresh"
  ForeignSecret = "foreign"
  AccessLife = 1
  RefreshLife = 2
  MaxFaults = 0
  MaxEdits = 0
  MaxTime = 2
INVARIANT BadTokenIsUnauthorized
CHECK_DEADLOCK FALSE
