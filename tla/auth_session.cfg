\* Log-ins, refreshes and /me for an account that an operator changes meanwhile.
SPECIFICATION LeaseSpec
SYMMETRY RequestSymmetry
CONSTANTS
  admin = admin
  name1 = name1
  name2 = name2
  mail1 = mail1
  mail2 = mail2
  pass1 = pass1
  Req = {r1, r2, r3}
  UserId = {r1, r2, r3, admin}
  Username = {name1}
  Email = {mail1}
  Password = {pass1, pass2}
  NoUser = NoUser
  None = None
  InitialUsers <- OneAccount
  Ops = {"login", "refresh", "me"}
  AccessSecret = "access"
  RefreshSecret = "refresh"
  ForeignSecret = "foreign"
  AccessLife = 1
  RefreshLife = 2
  MaxFaults = 0
  MaxEdits = 1
  MaxTime = 2
INVARIANTS SessionsWarranted SessionLineage
PROPERTY AccessEnds
CHECK_DEADLOCK FALSE
