\* Every endpoint, with failures, operators and the clock: no request is forgotten or refused for nothing.
SPECIFICATION FairRefusalSpec
CONSTANTS
  admin = admin
  name1 = name1
  name2 = name2
  mail1 = mail1
  mail2 = mail2
  pass1 = pass1
  Req = {r1, r2}
  UserId = {r1, r2, admin}
  Username = {name1, name2}
  Email = {mail1, mail2}
  Password = {pass1, pass2}
  NoUser = NoUser
  None = None
  InitialUsers <- OneAccount
  Ops = {"register", "login", "refresh", "me"}
  AccessSecret = "access"
  RefreshSecret = "refresh"
  ForeignSecret = "foreign"
  AccessLife = 1
  RefreshLife = 2
  MaxFaults = 1
  MaxEdits = 1
  MaxTime = 0
INVARIANT RefusalsAreHonest
PROPERTIES EveryRequestAnswered SessionsDecideOnce
CHECK_DEADLOCK FALSE
