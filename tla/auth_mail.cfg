\* A registration when the mail server cannot be used.
SPECIFICATION Spec
CONSTANTS
  admin = admin
  name1 = name1
  name2 = name2
  mail1 = mail1
  mail2 = mail2
  pass1 = pass1
  Req = {r1}
  UserId = {r1}
  Username = {name1}
  Email = {mail1}
  Password = {pass1}
  NoUser = NoUser
  None = None
  InitialUsers <- NoAccounts
  Ops = {"register"}
  AccessSecret = "access"
  RefreshSecret = "refresh"
  ForeignSecret = "foreign"
  AccessLife = 1
  RefreshLife = 2
  MaxFaults = 1
  MaxEdits = 0
  MaxTime = 0
INVARIANT MailIsOptional
CHECK_DEADLOCK FALSE
