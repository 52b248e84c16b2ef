\* Registrations, log-ins and what follows from them at once, with an account registered earlier.
SPECIFICATION Spec
SYMMETRY RequestSymmetry
CONSTANTS
  admin = admin
  name1 = name1
  name2 = name2
  mail1 = mail1
  mail2 = mail2
  pass1 = pass1
  Req = {r1, r2}
  UserId = {r1, r2, admin}
  Username = {name1, name2}
  Email = {mail1, mail2}
  Password = {pass1}
  NoUser = NoUser
  None = None
  InitialUsers <- OneAccount
  Ops = {"register", "login", "refresh", "me"}
  AccessSecret = "access"
  RefreshSecret = "refresh"
  ForeignSecret = "foreign"
  AccessLife = 1
  RefreshLife = 2
  MaxFaults = 1
  MaxEdits = 2
  MaxTime = 1
INVARIANTS TypeOK UniqueAccounts ConflictIsHonest RegistrationComplete
PROPERTY RegistersAtomically
CHECK_DEADLOCK FALSE
