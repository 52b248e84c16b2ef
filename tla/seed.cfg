\* Two runs of the seeder and a request for countries.
SPECIFICATION FairSpec
CONSTANTS
  Seeder = {s1, s2}
  Countries <- TwoCountries
  MaxFaults = 2
  Reader = {r1}
  Others = {"MEX"}
  NoCode = "XXX"
  None = None
INVARIANTS TypeOK SuccessMeansSeeded SomeRunSucceeds RerunMends RolesComeFirst ListIsOfItsTime SeededListIsComplete
PROPERTY SeedingCompletes
CHECK_DEADLOCK FALSE
