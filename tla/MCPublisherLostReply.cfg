SPECIFICATION Spec
CONSTANTS
  r1 = r1
  r2 = r2
  r3 = r3
  alice = alice
  bob = bob
  carol = carol
  nobody = nobody
  Requests = {r1, r2}
  Users = {alice, bob, carol, nobody}
  NoUser = nobody
  Dedicated = {alice, carol}
  Limit <- SmallLimit
  Submissions <- SmallSubmissions
  MaxBatch = 2
  MaxPeriod = 1
  UintSize = 16
  Codes = {"Unavailable"}
  Failing = {"allocate", "notify", "publish", "release"}
  Lossy = {"publish"}
  Crashes = FALSE
SYMMETRY RequestSymmetry
INVARIANTS
  ReleasesOnlyUnutilized
