SPECIFICATION Spec
CONSTANTS
  r1 = r1
  r2 = r2
  r3 = r3
  alice = alice
  bob = bob
  carol = carol
  nobody = nobody
  Requests = {r1, r2, r3}
  Users = {alice, bob, carol, nobody}
  NoUser = nobody
  Dedicated = {alice, carol}
  Limit <- SmallLimit
  Submissions <- RefusedSubmissions
  MaxBatch = 2
  MaxPeriod = 1
  UintSize = 16
  Codes = {"Unavailable"}
  Failing = {"allocate", "notify", "publish", "release"}
  Lossy = {"allocate", "notify", "release"}
  Crashes = TRUE
SYMMETRY RequestSymmetry
INVARIANTS
  ReleasesOnlyUnutilized
  StreamWithinLimit
  AnswerTruthful
