SPECIFICATION FairSpec
CONSTANTS
  r1 = r1
  r2 = r2
  r3 = r3
  alice = alice
  bob = bob
  carol = carol
  nobody = nobody
  Requests = {r1, r2, r3}
  Users = {alice, bob, carol, nobody}
  NoUser = nobody
  Dedicated = {alice, carol}
  Limit <- SmallLimit
  Submissions <- ContendedSubmissions
  MaxBatch = 2
  MaxPeriod = 0
  UintSize = 16
  Codes = {"Unavailable", "NotFound"}
  Failing = {"allocate", "notify", "publish"}
  Lossy = {"notify"}
  Crashes = FALSE
INVARIANTS
  ReturnedWhenAnswered
PROPERTIES
  PermitsReturned
  ImplementsQuota
