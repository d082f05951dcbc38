SPECIFICATION FairSpec
CONSTANTS
  MaxPrefix = 5
  PageSize = 2
  MaxRestarts = 1
INVARIANTS
  TypeOK
  LoadedAll
  LoadedOnlySeen
PROPERTIES
  Served
