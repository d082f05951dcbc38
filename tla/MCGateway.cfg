SPECIFICATION FairSpec
CONSTANTS
  Requests = {"i", "j", "k"}
  Workloads <- SmallWorkloads
  Users = {"u", "v", ""}
  NoUser = ""
  Groups = {"g", "h", ""}
  NoGroup = ""
  Dedicated = {"u"}
  Limit <- SmallLimit
  MaxBatch = 3
  Interval = 1
  Slack = 1
  MaxTime = 4
  MaxPeriod = 1
  MaxStarts = 2
INVARIANTS
  TypeOK
  OnlyAuthenticated
  InTheNameOfSender
  InternalWithinRate
  PermissionInTurn
  LoginTruthful
  CountedAgainstSender
PROPERTIES
  AnsweredInTime
