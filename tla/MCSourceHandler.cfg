SPECIFICATION Spec
CONSTANTS
  Requests = {r1, r2, r3}
  Users = {"u", "v", ""}
  NoUser = ""
  Absent = "absent"
  Addrs = {"raw", "escaped"}
  Escape <- ToEscaped
  Keys <- SmallKeys
  Queries <- SmallQueries
  Refused = {"PermissionDenied"}
  Lost = {"Unavailable"}
SYMMETRY RequestSymmetry
INVARIANTS
  TypeOK
  OwnerShownToHimself
  StatusTruthful
PROPERTIES
  RemovedByOwner
  ImplementsOwnership
