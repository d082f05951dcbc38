SPECIFICATION FairSpec
CONSTANTS
  Events <- SmallEvents
  Values = {"", "good", "bad"}
  Empty = ""
  Names = {"action", "level", "lang"}
  Blacklisted <- SmallBlacklist
  MaxLen = 3
INVARIANTS
  SubmittedTypesAllowed
