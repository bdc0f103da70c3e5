SPECIFICATION FairSpec
CONSTANTS
  Ids <- MCIds
  Keys <- MCKeys
  Limits <- MCLimits
  Unborn = Unborn
  Deleted = Deleted
INVARIANTS
  TypeOK
  NoRepeats
  SkipsHaveAReason
PROPERTIES
  WalksEnd
