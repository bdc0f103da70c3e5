SPECIFICATION Spec
CONSTANTS
  Ids <- MCIds
  Keys <- MCKeys
  Limits <- MCLimits
  Unborn = Unborn
  Deleted = Deleted
INVARIANTS
  NoSkips
