SPECIFICATION FairSpec
CONSTANTS
  Products = {p1}
  Writers = {w1}
  Lists = {l1}
  Details = {d1}
  MaxRev = 1
  MaxTree = 1
  NoEntry = NoEntry
  Spellings = {lower, upper}
  Canonical = lower
INVARIANTS
  TypeOK
  StaleForAReason
  ListReadsAreFresh
PROPERTIES
  StalenessEnds
