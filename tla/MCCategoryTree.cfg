SPECIFICATION FairSpec
CONSTANTS
  Categories = {c1, c2, c3}
  Calls = {r1}
  Readers = {s1}
  NoParent = NoParent
  Unborn = Unborn
  Deleted = Deleted
  Keep = Keep
  Spellings = {lower, upper}
  Canonical = lower
INVARIANTS
  TypeOK
  CyclesAreForAReason
  SubtreeIsExact
PROPERTIES
  SubtreeReadsEnd
  WritesEnd
  ImplementsTaxonomy
CHECK_DEADLOCK FALSE
