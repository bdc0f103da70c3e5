SPECIFICATION Spec
CONSTANTS
  Products = {p1}
  Writers = {w1}
  Lists = {}
  Details = {d1}
  MaxRev = 1
  MaxTree = 1
  NoEntry = NoEntry
  Spellings = {lower}
  Canonical = lower
PROPERTIES
  CategoryRemovalSparesDetails
