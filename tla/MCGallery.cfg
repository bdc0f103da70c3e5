SPECIFICATION Spec
CONSTANTS
  p1 = p1
  p2 = p2
  Products = {p1, p2}
  k1 = k1
  k2 = k2
  k3 = k3
  Keys = {k1, k2, k3}
  Images = {i1, i2, i3}
  Calls = {c1, c2}
  Prefix <- MCPrefix
  NoRow = NoRow
  Gone = Gone
  None = None
SYMMETRY Symmetric
INVARIANTS
  TypeOK
  GalleryInOrder
  ObjectsOutliveRows
  OrphansHaveAReason
CHECK_DEADLOCK FALSE
