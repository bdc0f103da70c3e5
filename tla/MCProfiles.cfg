SPECIFICATION Spec
CONSTANTS
  Keys = {a1, a2}
  Fields <- MCFields
  FieldOf <- MCFieldOf
  Calls = {c1, c2}
  NoKey = NoKey
  None = None
SYMMETRY Symmetric
INVARIANTS
  TypeOK
  KeysAreBacked
  OrphansHaveAReason
CHECK_DEADLOCK FALSE
