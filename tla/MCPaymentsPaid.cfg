SPECIFICATION Spec
CONSTANTS
  Orders = {o1}
  Workers = {w1, w2}
  NoRow = NoRow
CHECK_DEADLOCK FALSE
PROPERTIES
  AlreadyPaidIsNoOp
