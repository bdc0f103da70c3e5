SPECIFICATION FairSpec
CONSTANTS
  Orders = {o1}
  Workers = {w1, w2}
  NoRow = NoRow
CHECK_DEADLOCK FALSE
INVARIANTS
  TypeOK
  PaidMeansSettled
  SettledTogether
  AcknowledgedMeansApplied
PROPERTIES
  SettlementArrives
  ImplementsBilling
