SPECIFICATION FairSpec
CONSTANTS
  c1 = c1
  c2 = c2
  p1 = p1
  p2 = p2
  usd = usd
  eur = eur
  Checkouts = {c1, c2}
  Products = {p1, p2}
  Terms = {usd, eur}
  Currency <- MCCurrency
  StockLevels = {2}
  Carts <- MCCarts
  NoRow = NoRow
  Unset = Unset
CHECK_DEADLOCK FALSE
INVARIANTS
  TypeOK
  StockLedger
  LockDiscipline
  CopiesAreCurrent
  OrderIsWhatWasPosted
  NobodyWaitsInVain
PROPERTIES
  ImplementsSales
  EveryCallEnds
