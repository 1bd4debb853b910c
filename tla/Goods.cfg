CONSTANTS
  fA = fA  fB = fB  silver = silver  herb = herb
  N = 3
  Factions = {fA, fB}
  Types = {silver, herb}
  None = None
  Herbs = {herb}
  Limited = {silver}
  Returned = {silver}
  Divisor = 2
  TransferMen = FALSE
  Welcome <- Both
  Friends <- Both
  Takers = {1, 3}
  Stubborn = {1}
  Starts <- Turns
  MaxGoods = 2
SPECIFICATION Spec
INVARIANTS
  ReservedIsCovered
PROPERTIES
  ReservedIsSafe
  OrdersEnd
  ImplementsLedger
