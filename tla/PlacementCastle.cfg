CONSTANTS
  uA = uA  uB = uB  uC = uC  fA = fA  fB = fB
  rA = rA  rB = rB  bA = bA  bB = bB  sA = sA  sB = sB
  Units = {uA, uB, uC}
  Buildings = {bA, bB}
  Ships = {}
  Regions = {rA}
  None = None
  Faction <- OneAndTwo
  Paused = {fB}
  Welcome <- Mixed
  PayBuildings = {bB}
  Castles = {bA}
  Start <- CastleAndLighthouse
  Features = {"owner_leave", "late_deaths"}
SPECIFICATION Spec
SYMMETRY Kin
INVARIANTS
  OwnersAreInside
PROPERTIES
  OwnersSurviveReload
  OwnersAreNotDeposed
