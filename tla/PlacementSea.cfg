CONSTANTS
  uA = uA  uB = uB  uC = uC  fA = fA  fB = fB
  rA = rA  rB = rB  bA = bA  bB = bB  sA = sA  sB = sB
  Units = {uA, uB}
  Buildings = {bA}
  Ships = {sA, sB}
  Regions = {rA, rB}
  None = None
  Faction <- OneAndTwo
  Paused = {fB}
  Welcome <- Mixed
  PayBuildings = {}
  Castles = {}
  Start <- HutAndBoats
  Features = {"wormholes", "astral", "icebergs"}
SPECIFICATION Spec
INVARIANTS
  PlacesAgree
  OwnersComeFirst
PROPERTY PassesEnd
