CONSTANTS
  fA = fA  fB = fB  fC = fC
  N = 4
  Factions = {fA, fB, fC}
  Faction <- Clans
  RecruitMulti <- Races
  Ethereal = {3}
  Wage <- Wages
  PeasantWage = 1
  Jobs = 3
  Saving <- Savings
  Reach <- Depths
  MaxVein = 2
  Starts <- Turns
SPECIFICATION Spec
INVARIANTS
  RecruitsAreFair
  NoFreeLunches
PROPERTIES
  AllIsHandedOut
  ProductionEnds
