CONSTANTS
  mage = mage  imp = imp  witch = witch
  Nil = Nil
  Mages <- MCMages
  Master <- MCMaster
  Knows <- MCKnows
  Skill <- MCSkill
  Spells <- MCSpells
  Orders <- MCOrders
  Aura <- MCAura
  Stock <- MCStock
  Zone <- MCZone
  MaxOrders = 3
SPECIFICATION CastSpec
INVARIANTS
  PaidInFull
PROPERTY AuraIsNotMade
