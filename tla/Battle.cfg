CONSTANTS
  raider = raider  archer = archer  witch = witch  necro = necro  guard = guard  mage = mage  sorcerer = sorcerer  gorgon = gorgon
  priest = priest  monk = monk  rover = rover
  wolves = wolves  undead = undead  red = red  blue = blue  green = green  bows = bows  grey = grey
  Banner <- MCBanner
  FactionOf <- MCFactionOf
  Helps <- MCHelps
  Guarded = {}
  Traits <- MCTraits
  Spells <- MCSpells
  Spare <- MCSpare
  Starts <- MCStarts
  MaxTurns = 2
  MaxForce = 2
SPECIFICATION Spec
INVARIANTS
  RowsAreCounted
  PersonsAreSorted
  NobodyIsLost
  SpellsFindTargets
  LootIsConserved
