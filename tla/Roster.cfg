CONSTANTS
  Units = {u1, u2, u3}
  Factions = {f1, mon}
  Monsters = mon
  NoUnit = NoUnit
  NoFaction = NoFaction
  MaxNumber = 2
  MaxEnchanted = 1
  ClearedByScript = FALSE
SPECIFICATION Spec
SYMMETRY Symmetry
INVARIANTS
  ListsAreComplete
  CountersAreRight
  WrittenUnitsLive
PROPERTY ImplementsSequences
