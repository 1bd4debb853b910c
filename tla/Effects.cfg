CONSTANTS
  mage = mage  newA = newA  newB = newB
  Units = {mage, newA, newB}
  Mages = {mage}
  None = None
  MaxTime = 3
  MaxDeeds = 4
  Clashes = FALSE
SPECIFICATION Spec
SYMMETRY Symmetry
INVARIANTS
  ListsAreChained
  FamiliarsAreBound
  ToadsWillTurnBack
