SPECIFICATION Spec
CONSTANTS
  Ammo = {arrow, bolt}
  Gold = gold
  Platinum = platinum
  StackMax = 3
  Capacity = 2
  TileBound = 1
  OwedBound = 6
CONSTRAINT Bounded
INVARIANTS ItemsTypeOK NothingDoubled
PROPERTIES LostOnlyWhenFull OverfullOnlyByExchange
SYMMETRY Symmetry
