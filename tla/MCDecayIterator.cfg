SPECIFICATION Spec
CONSTANTS
  i1 = i1 i2 = i2 i3 = i3 lit = lit stub = stub out = out corpse = corpse
  Item = {i1, i2, i3}
  Type = {lit, corpse}
  DecayTime <- McDecayTime
  DecayTo <- McDecayTo
  StopTime <- McStopTime
  Vanish = Vanish Never = Never World = World Nowhere = Nowhere
  NoTime = NoTime End = End Dangling = Dangling
  MinTicks = 2
  MaxTime = 3
  Durations = {}
  Newborn = {}
  Worlds <- CorpseAndTorches
INVARIANT IteratorValid
