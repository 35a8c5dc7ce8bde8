SPECIFICATION FairSpec
CONSTANTS
  i1 = i1 i2 = i2 i3 = i3 lit = lit stub = stub out = out corpse = corpse
  Item = {i1, i2}
  Type = {lit, stub, out, corpse}
  DecayTime <- McDecayTime
  DecayTo <- McDecayTo
  StopTime <- McStopTime
  Vanish = Vanish Never = Never World = World Nowhere = Nowhere
  NoTime = NoTime End = End Dangling = Dangling
  MinTicks = 1
  MaxTime = 2
  Durations = {1}
  Newborn = {lit}
  Worlds <- TorchesOrCorpse
INVARIANTS TypeOK CheckPlanned StampMatchesMap ReferencesHeld NoDecayOutside
PROPERTIES NoTimeWon DecayEnds
