SPECIFICATION Spec
CONSTANTS
  Player = {anna, bert, carl}
  PartyId = {q1, q2}
  Range = {near, far}
  None = None
INVARIANTS PartiesSound SharingTogether
SYMMETRY Symmetry
