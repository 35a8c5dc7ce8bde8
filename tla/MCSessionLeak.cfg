SPECIFICATION Spec
CONSTANTS
  Protocol = {p1, p2, p3}
  Character = {anna, bert, carl}
  Premium = {anna, bert}
  Always = {anna}
  MaxPlayers = 1
  None = None
CHECK_DEADLOCK FALSE
INVARIANTS ReleasedLetsGo
SYMMETRY Symmetry
