SPECIFICATION ChatSpec
CONSTANTS
  Protocol = {p1, p2, p3}
  Character = {anna, bert, carl}
  Premium = {anna, bert}
  Always = {anna}
  MaxPlayers = 1
  Normal = {help}
  Private = {h1}
  None = None
CHECK_DEADLOCK FALSE
INVARIANTS SessionTypeOK PlayersSound WaitingListKept OutputServed HearersInGame PrivateStaysPrivate
PROPERTIES NewClientHearsNothing
SYMMETRY Symmetry
