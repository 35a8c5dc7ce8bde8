SPECIFICATION Spec
CONSTANTS
  anna = anna
  bert = bert
  bag = bag
  pouch = pouch
  carl = carl
  sword = sword
  Player = {anna, bert, carl}
  Item = {bag, pouch, sword}
  Bag = {bag, pouch}
  Gear = {}
  Place = {0, 3}
  NoPlayer = NoPlayer
  NoItem = NoItem
  Gone = Gone
  Lost = Lost
  BagSize = 2
  Capacity = 3
  MaxTraded = 2
  RefBound = 2
  Layouts <- BagLayouts
INVARIANTS
  PartnersAgree
  OffersRegistered
  ReferencesCounted
  OffersApart
  TradersInReach
PROPERTIES
  OfferFrozen
  RoomMeansSwap
SYMMETRY Others
CHECK_DEADLOCK FALSE
