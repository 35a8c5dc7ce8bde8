SPECIFICATION Spec
CONSTANTS
  anna = anna
  bert = bert
  bag = bag
  pouch = pouch
  carl = carl
  sword = sword
  Player = {anna, bert}
  Item = {bag, pouch, sword}
  Bag = {bag, pouch}
  Gear = {}
  Place = {0, 3}
  NoPlayer = NoPlayer
  NoItem = NoItem
  Gone = Gone
  Lost = Lost
  BagSize = 2
  Capacity = 3
  MaxTraded = 2
  RefBound = 2
  Layouts <- BagLayouts
PROPERTIES
  ExchangeComplete
CHECK_DEADLOCK FALSE
