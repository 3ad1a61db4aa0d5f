SPECIFICATION PlanSpec
CONSTANTS
  None = None
  show = show
  deck = deck
  laptop = laptop
  desk = desk
  Devices = {laptop}
  Records = {deck}
  Tables <- ShowsAndDecks
  TableOf <- MCTableOf
  PullGuarded = {"shows"}
  Rechecked = {"decks"}
  HardDeleted = {"shows"}
  MaxAt = 2
  MaxFaults = 0
PROPERTIES
  SavesOutlivePulls
