SPECIFICATION PlanSpec
CONSTANTS
  None = None
  show = show
  deck = deck
  laptop = laptop
  desk = desk
  Devices = {laptop, desk}
  Records = {show, deck}
  Tables <- ShowsAndDecks
  TableOf <- MCTableOf
  PullGuarded = {"shows"}
  Rechecked = {"decks"}
  HardDeleted = {"shows"}
  MaxAt = 3
  MaxFaults = 1
INVARIANTS
  TypeOK
  EditsDoNotWait
PROPERTIES
  OnlyRacedSavesLost
  Converges
  ServesItsFiles
