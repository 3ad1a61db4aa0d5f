SPECIFICATION PlanSpec
CONSTANTS
  None = None
  song = song
  strap = strap
  clip = clip
  Rows = {song, strap, clip}
  Shows = {"sunday", "youth"}
  Items = {"item"}
  MaxGeneration = 2
  MaxStarts = 2
  Channels = {"program", "lobby"}
  Followed = {"program"}
  Timed = {song, clip}
  LooksUp = {song}
  ShowOf <- MCShowOf
  Sessions = {song}
  Clips = {clip}
  AutoItemTimer = TRUE
  MaxTakes = 3
  MaxRestarts = 1
INVARIANTS
  LiveTypeOK
  OnePollLoop
  LiveSyncOwnsTimer
  NewestTakeDecides
