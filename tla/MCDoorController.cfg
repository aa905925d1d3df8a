\* When the loop opens the door and when it closes it: a look every tick or less, tolerances of
\* one or two looks, a log of four.
SPECIFICATION FairSpec
CONSTANTS
  Items = {"CAN", "PET"}
  NoItem = "NONE"
  NoFrame = NoFrame
  Frames <- SomeFrames
  StableTicks = 2
  StableFrames = 2
  MissTolerance = 1
  MinHold = 2
  MaxOpen = 5
  LostTolerance = 2
  LogLength = 4
INVARIANTS TypeOK FollowsWire
PROPERTIES AutoOpensOnStable ClosesWhenGone MaxOpenHolds
