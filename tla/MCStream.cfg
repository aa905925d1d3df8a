\* Headers of two cells, payloads of one or two; a buffer that a packet and a large chunk overflow.
\* The frames are bounded: a run that has sent and shown them all stops.
SPECIFICATION FairSpec
CONSTANTS
  HeaderSize = 2
  Sizes = {1, 2}
  MaxSize = 2
  Chunk = 3
  Capacity = 5
  Backlog = 2
  MaxInFlight = 6
  MaxFrames = 4
  MaxFailures = 4
INVARIANTS TypeOK FramedUnlessCut
PROPERTIES UnpacksInOrder Recovers
CHECK_DEADLOCK FALSE
