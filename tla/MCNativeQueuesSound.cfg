SPECIFICATION Spec
CONSTANTS
  Streams <- MCOutlasted
  VideoLimit = 3
  AudioLimit = 2
  DemuxSpan = 2
  Refill = 2
  SeekRefill = 1
  ExactWithin = 1
  MaxPts = 3
  MaxPresses = 0
PROPERTIES NoImpossibleFill
CHECK_DEADLOCK FALSE
