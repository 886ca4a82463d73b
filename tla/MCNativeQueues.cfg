SPECIFICATION Spec
CONSTANTS
  Streams <- MCStreams
  VideoLimit = 3
  AudioLimit = 2
  DemuxSpan = 2
  Refill = 2
  SeekRefill = 1
  ExactWithin = 1
  MaxPts = 3
  MaxPresses = 2
INVARIANTS TimelinesApart
PROPERTIES SubmissionReturns PausedSeekShows BoundaryEnds DrainReturns
CHECK_DEADLOCK FALSE
