SPECIFICATION Spec
CONSTANTS
  Window = 2
  Formats <- MCFormats
  QueueLimit = 1
  Steps <- MCSteps
  Channels <- MCChannels
  MaxOffset = 3
  MaxGeneration = 1
  MaxPresses = 2
PROPERTIES OwnerResetsTimeline
