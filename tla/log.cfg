SPECIFICATION FairSpec
CONSTANTS
  Capacity = 5
  Streams = {"stdout", "stderr"}
  Lines = 6
  LineLength = 2
  PipeSize = 5
  Destinations = {"pipe", "terminal"}
CHECK_DEADLOCK FALSE
INVARIANTS WaitedInOrder OnePerLine
PROPERTY EventuallyWritten
