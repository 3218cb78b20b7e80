CONSTANTS
  Streams = {"go", "tape"}
  Supported = {"go"}
  MaxSeq = 3
  MaxGap = 1
  MaxRounds = 1
  MaxFaults = 0
  Sent <- SentFirst
  Timer = FALSE
  StuckMoves = {}
  Preplaced <- OutOfReach
SPECIFICATION FairSpec
 
PROPERTIES EveryStreamDrains
