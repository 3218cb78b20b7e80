\* Stream go has a gap that nothing fills; stream npm must not wait for it.
CONSTANTS
  Streams = {"go", "npm"}
  Supported = {"go", "npm"}
  MaxSeq = 2
  MaxGap = 1
  MaxRounds = 2
  MaxFaults = 1
  Sent <- SentOthers
  Timer = TRUE
  StuckMoves = {}
  Preplaced <- Waiting
SPECIFICATION FairSpec
PROPERTIES EveryStreamDrains
