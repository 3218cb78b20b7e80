\* Stream go cannot be moved into quarantine; stream npm must not wait for it.
CONSTANTS
  Streams = {"go", "npm"}
  Supported = {"go", "npm"}
  MaxSeq = 2
  MaxGap = 1
  MaxRounds = 1
  MaxFaults = 0
  Sent <- SentGap
  Timer = TRUE
  StuckMoves = {"go"}
  Preplaced = {}
SPECIFICATION FairSpec
PROPERTIES EveryStreamDrains
