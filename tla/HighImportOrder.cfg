\* One stream: arrivals in any order, again and again, crashes and failures.
CONSTANTS
  Streams = {"go"}
  Supported = {"go"}
  MaxSeq = 2
  MaxGap = 1
  MaxRounds = 1
  MaxFaults = 2
  Sent <- SentAll
  Timer = TRUE
  StuckMoves = {}
  Preplaced = {}
SPECIFICATION Spec
INVARIANTS TypeOK CountersOrdered NoWantedBundleShelved
PROPERTIES  InOrder
