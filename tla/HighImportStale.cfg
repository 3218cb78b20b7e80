\* A retransmission of a quarantined bundle lands during its predecessor's import.
CONSTANTS
  Streams = {"go"}
  Supported = {"go"}
  MaxSeq = 2
  MaxGap = 1
  MaxRounds = 1
  MaxFaults = 0
  Sent <- SentAll
  Timer = FALSE
  StuckMoves = {}
  Preplaced = {}
SPECIFICATION Spec
INVARIANTS QuarantineHoldsFutureOnly
