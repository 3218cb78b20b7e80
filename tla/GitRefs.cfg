\* Collects of every branch and tag of one repository.
CONSTANTS
  Areas = {"git"}
  Paths = {"uploads/f", "pkg"}
  MutablePaths = {"uploads/f"}
  Hashes = {"h1", "h2"}
  Upstream <- MCUpstream
  Keys = {"tag"}
  Values = {"v1", "v2"}
  Transfers = {t1, t2}
  BlockCount = 3
  DataShards = 2
  ParityShards = 1
  MaxTransfers = 2
  MaxOpenBlocks = 1
  Room = 2
  Streams = {"go"}
  MaxSeq = 2
  MaxCheckpoints = 1
  CarrierRuns = FALSE
  MaxBundle = 2
  Quota = 3
  Puts = TRUE
  MaxCrashes = 1
  Cap = 2
  MaxLines = 5
  None = None
  JobIds = {j1, j2}
  JobStreams = {"go"}
  Watches = {w1}
  StreamOf <- MCStreamOf
  QueueCap = 1
  Manual = Manual
  MaxExport = 2
  MaxClock = 2
  Window = 1
  MaxWire = 1
  RefNames = {"main", "v1"}
  Branches = {"main"}
  Commits = {"c1", "c2"}
  Reaches <- MCReaches
  Requests = {{}}
  MaxMoves = 1
  MaxCollects = 2
  MaxFaults = 1
  GitMaxCrashes = 1
  NoRef = NoRef
  MaxReplays = 1
SPECIFICATION SafetySpec
INVARIANTS MirrorRefreshed
CHECK_DEADLOCK FALSE
