\* One stream whose first bundle was pruned, drained by a folder carrier.
CONSTANTS
  go = go
  npm = npm
  tape = tape
  Streams <- OneStream
  Old = c0
  Contents = {c0, c1}
  Absent = absent
  MaxSeq = 4
  Push = FALSE
  LegacySpool = {}
  LedgerNext <- NextThree
  LedgerPruned <- PrunedOne
SPECIFICATION TransferSpec
INVARIANTS TypeOK NoFork NoUnfillableGap PublishedIsArchived
