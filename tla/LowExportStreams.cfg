\* Three streams that share low-state.json and a push transport.
CONSTANTS
  go = go
  npm = npm
  tape = tape
  Streams <- ThreeStreams
  Old = c0
  Contents = {c0}
  Absent = absent
  MaxSeq = 1
  Push = TRUE
  LegacySpool = {tape}
  LedgerNext <- EmptyLedger
  LedgerPruned <- EmptyLedger
SYMMETRY NewStreams
SPECIFICATION TransferSpec
INVARIANTS DurableClaimHasBundle StagedIsReported
