------------------------------ MODULE Transfer ------------------------------
(***************************************************************************)
(* What the low side tells its monitor about bundles that a push transport *)
(* (HTTP, SFTP, UDP) did not take: the failure records in memory, the scan *)
(* of the spool that rebuilds them at start-up (diode.go, metrics.go) and  *)
(* the readiness check that reads both (readyz.go).  It refines LowExport: *)
(* every step is one of its steps, with what that step records.            *)
(***************************************************************************)
EXTENDS LowExport

VARIABLES
  failed,     \* lowMetrics.diodeFailed: bundles whose last transfer failed
  replaying,  \* streams whose job is a re-export
  excused     \* history: bundles left staged that no record is owed for

transferVars == <<vars, failed, replaying, excused>>

Bundles == Streams \X Seqs

Current(s) == <<s, job[s].seq>>

(* Bundles that wait for a push transport; a folder carrier's outbox is none. *)
Staged == {b \in Bundles : Push /\ BundleComplete(spool, b[1], b[2])}

(* A successful transfer clears every file, so at start-up a complete bundle *)
(* of the spool is one that was not transferred.  The scan itself may fail. *)
ForgetBacklog(scanned) == {}   \* mutant: the records die with the process
restoreDiodeTransferBacklog(scanned) == IF scanned THEN Staged ELSE {}

TransferInit ==
  /\ Init
  /\ failed = restoreDiodeTransferBacklog(TRUE)
  /\ replaying = {}
  /\ excused = {}

----------------------------------------------------------------------------
(* Steps that record nothing.                                               *)
Unrecorded(s) ==
  /\ \/ \E n \in Seqs, c \in Contents : StartExport(s, n, c)
     \/ WriteArchive(s)
     \/ PublishArchived(s)
     \/ CommitSequence(s)
     \/ RecoverArchive(s)
     \/ \E n \in Seqs, x \in Suffixes : CarrierTakes(s, n, x)
     \/ \E n \in Seqs : OperatorClearsResidue(s, n)
  /\ UNCHANGED <<failed, replaying, excused>>

Reexport(s, n) ==
  /\ StartReplay(s, n)
  /\ replaying' = replaying \cup {s}
  /\ UNCHANGED <<failed, excused>>

(* The export or re-export returns its error before it gets to the upload:   *)
(* the caller sees it, the metrics do not.                                  *)
Abandon(s) ==
  /\ Fails(s) \/ CommitFails(s)
  /\ replaying' = replaying \ {s}
  /\ excused' = excused \cup ({Current(s)} \cap Staged)
  /\ UNCHANGED failed

(* The same for the directory sync that follows the last link of a re-export. *)
AbandonReplayed(s) ==
  /\ s \in replaying
  /\ Upload(s, Suffixes)
  /\ replaying' = replaying \ {s}
  /\ excused' = excused \cup ({Current(s)} \cap Staged)
  /\ UNCHANGED failed

(* recordDiodeTransfer, with an error and without one.                       *)
TransferFails(s) ==
  /\ Push
  /\ Upload(s, Suffixes)
  /\ failed' = failed \cup {Current(s)}
  /\ excused' = excused \ {Current(s)}
  /\ replaying' = replaying \ {s}

TransferSucceeds(s, kept) ==
  /\ Push
  /\ Upload(s, kept)
  /\ failed' = failed \ {Current(s)}
  /\ excused' = (excused \ {Current(s)}) \cup ({Current(s)} \cap Staged')
  /\ replaying' = replaying \ {s}

(* Without a push transport the export directory is the carrier's outbox.    *)
NoTransport(s) ==
  /\ ~Push
  /\ Upload(s, Suffixes)
  /\ replaying' = replaying \ {s}
  /\ UNCHANGED <<failed, excused>>

RestartLow(older, scanned) ==
  /\ Restart(older)
  /\ failed' = restoreDiodeTransferBacklog(scanned)
  /\ replaying' = {}
  /\ excused' = IF scanned THEN {} ELSE Staged

TransferNext ==
  \/ \E s \in Streams :
       \/ Unrecorded(s)
       \/ \E n \in Seqs : Reexport(s, n)
       \/ Abandon(s)
       \/ AbandonReplayed(s)
       \/ TransferFails(s)
       \/ \E kept \in SUBSET Suffixes : TransferSucceeds(s, kept)
       \/ NoTransport(s)
  \/ \E older \in [Streams -> 0 .. MaxSeq + 1], scanned \in BOOLEAN :
       RestartLow(older, scanned)

TransferSpec == TransferInit /\ [][TransferNext]_transferVars

----------------------------------------------------------------------------
(* The records have their types.                                            *)
TransferTypeOK ==
  /\ failed \subseteq Bundles
  /\ replaying \subseteq Streams
  /\ excused \subseteq Bundles

Held(b) == job[b[1]].pc # "idle" /\ job[b[1]].seq = b[2]

(* checkDiodeTransfers: the failures whose files still wait in the spool.     *)
checkDiodeTransfers == failed \cap Staged

(* metrics.go: "a restart cannot hide a stuck transfer".  A complete bundle   *)
(* in the spool of a push transport that no export holds makes the low side  *)
(* not ready, through retries, re-exports, crashes and restarts, unless it   *)
(* was handed over, its export ended in an error, or the start-up scan did.  *)
StagedIsReported ==
  \A b \in Staged : Held(b) \/ b \in checkDiodeTransfers \/ b \in excused
============================================================================
