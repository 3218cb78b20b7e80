------------------------------ MODULE Recovery ------------------------------
(***************************************************************************)
(* Offline recovery of the low side (recovery_*.go): signed checkpoints    *)
(* that a receiver can be restored from, and retention, which deletes      *)
(* archived bundles no checkpoint and no receiver needs any more.  A prune *)
(* is planned, reviewed, and then applied: journal, sequence ledger,       *)
(* deletions, journal complete; it can be killed between any two of these  *)
(* and is resumed by applying the same plan again.                         *)
(*                                                                         *)
(* The low side's own steps are those of LowExport, here one action each.  *)
(* Archived bytes do not decay, so verifying a bundle is finding it.       *)
(***************************************************************************)
EXTENDS Integers, FiniteSets

CONSTANTS
  Streams,
  MaxSeq,          \* bound: sequences 1 .. MaxSeq are exported
  MaxCheckpoints,  \* bound: checkpoint directories kept at a time
  CarrierRuns      \* TRUE: the carrier drains the spool while a prune is unfinished

VARIABLES
  lowUp,        \* the low side runs and holds .artigate.lock
  next,         \* low-state.json
  archive,      \* complete bundles in root/bundles
  spool,        \* complete bundles in the export directory
  packing,      \* streams with rows in pending_metadata_files
  ledger,       \* recovery-ledger.json, or NoLedger
  journals,     \* recovery-retention/plan-*.json
  checkpoints,  \* positions of the checkpoint directories the operator keeps
  received,     \* what the receiver has imported
  plan,         \* the plan file under review, or NoPlan
  apply,        \* the retention apply command at work
  topSeq        \* history: highest sequence ever exported

root == <<next, archive, packing, ledger, journals>>
outside == <<spool, checkpoints, received>>
recoveryVars == <<lowUp, root, outside, plan, apply, topSeq>>

Seqs == 1 .. MaxSeq
Cursors == [Streams -> 0 .. MaxSeq]
MaxOf(S) == CHOOSE m \in S : \A n \in S : n <= m
MinOf(S) == CHOOSE m \in S : \A n \in S : m <= n

(* The bound is a number.                                                   *)
RecoveryAssumed == MaxSeq \in Nat
ASSUME RecoveryAssumption == RecoveryAssumed

NoLedger == [next |-> [s \in Streams |-> 1], pruned |-> [s \in Streams |-> 0], missing |-> TRUE]
NoPlan == [cps |-> {}]
Idle == [pc |-> "idle", todo |-> {}]

RecoveryInit ==
  /\ lowUp = FALSE
  /\ next = [s \in Streams |-> 1]
  /\ archive = [s \in Streams |-> {}]
  /\ spool = [s \in Streams |-> {}]
  /\ packing = {}
  /\ ledger = NoLedger
  /\ journals = {}
  /\ checkpoints = {}
  /\ received = [s \in Streams |-> 0]
  /\ plan = NoPlan
  /\ apply = Idle
  /\ topSeq = [s \in Streams |-> 0]

----------------------------------------------------------------------------
(* checkRecoveryRetentionIdle: no journal is unfinished.                    *)
RetentionIdle == \A j \in journals : j.complete

(* loadRecoveryLedger: a missing ledger is accepted only while there is no   *)
(* journal, and a present one must not be behind any journalled plan.       *)
MissingIsNew == \A s \in Streams : ledger.pruned[s] < ledger.next[s]   \* mutant: journals are no evidence
LedgerLoads ==
  /\ ledger.missing => journals = {}
  /\ \A s \in Streams : ledger.pruned[s] < ledger.next[s]
  /\ \A j \in journals, s \in Streams :
       ledger.next[s] > j.plan.tips[s] /\ ledger.pruned[s] >= j.plan.cutoffs[s]

LockFree == ~lowUp /\ apply.pc = "idle"

----------------------------------------------------------------------------
(* The low side.                                                            *)
StartLow ==
  /\ LockFree /\ RetentionIdle /\ LedgerLoads
  /\ lowUp' = TRUE
  /\ UNCHANGED <<root, outside, plan, apply, topSeq>>

StopLow ==
  /\ lowUp
  /\ lowUp' = FALSE
  /\ UNCHANGED <<root, outside, plan, apply, topSeq>>

(* allocateSequence: above the counter, the ledger and every bundle left.   *)
NextFree(s) == MaxOf({next[s], ledger.next[s]} \cup {n + 1 : n \in archive[s] \cup spool[s]})

(* One export: archived, published in the spool, counted.  A split content   *)
(* part leaves metadata pending, the final part clears it.                  *)
ExportBundle(s, part) ==
  /\ lowUp /\ NextFree(s) <= MaxSeq
  /\ archive' = [archive EXCEPT ![s] = @ \cup {NextFree(s)}]
  /\ spool' = [spool EXCEPT ![s] = @ \cup {NextFree(s)}]
  /\ next' = [next EXCEPT ![s] = NextFree(s) + 1]
  /\ topSeq' = [topSeq EXCEPT ![s] = NextFree(s)]
  /\ packing' = IF part THEN packing \cup {s} ELSE packing \ {s}
  /\ UNCHANGED <<lowUp, ledger, journals, checkpoints, received, plan, apply>>

ReExport(s, n) ==
  /\ lowUp /\ n \in archive[s] \ spool[s]
  /\ spool' = [spool EXCEPT ![s] = @ \cup {n}]
  /\ UNCHANGED <<lowUp, root, checkpoints, received, plan, apply, topSeq>>

(* An operator puts an older low-state.json back, or loses the ledger.       *)
RollBackState(s, n) ==
  /\ LockFree /\ RetentionIdle /\ n < next[s]
  /\ next' = [next EXCEPT ![s] = n]
  /\ UNCHANGED <<lowUp, archive, packing, ledger, journals, outside, plan, apply, topSeq>>

LoseLedger ==
  /\ LockFree /\ RetentionIdle /\ ~ledger.missing
  /\ ledger' = NoLedger
  /\ UNCHANGED <<lowUp, next, archive, packing, journals, outside, plan, apply, topSeq>>

----------------------------------------------------------------------------
(* The carrier takes a bundle out of the spool, and it arrives or is lost;   *)
(* the receiver imports only the sequence it expects.                       *)
Drain(s, n, arrives) ==
  /\ n \in spool[s] /\ (CarrierRuns \/ RetentionIdle)
  /\ spool' = [spool EXCEPT ![s] = @ \ {n}]
  /\ received' = IF arrives /\ n = received[s] + 1 THEN [received EXCEPT ![s] = n] ELSE received
  /\ UNCHANGED <<lowUp, root, checkpoints, plan, apply, topSeq>>

(* restoreRecoveryArtifact: a receiver that was lost starts again from a     *)
(* checkpoint, published by one rename.                                     *)
RestoreReceiver(cp) ==
  /\ cp \in checkpoints
  /\ received' = cp
  /\ UNCHANGED <<lowUp, root, spool, checkpoints, plan, apply, topSeq>>

DropCheckpoint(cp) ==
  /\ cp \in checkpoints /\ RetentionIdle
  /\ checkpoints' = checkpoints \ {cp}
  /\ UNCHANGED <<lowUp, root, spool, received, plan, apply, topSeq>>

----------------------------------------------------------------------------
(* The highest sequence state file, ledger or archive knows of.             *)
Tip(s) == MaxOf({next[s] - 1, ledger.next[s] - 1, 0} \cup archive[s])
Tips == [s \in Streams |-> Tip(s)]

(* replayCheckpointArchives: every bundle above the position up to the tip.  *)
Replays(cursor) ==
  \A s \in Streams : cursor[s] <= Tip(s) /\ (cursor[s] + 1) .. Tip(s) \subseteq archive[s]

(* createRecoveryCheckpoint: a throwaway receiver imports the archive from a  *)
(* base checkpoint, or from nothing, up to the tip.                         *)
Checkpoint(base) ==
  /\ LockFree /\ RetentionIdle /\ LedgerLoads
  /\ base \in checkpoints \cup {[s \in Streams |-> 0]} /\ Replays(base)
  /\ Cardinality(checkpoints) < MaxCheckpoints
  /\ checkpoints' = checkpoints \cup {Tips}
  /\ UNCHANGED <<lowUp, root, spool, received, plan, apply, topSeq>>

(* retentionPendingMetadata reads the store's pending_metadata_files.        *)
MetadataPending(s) == s \in packing

(* setRetentionCutoffs: no stream beyond its oldest checkpoint or receiver;  *)
(* nothing where the receiver is unknown or metadata is pending.            *)
AnyReceiver(s, floors, boot) == MinOf({Tip(s)} \cup {cp[s] : cp \in checkpoints})   \* mutant
Confirmed(s, floors, boot) ==
  IF MetadataPending(s) \/ (s \notin DOMAIN floors /\ ~boot) THEN 0
  ELSE MinOf({Tip(s)} \cup {cp[s] : cp \in checkpoints}
               \cup (IF s \in DOMAIN floors THEN {floors[s]} ELSE {}))

(* pinRetentionSpool: and nothing from the oldest staged bundle on.         *)
Cutoff(s, floors, boot) ==
  MinOf({Confirmed(s, floors, boot)} \cup {n - 1 : n \in {m \in spool[s] : m <= Confirmed(s, floors, boot)}})

(* retentionDirectoryFiles and retentionFingerprint: what a plan rests on.   *)
Inputs == [archive |-> archive, spool |-> spool, next |-> next]

(* planRecoveryRetention for confirmed receiver positions (of some streams)  *)
(* with or without --allow-bootstrap.                                       *)
PlanOf(floors, boot) ==
  LET cut == [s \in Streams |-> Cutoff(s, floors, boot)]
  IN  [floors |-> floors, boot |-> boot, tips |-> Tips, cutoffs |-> cut,
       cps |-> checkpoints, ledger |-> ledger,
       candidates |-> {c \in Streams \X Seqs : c[2] \in archive[c[1]] /\ c[2] <= cut[c[1]]},
       inputs |-> Inputs]

(* addRetentionCheckpoints                                                  *)
CheckpointsVerify == checkpoints # {} /\ \A cp \in checkpoints : Replays(cp)

PlanAllowed(p) ==
  /\ RetentionIdle /\ LedgerLoads /\ CheckpointsVerify
  /\ \A s \in DOMAIN p.floors : p.floors[s] <= Tip(s)
  /\ Replays(p.cutoffs)                                  \* checkRetentionContinuity

(* The operator states what the receiver is known to have imported.         *)
Floors(known) == [s \in known |-> received[s]]

MakePlan(known, boot) ==
  /\ LockFree
  /\ LET p == PlanOf(Floors(known), boot)
     IN  PlanAllowed(p) /\ plan' = p
  /\ UNCHANGED <<lowUp, root, outside, apply, topSeq>>

----------------------------------------------------------------------------
(* advancedRetentionLedger                                                  *)
Advanced(p) ==
  [next |-> [s \in Streams |-> MaxOf({p.ledger.next[s], p.tips[s] + 1})],
   pruned |-> [s \in Streams |-> MaxOf({p.ledger.pruned[s], p.cutoffs[s]})],
   missing |-> FALSE]

(* validateRetentionResume: all inputs of the plan are as they were, except  *)
(* candidates already deleted and the ledger already advanced.              *)
ResumeAllowed(p) ==
  /\ \A s \in Streams :
       /\ archive[s] \subseteq p.inputs.archive[s]
       /\ \A n \in p.inputs.archive[s] \ archive[s] : <<s, n>> \in p.candidates
  /\ spool = p.inputs.spool /\ next = p.inputs.next
  /\ p.cps \subseteq checkpoints
  /\ ledger = p.ledger \/ (LedgerLoads /\ ledger = Advanced(p))

(* prepareRetentionJournal: a plan with a journal is resumed, a new one must *)
(* be the plan the same inputs give now.                                    *)
BeginApply ==
  /\ LockFree /\ plan # NoPlan
  /\ \/ /\ [plan |-> plan, complete |-> FALSE] \in journals
        /\ ResumeAllowed(plan)
        /\ UNCHANGED journals
     \/ /\ \A j \in journals : j.plan # plan
        /\ PlanAllowed(plan) /\ plan = PlanOf(plan.floors, plan.boot)
        /\ plan.candidates # {}
        /\ journals' = journals \cup {[plan |-> plan, complete |-> FALSE]}
  /\ apply' = [pc |-> "ledger", todo |-> plan.candidates]
  /\ UNCHANGED <<lowUp, next, archive, packing, ledger, outside, plan, topSeq>>

PersistLedger ==
  /\ apply.pc = "ledger"
  /\ ledger' = Advanced(plan)
  /\ apply' = [apply EXCEPT !.pc = "delete"]
  /\ UNCHANGED <<lowUp, next, archive, packing, journals, outside, plan, topSeq>>

(* deleteRetentionCandidates, one bundle; missing ones are skipped.         *)
DeleteCandidate(s, n) ==
  /\ apply.pc = "delete" /\ <<s, n>> \in apply.todo
  /\ archive' = [archive EXCEPT ![s] = @ \ {n}]
  /\ apply' = [apply EXCEPT !.todo = @ \ {<<s, n>>}]
  /\ UNCHANGED <<lowUp, next, packing, ledger, journals, outside, plan, topSeq>>

FinishApply ==
  /\ apply.pc = "delete" /\ apply.todo = {}
  /\ journals' = {j \in journals : j.plan # plan} \cup {[plan |-> plan, complete |-> TRUE]}
  /\ apply' = Idle
  /\ UNCHANGED <<lowUp, next, archive, packing, ledger, outside, plan, topSeq>>

(* The apply command dies, or fails at a step.                              *)
CrashApply ==
  /\ apply.pc # "idle"
  /\ apply' = Idle
  /\ UNCHANGED <<lowUp, root, outside, plan, topSeq>>

RecoveryNext ==
  \/ StartLow \/ StopLow \/ LoseLedger \/ BeginApply \/ PersistLedger \/ FinishApply \/ CrashApply
  \/ \E s \in Streams, b \in BOOLEAN : ExportBundle(s, b)
  \/ \E s \in Streams, n \in Seqs :
       \/ ReExport(s, n) \/ RollBackState(s, n) \/ DeleteCandidate(s, n)
       \/ \E b \in BOOLEAN : Drain(s, n, b)
  \/ \E cp \in checkpoints : RestoreReceiver(cp) \/ DropCheckpoint(cp)
  \/ \E cp \in checkpoints \cup {[s \in Streams |-> 0]} : Checkpoint(cp)
  \/ \E known \in SUBSET Streams, boot \in BOOLEAN : MakePlan(known, boot)

RecoverySpec == RecoveryInit /\ [][RecoveryNext]_recoveryVars

----------------------------------------------------------------------------
RecoveryTypeOK ==
  /\ lowUp \in BOOLEAN
  /\ next \in [Streams -> 1 .. MaxSeq + 1]
  /\ archive \in [Streams -> SUBSET Seqs] /\ spool \in [Streams -> SUBSET Seqs]
  /\ packing \subseteq Streams
  /\ ledger.next \in [Streams -> 1 .. MaxSeq + 1] /\ ledger.pruned \in Cursors
  /\ \A j \in journals : j.plan.candidates \subseteq Streams \X Seqs /\ j.complete \in BOOLEAN
  /\ checkpoints \subseteq Cursors /\ received \in Cursors /\ topSeq \in Cursors
  /\ apply.pc \in {"idle", "ledger", "delete"} /\ apply.todo \subseteq Streams \X Seqs

(* A running low side never gives a new bundle a number it has used, though   *)
(* the bundles that carried it are pruned and low-state.json or the ledger    *)
(* was rolled back (checkRetentionLedgerEvidence, persistRetentionLedger      *)
(* before deleteRetentionCandidates).                                       *)
PrunedNeverReused == lowUp => \A s \in Streams : NextFree(s) > topSeq[s]

(* As long as no prune accepted --allow-bootstrap, the archive holds every    *)
(* bundle the receiver still lacks, also when it is rebuilt from a            *)
(* checkpoint between plan and apply.                                        *)
ReceiverNotStranded ==
  (\A j \in journals : ~j.plan.boot) =>
    \A s \in Streams : (received[s] + 1) .. topSeq[s] \subseteq archive[s]

(* page/docs/recovery.md: "If application stops midway, rerun the same         *)
(* `retention apply` command": an unfinished prune, which keeps the low side  *)
(* from starting, can be resumed wherever it died.                          *)
InterruptedPruneResumes ==
  apply.pc = "idle" => \A j \in journals : ~j.complete => ResumeAllowed(j.plan)
=============================================================================
