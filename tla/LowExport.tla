----------------------------- MODULE LowExport -----------------------------
(***************************************************************************)
(* The low side's numbered, signed bundles: how lowside.go allocates a     *)
(* stream's next sequence number, writes the three artifacts of a bundle   *)
(* into the persistent archive, publishes them to the export directory     *)
(* (the carrier's outbox, here the spool), persists the claim on the       *)
(* number, hands the bundle to a transport and replays archived bundles.   *)
(*                                                                         *)
(* One action is one file operation or one save of low-state.json, so a    *)
(* crash, an I/O error or a carrier can come between any two of them.      *)
(* What a bundle carries is one abstract content per attempt; which files  *)
(* a collect sends at all is the subject of module ExportIndex.            *)
(***************************************************************************)
EXTENDS Integers, Sequences

CONSTANTS
  Streams,        \* streams (go, npm, container, ...)
  Contents,       \* what one export attempt packs and signs
  Old,            \* the content of bundles that predate this process
  MaxSeq,         \* largest usable sequence; MaxSeq + 1 is math.MaxInt64
  Push,           \* TRUE: HTTP/SFTP/UDP transport; FALSE: a folder carrier
  LegacySpool,    \* streams whose bundle 1 is complete in the spool only
  LedgerNext,     \* recovery-ledger.json NextSequences, 0 where absent
  LedgerPruned,   \* recovery-ledger.json PrunedThrough, 0 where absent
  Absent          \* no such file

(* recovery-ledger.json is only written offline; validateRecoveryLedger     *)
(* keeps every prune floor below the next sequence.  A spool-only bundle    *)
(* comes from a release that wrote the spool first; a folder carrier would  *)
(* have taken it.                                                           *)
ASSUME ConstantsAssumption ==
  /\ MaxSeq \in Nat \ {0}
  /\ Push \in BOOLEAN
  /\ Old \in Contents
  /\ Absent \notin Contents
  /\ LegacySpool \subseteq Streams
  /\ LegacySpool # {} => Push
  /\ LedgerNext \in [Streams -> 0 .. MaxSeq + 1]
  /\ LedgerPruned \in [Streams -> 0 .. MaxSeq]
  /\ \A s \in Streams : LedgerPruned[s] = 0 \/ LedgerPruned[s] < LedgerNext[s]
  /\ \A s \in LegacySpool : LedgerNext[s] = 0

VARIABLES
  mem,       \* LowServer.state.Sequences: next number per stream, 0 if absent
  disk,      \* the same map in low-state.json
  archive,   \* <Root>/bundles: per stream, sequence and artifact its content
  spool,     \* ExportDir, as archive
  job,       \* per stream: the export or re-export that holds streamLock
  seen       \* history: contents that a carrier could observe under a number

vars == <<mem, disk, archive, spool, job, seen>>

Seqs == 1 .. MaxSeq

(* bundleSuffixes(): the order every writer, mover and transport uses.      *)
Suffixes == {"tar.gz", "manifest.json", "manifest.json.sig"}
SuffixOrder == <<"tar.gz", "manifest.json", "manifest.json.sig">>

Artifacts == [Suffixes -> Contents \cup {Absent}]
NoArtifacts == [x \in Suffixes |-> Absent]
Bundle(c) == [x \in Suffixes |-> c]

IdleJob == [pc |-> "idle", seq |-> 1, content |-> Old, next |-> 1]
Jobs == [pc : {"idle", "write", "publish", "commit", "recover", "replay", "upload"},
         seq : Seqs, content : Contents, next : 1 .. 3]

MaxOf(a, b) == IF a < b THEN b ELSE a

----------------------------------------------------------------------------
(* Looking at the two directories.                                          *)

BundleComplete(dir, s, n) == \A x \in Suffixes : dir[s][n][x] # Absent

BundleArtifactsExist(dir, s, n) == \E x \in Suffixes : dir[s][n][x] # Absent

BundleExistsForSequence(s, n) ==
  BundleComplete(spool, s, n) \/ BundleComplete(archive, s, n)

PartialBundleExists(s, n) ==
  BundleArtifactsExist(spool, s, n) \/ BundleArtifactsExist(archive, s, n)

(* The smallest number the durable counters allow.                          *)
FirstCandidate(s) == MaxOf(MaxOf(mem[s], LedgerNext[s]), 1)

(* peekSequence: the first candidate that no complete bundle occupies.      *)
IsNextSequence(s, n) ==
  /\ n >= FirstCandidate(s)
  /\ \A m \in FirstCandidate(s) .. n - 1 : BundleExistsForSequence(s, m)
  /\ n = MaxSeq + 1 \/ ~BundleExistsForSequence(s, n)

(* allocateSequence: refuses the exhausted sentinel and crash residue.      *)
BurnResidue(s, n) ==   \* mutant: a number with partial artifacts is skipped
  /\ n \in Seqs
  /\ n >= FirstCandidate(s)
  /\ \A m \in FirstCandidate(s) .. n - 1 : PartialBundleExists(s, m)
  /\ ~PartialBundleExists(s, n)
IgnoreBundles(s, n) ==   \* mutant: the counter alone decides
  n \in Seqs /\ n = FirstCandidate(s)
AllocateSequence(s, n) ==
  /\ n \in Seqs
  /\ IsNextSequence(s, n)
  /\ ~PartialBundleExists(s, n)

----------------------------------------------------------------------------
(* A number below a stream's ledger floor is pruned or still archived.      *)
Init ==
  /\ mem = LedgerNext
  /\ disk = LedgerNext
  /\ archive = [s \in Streams |-> [n \in Seqs |->
                  IF LedgerPruned[s] < n /\ n < LedgerNext[s]
                  THEN Bundle(Old) ELSE NoArtifacts]]
  /\ spool = [s \in Streams |-> [n \in Seqs |->
                  IF s \in LegacySpool /\ n = 1 THEN Bundle(Old) ELSE NoArtifacts]]
  /\ job = [s \in Streams |-> IdleJob]
  /\ seen = [s \in Streams |-> [n \in Seqs |->
                  IF n < LedgerNext[s] \/ (s \in LegacySpool /\ n = 1)
                  THEN {Old} ELSE {}]]

Release(s) == job' = [job EXCEPT ![s] = IdleJob]

Phase(s, pc, next) ==
  job' = [job EXCEPT ![s] =
            [pc |-> pc, seq |-> job[s].seq, content |-> job[s].content, next |-> next]]

Goto(s, pc) == Phase(s, pc, 1)

(* After artifact job[s].next: the next one, or on to pc after the last.    *)
Advance(s, pc) ==
  IF job[s].next < 3 THEN Phase(s, job[s].pc, job[s].next + 1) ELSE Goto(s, pc)

----------------------------------------------------------------------------
(* exportSequencedBundle: allocate under the stream lock.                   *)
ClaimAtAllocation(s, n, c) ==   \* mutant: the number is claimed before it is used
  /\ job[s].pc = "idle"
  /\ AllocateSequence(s, n)
  /\ job' = [job EXCEPT ![s] = [pc |-> "write", seq |-> n, content |-> c, next |-> 1]]
  /\ mem' = [mem EXCEPT ![s] = n + 1]
  /\ UNCHANGED <<disk, archive, spool, seen>>
StartExport(s, n, c) ==
  /\ job[s].pc = "idle"
  /\ AllocateSequence(s, n)
  /\ job' = [job EXCEPT ![s] = [pc |-> "write", seq |-> n, content |-> c, next |-> 1]]
  /\ UNCHANGED <<mem, disk, archive, spool, seen>>

(* writeBundleArtifacts: archive, manifest, signature into the archive, each *)
(* by an atomic rename; only the complete archive is published.             *)
WriteArchiveThrough(s) ==   \* mutant: the outbound copy is written first
  /\ job[s].pc = "write"
  /\ LET n == job[s].seq
         x == SuffixOrder[job[s].next] IN
     /\ archive' = [archive EXCEPT ![s][n][x] = job[s].content]
     /\ spool' = [spool EXCEPT ![s][n][x] = job[s].content]
     /\ seen' = [seen EXCEPT ![s][n] = @ \cup {job[s].content}]
  /\ Advance(s, "publish")
  /\ UNCHANGED <<mem, disk>>
WriteArchive(s) ==
  /\ job[s].pc = "write"
  /\ archive' = [archive EXCEPT ![s][job[s].seq][SuffixOrder[job[s].next]] = job[s].content]
  /\ Advance(s, "publish")
  /\ UNCHANGED <<mem, disk, spool, seen>>

(* publishArchivedBundle: link each archived artifact into the spool, the   *)
(* signature last; from here on a carrier can observe it.                   *)
PublishArchived(s) ==
  /\ job[s].pc \in {"publish", "replay"}
  /\ LET n == job[s].seq
         x == SuffixOrder[job[s].next] IN
     /\ spool' = [spool EXCEPT ![s][n][x] = archive[s][n][x]]
     /\ seen' = [seen EXCEPT ![s][n] = @ \cup {archive[s][n][x]}]
  /\ Advance(s, IF job[s].pc = "publish" THEN "commit" ELSE "upload")
  /\ UNCHANGED <<mem, disk, archive>>

(* commitSequence's effect on the in-memory map.                            *)
ClaimTwo(s) ==   \* mutant: off by one
  [mem EXCEPT ![s] = IF @ <= job[s].seq THEN job[s].seq + 2 ELSE @]
ClaimInMemory(s) == [mem EXCEPT ![s] = IF @ <= job[s].seq THEN job[s].seq + 1 ELSE @]

(* commitSequence with a successful save: saveStateLocked writes the whole   *)
(* map, so it also persists a claim of another stream whose own save failed. *)
CommitSequence(s) ==
  /\ job[s].pc = "commit"
  /\ mem' = ClaimInMemory(s)
  /\ disk' = mem'
  /\ Goto(s, "upload")
  /\ UNCHANGED <<archive, spool, seen>>

(* A failed save keeps memory ahead and aborts the collect before its       *)
(* content is recorded or uploaded; the rename may have happened already.   *)
CommitFails(s) ==
  /\ job[s].pc = "commit"
  /\ mem' = ClaimInMemory(s)
  /\ disk' \in {disk, mem'}
  /\ Release(s)
  /\ UNCHANGED <<archive, spool, seen>>

(* uploadBundleIfConfigured: a failed push leaves the spool as it is, a      *)
(* successful one clears it (each removal may fail on its own); a folder     *)
(* carrier finds the files by itself.                                       *)
Upload(s, kept) ==
  /\ job[s].pc = "upload"
  /\ kept # Suffixes => Push
  /\ spool' = [spool EXCEPT ![s][job[s].seq] =
                 [x \in Suffixes |-> IF x \in kept THEN @[x] ELSE Absent]]
  /\ Release(s)
  /\ UNCHANGED <<mem, disk, archive, seen>>

(* exportSequenceWithSync / replayArchivedBundle: an operator's re-export.   *)
StartReplay(s, n) ==
  /\ job[s].pc = "idle"
  /\ BundleExistsForSequence(s, n)
  /\ job' = [job EXCEPT ![s] =
               [pc |-> IF BundleComplete(archive, s, n) THEN "replay" ELSE "recover",
                seq |-> n, content |-> Old, next |-> 1]]
  /\ UNCHANGED <<mem, disk, archive, spool, seen>>

(* archiveBundleWithSync: restore an interrupted archive from the spool.    *)
RecoverArchive(s) ==
  /\ job[s].pc = "recover"
  /\ LET n == job[s].seq
         x == SuffixOrder[job[s].next] IN
     /\ spool[s][n][x] # Absent
     /\ archive' = [archive EXCEPT ![s][n][x] = spool[s][n][x]]
  /\ Advance(s, "replay")
  /\ UNCHANGED <<mem, disk, spool, seen>>

(* An I/O error or a cancelled collect returns through the same lock; what   *)
(* was renamed into place stays: the sync of a directory can still fail     *)
(* after the signature's rename, when everything but the claim is done.     *)
Fails(s) ==
  /\ job[s].pc \in {"write", "publish", "commit", "recover", "replay"}
  /\ Release(s)
  /\ UNCHANGED <<mem, disk, archive, spool, seen>>

----------------------------------------------------------------------------
(* The environment.                                                         *)

(* A folder carrier moves out any published file at any time.               *)
CarrierTakes(s, n, x) ==
  /\ ~Push
  /\ spool[s][n][x] # Absent
  /\ spool' = [spool EXCEPT ![s][n][x] = Absent]
  /\ UNCHANGED <<mem, disk, archive, job, seen>>

(* The operator removes the residue that allocateSequence refuses.          *)
OperatorClearsResidue(s, n) ==
  /\ job[s].pc = "idle"
  /\ IsNextSequence(s, n)
  /\ n \in Seqs
  /\ PartialBundleExists(s, n)
  /\ archive' = [archive EXCEPT ![s][n] = NoArtifacts]
  /\ spool' = [spool EXCEPT ![s][n] = NoArtifacts]
  /\ UNCHANGED <<mem, disk, job, seen>>

(* The process dies and loadState reads low-state.json back: the file may    *)
(* have been lost or restored from an older copy meanwhile (kept).  A        *)
(* missing file is rewritten from the ledger floors.                        *)
Restart(older) ==
  /\ \A s \in Streams : older[s] <= disk[s]
  /\ mem' = [s \in Streams |-> MaxOf(older[s], LedgerNext[s])]
  /\ disk' = IF \A s \in Streams : older[s] = 0 THEN mem' ELSE older
  /\ job' = [s \in Streams |-> IdleJob]
  /\ UNCHANGED <<archive, spool, seen>>

Next ==
  \/ \E s \in Streams :
       \/ \E n \in Seqs, c \in Contents : StartExport(s, n, c)
       \/ WriteArchive(s)
       \/ PublishArchived(s)
       \/ CommitSequence(s)
       \/ CommitFails(s)
       \/ \E kept \in SUBSET Suffixes : Upload(s, kept)
       \/ \E n \in Seqs : StartReplay(s, n)
       \/ RecoverArchive(s)
       \/ Fails(s)
       \/ \E n \in Seqs, x \in Suffixes : CarrierTakes(s, n, x)
       \/ \E n \in Seqs : OperatorClearsResidue(s, n)
  \/ \E older \in [Streams -> 0 .. MaxSeq + 1] : Restart(older)

Spec == Init /\ [][Next]_vars

----------------------------------------------------------------------------
(* The state of the exporter has its type; a counter never passes the       *)
(* exhausted sentinel that stands for math.MaxInt64.                        *)
TypeOK ==
  /\ mem \in [Streams -> 0 .. MaxSeq + 1]
  /\ disk \in [Streams -> 0 .. MaxSeq + 1]
  /\ archive \in [Streams -> [Seqs -> Artifacts]]
  /\ spool \in [Streams -> [Seqs -> Artifacts]]
  /\ job \in [Streams -> Jobs]
  /\ seen \in [Streams -> [Seqs -> SUBSET Contents]]

(* peekSequence's promise "A sequence number must never be reused": under    *)
(* one stream and number a carrier only ever observes one content, whatever  *)
(* crashes, failed saves, stale state files, pruning and re-exports happen.  *)
NoFork == \A s \in Streams, n \in Seqs : \A c, d \in seen[s][n] : c = d

(* The high side imports strictly in order, so below a claimed number and    *)
(* below a produced bundle every number that was not pruned has a complete   *)
(* bundle that a re-export can replay: no gap is unfillable.                 *)
NoUnfillableGap ==
  \A s \in Streams, m \in Seqs :
    /\ LedgerPruned[s] < m
    /\ m < FirstCandidate(s) \/ \E n \in Seqs : m < n /\ BundleArtifactsExist(archive, s, n)
    => BundleExistsForSequence(s, m)

(* publishArchivedBundle "makes the durable archive available": a file in    *)
(* the spool has a complete archive with the same content behind it, so a    *)
(* carrier that loses it loses nothing; only a spool-only bundle of an older *)
(* release is exempt until its re-export.                                   *)
PublishedIsArchived ==
  \A s \in Streams, n \in Seqs, x \in Suffixes :
    spool[s][n][x] # Absent =>
      \/ archive[s][n] = Bundle(spool[s][n][x])
      \/ s \in LegacySpool /\ n = 1 /\ spool[s][n] = Bundle(Old)

(* saveStateLocked writes every stream's counter: low-state.json never holds *)
(* a claim on a number whose bundle is not complete yet, although one        *)
(* stream's save runs while another stream is in the middle of a write.      *)
DurableClaimHasBundle ==
  \A s \in Streams, n \in Seqs :
    LedgerPruned[s] < n /\ n < disk[s] => BundleExistsForSequence(s, n)

(* A number whose bundle a carrier may have observed is never offered to a   *)
(* new export: every number that peekSequence can still return is fresh.     *)
NextNumberIsFresh ==
  \A s \in Streams, n \in Seqs : IsNextSequence(s, n) => seen[s][n] = {}
============================================================================
