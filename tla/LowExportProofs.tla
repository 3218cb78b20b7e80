-------------------------- MODULE LowExportProofs --------------------------
(***************************************************************************)
(* Proofs about LowExport for any streams, contents, sequence bound and    *)
(* recovery ledger.  The invariants are about what is in the directories;  *)
(* what makes them inductive is, per number (Cell), that a complete        *)
(* archive holds one content which is also the only one observed, and, per *)
(* stream (JobSound), how far the export that holds the lock has come.     *)
(***************************************************************************)
EXTENDS Transfer, TLAPS

(* The archive holds bundle n of stream s whole, with content c.            *)
ArchivedAs(s, n, c) == \A x \in Suffixes : archive[s][n][x] = c
Archived(s, n) == \E c \in Contents : ArchivedAs(s, n, c)

(* Only the spool holds it, from an older release.                          *)
Legacy(s, n) ==
  s \in LegacySpool /\ n = 1 /\ \A x \in Suffixes : spool[s][n][x] = Old

Filled(s, n) == Archived(s, n) \/ Legacy(s, n)

Cell(s, n) ==
  /\ BundleComplete(archive, s, n) => Archived(s, n)
  /\ \A x \in Suffixes : spool[s][n][x] # Absent =>
       ArchivedAs(s, n, spool[s][n][x]) \/ Legacy(s, n)
  /\ \A c \in Contents : ArchivedAs(s, n, c) => seen[s][n] \subseteq {c}
  /\ Legacy(s, n) => /\ seen[s][n] \subseteq {Old}
                     /\ \A x \in Suffixes : archive[s][n][x] \in {Absent, Old}
  /\ seen[s][n] # {} => Filled(s, n) \/ n <= LedgerPruned[s]
  /\ n <= LedgerPruned[s] => /\ seen[s][n] \subseteq {Old}
                             /\ \A x \in Suffixes : archive[s][n][x] = Absent
                             /\ \A x \in Suffixes : spool[s][n][x] = Absent

Cells == \A s \in Streams, n \in Seqs : Cell(s, n)

(* Every number below a counter, in memory, on disk or in the ledger, and    *)
(* below an archived artifact, has its bundle.                              *)
ClaimsFilled ==
  \A s \in Streams, m \in Seqs :
    LedgerPruned[s] < m /\ (m < mem[s] \/ m < disk[s] \/ m < LedgerNext[s]) => Filled(s, m)

NoGaps ==
  \A s \in Streams, m, n \in Seqs :
    LedgerPruned[s] < m /\ m < n /\ (\E x \in Suffixes : archive[s][n][x] # Absent)
    => Filled(s, m)

JobSound(s) ==
  LET j == job[s] IN
  /\ j.pc = "write" =>
       /\ LedgerPruned[s] < j.seq
       /\ seen[s][j.seq] = {}
       /\ \A x \in Suffixes : spool[s][j.seq][x] = Absent
       /\ \A i \in 1 .. 3 : archive[s][j.seq][SuffixOrder[i]] =
                              IF i < j.next THEN j.content ELSE Absent
       /\ \A m \in Seqs : LedgerPruned[s] < m /\ m < j.seq => Filled(s, m)
  /\ j.pc \in {"publish", "commit", "replay", "upload"} => Archived(s, j.seq)
  /\ j.pc = "recover" =>
       /\ Legacy(s, j.seq)
       /\ \A i \in 1 .. 3 : i < j.next => archive[s][j.seq][SuffixOrder[i]] = Old

JobsSound == \A s \in Streams : JobSound(s)

Inv == TypeOK /\ Cells /\ ClaimsFilled /\ NoGaps /\ JobsSound

(* SuffixOrder lists every artifact once.                                   *)
LEMMA SuffixFacts ==
  /\ SuffixOrder[1] = "tar.gz"
  /\ SuffixOrder[2] = "manifest.json"
  /\ SuffixOrder[3] = "manifest.json.sig"
  /\ \A i \in 1 .. 3 : SuffixOrder[i] \in Suffixes
  /\ \A x \in Suffixes : \E i \in 1 .. 3 : x = SuffixOrder[i]
  /\ \A i, k \in 1 .. 3 : SuffixOrder[i] = SuffixOrder[k] => i = k
<1>1. SuffixOrder[1] = "tar.gz" /\ SuffixOrder[2] = "manifest.json"
      /\ SuffixOrder[3] = "manifest.json.sig"
  BY DEF SuffixOrder
<1>2. \A i \in 1 .. 3 : i = 1 \/ i = 2 \/ i = 3
  OBVIOUS
<1> QED BY <1>1, <1>2 DEF Suffixes

(* A bundle exists on disk exactly when the archive holds it whole or it is  *)
(* a spool-only one of an older release.                                    *)
LEMMA ExistsIffFilled ==
  ASSUME Inv, NEW s \in Streams, NEW n \in Seqs
  PROVE  BundleExistsForSequence(s, n) <=> Filled(s, n)
<1>1. Cell(s, n)
  BY DEF Inv, Cells
<1>2. Filled(s, n) => BundleExistsForSequence(s, n)
  BY ConstantsAssumption DEF Filled, Archived, ArchivedAs, Legacy, BundleExistsForSequence,
     BundleComplete
<1>3. BundleExistsForSequence(s, n) => Filled(s, n)
  <2>1. ASSUME BundleComplete(spool, s, n) PROVE Filled(s, n)
    <3>1. spool[s][n]["tar.gz"] # Absent /\ spool[s][n]["tar.gz"] \in Contents
      BY <2>1 DEF BundleComplete, Suffixes, Inv, TypeOK, Artifacts
    <3> QED BY <3>1, <1>1 DEF Cell, Filled, Archived, Suffixes
  <2> QED BY <1>1, <2>1 DEF BundleExistsForSequence, Cell, Filled
<1> QED BY <1>2, <1>3

(* A number that the allocator may return is above the pruned prefix, has    *)
(* no bundle, has never been observed, and has all its predecessors.        *)
LEMMA NextSequenceFacts ==
  ASSUME Inv, NEW s \in Streams, NEW n \in Seqs, IsNextSequence(s, n)
  PROVE  /\ LedgerPruned[s] < n
         /\ ~Filled(s, n)
         /\ seen[s][n] = {}
         /\ \A m \in Seqs : LedgerPruned[s] < m /\ m < n => Filled(s, m)
<1>1. /\ mem[s] \in Int /\ LedgerNext[s] \in Int /\ LedgerPruned[s] \in Int /\ n \in Int
      /\ n # MaxSeq + 1
  BY ConstantsAssumption DEF Inv, TypeOK, Seqs
<1>2. FirstCandidate(s) \in Int /\ FirstCandidate(s) >= LedgerNext[s] /\ FirstCandidate(s) >= 1
      /\ \A m \in Seqs : m < FirstCandidate(s) => m < mem[s] \/ m < LedgerNext[s]
  BY <1>1 DEF FirstCandidate, MaxOf, Seqs
<1>3. n >= FirstCandidate(s) /\ ~BundleExistsForSequence(s, n)
  BY <1>1 DEF IsNextSequence
<1>4. LedgerPruned[s] < n
  BY <1>1, <1>2, <1>3, ConstantsAssumption
<1>5. ~Filled(s, n)
  BY <1>3, ExistsIffFilled
<1>6. seen[s][n] = {}
  BY <1>1, <1>4, <1>5 DEF Inv, Cells, Cell
<1>7. ASSUME NEW m \in Seqs, LedgerPruned[s] < m, m < n PROVE Filled(s, m)
  <2>1. CASE m < FirstCandidate(s)
    BY <1>2, <1>7, <2>1 DEF Inv, ClaimsFilled
  <2>2. CASE ~(m < FirstCandidate(s))
    <3>1. m \in FirstCandidate(s) .. n - 1
      BY <1>1, <1>2, <1>7, <2>2 DEF Seqs
    <3> QED BY <3>1, ExistsIffFilled DEF IsNextSequence
  <2> QED BY <2>1, <2>2
<1> QED BY <1>4, <1>5, <1>6, <1>7

----------------------------------------------------------------------------
(* The steps of one stream disturb one bundle.                              *)

(* All other bundles' files and observations stay.                          *)
OnlyBundle(s, n) ==
  \A t \in Streams, m \in Seqs : t # s \/ m # n =>
    /\ archive'[t][m] = archive[t][m]
    /\ spool'[t][m] = spool[t][m]
    /\ seen'[t][m] = seen[t][m]

(* A step that changes at most one bundle, keeps it if it was there, and     *)
(* leaves artifacts in the archive only above complete predecessors, keeps   *)
(* the part of the invariant that is about directories and counters.        *)
LEMMA BundleStep ==
  ASSUME Inv, NEW s \in Streams, NEW n \in Seqs, OnlyBundle(s, n), UNCHANGED <<mem, disk>>,
         Cell(s, n)', Filled(s, n) => Filled(s, n)',
         (\E x \in Suffixes : archive'[s][n][x] # Absent) =>
           \A m \in Seqs : LedgerPruned[s] < m /\ m < n => Filled(s, m)
  PROVE  /\ Cells' /\ ClaimsFilled' /\ NoGaps'
         /\ \A t \in Streams, m \in Seqs : Filled(t, m) => Filled(t, m)'
<1>1. ASSUME NEW t \in Streams, NEW m \in Seqs, t # s \/ m # n
      PROVE  Cell(t, m)' /\ (Filled(t, m) <=> Filled(t, m)')
  <2>1. archive'[t][m] = archive[t][m] /\ spool'[t][m] = spool[t][m] /\ seen'[t][m] = seen[t][m]
    BY <1>1 DEF OnlyBundle
  <2>2. Cell(t, m)
    BY DEF Inv, Cells
  <2> QED BY <2>1, <2>2 DEF Cell, Filled, Archived, ArchivedAs, Legacy, BundleComplete
<1>2. Cells'
  BY <1>1 DEF Cells
<1>3. \A t \in Streams, m \in Seqs : Filled(t, m) => Filled(t, m)'
  BY <1>1
<1>4. ClaimsFilled'
  BY <1>3 DEF Inv, ClaimsFilled
<1>5. NoGaps'
  <2>1. SUFFICES ASSUME NEW t \in Streams, NEW m \in Seqs, NEW k \in Seqs,
                        LedgerPruned[t] < m, m < k,
                        \E x \in Suffixes : archive'[t][k][x] # Absent
                 PROVE  Filled(t, m)
    BY <1>3 DEF NoGaps
  <2>2. CASE t = s /\ k = n
    BY <2>1, <2>2
  <2>3. CASE t # s \/ k # n
    <3>1. archive'[t][k] = archive[t][k]
      BY <2>3 DEF OnlyBundle
    <3> QED BY <2>1, <3>1 DEF Inv, NoGaps
  <2> QED BY <2>2, <2>3
<1> QED BY <1>2, <1>3, <1>4, <1>5

(* The exports of other streams do not notice the step.                     *)
LEMMA OtherJobs ==
  ASSUME Inv, NEW s \in Streams, NEW n \in Seqs, OnlyBundle(s, n),
         \A t \in Streams : t # s => job'[t] = job[t]
  PROVE  \A t \in Streams : t # s => JobSound(t)'
<1>1. SUFFICES ASSUME NEW t \in Streams, t # s PROVE JobSound(t)'
  OBVIOUS
<1>2. JobSound(t) /\ job'[t] = job[t] /\ job[t].seq \in Seqs
  BY <1>1 DEF Inv, JobsSound, TypeOK, Jobs
<1>3. \A m \in Seqs : archive'[t][m] = archive[t][m] /\ spool'[t][m] = spool[t][m]
                      /\ seen'[t][m] = seen[t][m]
  BY <1>1 DEF OnlyBundle
<1>4. \A m \in Seqs : /\ Filled(t, m)' <=> Filled(t, m)
                      /\ Archived(t, m)' <=> Archived(t, m)
                      /\ Legacy(t, m)' <=> Legacy(t, m)
  BY <1>3 DEF Filled, Archived, ArchivedAs, Legacy
<1> QED BY <1>2, <1>3, <1>4 DEF JobSound

(* Steps that touch no directory keep everything but what they do to the     *)
(* counters and to their own job.                                           *)
LEMMA NoFileStep ==
  ASSUME Inv, UNCHANGED <<archive, spool, seen>>
  PROVE  /\ Cells' /\ NoGaps'
         /\ \A t \in Streams, m \in Seqs : /\ Filled(t, m)' <=> Filled(t, m)
                                           /\ Archived(t, m)' <=> Archived(t, m)
                                           /\ Legacy(t, m)' <=> Legacy(t, m)
         /\ \A t \in Streams : job'[t] = job[t] => JobSound(t)'
         /\ UNCHANGED <<mem, disk>> => ClaimsFilled'
<1>1. \A t \in Streams, m \in Seqs : /\ Filled(t, m)' <=> Filled(t, m)
                                     /\ Archived(t, m)' <=> Archived(t, m)
                                     /\ Legacy(t, m)' <=> Legacy(t, m)
  BY DEF Filled, Archived, ArchivedAs, Legacy
<1>2. Cells'
  BY DEF Inv, Cells, Cell, Filled, Archived, ArchivedAs, Legacy, BundleComplete
<1>3. NoGaps'
  BY <1>1 DEF Inv, NoGaps
<1>4. ASSUME NEW t \in Streams, job'[t] = job[t] PROVE JobSound(t)'
  <2>1. JobSound(t) /\ job[t].seq \in Seqs
    BY DEF Inv, JobsSound, TypeOK, Jobs
  <2> QED BY <1>1, <1>4, <2>1 DEF JobSound
<1>5. ASSUME UNCHANGED <<mem, disk>> PROVE ClaimsFilled'
  BY <1>1, <1>5 DEF Inv, ClaimsFilled
<1> QED BY <1>1, <1>2, <1>3, <1>4, <1>5

----------------------------------------------------------------------------
(* Steps of the counters and of jobs that touch no file.                    *)

(* A job that goes on to another phase keeps its number and content.        *)
LEMMA GotoFacts ==
  ASSUME TypeOK, NEW s \in Streams, NEW pc, Goto(s, pc),
         pc \in {"publish", "commit", "replay", "upload"}
  PROVE  /\ job'[s].pc = pc /\ job'[s].next = 1
         /\ job'[s].seq = job[s].seq /\ job'[s].content = job[s].content
         /\ job[s].seq \in Seqs
         /\ \A t \in Streams : t # s => job'[t] = job[t]
         /\ job' \in [Streams -> Jobs]
<1>1. job[s].seq \in Seqs /\ job[s].content \in Contents
  BY DEF TypeOK, Jobs
<1> QED BY <1>1 DEF TypeOK, Goto, Phase, Jobs

(* Releasing the stream lock leaves nothing to rely on.                     *)
LEMMA ReleasedJob ==
  ASSUME Inv, NEW s \in Streams, Release(s), UNCHANGED <<archive, spool, seen>>
  PROVE  JobsSound' /\ job' \in [Streams -> Jobs]
<1>1. job'[s] = IdleJob /\ \A t \in Streams : t # s => job'[t] = job[t]
  BY DEF Inv, TypeOK, Release
<1>2. JobSound(s)'
  BY <1>1 DEF JobSound, IdleJob
<1>3. job' \in [Streams -> Jobs]
  BY ConstantsAssumption DEF Inv, TypeOK, Release, IdleJob, Jobs, Seqs
<1> QED BY <1>1, <1>2, <1>3, NoFileStep DEF JobsSound

(* An export starts at a fresh number with all predecessors in place.       *)
LEMMA StartExportInv ==
  ASSUME Inv, NEW s \in Streams, NEW n \in Seqs, NEW c \in Contents, StartExport(s, n, c)
  PROVE  Inv'
<1>1. UNCHANGED <<mem, disk, archive, spool, seen>>
  BY DEF StartExport
<1>2. /\ job'[s] = [pc |-> "write", seq |-> n, content |-> c, next |-> 1]
      /\ \A t \in Streams : t # s => job'[t] = job[t]
      /\ job' \in [Streams -> Jobs]
  BY DEF Inv, TypeOK, StartExport, Jobs
<1>3. /\ LedgerPruned[s] < n /\ seen[s][n] = {}
      /\ \A m \in Seqs : LedgerPruned[s] < m /\ m < n => Filled(s, m)
      /\ \A x \in Suffixes : archive[s][n][x] = Absent /\ spool[s][n][x] = Absent
  BY NextSequenceFacts DEF StartExport, AllocateSequence, PartialBundleExists,
     BundleArtifactsExist
<1>4. JobSound(s)'
  BY <1>1, <1>2, <1>3, NoFileStep, SuffixFacts DEF JobSound
<1>5. TypeOK'
  BY <1>1, <1>2 DEF Inv, TypeOK
<1> QED BY <1>1, <1>2, <1>4, <1>5, NoFileStep DEF Inv, JobsSound

(* Claiming the number of a bundle that is archived whole claims nothing     *)
(* that is missing.                                                         *)
LEMMA ClaimFacts ==
  ASSUME Inv, NEW s \in Streams, job[s].pc = "commit"
  PROVE  /\ ClaimInMemory(s) \in [Streams -> 0 .. MaxSeq + 1]
         /\ \A t \in Streams, m \in Seqs :
              LedgerPruned[t] < m /\ m < ClaimInMemory(s)[t] => Filled(t, m)
<1>1. job[s].seq \in Seqs /\ Archived(s, job[s].seq) /\ mem \in [Streams -> 0 .. MaxSeq + 1]
  BY DEF Inv, JobsSound, JobSound, TypeOK, Jobs
<1>2. ClaimInMemory(s) \in [Streams -> 0 .. MaxSeq + 1]
  BY <1>1, ConstantsAssumption DEF ClaimInMemory, Seqs
<1>3. \E x \in Suffixes : archive[s][job[s].seq][x] # Absent
  BY <1>1, ConstantsAssumption DEF Archived, ArchivedAs, Suffixes
<1>4. ASSUME NEW t \in Streams, NEW m \in Seqs, LedgerPruned[t] < m, m < ClaimInMemory(s)[t]
      PROVE  Filled(t, m)
  <2>1. CASE m < mem[t]
    BY <1>4, <2>1 DEF Inv, ClaimsFilled
  <2>2. CASE t = s /\ m = job[s].seq
    BY <1>1, <2>2 DEF Filled
  <2>3. CASE t = s /\ m < job[s].seq
    BY <1>1, <1>3, <1>4, <2>3 DEF Inv, NoGaps
  <2> QED BY <1>1, <1>4, <2>1, <2>2, <2>3 DEF ClaimInMemory, Seqs
<1> QED BY <1>2, <1>4

(* commitSequence with a successful save.                                   *)
LEMMA CommitSequenceInv ==
  ASSUME Inv, NEW s \in Streams, CommitSequence(s)
  PROVE  Inv'
<1>1. /\ job[s].pc = "commit" /\ UNCHANGED <<archive, spool, seen>>
      /\ mem' = ClaimInMemory(s) /\ disk' = ClaimInMemory(s)
  BY DEF CommitSequence
<1>2. /\ job'[s].pc = "upload" /\ job'[s].seq = job[s].seq /\ job[s].seq \in Seqs
      /\ \A t \in Streams : t # s => job'[t] = job[t]
      /\ job' \in [Streams -> Jobs]
  BY GotoFacts DEF Inv, CommitSequence
<1>3. ClaimsFilled'
  BY <1>1, ClaimFacts, NoFileStep DEF Inv, ClaimsFilled
<1>4. JobSound(s)'
  BY <1>1, <1>2, NoFileStep DEF Inv, JobsSound, JobSound
<1>5. TypeOK'
  BY <1>1, <1>2, ClaimFacts DEF Inv, TypeOK
<1> QED BY <1>1, <1>2, <1>3, <1>4, <1>5, NoFileStep DEF Inv, JobsSound

(* commitSequence whose save fails before or after the rename.              *)
LEMMA CommitFailsInv ==
  ASSUME Inv, NEW s \in Streams, CommitFails(s)
  PROVE  Inv'
<1>1. /\ job[s].pc = "commit" /\ UNCHANGED <<archive, spool, seen>>
      /\ mem' = ClaimInMemory(s) /\ (disk' = disk \/ disk' = ClaimInMemory(s))
      /\ Release(s)
  BY DEF CommitFails
<1>2. ClaimsFilled'
  BY <1>1, ClaimFacts, NoFileStep DEF Inv, ClaimsFilled
<1>3. TypeOK'
  BY <1>1, ClaimFacts, ReleasedJob DEF Inv, TypeOK
<1> QED BY <1>1, <1>2, <1>3, ReleasedJob, NoFileStep DEF Inv

(* A re-export starts from a bundle that exists.                            *)
LEMMA StartReplayInv ==
  ASSUME Inv, NEW s \in Streams, NEW n \in Seqs, StartReplay(s, n)
  PROVE  Inv'
<1>1. UNCHANGED <<mem, disk, archive, spool, seen>>
  BY DEF StartReplay
<1>2. /\ job'[s] = [pc |-> IF BundleComplete(archive, s, n) THEN "replay" ELSE "recover",
                    seq |-> n, content |-> Old, next |-> 1]
      /\ \A t \in Streams : t # s => job'[t] = job[t]
      /\ job' \in [Streams -> Jobs]
  BY ConstantsAssumption DEF Inv, TypeOK, StartReplay, Jobs
<1>3. Filled(s, n) /\ (BundleComplete(archive, s, n) => Archived(s, n))
  BY ExistsIffFilled DEF StartReplay, Inv, Cells, Cell
<1>4. Archived(s, n) => BundleComplete(archive, s, n)
  BY ConstantsAssumption DEF Archived, ArchivedAs, BundleComplete
<1>5. JobSound(s)'
  BY <1>1, <1>2, <1>3, <1>4, NoFileStep DEF JobSound, Filled
<1>6. TypeOK'
  BY <1>1, <1>2 DEF Inv, TypeOK
<1> QED BY <1>1, <1>2, <1>5, <1>6, NoFileStep DEF Inv, JobsSound

(* An error return keeps what is on disk.                                   *)
LEMMA FailsInv ==
  ASSUME Inv, NEW s \in Streams, Fails(s)
  PROVE  Inv'
<1>1. UNCHANGED <<mem, disk, archive, spool, seen>> /\ Release(s)
  BY DEF Fails
<1>2. TypeOK'
  BY <1>1, ReleasedJob DEF Inv, TypeOK
<1> QED BY <1>1, <1>2, ReleasedJob, NoFileStep DEF Inv

(* A restart may bring back any older counter: the claims it loses are       *)
(* found again by looking at the directories.                               *)
LEMMA RestartInv ==
  ASSUME Inv, NEW older \in [Streams -> 0 .. MaxSeq + 1], Restart(older)
  PROVE  Inv'
<1>1. UNCHANGED <<archive, spool, seen>> /\ job' = [s \in Streams |-> IdleJob]
  BY DEF Restart
<1>2. \A s \in Streams : older[s] <= disk[s] /\ older[s] \in Int /\ disk[s] \in Int
                         /\ LedgerNext[s] \in 0 .. MaxSeq + 1
  BY ConstantsAssumption DEF Inv, TypeOK, Restart
<1>3. /\ mem' = [s \in Streams |-> MaxOf(older[s], LedgerNext[s])]
      /\ disk' = mem' \/ disk' = older
  BY DEF Restart
<1>4. \A s \in Streams, m \in Seqs :
        m < mem'[s] \/ m < disk'[s] => m < disk[s] \/ m < LedgerNext[s]
  BY <1>2, <1>3 DEF MaxOf, Seqs
<1>5. ClaimsFilled'
  BY <1>1, <1>4, NoFileStep DEF Inv, ClaimsFilled
<1>6. mem' \in [Streams -> 0 .. MaxSeq + 1] /\ disk' \in [Streams -> 0 .. MaxSeq + 1]
  BY <1>2, <1>3 DEF MaxOf
<1>7. IdleJob \in Jobs
  BY ConstantsAssumption DEF IdleJob, Jobs, Seqs
<1>8. TypeOK'
  BY <1>1, <1>6, <1>7 DEF Inv, TypeOK
<1>9. JobsSound'
  BY <1>1 DEF JobsSound, JobSound, IdleJob
<1> QED BY <1>1, <1>5, <1>8, <1>9, NoFileStep DEF Inv

----------------------------------------------------------------------------
(* Steps that write or remove one artifact.                                 *)

(* Going on to the next artifact, or to phase pc after the last one.        *)
LEMMA AdvanceFacts ==
  ASSUME TypeOK, NEW s \in Streams, NEW pc, Advance(s, pc),
         pc \in {"publish", "commit", "replay", "upload"}
  PROVE  /\ job'[s].seq = job[s].seq /\ job'[s].content = job[s].content
         /\ job[s].seq \in Seqs /\ job[s].content \in Contents /\ job[s].next \in 1 .. 3
         /\ \/ job[s].next < 3 /\ job'[s].next = job[s].next + 1 /\ job'[s].pc = job[s].pc
            \/ job[s].next = 3 /\ job'[s].pc = pc
         /\ \A t \in Streams : t # s => job'[t] = job[t]
         /\ job' \in [Streams -> Jobs]
<1>1. job[s].seq \in Seqs /\ job[s].content \in Contents /\ job[s].next \in 1 .. 3
  BY DEF TypeOK, Jobs
<1>2. CASE job[s].next < 3
  <2>1. job[s].next + 1 \in 1 .. 3 /\ job[s].pc \in {"idle", "write", "publish", "commit", "recover",
                                                      "replay", "upload"}
    BY <1>1, <1>2 DEF TypeOK, Jobs
  <2>2. PICK k \in 1 .. 3, p \in {"idle", "write", "publish", "commit", "recover", "replay", "upload"} :
          k = job[s].next + 1 /\ p = job[s].pc
    BY <2>1
  <2>3. job' = [job EXCEPT ![s] = [pc |-> p, seq |-> job[s].seq, content |-> job[s].content, next |-> k]]
    BY <1>2, <2>2 DEF Advance, Phase
  <2>4. job' \in [Streams -> Jobs]
    BY <1>1, <2>2, <2>3 DEF TypeOK, Jobs
  <2> QED BY <1>1, <1>2, <2>2, <2>3, <2>4 DEF TypeOK
<1>3. CASE ~(job[s].next < 3)
  BY <1>1, <1>3, GotoFacts DEF Advance
<1> QED BY <1>2, <1>3

(* writeBundleArtifacts fills a fresh number from the first artifact on.    *)
LEMMA WriteArchiveInv ==
  ASSUME Inv, NEW s \in Streams, WriteArchive(s)
  PROVE  Inv'
<1>0. PICK n, c, k : n = job[s].seq /\ c = job[s].content /\ k = job[s].next
  OBVIOUS
<1>1. /\ n \in Seqs /\ c \in Contents /\ k \in 1 .. 3 /\ c # Absent
      /\ job'[s].seq = n /\ job'[s].content = c
      /\ \/ k < 3 /\ job'[s].next = k + 1 /\ job'[s].pc = "write"
         \/ k = 3 /\ job'[s].pc = "publish"
      /\ \A t \in Streams : t # s => job'[t] = job[t]
      /\ job' \in [Streams -> Jobs]
  BY <1>0, AdvanceFacts, ConstantsAssumption DEF Inv, WriteArchive
<1>2. /\ archive' = [archive EXCEPT ![s][n][SuffixOrder[k]] = c]
      /\ UNCHANGED <<mem, disk, spool, seen>>
  BY <1>0 DEF WriteArchive
<1>3. TypeOK'
  <2>1. archive' \in [Streams -> [Seqs -> Artifacts]]
    BY <1>1, <1>2, SuffixFacts DEF Inv, TypeOK, Artifacts
  <2> QED BY <1>1, <1>2, <2>1 DEF Inv, TypeOK
<1>4. OnlyBundle(s, n)
  BY <1>2 DEF Inv, TypeOK, OnlyBundle
<1>5. \A i \in 1 .. 3 : archive'[s][n][SuffixOrder[i]] =
                          IF i <= k THEN c ELSE Absent
  <2>1. \A i \in 1 .. 3 : archive[s][n][SuffixOrder[i]] = IF i < k THEN c ELSE Absent
    BY <1>0 DEF Inv, JobsSound, JobSound, WriteArchive
  <2>2. \A x \in Suffixes : archive'[s][n][x] = IF x = SuffixOrder[k] THEN c ELSE archive[s][n][x]
    BY <1>1, <1>2 DEF Inv, TypeOK, Artifacts
  <2> QED BY <1>1, <2>1, <2>2, SuffixFacts
<1>6. /\ LedgerPruned[s] < n /\ seen[s][n] = {}
      /\ \A x \in Suffixes : spool[s][n][x] = Absent
      /\ \A m \in Seqs : LedgerPruned[s] < m /\ m < n => Filled(s, m)
      /\ archive[s][n][SuffixOrder[k]] = Absent
  <2>1. JobSound(s) /\ job[s].pc = "write"
    BY DEF Inv, JobsSound, WriteArchive
  <2>2. archive[s][n][SuffixOrder[k]] = IF k < k THEN c ELSE Absent
    BY <1>0, <1>1, <2>1 DEF JobSound
  <2>3. archive[s][n][SuffixOrder[k]] = Absent
    BY <1>1, <2>2
  <2> QED BY <1>0, <2>1, <2>3 DEF JobSound
<1>7. ~Filled(s, n)
  BY <1>1, <1>6, SuffixFacts, ConstantsAssumption DEF Filled, Archived, ArchivedAs, Legacy, Suffixes
<1>8. k = 3 => Archived(s, n)'
  BY <1>1, <1>5, SuffixFacts DEF Archived, ArchivedAs
<1>9. Cell(s, n)'
  <2>1. BundleComplete(archive, s, n)' => Archived(s, n)'
    BY <1>1, <1>5, <1>8, SuffixFacts DEF BundleComplete
  <2>2. ~Legacy(s, n)'
    BY <1>2, <1>6, ConstantsAssumption DEF Legacy, Suffixes
  <2>3. ~(n <= LedgerPruned[s])
    BY <1>1, <1>6, ConstantsAssumption DEF Seqs
  <2> QED BY <1>2, <1>6, <2>1, <2>2, <2>3 DEF Cell
<1>10. /\ Cells' /\ ClaimsFilled' /\ NoGaps'
       /\ \A t \in Streams, m \in Seqs : Filled(t, m) => Filled(t, m)'
  BY <1>1, <1>2, <1>4, <1>6, <1>7, <1>9, BundleStep
<1>11. JobSound(s)'
  BY <1>1, <1>2, <1>5, <1>6, <1>8, <1>10 DEF JobSound
<1>12. JobsSound'
  BY <1>1, <1>4, <1>11, OtherJobs DEF JobsSound
<1> QED BY <1>3, <1>10, <1>12 DEF Inv

(* publishArchivedBundle shows the archived content, and nothing else.      *)
LEMMA PublishArchivedInv ==
  ASSUME Inv, NEW s \in Streams, PublishArchived(s)
  PROVE  Inv'
<1>0. PICK n, y : n = job[s].seq /\ y = SuffixOrder[job[s].next]
  OBVIOUS
<1>1. /\ n \in Seqs /\ job[s].next \in 1 .. 3 /\ job'[s].seq = n
      /\ job'[s].pc \in {"publish", "replay", "commit", "upload"}
      /\ \A t \in Streams : t # s => job'[t] = job[t]
      /\ job' \in [Streams -> Jobs]
  BY <1>0, AdvanceFacts DEF Inv, PublishArchived
<1>2. /\ spool' = [spool EXCEPT ![s][n][y] = archive[s][n][y]]
      /\ seen' = [seen EXCEPT ![s][n] = @ \cup {archive[s][n][y]}]
      /\ UNCHANGED <<mem, disk, archive>>
  BY <1>0 DEF PublishArchived
<1>3. y \in Suffixes
  BY <1>0, <1>1, SuffixFacts
<1>4. PICK c \in Contents : ArchivedAs(s, n, c)
  BY <1>0 DEF Inv, JobsSound, JobSound, PublishArchived, Archived
<1>5. archive[s][n][y] = c /\ c # Absent
  BY <1>3, <1>4, ConstantsAssumption DEF ArchivedAs
<1>6. TypeOK'
  <2>1. spool' \in [Streams -> [Seqs -> Artifacts]]
    BY <1>1, <1>2, <1>3, <1>5 DEF Inv, TypeOK, Artifacts
  <2>2. seen' \in [Streams -> [Seqs -> SUBSET Contents]]
    BY <1>1, <1>2, <1>5 DEF Inv, TypeOK
  <2> QED BY <1>1, <1>2, <2>1, <2>2 DEF Inv, TypeOK
<1>7. OnlyBundle(s, n)
  BY <1>2 DEF Inv, TypeOK, OnlyBundle
<1>8. /\ seen'[s][n] = seen[s][n] \cup {c}
      /\ \A x \in Suffixes : spool'[s][n][x] = IF x = y THEN c ELSE spool[s][n][x]
  BY <1>1, <1>2, <1>3, <1>5 DEF Inv, TypeOK, Artifacts
<1>9. ArchivedAs(s, n, c)' /\ Archived(s, n)'
  BY <1>2, <1>4 DEF ArchivedAs, Archived
<1>10. /\ Cell(s, n) /\ seen[s][n] \subseteq {c} /\ (Legacy(s, n) => c = Old)
       /\ \A d \in Contents : ArchivedAs(s, n, d) => d = c
  BY <1>1, <1>3, <1>4, <1>5 DEF Inv, Cells, Cell, ArchivedAs
<1>11. Cell(s, n)'
  <2>1. \A x \in Suffixes : spool'[s][n][x] # Absent => spool'[s][n][x] = c
    <3>1. \A x \in Suffixes : spool[s][n][x] # Absent => spool[s][n][x] \in Contents
      BY <1>1 DEF Inv, TypeOK, Artifacts
    <3> QED BY <1>8, <1>10, <3>1 DEF Cell, Legacy
  <2>2. Legacy(s, n)' => c = Old
    BY <1>3, <1>5, <1>8 DEF Legacy
  <2>3. \A d \in Contents : ArchivedAs(s, n, d)' => d = c
    BY <1>3, <1>5, <1>2 DEF ArchivedAs
  <2>4. ~(n <= LedgerPruned[s])
    BY <1>3, <1>5, <1>10 DEF Cell
  <2>5. \A x \in Suffixes : archive'[s][n][x] = c
    BY <1>9 DEF ArchivedAs
  <2> QED BY <1>8, <1>9, <1>10, <2>1, <2>2, <2>3, <2>4, <2>5 DEF Cell, Filled
<1>12. \A m \in Seqs : LedgerPruned[s] < m /\ m < n => Filled(s, m)
  BY <1>1, <1>3, <1>5 DEF Inv, NoGaps
<1>13. /\ Cells' /\ ClaimsFilled' /\ NoGaps'
       /\ \A t \in Streams, m \in Seqs : Filled(t, m) => Filled(t, m)'
  BY <1>1, <1>2, <1>7, <1>9, <1>11, <1>12, BundleStep DEF Filled
<1>14. JobSound(s)'
  BY <1>1, <1>9 DEF JobSound
<1>15. JobsSound'
  BY <1>1, <1>7, <1>14, OtherJobs DEF JobsSound
<1> QED BY <1>6, <1>13, <1>15 DEF Inv

(* Only the spool loses files, of a bundle that is archived whole.          *)
LEMMA SpoolShrinks ==
  ASSUME Inv, NEW s \in Streams, NEW n \in Seqs, Archived(s, n) \/ LegacySpool = {},
         OnlyBundle(s, n), UNCHANGED <<mem, disk, archive, seen>>,
         \A x \in Suffixes : spool'[s][n][x] = spool[s][n][x] \/ spool'[s][n][x] = Absent
  PROVE  /\ Cells' /\ ClaimsFilled' /\ NoGaps'
         /\ \A t \in Streams, m \in Seqs : Filled(t, m) => Filled(t, m)'
<1>1. Cell(s, n)
  BY DEF Inv, Cells
<1>2. \A d \in Contents \cup {Absent} : ArchivedAs(s, n, d)' <=> ArchivedAs(s, n, d)
  BY DEF ArchivedAs
<1>3. Archived(s, n)' <=> Archived(s, n)
  BY <1>2 DEF Archived
<1>4. Legacy(s, n)' => Legacy(s, n)
  BY ConstantsAssumption DEF Legacy
<1>5. Legacy(s, n) => ArchivedAs(s, n, Old) /\ Archived(s, n)
  BY <1>1, ConstantsAssumption DEF Cell, Archived, ArchivedAs, Legacy
<1>6. Filled(s, n) => Filled(s, n)'
  BY <1>3, <1>5 DEF Filled
<1>7. \A x \in Suffixes : spool'[s][n][x] # Absent =>
        \A z \in Suffixes : archive'[s][n][z] = spool'[s][n][x]
  <2>1. SUFFICES ASSUME NEW x \in Suffixes, spool'[s][n][x] # Absent
                 PROVE  ArchivedAs(s, n, spool[s][n][x])
    BY DEF ArchivedAs
  <2>2. spool[s][n][x] # Absent /\ (Legacy(s, n) => spool[s][n][x] = Old)
    BY <2>1 DEF Legacy
  <2> QED BY <1>1, <1>5, <2>2 DEF Cell
<1>8. Cell(s, n)'
  <2>1. (BundleComplete(archive, s, n))' => Archived(s, n)'
    BY <1>1, <1>3 DEF Cell, BundleComplete
  <2>2. \A c \in Contents : ArchivedAs(s, n, c)' => seen'[s][n] \subseteq {c}
    BY <1>1, <1>2 DEF Cell
  <2>3. Legacy(s, n)' => /\ seen'[s][n] \subseteq {Old}
                         /\ \A x \in Suffixes : archive'[s][n][x] \in {Absent, Old}
    BY <1>1, <1>4 DEF Cell
  <2>4. seen'[s][n] # {} => Filled(s, n)' \/ n <= LedgerPruned[s]
    BY <1>1, <1>6 DEF Cell
  <2>5. n <= LedgerPruned[s] => /\ seen'[s][n] \subseteq {Old}
                                /\ \A x \in Suffixes : archive'[s][n][x] = Absent
                                /\ \A x \in Suffixes : spool'[s][n][x] = Absent
    BY <1>1 DEF Cell
  <2> QED BY <1>7, <2>1, <2>2, <2>3, <2>4, <2>5 DEF Cell, ArchivedAs
<1>9. (\E x \in Suffixes : archive'[s][n][x] # Absent) =>
        \A m \in Seqs : LedgerPruned[s] < m /\ m < n => Filled(s, m)
  BY DEF Inv, NoGaps
<1> QED BY <1>6, <1>8, <1>9, BundleStep

(* A finished or failed push.                                               *)
LEMMA UploadInv ==
  ASSUME Inv, NEW s \in Streams, NEW kept \in SUBSET Suffixes, Upload(s, kept)
  PROVE  Inv'
<1>0. PICK n \in Seqs : n = job[s].seq
  BY DEF Inv, TypeOK, Jobs
<1>1. /\ spool' = [spool EXCEPT ![s][n] = [x \in Suffixes |-> IF x \in kept THEN @[x] ELSE Absent]]
      /\ UNCHANGED <<mem, disk, archive, seen>> /\ Release(s)
  BY <1>0 DEF Upload
<1>2. /\ spool' \in [Streams -> [Seqs -> Artifacts]]
      /\ \A x \in Suffixes : spool'[s][n][x] = spool[s][n][x] \/ spool'[s][n][x] = Absent
  BY <1>1 DEF Inv, TypeOK, Artifacts
<1>3. OnlyBundle(s, n)
  BY <1>1 DEF Inv, TypeOK, OnlyBundle
<1>4. Archived(s, n)
  BY <1>0 DEF Inv, JobsSound, JobSound, Upload
<1>5. job'[s] = IdleJob /\ job' \in [Streams -> Jobs] /\ \A t \in Streams : t # s => job'[t] = job[t]
  <2>1. IdleJob \in Jobs
    BY ConstantsAssumption DEF IdleJob, Jobs, Seqs
  <2> QED BY <1>1, <2>1 DEF Inv, TypeOK, Release
<1>6. JobSound(s)'
  BY <1>5 DEF JobSound, IdleJob
<1>7. JobsSound'
  BY <1>3, <1>5, <1>6, OtherJobs DEF JobsSound
<1>8. TypeOK'
  BY <1>1, <1>2, <1>5 DEF Inv, TypeOK
<1> QED BY <1>1, <1>2, <1>3, <1>4, <1>7, <1>8, SpoolShrinks DEF Inv

(* A folder carrier takes a file, in the middle of a publication too.       *)
LEMMA CarrierTakesInv ==
  ASSUME Inv, NEW s \in Streams, NEW n \in Seqs, NEW y \in Suffixes, CarrierTakes(s, n, y)
  PROVE  Inv'
<1>1. /\ spool' = [spool EXCEPT ![s][n][y] = Absent]
      /\ UNCHANGED <<mem, disk, archive, job, seen>> /\ LegacySpool = {}
  BY ConstantsAssumption DEF CarrierTakes
<1>2. /\ spool' \in [Streams -> [Seqs -> Artifacts]]
      /\ \A m \in Seqs, x \in Suffixes : spool'[s][m][x] = spool[s][m][x] \/ spool'[s][m][x] = Absent
  BY <1>1 DEF Inv, TypeOK, Artifacts
<1>3. OnlyBundle(s, n)
  BY <1>1 DEF Inv, TypeOK, OnlyBundle
<1>4. /\ Cells' /\ ClaimsFilled' /\ NoGaps'
      /\ \A t \in Streams, m \in Seqs : Filled(t, m) => Filled(t, m)'
  BY <1>1, <1>2, <1>3, SpoolShrinks
<1>5. JobSound(s)'
  <2>1. JobSound(s) /\ job[s].seq \in Seqs
    BY DEF Inv, JobsSound, TypeOK, Jobs
  <2>2. ~Legacy(s, job[s].seq)
    BY <1>1 DEF Legacy
  <2>3. Archived(s, job[s].seq) => Archived(s, job[s].seq)'
    BY <1>1 DEF Archived, ArchivedAs
  <2> QED BY <1>1, <1>2, <1>4, <2>1, <2>2, <2>3 DEF JobSound
<1>6. JobsSound'
  BY <1>1, <1>3, <1>5, OtherJobs DEF JobsSound
<1>7. TypeOK'
  BY <1>1, <1>2 DEF Inv, TypeOK
<1> QED BY <1>4, <1>6, <1>7 DEF Inv

(* archiveBundleWithSync copies a spool-only bundle back into the archive.  *)
LEMMA RecoverArchiveInv ==
  ASSUME Inv, NEW s \in Streams, RecoverArchive(s)
  PROVE  Inv'
<1>0. PICK n, k : n = job[s].seq /\ k = job[s].next
  OBVIOUS
<1>1. /\ n \in Seqs /\ k \in 1 .. 3 /\ job'[s].seq = n
      /\ \/ k < 3 /\ job'[s].next = k + 1 /\ job'[s].pc = "recover"
         \/ k = 3 /\ job'[s].pc = "replay"
      /\ \A t \in Streams : t # s => job'[t] = job[t]
      /\ job' \in [Streams -> Jobs]
  BY <1>0, AdvanceFacts DEF Inv, RecoverArchive
<1>2. /\ Legacy(s, n) /\ n = 1
      /\ \A i \in 1 .. 3 : i < k => archive[s][n][SuffixOrder[i]] = Old
  BY <1>0 DEF Inv, JobsSound, JobSound, RecoverArchive, Legacy
<1>3. SuffixOrder[k] \in Suffixes /\ Old \in Contents /\ Old # Absent
  BY <1>1, SuffixFacts, ConstantsAssumption
<1>4. /\ archive' = [archive EXCEPT ![s][n][SuffixOrder[k]] = Old]
      /\ UNCHANGED <<mem, disk, spool, seen>>
  BY <1>0, <1>2, <1>3 DEF RecoverArchive, Legacy
<1>5. /\ archive' \in [Streams -> [Seqs -> Artifacts]]
      /\ \A x \in Suffixes : archive'[s][n][x] = IF x = SuffixOrder[k] THEN Old ELSE archive[s][n][x]
  BY <1>1, <1>3, <1>4 DEF Inv, TypeOK, Artifacts
<1>6. OnlyBundle(s, n)
  BY <1>4 DEF Inv, TypeOK, OnlyBundle
<1>7. Legacy(s, n)' /\ Filled(s, n)'
  BY <1>2, <1>4 DEF Legacy, Filled
<1>8. Cell(s, n) /\ seen[s][n] \subseteq {Old} /\ \A x \in Suffixes : archive[s][n][x] \in {Absent, Old}
  BY <1>1, <1>2 DEF Inv, Cells, Cell
<1>9. \A x \in Suffixes : archive'[s][n][x] \in {Absent, Old}
  BY <1>5, <1>8
<1>10. Cell(s, n)'
  <2>1. (BundleComplete(archive, s, n))' => Archived(s, n)'
    BY <1>3, <1>9 DEF BundleComplete, Archived, ArchivedAs
  <2>2. \A c \in Contents : ArchivedAs(s, n, c)' => seen'[s][n] \subseteq {c}
    <3>1. \A c \in Contents : ArchivedAs(s, n, c)' => c = Old
      BY <1>3, <1>5 DEF ArchivedAs
    <3> QED BY <1>4, <1>8, <3>1
  <2>3. ~(n <= LedgerPruned[s])
    BY <1>2, <1>3, <1>8 DEF Cell, Legacy, Suffixes
  <2> QED BY <1>4, <1>7, <1>8, <1>9, <2>1, <2>2, <2>3 DEF Cell
<1>11. /\ Cells' /\ ClaimsFilled' /\ NoGaps'
       /\ \A t \in Streams, m \in Seqs : Filled(t, m) => Filled(t, m)'
  <2>1. \A m \in Seqs : ~(m < n)
    BY <1>2 DEF Seqs
  <2> QED BY <1>1, <1>4, <1>6, <1>7, <1>10, <2>1, BundleStep
<1>12. \A i \in 1 .. 3 : i <= k => archive'[s][n][SuffixOrder[i]] = Old
  BY <1>1, <1>2, <1>5, SuffixFacts
<1>13. JobSound(s)'
  <2>1. k = 3 => Archived(s, n)'
    BY <1>3, <1>12, SuffixFacts DEF Archived, ArchivedAs
  <2> QED BY <1>1, <1>7, <1>12, <2>1 DEF JobSound
<1>14. JobsSound'
  BY <1>1, <1>6, <1>13, OtherJobs DEF JobsSound
<1>15. TypeOK'
  BY <1>1, <1>4, <1>5 DEF Inv, TypeOK
<1> QED BY <1>11, <1>14, <1>15 DEF Inv

(* The operator removes files of a number that nobody has observed.         *)
LEMMA OperatorClearsInv ==
  ASSUME Inv, NEW s \in Streams, NEW n \in Seqs, OperatorClearsResidue(s, n)
  PROVE  Inv'
<1>1. /\ archive' = [archive EXCEPT ![s][n] = NoArtifacts]
      /\ spool' = [spool EXCEPT ![s][n] = NoArtifacts]
      /\ UNCHANGED <<mem, disk, job, seen>> /\ job[s].pc = "idle"
  BY DEF OperatorClearsResidue
<1>2. LedgerPruned[s] < n /\ ~Filled(s, n) /\ seen[s][n] = {}
  BY NextSequenceFacts DEF OperatorClearsResidue
<1>3. /\ archive' \in [Streams -> [Seqs -> Artifacts]] /\ spool' \in [Streams -> [Seqs -> Artifacts]]
      /\ \A x \in Suffixes : archive'[s][n][x] = Absent /\ spool'[s][n][x] = Absent
  BY <1>1 DEF Inv, TypeOK, Artifacts, NoArtifacts
<1>4. OnlyBundle(s, n)
  BY <1>1 DEF Inv, TypeOK, OnlyBundle
<1>5. Cell(s, n)'
  <2>1. ~(BundleComplete(archive, s, n))' /\ ~Legacy(s, n)'
    BY <1>3, ConstantsAssumption DEF BundleComplete, Legacy, Suffixes
  <2>2. ~(n <= LedgerPruned[s])
    BY <1>2, ConstantsAssumption DEF Seqs
  <2> QED BY <1>1, <1>2, <1>3, <2>1, <2>2 DEF Cell
<1>6. /\ Cells' /\ ClaimsFilled' /\ NoGaps'
  BY <1>1, <1>2, <1>3, <1>4, <1>5, BundleStep
<1>7. JobSound(s)'
  BY <1>1 DEF JobSound
<1>8. JobsSound'
  BY <1>1, <1>4, <1>7, OtherJobs DEF JobsSound
<1>9. TypeOK'
  BY <1>1, <1>3 DEF Inv, TypeOK
<1> QED BY <1>6, <1>8, <1>9 DEF Inv

----------------------------------------------------------------------------
(* A fresh process over a retained archive and an empty or legacy spool.    *)
LEMMA InitInv == Init => Inv
<1>1. SUFFICES ASSUME Init PROVE Inv
  OBVIOUS
<1>2. \A s \in Streams, n \in Seqs, x \in Suffixes :
        /\ archive[s][n][x] = IF LedgerPruned[s] < n /\ n < LedgerNext[s] THEN Old ELSE Absent
        /\ spool[s][n][x] = IF s \in LegacySpool /\ n = 1 THEN Old ELSE Absent
  BY <1>1 DEF Init, Bundle, NoArtifacts
<1>3. \A s \in Streams, n \in Seqs :
        seen[s][n] = IF n < LedgerNext[s] \/ (s \in LegacySpool /\ n = 1) THEN {Old} ELSE {}
  BY <1>1 DEF Init
<1>4. \A s \in Streams : /\ LedgerPruned[s] \in 0 .. MaxSeq /\ LedgerNext[s] \in 0 .. MaxSeq + 1
                         /\ LedgerPruned[s] = 0 \/ LedgerPruned[s] < LedgerNext[s]
                         /\ s \in LegacySpool => LedgerNext[s] = 0
  BY ConstantsAssumption
<1>5. Old \in Contents /\ Old # Absent /\ MaxSeq \in Nat
  BY ConstantsAssumption
<1>6. TypeOK
  <2>1. Bundle(Old) \in Artifacts /\ NoArtifacts \in Artifacts
    BY <1>5 DEF Bundle, NoArtifacts, Artifacts
  <2>2. IdleJob \in Jobs
    BY ConstantsAssumption DEF IdleJob, Jobs, Seqs
  <2>3. mem \in [Streams -> 0 .. MaxSeq + 1] /\ disk \in [Streams -> 0 .. MaxSeq + 1]
    BY <1>1, ConstantsAssumption DEF Init
  <2>4. archive \in [Streams -> [Seqs -> Artifacts]] /\ spool \in [Streams -> [Seqs -> Artifacts]]
    BY <1>1, <2>1 DEF Init
  <2>5. job \in [Streams -> Jobs]
    BY <1>1, <2>2 DEF Init
  <2>6. seen \in [Streams -> [Seqs -> SUBSET Contents]]
    BY <1>1, <1>5 DEF Init
  <2> QED BY <2>3, <2>4, <2>5, <2>6 DEF TypeOK
<1>7. \A s \in Streams, n \in Seqs : LedgerPruned[s] < n /\ n < LedgerNext[s] =>
        ArchivedAs(s, n, Old) /\ Archived(s, n) /\ Filled(s, n)
  BY <1>2, <1>5 DEF ArchivedAs, Archived, Filled
<1>8. Cells
  <2>1. SUFFICES ASSUME NEW s \in Streams, NEW n \in Seqs PROVE Cell(s, n)
    BY DEF Cells
  <2>2. "tar.gz" \in Suffixes /\ n \in Int
    BY DEF Suffixes, Seqs
  <2>3. Legacy(s, n) <=> s \in LegacySpool /\ n = 1
    BY <1>2 DEF Legacy
  <2>4. \A x \in Suffixes : archive[s][n][x] \in {Absent, Old}
    BY <1>2
  <2>5. \A c \in Contents : ArchivedAs(s, n, c) => c = Old
    BY <1>2, <1>5, <2>2, ConstantsAssumption DEF ArchivedAs
  <2>6. seen[s][n] \subseteq {Old}
    BY <1>3
  <2>7. BundleComplete(archive, s, n) => Archived(s, n)
    BY <1>5, <2>4 DEF BundleComplete, Archived, ArchivedAs
  <2>8. seen[s][n] # {} => Filled(s, n) \/ n <= LedgerPruned[s]
    BY <1>3, <1>4, <1>7, <2>2, <2>3 DEF Filled
  <2>9. \A x \in Suffixes : spool[s][n][x] # Absent => Legacy(s, n)
    BY <1>2, <2>3
  <2>10. n <= LedgerPruned[s] => \A x \in Suffixes : archive[s][n][x] = Absent /\ spool[s][n][x] = Absent
    BY <1>2, <1>4, <2>2 DEF Seqs
  <2> QED BY <2>4, <2>5, <2>6, <2>7, <2>8, <2>9, <2>10 DEF Cell
<1>9. ClaimsFilled
  BY <1>1, <1>7 DEF Init, ClaimsFilled
<1>10. NoGaps
  <2>1. SUFFICES ASSUME NEW s \in Streams, NEW m \in Seqs, NEW n \in Seqs, LedgerPruned[s] < m, m < n,
                        \E x \in Suffixes : archive[s][n][x] # Absent
                 PROVE  Filled(s, m)
    BY DEF NoGaps
  <2>2. n < LedgerNext[s]
    BY <1>2, <2>1
  <2>3. m < LedgerNext[s]
    BY <1>4, <2>1, <2>2 DEF Seqs
  <2> QED BY <1>7, <2>1, <2>3
<1>11. JobsSound
  BY <1>1 DEF Init, JobsSound, JobSound, IdleJob
<1> QED BY <1>6, <1>8, <1>9, <1>10, <1>11 DEF Inv

(* Every step of the exporter and of its environment keeps the invariant.   *)
LEMMA NextInv == Inv /\ [Next]_vars => Inv'
<1>1. SUFFICES ASSUME Inv, [Next]_vars PROVE Inv'
  OBVIOUS
<1>2. CASE UNCHANGED vars
  <2>1. UNCHANGED <<mem, disk, archive, spool, job, seen>>
    BY <1>2 DEF vars
  <2>2. TypeOK'
    BY <1>1, <2>1 DEF Inv, TypeOK
  <2> QED BY <1>1, <2>1, <2>2, NoFileStep DEF Inv, JobsSound
<1>3. ASSUME NEW older \in [Streams -> 0 .. MaxSeq + 1], Restart(older) PROVE Inv'
  BY <1>1, <1>3, RestartInv
<1>4. ASSUME NEW s \in Streams,
             \/ \E n \in Seqs, c \in Contents : StartExport(s, n, c)
             \/ WriteArchive(s)
             \/ PublishArchived(s)
             \/ CommitSequence(s)
             \/ CommitFails(s)
             \/ \E kept \in SUBSET Suffixes : Upload(s, kept)
             \/ \E n \in Seqs : StartReplay(s, n)
             \/ RecoverArchive(s)
             \/ Fails(s)
             \/ \E n \in Seqs, x \in Suffixes : CarrierTakes(s, n, x)
             \/ \E n \in Seqs : OperatorClearsResidue(s, n)
      PROVE  Inv'
  <2>1. CASE \E n \in Seqs, c \in Contents : StartExport(s, n, c)
    BY <1>1, <2>1, StartExportInv
  <2>2. CASE WriteArchive(s)
    BY <1>1, <2>2, WriteArchiveInv
  <2>3. CASE PublishArchived(s)
    BY <1>1, <2>3, PublishArchivedInv
  <2>4. CASE CommitSequence(s)
    BY <1>1, <2>4, CommitSequenceInv
  <2>5. CASE CommitFails(s)
    BY <1>1, <2>5, CommitFailsInv
  <2>6. CASE \E kept \in SUBSET Suffixes : Upload(s, kept)
    BY <1>1, <2>6, UploadInv
  <2>7. CASE \E n \in Seqs : StartReplay(s, n)
    BY <1>1, <2>7, StartReplayInv
  <2>8. CASE RecoverArchive(s)
    BY <1>1, <2>8, RecoverArchiveInv
  <2>9. CASE Fails(s)
    BY <1>1, <2>9, FailsInv
  <2>10. CASE \E n \in Seqs, x \in Suffixes : CarrierTakes(s, n, x)
    BY <1>1, <2>10, CarrierTakesInv
  <2>11. CASE \E n \in Seqs : OperatorClearsResidue(s, n)
    BY <1>1, <2>11, OperatorClearsInv
  <2> QED BY <1>4, <2>1, <2>2, <2>3, <2>4, <2>5, <2>6, <2>7, <2>8, <2>9, <2>10, <2>11
<1> QED BY <1>1, <1>2, <1>3, <1>4 DEF Next

(* The inductive invariant holds in every state of every behaviour.         *)
LEMMA InvAlways == Spec => []Inv
BY InitInv, NextInv, PTL DEF Spec

----------------------------------------------------------------------------
(* The exporter's state has its type; in particular a counter never passes   *)
(* the exhausted sentinel.                                                  *)
THEOREM TypeCorrect == Spec => []TypeOK
<1>1. Inv => TypeOK
  BY DEF Inv
<1> QED BY <1>1, InvAlways, PTL

(* peekSequence and allocateSequence never let two contents be observed      *)
(* under one number, through crashes, failed saves and stale state files.    *)
THEOREM NeverForks == Spec => []NoFork
<1>1. Inv => NoFork
  <2>1. SUFFICES ASSUME Inv, NEW s \in Streams, NEW n \in Seqs,
                        NEW c \in seen[s][n], NEW d \in seen[s][n]
                 PROVE  c = d
    BY DEF NoFork
  <2>2. Cell(s, n)
    BY <2>1 DEF Inv, Cells
  <2> QED BY <2>1, <2>2 DEF Cell, Filled, Archived
<1> QED BY <1>1, InvAlways, PTL

(* A number that peekSequence can return has never been observed.           *)
THEOREM NextNumberAlwaysFresh == Spec => []NextNumberIsFresh
<1>1. Inv => NextNumberIsFresh
  BY NextSequenceFacts DEF NextNumberIsFresh
<1> QED BY <1>1, InvAlways, PTL

(* Whatever is in the export directory can be re-exported from the archive.  *)
THEOREM PublishedAlwaysArchived == Spec => []PublishedIsArchived
<1>1. Inv => PublishedIsArchived
  <2>1. SUFFICES ASSUME Inv, NEW s \in Streams, NEW n \in Seqs, NEW x \in Suffixes,
                        spool[s][n][x] # Absent
                 PROVE  \/ archive[s][n] = Bundle(spool[s][n][x])
                        \/ s \in LegacySpool /\ n = 1 /\ spool[s][n] = Bundle(Old)
    BY DEF PublishedIsArchived
  <2>2. Cell(s, n) /\ archive[s][n] \in Artifacts /\ spool[s][n] \in Artifacts
    BY <2>1 DEF Inv, Cells, TypeOK
  <2>3. CASE ArchivedAs(s, n, spool[s][n][x])
    BY <2>2, <2>3 DEF ArchivedAs, Bundle, Artifacts
  <2>4. CASE Legacy(s, n)
    BY <2>2, <2>4 DEF Legacy, Bundle, Artifacts
  <2> QED BY <2>1, <2>2, <2>3, <2>4 DEF Cell
<1> QED BY <1>1, InvAlways, PTL

(* Below every claimed number and every archived artifact each number that   *)
(* was not pruned has a complete bundle to re-export.                       *)
THEOREM GapsAlwaysFillable == Spec => []NoUnfillableGap
<1>1. Inv => NoUnfillableGap
  <2>1. SUFFICES ASSUME Inv, NEW s \in Streams, NEW m \in Seqs, LedgerPruned[s] < m,
                        \/ m < FirstCandidate(s)
                        \/ \E n \in Seqs : m < n /\ BundleArtifactsExist(archive, s, n)
                 PROVE  Filled(s, m)
    BY ExistsIffFilled DEF NoUnfillableGap
  <2>2. CASE m < FirstCandidate(s)
    <3>1. mem[s] \in Int /\ LedgerNext[s] \in Int /\ m \in Int /\ m >= 1
      BY <2>1, ConstantsAssumption DEF Inv, TypeOK, Seqs
    <3>2. m < mem[s] \/ m < LedgerNext[s]
      BY <2>2, <3>1 DEF FirstCandidate, MaxOf
    <3> QED BY <2>1, <3>2 DEF Inv, ClaimsFilled
  <2>3. CASE \E n \in Seqs : m < n /\ BundleArtifactsExist(archive, s, n)
    BY <2>1, <2>3 DEF Inv, NoGaps, BundleArtifactsExist
  <2> QED BY <2>1, <2>2, <2>3
<1> QED BY <1>1, InvAlways, PTL

(* low-state.json only ever claims numbers whose bundles are complete.       *)
THEOREM DurableClaimsHaveBundles == Spec => []DurableClaimHasBundle
<1>1. Inv => DurableClaimHasBundle
  BY ExistsIffFilled DEF Inv, ClaimsFilled, DurableClaimHasBundle
<1> QED BY <1>1, InvAlways, PTL

----------------------------------------------------------------------------
(* Transfer: LowExport with the records of failed transfers.                *)

(* Every step of Transfer is a step of LowExport.                           *)
LEMMA TransferStep == [TransferNext]_transferVars => [Next]_vars
<1> SUFFICES ASSUME [TransferNext]_transferVars PROVE [Next]_vars
  OBVIOUS
<1>1. CASE UNCHANGED transferVars
  BY <1>1 DEF transferVars
<1>2. ASSUME NEW s \in Streams, Unrecorded(s) PROVE Next
  BY <1>2 DEF Unrecorded, Next
<1>3. ASSUME NEW s \in Streams, NEW n \in Seqs, Reexport(s, n) PROVE Next
  BY <1>3 DEF Reexport, Next
<1>4. ASSUME NEW s \in Streams, Abandon(s) PROVE Next
  BY <1>4 DEF Abandon, Next
<1>5. ASSUME NEW s \in Streams, NEW kept \in SUBSET Suffixes, Upload(s, kept) PROVE Next
  BY <1>5 DEF Next
<1>6. ASSUME NEW older \in [Streams -> 0 .. MaxSeq + 1], NEW scanned \in BOOLEAN,
             RestartLow(older, scanned)
      PROVE  Next
  BY <1>6 DEF RestartLow, Next
<1> QED BY <1>1, <1>2, <1>3, <1>4, <1>5, <1>6
        DEF TransferNext, AbandonReplayed, TransferFails, TransferSucceeds, NoTransport

(* The records change nothing of what LowExport says: every theorem above    *)
(* holds of the low side with a push transport and its failure records.      *)
THEOREM TransferImplementsLowExport == TransferSpec => Spec
<1>1. TransferInit => Init
  BY DEF TransferInit
<1> QED BY <1>1, TransferStep, PTL DEF TransferSpec, Spec

LEMMA StagedIff ==
  ASSUME NEW s \in Streams, NEW n \in Seqs
  PROVE  <<s, n>> \in Staged <=> Push /\ BundleComplete(spool, s, n)
BY DEF Staged, Bundles

LEMMA StagedIffPrimed ==
  ASSUME NEW s \in Streams, NEW n \in Seqs
  PROVE  (<<s, n>> \in Staged)' <=> Push /\ \A x \in Suffixes : spool'[s][n][x] # Absent
BY DEF Staged, Bundles, BundleComplete

(* What a bundle that waits in the spool is owed.                           *)
Owed(s, n) ==
  \/ job[s].pc # "idle" /\ job[s].seq = n
  \/ <<s, n>> \in failed
  \/ <<s, n>> \in excused

LEMMA ReportedIff ==
  StagedIsReported <=>
    \A s \in Streams, n \in Seqs : <<s, n>> \in Staged => Owed(s, n)
<1>1. \A b \in Bundles : \E s \in Streams, n \in Seqs : b = <<s, n>>
  BY DEF Bundles
<1>2. \A s \in Streams, n \in Seqs : <<s, n>> \in Bundles
  BY DEF Bundles
<1> QED BY <1>1, <1>2 DEF StagedIsReported, Owed, Held, checkDiodeTransfers, Staged

LEMMA ReportedIffPrimed ==
  StagedIsReported' <=>
    \A s \in Streams, n \in Seqs : (<<s, n>> \in Staged)' => Owed(s, n)'
<1>1. \A b \in Bundles : \E s \in Streams, n \in Seqs : b = <<s, n>>
  BY DEF Bundles
<1>2. \A s \in Streams, n \in Seqs : <<s, n>> \in Bundles
  BY DEF Bundles
<1>3. Bundles' = Bundles
  BY DEF Bundles, Seqs
<1> QED BY <1>1, <1>2, <1>3 DEF StagedIsReported, Owed, Held, checkDiodeTransfers, Staged

(* A step that frees no export and stages at most its own bundle keeps what   *)
(* is owed to every bundle.                                                 *)
LEMMA WorkingStep ==
  ASSUME StagedIsReported, NEW s \in Streams, NEW n \in Seqs, UNCHANGED <<failed, excused>>,
         \A t \in Streams : t # s => job'[t] = job[t],
         job'[s].pc # "idle", job'[s].seq = n, job[s].pc = "idle" \/ job[s].seq = n,
         \A t \in Streams, m \in Seqs : t # s \/ m # n => spool'[t][m] = spool[t][m]
  PROVE  StagedIsReported'
<1> SUFFICES ASSUME NEW t \in Streams, NEW m \in Seqs, (<<t, m>> \in Staged)'
             PROVE  Owed(t, m)'
  BY ReportedIffPrimed
<1>1. CASE t = s /\ m = n
  BY <1>1 DEF Owed
<1>2. CASE t # s \/ m # n
  <2>1. <<t, m>> \in Staged
    BY <1>2, StagedIff, StagedIffPrimed DEF BundleComplete
  <2>2. Owed(t, m)
    BY <2>1, ReportedIff
  <2> QED BY <1>2, <2>2 DEF Owed
<1> QED BY <1>1, <1>2

(* A job that ends, with the directories as they are, leaves only its own     *)
(* bundle to be recorded.                                                   *)
LEMMA EndingStep ==
  ASSUME StagedIsReported, NEW s \in Streams,
         \A t \in Streams : t # s => job'[t] = job[t],
         \A t \in Streams, m \in Seqs, x \in Suffixes :
           spool'[t][m][x] # Absent => spool[t][m][x] # Absent,
         \A t \in Streams, m \in Seqs : <<t, m>> # Current(s) =>
           /\ <<t, m>> \in failed => <<t, m>> \in failed'
           /\ <<t, m>> \in excused => <<t, m>> \in excused',
         Current(s) \in Staged' => Current(s) \in failed' \cup excused'
  PROVE  StagedIsReported'
<1> SUFFICES ASSUME NEW t \in Streams, NEW m \in Seqs, (<<t, m>> \in Staged)'
             PROVE  Owed(t, m)'
  BY ReportedIffPrimed
<1>1. <<t, m>> \in Staged /\ Owed(t, m)
  BY StagedIff, StagedIffPrimed, ReportedIff DEF BundleComplete
<1>2. CASE <<t, m>> = Current(s)
  BY <1>2 DEF Owed
<1>3. CASE <<t, m>> # Current(s)
  BY <1>1, <1>3 DEF Owed, Current
<1> QED BY <1>2, <1>3

LEMMA UnrecordedReported ==
  ASSUME Inv, StagedIsReported, NEW s \in Streams, Unrecorded(s)
  PROVE  StagedIsReported'
<1>0. /\ UNCHANGED <<failed, excused>>
      /\ job[s].seq \in Seqs /\ job[s] \in Jobs
      /\ spool \in [Streams -> [Seqs -> Artifacts]]
  BY DEF Unrecorded, Inv, TypeOK, Jobs
<1>1. ASSUME NEW n \in Seqs, NEW c \in Contents, StartExport(s, n, c) PROVE StagedIsReported'
  <2>1. /\ job[s].pc = "idle" /\ job'[s].pc = "write" /\ job'[s].seq = n
        /\ \A t \in Streams : t # s => job'[t] = job[t]
        /\ spool' = spool
    BY <1>1 DEF StartExport, Inv, TypeOK
  <2> QED BY <1>0, <2>1, WorkingStep
<1>2. CASE WriteArchive(s) \/ RecoverArchive(s) \/ PublishArchived(s)
  <2>0. job[s].pc # "idle" /\ \E pc \in {"publish", "commit", "replay", "upload"} : Advance(s, pc)
    BY <1>2 DEF WriteArchive, RecoverArchive, PublishArchived
  <2>1. /\ job'[s].pc # "idle" /\ job'[s].seq = job[s].seq
        /\ \A t \in Streams : t # s => job'[t] = job[t]
    <3> PICK pc \in {"publish", "commit", "replay", "upload"} : Advance(s, pc)
      BY <2>0
    <3> HIDE DEF Advance
    <3> QED BY <2>0, AdvanceFacts DEF Inv
  <2>2. \A t \in Streams, m \in Seqs : t # s \/ m # job[s].seq => spool'[t][m] = spool[t][m]
    <3>1. CASE WriteArchive(s) \/ RecoverArchive(s)
      <4> spool' = spool
        BY <3>1 DEF WriteArchive, RecoverArchive
      <4> QED OBVIOUS
    <3>2. CASE PublishArchived(s)
      <4> DEFINE v == archive[s][job[s].seq][SuffixOrder[job[s].next]]
                 x == SuffixOrder[job[s].next]
      <4>1. spool' = [spool EXCEPT ![s][job[s].seq][x] = v]
        BY <3>2 DEF PublishArchived
      <4> HIDE DEF v, x
      <4> QED BY <1>0, <4>1
    <3> QED BY <1>2, <3>1, <3>2
  <2> QED BY <1>0, <2>1, <2>2, WorkingStep
<1>3. CASE CommitSequence(s)
  <2>1. /\ job'[s].pc = "upload" /\ job'[s].seq = job[s].seq
        /\ \A t \in Streams : t # s => job'[t] = job[t]
        /\ spool' = spool
    BY <1>3, GotoFacts DEF CommitSequence, Inv
  <2> QED BY <1>0, <2>1, WorkingStep
<1>4. ASSUME NEW n \in Seqs, NEW x \in Suffixes, CarrierTakes(s, n, x) PROVE StagedIsReported'
  BY <1>4, ReportedIffPrimed, StagedIffPrimed DEF CarrierTakes
<1>5. ASSUME NEW n \in Seqs, OperatorClearsResidue(s, n) PROVE StagedIsReported'
  <2>1. /\ job' = job
        /\ \A t \in Streams, m \in Seqs : t # s \/ m # n => spool'[t][m] = spool[t][m]
        /\ spool'[s][n] = NoArtifacts
    BY <1>0, <1>5 DEF OperatorClearsResidue
  <2> SUFFICES ASSUME NEW t \in Streams, NEW m \in Seqs, (<<t, m>> \in Staged)'
               PROVE  Owed(t, m)'
    BY ReportedIffPrimed
  <2>2. t # s \/ m # n
    BY <2>1, StagedIffPrimed DEF NoArtifacts, Suffixes
  <2>3. <<t, m>> \in Staged
    BY <2>1, <2>2, StagedIff, StagedIffPrimed DEF BundleComplete
  <2> QED BY <1>0, <2>1, <2>3, ReportedIff DEF Owed
<1> QED BY <1>1, <1>2, <1>3, <1>4, <1>5 DEF Unrecorded

LEMMA EndedReported ==
  ASSUME Inv, StagedIsReported, NEW s \in Streams,
         \/ Abandon(s)
         \/ AbandonReplayed(s)
         \/ TransferFails(s)
         \/ \E kept \in SUBSET Suffixes : TransferSucceeds(s, kept)
         \/ NoTransport(s)
  PROVE  StagedIsReported'
<1>0. /\ job[s].seq \in Seqs /\ spool \in [Streams -> [Seqs -> Artifacts]]
      /\ Current(s) = <<s, job[s].seq>>
  BY DEF Inv, TypeOK, Jobs, Current
<1>1. ASSUME Release(s) PROVE \A t \in Streams : t # s => job'[t] = job[t]
  BY <1>1 DEF Release, Inv, TypeOK
<1>2. ASSUME NEW kept \in SUBSET Suffixes, Upload(s, kept)
      PROVE  /\ Release(s)
             /\ \A t \in Streams, m \in Seqs, x \in Suffixes :
                  spool'[t][m][x] # Absent => spool[t][m][x] # Absent
  BY <1>0, <1>2 DEF Upload, Artifacts
<1>3. CASE Abandon(s)
  <2>1. Release(s) /\ spool' = spool
    BY <1>3 DEF Abandon, Fails, CommitFails
  <2>2. Staged' = Staged
    BY <2>1 DEF Staged, Bundles, BundleComplete
  <2> QED BY <1>1, <1>3, <2>1, <2>2, EndingStep DEF Abandon
<1>4. CASE AbandonReplayed(s)
  <2>1. Current(s) \in Staged' => Current(s) \in Staged
    BY <1>0, <1>2, <1>4, StagedIff, StagedIffPrimed DEF AbandonReplayed, BundleComplete
  <2> QED BY <1>1, <1>2, <1>4, <2>1, EndingStep DEF AbandonReplayed
<1>5. CASE TransferFails(s)
  BY <1>1, <1>2, <1>5, EndingStep DEF TransferFails
<1>6. ASSUME NEW kept \in SUBSET Suffixes, TransferSucceeds(s, kept) PROVE StagedIsReported'
  BY <1>1, <1>2, <1>6, EndingStep DEF TransferSucceeds
<1>7. CASE NoTransport(s)
  BY <1>7, ReportedIffPrimed, StagedIffPrimed DEF NoTransport
<1> QED BY <1>3, <1>4, <1>5, <1>6, <1>7

(* readyz.go: with a push transport a bundle that was not handed over keeps   *)
(* the low side not ready, whatever exports, retries, crashes and restarts   *)
(* come between; the start-up scan makes up for the records that are lost.   *)
THEOREM StagedAlwaysReported == TransferSpec => []StagedIsReported
<1>1. ASSUME TransferInit PROVE StagedIsReported
  BY <1>1, ReportedIff DEF TransferInit, restoreDiodeTransferBacklog, Owed
<1>2. ASSUME Inv, StagedIsReported, [TransferNext]_transferVars PROVE StagedIsReported'
  <2>1. CASE UNCHANGED transferVars
    <3>1. Staged' = Staged
      BY <2>1 DEF transferVars, vars, Staged, Bundles, BundleComplete
    <3> QED BY <1>2, <2>1, <3>1, ReportedIff, ReportedIffPrimed DEF transferVars, vars, Owed
  <2>2. ASSUME NEW s \in Streams, Unrecorded(s) PROVE StagedIsReported'
    BY <1>2, <2>2, UnrecordedReported
  <2>3. ASSUME NEW s \in Streams, NEW n \in Seqs, Reexport(s, n) PROVE StagedIsReported'
    <3>1. /\ job[s].pc = "idle" /\ job'[s].pc # "idle" /\ job'[s].seq = n
          /\ \A t \in Streams : t # s => job'[t] = job[t]
          /\ spool' = spool /\ UNCHANGED <<failed, excused>>
      BY <1>2, <2>3 DEF Reexport, StartReplay, Inv, TypeOK
    <3> QED BY <1>2, <3>1, WorkingStep
  <2>4. ASSUME NEW s \in Streams,
               \/ Abandon(s) \/ AbandonReplayed(s) \/ TransferFails(s)
               \/ \E kept \in SUBSET Suffixes : TransferSucceeds(s, kept)
               \/ NoTransport(s)
        PROVE  StagedIsReported'
    BY <1>2, <2>4, EndedReported
  <2>5. ASSUME NEW older \in [Streams -> 0 .. MaxSeq + 1], NEW scanned \in BOOLEAN,
               RestartLow(older, scanned)
        PROVE  StagedIsReported'
    <3>1. Staged' = Staged /\ Staged \subseteq failed' \cup excused'
      BY <2>5 DEF RestartLow, Restart, restoreDiodeTransferBacklog, Staged, Bundles, BundleComplete
    <3> QED BY <3>1, ReportedIffPrimed DEF Owed
  <2> QED BY <1>2, <2>1, <2>2, <2>3, <2>4, <2>5 DEF TransferNext
<1>3. TransferSpec => []Inv
  BY TransferImplementsLowExport, InvAlways, PTL
<1> QED BY <1>1, <1>2, <1>3, PTL DEF TransferSpec
============================================================================
