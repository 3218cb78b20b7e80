----------------------------- MODULE HighImport -----------------------------
(***************************************************************************)
(* The high side's importer (highside.go): bundles arrive file by file in  *)
(* the landing directory while an import pass, under importMu, sorts them  *)
(* (future ones to quarantine, imported ones to duplicates, hopeless ones  *)
(* to rejected) and drains each stream strictly in sequence order: verify  *)
(* the signed manifest, extract, install into the repository, persist      *)
(* import-state.json, move the artifacts away.                             *)
(*                                                                         *)
(* One action is one file moved or one step of an import, so a transport   *)
(* can write between any two of them and the process can die there.  A     *)
(* file is good (the bytes that were signed) or bad (damaged on the way);  *)
(* the files inside a bundle are not told apart.                           *)
(***************************************************************************)
EXTENDS Integers, Sequences, FiniteSets

CONSTANTS
  Streams,         \* streams named by the files that arrive
  Supported,       \* those isKnownStream accepts
  MaxSeq,          \* sequences 1 .. MaxSeq exist on the low side
  MaxGap,          \* maxFutureSequenceGap
  MaxRounds,       \* maxImportRoundsPerPass
  MaxFaults,       \* bound: damaged files, failed steps, reaped sets and crashes
  Sent,            \* per stream the sequences the low side (re)transmits
  Timer,           \* TRUE: importLoop ticks; FALSE: --import-interval 0
  StuckMoves,      \* streams whose bundles cannot be moved into quarantine
  Preplaced        \* bundles an older release or a carrier left in quarantine

ASSUME ConstantsAssumption ==
  /\ MaxSeq \in Nat \ {0} /\ MaxGap \in Nat /\ MaxRounds \in Nat \ {0}
  /\ MaxFaults \in Nat
  /\ Sent \in [Streams -> SUBSET (1 .. MaxSeq)]
  /\ Timer \in BOOLEAN
  /\ Supported \subseteq Streams
  /\ StuckMoves \subseteq Streams
  /\ Preplaced \subseteq Streams \X (1 .. MaxSeq)

VARIABLES
  landing,      \* per stream, sequence and artifact: "none", "good" or "bad"
  quarantine,   \* as landing
  mem,          \* HighServer.state.Imported
  disk,         \* import-state.json
  installed,    \* highest bundle whose content the repository serves in full
  dups,         \* history: bundles shelved under landing/duplicates
  kick,         \* importKick holds a request
  pass,         \* the import pass that holds importMu
  faults        \* faults so far

dirs == <<landing, quarantine>>
counters == <<mem, disk, installed>>
vars == <<landing, quarantine, mem, disk, installed, dups, kick, pass, faults>>

Seqs == 1 .. MaxSeq
Bundles == Streams \X Seqs
Suffixes == {"tar.gz", "manifest.json", "manifest.json.sig"}
SuffixOrder == <<"tar.gz", "manifest.json", "manifest.json.sig">>
Artifacts == [Suffixes -> {"none", "good", "bad"}]
Empty == [x \in Suffixes |-> "none"]
Whole == [x \in Suffixes |-> "good"]

(* todo: bundles still to sort or sweep; queue, again: streams of this and   *)
(* of the next round; backlog: what each stream had at the start of the      *)
(* drain; at, src, dst, next, back, resume: the bundle at hand and its move; *)
(* fresh: bundles of which a file landed since the pass began.               *)
NoPass == [pc |-> "idle", todo |-> {}, queue |-> {}, again |-> {}, round |-> 0,
           backlog |-> [s \in Streams |-> {}], at |-> <<>>, src |-> "landing",
           dst |-> "quarantine", next |-> 1, back |-> "sort", resume |-> FALSE, fresh |-> {}]
Passes ==
  [pc : {"idle", "sort", "move", "sweep", "drain", "verify", "extract", "install", "commit"},
   todo : SUBSET Bundles, queue : SUBSET Streams, again : SUBSET Streams,
   round : 0 .. MaxRounds, backlog : [Streams -> SUBSET Seqs], at : Bundles \cup {<<>>},
   src : {"landing", "quarantine"}, dst : {"quarantine", "duplicates", "rejected", "imported"},
   next : 1 .. 3, back : {"sort", "sweep", "drain"}, resume : BOOLEAN, fresh : SUBSET Bundles]

Dir(d) == IF d = "landing" THEN landing ELSE quarantine
Complete(dir, b) == \A x \in Suffixes : dir[b[1]][b[2]][x] # "none"

(* The only sequence a stream accepts: checkManifestFields wants its         *)
(* PreviousSequence to be the imported one.                                 *)
NextPresent(s) ==   \* mutant: a gap is skipped
  LET later == {n \in Seqs : n > mem[s] /\ (Complete(landing, <<s, n>>) \/ Complete(quarantine, <<s, n>>))}
  IN  IF later = {} THEN mem[s] + 1 ELSE CHOOSE n \in later : \A m \in later : n <= m
NextSeq(s) == mem[s] + 1

(* The import can never reach it: an unsupported stream, or too far ahead.   *)
Unreachable(b) ==
  b[1] \notin Supported \/ (b[2] > NextSeq(b[1]) /\ b[2] - NextSeq(b[1]) > MaxGap)

(* findBundleStreams: a bundle is listed once its manifest is there.        *)
Listed(dir) == {b \in Bundles : dir[b[1]][b[2]]["manifest.json"] # "none"}

(* findBundleDirLocked: landing before quarantine.                          *)
Found(b) == Complete(landing, b) \/ Complete(quarantine, b)
FindBundleDir(b) == IF Complete(landing, b) THEN "landing" ELSE "quarantine"

(* streamStatusLocked: the complete sequences of a stream in either          *)
(* directory; the drain only asks whether the highest is still ahead.       *)
Backlog(s) == {n \in Seqs : Found(<<s, n>>)}

Init ==
  /\ landing = [s \in Streams |-> [n \in Seqs |-> Empty]]
  /\ quarantine = [s \in Streams |-> [n \in Seqs |->
                     IF <<s, n>> \in Preplaced THEN Whole ELSE Empty]]
  /\ mem = [s \in Streams |-> 0]
  /\ disk = [s \in Streams |-> 0]
  /\ installed = [s \in Streams |-> 0]
  /\ dups = {}
  /\ kick = FALSE
  /\ pass = NoPass
  /\ faults = 0

Fault == faults < MaxFaults /\ faults' = faults + 1

----------------------------------------------------------------------------
(* A transport stores one artifact by rename (writeStreamAtomicLimit, the    *)
(* UDP catcher, a folder carrier), in any order and again at any time.  The  *)
(* file that completes a bundle in landing requests an import.              *)
Arrive(s, n, x, v) ==
  /\ n \in Sent[s]
  /\ landing' = [landing EXCEPT ![s][n][x] = v]
  /\ kick' = (kick \/ Complete(landing', <<s, n>>))
  /\ pass' = IF pass.pc = "idle" THEN pass ELSE [pass EXCEPT !.fresh = @ \cup {<<s, n>>}]
  /\ UNCHANGED <<quarantine, counters, dups>>

ArriveGood(s, n, x) == Arrive(s, n, x, "good") /\ UNCHANGED faults
ArriveBad(s, n, x) == Arrive(s, n, x, "bad") /\ Fault

----------------------------------------------------------------------------
(* ImportNext takes importMu: from the kick worker, the timer or an          *)
(* operator's POST /admin/import.  The scan lists both directories.         *)
StartPass ==
  /\ pass.pc = "idle"
  /\ kick \/ Timer
  /\ kick' = FALSE
  /\ pass' = [NoPass EXCEPT !.pc = "sort", !.todo = Listed(landing)
                             \cup {b \in Listed(quarantine) : b[1] \in Supported}]
  /\ UNCHANGED <<dirs, counters, dups, faults>>

(* Set out to move bundle b's artifacts, then come back to pc.              *)
Move(b, src, dst, back, resume) ==
  pass' = [pass EXCEPT !.pc = "move", !.at = b, !.src = src, !.dst = dst, !.next = 1,
                       !.back = back, !.resume = resume, !.todo = @ \ {b}]

(* sortLandingStreamsLocked, one listed bundle at a time.  A supported       *)
(* bundle that an interrupted move left in two pieces is put together again. *)
NeverResumed(b) == FALSE   \* mutant: only whole bundles are sorted
ResumeNeeded(b) ==
  /\ b[2] >= NextSeq(b[1])
  /\ ~Complete(quarantine, b)
  /\ \A x \in Suffixes : \/ landing[b[1]][b[2]][x] # "none"
                         \/ quarantine[b[1]][b[2]][x] # "none"

SortBundle(b) ==
  /\ pass.pc = "sort" /\ b \in pass.todo
  /\ IF ~Complete(landing, b) /\ b[1] \in Supported
     THEN IF ResumeNeeded(b)
          THEN Move(b, "landing", "quarantine", "sort", TRUE)
          ELSE pass' = [pass EXCEPT !.todo = @ \ {b}]
     ELSE CASE Unreachable(b) -> Move(b, "landing", "rejected", "sort", FALSE)
            [] ~Unreachable(b) /\ b[2] > NextSeq(b[1]) ->
                 Move(b, "landing", "quarantine", "sort", FALSE)
            [] ~Unreachable(b) /\ b[2] <= mem[b[1]] -> Move(b, "landing", "duplicates", "sort", FALSE)
            [] OTHER -> pass' = [pass EXCEPT !.todo = @ \ {b}]
  /\ UNCHANGED <<dirs, counters, dups, kick, faults>>

(* moveBundleFiles and resumeBundleMove, one artifact at a time; a resumed   *)
(* move keeps what the destination already has.                             *)
MoveFile ==
  /\ pass.pc = "move"
  /\ ~(pass.dst = "quarantine" /\ pass.at[1] \in StuckMoves)
  /\ LET s == pass.at[1]
         n == pass.at[2]
         x == SuffixOrder[pass.next]
         v == Dir(pass.src)[s][n][x]
         keep == pass.resume /\ quarantine[s][n][x] # "none"
         moves == v # "none" /\ ~keep
     IN /\ landing' = [landing EXCEPT ![s][n][x] =
                         IF moves /\ pass.src = "landing" THEN "none" ELSE @]
        /\ quarantine' = [quarantine EXCEPT ![s][n][x] =
                            CASE moves /\ pass.dst = "quarantine" -> v
                              [] moves /\ pass.src = "quarantine" -> "none"
                              [] OTHER -> @]
        /\ dups' = IF pass.dst = "duplicates" THEN dups \cup {pass.at} ELSE dups
  /\ pass' = IF pass.next < 3 THEN [pass EXCEPT !.next = @ + 1]
             ELSE [pass EXCEPT !.pc = pass.back, !.at = <<>>]
  /\ UNCHANGED <<counters, kick, faults>>

(* rejectInvalidQuarantineLocked and the status refresh, once all listed     *)
(* bundles are sorted: what quarantine holds out of reach goes.              *)
ScanForStreamsOnly ==   \* mutant: the gap limit is only applied to landing
  /\ pass.pc = "sort" /\ pass.todo = {}
  /\ pass' = [pass EXCEPT !.pc = "sweep",
                          !.todo = {b \in Listed(quarantine) : b[1] \notin Supported}]
  /\ UNCHANGED <<dirs, counters, dups, kick, faults>>
StartSweep ==
  /\ pass.pc = "sort" /\ pass.todo = {}
  /\ pass' = [pass EXCEPT !.pc = "sweep",
                          !.todo = {b \in Listed(quarantine) : Unreachable(b)}]
  /\ UNCHANGED <<dirs, counters, dups, kick, faults>>

SweepBundle(b) ==
  /\ pass.pc = "sweep" /\ b \in pass.todo
  /\ Move(b, "quarantine", "rejected", "sweep", FALSE)
  /\ UNCHANGED <<dirs, counters, dups, kick, faults>>

DrainTogether ==   \* mutant: a blocked stream holds the others back
  /\ pass.pc = "sweep" /\ pass.todo = {}
  /\ pass' = [pass EXCEPT !.pc = "drain", !.round = 1,
                          !.queue = IF \A s \in Supported : Found(<<s, NextSeq(s)>>)
                                    THEN Supported ELSE {},
                          !.backlog = [s \in Streams |-> Backlog(s)]]
  /\ UNCHANGED <<dirs, counters, dups, kick, faults>>
StartDrain ==
  /\ pass.pc = "sweep" /\ pass.todo = {}
  /\ pass' = [pass EXCEPT !.pc = "drain", !.round = 1,
                          !.queue = {s \in Supported : NextSeq(s) \in Seqs /\ Found(<<s, NextSeq(s)>>)},
                          !.backlog = [s \in Streams |-> Backlog(s)]]
  /\ UNCHANGED <<dirs, counters, dups, kick, faults>>

----------------------------------------------------------------------------
(* importStreamTurnLocked: at most one bundle of a stream per round.        *)
StartTurn(s) ==
  /\ pass.pc = "drain" /\ s \in pass.queue
  /\ LET b == <<s, NextSeq(s)>> IN
     pass' = IF NextSeq(s) \in Seqs /\ Found(b)
             THEN [pass EXCEPT !.pc = "verify", !.at = b, !.src = FindBundleDir(b),
                               !.queue = @ \ {s}]
             ELSE [pass EXCEPT !.queue = @ \ {s}]
  /\ UNCHANGED <<dirs, counters, dups, kick, faults>>

Current(x) == Dir(pass.src)[pass.at[1]][pass.at[2]][x]

(* loadVerifiedManifest, then extractAndVerifyTarGz into fresh staging: a    *)
(* bad artifact makes the bundle invalid and it is moved to rejected.       *)
Verifies(x) == Current(x) = "good"

VerifyManifest ==
  /\ pass.pc = "verify"
  /\ IF Verifies("manifest.json") /\ Verifies("manifest.json.sig")
     THEN pass' = [pass EXCEPT !.pc = "extract"]
     ELSE Move(pass.at, pass.src, "rejected", "drain", FALSE)
  /\ UNCHANGED <<dirs, counters, dups, kick, faults>>

Extract ==
  /\ pass.pc = "extract"
  /\ IF Verifies("tar.gz")
     THEN pass' = [pass EXCEPT !.pc = "install"]
     ELSE Move(pass.at, pass.src, "rejected", "drain", FALSE)
  /\ UNCHANGED <<dirs, counters, dups, kick, faults>>

(* installVerifiedBundle: files, then each ecosystem's publish hook, then    *)
(* complete markers; repeating it for a bundle changes nothing.             *)
Install ==
  /\ pass.pc = "install"
  /\ installed' = [installed EXCEPT ![pass.at[1]] = pass.at[2]]
  /\ pass' = [pass EXCEPT !.pc = "commit"]
  /\ UNCHANGED <<dirs, mem, disk, dups, kick, faults>>

(* commitImportedStateLocked: the file first, memory only after it, and      *)
(* then the artifacts leave landing or quarantine.                          *)
Commit ==
  /\ pass.pc = "commit"
  /\ LET s == pass.at[1] IN
     /\ disk' = [mem EXCEPT ![s] = pass.at[2]]
     /\ mem' = disk'
     /\ pass' = [pass EXCEPT !.pc = "move", !.dst = "imported", !.next = 1, !.resume = FALSE,
                             !.back = "drain",
                             !.again = IF \E n \in pass.backlog[s] : pass.at[2] < n
                                      THEN @ \cup {s} ELSE @]
  /\ UNCHANGED <<dirs, installed, dups, kick, faults>>

(* A failed save leaves memory behind; the rename may have happened already. *)
MemoryFirst ==   \* mutant: the counter is advanced before the save
  /\ pass.pc = "commit" /\ Fault
  /\ mem' = [mem EXCEPT ![pass.at[1]] = pass.at[2]]
  /\ pass' = [pass EXCEPT !.pc = "drain", !.at = <<>>]
  /\ UNCHANGED <<dirs, disk, installed, dups, kick>>
CommitFails ==
  /\ pass.pc = "commit" /\ Fault
  /\ disk' \in {disk, [mem EXCEPT ![pass.at[1]] = pass.at[2]]}
  /\ pass' = [pass EXCEPT !.pc = "drain", !.at = <<>>]
  /\ UNCHANGED <<dirs, mem, installed, dups, kick>>

(* An operational error (I/O, full staging disk, missing prior content, a    *)
(* too-new manifest) ends the stream's turn and leaves the bundle in place.  *)
TurnFails ==
  /\ pass.pc \in {"verify", "extract", "install"} /\ Fault
  /\ pass' = [pass EXCEPT !.pc = "drain", !.at = <<>>]
  /\ UNCHANGED <<dirs, counters, dups, kick>>

(* A failed move of imported artifacts is only logged; while sorting or      *)
(* sweeping it ends the whole pass; while draining it ends the drain.        *)
MoveFails ==
  /\ pass.pc = "move"
  /\ Fault \/ (pass.dst = "quarantine" /\ pass.at[1] \in StuckMoves /\ UNCHANGED faults)
  /\ pass' = CASE pass.dst = "imported" -> [pass EXCEPT !.pc = "drain", !.at = <<>>]
               [] pass.dst = "rejected" /\ pass.back = "drain" ->
                    [pass EXCEPT !.pc = "drain", !.queue = {}, !.again = {}]
               [] OTHER -> NoPass
  /\ UNCHANGED <<dirs, counters, dups, kick>>

UncappedRound ==   \* mutant: maxImportRoundsPerPass is not applied
  /\ pass.pc = "drain" /\ pass.queue = {} /\ pass.again # {}
  /\ pass' = [pass EXCEPT !.round = @ + 1, !.queue = pass.again, !.again = {}]
  /\ UNCHANGED <<dirs, counters, dups, kick, faults>>
NextRound ==
  /\ pass.pc = "drain" /\ pass.queue = {}
  /\ pass.again # {} /\ pass.round < MaxRounds
  /\ pass' = [pass EXCEPT !.round = @ + 1, !.queue = pass.again, !.again = {}]
  /\ UNCHANGED <<dirs, counters, dups, kick, faults>>

(* reapUnverifiedLocked may delete an incomplete landing set whose newest    *)
(* file is older than 48 hours, so not one that landed since the pass began; *)
(* then the pass ends, asking for another one if it stopped early.           *)
ReapIncomplete(b) ==
  /\ pass.pc = "drain" /\ pass.queue = {}
  /\ pass.again = {} \/ pass.round = MaxRounds
  /\ ~Complete(landing, b) /\ landing[b[1]][b[2]] # Empty /\ b \notin pass.fresh
  /\ Fault
  /\ landing' = [landing EXCEPT ![b[1]][b[2]] = Empty]
  /\ UNCHANGED <<quarantine, counters, dups, kick, pass>>

SilentEnd ==   \* mutant: the early stop asks for nothing
  /\ pass.pc = "drain" /\ pass.queue = {}
  /\ pass.again = {} \/ pass.round = MaxRounds
  /\ pass' = NoPass
  /\ UNCHANGED <<dirs, counters, dups, kick, faults>>
EndPass ==
  /\ pass.pc = "drain" /\ pass.queue = {}
  /\ pass.again = {} \/ pass.round = MaxRounds
  /\ kick' = (kick \/ pass.again # {})
  /\ pass' = NoPass
  /\ UNCHANGED <<dirs, counters, dups, faults>>

(* The process dies and loadState reads import-state.json back; a pending    *)
(* kick is gone.                                                            *)
Restart ==
  /\ Fault
  /\ mem' = disk
  /\ kick' = FALSE
  /\ pass' = NoPass
  /\ UNCHANGED <<dirs, disk, installed, dups>>

PassStep ==
  \/ StartPass
  \/ \E b \in Bundles : SortBundle(b) \/ SweepBundle(b)
  \/ MoveFile
  \/ StartSweep
  \/ StartDrain
  \/ \E s \in Streams : StartTurn(s)
  \/ VerifyManifest
  \/ Extract
  \/ Install
  \/ Commit
  \/ NextRound
  \/ EndPass

Next ==
  \/ \E s \in Streams, n \in Seqs, x \in Suffixes :
       ArriveGood(s, n, x) \/ ArriveBad(s, n, x)
  \/ PassStep
  \/ CommitFails
  \/ TurnFails
  \/ MoveFails
  \/ \E b \in Bundles : ReapIncomplete(b)
  \/ Restart

Spec == Init /\ [][Next]_vars

(* The low side transmits again what the status reports as missing.          *)
Retransmit(s, n, x) ==
  /\ n > mem[s] /\ ~Found(<<s, n>>) /\ landing[s][n][x] = "none"
  /\ ArriveGood(s, n, x)

(* The worker goroutine and the timer keep running passes.                  *)
Fairness ==
  /\ WF_vars(PassStep)
  /\ WF_vars(MoveFails /\ UNCHANGED faults)
  /\ \A s \in Streams, n \in Seqs, x \in Suffixes : WF_vars(Retransmit(s, n, x))

FairSpec == Spec /\ Fairness

----------------------------------------------------------------------------
(* Types of the importer's state.                                           *)
TypeOK ==
  /\ landing \in [Streams -> [Seqs -> Artifacts]]
  /\ quarantine \in [Streams -> [Seqs -> Artifacts]]
  /\ mem \in [Streams -> 0 .. MaxSeq]
  /\ disk \in [Streams -> 0 .. MaxSeq]
  /\ installed \in [Streams -> 0 .. MaxSeq]
  /\ dups \subseteq Bundles
  /\ kick \in BOOLEAN
  /\ faults \in 0 .. MaxFaults
  /\ pass \in Passes
  /\ pass.pc \in {"move", "verify", "extract", "install", "commit"} => pass.at \in Bundles

(* "The in-memory counter must never run ahead of the durable state", and    *)
(* the repository serves what the durable state says was imported, and at    *)
(* most the one bundle whose commit is still outstanding.                   *)
CountersOrdered ==
  \A s \in Streams : /\ mem[s] <= disk[s]
                     /\ disk[s] <= installed[s]
                     /\ installed[s] <= mem[s] + 1

(* A bundle that the durable state still wants is never filed under          *)
(* duplicates/, which no pass ever searches.                                *)
NoWantedBundleShelved == \A b \in dups : b[2] <= disk[b[1]]

(* All three signed artifacts of b are there, spread over both directories,  *)
(* and no damaged copy is.                                                  *)
Held(b) ==
  LET l == landing[b[1]][b[2]]
      q == quarantine[b[1]][b[2]]
  IN  /\ \A x \in Suffixes : l[x] = "good" \/ q[x] = "good"
      /\ \A x \in Suffixes : l[x] # "bad" /\ q[x] # "bad"

(* deployment.md: "Future bundles that arrive early are retained in          *)
(* quarantine, never discarded".  Once a reachable bundle has arrived whole  *)
(* it stays whole through every move, crash, resumed move and reap, until    *)
(* its import is durable.  A transport can damage it, and the pass that      *)
(* rejects a damaged copy takes along what replaced it meanwhile.            *)
FutureBundleKept ==
  [][\A b \in Bundles :
       Held(b) /\ b[2] > disk[b[1]] /\ ~Unreachable(b) =>
         \/ Held(b)'
         \/ b[2] <= disk'[b[1]]
         \/ pass.at = b /\ pass.dst = "rejected"
         \/ \E x \in Suffixes : landing'[b[1]][b[2]][x] = "bad"]_vars

(* "rejectInvalidQuarantineLocked also cleans" what should not be there:     *)
(* while streams drain, every bundle in quarantine can still be imported.    *)
QuarantineWithinReach ==
  pass.pc \in {"drain", "verify", "extract", "install", "commit"} =>
    \A b \in Listed(quarantine) : ~Unreachable(b)

(* Whatever the low side keeps transmitting is imported as far as it has no  *)
(* gap, whatever another stream misses and whichever bounded number of       *)
(* crashes, damaged files and failed steps happens on the way.              *)
EveryStreamDrains ==
  \A s \in Supported, n \in Seqs : (1 .. n) \subseteq Sent[s] => <>(disk[s] >= n)

(* troubleshooting.md: "If a bundle is stuck in quarantine forever, the      *)
(* predecessor is genuinely missing": between passes quarantine holds only   *)
(* bundles that are still to be imported.                                   *)
QuarantineHoldsFutureOnly ==
  pass.pc = "idle" => \A b \in Bundles : Complete(quarantine, b) => b[2] > mem[b[1]]

(* The content of the repository only ever advances by the next bundle.     *)
Served == INSTANCE OrderedDelivery WITH applied <- installed
InOrder == Served!Spec
=============================================================================
