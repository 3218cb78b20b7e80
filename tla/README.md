# ArtiGate in TLA+

ArtiGate mirrors package ecosystems across a one-way data diode. A low-side
server collects upstream packages and packs them into signed bundles, numbered
per stream (`go`, `npm`, `containers`, ...). A transport carries the three
artifacts of each bundle across: archive `tar.gz`, `manifest.json` and
`manifest.json.sig`. The high-side server verifies and imports the bundles
strictly in order, and serves the result. Nothing flows back: the low side learns of a loss
only when an operator carries a gap report over.

All code named here is in `src/cmd/artigate/`.

## 1. The system

| Part | State | Operations | What makes it correct |
|---|---|---|---|
| Low-side numbering and archive (`lowside.go`, `bundle.go`) | `low-state.json` and its copy in memory, the archive `<Root>/bundles`, the export directory, one lock per stream | allocate, write, publish, commit, upload, re-export, load state | a number stands for one content for ever; every number has a bundle that can be sent again |
| Export dedup index (`exported.go`, `exportIfNew`) | four SQLite tables | query, invalidate, record, mark and clear pending | it claims only what the receiver gets; a skipped collect loses nothing |
| Push transports (`diode.go`, `sftp*.go`, `pitcher.go`) | failure records in memory, the staged files | upload, retry, clear the export directory, scan at start-up | the spool is cleared only after a successful hand-over; a bundle that waits is reported |
| High-side import (`highside.go`, `bundle.go`) | `import-state.json` and its copy in memory, landing, quarantine, rejected, imported and duplicates directories | sort, sweep, drain, verify, extract, install, commit, reap | in-order application; early bundles kept; streams independent; eventually drained |
| HTTP and SFTP ingest (`diode.go`, `sftp_receive.go`) | hidden temporaries, landing directory, `ingestMu`, unverified-bytes quota | store an uploaded artifact; poll, download and publish an SFTP bundle | a set is never completed from two copies; the quota is never exceeded |
| UDP diode (`diodewire.go`, `pitcher.go`, `catcher.go`) | reassembly per transfer, kept partial files, finished transfers | send, repair by parity, evict, keep, resume, land | loss, duplication and reordering never yield a wrong file; the quota holds |
| Heartbeat (`diodeheartbeat.go`, status in `highside.go`) | last accepted heartbeat, published status | emit, accept, lay over the status | an old heartbeat never lowers what is expected; a loss is reported |
| Repository install (`highside.go`, `archive.go`) | repository tree, staging | extract, install | repeated installation changes nothing |
| Retention and recovery (`recovery_*.go`) | retention journals, sequence ledger, checkpoints, process lock | plan, prune, resume, checkpoint, restore a receiver | a pruned number is never reused; no receiver is stranded |
| Jobs and watches (`jobs.go`, `jobs_http.go`, `watch.go`) | queue and dispatcher per stream, claims, log rings, watch rows | submit, run, stop, shut down, follow, tick, edit | a job ends; a watch never runs beside itself; no line is lost silently |
| Package collects (`npm.go`, `python.go`, `crates.go`, ...) | work list, what is done, manifest records | resolve, download, skip, write | closed or reported as incomplete; the receiver accepts the manifest |
| Package publication (the same files, and `snap.go`) | stored documents, generated indexes | validate, re-derive, regenerate, commit | an index names only what is installed |
| OS repositories (`apt.go`, `rpm.go`, `apk.go`) | accumulated record, metadata files | filter, fetch, install, merge, sign | the same, for packages; nothing that was served disappears |
| Containers (`container*.go`) | discovery status, repository index, blob store | resolve, discover attachments, export, merge | complete means all; a digest stays pullable |
| Git and Hugging Face (`gitmirror.go`, `hf.go`) | packs and plumbing files; blobs and indexes | collect, export, install, publish | what is served can be fetched |
| Uploads, checksum database, OSV, authentication, UI, metrics | see PROJECT.json | | |

**How they interact.** A collect holds its stream's lock, asks the dedup index
which files the receiver already has, and writes one bundle or several through
the numbering path. A transport empties the export directory into the other
side's landing directory. Each stored artifact that completes a bundle puts a
request into a one-slot channel. A worker goroutine, the `importLoop` timer or
`POST /admin/import` then runs a pass under `importMu`. Missing numbers come
back to the low side by hand as a re-export range.

**What is hard to test.**

- A crash or failed save between two file operations.
- A carrier that takes files in the middle of a publication.
- One state file shared by all streams.
- State files restored from an older copy.
- Collects that stop between a write and its record.
- Arrivals during a pass, retransmission of bundles already held, and moves
  interrupted halfway.
- Requests coalesced into one slot.
- One stream's trouble reaching another.
- Quotas that several transports share with an importer that moves files.
- Datagrams and heartbeats that are lost, repeated and reordered.
- Retention that is killed between its steps and resumed.
- Goroutines that go away while work is submitted; ticks over rows being edited.
- Items that fail in the middle of a collect, after others relied on them.
- Served metadata that consists of several files, written one after another.

PROJECT.json lists these hazards with their lines.

## 2. Modules

| Module | Models | Code |
|---|---|---|
| `LowExport` | numbering, archive, publication, commit, upload, re-export, restart | `lowside.go`, `bundle.go`, `diode.go` |
| `Transfer` | failure records of a push transport, their start-up scan and the readiness check; refines `LowExport` | `diode.go`, `metrics.go`, `readyz.go` |
| `ExportIndex` | the dedup index and `exportIfNew`, with the receiver's resulting content | `exported.go`, `lowside.go` |
| `HighImport` | landing, quarantine and the import pass | `highside.go`, `bundle.go` |
| `OrderedDelivery` | abstract promise to readers: bundles 1, 2, 3, ... applied one at a time | |
| `Ingest` | HTTP and SFTP reception beside the importer, under one quota | `diode.go`, `sftp_receive.go` |
| `UdpDiode` | one file crossing the UDP diode | `pitcher.go`, `diodewire.go`, `catcher.go` |
| `Monitor` | heartbeats and the status of missing bundles | `diodeheartbeat.go`, `highside.go` |
| `Recovery` | retention, ledger, checkpoints | `recovery_*.go` |
| `Jobs`, `JobLog` | job queues and watches; one job's followed log | `jobs.go`, `watch.go`, `jobs_http.go` |
| `Collect` | the collect of fifteen package ecosystems | `npm.go`, `crates.go`, `lowside.go`, ... |
| `Publish` | the import and publication of fourteen streams | the same, `highside.go` |
| `OsRepos` | APT, RPM and APK mirrors end to end | `apt.go`, `rpm.go`, `apk.go` |
| `Containers` | container images of one repository end to end | `container*.go` |
| `GitMirror`, `HfMirror` | a git repository; a model and a model repository | `gitmirror.go`, `hf.go` |
| `MCLowExport`, `MCHighImport` | constants for TLC | |
| `MCServices`, `MCEcosystems` | the modules that share no state side by side, with constants for TLC: a behaviour picks one `area` and stays in it | |
| `LowExportProofs`, `HighImportProofs`, `RecoveryProofs`, `JobsProofs` | theorems about these modules (and `Transfer`, `JobLog`) | |
| `ServicesProofs`, `DiodeProofs`, `RepositoryProofs`, `EcosystemsProofs` | theorems about `ExportIndex`, `GitMirror` and `MCServices`; `UdpDiode`, `Ingest` and `Monitor`; `Containers`, `OsRepos`, `Publish` and `HfMirror`; `Collect` and `MCEcosystems` | |

Operators marked `mutant` in a comment are deliberate bugs. The specification
never uses them; substituting one for the definition below it must make a named
property fail, which shows that the property depends on the code.

### LowExport

- `mem` and `disk` are `LowState.Sequences` in memory and in `low-state.json`.
- `archive` and `spool` are the two directories, per stream, number and artifact.
- `job[s]` is the export or re-export that holds the stream lock.
- `seen` is history: the contents that became visible to a carrier under a number.

One action is one renamed file or one save, so everything can happen in
between. `StartExport` is `allocateSequence`, and `WriteArchive`,
`PublishArchived`, `CommitSequence` or `CommitFails`, and `Upload` follow
`exportSequencedBundle` in its order. `StartReplay` and `RecoverArchive` are a
re-export of an archived number, or of one only the spool holds.

`Restart` reads back the saved counters *or any older ones*, as a lost or
restored state file would give. `recovery-ledger.json` is a pair of constants,
because only the offline retention command writes it.

The environment is a folder carrier that takes any visible file at any time,
and an operator who deletes crash residue as the error message says.

### Transfer

Every step of `LowExport`, with what it does to the records in memory: `failed`
is `lowMetrics.diodeFailed`, `replaying` tells a re-export from an export.
`TransferFails` and `TransferSucceeds` are `uploadBundleIfConfigured` followed
by `recordDiodeTransfer`. `RestartLow` loses the records and scans the spool
(`restoreDiodeTransferBacklog`); the scan itself may fail.

`StagedIsReported` says that a complete bundle in the spool of a push transport
is held by an export, or makes `checkDiodeTransfers` fail. The history variable
`excused` names the three exceptions that the code has: a transfer succeeded but
its files could not all be removed; an export or re-export returned an error
after publication, before the transfer (a failed save, for instance), which its
caller sees but no record; the start-up scan failed.

### ExportIndex

The four tables are sets of rows; `repo`, `rmeta` and `bare` are what the
receiver has after importing every written bundle in order. The state names
`fwd`, `mfwd`, `fmeta` and `pending` stand for `forwarded_files`,
`mutable_forwarded_files`, `forwarded_metadata` and `pending_metadata_files`.

Each store transaction is one action. `Abort` may come between any two of them
and stands for an error return, a cancellation or a crash. A query that fails
is treated as "not forwarded", as in the code, so `Collect` may mark fewer files
prior than the index says. A split may cut the files anywhere, although the
code cuts by size.

### HighImport

`landing` and `quarantine` hold each artifact as absent, good or damaged.
`mem` and `disk` are `HighState.Imported`, `installed` is the last bundle in
the repository, `kick` is the one-slot channel, `pass` is the pass that holds
`importMu`.

A pass sorts the listed bundles (`SortBundle`), removes what can never be
imported from quarantine (`StartSweep`, `SweepBundle`), and drains the streams
in rounds (`StartDrain`, `StartTurn`, `VerifyManifest`, `Extract`, `Install`,
`Commit`, `NextRound`). It then reaps old incomplete sets and ends
(`ReapIncomplete`, `EndPass`). Moves go one artifact at a time (`MoveFile`), and
arrivals interleave with all of it. `Commit` is reached only for the number
after `mem[s]`, the condition `checkManifestFields` places on
`PreviousSequence`.

Abstractions:

- A file has no bytes: a good one verifies and a damaged one does not. A manifest
  signed for another number or stream is therefore "bad".
- A move is a rename. The copy-and-remove fallback between file systems
  (`moveFileWithSync`), which can leave both copies after a crash, is left out.
- Installing is one idempotent step.
- Reaping deletes an incomplete set in one step. Age is only whether a file of
  the set landed since the pass began (`pass.fresh`): a pass is taken to be
  shorter than the 48 hours of `incompleteLandingRetention`, and a file to have
  the time of its landing, which a carrier that preserves modification times
  does not give it.
- Heartbeat files, status caching and webhooks are left out.

### Ingest

`landing` holds, per file, whose copy is there (an HTTP upload, a damaged one,
or the SFTP poller's), `temps` the hidden downloads, `op` the transfer that
holds `ingestMu`, `poll` the poller. The quota is measured directory by
directory while the importer moves bundles between them, one action per
directory read. `publishSFTPBundle` removes the old signature, renames the
archive, then the signature, one action each.

### UdpDiode

One file, sent under any number of transfer ids. `active` has the reassembly of
each (shards per open block, blocks written), `state` and `part` the resume
sidecar and the partial file, `persisting` what is between the write of one and
the rename of the other. Any datagram may arrive late, again or never. A block
is complete when `DataShards` of its shards are there.

### Monitor

`wire` holds heartbeats under way, `hbFile` the copy a file carrier put into
landing, `record` the last one accepted and its age up to the replay window,
`snapshot` the published status. `epoch` tells apart the times before and after
the low side's clock was set back. Bundles are lost, late or re-exported.

### Recovery

The low side takes bundles, a carrier drains them, a receiver imports. An
operator takes checkpoints, plans a prune from confirmed receiver positions,
and applies it: journal, ledger, one deletion at a time, journal complete. The
process can be killed between any two, `low-state.json` or the ledger be put
back to an older state, and a lost receiver be rebuilt from a checkpoint.

### Jobs and JobLog

A job's goroutines are folded into its phase; `worker` is the dispatcher's step,
so a submission can fall between its last look at the queue and its end.
`claim` is `watchJobs`. The scheduler's tick lists rows and handles them one by
one, while rows are edited, paused and deleted. `JobLog` has the ring with its
head and counter and a client that waits on the broadcast channel it last got.

### Collect

One module for the collects of fifteen ecosystems, because they share their
shape, a work list over releases, and differ in what they remember (`marks`,
`picks`, `tried`, `cache`) and when. Each ecosystem has its own operators, named
after the code's functions; `eco` says whose collect it is. Every answer of the
upstream may fail. npm, Maven, Python and Go use a resolver program, whose result
is part of the request. A Go collect fails as a whole when its module graph does
not resolve, and afterwards reports each module that it cannot fetch. A module
asked for twice is recorded twice but its files are listed once.

`CollectAssumption` says what a request or a resolver may ask of each ecosystem
(`WellAsked`), as the code's validators leave it. `SilentArchives` are the CRAN
releases whose superseded archive does not tell what they depend on: the collect
takes them and follows nothing (`cranArchivedDeps`). `Filter`, `Once` and `At`
pick elements of a sequence by their places, without recursion, so that the
provers can reason about them. `moduleLess` orders the modules of a Go collect;
what a lookup answers is chosen anew at every request.

### Publish

`disk` has the installed files, `stored` the documents re-derived from them,
`listing`, `listing2`, `names` and `tags` what clients read. The actions follow the
code's order: install everything, publish each record, regenerate the
documents, commit. One failing read or write may hit any step; whether it stops
the import or is only logged is each publisher's own rule.

### OsRepos

Low and high side of one mirror: the upstream changes between the reading of
its index and the fetch of its packages, the dedup index decides what is
carried, and the high side merges and writes `packages`, `release` and
`signature` one after the other. Metadata is the set of packages it describes.

### Containers

A collect resolves a tag or digest, walks what is attached to it within the
limits on artifacts, fetches and depth, and records whether it saw everything.
The high side keeps a record per image and one artifact index per repository;
an index of an older release is migrated first. The two sides' steps do not
interleave, because they share nothing but the bundles.

### GitMirror and HfMirror

A pack is the set of its objects. `served` is what the three plumbing files say,
written in the code's order, with a crash or a failed write in between.
`HfMirror` has tags with manifests and branches with commits over one blob
store, the set of blobs a job has staged or found forwarded, and the two
indexes. Each keeps what the last successful collect reported as history.


## 3. Runs

| Run | Question | Bounds |
|---|---|---|
| `export_folder` | Can a number be reused, a gap become unfillable, or a file become visible without its archive, with a folder carrier and a pruned history? | 1 stream, 4 numbers (1 pruned, 1 retained, 2 to use), 2 contents; 438k states |
| `export_streams` | Does one stream's save persist another stream's unfinished claim? Can a restart hide a bundle that its transport did not take? | 2 interchangeable streams with 1 number each and one whose bundle only the spool has, a push transport; 781k states under symmetry |
| `import_order` | Are bundles applied in order, kept when early and never shelved while wanted? | 2 bundles, 2 faults; 528k states |
| `import_kick` | Do coalesced requests alone drain everything, and is what can never be imported out of quarantine before? | 3 bundles, gap limit 1, an unsupported stream, leftovers in quarantine, 1 round per pass, no timer; 18k states |
| `import_faults` | Does any one fault, or another stream's gap, stop a stream for good? | 2 streams, 2 bundles, 2 rounds per pass, 1 fault, timer; 157k states |
| `services` | Each service alone: the index, recovery, UDP, ingest, jobs, a log, the monitor and a git mirror | see below; 1.24M states |
| `liveness` | Does an accepted job end, a loss get reported, a git mirror settle? | the same instances; 172k states |
| `ecosystems` | Each content stream alone: collects, publications, OS repositories, containers, Hugging Face | see below; 1.18M states |
| `import_stale` | Does quarantine hold only bundles still to be imported? *No, see 5* | 2 bundles |
| `import_stuck` | Does a stream that cannot be quarantined stop another? *Yes, see 5* | 2 streams |
| `status_unreadable` | Can the discovery status always be read back? *No, see 5* | a clock that steps back once |
| `mirror_not_refreshed` | Does each re-collect refresh a git mirror? *No, see 5* | 2 refs, 2 commits |

**Why the bounds are enough.**

- Two usable numbers after a pruned and a retained one give the exporter a
  floor, a claimed, a current and a next number: all that the scan and the gap
  property compare. Two contents are what a fork needs.
- Streams share only the state file, so two show the sharing. Nothing tells two
  new streams apart, so states that differ by their exchange are counted once.
- The importer treats only the next number, the numbers before it and those
  after it differently. Two bundles give all three classes over time, and three
  with gap limit 1 also give one out of reach.
- `MaxRounds` is 1 or 2 instead of 16, so that the limit is hit.
- `MaxFaults` is the total of damaged files, failed steps, reaped sets and
  crashes. Two allow a crash during the recovery from another fault.
- The dedup index: one mutable path with two contents and one immutable path,
  one metadata key with two values; a path can return to an earlier content.
- `Recovery`: two bundles and one checkpoint give a prune that keeps one, and a
  state file one behind. `Ingest`: two bundles of two files against a quota of
  three, so that each can be refused because of the other, and one restart.
- `UdpDiode`: two sends of three blocks, of which one may be open, and a code
  that repairs one loss per block; the quota has room for two files.
- `Jobs`: two jobs, one watch and a queue of one: a watch and a manual request
  contend for the queue, and the watch for its own claim. `JobLog`: five lines in
  a ring of two, so that it turns twice.
- `Monitor`: two bundles and two ticks of a clock that is set back once; one
  repeated packet (none under fairness).
- `Collect`: two packages that need each other, a third that both need in other
  versions, a name the upstream lacks, a cap of three releases that some closures
  reach, a superseded CRAN release that can and one that cannot be read, two
  Conda platforms, lists of up to two wants (three for a lock file), the same
  want twice included. `Publish`: two bundles, one invalid
  archive, one fault, one crash.
- `OsRepos`: two versions of one package and another package, two collects, one
  fault, one crash. `Containers`: an index with an image and an attestation, two
  images, referrers of referrers, a moving tag and a moving cosign tag, limits
  that a walk reaches. `HfMirror`: two manifests and two commits that share
  blobs, two collects.

The safety results with a theorem (section 4) hold for all values.

**Fairness.**

- `WF(PassStep)` in `HighImport`: a pass under `importMu` runs to its end, and the
  worker goroutine or timer starts the next one. Both loops run under panic
  recovery for the life of the process.
- `WF(MoveFails /\ UNCHANGED faults)`: a move that cannot succeed does return its
  error.
- `WF(Retransmit)`: what the status reports as missing, and the low side has, is
  eventually sent again. The code guarantees this only through the operator's
  re-export; without it nothing lost on a one-way link could ever arrive.
- `JobsFairness`: a dispatcher that lives takes its next step, a collect ends
  (its downloads have deadlines), a hook returns.
- `MonitorSpec`: heartbeats and passes run on timers, time passes, and of the
  current heartbeats that are sent again and again the link delivers one some
  day (`SF(Delivers)`), although it may lose any of them.
- `GitSpec`: `WF(PublishStep)`, the importer's worker keeps running.

No step of the environment is fair otherwise: faults, damage, crashes and
reaping need never happen. `import_kick` has no faults, because with
`--import-interval 0` a restart drops the pending request and the bundle waits
for the next arrival or for an operator. It is about transports that notify
(HTTP, UDP, SFTP): a folder carrier needs the timer.

## 4. Proofs

All theorems hold for any value of the constants that satisfies the modules'
named `ASSUME`s, which TLC evaluates on every run: bounds are natural numbers
and tables have the shape the code's validators demand. Seven say more.
`ConAssumption`: an image index lists at least one manifest (a collect of an
empty one fails at `pickAmd64Manifest`) and no digest is the marker `None`.
`UdpDiodeAssumption`: transfers are finitely many. `PublishAssumption`: the
ecosystems are among the fourteen the module describes, and the bundle that
starts a Helm repository brings a chart. `JobsAssumption`: the marks for no job
are not jobs. `HfAssumption`: no branch goes by the name of a tag. `GitAssumption`: branches are
refs. `CollectAssumption`: releases
require ranges or what no resolver follows, and requests are `WellAsked` (a pin
names one version; mvn's repository and pip's directory hold a file once).
Packages, versions and requests may be any number, and requirements circular. The lemmas
name the part of the assumptions they use (`RecoveryAssumed`, `IngestAssumed`, ...)
as a hypothesis.

**LowExportProofs**: `TypeCorrect`, `NeverForks`, `NextNumberAlwaysFresh`,
`PublishedAlwaysArchived`, `GapsAlwaysFillable`, `DurableClaimsHaveBundles`,
`TransferImplementsLowExport`, `StagedAlwaysReported`.
None of the first six is inductive alone. `NoFork` needs to know that a number with
anything visible under it has its archive, and that an export only writes under
a number nobody has seen. That in turn rests on the counters being backed by
bundles. The invariant is therefore

- `Cells`: what archive, spool and history of one number may look like together;
- `ClaimsFilled`: below every counter (memory, disk or ledger) and above the
  prune floor every number has a bundle;
- `NoGaps`: the same below every number with an archived artifact;
- `JobsSound`: what an export or re-export has already written and may rely on.

`NextNumberAlwaysFresh` (the allocator only offers numbers that nobody can have
observed) follows from the same invariant; `NoFork` is the run's form of it.

`TransferImplementsLowExport` shows that each step of `Transfer` is a step of
`LowExport` or leaves its state alone, so all of the above holds with the
records too. `StagedAlwaysReported` (`StagedIsReported` for every value of the
constants) goes by two facts: a step that keeps its job stages at most the bundle
that job holds (`WorkingStep`), and a step that ends a job leaves only that
bundle to be recorded (`EndingStep`).

The assumption that matters is the ledger's: a prune floor lies below the next
number, which `validateRecoveryLedger` enforces.

**ServicesProofs**, for `ExportIndex`: `IndexTypeCorrect`, `IndexAlwaysSound`,
`PriorAlwaysHeld`, `SkipAlwaysLosesNothing`. `IndexSound` is kept because each
invalidation commits before the write it covers. The strengthening `JobSound`
says, at each program counter, which rows are already gone. The assumption is
that an immutable path keeps its bytes upstream. If it does not, the receiver
reports a conflict. For `GitMirror`: `GitTypeCorrect`, `ServedRefsResolve`. `PackReady` says, at
each step of a publication, that the pack is installed and indexed before a ref
is written, and that the refs to be written were checked against it. `GitShapes`
adds what a collect and a publication hold at each step, and that HEAD is only
written when a ref was kept, which is why `gitHeadTarget` always finds one.

`ServicesTypeCorrect` is `ServicesTypeOK` for every behaviour of `MCServices`. A
step of the services is a step of each component or leaves its variables alone
(`OneAtWork`), so the conjunction of the components' invariants (`ServicesInv`)
is inductive.

**HighImportProofs**: `TypeCorrect`, `CountersAlwaysOrdered`,
`WantedNeverShelved`, `QuarantineAlwaysWithinReach`, `FutureBundlesKept`, and
`ImplementsOrderedDelivery`: the importer refines `OrderedDelivery` with
`applied <- installed`. The invariant adds to `CountersOrdered`:

- `Shelved`: what was filed as duplicate is below the *memory* counter, and so
  below the durable one;
- `PassSound`: a bundle being imported is the next one, and at the commit it is
  installed;
- `Swept`: in each phase, which hopeless bundles quarantine can still contain.

A crash between install and commit makes the importer install the same bundle
again: a stutter of `OrderedDelivery`.

`FutureBundlesKept` rests on two more: `Moved`, what a move has dealt with so far
in either directory, and `Gathered`. A bundle whose artifacts lie in pieces over
landing and quarantine, complete in neither, is put together while the pass
sorts. So when the pass reaps, such a bundle has only just landed, and is too
young to be deleted, or it is the one whose rejection failed and ended the drain.
The age matters: if the reaper could also delete a set that landed during the
pass, a retransmitted artifact could be deleted next to the other two, which an
interrupted rejection left in quarantine. That takes three faults (a damaged
file, a failed move, a reaped set), one more than `import_order` has.

**RecoveryProofs**: `RecoveryTypeCorrect`, `PrunedNumbersStayUsed`,
`NoReceiverStranded`. A pruned number must stay used although the state file and
the ledger can each be rolled back, and a receiver rebuilt from a checkpoint must
find what it lacks although the plan was made before. `RecoveryInv` adds to both:

- `Held`: an exported bundle is in the archive, or the cutoff of a journalled
  plan covers it;
- `Plans` (`Sound`, `Spared`): what the plan in the operator's hands, and each
  plan ever applied, still means now: its cutoffs are below what every
  checkpoint protects and its candidates lie under them;
- `Bounded`, `Running`, `Applying`: counters against the ledger, and what the
  steps of an apply have done so far.

**JobsProofs**: `JobsTypeCorrect`, `WatchRunsAlone`, `StreamRunsAlone`,
`DueWatchRunsOnce`. The first needs `Claimed`: a live job of a watch is the one
its claim names, from submission to the end of its hook. The second needs
`Queued` (a queue lists queued jobs of its stream, each once), `Dispatched` (a
running job is the one its stream's only dispatcher runs) and `Placed` (a live
job belongs to a stream). The third needs `RanWaits`: what was run since the tick
listed it is due again only through an edit. For the followed log:
`LogTypeCorrect`, `LogAccounted`. `HoldsLast` says that the ring holds the lines
after the first `dropped` ones, oldest first from `logHead`, so what a reader is
given and told to have missed always adds up to its cursor.

**DiodeProofs**: `UdpTypeCorrect`, `UnverifiedWithinQuota` (UDP). Admission reserves the whole file,
so a transfer never outgrows its reservation, and each step that turns a
reassembly into a kept or landed file trades one reservation for one file. The
counting rests on `Transfers` being finite. `IngestTypeCorrect`, `QuotaKept` and
`CopiesNotMixed` (HTTP and SFTP). `Measured` relates what a transfer has added
up so far to what the directories it has listed hold now: an import moves
bundles from directories not yet listed into listed ones only by removing them,
so the sum is never too small. `Downloads` says which files of a fetch are
complete and in whose copy. `MonitorTypeCorrect` and `ReportOnlyGrows` (heartbeats). `Ordered` relates any
two packets of one epoch, wherever they are (wire, file, read by a pass,
recorded): the one created later reports at least as much. The types rest on
`Past`, that no packet is ahead of the exporter, and on two lemmas: an import pass
stops at a number that was exported (`ReachFacts`), and so does the highest
sequence of the status (`StatusFacts`). Both need that a set of numbers has a
least one (`LeastNatural`).

**RepositoryProofs**, for `Containers`: `ContainersTypeCorrect`, `BundlesAreClosed`,
`CompleteIsComplete`, `DigestsKept`. The walk over attached artifacts is
described by what it has `Found`, what is pending and which nodes of the graph
under way are open. `ConInv` says that each document found has its children
found or pending (`Closed`), that as long as nothing was missed what is attached
to a found document is found, pending or still to be discovered (`Discovered`),
that a collect holds what its reference resolves to (`Resolved`), and that
everything the high side lists came out of such a bundle. For `OsRepos`:
`OsTypeCorrect`, `ListedPackagesPresent`, `IndexesAccumulate`. `OsInv` follows the
metadata: a bundle's describe packages of its manifest (`BundlesDescribe`),
installed metadata describe installed packages (`MetaClosed`), and a bundle
under publication is installed with all it names (`BundleThere`). For `Publish`:
`PublishTypeCorrect` and `ListedFilesInstalled`, in all fourteen ecosystems.
`PubInv` says that nothing is published before every file of the bundle is
installed (`Extracted`), that an attestation was there when its document was
written (`Attested`), that generated indexes were made of installed files
(`Indexed`), and that RubyGems' versions file follows the info files name by name
(`GemsOrdered`).

For `HfMirror`: `HfTypeCorrect`, `BundleFilesStaged`, `IndexedBlobsPresent`.
`StagedOrForwarded` says that what a running collect counts as staged, or lists,
is in its staging directory or was forwarded before, through every skipped item.
`Loaded` says that once a bundle's blobs are installed, each manifest and
snapshot it records has all of its blobs in the store.

**EcosystemsProofs**, for `Collect`: `CollectTypeCorrect`, `ManifestsAccepted`,
`ExportsClosed`, for all fifteen ecosystems at once. What decides both properties
is what each collect remembers, and when: Cargo marks what it chose, NuGet what
it tried, Composer what it staged, RubyGems and the others a name, and Terraform,
CRAN's superseded pins and Python's source distributions nothing. `CollectInv`
has three parts besides the types:

- `Staged`: how far each phase has got, and what is still empty in it;
- `Unique`: why the next file is a new one. Each release staged is in the memory
  that the ecosystem asks, or is apart from what it still has to download
  (`picks`), or, where there is no memory, the names left on the list differ
  from those staged (`NamesLeft`, which needs `AskedOnce`). Signatures come after
  the files they belong to and once each (`Signed`);
- `Covered`: a want that was on the list is on it still, or is settled by a record
  staged or chosen, or by a report. The same holds of everything in the loop's
  memory (`Remembered`), because a want that memory answers is dropped unseen,
  and of what Composer has queued before (`tried`).

`ClosedOrReported` alone is not inductive, since it speaks of the export only,
and neither is `Covered` without `Staged`: a chosen release that leaves `picks`
undownloaded must leave a report. The lemmas `AtFacts` and `OnceFacts` say what
the picking operators return, `StageFacts`, `PopFacts` and the `Loop` lemmas what
the steps do that all loops are made of.

`EcosystemsTypeCorrect` puts the content streams together: `EcosystemsTypeOK`
for every behaviour of `MCEcosystems`, by the modules' type theorems.

**Only model-checked.** Four liveness properties: `EveryStreamDrains`,
`AcceptedJobsEnd`, `LossIsReported` and `CloneSettles` (liveness under fairness is
beyond the prover). All other properties of the passing runs, the type invariants of the
`MC` modules included, are theorems. Each run that expects a violation shows a
counterexample, for which one instance is enough. What recursive definitions
compute is not proved either; the modules avoid them.

## 5. Where the documentation says something else

With a run:

- `import_stale`. `troubleshooting.md` says a bundle stuck in quarantine means
  that its predecessor is missing. The run shows another way: bundle 2 waits in
  quarantine and is transmitted again while bundle 1 is imported.
  `findBundleDirLocked` prefers landing, so bundle 2 is imported from there, and
  its copy in quarantine is never looked at again.
- `import_stuck`. `high-side.md` says a failure in one stream never prevents the
  others from draining. A bundle whose move into quarantine keeps failing makes
  `quarantineFutureBundlesLocked` return an error, and `importPass` returns
  before it drains anything.
- `status_unreadable`. `container_status.go:215` refuses a discovery record whose
  last success lies after its check, and with it the file. After the wall clock
  stepped back, a partial discovery writes exactly that record (line 287), and
  later collects fail when they read the file.
- `mirror_not_refreshed`. `git.md` says that each re-collect refreshes the mirror
  to the current upstream refs. If the refs moved to commits that the forwarded
  pack already has, the pack is the same, `exportIfNew` skips, and the refs stay.

Stated as a property, without a run:

- `HfMirror!TagsFollow`. The same for a model's tag or branch that returns to a
  revision already forwarded (`ai-models.md:112`, `hf.go:777`).
- `UdpDiode!ResumeHonest`. `diodewire.go:901` says that there is never a partial
  with stale state describing other bytes. With an older partial of the same
  file in place, a crash between the two writes leaves the new state beside the
  old bytes. The landed file is not affected, because its hash is checked; the
  transfer fails and starts over.
- `Jobs!RespacedFromLastRun`. `watch.go:190` says that an edit spaces the next run
  from the last one. A run that ends between the read and the write of the edit
  is not seen, and the watch is due again from the run before.
- `OsRepos!ContentNamed` with `FilterChanges`. `rpm.go:1284` says metadata files
  are content-named and immutable, but `restageIndex` rewrites a filtered index
  under the upstream's name. Another filter over the same upstream gives other
  bytes at that path: an install conflict, again on each retry.
- `Publish!OperationalErrorsRetried`. `ecosystem.go:52` and `package_publish.go`
  want operational errors returned, so that the bundle is retried. CRAN, Galaxy,
  Helm, Conda, snap, Terraform and VSX only log them (`cran.go:352`,
  `galaxy.go:700`, `helm.go:408`, `conda.go:648`, `snap.go:567`,
  `terraform.go:674`, `vsx.go:613`).
- `Recovery!InterruptedPruneResumes` with `CarrierRuns`. `recovery.md:236` says to
  rerun `retention apply` if it stopped midway. If the carrier took a bundle out
  of the spool meanwhile, the inputs differ from the plan and the apply refuses;
  no new plan is accepted while the journal is open.
- `Collect!ManifestAccepted` with a want asked for twice. Terraform and CRAN (and
  Python for source distributions) then stage one path twice, and
  `validateManifestFiles` refuses the bundle, whose number is taken. The
  `ecosystems` run asks twice there too; the property makes the exception by
  name (`AskedOnce`), and the theorem shows that it is the only one.

Smaller ones: `api.md` says that `/admin/status` sorts first, but the handler only
reads. `deployment.md` says that waiting bundles drain in the same pass, but a
pass stops after 16 rounds and asks for another. RubyGems, Galaxy and CRAN keep
one version per name, so of two pins of a name the second is dropped without a
report. `osv.go:380` says that nothing is served that describes another snapshot
than the one on disk; an install that fails or crashes after it replaced the
first file leaves the earlier derived documents in place.

## 6. Plan

1. `Delivery`: `LowExport` and `HighImport` joined by a lossy carrier and the
   re-export of reported gaps, with the repair of a bundle that was archived but
   never published. Liveness end to end.
2. `Install`: repository files, prior files, conflicts, complete markers and
   concurrent readers; implements the step `HighImport!Install`.
3. The derived documents of OSV and the Python index; the checksum database as
   growing tree heads with abstract consistency proofs.
4. `SequenceRanges`: parse, merge, expand and missing ranges against their
   definition as sets; `splitDeliveredFiles` against its budget.

Theorems to come: the refinement from `Install` to `HighImport!Install`, and that
`Delivery` implements `OrderedDelivery` from the low side's numbers on.

## 7. Not modelled

- Resolver programs (npm, Maven, pip, go) enter by their result, and
  version comparison as an order of the versions.
- Cryptography is idealised: a signature or hash check tells good from damaged.
- Formats of archives, indexes and messages, and the HTTP interfaces that serve
  them.
- Uploads, metrics other than transfer failures, login, TLS, the UI and the command line: they hold no state
  on which the others depend, or render it.
- The checksum database and OSV documents, for the reason in PROJECT.json.

PROJECT.json gives the status of each part and the reason.
