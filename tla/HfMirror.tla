------------------------------ MODULE HfMirror ------------------------------
(***************************************************************************)
(* Hugging Face mirroring (hf.go): a collect takes model variants (a tag's *)
(* manifest and its blobs) and repository snapshots (a branch's commit and *)
(* its files), skips what fails, and exports one bundle over one           *)
(* content-addressed blob store; the high side installs the blobs and      *)
(* merges the per-model and the per-repository index.                      *)
(*                                                                         *)
(* One model and one repository.  Blobs are named by their hash, so a blob *)
(* is its name; a variant's manifest document is a blob too.               *)
(***************************************************************************)
EXTENDS Integers, FiniteSets, Sequences, Functions

CONSTANTS
  ModelTags,      \* quantisation tags of the model
  Manifests,      \* manifest documents a tag can have
  Layers,         \* manifest -> sequence of its config and layer blobs
  Branches,       \* branches of the repository
  Commits,        \* commits a branch can have
  RepoFiles,      \* commit -> sequence of its files' blobs
  Plain,          \* blobs of small files, whose hash is known only once fetched
  HfMaxCollects,  \* bound on collects
  MaxMoves,       \* bound on changes of the hub
  HfMaxCrashes,   \* bound on crashes and failed steps of the importer
  HfNone          \* absent

VARIABLES
  hub,        \* tag -> manifest, branch -> commit at the Hub
  job,        \* the collect at work
  forwarded,  \* blobs the dedup index has as forwarded
  hfWire,     \* bundles exported and not yet committed by the importer
  hfBlobs,    \* the high side's blob store
  models,     \* models/.../_index.json: tag -> manifest, or None
  repo,       \* repos/.../_index.json: snapshots and branch -> commit
  publish,    \* the import at work
  reported,   \* history: what the last collects that succeeded resolved
  used

hfVars == <<hub, job, forwarded, hfWire, hfBlobs, models, repo, publish, reported, used>>

Items == ModelTags \cup Branches
Blobs == Manifests \cup UNION {Range(Layers[m]) : m \in Manifests} \cup UNION {Range(RepoFiles[c]) : c \in Commits}
(* Manifests and commits list blobs; no branch goes by the name of a tag.   *)
HfAssumed ==
  /\ Layers \in [Manifests -> Seq(Blobs)] /\ RepoFiles \in [Commits -> Seq(Blobs)]
  /\ ModelTags \cap Branches = {}
ASSUME HfAssumption == HfAssumed

NoJob == [pc |-> "idle"]
NoPublish == [pc |-> "idle"]
Nothing == [i \in Items |-> HfNone]

HfInit ==
  /\ hub \in {f \in [Items -> Manifests \cup Commits] :
                \A i \in Items : f[i] \in IF i \in ModelTags THEN Manifests ELSE Commits}
  /\ job = NoJob /\ publish = NoPublish
  /\ forwarded = {} /\ hfWire = <<>> /\ hfBlobs = {}
  /\ models = [t \in ModelTags |-> HfNone]
  /\ repo = [snapshots |-> {}, refs |-> [b \in Branches |-> HfNone]]
  /\ reported = Nothing
  /\ used = [collects |-> 0, moves |-> 0, crashes |-> 0]

(* Someone pushes to the model or the repository.                           *)
MoveHub(i, v) ==
  /\ used.moves < MaxMoves /\ hub[i] # v
  /\ v \in (IF i \in ModelTags THEN Manifests ELSE Commits)
  /\ hub' = [hub EXCEPT ![i] = v]
  /\ used' = [used EXCEPT !.moves = @ + 1]
  /\ UNCHANGED <<job, forwarded, hfWire, hfBlobs, models, repo, publish, reported>>

----------------------------------------------------------------------------
(* parseHFCollectRequest: each reference once.                              *)
StartCollect(refs, force) ==
  /\ job = NoJob /\ used.collects < HfMaxCollects /\ refs # {}
  /\ job' = [pc |-> "models", todo |-> refs, force |-> force, staged |-> {}, disk |-> {},
             listed |-> {}, prior |-> {}, got |-> Nothing]
  /\ used' = [used EXCEPT !.collects = @ + 1]
  /\ UNCHANGED <<hub, forwarded, hfWire, hfBlobs, models, repo, publish, reported>>

(* downloadHFBlob, downloadHFRepoFile: a blob staged by an earlier item is    *)
(* not fetched again, one the stream has forwarded only becomes a prior       *)
(* reference, unless the hash is known only after the download.             *)
IsPrior(b) == ~job.force /\ b \in forwarded /\ b \notin Plain
HfFetched(seen) == {b \in seen : b \notin job.staged /\ ~IsPrior(b)}

(* mirrorHFVariant, stageHFManifestBlob; mirrorHFRepo.                        *)
NeededBy(i) ==
  IF i \in ModelTags THEN Append(Layers[hub[i]], hub[i]) ELSE RepoFiles[hub[i]]

(* mirrorHFModels and mirrorHFRepos, one reference: what it needs is listed;   *)
(* the first entry for a path is kept.                                      *)
MirrorItem(i) ==
  /\ job.pc = (IF i \in ModelTags THEN "models" ELSE "repos") /\ i \in job.todo
  /\ LET needs == Range(NeededBy(i))
     IN  job' = [job EXCEPT !.todo = @ \ {i}, !.got[i] = hub[i],
                            !.staged = @ \cup needs, !.disk = @ \cup HfFetched(needs),
                            !.listed = @ \cup needs,
                            !.prior = @ \cup {b \in needs \ job.listed : b \notin job.staged /\ IsPrior(b)}]
  /\ UNCHANGED <<hub, forwarded, hfWire, hfBlobs, models, repo, publish, reported, used>>

(* The n-th blob cannot be fetched: the reference is skipped and reported,    *)
(* what it staged so far stays staged.                                      *)
SkipKeepsPrior(i, n) ==   \* mutant: the prior references of the item stay too
  /\ job.pc = (IF i \in ModelTags THEN "models" ELSE "repos") /\ i \in job.todo
  /\ LET seen == Range(SubSeq(NeededBy(i), 1, n))
     IN  job' = [job EXCEPT !.todo = @ \ {i}, !.staged = @ \cup seen, !.disk = @ \cup HfFetched(seen),
                            !.prior = @ \cup {b \in seen : b \notin job.staged /\ IsPrior(b)}]
  /\ UNCHANGED <<hub, forwarded, hfWire, hfBlobs, models, repo, publish, reported, used>>
SkipItem(i, n) ==
  /\ job.pc = (IF i \in ModelTags THEN "models" ELSE "repos") /\ i \in job.todo
  /\ LET seen == Range(SubSeq(NeededBy(i), 1, n))
     IN  job' = [job EXCEPT !.todo = @ \ {i}, !.staged = @ \cup seen, !.disk = @ \cup HfFetched(seen)]
  /\ UNCHANGED <<hub, forwarded, hfWire, hfBlobs, models, repo, publish, reported, used>>

(* mirrorHFRepos starts with a staged set of its own.                        *)
StartRepos ==
  /\ job.pc = "models" /\ job.todo \cap ModelTags = {}
  /\ job' = [job EXCEPT !.pc = "repos", !.staged = {}]
  /\ UNCHANGED <<hub, forwarded, hfWire, hfBlobs, models, repo, publish, reported, used>>

(* markPriorFiles: what the index has as forwarded, whether the collector      *)
(* noticed or not.                                                          *)
OnlyNoticed == job.prior   \* mutant: the files are not looked up again
Prior == job.prior \cup (IF job.force THEN {} ELSE job.listed \cap forwarded)
Delivered == job.listed \ Prior

(* exportIfNew with writeHFBundle: no ExportMetadata, so nothing to deliver    *)
(* means no bundle.                                                         *)
Export ==
  /\ job.pc = "repos" /\ job.todo = {} /\ job.got # Nothing
  /\ Delivered # {} => Delivered \subseteq job.disk
  /\ IF Delivered = {}
     THEN UNCHANGED <<hfWire, forwarded>>
     ELSE /\ hfWire' = Append(hfWire, [got |-> job.got, files |-> job.listed, carried |-> Delivered])
          /\ forwarded' = forwarded \cup job.listed
  /\ reported' = [i \in Items |-> IF job.got[i] = HfNone THEN reported[i] ELSE job.got[i]]
  /\ job' = NoJob
  /\ UNCHANGED <<hub, hfBlobs, models, repo, publish, used>>

(* Nothing could be fetched, or the collect was stopped.                     *)
CollectFails ==
  /\ job # NoJob
  /\ job' = NoJob
  /\ UNCHANGED <<hub, forwarded, hfWire, hfBlobs, models, repo, publish, reported, used>>

----------------------------------------------------------------------------
(* validateHF: every blob a variant or snapshot needs is among the files.     *)
BlobsOf(v) == IF v \in Manifests THEN Range(Layers[v]) \cup {v} ELSE Range(RepoFiles[v])
HfValid(m) == \A i \in Items : m.got[i] # HfNone => BlobsOf(m.got[i]) \subseteq m.files

(* The importer installs what the bundle carries; prior files must be there.  *)
HfInstall ==
  /\ publish = NoPublish /\ hfWire # <<>>
  /\ HfValid(Head(hfWire)) /\ Head(hfWire).files \ Head(hfWire).carried \subseteq hfBlobs
  /\ hfBlobs' = hfBlobs \cup Head(hfWire).carried
  /\ publish' = [pc |-> "models", got |-> Head(hfWire).got]
  /\ UNCHANGED <<hub, job, forwarded, hfWire, models, repo, reported, used>>

(* mergeHFModel: imported tags move, the others stay.                        *)
MergedModels == [t \in ModelTags |-> IF publish.got[t] = HfNone THEN models[t] ELSE publish.got[t]]
MergeHFModel ==
  /\ publish.pc = "models"
  /\ models' = MergedModels
  /\ publish' = [publish EXCEPT !.pc = "repos"]
  /\ UNCHANGED <<hub, job, forwarded, hfWire, hfBlobs, repo, reported, used>>

(* mergeHFRepo, then the commit.                                             *)
MergeHFRepo ==
  /\ publish.pc = "repos"
  /\ repo' = [snapshots |-> repo.snapshots \cup
                            {publish.got[b] : b \in {c \in Branches : publish.got[c] # HfNone}},
              refs |-> [b \in Branches |-> IF publish.got[b] = HfNone THEN repo.refs[b] ELSE publish.got[b]]]
  /\ publish' = NoPublish
  /\ hfWire' = Tail(hfWire)
  /\ UNCHANGED <<hub, job, forwarded, hfBlobs, models, reported, used>>

(* publishHF returns an error, or the high side dies: the bundle stays next.  *)
PublishAborts ==
  /\ publish # NoPublish /\ used.crashes < HfMaxCrashes
  /\ publish' = NoPublish
  /\ used' = [used EXCEPT !.crashes = @ + 1]
  /\ UNCHANGED <<hub, job, forwarded, hfWire, hfBlobs, models, repo, reported>>

ImportStep == HfInstall \/ MergeHFModel \/ MergeHFRepo
HfNext ==
  \/ \E i \in Items, v \in Manifests \cup Commits : MoveHub(i, v)
  \/ \E refs \in SUBSET Items, force \in BOOLEAN : StartCollect(refs, force)
  \/ \E i \in Items : MirrorItem(i) \/ \E n \in 0 .. Len(NeededBy(i)) - 1 : SkipItem(i, n)
  \/ StartRepos \/ Export \/ CollectFails \/ ImportStep \/ PublishAborts

HfSpec == HfInit /\ [][HfNext]_hfVars

----------------------------------------------------------------------------
HfTypeOK ==
  /\ forwarded \subseteq Blobs /\ hfBlobs \subseteq Blobs
  /\ models \in [ModelTags -> Manifests \cup {HfNone}]
  /\ repo.snapshots \subseteq Commits /\ repo.refs \in [Branches -> Commits \cup {HfNone}]
  /\ publish.pc \in {"idle", "models", "repos"} /\ job.pc \in {"idle", "models", "repos"}
  /\ job # NoJob => job.prior \subseteq job.listed /\ job.disk \subseteq Blobs

(* exportIfNew packs what it delivers from the staging directory: each such    *)
(* file is there, though an item that failed may have marked blobs as staged   *)
(* that were only prior references (downloadHFBlob, markPriorFiles).           *)
DeliveredIsStaged == job.pc = "repos" /\ job.todo = {} => Delivered \subseteq job.disk

(* Everything the indexes point a client at can be downloaded: the blobs of    *)
(* every tag's manifest and of every snapshot, whatever was skipped, sent       *)
(* before, or cut off by a crash.                                             *)
ServedIsPresent ==
  /\ \A t \in ModelTags : models[t] # HfNone => BlobsOf(models[t]) \subseteq hfBlobs
  /\ \A c \in repo.snapshots : BlobsOf(c) \subseteq hfBlobs

(* page/docs/ecosystems/ai-models.md: "Re-collecting a tag or branch moves it   *)
(* to the new digest/commit": once everything exported is imported, every tag   *)
(* and branch is where the last collect of it found it.                        *)
TagsFollow ==
  hfWire = <<>> => \A i \in Items : reported[i] # HfNone =>
    reported[i] = IF i \in ModelTags THEN models[i] ELSE repo.refs[i]
=============================================================================
