---------------------------- MODULE ExportIndex ----------------------------
(***************************************************************************)
(* The export dedup of one low-side stream: the SQLite index of exported.go *)
(* (what the receiver already has) and the way exportIfNew reads it before *)
(* a bundle and updates it around one.                                     *)
(*                                                                         *)
(* Numbering, artifacts and publication are module LowExport; here a       *)
(* bundle counts from the moment its artifacts are complete, because from  *)
(* then on its number is never reused and it can cross at any time.  The   *)
(* variables repo, rmeta and bare are what the receiver has once it has    *)
(* imported every such bundle in order.  Any step may be the last one of a *)
(* collect: an error return, a cancelled request and a crash all stop it   *)
(* where it is, and the index keeps what was committed.                    *)
(***************************************************************************)
EXTENDS Integers, FiniteSets

CONSTANTS
  Paths,          \* bundle-relative paths of repository files
  MutablePaths,   \* those mutableRepoPath accepts
  Hashes,         \* SHA-256 values
  Upstream,       \* per path the hashes upstream may serve for it
  Keys,           \* ExportMetadata keys (repository, tag, ...)
  Values          \* hashes of an ecosystem metadata record

(* An immutable path keeps its bytes: a release that changes them is an     *)
(* "immutable file conflict" on the receiver.                               *)
ASSUME UpstreamAssumption ==
  /\ MutablePaths \subseteq Paths
  /\ Upstream \in [Paths -> SUBSET Hashes]
  /\ \A p \in Paths \ MutablePaths : \A h, g \in Upstream[p] : h = g

VARIABLES
  fwd,       \* forwarded_files: <<path, hash>> ever recorded
  mfwd,      \* mutable_forwarded_files: latest hash per mutable path
  fmeta,     \* forwarded_metadata: latest value per key
  pending,   \* pending_metadata_files: parts that await an ecosystem bundle
  repo,      \* receiver: latest delivered hash per path
  rmeta,     \* receiver: latest delivered metadata per key
  bare,      \* receiver: files that came in a part and in no later ecosystem bundle
  job        \* the collect that holds the stream lock

tables == <<fwd, mfwd, fmeta, pending>>
receiver == <<repo, rmeta, bare>>
vars == <<fwd, mfwd, fmeta, pending, repo, rmeta, bare, job>>

Files == {f \in Paths \X Hashes : f[2] \in Upstream[f[1]]}
Records == Keys \X Values

(* A list names every path, or key, at most once.                           *)
OnePerKey(t) == \A e, f \in t : e[1] = f[1] => e = f

FileLists == {fs \in SUBSET Files : OnePerKey(fs)}
MetaLists == {ms \in SUBSET Records : OnePerKey(ms)}

IsMutable(f) == f[1] \in MutablePaths

(* INSERT ... ON CONFLICT (key) DO UPDATE for every entry.                  *)
InsertOnly(table, entries) == table \cup entries   \* mutant: no ON CONFLICT
Upsert(table, entries) ==
  {e \in table : \A d \in entries : d[1] # e[1]} \cup entries

(* DELETE ... WHERE key = for every entry.                                  *)
Forget(table, entries) == {e \in table : \A d \in entries : d[1] # e[1]}

NoJob == [pc |-> "idle", files |-> {}, prior |-> {}, cur |-> {}, final |-> FALSE, meta |-> {}]
Jobs == [pc : {"idle", "split", "invalidate", "invalidatemeta", "write",
               "record", "recordmeta", "clear"},
         files : SUBSET Files, prior : SUBSET Files, cur : SUBSET Files,
         final : BOOLEAN, meta : SUBSET Records]

Init ==
  /\ fwd = {} /\ mfwd = {} /\ fmeta = {} /\ pending = {}
  /\ repo = {} /\ rmeta = {} /\ bare = {}
  /\ job = NoJob

----------------------------------------------------------------------------
(* IsForwarded / ForwardedFlags: a mutable path must match its latest       *)
(* export, an immutable one any recorded export.                            *)
AnyRecordedHash(f) == f \in fwd   \* mutant: mutable paths are not told apart
IsForwarded(f) == IF IsMutable(f) THEN f \in mfwd ELSE f \in fwd

MetadataChanged(ms) == ~(ms \subseteq fmeta)
HasPendingMetadata(fs) == fs \cap pending # {}

OnlyChanged(fs, ms, force) ==   \* mutant: unpublished parts are not looked up
  (force /\ ms # {}) \/ MetadataChanged(ms)
NeedsMetadataExport(fs, ms, force) ==
  (force /\ ms # {}) \/ MetadataChanged(ms) \/ HasPendingMetadata(fs)

(* exportIfNew answers "no new content since the last export".              *)
Skips(fs, ms) ==
  /\ \A f \in fs : IsForwarded(f)
  /\ ~NeedsMetadataExport(fs, ms, FALSE)

(* markPriorFiles: what need not be carried again; a forced collect asks not. *)
MarkPriorFiles(fs, force) == {f \in fs : ~force /\ IsForwarded(f)}

(* The files a bundle's archive carries, and the mutable ones among them.   *)
Delivered == job.cur \ job.prior
DeliveredMutable == {f \in Delivered : IsMutable(f)}
CurrentMeta == IF job.final THEN job.meta ELSE {}

----------------------------------------------------------------------------
(* exportIfNew up to its early returns.  A lookup that fails marks nothing   *)
(* prior (the collector's own pre-download check and markPriorFiles each     *)
(* fail safe) and requires the metadata bundle, so prior and need may be     *)
(* anything on the safe side of what the index says.                        *)
Collect(fs, ms, force, prior, need) ==
  /\ job.pc = "idle"
  /\ prior \subseteq MarkPriorFiles(fs, force)
  /\ NeedsMetadataExport(fs, ms, force) => need
  /\ prior # fs \/ need
  /\ job' = [pc |-> "split", files |-> fs, prior |-> prior, cur |-> {},
             final |-> FALSE, meta |-> ms]
  /\ UNCHANGED <<tables, receiver>>

(* exportContentParts: one chunk, but never the last one; its files are      *)
(* marked pending before anything is written.                               *)
StartPart(part) ==
  /\ job.pc = "split"
  /\ part # {} /\ part \subseteq job.files \ job.prior /\ part # job.files \ job.prior
  /\ pending' = pending \cup part
  /\ job' = [job EXCEPT !.pc = "invalidate", !.cur = part, !.final = FALSE]
  /\ UNCHANGED <<fwd, mfwd, fmeta, receiver>>

(* The ecosystem's own bundle: all files, the earlier parts' as prior.      *)
StartFinal ==
  /\ job.pc = "split"
  /\ job' = [job EXCEPT !.pc = "invalidate", !.cur = job.files, !.final = TRUE]
  /\ UNCHANGED <<tables, receiver>>

(* exportSequencedBundle: InvalidateMutable, then InvalidateMetadata.        *)
SkipInvalidate ==   \* mutant: the stale entry survives until Record
  /\ job.pc = "invalidate"
  /\ job' = [job EXCEPT !.pc = "invalidatemeta"]
  /\ UNCHANGED <<tables, receiver>>
InvalidateMutable ==
  /\ job.pc = "invalidate"
  /\ mfwd' = Forget(mfwd, DeliveredMutable)
  /\ job' = [job EXCEPT !.pc = "invalidatemeta"]
  /\ UNCHANGED <<fwd, fmeta, pending, receiver>>

InvalidateMetadata ==
  /\ job.pc = "invalidatemeta"
  /\ fmeta' = Forget(fmeta, CurrentMeta)
  /\ job' = [job EXCEPT !.pc = "write"]
  /\ UNCHANGED <<fwd, mfwd, pending, receiver>>

(* write(seq) completes the signed artifacts; the receiver will install the  *)
(* delivered files and, from the ecosystem bundle, publish its metadata.    *)
Write ==
  /\ job.pc = "write"
  /\ repo' = Upsert(repo, Delivered)
  /\ rmeta' = Upsert(rmeta, CurrentMeta)
  /\ bare' = IF job.final THEN bare \ job.files ELSE bare \cup job.cur
  /\ job' = [job EXCEPT !.pc = "record"]
  /\ UNCHANGED tables

(* After the commit, recordForwarded: a failed transaction is only logged.  *)
RecordForwarded ==
  /\ job.pc = "record"
  /\ \/ fwd' = fwd \cup job.cur /\ mfwd' = Upsert(mfwd, DeliveredMutable)
     \/ UNCHANGED <<fwd, mfwd>>
  /\ job' = [job EXCEPT !.pc = IF job.final THEN "recordmeta" ELSE "split",
                        !.prior = @ \cup job.cur]
  /\ UNCHANGED <<fmeta, pending, receiver>>

RecordMetadata ==
  /\ job.pc = "recordmeta"
  /\ fmeta' \in {fmeta, Upsert(fmeta, job.meta)}
  /\ job' = [job EXCEPT !.pc = "clear"]
  /\ UNCHANGED <<fwd, mfwd, pending, receiver>>

(* ClearPendingMetadata acknowledges exactly the files of this bundle.      *)
ClearPendingMetadata ==
  /\ job.pc = "clear"
  /\ pending' \in {pending, pending \ job.files}
  /\ job' = NoJob
  /\ UNCHANGED <<fwd, mfwd, fmeta, receiver>>

(* A store error, a refused allocation, a failed write or save, a cancelled  *)
(* request or a crash ends the collect where it is.                         *)
Abort ==
  /\ job.pc # "idle"
  /\ job' = NoJob
  /\ UNCHANGED <<tables, receiver>>

Next ==
  \/ \E fs \in FileLists, ms \in MetaLists, force, need \in BOOLEAN :
       \E prior \in SUBSET fs : Collect(fs, ms, force, prior, need)
  \/ \E part \in SUBSET (job.files \ job.prior) : StartPart(part)
  \/ StartFinal
  \/ InvalidateMutable
  \/ InvalidateMetadata
  \/ Write
  \/ RecordForwarded
  \/ RecordMetadata
  \/ ClearPendingMetadata
  \/ Abort

Spec == Init /\ [][Next]_vars

----------------------------------------------------------------------------
(* Types of the index, the receiver and the collect, with one row per       *)
(* mutable path and per metadata key.                                       *)
TypeOK ==
  /\ fwd \subseteq Files /\ pending \subseteq Files
  /\ mfwd \in FileLists /\ \A f \in mfwd : IsMutable(f)
  /\ fmeta \in MetaLists
  /\ repo \in FileLists /\ rmeta \in MetaLists /\ bare \subseteq Files
  /\ job \in Jobs
  /\ job.files \in FileLists /\ job.meta \in MetaLists
  /\ job.prior \subseteq job.files /\ job.cur \subseteq job.files

(* InvalidateMutable, InvalidateMetadata and MarkPendingMetadata commit      *)
(* before the write they cover: wherever a collect stops, every index entry  *)
(* that can suppress a delivery describes what the receiver really gets.    *)
IndexSound ==
  /\ mfwd \subseteq repo
  /\ {f \in fwd : ~IsMutable(f)} \subseteq repo
  /\ fmeta \subseteq rmeta
  /\ bare \subseteq pending

(* requirePriorFile on the receiver never fails: when a bundle is written,   *)
(* each file it lists as prior is in the receiver's repository, with the     *)
(* listed hash.                                                             *)
PriorHeld == job.pc = "write" => (job.cur \cap job.prior) \subseteq repo

(* A collect that is skipped loses nothing: the receiver has each of its     *)
(* files, has each in an ecosystem bundle, and has its latest metadata.      *)
SkipLosesNothing ==
  \A fs \in FileLists, ms \in MetaLists :
    Skips(fs, ms) => /\ fs \subseteq repo
                     /\ fs \cap bare = {}
                     /\ ms \subseteq rmeta
============================================================================
