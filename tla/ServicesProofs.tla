--------------------------- MODULE ServicesProofs ----------------------------
(***************************************************************************)
(* What the low side remembers as forwarded, and what a receiver makes of  *)
(* it: the dedup index of exported.go (ExportIndex), for all paths,        *)
(* hashes, keys and collects, and the packs of Git mirrors (GitMirror),    *)
(* for every repository, upstream and number of faults and crashes; then   *)
(* the types of all services side by side (MCServices), from the           *)
(* invariants of each (JobsProofs, RecoveryProofs, DiodeProofs).            *)
(***************************************************************************)
EXTENDS MCServices, JobsProofs, RecoveryProofs, DiodeProofs

----------------------------------------------------------------------------
(* The dedup index.                                                          *)

(***************************************************************************)
(* What a collect in progress relies on at each of its steps.  IndexSound  *)
(* is not inductive by itself: it is kept by the order of the steps, which *)
(* is what the conjuncts below record.                                     *)
(***************************************************************************)
JobSound ==
  /\ job.prior \subseteq repo
  /\ job.pc \in {"invalidate", "invalidatemeta", "write", "record"} =>
       IF job.final THEN job.cur = job.files
                    ELSE job.cur \cap job.prior = {} /\ job.cur \subseteq pending
  /\ job.pc \in {"invalidatemeta", "write"} =>
       \A e \in mfwd, d \in Delivered : d[1] # e[1]
  /\ job.pc = "write" => \A e \in fmeta, d \in CurrentMeta : d[1] # e[1]
  /\ job.pc = "record" => job.cur \subseteq repo
  /\ \/ job.pc = "record" /\ job.final
     \/ job.pc \in {"recordmeta", "clear"}
     => /\ job.files \cap bare = {}
        /\ job.meta \subseteq rmeta

Inv == TypeOK /\ IndexSound /\ JobSound

(* A table with one row per key keeps one row per key under an upsert, and   *)
(* contains the new rows and the old rows of all other keys.                *)
LEMMA UpsertFacts ==
  ASSUME NEW S, NEW table, NEW entries,
         table \subseteq S, entries \subseteq S,
         OnePerKey(table), OnePerKey(entries)
  PROVE  /\ Upsert(table, entries) \subseteq S
         /\ OnePerKey(Upsert(table, entries))
         /\ entries \subseteq Upsert(table, entries)
         /\ \A e \in table : (\A d \in entries : d[1] # e[1]) => e \in Upsert(table, entries)
         /\ \A e \in Upsert(table, entries) : e \in table \/ e \in entries
BY DEF Upsert, OnePerKey

(* A delete removes every row of the named keys and adds none.              *)
LEMMA ForgetFacts ==
  ASSUME NEW table, NEW entries
  PROVE  /\ Forget(table, entries) \subseteq table
         /\ \A e \in Forget(table, entries), d \in entries : d[1] # e[1]
         /\ OnePerKey(table) => OnePerKey(Forget(table, entries))
BY DEF Forget, OnePerKey

(* An empty index and an empty receiver agree.                              *)
LEMMA InitInv == Init => Inv
BY DEF Init, Inv, TypeOK, IndexSound, JobSound, NoJob, Jobs, FileLists, MetaLists, OnePerKey,
       Delivered, CurrentMeta

(* In an immutable path both copies have the same hash, so they are equal.  *)
LEMMA ImmutableOneHash ==
  ASSUME NEW f \in Files, NEW g \in Files, f[1] = g[1], ~IsMutable(f)
  PROVE  f = g
BY UpstreamAssumption DEF Files, IsMutable

(* exportIfNew may only call prior what the index says was forwarded.       *)
LEMMA CollectInv ==
  ASSUME Inv, NEW fs \in FileLists, NEW ms \in MetaLists, NEW force \in BOOLEAN,
         NEW need \in BOOLEAN, NEW prior \in SUBSET fs, Collect(fs, ms, force, prior, need)
  PROVE  Inv'
<1>1. prior \subseteq repo
  BY DEF Inv, TypeOK, IndexSound, Collect, MarkPriorFiles, IsForwarded
<1>2. TypeOK'
  BY DEF Inv, TypeOK, Collect, MarkPriorFiles, tables, receiver, Jobs, FileLists, MetaLists, IsMutable
<1>3. IndexSound'
  BY DEF Inv, IndexSound, Collect, MarkPriorFiles, tables, receiver, IsMutable
<1>4. JobSound'
  BY <1>1 DEF Inv, JobSound, Collect, MarkPriorFiles, tables, receiver
<1> QED BY <1>2, <1>3, <1>4 DEF Inv

(* A part's files are marked before anything of it is written.              *)
LEMMA StartPartInv ==
  ASSUME Inv, NEW chunk, StartPart(chunk)
  PROVE  Inv'
<1>1. TypeOK'
  BY DEF Inv, TypeOK, StartPart, receiver, Jobs, FileLists, MetaLists, IsMutable
<1>2. IndexSound'
  BY DEF Inv, IndexSound, StartPart, receiver, IsMutable
<1>3. JobSound'
  BY DEF Inv, TypeOK, Jobs, JobSound, StartPart, receiver
<1> QED BY <1>1, <1>2, <1>3 DEF Inv

(* The ecosystem bundle covers all files of the collect.                    *)
LEMMA StartFinalInv == ASSUME Inv, StartFinal PROVE Inv'
<1>1. TypeOK'
  BY DEF Inv, TypeOK, StartFinal, tables, receiver, Jobs, FileLists, MetaLists, IsMutable
<1>2. IndexSound'
  BY DEF Inv, IndexSound, StartFinal, tables, receiver, IsMutable
<1>3. JobSound'
  BY DEF Inv, TypeOK, Jobs, JobSound, StartFinal, tables, receiver
<1> QED BY <1>1, <1>2, <1>3 DEF Inv

(* The rows the bundle is about to make stale are gone before it is written.*)
LEMMA InvalidateMutableInv == ASSUME Inv, InvalidateMutable PROVE Inv'
<1>1. /\ mfwd' \subseteq mfwd
      /\ OnePerKey(mfwd')
      /\ \A e \in mfwd', d \in DeliveredMutable : d[1] # e[1]
  BY ForgetFacts DEF Inv, TypeOK, FileLists, InvalidateMutable
<1>2. \A e \in mfwd', d \in Delivered : d[1] # e[1]
  BY <1>1 DEF Inv, TypeOK, DeliveredMutable, IsMutable
<1>3. TypeOK'
  BY <1>1 DEF Inv, TypeOK, InvalidateMutable, receiver, Jobs, FileLists, MetaLists, IsMutable
<1>4. IndexSound'
  BY <1>1 DEF Inv, IndexSound, InvalidateMutable, receiver, IsMutable
<1>5. JobSound'
  BY <1>2 DEF Inv, TypeOK, Jobs, JobSound, InvalidateMutable, receiver, Delivered
<1> QED BY <1>3, <1>4, <1>5 DEF Inv

(* The same for the metadata rows.                                          *)
LEMMA InvalidateMetadataInv == ASSUME Inv, InvalidateMetadata PROVE Inv'
<1>1. /\ fmeta' \subseteq fmeta
      /\ OnePerKey(fmeta')
      /\ \A e \in fmeta', d \in CurrentMeta : d[1] # e[1]
  BY ForgetFacts DEF Inv, TypeOK, MetaLists, InvalidateMetadata
<1>2. TypeOK'
  BY <1>1 DEF Inv, TypeOK, InvalidateMetadata, receiver, Jobs, FileLists, MetaLists, IsMutable
<1>3. IndexSound'
  BY <1>1 DEF Inv, IndexSound, InvalidateMetadata, receiver, IsMutable
<1>4. JobSound'
  BY <1>1 DEF Inv, TypeOK, Jobs, JobSound, InvalidateMetadata, receiver, Delivered, CurrentMeta
<1> QED BY <1>2, <1>3, <1>4 DEF Inv

(* The receiver will overwrite only what the index no longer claims.        *)
LEMMA WriteInv == ASSUME Inv, Write PROVE Inv'
<1>1. /\ Delivered \subseteq job.files /\ Delivered \in FileLists
      /\ CurrentMeta \in MetaLists
      /\ job.files \subseteq Files /\ OnePerKey(job.files)
  BY DEF Inv, TypeOK, Jobs, Delivered, CurrentMeta, FileLists, MetaLists, OnePerKey
<1>2. /\ repo' \in FileLists /\ Delivered \subseteq repo'
      /\ \A e \in repo : (\A d \in Delivered : d[1] # e[1]) => e \in repo'
  BY <1>1, UpsertFacts DEF Inv, TypeOK, FileLists, Write
<1>3. /\ rmeta' \in MetaLists /\ CurrentMeta \subseteq rmeta'
      /\ \A e \in rmeta : (\A d \in CurrentMeta : d[1] # e[1]) => e \in rmeta'
  BY <1>1, UpsertFacts DEF Inv, TypeOK, MetaLists, Write
<1>4. \A f \in job.prior : f \in repo'
  BY <1>1, <1>2 DEF Inv, TypeOK, JobSound, Delivered, OnePerKey
<1>5. TypeOK'
  <2>1. bare' \subseteq Files
    BY DEF Inv, TypeOK, Jobs, Write
  <2>2. job' \in Jobs /\ job'.files = job.files /\ job'.meta = job.meta
        /\ job'.prior = job.prior /\ job'.cur = job.cur
    BY DEF Inv, TypeOK, Jobs, Write
  <2> QED BY <1>2, <1>3, <2>1, <2>2 DEF Inv, TypeOK, Write, tables, IsMutable
<1>6. IndexSound'
  <2>1. mfwd \subseteq repo'
    BY <1>2 DEF Inv, IndexSound, JobSound, Write
  <2>2. \A f \in fwd : ~IsMutable(f) => f \in repo'
    <3>1. SUFFICES ASSUME NEW f \in fwd, ~IsMutable(f) PROVE f \in repo'
      OBVIOUS
    <3>2. CASE \E d \in Delivered : d[1] = f[1]
      BY <1>1, <1>2, <3>1, <3>2, ImmutableOneHash DEF Inv, TypeOK
    <3>3. CASE ~\E d \in Delivered : d[1] = f[1]
      BY <1>2, <3>1, <3>3 DEF Inv, IndexSound
    <3> QED BY <3>2, <3>3
  <2>3. fmeta \subseteq rmeta'
    BY <1>3 DEF Inv, IndexSound, JobSound, Write
  <2>4. bare' \subseteq pending
    BY DEF Inv, IndexSound, JobSound, Write
  <2> QED BY <2>1, <2>2, <2>3, <2>4 DEF IndexSound, Write, tables, IsMutable
<1>7. JobSound'
  <2>1. /\ job'.pc = "record" /\ job'.files = job.files /\ job'.meta = job.meta
        /\ job'.prior = job.prior /\ job'.cur = job.cur /\ job'.final = job.final
    BY DEF Inv, TypeOK, Jobs, Write
  <2>2. job.cur \subseteq repo'
    BY <1>2, <1>4 DEF Delivered
  <2>3. job.final => job.files \cap bare' = {} /\ job.meta \subseteq rmeta'
    BY <1>3 DEF Write, CurrentMeta
  <2>4. IF job.final THEN job.cur = job.files
                     ELSE job.cur \cap job.prior = {} /\ job.cur \subseteq pending'
    BY DEF Inv, JobSound, Write, tables
  <2> QED BY <1>4, <2>1, <2>2, <2>3, <2>4 DEF JobSound
<1> QED BY <1>5, <1>6, <1>7 DEF Inv

(* What is recorded is what was just delivered or was there before.         *)
LEMMA RecordForwardedInv == ASSUME Inv, RecordForwarded PROVE Inv'
<1>1. /\ DeliveredMutable \subseteq job.cur /\ DeliveredMutable \in FileLists
      /\ \A f \in DeliveredMutable : IsMutable(f)
      /\ job.cur \subseteq repo
  BY DEF Inv, TypeOK, Jobs, JobSound, RecordForwarded, DeliveredMutable, Delivered, FileLists,
         OnePerKey
<1>2. mfwd' \in FileLists /\ \A e \in mfwd' : e \in mfwd \/ e \in DeliveredMutable
  BY <1>1, UpsertFacts DEF Inv, TypeOK, FileLists, RecordForwarded
<1>3. /\ job' \in Jobs /\ job'.files = job.files /\ job'.meta = job.meta
      /\ job'.prior = job.prior \cup job.cur /\ job'.cur = job.cur /\ job'.final = job.final
      /\ job'.pc = IF job.final THEN "recordmeta" ELSE "split"
  BY DEF Inv, TypeOK, Jobs, RecordForwarded
<1>4. TypeOK'
  BY <1>1, <1>2, <1>3 DEF Inv, TypeOK, RecordForwarded, receiver, IsMutable, Jobs
<1>5. IndexSound'
  BY <1>1, <1>2 DEF Inv, IndexSound, RecordForwarded, receiver, IsMutable
<1>6. JobSound'
  BY <1>1, <1>3 DEF Inv, JobSound, RecordForwarded, receiver
<1> QED BY <1>4, <1>5, <1>6 DEF Inv

(* The metadata rows describe the bundle just written.                      *)
LEMMA RecordMetadataInv == ASSUME Inv, RecordMetadata PROVE Inv'
<1>1. /\ fmeta' \in MetaLists
      /\ \A e \in fmeta' : e \in fmeta \/ e \in job.meta
  BY UpsertFacts DEF Inv, TypeOK, MetaLists, RecordMetadata
<1>2. TypeOK'
  BY <1>1 DEF Inv, TypeOK, RecordMetadata, receiver, Jobs, IsMutable
<1>3. IndexSound'
  BY <1>1 DEF Inv, IndexSound, JobSound, RecordMetadata, receiver, IsMutable
<1>4. JobSound'
  BY DEF Inv, TypeOK, Jobs, JobSound, RecordMetadata, receiver
<1> QED BY <1>2, <1>3, <1>4 DEF Inv

(* Only files that an ecosystem bundle has published are acknowledged.      *)
LEMMA ClearPendingMetadataInv == ASSUME Inv, ClearPendingMetadata PROVE Inv'
<1>1. TypeOK'
  BY DEF Inv, TypeOK, ClearPendingMetadata, receiver, NoJob, Jobs, FileLists, MetaLists,
         OnePerKey, IsMutable
<1>2. IndexSound'
  BY DEF Inv, IndexSound, JobSound, ClearPendingMetadata, receiver, IsMutable
<1>3. JobSound'
  BY DEF JobSound, ClearPendingMetadata, NoJob
<1> QED BY <1>1, <1>2, <1>3 DEF Inv

(* Stopping anywhere leaves the committed index sound.                      *)
LEMMA AbortInv == ASSUME Inv, Abort PROVE Inv'
<1>1. TypeOK'
  BY DEF Inv, TypeOK, Abort, tables, receiver, NoJob, Jobs, FileLists, MetaLists, OnePerKey,
         IsMutable
<1>2. IndexSound'
  BY DEF Inv, IndexSound, Abort, tables, receiver, IsMutable
<1>3. JobSound'
  BY DEF JobSound, Abort, NoJob
<1> QED BY <1>1, <1>2, <1>3 DEF Inv

(* A stuttering step changes nothing.                                       *)
LEMMA StutterInv == ASSUME Inv, UNCHANGED vars PROVE Inv'
BY DEF Inv, TypeOK, IndexSound, JobSound, vars, Delivered, CurrentMeta, IsMutable

(* Every step keeps the invariant.                                          *)
LEMMA NextInv == Inv /\ [Next]_vars => Inv'
<1>1. SUFFICES ASSUME Inv, [Next]_vars PROVE Inv'
  OBVIOUS
<1>2. CASE \E fs \in FileLists, ms \in MetaLists, force, need \in BOOLEAN :
             \E prior \in SUBSET fs : Collect(fs, ms, force, prior, need)
  BY <1>1, <1>2, CollectInv
<1>3. CASE \E chunk \in SUBSET (job.files \ job.prior) : StartPart(chunk)
  BY <1>1, <1>3, StartPartInv
<1>4. CASE StartFinal
  BY <1>1, <1>4, StartFinalInv
<1>5. CASE InvalidateMutable
  BY <1>1, <1>5, InvalidateMutableInv
<1>6. CASE InvalidateMetadata
  BY <1>1, <1>6, InvalidateMetadataInv
<1>7. CASE Write
  BY <1>1, <1>7, WriteInv
<1>8. CASE RecordForwarded
  BY <1>1, <1>8, RecordForwardedInv
<1>9. CASE RecordMetadata
  BY <1>1, <1>9, RecordMetadataInv
<1>10. CASE ClearPendingMetadata
  BY <1>1, <1>10, ClearPendingMetadataInv
<1>11. CASE Abort
  BY <1>1, <1>11, AbortInv
<1>12. CASE UNCHANGED vars
  BY <1>1, <1>12, StutterInv
<1> QED
  BY <1>1, <1>2, <1>3, <1>4, <1>5, <1>6, <1>7, <1>8, <1>9, <1>10, <1>11, <1>12 DEF Next

(* The inductive invariant holds throughout.                                *)
LEMMA InvAlways == Spec => []Inv
BY InitInv, NextInv, PTL DEF Spec

----------------------------------------------------------------------------
(* The index tables of exported.go and a collect's working set keep their    *)
(* types: one row per mutable path and per metadata key.                    *)
THEOREM IndexTypeCorrect == Spec => []TypeOK
<1>1. Inv => TypeOK
  BY DEF Inv
<1> QED BY <1>1, InvAlways, PTL

(* Wherever exportIfNew stops, by error, cancellation or crash, the index    *)
(* never claims that the receiver has something it does not get.            *)
THEOREM IndexAlwaysSound == Spec => []IndexSound
<1>1. Inv => IndexSound
  BY DEF Inv
<1> QED BY <1>1, InvAlways, PTL

(* No bundle is ever written with a prior reference that the receiver could  *)
(* not resolve with the listed hash (requirePriorFile).                     *)
THEOREM PriorAlwaysHeld == Spec => []PriorHeld
<1>1. Inv => PriorHeld
  BY DEF Inv, JobSound, PriorHeld
<1> QED BY <1>1, InvAlways, PTL

(* A collect that exportIfNew answers with "no new content" would have told  *)
(* the receiver nothing new.                                                *)
THEOREM SkipAlwaysLosesNothing == Spec => []SkipLosesNothing
<1>1. Inv => SkipLosesNothing
  BY DEF Inv, IndexSound, SkipLosesNothing, Skips, IsForwarded, NeedsMetadataExport,
         MetadataChanged, HasPendingMetadata, FileLists, IsMutable
<1> QED BY <1>1, InvAlways, PTL

----------------------------------------------------------------------------
(* Git mirrors.  What RefsNeverDangle rests on: the pack whose refs are about  *)
(* to be written is installed and indexed (PackReady), and installed packs    *)
(* and their indexes are never removed.                                      *)
IsServed == served = [refs |-> served.refs, head |-> served.head, pack |-> served.pack]

PackReady ==
  /\ publish.pc = "idx" => publish.pack \in packs
  /\ publish.pc \in {"refs", "head", "packs"} => publish.pack \in packs \cap idx
  /\ publish.pc # "idle" =>
       publish = [pc |-> publish.pc, refs |-> publish.refs, head |-> publish.head, pack |-> publish.pack]

DangleInv == IsServed /\ PackReady /\ RefsNeverDangle

(* A ref is kept only if the pack has its commit.                            *)
LEMMA KeptRefsInPack == \A r \in RefsIn(KeptRefs) : KeptRefs[r] \in publish.pack
  BY DEF RefsIn, KeptRefs

LEMMA DangleInit == GitInit => DangleInv
  BY DEF GitInit, DangleInv, IsServed, PackReady, RefsNeverDangle, RefsIn, NoRefs, NoPublish

(* The low side's steps touch nothing the invariant speaks of.               *)
LEMMA LowSideKeeps ==
  ASSUME DangleInv, UNCHANGED <<packs, idx, served, publish>>
  PROVE  DangleInv'
  BY DEF DangleInv, IsServed, PackReady, RefsNeverDangle, RefsIn

(* Steps that end a publication.                                             *)
LEMMA PublicationEndKeeps ==
  ASSUME DangleInv, publish' = NoPublish, UNCHANGED <<packs, idx, served>>
  PROVE  DangleInv'
  BY DEF DangleInv, IsServed, PackReady, RefsNeverDangle, RefsIn, NoPublish

LEMMA InstallKeeps == DangleInv /\ Install => DangleInv'
  BY DEF DangleInv, IsServed, PackReady, RefsNeverDangle, RefsIn, Install

LEMMA RegenerateKeeps == DangleInv /\ RegenerateIdx => DangleInv'
  BY DEF DangleInv, IsServed, PackReady, RefsNeverDangle, RefsIn, RegenerateIdx

LEMMA WriteRefsKeeps ==
  ASSUME DangleInv, WriteRefs
  PROVE  DangleInv'
<1>1. publish.pack \in packs \cap idx
  BY DEF DangleInv, PackReady, WriteRefs
<1>2. served'.refs = KeptRefs /\ IsServed'
  BY DEF DangleInv, IsServed, WriteRefs
<1>3. PackReady'
  BY <1>1 DEF DangleInv, PackReady, WriteRefs
<1>4. RefsNeverDangle'
  <2> SUFFICES ASSUME NEW r \in RefsIn(KeptRefs)
               PROVE  \E p \in packs \cap idx : KeptRefs[r] \in p
    BY <1>2 DEF RefsNeverDangle, RefsIn, WriteRefs
  <2> QED BY <1>1, KeptRefsInPack
<1> QED BY <1>2, <1>3, <1>4 DEF DangleInv

LEMMA WriteHeadKeeps == DangleInv /\ WriteHead => DangleInv'
  BY DEF DangleInv, IsServed, PackReady, RefsNeverDangle, RefsIn, WriteHead

LEMMA WritePacksKeeps == DangleInv /\ WritePacks => DangleInv'
  BY DEF DangleInv, IsServed, PackReady, RefsNeverDangle, RefsIn, WritePacks, Commit, NoPublish

LEMMA DangleNext == DangleInv /\ [GitNext]_gitVars => DangleInv'
<1> SUFFICES ASSUME DangleInv, [GitNext]_gitVars
             PROVE  DangleInv'
  OBVIOUS
<1>1. ASSUME NEW r \in RefNames, NEW t \in Commits \cup {NoRef}, MoveRef(r, t)
      PROVE  DangleInv'
  BY <1>1, LowSideKeeps DEF MoveRef
<1>2. ASSUME NEW r \in Branches, MoveHead(r)
      PROVE  DangleInv'
  BY <1>2, LowSideKeeps DEF MoveHead
<1>3. ASSUME NEW requested \in Requests, Advertise(requested)
      PROVE  DangleInv'
  BY <1>3, LowSideKeeps DEF Advertise
<1>4. CASE CollectStep
  BY <1>4, LowSideKeeps DEF CollectStep, FetchPack, VerifyPack, ExportPack, CollectFails
<1>5. CASE PublishStep
  BY <1>5, InstallKeeps, RegenerateKeeps, WriteRefsKeeps, WriteHeadKeeps, WritePacksKeeps DEF PublishStep
<1>6. CASE PublishFails
  BY <1>6, PublicationEndKeeps DEF PublishFails, Commit
<1>7. CASE CrashPublication
  BY <1>7, PublicationEndKeeps DEF CrashPublication
<1>8. CASE UNCHANGED gitVars
  BY <1>8, LowSideKeeps DEF gitVars
<1> QED BY <1>1, <1>2, <1>3, <1>4, <1>5, <1>6, <1>7, <1>8 DEF GitNext

(* Every ref the mirror serves is in an installed and indexed pack, in every   *)
(* state between the writes of a publication too (gitKeptRefs, publishGit).    *)
THEOREM ServedRefsResolve == GitSpec => []RefsNeverDangle
<1>1. DangleInv => RefsNeverDangle
  BY DEF DangleInv
<1> QED BY DangleInit, DangleNext, <1>1, PTL DEF GitSpec

----------------------------------------------------------------------------
(* What a collect holds at each of its steps, what is shipped and what is      *)
(* published are listings and packs of the repository; a publication writes   *)
(* HEAD only when a ref is left.                                             *)
RefLists == [RefNames -> Commits \cup {NoRef}]
HeadNames == RefNames \cup {NoRef}
PackBundle == [refs : RefLists, head : HeadNames, pack : SUBSET Objects]

GitShapes ==
  /\ shipped \in Seq(PackBundle) /\ (publish.pc # "idle" => shipped # <<>>)
  /\ \/ collect = NoCollect
     \/ collect \in [pc : {"fetch"}, refs : RefLists, head : HeadNames]
     \/ collect \in [pc : {"verify", "export"}, refs : RefLists, head : HeadNames, pack : SUBSET Objects]
  /\ \/ publish = NoPublish
     \/ publish \in [pc : {"idx", "refs", "head", "packs"}, refs : RefLists, head : HeadNames, pack : SUBSET Objects]
  /\ publish.pc = "head" => RefsIn(KeptRefs) # {}

GitInv == DangleInv /\ GitShapes /\ GitTypeOK

LEMMA GitStart ==
  ASSUME GitAssumed, GitInit
  PROVE  GitInv
<1>1. upstream \in Listing
  BY DEF GitInit, GitAssumed, Listing
<1>2. NoRefs \in RefLists /\ [refs |-> NoRefs, head |-> NoRef] \in Listing
  BY DEF NoRefs, RefLists, Listing
<1>3. shipped \in Seq(PackBundle) /\ publish.pc = "idle" /\ collect.pc = "idle"
  BY DEF GitInit, NoPublish, NoCollect
<1>4. GitShapes
  BY <1>3 DEF GitInit, GitShapes
<1>5. GitTypeOK
  BY <1>1, <1>2, <1>3 DEF GitInit, GitTypeOK
<1> QED BY <1>4, <1>5, DangleInit DEF GitInv

(* The commits of a listing are commits, and a pack fetched for it holds        *)
(* objects of the repository.                                                *)
LEMMA WantedFacts ==
  ASSUME collect.refs \in RefLists
  PROVE  Wanted \subseteq Objects
<1>1. TipsOf(collect.refs) \subseteq Commits
  BY DEF TipsOf, RefsIn, RefLists
<1> QED BY <1>1 DEF Wanted, Objects

(* What is written to info/refs and HEAD.                                    *)
LEMMA KeptFacts ==
  ASSUME publish.refs \in RefLists
  PROVE  /\ KeptRefs \in RefLists
         /\ RefsIn(KeptRefs) # {} => HeadTarget \in RefNames
<1>1. KeptRefs \in RefLists
  BY DEF KeptRefs, RefLists
<1>2. ASSUME RefsIn(KeptRefs) # {}
      PROVE  HeadTarget \in RefsIn(KeptRefs)
  <2>1. \E h \in RefsIn(KeptRefs) : RefsIn(KeptRefs) \cap Branches = {} \/ h \in Branches
    BY <1>2
  <2> QED BY <2>1 DEF HeadTarget
<1>3. RefsIn(KeptRefs) \subseteq RefNames
  BY DEF RefsIn
<1> QED BY <1>1, <1>2, <1>3

(* The steps of a collect.                                                   *)
LEMMA CollectTyped ==
  ASSUME GitInv, CollectStep
  PROVE  GitShapes' /\ GitTypeOK'
<1>1. /\ upstream \in Listing /\ shipped \in Seq(PackBundle) /\ reported \in Listing
      /\ index \subseteq SUBSET Objects
  BY DEF GitInv, GitShapes, GitTypeOK
<1>2. UNCHANGED <<upstream, packs, idx, served, publish>> /\ KeptRefs' = KeptRefs
  BY DEF CollectStep, FetchPack, VerifyPack, ExportPack, CollectFails, KeptRefs
<1>3. ASSUME NEW objects \in SUBSET Objects, FetchPack(objects)
      PROVE  GitShapes' /\ GitTypeOK'
  <2>1. collect.refs \in RefLists /\ collect.head \in HeadNames
    BY <1>3 DEF GitInv, GitShapes, FetchPack, NoCollect
  <2>2. collect' \in [pc : {"verify", "export"}, refs : RefLists, head : HeadNames, pack : SUBSET Objects]
    BY <1>3, <2>1 DEF FetchPack
  <2>3. collect'.pc = "verify" /\ UNCHANGED <<index, shipped, reported>>
    BY <1>3 DEF FetchPack
  <2> QED BY <1>2, <2>2, <2>3 DEF GitInv, GitShapes, GitTypeOK, RefsIn
<1>4. CASE VerifyPack
  <2>1. collect \in [pc : {"verify", "export"}, refs : RefLists, head : HeadNames, pack : SUBSET Objects]
    BY <1>4 DEF GitInv, GitShapes, VerifyPack, NoCollect
  <2>2. /\ collect' \in [pc : {"verify", "export"}, refs : RefLists, head : HeadNames, pack : SUBSET Objects]
        /\ collect'.pc = "export"
    BY <1>4, <2>1 DEF VerifyPack
  <2>3. UNCHANGED <<index, shipped, reported>>
    BY <1>4 DEF VerifyPack
  <2> QED BY <1>2, <2>2, <2>3 DEF GitInv, GitShapes, GitTypeOK, RefsIn
<1>5. ASSUME NEW force \in BOOLEAN, ExportPack(force)
      PROVE  GitShapes' /\ GitTypeOK'
  <2>1. collect.refs \in RefLists /\ collect.head \in HeadNames /\ collect.pack \in SUBSET Objects
    BY <1>5 DEF GitInv, GitShapes, ExportPack, NoCollect
  <2>2. collect' = NoCollect /\ collect'.pc = "idle"
    BY <1>5 DEF ExportPack, NoCollect
  <2>3. reported' \in Listing
    BY <1>5, <2>1 DEF ExportPack, Listing, RefLists, HeadNames
  <2>4. index' \subseteq SUBSET Objects
    BY <1>1, <1>5, <2>1 DEF ExportPack
  <2>5. shipped' \in Seq(PackBundle) /\ (shipped # <<>> => shipped' # <<>>)
    <3>1. [refs |-> collect.refs, head |-> collect.head, pack |-> collect.pack] \in PackBundle
      BY <2>1 DEF PackBundle
    <3> QED BY <1>1, <1>5, <3>1 DEF ExportPack
  <2> QED BY <1>2, <2>2, <2>3, <2>4, <2>5 DEF GitInv, GitShapes, GitTypeOK, RefsIn
<1>6. CASE CollectFails
  <2>1. collect' = NoCollect /\ collect'.pc = "idle" /\ UNCHANGED <<index, shipped, reported>>
    BY <1>6 DEF CollectFails, NoCollect
  <2> QED BY <1>2, <2>1 DEF GitInv, GitShapes, GitTypeOK, RefsIn
<1> QED BY <1>3, <1>4, <1>5, <1>6 DEF CollectStep

(* The steps of a publication, and its end.                                   *)
LEMMA PublishTyped ==
  ASSUME GitInv, PublishStep \/ PublishFails \/ CrashPublication
  PROVE  GitShapes' /\ GitTypeOK'
<1> DEFINE Publication == [pc : {"idx", "refs", "head", "packs"}, refs : RefLists, head : HeadNames, pack : SUBSET Objects]
<1>1. /\ shipped \in Seq(PackBundle) /\ packs \subseteq SUBSET Objects /\ idx \subseteq packs
      /\ served = [refs |-> served.refs, head |-> served.head, pack |-> served.pack]
      /\ served.refs \in RefLists /\ served.head \in HeadNames /\ served.pack \subseteq Objects
  BY DEF GitInv, DangleInv, IsServed, GitShapes, GitTypeOK, Listing, RefLists, HeadNames
<1>2. UNCHANGED <<upstream, collect, index, reported>>
  BY DEF PublishStep, Install, RegenerateIdx, WriteRefs, WriteHead, WritePacks, PublishFails, CrashPublication
<1>3. ASSUME packs' \subseteq SUBSET Objects, idx' \subseteq packs', shipped' \in Seq(PackBundle),
             served'.refs \in RefLists, served'.head \in HeadNames, served'.pack \subseteq Objects,
             publish' = NoPublish \/ (publish' \in Publication /\ shipped' # <<>>),
             publish'.pc = "head" => RefsIn(KeptRefs)' # {}
      PROVE  GitShapes' /\ GitTypeOK'
  <2>1. publish'.pc \in {"idle", "idx", "refs", "head", "packs"} /\ (publish'.pc # "idle" => shipped' # <<>>)
    BY <1>3 DEF NoPublish
  <2>2. [refs |-> served'.refs, head |-> served'.head] \in Listing
    BY <1>3 DEF Listing, RefLists, HeadNames
  <2>3. GitTypeOK'
    BY <1>2, <1>3, <2>1, <2>2 DEF GitInv, GitTypeOK
  <2>4. GitShapes'
    BY <1>2, <1>3, <2>1 DEF GitInv, GitShapes
  <2> QED BY <2>3, <2>4
<1>4. publish.pc # "idle" => publish \in Publication /\ shipped # <<>> /\ publish.pack \in packs
  BY DEF GitInv, GitShapes, NoPublish, DangleInv, PackReady
<1> HIDE DEF Publication
<1>5. CASE Install
  <2>1. Head(shipped) \in PackBundle /\ shipped # <<>>
    BY <1>1, <1>5 DEF Install
  <2>2. publish' \in Publication /\ publish'.pc = "idx"
    BY <1>5, <2>1 DEF Install, PackBundle, Publication
  <2>3. packs' \subseteq SUBSET Objects
    BY <1>1, <1>5, <2>1 DEF Install, PackBundle
  <2>4. packs \subseteq packs' /\ UNCHANGED <<shipped, idx, served>>
    BY <1>5 DEF Install
  <2> QED BY <1>1, <1>3, <2>1, <2>2, <2>3, <2>4
<1>6. CASE RegenerateIdx
  <2>1. publish \in Publication /\ shipped # <<>> /\ publish.pack \in packs
    BY <1>4, <1>6 DEF RegenerateIdx
  <2>2. publish' \in Publication /\ publish'.pc = "refs"
    BY <1>6, <2>1 DEF RegenerateIdx, Publication
  <2>3. idx' \subseteq packs' /\ UNCHANGED <<shipped, packs, served>>
    BY <1>1, <1>6, <2>1 DEF RegenerateIdx
  <2> QED BY <1>1, <1>3, <2>1, <2>2, <2>3
<1>7. CASE WriteRefs
  <2>1. publish \in Publication /\ shipped # <<>> /\ KeptRefs \in RefLists
    BY <1>4, <1>7, KeptFacts DEF WriteRefs, Publication
  <2>2. publish' = [publish EXCEPT !.pc = "head"] /\ RefsIn(KeptRefs) # {} /\ UNCHANGED <<shipped, packs, idx>>
    BY <1>7 DEF WriteRefs
  <2>3. publish' \in Publication /\ publish'.refs = publish.refs /\ publish'.pack = publish.pack
    BY <2>1, <2>2 DEF Publication
  <2>4. RefsIn(KeptRefs)' # {}
    BY <2>2, <2>3 DEF KeptRefs, RefsIn
  <2>5. served'.refs = KeptRefs /\ served'.head = served.head /\ served'.pack = served.pack
    BY <1>1, <1>7 DEF WriteRefs
  <2> QED BY <1>1, <1>3, <2>1, <2>2, <2>3, <2>4, <2>5
<1>8. CASE WriteHead
  <2>1. publish \in Publication /\ shipped # <<>> /\ publish.refs \in RefLists
    BY <1>4, <1>8 DEF WriteHead, Publication
  <2>2. RefsIn(KeptRefs) # {} /\ publish.pc = "head"
    BY <1>8 DEF GitInv, GitShapes, WriteHead
  <2>3. HeadTarget \in HeadNames
    BY <2>1, <2>2, KeptFacts DEF HeadNames
  <2>4. publish' \in Publication /\ publish'.pc = "packs" /\ UNCHANGED <<shipped, packs, idx>>
    BY <1>8, <2>1 DEF WriteHead, Publication
  <2>5. served'.refs = served.refs /\ served'.head = HeadTarget /\ served'.pack = served.pack
    BY <1>1, <1>8 DEF WriteHead
  <2> QED BY <1>1, <1>3, <2>1, <2>3, <2>4, <2>5
<1>9. CASE WritePacks
  <2>1. publish \in Publication /\ shipped # <<>>
    BY <1>4, <1>9 DEF WritePacks
  <2>2. served'.refs = served.refs /\ served'.head = served.head /\ served'.pack = publish.pack
    BY <1>1, <1>9 DEF WritePacks
  <2>3. shipped' \in Seq(PackBundle) /\ publish' = NoPublish /\ publish'.pc = "idle" /\ UNCHANGED <<packs, idx>>
    BY <1>1, <1>9, <2>1 DEF WritePacks, Commit, NoPublish
  <2> QED BY <1>1, <1>3, <2>1, <2>2, <2>3 DEF Publication
<1>10. CASE PublishFails
  <2>1. shipped # <<>>
    BY <1>4, <1>10 DEF PublishFails
  <2>2. shipped' \in Seq(PackBundle) /\ publish' = NoPublish /\ publish'.pc = "idle" /\ UNCHANGED <<packs, idx, served>>
    BY <1>1, <1>10, <2>1 DEF PublishFails, Commit, NoPublish
  <2> QED BY <1>1, <1>3, <2>2
<1>11. CASE CrashPublication
  <2>1. publish' = NoPublish /\ publish'.pc = "idle" /\ UNCHANGED <<shipped, packs, idx, served>>
    BY <1>11 DEF CrashPublication, NoPublish
  <2> QED BY <1>1, <1>3, <2>1
<1> QED BY <1>5, <1>6, <1>7, <1>8, <1>9, <1>10, <1>11 DEF PublishStep

LEMMA GitStep ==
  ASSUME GitAssumed, GitInv, [GitNext]_gitVars
  PROVE  GitInv'
<1>1. DangleInv'
  BY DangleNext DEF GitInv
<1> SUFFICES GitShapes' /\ GitTypeOK'
  BY <1>1 DEF GitInv
<1>2. ASSUME upstream' \in Listing,
             collect' = NoCollect \/ collect' \in [pc : {"fetch"}, refs : RefLists, head : HeadNames] \/ collect' = collect,
             UNCHANGED <<index, shipped, packs, idx, served, publish, reported>>
      PROVE  GitShapes' /\ GitTypeOK'
  <2>1. collect'.pc \in {"idle", "fetch", "verify", "export"}
    BY <1>2 DEF GitInv, GitTypeOK, NoCollect
  <2>2. KeptRefs' = KeptRefs /\ RefsIn(KeptRefs)' = RefsIn(KeptRefs)
    BY <1>2 DEF KeptRefs, RefsIn
  <2> QED BY <1>2, <2>1, <2>2 DEF GitInv, GitShapes, GitTypeOK
<1>3. upstream \in Listing
  BY DEF GitInv, GitTypeOK
<1>4. ASSUME NEW r \in RefNames, NEW t \in Commits \cup {NoRef}, MoveRef(r, t)
      PROVE  GitShapes' /\ GitTypeOK'
  <2>1. upstream' \in Listing
    BY <1>3, <1>4 DEF MoveRef, Listing
  <2> QED BY <1>2, <1>4, <2>1 DEF MoveRef
<1>5. ASSUME NEW r \in Branches, MoveHead(r)
      PROVE  GitShapes' /\ GitTypeOK'
  <2>1. upstream' \in Listing
    BY <1>3, <1>5 DEF MoveHead, Listing, GitAssumed
  <2> QED BY <1>2, <1>5, <2>1 DEF MoveHead
<1>6. ASSUME NEW requested \in Requests, Advertise(requested)
      PROVE  GitShapes' /\ GitTypeOK'
  <2>1. upstream.refs \in RefLists /\ upstream.head \in HeadNames
    BY <1>3 DEF Listing, RefLists, HeadNames
  <2>2. collect' \in [pc : {"fetch"}, refs : RefLists, head : HeadNames]
    BY <1>6, <2>1 DEF Advertise, RefLists, HeadNames
  <2> QED BY <1>2, <1>3, <1>6, <2>2 DEF Advertise
<1>7. CASE CollectStep
  BY <1>7, CollectTyped
<1>8. CASE PublishStep \/ PublishFails \/ CrashPublication
  BY <1>8, PublishTyped
<1>9. CASE UNCHANGED gitVars
  BY <1>2, <1>3, <1>9 DEF gitVars
<1> QED BY <1>4, <1>5, <1>6, <1>7, <1>8, <1>9 DEF GitNext

(* The mirror serves listings of the repository, HEAD a name of it, and an      *)
(* index only for a pack that is installed (gitHeadTarget, gitRegenerateIdx).  *)
THEOREM GitTypeCorrect == GitSpec => []GitTypeOK
<1> USE GitAssumption
<1>1. GitInv => GitTypeOK
  BY DEF GitInv
<1> QED BY GitStart, GitStep, <1>1, PTL DEF GitSpec

----------------------------------------------------------------------------
(* The services put together: whichever of them is at work, the others keep    *)
(* their states.                                                             *)
QueueInv == JobsInv /\ RowsTyped /\ RanWaits
BeatInv == MonitorInv /\ MonitorTypeOK
ServicesInv == Inv /\ RecoveryInv /\ UdpInv /\ IngestInv /\ QueueInv /\ LogInv /\ BeatInv /\ GitInv

LEMMA ServicesStart ==
  ASSUME RecoveryAssumed, IngestAssumed, Named, Streamed, Unwatched, LogAssumed, MonitorAssumed, GitAssumed, ServicesInit
  PROVE  ServicesInv
<1>1. /\ Init /\ RecoveryInit /\ UdpInit /\ IngestInit /\ JobsInit /\ JobLogInit /\ MonitorInit
      /\ GitInit
  BY DEF ServicesInit
<1>2. Inv /\ RecoveryInv /\ UdpInv /\ IngestInv
  BY <1>1, InitInv, RecoveryStart, UdpStart, IngestInitInv
<1>3. QueueInv /\ LogInv
  BY <1>1, InvInit, RowsInit, LogInitInv DEF QueueInv
<1>4. BeatInv /\ GitInv
  BY <1>1, MonitorStart, MonitorTyped, GitStart DEF BeatInv
<1> QED BY <1>2, <1>3, <1>4 DEF ServicesInv

(* A step of the services is a step of each of them, or leaves it alone.       *)
LEMMA OneAtWork ==
  ASSUME [ServicesNext]_all
  PROVE  /\ [Next]_vars /\ [RecoveryNext]_recoveryVars /\ [UdpNext]_udpVars /\ [IngestNext]_ingestVars
         /\ [JobsNext]_jobsVars /\ [JobLogNext]_jobLogVars /\ [MonitorNext]_monitorVars /\ [GitNext]_gitVars
  BY DEF ServicesNext, all

LEMMA ServicesStep ==
  ASSUME RecoveryAssumed, IngestAssumed, Named, Streamed, Unwatched, LogAssumed, MonitorAssumed, GitAssumed,
         ServicesInv, [ServicesNext]_all
  PROVE  ServicesInv'
<1>1. Inv' /\ RecoveryInv' /\ UdpInv' /\ IngestInv'
  BY OneAtWork, NextInv, RecoveryStep, UdpTypeStep, IngestNextInv DEF ServicesInv
<1>2. QueueInv' /\ LogInv'
  BY OneAtWork, InvNext, RowsNext, LogNextInv DEF ServicesInv, QueueInv, JobsInv
<1>3. BeatInv' /\ GitInv'
  BY OneAtWork, MonitorStep, MonitorTypeStep, GitStep DEF ServicesInv, BeatInv
<1> QED BY <1>1, <1>2, <1>3 DEF ServicesInv

(* Every variable of the dedup index, recovery, the UDP diode, ingest, the     *)
(* jobs, a followed log, the heartbeats and a git mirror keeps its type,       *)
(* whichever service is at work.                                             *)
THEOREM ServicesTypeCorrect == SafetySpec => []ServicesTypeOK
<1> USE RecoveryAssumption, IngestAssumption, JobsAssumption, JobLogAssumption, MonitorAssumption, GitAssumption
<1>1. ServicesInv => ServicesTypeOK
  <2> SUFFICES ASSUME ServicesInv PROVE ServicesTypeOK
    OBVIOUS
  <2>1. TypeOK /\ RecoveryTypeOK /\ UdpTypeOK /\ IngestTypeOK
    BY DEF ServicesInv, Inv, RecoveryInv, RecoveryTyped, UdpInv, IngestInv, IngestTyped
  <2>2. JobsTypeOK /\ JobLogTypeOK
    BY DEF ServicesInv, QueueInv, JobsInv, Typed, RowsTyped, Rows, JobsTypeOK, LogInv
  <2>3. MonitorTypeOK /\ GitTypeOK
    BY DEF ServicesInv, BeatInv, GitInv
  <2> QED BY <2>1, <2>2, <2>3 DEF ServicesTypeOK
<1> QED BY ServicesStart, ServicesStep, <1>1, PTL DEF SafetySpec
==============================================================================
