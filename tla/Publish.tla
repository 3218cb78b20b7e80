------------------------------- MODULE Publish -------------------------------
(***************************************************************************)
(* What the high side does with a verified bundle of one package stream:   *)
(* install the files, publish every record (re-derive its stored document  *)
(* from the installed archive), regenerate the indexes the ecosystem       *)
(* serves, and only then commit the sequence.  An error that reaches the   *)
(* importer leaves the sequence uncommitted and the bundle is retried; an  *)
(* error that only reaches the log is lost.  The publishers differ in      *)
(* which errors they return.                                               *)
(*                                                                         *)
(* A record names a release (name, version) and some parts of it.  Part 1  *)
(* is the archive; part 2 is the snap assertion, the npm attestation, the  *)
(* Helm provenance or a second Terraform platform; part 0 is a file or a   *)
(* document in Helm's older naming.  A fault is one failing read or write. *)
(***************************************************************************)
EXTENDS Naturals, Sequences, FiniteSets, SequencesExt

CONSTANTS Names,     \* package names; Conda's subdirectories go by them too
          Versions,  \* versions, ordered as numbers
          Bundles,   \* [ecosystem -> sequence of bundles: sequences of records]
          Bad,       \* releases whose archive does not hold what it should
          Faults,    \* [ecosystem -> failing reads and writes]
          MaxCrashes,
          NoArch     \* the Conda subdirectory every channel has

VARIABLES stream,    \* the stream's ecosystem
          disk,      \* installed files: <<release, part>>
          stored,    \* [release -> parts its stored document describes]
          tags,      \* npm: releases the dist-tags point at
          listing,   \* releases in the first generated document
          listing2,  \* and in the second: rubygems versions, PACKAGES.gz, .nuspec
          names,     \* rubygems: the names file
          next,      \* the sequence to import
          pc, todo,  \* the import's step and the records left
          regen,     \* names whose index is still to be regenerated
          done,      \* records published in this bundle (rubygems' counter)
          faults, crashes

publishVars == <<stream, disk, stored, tags, listing, listing2, names, next, pc, todo, regen,
                 done, faults, crashes>>

Ecosystems == DOMAIN Bundles
Releases == Names \X Versions
Parts == 0..3
Records == [name : Names, ver : Versions, parts : SUBSET Parts]
Known == {"go", "crates", "nuget", "composer", "rubygems", "npm", "cran", "galaxy", "helm", "conda", "snap",
          "terraform", "vsx", "maven"}

(* What the constants are: a stream is one of the fourteen and brings       *)
(* records; every Conda channel has the subdirectory noarch; the bundle     *)
(* that starts a Helm repository brings a chart.                            *)
PubAssumed ==
  /\ NoArch \in Names /\ MaxCrashes \in Nat /\ DOMAIN Bundles \subseteq Known
  /\ \A e \in DOMAIN Bundles : Bundles[e] \in Seq(Seq(Records)) /\ Faults[e] \in Nat
  /\ "helm" \in DOMAIN Bundles => Bundles["helm"] # <<>> /\ Bundles["helm"][1] # <<>>
ASSUME PublishAssumption == PubAssumed

Rel(r) == <<r.name, r.ver>>

---------------------------------------------------------------------------
(* The files a manifest record has to list, as the validators demand.      *)

validateManifestModules(r) == {1, 2, 3}
validateCrateRecord(r) == {1}
validateNugetPackages(r) == {1}
validateComposerRecord(r) == {1}
validateGemRecord(r) == {1}
validateNpmPackages(r) == {1} \union (r.parts \intersect {2})
validateCRANPackages(r) == {1}
validateGalaxyCollections(r) == {1}
validateHelmChart(r) == {1} \union (r.parts \intersect {2})
validateCondaPackage(r) == {1}
validateSnapPackage(r) == {1, 2}
validateTerraformProvider(r) == r.parts \intersect {1, 2}
validateVSXExtension(r) == {1}
validateMavenArtifacts(r) == {1}

FilesOf(r) ==
    CASE stream = "go" -> validateManifestModules(r)
      [] stream = "crates" -> validateCrateRecord(r)
      [] stream = "nuget" -> validateNugetPackages(r)
      [] stream = "composer" -> validateComposerRecord(r)
      [] stream = "rubygems" -> validateGemRecord(r)
      [] stream = "npm" -> validateNpmPackages(r)
      [] stream = "cran" -> validateCRANPackages(r)
      [] stream = "galaxy" -> validateGalaxyCollections(r)
      [] stream = "helm" -> validateHelmChart(r)
      [] stream = "conda" -> validateCondaPackage(r)
      [] stream = "snap" -> validateSnapPackage(r)
      [] stream = "terraform" -> validateTerraformProvider(r)
      [] stream = "vsx" -> validateVSXExtension(r)
      [] stream = "maven" -> validateMavenArtifacts(r)

---------------------------------------------------------------------------
(* What the read paths serve.  A stored document counts only while the     *)
(* files it describes are there.                                           *)

Present(rel, p) == <<rel, p>> \in disk

\* The go command is shown a version once its .complete marker is written.
isComplete(rel) == stored[rel] # {} /\ \A p \in {1, 2, 3} : Present(rel, p)

readNugetStored(rel) == 1 \in stored[rel] /\ Present(rel, 1)
readComposerStored(rel) == 1 \in stored[rel] /\ Present(rel, 1)
readNpmStoredManifest(rel) == 1 \in stored[rel] /\ Present(rel, 1)
readGalaxyStored(rel) == 1 \in stored[rel] /\ Present(rel, 1)
readVSXStored(rel) == 1 \in stored[rel] /\ Present(rel, 1)
readCRANStored(rel) == 1 \in stored[rel] /\ Present(rel, 1)
readCondaStoredRaw(rel) == 1 \in stored[rel] /\ Present(rel, 1)
readSnapStored(rel) == 1 \in stored[rel] /\ Present(rel, 1) /\ Present(rel, 2)
readTfProviderMeta(rel) == {p \in stored[rel] : Present(rel, p)}
gemPresentKeys(n) == {rel \in {n} \X Versions : 1 \in stored[rel] /\ Present(rel, 1)}
helmIndexEntry(rel) == \E d \in {0, 1} : d \in stored[rel] /\ Present(rel, d)

\* CRAN lists the newest stored version of each name.
cranNewestStored(drop) ==
    {rel \in Releases \ drop : readCRANStored(rel)
        /\ \A v \in Versions : v > rel[2] /\ <<rel[1], v>> \notin drop
                                  => ~readCRANStored(<<rel[1], v>>)}

\* The tags npm answers with point at versions it serves.
npmDistTags == {rel \in tags : readNpmStoredManifest(rel)}

(* What a client is told of a release: the parts it can ask for.           *)

\* Go: the version list and the three files of a version.
completeVersions(rel) == IF isComplete(rel) THEN {1} ELSE {}
\* The index file is served as it was written.
handleCrateIndexFile(rel) == IF rel \in listing THEN {1} ELSE {}
\* The version list, the registration pages and the search.
nugetVersions(rel) == IF readNugetStored(rel) THEN {1} ELSE {}
\* The p2 document of a package.
composerVersionObjects(rel) == IF readComposerStored(rel) THEN {1} ELSE {}
\* versions, names, info and gems, as they were written.
rubygemsServableFile(rel) == IF rel \in listing2 THEN {1} ELSE {}
\* The packument, with what is known of the attestation.
npmVersionObjects(rel) == IF readNpmStoredManifest(rel) THEN stored[rel] ELSE {}
\* PACKAGES; any tarball can be fetched by its name.
cranServableFile(rel) == IF rel \in listing THEN {1} ELSE {}
\* The version list and detail of a collection.
galaxyServedVersions(rel) == IF readGalaxyStored(rel) THEN {1} ELSE {}
\* index.yaml and the charts it points at.
helmServablePath(rel) == IF rel \in listing THEN {1} ELSE {}
\* repodata.json and the packages.
condaServablePath(rel) == IF rel \in listing THEN {1} ELSE {}
\* A revision with its assertions.
snapServedRevisions(rel) == IF readSnapStored(rel) THEN {1, 2} ELSE {}
\* The gallery query.
vsxServedVersions(rel) == IF readVSXStored(rel) THEN {1} ELSE {}

handleTfProviderVersions(rel) == readTfProviderMeta(rel)

\* Maven metadata is built from the files that are there.
buildMavenMetadata(rel) == IF Present(rel, 1) THEN {1} ELSE {}

Listed(rel) ==
    CASE stream = "go" -> completeVersions(rel)
      [] stream = "crates" -> handleCrateIndexFile(rel)
      [] stream = "nuget" -> nugetVersions(rel)
      [] stream = "composer" -> composerVersionObjects(rel)
      [] stream = "rubygems" -> rubygemsServableFile(rel)
      [] stream = "npm" -> npmVersionObjects(rel)
      [] stream = "cran" -> cranServableFile(rel)
      [] stream = "galaxy" -> galaxyServedVersions(rel)
      [] stream = "helm" -> helmServablePath(rel)
      [] stream = "conda" -> condaServablePath(rel)
      [] stream = "snap" -> snapServedRevisions(rel)
      [] stream = "vsx" -> vsxServedVersions(rel)
      [] stream = "terraform" -> handleTfProviderVersions(rel)
      [] stream = "maven" -> buildMavenMetadata(rel)

---------------------------------------------------------------------------
(* One import.                                                             *)

Bundle == Bundles[stream][next]

generated == <<listing, listing2, names>>
control == <<stream, next, faults, crashes>>

BundleNames == {r.name : r \in ToSet(Bundle)}

\* Record by record, but a crate's releases together: name by name.
StartRecords ==
    /\ pc' = "publish"
    /\ todo' = IF stream = "crates" THEN <<>> ELSE Bundle
    /\ regen' = IF stream = "crates" THEN BundleNames ELSE {}

\* Mutant: the records are published before their files are installed.
PublishAtOnce ==
    /\ pc = "install"
    /\ StartRecords
    /\ UNCHANGED <<control, disk, stored, tags, generated, done>>

\* What the install copies: the files of every record, before any publishing.
Install ==
    /\ pc = "idle" /\ next <= Len(Bundles[stream])
    /\ pc' = "install" /\ todo' = Bundle /\ regen' = {} /\ done' = 0
    /\ UNCHANGED <<stream, disk, stored, tags, generated, next, faults, crashes>>

InstallFile ==
    /\ pc = "install" /\ todo # <<>>
    /\ \E p \in FilesOf(Head(todo)) :
        LET f == <<Rel(Head(todo)), p>>
            new == disk \union {f}
        IN /\ f \notin disk \/ \A q \in FilesOf(Head(todo)) : Present(Rel(Head(todo)), q)
           /\ disk' = new
           /\ todo' = IF \A q \in FilesOf(Head(todo)) : <<Rel(Head(todo)), q>> \in new
                      THEN Tail(todo) ELSE todo
    /\ UNCHANGED <<control, stored, tags, generated, pc, regen, done>>

BeginPublish ==
    /\ pc = "install" /\ todo = <<>>
    /\ StartRecords
    /\ UNCHANGED <<control, disk, stored, tags, generated, done>>

\* The error reaches the importer: the sequence stays, the bundle is retried.
Abort ==
    /\ pc' = "idle" /\ todo' = <<>> /\ regen' = {} /\ done' = 0
    /\ UNCHANGED <<disk, stored, tags, generated>>

Fault == faults > 0 /\ faults' = faults - 1 /\ UNCHANGED <<stream, next, crashes>>

NextRecord == todo' = Tail(todo) /\ UNCHANGED <<pc, regen>>

Store(rel, ps) ==
    /\ stored' = [stored EXCEPT ![rel] = ps]
    /\ NextRecord /\ done' = done + 1
    /\ UNCHANGED <<control, disk, tags, generated>>

Skip == NextRecord /\ UNCHANGED <<disk, stored, tags, generated, done>>

\* Publishers that open the archive find the releases that are not what they say.
Invalid(r) == Rel(r) \in Bad

Publishing(e) == pc = "publish" /\ stream = e /\ todo # <<>>

\* invalidPackageError is skipped, every other error is returned.
strictError == Fault /\ Abort
\* Every error is a line in the log.
lenientError == Fault /\ Skip

skipInvalid == Invalid(Head(todo)) /\ Skip /\ UNCHANGED control

writeCompleteMarkers ==
    /\ Publishing("go")
    /\ \/ Store(Rel(Head(todo)), {1, 2, 3})
       \/ strictError

\* A name's lines are read, extended by the bundle's records and rewritten.
crateLines(n) ==
    listing \union {Rel(r) : r \in {s \in ToSet(Bundle) : s.name = n}}

publishCrateIndex ==
    /\ pc = "publish" /\ stream = "crates" /\ regen # {}
    /\ \/ \E n \in regen :
            /\ listing' = crateLines(n)
            /\ regen' = regen \ {n}
            /\ UNCHANGED <<control, disk, stored, tags, listing2, names, pc, todo, done>>
       \/ strictError

\* The .json that lists the version is written before the .nuspec.
publishNugetPackage ==
    /\ Publishing("nuget")
    /\ \/ skipInvalid
       \/ /\ ~Invalid(Head(todo))
          /\ stored' = [stored EXCEPT ![Rel(Head(todo))] = {1}]
          /\ pc' = "nuspec"
          /\ UNCHANGED <<control, disk, tags, generated, todo, regen, done>>
       \/ strictError

writeNuspec ==
    /\ pc = "nuspec"
    /\ \/ /\ listing2' = listing2 \union {Rel(Head(todo))}
          /\ pc' = "publish" /\ todo' = Tail(todo) /\ done' = done + 1
          /\ UNCHANGED <<control, disk, stored, tags, listing, names, regen>>
       \/ strictError

publishComposerPackage ==
    /\ Publishing("composer")
    /\ Store(Rel(Head(todo)), {1}) \/ strictError

\* One document per name: read, one line added, rewritten.
upsertGemLine ==
    /\ Publishing("rubygems")
    /\ Store(Rel(Head(todo)), {1}) \/ strictError

\* A record without attestations keeps what an earlier bundle said; either way
\* the attestation has to be on disk.
applyNpmVerification(r) ==
    {1} \union {p \in {2} : /\ 2 \in r.parts \/ (0 \notin r.parts /\ 2 \in stored[Rel(r)])
                            /\ Present(Rel(r), 2)}

publishNpmPackage ==
    /\ Publishing("npm")
    /\ \/ skipInvalid
       \/ ~Invalid(Head(todo)) /\ Store(Rel(Head(todo)), applyNpmVerification(Head(todo)))
       \/ strictError

publishCRANPackage ==
    /\ Publishing("cran")
    /\ skipInvalid \/ (~Invalid(Head(todo)) /\ Store(Rel(Head(todo)), {1})) \/ lenientError

publishGalaxyCollection ==
    /\ Publishing("galaxy")
    /\ skipInvalid \/ (~Invalid(Head(todo)) /\ Store(Rel(Head(todo)), {1})) \/ lenientError

\* The document under the older name goes once the new one is written; a failed
\* removal is not noticed.
publishHelmChart ==
    /\ Publishing("helm")
    /\ LET r == Head(todo)
           new == {1} \union {p \in {2} : 2 \in r.parts /\ Present(Rel(r), 2)}
       IN \/ skipInvalid
          \/ ~Invalid(r) /\ Store(Rel(r), new)
          \/ /\ ~Invalid(r) /\ 0 \in stored[Rel(r)]
             /\ Fault
             /\ stored' = [stored EXCEPT ![Rel(r)] = new \union {0}]
             /\ NextRecord /\ done' = done + 1
             /\ UNCHANGED <<disk, tags, generated>>
          \/ lenientError

publishCondaPackage ==
    /\ Publishing("conda")
    /\ Store(Rel(Head(todo)), {1}) \/ lenientError

publishSnapPackage ==
    /\ Publishing("snap")
    /\ skipInvalid \/ (~Invalid(Head(todo)) /\ Store(Rel(Head(todo)), {1, 2})) \/ lenientError

mergeTfPlatforms(rel, ps) == stored[rel] \union ps

\* The platforms of earlier bundles are merged in when their document can be
\* read; when it cannot, the new one replaces it.
publishTerraformProvider ==
    /\ Publishing("terraform")
    /\ LET r == Head(todo)
           ps == validateTerraformProvider(r)
       IN \/ skipInvalid
          \/ ~Invalid(r) /\ Store(Rel(r), mergeTfPlatforms(Rel(r), ps))
          \/ /\ ~Invalid(r) /\ Fault
             /\ stored' = [stored EXCEPT ![Rel(r)] = ps]
             /\ NextRecord /\ done' = done + 1
             /\ UNCHANGED <<disk, tags, generated>>
          \/ lenientError

publishVSXExtension ==
    /\ Publishing("vsx")
    /\ skipInvalid \/ (~Invalid(Head(todo)) /\ Store(Rel(Head(todo)), {1})) \/ lenientError

\* Nothing is published for Maven.
PassOver == Publishing("maven") /\ Skip /\ UNCHANGED control

---------------------------------------------------------------------------
(* After the records: dist-tags, or the generated indexes.                 *)

StoredNames == {n \in Names : \E v \in Versions : stored[<<n, v>>] # {}}

EndPublish ==
    /\ pc = "publish" /\ todo = <<>> /\ regen = {}
    /\ pc' = CASE stream = "npm" -> "tags"
               [] stream = "rubygems" /\ done > 0 -> "index"
               [] stream \in {"cran", "helm", "conda"} -> "index"
               [] OTHER -> "commit"
    /\ regen' = CASE stream = "npm" -> BundleNames
                  [] stream = "rubygems" -> StoredNames
                  [] stream = "conda" -> BundleNames \union {NoArch}
                  [] OTHER -> {}
    /\ UNCHANGED <<control, disk, stored, tags, generated, todo, done>>

\* The tags of a name are replaced by the bundle's; the keys follow.
publishNpmDistTags ==
    /\ pc = "tags"
    /\ \/ \E n \in regen :
            /\ tags' = {rel \in tags : rel[1] # n}
                          \union {Rel(r) : r \in {s \in ToSet(Bundle) : s.name = n}}
            /\ regen' = regen \ {n}
            /\ UNCHANGED <<control, disk, stored, generated, pc, todo, done>>
       \/ /\ regen = {} /\ pc' = "commit"
          /\ UNCHANGED <<control, disk, stored, tags, generated, todo, regen, done>>
       \/ strictError

\* RubyGems: the info file of every name, then versions, then names.
regenerateGemInfoFile ==
    /\ pc = "index" /\ stream = "rubygems"
    /\ \/ \E n \in regen :
            /\ listing' = {rel \in listing : rel[1] # n} \union gemPresentKeys(n)
            /\ regen' = regen \ {n}
            /\ UNCHANGED <<control, disk, stored, tags, listing2, names, pc, todo, done>>
       \/ /\ regen = {} /\ pc' = "index2"
          /\ UNCHANGED <<control, disk, stored, tags, generated, todo, regen, done>>
       \/ strictError

writeRubyGemsVersions ==
    /\ pc = "index2" /\ stream = "rubygems"
    /\ \/ /\ listing2' = UNION {gemPresentKeys(n) : n \in Names}
          /\ pc' = "names"
          /\ UNCHANGED <<control, disk, stored, tags, listing, names, todo, regen, done>>
       \/ strictError

writeRubyGemsNames ==
    /\ pc = "names"
    /\ \/ /\ names' = {n \in Names : gemPresentKeys(n) # {}}
          /\ pc' = "commit"
          /\ UNCHANGED <<control, disk, stored, tags, listing, listing2, todo, regen, done>>
       \/ strictError

\* A stored document that cannot be read is left out of a lenient index.
Unreadable(rels) ==
    \/ UNCHANGED control /\ rels = {}
    \/ Fault /\ \E rel \in Releases : stored[rel] # {} /\ rels = {rel}

\* CRAN: PACKAGES, then PACKAGES.gz with the same content.
regenerateCRANIndex ==
    /\ pc = "index" /\ stream = "cran"
    /\ \/ \E drop \in SUBSET Releases :
            /\ Cardinality(drop) <= 1 /\ Unreadable(drop)
            /\ listing' = cranNewestStored(drop)
            /\ pc' = "index2"
            /\ UNCHANGED <<disk, stored, tags, listing2, names, todo, regen, done>>
       \/ strictError

writePackagesGz ==
    /\ pc = "index2" /\ stream = "cran"
    /\ \/ /\ listing2' = listing /\ pc' = "commit"
          /\ UNCHANGED <<control, disk, stored, tags, listing, names, todo, regen, done>>
       \/ strictError

regenerateHelmIndex ==
    /\ pc = "index" /\ stream = "helm"
    /\ \/ \E drop \in SUBSET Releases :
            /\ Cardinality(drop) <= 1 /\ Unreadable(drop)
            /\ listing' = {rel \in Releases \ drop : helmIndexEntry(rel)}
            /\ pc' = "commit"
            /\ UNCHANGED <<disk, stored, tags, listing2, names, todo, regen, done>>
       \/ strictError

regenerateCondaRepodata ==
    /\ pc = "index" /\ stream = "conda"
    /\ \/ \E n \in regen, drop \in SUBSET Releases :
            /\ Cardinality(drop) <= 1 /\ Unreadable(drop)
            /\ listing' = {rel \in listing : rel[1] # n}
                           \union {rel \in ({n} \X Versions) \ drop : readCondaStoredRaw(rel)}
            /\ regen' = regen \ {n}
            /\ UNCHANGED <<disk, stored, tags, listing2, names, pc, todo, done>>
       \/ /\ regen = {} /\ pc' = "commit"
          /\ UNCHANGED <<control, disk, stored, tags, generated, todo, regen, done>>
       \/ strictError

Commit ==
    /\ pc = "commit"
    /\ next' = next + 1 /\ pc' = "idle" /\ todo' = <<>> /\ done' = 0 /\ regen' = {}
    /\ UNCHANGED <<stream, disk, stored, tags, generated, faults, crashes>>

\* The files and documents are on disk; where the import was is not.
Crash ==
    /\ pc # "idle" /\ crashes < MaxCrashes
    /\ crashes' = crashes + 1
    /\ Abort
    /\ UNCHANGED <<stream, next, faults>>

---------------------------------------------------------------------------

\* A Helm mirror may hold releases published under the older naming.
PublishInit ==
    /\ stream \in Ecosystems
    /\ \E old \in {{}} \union {{Rel(Bundles[stream][1][1])} : e \in {stream} \intersect {"helm"}} :
        /\ disk = {<<rel, 0>> : rel \in old}
        /\ stored = [rel \in Releases |-> IF rel \in old THEN {0} ELSE {}]
        /\ listing = old
    /\ tags = {} /\ listing2 = {} /\ names = {}
    /\ next = 1 /\ pc = "idle" /\ todo = <<>> /\ regen = {} /\ done = 0
    /\ faults = Faults[stream] /\ crashes = 0

Import ==
    \/ Install \/ InstallFile \/ BeginPublish
    \/ writeCompleteMarkers \/ publishCrateIndex \/ publishNugetPackage \/ writeNuspec
    \/ publishComposerPackage \/ upsertGemLine \/ publishNpmPackage
    \/ publishCRANPackage \/ publishGalaxyCollection \/ publishHelmChart
    \/ publishCondaPackage \/ publishSnapPackage \/ publishTerraformProvider
    \/ publishVSXExtension \/ PassOver
    \/ EndPublish \/ publishNpmDistTags \/ regenerateGemInfoFile
    \/ writeRubyGemsVersions \/ writeRubyGemsNames \/ regenerateCRANIndex
    \/ writePackagesGz \/ regenerateHelmIndex \/ regenerateCondaRepodata \/ Commit

PublishNext == Import \/ Crash

PublishSpec == PublishInit /\ [][PublishNext]_publishVars

---------------------------------------------------------------------------
(* Properties.                                                             *)

\* Every variable stays in its set.
PublishTypeOK ==
    /\ stream \in Ecosystems
    /\ disk \subseteq Releases \X Parts
    /\ stored \in [Releases -> SUBSET Parts]
    /\ tags \subseteq Releases /\ listing \subseteq Releases /\ listing2 \subseteq Releases
    /\ names \subseteq Names /\ regen \subseteq Names
    /\ next \in 1..(Len(Bundles[stream]) + 1)
    /\ pc \in {"idle", "install", "publish", "nuspec", "tags", "index", "index2", "names",
               "commit"}
    /\ done \in Nat /\ faults \in Nat /\ crashes \in 0..MaxCrashes

Committed == UNION {ToSet(Bundles[stream][s]) : s \in 1..(next - 1)}

Opened == stream \in {"nuget", "npm", "cran", "galaxy", "helm", "snap", "terraform", "vsx"}

\* What the committed bundles should have made available: the valid records.
Promised == {r \in Committed : ~(Opened /\ Invalid(r))}

\* CRAN lists a release or, of the same name, a newer one.
InOrNewer(rel, listed) == \E v \in Versions : v >= rel[2] /\ <<rel[1], v>> \in listed

\* An operational error (a failing read or write) is never a reason to commit
\* without publishing: it is returned and the bundle is retried after storage
\* is repaired.
OperationalErrorsRetried ==
    \A r \in Promised :
        IF stream = "cran" THEN InOrNewer(Rel(r), listing) /\ InOrNewer(Rel(r), listing2)
        ELSE /\ FilesOf(r) \intersect (IF stream \in {"npm", "snap", "terraform"} THEN {1, 2} ELSE {1})
                  \subseteq Listed(Rel(r))
             /\ stream \in {"nuget", "rubygems"} => Rel(r) \in listing2

\* Whatever a client is told about can be downloaded at that moment, also half
\* way through an import and after a crash: an index never runs ahead of the
\* installed files, the gem versions file never ahead of the info files, and an
\* npm attestation is announced only while it is there.
ListedIsInstalled ==
    /\ \A rel \in Releases, p \in 1..2 :
        p \in Listed(rel) => Present(rel, p) \/ (stream = "helm" /\ Present(rel, 0))
    /\ stream = "rubygems" => listing2 \subseteq listing
=============================================================================
