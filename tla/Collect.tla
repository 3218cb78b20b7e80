------------------------------- MODULE Collect -------------------------------
(***************************************************************************)
(* One collect of the low side, for each package ecosystem that resolves   *)
(* and downloads releases itself: what is queued, what is chosen for a     *)
(* want, when a download is marked done, what is reported as skipped and   *)
(* what ends up in the manifest of the signed bundle.  The ecosystems share *)
(* the shape (a breadth-first work list over the upstream's releases) and  *)
(* differ in what they remember and when; those differences decide whether *)
(* the closure is complete and whether the high side accepts the manifest. *)
(*                                                                         *)
(* A release is a name and a version; a want accepts a set of versions.    *)
(* Upstream answers are chosen afresh at every request, so any of them may *)
(* fail.  Staging, progress lines and bundle writing are left out (the     *)
(* numbering of the bundle is module LowExport).                           *)
(***************************************************************************)
EXTENDS Naturals, Sequences, FiniteSets, SequencesExt

CONSTANTS PkgNames,     \* package names
          PkgVersions,  \* versions, ordered as numbers
          Prereleases,  \* the versions that are pre-releases
          Published,    \* [PkgNames -> SUBSET PkgVersions]: the upstream's releases
          Requires,     \* [PkgNames \X PkgVersions -> Seq(wants)]
          SilentArchives,   \* releases whose archive does not tell what they require
          Requests,     \* [ecosystem -> set of sequences of wants]
          MaxResolved,  \* the cap of a closure (cranMaxResolved and the others)
          CondaSubdirs  \* platforms a conda collect resolves for

VARIABLES eco,     \* the ecosystem collected
          request, \* the wants of the request; what npm, mvn, pip and go resolved
          phase,   \* idle, pins, resolve, download, extras, exported or failed
          queue,   \* the work list
          marks,   \* done / picked / selected: the loop's memory
          tried,   \* Composer: dependency wants already queued; Conda: wants
                   \* that a platform left at its cap
          cache,   \* upstream listings: <<name, fetched or (Composer) failed>>
          picks,   \* chosen, not yet downloaded (Cargo, Conda, npm, Go)
          pkgs,    \* the records of the manifest, in order
          files,   \* its files, in order: a release and a part of it
          skipped, \* names reported as skipped
          rounds   \* Conda: platforms left; CRAN: wants seeded; Maven and
                   \* Python: files whose signature has been asked for

collectVars == <<eco, request, phase, queue, marks, tried, cache, picks, pkgs,
                 files, skipped, rounds>>

content == <<pkgs, files>>

Collected == DOMAIN Requests

PkgReleases == PkgNames \X PkgVersions

\* A want: "latest", a "pin", a dependency "range", or an "aux" dependency (a
\* dev, optional, platform, base or virtual one) that no resolver follows.  What
\* npm, mvn, pip or go resolved is a "pin" when it can be mirrored, "aux" when it
\* is passed over (a link, a marker file, the main module) and "bad" when it is an
\* error.
Kinds == {"latest", "pin", "range", "aux", "bad"}

Wants == [name : PkgNames, kind : Kinds, accept : SUBSET PkgVersions]

\* The files of a release that go into a manifest.
FileParts == {"file", "variant", "prov", "snap", "assert", "zip", "sums", "sig", "keys",
          "attestations", "sdist", "file.sig", "sdist.sig", "info", "mod"}

\* What a request of an ecosystem, or the program that resolved it, may say.
Asks(e) == CASE e = "npm" -> {"pin", "aux", "bad"}
             [] e = "maven" -> {"pin", "aux"}
             [] e = "python" -> {"pin", "bad", "latest", "range"}
             [] e = "go" -> {"latest", "pin", "aux", "bad"}
             [] e = "cran" -> {"latest", "pin", "aux"}
             [] OTHER -> {"latest", "pin"}

\* A request names something; a pin names one version and "latest" any; mvn's
\* repository and pip's directory hold a file once.
WellAsked(e, s) ==
    /\ s \in Seq({w \in Wants : w.kind \in Asks(e)}) \ {<<>>}
    /\ \A i \in DOMAIN s : s[i].kind = "pin" => \E v \in PkgVersions : s[i].accept = {v}
    /\ \A i \in DOMAIN s : s[i].kind = "latest" => s[i].accept = PkgVersions
    /\ e \in {"maven", "python"} =>
          \A i, j \in DOMAIN s :
             s[i].kind = "pin" /\ s[j].kind = "pin" /\ s[i].name = s[j].name /\ s[i].accept = s[j].accept => i = j

\* A release requires ranges.
CollectAssumption ==
    /\ PkgVersions \subseteq Nat
    /\ Published \in [PkgNames -> SUBSET PkgVersions]
    /\ Requires \in [PkgNames \X PkgVersions -> Seq({w \in Wants : w.kind \in {"range", "aux"}})]
    /\ CondaSubdirs \in Nat
    /\ DOMAIN Requests \subseteq {"crates", "nuget", "composer", "rubygems", "galaxy", "vsx", "snap", "helm",
                              "conda", "cran", "terraform", "npm", "maven", "python", "go"}
    /\ \A e \in DOMAIN Requests : \A s \in Requests[e] : WellAsked(e, s)
ASSUME CollectAssumption

\* The high side refuses a manifest that lists one path twice.
DistinctPaths(s) == IsInjective(s)

\* The elements of s at the indices of K, those that pass a test, and each
\* element once.
At(s, K) == [i \in 1..Cardinality(K) |-> s[CHOOSE k \in K : Cardinality({j \in K : j <= k}) = i]]

Filter(s, Test(_)) == At(s, {i \in DOMAIN s : Test(s[i])})

Once(s) == At(s, {i \in DOMAIN s : \A j \in 1..(i - 1) : s[j] # s[i]})

---------------------------------------------------------------------------
(* Which release a want selects: a set, empty when nothing fits.           *)

Candidates(w) == {<<w.name, v>> : v \in Published[w.name] \cap w.accept}

Stable(R) == {r \in R : r[2] \notin Prereleases}

Greatest(R) == {r \in R : \A s \in R : s[2] <= r[2]}

Least(R) == {r \in R : \A s \in R : r[2] <= s[2]}

StableFirst(R) == IF Stable(R) # {} THEN Greatest(Stable(R)) ELSE Greatest(R)

\* Cargo: a requirement takes the greatest match, no requirement prefers a
\* stable release.
selectCrateRelease(w) ==
    IF w.kind = "range" THEN Greatest(Candidates(w)) ELSE StableFirst(Candidates(w))

\* NuGet: a dependency takes the lowest version in range, a request the newest.
selectNugetVersion(w) ==
    IF w.kind = "range"
    THEN IF Stable(Candidates(w)) # {} THEN Least(Stable(Candidates(w)))
         ELSE Least(Candidates(w))
    ELSE StableFirst(Candidates(w))

composerSelectRelease(w) == StableFirst(Candidates(w))

\* A dependency never lands on a pre-release its constraint does not name.
composerSelectDependency(w) == Greatest(Stable(Candidates(w)))

selectGemLine(w) == StableFirst(Candidates(w))

\* Galaxy asks for a pinned version without listing; it may not exist.
resolveGalaxyVersion(w) == Greatest(Candidates(w))

selectHelmChart(w) == StableFirst(Candidates(w))

\* Conda compares versions only: a pre-release is an ordinary candidate.
pickCondaCandidate(w) == Greatest(Candidates(w))

\* CRAN's index lists the newest release of a package and nothing else.
CranCurrent(n) == Greatest({<<n, v>> : v \in Published[n]})

\* The store serves the channel's current revision.
selectSnapChannel(w) == Greatest({<<w.name, v>> : v \in Published[w.name]})

vsxFetchMetadata(w) ==
    IF w.kind = "pin" THEN Candidates(w) ELSE Greatest({<<w.name, v>> : v \in Published[w.name]})

pickTfVersion(w) ==
    IF w.kind = "pin" THEN Candidates(w) ELSE Greatest(Stable(Candidates(w)))

---------------------------------------------------------------------------
(* What a downloaded release puts on the work list.                        *)

Runtime(r) == Filter(Requires[r], LAMBDA w : w.kind # "aux")

crateDepWants(r) == Runtime(r)

\* One want per distinct dependency and range of the package.
nugetDepWants(r) == Once(Runtime(r))

\* Composer never queues the same name and constraint twice in one collect.
composerQueueDeps(r) == Filter(Runtime(r), LAMBDA w : w \notin tried)

\* A gem already selected is not asked for again.
gemWants(r) == Filter(Runtime(r), LAMBDA w : w.name \notin marks \cup {r[1]})

condaDepWants(r) == Filter(Runtime(r), LAMBDA w : w.name \notin marks \cup {r[1]})

galaxyDepWants(r) == Runtime(r)

\* CRAN drops its base packages when it takes them off the list.
cranDeps(r) == Requires[r]

\* A superseded release tells itself what it needs, if its archive can be read;
\* otherwise nothing is followed and nothing reported.
cranArchivedDeps(r) == IF r \in SilentArchives THEN <<>> ELSE cranDeps(r)

vsxRefWants(r) == Runtime(r)

snapBaseWant(r) == LET s == Runtime(r) IN IF s = <<>> THEN s ELSE <<Head(s)>>

---------------------------------------------------------------------------
(* The steps every loop is made of.  "want" is the head of the work list.  *)

want == Head(queue)

\* What has been fetched cannot fail any more, and for Composer what has failed
\* stays failed.
Listable(n, up) == (up /\ <<n, FALSE>> \notin cache) \/ <<n, TRUE>> \in cache

Pop(more) == queue' = Tail(queue) \o more

Drop == /\ Pop(<<>>)
        /\ UNCHANGED <<marks, tried, cache, picks, content, skipped>>

Report == /\ Pop(<<>>)
          /\ skipped' = skipped \cup {want.name}

\* A staged release is a record and its files.
Stage(r, parts) ==
    /\ pkgs' = Append(pkgs, r)
    /\ files' = files \o [i \in DOMAIN parts |-> <<r, parts[i]>>]

Working(e, count) == /\ eco = e
                     /\ phase = "resolve"
                     /\ queue # <<>>
                     /\ count < MaxResolved

Unchanging == UNCHANGED <<eco, request, phase, rounds>>

---------------------------------------------------------------------------
(* Cargo: resolve everything over the index, then download.                *)

\* Mutant of crateSatisfied: any chosen version of the crate will do.
NameChosen(w) == w.kind = "range" /\ \E r \in marks : r[1] = w.name

\* A requirement some chosen release already meets is not resolved again.
crateSatisfied(w) == w.kind = "range" /\ \E v \in w.accept : <<w.name, v>> \in marks

CratesResolve(up) ==
    /\ Working("crates", Len(picks))
    /\ LET got == IF Listable(want.name, up) THEN selectCrateRelease(want) ELSE {} IN
       \/ crateSatisfied(want) /\ Drop
       \/ /\ ~crateSatisfied(want)
          /\ got \subseteq marks
          /\ IF got = {} THEN Report ELSE Pop(<<>>) /\ UNCHANGED skipped
          /\ cache' = cache \cup {<<n, TRUE>> : n \in {m \in {want.name} : Listable(m, up)}}
          /\ UNCHANGED <<marks, tried, picks, content>>
       \/ /\ ~crateSatisfied(want)
          /\ \E r \in got \ marks :
                /\ marks' = marks \cup {r}
                /\ picks' = Append(picks, r)
                /\ Pop(crateDepWants(r))
          /\ cache' = cache \cup {<<want.name, TRUE>>}
          /\ UNCHANGED <<tried, content, skipped>>
    /\ Unchanging

---------------------------------------------------------------------------
(* NuGet: download as it resolves; a pick is marked before its download.   *)

nugetRangeSatisfied(w) == w.kind = "range" /\ \E r \in Range(pkgs) : r \in Candidates(w)

NugetFetchOne(up, ok) ==
    /\ Working("nuget", Len(pkgs))
    /\ LET got == IF Listable(want.name, up) THEN selectNugetVersion(want) ELSE {} IN
       \/ nugetRangeSatisfied(want) /\ Drop
       \/ /\ ~nugetRangeSatisfied(want)
          /\ cache' = cache \cup {<<n, TRUE>> : n \in {m \in {want.name} : Listable(m, up)}}
          /\ \/ got = {} /\ Report /\ UNCHANGED <<marks, content>>
             \/ got # {} /\ got \subseteq marks /\ Pop(<<>>) /\ UNCHANGED <<marks, content, skipped>>
             \/ \E r \in got \ marks :
                   /\ marks' = marks \cup {r}
                   /\ \/ ok /\ Stage(r, <<"file">>) /\ Pop(nugetDepWants(r)) /\ UNCHANGED skipped
                      \/ ~ok /\ Report /\ UNCHANGED content
          /\ UNCHANGED <<tried, picks>>
    /\ Unchanging

---------------------------------------------------------------------------
(* Composer: the requested packages first, without the cap, then the       *)
(* queued dependencies; a release is marked once it is staged.             *)

composerRelease(w, up) ==
    CASE ~Listable(w.name, up) -> {}
      [] w.kind = "range" -> composerSelectDependency(w)
      [] OTHER -> composerSelectRelease(w)

ComposerStep(up, ok) ==
    /\ eco = "composer" /\ phase = "resolve" /\ queue # <<>>
    /\ want.kind = "range" => Cardinality(marks) < MaxResolved
    /\ LET got == composerRelease(want, up) IN
       \/ got = {} /\ Report /\ UNCHANGED <<marks, content, tried>>
       \/ got # {} /\ got \subseteq marks /\ Pop(<<>>) /\ UNCHANGED <<marks, content, skipped, tried>>
       \/ \E r \in got \ marks :
            \/ /\ ok
               /\ marks' = marks \cup {r}
               /\ Stage(r, <<"file">>)
               /\ Pop(composerQueueDeps(r))
               /\ tried' = tried \cup Range(composerQueueDeps(r))
               /\ UNCHANGED skipped
            \/ ~ok /\ Report /\ UNCHANGED <<marks, content, tried>>
    /\ cache' = cache \cup {<<want.name, Listable(want.name, up)>>}
    /\ UNCHANGED picks
    /\ Unchanging

---------------------------------------------------------------------------
(* The ecosystems that take one version of a name: RubyGems, Galaxy, CRAN, *)
(* VS Code extensions and snaps.  They differ in what marks a name.        *)

\* A gem is marked when a version of it has been selected, fetched or not.
\* The pure-ruby gem, and the requested platform's variant when there is one.
gemParts(variant) == IF variant THEN <<"file", "variant">> ELSE <<"file">>

GemResolveOne(up, ok, variant) ==
    /\ Working("rubygems", Cardinality(marks))
    /\ LET got == IF Listable(want.name, up) THEN selectGemLine(want) ELSE {} IN
       \/ want.name \in marks /\ Drop
       \/ /\ want.name \notin marks
          /\ cache' = cache \cup {<<n, TRUE>> : n \in {m \in {want.name} : Listable(m, up)}}
          /\ \/ got = {} /\ Report /\ UNCHANGED <<marks, content>>
             \/ \E r \in got :
                   /\ marks' = marks \cup {want.name}
                   /\ \/ ok /\ Stage(r, gemParts(variant)) /\ Pop(gemWants(r)) /\ UNCHANGED skipped
                      \/ ~ok /\ Report /\ UNCHANGED content
          /\ UNCHANGED <<tried, picks>>
    /\ Unchanging

\* A name is marked before it is resolved, whatever comes of it.
OneVersion(e, got, more, parts, ok) ==
    /\ Working(e, Cardinality(marks))
    /\ \/ want.name \in marks /\ Drop
       \/ /\ want.name \notin marks
          /\ marks' = marks \cup {want.name}
          /\ \/ got = {} /\ Report /\ UNCHANGED content
             \/ \E r \in got : \/ ok /\ Stage(r, parts) /\ Pop(more[r]) /\ UNCHANGED skipped
                               \/ ~ok /\ Report /\ UNCHANGED content
          /\ UNCHANGED <<tried, cache, picks>>
    /\ Unchanging

GalaxyFetchOne(ok) ==
    OneVersion("galaxy", resolveGalaxyVersion(want), [r \in PkgReleases |-> galaxyDepWants(r)], <<"file">>, ok)

VSXFetchOne(ok) ==
    OneVersion("vsx", vsxFetchMetadata(want), [r \in PkgReleases |-> vsxRefWants(r)], <<"file">>, ok)

\* A snap without its assertions is not installable: both or neither.
snapParts == <<"snap", "assert">>

SnapFetchOne(ok) ==
    OneVersion("snap", selectSnapChannel(want), [r \in PkgReleases |-> snapBaseWant(r)], snapParts, ok)

\* Base packages (kind "aux" here) are dropped unmarked.
CranFetchOne(ok) ==
    \/ /\ Working("cran", Cardinality(marks))
       /\ want.kind = "aux"
       /\ Drop
       /\ Unchanging
    \/ /\ Working("cran", Cardinality(marks))
       /\ want.kind # "aux"
       /\ OneVersion("cran", CranCurrent(want.name), [r \in PkgReleases |-> cranDeps(r)], <<"file">>, ok)

\* A pin on a superseded release is fetched while the request is read, before
\* the work list runs; nothing asks whether it has been fetched already.
CranArchivedPin(w) == w.kind = "pin" /\ CranCurrent(w.name) # Candidates(w)

CranSeed(ok) ==
    /\ eco = "cran" /\ phase = "pins"
    /\ LET w == request[rounds + 1] IN
       \/ /\ ~CranArchivedPin(w)
          /\ queue' = Append(queue, w)
          /\ UNCHANGED <<marks, content, skipped>>
       \/ /\ CranArchivedPin(w)
          /\ \/ \E r \in Candidates(w) :
                   /\ ok
                   /\ Stage(r, <<"file">>)
                   /\ marks' = marks \cup {w.name}
                   /\ queue' = queue \o cranArchivedDeps(r)
                   /\ UNCHANGED skipped
             \/ /\ ~ok \/ Candidates(w) = {}
                /\ skipped' = skipped \cup {w.name}
                /\ UNCHANGED <<marks, content, queue>>
    /\ rounds' = rounds + 1
    /\ phase' = IF rounds' = Len(request) THEN "resolve" ELSE "pins"
    /\ UNCHANGED <<eco, request, tried, cache, picks>>

---------------------------------------------------------------------------
(* Helm and Terraform fetch what is listed and follow no dependency.  Helm *)
(* skips a chart it has staged already; Terraform keeps no such record.    *)

helmParts(prov) == IF prov THEN <<"file", "prov">> ELSE <<"file">>

HelmDownload(ok, prov) ==
    /\ eco = "helm" /\ phase = "resolve" /\ queue # <<>>
    /\ LET got == selectHelmChart(want) IN
       \/ got # {} /\ got \subseteq marks /\ Drop
       \/ /\ got = {} \/ (~ok /\ ~(got \subseteq marks))
          /\ Report
          /\ UNCHANGED <<marks, tried, cache, picks, content>>
       \/ \E r \in got \ marks :
             /\ ok
             /\ marks' = marks \cup {r}
             /\ Stage(r, helmParts(prov))
             /\ Pop(<<>>)
             /\ UNCHANGED <<tried, cache, picks, skipped>>
    /\ Unchanging

\* The archive of a provider and its verification chain.
tfParts == <<"zip", "sums", "sig", "keys">>

\* Mutant of tfTruncate: a failed provider leaves what it has staged.
KeepPartial(staged, mark) == staged

\* A provider that fails part-way takes back the files it has staged.
tfTruncate(staged, mark) == SubSeq(staged, 1, mark)

TerraformCollectOne(ok) ==
    /\ eco = "terraform" /\ phase = "resolve" /\ queue # <<>>
    /\ \/ \E r \in pickTfVersion(want) :
             \/ ok /\ Stage(r, tfParts) /\ Pop(<<>>) /\ UNCHANGED skipped
             \/ /\ ~ok
                /\ files' = tfTruncate(Append(files, <<r, "zip">>), Len(files))
                /\ Report
                /\ UNCHANGED pkgs
       \/ pickTfVersion(want) = {} /\ Report /\ UNCHANGED content
    /\ UNCHANGED <<marks, tried, cache, picks>>
    /\ Unchanging

---------------------------------------------------------------------------
(* Conda: one resolution per platform over the fetched repodata, each with *)
(* its own memory, merged by file; then the downloads.                     *)

CondaResolve ==
    /\ Working("conda", Cardinality(marks))
    /\ \/ want.name \in marks /\ Drop
       \/ want.name \notin marks /\ pickCondaCandidate(want) = {} /\ Report
          /\ UNCHANGED <<marks, tried, cache, picks, content>>
       \/ /\ want.name \notin marks
          /\ \E r \in pickCondaCandidate(want) :
                /\ marks' = marks \cup {want.name}
                /\ picks' = IF r \in Range(picks) THEN picks ELSE Append(picks, r)
                /\ Pop(condaDepWants(r))
          /\ UNCHANGED <<tried, cache, content, skipped>>
    /\ Unchanging

\* The next platform starts over with the same specs.
CondaNextPlatform ==
    /\ eco = "conda" /\ phase = "resolve" /\ rounds > 1
    /\ queue = <<>> \/ Cardinality(marks) >= MaxResolved
    /\ rounds' = rounds - 1
    /\ queue' = request
    /\ marks' = {}
    /\ tried' = tried \cup Range(queue)
    /\ UNCHANGED <<eco, request, phase, cache, picks, content, skipped>>

---------------------------------------------------------------------------
(* Cargo and Conda download what they have chosen, in order.               *)

DownloadPick(ok) ==
    /\ eco \in {"crates", "conda"} /\ phase = "download" /\ picks # <<>>
    /\ picks' = Tail(picks)
    /\ \/ ok /\ Stage(Head(picks), <<"file">>) /\ UNCHANGED skipped
       \/ ~ok /\ skipped' = skipped \cup {Head(picks)[1]} /\ UNCHANGED content
    /\ UNCHANGED <<eco, request, phase, queue, marks, tried, cache, rounds>>

---------------------------------------------------------------------------
(* npm, Maven and pip resolve the closure themselves (external); what they *)
(* left behind is read and completed.                                      *)

Release(w) == <<w.name, CHOOSE v \in w.accept : TRUE>>

Mirrorable(s) == Filter(s, LAMBDA w : w.kind = "pin")

\* One entry per name and version, however often the lockfile nests it.
npmLockReleases(s) == Once([i \in DOMAIN s |-> Release(s[i])])

parseNpmLock ==
    /\ eco = "npm" /\ phase = "resolve"
    /\ picks' = npmLockReleases(Mirrorable(request))
    /\ skipped' = {w.name : w \in {x \in Range(request) : x.kind = "bad"}}
    /\ queue' = <<>>
    /\ phase' = "download"
    /\ UNCHANGED <<eco, request, marks, tried, cache, content, rounds>>

npmParts(att) == IF att THEN <<"file", "attestations">> ELSE <<"file">>

\* A refused tarball is reported; a failing disk fails the collect.
downloadNpmPackage(answer, att) ==
    /\ eco = "npm" /\ phase = "download" /\ picks # <<>>
    /\ picks' = Tail(picks)
    /\ phase' = IF answer = "disk" THEN "failed" ELSE phase
    /\ \/ answer = "ok" /\ Stage(Head(picks), npmParts(att)) /\ UNCHANGED skipped
       \/ answer = "refused" /\ skipped' = skipped \cup {Head(picks)[1]} /\ UNCHANGED content
       \/ answer = "disk" /\ UNCHANGED <<content, skipped>>
    /\ UNCHANGED <<eco, request, queue, marks, tried, cache, rounds>>

\* The local Maven repository: every file of a release that is not a marker.
\* A SNAPSHOT anywhere refuses the whole collect.
mavenSnapshot == \E w \in Range(Mirrorable(request)) : Stable({Release(w)}) = {}

collectMavenRepo ==
    /\ eco = "maven" /\ phase = "resolve"
    /\ LET s == Mirrorable(request)
           all == [i \in DOMAIN s |-> Release(s[i])] IN
       /\ pkgs' = all
       /\ files' = [i \in DOMAIN all |-> <<all[i], "file">>]
       /\ phase' = IF all = <<>> \/ mavenSnapshot THEN "failed" ELSE "extras"
    /\ queue' = <<>>
    /\ UNCHANGED <<eco, request, marks, tried, cache, picks, skipped, rounds>>

\* What pip downloaded: wheels are taken, a source distribution is reported.
collectPythonDist ==
    /\ eco = "python" /\ phase = "pins"
    /\ LET s == Mirrorable(request)
           all == [i \in DOMAIN s |-> Release(s[i])] IN
       /\ pkgs' = all
       /\ files' = [i \in DOMAIN all |-> <<all[i], "file">>]
    /\ skipped' = {w.name : w \in {x \in Range(request) : x.kind = "bad"}}
    /\ queue' = Filter(request, LAMBDA w : w.kind \in {"latest", "range"})
    /\ phase' = "resolve"
    /\ UNCHANGED <<eco, request, marks, tried, cache, picks, rounds>>

\* A listed source distribution ("latest", or "range" for a pinned one) is
\* fetched on top; nothing asks whether it has been staged already.
selectPySDist(w) == Greatest(Candidates(w))

collectPythonSDist(ok) ==
    /\ eco = "python" /\ phase = "resolve" /\ queue # <<>>
    /\ \/ \E r \in selectPySDist(want) : /\ ok
                                         /\ Stage(r, <<"sdist">>)
                                         /\ Pop(<<>>)
                                         /\ UNCHANGED skipped
       \/ (~ok \/ selectPySDist(want) = {}) /\ Report /\ UNCHANGED content
    /\ UNCHANGED <<marks, tried, cache, picks>>
    /\ Unchanging

startPythonProvenance ==
    /\ eco = "python" /\ phase = "resolve" /\ queue = <<>>
    /\ phase' = IF files = <<>> THEN "failed" ELSE "extras"
    /\ UNCHANGED <<eco, request, queue, marks, tried, cache, picks, content, skipped, rounds>>

\* The signature (Maven) or provenance (Python) of each file in turn; one that
\* is missing or malformed is left out.
Originals == SubSeq(files, 1, Len(pkgs))

fetchExtra(found) ==
    /\ phase = "extras" /\ rounds < Len(Originals)
    /\ rounds' = rounds + 1
    /\ LET f == Originals[rounds + 1] IN
       files' = IF found
                THEN Append(files, <<f[1], IF f[2] = "file" THEN "file.sig" ELSE "sdist.sig">>)
                ELSE files
    /\ UNCHANGED <<eco, request, phase, queue, marks, tried, cache, picks, pkgs, skipped>>

---------------------------------------------------------------------------
(* Go modules: the go command answers for "latest" and lists the graph of  *)
(* a module; one error fails the collect.  The fetches then fail one by    *)
(* one.  Nothing drops a module that is asked for twice, so the files are   *)
(* taken once each.  The captured checksum records are left out: no failure *)
(* of theirs reaches the modules.                                          *)

\* PkgReleases the request comes to; none for what the go command cannot answer.
goLatest(w) == StableFirst({<<w.name, v>> : v \in Published[w.name]})

resolveGoSpec(w) == IF w.kind = "latest" THEN goLatest(w) ELSE {Release(w)}

\* By module path (the paths have some order), then by version.
moduleLess(x, y) ==
    LET rank(n) == CHOOSE i \in 1..Cardinality(PkgNames) : SetToSeq(PkgNames)[i] = n IN
    rank(x[1]) < rank(y[1]) \/ (x[1] = y[1] /\ x[2] < y[2])

Shuffles(s) == {[i \in DOMAIN s |-> s[p[i]]] : p \in {f \in [DOMAIN s -> DOMAIN s] : IsInjective(f)}}

sortRequestRecords(s) == {t \in Shuffles(s) : \A i, j \in DOMAIN t : moduleLess(t[i], t[j]) => i < j}

\* A line without a version is the main module.
parseGoModDownload(s) == Filter(s, LAMBDA w : w.kind # "aux")

resolveGoCollectRecords(up) ==
    /\ eco = "go" /\ phase = "pins"
    /\ LET specs == parseGoModDownload(request)
           answered == \A w \in Range(specs) :
                          /\ w.kind # "bad"
                          /\ w.kind = "latest" => up /\ goLatest(w) # {} IN
       \/ /\ answered /\ specs # <<>>
          /\ \E s \in [DOMAIN specs -> PkgReleases] :
                /\ \A i \in DOMAIN specs : s[i] \in resolveGoSpec(specs[i])
                /\ picks' \in sortRequestRecords(s)
          /\ phase' = "download"
       \/ /\ ~answered \/ specs = <<>>
          /\ phase' = "failed"
          /\ UNCHANGED picks
    /\ UNCHANGED <<eco, request, queue, marks, tried, cache, content, skipped, rounds>>

\* The three files of a module version in the cache of the go command.
manifestForModule(r) == <<<<r, "info">>, <<r, "mod">>, <<r, "zip">>>>

\* The go command downloads a version that exists.
fetchVersion(r, ok) == ok /\ r[2] \in Published[r[1]]

\* A version that cannot be fetched is reported and the others go on.
fetchBundleContent(ok) ==
    /\ eco = "go" /\ phase = "download" /\ picks # <<>>
    /\ picks' = Tail(picks)
    /\ LET r == Head(picks) IN
       \/ /\ fetchVersion(r, ok)
          /\ pkgs' = Append(pkgs, r)
          /\ files' = files \o Filter(manifestForModule(r), LAMBDA f : f \notin Range(files))
          /\ UNCHANGED skipped
       \/ ~fetchVersion(r, ok) /\ skipped' = skipped \cup {r[1]} /\ UNCHANGED content
    /\ UNCHANGED <<eco, request, phase, queue, marks, tried, cache, rounds>>

---------------------------------------------------------------------------
(* The frame of a collect: each ecosystem's Collect function.              *)

Begin(e, first, answered) ==
    /\ eco = e /\ phase = "idle"
    /\ phase' = IF answered THEN first ELSE "failed"
    /\ queue' = IF first = "pins" \/ eco \in {"npm", "maven"} THEN <<>> ELSE request
    /\ UNCHANGED <<eco, request, marks, tried, cache, picks, content, skipped, rounds>>

\* The upstream index, service index, registry configuration or discovery
\* document is fetched first; without it, or when the request is not valid, the
\* whole collect fails before anything is resolved.
CollectCrates(up) == Begin("crates", "resolve", up)
CollectNuget(up) == Begin("nuget", "resolve", up)
CollectCRAN(up) == Begin("cran", "pins", up)
CollectConda(up) == Begin("conda", "resolve", up)
CollectHelm(up) == Begin("helm", "resolve", up)
CollectTerraform(up) == Begin("terraform", "resolve", up)
\* Credentials that do not parse or do not fit the request refuse it.
CollectGo(valid) == Begin("go", "pins", valid)
\* Here the step is the run of npm, mvn or pip.
CollectNpm(up) == Begin("npm", "resolve", up)
CollectMaven(up) == Begin("maven", "resolve", up)
CollectPython(up) == Begin("python", "pins", up)
\* These ask per package only; a request that is not valid is refused.
CollectComposer(valid) == Begin("composer", "resolve", valid)
CollectRubyGems(valid) == Begin("rubygems", "resolve", valid)
CollectGalaxy(valid) == Begin("galaxy", "resolve", valid)
CollectVSX(valid) == Begin("vsx", "resolve", valid)
CollectSnap(valid) == Begin("snap", "resolve", valid)

\* The loop ends when the list is empty or the cap is reached; what is left on
\* the list is dropped.
Count == CASE eco = "crates" -> Len(picks)
           [] eco = "nuget" -> Len(pkgs)
           [] eco \in {"helm", "terraform"} -> 0
           [] OTHER -> Cardinality(marks)

Capped == Count >= MaxResolved /\ (eco = "composer" => want.kind = "range")

LoopDone == queue = <<>> \/ Capped

\* Nothing fetched is an error; otherwise the files are packed and exported.
WriteBundle(e, done) ==
    /\ eco = e
    /\ done
    /\ phase' = IF pkgs = <<>> THEN "failed" ELSE "exported"
    /\ UNCHANGED <<eco, request, queue, marks, tried, cache, picks, content, skipped, rounds>>

LoopEnded == phase = "resolve" /\ LoopDone
Downloaded == phase = "download" /\ picks = <<>>
Completed == phase = "extras" /\ rounds = Len(Originals)

writeCratesBundle == WriteBundle("crates", Downloaded)
writeCondaBundle == WriteBundle("conda", Downloaded)
writeNpmBundle == WriteBundle("npm", Downloaded)
writeGoBundle == WriteBundle("go", Downloaded)
writeMavenBundle == WriteBundle("maven", Completed)
writePythonBundle == WriteBundle("python", Completed)
writeNugetBundle == WriteBundle("nuget", LoopEnded)
writeComposerBundle == WriteBundle("composer", LoopEnded)
writeRubyGemsBundle == WriteBundle("rubygems", LoopEnded)
writeGalaxyBundle == WriteBundle("galaxy", LoopEnded)
writeVSXBundle == WriteBundle("vsx", LoopEnded)
writeSnapBundle == WriteBundle("snap", LoopEnded)
writeCRANBundle == WriteBundle("cran", LoopEnded)
writeHelmBundle == WriteBundle("helm", LoopEnded)
writeTerraformBundle == WriteBundle("terraform", LoopEnded)

StartDownloads ==
    /\ phase = "resolve" /\ eco \in {"crates", "conda"} /\ LoopDone
    /\ eco = "conda" => rounds <= 1
    /\ phase' = IF picks = <<>> THEN "failed" ELSE "download"
    /\ UNCHANGED <<eco, request, queue, marks, tried, cache, picks, content, skipped, rounds>>

CollectInit ==
    /\ eco \in Collected
    /\ request \in Requests[eco]
    /\ phase = "idle" /\ queue = <<>> /\ marks = {} /\ tried = {} /\ cache = {}
    /\ picks = <<>> /\ pkgs = <<>> /\ files = <<>> /\ skipped = {}
    /\ rounds = IF eco = "conda" THEN CondaSubdirs ELSE 0

CollectNext ==
    \/ \E up \in BOOLEAN :
          \/ CollectCrates(up) \/ CollectNuget(up) \/ CollectCRAN(up)
          \/ CollectConda(up) \/ CollectHelm(up) \/ CollectTerraform(up)
          \/ CollectNpm(up) \/ CollectMaven(up) \/ CollectPython(up)
          \/ CollectComposer(up) \/ CollectRubyGems(up) \/ CollectGalaxy(up)
          \/ CollectVSX(up) \/ CollectSnap(up)
          \/ CollectGo(up) \/ resolveGoCollectRecords(up)
          \/ CratesResolve(up)
          \/ \E ok \in BOOLEAN : \/ NugetFetchOne(up, ok)
                                 \/ ComposerStep(up, ok)
                                 \/ \E extra \in BOOLEAN : GemResolveOne(up, ok, extra)
    \/ \E ok \in BOOLEAN :
          \/ CranSeed(ok) \/ CranFetchOne(ok) \/ GalaxyFetchOne(ok) \/ VSXFetchOne(ok)
          \/ SnapFetchOne(ok) \/ TerraformCollectOne(ok)
          \/ DownloadPick(ok) \/ fetchBundleContent(ok) \/ collectPythonSDist(ok) \/ fetchExtra(ok)
          \/ \E extra \in BOOLEAN : HelmDownload(ok, extra)
    \/ \E answer \in {"ok", "refused", "disk"}, extra \in BOOLEAN :
          downloadNpmPackage(answer, extra)
    \/ parseNpmLock \/ collectMavenRepo \/ collectPythonDist \/ startPythonProvenance
    \/ CondaResolve \/ CondaNextPlatform \/ StartDownloads
    \/ writeCratesBundle \/ writeCondaBundle \/ writeNpmBundle \/ writeMavenBundle
    \/ writePythonBundle \/ writeNugetBundle \/ writeComposerBundle
    \/ writeRubyGemsBundle \/ writeGalaxyBundle \/ writeVSXBundle \/ writeSnapBundle
    \/ writeCRANBundle \/ writeHelmBundle \/ writeTerraformBundle
    \/ writeGoBundle

CollectSpec == CollectInit /\ [][CollectNext]_collectVars

---------------------------------------------------------------------------
(* Properties                                                              *)

\* Every variable keeps its type.
CollectTypeOK ==
    /\ eco \in Collected /\ request \in Requests[eco]
    /\ phase \in {"idle", "pins", "resolve", "download", "extras", "exported", "failed"}
    /\ queue \in Seq(Wants) /\ tried \subseteq Wants
    /\ marks \subseteq IF eco \in {"crates", "nuget", "composer", "helm", "terraform"} THEN PkgReleases ELSE PkgNames
    /\ cache \subseteq PkgNames \X BOOLEAN /\ skipped \subseteq PkgNames
    /\ picks \in Seq(PkgReleases) /\ pkgs \in Seq(PkgReleases)
    /\ files \in Seq(PkgReleases \X FileParts)
    /\ rounds \in Nat

\* What these ecosystems do not notice: a provider or a source distribution whose
\* name, and a superseded CRAN release that, is asked for twice.
AskedOnce ==
    \A i, j \in DOMAIN request : i # j =>
        /\ eco = "cran" => request[i] # request[j]
        /\ eco = "terraform" => request[i].name # request[j].name
        /\ eco = "python" => \/ request[i].name # request[j].name
                             \/ {request[i].kind, request[j].kind} \cap {"pin", "bad"} # {}

\* The manifest of an exported bundle lists no path twice and every record's
\* own file: the high side's validateManifestFiles and the per-ecosystem checks
\* reject any other bundle, and since its sequence is taken and a re-export
\* carries the same bytes, the stream would stop there.
ManifestAccepted ==
    phase = "exported" =>
        /\ AskedOnce => DistinctPaths(files)
        /\ {f[1] : f \in Range(files)} = Range(pkgs)

\* Which record answers a want: the ecosystems with a single version per name
\* accept any version of it.
Answers(w, r) ==
    /\ r[1] = w.name
    /\ eco \in {"crates", "nuget", "composer", "go"} => r[2] \in w.accept

Answered(w) == w.name \in skipped \/ \E s \in Range(pkgs) : Answers(w, s)

\* The wants of a record this ecosystem's resolver follows.
Followed(r) == CASE eco \in {"helm", "terraform", "npm", "maven", "python", "go"} -> <<>>
                 [] eco = "snap" -> snapBaseWant(r)
                 [] eco = "cran" /\ r \in SilentArchives \ CranCurrent(r[1]) -> <<>>
                 [] OTHER -> Runtime(r)

\* What a loop left on its list, which it does only at its cap.
Left == Range(queue) \cup IF eco = "conda" THEN tried ELSE {}

\* An export is a closed set but for what the cap left: each want of the request
\* and each runtime dependency of a record is answered by a record, reported as
\* skipped, or was still on the list.
ClosedOrReported ==
    phase = "exported" =>
        /\ \A w \in Range(request) : w.kind = "aux" \/ Answered(w) \/ w \in Left
        /\ \A r \in Range(pkgs) : \A w \in Range(Followed(r)) : Answered(w) \/ w \in Left
=============================================================================
