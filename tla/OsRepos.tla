------------------------------- MODULE OsRepos -------------------------------
(***************************************************************************)
(* Mirrors of operating-system repositories (APT, RPM, Alpine) end to end: *)
(* the low side reads a signed upstream index that may change under it,    *)
(* filters it, fetches the packages and writes a bundle; the high side     *)
(* installs the files, rebuilds the repository metadata in several files   *)
(* and commits.  APT and Alpine accumulate what every bundle brought; an   *)
(* RPM mirror serves the newest snapshot, whose metadata files it carries  *)
(* under the upstream's names.                                             *)
(*                                                                         *)
(* Metadata is modelled by the set of packages it describes; a checksum or *)
(* a signature over it by that same set.                                   *)
(***************************************************************************)
EXTENDS Naturals, Sequences, FiniteSets, SequencesExt

CONSTANTS Packages,       \* <<name, version>> pairs the upstream may offer
          OsMaxCollects,  \* bundles written
          OsMaxFaults,    \* failing reads and writes on the high side
          OsMaxCrashes,
          FilterChanges   \* may the operator's filter differ between collects?

VARIABLES repoKind,      \* apt, rpm or apk
          up,            \* the packages the upstream offers
          collect,       \* the running collect
          sent,          \* what this stream has forwarded: <<path, content>>
          wire,          \* the bundles written, in order
          osDisk,        \* [path -> content] installed on the high side
          merged,        \* index.json: the packages recorded for the mirror
          packages,      \* Packages / the primary index repomd.xml names / APKINDEX
          release,       \* what Release (or repomd.xml) says of it
          signature,     \* what InRelease (or repomd.xml.asc) signs
          osNext, osPc,  \* the sequence to import and the step of its import
          osFaults, osCrashes

osVars == <<repoKind, up, collect, sent, wire, osDisk, merged, packages, release, signature, osNext,
            osPc, osFaults, osCrashes>>

low == <<up, collect, sent, wire>>
served == <<packages, release, signature>>

(* Bounds are numbers.                                                      *)
OsAssumed == OsMaxCollects \in Nat /\ OsMaxFaults \in Nat /\ OsMaxCrashes \in Nat
ASSUME OsAssumption == OsAssumed

NoCollect == [at |-> "none"]

---------------------------------------------------------------------------
(* Low side.                                                               *)

Newest(S) == {p \in S : \A q \in S : q[1] = p[1] => q[2] <= p[2]}

filterNewestApt(S) == Newest(S)
filterNewestRpm(S) == Newest(S)
filterNewestApk(S) == Newest(S)

\* The packages a collect keeps of an upstream index.
Kept(S, newest) ==
    IF ~newest THEN S
    ELSE CASE repoKind = "apt" -> filterNewestApt(S)
           [] repoKind = "rpm" -> filterNewestRpm(S)
           [] repoKind = "apk" -> filterNewestApk(S)

\* The upstream publishes a package or takes one down.
UpstreamChanges ==
    /\ \E p \in Packages : up' = (IF p \in up THEN up \ {p} ELSE up \union {p})
    /\ up' # {}
    /\ UNCHANGED <<repoKind, collect, sent, wire, osDisk, merged, served, osNext, osPc, osFaults, osCrashes>>

\* The signed entry point: Release or repomd.xml; Alpine has the index itself.
Filters == IF FilterChanges THEN BOOLEAN ELSE {TRUE}

FetchRelease ==
    /\ collect = NoCollect /\ Len(wire) < OsMaxCollects
    /\ \E f \in Filters : collect' = [at |-> "index", snap |-> up, newest |-> f]
    /\ UNCHANGED <<repoKind, up, sent, wire, osDisk, merged, served, osNext, osPc, osFaults, osCrashes>>

\* The index is checked against the entry point's checksum, so an upstream that
\* changed in between fails the collect (Alpine's index is the entry point).
fetchAptPackagesIndex(c) == up = c.snap
downloadRpmMetadata(c) == up = c.snap
apkIndexFromArchive(c) == TRUE

IndexMatches(c) ==
    CASE repoKind = "apt" -> fetchAptPackagesIndex(c)
      [] repoKind = "rpm" -> downloadRpmMetadata(c)
      [] repoKind = "apk" -> apkIndexFromArchive(c)

FetchIndex ==
    /\ collect.at = "index"
    /\ collect' = IF IndexMatches(collect) THEN [collect EXCEPT !.at = "download"] ELSE NoCollect
    /\ UNCHANGED <<repoKind, up, sent, wire, osDisk, merged, served, osNext, osPc, osFaults, osCrashes>>

\* An RPM mirror carries its metadata under the upstream's name for it; when the
\* filter drops packages, the file is rewritten in place under the same name.
filterIndexXML(snap, kept) == snap \intersect kept

\* Mutant: the upstream's metadata is forwarded as it came.
KeepIndex(snap, kept) == {<<<<"meta", snap>>, snap>>}

restageIndex(snap, kept) == {<<<<"meta", snap>>, filterIndexXML(snap, kept)>>}

PackageFiles(S) == {<<<<"pkg", p>>, {p}>> : p \in S}

OsFilesOf(c, got) ==
    PackageFiles(got) \union (IF repoKind = "rpm" THEN restageIndex(c.snap, got) ELSE {})

\* A file arrives only with the checksum its index gives it.
downloadVerifiedFile(p) == p \in up

\* A package that cannot be fetched fails an APT or RPM collect (one that was
\* forwarded before is not fetched again); Alpine reports it and goes on.
\* Nothing new to carry means no bundle.
Fetched(c) ==
    IF repoKind = "apk" THEN {got \in SUBSET Kept(c.snap, c.newest) : got # {}}
    ELSE {got \in {Kept(c.snap, c.newest)} :
            \A f \in PackageFiles(got) \ sent : downloadVerifiedFile(f[1][2])}

\* The bundle carries what the stream has not forwarded yet and names the rest.
BundleOf(c, got) ==
    LET fs == OsFilesOf(c, got) IN
    [kept |-> got, files |-> fs \ sent, prior |-> fs \intersect sent, snap |-> c.snap]

Download ==
    /\ collect.at = "download"
    /\ \/ \E got \in Fetched(collect) :
            LET b == BundleOf(collect, got) IN
            /\ wire' = IF b.files = {} THEN wire ELSE Append(wire, b)
            /\ sent' = sent \union b.files
       \/ UNCHANGED <<sent, wire>>
    /\ collect' = NoCollect
    /\ UNCHANGED <<repoKind, up, osDisk, merged, served, osNext, osPc, osFaults, osCrashes>>

---------------------------------------------------------------------------
(* High side.                                                              *)

OsBundle == wire[osNext]

\* Mutant: the new stanzas replace the recorded ones.
Replaced(b) == b.kept

\* A file that is there with other content is a conflict: the path is immutable.
Conflicts(b) == \E f \in b.files : f[1] \in DOMAIN osDisk /\ osDisk[f[1]] # f[2]

\* Delta bundles refer to files an earlier bundle brought.
PriorThere(b) == \A f \in b.prior : f[1] \in DOMAIN osDisk

\* Every package of a manifest has its file in the bundle or in an earlier one.
PathsOf(b) == {f[1] : f \in b.files \union b.prior}
validateAptMirror(b) == \A p \in b.kept : <<"pkg", p>> \in PathsOf(b)
validateRpmMirror(b) ==
    (\A p \in b.kept : <<"pkg", p>> \in PathsOf(b)) /\ <<"meta", b.snap>> \in PathsOf(b)
validateApkMirror(b) == \A p \in b.kept : <<"pkg", p>> \in PathsOf(b)

Valid(b) ==
    CASE repoKind = "apt" -> validateAptMirror(b)
      [] repoKind = "rpm" -> validateRpmMirror(b)
      [] repoKind = "apk" -> validateApkMirror(b)

OsInstall ==
    /\ osPc = "idle" /\ osNext <= Len(wire)
    /\ Valid(OsBundle) /\ ~Conflicts(OsBundle) /\ PriorThere(OsBundle)
    /\ osDisk' = [q \in DOMAIN osDisk \union {f[1] : f \in OsBundle.files} |->
                  IF q \in DOMAIN osDisk THEN osDisk[q]
                  ELSE (CHOOSE f \in OsBundle.files : f[1] = q)[2]]
    /\ osPc' = "merge"
    /\ UNCHANGED <<repoKind, low, merged, served, osNext, osFaults, osCrashes>>

OsFault == osFaults < OsMaxFaults /\ osFaults' = osFaults + 1

\* The error is returned: the sequence stays and the bundle is retried.
Fail ==
    /\ osPc \notin {"idle", "commit"} /\ OsFault
    /\ osPc' = "idle"
    /\ UNCHANGED <<repoKind, low, osDisk, merged, served, osNext, osCrashes>>

\* APT: an unreadable index.json is an error; otherwise the union is written.
mergeAptMirror(b) == merged \union b.kept
\* RPM: the newest snapshot wins.
publishRpmMirror(b) == b.kept
mergeApkMirrors(b) == merged \union b.kept

Merge ==
    /\ osPc = "merge"
    /\ merged' = CASE repoKind = "apt" -> mergeAptMirror(OsBundle)
                   [] repoKind = "rpm" -> publishRpmMirror(OsBundle)
                   [] repoKind = "apk" -> mergeApkMirrors(OsBundle)
    /\ osPc' = "packages"
    /\ UNCHANGED <<repoKind, low, osDisk, served, osNext, osFaults, osCrashes>>

\* Alpine: an index.json that cannot be read is taken for a mirror without one.
MergeUnread ==
    /\ osPc = "merge" /\ repoKind = "apk" /\ OsFault
    /\ merged' = OsBundle.kept
    /\ osPc' = "packages"
    /\ UNCHANGED <<repoKind, low, osDisk, served, osNext, osCrashes>>

\* Only packages whose file is in the pool get a stanza.
presentAptStanzas(S) == {p \in S : <<"pkg", p>> \in DOMAIN osDisk}

publishAptSuite ==
    /\ osPc = "packages" /\ repoKind = "apt"
    /\ packages' = presentAptStanzas(merged)
    /\ osPc' = "release"
    /\ UNCHANGED <<repoKind, low, osDisk, merged, release, signature, osNext, osFaults, osCrashes>>

buildAptRelease ==
    /\ osPc = "release" /\ repoKind = "apt"
    /\ release' = packages
    /\ osPc' = "sign"
    /\ UNCHANGED <<repoKind, low, osDisk, merged, packages, signature, osNext, osFaults, osCrashes>>

signAptRelease ==
    /\ osPc = "sign" /\ repoKind = "apt"
    /\ signature' = release
    /\ osPc' = "commit"
    /\ UNCHANGED <<repoKind, low, osDisk, merged, packages, release, osNext, osFaults, osCrashes>>

\* repomd.xml names the snapshot's metadata file and carries the checksum the
\* manifest recorded; what clients read is the file that is installed.
buildRpmRepomd ==
    /\ osPc = "packages" /\ repoKind = "rpm"
    /\ release' = OsBundle.kept
    /\ packages' = osDisk[<<"meta", OsBundle.snap>>]
    /\ osPc' = "sign"
    /\ UNCHANGED <<repoKind, low, osDisk, merged, signature, osNext, osFaults, osCrashes>>

signRpmRepomd ==
    /\ osPc = "sign" /\ repoKind = "rpm"
    /\ signature' = release
    /\ osPc' = "commit"
    /\ UNCHANGED <<repoKind, low, osDisk, merged, packages, release, osNext, osFaults, osCrashes>>

\* The Alpine index carries its signature in the same file.
regenerateApkIndex ==
    /\ osPc = "packages" /\ repoKind = "apk"
    /\ packages' = {p \in merged : <<"pkg", p>> \in DOMAIN osDisk}
    /\ release' = packages' /\ signature' = packages'
    /\ osPc' = "commit"
    /\ UNCHANGED <<repoKind, low, osDisk, merged, osNext, osFaults, osCrashes>>

OsCommit ==
    /\ osPc = "commit"
    /\ osNext' = osNext + 1 /\ osPc' = "idle"
    /\ UNCHANGED <<repoKind, low, osDisk, merged, served, osFaults, osCrashes>>

OsCrash ==
    /\ osPc # "idle" /\ osCrashes < OsMaxCrashes
    /\ osCrashes' = osCrashes + 1 /\ osPc' = "idle"
    /\ UNCHANGED <<repoKind, low, osDisk, merged, served, osNext, osFaults>>

---------------------------------------------------------------------------

OsInit ==
    /\ repoKind \in {"apt", "rpm", "apk"}
    /\ up \in SUBSET Packages \ {{}}
    /\ collect = NoCollect /\ sent = {} /\ wire = <<>>
    /\ osDisk = <<>> /\ merged = {} /\ packages = {} /\ release = {} /\ signature = {}
    /\ osNext = 1 /\ osPc = "idle" /\ osFaults = 0 /\ osCrashes = 0

OsImport ==
    \/ OsInstall \/ Merge \/ publishAptSuite \/ buildAptRelease \/ signAptRelease
    \/ buildRpmRepomd \/ signRpmRepomd \/ regenerateApkIndex \/ OsCommit

OsNext ==
    \/ UpstreamChanges \/ FetchRelease \/ FetchIndex \/ Download
    \/ OsImport \/ MergeUnread \/ Fail \/ OsCrash

OsSpec == OsInit /\ [][OsNext]_osVars

---------------------------------------------------------------------------
(* Properties.                                                             *)

\* Every variable stays in its set.
OsTypeOK ==
    /\ repoKind \in {"apt", "rpm", "apk"} /\ up \subseteq Packages
    /\ merged \subseteq Packages /\ packages \subseteq Packages
    /\ release \subseteq Packages /\ signature \subseteq Packages
    /\ Len(wire) <= OsMaxCollects /\ osNext \in 1..(Len(wire) + 1)
    /\ osPc \in {"idle", "merge", "packages", "release", "sign", "commit"}
    /\ osFaults \in 0..OsMaxFaults /\ osCrashes \in 0..OsMaxCrashes

\* A package the served metadata lists can be downloaded, at every moment of an
\* import and after every crash.
ListedIsPresent == \A p \in packages : <<"pkg", p>> \in DOMAIN osDisk

\* APT and Alpine repositories only grow: no step withdraws a package clients
\* were offered (Alpine: as long as its index.json could be read).
Accumulates == (repoKind = "apt" \/ (repoKind = "apk" /\ osFaults' = 0)) => packages \subseteq packages'
IndexAccumulates == [][Accumulates]_osVars

\* The metadata files of an RPM mirror are content-named and immutable: no bundle
\* brings one whose path is already installed with other content.
ContentNamed == osPc = "idle" /\ osNext <= Len(wire) => ~Conflicts(OsBundle)
=============================================================================
