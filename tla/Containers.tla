----------------------------- MODULE Containers -----------------------------
(***************************************************************************)
(* Container images of one repository, from the collect to the registry    *)
(* the high side serves: resolving a reference, the bounded discovery of   *)
(* attached artifacts (cosign tags, referrers, attestations, artifact      *)
(* indexes with their children), the durable discovery status, and the     *)
(* merge of every imported bundle into the repository's index.             *)
(*                                                                         *)
(* A document (manifest) is named by its digest and stands for its bytes   *)
(* and blobs; None stands for an absent digest, tag or subject.            *)
(***************************************************************************)
EXTENDS Naturals, Sequences, FiniteSets, SequencesExt

CONSTANTS Docs,               \* digests
          Kind,               \* [Docs -> {"image", "index", "artifact", "artifact index"}]
          Subject,            \* the subject a manifest declares, or None
          Children,           \* the manifests an index lists, in order
          UpstreamReferrers,  \* the referrers the upstream lists for a subject
          CosignTag,          \* the name of a subject's cosign tag
          Tags, Pins,         \* the tags and the digests collects name
          Moves,              \* [Tags -> SUBSET Docs]: where upstream may point a tag
          None,
          MaxArtifacts, MaxFetches, MaxDepth, \* containerMaxImageArtifacts, ...
          ConMaxCollects, ConMaxFaults, ClockBack, MaxClock,
          LegacyImages        \* images of an index written before artifact indexes

VARIABLES upTag,     \* the upstream's tags
          col,       \* the running collect
          clock,     \* the low side's wall clock
          status,    \* discovery.json
          exported,  \* the image metadata last exported per key
          bundles,
          images,    \* high side: the repository's image records
          index,     \* its artifact index, or None before the migration
          blobs,     \* documents installed in the shared store
          conNext, conPc, conFaults, conCrashes

conVars == <<upTag, col, clock, status, exported, bundles, images, index, blobs, conNext, conPc,
             conFaults, conCrashes>>

lowVars == <<upTag, col, clock, status, exported, bundles>>
highVars == <<images, index, blobs, conNext, conPc, conCrashes>>

ConFault == conFaults < ConMaxFaults /\ conFaults' = conFaults + 1

Idle == [at |-> "idle"]

\* The two sides share nothing but the bundles: the steps of a collect are not
\* interleaved with those of an import.
NoGraph == [stack |-> <<>>, pending |-> <<>>]

---------------------------------------------------------------------------
(* Collecting an image and what is attached to it.                         *)

Served(img) == IF img.index # None THEN img.index ELSE img.digest

\* A document that is collected as an artifact rather than as an image.
isContainerArtifactDocument(d) == Kind[d] \in {"artifact", "artifact index"}
isContainerIndexType(d) == Kind[d] \in {"index", "artifact index"}

\* An image index resolves to the image it lists first for linux/amd64.
pickAmd64Manifest(d) == Children[d][1]

indexAttestationEntries(d) == Tail(Children[d])

Task(kind, subject, doc) == [kind |-> kind, subject |-> subject, doc |-> doc]

\* The work of one image, in order: the graph of an artifact root or an image
\* with a subject, the attestations of its index, the discovery of its subjects.
Tasks(digest, idx) ==
    (IF isContainerArtifactDocument(digest) THEN <<Task("root", None, digest)>>
     ELSE IF Subject[digest] # None THEN <<Task("seed", None, digest)>>
     ELSE <<>>)
    \o (IF idx = None THEN <<>>
        ELSE [i \in DOMAIN indexAttestationEntries(idx) |->
                Task("attestation", digest, indexAttestationEntries(idx)[i])])
    \o (IF idx = None THEN <<>> ELSE <<Task("subject", idx, None)>>)
    \o <<Task("subject", digest, None)>>

parseContainerCollectRefs ==
    /\ col = Idle /\ conPc = "idle" /\ Len(bundles) < ConMaxCollects
    /\ \/ \E t \in Tags : col' = [at |-> "resolve", tag |-> t, ref |-> upTag[t]]
       \/ \E d \in Pins : col' = [at |-> "resolve", tag |-> None, ref |-> d]
    /\ UNCHANGED <<upTag, clock, status, exported, bundles, highVars, conFaults>>

\* A reference that cannot be resolved or whose layers fail is reported; with no
\* image left there is no bundle.
ImageFails ==
    /\ col.at \in {"resolve", "run"} /\ ConFault
    /\ col.at = "run" => col.todo # <<>> /\ Head(col.todo).kind = "root"
    /\ col' = Idle
    /\ UNCHANGED <<upTag, clock, status, exported, bundles, highVars>>

fetchContainerManifest ==
    /\ col.at = "resolve"
    /\ LET d == col.ref
           idx == IF Kind[d] = "index" THEN d ELSE None
           m == IF idx = None THEN d ELSE pickAmd64Manifest(d)
       IN col' = [at |-> "run", tag |-> col.tag, digest |-> m, index |-> idx,
                  skip |-> (IF isContainerArtifactDocument(m) THEN {idx} ELSE {m, idx}) \ {None},
                  todo |-> Tasks(m, idx), order |-> <<>>, visited |-> {}, seen |-> 0,
                  fetches |-> 0, incomplete |-> FALSE, tags |-> <<>>, graph |-> NoGraph]
    /\ UNCHANGED <<upTag, clock, status, exported, bundles, highVars, conFaults>>

Found(c) == DOMAIN c.tags
foundCapReached(c) == Cardinality(Found(c)) >= MaxArtifacts
capReached(c) == foundCapReached(c) \/ c.fetches >= MaxFetches

\* Mutant: an issue is only logged.
NoteNothing(c) == c

\* An issue makes the observation incomplete.
noteContainerDiscoveryIssue(c) == [c EXCEPT !.incomplete = TRUE]
Dropped(c) == [c EXCEPT !.todo = Tail(@)]
Fetch(c) == [c EXCEPT !.fetches = @ + 1]

\* The subject rule: a listed referrer must name the queried subject, any other
\* attachment may leave it out.
SubjectFits(d, subject, required) ==
    IF Subject[d] = None THEN ~required ELSE subject = None \/ Subject[d] = subject

\* Staging failed or a fetch did: the pending graph is dropped as a whole.
GiveUp(c) == [Dropped(noteContainerDiscoveryIssue(c)) EXCEPT !.graph = NoGraph]

\* stage of a document: it joins the pending graph with its children to visit.
stage(c, d) ==
    [c EXCEPT !.graph = [stack |-> Append(@.stack, [doc |-> d, kids |-> Children[d]]),
                         pending |-> @.pending]]

\* record: a known digest only gains a tag it did not have.
record(c, subject, tag, d, required) ==
    IF d \in c.skip THEN Dropped(c)
    ELSE IF d \in Found(c)
         THEN [Dropped(c) EXCEPT !.tags[d] = IF @ = None THEN tag ELSE @]
    ELSE IF foundCapReached(c) \/ ~SubjectFits(d, subject, required) THEN GiveUp(c)
    ELSE stage(c, d)

\* The tag sha256-<subject>.sig (.att and .sbom alike); it need not exist.
Cosign(s) == IF CosignTag[s] \in Tags THEN upTag[CosignTag[s]] ELSE None

addByTag(c, s) ==
    IF capReached(c) THEN GiveUp(c)
    ELSE IF Cosign(s) = None THEN Dropped(Fetch(c))
    ELSE record(Fetch(c), s, CosignTag[s], Cosign(s), FALSE)

addDescriptor(c, s, d, required) ==
    IF d \in c.skip \union Found(c) THEN Dropped(c)
    ELSE IF capReached(c) THEN GiveUp(c)
    ELSE record(Fetch(c), s, None, d, required)

discoverSubject(c, s) ==
    IF s \in c.visited THEN Dropped(c)
    ELSE IF capReached(c) THEN GiveUp(c)
    ELSE [Dropped(c) EXCEPT !.visited = @ \union {s},
                            !.todo = <<Task("tag", s, None), Task("referrers", s, None)>> \o @]

\* fetchReferrers answers with the pages it got; an error keeps the earlier ones.
fetchReferrers(c, s, ds) ==
    [Dropped(c) EXCEPT !.todo = [i \in DOMAIN ds |-> Task("referrer", s, ds[i])] \o @]

collectImageArtifacts ==
    /\ col.at = "run" /\ col.todo # <<>> /\ col.graph = NoGraph
    /\ LET t == Head(col.todo) IN
       col' = CASE t.kind = "root"        -> stage(col, t.doc)
                [] t.kind = "seed"        -> stage(col, t.doc)
                [] t.kind = "attestation" -> addDescriptor(col, t.subject, t.doc, FALSE)
                [] t.kind = "subject"     -> discoverSubject(col, t.subject)
                [] t.kind = "tag"         -> addByTag(col, t.subject)
                [] t.kind = "referrers"   -> IF capReached(col) THEN GiveUp(col)
                                             ELSE fetchReferrers(col, t.subject, UpstreamReferrers[t.subject])
                [] t.kind = "referrer"    -> addDescriptor(col, t.subject, t.doc, TRUE)
    /\ UNCHANGED <<upTag, clock, status, exported, bundles, highVars, conFaults>>

\* The upstream fails a lookup, a fetch or a download of the collect's next task.
FetchFails ==
    /\ col.at = "run" /\ col.todo # <<>> /\ col.graph = NoGraph /\ ConFault
    /\ LET t == Head(col.todo) IN
       \/ /\ t.kind \in {"attestation", "tag", "referrer"} /\ ~capReached(col)
          /\ t.doc \notin col.skip \union Found(col)
          /\ col' = GiveUp(Fetch(col))
       \/ t.kind = "seed" /\ col' = GiveUp(col)
       \/ /\ t.kind = "referrers" /\ ~capReached(col)
          /\ \E n \in 0..Len(UpstreamReferrers[t.subject]) :
               col' = noteContainerDiscoveryIssue(
                        fetchReferrers(col, t.subject, SubSeq(UpstreamReferrers[t.subject], 1, n)))
    /\ UNCHANGED <<upTag, clock, status, exported, bundles, highVars>>

Top(c) == c.graph.stack[Len(c.graph.stack)]
Visiting(c) == {c.graph.stack[i].doc : i \in DOMAIN c.graph.stack}
Pending(c) == Range(c.graph.pending) \union Visiting(c)

\* The tag of the record a graph hangs from.
RootTag(c) == LET t == Head(c.todo) IN IF t.kind = "tag" THEN CosignTag[t.subject] ELSE None

\* A finished subtree; a finished root moves the whole graph to the image.
popGraph(c) ==
    LET d == Top(c).doc
        pending == Append(c.graph.pending, d)
        rest == Front(c.graph.stack)
    IN IF rest # <<>> THEN [c EXCEPT !.graph = [stack |-> rest, pending |-> pending]]
       ELSE [Dropped(c) EXCEPT !.graph = NoGraph, !.order = @ \o pending,
               !.tags = [x \in Found(c) \union Range(pending) |->
                           IF x \in Found(c) THEN c.tags[x]
                           ELSE IF x = d THEN RootTag(c) ELSE None]]

NextKid(c) == [c EXCEPT !.graph.stack[Len(c.graph.stack)].kids = Tail(@)]

\* Mutant: what was staged before a child failed is kept.
KeepStaged(c) ==
    [GiveUp(c) EXCEPT !.order = @ \o [i \in DOMAIN c.graph.stack |-> c.graph.stack[i].doc],
        !.tags = [x \in Found(c) \union Visiting(c) |-> IF x \in Found(c) THEN c.tags[x] ELSE None]]

\* The graph is dropped; an artifact root takes its image with it.
collectGraphFails(c) == IF Head(c.todo).kind = "root" THEN Idle ELSE GiveUp(c)

stageChild(c) ==
    LET k == Head(Top(c).kids) IN
    IF k \in Visiting(c) THEN collectGraphFails(c)
    ELSE IF k \in Pending(c) \union Found(c) THEN NextKid(c)
    ELSE IF \/ Len(c.graph.stack) > MaxDepth \/ capReached(c)
            \/ Cardinality(Pending(c) \union Found(c)) >= MaxArtifacts
         THEN collectGraphFails(c)
    ELSE stage(NextKid(Fetch(c)), k)

collectGraph ==
    /\ col.at = "run" /\ col.graph # NoGraph
    /\ col' = IF Top(col).kids = <<>> THEN popGraph(col) ELSE stageChild(col)
    /\ UNCHANGED <<upTag, clock, status, exported, bundles, highVars, conFaults>>

ChildFails ==
    /\ col.at = "run" /\ col.graph # NoGraph /\ Top(col).kids # <<>> /\ ConFault
    /\ col' = collectGraphFails(Fetch(col))
    /\ UNCHANGED <<upTag, clock, status, exported, bundles, highVars>>

\* After the image's own subjects, the artifacts found are subjects in turn.
discover ==
    /\ col.at = "run" /\ col.todo = <<>> /\ col.seen < Len(col.order)
    /\ col' = IF capReached(col)
              THEN [noteContainerDiscoveryIssue(col) EXCEPT !.seen = Len(col.order)]
              ELSE [col EXCEPT !.seen = @ + 1,
                               !.todo = <<Task("subject", col.order[col.seen + 1], None)>>]
    /\ UNCHANGED <<upTag, clock, status, exported, bundles, highVars, conFaults>>

---------------------------------------------------------------------------
(* The observation, discovery.json and the bundle.                         *)

\* An observation: complete or not, when it was made, the last complete one.
validateContainerDiscovery(o) ==
    /\ o.last <= o.checked
    /\ o.complete => o.last # 0

statusReadable == \A d \in Docs : status[d] # None => validateContainerDiscovery(status[d].seen)

finish(c, served) ==
    [complete |-> ~c.incomplete, checked |-> clock,
     last |-> IF ~c.incomplete THEN clock
              ELSE IF status[served] # None THEN status[served].seen.last ELSE 0]

\* Tags move to the digest they were collected at; a record keeps its history.
updateContainerDiscoveryImage(served, tag, o) ==
    [d \in Docs |->
        IF d = served
        THEN [seen |-> o, tags |-> (IF status[d] = None THEN {} ELSE status[d].tags)
                                      \union ({tag} \ {None})]
        ELSE IF status[d] = None THEN None
        ELSE [status[d] EXCEPT !.tags = @ \ {tag}]]

\* A record is keyed by its tag, a digest pin by the digest it serves.
containerImageKey(img) == IF img.tag # None THEN <<"tag", img.tag>> ELSE <<"digest", Served(img)>>

ImageOf(c, o) ==
    [tag |-> c.tag, digest |-> c.digest, index |-> c.index, arts |-> c.tags, seen |-> o]

\* Times are left out of the metadata whose change forces a bundle.
containerExportMetadata(img) == [img EXCEPT !.seen = img.seen.complete]

\* The status is read, updated and saved before the export; a file that cannot
\* be read ends the collect, and with nothing new there is no bundle.
CollectContainers ==
    /\ col.at = "run" /\ col.todo = <<>> /\ col.seen = Len(col.order)
    /\ LET served == Served(col)
           img == ImageOf(col, finish(col, served))
           meta == containerExportMetadata(img)
       IN IF statusReadable
          THEN /\ status' = updateContainerDiscoveryImage(served, col.tag, img.seen)
               /\ exported' = {x \in exported : containerImageKey(x) # containerImageKey(img)} \union {meta}
               /\ bundles' = IF meta \in exported THEN bundles ELSE Append(bundles, img)
          ELSE UNCHANGED <<status, exported, bundles>>
    /\ col' = Idle
    /\ UNCHANGED <<upTag, clock, highVars, conFaults>>

\* The world moves on: upstream retags, the clock advances or is stepped back.
UpstreamMoves ==
    /\ col = Idle /\ conPc = "idle"
    /\ \E t \in Tags : \E d \in Moves[t] : upTag' = [upTag EXCEPT ![t] = d]
    /\ UNCHANGED <<col, clock, status, exported, bundles, highVars, conFaults>>

ClockTicks ==
    /\ col = Idle /\ conPc = "idle" /\ clock' \in 1..MaxClock /\ (ClockBack \/ clock' = clock + 1)
    /\ UNCHANGED <<upTag, col, status, exported, bundles, highVars, conFaults>>

---------------------------------------------------------------------------
(* High side: validation, the merge into _index.json, and what it serves.  *)

ConBundle == bundles[conNext]

DocsOf(img) == ({img.digest, img.index} \ {None}) \union DOMAIN img.arts

validateContainerImage(img) == validateContainerDiscovery(img.seen)

\* Every child of a stored artifact index is stored.
validateStoredContainerGraph(A) ==
    \A d \in A : isContainerIndexType(d) => Range(Children[d]) \subseteq A

ConInstall ==
    /\ col = Idle /\ conPc = "idle" /\ conNext <= Len(bundles) /\ validateContainerImage(ConBundle)
    /\ blobs' = blobs \union DocsOf(ConBundle)
    /\ conPc' = "publish"
    /\ UNCHANGED <<lowVars, images, index, conNext, conFaults, conCrashes>>

NewIndex == [arts |-> {}, tags |-> <<>>]

\* The artifacts' digests join the index, and the tags the images give them are
\* set anew; which of two claims to a tag wins (the first when an old index is
\* rebuilt, else the last) is left open.
mergeContainerArtifacts(idx, imgs) ==
    LET claims == UNION {{<<img.arts[d], d>> : d \in DOMAIN img.arts} : img \in imgs}
        claimed == {c[1] : c \in claims} \ {None}
    IN [arts |-> idx.arts \union UNION {DOMAIN img.arts : img \in imgs},
        tags |-> [t \in DOMAIN idx.tags \union claimed |->
                    IF t \in claimed THEN CHOOSE d \in Docs : <<t, d>> \in claims
                    ELSE idx.tags[t]]]

\* An index written before artifact indexes existed is rebuilt from its images.
loadContainerRepoIndexLocked ==
    IF index # None THEN index ELSE mergeContainerArtifacts(NewIndex, images)

\* Image and artifact tags share a namespace: the image takes the tag over.
SupersedeTag(idx, img) ==
    [idx EXCEPT !.tags = [t \in DOMAIN idx.tags \ {img.tag} |-> idx.tags[t]]]

retainContainerArtifacts(old, new) ==
    [d \in DOMAIN old \union DOMAIN new |-> IF d \in DOMAIN new THEN new[d] ELSE old[d]]

\* Mutant: the image a tag moves away from is forgotten.
ForgetMoved(img) == {}

\* The image a tag moves away from stays reachable by its digest.
preserveMovedContainerImage(img) ==
    {[i EXCEPT !.tag = None] : i \in
        {i \in images : /\ img.tag # None /\ containerImageKey(i) = containerImageKey(img) /\ Served(i) # Served(img)
                        /\ ~\E j \in images : containerImageKey(j) = <<"digest", Served(i)>>}}

mergeContainerImages(img) ==
    LET old == {i \in images : containerImageKey(i) = containerImageKey(img)}
        kept == {i \in old : Served(i) = Served(img)}
        arts == IF kept = {} THEN img.arts
                ELSE retainContainerArtifacts((CHOOSE i \in kept : TRUE).arts, img.arts)
    IN (images \ old) \union {[img EXCEPT !.arts = arts]} \union preserveMovedContainerImage(img)

\* One atomic write of _index.json; an artifact graph with a hole is an error.
mergeContainerRepo ==
    /\ conPc = "publish"
    /\ LET idx == mergeContainerArtifacts(SupersedeTag(loadContainerRepoIndexLocked, ConBundle),
                                          {ConBundle})
       IN /\ validateStoredContainerGraph(idx.arts)
          /\ index' = idx
    /\ images' = mergeContainerImages(ConBundle)
    /\ conPc' = "commit"
    /\ UNCHANGED <<lowVars, blobs, conNext, conFaults, conCrashes>>

ConCommit ==
    /\ conPc = "commit" /\ conNext' = conNext + 1 /\ conPc' = "idle"
    /\ UNCHANGED <<lowVars, images, index, blobs, conFaults, conCrashes>>

\* A failed read or write, or a crash: the sequence stays and is imported again.
ConCrash ==
    /\ conPc # "idle" /\ conCrashes = 0
    /\ conCrashes' = 1 /\ conPc' = "idle"
    /\ UNCHANGED <<lowVars, images, index, blobs, conNext, conFaults>>

\* A read of the repository rebuilds an old index and saves it.
Migrate ==
    /\ col = Idle /\ index = None /\ images # {}
    /\ index' = loadContainerRepoIndexLocked
    /\ UNCHANGED <<lowVars, images, blobs, conNext, conPc, conFaults, conCrashes>>

\* `containers check --repair` (the high side is stopped): a missing index is
\* rebuilt from the image records, unless two of them disagree about a tag.
AmbiguousTags ==
    \E i, j \in images : \E d \in DOMAIN i.arts, e \in DOMAIN j.arts :
        d # e /\ i.arts[d] # None /\ i.arts[d] = j.arts[e]

\* Every document the records name is in the store, with its own bytes.
ContentIntact == \A img \in images : DocsOf(img) \subseteq blobs

Repair ==
    /\ col = Idle /\ index = None /\ images # {} /\ conPc = "idle" /\ ~AmbiguousTags
    /\ ContentIntact
    /\ index' = loadContainerRepoIndexLocked
    /\ validateStoredContainerGraph(index'.arts)
    /\ UNCHANGED <<lowVars, images, blobs, conNext, conPc, conFaults, conCrashes>>

\* manifests/<digest> and manifests/<tag>: artifacts first, then the images.
findByDigest ==
    (IF index = None THEN {} ELSE index.arts)
        \union UNION {{i.digest, i.index} \ {None} : i \in images}

findByTag(t) ==
    IF index # None /\ t \in DOMAIN index.tags THEN index.tags[t]
    ELSE IF \E i \in images : i.tag = t THEN Served(CHOOSE i \in images : i.tag = t)
    ELSE None

---------------------------------------------------------------------------

ConInit ==
    /\ upTag \in {f \in [Tags -> Docs] : \A t \in Tags : f[t] \in Moves[t]}
    /\ col = Idle /\ clock = 1 /\ status = [d \in Docs |-> None]
    /\ exported = {} /\ bundles = <<>>
    /\ images \in {{}, LegacyImages}
    /\ index = IF images = {} THEN NewIndex ELSE None
    /\ blobs = UNION {DocsOf(i) : i \in images}
    /\ conNext = 1 /\ conPc = "idle" /\ conFaults = 0 /\ conCrashes = 0

LowStep ==
    \/ fetchContainerManifest \/ collectImageArtifacts \/ collectGraph \/ discover
    \/ CollectContainers

HighStep == ConInstall \/ mergeContainerRepo \/ ConCommit

ConNext ==
    \/ LowStep \/ HighStep
    \/ parseContainerCollectRefs \/ ImageFails \/ FetchFails \/ ChildFails
    \/ UpstreamMoves \/ ClockTicks \/ ConCrash \/ Migrate \/ Repair

ConSpec == ConInit /\ [][ConNext]_conVars

---------------------------------------------------------------------------
(* The values image records and indexes take.                              *)
Marks == {CosignTag[d] : d \in Docs} \cup {None}
Marked == UNION {[S -> Marks] : S \in SUBSET Docs}
Observations == [complete : BOOLEAN, checked : Nat, last : Nat]
Tagging == UNION {[S -> Docs] : S \in SUBSET Marks}
Indexes == [arts : SUBSET Docs, tags : Tagging]

(* What a reference resolves to: an image of an index is the one it lists     *)
(* first, and the index is its way to be served.                             *)
Resolved(digest, idx) ==
  IF idx = None THEN Kind[digest] # "index" ELSE Kind[idx] = "index" /\ digest = pickAmd64Manifest(idx)
Images ==
  {i \in [tag : Tags \cup {None}, digest : Docs, index : Docs \cup {None}, arts : Marked, seen : Observations] :
     Resolved(i.digest, i.index)}

(* The constants: documents name documents, an image index lists an image, an *)
(* old repository holds images.                                              *)
ConAssumed ==
  /\ None \notin Docs /\ None \notin Indexes
  /\ Children \in [Docs -> Seq(Docs)] /\ UpstreamReferrers \in [Docs -> Seq(Docs)]
  /\ \A d \in Docs : Kind[d] = "index" => Children[d] # <<>>
  /\ Pins \subseteq Docs /\ Moves \in [Tags -> SUBSET Docs] /\ LegacyImages \subseteq Images
  /\ ConMaxCollects \in Nat /\ ConMaxFaults \in Nat /\ MaxClock \in Nat \ {0}
ASSUME ConAssumption == ConAssumed

---------------------------------------------------------------------------
(* Properties.                                                             *)

\* Every variable stays in its set.
ConTypeOK ==
    /\ upTag \in [Tags -> Docs] /\ col.at \in {"idle", "resolve", "run"}
    /\ clock \in 1..MaxClock /\ Len(bundles) <= ConMaxCollects
    /\ blobs \subseteq Docs /\ conNext \in 1..(Len(bundles) + 1)
    /\ conPc \in {"idle", "publish", "commit"} /\ conFaults \in 0..ConMaxFaults /\ conCrashes \in 0..1

\* What is attached to a subject upstream, by referrer or cosign tag.
Attached(s) == Range(UpstreamReferrers[s]) \union ({Cosign(s)} \ {None})

\* An observation that crosses the diode as complete is: everything attached to
\* the image, and to what is attached to it, is in the bundle, whatever failed
\* on the way and whichever cap was reached.
SentComplete ==
    bundles' # bundles /\ Last(bundles').seen.complete
      => \A s \in DocsOf(Last(bundles')) : Attached(s) \subseteq DocsOf(Last(bundles'))
CompleteMeansAll == [][SentComplete]_conVars

\* The high side takes every bundle the low side writes: its artifact graphs
\* have no hole, however a collection was cut short.
BundleIsClosed ==
    \A n \in DOMAIN bundles : validateStoredContainerGraph(DOMAIN bundles[n].arts)

\* A digest clients can pull stays pullable: tags move, images and artifacts stay.
KeepsDigests == findByDigest \subseteq findByDigest'
DigestsStayPullable == [][KeepsDigests]_conVars

\* discovery.json can always be read back, and no bundle is refused for its times.
StatusStaysReadable ==
    statusReadable /\ \A n \in DOMAIN bundles : validateContainerImage(bundles[n])
=============================================================================
