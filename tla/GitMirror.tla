----------------------------- MODULE GitMirror -----------------------------
(***************************************************************************)
(* One mirrored git repository (gitmirror.go): the low side reads the      *)
(* upstream's refs, fetches one pack for them, verifies it and exports it  *)
(* unless the stream has forwarded those bytes; the high side installs the *)
(* pack, rebuilds its index and then writes the three files a stock git    *)
(* client walks: info/refs, HEAD and objects/info/packs.                   *)
(*                                                                         *)
(* A pack is the set of objects in it: the server packs equal sets to      *)
(* equal bytes, and a pack file is named after its bytes.                  *)
(***************************************************************************)
EXTENDS Integers, FiniteSets, Sequences

CONSTANTS
  RefNames,     \* branches and tags
  Branches,     \* the branches among them
  Commits,      \* commits a ref can point at
  Reaches,      \* commit -> the objects it needs, itself included
  Requests,     \* ref selections collects ask for ({}: every branch and tag)
  MaxMoves,     \* bound on changes of the upstream's refs
  MaxCollects,  \* bound on collects
  MaxFaults,    \* bound on failed writes of the high side
  GitMaxCrashes, \* bound on crashes of the high side
  NoRef         \* absent

VARIABLES
  upstream,  \* the upstream's refs and HEAD target
  collect,   \* the collect at work
  index,     \* packs the dedup index has as forwarded
  shipped,   \* bundles written and not yet committed by the importer
  packs,     \* pack files of the high side
  idx,       \* packs with an .idx
  served,    \* info/refs, HEAD and objects/info/packs
  publish,   \* the publication at work
  reported,  \* history: refs and HEAD of the last collect that succeeded
  used       \* moves, collects, faults and crashes so far

(* HEAD of a repository is one of its branches.                               *)
GitAssumed == Branches \subseteq RefNames
ASSUME GitAssumption == GitAssumed

gitVars == <<upstream, collect, index, shipped, packs, idx, served, publish, reported, used>>

Objects == UNION {Reaches[t] : t \in Commits}
NoRefs == [r \in RefNames |-> NoRef]
Listing == [refs : [RefNames -> Commits \cup {NoRef}], head : RefNames \cup {NoRef}]
NoCollect == [pc |-> "idle"]
NoPublish == [pc |-> "idle"]
RefsIn(refs) == {r \in RefNames : refs[r] # NoRef}
TipsOf(refs) == {refs[r] : r \in RefsIn(refs)}

GitInit ==
  /\ upstream \in [refs : [RefNames -> Commits], head : Branches]
  /\ collect = NoCollect /\ publish = NoPublish
  /\ index = {} /\ packs = {} /\ idx = {} /\ shipped = <<>>
  /\ served = [refs |-> NoRefs, head |-> NoRef, pack |-> {}]
  /\ reported = [refs |-> NoRefs, head |-> NoRef]
  /\ used = [moves |-> 0, collects |-> 0, faults |-> 0, crashes |-> 0]

----------------------------------------------------------------------------
(* The upstream repository: a ref moves, appears or goes, or HEAD moves.     *)
MoveRef(r, t) ==
  /\ used.moves < MaxMoves /\ upstream.refs[r] # t
  /\ upstream' = [upstream EXCEPT !.refs[r] = t]
  /\ used' = [used EXCEPT !.moves = @ + 1]
  /\ UNCHANGED <<collect, index, shipped, packs, idx, served, publish, reported>>

MoveHead(r) ==
  /\ used.moves < MaxMoves /\ upstream.head # r
  /\ upstream' = [upstream EXCEPT !.head = r]
  /\ used' = [used EXCEPT !.moves = @ + 1]
  /\ UNCHANGED <<collect, index, shipped, packs, idx, served, publish, reported>>

----------------------------------------------------------------------------
(* gitSelectRefs, gitRequestedRefs: the requested refs, which must all be     *)
(* advertised, or every branch and tag.                                     *)
Selected(requested) == IF requested = {} THEN RefsIn(upstream.refs) ELSE requested
Selectable(requested) == Selected(requested) # {} /\ Selected(requested) \subseteq RefsIn(upstream.refs)

(* gitFetchAdvertisement and gitSelectRefs: HEAD is kept if it is selected.  *)
Advertise(requested) ==
  /\ collect = NoCollect /\ used.collects < MaxCollects /\ Selectable(requested)
  /\ collect' = [pc |-> "fetch",
                 refs |-> [r \in RefNames |-> IF r \in Selected(requested) THEN upstream.refs[r] ELSE NoRef],
                 head |-> IF upstream.head \in Selected(requested) THEN upstream.head ELSE NoRef]
  /\ used' = [used EXCEPT !.collects = @ + 1]
  /\ UNCHANGED <<upstream, index, shipped, packs, idx, served, publish, reported>>

(* gitFetchPack: one want per distinct tip and no have; the answer holds the   *)
(* closure of the wants or, from a broken upstream, less.                   *)
Wanted == UNION {Reaches[t] : t \in TipsOf(collect.refs)}
FetchPack(objects) ==
  /\ collect.pc = "fetch" /\ objects \subseteq Wanted
  /\ collect' = [pc |-> "verify", refs |-> collect.refs, head |-> collect.head, pack |-> objects]
  /\ UNCHANGED <<upstream, index, shipped, packs, idx, served, publish, reported, used>>

(* gitCheckRefsPresent                                                      *)
HoldsTips(pack, refs) == TipsOf(refs) \subseteq pack
VerifyPack ==
  /\ collect.pc = "verify" /\ HoldsTips(collect.pack, collect.refs)
  /\ collect' = [collect EXCEPT !.pc = "export"]
  /\ UNCHANGED <<upstream, index, shipped, packs, idx, served, publish, reported, used>>

(* exportIfNew: the pack is the only file and refs are no ExportMetadata, so   *)
(* a pack already forwarded ends the collect without a bundle.               *)
ExportPack(force) ==
  /\ collect.pc = "export"
  /\ IF collect.pack \in index /\ ~force
     THEN UNCHANGED <<shipped, index>>
     ELSE /\ shipped' = Append(shipped, [refs |-> collect.refs, head |-> collect.head, pack |-> collect.pack])
          /\ index' = index \cup {collect.pack}
  /\ reported' = [refs |-> collect.refs, head |-> collect.head]
  /\ collect' = NoCollect
  /\ UNCHANGED <<upstream, packs, idx, served, publish, used>>

(* Any step of the collect fails: nothing is exported.                       *)
CollectFails ==
  /\ collect # NoCollect
  /\ collect' = NoCollect
  /\ UNCHANGED <<upstream, index, shipped, packs, idx, served, publish, reported, used>>

----------------------------------------------------------------------------
(* The importer installs the pack and calls publishGit.                      *)
Install ==
  /\ publish = NoPublish /\ shipped # <<>>
  /\ packs' = packs \cup {Head(shipped).pack}
  /\ publish' = [pc |-> "idx", refs |-> Head(shipped).refs, head |-> Head(shipped).head, pack |-> Head(shipped).pack]
  /\ UNCHANGED <<upstream, collect, index, shipped, idx, served, reported, used>>

(* gitRegenerateIdx: from the pack that is on disk.                          *)
RegenerateIdx ==
  /\ publish.pc = "idx"
  /\ idx' = idx \cup {publish.pack}
  /\ publish' = [publish EXCEPT !.pc = "refs"]
  /\ UNCHANGED <<upstream, collect, index, shipped, packs, served, reported, used>>

(* gitKeptRefs: only refs whose object the pack has.                         *)
KeptRefs == [r \in RefNames |-> IF publish.refs[r] \in publish.pack THEN publish.refs[r] ELSE NoRef]

(* gitHeadTarget: the manifest's HEAD, else a branch, else any ref.          *)
HeadTarget ==
  LET kept == RefsIn(KeptRefs)
  IN  IF publish.head \in kept THEN publish.head
      ELSE CHOOSE r \in kept : kept \cap Branches = {} \/ r \in Branches

(* writeGitPlumbing, one file at a time.                                     *)
WriteRefs ==
  /\ publish.pc = "refs" /\ RefsIn(KeptRefs) # {}
  /\ served' = [served EXCEPT !.refs = KeptRefs]
  /\ publish' = [publish EXCEPT !.pc = "head"]
  /\ UNCHANGED <<upstream, collect, index, shipped, packs, idx, reported, used>>

WriteHead ==
  /\ publish.pc = "head"
  /\ served' = [served EXCEPT !.head = HeadTarget]
  /\ publish' = [publish EXCEPT !.pc = "packs"]
  /\ UNCHANGED <<upstream, collect, index, shipped, packs, idx, reported, used>>

Commit == publish' = NoPublish /\ shipped' = Tail(shipped)
WritePacks ==
  /\ publish.pc = "packs"
  /\ served' = [served EXCEPT !.pack = publish.pack]
  /\ Commit
  /\ UNCHANGED <<upstream, collect, index, packs, idx, reported, used>>

(* publishGit logs a repository it cannot publish, and the bundle commits.    *)
PublishFails ==
  /\ publish.pc \in {"idx", "refs", "head", "packs"} /\ used.faults < MaxFaults
  /\ Commit
  /\ used' = [used EXCEPT !.faults = @ + 1]
  /\ UNCHANGED <<upstream, collect, index, packs, idx, served, reported>>

(* The high side dies before the commit: the bundle is imported again.       *)
CommitEarly ==   \* mutant: the sequence was committed before the publication
  /\ publish # NoPublish /\ used.crashes < GitMaxCrashes
  /\ Commit
  /\ used' = [used EXCEPT !.crashes = @ + 1]
  /\ UNCHANGED <<upstream, collect, index, packs, idx, served, reported>>
CrashPublication ==
  /\ publish # NoPublish /\ used.crashes < GitMaxCrashes
  /\ publish' = NoPublish
  /\ used' = [used EXCEPT !.crashes = @ + 1]
  /\ UNCHANGED <<upstream, collect, index, shipped, packs, idx, served, reported>>

CollectStep == (\E o \in SUBSET Objects : FetchPack(o)) \/ VerifyPack \/ (\E b \in BOOLEAN : ExportPack(b)) \/ CollectFails
PublishStep == Install \/ RegenerateIdx \/ WriteRefs \/ WriteHead \/ WritePacks

GitNext ==
  \/ \E r \in RefNames, t \in Commits \cup {NoRef} : MoveRef(r, t)
  \/ \E r \in Branches : MoveHead(r)
  \/ \E requested \in Requests : Advertise(requested)
  \/ CollectStep \/ PublishStep \/ PublishFails \/ CrashPublication

(* The importer's worker keeps running; nothing is assumed of collects.      *)
GitSpec == GitInit /\ [][GitNext]_gitVars /\ WF_gitVars(PublishStep)

----------------------------------------------------------------------------
GitTypeOK ==
  /\ upstream \in Listing
  /\ index \subseteq SUBSET Objects /\ packs \subseteq SUBSET Objects /\ idx \subseteq packs
  /\ [refs |-> served.refs, head |-> served.head] \in Listing /\ reported \in Listing
  /\ served.pack \subseteq Objects
  /\ publish.pc \in {"idle", "idx", "refs", "head", "packs"}
  /\ collect.pc \in {"idle", "fetch", "verify", "export"}

(* gitmirror.go: "dropping any manifest ref whose object the pack does not     *)
(* actually contain": every ref the mirror serves is in a pack that is        *)
(* installed and indexed, also between the writes of a publication and when   *)
(* one of them failed.                                                       *)
RefsNeverDangle == \A r \in RefsIn(served.refs) : \E p \in packs \cap idx : served.refs[r] \in p

(* The files a clone reads agree: HEAD names a listed ref, and the one pack    *)
(* that is listed has every ref's commit.                                    *)
Cloneable ==
  /\ HoldsTips(served.pack, served.refs)
  /\ served.head = NoRef \/ served.head \in RefsIn(served.refs)

(* A crash between the writes of a publication is repaired by the import that  *)
(* follows it: unless a write failed, the mirror ends up cloneable.           *)
CloneSettles == <>[](used.faults > 0 \/ Cloneable)

(* page/docs/ecosystems/git.md: "Each re-collect (or watch run) refreshes the  *)
(* mirror to the current upstream refs": once everything exported is          *)
(* imported, the mirror serves what the last successful collect selected.     *)
MirrorRefreshed ==
  shipped = <<>> /\ used.faults = 0 /\ reported.refs # NoRefs => served.refs = reported.refs
=============================================================================
