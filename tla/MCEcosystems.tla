---------------------------- MODULE MCEcosystems ----------------------------
(***************************************************************************)
(* Instances for TLC of the content streams: the package collectors, the   *)
(* package publishers, the operating-system repositories, container        *)
(* images and Hugging Face mirrors.  A behaviour belongs to one area; the  *)
(* others stay in one of their initial states.                             *)
(***************************************************************************)
EXTENDS Collect, Publish, OsRepos, Containers, HfMirror, TLC

CONSTANTS Areas

VARIABLE area   \* the part at work

all == <<area, collectVars, publishVars, osVars, conVars, hfVars>>

----------------------------------------------------------------------------
(* Collectors: two names that need each other, one that both need, one the    *)
(* upstream does not have.                                                   *)
W(n, k, a) == [name |-> n, kind |-> k, accept |-> a]
V == {1, 2, 3}
MCPublished == [n \in {"a", "b", "c", "d"} |-> CASE n = "c" -> {1, 3} [] n = "d" -> {} [] OTHER -> {1, 2}]
MCRequires == [r \in {"a", "b", "c", "d"} \X V |->
  CASE r = <<"a", 1>> -> <<W("b", "range", {1})>>
    [] r = <<"a", 2>> -> <<W("b", "range", V), W("c", "aux", V), W("c", "range", V)>>
    [] r = <<"b", 1>> -> <<W("c", "range", {1}), W("c", "range", {1})>>
    [] r = <<"b", 2>> -> <<W("a", "range", {1})>>
    [] OTHER -> <<W("a", "range", V)>>]
Asked == {W("a", "latest", V), W("a", "pin", {1}), W("b", "pin", {2}), W("c", "pin", {2}), W("c", "latest", V)}
Lists == {<<x>> : x \in Asked \cup {W("d", "latest", V)}} \cup {<<x, y>> : x, y \in Asked}
Locked == {W("a", "pin", {1}), W("a", "pin", {2}), W("b", "bad", {1}), W("c", "aux", {1})}
Locks == {<<x, y, z>> : x, y, z \in Locked}
MavenFiles == {s \in [1 .. 2 -> {W("a", "pin", {1}), W("b", "pin", {2}), W("b", "pin", {3}), W("c", "aux", {1})}] : IsInjective(s)}
Dists == {s \in [1 .. 2 -> {W("a", "pin", {1}), W("a", "latest", V), W("b", "bad", {2}), W("c", "range", {1})}] :
            s # <<W("a", "pin", {1}), W("a", "pin", {1})>>}
GoGraphs == [1 .. 2 -> {W("a", "pin", {2}), W("b", "pin", {1}), W("b", "bad", {2}), W("c", "aux", {1})}]
MCRequests ==
  [e \in {"crates", "nuget", "composer", "rubygems", "galaxy", "vsx", "snap", "helm", "conda", "cran",
          "terraform", "npm", "maven", "python", "go"} |->
     CASE e = "npm" -> Locks [] e = "maven" -> MavenFiles [] e = "python" -> Dists
       [] e = "cran" -> Lists \cup {<<W("b", "pin", {1})>>}
       [] e = "go" -> Lists \cup GoGraphs
       [] OTHER -> Lists]

MCSilentArchives == {<<"b", 1>>}

----------------------------------------------------------------------------
(* Publishers: two bundles, the second of which brings a part or a version,   *)
(* and one release whose archive is not what it should be.                   *)
Rec(n, v, ps) == [name |-> n, ver |-> v, parts |-> ps]
Fresh == << <<Rec("a", 1, {1}), Rec("b", 1, {1})>>, <<Rec("a", 2, {1})>> >>
Delta == << <<Rec("a", 1, {1}), Rec("b", 1, {1})>>, <<Rec("a", 1, {2}), Rec("a", 2, {1})>> >>
Streams == {"go", "crates", "nuget", "composer", "rubygems", "npm", "cran", "galaxy", "helm", "conda",
            "snap", "terraform", "vsx", "maven"}
MCBundles == [e \in Streams |-> IF e \in {"npm", "terraform", "helm"} THEN Delta ELSE Fresh]
MCBad == {<<"b", 1>>}
MCFaults == [e \in Streams |-> 1]

----------------------------------------------------------------------------
(* Repositories: two versions of one package and one other.                  *)
MCPackages == {<<"x", 1>>, <<"x", 2>>, <<"y", 1>>}

----------------------------------------------------------------------------
(* Containers: a tag that moves from an image to an index, a cosign tag that  *)
(* moves, referrers of referrers, an artifact that is an index.              *)
MCDocs == {"m1", "m2", "ix", "att", "s1", "s2", "r1", "q", "ai", "k"}
Where(f, other) == [d \in MCDocs |-> IF d \in DOMAIN f THEN f[d] ELSE other]
MCKind == Where([m1 |-> "image", m2 |-> "image", ix |-> "index", ai |-> "artifact index"], "artifact")
MCSubject == Where([r1 |-> "m1", q |-> "r1", ai |-> "m1", m2 |-> "m1"], None)
MCChildren == Where([ix |-> <<"m1", "att">>, ai |-> <<"k">>], <<>>)
MCReferrers == Where([m1 |-> <<"r1", "ai">>, r1 |-> <<"q">>, m2 |-> <<"q">>], <<>>)
MCCosignTag == Where([m1 |-> "m1.sig"], "none")
MCMoves == [t |-> {"m2", "ix"}] @@ ("m1.sig" :> {"s1", "s2"})
MCLegacyImages ==
  {[tag |-> "t", digest |-> "m2", index |-> None, arts |-> [s2 |-> "m1.sig"],
    seen |-> [complete |-> FALSE, checked |-> 0, last |-> 0]]}

----------------------------------------------------------------------------
(* Hugging Face: two manifests and two commits that share blobs.             *)
MCLayers == [m \in {"m1", "m2"} |-> IF m = "m1" THEN <<"x", "y">> ELSE <<"x", "z">>]
MCRepoFiles == [c \in {"c1", "c2"} |-> IF c = "c1" THEN <<"x", "p">> ELSE <<"p">>]

----------------------------------------------------------------------------
Init ==
  /\ area \in Areas
  /\ CollectInit
  /\ area # "collect" => eco = "npm" /\ request = CHOOSE r \in Locks : TRUE
  /\ PublishInit
  /\ area # "publish" => stream = "go"
  /\ OsInit
  /\ area # "os" => repoKind = "apt" /\ up = {<<"x", 1>>}
  /\ ConInit
  /\ area # "containers" => upTag.t = "m2" /\ upTag["m1.sig"] = "s1" /\ images = {}
  /\ HfInit
  /\ area # "hf" => hub.q4 = "m1" /\ hub.q8 = "m1" /\ hub.main = "c1"

Next ==
  /\ UNCHANGED area
  /\ \/ area = "collect" /\ CollectNext /\ UNCHANGED <<publishVars, osVars, conVars, hfVars>>
     \/ area = "publish" /\ PublishNext /\ UNCHANGED <<collectVars, osVars, conVars, hfVars>>
     \/ area = "os" /\ OsNext /\ UNCHANGED <<collectVars, publishVars, conVars, hfVars>>
     \/ area = "containers" /\ ConNext /\ UNCHANGED <<collectVars, publishVars, osVars, hfVars>>
     \/ area = "hf" /\ HfNext /\ UNCHANGED <<collectVars, publishVars, osVars, conVars>>

Spec == Init /\ [][Next]_all

----------------------------------------------------------------------------
(* All variables keep their types.                                           *)
EcosystemsTypeOK ==
  CollectTypeOK /\ PublishTypeOK /\ OsTypeOK /\ ConTypeOK /\ HfTypeOK
=============================================================================
