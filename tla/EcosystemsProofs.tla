-------------------------- MODULE EcosystemsProofs --------------------------
(***************************************************************************)
(* Proofs about a collect (Collect), for every upstream, every request and *)
(* every cap: its variables keep their types, the manifest it exports has   *)
(* no path twice and a file for each record, and what it exports is closed *)
(* but for what it reports or what the cap left; then the types of the     *)
(* content streams put together (MCEcosystems).                            *)
(*                                                                         *)
(* Three invariants carry them.  Staged says how far each phase has got.   *)
(* Unique says why the next file staged is a new one: each ecosystem's own *)
(* memory covers what it has staged (a release, a name, the head of what   *)
(* it chose), or the names left to fetch differ from those staged.         *)
(* Covered says that a want, once it has been on the list, is on it still, *)
(* or was settled: by a record staged or chosen, or by a report; and that  *)
(* the same is true of what the loop remembers, for which it will not look *)
(* again.                                                                  *)
(***************************************************************************)
EXTENDS MCEcosystems, RepositoryProofs, FiniteSetTheorems, FunctionTheorems

(* Nothing has been taken from the request yet.                              *)
Untouched ==
  \/ phase = "idle"
  \/ phase = "pins" /\ eco # "cran"
  \/ phase = "resolve" /\ eco \in {"npm", "maven"}

Staged ==
  /\ Untouched => queue = <<>> /\ picks = <<>> /\ pkgs = <<>> /\ files = <<>> /\ marks = {} /\ tried = {} /\ skipped = {}
  /\ phase = "idle" /\ eco = "cran" => rounds = 0
  /\ eco = "npm" => marks = {}
  /\ phase = "pins" => eco \in {"cran", "python", "go"} /\ (eco = "cran" => rounds < Len(request))
  /\ phase = "resolve" => eco # "go" /\ (eco \in {"crates", "conda"} => pkgs = <<>>)
  /\ phase = "download" => eco \in {"crates", "conda", "npm", "go"}
  /\ phase = "extras" => eco \in {"maven", "python"} /\ rounds <= Len(pkgs)
  /\ phase \in {"idle", "pins", "resolve"} /\ eco \in {"maven", "python"} => rounds = 0
  /\ picks # <<>> => phase \in {"download", "failed"} \/ (phase = "resolve" /\ eco \in {"crates", "conda"})

----------------------------------------------------------------------------
Signature(f) == <<f[1], IF f[2] = "file" THEN "file.sig" ELSE "sdist.sig">>

(* The files come first, in the order of the records, then signatures.       *)
Signed ==
  /\ Len(pkgs) <= Len(files)
  /\ \A i \in 1 .. Len(pkgs) : files[i][2] \in {"file", "sdist"}
  /\ \A i \in Len(pkgs) + 1 .. Len(files) :
       phase = "extras" /\ \E k \in 1 .. rounds : files[i] = Signature(files[k])

(* What is left to fetch has other names than what was fetched.              *)
NamesLeft ==
  /\ \A i, j \in DOMAIN queue : queue[i].name = queue[j].name => i = j
  /\ \A w \in Range(queue) : \A f \in Range(files) : f[1][1] = w.name => f[2] = "file"

Pinned(r, n) ==
  \E i \in 1 .. n : request[i].kind = "pin" /\ request[i].name = r[1] /\ request[i].accept = {r[2]}

Unique ==
  /\ {f[1] : f \in Range(files)} = Range(pkgs)
  /\ AskedOnce => DistinctPaths(files)
  /\ eco \in {"nuget", "composer", "helm"} => Range(pkgs) \subseteq marks
  /\ eco \in {"rubygems", "galaxy", "vsx", "snap", "cran"} => \A r \in Range(pkgs) : r[1] \in marks
  /\ eco \in {"crates", "conda", "npm"} => IsInjective(picks) /\ Range(picks) \cap Range(pkgs) = {}
  /\ eco = "crates" /\ phase = "resolve" => Range(picks) \subseteq marks
  /\ eco = "cran" /\ phase = "pins" => \A r \in Range(pkgs) : Pinned(r, rounds)
  /\ eco \in {"terraform", "python"} /\ phase = "resolve" /\ AskedOnce => NamesLeft
  /\ eco \in {"maven", "python"} /\ phase \in {"resolve", "extras"} => Signed

----------------------------------------------------------------------------
Held == Range(pkgs) \cup Range(picks)

Settled(w) == w.name \in skipped \/ \E r \in Held : Answers(w, r)

Met(w) == Settled(w) \/ w \in Left

(* A release, or a name, that the loop will not look at again.               *)
ByRelease == {"crates", "nuget", "composer", "helm", "terraform"}
Remembered(m) ==
  IF eco \in ByRelease THEN m \in Held \/ m[1] \in skipped
  ELSE m \in skipped \/ \E r \in Held : r[1] = m

Seeded == phase \in {"resolve", "download", "extras", "exported"} /\ ~Untouched

Covered ==
  /\ Seeded => \A w \in Range(request) : w.kind = "aux" \/ Met(w)
  /\ phase = "pins" /\ eco = "cran" => \A i \in 1 .. rounds : request[i].kind = "aux" \/ Met(request[i])
  /\ \A r \in Held : \A w \in Range(Followed(r)) : Met(w)
  /\ \A m \in marks : Remembered(m)
  /\ eco = "composer" => \A w \in tried : Met(w)

CollectInv == CollectTypeOK /\ Staged /\ Unique /\ Covered

----------------------------------------------------------------------------
(* The elements at some places of a sequence: the place with k places up to  *)
(* it is the k-th, and every number up to their count is such a k.           *)
UpTo(K, k) == {j \in K : j <= k}

LEMMA Ranks ==
  ASSUME NEW n \in Nat, NEW K \in SUBSET (1 .. n)
  PROVE  /\ IsFiniteSet(K) /\ Cardinality(K) \in Nat
         /\ \A k \in K : Cardinality(UpTo(K, k)) \in 1 .. Cardinality(K)
         /\ \A k, l \in K : Cardinality(UpTo(K, k)) = Cardinality(UpTo(K, l)) => k = l
         /\ \A i \in 1 .. Cardinality(K) : \E k \in K : Cardinality(UpTo(K, k)) = i
<1> DEFINE N == Cardinality(K)
           rank == [k \in K |-> Cardinality(UpTo(K, k))]
<1>1. IsFiniteSet(K) /\ N \in Nat
  <2>1. IsFiniteSet(1 .. n)
    BY FS_Interval
  <2> QED BY <2>1, FS_Subset, FS_CardinalityType
<1>2. ASSUME NEW k \in K
      PROVE  IsFiniteSet(UpTo(K, k)) /\ Cardinality(UpTo(K, k)) \in 1 .. N
  <2>1. UpTo(K, k) \in SUBSET K /\ UpTo(K, k) # {}
    BY DEF UpTo
  <2>2. IsFiniteSet(UpTo(K, k)) /\ Cardinality(UpTo(K, k)) <= N /\ Cardinality(UpTo(K, k)) \in Nat
    BY <1>1, <2>1, FS_Subset, FS_CardinalityType
  <2>3. Cardinality(UpTo(K, k)) # 0
    BY <2>1, <2>2, FS_EmptySet
  <2> QED BY <1>1, <2>2, <2>3
<1>3. ASSUME NEW k \in K, NEW l \in K, k < l
      PROVE  Cardinality(UpTo(K, k)) # Cardinality(UpTo(K, l))
  <2>0. \A j \in K : j \in Int
    OBVIOUS
  <2>1. UpTo(K, k) \in SUBSET UpTo(K, l) /\ l \in UpTo(K, l) /\ l \notin UpTo(K, k)
    <3>1. k \in Int /\ l \in Int /\ ~(l <= k) /\ l <= l /\ \A j \in Int : j <= k => j <= l
      BY <1>3, <2>0
    <3>2. \A j : j \in UpTo(K, k) => j \in UpTo(K, l)
      BY <2>0, <3>1 DEF UpTo
    <3> QED BY <3>1, <3>2 DEF UpTo
  <2>2. IsFiniteSet(UpTo(K, l))
    BY <1>2
  <2> QED BY <2>1, <2>2, FS_Subset
<1>4. \A k, l \in K : Cardinality(UpTo(K, k)) = Cardinality(UpTo(K, l)) => k = l
  <2> SUFFICES ASSUME NEW k \in K, NEW l \in K, k # l
               PROVE  Cardinality(UpTo(K, k)) # Cardinality(UpTo(K, l))
    OBVIOUS
  <2>1. k < l \/ l < k
    OBVIOUS
  <2> QED BY <1>3, <2>1
<1>5. rank \in Injection(K, 1 .. N)
  <2>1. rank \in [K -> 1 .. N]
    BY <1>2
  <2>2. \A k, l \in K : rank[k] = rank[l] => k = l
    BY <1>4
  <2> QED BY <2>1, <2>2 DEF Injection, IsInjective
<1>6. rank \in Surjection(K, 1 .. N)
  <2>1. IsFiniteSet(1 .. N) /\ Cardinality(1 .. N) = N
    BY <1>1, FS_Interval
  <2> QED BY <1>5, <2>1, FS_Injection
<1>7. \A i \in 1 .. N : \E k \in K : rank[k] = i
  BY <1>6 DEF Surjection
<1> QED BY <1>1, <1>2, <1>4, <1>7

LEMMA AtFacts ==
  ASSUME NEW S, NEW s \in Seq(S), NEW K \in SUBSET DOMAIN s
  PROVE  /\ At(s, K) \in Seq(S) /\ Range(At(s, K)) = {s[k] : k \in K} /\ Len(At(s, K)) \in Nat
         /\ (\A k, l \in K : s[k] = s[l] => k = l) => IsInjective(At(s, K))
<1> DEFINE N == Cardinality(K)
           place(i) == CHOOSE k \in K : Cardinality(UpTo(K, k)) = i
<1>1. DOMAIN s = 1 .. Len(s) /\ Len(s) \in Nat
  OBVIOUS
<1>2. /\ N \in Nat
      /\ \A k \in K : Cardinality(UpTo(K, k)) \in 1 .. N
      /\ \A k, l \in K : Cardinality(UpTo(K, k)) = Cardinality(UpTo(K, l)) => k = l
      /\ \A i \in 1 .. N : \E k \in K : Cardinality(UpTo(K, k)) = i
  BY ONLY <1>1, K \in SUBSET DOMAIN s, Ranks
<1>3. \A i \in 1 .. N : place(i) \in K /\ Cardinality(UpTo(K, place(i))) = i
  BY <1>2
<1>4. At(s, K) = [i \in 1 .. N |-> s[place(i)]]
  BY DEF At, UpTo
<1> HIDE DEF N, place
<1>5. \A i \in 1 .. N : s[place(i)] \in S
  BY <1>3
<1>6. At(s, K) \in Seq(S) /\ Len(At(s, K)) = N /\ DOMAIN At(s, K) = 1 .. N
  BY <1>2, <1>4, <1>5
<1>7. \A i \in 1 .. N : At(s, K)[i] = s[place(i)]
  BY <1>4
<1>8. Range(At(s, K)) = {s[k] : k \in K}
  <2>1. \A x \in Range(At(s, K)) : x \in {s[k] : k \in K}
    BY <1>3, <1>6, <1>7 DEF Range
  <2>2. \A k \in K : place(Cardinality(UpTo(K, k))) = k
    BY <1>2, <1>3
  <2>3. \A k \in K : s[k] \in Range(At(s, K))
    BY <1>2, <1>6, <1>7, <2>2 DEF Range
  <2> QED BY <2>1, <2>3
<1>9. ASSUME \A k, l \in K : s[k] = s[l] => k = l
      PROVE  IsInjective(At(s, K))
  <2>1. \A i, j \in 1 .. N : At(s, K)[i] = At(s, K)[j] => i = j
    BY <1>3, <1>7, <1>9
  <2> QED BY <1>6, <2>1 DEF IsInjective
<1> QED BY <1>2, <1>6, <1>8, <1>9

(* What is taken once is what there was.                                     *)
LEMMA OnceFacts ==
  ASSUME NEW S, NEW s \in Seq(S)
  PROVE  Once(s) \in Seq(S) /\ Range(Once(s)) = Range(s) /\ IsInjective(Once(s))
<1> DEFINE K == {i \in DOMAIN s : \A j \in 1 .. (i - 1) : s[j] # s[i]}
<1>1. DOMAIN s = 1 .. Len(s) /\ Len(s) \in Nat
  OBVIOUS
<1>2. Once(s) = At(s, K) /\ K \in SUBSET DOMAIN s
  BY DEF Once
<1>3. \A k, l \in K : s[k] = s[l] => k = l
  <2> SUFFICES ASSUME NEW k \in K, NEW l \in K, k # l PROVE s[k] # s[l]
    OBVIOUS
  <2>1. k \in 1 .. Len(s) /\ l \in 1 .. Len(s)
    BY <1>1
  <2>2. CASE k < l
    <3>1. k \in 1 .. (l - 1)
      BY <2>1, <2>2
    <3> QED BY <3>1
  <2>3. CASE l < k
    <3>1. l \in 1 .. (k - 1)
      BY <2>1, <2>3
    <3> QED BY <3>1
  <2> QED BY <2>1, <2>2, <2>3
<1>4. ASSUME NEW i \in DOMAIN s
      PROVE  \E k \in K : s[k] = s[i]
  <2> DEFINE E == {j \in DOMAIN s : s[j] = s[i]}
  <2>1. /\ IsFiniteSet(E) /\ Cardinality(E) \in Nat
        /\ \A k \in E : Cardinality(UpTo(E, k)) \in 1 .. Cardinality(E)
        /\ \A n \in 1 .. Cardinality(E) : \E k \in E : Cardinality(UpTo(E, k)) = n
    <3>1. E \in SUBSET (1 .. Len(s))
      BY <1>1
    <3> QED BY ONLY <1>1, <3>1, Ranks
  <2>2. 1 \in 1 .. Cardinality(E)
    <3>1. i \in E
      OBVIOUS
    <3>2. Cardinality(UpTo(E, i)) \in 1 .. Cardinality(E)
      BY <2>1, <3>1
    <3> QED BY <2>1, <3>2
  <2>3. PICK k \in E : Cardinality(UpTo(E, k)) = 1
    BY <2>1, <2>2
  <2>4. IsFiniteSet(UpTo(E, k)) /\ k \in UpTo(E, k)
    <3>1. UpTo(E, k) \in SUBSET E
      BY DEF UpTo
    <3>2. k \in UpTo(E, k)
      BY <1>1 DEF UpTo
    <3> QED BY <2>1, <3>1, <3>2, FS_Subset
  <2>5. \A x \in UpTo(E, k) : x = k
    BY <2>3, <2>4, FS_Singleton
  <2>6. \A j \in 1 .. (k - 1) : s[j] # s[k]
    <3> SUFFICES ASSUME NEW j \in 1 .. (k - 1), s[j] = s[k] PROVE FALSE
      OBVIOUS
    <3>1. j \in E /\ j <= k /\ j # k
      BY <1>1
    <3> QED BY <2>5, <3>1 DEF UpTo
  <2> QED BY <2>6
<1> HIDE DEF K
<1>5. Range(Once(s)) = Range(s)
  <2>1. Range(Once(s)) = {s[k] : k \in K}
    BY <1>2, AtFacts
  <2> QED BY <1>2, <1>4, <2>1 DEF Range
<1> QED BY <1>2, <1>3, <1>5, AtFacts

----------------------------------------------------------------------------
(* Wants, releases and requests.                                             *)
LEMMA WantFields ==
  \A w \in Wants : w.name \in PkgNames /\ w.accept \in SUBSET PkgVersions /\ w.kind \in Kinds
BY DEF Wants

(* A selection takes releases of the name, and for a candidate an accepted one. *)
Of(n) == {r \in PkgReleases : r[1] = n}

LEMMA CandidateFacts ==
  ASSUME CollectAssumption, NEW w \in Wants
  PROVE  Candidates(w) \subseteq Of(w.name) /\ \A r \in Candidates(w) : r[2] \in w.accept
<1>1. w.name \in PkgNames /\ Published[w.name] \in SUBSET PkgVersions
  BY WantFields DEF CollectAssumption
<1> QED BY <1>1 DEF Candidates, Of, PkgReleases

LEMMA AllFacts ==
  ASSUME CollectAssumption, NEW n \in PkgNames
  PROVE  {<<n, v>> : v \in Published[n]} \subseteq Of(n)
<1>1. Published[n] \in SUBSET PkgVersions
  BY DEF CollectAssumption
<1> QED BY <1>1 DEF Of, PkgReleases

LEMMA OfReleases == \A n : \A r \in Of(n) : r \in PkgReleases /\ r[1] = n
BY DEF Of

LEMMA GreatestIn == \A R : Greatest(R) \subseteq R /\ Least(R) \subseteq R /\ Stable(R) \subseteq R /\ StableFirst(R) \subseteq R
BY DEF Greatest, Least, Stable, StableFirst

(* What the loops select for a want.                                         *)
LEMMA SelectFacts ==
  ASSUME CollectAssumption, NEW w \in Wants
  PROVE  /\ selectCrateRelease(w) \subseteq Candidates(w) /\ selectNugetVersion(w) \subseteq Candidates(w)
         /\ composerSelectRelease(w) \subseteq Candidates(w) /\ composerSelectDependency(w) \subseteq Candidates(w)
         /\ selectGemLine(w) \subseteq Of(w.name) /\ resolveGalaxyVersion(w) \subseteq Of(w.name)
         /\ selectHelmChart(w) \subseteq Of(w.name) /\ pickCondaCandidate(w) \subseteq Of(w.name)
         /\ CranCurrent(w.name) \subseteq Of(w.name) /\ selectSnapChannel(w) \subseteq Of(w.name)
         /\ vsxFetchMetadata(w) \subseteq Of(w.name) /\ pickTfVersion(w) \subseteq Of(w.name)
         /\ selectPySDist(w) \subseteq Of(w.name)
<1> DEFINE A == {<<w.name, v>> : v \in Published[w.name]}
<1>1. Candidates(w) \subseteq Of(w.name) /\ A \subseteq Of(w.name)
  BY WantFields, CandidateFacts, AllFacts
<1>2. \A R : Greatest(Stable(R)) \subseteq R /\ Least(Stable(R)) \subseteq R
  BY GreatestIn
<1>3. selectCrateRelease(w) \subseteq Candidates(w) /\ selectNugetVersion(w) \subseteq Candidates(w)
  BY <1>2, GreatestIn DEF selectCrateRelease, selectNugetVersion
<1>4. composerSelectRelease(w) \subseteq Candidates(w) /\ composerSelectDependency(w) \subseteq Candidates(w)
  BY <1>2, GreatestIn DEF composerSelectRelease, composerSelectDependency
<1>5. /\ selectGemLine(w) \subseteq Of(w.name) /\ resolveGalaxyVersion(w) \subseteq Of(w.name)
      /\ selectHelmChart(w) \subseteq Of(w.name) /\ pickCondaCandidate(w) \subseteq Of(w.name)
      /\ selectPySDist(w) \subseteq Of(w.name) /\ pickTfVersion(w) \subseteq Of(w.name)
  BY <1>1, <1>2, GreatestIn DEF selectGemLine, resolveGalaxyVersion, selectHelmChart, pickCondaCandidate,
     selectPySDist, pickTfVersion
<1>6. CranCurrent(w.name) \subseteq Of(w.name) /\ selectSnapChannel(w) \subseteq Of(w.name) /\ vsxFetchMetadata(w) \subseteq Of(w.name)
  BY <1>1, GreatestIn DEF CranCurrent, selectSnapChannel, vsxFetchMetadata
<1> QED BY <1>3, <1>4, <1>5, <1>6

(* A newest release is one.                                                  *)
LEMMA CurrentIsOne ==
  ASSUME CollectAssumption, NEW n \in PkgNames
  PROVE  \A r, s \in CranCurrent(n) : r = s
<1>1. Published[n] \in SUBSET Nat
  BY DEF CollectAssumption
<1>2. \A r \in CranCurrent(n) : \E v \in Published[n] : r = <<n, v>>
  BY DEF CranCurrent, Greatest
<1>3. \A r, s \in CranCurrent(n) : r[2] <= s[2]
  BY DEF CranCurrent, Greatest
<1> SUFFICES ASSUME NEW r \in CranCurrent(n), NEW s \in CranCurrent(n) PROVE r = s
  OBVIOUS
<1>4. PICK v \in Published[n] : r = <<n, v>>
  BY <1>2
<1>5. PICK u \in Published[n] : s = <<n, u>>
  BY <1>2
<1>6. v <= u /\ u <= v /\ v \in Nat /\ u \in Nat
  BY <1>1, <1>3, <1>4, <1>5
<1> QED BY <1>4, <1>5, <1>6

(* Two releases of a name: they differ in their versions.                    *)
LEMMA ReleaseParts == \A r \in PkgReleases : r[1] \in PkgNames /\ r[2] \in PkgVersions /\ r = <<r[1], r[2]>>
BY DEF PkgReleases

LEMMA RequestFacts ==
  ASSUME CollectAssumption, CollectTypeOK
  PROVE  /\ request \in Seq(Wants) /\ request # <<>> /\ Len(request) \in Nat \ {0}
         /\ \A i \in 1 .. Len(request) : request[i] \in Wants /\ request[i].kind \in Asks(eco)
         /\ \A i \in 1 .. Len(request) : request[i].kind = "pin" => \E v \in PkgVersions : request[i].accept = {v}
         /\ \A i \in 1 .. Len(request) : request[i].kind = "latest" => request[i].accept = PkgVersions
         /\ eco \in {"maven", "python"} =>
              \A i, j \in 1 .. Len(request) :
                 request[i].kind = "pin" /\ request[j].kind = "pin" /\ request[i].name = request[j].name
                   /\ request[i].accept = request[j].accept => i = j
<1>1. WellAsked(eco, request)
  BY DEF CollectTypeOK, Collected, CollectAssumption
<1>2. /\ request \in Seq({w \in Wants : w.kind \in Asks(eco)}) /\ request # <<>>
  BY <1>1 DEF WellAsked
<1>3. DOMAIN request = 1 .. Len(request) /\ Len(request) \in Nat \ {0}
  BY <1>2
<1>4. \A i \in 1 .. Len(request) : request[i] \in Wants /\ request[i].kind \in Asks(eco)
  BY <1>2, <1>3
<1>5. request \in Seq(Wants)
  BY <1>2
<1>6. /\ \A i \in 1 .. Len(request) : request[i].kind = "pin" => \E v \in PkgVersions : request[i].accept = {v}
      /\ \A i \in 1 .. Len(request) : request[i].kind = "latest" => request[i].accept = PkgVersions
  BY <1>1, <1>3 DEF WellAsked
<1>7. eco \in {"maven", "python"} =>
        \A i, j \in 1 .. Len(request) :
           request[i].kind = "pin" /\ request[j].kind = "pin" /\ request[i].name = request[j].name
             /\ request[i].accept = request[j].accept => i = j
  BY <1>1, <1>3 DEF WellAsked
<1> QED BY <1>2, <1>3, <1>4, <1>5, <1>6, <1>7

----------------------------------------------------------------------------
(* What a release puts on the list.                                          *)
LEMMA RuntimeFacts ==
  ASSUME CollectAssumption, NEW r \in PkgReleases
  PROVE  /\ Requires[r] \in Seq(Wants) /\ Runtime(r) \in Seq(Wants)
         /\ Range(Runtime(r)) = {w \in Range(Requires[r]) : w.kind # "aux"}
<1> DEFINE s == Requires[r]
           K == {i \in DOMAIN s : s[i].kind # "aux"}
<1>1. s \in Seq({w \in Wants : w.kind \in {"range", "aux"}})
  BY DEF CollectAssumption, PkgReleases
<1>2. s \in Seq(Wants)
  BY <1>1
<1>3. Runtime(r) = At(s, K) /\ K \in SUBSET DOMAIN s
  BY DEF Runtime, Filter
<1> HIDE DEF K
<1>4. Runtime(r) \in Seq(Wants) /\ Range(Runtime(r)) = {s[k] : k \in K}
  BY <1>2, <1>3, AtFacts
<1>5. {s[k] : k \in K} = {w \in Range(s) : w.kind # "aux"}
  BY DEF K, Range
<1> QED BY <1>2, <1>4, <1>5

LEMMA MoreFacts ==
  ASSUME CollectAssumption, NEW r \in PkgReleases
  PROVE  /\ crateDepWants(r) = Runtime(r) /\ galaxyDepWants(r) = Runtime(r) /\ vsxRefWants(r) = Runtime(r)
         /\ nugetDepWants(r) \in Seq(Wants) /\ Range(nugetDepWants(r)) = Range(Runtime(r))
         /\ composerQueueDeps(r) \in Seq(Wants)
         /\ Range(composerQueueDeps(r)) = {w \in Range(Runtime(r)) : w \notin tried}
         /\ gemWants(r) \in Seq(Wants) /\ condaDepWants(r) \in Seq(Wants)
         /\ Range(gemWants(r)) = {w \in Range(Runtime(r)) : w.name \notin marks \cup {r[1]}}
         /\ Range(condaDepWants(r)) = {w \in Range(Runtime(r)) : w.name \notin marks \cup {r[1]}}
         /\ snapBaseWant(r) \in Seq(Wants)
<1> DEFINE s == Runtime(r)
           C == {i \in DOMAIN s : s[i] \notin tried}
           G == {i \in DOMAIN s : s[i].name \notin marks \cup {r[1]}}
<1>1. s \in Seq(Wants)
  BY RuntimeFacts
<1>2. composerQueueDeps(r) = At(s, C) /\ C \in SUBSET DOMAIN s
  BY DEF composerQueueDeps, Filter
<1>3. gemWants(r) = At(s, G) /\ condaDepWants(r) = At(s, G) /\ G \in SUBSET DOMAIN s
  BY DEF gemWants, condaDepWants, Filter
<1>4. {s[k] : k \in C} = {w \in Range(s) : w \notin tried}
  BY DEF Range
<1>5. {s[k] : k \in G} = {w \in Range(s) : w.name \notin marks \cup {r[1]}}
  BY DEF Range
<1> HIDE DEF C, G, s
<1>6. composerQueueDeps(r) \in Seq(Wants) /\ Range(composerQueueDeps(r)) = {s[k] : k \in C}
  BY <1>1, <1>2, AtFacts
<1>7. gemWants(r) \in Seq(Wants) /\ Range(gemWants(r)) = {s[k] : k \in G}
  BY <1>1, <1>3, AtFacts
<1>8. nugetDepWants(r) \in Seq(Wants) /\ Range(nugetDepWants(r)) = Range(s)
  BY <1>1, OnceFacts DEF nugetDepWants, s
<1>9. snapBaseWant(r) \in Seq(Wants)
  <2>1. CASE s = <<>>
    BY <1>1, <2>1 DEF snapBaseWant, s
  <2>2. CASE s # <<>>
    <3>1. Head(s) \in Wants
      BY <1>1, <2>2, TailRange
    <3> QED BY <2>2, <3>1 DEF snapBaseWant, s
  <2> QED BY <2>1, <2>2
<1> QED BY <1>3, <1>4, <1>5, <1>6, <1>7, <1>8, <1>9 DEF crateDepWants, galaxyDepWants, vsxRefWants, s

(* What is followed: runtime wants of the upstream's releases.               *)
LEMMA FollowedFacts ==
  ASSUME CollectAssumption, NEW r \in PkgReleases
  PROVE  Range(Followed(r)) \subseteq Range(Runtime(r))
<1>1. Range(<<>>) = {}
  BY NoRange
<1>2. Range(snapBaseWant(r)) \subseteq Range(Runtime(r))
  <2>1. Runtime(r) \in Seq(Wants)
    BY RuntimeFacts
  <2>2. CASE Runtime(r) = <<>>
    BY <2>2 DEF snapBaseWant
  <2>3. CASE Runtime(r) # <<>>
    <3>1. Head(Runtime(r)) \in Range(Runtime(r))
      BY <2>1, <2>3, TailRange
    <3>2. \A x \in Range(<<Head(Runtime(r))>>) : x = Head(Runtime(r))
      BY DEF Range
    <3> QED BY <2>3, <3>1, <3>2 DEF snapBaseWant
  <2> QED BY <2>2, <2>3
<1> QED BY <1>1, <1>2 DEF Followed

----------------------------------------------------------------------------
(* Sequences without repetition.                                             *)
LEMMA ConcatDistinct ==
  ASSUME NEW S, NEW s \in Seq(S), NEW t \in Seq(S), IsInjective(s), IsInjective(t), Range(s) \cap Range(t) = {}
  PROVE  IsInjective(s \o t)
<1>1. /\ s \o t \in Seq(S) /\ Len(s \o t) = Len(s) + Len(t) /\ Len(s) \in Nat /\ Len(t) \in Nat
      /\ \A i \in 1 .. Len(s) + Len(t) : (s \o t)[i] = IF i <= Len(s) THEN s[i] ELSE t[i - Len(s)]
      /\ DOMAIN s = 1 .. Len(s) /\ DOMAIN t = 1 .. Len(t) /\ DOMAIN (s \o t) = 1 .. Len(s) + Len(t)
  OBVIOUS
<1>2. ASSUME NEW i \in 1 .. Len(s) + Len(t), NEW j \in 1 .. Len(s) + Len(t), (s \o t)[i] = (s \o t)[j]
      PROVE  i = j
  <2>1. CASE i <= Len(s) /\ j <= Len(s)
    <3>1. i \in DOMAIN s /\ j \in DOMAIN s /\ s[i] = s[j]
      BY <1>1, <1>2, <2>1
    <3> QED BY <3>1 DEF IsInjective
  <2>2. CASE i > Len(s) /\ j > Len(s)
    <3>1. i - Len(s) \in DOMAIN t /\ j - Len(s) \in DOMAIN t /\ t[i - Len(s)] = t[j - Len(s)]
      BY <1>1, <1>2, <2>2
    <3>2. i - Len(s) = j - Len(s)
      BY <3>1 DEF IsInjective
    <3> QED BY <1>1, <3>2
  <2>3. CASE i <= Len(s) /\ j > Len(s)
    <3>1. i \in 1 .. Len(s) /\ j - Len(s) \in 1 .. Len(t) /\ s[i] = t[j - Len(s)]
      BY <1>1, <1>2, <2>3
    <3>2. s[i] \in Range(s) /\ t[j - Len(s)] \in Range(t)
      BY <3>1, RangeFacts
    <3> QED BY <3>1, <3>2
  <2>4. CASE i > Len(s) /\ j <= Len(s)
    <3>1. j \in 1 .. Len(s) /\ i - Len(s) \in 1 .. Len(t) /\ s[j] = t[i - Len(s)]
      BY <1>1, <1>2, <2>4
    <3>2. s[j] \in Range(s) /\ t[i - Len(s)] \in Range(t)
      BY <3>1, RangeFacts
    <3> QED BY <3>1, <3>2
  <2> QED BY <1>1, <2>1, <2>2, <2>3, <2>4
<1> QED BY <1>1, <1>2 DEF IsInjective

LEMMA AppendDistinct ==
  ASSUME NEW S, NEW s \in Seq(S), NEW x \in S, IsInjective(s), x \notin Range(s)
  PROVE  IsInjective(Append(s, x))
<1>1. /\ Append(s, x) \in Seq(S) /\ Len(Append(s, x)) = Len(s) + 1 /\ Len(s) \in Nat
      /\ Append(s, x)[Len(s) + 1] = x /\ \A i \in 1 .. Len(s) : Append(s, x)[i] = s[i] /\ s[i] \in Range(s)
      /\ DOMAIN s = 1 .. Len(s) /\ DOMAIN Append(s, x) = 1 .. Len(s) + 1
  BY AppendRange, RangeFacts
<1>2. ASSUME NEW i \in 1 .. Len(s) + 1, NEW j \in 1 .. Len(s) + 1, Append(s, x)[i] = Append(s, x)[j]
      PROVE  i = j
  <2>1. CASE i \in 1 .. Len(s) /\ j \in 1 .. Len(s)
    BY <1>1, <1>2, <2>1 DEF IsInjective
  <2>2. CASE ~(i \in 1 .. Len(s) /\ j \in 1 .. Len(s))
    <3>1. (i = Len(s) + 1 \/ i \in 1 .. Len(s)) /\ (j = Len(s) + 1 \/ j \in 1 .. Len(s))
      BY <1>1
    <3> QED BY <1>1, <1>2, <2>2, <3>1
  <2> QED BY <2>1, <2>2
<1> QED BY <1>1, <1>2 DEF IsInjective

LEMMA TailDistinct ==
  ASSUME NEW S, NEW s \in Seq(S), s # <<>>, IsInjective(s)
  PROVE  IsInjective(Tail(s)) /\ Head(s) \notin Range(Tail(s))
<1>1. /\ Len(s) \in Nat \ {0} /\ Tail(s) \in Seq(S) /\ Len(Tail(s)) = Len(s) - 1 /\ Head(s) = s[1]
      /\ \A i \in 1 .. Len(s) - 1 : Tail(s)[i] = s[i + 1]
      /\ DOMAIN s = 1 .. Len(s) /\ DOMAIN Tail(s) = 1 .. Len(s) - 1
  OBVIOUS
<1>2. ASSUME NEW i \in 1 .. Len(s) - 1, NEW j \in 1 .. Len(s) - 1, Tail(s)[i] = Tail(s)[j]
      PROVE  i = j
  <2>1. i + 1 \in DOMAIN s /\ j + 1 \in DOMAIN s /\ s[i + 1] = s[j + 1]
    BY <1>1, <1>2
  <2>2. i + 1 = j + 1
    BY <2>1 DEF IsInjective
  <2> QED BY <1>1, <2>2
<1>3. ASSUME NEW i \in 1 .. Len(s) - 1
      PROVE  Tail(s)[i] # Head(s)
  <2>1. i + 1 \in DOMAIN s /\ 1 \in DOMAIN s /\ i + 1 # 1
    BY <1>1
  <2> QED BY <1>1, <2>1 DEF IsInjective
<1> QED BY <1>1, <1>2, <1>3 DEF IsInjective, Range

(* The files of a release.                                                   *)
Filed(r, parts) == [i \in DOMAIN parts |-> <<r, parts[i]>>]

LEMMA FiledFacts ==
  ASSUME NEW r \in PkgReleases, NEW parts \in Seq(FileParts), parts # <<>>
  PROVE  /\ Filed(r, parts) \in Seq(PkgReleases \X FileParts) /\ {f[1] : f \in Range(Filed(r, parts))} = {r}
         /\ \A f \in Range(Filed(r, parts)) : \E k \in DOMAIN parts : f = <<r, parts[k]>>
         /\ Len(Filed(r, parts)) = Len(parts) /\ \A k \in 1 .. Len(parts) : Filed(r, parts)[k] = <<r, parts[k]>>
         /\ IsInjective(parts) => IsInjective(Filed(r, parts))
<1>1. DOMAIN parts = 1 .. Len(parts) /\ Len(parts) \in Nat \ {0} /\ \A k \in 1 .. Len(parts) : parts[k] \in FileParts
  OBVIOUS
<1>2. Filed(r, parts) \in Seq(PkgReleases \X FileParts) /\ Len(Filed(r, parts)) = Len(parts)
      /\ DOMAIN Filed(r, parts) = 1 .. Len(parts) /\ \A k \in 1 .. Len(parts) : Filed(r, parts)[k] = <<r, parts[k]>>
  BY <1>1 DEF Filed
<1>3. \A f \in Range(Filed(r, parts)) : \E k \in DOMAIN parts : f = <<r, parts[k]>>
  BY <1>1, <1>2 DEF Range
<1>4. {f[1] : f \in Range(Filed(r, parts))} = {r}
  <2>1. Filed(r, parts)[1] \in Range(Filed(r, parts)) /\ Filed(r, parts)[1][1] = r
    BY <1>1, <1>2 DEF Range
  <2>2. \A f \in Range(Filed(r, parts)) : f[1] = r
    BY <1>3
  <2> QED BY <2>1, <2>2
<1>5. IsInjective(parts) => IsInjective(Filed(r, parts))
  BY <1>1, <1>2 DEF IsInjective
<1> QED BY <1>2, <1>3, <1>4, <1>5

LEMMA StageFacts ==
  ASSUME CollectTypeOK, Unique, NEW r \in PkgReleases, NEW parts \in Seq(FileParts), parts # <<>>, IsInjective(parts),
         Stage(r, parts)
  PROVE  /\ pkgs' \in Seq(PkgReleases) /\ files' \in Seq(PkgReleases \X FileParts)
         /\ Range(pkgs') = Range(pkgs) \cup {r} /\ Range(files') = Range(files) \cup Range(Filed(r, parts))
         /\ {f[1] : f \in Range(files')} = Range(pkgs')
         /\ DistinctPaths(files) /\ (\A k \in DOMAIN parts : <<r, parts[k]>> \notin Range(files)) => DistinctPaths(files')
         /\ r \notin Range(pkgs) => \A k \in DOMAIN parts : <<r, parts[k]>> \notin Range(files)
<1>1. pkgs \in Seq(PkgReleases) /\ files \in Seq(PkgReleases \X FileParts) /\ {f[1] : f \in Range(files)} = Range(pkgs)
  BY DEF CollectTypeOK, Unique
<1>2. pkgs' = Append(pkgs, r) /\ files' = files \o Filed(r, parts)
  BY DEF Stage, Filed
<1>3. pkgs' \in Seq(PkgReleases) /\ Range(pkgs') = Range(pkgs) \cup {r}
  BY <1>1, <1>2, AppendRange
<1>4. Filed(r, parts) \in Seq(PkgReleases \X FileParts) /\ {f[1] : f \in Range(Filed(r, parts))} = {r}
      /\ IsInjective(Filed(r, parts)) /\ \A f \in Range(Filed(r, parts)) : \E k \in DOMAIN parts : f = <<r, parts[k]>>
  BY FiledFacts
<1>5. files' \in Seq(PkgReleases \X FileParts) /\ Range(files') = Range(files) \cup Range(Filed(r, parts))
  BY <1>1, <1>2, <1>4, ConcatRange
<1>6. {f[1] : f \in Range(files')} = Range(pkgs')
  BY <1>1, <1>3, <1>4, <1>5
<1>7. ASSUME DistinctPaths(files), \A k \in DOMAIN parts : <<r, parts[k]>> \notin Range(files)
      PROVE  DistinctPaths(files')
  <2>1. Range(files) \cap Range(Filed(r, parts)) = {}
    BY <1>4, <1>7
  <2> QED BY <1>1, <1>2, <1>4, <1>7, <2>1, ConcatDistinct DEF DistinctPaths
<1>8. ASSUME r \notin Range(pkgs) PROVE \A k \in DOMAIN parts : <<r, parts[k]>> \notin Range(files)
  <2>1. \A f \in Range(files) : f[1] \in Range(pkgs)
    BY <1>1
  <2>2. \A k \in DOMAIN parts : <<r, parts[k]>>[1] = r
    OBVIOUS
  <2> QED BY <1>8, <2>1, <2>2
<1> QED BY <1>3, <1>5, <1>6, <1>7, <1>8

----------------------------------------------------------------------------
(* A step forgets nothing: what was held is held or reported, what was on the *)
(* list is on it or settled, and what is new is settled or on the list.       *)
LEMMA MetStays ==
  ASSUME UNCHANGED <<eco, request>>, skipped \subseteq skipped',
         \A r \in Held : r \in Held' \/ r[1] \in skipped',
         \A w \in Left : (eco = "cran" /\ w.kind = "aux") \/ Met(w)',
         NEW w, Met(w), ~(eco = "cran" /\ w.kind = "aux")
  PROVE  Met(w)'
<1>1. CASE w \in Left
  BY <1>1
<1>2. CASE w.name \in skipped
  BY <1>2 DEF Met, Settled
<1>3. ASSUME NEW r \in Held, Answers(w, r) PROVE Met(w)'
  <2>1. r[1] = w.name /\ Answers(w, r)'
    BY <1>3 DEF Answers
  <2> QED BY <2>1 DEF Met, Settled
<1> QED BY <1>1, <1>2, <1>3 DEF Met, Settled

LEMMA Onward ==
  ASSUME CollectAssumption, CollectTypeOK, Covered, UNCHANGED <<eco, request>>, skipped \subseteq skipped',
         \A r \in Held : r \in Held' \/ r[1] \in skipped',
         \A w \in Left : (eco = "cran" /\ w.kind = "aux") \/ Met(w)',
         \A r \in Held' : r \in Held \/ \A w \in Range(Followed(r)) : Met(w)',
         \A m \in marks' : m \in marks \/ Remembered(m)',
         eco = "composer" => \A w \in tried' : w \in tried \/ Met(w)',
         Seeded' => Seeded \/ \A w \in Range(request) : w.kind = "aux" \/ Met(w)',
         phase' = "pins" /\ eco = "cran" =>
           \A i \in 1 .. rounds' : \/ phase = "pins" /\ i \in 1 .. rounds
                                   \/ request[i].kind = "aux" \/ Met(request[i])'
  PROVE  Covered'
<1>1. \A w : Met(w) /\ ~(eco = "cran" /\ w.kind = "aux") => Met(w)'
  BY MetStays
<1>2. ASSUME NEW m \in marks' PROVE Remembered(m)'
  <2>1. CASE m \in marks
    <3>1. Remembered(m)
      BY <2>1 DEF Covered
    <3>2. CASE eco \in ByRelease
      BY <3>1, <3>2 DEF Remembered
    <3>3. CASE eco \notin ByRelease
      <4>1. CASE m \in skipped
        BY <3>3, <4>1 DEF Remembered
      <4>2. ASSUME NEW r \in Held, r[1] = m PROVE Remembered(m)'
        BY <3>3, <4>2 DEF Remembered
      <4> QED BY <3>1, <3>3, <4>1, <4>2 DEF Remembered
    <3> QED BY <3>2, <3>3
  <2> QED BY <2>1
<1>3. \A r : Followed(r)' = Followed(r)
  BY DEF Followed
<1>4. Seeded' => \A w \in Range(request)' : w.kind = "aux" \/ Met(w)'
  BY <1>1 DEF Covered
<1>5. phase' = "pins" /\ eco' = "cran" => \A i \in 1 .. rounds' : request'[i].kind = "aux" \/ Met(request[i])'
  <2>1. phase = "pins" /\ eco = "cran" => \A i \in 1 .. rounds : request[i].kind = "aux" \/ Met(request[i])
    BY DEF Covered
  <2>2. \A i : Met(request[i]) /\ request[i].kind # "aux" => Met(request[i])'
    <3> SUFFICES ASSUME NEW i, Met(request[i]), request[i].kind # "aux" PROVE Met(request[i])'
      OBVIOUS
    <3>1. request'[i] = request[i]
      OBVIOUS
    <3> QED BY <1>1, <3>1
  <2> QED BY <2>1, <2>2
<1>6. \A r \in Held' : \A w \in Range(Followed(r))' : Met(w)'
  <2> SUFFICES ASSUME NEW r \in Held', NEW w \in Range(Followed(r)) PROVE Met(w)'
    BY <1>3 DEF Range
  <2>1. CASE r \in Held
    <3>1. Met(w)
      BY <2>1 DEF Covered
    <3>2. r \in PkgReleases
      BY <2>1, RangeFacts DEF Held, CollectTypeOK
    <3>3. w.kind # "aux"
      BY <3>2, FollowedFacts, RuntimeFacts
    <3> QED BY <1>1, <3>1, <3>3
  <2> QED BY <2>1
<1>7. eco' = "composer" => \A w \in tried' : Met(w)'
  BY <1>1 DEF Covered
<1> QED BY <1>2, <1>4, <1>5, <1>6, <1>7 DEF Covered

----------------------------------------------------------------------------
(* A step of a loop that takes the head of the list.                         *)
InLoop == phase = "resolve" /\ eco \notin {"npm", "maven"} /\ queue # <<>> /\ Unchanging

LEMMA HeadFacts ==
  ASSUME CollectTypeOK, queue # <<>>
  PROVE  /\ want \in Wants /\ want \in Range(queue) /\ Tail(queue) \in Seq(Wants)
         /\ Range(Tail(queue)) \subseteq Range(queue) /\ Range(queue) \subseteq {want} \cup Range(Tail(queue))
  BY TailRange DEF CollectTypeOK, want

LEMMA PopFacts ==
  ASSUME CollectTypeOK, queue # <<>>, NEW more \in Seq(Wants), Pop(more)
  PROVE  /\ queue' \in Seq(Wants) /\ Range(queue') = Range(Tail(queue)) \cup Range(more)
         /\ Range(queue) \subseteq {want} \cup Range(queue')
<1>1. Tail(queue) \in Seq(Wants) /\ Range(queue) \subseteq {want} \cup Range(Tail(queue))
  BY HeadFacts
<1>2. queue' = Tail(queue) \o more
  BY DEF Pop
<1>3. queue' \in Seq(Wants) /\ Range(queue') = Range(Tail(queue)) \cup Range(more)
  BY <1>1, <1>2, ConcatRange
<1> QED BY <1>1, <1>3

LEMMA PopNothing ==
  ASSUME CollectTypeOK, queue # <<>>, Pop(<<>>)
  PROVE  queue' = Tail(queue)
<1>1. Tail(queue) \in Seq(Wants)
  BY HeadFacts
<1> QED BY <1>1 DEF Pop

(* The typing of a loop's step, but for what it stages.                      *)
LEMMA LoopTyped ==
  ASSUME CollectTypeOK, InLoop, NEW more \in Seq(Wants), Pop(more), cache' \subseteq PkgNames \X BOOLEAN,
         skipped' \subseteq skipped \cup {want.name}, tried' \subseteq tried \cup Range(more),
         \A m \in marks' : m \in marks \/ (IF eco \in ByRelease THEN m \in PkgReleases ELSE m \in PkgNames),
         picks' \in Seq(PkgReleases), pkgs' \in Seq(PkgReleases), files' \in Seq(PkgReleases \X FileParts)
  PROVE  CollectTypeOK'
<1>1. want.name \in PkgNames /\ queue' \in Seq(Wants) /\ Range(more) \subseteq Wants
  BY PopFacts, HeadFacts, WantFields, RangeFacts DEF InLoop
<1>2. UNCHANGED <<eco, request, phase, rounds>>
  BY DEF InLoop, Unchanging
<1>3. skipped' \subseteq PkgNames /\ tried' \subseteq Wants
  BY <1>1 DEF CollectTypeOK
<1>4. marks' \subseteq IF eco' \in {"crates", "nuget", "composer", "helm", "terraform"} THEN PkgReleases ELSE PkgNames
  BY <1>2 DEF CollectTypeOK, ByRelease
<1> QED BY <1>1, <1>2, <1>3, <1>4 DEF CollectTypeOK

LEMMA LoopStaged ==
  ASSUME Staged, InLoop,
         IF eco \in {"crates", "conda"} THEN pkgs' = pkgs ELSE picks' = picks
  PROVE  Staged'
<1>1. UNCHANGED <<eco, request, phase, rounds>> /\ phase = "resolve" /\ eco \notin {"npm", "maven"}
  BY DEF InLoop, Unchanging
<1>2. ~Untouched'
  BY <1>1 DEF Untouched
<1> QED BY <1>1, <1>2 DEF Staged

LEMMA LoopCovered ==
  ASSUME CollectAssumption, CollectTypeOK, Covered, InLoop, NEW more \in Seq(Wants), Pop(more),
         \A w : w = want => (eco = "cran" /\ w.kind = "aux") \/ Met(w)',
         tried \subseteq tried', skipped \subseteq skipped', Held \subseteq Held',
         \A r \in Held' : r \in Held \/ \A w \in Range(Followed(r)) : Met(w)',
         \A m \in marks' : m \in marks \/ Remembered(m)',
         eco = "composer" => \A w \in tried' : w \in tried \/ Met(w)'
  PROVE  Covered'
<1>1. UNCHANGED <<eco, request, phase, rounds>> /\ phase = "resolve"
  BY DEF InLoop, Unchanging
<1>2. Range(queue) \subseteq {want} \cup Range(queue')
  BY PopFacts DEF InLoop
<1>3. \A w \in Left : w = want \/ w \in Left'
  BY <1>1, <1>2 DEF Left
<1>4. ASSUME NEW w \in Left PROVE (eco = "cran" /\ w.kind = "aux") \/ Met(w)'
  <2>1. CASE w \in Left'
    BY <2>1 DEF Met
  <2>2. CASE w = want
    BY <2>2
  <2> QED BY <1>3, <2>1, <2>2
<1>5. Seeded' => Seeded
  BY <1>1 DEF Seeded, Untouched
<1> QED BY <1>1, <1>4, <1>5, Onward

(* A step that stages nothing.                                               *)
LEMMA LoopUnique ==
  ASSUME CollectTypeOK, Unique, InLoop, NEW more \in Seq(Wants), Pop(more),
         UNCHANGED <<content, picks>>, marks \subseteq marks',
         eco \in {"terraform", "python"} => more = <<>>
  PROVE  Unique'
<1>1. UNCHANGED <<eco, request, phase, rounds, pkgs, files, picks>> /\ phase = "resolve" /\ queue # <<>>
  BY DEF InLoop, Unchanging, content
<1>2. AskedOnce' = AskedOnce /\ DistinctPaths(files)' = DistinctPaths(files) /\ Signed' = Signed
  BY <1>1 DEF AskedOnce, DistinctPaths, Signed
<1>3. eco \in {"terraform", "python"} /\ AskedOnce => NamesLeft'
  <2> SUFFICES ASSUME eco \in {"terraform", "python"}, AskedOnce PROVE NamesLeft'
    OBVIOUS
  <2>1. queue' = Tail(queue) /\ NamesLeft
    BY <1>1, PopNothing DEF Unique
  <2>2. /\ queue \in Seq(Wants) /\ Len(queue) \in Nat \ {0} /\ Len(Tail(queue)) = Len(queue) - 1 /\ Tail(queue) \in Seq(Wants)
        /\ \A i \in 1 .. Len(queue) - 1 : Tail(queue)[i] = queue[i + 1]
        /\ DOMAIN queue = 1 .. Len(queue) /\ DOMAIN Tail(queue) = 1 .. Len(queue) - 1
    BY <1>1 DEF CollectTypeOK
  <2>3. ASSUME NEW i \in DOMAIN queue', NEW j \in DOMAIN queue', queue'[i].name = queue'[j].name PROVE i = j
    <3>1. i + 1 \in DOMAIN queue /\ j + 1 \in DOMAIN queue /\ queue[i + 1].name = queue[j + 1].name
      BY <2>1, <2>2, <2>3
    <3>2. i + 1 = j + 1
      BY <2>1, <3>1 DEF NamesLeft
    <3> QED BY <2>1, <2>2, <3>2
  <2>4. Range(queue') \subseteq Range(queue)
    BY <1>1, <2>1, HeadFacts
  <2> QED BY <1>1, <2>1, <2>3, <2>4 DEF NamesLeft
<1> QED BY <1>1, <1>2, <1>3 DEF Unique

(* The head is settled already.                                              *)
LEMMA LoopDrop ==
  ASSUME CollectAssumption, CollectInv, InLoop, Pop(<<>>), UNCHANGED <<marks, tried, picks, content, skipped>>,
         cache' \subseteq PkgNames \X BOOLEAN, Settled(want) \/ (eco = "cran" /\ want.kind = "aux")
  PROVE  CollectInv'
<1>1. UNCHANGED <<eco, request, phase, rounds, marks, tried, picks, pkgs, files, skipped>>
  BY DEF InLoop, Unchanging, content
<1>2. <<>> \in Seq(Wants)
  OBVIOUS
<1>3. Held' = Held
  BY <1>1 DEF Held
<1>4. ASSUME NEW w, w = want PROVE (eco = "cran" /\ w.kind = "aux") \/ Met(w)'
  BY <1>1, <1>3, <1>4 DEF Met, Settled, Answers
<1>5. CollectTypeOK'
  BY <1>1, <1>2, LoopTyped DEF CollectInv, CollectTypeOK
<1>6. Staged'
  BY <1>1, LoopStaged DEF CollectInv
<1>7. Unique'
  BY <1>1, <1>2, LoopUnique DEF CollectInv
<1>8. Covered'
  BY <1>1, <1>2, <1>3, <1>4, LoopCovered DEF CollectInv
<1> QED BY <1>5, <1>6, <1>7, <1>8 DEF CollectInv

(* The head cannot be had: it is reported, and may be remembered.             *)
LEMMA LoopReport ==
  ASSUME CollectAssumption, CollectInv, InLoop, Report, UNCHANGED <<tried, picks, content>>,
         cache' \subseteq PkgNames \X BOOLEAN, marks \subseteq marks',
         \A m \in marks' : \/ m \in marks
                           \/ IF eco \in ByRelease THEN m \in PkgReleases /\ m[1] = want.name ELSE m = want.name
  PROVE  CollectInv'
<1>1. UNCHANGED <<eco, request, phase, rounds, tried, picks, pkgs, files>> /\ skipped' = skipped \cup {want.name} /\ Pop(<<>>)
  BY DEF InLoop, Unchanging, content, Report
<1>2. <<>> \in Seq(Wants) /\ want.name \in PkgNames
  BY HeadFacts, WantFields DEF CollectInv, InLoop
<1>3. Held' = Held
  BY <1>1 DEF Held
<1>4. ASSUME NEW w, w = want PROVE Met(w)'
  BY <1>1, <1>4 DEF Met, Settled
<1>5. CollectTypeOK'
  BY <1>1, <1>2, LoopTyped DEF CollectInv, CollectTypeOK
<1>6. Staged'
  BY <1>1, LoopStaged DEF CollectInv
<1>7. Unique'
  BY <1>1, <1>2, LoopUnique DEF CollectInv
<1>8. \A m \in marks' : m \in marks \/ Remembered(m)'
  BY <1>1 DEF Remembered
<1>9. Covered'
  BY <1>1, <1>2, <1>3, <1>4, <1>8, LoopCovered DEF CollectInv
<1> QED BY <1>5, <1>6, <1>7, <1>9 DEF CollectInv

(* A release is staged for the head, and what it requires goes on the list.   *)
LEMMA LoopStage ==
  ASSUME CollectAssumption, CollectInv, InLoop, eco \notin {"crates", "conda"},
         NEW r \in PkgReleases, Answers(want, r),
         NEW parts \in Seq(FileParts), parts # <<>>, IsInjective(parts), Stage(r, parts),
         AskedOnce => \A k \in DOMAIN parts : <<r, parts[k]>> \notin Range(files),
         NEW more \in Seq(Wants), Pop(more), UNCHANGED <<picks, skipped>>,
         cache' \subseteq PkgNames \X BOOLEAN,
         \A w \in Range(Followed(r)) : w \in Range(more) \/ Met(w) \/ Answers(w, r),
         marks \subseteq marks',
         \A m \in marks' : m \in marks \/ m = IF eco \in ByRelease THEN r ELSE r[1],
         eco \in {"nuget", "composer", "helm"} => r \in marks',
         eco \in {"rubygems", "galaxy", "vsx", "snap", "cran"} => r[1] \in marks',
         tried \subseteq tried', tried' \subseteq tried \cup Range(more),
         eco \in {"terraform", "python"} => more = <<>>,
         eco = "python" => parts = <<"sdist">>
  PROVE  CollectInv'
<1> DEFINE F == PkgReleases \X FileParts
<1>1. UNCHANGED <<eco, request, phase, rounds, picks, skipped>> /\ phase = "resolve" /\ eco \notin {"npm", "maven"} /\ queue # <<>>
  BY DEF InLoop, Unchanging
<1>2. /\ pkgs' \in Seq(PkgReleases) /\ files' \in Seq(F) /\ {f[1] : f \in Range(files')} = Range(pkgs')
      /\ Range(pkgs') = Range(pkgs) \cup {r} /\ Range(files') = Range(files) \cup Range(Filed(r, parts))
      /\ DistinctPaths(files) /\ (\A k \in DOMAIN parts : <<r, parts[k]>> \notin Range(files)) => DistinctPaths(files')
  BY StageFacts DEF CollectInv
<1>3. Held' = Held \cup {r} /\ r[1] = want.name
  BY <1>1, <1>2 DEF Held, Answers
<1>4. queue' \in Seq(Wants) /\ Range(queue') = Range(Tail(queue)) \cup Range(more) /\ Range(queue) \subseteq {want} \cup Range(queue')
  BY <1>1, PopFacts DEF CollectInv
<1>5. ASSUME NEW w, Answers(w, r) PROVE Met(w)'
  BY <1>1, <1>3, <1>5 DEF Met, Settled, Answers
<1>6. ASSUME NEW w \in Left PROVE w = want \/ w \in Left'
  BY <1>1, <1>4 DEF Left
<1>7. ASSUME NEW w, Met(w) PROVE Met(w)'
  <2>1. CASE w \in Left
    BY <1>5, <1>6, <2>1 DEF Met
  <2>2. CASE Settled(w)
    BY <1>1, <1>3, <2>2 DEF Met, Settled, Answers
  <2> QED BY <1>7, <2>1, <2>2 DEF Met
<1>8. \A w \in Range(more) : Met(w)'
  BY <1>1, <1>4 DEF Met, Left
<1>9. \A x \in Held' : x \in Held \/ \A w \in Range(Followed(x)) : Met(w)'
  BY <1>3, <1>5, <1>7, <1>8
<1>10. \A m \in marks' : m \in marks \/ Remembered(m)'
  BY <1>1, <1>3 DEF Remembered
<1>11. Covered'
  BY <1>1, <1>3, <1>5, <1>8, <1>9, <1>10, LoopCovered DEF CollectInv
<1>12. Staged'
  BY <1>1, LoopStaged DEF CollectInv
<1>13. CollectTypeOK'
  <2>1. \A m \in marks' : m \in marks \/ (IF eco \in ByRelease THEN m \in PkgReleases ELSE m \in PkgNames)
    BY ReleaseParts
  <2>2. picks' \in Seq(PkgReleases)
    BY <1>1 DEF CollectInv, CollectTypeOK
  <2> QED BY <1>1, <1>2, <2>1, <2>2, LoopTyped DEF CollectInv
<1>14. AskedOnce' = AskedOnce
  BY <1>1 DEF AskedOnce
<1>15. eco \in {"terraform", "python"} /\ AskedOnce => NamesLeft'
  <2> SUFFICES ASSUME eco \in {"terraform", "python"}, AskedOnce PROVE NamesLeft'
    OBVIOUS
  <2>1. queue' = Tail(queue) /\ NamesLeft
    BY <1>1, PopNothing DEF Unique, CollectInv
  <2>2. /\ queue \in Seq(Wants) /\ Len(queue) \in Nat \ {0} /\ Len(Tail(queue)) = Len(queue) - 1 /\ Tail(queue) \in Seq(Wants)
        /\ \A i \in 1 .. Len(queue) - 1 : Tail(queue)[i] = queue[i + 1]
        /\ DOMAIN queue = 1 .. Len(queue) /\ DOMAIN Tail(queue) = 1 .. Len(queue) - 1 /\ want = queue[1]
    BY <1>1 DEF CollectTypeOK, CollectInv, want
  <2>3. ASSUME NEW i \in DOMAIN queue', NEW j \in DOMAIN queue', queue'[i].name = queue'[j].name PROVE i = j
    <3>1. i + 1 \in DOMAIN queue /\ j + 1 \in DOMAIN queue /\ queue[i + 1].name = queue[j + 1].name
      BY <2>1, <2>2, <2>3
    <3>2. i + 1 = j + 1
      BY <2>1, <3>1 DEF NamesLeft
    <3> QED BY <2>1, <2>2, <3>2
  <2>4. ASSUME NEW w \in Range(queue') PROVE w \in Range(queue) /\ w.name # r[1]
    <3>1. PICK i \in 1 .. Len(queue) - 1 : w = queue[i + 1]
      BY <2>1, <2>2 DEF Range
    <3>2. i + 1 \in DOMAIN queue /\ 1 \in DOMAIN queue /\ i + 1 # 1
      BY <2>2
    <3>3. queue[i + 1].name # queue[1].name
      BY <2>1, <3>2 DEF NamesLeft
    <3> QED BY <1>3, <2>2, <3>1, <3>2, <3>3 DEF Range
  <2>5. \A f \in Range(Filed(r, parts)) : f[1] = r
    BY FiledFacts
  <2> QED BY <1>2, <2>1, <2>3, <2>4, <2>5 DEF NamesLeft
<1>16. eco = "python" => Signed'
  <2> SUFFICES ASSUME eco = "python" PROVE Signed'
    OBVIOUS
  <2>1. Signed /\ pkgs \in Seq(PkgReleases) /\ files \in Seq(F)
    BY <1>1 DEF CollectInv, Unique, CollectTypeOK
  <2>2. Len(files) = Len(pkgs) /\ Len(pkgs) \in Nat
    <3>1. Len(files) \in Nat /\ Len(pkgs) \in Nat
      BY <2>1
    <3>2. Len(pkgs) <= Len(files) /\ \A i \in Len(pkgs) + 1 .. Len(files) : FALSE
      BY <1>1, <2>1 DEF Signed
    <3>3. Len(files) > Len(pkgs) => Len(files) \in Len(pkgs) + 1 .. Len(files)
      BY <3>1
    <3>4. ~(Len(files) > Len(pkgs))
      BY <3>2, <3>3
    <3> QED BY <3>1, <3>2, <3>4
  <2>3. Filed(r, parts) = <<<<r, "sdist">>>> /\ <<r, "sdist">> \in F
    BY DEF Filed, FileParts
  <2>4. pkgs' = Append(pkgs, r) /\ files' = Append(files, <<r, "sdist">>)
    BY <2>1, <2>3 DEF Stage, Filed
  <2>5. Len(pkgs') = Len(pkgs) + 1 /\ Len(files') = Len(pkgs) + 1 /\ files'[Len(pkgs) + 1] = <<r, "sdist">>
        /\ \A i \in 1 .. Len(pkgs) : files'[i] = files[i]
    BY <2>1, <2>2, <2>3, <2>4, AppendRange
  <2>6. \A i \in 1 .. Len(pkgs) + 1 : i \in 1 .. Len(pkgs) \/ i = Len(pkgs) + 1
    BY <2>2
  <2>7. \A i \in 1 .. Len(pkgs) + 1 : files'[i][2] \in {"file", "sdist"}
    BY <2>1, <2>5, <2>6 DEF Signed
  <2> QED BY <2>2, <2>5, <2>7 DEF Signed
<1>17. Unique'
  <2>1. AskedOnce' => DistinctPaths(files)'
    BY <1>2, <1>14 DEF CollectInv, Unique, DistinctPaths
  <2>2. eco' \in {"nuget", "composer", "helm"} => Range(pkgs)' \subseteq marks'
    BY <1>1, <1>2 DEF CollectInv, Unique
  <2>3. eco' \in {"rubygems", "galaxy", "vsx", "snap", "cran"} => \A x \in Range(pkgs)' : x[1] \in marks'
    BY <1>1, <1>2 DEF CollectInv, Unique
  <2>4. {f[1] : f \in Range(files)}' = Range(pkgs)'
    BY <1>2
  <2> QED BY <1>1, <1>14, <1>15, <1>16, <2>1, <2>2, <2>3, <2>4 DEF Unique
<1> QED BY <1>11, <1>12, <1>13, <1>17 DEF CollectInv

(* A release is chosen for the head, to be downloaded later (Cargo, Conda).   *)
LEMMA LoopPick ==
  ASSUME CollectAssumption, CollectInv, InLoop, eco \in {"crates", "conda"},
         NEW r \in PkgReleases, Answers(want, r),
         picks' = IF r \in Range(picks) THEN picks ELSE Append(picks, r),
         NEW more \in Seq(Wants), Pop(more), UNCHANGED <<tried, content, skipped>>,
         cache' \subseteq PkgNames \X BOOLEAN,
         \A w \in Range(Followed(r)) : w \in Range(more) \/ Met(w) \/ Answers(w, r),
         marks' = marks \cup {IF eco \in ByRelease THEN r ELSE r[1]}
  PROVE  CollectInv'
<1>1. UNCHANGED <<eco, request, phase, rounds, pkgs, files, tried, skipped>> /\ phase = "resolve" /\ queue # <<>>
      /\ pkgs = <<>> /\ picks \in Seq(PkgReleases) /\ Range(pkgs) = {}
  <2>1. pkgs = <<>> /\ Range(<<>>) = {}
    BY NoRange DEF InLoop, CollectInv, Staged
  <2> QED BY <2>1 DEF InLoop, Unchanging, content, CollectInv, CollectTypeOK
<1>2. picks' \in Seq(PkgReleases) /\ Range(picks') = Range(picks) \cup {r} /\ IsInjective(picks')
  <2>1. IsInjective(picks)
    BY DEF CollectInv, Unique
  <2> QED BY <1>1, <2>1, AppendRange, AppendDistinct
<1>3. Held' = Held \cup {r} /\ r[1] = want.name
  BY <1>1, <1>2 DEF Held, Answers
<1>4. queue' \in Seq(Wants) /\ Range(queue') = Range(Tail(queue)) \cup Range(more) /\ Range(queue) \subseteq {want} \cup Range(queue')
  BY <1>1, PopFacts DEF CollectInv
<1>5. ASSUME NEW w, Answers(w, r) PROVE Met(w)'
  BY <1>1, <1>3, <1>5 DEF Met, Settled, Answers
<1>6. ASSUME NEW w \in Left PROVE w = want \/ w \in Left'
  BY <1>1, <1>4 DEF Left
<1>7. ASSUME NEW w, Met(w) PROVE Met(w)'
  <2>1. CASE w \in Left
    BY <1>5, <1>6, <2>1 DEF Met
  <2>2. CASE Settled(w)
    BY <1>1, <1>3, <2>2 DEF Met, Settled, Answers
  <2> QED BY <1>7, <2>1, <2>2 DEF Met
<1>8. \A w \in Range(more) : Met(w)'
  BY <1>1, <1>4 DEF Met, Left
<1>9. \A x \in Held' : x \in Held \/ \A w \in Range(Followed(x)) : Met(w)'
  BY <1>3, <1>5, <1>7, <1>8
<1>10. \A m \in marks' : m \in marks \/ Remembered(m)'
  BY <1>1, <1>3 DEF Remembered
<1>11. Covered'
  BY <1>1, <1>3, <1>5, <1>8, <1>9, <1>10, LoopCovered DEF CollectInv
<1>12. Staged'
  BY <1>1, LoopStaged DEF CollectInv
<1>13. CollectTypeOK'
  <2>1. \A m \in marks' : m \in marks \/ (IF eco \in ByRelease THEN m \in PkgReleases ELSE m \in PkgNames)
    BY ReleaseParts
  <2>2. pkgs' \in Seq(PkgReleases) /\ files' \in Seq(PkgReleases \X FileParts) /\ tried' \subseteq tried \cup Range(more)
    BY <1>1 DEF CollectInv, CollectTypeOK
  <2> QED BY <1>1, <1>2, <2>1, <2>2, LoopTyped DEF CollectInv
<1>14. AskedOnce' = AskedOnce
  BY <1>1 DEF AskedOnce
<1>15. eco = "crates" => Range(picks') \subseteq marks'
  BY <1>1, <1>2 DEF CollectInv, Unique, ByRelease
<1>16. Unique'
  BY <1>1, <1>2, <1>14, <1>15 DEF CollectInv, Unique, DistinctPaths
<1> QED BY <1>11, <1>12, <1>13, <1>16 DEF CollectInv

----------------------------------------------------------------------------
(* What the loops remember settles a want.                                   *)
LEMMA MarkSettles ==
  ASSUME CollectInv, eco \in ByRelease, NEW w, NEW r \in marks, r[1] = w.name,
         eco \in {"crates", "nuget", "composer"} => r[2] \in w.accept
  PROVE  Settled(w)
<1>1. r \in Held \/ r[1] \in skipped
  BY DEF CollectInv, Covered, Remembered
<1>2. Answers(w, r)
  BY DEF Answers, ByRelease
<1> QED BY <1>1, <1>2 DEF Settled

LEMMA NameSettles ==
  ASSUME CollectInv, eco \notin ByRelease, eco # "go", NEW w, w.name \in marks
  PROVE  Settled(w)
<1>1. w.name \in skipped \/ \E r \in Held : r[1] = w.name
  BY DEF CollectInv, Covered, Remembered
<1>2. \A r : r[1] = w.name => Answers(w, r)
  BY DEF Answers, ByRelease
<1> QED BY <1>1, <1>2 DEF Settled

LEMMA KnownTyped ==
  ASSUME CollectTypeOK, want.name \in PkgNames, NEW u,
         cache' = cache \cup {<<n, TRUE>> : n \in {m \in {want.name} : Listable(m, u)}}
  PROVE  cache' \subseteq PkgNames \X BOOLEAN
<1>1. \A n \in {m \in {want.name} : Listable(m, u)} : <<n, TRUE>> \in PkgNames \X BOOLEAN
  OBVIOUS
<1>2. {<<n, TRUE>> : n \in {m \in {want.name} : Listable(m, u)}} \subseteq PkgNames \X BOOLEAN
  BY <1>1
<1> QED BY <1>2 DEF CollectTypeOK

(* Cargo.                                                                    *)
LEMMA CratesAdvances ==
  ASSUME CollectAssumption, CollectInv, NEW u \in BOOLEAN, CratesResolve(u)
  PROVE  CollectInv'
<1> DEFINE got == IF Listable(want.name, u) THEN selectCrateRelease(want) ELSE {}
<1>1. InLoop /\ eco = "crates" /\ eco \in ByRelease
  BY DEF CratesResolve, Working, InLoop, ByRelease
<1>2. want \in Wants /\ want.name \in PkgNames /\ cache \subseteq PkgNames \X BOOLEAN
  BY <1>1, HeadFacts, WantFields DEF InLoop, CollectInv, CollectTypeOK
<1>3. got \subseteq Candidates(want) /\ \A r \in got : r \in PkgReleases /\ r[1] = want.name /\ r[2] \in want.accept
  <2>1. got \subseteq Candidates(want)
    BY <1>2, SelectFacts
  <2> QED BY <1>2, <2>1, CandidateFacts, OfReleases
<1>4. CASE crateSatisfied(want) /\ Drop
  <2>1. PICK v \in want.accept : <<want.name, v>> \in marks
    BY <1>4 DEF crateSatisfied
  <2>2. Settled(want)
    BY <1>1, <2>1, MarkSettles
  <2> QED BY <1>1, <1>2, <1>4, <2>2, LoopDrop DEF Drop
<1> DEFINE known == {<<n, TRUE>> : n \in {m \in {want.name} : Listable(m, u)}}
<1>5. CASE /\ got \subseteq marks
           /\ IF got = {} THEN Report ELSE Pop(<<>>) /\ UNCHANGED skipped
           /\ cache' = cache \cup known
           /\ UNCHANGED <<marks, tried, picks, content>>
  <2>1. cache' \subseteq PkgNames \X BOOLEAN
    BY <1>2, <1>5, KnownTyped DEF CollectInv
  <2> HIDE DEF known
  <2>2. CASE got = {}
    BY <1>1, <1>5, <2>1, <2>2, LoopReport
  <2>3. CASE got # {}
    <3>1. PICK r \in got : TRUE
      BY <2>3
    <3>2. Settled(want)
      BY <1>1, <1>3, <1>5, <3>1, MarkSettles
    <3> QED BY <1>1, <1>5, <2>1, <2>3, <3>2, LoopDrop
  <2> QED BY <2>2, <2>3
<1>6. CASE /\ \E r \in got \ marks : /\ marks' = marks \cup {r}
                                     /\ picks' = Append(picks, r)
                                     /\ Pop(crateDepWants(r))
           /\ cache' = cache \cup {<<want.name, TRUE>>}
           /\ UNCHANGED <<tried, content, skipped>>
  <2>1. PICK r \in got \ marks : marks' = marks \cup {r} /\ picks' = Append(picks, r) /\ Pop(crateDepWants(r))
    BY <1>6
  <2>2. r \in PkgReleases /\ Answers(want, r)
    BY <1>3, <2>1 DEF Answers
  <2>3. crateDepWants(r) \in Seq(Wants) /\ Range(Followed(r)) \subseteq Range(crateDepWants(r))
    BY <2>2, MoreFacts, RuntimeFacts, FollowedFacts
  <2>4. r \notin Range(picks)
    <3>1. Range(picks) \subseteq marks
      BY <1>1 DEF CollectInv, Unique, InLoop, Unchanging
    <3> QED BY <2>1, <3>1
  <2>5. cache' \subseteq PkgNames \X BOOLEAN
    <3>1. cache' = cache \cup {<<want.name, TRUE>>}
      BY <1>6
    <3>2. <<want.name, TRUE>> \in PkgNames \X BOOLEAN
      BY <1>2
    <3> QED BY <1>2, <3>1, <3>2
  <2>6. UNCHANGED <<tried, content, skipped>> /\ eco \in {"crates", "conda"}
    BY <1>1, <1>6
  <2>7. picks' = IF r \in Range(picks) THEN picks ELSE Append(picks, r)
    BY <2>1, <2>4
  <2>8. marks' = marks \cup {IF eco \in ByRelease THEN r ELSE r[1]}
    BY <1>1, <2>1
  <2>9. \A w \in Range(Followed(r)) : w \in Range(crateDepWants(r)) \/ Met(w) \/ Answers(w, r)
    BY <2>3
  <2> QED BY <1>1, <2>1, <2>2, <2>3, <2>5, <2>6, <2>7, <2>8, <2>9, LoopPick
<1> QED BY <1>4, <1>5, <1>6 DEF CratesResolve

(* The parts of a release.                                                   *)
Partition(parts) == parts \in Seq(FileParts) /\ parts # <<>> /\ IsInjective(parts)

LEMMA PartsFacts ==
  /\ Partition(<<"file">>) /\ Partition(<<"sdist">>) /\ Partition(snapParts) /\ Partition(tfParts)
  /\ \A x \in BOOLEAN : Partition(gemParts(x)) /\ Partition(helmParts(x))
  /\ \A k \in DOMAIN <<"sdist">> : <<"sdist">>[k] # "file"
  /\ \A k \in DOMAIN tfParts : tfParts[k] # "file"
<1>1. Partition(<<"file">>) /\ Partition(<<"sdist">>)
  BY DEF FileParts, IsInjective, Partition
<1>2. Partition(<<"snap", "assert">>)
  BY DEF FileParts, IsInjective, Partition
<1>3. Partition(<<"file", "variant">>)
  BY DEF FileParts, IsInjective, Partition
<1>4. Partition(<<"file", "prov">>)
  BY DEF FileParts, IsInjective, Partition
<1>5. Partition(tfParts) /\ \A k \in DOMAIN tfParts : tfParts[k] # "file"
  BY DEF FileParts, IsInjective, tfParts, Partition
<1>6. \A x \in BOOLEAN : Partition(gemParts(x)) /\ Partition(helmParts(x))
  BY <1>1, <1>3, <1>4 DEF gemParts, helmParts
<1>7. \A k \in DOMAIN <<"sdist">> : <<"sdist">>[k] # "file"
  OBVIOUS
<1> QED BY <1>1, <1>2, <1>5, <1>6, <1>7 DEF snapParts

(* NuGet.                                                                    *)
LEMMA NugetAdvances ==
  ASSUME CollectAssumption, CollectInv, NEW u \in BOOLEAN, NEW ok \in BOOLEAN, NugetFetchOne(u, ok)
  PROVE  CollectInv'
<1> DEFINE got == IF Listable(want.name, u) THEN selectNugetVersion(want) ELSE {}
           known == {<<n, TRUE>> : n \in {m \in {want.name} : Listable(m, u)}}
<1>1. InLoop /\ eco = "nuget" /\ eco \in ByRelease
  BY DEF NugetFetchOne, Working, InLoop, ByRelease
<1>2. want \in Wants /\ want.name \in PkgNames /\ cache \subseteq PkgNames \X BOOLEAN
  BY <1>1, HeadFacts, WantFields DEF InLoop, CollectInv, CollectTypeOK
<1>3. \A r \in got : r \in PkgReleases /\ r[1] = want.name /\ r[2] \in want.accept
  <2>1. got \subseteq Candidates(want)
    BY <1>2, SelectFacts
  <2> QED BY <1>2, <2>1, CandidateFacts, OfReleases
<1>4. CASE nugetRangeSatisfied(want) /\ Drop
  <2>1. PICK r \in Range(pkgs) : r \in Candidates(want)
    BY <1>4 DEF nugetRangeSatisfied
  <2>2. r[1] = want.name /\ r[2] \in want.accept
    BY <1>2, <2>1, CandidateFacts, OfReleases
  <2>3. Settled(want)
    BY <2>1, <2>2 DEF Settled, Held, Answers
  <2> QED BY <1>1, <1>2, <1>4, <2>3, LoopDrop DEF Drop
<1>5. CASE /\ cache' = cache \cup known
           /\ \/ got = {} /\ Report /\ UNCHANGED <<marks, content>>
              \/ got # {} /\ got \subseteq marks /\ Pop(<<>>) /\ UNCHANGED <<marks, content, skipped>>
              \/ \E r \in got \ marks :
                    /\ marks' = marks \cup {r}
                    /\ \/ ok /\ Stage(r, <<"file">>) /\ Pop(nugetDepWants(r)) /\ UNCHANGED skipped
                       \/ ~ok /\ Report /\ UNCHANGED content
           /\ UNCHANGED <<tried, picks>>
  <2>1. cache' \subseteq PkgNames \X BOOLEAN /\ UNCHANGED <<tried, picks>>
    BY <1>2, <1>5, KnownTyped DEF CollectInv
  <2> HIDE DEF known
  <2>2. CASE got = {} /\ Report /\ UNCHANGED <<marks, content>>
    BY <1>1, <2>1, <2>2, LoopReport
  <2>3. CASE got # {} /\ got \subseteq marks /\ Pop(<<>>) /\ UNCHANGED <<marks, content, skipped>>
    <3>1. PICK r \in got : TRUE
      BY <2>3
    <3>2. Settled(want)
      BY <1>1, <1>3, <2>3, <3>1, MarkSettles
    <3> QED BY <1>1, <2>1, <2>3, <3>2, LoopDrop
  <2>4. ASSUME NEW r \in got \ marks, marks' = marks \cup {r},
               ok /\ Stage(r, <<"file">>) /\ Pop(nugetDepWants(r)) /\ UNCHANGED skipped
        PROVE  CollectInv'
    <3>1. r \in PkgReleases /\ Answers(want, r)
      BY <1>3, <2>4 DEF Answers
    <3>2. nugetDepWants(r) \in Seq(Wants) /\ Range(Followed(r)) \subseteq Range(nugetDepWants(r))
      BY <3>1, MoreFacts, FollowedFacts
    <3>3. <<"file">> \in Seq(FileParts) /\ <<"file">> # <<>> /\ IsInjective(<<"file">>)
      BY PartsFacts DEF Partition
    <3>4. r \notin Range(pkgs)
      <4>1. Range(pkgs) \subseteq marks
        BY <1>1 DEF CollectInv, Unique
      <4> QED BY <2>4, <4>1
    <3>5. \A k \in DOMAIN <<"file">> : <<r, <<"file">>[k]>> \notin Range(files)
      BY <2>4, <3>1, <3>3, <3>4, StageFacts DEF CollectInv
    <3> QED BY <1>1, <2>1, <2>4, <3>1, <3>2, <3>3, <3>5, LoopStage
  <2>5. ASSUME NEW r \in got \ marks, marks' = marks \cup {r}, ~ok /\ Report /\ UNCHANGED content
        PROVE  CollectInv'
    BY <1>1, <1>3, <2>1, <2>5, LoopReport
  <2> QED BY <1>5, <2>2, <2>3, <2>4, <2>5
<1> QED BY <1>4, <1>5 DEF NugetFetchOne

(* Composer.                                                                 *)
LEMMA ComposerAdvances ==
  ASSUME CollectAssumption, CollectInv, NEW u \in BOOLEAN, NEW ok \in BOOLEAN, ComposerStep(u, ok)
  PROVE  CollectInv'
<1> DEFINE got == composerRelease(want, u)
<1>1. InLoop /\ eco = "composer" /\ eco \in ByRelease
  BY DEF ComposerStep, InLoop, ByRelease
<1>2. want \in Wants /\ want.name \in PkgNames /\ cache \subseteq PkgNames \X BOOLEAN
  BY <1>1, HeadFacts, WantFields DEF InLoop, CollectInv, CollectTypeOK
<1>3. \A r \in got : r \in PkgReleases /\ r[1] = want.name /\ r[2] \in want.accept
  <2>1. got \subseteq Candidates(want)
    BY <1>2, SelectFacts DEF composerRelease
  <2> QED BY <1>2, <2>1, CandidateFacts, OfReleases
<1>4. cache' \subseteq PkgNames \X BOOLEAN /\ UNCHANGED picks
  <2>1. cache' = cache \cup {<<want.name, Listable(want.name, u)>>} /\ UNCHANGED picks
    BY DEF ComposerStep
  <2>2. Listable(want.name, u) \in BOOLEAN
    BY Zenon DEF Listable
  <2>3. <<want.name, Listable(want.name, u)>> \in PkgNames \X BOOLEAN
    BY <1>2, <2>2
  <2> QED BY <1>2, <2>1, <2>3
<1>5. CASE got = {} /\ Report /\ UNCHANGED <<marks, content, tried>>
  BY <1>1, <1>4, <1>5, LoopReport
<1>6. CASE got # {} /\ got \subseteq marks /\ Pop(<<>>) /\ UNCHANGED <<marks, content, skipped, tried>>
  <2>1. PICK r \in got : TRUE
    BY <1>6
  <2>2. Settled(want)
    BY <1>1, <1>3, <1>6, <2>1, MarkSettles
  <2> QED BY <1>1, <1>4, <1>6, <2>2, LoopDrop
<1>7. ASSUME NEW r \in got \ marks, marks' = marks \cup {r}, Stage(r, <<"file">>), Pop(composerQueueDeps(r)),
             tried' = tried \cup Range(composerQueueDeps(r)), UNCHANGED skipped
      PROVE  CollectInv'
  <2>1. r \in PkgReleases /\ Answers(want, r)
    BY <1>3, <1>7 DEF Answers
  <2>2. composerQueueDeps(r) \in Seq(Wants) /\ \A w \in Range(Followed(r)) : w \in Range(composerQueueDeps(r)) \/ w \in tried
    BY <2>1, MoreFacts, FollowedFacts
  <2>3. \A w \in Range(Followed(r)) : w \in Range(composerQueueDeps(r)) \/ Met(w) \/ Answers(w, r)
    BY <1>1, <2>2 DEF CollectInv, Covered
  <2>4. <<"file">> \in Seq(FileParts) /\ <<"file">> # <<>> /\ IsInjective(<<"file">>)
    BY PartsFacts DEF Partition
  <2>5. r \notin Range(pkgs)
    <3>1. Range(pkgs) \subseteq marks
      BY <1>1 DEF CollectInv, Unique
    <3> QED BY <1>7, <3>1
  <2>6. \A k \in DOMAIN <<"file">> : <<r, <<"file">>[k]>> \notin Range(files)
    BY <1>7, <2>1, <2>4, <2>5, StageFacts DEF CollectInv
  <2> QED BY <1>1, <1>4, <1>7, <2>1, <2>2, <2>3, <2>4, <2>6, LoopStage
<1>8. CASE ~ok /\ Report /\ UNCHANGED <<marks, content, tried>>
  BY <1>1, <1>4, <1>8, LoopReport
<1> QED BY <1>5, <1>6, <1>7, <1>8 DEF ComposerStep

(* RubyGems.                                                                 *)
LEMMA GemAdvances ==
  ASSUME CollectAssumption, CollectInv, NEW u \in BOOLEAN, NEW ok \in BOOLEAN, NEW variant \in BOOLEAN,
         GemResolveOne(u, ok, variant)
  PROVE  CollectInv'
<1> DEFINE got == IF Listable(want.name, u) THEN selectGemLine(want) ELSE {}
           known == {<<n, TRUE>> : n \in {m \in {want.name} : Listable(m, u)}}
<1>1. InLoop /\ eco = "rubygems" /\ eco \notin ByRelease
  BY DEF GemResolveOne, Working, InLoop, ByRelease
<1>2. want \in Wants /\ want.name \in PkgNames /\ cache \subseteq PkgNames \X BOOLEAN
  BY <1>1, HeadFacts, WantFields DEF InLoop, CollectInv, CollectTypeOK
<1>3. \A r \in got : r \in PkgReleases /\ r[1] = want.name
  BY <1>2, SelectFacts, OfReleases
<1>4. CASE want.name \in marks /\ Drop
  <2>1. Settled(want)
    BY <1>1, <1>4, NameSettles
  <2> QED BY <1>1, <1>2, <1>4, <2>1, LoopDrop DEF Drop
<1>5. CASE /\ want.name \notin marks
           /\ cache' = cache \cup known
           /\ \/ got = {} /\ Report /\ UNCHANGED <<marks, content>>
              \/ \E r \in got :
                    /\ marks' = marks \cup {want.name}
                    /\ \/ ok /\ Stage(r, gemParts(variant)) /\ Pop(gemWants(r)) /\ UNCHANGED skipped
                       \/ ~ok /\ Report /\ UNCHANGED content
           /\ UNCHANGED <<tried, picks>>
  <2>1. cache' \subseteq PkgNames \X BOOLEAN /\ UNCHANGED <<tried, picks>> /\ want.name \notin marks
    BY <1>2, <1>5, KnownTyped DEF CollectInv
  <2> HIDE DEF known
  <2>2. CASE got = {} /\ Report /\ UNCHANGED <<marks, content>>
    BY <1>1, <2>1, <2>2, LoopReport
  <2>3. ASSUME NEW r \in got, marks' = marks \cup {want.name},
               Stage(r, gemParts(variant)), Pop(gemWants(r)), UNCHANGED skipped
        PROVE  CollectInv'
    <3>1. r \in PkgReleases /\ Answers(want, r) /\ r[1] = want.name
      BY <1>1, <1>3 DEF Answers
    <3>2. gemWants(r) \in Seq(Wants)
          /\ \A w \in Range(Followed(r)) : w \in Range(gemWants(r)) \/ w.name \in marks \/ w.name = r[1]
      BY <3>1, MoreFacts, FollowedFacts
    <3>3. \A w \in Range(Followed(r)) : w \in Range(gemWants(r)) \/ Met(w) \/ Answers(w, r)
      <4>1. \A w : w.name \in marks => Met(w)
        BY <1>1, NameSettles DEF Met
      <4>2. \A w : w.name = r[1] => Answers(w, r)
        BY <1>1 DEF Answers
      <4> QED BY <3>2, <4>1, <4>2
    <3>4. gemParts(variant) \in Seq(FileParts) /\ gemParts(variant) # <<>> /\ IsInjective(gemParts(variant))
      BY PartsFacts DEF Partition
    <3>5. r \notin Range(pkgs)
      <4>1. \A x \in Range(pkgs) : x[1] \in marks
        BY <1>1 DEF CollectInv, Unique
      <4> QED BY <2>1, <3>1, <4>1
    <3>6. \A k \in DOMAIN gemParts(variant) : <<r, gemParts(variant)[k]>> \notin Range(files)
      BY <2>3, <3>1, <3>4, <3>5, StageFacts DEF CollectInv
    <3> QED BY <1>1, <2>1, <2>3, <3>1, <3>2, <3>3, <3>4, <3>6, LoopStage
  <2>4. ASSUME marks' = marks \cup {want.name}, Report, UNCHANGED content
        PROVE  CollectInv'
    BY <1>1, <2>1, <2>4, LoopReport
  <2> QED BY <1>5, <2>2, <2>3, <2>4
<1> QED BY <1>4, <1>5 DEF GemResolveOne

(* The ecosystems that mark a name before they resolve it.                   *)
LEMMA OneVersionAdvances ==
  ASSUME CollectAssumption, CollectInv, NEW e \in {"galaxy", "vsx", "snap", "cran"}, NEW got, NEW more, NEW parts,
         NEW ok \in BOOLEAN, OneVersion(e, got, more, parts, ok), got \subseteq Of(want.name), Partition(parts),
         \A r \in got : more[r] \in Seq(Wants) /\ Range(Followed(r)) \subseteq Range(more[r])
  PROVE  CollectInv'
<1>1. InLoop /\ eco = e /\ eco \notin ByRelease /\ eco \notin {"go", "crates", "nuget", "composer", "conda", "python", "terraform"}
  BY DEF OneVersion, Working, InLoop, ByRelease
<1>2. want \in Wants /\ want.name \in PkgNames /\ cache \subseteq PkgNames \X BOOLEAN
  BY <1>1, HeadFacts, WantFields DEF InLoop, CollectInv, CollectTypeOK
<1>3. \A r \in got : r \in PkgReleases /\ r[1] = want.name
  BY OfReleases
<1>4. CASE want.name \in marks /\ Drop
  <2>1. Settled(want)
    BY <1>1, <1>4, NameSettles
  <2> QED BY <1>1, <1>2, <1>4, <2>1, LoopDrop DEF Drop
<1>5. CASE /\ want.name \notin marks
           /\ marks' = marks \cup {want.name}
           /\ \/ got = {} /\ Report /\ UNCHANGED content
              \/ \E r \in got : \/ ok /\ Stage(r, parts) /\ Pop(more[r]) /\ UNCHANGED skipped
                                \/ ~ok /\ Report /\ UNCHANGED content
           /\ UNCHANGED <<tried, cache, picks>>
  <2>1. cache' \subseteq PkgNames \X BOOLEAN /\ UNCHANGED <<tried, picks>> /\ want.name \notin marks /\ marks' = marks \cup {want.name}
    BY <1>2, <1>5
  <2>2. CASE Report /\ UNCHANGED content
    BY <1>1, <2>1, <2>2, LoopReport
  <2>3. ASSUME NEW r \in got, Stage(r, parts), Pop(more[r]), UNCHANGED skipped
        PROVE  CollectInv'
    <3>1. r \in PkgReleases /\ Answers(want, r) /\ r[1] = want.name
      BY <1>1, <1>3 DEF Answers
    <3>2. more[r] \in Seq(Wants) /\ \A w \in Range(Followed(r)) : w \in Range(more[r]) \/ Met(w) \/ Answers(w, r)
      OBVIOUS
    <3>4. parts \in Seq(FileParts) /\ parts # <<>> /\ IsInjective(parts)
      BY DEF Partition
    <3>5. r \notin Range(pkgs)
      <4>1. \A x \in Range(pkgs) : x[1] \in marks
        BY <1>1 DEF CollectInv, Unique
      <4> QED BY <2>1, <3>1, <4>1
    <3>6. \A k \in DOMAIN parts : <<r, parts[k]>> \notin Range(files)
      BY <2>3, <3>1, <3>4, <3>5, StageFacts DEF CollectInv
    <3> QED BY <1>1, <2>1, <2>3, <3>1, <3>2, <3>4, <3>6, LoopStage
  <2> QED BY <1>5, <2>2, <2>3
<1> QED BY <1>4, <1>5 DEF OneVersion

LEMMA GalaxyAdvances ==
  ASSUME CollectAssumption, CollectInv, NEW ok \in BOOLEAN, GalaxyFetchOne(ok) \/ VSXFetchOne(ok) \/ SnapFetchOne(ok)
  PROVE  CollectInv'
<1>1. queue # <<>> /\ eco \in {"galaxy", "vsx", "snap"}
  BY DEF GalaxyFetchOne, VSXFetchOne, SnapFetchOne, OneVersion, Working
<1>2. want \in Wants
  BY <1>1, HeadFacts DEF CollectInv
<1>3. \A r \in PkgReleases : Runtime(r) \in Seq(Wants) /\ Range(Followed(r)) \subseteq Range(Runtime(r)) /\ snapBaseWant(r) \in Seq(Wants)
  BY RuntimeFacts, FollowedFacts, MoreFacts
<1>4. Partition(<<"file">>) /\ Partition(snapParts)
  BY PartsFacts
<1>5. CASE GalaxyFetchOne(ok)
  <2> DEFINE more == [r \in PkgReleases |-> galaxyDepWants(r)]
  <2>1. resolveGalaxyVersion(want) \subseteq Of(want.name)
    BY <1>2, SelectFacts
  <2>2. \A r \in resolveGalaxyVersion(want) : more[r] \in Seq(Wants) /\ Range(Followed(r)) \subseteq Range(more[r])
    BY <1>3, <2>1, OfReleases DEF galaxyDepWants
  <2>3. OneVersion("galaxy", resolveGalaxyVersion(want), more, <<"file">>, ok)
    BY <1>5 DEF GalaxyFetchOne
  <2> HIDE DEF more
  <2> QED BY <1>4, <2>1, <2>2, <2>3, OneVersionAdvances
<1>6. CASE VSXFetchOne(ok)
  <2> DEFINE more == [r \in PkgReleases |-> vsxRefWants(r)]
  <2>1. vsxFetchMetadata(want) \subseteq Of(want.name)
    BY <1>2, SelectFacts
  <2>2. \A r \in vsxFetchMetadata(want) : more[r] \in Seq(Wants) /\ Range(Followed(r)) \subseteq Range(more[r])
    BY <1>3, <2>1, OfReleases DEF vsxRefWants
  <2>3. OneVersion("vsx", vsxFetchMetadata(want), more, <<"file">>, ok)
    BY <1>6 DEF VSXFetchOne
  <2> HIDE DEF more
  <2> QED BY <1>4, <2>1, <2>2, <2>3, OneVersionAdvances
<1>7. CASE SnapFetchOne(ok)
  <2> DEFINE more == [r \in PkgReleases |-> snapBaseWant(r)]
  <2>0. eco = "snap"
    BY <1>7 DEF SnapFetchOne, OneVersion, Working
  <2>1. selectSnapChannel(want) \subseteq Of(want.name)
    BY <1>2, SelectFacts
  <2>2. \A r \in selectSnapChannel(want) : more[r] \in Seq(Wants) /\ Range(Followed(r)) \subseteq Range(more[r])
    <3>1. \A r : Followed(r) = snapBaseWant(r)
      BY <2>0 DEF Followed
    <3> QED BY <1>3, <2>1, <3>1, OfReleases
  <2>3. OneVersion("snap", selectSnapChannel(want), more, snapParts, ok)
    BY <1>7 DEF SnapFetchOne
  <2> HIDE DEF more
  <2> QED BY <1>4, <2>1, <2>2, <2>3, OneVersionAdvances
<1> QED BY <1>5, <1>6, <1>7

LEMMA CranAdvances ==
  ASSUME CollectAssumption, CollectInv, NEW ok \in BOOLEAN, CranFetchOne(ok)
  PROVE  CollectInv'
<1>1. queue # <<>> /\ eco = "cran"
  BY DEF CranFetchOne, Working
<1>2. want \in Wants
  BY <1>1, HeadFacts DEF CollectInv
<1>3. CASE want.kind = "aux" /\ Drop /\ Working("cran", Cardinality(marks)) /\ Unchanging
  <2>1. InLoop
    BY <1>1, <1>3 DEF InLoop, Working
  <2>2. cache' \subseteq PkgNames \X BOOLEAN
    BY <1>3 DEF Drop, CollectInv, CollectTypeOK
  <2> QED BY <1>1, <1>3, <2>1, <2>2, LoopDrop DEF Drop
<1>4. CASE OneVersion("cran", CranCurrent(want.name), [r \in PkgReleases |-> cranDeps(r)], <<"file">>, ok)
  <2> DEFINE more == [r \in PkgReleases |-> cranDeps(r)]
  <2>1. CranCurrent(want.name) \subseteq Of(want.name)
    BY <1>2, SelectFacts
  <2>2. \A r \in CranCurrent(want.name) : more[r] \in Seq(Wants) /\ Range(Followed(r)) \subseteq Range(more[r])
    <3> SUFFICES ASSUME NEW r \in PkgReleases PROVE more[r] \in Seq(Wants) /\ Range(Followed(r)) \subseteq Range(more[r])
      BY <2>1, OfReleases
    <3>1. Requires[r] \in Seq(Wants) /\ Range(Followed(r)) \subseteq Range(Requires[r])
      BY RuntimeFacts, FollowedFacts
    <3> QED BY <3>1 DEF cranDeps
  <2>3. OneVersion("cran", CranCurrent(want.name), more, <<"file">>, ok) /\ Partition(<<"file">>)
    BY <1>4, PartsFacts
  <2> HIDE DEF more
  <2> QED BY <2>1, <2>2, <2>3, OneVersionAdvances
<1> QED BY <1>3, <1>4 DEF CranFetchOne

(* Helm.                                                                     *)
LEMMA HelmAdvances ==
  ASSUME CollectAssumption, CollectInv, NEW ok \in BOOLEAN, NEW prov \in BOOLEAN, HelmDownload(ok, prov)
  PROVE  CollectInv'
<1> DEFINE got == selectHelmChart(want)
<1>1. InLoop /\ eco = "helm" /\ eco \in ByRelease
  BY DEF HelmDownload, InLoop, ByRelease
<1>2. want \in Wants /\ want.name \in PkgNames /\ cache \subseteq PkgNames \X BOOLEAN
  BY <1>1, HeadFacts, WantFields DEF InLoop, CollectInv, CollectTypeOK
<1>3. \A r \in got : r \in PkgReleases /\ r[1] = want.name
  BY <1>2, SelectFacts, OfReleases
<1>4. CASE got # {} /\ got \subseteq marks /\ Drop
  <2>1. PICK r \in got : TRUE
    BY <1>4
  <2>2. Settled(want)
    BY <1>1, <1>3, <1>4, <2>1, MarkSettles
  <2> QED BY <1>1, <1>2, <1>4, <2>2, LoopDrop DEF Drop
<1>5. CASE Report /\ UNCHANGED <<marks, tried, cache, picks, content>>
  BY <1>1, <1>2, <1>5, LoopReport
<1>6. ASSUME NEW r \in got \ marks, marks' = marks \cup {r}, Stage(r, helmParts(prov)), Pop(<<>>),
             UNCHANGED <<tried, cache, picks, skipped>>
      PROVE  CollectInv'
  <2>1. r \in PkgReleases /\ Answers(want, r)
    BY <1>1, <1>3, <1>6 DEF Answers
  <2>2. <<>> \in Seq(Wants) /\ Range(Followed(r)) = {}
    BY <1>1, NoRange DEF Followed
  <2>3. helmParts(prov) \in Seq(FileParts) /\ helmParts(prov) # <<>> /\ IsInjective(helmParts(prov))
    BY PartsFacts DEF Partition
  <2>4. r \notin Range(pkgs)
    <3>1. Range(pkgs) \subseteq marks
      BY <1>1 DEF CollectInv, Unique
    <3> QED BY <1>6, <3>1
  <2>5. \A k \in DOMAIN helmParts(prov) : <<r, helmParts(prov)[k]>> \notin Range(files)
    BY <1>6, <2>1, <2>3, <2>4, StageFacts DEF CollectInv
  <2> QED BY <1>1, <1>2, <1>6, <2>1, <2>2, <2>3, <2>5, LoopStage
<1> QED BY <1>4, <1>5, <1>6 DEF HelmDownload

(* Terraform, and Python's source distributions: nothing is remembered.      *)
LEMMA AskedOnceFresh ==
  ASSUME CollectInv, eco \in {"terraform", "python"}, phase = "resolve", queue # <<>>, AskedOnce,
         NEW r, r[1] = want.name, NEW part, part # "file"
  PROVE  <<r, part>> \notin Range(files)
<1>1. NamesLeft /\ want \in Range(queue)
  BY HeadFacts DEF CollectInv, Unique
<1>2. \A f \in Range(files) : f[1][1] = want.name => f[2] = "file"
  BY <1>1 DEF NamesLeft
<1>3. <<r, part>>[1][1] = want.name /\ <<r, part>>[2] = part
  OBVIOUS
<1> QED BY <1>2, <1>3

LEMMA NoMemoryStage ==
  ASSUME CollectAssumption, CollectInv, InLoop, eco \in {"terraform", "python"}, NEW r \in Of(want.name),
         NEW parts, Partition(parts), \A k \in DOMAIN parts : parts[k] # "file",
         eco = "python" => parts = <<"sdist">>,
         Stage(r, parts), Pop(<<>>), UNCHANGED <<marks, tried, cache, picks, skipped>>
  PROVE  CollectInv'
<1>1. r \in PkgReleases /\ r[1] = want.name /\ Answers(want, r)
  BY OfReleases DEF Answers
<1>2. <<>> \in Seq(Wants) /\ Range(Followed(r)) = {}
  BY NoRange DEF Followed
<1>3. parts \in Seq(FileParts) /\ parts # <<>> /\ IsInjective(parts) /\ phase = "resolve" /\ queue # <<>>
      /\ cache' \subseteq PkgNames \X BOOLEAN
  BY DEF Partition, InLoop, CollectInv, CollectTypeOK
<1>4. AskedOnce => \A k \in DOMAIN parts : <<r, parts[k]>> \notin Range(files)
  BY <1>1, <1>3, AskedOnceFresh
<1> QED BY <1>1, <1>2, <1>3, <1>4, LoopStage

LEMMA TerraformAdvances ==
  ASSUME CollectAssumption, CollectInv, NEW ok \in BOOLEAN, TerraformCollectOne(ok)
  PROVE  CollectInv'
<1>1. InLoop /\ eco = "terraform" /\ UNCHANGED <<marks, tried, cache, picks>>
  BY DEF TerraformCollectOne, InLoop
<1>2. want \in Wants /\ cache \subseteq PkgNames \X BOOLEAN
  BY <1>1, HeadFacts DEF InLoop, CollectInv, CollectTypeOK
<1>3. pickTfVersion(want) \subseteq Of(want.name)
  BY <1>2, SelectFacts
<1>4. ASSUME NEW r \in pickTfVersion(want), Stage(r, tfParts), Pop(<<>>), UNCHANGED skipped
      PROVE  CollectInv'
  BY <1>1, <1>3, <1>4, PartsFacts, NoMemoryStage
<1>5. ASSUME NEW r \in pickTfVersion(want), files' = tfTruncate(Append(files, <<r, "zip">>), Len(files)), Report, UNCHANGED pkgs
      PROVE  CollectInv'
  <2>1. files' = files
    <3>1. files \in Seq(PkgReleases \X FileParts) /\ <<r, "zip">> \in PkgReleases \X FileParts
      BY <1>3, OfReleases DEF CollectInv, CollectTypeOK, FileParts
    <3> DEFINE s == Append(files, <<r, "zip">>)
    <3>2. s \in Seq(PkgReleases \X FileParts) /\ Len(s) = Len(files) + 1 /\ \A i \in 1 .. Len(files) : s[i] = files[i]
      BY <3>1, AppendRange
    <3>3. Len(files) \in 0 .. Len(s) /\ Len(files) \in Nat
      BY <3>1, <3>2
    <3> HIDE DEF s
    <3>4. SubSeq(s, 1, Len(files)) \in Seq(PkgReleases \X FileParts) /\ Len(SubSeq(s, 1, Len(files))) = Len(files)
          /\ \A i \in 1 .. Len(files) : SubSeq(s, 1, Len(files))[i] = files[i]
      BY <3>2, <3>3, PrefixFacts
    <3>5. SubSeq(s, 1, Len(files)) = files
      BY <3>1, <3>4, SeqEqual
    <3> QED BY <1>5, <3>5 DEF tfTruncate, s
  <2> QED BY <1>1, <1>2, <1>5, <2>1, LoopReport DEF content
<1>6. CASE Report /\ UNCHANGED content
  BY <1>1, <1>2, <1>6, LoopReport
<1> QED BY <1>4, <1>5, <1>6 DEF TerraformCollectOne

LEMMA SDistAdvances ==
  ASSUME CollectAssumption, CollectInv, NEW ok \in BOOLEAN, collectPythonSDist(ok)
  PROVE  CollectInv'
<1>1. InLoop /\ eco = "python" /\ UNCHANGED <<marks, tried, cache, picks>>
  BY DEF collectPythonSDist, InLoop
<1>2. want \in Wants /\ cache \subseteq PkgNames \X BOOLEAN
  BY <1>1, HeadFacts DEF InLoop, CollectInv, CollectTypeOK
<1>3. selectPySDist(want) \subseteq Of(want.name)
  BY <1>2, SelectFacts
<1>4. ASSUME NEW r \in selectPySDist(want), Stage(r, <<"sdist">>), Pop(<<>>), UNCHANGED skipped
      PROVE  CollectInv'
  BY <1>1, <1>3, <1>4, PartsFacts, NoMemoryStage
<1>5. CASE Report /\ UNCHANGED content
  BY <1>1, <1>2, <1>5, LoopReport
<1> QED BY <1>4, <1>5 DEF collectPythonSDist

(* Conda.                                                                    *)
LEMMA CondaAdvances ==
  ASSUME CollectAssumption, CollectInv, CondaResolve
  PROVE  CollectInv'
<1>1. InLoop /\ eco = "conda" /\ eco \notin ByRelease
  BY DEF CondaResolve, Working, InLoop, ByRelease
<1>2. want \in Wants /\ cache \subseteq PkgNames \X BOOLEAN
  BY <1>1, HeadFacts DEF InLoop, CollectInv, CollectTypeOK
<1>3. CASE want.name \in marks /\ Drop
  <2>1. Settled(want)
    BY <1>1, <1>3, NameSettles
  <2> QED BY <1>1, <1>2, <1>3, <2>1, LoopDrop DEF Drop
<1>4. CASE Report /\ UNCHANGED <<marks, tried, cache, picks, content>>
  BY <1>1, <1>2, <1>4, LoopReport
<1>5. ASSUME NEW r \in pickCondaCandidate(want), marks' = marks \cup {want.name},
             picks' = IF r \in Range(picks) THEN picks ELSE Append(picks, r),
             Pop(condaDepWants(r)), UNCHANGED <<tried, cache, content, skipped>>
      PROVE  CollectInv'
  <2>1. r \in PkgReleases /\ Answers(want, r) /\ r[1] = want.name
    BY <1>1, <1>2, SelectFacts, OfReleases DEF Answers
  <2>2. condaDepWants(r) \in Seq(Wants)
        /\ \A w \in Range(Followed(r)) : w \in Range(condaDepWants(r)) \/ w.name \in marks \/ w.name = r[1]
    BY <2>1, MoreFacts, FollowedFacts
  <2>3. \A w \in Range(Followed(r)) : w \in Range(condaDepWants(r)) \/ Met(w) \/ Answers(w, r)
    <3>1. \A w : w.name \in marks => Met(w)
      BY <1>1, NameSettles DEF Met
    <3>2. \A w : w.name = r[1] => Answers(w, r)
      BY <1>1 DEF Answers
    <3> QED BY <2>2, <3>1, <3>2
  <2>4. marks' = marks \cup {IF eco \in ByRelease THEN r ELSE r[1]}
    BY <1>1, <1>5, <2>1
  <2> QED BY <1>1, <1>2, <1>5, <2>1, <2>2, <2>3, <2>4, LoopPick
<1> QED BY <1>3, <1>4, <1>5 DEF CondaResolve

----------------------------------------------------------------------------
(* The steps between the loops.                                              *)
LEMMA PhasesMove ==
  ASSUME CollectAssumption, CollectInv, UNCHANGED <<eco, request, queue, marks, tried, cache, picks, content, skipped, rounds>>,
         phase' \in {"download", "extras", "exported", "failed"}, phase \notin {"idle", "pins"},
         phase' # "failed" => Seeded,
         phase' = "download" => eco \in {"crates", "conda"},
         phase' = "extras" => eco = "python" /\ phase = "resolve",
         phase' = "exported" => picks = <<>>
  PROVE  CollectInv'
<1>1. UNCHANGED <<eco, request, queue, marks, tried, cache, picks, pkgs, files, skipped, rounds>>
  BY DEF content
<1>2. CollectTypeOK'
  BY <1>1 DEF CollectInv, CollectTypeOK
<1>3. ~Untouched'
  BY DEF Untouched
<1>4. Staged'
  <2>1. phase' = "extras" => rounds <= Len(pkgs)
    <3>1. phase' = "extras" => rounds = 0
      BY DEF CollectInv, Staged
    <3>2. Len(pkgs) \in Nat
      BY DEF CollectInv, CollectTypeOK
    <3> QED BY <3>1, <3>2
  <2>2. picks' # <<>> => phase' \in {"download", "failed"} \/ (phase' = "resolve" /\ eco' \in {"crates", "conda"})
    <3>1. picks # <<>> => phase \in {"download", "failed"} \/ (phase = "resolve" /\ eco \in {"crates", "conda"})
      BY DEF CollectInv, Staged
    <3> QED BY <1>1, <3>1
  <2>3. eco = "npm" => marks = {}
    BY DEF CollectInv, Staged
  <2> QED BY <1>1, <1>3, <2>1, <2>2, <2>3 DEF Staged
<1>5. Unique'
  <2>1. AskedOnce' = AskedOnce /\ DistinctPaths(files)' = DistinctPaths(files)
    BY <1>1 DEF AskedOnce, DistinctPaths
  <2>2. phase' = "extras" => Signed'
    <3> SUFFICES ASSUME phase' = "extras" PROVE Signed'
      OBVIOUS
    <3>1. Signed /\ phase # "extras"
      BY DEF CollectInv, Unique
    <3> QED BY <1>1, <3>1 DEF Signed
  <2> QED BY <1>1, <2>1, <2>2 DEF CollectInv, Unique
<1>6. Covered'
  <2>1. Held' = Held /\ Left' = Left
    BY <1>1 DEF Held, Left
  <2>2. \A w \in Left : Met(w)'
    BY <2>1 DEF Met
  <2>3. Seeded' => Seeded
    BY DEF Seeded
  <2> QED BY <1>1, <2>1, <2>2, <2>3, Onward DEF CollectInv
<1> QED BY <1>2, <1>4, <1>5, <1>6 DEF CollectInv

Writes ==
  \/ writeCratesBundle \/ writeCondaBundle \/ writeNpmBundle \/ writeMavenBundle
  \/ writePythonBundle \/ writeNugetBundle \/ writeComposerBundle
  \/ writeRubyGemsBundle \/ writeGalaxyBundle \/ writeVSXBundle \/ writeSnapBundle
  \/ writeCRANBundle \/ writeHelmBundle \/ writeTerraformBundle
  \/ writeGoBundle

LEMMA WriteAdvances ==
  ASSUME CollectAssumption, CollectInv, Writes
  PROVE  CollectInv'
<1>1. /\ UNCHANGED <<eco, request, queue, marks, tried, cache, picks, content, skipped, rounds>>
      /\ phase' \in {"failed", "exported"}
      /\ Downloaded \/ Completed \/ (LoopEnded /\ eco \notin {"crates", "conda", "npm", "maven"})
  <2>1. CASE writeCratesBundle \/ writeCondaBundle \/ writeNpmBundle \/ writeGoBundle
    BY <2>1 DEF writeCratesBundle, writeCondaBundle, writeNpmBundle, writeGoBundle, WriteBundle
  <2>2. CASE writeMavenBundle \/ writePythonBundle
    BY <2>2 DEF writeMavenBundle, writePythonBundle, WriteBundle
  <2>3. CASE writeNugetBundle \/ writeComposerBundle \/ writeRubyGemsBundle \/ writeGalaxyBundle \/ writeVSXBundle
    BY <2>3 DEF writeNugetBundle, writeComposerBundle, writeRubyGemsBundle, writeGalaxyBundle, writeVSXBundle, WriteBundle
  <2>4. CASE writeSnapBundle \/ writeCRANBundle \/ writeHelmBundle \/ writeTerraformBundle
    BY <2>4 DEF writeSnapBundle, writeCRANBundle, writeHelmBundle, writeTerraformBundle, WriteBundle
  <2> QED BY <2>1, <2>2, <2>3, <2>4 DEF Writes
<1>2. phase \in {"download", "extras"} \/ (phase = "resolve" /\ eco \notin {"crates", "conda", "npm", "maven"})
  BY <1>1 DEF Downloaded, Completed, LoopEnded
<1>3. Seeded
  BY <1>2 DEF Seeded, Untouched
<1>4. picks = <<>>
  <2>1. CASE Downloaded
    BY <2>1 DEF Downloaded
  <2>2. CASE phase = "extras" \/ (phase = "resolve" /\ eco \notin {"crates", "conda", "npm", "maven"})
    BY <2>2 DEF CollectInv, Staged
  <2> QED BY <1>1, <2>1, <2>2 DEF Completed, LoopEnded
<1> QED BY <1>1, <1>2, <1>3, <1>4, PhasesMove

LEMMA PhaseAdvances ==
  ASSUME CollectAssumption, CollectInv, StartDownloads \/ startPythonProvenance
  PROVE  CollectInv'
<1>1. CASE StartDownloads
  <2>1. /\ UNCHANGED <<eco, request, queue, marks, tried, cache, picks, content, skipped, rounds>>
        /\ phase' \in {"failed", "download"} /\ phase = "resolve" /\ eco \in {"crates", "conda"}
    BY <1>1 DEF StartDownloads
  <2>2. Seeded
    BY <2>1 DEF Seeded, Untouched
  <2> QED BY <2>1, <2>2, PhasesMove
<1>2. CASE startPythonProvenance
  <2>1. /\ UNCHANGED <<eco, request, queue, marks, tried, cache, picks, content, skipped, rounds>>
        /\ phase' \in {"failed", "extras"} /\ phase = "resolve" /\ eco = "python"
    BY <1>2 DEF startPythonProvenance
  <2>2. Seeded
    BY <2>1 DEF Seeded, Untouched
  <2> QED BY <2>1, <2>2, PhasesMove
<1> QED BY <1>1, <1>2

LEMMA BeginAdvances ==
  ASSUME CollectAssumption, CollectInv, NEW e, NEW first, NEW answered \in BOOLEAN, Begin(e, first, answered),
         first = IF e \in {"cran", "python", "go"} THEN "pins" ELSE "resolve"
  PROVE  CollectInv'
<1>1. /\ eco = e /\ phase = "idle" /\ phase' = IF answered THEN first ELSE "failed"
      /\ queue' = IF first = "pins" \/ eco \in {"npm", "maven"} THEN <<>> ELSE request
      /\ UNCHANGED <<eco, request, marks, tried, cache, picks, pkgs, files, skipped, rounds>>
  BY DEF Begin, content
<1>2. queue = <<>> /\ picks = <<>> /\ pkgs = <<>> /\ files = <<>> /\ marks = {} /\ tried = {} /\ skipped = {}
      /\ Range(<<>>) = {}
  BY <1>1, NoRange DEF CollectInv, Staged, Untouched
<1>3. request \in Seq(Wants) /\ Len(request) \in Nat \ {0}
  BY RequestFacts DEF CollectInv
<1>4. CollectTypeOK'
  BY <1>1, <1>3 DEF CollectInv, CollectTypeOK
<1>5. Staged'
  <2>1. eco \in {"cran", "maven", "python"} => rounds = 0
    BY <1>1 DEF CollectInv, Staged
  <2>2. phase' = "pins" => eco \in {"cran", "python", "go"}
    BY <1>1
  <2>3. phase' = "resolve" => eco \notin {"cran", "python", "go"}
    BY <1>1
  <2>4. phase' \in {"pins", "resolve", "failed"}
    BY <1>1
  <2>5. Untouched' => queue' = <<>>
    BY <1>1, <2>2, <2>4 DEF Untouched
  <2> QED BY <1>1, <1>2, <1>3, <2>1, <2>2, <2>3, <2>4, <2>5 DEF Staged
<1>6. Unique'
  <2>1. /\ {f[1] : f \in Range(files')} = Range(pkgs') /\ DistinctPaths(files') /\ IsInjective(picks')
    BY <1>1, <1>2 DEF DistinctPaths, IsInjective
  <2>2. eco \in {"terraform", "python"} /\ phase' = "resolve" /\ AskedOnce => NamesLeft'
    <3> SUFFICES ASSUME eco \in {"terraform", "python"}, phase' = "resolve", AskedOnce PROVE NamesLeft'
      OBVIOUS
    <3>1. eco = "terraform" /\ queue' = request
      BY <1>1
    <3>2. \A i, j \in DOMAIN request : request[i].name = request[j].name => i = j
      BY <3>1 DEF AskedOnce
    <3> QED BY <1>1, <1>2, <3>1, <3>2 DEF NamesLeft
  <2>3. Signed'
    <3>1. Len(<<>>) = 0
      OBVIOUS
    <3> QED BY <1>1, <1>2, <3>1 DEF Signed
  <2>4. AskedOnce' = AskedOnce
    BY <1>1 DEF AskedOnce
  <2> QED BY <1>1, <1>2, <2>1, <2>2, <2>3, <2>4 DEF Unique, DistinctPaths
<1>7. Covered'
  <2>1. Held' = {} /\ marks' = {} /\ tried' = {}
    BY <1>1, <1>2 DEF Held
  <2>2. Seeded' => \A w \in Range(request)' : Met(w)'
    <3> SUFFICES ASSUME Seeded' PROVE \A w \in Range(request)' : Met(w)'
      OBVIOUS
    <3>1. phase' = "resolve" /\ ~(eco \in {"npm", "maven"})
      BY <1>1 DEF Seeded, Untouched
    <3>2. queue' = request
      BY <1>1, <3>1
    <3> QED BY <1>1, <3>2 DEF Met, Left
  <2>3. phase' = "pins" /\ eco' = "cran" => rounds' = 0
    BY <1>1 DEF CollectInv, Staged
  <2> QED BY <2>1, <2>2, <2>3 DEF Covered
<1> QED BY <1>4, <1>5, <1>6, <1>7 DEF CollectInv

LEMMA SameWant ==
  \A w, x \in Wants : w.name = x.name /\ w.kind = x.kind /\ w.accept = x.accept => w = x
BY DEF Wants

LEMMA CountUp == \A n \in Nat : n + 1 \in 1 .. (n + 1) /\ \A k \in 1 .. n : k \in 1 .. (n + 1)
OBVIOUS

(* CRAN reads its request, one want at a time.                               *)
LEMMA SeedRest ==
  ASSUME CollectAssumption, CollectInv, eco = "cran", phase = "pins", rounds' = rounds + 1,
         phase' = IF rounds' = Len(request) THEN "resolve" ELSE "pins",
         UNCHANGED <<eco, request, tried, cache, picks>>,
         NEW i, i = rounds + 1, NEW w, w = request[i],
         queue' \in Seq(Wants), Range(queue) \subseteq Range(queue'), Range(pkgs) \subseteq Range(pkgs'),
         pkgs' \in Seq(PkgReleases), files' \in Seq(PkgReleases \X FileParts),
         {f[1] : f \in Range(files')} = Range(pkgs'), AskedOnce => DistinctPaths(files'),
         marks \subseteq marks', skipped \subseteq skipped', skipped' \subseteq PkgNames, marks' \subseteq PkgNames,
         \A r \in Range(pkgs') : r \in Range(pkgs) \/ (w.kind = "pin" /\ w.name = r[1] /\ w.accept = {r[2]} /\ r[1] \in marks'),
         \A r \in Range(pkgs') : r \in Range(pkgs) \/ Range(Followed(r)) \subseteq Range(queue'),
         \A m \in marks' : m \in marks \/ Remembered(m)',
         w.name \in skipped' \/ w \in Range(queue') \/ \E r \in Range(pkgs') : r[1] = w.name
  PROVE  CollectInv'
<1>1. request \in Seq(Wants) /\ Len(request) \in Nat \ {0} /\ rounds \in Nat /\ rounds < Len(request)
      /\ DOMAIN request = 1 .. Len(request)
  BY RequestFacts DEF CollectInv, CollectTypeOK, Staged
<1>2. i \in 1 .. Len(request) /\ w \in Wants /\ rounds' \in Nat /\ rounds' = i
  BY <1>1
<1>3. 1 .. rounds' = 1 .. (rounds + 1) /\ i \in 1 .. rounds' /\ \A k \in 1 .. rounds : k \in 1 .. rounds'
  <2>1. 1 .. rounds' = 1 .. (rounds + 1)
    OBVIOUS
  <2>2. rounds \in Nat
    BY <1>1
  <2>3. rounds + 1 \in 1 .. (rounds + 1) /\ \A k \in 1 .. rounds : k \in 1 .. (rounds + 1)
    BY <2>2, CountUp
  <2> QED BY <2>1, <2>3
<1>4. CollectTypeOK'
  BY <1>2 DEF CollectInv, CollectTypeOK
<1>5. Staged'
  <2>1. phase' \in {"pins", "resolve"} /\ ~Untouched' /\ (phase' = "pins" => rounds' < Len(request))
    BY <1>1, <1>2 DEF Untouched
  <2>2. picks = <<>>
    BY DEF CollectInv, Staged
  <2> QED BY <2>1, <2>2 DEF Staged
<1>6. Unique'
  <2>1. AskedOnce' = AskedOnce
    BY DEF AskedOnce
  <2>2. \A r \in Range(pkgs)' : Pinned(r, rounds)' /\ r[1] \in marks'
    <3> SUFFICES ASSUME NEW r \in Range(pkgs') PROVE Pinned(r, rounds)' /\ r[1] \in marks'
      BY DEF Range
    <3>1. CASE r \in Range(pkgs)
      <4>1. Pinned(r, rounds) /\ r[1] \in marks
        BY <3>1 DEF CollectInv, Unique
      <4>2. PICK k \in 1 .. rounds : request[k].kind = "pin" /\ request[k].name = r[1] /\ request[k].accept = {r[2]}
        BY <4>1 DEF Pinned
      <4>3. k \in 1 .. rounds'
        BY <1>3, <4>2
      <4> QED BY <4>1, <4>2, <4>3 DEF Pinned
    <3>2. CASE w.kind = "pin" /\ w.name = r[1] /\ w.accept = {r[2]} /\ r[1] \in marks'
      <4>1. i \in 1 .. rounds'
        BY <1>3
      <4> QED BY <3>2, <4>1 DEF Pinned
    <3> QED BY <3>1, <3>2
  <2> QED BY <2>1, <2>2 DEF Unique, DistinctPaths
<1>7. Held \subseteq Held' /\ Left \subseteq Left' /\ Range(pkgs') \subseteq Held'
  BY DEF Held, Left
<1>8. \A x \in Left : Met(x)'
  BY <1>7 DEF Met
<1>9. Met(w)'
  <2>1. \A r \in Range(pkgs') : r[1] = w.name => Answers(w, r)'
    BY DEF Answers
  <2> QED BY <1>7, <2>1 DEF Met, Settled, Left
<1>10. \A k \in 1 .. rounds' : request[k].kind = "aux" \/ Met(request[k])'
  <2> SUFFICES ASSUME NEW k \in 1 .. rounds', request[k].kind # "aux" PROVE Met(request[k])'
    OBVIOUS
  <2>1. CASE k = i
    <3>1. request'[k] = w
      BY <2>1
    <3> QED BY <1>9, <3>1
  <2>2. CASE k # i
    <3>1. k \in 1 .. rounds
      BY <1>1, <1>2, <2>2
    <3>2. Met(request[k])
      BY <3>1 DEF CollectInv, Covered
    <3>3. \A x : Met(x) /\ ~(eco = "cran" /\ x.kind = "aux") => Met(x)'
      BY <1>7, <1>8, MetStays
    <3>4. request'[k] = request[k]
      OBVIOUS
    <3> QED BY <3>2, <3>3, <3>4
  <2> QED BY <2>1, <2>2
<1>11. Seeded' => \A x \in Range(request) : x.kind = "aux" \/ Met(x)'
  <2> SUFFICES ASSUME Seeded', NEW x \in Range(request) PROVE x.kind = "aux" \/ Met(x)'
    OBVIOUS
  <2>1. rounds' = Len(request)
    BY DEF Seeded
  <2>2. PICK k \in 1 .. Len(request) : x = request[k]
    BY <1>1 DEF Range
  <2>3. request'[k] = request[k]
    OBVIOUS
  <2> QED BY <1>10, <2>1, <2>2, <2>3
<1>12. \A r \in Held' : r \in Held \/ \A x \in Range(Followed(r)) : Met(x)'
  <2>1. \A r \in Held' : r \in Held \/ r \in Range(pkgs')
    BY DEF Held
  <2>2. \A x \in Range(queue') : Met(x)'
    BY DEF Met, Left
  <2> QED BY <2>1, <2>2 DEF Held
<1>13. Covered'
  BY <1>7, <1>8, <1>10, <1>11, <1>12, Onward DEF CollectInv
<1> QED BY <1>4, <1>5, <1>6, <1>13 DEF CollectInv

LEMMA SeedAdvances ==
  ASSUME CollectAssumption, CollectInv, NEW ok \in BOOLEAN, CranSeed(ok)
  PROVE  CollectInv'
<1>1. eco = "cran" /\ phase = "pins" /\ rounds' = rounds + 1 /\ UNCHANGED <<eco, request, tried, cache, picks>>
      /\ phase' = IF rounds' = Len(request) THEN "resolve" ELSE "pins"
  BY DEF CranSeed
<1>2. request \in Seq(Wants) /\ Len(request) \in Nat \ {0} /\ rounds \in Nat /\ rounds < Len(request)
  BY <1>1, RequestFacts DEF CollectInv, CollectTypeOK, Staged
<1>3. PICK i : i = rounds + 1
  OBVIOUS
<1>4. PICK w : w = request[i]
  OBVIOUS
<1>5. i \in 1 .. Len(request) /\ w \in Wants /\ w.name \in PkgNames
  BY <1>2, <1>3, <1>4, WantFields
<1>6. /\ queue \in Seq(Wants) /\ pkgs \in Seq(PkgReleases) /\ files \in Seq(PkgReleases \X FileParts)
      /\ skipped \subseteq PkgNames /\ marks \subseteq PkgNames
  BY <1>1 DEF CollectInv, CollectTypeOK
<1>7. CASE queue' = Append(queue, w) /\ UNCHANGED <<marks, content, skipped>>
  <2>1. queue' \in Seq(Wants) /\ Range(queue') = Range(queue) \cup {w}
    BY <1>5, <1>6, <1>7, AppendRange
  <2>2. UNCHANGED <<pkgs, files>> /\ {f[1] : f \in Range(files)} = Range(pkgs) /\ (AskedOnce => DistinctPaths(files))
    BY <1>7 DEF content, CollectInv, Unique
  <2> QED BY <1>1, <1>3, <1>4, <1>6, <1>7, <2>1, <2>2, SeedRest
<1>8. ASSUME CranArchivedPin(w), NEW r \in Candidates(w), Stage(r, <<"file">>), marks' = marks \cup {w.name},
             queue' = queue \o cranArchivedDeps(r), UNCHANGED skipped
      PROVE  CollectInv'
  <2>1. r \in PkgReleases /\ r[1] = w.name /\ w.kind = "pin" /\ w.accept = {r[2]}
    <3>1. w.kind = "pin" /\ \E v \in PkgVersions : w.accept = {v}
      BY <1>4, <1>5, <1>8, RequestFacts DEF CranArchivedPin, CollectInv
    <3> QED BY <1>5, <3>1, CandidateFacts, OfReleases
  <2>2. cranArchivedDeps(r) \in Seq(Wants) /\ Range(Followed(r)) \subseteq Range(cranArchivedDeps(r))
    <3>1. Requires[r] \in Seq(Wants) /\ Range(Followed(r)) \subseteq Range(Requires[r])
      BY <2>1, RuntimeFacts, FollowedFacts
    <3>2. r \notin CranCurrent(r[1])
      <4> SUFFICES ASSUME r \in CranCurrent(w.name) PROVE FALSE
        BY <2>1
      <4>1. \A x \in CranCurrent(w.name) : x = r
        BY <1>5, CurrentIsOne
      <4>2. \A x \in Candidates(w) : x[2] = r[2] /\ x[1] = r[1] /\ x \in PkgReleases
        BY <1>5, <2>1, CandidateFacts, OfReleases
      <4>3. \A x \in Candidates(w) : x = r
        BY <2>1, <4>2, ReleaseParts
      <4>4. CranCurrent(w.name) = {r} /\ Candidates(w) = {r}
        BY <1>8, <4>1, <4>3
      <4>5. CranCurrent(w.name) # Candidates(w)
        BY <1>8 DEF CranArchivedPin
      <4> QED BY <4>4, <4>5
    <3>3. CASE r \in SilentArchives
      <4>1. Followed(r) = <<>>
        BY <1>1, <3>2, <3>3 DEF Followed
      <4> QED BY <3>3, <4>1, NoRange DEF cranArchivedDeps
    <3>4. CASE r \notin SilentArchives
      BY <3>1, <3>4 DEF cranArchivedDeps, cranDeps
    <3> QED BY <3>3, <3>4
  <2>3. queue' \in Seq(Wants) /\ Range(queue') = Range(queue) \cup Range(cranArchivedDeps(r))
    BY <1>6, <1>8, <2>2, ConcatRange
  <2>4. <<"file">> \in Seq(FileParts) /\ <<"file">> # <<>> /\ IsInjective(<<"file">>)
    BY PartsFacts DEF Partition
  <2>5. /\ pkgs' \in Seq(PkgReleases) /\ files' \in Seq(PkgReleases \X FileParts)
        /\ Range(pkgs') = Range(pkgs) \cup {r} /\ {f[1] : f \in Range(files')} = Range(pkgs')
        /\ DistinctPaths(files) /\ (\A k \in DOMAIN <<"file">> : <<r, <<"file">>[k]>> \notin Range(files)) => DistinctPaths(files')
        /\ r \notin Range(pkgs) => \A k \in DOMAIN <<"file">> : <<r, <<"file">>[k]>> \notin Range(files)
    BY <1>8, <2>1, <2>4, StageFacts DEF CollectInv
  <2>6. AskedOnce => r \notin Range(pkgs)
    <3> SUFFICES ASSUME AskedOnce, r \in Range(pkgs) PROVE FALSE
      OBVIOUS
    <3>1. Pinned(r, rounds)
      BY <1>1 DEF CollectInv, Unique
    <3>2. PICK k \in 1 .. rounds : request[k].kind = "pin" /\ request[k].name = r[1] /\ request[k].accept = {r[2]}
      BY <3>1 DEF Pinned
    <3>3. k \in DOMAIN request /\ i \in DOMAIN request /\ k # i /\ request[k] \in Wants
      BY <1>2, <1>3, <1>5, <3>2
    <3>4. request[k] = w
      BY <1>5, <2>1, <3>2, <3>3, SameWant
    <3> QED BY <1>1, <1>4, <3>3, <3>4 DEF AskedOnce
  <2>7. AskedOnce => DistinctPaths(files')
    BY <2>5, <2>6 DEF CollectInv, Unique
  <2>8. \A m \in marks' : m \in marks \/ Remembered(m)'
    <3>1. r \in Held'
      BY <2>5 DEF Held
    <3> QED BY <1>1, <1>8, <2>1, <3>1 DEF Remembered, ByRelease
  <2>9. \A x \in Range(pkgs') : x \in Range(pkgs) \/ x = r
    BY <2>5
  <2> QED BY <1>1, <1>3, <1>4, <1>5, <1>6, <1>8, <2>1, <2>2, <2>3, <2>5, <2>7, <2>8, <2>9, SeedRest
<1>9. CASE skipped' = skipped \cup {w.name} /\ UNCHANGED <<marks, content, queue>>
  <2>1. UNCHANGED <<pkgs, files>> /\ {f[1] : f \in Range(files)} = Range(pkgs) /\ (AskedOnce => DistinctPaths(files))
    BY <1>9 DEF content, CollectInv, Unique
  <2> QED BY <1>1, <1>3, <1>4, <1>5, <1>6, <1>9, <2>1, SeedRest
<1> QED BY <1>3, <1>4, <1>7, <1>8, <1>9 DEF CranSeed

(* Conda's next platform.                                                    *)
LEMMA NextPlatformAdvances ==
  ASSUME CollectAssumption, CollectInv, CondaNextPlatform
  PROVE  CollectInv'
<1>1. /\ eco = "conda" /\ phase = "resolve" /\ rounds > 1 /\ rounds' = rounds - 1 /\ queue' = request /\ marks' = {}
      /\ tried' = tried \cup Range(queue) /\ UNCHANGED <<eco, request, phase, cache, picks, pkgs, files, skipped>>
  BY DEF CondaNextPlatform, content
<1>2. request \in Seq(Wants) /\ rounds' \in Nat /\ Range(queue) \subseteq Wants
  <2>1. rounds - 1 \in Nat
    BY <1>1 DEF CollectInv, CollectTypeOK
  <2> QED BY <1>1, <2>1, RequestFacts, RangeFacts DEF CollectInv, CollectTypeOK
<1>3. CollectTypeOK'
  BY <1>1, <1>2 DEF CollectInv, CollectTypeOK
<1>4. Staged'
  BY <1>1 DEF CollectInv, Staged, Untouched
<1>5. AskedOnce' = AskedOnce
  BY <1>1 DEF AskedOnce
<1>6. Unique'
  BY <1>1, <1>5 DEF CollectInv, Unique, DistinctPaths
<1>7. Left \subseteq Left' /\ Held' = Held
  BY <1>1 DEF Left, Held
<1>8. \A w \in Left : Met(w)'
  BY <1>7 DEF Met
<1>9. Seeded' => Seeded
  BY <1>1 DEF Seeded, Untouched
<1>10. Covered'
  BY <1>1, <1>7, <1>8, <1>9, Onward DEF CollectInv
<1> QED BY <1>3, <1>4, <1>6, <1>10 DEF CollectInv

----------------------------------------------------------------------------
(* The downloads of what has been chosen.                                    *)
LEMMA PickFacts ==
  ASSUME CollectAssumption, CollectInv, phase = "download", picks # <<>>
  PROVE  /\ eco \in {"crates", "conda", "npm", "go"} /\ Head(picks) \in PkgReleases /\ Tail(picks) \in Seq(PkgReleases)
         /\ Range(picks) \subseteq {Head(picks)} \cup Range(Tail(picks)) /\ Range(Tail(picks)) \subseteq Range(picks)
         /\ Head(picks) \in Range(picks)
         /\ eco # "go" => /\ IsInjective(Tail(picks)) /\ Head(picks) \notin Range(Tail(picks)) /\ Head(picks) \notin Range(pkgs)
                          /\ Range(Tail(picks)) \cap Range(pkgs) = {}
<1>1. eco \in {"crates", "conda", "npm", "go"} /\ picks \in Seq(PkgReleases)
  BY DEF CollectInv, CollectTypeOK, Staged
<1>2. /\ Head(picks) \in PkgReleases /\ Tail(picks) \in Seq(PkgReleases) /\ Head(picks) \in Range(picks)
      /\ Range(Tail(picks)) \subseteq Range(picks) /\ Range(picks) \subseteq {Head(picks)} \cup Range(Tail(picks))
  BY <1>1, TailRange
<1>3. ASSUME eco # "go"
      PROVE  /\ IsInjective(Tail(picks)) /\ Head(picks) \notin Range(Tail(picks)) /\ Head(picks) \notin Range(pkgs)
             /\ Range(Tail(picks)) \cap Range(pkgs) = {}
  <2>1. IsInjective(picks) /\ Range(picks) \cap Range(pkgs) = {}
    BY <1>1, <1>3 DEF CollectInv, Unique
  <2>2. IsInjective(Tail(picks)) /\ Head(picks) \notin Range(Tail(picks))
    BY <1>1, <2>1, TailDistinct
  <2> QED BY <1>2, <2>1, <2>2
<1> QED BY <1>1, <1>2, <1>3

(* One pick is downloaded, reported, or (npm, a failing disk) the end.       *)
LEMMA TakeStep ==
  ASSUME CollectAssumption, CollectInv, phase = "download", picks # <<>>, picks' = Tail(picks),
         phase' \in {"download", "failed"}, UNCHANGED <<eco, request, queue, marks, tried, cache, rounds>>,
         NEW r, r = Head(picks),
         pkgs' \in Seq(PkgReleases), files' \in Seq(PkgReleases \X FileParts),
         Range(pkgs) \subseteq Range(pkgs'), Range(pkgs') \subseteq Range(pkgs) \cup {r},
         skipped \subseteq skipped', skipped' \subseteq PkgNames,
         r \in Range(pkgs') \/ r[1] \in skipped' \/ (phase' = "failed" /\ eco = "npm"),
         {f[1] : f \in Range(files')} = Range(pkgs'), AskedOnce => DistinctPaths(files')
  PROVE  CollectInv'
<1>1. /\ eco \in {"crates", "conda", "npm", "go"} /\ r \in PkgReleases /\ picks' \in Seq(PkgReleases)
      /\ Range(picks) \subseteq {r} \cup Range(picks') /\ Range(picks') \subseteq Range(picks)
      /\ eco # "go" => IsInjective(picks') /\ r \notin Range(picks') /\ Range(picks') \cap Range(pkgs) = {}
  BY PickFacts
<1>2. CollectTypeOK'
  BY <1>1 DEF CollectInv, CollectTypeOK
<1>3. ~Untouched /\ ~Untouched'
  BY DEF Untouched
<1>4. Staged'
  <2>1. eco = "npm" => marks = {}
    BY DEF CollectInv, Staged
  <2> QED BY <1>1, <1>3, <2>1 DEF Staged
<1>5. Unique'
  <2>1. AskedOnce' = AskedOnce
    BY DEF AskedOnce
  <2>2. eco # "go" => IsInjective(picks') /\ Range(picks') \cap Range(pkgs') = {}
    BY <1>1
  <2> QED BY <1>1, <2>1, <2>2 DEF Unique, DistinctPaths
<1>6. Held' \subseteq Held
  <2>1. r \in Range(picks)
    BY PickFacts
  <2> QED BY <1>1, <2>1 DEF Held
<1>7. Left' = Left
  BY DEF Left
<1>8. Covered'
  <2>1. CASE phase' = "failed" /\ eco = "npm"
    <3>1. \A x : Range(Followed(x))' = {}
      <4>1. \A x : Followed(x)' = <<>>
        BY <2>1 DEF Followed
      <4> QED BY <4>1, NoRange
    <3>2. marks' = {} /\ eco' = "npm" /\ phase' = "failed"
      BY <2>1 DEF CollectInv, Staged
    <3>3. ~Seeded'
      BY <2>1 DEF Seeded
    <3> QED BY <3>1, <3>2, <3>3 DEF Covered
  <2>2. CASE r \in Range(pkgs') \/ r[1] \in skipped'
    <3>1. \A x \in Held : x \in Held' \/ x[1] \in skipped'
      BY <1>1, <2>2 DEF Held
    <3>2. \A w \in Left : Met(w)'
      BY <1>7 DEF Met
    <3>3. Seeded
      BY <1>3 DEF Seeded
    <3>4. \A x \in Held' : x \in Held
      BY <1>6
    <3>5. phase' # "pins" /\ marks' = marks /\ tried' = tried
      OBVIOUS
    <3>6. CollectTypeOK /\ Covered
      BY DEF CollectInv
    <3> QED BY <3>1, <3>2, <3>3, <3>4, <3>5, <3>6, Onward
  <2> QED BY <2>1, <2>2
<1> QED BY <1>2, <1>4, <1>5, <1>8 DEF CollectInv

(* A pick staged whole.                                                      *)
LEMMA TakeStage ==
  ASSUME CollectAssumption, CollectInv, phase = "download", picks # <<>>, eco # "go",
         NEW r, r = Head(picks), NEW parts, Partition(parts), Stage(r, parts)
  PROVE  /\ pkgs' \in Seq(PkgReleases) /\ files' \in Seq(PkgReleases \X FileParts)
         /\ Range(pkgs') = Range(pkgs) \cup {r} /\ {f[1] : f \in Range(files')} = Range(pkgs')
         /\ AskedOnce => DistinctPaths(files')
<1>1. r \in PkgReleases /\ r \notin Range(pkgs)
  BY PickFacts
<1>2. /\ pkgs' \in Seq(PkgReleases) /\ files' \in Seq(PkgReleases \X FileParts)
      /\ Range(pkgs') = Range(pkgs) \cup {r} /\ {f[1] : f \in Range(files')} = Range(pkgs')
      /\ DistinctPaths(files) => DistinctPaths(files')
  BY <1>1, StageFacts DEF CollectInv, Partition
<1> QED BY <1>2 DEF CollectInv, Unique

(* Nothing staged.                                                           *)
LEMMA TakeNothing ==
  ASSUME CollectInv, UNCHANGED content
  PROVE  /\ pkgs' \in Seq(PkgReleases) /\ files' \in Seq(PkgReleases \X FileParts)
         /\ Range(pkgs') = Range(pkgs) /\ {f[1] : f \in Range(files')} = Range(pkgs')
         /\ AskedOnce => DistinctPaths(files')
<1>1. pkgs' = pkgs /\ files' = files
  BY DEF content
<1> QED BY <1>1 DEF CollectInv, CollectTypeOK, Unique

LEMMA DownloadAdvances ==
  ASSUME CollectAssumption, CollectInv, NEW ok \in BOOLEAN, DownloadPick(ok)
  PROVE  CollectInv'
<1>1. /\ eco \in {"crates", "conda"} /\ phase = "download" /\ picks # <<>> /\ picks' = Tail(picks)
      /\ UNCHANGED <<eco, request, phase, queue, marks, tried, cache, rounds>>
  BY DEF DownloadPick
<1>2. skipped \subseteq PkgNames /\ Head(picks)[1] \in PkgNames
  BY <1>1, PickFacts, ReleaseParts DEF CollectInv, CollectTypeOK
<1>3. CASE Stage(Head(picks), <<"file">>) /\ UNCHANGED skipped
  BY <1>1, <1>2, <1>3, PartsFacts, TakeStage, TakeStep
<1>4. CASE skipped' = skipped \cup {Head(picks)[1]} /\ UNCHANGED content
  BY <1>1, <1>2, <1>4, TakeNothing, TakeStep
<1> QED BY <1>3, <1>4 DEF DownloadPick

LEMMA NpmAdvances ==
  ASSUME CollectAssumption, CollectInv, NEW answer, NEW att \in BOOLEAN, downloadNpmPackage(answer, att)
  PROVE  CollectInv'
<1>1. /\ eco = "npm" /\ phase = "download" /\ picks # <<>> /\ picks' = Tail(picks)
      /\ phase' = IF answer = "disk" THEN "failed" ELSE phase
      /\ UNCHANGED <<eco, request, queue, marks, tried, cache, rounds>>
  BY DEF downloadNpmPackage
<1>2. skipped \subseteq PkgNames /\ Head(picks)[1] \in PkgNames
  BY <1>1, PickFacts, ReleaseParts DEF CollectInv, CollectTypeOK
<1>3. Partition(npmParts(att))
  <2>1. Partition(<<"file", "attestations">>)
    BY DEF FileParts, IsInjective, Partition
  <2> QED BY <2>1, PartsFacts DEF npmParts
<1>4. phase' \in {"download", "failed"}
  BY <1>1
<1>5. CASE Stage(Head(picks), npmParts(att)) /\ UNCHANGED skipped
  BY <1>1, <1>2, <1>3, <1>4, <1>5, TakeStage, TakeStep
<1>6. CASE skipped' = skipped \cup {Head(picks)[1]} /\ UNCHANGED content
  BY <1>1, <1>2, <1>4, <1>6, TakeNothing, TakeStep
<1>7. CASE answer = "disk" /\ UNCHANGED <<content, skipped>>
  <2>1. phase' = "failed" /\ UNCHANGED content /\ skipped' = skipped
    BY <1>1, <1>7 DEF content
  <2> QED BY <1>1, <1>2, <1>4, <2>1, TakeNothing, TakeStep
<1> QED BY <1>5, <1>6, <1>7 DEF downloadNpmPackage

(* A module fetched: of its three files, those not in the manifest yet.      *)
LEMMA GoFetchAdvances ==
  ASSUME CollectAssumption, CollectInv, NEW ok \in BOOLEAN, fetchBundleContent(ok)
  PROVE  CollectInv'
<1> DEFINE r == Head(picks)
           m == manifestForModule(r)
           K == {i \in DOMAIN m : m[i] \notin Range(files)}
<1>1. /\ eco = "go" /\ phase = "download" /\ picks # <<>> /\ picks' = Tail(picks)
      /\ UNCHANGED <<eco, request, phase, queue, marks, tried, cache, rounds>>
  BY DEF fetchBundleContent
<1>2. skipped \subseteq PkgNames /\ r[1] \in PkgNames /\ r \in PkgReleases
  BY <1>1, PickFacts, ReleaseParts DEF CollectInv, CollectTypeOK
<1>3. /\ pkgs \in Seq(PkgReleases) /\ files \in Seq(PkgReleases \X FileParts) /\ {f[1] : f \in Range(files)} = Range(pkgs)
      /\ AskedOnce => DistinctPaths(files)
  BY DEF CollectInv, CollectTypeOK, Unique
<1>4. CASE pkgs' = Append(pkgs, r) /\ files' = files \o At(m, K) /\ UNCHANGED skipped
  <2>1. m \in Seq(PkgReleases \X FileParts) /\ DOMAIN m = 1 .. 3
        /\ m[1] = <<r, "info">> /\ m[2] = <<r, "mod">> /\ m[3] = <<r, "zip">>
    BY <1>2 DEF manifestForModule, FileParts
  <2>2. \A k, l \in K : m[k] = m[l] => k = l
    <3>1. \A k \in K : k = 1 \/ k = 2 \/ k = 3
      BY <2>1
    <3>2. m[1] # m[2] /\ m[1] # m[3] /\ m[2] # m[3]
      BY <2>1
    <3> QED BY <3>1, <3>2
  <2>3. At(m, K) \in Seq(PkgReleases \X FileParts) /\ Range(At(m, K)) = {m[k] : k \in K} /\ IsInjective(At(m, K))
    <3>1. K \in SUBSET DOMAIN m
      OBVIOUS
    <3> HIDE DEF K, m
    <3> QED BY <2>1, <2>2, <3>1, AtFacts
  <2>4. pkgs' \in Seq(PkgReleases) /\ Range(pkgs') = Range(pkgs) \cup {r}
    BY <1>2, <1>3, <1>4, AppendRange
  <2>5. files' \in Seq(PkgReleases \X FileParts) /\ Range(files') = Range(files) \cup {m[k] : k \in K}
    <3> HIDE DEF K, m
    <3> QED BY <1>3, <1>4, <2>3, ConcatRange
  <2>6. {f[1] : f \in Range(files')} = Range(pkgs')
    <3>1. \A k \in DOMAIN m : m[k][1] = r
      BY <2>1
    <3>2. 1 \in DOMAIN m
      BY <2>1
    <3>3. m[1] \in Range(files')
      BY <2>5, <3>2
    <3>4. \A f \in Range(files') : f \in Range(files) \/ f[1] = r
      BY <2>5, <3>1
    <3> HIDE DEF K, m
    <3> QED BY <1>3, <2>4, <2>5, <3>1, <3>2, <3>3, <3>4
  <2>7. AskedOnce => DistinctPaths(files')
    <3>1. Range(files) \cap Range(At(m, K)) = {}
      BY <2>3
    <3> HIDE DEF K, m
    <3> QED BY <1>3, <1>4, <2>3, <3>1, ConcatDistinct DEF DistinctPaths
  <2> QED BY <1>1, <1>2, <1>4, <2>4, <2>5, <2>6, <2>7, TakeStep
<1>5. CASE skipped' = skipped \cup {r[1]} /\ UNCHANGED content
  BY <1>1, <1>2, <1>5, TakeNothing, TakeStep
<1> QED BY <1>4, <1>5 DEF fetchBundleContent, Filter

----------------------------------------------------------------------------
(* What npm, mvn and pip left behind.                                        *)
Mirrored == [i \in DOMAIN Mirrorable(request) |-> Release(Mirrorable(request)[i])]

LEMMA PinRelease ==
  \A w \in Wants : \A v \in PkgVersions : w.accept = {v} => Release(w) = <<w.name, v>> /\ Release(w) \in PkgReleases
BY DEF Release, Wants, PkgReleases

LEMMA MirrorFacts ==
  ASSUME CollectAssumption, CollectTypeOK
  PROVE  /\ Mirrored \in Seq(PkgReleases) /\ Len(Mirrored) \in Nat
         /\ \A w \in Range(request) : w.kind = "pin" => \E r \in Range(Mirrored) : r[1] = w.name
         /\ eco \in {"maven", "python"} => IsInjective(Mirrored)
<1> DEFINE K == {i \in DOMAIN request : request[i].kind = "pin"}
           s == At(request, K)
<1>1. request \in Seq(Wants) /\ DOMAIN request = 1 .. Len(request) /\ K \in SUBSET DOMAIN request
      /\ \A k \in K : request[k] \in Wants /\ \E v \in PkgVersions : request[k].accept = {v}
  BY RequestFacts
<1>2. Mirrorable(request) = s
  BY DEF Mirrorable, Filter
<1>3. s \in Seq(Wants) /\ Range(s) = {request[k] : k \in K} /\ Len(s) \in Nat
      /\ ((\A k, l \in K : request[k] = request[l] => k = l) => IsInjective(s))
  <2> HIDE DEF K
  <2> QED BY <1>1, AtFacts
<1>4. \A i \in 1 .. Len(s) : s[i] \in Wants /\ s[i].kind = "pin" /\ \E v \in PkgVersions : s[i].accept = {v}
  <2> SUFFICES ASSUME NEW i \in 1 .. Len(s)
      PROVE  s[i] \in Wants /\ s[i].kind = "pin" /\ \E v \in PkgVersions : s[i].accept = {v}
    OBVIOUS
  <2>1. s[i] \in Range(s)
    <3> HIDE DEF s
    <3> QED BY <1>3, RangeFacts
  <2>2. PICK k \in K : s[i] = request[k]
    BY <1>3, <2>1
  <2> QED BY <1>1, <2>2
<1>5. DOMAIN s = 1 .. Len(s)
  <2> HIDE DEF s
  <2> QED BY <1>3
<1>6. Mirrored = [i \in 1 .. Len(s) |-> Release(s[i])]
  BY <1>2, <1>5 DEF Mirrored
<1>7. \A i \in 1 .. Len(s) : Release(s[i]) \in PkgReleases /\ Release(s[i])[1] = s[i].name
  BY <1>4, PinRelease
<1>8. Mirrored \in Seq(PkgReleases) /\ Len(Mirrored) = Len(s) /\ \A i \in 1 .. Len(s) : Mirrored[i] = Release(s[i])
  <2> HIDE DEF s
  <2> QED BY <1>3, <1>6, <1>7
<1>9. ASSUME NEW w \in Range(request), w.kind = "pin" PROVE \E r \in Range(Mirrored) : r[1] = w.name
  <2>1. PICK k \in DOMAIN request : w = request[k]
    BY <1>1, RangeFacts
  <2>2. w \in Range(s)
    BY <1>3, <1>9, <2>1
  <2>3. PICK i \in 1 .. Len(s) : w = s[i]
    <3> HIDE DEF s
    <3> QED BY <1>3, <2>2, RangeFacts
  <2>4. Mirrored[i] \in Range(Mirrored)
    BY <1>3, <1>8, <2>3, RangeFacts
  <2> QED BY <1>7, <1>8, <2>3, <2>4
<1>10. ASSUME eco \in {"maven", "python"} PROVE IsInjective(Mirrored)
  <2>1. \A k, l \in K : request[k].name = request[l].name /\ request[k].accept = request[l].accept => k = l
    BY <1>1, <1>10, RequestFacts
  <2>2. IsInjective(s)
    BY <1>3, <2>1
  <2>3. ASSUME NEW i \in 1 .. Len(s), NEW j \in 1 .. Len(s), Release(s[i]) = Release(s[j]) PROVE i = j
    <3>1. PICK v \in PkgVersions : s[i].accept = {v}
      BY <1>4
    <3>2. PICK u \in PkgVersions : s[j].accept = {u}
      BY <1>4
    <3>3. <<s[i].name, v>> = <<s[j].name, u>>
      BY <1>4, <2>3, <3>1, <3>2, PinRelease
    <3>4. s[i].name = s[j].name /\ s[i].accept = s[j].accept
      BY <3>1, <3>2, <3>3
    <3>5. s[i] = s[j]
      BY <1>4, <3>4, SameWant
    <3> HIDE DEF s
    <3> QED BY <1>5, <2>2, <3>5 DEF IsInjective
  <2>4. DOMAIN Mirrored = 1 .. Len(s)
    BY <1>6
  <2> HIDE DEF s
  <2> QED BY <1>8, <2>3, <2>4 DEF IsInjective
<1> QED BY <1>3, <1>8, <1>9, <1>10

(* Before the first step of these, nothing is there.                         *)
LEMMA UntouchedFacts ==
  ASSUME CollectInv, Untouched
  PROVE  /\ queue = <<>> /\ picks = <<>> /\ pkgs = <<>> /\ files = <<>> /\ marks = {} /\ tried = {} /\ skipped = {}
         /\ Range(pkgs) = {} /\ Range(picks) = {} /\ Range(files) = {} /\ Range(queue) = {}
BY NoRange DEF CollectInv, Staged

LEMMA LockAdvances ==
  ASSUME CollectAssumption, CollectInv, parseNpmLock
  PROVE  CollectInv'
<1>1. /\ eco = "npm" /\ phase = "resolve" /\ queue' = <<>> /\ phase' = "download"
      /\ skipped' = {w.name : w \in {x \in Range(request) : x.kind = "bad"}}
      /\ UNCHANGED <<eco, request, marks, tried, cache, pkgs, files, rounds>>
  BY DEF parseNpmLock, content
<1>2. picks' = Once(Mirrored)
  BY DEF parseNpmLock, npmLockReleases, Mirrored
<1>3. /\ queue = <<>> /\ pkgs = <<>> /\ files = <<>> /\ marks = {} /\ tried = {}
      /\ Range(pkgs) = {} /\ Range(files) = {}
  BY <1>1, UntouchedFacts DEF Untouched
<1>4. picks' \in Seq(PkgReleases) /\ Range(picks') = Range(Mirrored) /\ IsInjective(picks')
  BY <1>2, MirrorFacts, OnceFacts DEF CollectInv
<1>5. Range(request) \subseteq Wants /\ \A w \in Range(request) : w.kind \in {"pin", "aux", "bad"}
  <2>1. \A w \in Range(request) : \E i \in 1 .. Len(request) : w = request[i]
    BY RequestFacts, RangeFacts DEF CollectInv
  <2> QED BY <1>1, <2>1, RequestFacts DEF CollectInv, Asks
<1>6. CollectTypeOK'
  <2>1. skipped' \subseteq PkgNames
    BY <1>1, <1>5, WantFields
  <2>2. <<>> \in Seq(Wants)
    BY NoRange
  <2> QED BY <1>1, <1>4, <2>1, <2>2 DEF CollectInv, CollectTypeOK
<1>7. Staged'
  BY <1>1, <1>3 DEF Staged, Untouched
<1>8. Unique'
  <2>1. {f[1] : f \in Range(files')} = Range(pkgs') /\ Range(picks') \cap Range(pkgs') = {}
    BY <1>1, <1>3
  <2>2. AskedOnce' => DistinctPaths(files')
    BY <1>1, <1>3 DEF DistinctPaths, IsInjective
  <2> QED BY <1>1, <1>4, <2>1, <2>2 DEF Unique
<1>9. Covered'
  <2>1. \A x : Range(Followed(x))' = {}
    <3>1. \A x : Followed(x)' = <<>>
      BY <1>1 DEF Followed
    <3> QED BY <3>1, NoRange
  <2>2. \A w \in Range(request) : w.kind = "aux" \/ Met(w)'
    <3> SUFFICES ASSUME NEW w \in Range(request), w.kind # "aux" PROVE Met(w)'
      OBVIOUS
    <3>1. CASE w.kind = "bad"
      BY <1>1, <3>1 DEF Met, Settled
    <3>2. CASE w.kind = "pin"
      <4>1. PICK r \in Range(Mirrored) : r[1] = w.name
        BY <3>2, MirrorFacts DEF CollectInv
      <4>2. r \in Held' /\ Answers(w, r)'
        BY <1>1, <1>4, <4>1 DEF Held, Answers
      <4> QED BY <4>2 DEF Met, Settled
    <3> QED BY <1>5, <3>1, <3>2
  <2>3. marks' = {} /\ eco' = "npm" /\ phase' = "download" /\ request' = request
    BY <1>1, <1>3
  <2> QED BY <2>1, <2>2, <2>3 DEF Covered
<1> QED BY <1>6, <1>7, <1>8, <1>9 DEF CollectInv

(* The files of a repository or a directory: one for each record.            *)
LEMMA MirrorSigned ==
  ASSUME CollectAssumption, CollectInv, eco \in {"maven", "python"}, rounds' = 0,
         pkgs' = Mirrored, files' = [i \in DOMAIN Mirrored |-> <<Mirrored[i], "file">>]
  PROVE  /\ pkgs' \in Seq(PkgReleases) /\ files' \in Seq(PkgReleases \X FileParts) /\ DistinctPaths(files')
         /\ {f[1] : f \in Range(files')} = Range(pkgs') /\ Signed' /\ Len(pkgs') \in Nat
         /\ \A f \in Range(files') : f[2] = "file"
<1>1. Mirrored \in Seq(PkgReleases) /\ Len(Mirrored) \in Nat /\ IsInjective(Mirrored) /\ DOMAIN Mirrored = 1 .. Len(Mirrored)
  BY MirrorFacts DEF CollectInv
<1>2. \A i \in DOMAIN Mirrored : Mirrored[i] \in PkgReleases
  BY <1>1
<1>3. /\ files' \in Seq(PkgReleases \X FileParts) /\ Len(files') = Len(Mirrored) /\ DOMAIN files' = DOMAIN Mirrored
      /\ \A i \in DOMAIN Mirrored : files'[i] = <<Mirrored[i], "file">>
  <2>1. "file" \in FileParts
    BY DEF FileParts
  <2> QED BY <1>1, <1>2, <2>1
<1>4. DistinctPaths(files')
  <2>1. \A i, j \in DOMAIN Mirrored : files'[i] = files'[j] => Mirrored[i] = Mirrored[j]
    BY <1>3
  <2> QED BY <1>1, <1>3, <2>1 DEF DistinctPaths, IsInjective
<1>5. {f[1] : f \in Range(files')} = Range(pkgs') /\ \A f \in Range(files') : f[2] = "file"
  <2>1. ASSUME NEW f \in Range(files') PROVE f[1] \in Range(pkgs') /\ f[2] = "file"
    <3>1. PICK i \in DOMAIN Mirrored : f = <<Mirrored[i], "file">>
      BY <1>3, <2>1 DEF Range
    <3>2. Mirrored[i] \in Range(Mirrored)
      BY DEF Range
    <3> QED BY <3>1, <3>2
  <2>2. ASSUME NEW r \in Range(pkgs') PROVE \E f \in Range(files') : f[1] = r
    <3>1. PICK i \in DOMAIN Mirrored : r = Mirrored[i]
      BY <2>2 DEF Range
    <3>2. files'[i] \in Range(files') /\ files'[i][1] = r
      BY <1>3, <3>1 DEF Range
    <3> QED BY <3>2
  <2>3. {f[1] : f \in Range(files')} = Range(pkgs')
    <3>1. \A f \in Range(files') : f[1] \in Range(pkgs')
      BY <2>1
    <3>2. \A r \in Range(pkgs') : \E f \in Range(files') : r = f[1]
      BY <2>2
    <3> QED BY ONLY <3>1, <3>2
  <2> QED BY ONLY <2>1, <2>3
<1>6. Signed'
  <2>1. Len(pkgs') = Len(Mirrored) /\ Len(files') = Len(Mirrored)
    BY <1>3
  <2>2. \A i \in 1 .. Len(Mirrored) : files'[i][2] = "file"
    BY <1>1, <1>3
  <2>3. \A i \in Len(Mirrored) + 1 .. Len(Mirrored) : FALSE
    BY <1>1
  <2> QED BY <1>1, <2>1, <2>2, <2>3 DEF Signed
<1> QED BY <1>1, <1>3, <1>4, <1>5, <1>6

LEMMA MavenAdvances ==
  ASSUME CollectAssumption, CollectInv, collectMavenRepo
  PROVE  CollectInv'
<1>1. /\ eco = "maven" /\ phase = "resolve" /\ queue' = <<>> /\ phase' \in {"failed", "extras"}
      /\ UNCHANGED <<eco, request, marks, tried, cache, picks, skipped, rounds>>
  BY DEF collectMavenRepo
<1>2. pkgs' = Mirrored /\ files' = [i \in DOMAIN Mirrored |-> <<Mirrored[i], "file">>]
  BY DEF collectMavenRepo, Mirrored
<1>3. picks = <<>> /\ marks = {} /\ tried = {} /\ skipped = {} /\ Range(picks) = {}
  BY <1>1, UntouchedFacts DEF Untouched
<1>4. rounds = 0 /\ rounds' = 0
  BY <1>1 DEF CollectInv, Staged
<1>5. /\ pkgs' \in Seq(PkgReleases) /\ files' \in Seq(PkgReleases \X FileParts) /\ DistinctPaths(files')
      /\ {f[1] : f \in Range(files')} = Range(pkgs') /\ Signed' /\ Len(pkgs') \in Nat
  BY <1>1, <1>2, <1>4, MirrorSigned
<1>6. CollectTypeOK'
  BY <1>1, <1>5, NoRange DEF CollectInv, CollectTypeOK
<1>7. Staged'
  BY <1>1, <1>3, <1>4, <1>5 DEF Staged, Untouched
<1>8. Unique'
  BY <1>1, <1>5 DEF Unique
<1>9. Covered'
  <2>1. \A x : Range(Followed(x))' = {}
    <3>1. \A x : Followed(x)' = <<>>
      BY <1>1 DEF Followed
    <3> QED BY <3>1, NoRange
  <2>2. \A w \in Range(request) : w.kind = "aux" \/ Met(w)'
    <3> SUFFICES ASSUME NEW w \in Range(request), w.kind # "aux" PROVE Met(w)'
      OBVIOUS
    <3>1. w.kind = "pin"
      <4>1. PICK i \in 1 .. Len(request) : w = request[i]
        BY RequestFacts, RangeFacts DEF CollectInv
      <4> QED BY <1>1, <4>1, RequestFacts DEF CollectInv, Asks
    <3>2. PICK r \in Range(Mirrored) : r[1] = w.name
      BY <3>1, MirrorFacts DEF CollectInv
    <3>3. r \in Held' /\ Answers(w, r)'
      BY <1>1, <1>2, <3>2 DEF Held, Answers
    <3> QED BY <3>3 DEF Met, Settled
  <2>3. marks' = {} /\ eco' = "maven" /\ phase' \in {"failed", "extras"} /\ request' = request
    BY <1>1, <1>3
  <2> QED BY <2>1, <2>2, <2>3 DEF Covered
<1> QED BY <1>6, <1>7, <1>8, <1>9 DEF CollectInv

LEMMA DistAdvances ==
  ASSUME CollectAssumption, CollectInv, collectPythonDist
  PROVE  CollectInv'
<1> DEFINE K == {i \in DOMAIN request : request[i].kind \in {"latest", "range"}}
<1>1. /\ eco = "python" /\ phase = "pins" /\ queue' = At(request, K) /\ phase' = "resolve"
      /\ skipped' = {w.name : w \in {x \in Range(request) : x.kind = "bad"}}
      /\ UNCHANGED <<eco, request, marks, tried, cache, picks, rounds>>
  BY DEF collectPythonDist, Filter
<1>2. pkgs' = Mirrored /\ files' = [i \in DOMAIN Mirrored |-> <<Mirrored[i], "file">>]
  BY DEF collectPythonDist, Mirrored
<1>3. picks = <<>> /\ marks = {} /\ tried = {} /\ Range(picks) = {}
  BY <1>1, UntouchedFacts DEF Untouched
<1>4. rounds = 0 /\ rounds' = 0
  BY <1>1 DEF CollectInv, Staged
<1>5. /\ pkgs' \in Seq(PkgReleases) /\ files' \in Seq(PkgReleases \X FileParts) /\ DistinctPaths(files')
      /\ {f[1] : f \in Range(files')} = Range(pkgs') /\ Signed' /\ Len(pkgs') \in Nat
      /\ \A f \in Range(files') : f[2] = "file"
  BY <1>1, <1>2, <1>4, MirrorSigned
<1>6. request \in Seq(Wants) /\ DOMAIN request = 1 .. Len(request) /\ K \in SUBSET DOMAIN request
      /\ Range(request) \subseteq Wants /\ \A w \in Range(request) : w.kind \in {"pin", "bad", "latest", "range"}
  <2>1. \A w \in Range(request) : \E i \in 1 .. Len(request) : w = request[i]
    BY RequestFacts, RangeFacts DEF CollectInv
  <2> QED BY <1>1, <2>1, RequestFacts DEF CollectInv, Asks
<1>7. /\ queue' \in Seq(Wants) /\ Range(queue') = {request[k] : k \in K} /\ DOMAIN queue' = 1 .. Len(queue')
      /\ (\A k, l \in K : request[k] = request[l] => k = l) => IsInjective(queue')
  <2> HIDE DEF K
  <2> QED BY <1>1, <1>6, AtFacts
<1>8. CollectTypeOK'
  <2>1. skipped' \subseteq PkgNames
    BY <1>1, <1>6, WantFields
  <2> QED BY <1>1, <1>5, <1>7, <2>1 DEF CollectInv, CollectTypeOK
<1>9. Staged'
  BY <1>1, <1>3, <1>4, <1>5 DEF Staged, Untouched
<1>10. AskedOnce => NamesLeft'
  <2> SUFFICES ASSUME AskedOnce PROVE NamesLeft'
    OBVIOUS
  <2>1. \A k, l \in K : request[k].name = request[l].name => k = l
    BY <1>1 DEF AskedOnce
  <2>2. IsInjective(queue')
    BY <1>7, <2>1
  <2>3. ASSUME NEW i \in DOMAIN queue', NEW j \in DOMAIN queue', queue'[i].name = queue'[j].name PROVE i = j
    <3>1. queue'[i] \in Range(queue') /\ queue'[j] \in Range(queue')
      BY <1>7, RangeFacts
    <3>2. PICK k \in K : queue'[i] = request[k]
      BY <1>7, <3>1
    <3>3. PICK l \in K : queue'[j] = request[l]
      BY <1>7, <3>1
    <3>4. k = l
      BY <2>1, <2>3, <3>2, <3>3
    <3> QED BY <2>2, <3>2, <3>3, <3>4 DEF IsInjective
  <2> HIDE DEF K
  <2> QED BY <1>5, <2>3 DEF NamesLeft
<1>11. Unique'
  <2>1. AskedOnce' = AskedOnce
    BY <1>1 DEF AskedOnce
  <2> QED BY <1>1, <1>5, <1>10, <2>1 DEF Unique
<1>12. Covered'
  <2>1. \A x : Range(Followed(x))' = {}
    <3>1. \A x : Followed(x)' = <<>>
      BY <1>1 DEF Followed
    <3> QED BY <3>1, NoRange
  <2>2. \A w \in Range(request) : w.kind = "aux" \/ Met(w)'
    <3> SUFFICES ASSUME NEW w \in Range(request) PROVE Met(w)'
      OBVIOUS
    <3>1. CASE w.kind = "bad"
      BY <1>1, <3>1 DEF Met, Settled
    <3>2. CASE w.kind = "pin"
      <4>1. PICK r \in Range(Mirrored) : r[1] = w.name
        BY <3>2, MirrorFacts DEF CollectInv
      <4>2. r \in Held' /\ Answers(w, r)'
        BY <1>1, <1>2, <4>1 DEF Held, Answers
      <4> QED BY <4>2 DEF Met, Settled
    <3>3. CASE w.kind \in {"latest", "range"}
      <4>1. PICK i \in 1 .. Len(request) : w = request[i]
        BY <1>6, RangeFacts
      <4>2. w \in Range(queue')
        BY <1>6, <1>7, <3>3, <4>1
      <4> QED BY <4>2 DEF Met, Left
    <3> QED BY <1>6, <3>1, <3>2, <3>3
  <2>3. marks' = {} /\ eco' = "python" /\ phase' = "resolve" /\ request' = request
    BY <1>1, <1>3
  <2> QED BY <2>1, <2>2, <2>3 DEF Covered
<1> QED BY <1>8, <1>9, <1>11, <1>12 DEF CollectInv

(* The signature, or provenance, of one file.                                *)
LEMMA ExtraAdvances ==
  ASSUME CollectAssumption, CollectInv, NEW found \in BOOLEAN, fetchExtra(found)
  PROVE  CollectInv'
<1> DEFINE f == files[rounds + 1]
<1>1. /\ phase = "extras" /\ rounds' = rounds + 1 /\ eco \in {"maven", "python"}
      /\ UNCHANGED <<eco, request, phase, queue, marks, tried, cache, picks, pkgs, skipped>>
  BY DEF fetchExtra, CollectInv, Staged
<1>2. /\ files \in Seq(PkgReleases \X FileParts) /\ Len(files) \in Nat /\ Len(pkgs) \in Nat /\ rounds \in Nat
      /\ Len(pkgs) <= Len(files) /\ {g[1] : g \in Range(files)} = Range(pkgs) /\ Signed
      /\ DOMAIN files = 1 .. Len(files) /\ (AskedOnce => DistinctPaths(files))
  BY <1>1 DEF CollectInv, CollectTypeOK, Unique, Signed
<1>3. Len(Originals) = Len(pkgs) /\ \A i \in 1 .. Len(pkgs) : Originals[i] = files[i]
  BY <1>2 DEF Originals
<1>4. rounds < Len(pkgs)
  BY <1>3 DEF fetchExtra
<1>5. rounds + 1 \in 1 .. Len(pkgs) /\ rounds + 1 \in 1 .. Len(files) /\ Originals[rounds + 1] = f
  BY <1>2, <1>3, <1>4
<1>6. f \in PkgReleases \X FileParts /\ f \in Range(files) /\ f[2] \in {"file", "sdist"}
  BY <1>2, <1>5, RangeFacts DEF Signed
<1>7. Signature(f) \in PkgReleases \X FileParts /\ Signature(f)[1] = f[1] /\ Signature(f)[2] \in {"file.sig", "sdist.sig"}
  BY <1>6 DEF Signature, FileParts
<1>8. files' = Append(files, Signature(f)) \/ files' = files
  BY <1>5 DEF fetchExtra, Signature
<1>9. /\ files' \in Seq(PkgReleases \X FileParts) /\ Len(files) <= Len(files')
      /\ Range(files) \subseteq Range(files') /\ Range(files') \subseteq Range(files) \cup {Signature(f)}
      /\ \A i \in 1 .. Len(files) : files'[i] = files[i]
      /\ \A i \in Len(files) + 1 .. Len(files') : files'[i] = Signature(f)
  <2>1. CASE files' = Append(files, Signature(f))
    <3>1. /\ files' \in Seq(PkgReleases \X FileParts) /\ Len(files') = Len(files) + 1
          /\ Range(files') = Range(files) \cup {Signature(f)} /\ files'[Len(files) + 1] = Signature(f)
          /\ \A i \in 1 .. Len(files) : files'[i] = files[i]
      <4> HIDE DEF f
      <4> QED BY <1>2, <1>7, <2>1, AppendRange
    <3>2. \A i \in Len(files) + 1 .. Len(files') : i = Len(files) + 1
      BY <1>2, <3>1
    <3> QED BY <1>2, <3>1, <3>2
  <2>2. CASE files' = files
    BY <1>2, <2>2
  <2> QED BY <1>8, <2>1, <2>2
<1>10. CollectTypeOK'
  BY <1>1, <1>2, <1>9 DEF CollectInv, CollectTypeOK
<1>11. Staged'
  <2>1. rounds' <= Len(pkgs')
    BY <1>1, <1>2, <1>4
  <2>2. eco = "npm" => marks = {}
    BY DEF CollectInv, Staged
  <2>3. picks = <<>>
    BY <1>1 DEF CollectInv, Staged
  <2> QED BY <1>1, <2>1, <2>2, <2>3 DEF Staged, Untouched
<1>12. Signed'
  <2>1. Len(pkgs') <= Len(files')
    <3>1. Len(files') \in Nat
      BY <1>9
    <3> QED BY <1>1, <1>2, <1>9, <3>1
  <2>2. \A i \in 1 .. Len(pkgs') : files'[i][2] \in {"file", "sdist"}
    BY <1>1, <1>2, <1>9 DEF Signed
  <2>3. ASSUME NEW i \in Len(pkgs') + 1 .. Len(files')
        PROVE  \E k \in 1 .. rounds' : files'[i] = Signature(files'[k])
    <3>1. Len(files') \in Nat /\ Len(pkgs') = Len(pkgs)
      BY <1>1, <1>9
    <3>2. CASE i <= Len(files)
      <4>1. i \in Len(pkgs) + 1 .. Len(files) /\ i \in 1 .. Len(files)
        BY <1>2, <2>3, <3>1, <3>2
      <4>2. PICK k \in 1 .. rounds : files[i] = Signature(files[k])
        BY <1>2, <4>1 DEF Signed
      <4>3. k \in 1 .. (rounds + 1) /\ k \in 1 .. Len(files)
        BY <1>2, <1>4, <4>2
      <4>4. files'[i] = files[i] /\ files'[k] = files[k]
        BY <1>9, <4>1, <4>3
      <4>5. files'[i] = Signature(files'[k]) /\ k \in 1 .. rounds'
        BY <1>1, <4>2, <4>3, <4>4
      <4> QED BY <4>5
    <3>3. CASE i > Len(files)
      <4>1. i \in Len(files) + 1 .. Len(files')
        BY <1>2, <2>3, <3>1, <3>3
      <4>2. files'[i] = Signature(f) /\ files'[rounds + 1] = f
        BY <1>5, <1>9, <4>1
      <4>3. rounds + 1 \in 1 .. rounds'
        BY <1>1, <1>2, CountUp
      <4> QED BY <4>2, <4>3
    <3> QED BY <1>2, <2>3, <3>1, <3>2, <3>3
  <2>4. phase' = "extras"
    BY <1>1
  <2> QED BY <2>1, <2>2, <2>3, <2>4 DEF Signed
<1>13. AskedOnce => DistinctPaths(files')
  <2> SUFFICES ASSUME AskedOnce PROVE DistinctPaths(files')
    OBVIOUS
  <2>1. IsInjective(files)
    BY <1>2 DEF DistinctPaths
  <2>2. Signature(f) \notin Range(files)
    <3> SUFFICES ASSUME Signature(f) \in Range(files) PROVE FALSE
      OBVIOUS
    <3>1. PICK i \in 1 .. Len(files) : Signature(f) = files[i]
      BY <1>2, RangeFacts
    <3>2. i \notin 1 .. Len(pkgs)
      BY <1>2, <1>7, <3>1 DEF Signed
    <3>3. i \in Len(pkgs) + 1 .. Len(files)
      BY <1>2, <3>2
    <3>4. PICK k \in 1 .. rounds : files[i] = Signature(files[k])
      BY <1>2, <3>3 DEF Signed
    <3>5. k \in 1 .. Len(pkgs) /\ k \in DOMAIN files /\ k # rounds + 1 /\ rounds + 1 \in DOMAIN files
      BY <1>2, <1>4, <1>5, <3>4
    <3>6. files[k] \in PkgReleases \X FileParts /\ files[k][2] \in {"file", "sdist"}
      BY <1>2, <3>5 DEF Signed
    <3>7. files[k][1] = f[1] /\ files[k][2] = f[2]
      BY <1>6, <3>1, <3>4, <3>6 DEF Signature
    <3>8. files[k] = f
      BY <1>6, <3>6, <3>7
    <3> QED BY <2>1, <3>5, <3>8 DEF IsInjective
  <2>3. IsInjective(files')
    <3>1. files' = Append(files, Signature(f)) => IsInjective(files')
      <4> HIDE DEF f
      <4> QED BY <1>2, <1>7, <2>1, <2>2, AppendDistinct
    <3> QED BY <1>8, <2>1, <3>1
  <2> QED BY <2>3 DEF DistinctPaths
<1>14. Unique'
  <2>1. AskedOnce' = AskedOnce
    BY <1>1 DEF AskedOnce
  <2>2. {g[1] : g \in Range(files')} = Range(pkgs')
    <3>1. \A g \in Range(files') : g \in Range(files) \/ g[1] = f[1]
      BY <1>7, <1>9
    <3> HIDE DEF f
    <3> QED BY <1>1, <1>2, <1>6, <1>9, <3>1
  <2> QED BY <1>1, <1>12, <1>13, <2>1, <2>2 DEF Unique
<1>15. Covered'
  <2>1. Held' = Held /\ Left' = Left
    BY <1>1 DEF Held, Left
  <2>2. \A w \in Left : Met(w)'
    BY <2>1 DEF Met
  <2>3. Seeded
    BY <1>1 DEF Seeded, Untouched
  <2>4. phase' # "pins" /\ marks' = marks /\ tried' = tried
    BY <1>1
  <2> QED BY <1>1, <2>1, <2>2, <2>3, <2>4, Onward DEF CollectInv
<1> QED BY <1>10, <1>11, <1>14, <1>15 DEF CollectInv

----------------------------------------------------------------------------
(* A shuffle has what it shuffles.                                           *)
LEMMA ShuffleFacts ==
  ASSUME NEW S, NEW s \in Seq(S), NEW t \in Shuffles(s)
  PROVE  t \in Seq(S) /\ Range(t) = Range(s)
<1>1. DOMAIN s = 1 .. Len(s) /\ Len(s) \in Nat /\ \A i \in 1 .. Len(s) : s[i] \in S
  OBVIOUS
<1>2. PICK p \in [DOMAIN s -> DOMAIN s] : IsInjective(p) /\ t = [i \in DOMAIN s |-> s[p[i]]]
  BY DEF Shuffles
<1>3. p \in Surjection(DOMAIN s, DOMAIN s)
  <2>1. p \in Injection(DOMAIN s, DOMAIN s)
    BY <1>2, Fun_IsInj DEF IsInjective
  <2>2. IsFiniteSet(DOMAIN s)
    BY <1>1, FS_Interval
  <2> QED BY <2>1, <2>2, FS_Injection
<1>4. \A k \in DOMAIN s : \E i \in DOMAIN s : p[i] = k
  BY <1>3, Fun_SurjectionProperties
<1>5. DOMAIN t = DOMAIN s /\ \A i \in DOMAIN s : t[i] = s[p[i]] /\ p[i] \in DOMAIN s
  BY <1>2
<1>6. t \in Seq(S)
  <2>1. t \in [1 .. Len(s) -> S]
    BY <1>1, <1>2
  <2> QED BY <1>1, <2>1
<1>7. Range(t) = Range(s)
  BY <1>4, <1>5 DEF Range
<1> QED BY <1>6, <1>7

LEMMA GoAdvances ==
  ASSUME CollectAssumption, CollectInv, NEW u \in BOOLEAN, resolveGoCollectRecords(u)
  PROVE  CollectInv'
<1> DEFINE K == {i \in DOMAIN request : request[i].kind # "aux"}
           specs == At(request, K)
<1>1. eco = "go" /\ phase = "pins" /\ UNCHANGED <<eco, request, queue, marks, tried, cache, pkgs, files, skipped, rounds>>
  BY DEF resolveGoCollectRecords, content
<1>2. /\ queue = <<>> /\ picks = <<>> /\ pkgs = <<>> /\ files = <<>> /\ marks = {} /\ tried = {}
      /\ Range(pkgs) = {} /\ Range(files) = {} /\ Range(picks) = {}
  BY <1>1, UntouchedFacts DEF Untouched
<1>3. parseGoModDownload(request) = specs
  BY DEF parseGoModDownload, Filter
<1>4. /\ request \in Seq(Wants) /\ K \in SUBSET DOMAIN request /\ DOMAIN request = 1 .. Len(request)
      /\ \A k \in DOMAIN request : /\ request[k] \in Wants /\ request[k].kind \in {"latest", "pin", "aux", "bad"}
                                   /\ request[k].kind = "pin" => \E v \in PkgVersions : request[k].accept = {v}
                                   /\ request[k].kind = "latest" => request[k].accept = PkgVersions
  BY <1>1, RequestFacts DEF CollectInv, Asks
<1>5. specs \in Seq(Wants) /\ Range(specs) = {request[k] : k \in K}
  <2> HIDE DEF K
  <2> QED BY <1>4, AtFacts
<1>6. DOMAIN specs = 1 .. Len(specs) /\ Len(specs) \in Nat
  <2> HIDE DEF specs
  <2> QED BY <1>5
<1>7. AskedOnce' = AskedOnce
  BY <1>1 DEF AskedOnce
<1>8. \A x : Range(Followed(x))' = {}
  <2>1. \A x : Followed(x)' = <<>>
    BY <1>1 DEF Followed
  <2> QED BY <2>1, NoRange
<1>9. ASSUME picks' \in Seq(PkgReleases), phase' = "download" \/ (phase' = "failed" /\ picks' = <<>>),
             phase' = "download" => \A w \in Range(request) : w.kind = "aux" \/ Met(w)'
      PROVE  CollectInv'
  <2>1. CollectTypeOK'
    BY <1>1, <1>9 DEF CollectInv, CollectTypeOK
  <2>2. Staged'
    BY <1>1, <1>2, <1>9 DEF Staged, Untouched
  <2>3. Unique'
    BY <1>1, <1>2, <1>7 DEF CollectInv, Unique, DistinctPaths
  <2>4. marks' = {} /\ eco' = "go" /\ request' = request /\ phase' # "pins" /\ (Seeded' => phase' = "download")
    BY <1>1, <1>2, <1>9 DEF Seeded
  <2>5. Covered'
    BY <1>8, <1>9, <2>4 DEF Covered
  <2> QED BY <2>1, <2>2, <2>3, <2>5 DEF CollectInv
<1>10. ASSUME NEW s \in [DOMAIN specs -> PkgReleases], \A i \in DOMAIN specs : s[i] \in resolveGoSpec(specs[i]),
              picks' \in sortRequestRecords(s), \A w \in Range(specs) : w.kind # "bad", phase' = "download"
       PROVE  CollectInv'
  <2>1. s \in Seq(PkgReleases) /\ DOMAIN s = DOMAIN specs
    <3> HIDE DEF specs
    <3> QED BY <1>6, <1>10
  <2>2. picks' \in Seq(PkgReleases) /\ Range(picks') = Range(s)
    <3>1. picks' \in Shuffles(s)
      BY <1>10 DEF sortRequestRecords
    <3> QED BY <2>1, <3>1, ShuffleFacts
  <2>3. ASSUME NEW w \in Range(request), w.kind # "aux" PROVE Met(w)'
    <3>1. PICK k \in DOMAIN request : w = request[k]
      BY <1>4, RangeFacts
    <3>2. w \in Range(specs)
      BY <1>5, <2>3, <3>1
    <3>3. PICK i \in DOMAIN specs : w = specs[i]
      <4> HIDE DEF specs
      <4> QED BY <1>5, <1>6, <3>2, RangeFacts
    <3>4. s[i] \in resolveGoSpec(w) /\ s[i] \in Range(picks') /\ s[i] \in PkgReleases
      <4> HIDE DEF specs
      <4> QED BY <1>10, <2>1, <2>2, <3>3 DEF Range
    <3>5. s[i][1] = w.name /\ s[i][2] \in w.accept
      <4>1. CASE w.kind = "latest"
        <5>1. s[i] \in {<<w.name, v>> : v \in Published[w.name]}
          BY <3>4, <4>1, GreatestIn DEF resolveGoSpec, goLatest
        <5>2. w.accept = PkgVersions
          BY <1>4, <3>1, <4>1
        <5> QED BY <3>4, <5>1, <5>2, ReleaseParts
      <4>2. CASE w.kind = "pin"
        <5>1. PICK v \in PkgVersions : w.accept = {v}
          BY <1>4, <3>1, <4>2
        <5>2. s[i] = Release(w)
          BY <3>4, <4>2 DEF resolveGoSpec
        <5>3. s[i] = <<w.name, v>>
          BY <1>4, <3>1, <5>1, <5>2, PinRelease
        <5> QED BY <5>1, <5>3
      <4> QED BY <1>4, <1>10, <2>3, <3>1, <3>2, <4>1, <4>2
    <3>6. s[i] \in Held' /\ Answers(w, s[i])'
      BY <1>1, <3>4, <3>5 DEF Held, Answers
    <3> QED BY <3>6 DEF Met, Settled
  <2> QED BY <1>9, <1>10, <2>2, <2>3
<1>11. ASSUME phase' = "failed", UNCHANGED picks PROVE CollectInv'
  <2>1. picks' = <<>> /\ picks' \in Seq(PkgReleases)
    BY <1>2, <1>11, NoRange
  <2> QED BY <1>9, <1>11, <2>1
<1> HIDE DEF specs
<1> QED BY <1>3, <1>10, <1>11 DEF resolveGoCollectRecords

----------------------------------------------------------------------------
LEMMA CollectStarts ==
  ASSUME CollectAssumption, CollectInit
  PROVE  CollectInv
<1>1. /\ eco \in Collected /\ request \in Requests[eco] /\ phase = "idle" /\ queue = <<>> /\ marks = {} /\ tried = {}
      /\ cache = {} /\ picks = <<>> /\ pkgs = <<>> /\ files = <<>> /\ skipped = {}
      /\ rounds = IF eco = "conda" THEN CondaSubdirs ELSE 0
  BY DEF CollectInit
<1>2. Range(queue) = {} /\ Range(picks) = {} /\ Range(pkgs) = {} /\ Range(files) = {} /\ Len(pkgs) = 0 /\ Len(files) = 0
  BY <1>1, NoRange
<1>3. CollectTypeOK
  <2>1. rounds \in Nat
    BY <1>1 DEF CollectAssumption
  <2> QED BY <1>1, <2>1, NoRange DEF CollectTypeOK
<1>4. Staged
  BY <1>1 DEF Staged
<1>5. Unique
  <2>1. IsInjective(files) /\ IsInjective(picks)
    BY <1>1 DEF IsInjective
  <2> QED BY <1>1, <1>2, <2>1 DEF Unique, DistinctPaths
<1>6. Covered
  <2>1. Held = {} /\ ~Seeded
    BY <1>1, <1>2 DEF Held, Seeded
  <2> QED BY <1>1, <2>1 DEF Covered
<1> QED BY <1>3, <1>4, <1>5, <1>6 DEF CollectInv

LEMMA CollectStays ==
  ASSUME CollectInv, UNCHANGED collectVars
  PROVE  CollectInv'
<1>1. UNCHANGED <<eco, request, phase, queue, marks, tried, cache, picks, pkgs, files, skipped, rounds>>
  BY DEF collectVars, content
<1>2. CollectTypeOK' /\ Staged'
  BY <1>1 DEF CollectInv, CollectTypeOK, Staged, Untouched
<1>3. Unique'
  BY <1>1 DEF CollectInv, Unique, DistinctPaths, AskedOnce, NamesLeft, Signed, Pinned
<1>4. Covered'
  <2>1. Held' = Held /\ Seeded' = Seeded /\ Left' = Left
    BY <1>1 DEF Held, Seeded, Untouched, Left
  <2>2. \A w : Met(w)' = Met(w)
    BY <1>1, <2>1 DEF Met, Settled, Answers
  <2>3. \A m : Remembered(m)' = Remembered(m)
    BY <1>1, <2>1 DEF Remembered
  <2>4. \A r : Range(Followed(r))' = Range(Followed(r))
    BY <1>1 DEF Followed
  <2> QED BY <1>1, <2>1, <2>2, <2>3, <2>4 DEF CollectInv, Covered
<1> QED BY <1>2, <1>3, <1>4 DEF CollectInv

LEMMA CollectAdvances ==
  ASSUME CollectAssumption, CollectInv, CollectNext
  PROVE  CollectInv'
<1>1. ASSUME NEW u \in BOOLEAN,
             \/ CollectCrates(u) \/ CollectNuget(u) \/ CollectCRAN(u) \/ CollectConda(u) \/ CollectHelm(u)
             \/ CollectTerraform(u) \/ CollectNpm(u) \/ CollectMaven(u) \/ CollectPython(u) \/ CollectComposer(u)
             \/ CollectRubyGems(u) \/ CollectGalaxy(u) \/ CollectVSX(u) \/ CollectSnap(u) \/ CollectGo(u)
      PROVE  CollectInv'
  <2>1. CASE CollectCRAN(u) \/ CollectPython(u) \/ CollectGo(u)
    <3>1. PICK e \in {"cran", "python", "go"} : Begin(e, "pins", u)
      BY <2>1 DEF CollectCRAN, CollectPython, CollectGo
    <3> QED BY <3>1, BeginAdvances
  <2>2. CASE \/ CollectCrates(u) \/ CollectNuget(u) \/ CollectConda(u) \/ CollectHelm(u)
             \/ CollectTerraform(u) \/ CollectNpm(u) \/ CollectMaven(u) \/ CollectComposer(u)
             \/ CollectRubyGems(u) \/ CollectGalaxy(u) \/ CollectVSX(u) \/ CollectSnap(u)
    <3>1. PICK e \in {"crates", "nuget", "conda", "helm", "terraform", "npm", "maven", "composer", "rubygems", "galaxy",
                      "vsx", "snap"} : Begin(e, "resolve", u)
      BY <2>2 DEF CollectCrates, CollectNuget, CollectConda, CollectHelm, CollectTerraform, CollectNpm, CollectMaven,
                  CollectComposer, CollectRubyGems, CollectGalaxy, CollectVSX, CollectSnap
    <3> QED BY <3>1, BeginAdvances
  <2> QED BY <1>1, <2>1, <2>2
<1>2. ASSUME NEW u \in BOOLEAN,
             \/ resolveGoCollectRecords(u) \/ CratesResolve(u)
             \/ \E ok \in BOOLEAN : \/ NugetFetchOne(u, ok) \/ ComposerStep(u, ok)
                                    \/ \E extra \in BOOLEAN : GemResolveOne(u, ok, extra)
      PROVE  CollectInv'
  BY <1>2, GoAdvances, CratesAdvances, NugetAdvances, ComposerAdvances, GemAdvances
<1>3. ASSUME NEW ok \in BOOLEAN,
             \/ CranSeed(ok) \/ CranFetchOne(ok) \/ GalaxyFetchOne(ok) \/ VSXFetchOne(ok)
             \/ SnapFetchOne(ok) \/ TerraformCollectOne(ok)
             \/ DownloadPick(ok) \/ fetchBundleContent(ok) \/ collectPythonSDist(ok) \/ fetchExtra(ok)
             \/ \E extra \in BOOLEAN : HelmDownload(ok, extra)
      PROVE  CollectInv'
  BY <1>3, SeedAdvances, CranAdvances, GalaxyAdvances, TerraformAdvances, DownloadAdvances, GoFetchAdvances,
     SDistAdvances, ExtraAdvances, HelmAdvances
<1>4. CASE \E answer \in {"ok", "refused", "disk"}, extra \in BOOLEAN : downloadNpmPackage(answer, extra)
  BY <1>4, NpmAdvances
<1>5. CASE \/ parseNpmLock \/ collectMavenRepo \/ collectPythonDist \/ startPythonProvenance
           \/ CondaResolve \/ CondaNextPlatform \/ StartDownloads
  BY <1>5, LockAdvances, MavenAdvances, DistAdvances, PhaseAdvances, CondaAdvances, NextPlatformAdvances
<1>6. CASE Writes
  BY <1>6, WriteAdvances
<1> QED BY <1>1, <1>2, <1>3, <1>4, <1>5, <1>6 DEF CollectNext, Writes

LEMMA CollectAlways == CollectSpec => []CollectInv
<1>1. CollectInit => CollectInv
  BY CollectAssumption, CollectStarts
<1>2. CollectInv /\ [CollectNext]_collectVars => CollectInv'
  BY CollectAssumption, CollectAdvances, CollectStays
<1> QED BY <1>1, <1>2, PTL DEF CollectSpec

(* A collect keeps its types: what it queues is a want, what it marks a     *)
(* release or a name as its ecosystem does, and what it stages the files of *)
(* releases of the upstream, whatever the upstream answers (Collect*, cran.go *)
(* and the others).                                                          *)
THEOREM CollectTypeCorrect == CollectSpec => []CollectTypeOK
<1>1. CollectInv => CollectTypeOK
  BY DEF CollectInv
<1> QED BY <1>1, CollectAlways, PTL

(* The manifest of an exported bundle lists no path twice, and its files are *)
(* those of its records (validateManifestFiles, server.go, refuses any       *)
(* other), for every upstream, request and cap.                              *)
THEOREM ManifestsAccepted == CollectSpec => []ManifestAccepted
<1>1. CollectInv => ManifestAccepted
  BY DEF CollectInv, Unique, ManifestAccepted
<1> QED BY <1>1, CollectAlways, PTL

(* What a collect exports is closed: each want of the request, and each     *)
(* runtime dependency that the ecosystem's resolver follows, is answered by  *)
(* a record, reported as skipped, or was still on the list when the loop     *)
(* reached its cap, for every upstream, request and cap.                     *)
THEOREM ExportsClosed == CollectSpec => []ClosedOrReported
<1>1. CollectInv => ClosedOrReported
  <2> SUFFICES ASSUME CollectInv, phase = "exported"
      PROVE  /\ \A w \in Range(request) : w.kind = "aux" \/ Answered(w) \/ w \in Left
             /\ \A r \in Range(pkgs) : \A w \in Range(Followed(r)) : Answered(w) \/ w \in Left
    BY DEF ClosedOrReported
  <2>1. picks = <<>> /\ Range(picks) = {}
    BY NoRange DEF CollectInv, Staged
  <2>2. Held = Range(pkgs)
    BY <2>1 DEF Held
  <2>3. Seeded
    BY DEF Seeded, Untouched
  <2>4. \A w : Met(w) => Answered(w) \/ w \in Left
    BY <2>2 DEF Met, Settled, Answered
  <2> QED BY <2>2, <2>3, <2>4 DEF CollectInv, Covered
<1> QED BY <1>1, CollectAlways, PTL

----------------------------------------------------------------------------
(* The content streams put together: every variable of the collects, the     *)
(* publishers, the operating-system repositories, the container images and   *)
(* the Hugging Face mirrors keeps its type, whichever of them is at work.    *)
THEOREM EcosystemsTypeCorrect == Spec => []EcosystemsTypeOK
<1>1. Init => CollectInit /\ PublishInit /\ OsInit /\ ConInit /\ HfInit
  BY DEF Init
<1>2. [Next]_all => /\ [CollectNext]_collectVars /\ [PublishNext]_publishVars /\ [OsNext]_osVars
                    /\ [ConNext]_conVars /\ [HfNext]_hfVars
  BY DEF Next, all
<1>3. Spec => CollectSpec /\ PublishSpec /\ OsSpec /\ ConSpec /\ HfSpec
  BY <1>1, <1>2, PTL DEF Spec, CollectSpec, PublishSpec, OsSpec, ConSpec, HfSpec
<1>4. CollectTypeOK /\ PublishTypeOK /\ OsTypeOK /\ ConTypeOK /\ HfTypeOK => EcosystemsTypeOK
  BY DEF EcosystemsTypeOK
<1> QED
  BY <1>3, <1>4, CollectTypeCorrect, PublishTypeCorrect, OsTypeCorrect, ContainersTypeCorrect, HfTypeCorrect, PTL

=============================================================================
