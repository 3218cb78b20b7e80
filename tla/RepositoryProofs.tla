-------------------------- MODULE RepositoryProofs --------------------------
(***************************************************************************)
(* Proofs about what the high side serves, for every value of the          *)
(* constants, in four parts.                                               *)
(*                                                                         *)
(* Container images (Containers): a bundle written carries everything its  *)
(* image refers to, what a complete image says of itself is true, and no   *)
(* digest that could be pulled is withdrawn.  The inductive invariant,     *)
(* ConInv, says of a collect that runs what it has found, what is still to *)
(* be fetched and which nodes are open.                                    *)
(*                                                                         *)
(* Operating-system repositories (OsRepos): an index lists installed       *)
(* packages only, and merged indexes never lose one.  The inductive        *)
(* invariant, OsInv, follows the metadata of a bundle to the disk.         *)
(*                                                                         *)
(* Package streams (Publish): whatever a client is told about can be       *)
(* downloaded, at every moment of an import.  The inductive invariant,     *)
(* PubInv, says that publishing comes after the whole installation and     *)
(* that every index was made of installed files.                           *)
(*                                                                         *)
(* Models and repositories (HfMirror): the files a manifest counts on are  *)
(* there, and what the carrier delivers was staged in full.  While an      *)
(* import merges its indexes, all it is about to point at is installed     *)
(* (Loaded), which the check of prior files gives and nothing takes away;  *)
(* and on the low side, what a running collect counts as staged, or lists, *)
(* is in the staging directory or was forwarded by an earlier bundle       *)
(* (StagedOrForwarded).                                                    *)
(***************************************************************************)
EXTENDS Containers, OsRepos, Publish, HfMirror, SequenceTheorems, TLAPS

(* Values.                                                                   *)
Carrying == {"root", "seed", "attestation", "referrer"}
Work ==
  {t \in [kind : Carrying \cup {"subject", "tag", "referrers"}, subject : Docs \cup {None}, doc : Docs \cup {None}] :
     /\ t.kind \in {"root", "seed"} \/ t.subject \in Docs
     /\ IF t.kind \in Carrying THEN t.doc \in Docs ELSE t.doc = None}
Nodes == [doc : Docs, kids : Seq(Docs)]
Runs ==
  [at : {"run"}, tag : Tags \cup {None}, digest : Docs, index : Docs \cup {None}, skip : SUBSET Docs,
   todo : Seq(Work), order : Seq(Docs), visited : SUBSET Docs, seen : Nat, fetches : Nat,
   incomplete : BOOLEAN, tags : Marked, graph : [stack : Seq(Nodes), pending : Seq(Docs)]]

----------------------------------------------------------------------------
(* The document a task asks for.                                             *)
Aim(t) == IF t.kind = "tag" THEN Cosign(t.subject) ELSE t.doc

RunTyped(c) ==
  /\ c \in Runs /\ Resolved(c.digest, c.index) /\ c.skip \subseteq {c.digest, c.index} \ {None}
  /\ Found(c) = Range(c.order) /\ c.seen <= Len(c.order)
  /\ IF c.graph.stack = <<>> THEN c.graph = NoGraph
     ELSE c.todo # <<>> /\ c.graph.stack[1].doc = Aim(Head(c.todo))

(* What is staged has its children staged, or still to visit.                *)
Closed(c) ==
  /\ \A d \in Found(c) : Range(Children[d]) \subseteq Found(c)
  /\ \A d \in Range(c.graph.pending) : Range(Children[d]) \subseteq Pending(c) \cup Found(c)
  /\ \A i \in DOMAIN c.graph.stack :
       Range(Children[c.graph.stack[i].doc]) \subseteq Range(c.graph.stack[i].kids) \cup Pending(c) \cup Found(c)

(* Until something failed, every document of the image is a visited subject,  *)
(* or waits to be one, and what is attached to a visited one is taken or a    *)
(* task will ask for it.                                                     *)
Taken(c) == c.skip \cup Found(c)
Waits(c, kind, s) == \E t \in Range(c.todo) : t.kind = kind /\ t.subject = s
Reached(c, s) == s \in c.visited \/ Waits(c, "subject", s)
Discovered(c) ==
  ~c.incomplete =>
    /\ \A s \in {c.digest, c.index} \ {None} : Reached(c, s)
    /\ \A i \in 1 .. c.seen : Reached(c, c.order[i])
    /\ \A s \in c.visited :
         /\ Cosign(s) \in Taken(c) \cup {None} \/ Waits(c, "tag", s)
         /\ \A d \in Range(UpstreamReferrers[s]) :
              \/ d \in Taken(c) \/ Waits(c, "referrers", s)
              \/ \E t \in Range(c.todo) : t.kind = "referrer" /\ t.subject = s /\ t.doc = d

CollectKept ==
  \/ col = Idle
  \/ col \in [at : {"resolve"}, tag : Tags \cup {None}, ref : Docs]
  \/ RunTyped(col) /\ Closed(col) /\ Discovered(col)

ConTyped ==
  /\ ConTypeOK /\ upTag \in [Tags -> Docs]
  /\ col # Idle => Len(bundles) < ConMaxCollects
  /\ bundles \in Seq(Images) /\ images \subseteq Images /\ index \in Indexes \cup {None}
  /\ status \in [Docs -> {None} \cup [seen : Observations, tags : SUBSET Tags]]
  /\ conPc # "idle" => conNext <= Len(bundles)

ConInv == CollectKept /\ ConTyped /\ BundleIsClosed
----------------------------------------------------------------------------
(* Sequences.                                                                *)
LEMMA RangeFacts ==
  ASSUME NEW S, NEW s \in Seq(S)
  PROVE  /\ Range(s) \subseteq S /\ \A i \in 1 .. Len(s) : s[i] \in Range(s)
         /\ \A x \in Range(s) : \E i \in 1 .. Len(s) : x = s[i]
BY DEF Range

LEMMA TailRange ==
  ASSUME NEW S, NEW s \in Seq(S), s # <<>>
  PROVE  /\ Head(s) \in S /\ Tail(s) \in Seq(S) /\ Head(s) = s[1] /\ Head(s) \in Range(s)
         /\ Range(Tail(s)) \subseteq Range(s) /\ Range(s) \subseteq {Head(s)} \cup Range(Tail(s))
<1>1. Len(s) \in Nat \ {0} /\ Tail(s) \in Seq(S) /\ Head(s) = s[1] /\ Len(Tail(s)) = Len(s) - 1
      /\ \A i \in 1 .. Len(s) - 1 : Tail(s)[i] = s[i + 1]
  OBVIOUS
<1>2. \A x \in Range(Tail(s)) : x \in Range(s)
  <2>0. \A x \in Range(Tail(s)) : \E i \in 1 .. Len(Tail(s)) : x = Tail(s)[i]
    BY <1>1, RangeFacts
  <2> SUFFICES ASSUME NEW i \in 1 .. Len(Tail(s)) PROVE Tail(s)[i] \in Range(s)
    BY <2>0
  <2>1. Tail(s)[i] = s[i + 1] /\ i + 1 \in 1 .. Len(s)
    BY <1>1
  <2> QED BY <2>1, RangeFacts
<1>3. \A x \in Range(s) : x \in {Head(s)} \cup Range(Tail(s))
  <2> SUFFICES ASSUME NEW i \in 1 .. Len(s) PROVE s[i] \in {Head(s)} \cup Range(Tail(s))
    BY RangeFacts
  <2>1. CASE i = 1
    BY <1>1, <2>1
  <2>2. CASE i # 1
    <3>1. i - 1 \in 1 .. Len(Tail(s)) /\ Tail(s)[i - 1] = s[i]
      BY <1>1, <2>2
    <3> QED BY <1>1, <3>1, RangeFacts
  <2> QED BY <2>1, <2>2
<1> QED BY <1>1, <1>2, <1>3, RangeFacts

LEMMA ConcatRange ==
  ASSUME NEW S, NEW s \in Seq(S), NEW t \in Seq(S)
  PROVE  s \o t \in Seq(S) /\ Range(s \o t) = Range(s) \cup Range(t)
<1>1. /\ s \o t \in Seq(S) /\ Len(s \o t) = Len(s) + Len(t) /\ Len(s) \in Nat /\ Len(t) \in Nat
      /\ \A i \in 1 .. Len(s) + Len(t) : (s \o t)[i] = IF i <= Len(s) THEN s[i] ELSE t[i - Len(s)]
  OBVIOUS
<1>2. ASSUME NEW i \in 1 .. Len(s) + Len(t) PROVE (s \o t)[i] \in Range(s) \cup Range(t)
  <2>1. CASE i <= Len(s)
    BY <1>1, <2>1, RangeFacts
  <2>2. CASE i > Len(s)
    <3>1. i - Len(s) \in 1 .. Len(t)
      BY <1>1, <2>2
    <3> QED BY <1>1, <2>2, <3>1, RangeFacts
  <2> QED BY <1>1, <2>1, <2>2
<1>3. ASSUME NEW i \in 1 .. Len(s) PROVE s[i] \in Range(s \o t)
  <2>1. i \in 1 .. Len(s \o t) /\ (s \o t)[i] = s[i]
    BY <1>1
  <2> QED BY <1>1, <2>1, RangeFacts
<1>4. ASSUME NEW i \in 1 .. Len(t) PROVE t[i] \in Range(s \o t)
  <2>1. i + Len(s) \in 1 .. Len(s \o t) /\ (s \o t)[i + Len(s)] = t[i]
    BY <1>1
  <2> QED BY <1>1, <2>1, RangeFacts
<1>5. \A x \in Range(s \o t) : x \in Range(s) \cup Range(t)
  <2>1. \A x \in Range(s \o t) : \E i \in 1 .. Len(s \o t) : x = (s \o t)[i]
    BY <1>1, RangeFacts
  <2> QED BY <1>1, <1>2, <2>1
<1> QED BY <1>1, <1>3, <1>4, <1>5, RangeFacts

LEMMA AppendRange ==
  ASSUME NEW S, NEW s \in Seq(S), NEW x \in S
  PROVE  /\ Append(s, x) \in Seq(S) /\ Len(Append(s, x)) = Len(s) + 1 /\ Range(Append(s, x)) = Range(s) \cup {x}
         /\ Append(s, x)[Len(s) + 1] = x /\ \A i \in 1 .. Len(s) : Append(s, x)[i] = s[i]
<1>1. /\ Append(s, x) \in Seq(S) /\ Len(Append(s, x)) = Len(s) + 1 /\ Len(s) \in Nat
      /\ Append(s, x)[Len(s) + 1] = x /\ \A i \in 1 .. Len(s) : Append(s, x)[i] = s[i]
  OBVIOUS
<1>2. \A i \in 1 .. Len(s) + 1 : Append(s, x)[i] \in Range(s) \cup {x}
  BY <1>1, RangeFacts
<1>3. \A i \in 1 .. Len(s) + 1 : Append(s, x)[i] \in Range(Append(s, x))
  BY <1>1, RangeFacts
<1>4. \A y \in Range(Append(s, x)) : y \in Range(s) \cup {x}
  <2>1. \A y \in Range(Append(s, x)) : \E i \in 1 .. Len(Append(s, x)) : y = Append(s, x)[i]
    BY <1>1, RangeFacts
  <2> QED BY <1>1, <1>2, <2>1
<1>5. \A i \in 1 .. Len(s) : s[i] \in Range(Append(s, x))
  <2> SUFFICES ASSUME NEW i \in 1 .. Len(s) PROVE s[i] \in Range(Append(s, x))
    OBVIOUS
  <2>1. i \in 1 .. Len(s) + 1 /\ Append(s, x)[i] = s[i]
    BY <1>1
  <2> QED BY <1>3, <2>1
<1>6. x \in Range(Append(s, x))
  <2>1. Len(s) + 1 \in 1 .. Len(s) + 1
    BY <1>1
  <2> QED BY <1>1, <1>3, <2>1
<1>7. Range(s) \subseteq Range(Append(s, x))
  BY <1>5, RangeFacts
<1> QED BY <1>1, <1>4, <1>6, <1>7

LEMMA PrefixFacts ==
  ASSUME NEW S, NEW s \in Seq(S), NEW n \in 0 .. Len(s)
  PROVE  /\ SubSeq(s, 1, n) \in Seq(S) /\ Len(SubSeq(s, 1, n)) = n
         /\ \A i \in 1 .. n : SubSeq(s, 1, n)[i] = s[i]
<1>1. 1 \in Int /\ n \in Int /\ \A i \in 1 .. n : s[i] \in S
  OBVIOUS
<1>2. /\ SubSeq(s, 1, n) \in Seq(S) /\ Len(SubSeq(s, 1, n)) = IF 1 <= n THEN n - 1 + 1 ELSE 0
      /\ \A i \in 1 .. n - 1 + 1 : SubSeq(s, 1, n)[i] = s[1 + i - 1]
  BY ONLY <1>1, SubSeqProperties
<1>3. n \in Nat /\ n - 1 + 1 = n /\ \A i \in 1 .. n : 1 + i - 1 = i
  OBVIOUS
<1> QED BY <1>2, <1>3

LEMMA FrontFacts ==
  ASSUME NEW S, NEW s \in Seq(S), s # <<>>
  PROVE  /\ Front(s) \in Seq(S) /\ Len(Front(s)) = Len(s) - 1 /\ Len(s) \in Nat \ {0}
         /\ \A i \in 1 .. Len(s) - 1 : Front(s)[i] = s[i]
<1>1. Len(s) \in Nat \ {0} /\ Len(s) - 1 \in 0 .. Len(s)
  OBVIOUS
<1> QED BY <1>1, PrefixFacts DEF Front

LEMMA NoRange == \A S : <<>> \in Seq(S) /\ Range(<<>>) = {} /\ Len(<<>>) = 0
BY DEF Range

LEMMA MarkedFacts == \A f : f \in Marked <=> DOMAIN f \in SUBSET Docs /\ f \in [DOMAIN f -> Marks]
BY DEF Marked

----------------------------------------------------------------------------
(* What the operations on a collect change of it.                            *)
LEMMA RunFields ==
  ASSUME NEW c \in Runs
  PROVE  /\ c.digest \in Docs /\ c.index \in Docs \cup {None} /\ c.skip \subseteq Docs /\ c.tag \in Tags \cup {None}
         /\ c.todo \in Seq(Work) /\ c.order \in Seq(Docs) /\ c.visited \subseteq Docs /\ c.seen \in Nat
         /\ c.incomplete \in BOOLEAN /\ c.tags \in Marked /\ Found(c) \subseteq Docs
         /\ c.graph.stack \in Seq(Nodes) /\ c.graph.pending \in Seq(Docs)
         /\ c.graph = [stack |-> c.graph.stack, pending |-> c.graph.pending]
<1>1. c.tags \in Marked
  BY DEF Runs
<1>2. Found(c) \subseteq Docs
  BY <1>1, MarkedFacts DEF Found
<1> QED BY <1>1, <1>2 DEF Runs

(* The same image, with the same artifacts and the same of them looked at.    *)
Alike(c, d) ==
  /\ d.tag = c.tag /\ d.digest = c.digest /\ d.index = c.index /\ d.skip = c.skip
  /\ d.order = c.order /\ d.seen = c.seen /\ Found(d) = Found(c)

LEMMA FetchRun ==
  ASSUME NEW c \in Runs
  PROVE  /\ Fetch(c) \in Runs /\ Alike(c, Fetch(c)) /\ Fetch(c).todo = c.todo /\ Fetch(c).visited = c.visited
         /\ Fetch(c).incomplete = c.incomplete /\ Fetch(c).graph = c.graph /\ Fetch(c).tags = c.tags
<1>1. c.fetches + 1 \in Nat
  BY DEF Runs
<1>2. Fetch(c) = [c EXCEPT !.fetches = c.fetches + 1]
  BY DEF Fetch, Runs
<1> QED BY <1>1, <1>2 DEF Runs, Alike, Found

LEMMA NoteRun ==
  ASSUME NEW c \in Runs
  PROVE  LET d == noteContainerDiscoveryIssue(c)
         IN  /\ d \in Runs /\ Alike(c, d) /\ d.todo = c.todo /\ d.visited = c.visited
             /\ d.incomplete /\ d.graph = c.graph /\ d.tags = c.tags
BY DEF noteContainerDiscoveryIssue, Runs, Alike, Found

LEMMA DroppedRun ==
  ASSUME NEW c \in Runs, c.todo # <<>>
  PROVE  LET d == Dropped(c)
         IN  /\ d \in Runs /\ Alike(c, d) /\ d.todo = Tail(c.todo) /\ d.visited = c.visited
             /\ d.incomplete = c.incomplete /\ d.graph = c.graph /\ d.tags = c.tags
<1>1. c.todo \in Seq(Work)
  BY RunFields
<1>2. Tail(c.todo) \in Seq(Work)
  BY <1>1, TailRange
<1> QED BY <1>2 DEF Dropped, Runs, Alike, Found

LEMMA GiveUpRun ==
  ASSUME NEW c \in Runs, c.todo # <<>>
  PROVE  LET d == GiveUp(c)
         IN  /\ d \in Runs /\ Alike(c, d) /\ d.todo = Tail(c.todo) /\ d.visited = c.visited
             /\ d.incomplete /\ d.graph = NoGraph
<1> DEFINE n == noteContainerDiscoveryIssue(c)
           e == Dropped(n)
<1>1. n \in Runs /\ Alike(c, n) /\ n.todo = c.todo /\ n.visited = c.visited /\ n.incomplete
  BY NoteRun
<1> HIDE DEF n
<1>2. e \in Runs /\ Alike(n, e) /\ e.todo = Tail(n.todo) /\ e.visited = n.visited /\ e.incomplete = n.incomplete
  BY <1>1, DroppedRun
<1>3. GiveUp(c) = [e EXCEPT !.graph = NoGraph]
  BY DEF GiveUp, n
<1> HIDE DEF e
<1>4. NoGraph \in [stack : Seq(Nodes), pending : Seq(Docs)]
  BY DEF NoGraph
<1>5. GiveUp(c) \in Runs /\ Alike(e, GiveUp(c)) /\ GiveUp(c).todo = e.todo /\ GiveUp(c).visited = e.visited
      /\ GiveUp(c).incomplete = e.incomplete /\ GiveUp(c).graph = NoGraph
  BY <1>2, <1>3, <1>4 DEF Runs, Alike, Found
<1> QED BY <1>1, <1>2, <1>5 DEF Alike

LEMMA StageRun ==
  ASSUME NEW c \in Runs, NEW d \in Docs, ConAssumed
  PROVE  LET e == stage(c, d)
             node == [doc |-> d, kids |-> Children[d]]
         IN  /\ e \in Runs /\ Alike(c, e) /\ e.todo = c.todo /\ e.visited = c.visited
             /\ e.incomplete = c.incomplete /\ e.tags = c.tags /\ node \in Nodes
             /\ e.graph = [stack |-> Append(c.graph.stack, node), pending |-> c.graph.pending]
<1> DEFINE node == [doc |-> d, kids |-> Children[d]]
<1>1. node \in Nodes
  BY DEF Nodes, ConAssumed
<1>2. c.graph.stack \in Seq(Nodes) /\ c.graph.pending \in Seq(Docs)
  BY RunFields
<1>3. [stack |-> Append(c.graph.stack, node), pending |-> c.graph.pending] \in [stack : Seq(Nodes), pending : Seq(Docs)]
  BY <1>1, <1>2
<1>4. stage(c, d) = [c EXCEPT !.graph = [stack |-> Append(c.graph.stack, node), pending |-> c.graph.pending]]
  BY DEF stage, Runs
<1> HIDE DEF node
<1>5. /\ stage(c, d) \in Runs /\ Alike(c, stage(c, d)) /\ stage(c, d).todo = c.todo /\ stage(c, d).visited = c.visited
      /\ stage(c, d).incomplete = c.incomplete /\ stage(c, d).tags = c.tags
      /\ stage(c, d).graph = [stack |-> Append(c.graph.stack, node), pending |-> c.graph.pending]
  BY <1>3, <1>4 DEF Runs, Alike, Found
<1> QED BY <1>1, <1>5 DEF node

----------------------------------------------------------------------------
(* The invariant of a collect, operation by operation.                       *)
RunKept(c) == RunTyped(c) /\ Closed(c) /\ Discovered(c)

(* The task is done: what it asks for is there, or other tasks see to it.      *)
Replied(t, d, p) ==
  /\ t.kind = "subject" => t.subject \in d.visited
  /\ t.kind = "tag" => Cosign(t.subject) \in Taken(d) \cup {None}
  /\ t.kind = "referrers" => \A x \in Range(UpstreamReferrers[t.subject]) :
       \E u \in Range(p) : u.kind = "referrer" /\ u.subject = t.subject /\ u.doc = x
  /\ t.kind = "referrer" => t.doc \in Taken(d)

LEMMA Graphless ==
  ASSUME NEW c \in Runs
  PROVE  /\ c.graph = NoGraph <=> c.graph.stack = <<>> /\ c.graph.pending = <<>>
         /\ c.graph = NoGraph => Pending(c) = {} /\ DOMAIN c.graph.stack = {} /\ Range(c.graph.pending) = {}
<1>1. c.graph = [stack |-> c.graph.stack, pending |-> c.graph.pending]
  BY RunFields
<1>2. c.graph = NoGraph => c.graph.stack = <<>> /\ c.graph.pending = <<>>
  BY DEF NoGraph
<1>3. c.graph.stack = <<>> /\ c.graph.pending = <<>> => c.graph = NoGraph
  BY <1>1 DEF NoGraph
<1>4. DOMAIN <<>> = {} /\ Range(<<>>) = {}
  BY NoRange
<1>5. ASSUME c.graph = NoGraph PROVE Pending(c) = {} /\ DOMAIN c.graph.stack = {} /\ Range(c.graph.pending) = {}
  BY <1>2, <1>4, <1>5 DEF Pending, Visiting
<1> QED BY <1>2, <1>3, <1>5

(* The next task is replaced by others, none or some; what was taken stays.    *)
LEMMA TasksGoOn ==
  ASSUME NEW c \in Runs, c.todo # <<>>, Discovered(c), NEW d \in Runs, NEW p \in Seq(Work), d.todo = p \o Tail(c.todo),
         d.digest = c.digest, d.index = c.index, d.seen = c.seen, \A i \in 1 .. c.seen : d.order[i] = c.order[i],
         Taken(c) \subseteq Taken(d), c.visited \subseteq d.visited, c.incomplete => d.incomplete,
         ~d.incomplete => Replied(Head(c.todo), d, p),
         \A s \in d.visited \ c.visited :
           \A k \in {"tag", "referrers"} : \E t \in Range(p) : t.kind = k /\ t.subject = s
  PROVE  Discovered(d)
<1>1. c.todo \in Seq(Work) /\ Tail(c.todo) \in Seq(Work)
  BY RunFields, TailRange
<1>2. Range(c.todo) \subseteq {Head(c.todo)} \cup Range(Tail(c.todo))
  BY <1>1, TailRange
<1>3. Range(d.todo) = Range(p) \cup Range(Tail(c.todo))
  <2>1. PICK q \in Seq(Work) : q = Tail(c.todo)
    BY <1>1
  <2>2. p \in Seq(Work) /\ q \in Seq(Work)
    OBVIOUS
  <2>3. Range(p \o q) = Range(p) \cup Range(q)
    BY ONLY <2>2, ConcatRange
  <2> QED BY <2>1, <2>3
<1> SUFFICES ASSUME ~d.incomplete
             PROVE  /\ \A s \in {d.digest, d.index} \ {None} : Reached(d, s)
                    /\ \A i \in 1 .. d.seen : Reached(d, d.order[i])
                    /\ \A s \in d.visited :
                         /\ Cosign(s) \in Taken(d) \cup {None} \/ Waits(d, "tag", s)
                         /\ \A x \in Range(UpstreamReferrers[s]) :
                              \/ x \in Taken(d) \/ Waits(d, "referrers", s)
                              \/ \E t \in Range(d.todo) : t.kind = "referrer" /\ t.subject = s /\ t.doc = x
  BY DEF Discovered
<1>11. /\ \A s \in {c.digest, c.index} \ {None} : Reached(c, s)
      /\ \A i \in 1 .. c.seen : Reached(c, c.order[i])
  BY DEF Discovered
<1>12. /\ \A s \in c.visited : Cosign(s) \in Taken(c) \cup {None} \/ Waits(c, "tag", s)
      /\ \A s \in c.visited : \A x \in Range(UpstreamReferrers[s]) :
           \/ x \in Taken(c) \/ Waits(c, "referrers", s)
           \/ \E t \in Range(c.todo) : t.kind = "referrer" /\ t.subject = s /\ t.doc = x
  BY DEF Discovered
<1>13. Taken(c) \subseteq Taken(d)
  OBVIOUS
<1>14. \A s : Reached(c, s) => Reached(d, s)
  BY <1>2, <1>3 DEF Reached, Waits, Replied
<1>15. ASSUME NEW s \in c.visited
      PROVE  /\ Cosign(s) \in Taken(d) \cup {None} \/ Waits(d, "tag", s)
             /\ \A x \in Range(UpstreamReferrers[s]) :
                  \/ x \in Taken(d) \/ Waits(d, "referrers", s)
                  \/ \E t \in Range(d.todo) : t.kind = "referrer" /\ t.subject = s /\ t.doc = x
  <2>1. Cosign(s) \in Taken(d) \cup {None} \/ Waits(d, "tag", s)
    BY <1>2, <1>3, <1>12, <1>13 DEF Waits, Replied
  <2> SUFFICES ASSUME NEW x \in Range(UpstreamReferrers[s]), x \notin Taken(d)
               PROVE  \/ Waits(d, "referrers", s)
                      \/ \E t \in Range(d.todo) : t.kind = "referrer" /\ t.subject = s /\ t.doc = x
    BY <2>1
  <2>2. CASE \E t \in Range(c.todo) : t.kind = "referrer" /\ t.subject = s /\ t.doc = x
    BY <1>2, <1>3, <2>2 DEF Replied
  <2>3. CASE Waits(c, "referrers", s)
    <3>1. PICK t \in Range(c.todo) : t.kind = "referrers" /\ t.subject = s
      BY <2>3 DEF Waits
    <3>2. CASE t = Head(c.todo)
      <4>1. Replied(t, d, p)
        BY <3>2
      <4>2. \A y \in Range(UpstreamReferrers[t.subject]) :
              \E u \in Range(p) : u.kind = "referrer" /\ u.subject = t.subject /\ u.doc = y
        BY ONLY <4>1, <3>1 DEF Replied
      <4>3. \E u \in Range(p) : u.kind = "referrer" /\ u.subject = s /\ u.doc = x
        BY ONLY <4>2, <3>1, x \in Range(UpstreamReferrers[s])
      <4> QED BY <1>3, <4>3
    <3>3. CASE t \in Range(Tail(c.todo))
      BY <1>3, <3>1, <3>3 DEF Waits
    <3> QED BY <1>2, <3>2, <3>3
  <2> QED BY <1>12, <1>13, <2>2, <2>3
<1>16. \A s \in d.visited \ c.visited : Waits(d, "tag", s) /\ Waits(d, "referrers", s)
  BY <1>3 DEF Waits
<1> QED BY <1>11, <1>14, <1>15, <1>16

(* No graph is open while the task is replaced.                              *)
LEMMA TaskDone ==
  ASSUME ConAssumed, NEW c, RunKept(c), c.todo # <<>>,
         NEW d \in Runs, Alike(c, d), d.graph = NoGraph, NEW p \in Seq(Work), d.todo = p \o Tail(c.todo),
         c.visited \subseteq d.visited, c.incomplete => d.incomplete,
         ~d.incomplete => Replied(Head(c.todo), d, p),
         \A s \in d.visited \ c.visited :
           \A k \in {"tag", "referrers"} : \E t \in Range(p) : t.kind = k /\ t.subject = s
  PROVE  RunKept(d)
<1>1. c \in Runs /\ c.todo \in Seq(Work) /\ Tail(c.todo) \in Seq(Work)
  BY RunFields, TailRange DEF RunKept, RunTyped
<1>2. RunTyped(d)
  BY Graphless DEF RunKept, RunTyped, Alike
<1>3. Closed(d)
  BY Graphless DEF RunKept, Closed, Alike
<1>4. Discovered(d)
  <2>1. Discovered(c) /\ Taken(d) = Taken(c)
    BY DEF RunKept, Taken, Alike
  <2>2. /\ d.digest = c.digest /\ d.index = c.index /\ d.seen = c.seen
        /\ \A i \in 1 .. c.seen : d.order[i] = c.order[i]
    BY DEF Alike
  <2> QED BY <1>1, <2>1, <2>2, TasksGoOn
<1> QED BY <1>2, <1>3, <1>4 DEF RunKept

LEMMA GiveUpKept ==
  ASSUME ConAssumed, NEW c, RunKept(c), c.todo # <<>>
  PROVE  RunKept(GiveUp(c))
<1>1. c \in Runs /\ c.todo \in Seq(Work) /\ Tail(c.todo) \in Seq(Work)
  BY RunFields, TailRange DEF RunKept, RunTyped
<1>2. <<>> \in Seq(Work) /\ <<>> \o Tail(c.todo) = Tail(c.todo)
  BY <1>1
<1> DEFINE d == GiveUp(c)
<1>3. d \in Runs /\ Alike(c, d) /\ d.todo = Tail(c.todo) /\ d.visited = c.visited /\ d.incomplete /\ d.graph = NoGraph
  BY <1>1, GiveUpRun
<1> HIDE DEF d
<1>4. RunKept(d)
  BY <1>2, <1>3, TaskDone
<1> QED BY <1>4 DEF d

LEMMA DropKept ==
  ASSUME ConAssumed, NEW c, RunKept(c), c.todo # <<>>, c.graph = NoGraph, Replied(Head(c.todo), c, <<>>)
  PROVE  RunKept(Dropped(c))
<1>1. c \in Runs /\ c.todo \in Seq(Work) /\ Tail(c.todo) \in Seq(Work)
  BY RunFields, TailRange DEF RunKept, RunTyped
<1>2. <<>> \in Seq(Work) /\ <<>> \o Tail(c.todo) = Tail(c.todo)
  BY <1>1
<1> DEFINE d == Dropped(c)
<1>3. d \in Runs /\ Alike(c, d) /\ d.todo = Tail(c.todo) /\ d.visited = c.visited
      /\ d.incomplete = c.incomplete /\ d.graph = c.graph
  BY <1>1, DroppedRun
<1>4. Replied(Head(c.todo), d, <<>>)
  BY <1>3 DEF Replied, Alike, Taken
<1> HIDE DEF d
<1>5. RunKept(d)
  BY <1>2, <1>3, <1>4, TaskDone
<1> QED BY <1>5 DEF d

(* The same run to the invariant: what was fetched is only counted.           *)
LEMMA AlikeKept ==
  ASSUME NEW c, RunKept(c), NEW d \in Runs, Alike(c, d), d.todo = c.todo, d.visited = c.visited,
         c.incomplete => d.incomplete, d.graph = c.graph
  PROVE  RunKept(d)
<1>1. RunTyped(d)
  BY DEF RunKept, RunTyped, Alike
<1>2. Closed(d)
  BY DEF RunKept, Closed, Alike, Pending, Visiting
<1>3. Discovered(d)
  BY DEF RunKept, Discovered, Alike, Reached, Waits, Taken
<1> QED BY <1>1, <1>2, <1>3 DEF RunKept

LEMMA FetchKept ==
  ASSUME NEW c, RunKept(c)
  PROVE  RunKept(Fetch(c))
<1>1. c \in Runs
  BY DEF RunKept, RunTyped
<1> QED BY <1>1, FetchRun, AlikeKept

LEMMA NoteKept ==
  ASSUME NEW c, RunKept(c)
  PROVE  RunKept(noteContainerDiscoveryIssue(c))
<1>1. c \in Runs
  BY DEF RunKept, RunTyped
<1> QED BY <1>1, NoteRun, AlikeKept

(* A graph is opened with the document the next task asks for.                *)
LEMMA StageKept ==
  ASSUME ConAssumed, NEW c, RunKept(c), c.todo # <<>>, c.graph = NoGraph,
         NEW d \in Docs, d = Aim(Head(c.todo))
  PROVE  RunKept(stage(c, d))
<1> DEFINE e == stage(c, d)
           node == [doc |-> d, kids |-> Children[d]]
<1>1. c \in Runs
  BY DEF RunKept, RunTyped
<1>2. /\ e \in Runs /\ Alike(c, e) /\ e.todo = c.todo /\ e.visited = c.visited /\ e.incomplete = c.incomplete
      /\ node \in Nodes /\ e.graph = [stack |-> Append(c.graph.stack, node), pending |-> c.graph.pending]
  BY <1>1, StageRun
<1>3. c.graph.stack = <<>> /\ c.graph.pending = <<>>
  BY <1>1, Graphless
<1> HIDE DEF e
<1>4. e.graph.stack = <<node>> /\ e.graph.pending = <<>>
  BY <1>2, <1>3
<1>5. RunTyped(e)
  BY <1>2, <1>4 DEF RunKept, RunTyped, Alike
<1>6. Closed(e)
  <2>1. Range(e.graph.pending) = {} /\ DOMAIN e.graph.stack = {1} /\ e.graph.stack[1].doc = d
        /\ e.graph.stack[1].kids = Children[d]
    BY <1>4, NoRange
  <2> QED BY <1>2, <2>1 DEF RunKept, Closed, Alike
<1>7. Discovered(e)
  BY <1>2 DEF RunKept, Discovered, Alike, Reached, Waits, Taken
<1>8. RunKept(e)
  BY <1>5, <1>6, <1>7 DEF RunKept
<1> QED BY <1>8 DEF e

LEMMA NextTask ==
  ASSUME NEW c, RunKept(c), c.todo # <<>>
  PROVE  /\ c \in Runs /\ Head(c.todo) \in Work /\ Tail(c.todo) \in Seq(Work) /\ <<>> \in Seq(Work)
         /\ <<>> \o Tail(c.todo) = Tail(c.todo)
<1>1. c \in Runs /\ c.todo \in Seq(Work)
  BY RunFields DEF RunKept, RunTyped
<1>2. Head(c.todo) \in Work /\ Tail(c.todo) \in Seq(Work)
  BY <1>1, TailRange
<1> QED BY <1>1, <1>2

LEMMA WorkFields ==
  ASSUME NEW t \in Work
  PROVE  /\ t.kind \in Carrying \cup {"subject", "tag", "referrers"}
         /\ t.kind \notin {"root", "seed"} => t.subject \in Docs
         /\ t.kind \in Carrying => t.doc \in Docs
         /\ t.kind \notin Carrying => t.doc = None
BY DEF Work

LEMMA CosignTyped ==
  ASSUME ConAssumed, upTag \in [Tags -> Docs], NEW s \in Docs
  PROVE  Cosign(s) \in Docs \cup {None} /\ CosignTag[s] \in Marks
BY DEF Cosign, Marks

LEMMA RecordKept ==
  ASSUME ConAssumed, NEW c, RunKept(c), c.todo # <<>>, c.graph = NoGraph,
         NEW d \in Docs, d = Aim(Head(c.todo)), Head(c.todo).kind \in {"attestation", "tag", "referrer"},
         NEW tag \in Marks, NEW subject, NEW required
  PROVE  RunKept(record(c, subject, tag, d, required))
<1> DEFINE t == Head(c.todo)
<1>1. CASE d \in c.skip
  <2>1. Replied(t, c, <<>>)
    BY <1>1 DEF Replied, Aim, Taken
  <2> QED BY <1>1, <2>1, DropKept DEF record
<1>2. CASE d \notin c.skip /\ d \in Found(c)
  <2>1. Replied(t, c, <<>>)
    BY <1>2 DEF Replied, Aim, Taken
  <2> DEFINE e == Dropped(c)
             x == IF e.tags[d] = None THEN tag ELSE e.tags[d]
             g == [e.tags EXCEPT ![d] = x]
             f == [e EXCEPT !.tags = g]
  <2>2. RunKept(e)
    BY <2>1, DropKept
  <2>3. e \in Runs /\ e.tags = c.tags
    BY NextTask, DroppedRun
  <2>4. record(c, subject, tag, d, required) = f
    BY <1>2, <2>3 DEF record, Runs
  <2> HIDE DEF e
  <2>5. e.tags \in Marked /\ d \in DOMAIN e.tags
    BY <1>2, <2>3 DEF Runs, Found
  <2>6. e.tags \in [DOMAIN e.tags -> Marks] /\ DOMAIN e.tags \in SUBSET Docs
    BY <2>5, MarkedFacts
  <2>7. x \in Marks
    BY <2>5, <2>6
  <2> HIDE DEF x
  <2>8. g \in [DOMAIN e.tags -> Marks] /\ DOMAIN g = DOMAIN e.tags
    BY <2>6, <2>7
  <2>9. g \in Marked
    BY <2>6, <2>8, MarkedFacts
  <2> HIDE DEF g
  <2>10. /\ f \in Runs /\ Alike(e, f) /\ f.todo = e.todo /\ f.visited = e.visited
         /\ f.incomplete = e.incomplete /\ f.graph = e.graph
    BY <2>3, <2>8, <2>9 DEF Runs, Alike, Found
  <2> HIDE DEF f
  <2> QED BY <2>2, <2>4, <2>10, AlikeKept
<1>3. CASE d \notin c.skip /\ d \notin Found(c) /\ (foundCapReached(c) \/ ~SubjectFits(d, subject, required))
  <2>1. record(c, subject, tag, d, required) = GiveUp(c)
    BY <1>3 DEF record
  <2> QED BY <2>1, GiveUpKept
<1>4. CASE d \notin c.skip /\ d \notin Found(c) /\ ~(foundCapReached(c) \/ ~SubjectFits(d, subject, required))
  <2>1. record(c, subject, tag, d, required) = stage(c, d)
    BY <1>4 DEF record
  <2> QED BY <2>1, StageKept
<1> QED BY <1>1, <1>2, <1>3, <1>4

LEMMA TagKept ==
  ASSUME ConAssumed, upTag \in [Tags -> Docs], NEW c, RunKept(c), c.todo # <<>>, c.graph = NoGraph,
         Head(c.todo).kind = "tag"
  PROVE  RunKept(addByTag(c, Head(c.todo).subject))
<1> DEFINE s == Head(c.todo).subject
           f == Fetch(c)
<1>1. c \in Runs /\ s \in Docs
  BY NextTask, WorkFields
<1>2. Cosign(s) \in Docs \cup {None} /\ CosignTag[s] \in Marks
  BY <1>1, CosignTyped
<1>3. RunKept(f) /\ f.todo = c.todo /\ f.graph = NoGraph
  BY <1>1, FetchKept, FetchRun
<1>4. CASE capReached(c)
  BY <1>4, GiveUpKept DEF addByTag
<1>5. CASE ~capReached(c) /\ Cosign(s) = None
  <2>1. addByTag(c, s) = Dropped(f)
    BY <1>5 DEF addByTag
  <2> HIDE DEF f
  <2>2. Replied(Head(f.todo), f, <<>>)
    BY <1>3, <1>5 DEF Replied
  <2> QED BY <1>3, <2>1, <2>2, DropKept
<1>6. CASE ~capReached(c) /\ Cosign(s) # None
  <2>1. addByTag(c, s) = record(f, s, CosignTag[s], Cosign(s), FALSE)
    BY <1>6 DEF addByTag
  <2> HIDE DEF f
  <2>2. Cosign(s) \in Docs /\ Cosign(s) = Aim(Head(f.todo))
    BY <1>2, <1>3, <1>6 DEF Aim
  <2>3. f.todo # <<>> /\ Head(f.todo).kind \in {"attestation", "tag", "referrer"}
    BY <1>3
  <2>4. RunKept(record(f, s, CosignTag[s], Cosign(s), FALSE))
    BY <1>2, <1>3, <2>2, <2>3, RecordKept
  <2> QED BY <2>1, <2>4
<1> QED BY <1>4, <1>5, <1>6

LEMMA DescriptorKept ==
  ASSUME ConAssumed, NEW c, RunKept(c), c.todo # <<>>, c.graph = NoGraph,
         Head(c.todo).kind \in {"attestation", "referrer"}, NEW required
  PROVE  RunKept(addDescriptor(c, Head(c.todo).subject, Head(c.todo).doc, required))
<1> DEFINE s == Head(c.todo).subject
           d == Head(c.todo).doc
           f == Fetch(c)
<1>1. c \in Runs /\ d \in Docs /\ d = Aim(Head(c.todo))
  BY NextTask, WorkFields DEF Carrying, Aim
<1>2. CASE d \in c.skip \cup Found(c)
  <2>1. addDescriptor(c, s, d, required) = Dropped(c)
    BY <1>2 DEF addDescriptor
  <2>2. Replied(Head(c.todo), c, <<>>)
    BY <1>2 DEF Replied, Taken
  <2> QED BY <2>1, <2>2, DropKept
<1>3. CASE d \notin c.skip \cup Found(c) /\ capReached(c)
  <2>1. addDescriptor(c, s, d, required) = GiveUp(c)
    BY <1>3 DEF addDescriptor
  <2> QED BY <2>1, GiveUpKept
<1>4. CASE d \notin c.skip \cup Found(c) /\ ~capReached(c)
  <2>1. addDescriptor(c, s, d, required) = record(f, s, None, d, required)
    BY <1>4 DEF addDescriptor
  <2>2. RunKept(f) /\ f.todo = c.todo /\ f.graph = NoGraph
    BY <1>1, FetchKept, FetchRun
  <2> HIDE DEF f
  <2>3. None \in Marks
    BY DEF Marks
  <2>4. RunKept(record(f, s, None, d, required))
    BY <1>1, <2>2, <2>3, RecordKept
  <2> QED BY <2>1, <2>4
<1> QED BY <1>2, <1>3, <1>4

LEMMA SubjectKept ==
  ASSUME ConAssumed, NEW c, RunKept(c), c.todo # <<>>, c.graph = NoGraph, Head(c.todo).kind = "subject"
  PROVE  RunKept(discoverSubject(c, Head(c.todo).subject))
<1> DEFINE s == Head(c.todo).subject
<1>1. c \in Runs /\ s \in Docs /\ Tail(c.todo) \in Seq(Work)
  BY NextTask, WorkFields
<1>2. CASE s \in c.visited
  <2>1. Replied(Head(c.todo), c, <<>>)
    BY <1>2 DEF Replied
  <2> QED BY <1>2, <2>1, DropKept DEF discoverSubject
<1>3. CASE s \notin c.visited /\ capReached(c)
  BY <1>3, GiveUpKept DEF discoverSubject
<1>4. CASE s \notin c.visited /\ ~capReached(c)
  <2> DEFINE e == Dropped(c)
             p == <<Task("tag", s, None), Task("referrers", s, None)>>
             f == [e EXCEPT !.visited = e.visited \cup {s}, !.todo = p \o e.todo]
  <2>1. /\ e \in Runs /\ Alike(c, e) /\ e.todo = Tail(c.todo) /\ e.visited = c.visited
        /\ e.incomplete = c.incomplete /\ e.graph = c.graph
    BY <1>1, DroppedRun
  <2>2. discoverSubject(c, s) = f
    BY <1>4, <2>1 DEF discoverSubject, Runs
  <2>3. p \in Seq(Work) /\ Range(p) = {Task("tag", s, None), Task("referrers", s, None)}
    <3>1. Task("tag", s, None) \in Work /\ Task("referrers", s, None) \in Work
      BY <1>1 DEF Task, Work, Carrying
    <3>2. p \in Seq(Work) /\ DOMAIN p = {1, 2} /\ p[1] = Task("tag", s, None) /\ p[2] = Task("referrers", s, None)
      BY <3>1
    <3> QED BY <3>2 DEF Range
  <2> HIDE DEF e, p
  <2>4. p \o e.todo \in Seq(Work)
    BY <1>1, <2>1, <2>3
  <2>5. /\ f \in Runs /\ Alike(e, f) /\ f.todo = p \o e.todo /\ f.visited = e.visited \cup {s}
        /\ f.incomplete = e.incomplete /\ f.graph = e.graph
    BY <1>1, <2>1, <2>4 DEF Runs, Alike, Found
  <2> HIDE DEF f
  <2>6. Replied(Head(c.todo), f, p)
    BY <2>5 DEF Replied
  <2>7. \A x \in f.visited \ c.visited : \A k \in {"tag", "referrers"} : \E t \in Range(p) : t.kind = k /\ t.subject = x
    BY <2>1, <2>3, <2>5 DEF Task
  <2>8. Alike(c, f) /\ f.todo = p \o Tail(c.todo) /\ f.graph = NoGraph /\ f.visited = c.visited \cup {s}
        /\ f.incomplete = c.incomplete
    BY <2>1, <2>5 DEF Alike
  <2>9. f \in Runs /\ p \in Seq(Work) /\ c.visited \subseteq f.visited
    BY <2>3, <2>5, <2>8
  <2> HIDE DEF s
  <2>10. RunKept(f)
    BY <2>6, <2>7, <2>8, <2>9, TaskDone
  <2> QED BY <2>2, <2>10 DEF s
<1> QED BY <1>2, <1>3, <1>4

LEMMA ReferrersRun ==
  ASSUME ConAssumed, NEW c, RunKept(c), c.todo # <<>>, NEW s \in Docs, NEW ds \in Seq(Docs)
  PROVE  LET f == fetchReferrers(c, s, ds)
             p == [i \in DOMAIN ds |-> Task("referrer", s, ds[i])]
         IN  /\ f \in Runs /\ Alike(c, f) /\ p \in Seq(Work) /\ f.todo = p \o Tail(c.todo)
             /\ f.visited = c.visited /\ f.incomplete = c.incomplete /\ f.graph = c.graph
             /\ \A x \in Range(ds) : \E u \in Range(p) : u.kind = "referrer" /\ u.subject = s /\ u.doc = x
<1> DEFINE e == Dropped(c)
           p == [i \in DOMAIN ds |-> Task("referrer", s, ds[i])]
           f == [e EXCEPT !.todo = p \o e.todo]
<1>1. c \in Runs /\ Tail(c.todo) \in Seq(Work)
  BY NextTask
<1>2. /\ e \in Runs /\ Alike(c, e) /\ e.todo = Tail(c.todo) /\ e.visited = c.visited
      /\ e.incomplete = c.incomplete /\ e.graph = c.graph
  BY <1>1, DroppedRun
<1>3. fetchReferrers(c, s, ds) = f
  BY <1>2 DEF fetchReferrers, Runs
<1>4. \A i \in DOMAIN ds : Task("referrer", s, ds[i]) \in Work
  <2> SUFFICES ASSUME NEW i \in DOMAIN ds PROVE Task("referrer", s, ds[i]) \in Work
    OBVIOUS
  <2>1. ds[i] \in Docs
    OBVIOUS
  <2> QED BY <2>1 DEF Task, Work, Carrying
<1>5. p \in Seq(Work) /\ DOMAIN p = DOMAIN ds
  <2>1. DOMAIN ds = 1 .. Len(ds) /\ Len(ds) \in Nat
    OBVIOUS
  <2> QED BY <1>4, <2>1
<1>6. ASSUME NEW x \in Range(ds)
      PROVE  \E u \in Range(p) : u.kind = "referrer" /\ u.subject = s /\ u.doc = x
  <2>1. PICK i \in DOMAIN ds : x = ds[i]
    BY DEF Range
  <2>2. p[i] = Task("referrer", s, x) /\ i \in DOMAIN p
    BY <2>1
  <2>3. p[i] \in Range(p)
    BY <2>2 DEF Range
  <2> QED BY <2>2, <2>3 DEF Task
<1> HIDE DEF e, p
<1>7. p \o e.todo \in Seq(Work)
  BY <1>1, <1>2, <1>5
<1>8. /\ f \in Runs /\ Alike(e, f) /\ f.todo = p \o e.todo /\ f.visited = e.visited
      /\ f.incomplete = e.incomplete /\ f.graph = e.graph
  BY <1>2, <1>7 DEF Runs, Alike, Found
<1> HIDE DEF f
<1>9. Alike(c, f) /\ f.todo = p \o Tail(c.todo) /\ f.visited = c.visited /\ f.incomplete = c.incomplete /\ f.graph = c.graph
  BY <1>2, <1>8 DEF Alike
<1> USE DEF p
<1> QED BY <1>3, <1>5, <1>6, <1>8, <1>9

LEMMA PartlyKept ==
  ASSUME ConAssumed, NEW c, RunKept(c), c.todo # <<>>, c.graph = NoGraph, NEW s \in Docs, NEW ds \in Seq(Docs)
  PROVE  RunKept(noteContainerDiscoveryIssue(fetchReferrers(c, s, ds)))
<1> DEFINE f == fetchReferrers(c, s, ds)
           p == [i \in DOMAIN ds |-> Task("referrer", s, ds[i])]
           g == noteContainerDiscoveryIssue(f)
<1>1. /\ f \in Runs /\ Alike(c, f) /\ p \in Seq(Work) /\ f.todo = p \o Tail(c.todo)
      /\ f.visited = c.visited /\ f.graph = c.graph
  BY ReferrersRun
<1> HIDE DEF f, p
<1>2. /\ g \in Runs /\ Alike(f, g) /\ g.todo = f.todo /\ g.visited = f.visited
      /\ g.incomplete /\ g.graph = f.graph
  BY <1>1, NoteRun
<1> HIDE DEF g
<1>3. Alike(c, g)
  BY <1>1, <1>2 DEF Alike
<1>4. RunKept(g)
  BY <1>1, <1>2, <1>3, TaskDone
<1> QED BY <1>4 DEF g, f

LEMMA ReferrersKept ==
  ASSUME ConAssumed, NEW c, RunKept(c), c.todo # <<>>, c.graph = NoGraph, Head(c.todo).kind = "referrers"
  PROVE  LET s == Head(c.todo).subject
         IN  /\ RunKept(fetchReferrers(c, s, UpstreamReferrers[s]))
             /\ \A n \in 0 .. Len(UpstreamReferrers[s]) :
                  RunKept(noteContainerDiscoveryIssue(fetchReferrers(c, s, SubSeq(UpstreamReferrers[s], 1, n))))
<1> DEFINE s == Head(c.todo).subject
<1>1. s \in Docs /\ UpstreamReferrers[s] \in Seq(Docs)
  BY NextTask, WorkFields DEF ConAssumed
<1>2. RunKept(fetchReferrers(c, s, UpstreamReferrers[s]))
  <2> DEFINE f == fetchReferrers(c, s, UpstreamReferrers[s])
             p == [i \in DOMAIN UpstreamReferrers[s] |-> Task("referrer", s, UpstreamReferrers[s][i])]
  <2>1. /\ f \in Runs /\ Alike(c, f) /\ p \in Seq(Work) /\ f.todo = p \o Tail(c.todo)
        /\ f.visited = c.visited /\ f.incomplete = c.incomplete /\ f.graph = c.graph
        /\ \A x \in Range(UpstreamReferrers[s]) : \E u \in Range(p) : u.kind = "referrer" /\ u.subject = s /\ u.doc = x
    BY <1>1, ReferrersRun
  <2> HIDE DEF f, p
  <2>2. Replied(Head(c.todo), f, p)
    BY <2>1 DEF Replied
  <2>3. RunKept(f)
    BY <2>1, <2>2, TaskDone
  <2> QED BY <2>3 DEF f
<1>3. ASSUME NEW n \in 0 .. Len(UpstreamReferrers[s])
      PROVE  RunKept(noteContainerDiscoveryIssue(fetchReferrers(c, s, SubSeq(UpstreamReferrers[s], 1, n))))
  <2>1. SubSeq(UpstreamReferrers[s], 1, n) \in Seq(Docs)
    BY <1>1, PrefixFacts
  <2> QED BY <1>1, <2>1, PartlyKept
<1> QED BY <1>2, <1>3

----------------------------------------------------------------------------
(* A graph grows, and is done.                                               *)
LEMMA GraphKept ==
  ASSUME NEW c, RunKept(c), c.graph.stack # <<>>, NEW d \in Runs, Alike(c, d), d.todo = c.todo,
         d.visited = c.visited, d.incomplete = c.incomplete, d.graph.stack # <<>>,
         d.graph.stack[1].doc = c.graph.stack[1].doc, Closed(d)
  PROVE  RunKept(d)
<1>1. RunTyped(d)
  BY DEF RunKept, RunTyped, Alike
<1>2. Discovered(d)
  BY DEF RunKept, Discovered, Alike, Reached, Waits, Taken
<1> QED BY <1>1, <1>2 DEF RunKept

LEMMA OpenGraph ==
  ASSUME NEW c, RunKept(c), c.graph # NoGraph
  PROVE  /\ c \in Runs /\ c.todo # <<>> /\ c.graph.stack \in Seq(Nodes) /\ c.graph.stack # <<>>
         /\ Len(c.graph.stack) \in Nat \ {0} /\ Top(c) \in Nodes /\ c.graph.pending \in Seq(Docs)
         /\ Top(c) = c.graph.stack[Len(c.graph.stack)] /\ DOMAIN c.graph.stack = 1 .. Len(c.graph.stack)
         /\ c.graph.stack[1].doc = Aim(Head(c.todo)) /\ c.graph.stack[1].doc \in Docs
         /\ Top(c).doc \in Docs /\ Top(c).kids \in Seq(Docs)
<1>1. /\ c \in Runs /\ c.graph.stack # <<>> /\ c.todo # <<>> /\ c.graph.stack[1].doc = Aim(Head(c.todo))
      /\ c.graph.stack \in Seq(Nodes) /\ c.graph.pending \in Seq(Docs)
  BY RunFields DEF RunKept, RunTyped
<1>2. Len(c.graph.stack) \in Nat \ {0} /\ DOMAIN c.graph.stack = 1 .. Len(c.graph.stack)
  BY <1>1
<1>3. \A i \in 1 .. Len(c.graph.stack) : c.graph.stack[i] \in Nodes
  BY <1>1
<1>4. c.graph.stack[1] \in Nodes /\ Top(c) \in Nodes
  BY <1>2, <1>3 DEF Top
<1> QED BY <1>1, <1>2, <1>4 DEF Top, Nodes

LEMMA WithKids ==
  ASSUME NEW x \in Nodes, NEW ks
  PROVE  [x EXCEPT !.kids = ks] = [doc |-> x.doc, kids |-> ks]
BY DEF Nodes

LEMMA WithStack ==
  ASSUME NEW g, g = [stack |-> g.stack, pending |-> g.pending], NEW st
  PROVE  [g EXCEPT !.stack = st] = [stack |-> st, pending |-> g.pending]
OBVIOUS

LEMMA NextKidRun ==
  ASSUME NEW c \in Runs, c.graph.stack # <<>>, Top(c).kids # <<>>
  PROVE  LET d == NextKid(c)
             n == Len(c.graph.stack)
         IN  /\ d \in Runs /\ Alike(c, d) /\ d.todo = c.todo /\ d.visited = c.visited
             /\ d.incomplete = c.incomplete /\ d.tags = c.tags /\ d.graph.pending = c.graph.pending
             /\ d.graph.stack \in Seq(Nodes) /\ Len(d.graph.stack) = n
             /\ \A i \in 1 .. n : d.graph.stack[i].doc = c.graph.stack[i].doc
             /\ \A i \in 1 .. n - 1 : d.graph.stack[i] = c.graph.stack[i]
             /\ d.graph.stack[n].kids = Tail(Top(c).kids)
<1> DEFINE n == Len(c.graph.stack)
           st == c.graph.stack
           node == [doc |-> st[n].doc, kids |-> Tail(st[n].kids)]
           new == [st EXCEPT ![n] = node]
           d == [c EXCEPT !.graph = [stack |-> new, pending |-> c.graph.pending]]
<1>1. st \in Seq(Nodes) /\ n \in Nat \ {0} /\ c.graph.pending \in Seq(Docs)
      /\ c.graph = [stack |-> st, pending |-> c.graph.pending]
  <2>1. st \in Seq(Nodes) /\ c.graph.pending \in Seq(Docs) /\ c.graph = [stack |-> st, pending |-> c.graph.pending]
    BY RunFields
  <2> QED BY <2>1
<1>2. st[n] \in Nodes
  BY <1>1
<1>3. node \in Nodes /\ node.doc = st[n].doc /\ node.kids = Tail(Top(c).kids)
  <2>1. st[n].doc \in Docs /\ st[n].kids \in Seq(Docs) /\ st[n].kids # <<>> /\ Top(c) = st[n]
    BY <1>2 DEF Nodes, Top
  <2>2. Tail(st[n].kids) \in Seq(Docs)
    BY <2>1, TailRange
  <2> QED BY <2>1, <2>2 DEF Nodes
<1>4. NextKid(c) = d
  <2>1. [st[n] EXCEPT !.kids = Tail(st[n].kids)] = node
    BY <1>2, WithKids
  <2>2. [c.graph EXCEPT !.stack = new] = [stack |-> new, pending |-> c.graph.pending]
    BY <1>1, WithStack
  <2>3. NextKid(c) = [c EXCEPT !.graph = [c.graph EXCEPT !.stack = [st EXCEPT ![n] = [st[n] EXCEPT !.kids = Tail(st[n].kids)]]]]
    BY <1>1, <1>2 DEF NextKid, Runs, Nodes
  <2> QED BY <2>1, <2>2, <2>3
<1> HIDE DEF node
<1>5. new \in Seq(Nodes) /\ Len(new) = n /\ new[n] = node /\ \A i \in 1 .. n : i # n => new[i] = st[i]
  BY <1>1, <1>3
<1>6. \A i \in 1 .. n : new[i].doc = st[i].doc
  BY <1>3, <1>5
<1> HIDE DEF new
<1>7. [stack |-> new, pending |-> c.graph.pending] \in [stack : Seq(Nodes), pending : Seq(Docs)]
  BY <1>1, <1>5
<1>8. /\ d \in Runs /\ Alike(c, d) /\ d.todo = c.todo /\ d.visited = c.visited
      /\ d.incomplete = c.incomplete /\ d.tags = c.tags /\ d.graph.pending = c.graph.pending /\ d.graph.stack = new
  BY <1>7 DEF Runs, Alike, Found
<1> QED BY <1>1, <1>3, <1>4, <1>5, <1>6, <1>8

LEMMA PendingFacts ==
  ASSUME NEW c \in Runs
  PROVE  Pending(c) = Range(c.graph.pending) \cup {c.graph.stack[i].doc : i \in 1 .. Len(c.graph.stack)}
<1>1. c.graph.stack \in Seq(Nodes)
  BY RunFields
<1> QED BY <1>1 DEF Pending, Visiting

(* A child that is there already.                                            *)
LEMMA NextKidKept ==
  ASSUME ConAssumed, NEW c, RunKept(c), c.graph # NoGraph, Top(c).kids # <<>>,
         Head(Top(c).kids) \in Pending(c) \cup Found(c)
  PROVE  RunKept(NextKid(c))
<1> DEFINE d == NextKid(c)
           n == Len(c.graph.stack)
           kids == Top(c).kids
<1>1. /\ c \in Runs /\ c.graph.stack # <<>> /\ n \in Nat \ {0} /\ kids \in Seq(Docs)
      /\ Top(c) = c.graph.stack[n] /\ DOMAIN c.graph.stack = 1 .. n
  BY OpenGraph
<1>2. /\ d \in Runs /\ Alike(c, d) /\ d.todo = c.todo /\ d.visited = c.visited
      /\ d.incomplete = c.incomplete /\ d.graph.pending = c.graph.pending
      /\ d.graph.stack \in Seq(Nodes) /\ Len(d.graph.stack) = n
      /\ \A i \in 1 .. n : d.graph.stack[i].doc = c.graph.stack[i].doc
      /\ \A i \in 1 .. n - 1 : d.graph.stack[i] = c.graph.stack[i]
      /\ d.graph.stack[n].kids = Tail(kids)
  BY <1>1, NextKidRun
<1> HIDE DEF d
<1>3. Pending(d) = Pending(c) /\ Found(d) = Found(c)
  <2>1. Pending(d) = Range(c.graph.pending) \cup {d.graph.stack[i].doc : i \in 1 .. n}
    BY <1>2, PendingFacts
  <2>2. Pending(c) = Range(c.graph.pending) \cup {c.graph.stack[i].doc : i \in 1 .. n}
    BY <1>1, PendingFacts
  <2>3. {d.graph.stack[i].doc : i \in 1 .. n} = {c.graph.stack[i].doc : i \in 1 .. n}
    BY <1>2
  <2> QED BY <1>2, <2>1, <2>2, <2>3 DEF Alike
<1>4. Range(kids) \subseteq Range(Tail(kids)) \cup Pending(c) \cup Found(c)
  BY <1>1, TailRange
<1>5. Closed(d)
  <2>1. ASSUME NEW i \in 1 .. n
        PROVE  Range(Children[d.graph.stack[i].doc]) \subseteq Range(d.graph.stack[i].kids) \cup Pending(d) \cup Found(d)
    <3>1. Range(Children[c.graph.stack[i].doc]) \subseteq Range(c.graph.stack[i].kids) \cup Pending(c) \cup Found(c)
      BY <1>1 DEF RunKept, Closed
    <3>2. CASE i = n
      BY <1>1, <1>2, <1>3, <1>4, <3>1, <3>2
    <3>3. CASE i # n
      <4>1. d.graph.stack[i] = c.graph.stack[i]
        BY <1>1, <1>2, <3>3
      <4> QED BY <1>3, <3>1, <4>1
    <3> QED BY <3>2, <3>3
  <2>2. DOMAIN d.graph.stack = 1 .. n
    BY <1>2
  <2> QED BY <1>2, <1>3, <2>1, <2>2 DEF RunKept, Closed
<1>6. d.graph.stack # <<>> /\ d.graph.stack[1].doc = c.graph.stack[1].doc
  BY <1>1, <1>2
<1>7. RunKept(d)
  BY <1>1, <1>2, <1>5, <1>6, GraphKept
<1> QED BY <1>7 DEF d

(* A child that is fetched and staged.                                       *)
LEMMA ChildKept ==
  ASSUME ConAssumed, NEW c, RunKept(c), c.graph # NoGraph, Top(c).kids # <<>>
  PROVE  RunKept(stage(NextKid(c), Head(Top(c).kids)))
<1> DEFINE e == NextKid(c)
           n == Len(c.graph.stack)
           kids == Top(c).kids
           k == Head(kids)
           d == stage(e, k)
           node == [doc |-> k, kids |-> Children[k]]
<1>1. /\ c \in Runs /\ c.graph.stack # <<>> /\ n \in Nat \ {0} /\ kids \in Seq(Docs)
      /\ Top(c) = c.graph.stack[n] /\ DOMAIN c.graph.stack = 1 .. n
  BY OpenGraph
<1>2. /\ e \in Runs /\ Alike(c, e) /\ e.todo = c.todo /\ e.visited = c.visited
      /\ e.incomplete = c.incomplete /\ e.graph.pending = c.graph.pending
      /\ e.graph.stack \in Seq(Nodes) /\ Len(e.graph.stack) = n
      /\ \A i \in 1 .. n : e.graph.stack[i].doc = c.graph.stack[i].doc
      /\ \A i \in 1 .. n - 1 : e.graph.stack[i] = c.graph.stack[i]
      /\ e.graph.stack[n].kids = Tail(kids)
  BY <1>1, NextKidRun
<1>3. k \in Docs /\ Range(kids) \subseteq {k} \cup Range(Tail(kids))
  BY <1>1, TailRange
<1> HIDE DEF e, k
<1>4. /\ d \in Runs /\ Alike(e, d) /\ d.todo = e.todo /\ d.visited = e.visited /\ d.incomplete = e.incomplete
      /\ node \in Nodes /\ d.graph = [stack |-> Append(e.graph.stack, node), pending |-> e.graph.pending]
  BY <1>2, <1>3, StageRun
<1> HIDE DEF d
<1>5. /\ d.graph.stack \in Seq(Nodes) /\ Len(d.graph.stack) = n + 1 /\ d.graph.stack[n + 1] = node
      /\ \A i \in 1 .. n : d.graph.stack[i] = e.graph.stack[i]
      /\ d.graph.pending = c.graph.pending
  <2>1. PICK st \in Seq(Nodes) : st = e.graph.stack
    BY <1>2
  <2>2. st \in Seq(Nodes) /\ node \in Nodes
    BY <1>4
  <2> HIDE DEF node
  <2>3. /\ Append(st, node) \in Seq(Nodes) /\ Len(Append(st, node)) = Len(st) + 1
        /\ Append(st, node)[Len(st) + 1] = node /\ \A i \in 1 .. Len(st) : Append(st, node)[i] = st[i]
    BY ONLY <2>2, AppendRange
  <2>4. d.graph.stack = Append(st, node) /\ Len(st) = n /\ d.graph.pending = c.graph.pending
    BY <1>2, <1>4, <2>1 DEF node
  <2> QED BY <2>1, <2>3, <2>4
<1>6. Alike(c, d) /\ d.todo = c.todo /\ d.visited = c.visited /\ d.incomplete = c.incomplete /\ Found(d) = Found(c)
  BY <1>2, <1>4 DEF Alike
<1>7. Pending(c) \cup {k} \subseteq Pending(d)
  <2>0. \A i \in 1 .. n : i \in 1 .. n + 1
    BY <1>1
  <2>1. \A i \in 1 .. n : d.graph.stack[i].doc = c.graph.stack[i].doc /\ i \in 1 .. n + 1
    <3>1. \A i \in 1 .. n : d.graph.stack[i] = e.graph.stack[i]
      BY <1>5
    <3>2. \A i \in 1 .. n : e.graph.stack[i].doc = c.graph.stack[i].doc
      BY <1>2
    <3> QED BY <2>0, <3>1, <3>2
  <2>2. n + 1 \in 1 .. n + 1 /\ d.graph.stack[n + 1].doc = k
    BY <1>1, <1>5
  <2>3. Pending(d) = Range(c.graph.pending) \cup {d.graph.stack[i].doc : i \in 1 .. n + 1}
    BY <1>4, <1>5, PendingFacts
  <2>4. Pending(c) = Range(c.graph.pending) \cup {c.graph.stack[i].doc : i \in 1 .. n}
    BY <1>1, PendingFacts
  <2> QED BY <2>1, <2>2, <2>3, <2>4
<1>8. Closed(d)
  <2>1. ASSUME NEW i \in 1 .. n + 1
        PROVE  Range(Children[d.graph.stack[i].doc]) \subseteq Range(d.graph.stack[i].kids) \cup Pending(d) \cup Found(d)
    <3>1. CASE i = n + 1
      BY <1>5, <3>1
    <3>2. CASE i \in 1 .. n
      <4>1. Range(Children[c.graph.stack[i].doc]) \subseteq Range(c.graph.stack[i].kids) \cup Pending(c) \cup Found(c)
        BY <1>1, <3>2 DEF RunKept, Closed
      <4>2. d.graph.stack[i] = e.graph.stack[i] /\ e.graph.stack[i].doc = c.graph.stack[i].doc
        BY <1>2, <1>5, <3>2
      <4>3. Range(c.graph.stack[i].kids) \subseteq Range(e.graph.stack[i].kids) \cup {k}
        <5>1. CASE i = n
          BY <1>1, <1>2, <1>3, <5>1
        <5>2. CASE i # n
          <6>1. e.graph.stack[i] = c.graph.stack[i]
            BY <1>1, <1>2, <3>2, <5>2
          <6> QED BY <6>1
        <5> QED BY <5>1, <5>2
      <4> QED BY <1>6, <1>7, <4>1, <4>2, <4>3
    <3>3. i = n + 1 \/ i \in 1 .. n
      BY <1>1
    <3> QED BY <3>1, <3>2, <3>3
  <2>2. DOMAIN d.graph.stack = 1 .. n + 1
    BY <1>5
  <2>3. \A x \in Found(c) : Range(Children[x]) \subseteq Found(c)
    BY DEF RunKept, Closed
  <2>4. \A x \in Range(c.graph.pending) : Range(Children[x]) \subseteq Pending(c) \cup Found(c)
    BY DEF RunKept, Closed
  <2> QED BY <1>5, <1>6, <1>7, <2>1, <2>2, <2>3, <2>4 DEF Closed
<1>9. d.graph.stack # <<>> /\ d.graph.stack[1].doc = c.graph.stack[1].doc
  BY <1>1, <1>2, <1>5
<1>10. RunKept(d)
  BY <1>1, <1>4, <1>6, <1>8, <1>9, GraphKept
<1> QED BY <1>10 DEF d, e, k

(* A subtree is done; the one before it goes on.                             *)
LEMMA SubtreeKept ==
  ASSUME ConAssumed, NEW c, RunKept(c), c.graph # NoGraph, Top(c).kids = <<>>, Front(c.graph.stack) # <<>>
  PROVE  RunKept(popGraph(c))
<1> DEFINE n == Len(c.graph.stack)
           top == Top(c).doc
           st == Front(c.graph.stack)
           pn == Append(c.graph.pending, top)
           d == [c EXCEPT !.graph = [stack |-> st, pending |-> pn]]
<1>1. /\ c \in Runs /\ c.graph.stack \in Seq(Nodes) /\ c.graph.stack # <<>> /\ n \in Nat \ {0} /\ top \in Docs
      /\ Top(c) = c.graph.stack[n] /\ DOMAIN c.graph.stack = 1 .. n /\ c.graph.pending \in Seq(Docs)
  BY OpenGraph
<1>2. popGraph(c) = d
  BY DEF popGraph
<1>3. /\ st \in Seq(Nodes) /\ Len(st) = n - 1 /\ \A i \in 1 .. n - 1 : st[i] = c.graph.stack[i]
      /\ DOMAIN st = 1 .. n - 1
  <2>1. st \in Seq(Nodes) /\ Len(st) = n - 1 /\ \A i \in 1 .. n - 1 : st[i] = c.graph.stack[i]
    BY <1>1, FrontFacts
  <2> QED BY <2>1
<1>4. pn \in Seq(Docs) /\ Range(pn) = Range(c.graph.pending) \cup {top}
  <2>1. PICK q \in Seq(Docs) : q = c.graph.pending
    BY <1>1
  <2>2. q \in Seq(Docs) /\ top \in Docs
    BY <1>1
  <2> HIDE DEF top
  <2>3. Append(q, top) \in Seq(Docs) /\ Range(Append(q, top)) = Range(q) \cup {top}
    BY ONLY <2>2, AppendRange
  <2> QED BY <2>1, <2>3
<1>5. st # <<>>
  OBVIOUS
<1> HIDE DEF st, pn
<1>6. [stack |-> st, pending |-> pn] \in [stack : Seq(Nodes), pending : Seq(Docs)]
  BY <1>3, <1>4
<1>7. /\ d \in Runs /\ Alike(c, d) /\ d.todo = c.todo /\ d.visited = c.visited
      /\ d.incomplete = c.incomplete /\ d.graph.stack = st /\ d.graph.pending = pn
  BY <1>1, <1>6 DEF Runs, Alike, Found
<1> HIDE DEF d
<1>8. Pending(d) = Pending(c) /\ Found(d) = Found(c)
  <2>1. Pending(d) = Range(pn) \cup {st[i].doc : i \in 1 .. n - 1}
    BY <1>3, <1>7, PendingFacts
  <2>2. Pending(c) = Range(c.graph.pending) \cup {c.graph.stack[i].doc : i \in 1 .. n}
    BY <1>1, PendingFacts
  <2>3. {st[i].doc : i \in 1 .. n - 1} = {c.graph.stack[i].doc : i \in 1 .. n - 1}
    BY <1>3
  <2>4. 1 .. n = (1 .. n - 1) \cup {n}
    BY <1>1
  <2>5. {c.graph.stack[i].doc : i \in 1 .. n} = {c.graph.stack[i].doc : i \in 1 .. n - 1} \cup {c.graph.stack[n].doc}
    BY <2>4
  <2> QED BY <1>1, <1>4, <1>7, <2>1, <2>2, <2>3, <2>5 DEF Alike
<1>9. Closed(d)
  <2>1. ASSUME NEW i \in 1 .. n - 1
        PROVE  Range(Children[st[i].doc]) \subseteq Range(st[i].kids) \cup Pending(d) \cup Found(d)
    <3>1. i \in 1 .. n /\ st[i] = c.graph.stack[i]
      BY <1>1, <1>3
    <3> QED BY <1>1, <1>8, <3>1 DEF RunKept, Closed
  <2>2. Range(Children[top]) \subseteq Pending(d) \cup Found(d)
    <3>1. n \in DOMAIN c.graph.stack /\ c.graph.stack[n].doc = top /\ c.graph.stack[n].kids = <<>>
      BY <1>1
    <3>2. Range(Children[c.graph.stack[n].doc]) \subseteq Range(c.graph.stack[n].kids) \cup Pending(c) \cup Found(c)
      BY <3>1 DEF RunKept, Closed
    <3> QED BY <1>8, <3>1, <3>2, NoRange
  <2>3. \A x \in Range(c.graph.pending) : Range(Children[x]) \subseteq Pending(c) \cup Found(c)
    BY DEF RunKept, Closed
  <2>4. \A x \in Found(c) : Range(Children[x]) \subseteq Found(c)
    BY DEF RunKept, Closed
  <2> HIDE DEF top
  <2> QED BY <1>3, <1>4, <1>7, <1>8, <2>1, <2>2, <2>3, <2>4 DEF Closed
<1>10. d.graph.stack # <<>> /\ d.graph.stack[1].doc = c.graph.stack[1].doc
  <2>1. Len(st) # 0
    BY <1>3, <1>5, EmptySeq
  <2>2. PICK m \in Nat : m = Len(st)
    BY <1>3
  <2>3. m # 0
    BY <2>1, <2>2
  <2>4. m \in Nat /\ 1 \in 1 .. m
    BY ONLY <2>3, m \in Nat
  <2>5. m = n - 1
    BY <1>3, <2>2
  <2> QED BY <1>3, <1>5, <1>7, <2>4, <2>5
<1>11. RunKept(d)
  BY <1>1, <1>7, <1>9, <1>10, GraphKept
<1> QED BY <1>2, <1>11

(* The whole graph is done: the image takes it.                              *)
LEMMA RootKept ==
  ASSUME ConAssumed, NEW c, RunKept(c), c.graph # NoGraph, Top(c).kids = <<>>, Front(c.graph.stack) = <<>>
  PROVE  RunKept(popGraph(c))
<1> DEFINE n == Len(c.graph.stack)
           top == Top(c).doc
           pn == Append(c.graph.pending, top)
           e == Dropped(c)
           all == Found(c) \cup Range(pn)
           marking == [x \in all |-> IF x \in Found(c) THEN c.tags[x] ELSE IF x = top THEN RootTag(c) ELSE None]
           ord == c.order \o pn
           d == [e EXCEPT !.graph = NoGraph, !.order = ord, !.tags = marking]
<1>1. /\ c \in Runs /\ c.todo # <<>> /\ c.graph.stack \in Seq(Nodes) /\ c.graph.stack # <<>> /\ n \in Nat \ {0} /\ top \in Docs
      /\ Top(c) = c.graph.stack[n] /\ DOMAIN c.graph.stack = 1 .. n /\ c.graph.pending \in Seq(Docs)
      /\ c.graph.stack[1].doc = Aim(Head(c.todo))
  BY OpenGraph
<1>2. n = 1 /\ top = Aim(Head(c.todo))
  <2>1. Len(Front(c.graph.stack)) = n - 1
    BY <1>1, FrontFacts
  <2>2. n - 1 = 0
    BY <2>1, NoRange
  <2>3. n = 1
    BY <1>1, <2>2
  <2> QED BY <1>1, <2>3
<1>3. pn \in Seq(Docs) /\ Range(pn) = Range(c.graph.pending) \cup {top}
  <2>1. PICK q \in Seq(Docs) : q = c.graph.pending
    BY <1>1
  <2>2. q \in Seq(Docs) /\ top \in Docs
    BY <1>1
  <2> HIDE DEF top
  <2>3. Append(q, top) \in Seq(Docs) /\ Range(Append(q, top)) = Range(q) \cup {top}
    BY ONLY <2>2, AppendRange
  <2> QED BY <2>1, <2>3
<1>4. /\ e \in Runs /\ Alike(c, e) /\ e.todo = Tail(c.todo) /\ e.visited = c.visited
      /\ e.incomplete = c.incomplete /\ e.graph = c.graph /\ e.tags = c.tags
  BY <1>1, DroppedRun
<1>5. popGraph(c) = d
  <2>1. e.order = c.order
    BY <1>4 DEF Alike
  <2> QED BY <1>4, <2>1 DEF popGraph, Runs
<1>6. c.order \in Seq(Docs) /\ c.tags \in Marked /\ Found(c) \subseteq Docs /\ Range(c.order) = Found(c) /\ c.seen <= Len(c.order)
      /\ c.seen \in Nat
  BY <1>1, RunFields DEF RunKept, RunTyped
<1> HIDE DEF e, pn
<1>7. /\ ord \in Seq(Docs) /\ Range(ord) = all /\ Len(c.order) <= Len(ord)
      /\ \A i \in 1 .. c.seen : ord[i] = c.order[i]
  <2>1. PICK o \in Seq(Docs) : o = c.order
    BY <1>6
  <2>2. o \in Seq(Docs) /\ pn \in Seq(Docs)
    BY <1>3
  <2>3. o \o pn \in Seq(Docs) /\ Range(o \o pn) = Range(o) \cup Range(pn)
    BY ONLY <2>2, ConcatRange
  <2>4. Len(o) <= Len(o \o pn) /\ \A i \in 1 .. Len(o) : (o \o pn)[i] = o[i]
    BY <2>2
  <2>5. \A i \in 1 .. c.seen : i \in 1 .. Len(o)
    BY <1>6, <2>1
  <2> QED BY <1>6, <2>1, <2>3, <2>4, <2>5
<1>8. marking \in Marked /\ DOMAIN marking = all
  <2>1. RootTag(c) \in Marks
    <3>1. Head(c.todo) \in Work /\ None \in Marks
      BY <1>1, NextTask DEF Marks
    <3>2. Head(c.todo).kind = "tag" => Head(c.todo).subject \in Docs
      BY <3>1, WorkFields
    <3> QED BY <3>1, <3>2 DEF RootTag, Marks
  <2>2. None \in Marks /\ c.tags \in [DOMAIN c.tags -> Marks]
    BY <1>6, MarkedFacts DEF Marks
  <2>3. \A x \in all : (IF x \in Found(c) THEN c.tags[x] ELSE IF x = top THEN RootTag(c) ELSE None) \in Marks
    BY <2>1, <2>2 DEF Found
  <2>4. all \in SUBSET Docs
    BY <1>3, <1>6, RangeFacts
  <2> HIDE DEF all
  <2>5. DOMAIN marking = all /\ marking \in [all -> Marks]
    BY <2>3
  <2> HIDE DEF marking
  <2> QED BY <2>4, <2>5, MarkedFacts
<1> HIDE DEF ord, marking, all
<1>9. NoGraph \in [stack : Seq(Nodes), pending : Seq(Docs)] /\ NoGraph.stack = <<>> /\ NoGraph.pending = <<>>
  BY DEF NoGraph
<1>10. /\ d \in Runs /\ d.tag = e.tag /\ d.digest = e.digest /\ d.index = e.index /\ d.skip = e.skip
       /\ d.order = ord /\ d.seen = e.seen /\ Found(d) = all /\ d.todo = e.todo /\ d.visited = e.visited
       /\ d.incomplete = e.incomplete /\ d.graph = NoGraph
  BY <1>4, <1>7, <1>8, <1>9 DEF Runs, Found
<1> HIDE DEF d
<1>11. /\ d.digest = c.digest /\ d.index = c.index /\ d.skip = c.skip /\ d.seen = c.seen
       /\ d.todo = Tail(c.todo) /\ d.visited = c.visited /\ d.incomplete = c.incomplete
  BY <1>4, <1>10 DEF Alike
<1>12. RunTyped(d)
  <2>1. c.seen <= Len(ord)
    <3>1. Len(c.order) \in Nat /\ Len(ord) \in Nat
      BY <1>6, <1>7
    <3> QED BY <1>6, <1>7, <3>1
  <2> QED BY <1>7, <1>9, <1>10, <1>11, <2>1 DEF RunKept, RunTyped
<1>13. Closed(d)
  <2>1. Pending(c) = Range(c.graph.pending) \cup {top}
    <3>1. Pending(c) = Range(c.graph.pending) \cup {c.graph.stack[i].doc : i \in 1 .. n}
      BY <1>1, PendingFacts
    <3>2. {c.graph.stack[i].doc : i \in 1 .. n} = {top}
      BY <1>1, <1>2
    <3> QED BY <3>1, <3>2
  <2>2. Range(Children[top]) \subseteq Pending(c) \cup Found(c)
    <3>1. n \in DOMAIN c.graph.stack /\ c.graph.stack[n].doc = top /\ c.graph.stack[n].kids = <<>>
      BY <1>1
    <3>2. Range(Children[c.graph.stack[n].doc]) \subseteq Range(c.graph.stack[n].kids) \cup Pending(c) \cup Found(c)
      BY <3>1 DEF RunKept, Closed
    <3> QED BY <3>1, <3>2, NoRange
  <2>3. \A x \in Range(c.graph.pending) : Range(Children[x]) \subseteq Pending(c) \cup Found(c)
    BY DEF RunKept, Closed
  <2>4. \A x \in Found(c) : Range(Children[x]) \subseteq Found(c)
    BY DEF RunKept, Closed
  <2>5. all = Found(c) \cup Range(c.graph.pending) \cup {top}
    BY <1>3 DEF all
  <2> HIDE DEF top
  <2>6. \A x \in all : Range(Children[x]) \subseteq all
    BY <2>1, <2>2, <2>3, <2>4, <2>5
  <2>7. DOMAIN d.graph.stack = {} /\ Range(d.graph.pending) = {}
    BY <1>10, Graphless
  <2> QED BY <1>10, <2>6, <2>7 DEF Closed
<1>14. Discovered(d)
  <2>1. Taken(c) \subseteq Taken(d) /\ top \in Taken(d)
    BY <1>3, <1>10, <1>11 DEF Taken, all
  <2>2. Head(c.todo) \in Work /\ <<>> \in Seq(Work) /\ <<>> \o Tail(c.todo) = Tail(c.todo)
    BY <1>1, NextTask
  <2>3. Replied(Head(c.todo), d, <<>>)
    <3>1. Head(c.todo).kind \notin {"subject", "referrers"}
      BY <1>1, <1>2, <2>2, WorkFields DEF Aim, Carrying, ConAssumed
    <3>2. Head(c.todo).kind = "tag" => Cosign(Head(c.todo).subject) = top
      BY <1>2 DEF Aim
    <3>3. Head(c.todo).kind = "referrer" => Head(c.todo).doc = top
      BY <1>2 DEF Aim
    <3> QED BY <2>1, <3>1, <3>2, <3>3 DEF Replied
  <2>4. \A i \in 1 .. c.seen : d.order[i] = c.order[i]
    BY <1>7, <1>10
  <2> QED BY <1>1, <1>10, <1>11, <2>1, <2>2, <2>3, <2>4, TasksGoOn DEF RunKept
<1>15. RunKept(d)
  BY <1>12, <1>13, <1>14 DEF RunKept
<1> QED BY <1>5, <1>15

----------------------------------------------------------------------------
(* The steps of a collect.                                                   *)
LEMMA GraphStepKept ==
  ASSUME ConAssumed, NEW c, RunKept(c), c.graph # NoGraph
  PROVE  /\ Top(c).kids = <<>> => RunKept(popGraph(c))
         /\ Top(c).kids # <<>> => stageChild(c) = Idle \/ RunKept(stageChild(c))
         /\ Top(c).kids # <<>> => collectGraphFails(Fetch(c)) = Idle \/ RunKept(collectGraphFails(Fetch(c)))
<1>0. c \in Runs /\ c.todo # <<>>
  BY OpenGraph
<1>1. RunKept(GiveUp(c))
  BY <1>0, GiveUpKept
<1> DEFINE f == Fetch(c)
<1>2. RunKept(f) /\ f.graph = c.graph /\ f.todo = c.todo
  BY <1>0, FetchKept, FetchRun
<1>3. Top(f) = Top(c)
  BY <1>2 DEF Top
<1> HIDE DEF f
<1>4. RunKept(GiveUp(f))
  BY <1>0, <1>2, GiveUpKept
<1>5. ASSUME Top(c).kids # <<>> PROVE stageChild(c) = Idle \/ RunKept(stageChild(c))
  <2> DEFINE k == Head(Top(c).kids)
  <2>1. CASE k \in Visiting(c)
    BY <1>1, <2>1 DEF stageChild, collectGraphFails
  <2>2. CASE k \notin Visiting(c) /\ k \in Pending(c) \cup Found(c)
    <3>1. RunKept(NextKid(c))
      BY <1>5, <2>2, NextKidKept
    <3> QED BY <2>2, <3>1 DEF stageChild
  <2>3. CASE k \notin Visiting(c) /\ k \notin Pending(c) \cup Found(c)
    <3>1. RunKept(stage(NextKid(f), Head(Top(f).kids)))
      BY <1>2, <1>3, <1>5, ChildKept
    <3>2. RunKept(stage(NextKid(Fetch(c)), k))
      BY <1>3, <3>1 DEF f
    <3> QED BY <1>1, <2>3, <3>2 DEF stageChild, collectGraphFails
  <2> QED BY <2>1, <2>2, <2>3
<1>6. collectGraphFails(Fetch(c)) = Idle \/ RunKept(collectGraphFails(Fetch(c)))
  BY <1>4 DEF collectGraphFails, f
<1> QED BY <1>5, <1>6, SubtreeKept, RootKept

LEMMA TaskStepKept ==
  ASSUME ConAssumed, upTag \in [Tags -> Docs], NEW c, RunKept(c), c.todo # <<>>, c.graph = NoGraph
  PROVE  LET t == Head(c.todo)
         IN  /\ t.kind \in {"root", "seed"} => RunKept(stage(c, t.doc))
             /\ t.kind = "attestation" => RunKept(addDescriptor(c, t.subject, t.doc, FALSE))
             /\ t.kind = "subject" => RunKept(discoverSubject(c, t.subject))
             /\ t.kind = "tag" => RunKept(addByTag(c, t.subject))
             /\ t.kind = "referrers" => RunKept(IF capReached(c) THEN GiveUp(c) ELSE fetchReferrers(c, t.subject, UpstreamReferrers[t.subject]))
             /\ t.kind = "referrer" => RunKept(addDescriptor(c, t.subject, t.doc, TRUE))
<1> DEFINE t == Head(c.todo)
<1>1. t \in Work
  BY NextTask
<1>2. ASSUME t.kind \in {"root", "seed"} PROVE RunKept(stage(c, t.doc))
  <2>1. t.doc \in Docs /\ t.doc = Aim(t)
    BY <1>1, <1>2, WorkFields DEF Carrying, Aim
  <2> QED BY <2>1, StageKept
<1>3. t.kind = "attestation" => RunKept(addDescriptor(c, t.subject, t.doc, FALSE))
  BY DescriptorKept
<1>4. t.kind = "referrer" => RunKept(addDescriptor(c, t.subject, t.doc, TRUE))
  BY DescriptorKept
<1>5. t.kind = "referrers" => RunKept(IF capReached(c) THEN GiveUp(c) ELSE fetchReferrers(c, t.subject, UpstreamReferrers[t.subject]))
  BY GiveUpKept, ReferrersKept
<1> QED BY <1>2, <1>3, <1>4, <1>5, SubjectKept, TagKept

(* The work of an image asks for its subjects.                               *)
LEMMA TasksFacts ==
  ASSUME ConAssumed, NEW m \in Docs, NEW idx \in Docs \cup {None}, idx # None => Children[idx] # <<>>
  PROVE  /\ Tasks(m, idx) \in Seq(Work)
         /\ \A s \in {m, idx} \ {None} : \E t \in Range(Tasks(m, idx)) : t.kind = "subject" /\ t.subject = s
<1> DEFINE a == IF isContainerArtifactDocument(m) THEN <<Task("root", None, m)>>
                ELSE IF Subject[m] # None THEN <<Task("seed", None, m)>> ELSE <<>>
           b == IF idx = None THEN <<>>
                ELSE [i \in DOMAIN indexAttestationEntries(idx) |-> Task("attestation", m, indexAttestationEntries(idx)[i])]
           c == IF idx = None THEN <<>> ELSE <<Task("subject", idx, None)>>
           d == <<Task("subject", m, None)>>
<1>1. a \in Seq(Work)
  <2>1. Task("root", None, m) \in Work /\ Task("seed", None, m) \in Work
    BY DEF Task, Work, Carrying
  <2> QED BY <2>1
<1>2. b \in Seq(Work)
  <2>1. CASE idx = None
    BY <2>1
  <2>2. CASE idx # None
    <3>1. PICK q \in Seq(Docs) : q = indexAttestationEntries(idx)
      <4>1. Children[idx] \in Seq(Docs) /\ Children[idx] # <<>>
        BY <2>2 DEF ConAssumed
      <4>2. Tail(Children[idx]) \in Seq(Docs)
        BY <4>1, TailRange
      <4> QED BY <4>2 DEF indexAttestationEntries
    <3>2. DOMAIN q = 1 .. Len(q) /\ Len(q) \in Nat
      OBVIOUS
    <3>3. \A i \in DOMAIN q : Task("attestation", m, q[i]) \in Work
      <4> SUFFICES ASSUME NEW i \in DOMAIN q PROVE Task("attestation", m, q[i]) \in Work
        OBVIOUS
      <4>1. q[i] \in Docs
        OBVIOUS
      <4> QED BY <4>1 DEF Task, Work, Carrying
    <3>4. b = [i \in DOMAIN q |-> Task("attestation", m, q[i])]
      BY <2>2, <3>1
    <3> HIDE DEF b
    <3> QED BY <3>2, <3>3, <3>4
  <2> QED BY <2>1, <2>2
<1>3. /\ c \in Seq(Work) /\ d \in Seq(Work) /\ Task("subject", m, None) \in Range(d)
      /\ idx # None => Task("subject", idx, None) \in Range(c)
  <2>1. /\ Task("subject", m, None) \in Work
        /\ idx # None => Task("subject", idx, None) \in Work
    BY DEF Task, Work, Carrying, ConAssumed
  <2>2. \A x \in Work : <<x>> \in Seq(Work) /\ Head(<<x>>) = x /\ <<x>> # <<>>
    OBVIOUS
  <2>3. \A x \in Work : x \in Range(<<x>>)
    BY <2>2, TailRange
  <2>4. <<>> \in Seq(Work)
    OBVIOUS
  <2> QED BY <2>1, <2>2, <2>3, <2>4
<1>4. Tasks(m, idx) = a \o b \o c \o d
  BY DEF Tasks
<1> HIDE DEF a, b, c, d
<1>5. a \o b \in Seq(Work) /\ a \o b \o c \in Seq(Work) /\ a \o b \o c \o d \in Seq(Work)
      /\ Range(a \o b \o c \o d) = Range(a \o b \o c) \cup Range(d)
      /\ Range(a \o b \o c) = Range(a \o b) \cup Range(c)
  <2>1. a \o b \in Seq(Work)
    BY <1>1, <1>2
  <2>2. PICK p \in Seq(Work) : p = a \o b
    BY <2>1
  <2>3. p \in Seq(Work) /\ c \in Seq(Work)
    BY <1>3
  <2>4. p \o c \in Seq(Work) /\ Range(p \o c) = Range(p) \cup Range(c)
    BY ONLY <2>3, ConcatRange
  <2>5. PICK q \in Seq(Work) : q = p \o c
    BY <2>4
  <2>6. q \in Seq(Work) /\ d \in Seq(Work)
    BY <1>3
  <2>7. q \o d \in Seq(Work) /\ Range(q \o d) = Range(q) \cup Range(d)
    BY ONLY <2>6, ConcatRange
  <2> QED BY <2>1, <2>2, <2>4, <2>5, <2>7
<1>6. \A s : Task("subject", s, None).kind = "subject" /\ Task("subject", s, None).subject = s
  BY DEF Task
<1>7. \A s \in {m, idx} \ {None} : Task("subject", s, None) \in Range(Tasks(m, idx))
  BY <1>3, <1>4, <1>5
<1> QED BY <1>4, <1>5, <1>6, <1>7

LEMMA StartKept ==
  ASSUME ConAssumed, NEW d \in Docs, NEW tag \in Tags \cup {None}
  PROVE  LET idx == IF Kind[d] = "index" THEN d ELSE None
             m == IF idx = None THEN d ELSE pickAmd64Manifest(d)
         IN  RunKept([at |-> "run", tag |-> tag, digest |-> m, index |-> idx,
                      skip |-> (IF isContainerArtifactDocument(m) THEN {idx} ELSE {m, idx}) \ {None},
                      todo |-> Tasks(m, idx), order |-> <<>>, visited |-> {}, seen |-> 0,
                      fetches |-> 0, incomplete |-> FALSE, tags |-> <<>>, graph |-> NoGraph])
<1> DEFINE idx == IF Kind[d] = "index" THEN d ELSE None
           m == IF idx = None THEN d ELSE pickAmd64Manifest(d)
           skip == (IF isContainerArtifactDocument(m) THEN {idx} ELSE {m, idx}) \ {None}
           c == [at |-> "run", tag |-> tag, digest |-> m, index |-> idx, skip |-> skip,
                 todo |-> Tasks(m, idx), order |-> <<>>, visited |-> {}, seen |-> 0,
                 fetches |-> 0, incomplete |-> FALSE, tags |-> <<>>, graph |-> NoGraph]
<1>1. m \in Docs /\ idx \in Docs \cup {None} /\ Resolved(m, idx) /\ (idx # None => Children[idx] # <<>>)
  <2>1. CASE Kind[d] = "index"
    <3>1. Children[d] \in Seq(Docs) /\ Children[d] # <<>> /\ d # None
      BY <2>1 DEF ConAssumed
    <3>2. Children[d][1] \in Docs
      BY <3>1
    <3> QED BY <2>1, <3>1, <3>2 DEF pickAmd64Manifest, Resolved
  <2>2. CASE Kind[d] # "index"
    BY <2>2 DEF Resolved
  <2> QED BY <2>1, <2>2
<1> HIDE DEF idx, m
<1>2. /\ Tasks(m, idx) \in Seq(Work)
      /\ \A s \in {m, idx} \ {None} : \E t \in Range(Tasks(m, idx)) : t.kind = "subject" /\ t.subject = s
  BY <1>1, TasksFacts
<1>3. <<>> \in Marked /\ DOMAIN <<>> = {}
  <2>1. DOMAIN <<>> = {} /\ <<>> \in [{} -> Marks]
    OBVIOUS
  <2> QED BY <2>1, MarkedFacts
<1>4. skip \subseteq {m, idx} \ {None} /\ skip \subseteq Docs
  BY <1>1
<1> HIDE DEF skip
<1>5. NoGraph \in [stack : Seq(Nodes), pending : Seq(Docs)] /\ NoGraph.stack = <<>>
  BY DEF NoGraph
<1>6. c \in Runs
  BY <1>1, <1>2, <1>3, <1>4, <1>5 DEF Runs
<1>7. /\ c.digest = m /\ c.index = idx /\ c.skip = skip /\ c.todo = Tasks(m, idx) /\ c.order = <<>> /\ c.visited = {}
      /\ c.seen = 0 /\ c.tags = <<>> /\ c.graph = NoGraph
  OBVIOUS
<1> HIDE DEF c
<1>8. Found(c) = {} /\ Range(c.order) = {} /\ c.seen <= Len(c.order)
  BY <1>3, <1>7, NoRange DEF Found
<1>9. RunTyped(c)
  BY <1>1, <1>4, <1>5, <1>6, <1>7, <1>8 DEF RunTyped
<1>10. Closed(c)
  BY <1>6, <1>7, <1>8, Graphless DEF Closed
<1>11. Discovered(c)
  BY <1>2, <1>7 DEF Discovered, Reached, Waits
<1>12. RunKept(c)
  BY <1>9, <1>10, <1>11 DEF RunKept
<1> QED BY <1>12 DEF c, skip, m, idx

LEMMA DiscoverKept ==
  ASSUME ConAssumed, NEW c, RunKept(c), c.todo = <<>>, c.seen < Len(c.order)
  PROVE  /\ RunKept([noteContainerDiscoveryIssue(c) EXCEPT !.seen = Len(c.order)])
         /\ RunKept([c EXCEPT !.seen = @ + 1, !.todo = <<Task("subject", c.order[c.seen + 1], None)>>])
<1>1. /\ c \in Runs /\ c.order \in Seq(Docs) /\ c.seen \in Nat /\ Len(c.order) \in Nat /\ c.graph.stack = <<>>
      /\ c.graph = NoGraph
  <2>1. c \in Runs /\ c.graph.stack = <<>> /\ c.graph = NoGraph
    BY DEF RunKept, RunTyped
  <2>2. c.order \in Seq(Docs) /\ c.seen \in Nat
    BY <2>1, RunFields
  <2> QED BY <2>1, <2>2
<1>2. RunKept([noteContainerDiscoveryIssue(c) EXCEPT !.seen = Len(c.order)])
  <2> DEFINE e == noteContainerDiscoveryIssue(c)
             d == [e EXCEPT !.seen = Len(c.order)]
  <2>1. RunKept(e) /\ e \in Runs /\ Alike(c, e) /\ e.todo = c.todo /\ e.incomplete /\ e.graph = c.graph
    BY <1>1, NoteRun, NoteKept
  <2> HIDE DEF e
  <2>2. /\ d \in Runs /\ d.tag = e.tag /\ d.digest = e.digest /\ d.index = e.index /\ d.skip = e.skip
        /\ d.order = e.order /\ d.seen = Len(c.order) /\ Found(d) = Found(e) /\ d.todo = e.todo
        /\ d.incomplete /\ d.graph = e.graph
    BY <1>1, <2>1 DEF Runs, Found
  <2> HIDE DEF d
  <2>3. RunTyped(d)
    BY <1>1, <2>1, <2>2 DEF RunKept, RunTyped, Alike
  <2>4. Closed(d)
    BY <2>1, <2>2 DEF RunKept, Closed, Pending, Visiting
  <2>5. RunKept(d)
    BY <2>2, <2>3, <2>4 DEF RunKept, Discovered
  <2> QED BY <2>5 DEF d, e
<1>3. RunKept([c EXCEPT !.seen = @ + 1, !.todo = <<Task("subject", c.order[c.seen + 1], None)>>])
  <2> DEFINE s == c.order[c.seen + 1]
             x == Task("subject", s, None)
             p == <<x>>
             d == [c EXCEPT !.seen = c.seen + 1, !.todo = p]
  <2>1. s \in Docs /\ c.seen + 1 \in Nat /\ c.seen + 1 <= Len(c.order)
    <3>1. c.seen + 1 \in 1 .. Len(c.order)
      BY <1>1
    <3> QED BY <1>1, <3>1
  <2>2. x \in Work
    BY <2>1 DEF Task, Work, Carrying
  <2>3. x.kind = "subject" /\ x.subject = s
    BY DEF Task
  <2> HIDE DEF x
  <2>4. p \in Seq(Work) /\ x \in Range(p)
    <3>1. p \in Seq(Work) /\ Head(p) = x /\ p # <<>>
      BY <2>2
    <3> QED BY <3>1, TailRange
  <2> HIDE DEF p
  <2>5. /\ d \in Runs /\ d.tag = c.tag /\ d.digest = c.digest /\ d.index = c.index /\ d.skip = c.skip
        /\ d.order = c.order /\ d.seen = c.seen + 1 /\ Found(d) = Found(c) /\ d.todo = p
        /\ d.visited = c.visited /\ d.incomplete = c.incomplete /\ d.graph = c.graph
    BY <1>1, <2>1, <2>4 DEF Runs, Found
  <2> HIDE DEF d
  <2>6. RunTyped(d)
    BY <1>1, <2>1, <2>5 DEF RunKept, RunTyped
  <2>7. Closed(d)
    BY <2>5 DEF RunKept, Closed, Pending, Visiting
  <2>8. Discovered(d)
    <3> SUFFICES ASSUME ~c.incomplete
                 PROVE  /\ \A y \in {d.digest, d.index} \ {None} : Reached(d, y)
                        /\ \A i \in 1 .. d.seen : Reached(d, d.order[i])
                        /\ \A y \in d.visited :
                             /\ Cosign(y) \in Taken(d) \cup {None} \/ Waits(d, "tag", y)
                             /\ \A z \in Range(UpstreamReferrers[y]) :
                                  \/ z \in Taken(d) \/ Waits(d, "referrers", y)
                                  \/ \E t \in Range(d.todo) : t.kind = "referrer" /\ t.subject = y /\ t.doc = z
      BY <2>5 DEF Discovered
    <3>1. Range(c.todo) = {}
      BY NoRange
    <3>2. /\ \A y \in {c.digest, c.index} \ {None} : Reached(c, y)
          /\ \A i \in 1 .. c.seen : Reached(c, c.order[i])
      BY DEF RunKept, Discovered
    <3>3. \A y : Reached(c, y) => Reached(d, y)
      BY <2>5, <3>1 DEF Reached, Waits
    <3>4. Reached(d, s)
      BY <2>3, <2>4, <2>5 DEF Reached, Waits
    <3>5. \A i \in 1 .. c.seen + 1 : i \in 1 .. c.seen \/ i = c.seen + 1
      BY <1>1
    <3>6. \A y \in c.visited : /\ Cosign(y) \in Taken(c) \cup {None}
                               /\ \A z \in Range(UpstreamReferrers[y]) : z \in Taken(c)
      BY <3>1 DEF RunKept, Discovered, Waits
    <3>7. Taken(d) = Taken(c)
      BY <2>5 DEF Taken
    <3> QED BY <2>5, <3>2, <3>3, <3>4, <3>5, <3>6, <3>7
  <2>9. RunKept(d)
    BY <2>6, <2>7, <2>8 DEF RunKept
  <2> QED BY <1>1, <2>9 DEF d, p, x, Runs
<1> QED BY <1>2, <1>3

(* The same upstream, the same invariant of the run.                         *)
LEMMA CollectGoesOn ==
  ASSUME upTag' = upTag,
         \/ col' = Idle
         \/ col' \in [at : {"resolve"}, tag : Tags \cup {None}, ref : Docs]
         \/ RunKept(col')
  PROVE  CollectKept'
BY DEF CollectKept, RunKept, RunTyped, Closed, Discovered, Aim, Cosign, Taken, Reached, Waits, Idle

LEMMA Running ==
  ASSUME CollectKept, col.at = "run"
  PROVE  RunKept(col)
BY DEF CollectKept, RunKept, Idle

LEMMA CollectStepKept ==
  ASSUME ConAssumed, CollectKept, upTag \in [Tags -> Docs],
         \/ fetchContainerManifest \/ collectImageArtifacts \/ collectGraph \/ discover
         \/ parseContainerCollectRefs \/ ImageFails \/ FetchFails \/ ChildFails
  PROVE  CollectKept'
<1>1. ASSUME fetchContainerManifest PROVE CollectKept'
  <2>1. col \in [at : {"resolve"}, tag : Tags \cup {None}, ref : Docs]
    BY <1>1 DEF fetchContainerManifest, CollectKept, Idle, RunTyped, Runs
  <2>2. col.ref \in Docs /\ col.tag \in Tags \cup {None}
    BY <2>1
  <2>3. RunKept(col')
    BY <1>1, <2>2, StartKept DEF fetchContainerManifest
  <2> QED BY <1>1, <2>3, CollectGoesOn DEF fetchContainerManifest
<1>2. ASSUME collectImageArtifacts PROVE CollectKept'
  <2> DEFINE t == Head(col.todo)
  <2>1. RunKept(col) /\ col.todo # <<>> /\ col.graph = NoGraph
    BY <1>2, Running DEF collectImageArtifacts
  <2>2. t \in Work
    BY <2>1, NextTask
  <2>3. t.kind \in {"root", "seed", "attestation", "referrer", "subject", "tag", "referrers"}
    BY <2>2, WorkFields DEF Carrying
  <2>4. RunKept(col')
    BY <1>2, <2>1, <2>3, TaskStepKept DEF collectImageArtifacts
  <2> QED BY <1>2, <2>4, CollectGoesOn DEF collectImageArtifacts
<1>3. ASSUME collectGraph PROVE CollectKept'
  <2>1. RunKept(col) /\ col.graph # NoGraph
    BY <1>3, Running DEF collectGraph
  <2>2. col' = Idle \/ RunKept(col')
    BY <1>3, <2>1, GraphStepKept DEF collectGraph
  <2> QED BY <1>3, <2>2, CollectGoesOn DEF collectGraph
<1>4. ASSUME discover PROVE CollectKept'
  <2>1. RunKept(col) /\ col.todo = <<>> /\ col.seen < Len(col.order)
    BY <1>4, Running DEF discover
  <2>2. RunKept(col')
    BY <1>4, <2>1, DiscoverKept DEF discover
  <2> QED BY <1>4, <2>2, CollectGoesOn DEF discover
<1>5. ASSUME parseContainerCollectRefs PROVE CollectKept'
  <2>1. col' \in [at : {"resolve"}, tag : Tags \cup {None}, ref : Docs]
    BY <1>5 DEF parseContainerCollectRefs, ConAssumed
  <2> QED BY <1>5, <2>1, CollectGoesOn DEF parseContainerCollectRefs
<1>6. ASSUME ImageFails PROVE CollectKept'
  BY <1>6, CollectGoesOn DEF ImageFails
<1>7. ASSUME FetchFails PROVE CollectKept'
  <2> DEFINE t == Head(col.todo)
  <2>1. RunKept(col) /\ col.todo # <<>> /\ col.graph = NoGraph
    BY <1>7, Running DEF FetchFails
  <2>2. col \in Runs
    BY <2>1, NextTask
  <2>3. RunKept(GiveUp(col))
    BY <2>1, GiveUpKept
  <2>4. RunKept(GiveUp(Fetch(col)))
    <3> DEFINE f == Fetch(col)
    <3>1. RunKept(f) /\ f.todo # <<>>
      BY <2>1, <2>2, FetchKept, FetchRun
    <3> HIDE DEF f
    <3>2. RunKept(GiveUp(f))
      BY <3>1, GiveUpKept
    <3> QED BY <3>2 DEF f
  <2>5. ASSUME t.kind = "referrers", NEW n \in 0 .. Len(UpstreamReferrers[t.subject])
        PROVE  RunKept(noteContainerDiscoveryIssue(fetchReferrers(col, t.subject, SubSeq(UpstreamReferrers[t.subject], 1, n))))
    BY <2>1, <2>5, ReferrersKept
  <2>6. RunKept(col')
    BY <1>7, <2>3, <2>4, <2>5 DEF FetchFails
  <2> QED BY <1>7, <2>6, CollectGoesOn DEF FetchFails
<1>8. ASSUME ChildFails PROVE CollectKept'
  <2>1. RunKept(col) /\ col.graph # NoGraph /\ Top(col).kids # <<>>
    BY <1>8, Running DEF ChildFails
  <2>2. col' = Idle \/ RunKept(col')
    BY <1>8, <2>1, GraphStepKept DEF ChildFails
  <2> QED BY <1>8, <2>2, CollectGoesOn DEF ChildFails
<1> QED BY <1>1, <1>2, <1>3, <1>4, <1>5, <1>6, <1>7, <1>8

----------------------------------------------------------------------------
(* Images, their documents, and the artifact index.                          *)
LEMMA ImageFields ==
  ASSUME ConAssumed, NEW i \in Images
  PROVE  /\ i.tag \in Tags \cup {None} /\ i.digest \in Docs /\ i.index \in Docs \cup {None}
         /\ i.seen \in Observations /\ Resolved(i.digest, i.index) /\ Served(i) \in Docs
         /\ DOMAIN i.arts \subseteq Docs /\ i.arts \in [DOMAIN i.arts -> Marks] /\ DocsOf(i) \subseteq Docs
<1>1. i.arts \in Marked
  BY DEF Images
<1>2. DOMAIN i.arts \subseteq Docs /\ i.arts \in [DOMAIN i.arts -> Marks]
  BY <1>1, MarkedFacts
<1> QED BY <1>2 DEF Images, Served, DocsOf

(* A way to be served says what is served.                                   *)
LEMMA ServedOnce ==
  ASSUME ConAssumed, NEW i \in Images, NEW j \in Images, Served(i) = Served(j)
  PROVE  i.digest = j.digest /\ i.index = j.index
<1>1. Resolved(i.digest, i.index) /\ Resolved(j.digest, j.index)
  BY ImageFields
<1> QED BY <1>1 DEF Served, Resolved

LEMMA MergeTyped ==
  ASSUME ConAssumed, NEW idx \in Indexes, NEW imgs \in SUBSET Images
  PROVE  /\ mergeContainerArtifacts(idx, imgs) \in Indexes
         /\ mergeContainerArtifacts(idx, imgs).arts = idx.arts \cup UNION {DOMAIN img.arts : img \in imgs}
<1> DEFINE claims == UNION {{<<img.arts[d], d>> : d \in DOMAIN img.arts} : img \in imgs}
           claimed == {c[1] : c \in claims} \ {None}
           arts == idx.arts \cup UNION {DOMAIN img.arts : img \in imgs}
           dom == DOMAIN idx.tags \cup claimed
           marking == [t \in dom |-> IF t \in claimed THEN CHOOSE d \in Docs : <<t, d>> \in claims ELSE idx.tags[t]]
<1>1. idx.arts \subseteq Docs /\ DOMAIN idx.tags \subseteq Marks /\ idx.tags \in [DOMAIN idx.tags -> Docs]
  BY DEF Indexes, Tagging
<1>2. \A img \in imgs : DOMAIN img.arts \subseteq Docs /\ \A d \in DOMAIN img.arts : img.arts[d] \in Marks
  BY ImageFields
<1>3. \A c \in claims : \E m \in Marks, d \in Docs : c = <<m, d>>
  BY <1>2
<1>4. arts \in SUBSET Docs
  BY <1>1, <1>2
<1> HIDE DEF claims
<1>5. claimed \subseteq Marks
  BY <1>3
<1>6. \A t \in claimed : \E d \in Docs : <<t, d>> \in claims
  BY <1>3
<1>7. \A t \in dom : (IF t \in claimed THEN CHOOSE d \in Docs : <<t, d>> \in claims ELSE idx.tags[t]) \in Docs
  BY <1>1, <1>6
<1>8. dom \in SUBSET Marks
  BY <1>1, <1>5
<1> HIDE DEF claimed, dom
<1>9. marking \in [dom -> Docs]
  BY <1>7
<1> HIDE DEF marking
<1>10. marking \in Tagging
  BY <1>8, <1>9 DEF Tagging
<1>11. mergeContainerArtifacts(idx, imgs) = [arts |-> arts, tags |-> marking]
  BY DEF mergeContainerArtifacts, marking, dom, claimed, claims
<1> HIDE DEF arts
<1>12. [arts |-> arts, tags |-> marking] \in Indexes /\ [arts |-> arts, tags |-> marking].arts = arts
  BY <1>4, <1>10 DEF Indexes
<1> QED BY <1>11, <1>12 DEF arts

LEMMA LoadTyped ==
  ASSUME ConAssumed, images \subseteq Images, index \in Indexes \cup {None}
  PROVE  loadContainerRepoIndexLocked \in Indexes /\ (index # None => loadContainerRepoIndexLocked = index)
<1>1. NewIndex \in Indexes
  <2>1. <<>> \in [{} -> Docs] /\ {} \in SUBSET Marks
    OBVIOUS
  <2>2. <<>> \in Tagging
    BY <2>1 DEF Tagging
  <2> QED BY <2>2 DEF NewIndex, Indexes
<1>2. mergeContainerArtifacts(NewIndex, images) \in Indexes
  BY <1>1, MergeTyped
<1> QED BY <1>2 DEF loadContainerRepoIndexLocked

LEMMA SupersedeTyped ==
  ASSUME NEW idx \in Indexes, NEW img
  PROVE  SupersedeTag(idx, img) \in Indexes /\ SupersedeTag(idx, img).arts = idx.arts
<1> DEFINE dom == DOMAIN idx.tags \ {img.tag}
           marking == [t \in dom |-> idx.tags[t]]
<1>1. DOMAIN idx.tags \subseteq Marks /\ idx.tags \in [DOMAIN idx.tags -> Docs]
  BY DEF Indexes, Tagging
<1>2. dom \in SUBSET Marks /\ marking \in [dom -> Docs]
  BY <1>1
<1> HIDE DEF dom
<1>3. marking \in Tagging
  BY <1>2 DEF Tagging
<1>4. SupersedeTag(idx, img) = [idx EXCEPT !.tags = marking]
  BY DEF SupersedeTag, dom
<1> HIDE DEF marking
<1> QED BY <1>3, <1>4 DEF Indexes

LEMMA ImagesMerged ==
  ASSUME ConAssumed, images \subseteq Images, NEW img \in Images
  PROVE  /\ mergeContainerImages(img) \subseteq Images
         /\ \A i \in images : \E j \in mergeContainerImages(img) : j.digest = i.digest /\ j.index = i.index
<1> DEFINE old == {i \in images : containerImageKey(i) = containerImageKey(img)}
           kept == {i \in old : Served(i) = Served(img)}
           one == CHOOSE i \in kept : TRUE
           arts == IF kept = {} THEN img.arts ELSE retainContainerArtifacts(one.arts, img.arts)
           new == [img EXCEPT !.arts = arts]
<1>1. mergeContainerImages(img) = (images \ old) \cup {new} \cup preserveMovedContainerImage(img)
  BY DEF mergeContainerImages
<1>2. arts \in Marked
  <2>1. CASE kept = {}
    BY <2>1 DEF Images
  <2>2. CASE kept # {}
    <3>1. one \in Images
      BY <2>2
    <3> HIDE DEF one
    <3>2. /\ DOMAIN one.arts \subseteq Docs /\ one.arts \in [DOMAIN one.arts -> Marks]
          /\ DOMAIN img.arts \subseteq Docs /\ img.arts \in [DOMAIN img.arts -> Marks]
      BY <3>1, ImageFields
    <3> DEFINE dom == DOMAIN one.arts \cup DOMAIN img.arts
               f == [d \in dom |-> IF d \in DOMAIN img.arts THEN img.arts[d] ELSE one.arts[d]]
    <3>3. dom \in SUBSET Docs
      BY <3>2
    <3>4. \A d \in dom : (IF d \in DOMAIN img.arts THEN img.arts[d] ELSE one.arts[d]) \in Marks
      BY <3>2
    <3>5. retainContainerArtifacts(one.arts, img.arts) = f
      BY DEF retainContainerArtifacts
    <3> HIDE DEF dom
    <3>6. DOMAIN f = dom /\ f \in [dom -> Marks]
      BY <3>4
    <3> HIDE DEF f
    <3>7. f \in Marked
      BY <3>3, <3>6, MarkedFacts
    <3> QED BY <2>2, <3>5, <3>7
  <2> QED BY <2>1, <2>2
<1> HIDE DEF arts
<1>3. new \in Images /\ new.digest = img.digest /\ new.index = img.index
  BY <1>2 DEF Images
<1> HIDE DEF new
<1>4. \A i \in Images : [i EXCEPT !.tag = None] \in Images /\ [i EXCEPT !.tag = None].digest = i.digest
                       /\ [i EXCEPT !.tag = None].index = i.index
  BY DEF Images
<1>5. preserveMovedContainerImage(img) \subseteq Images
  BY <1>4 DEF preserveMovedContainerImage
<1>6. ASSUME NEW i \in images
      PROVE  \E j \in mergeContainerImages(img) : j.digest = i.digest /\ j.index = i.index
  <2>1. i \in Images
    OBVIOUS
  <2>2. CASE containerImageKey(i) # containerImageKey(img)
    BY <1>1, <2>2
  <2>3. CASE containerImageKey(i) = containerImageKey(img) /\ Served(i) = Served(img)
    <3>1. i.digest = img.digest /\ i.index = img.index
      BY <2>1, <2>3, ServedOnce
    <3> QED BY <1>1, <1>3, <3>1
  <2>4. CASE containerImageKey(i) = containerImageKey(img) /\ Served(i) # Served(img)
    <3>1. img.tag # None /\ containerImageKey(img)[1] = "tag"
      BY <2>4 DEF containerImageKey
    <3>2. CASE \E j \in images : containerImageKey(j) = <<"digest", Served(i)>>
      <4>1. PICK j \in images : containerImageKey(j) = <<"digest", Served(i)>>
        BY <3>2
      <4>2. Served(j) = Served(i) /\ containerImageKey(j)[1] = "digest"
        BY <4>1 DEF containerImageKey
      <4>3. j \in mergeContainerImages(img)
        BY <1>1, <3>1, <4>2
      <4>4. j.digest = i.digest /\ j.index = i.index
        BY <2>1, <4>2, ServedOnce
      <4> QED BY <4>3, <4>4
    <3>3. CASE ~\E j \in images : containerImageKey(j) = <<"digest", Served(i)>>
      <4>1. [i EXCEPT !.tag = None] \in preserveMovedContainerImage(img)
        BY <2>4, <3>1, <3>3 DEF preserveMovedContainerImage
      <4> QED BY <1>1, <1>4, <2>1, <4>1
    <3> QED BY <3>2, <3>3
  <2> QED BY <2>2, <2>3, <2>4
<1> QED BY <1>1, <1>3, <1>5, <1>6

(* The low side: what is written of a finished collect.                      *)
LEMMA FinishTyped ==
  ASSUME ConAssumed, NEW c, RunKept(c), clock \in Nat,
         status \in [Docs -> {None} \cup [seen : Observations, tags : SUBSET Tags]]
  PROVE  LET img == ImageOf(c, finish(c, Served(c)))
         IN  /\ img \in Images /\ img.arts = c.tags /\ img.digest = c.digest /\ img.index = c.index
             /\ img.seen.complete = ~c.incomplete
             /\ updateContainerDiscoveryImage(Served(c), c.tag, img.seen)
                  \in [Docs -> {None} \cup [seen : Observations, tags : SUBSET Tags]]
<1> DEFINE s == Served(c)
           o == finish(c, s)
           img == ImageOf(c, o)
<1>1. /\ c.digest \in Docs /\ c.index \in Docs \cup {None} /\ c.tag \in Tags \cup {None} /\ c.tags \in Marked
      /\ c.incomplete \in BOOLEAN /\ Resolved(c.digest, c.index)
  BY RunFields DEF RunKept, RunTyped
<1>2. s \in Docs
  BY <1>1 DEF Served
<1>3. status[s] # None => status[s].seen.last \in Nat
  BY <1>2 DEF Observations
<1>4. o \in Observations /\ o.complete = ~c.incomplete
  BY <1>3 DEF finish, Observations
<1> HIDE DEF o, s
<1>5. img \in Images /\ img.arts = c.tags /\ img.digest = c.digest /\ img.index = c.index /\ img.seen = o
  BY <1>1, <1>4 DEF ImageOf, Images
<1> HIDE DEF img
<1>6. updateContainerDiscoveryImage(s, c.tag, o) \in [Docs -> {None} \cup [seen : Observations, tags : SUBSET Tags]]
  <2> DEFINE f(d) == IF d = s
        THEN [seen |-> o, tags |-> (IF status[d] = None THEN {} ELSE status[d].tags) \cup ({c.tag} \ {None})]
        ELSE IF status[d] = None THEN None
        ELSE [status[d] EXCEPT !.tags = @ \ {c.tag}]
  <2>1. ASSUME NEW d \in Docs PROVE f(d) \in {None} \cup [seen : Observations, tags : SUBSET Tags]
    <3>1. status[d] # None => status[d] \in [seen : Observations, tags : SUBSET Tags]
      OBVIOUS
    <3>2. CASE d = s
      <4>1. (IF status[d] = None THEN {} ELSE status[d].tags) \cup ({c.tag} \ {None}) \in SUBSET Tags
        BY <1>1, <3>1
      <4> QED BY <1>4, <3>2, <4>1
    <3>3. CASE d # s /\ status[d] = None
      BY <3>3
    <3>4. CASE d # s /\ status[d] # None
      <4>1. \A r \in [seen : Observations, tags : SUBSET Tags] :
              [r EXCEPT !.tags = r.tags \ {c.tag}] \in [seen : Observations, tags : SUBSET Tags]
        OBVIOUS
      <4> QED BY <3>1, <3>4, <4>1
    <3> QED BY <3>2, <3>3, <3>4
  <2>2. updateContainerDiscoveryImage(s, c.tag, o) = [d \in Docs |-> f(d)]
    BY DEF updateContainerDiscoveryImage
  <2> HIDE DEF f
  <2> QED BY <2>1, <2>2
<1> QED BY <1>4, <1>5, <1>6 DEF img, o, s

(* A finished, complete observation has all that is attached.                *)
LEMMA FinishedComplete ==
  ASSUME ConAssumed, NEW c, RunKept(c), c.todo = <<>>, c.seen = Len(c.order), ~c.incomplete,
         NEW s \in ({c.digest, c.index} \ {None}) \cup Found(c)
  PROVE  Attached(s) \subseteq ({c.digest, c.index} \ {None}) \cup Found(c)
<1>1. Range(c.todo) = {}
  BY NoRange
<1>2. c.order \in Seq(Docs) /\ Found(c) = Range(c.order) /\ c.skip \subseteq {c.digest, c.index} \ {None}
  BY RunFields DEF RunKept, RunTyped
<1>3. /\ \A x \in {c.digest, c.index} \ {None} : x \in c.visited
      /\ \A i \in 1 .. c.seen : c.order[i] \in c.visited
      /\ \A x \in c.visited : /\ Cosign(x) \in Taken(c) \cup {None}
                              /\ \A d \in Range(UpstreamReferrers[x]) : d \in Taken(c)
  BY <1>1 DEF RunKept, Discovered, Reached, Waits
<1>4. \A x \in Found(c) : \E i \in 1 .. Len(c.order) : x = c.order[i]
  BY <1>2, RangeFacts
<1>5. s \in c.visited
  BY <1>3, <1>4
<1> QED BY <1>2, <1>3, <1>5 DEF Attached, Taken

----------------------------------------------------------------------------
(* The invariant.                                                            *)
LEMMA InitKept ==
  ASSUME ConAssumed, ConInit
  PROVE  ConInv
<1>1. CollectKept /\ BundleIsClosed
  BY DEF ConInit, CollectKept, BundleIsClosed
<1>2. images \subseteq Images
  BY DEF ConInit, ConAssumed
<1>3. index \in Indexes \cup {None}
  <2>1. <<>> \in [{} -> Docs] /\ {} \in SUBSET Marks
    OBVIOUS
  <2>2. <<>> \in Tagging
    BY <2>1 DEF Tagging
  <2>3. NewIndex \in Indexes
    BY <2>2 DEF NewIndex, Indexes
  <2> QED BY <2>3 DEF ConInit
<1>4. blobs \subseteq Docs
  BY <1>2, ImageFields DEF ConInit
<1>5. upTag \in [Tags -> Docs] /\ status \in [Docs -> {None} \cup [seen : Observations, tags : SUBSET Tags]]
  BY DEF ConInit
<1>6. ConTypeOK
  BY <1>4, <1>5 DEF ConTypeOK, ConInit, ConAssumed, Idle
<1>7. bundles \in Seq(Images)
  BY DEF ConInit
<1> QED BY <1>1, <1>2, <1>3, <1>5, <1>6, <1>7 DEF ConInv, ConTyped, ConInit

LEMMA CollectStep ==
  ASSUME ConAssumed, ConInv,
         \/ fetchContainerManifest \/ collectImageArtifacts \/ collectGraph \/ discover
         \/ parseContainerCollectRefs \/ ImageFails \/ FetchFails \/ ChildFails
  PROVE  ConInv' /\ UNCHANGED <<bundles, images, index>>
<1>1. CollectKept'
  BY CollectStepKept DEF ConInv, ConTyped
<1>2. UNCHANGED <<upTag, clock, status, exported, bundles, images, index, blobs, conNext, conPc, conCrashes>>
  BY DEF fetchContainerManifest, collectImageArtifacts, collectGraph, discover, parseContainerCollectRefs, ImageFails,
         FetchFails, ChildFails, highVars
<1>3. conFaults' \in 0 .. ConMaxFaults
  <2>1. conFaults \in 0 .. ConMaxFaults /\ ConMaxFaults \in Nat
    BY DEF ConInv, ConTyped, ConTypeOK, ConAssumed
  <2>2. conFaults' = conFaults \/ ConFault
    BY DEF fetchContainerManifest, collectImageArtifacts, collectGraph, discover, parseContainerCollectRefs,
           ImageFails, FetchFails, ChildFails
  <2>3. ConFault => conFaults' \in 0 .. ConMaxFaults
    BY <2>1 DEF ConFault
  <2> QED BY <2>1, <2>2, <2>3
<1>4. Len(bundles) < ConMaxCollects
  <2>1. col.at \in {"resolve", "run"} => col # Idle
    BY DEF Idle
  <2> QED BY <2>1 DEF ConInv, ConTyped, fetchContainerManifest, collectImageArtifacts, collectGraph, discover,
                     parseContainerCollectRefs, ImageFails, FetchFails, ChildFails
<1>5. col'.at \in {"idle", "resolve", "run"}
  BY <1>1 DEF CollectKept, Idle, RunTyped, Runs
<1>6. ConTyped'
  BY <1>2, <1>3, <1>4, <1>5 DEF ConInv, ConTyped, ConTypeOK
<1>7. BundleIsClosed'
  BY <1>2 DEF ConInv, BundleIsClosed
<1> QED BY <1>1, <1>2, <1>6, <1>7 DEF ConInv

(* A bundle is written at most.                                              *)
LEMMA WrittenBundle ==
  ASSUME ConAssumed, ConInv, CollectContainers
  PROVE  \/ UNCHANGED bundles
         \/ \E img \in Images :
              /\ bundles' = Append(bundles, img) /\ img.arts = col.tags /\ img.digest = col.digest
              /\ img.index = col.index /\ img.seen.complete = ~col.incomplete
<1>1. RunKept(col)
  BY Running DEF CollectContainers, ConInv
<1>2. clock \in Nat /\ status \in [Docs -> {None} \cup [seen : Observations, tags : SUBSET Tags]]
  BY DEF ConInv, ConTyped, ConTypeOK
<1> DEFINE img == ImageOf(col, finish(col, Served(col)))
<1>3. /\ img \in Images /\ img.arts = col.tags /\ img.digest = col.digest /\ img.index = col.index
      /\ img.seen.complete = ~col.incomplete
  BY <1>1, <1>2, FinishTyped
<1>4. UNCHANGED bundles \/ bundles' = Append(bundles, img)
  BY DEF CollectContainers
<1> QED BY <1>3, <1>4

LEMMA WriteStep ==
  ASSUME ConAssumed, ConInv, CollectContainers
  PROVE  ConInv' /\ UNCHANGED <<images, index>>
<1>1. RunKept(col) /\ col.at = "run" /\ col # Idle
  BY Running DEF CollectContainers, ConInv, Idle
<1>2. CollectKept' /\ col' = Idle
  BY DEF CollectContainers, CollectKept
<1>3. clock \in Nat /\ status \in [Docs -> {None} \cup [seen : Observations, tags : SUBSET Tags]]
  BY DEF ConInv, ConTyped, ConTypeOK
<1>4. status' \in [Docs -> {None} \cup [seen : Observations, tags : SUBSET Tags]]
  BY <1>1, <1>3, FinishTyped DEF CollectContainers
<1>5. UNCHANGED <<upTag, clock, images, index, blobs, conNext, conPc, conCrashes, conFaults>>
  BY DEF CollectContainers, highVars
<1>6. bundles \in Seq(Images) /\ Len(bundles) < ConMaxCollects /\ conNext \in 1 .. Len(bundles) + 1 /\ ConMaxCollects \in Nat
  BY <1>1 DEF ConInv, ConTyped, ConTypeOK, ConAssumed
<1>7. CASE UNCHANGED bundles
  BY <1>2, <1>4, <1>5, <1>6, <1>7 DEF ConInv, ConTyped, ConTypeOK, BundleIsClosed, Idle
<1>8. ASSUME NEW img \in Images, bundles' = Append(bundles, img), img.arts = col.tags
      PROVE  ConInv'
  <2>1. /\ bundles' \in Seq(Images) /\ Len(bundles') = Len(bundles) + 1
        /\ bundles'[Len(bundles) + 1] = img /\ \A i \in 1 .. Len(bundles) : bundles'[i] = bundles[i]
    BY <1>6, <1>8, AppendRange
  <2>2. Len(bundles) \in Nat
    BY <1>6
  <2>3. Len(bundles') <= ConMaxCollects /\ conNext' \in 1 .. Len(bundles') + 1 /\ (conPc' # "idle" => conNext' <= Len(bundles'))
    <3>1. PICK n \in Nat : n = Len(bundles)
      BY <2>2
    <3>2. PICK k \in Nat : k = conNext
      BY <1>6
    <3>3. n < ConMaxCollects /\ k \in 1 .. n + 1 /\ ConMaxCollects \in Nat
      BY <1>6, <3>1, <3>2
    <3>4. n + 1 <= ConMaxCollects /\ k \in 1 .. n + 1 + 1 /\ (k <= n => k <= n + 1)
      BY <3>3
    <3>5. conPc # "idle" => k <= n
      BY <3>1, <3>2 DEF ConInv, ConTyped
    <3> QED BY <1>5, <2>1, <3>1, <3>2, <3>4, <3>5
  <2>4. validateStoredContainerGraph(DOMAIN img.arts)
    <3>1. \A d \in Found(col) : Range(Children[d]) \subseteq Found(col)
      BY <1>1 DEF RunKept, Closed
    <3> QED BY <1>8, <3>1 DEF validateStoredContainerGraph, Found
  <2>5. BundleIsClosed'
    <3>1. ASSUME NEW n \in DOMAIN bundles' PROVE validateStoredContainerGraph(DOMAIN bundles'[n].arts)
      <4>1. DOMAIN bundles' = 1 .. Len(bundles) + 1 /\ DOMAIN bundles = 1 .. Len(bundles)
        BY <1>6, <2>1
      <4>2. CASE n = Len(bundles) + 1
        BY <2>1, <2>4, <4>2
      <4>3. CASE n # Len(bundles) + 1
        <5>1. n \in DOMAIN bundles
          BY <2>2, <4>1, <4>3
        <5>2. bundles'[n] = bundles[n]
          BY <2>1, <4>1, <5>1
        <5>3. validateStoredContainerGraph(DOMAIN bundles[n].arts)
          BY <5>1 DEF ConInv, BundleIsClosed
        <5> QED BY <5>2, <5>3
      <4> QED BY <4>2, <4>3
    <3> QED BY <3>1 DEF BundleIsClosed, validateStoredContainerGraph
  <2>6. ConTypeOK'
    BY <1>2, <1>5, <2>3 DEF ConInv, ConTyped, ConTypeOK, Idle
  <2>7. ConTyped'
    BY <1>2, <1>4, <1>5, <2>1, <2>3, <2>6 DEF ConInv, ConTyped
  <2> QED BY <1>2, <2>5, <2>7 DEF ConInv
<1> QED BY <1>5, <1>7, <1>8, WrittenBundle

(* The high side reads the bundles only.                                     *)
LEMMA HighKept ==
  ASSUME ConInv, UNCHANGED <<upTag, col, clock, status, bundles>>, images' \subseteq Images,
         index' \in Indexes \cup {None}, blobs' \subseteq Docs, conNext' \in 1 .. Len(bundles) + 1,
         conPc' \in {"idle", "publish", "commit"}, conPc' # "idle" => conNext' <= Len(bundles),
         conFaults' \in 0 .. ConMaxFaults, conCrashes' \in 0 .. 1
  PROVE  ConInv'
<1>1. CollectKept'
  <2>1. \/ col = Idle
        \/ col \in [at : {"resolve"}, tag : Tags \cup {None}, ref : Docs]
        \/ RunKept(col)
    BY DEF ConInv, CollectKept, RunKept
  <2>2. col' = col /\ upTag' = upTag
    OBVIOUS
  <2> QED BY <2>1, <2>2, CollectGoesOn
<1>2. BundleIsClosed'
  BY DEF ConInv, BundleIsClosed
<1>3. ConTypeOK'
  BY DEF ConInv, ConTyped, ConTypeOK
<1>4. ConTyped'
  BY <1>3 DEF ConInv, ConTyped
<1> QED BY <1>1, <1>2, <1>4 DEF ConInv

LEMMA BundleTyped ==
  ASSUME ConAssumed, ConInv, conNext <= Len(bundles)
  PROVE  ConBundle \in Images /\ DocsOf(ConBundle) \subseteq Docs
<1>1. bundles \in Seq(Images) /\ conNext \in 1 .. Len(bundles) + 1
  BY DEF ConInv, ConTyped, ConTypeOK
<1>2. conNext \in 1 .. Len(bundles)
  BY <1>1
<1>3. bundles[conNext] \in Images
  BY <1>1, <1>2
<1> QED BY <1>3, ImageFields DEF ConBundle

(* What a merge of a bundle leaves: typed, and nothing served before is lost.  *)
LEMMA MergeStep ==
  ASSUME ConAssumed, ConInv, mergeContainerRepo
  PROVE  /\ index' \in Indexes /\ images' \subseteq Images
         /\ index # None => index.arts \subseteq index'.arts
         /\ \A i \in images : \E j \in images' : j.digest = i.digest /\ j.index = i.index
<1>1. images \subseteq Images /\ index \in Indexes \cup {None} /\ conNext <= Len(bundles)
  BY DEF ConInv, ConTyped, mergeContainerRepo
<1>2. ConBundle \in Images
  BY <1>1, BundleTyped
<1> DEFINE old == loadContainerRepoIndexLocked
           base == SupersedeTag(old, ConBundle)
<1>3. old \in Indexes /\ (index # None => old = index)
  BY <1>1, LoadTyped
<1> HIDE DEF old
<1>4. base \in Indexes /\ base.arts = old.arts
  BY <1>3, SupersedeTyped
<1> HIDE DEF base
<1>5. /\ mergeContainerArtifacts(base, {ConBundle}) \in Indexes
      /\ base.arts \subseteq mergeContainerArtifacts(base, {ConBundle}).arts
  BY <1>2, <1>4, MergeTyped
<1>6. index' = mergeContainerArtifacts(base, {ConBundle}) /\ images' = mergeContainerImages(ConBundle)
  BY DEF mergeContainerRepo, base, old
<1>7. images' \subseteq Images /\ \A i \in images : \E j \in images' : j.digest = i.digest /\ j.index = i.index
  BY <1>1, <1>2, <1>6, ImagesMerged
<1> QED BY <1>3, <1>4, <1>5, <1>6, <1>7

LEMMA RestStep ==
  ASSUME ConAssumed, ConInv, ConInstall \/ mergeContainerRepo \/ ConCommit \/ ConCrash \/ Migrate \/ Repair
  PROVE  ConInv'
<1> USE DEF lowVars
<1>0. /\ images \subseteq Images /\ index \in Indexes \cup {None} /\ blobs \subseteq Docs /\ conNext \in 1 .. Len(bundles) + 1
      /\ conPc \in {"idle", "publish", "commit"} /\ (conPc # "idle" => conNext <= Len(bundles)) /\ conFaults \in 0 .. ConMaxFaults
      /\ conCrashes \in 0 .. 1 /\ Len(bundles) \in Nat
  BY DEF ConInv, ConTyped, ConTypeOK
<1>1. ASSUME ConInstall PROVE ConInv'
  <2>1. conNext <= Len(bundles)
    BY <1>1 DEF ConInstall
  <2>2. blobs' \subseteq Docs
    BY <1>0, <1>1, <2>1, BundleTyped DEF ConInstall
  <2> QED BY <1>0, <1>1, <2>1, <2>2, HighKept DEF ConInstall
<1>2. ASSUME mergeContainerRepo PROVE ConInv'
  <2>1. index' \in Indexes /\ images' \subseteq Images
    BY <1>2, MergeStep
  <2> QED BY <1>0, <1>2, <2>1, HighKept DEF mergeContainerRepo
<1>3. ASSUME ConCommit PROVE ConInv'
  <2>1. conNext' \in 1 .. Len(bundles) + 1
    BY <1>0, <1>3 DEF ConCommit
  <2> QED BY <1>0, <1>3, <2>1, HighKept DEF ConCommit
<1>4. ASSUME ConCrash PROVE ConInv'
  BY <1>0, <1>4, HighKept DEF ConCrash
<1>5. ASSUME Migrate PROVE ConInv'
  <2>1. index' \in Indexes
    BY <1>0, <1>5, LoadTyped DEF Migrate
  <2> QED BY <1>0, <1>5, <2>1, HighKept DEF Migrate
<1>6. ASSUME Repair PROVE ConInv'
  <2>1. index' \in Indexes
    BY <1>0, <1>6, LoadTyped DEF Repair
  <2> QED BY <1>0, <1>6, <2>1, HighKept DEF Repair
<1> QED BY <1>1, <1>2, <1>3, <1>4, <1>5, <1>6

LEMMA WorldStep ==
  ASSUME ConAssumed, ConInv, UpstreamMoves \/ ClockTicks
  PROVE  ConInv'
<1>1. UNCHANGED <<col, status, bundles, images, index, blobs, conNext, conPc, conCrashes, conFaults>> /\ col = Idle
  BY DEF UpstreamMoves, ClockTicks, highVars
<1>2. upTag' \in [Tags -> Docs] /\ clock' \in 1 .. MaxClock
  BY DEF UpstreamMoves, ClockTicks, ConInv, ConTyped, ConTypeOK, ConAssumed
<1>3. CollectKept' /\ BundleIsClosed'
  BY <1>1 DEF CollectKept, ConInv, BundleIsClosed
<1>4. ConTypeOK'
  BY <1>1, <1>2 DEF ConInv, ConTyped, ConTypeOK
<1>5. ConTyped'
  BY <1>1, <1>2, <1>4 DEF ConInv, ConTyped
<1> QED BY <1>3, <1>5 DEF ConInv

LEMMA StillKept ==
  ASSUME ConInv, UNCHANGED conVars
  PROVE  ConInv'
<1>1. /\ UNCHANGED <<upTag, col, clock, status, bundles, images, index, blobs, conNext, conPc, conFaults, conCrashes>>
  BY DEF conVars
<1> QED BY <1>1, HighKept DEF ConInv, ConTyped, ConTypeOK

LEMMA ConInvAlways ==
  ASSUME ConAssumed
  PROVE  ConSpec => []ConInv
<1>1. ConInit => ConInv
  BY InitKept
<1>2. ConInv /\ [ConNext]_conVars => ConInv'
  BY CollectStep, WriteStep, RestStep, WorldStep, StillKept DEF ConNext, LowStep, HighStep
<1> QED BY <1>1, <1>2, PTL DEF ConSpec

----------------------------------------------------------------------------
(* Every variable stays in its set, whatever the upstream lists and whichever *)
(* lookups fail: a collect counts what it takes, the import what it merges.   *)
THEOREM ContainersTypeCorrect == ConSpec => []ConTypeOK
<1> USE ConAssumption
<1>1. ConInv => ConTypeOK
  BY DEF ConInv, ConTyped
<1> QED BY <1>1, ConInvAlways, PTL

(* The high side takes every bundle the low side writes: an artifact is only  *)
(* in a bundle with all it lists, however the collect was cut short.         *)
THEOREM BundlesAreClosed == ConSpec => []BundleIsClosed
<1> USE ConAssumption
<1>1. ConInv => BundleIsClosed
  BY DEF ConInv
<1> QED BY <1>1, ConInvAlways, PTL

(* An observation exported as complete is: whatever is attached to what the   *)
(* bundle holds is in it.                                                    *)
THEOREM CompleteIsComplete == ConSpec => CompleteMeansAll
<1> USE ConAssumption
<1>1. ASSUME ConInv, [ConNext]_conVars PROVE SentComplete
  <2>1. CASE CollectContainers
    <3>0. RunKept(col) /\ col.todo = <<>> /\ col.seen = Len(col.order)
      BY <1>1, <2>1, Running DEF CollectContainers, ConInv
    <3>1. CASE UNCHANGED bundles
      BY <3>1 DEF SentComplete
    <3>2. ASSUME NEW img \in Images, bundles' = Append(bundles, img), img.arts = col.tags, img.digest = col.digest,
                 img.index = col.index, img.seen.complete = ~col.incomplete
          PROVE  SentComplete
      <4>1. Last(bundles') = img
        <5>1. bundles \in Seq(Images)
          BY <1>1 DEF ConInv, ConTyped
        <5>2. Len(bundles') = Len(bundles) + 1 /\ bundles'[Len(bundles) + 1] = img
          BY <3>2, <5>1, AppendRange
        <5> QED BY <5>2 DEF Last
      <4>2. DocsOf(img) = ({col.digest, col.index} \ {None}) \cup Found(col)
        BY <3>2 DEF DocsOf, Found
      <4>3. img.seen.complete => \A s \in DocsOf(img) : Attached(s) \subseteq DocsOf(img)
        BY <3>0, <3>2, <4>2, FinishedComplete
      <4> QED BY <4>1, <4>3 DEF SentComplete
    <3> QED BY <1>1, <2>1, <3>1, <3>2, WrittenBundle
  <2>2. CASE ~CollectContainers
    <3>1. UNCHANGED bundles
      BY <1>1, <2>2 DEF ConNext, LowStep, HighStep, fetchContainerManifest, collectImageArtifacts, collectGraph, discover,
         parseContainerCollectRefs, ImageFails, FetchFails, ChildFails, UpstreamMoves, ClockTicks, ConInstall,
         mergeContainerRepo, ConCommit, ConCrash, Migrate, Repair, lowVars, conVars
    <3> QED BY <3>1 DEF SentComplete
  <2> QED BY <2>1, <2>2
<1> QED BY <1>1, ConInvAlways, PTL DEF ConSpec, CompleteMeansAll

(* What clients can pull by digest stays: no import, migration or repair, and *)
(* no crash between two steps of one, takes a digest away.                   *)
THEOREM DigestsKept == ConSpec => DigestsStayPullable
<1> USE ConAssumption
<1>1. ASSUME ConInv, [ConNext]_conVars PROVE KeepsDigests
  <2>1. /\ index # None => index' # None /\ index.arts \subseteq index'.arts
        /\ \A i \in images : \E j \in images' : j.digest = i.digest /\ j.index = i.index
    <3>1. CASE mergeContainerRepo
      <4>1. index' # None
        BY <1>1, <3>1, MergeStep DEF ConAssumed
      <4> QED BY <1>1, <3>1, <4>1, MergeStep
    <3>2. CASE Migrate \/ Repair
      BY <3>2 DEF Migrate, Repair
    <3>3. CASE ~mergeContainerRepo /\ ~(Migrate \/ Repair)
      <4>1. UNCHANGED <<images, index>>
        BY <1>1, <3>3 DEF ConNext, LowStep, HighStep, fetchContainerManifest, collectImageArtifacts, collectGraph, discover,
           CollectContainers, parseContainerCollectRefs, ImageFails, FetchFails, ChildFails, UpstreamMoves, ClockTicks,
           ConInstall, ConCommit, ConCrash, highVars, conVars
      <4> QED BY <4>1
    <3> QED BY <3>1, <3>2, <3>3
  <2> QED BY <2>1 DEF KeepsDigests, findByDigest
<1> QED BY <1>1, ConInvAlways, PTL DEF ConSpec, DigestsStayPullable

----------------------------------------------------------------------------
(* Operating-system repositories.                                            *)
Contents == SUBSET Packages
FilePaths == ({"pkg"} \X Packages) \cup ({"meta"} \X Contents)
OsFiles == FilePaths \X Contents
OsBundles == [kept : Contents, files : SUBSET OsFiles, prior : SUBSET OsFiles, snap : Contents]
Collects == [at : {"index", "download"}, snap : Contents, newest : BOOLEAN]

OsTyped ==
  /\ OsTypeOK /\ wire \in Seq(OsBundles) /\ sent \subseteq OsFiles
  /\ collect \in Collects \cup {NoCollect}
  /\ collect # NoCollect => Len(wire) < OsMaxCollects

(* A bundle's metadata describes packages of its manifest only, ...           *)
Describes(b) == \A f \in b.files : f[1][1] = "meta" => f[2] \subseteq b.kept
BundlesDescribe == \A n \in 1 .. Len(wire) : Describes(wire[n])

(* ... so metadata that is installed describes packages that are.             *)
MetaClosed ==
  \A S \in Contents : <<"meta", S>> \in DOMAIN osDisk =>
    osDisk[<<"meta", S>>] \in Contents /\ \A p \in osDisk[<<"meta", S>>] : <<"pkg", p>> \in DOMAIN osDisk

(* While a bundle is published, all it names is installed.                    *)
BundleThere ==
  osPc # "idle" => osNext <= Len(wire) /\ Valid(OsBundle) /\ PathsOf(OsBundle) \subseteq DOMAIN osDisk

(* What is served was merged, unless an index could not be read.              *)
ServedMerged == repoKind = "apt" \/ (repoKind = "apk" /\ osFaults = 0) => packages \subseteq merged

OsInv == OsTyped /\ BundlesDescribe /\ MetaClosed /\ BundleThere /\ ServedMerged /\ ListedIsPresent

----------------------------------------------------------------------------

LEMMA OsStart ==
  ASSUME OsAssumed, OsInit
  PROVE  OsInv
<1>1. OsTyped
  BY DEF OsAssumed, OsInit, OsTyped, OsTypeOK
<1>2. DOMAIN <<>> = {} /\ Len(<<>>) = 0
  OBVIOUS
<1>3. BundlesDescribe
  BY DEF OsInit, BundlesDescribe
<1> QED BY <1>1, <1>2, <1>3 DEF OsInit, OsInv, MetaClosed, BundleThere, ServedMerged, ListedIsPresent

(* What is kept of an index is in it.                                        *)
LEMMA KeptIn == ASSUME NEW S, NEW newest PROVE repoKind \in {"apt", "rpm", "apk"} => Kept(S, newest) \subseteq S
BY DEF Kept, filterNewestApt, filterNewestRpm, filterNewestApk, Newest

(* The bundle of a download: its metadata describes what it keeps.            *)
LEMMA BundleFits ==
  ASSUME repoKind \in {"apt", "rpm", "apk"}, sent \subseteq OsFiles, NEW c \in Collects, NEW got \in SUBSET Packages
  PROVE  BundleOf(c, got) \in OsBundles /\ Describes(BundleOf(c, got))
<1> DEFINE fs == OsFilesOf(c, got)
           b == BundleOf(c, got)
<1>1. c.snap \in Contents
  BY DEF Collects
<1>2. PackageFiles(got) \subseteq OsFiles
  BY DEF PackageFiles, OsFiles, FilePaths, Contents
<1>3. restageIndex(c.snap, got) \subseteq OsFiles
  BY <1>1 DEF restageIndex, filterIndexXML, OsFiles, FilePaths, Contents
<1>4. fs \subseteq OsFiles
  BY <1>2, <1>3 DEF OsFilesOf
<1>5. \A f \in fs : f[1][1] = "meta" => f[2] \subseteq got
  BY DEF OsFilesOf, PackageFiles, restageIndex, filterIndexXML
<1> HIDE DEF fs
<1>6. b = [kept |-> got, files |-> fs \ sent, prior |-> fs \cap sent, snap |-> c.snap]
  BY DEF BundleOf, fs
<1>7. b \in OsBundles
  BY <1>1, <1>4, <1>6 DEF OsBundles, Contents
<1>8. Describes(b)
  BY <1>5, <1>6 DEF Describes
<1> QED BY <1>7, <1>8

LEMMA OsBundleTyped ==
  ASSUME OsInv, osNext <= Len(wire)
  PROVE  OsBundle \in OsBundles /\ Describes(OsBundle) /\ osNext \in 1 .. Len(wire)
<1>1. wire \in Seq(OsBundles) /\ osNext \in 1 .. (Len(wire) + 1)
  BY DEF OsInv, OsTyped, OsTypeOK
<1>2. osNext \in 1 .. Len(wire)
  BY <1>1
<1>3. wire[osNext] \in OsBundles
  BY <1>1, <1>2
<1> QED BY <1>2, <1>3 DEF OsBundle, OsInv, BundlesDescribe

(* Steps that leave the high side alone.                                     *)
LEMMA LowKeeps ==
  ASSUME OsAssumed, OsInv, UNCHANGED <<repoKind, osDisk, merged, served, osNext, osPc, osFaults, osCrashes>>, up' \subseteq Packages,
         collect' \in Collects \cup {NoCollect}, collect' # NoCollect => Len(wire') < OsMaxCollects,
         sent' \subseteq OsFiles,
         \/ UNCHANGED wire
         \/ \E b \in OsBundles : Describes(b) /\ wire' = Append(wire, b) /\ Len(wire) < OsMaxCollects
  PROVE  OsInv'
<1> USE DEF served
<1>1. OsTypeOK /\ wire \in Seq(OsBundles) /\ BundlesDescribe
  BY DEF OsInv, OsTyped
<1>2. CASE UNCHANGED wire
  <2>1. OsTyped'
    BY <1>1, <1>2 DEF OsInv, OsTyped, OsTypeOK
  <2> QED BY <1>2, <2>1 DEF OsInv, BundlesDescribe, MetaClosed, BundleThere, ServedMerged, ListedIsPresent, OsBundle, Valid,
                            validateAptMirror, validateRpmMirror, validateApkMirror
<1>3. ASSUME NEW b \in OsBundles, Describes(b), wire' = Append(wire, b), Len(wire) < OsMaxCollects
      PROVE  OsInv'
  <2>1. /\ wire' \in Seq(OsBundles) /\ Len(wire') = Len(wire) + 1 /\ Len(wire) \in Nat
        /\ wire'[Len(wire) + 1] = b /\ \A i \in 1 .. Len(wire) : wire'[i] = wire[i]
    BY <1>1, <1>3
  <2>2. PICK n \in Nat : n = Len(wire)
    BY <2>1
  <2>3. PICK k \in Nat : k = osNext
    BY <1>1 DEF OsTypeOK
  <2>4. k \in 1 .. n + 1 /\ n < OsMaxCollects /\ n <= OsMaxCollects
    BY <1>1, <1>3, <2>2, <2>3 DEF OsTypeOK
  <2>5. Len(wire') <= OsMaxCollects /\ osNext' \in 1 .. (Len(wire') + 1)
    <3>1. Len(wire') = n + 1 /\ osNext' = k
      BY <2>1, <2>2, <2>3
    <3>2. n + 1 <= OsMaxCollects /\ k \in 1 .. ((n + 1) + 1)
      BY <2>4 DEF OsAssumed
    <3> QED BY <3>1, <3>2
  <2>6. BundlesDescribe'
    <3> SUFFICES ASSUME NEW i \in 1 .. n + 1 PROVE Describes(wire'[i])
      BY <2>1, <2>2 DEF BundlesDescribe, Describes
    <3>1. CASE i = n + 1
      BY <1>3, <2>1, <2>2, <3>1
    <3>2. CASE i # n + 1
      <4>1. i \in 1 .. n
        BY <3>2
      <4> QED BY <1>1, <2>1, <2>2, <4>1 DEF BundlesDescribe
    <3> QED BY <3>1, <3>2
  <2>7. OsTyped'
    BY <1>1, <2>1, <2>5 DEF OsInv, OsTyped, OsTypeOK
  <2>8. osPc # "idle" => OsBundle' = OsBundle /\ osNext' <= Len(wire') /\ osNext <= Len(wire)
    <3> SUFFICES ASSUME osPc # "idle" PROVE OsBundle' = OsBundle /\ osNext' <= Len(wire') /\ osNext <= Len(wire)
      OBVIOUS
    <3>1. k <= n
      BY <2>2, <2>3 DEF OsInv, BundleThere
    <3>2. k \in 1 .. n /\ k <= n + 1
      BY <2>4, <3>1
    <3> QED BY <2>1, <2>2, <2>3, <3>1, <3>2 DEF OsBundle
  <2>9. BundleThere'
    BY <2>8 DEF OsInv, BundleThere, Valid, validateAptMirror, validateRpmMirror, validateApkMirror
  <2> QED BY <2>6, <2>7, <2>9 DEF OsInv, MetaClosed, ServedMerged, ListedIsPresent
<1> QED BY <1>2, <1>3

LEMMA CollectKeeps ==
  ASSUME OsAssumed, OsInv, UpstreamChanges \/ FetchRelease \/ FetchIndex \/ Download
  PROVE  OsInv'
<1> USE DEF served
<1>1. /\ up \subseteq Packages /\ sent \subseteq OsFiles /\ collect \in Collects \cup {NoCollect} /\ wire \in Seq(OsBundles)
      /\ (collect # NoCollect => Len(wire) < OsMaxCollects) /\ repoKind \in {"apt", "rpm", "apk"}
  BY DEF OsInv, OsTyped, OsTypeOK
<1>2. CASE UpstreamChanges
  <2>1. up' \subseteq Packages
    BY <1>1, <1>2 DEF UpstreamChanges
  <2> QED BY <1>1, <1>2, <2>1, LowKeeps DEF UpstreamChanges
<1>3. CASE FetchRelease
  <2>1. collect' \in Collects /\ Len(wire) < OsMaxCollects
    <3>1. PICK f \in Filters : collect' = [at |-> "index", snap |-> up, newest |-> f] /\ Len(wire) < OsMaxCollects
      BY <1>3 DEF FetchRelease
    <3>2. f \in BOOLEAN
      BY DEF Filters
    <3> QED BY <1>1, <3>1, <3>2 DEF Collects, Contents
  <2> QED BY <1>1, <1>3, <2>1, LowKeeps DEF FetchRelease
<1>4. CASE FetchIndex
  <2>1. collect # NoCollect
    BY <1>4 DEF FetchIndex, NoCollect
  <2>2. collect' \in Collects \cup {NoCollect}
    BY <1>1, <1>4, <2>1 DEF FetchIndex, Collects
  <2> QED BY <1>1, <1>4, <2>1, <2>2, LowKeeps DEF FetchIndex
<1>5. CASE Download
  <2>1. collect # NoCollect /\ collect \in Collects /\ Len(wire) < OsMaxCollects
    BY <1>1, <1>5 DEF Download, NoCollect
  <2>2. CASE UNCHANGED <<sent, wire>>
    BY <1>1, <1>5, <2>2, LowKeeps DEF Download
  <2>3. ASSUME NEW got \in Fetched(collect), sent' = sent \cup BundleOf(collect, got).files,
               wire' = IF BundleOf(collect, got).files = {} THEN wire ELSE Append(wire, BundleOf(collect, got))
        PROVE  OsInv'
    <3>1. got \in SUBSET Packages
      <4>1. Kept(collect.snap, collect.newest) \subseteq collect.snap /\ collect.snap \subseteq Packages
        BY <1>1, <2>1, KeptIn DEF Collects, Contents
      <4> QED BY <4>1 DEF Fetched
    <3> DEFINE b == BundleOf(collect, got)
    <3>2. b \in OsBundles /\ Describes(b)
      BY <1>1, <2>1, <3>1, BundleFits
    <3> HIDE DEF b
    <3>3. b.files \subseteq OsFiles
      BY <3>2 DEF OsBundles
    <3>4. sent' \subseteq OsFiles
      BY <1>1, <2>3, <3>3 DEF b
    <3>5. UNCHANGED wire \/ wire' = Append(wire, b)
      BY <2>3 DEF b
    <3> QED BY <1>1, <1>5, <2>1, <3>2, <3>4, <3>5, LowKeeps DEF Download
  <2> QED BY <1>5, <2>2, <2>3 DEF Download
<1> QED BY <1>2, <1>3, <1>4, <1>5

----------------------------------------------------------------------------
(* The import.                                                               *)
LEMMA HighKeeps ==
  ASSUME OsInv, UNCHANGED <<repoKind, low>>,
         merged' \subseteq Packages, packages' \subseteq Packages, release' \subseteq Packages, signature' \subseteq Packages,
         osNext' \in 1 .. (Len(wire) + 1), osPc' \in {"idle", "merge", "packages", "release", "sign", "commit"},
         osFaults' \in 0 .. OsMaxFaults, osCrashes' \in 0 .. OsMaxCrashes,
         MetaClosed', BundleThere', ServedMerged', ListedIsPresent'
  PROVE  OsInv'
<1>1. UNCHANGED <<up, collect, sent, wire>>
  BY DEF low
<1>2. OsTyped'
  BY <1>1 DEF OsInv, OsTyped, OsTypeOK
<1>3. BundlesDescribe'
  BY <1>1 DEF OsInv, BundlesDescribe
<1> QED BY <1>2, <1>3 DEF OsInv

LEMMA InstallKeeps ==
  ASSUME OsInv, OsInstall
  PROVE  OsInv'
<1> USE DEF served
<1>1. osNext <= Len(wire) /\ Valid(OsBundle) /\ PriorThere(OsBundle) /\ UNCHANGED <<repoKind, low, merged, packages, release, signature, osNext, osFaults, osCrashes>>
  BY DEF OsInstall
<1>2. OsBundle \in OsBundles /\ Describes(OsBundle) /\ osNext \in 1 .. Len(wire)
  BY <1>1, OsBundleTyped
<1>3. UNCHANGED <<wire, OsBundle>>
  BY <1>1 DEF low, OsBundle
<1>4. /\ DOMAIN osDisk' = DOMAIN osDisk \cup {f[1] : f \in OsBundle.files}
      /\ \A q \in DOMAIN osDisk : osDisk'[q] = osDisk[q]
      /\ \A q \in {f[1] : f \in OsBundle.files} \ DOMAIN osDisk : osDisk'[q] = (CHOOSE f \in OsBundle.files : f[1] = q)[2]
  BY DEF OsInstall
<1>5. PathsOf(OsBundle) \subseteq DOMAIN osDisk'
  BY <1>1, <1>4 DEF PathsOf, PriorThere
<1>6. \A p \in OsBundle.kept : <<"pkg", p>> \in PathsOf(OsBundle)
  BY <1>1 DEF Valid, validateAptMirror, validateRpmMirror, validateApkMirror, OsInv, OsTyped, OsTypeOK
<1>7. MetaClosed'
  <2> SUFFICES ASSUME NEW S \in Contents, <<"meta", S>> \in DOMAIN osDisk'
               PROVE  osDisk'[<<"meta", S>>] \in Contents /\ \A p \in osDisk'[<<"meta", S>>] : <<"pkg", p>> \in DOMAIN osDisk'
    BY DEF MetaClosed
  <2> DEFINE q == <<"meta", S>>
  <2>1. CASE q \in DOMAIN osDisk
    BY <1>4, <2>1 DEF OsInv, MetaClosed
  <2>2. CASE q \notin DOMAIN osDisk
    <3>1. PICK g \in OsBundle.files : g[1] = q
      BY <1>4, <2>2
    <3> DEFINE f == CHOOSE h \in OsBundle.files : h[1] = q
    <3>2. f \in OsBundle.files /\ f[1] = q
      BY <3>1
    <3>3. osDisk'[q] = f[2]
      BY <1>4, <2>2
    <3> HIDE DEF f
    <3>4. f \in OsFiles
      BY <1>2, <3>2 DEF OsBundles
    <3>5. f[2] \in Contents /\ f[2] \subseteq OsBundle.kept
      <4>1. f[2] \in Contents
        BY <3>4 DEF OsFiles
      <4>2. f[1][1] = "meta"
        BY <3>2
      <4> QED BY <1>2, <3>2, <4>1, <4>2 DEF Describes
    <3> QED BY <1>5, <1>6, <3>3, <3>5
  <2> QED BY <2>1, <2>2
<1>8. BundleThere'
  BY <1>1, <1>3, <1>5 DEF BundleThere, Valid, validateAptMirror, validateRpmMirror, validateApkMirror
<1>9. ServedMerged' /\ ListedIsPresent'
  BY <1>1, <1>4 DEF OsInv, ServedMerged, ListedIsPresent
<1>10. osNext' \in 1 .. (Len(wire) + 1) /\ osPc' = "merge"
  BY <1>1 DEF OsInstall, OsInv, OsTyped, OsTypeOK
<1> QED BY <1>1, <1>7, <1>8, <1>9, <1>10, HighKeeps DEF OsInv, OsTyped, OsTypeOK

LEMMA StepKeeps ==
  ASSUME OsAssumed, OsInv,
         \/ Merge \/ MergeUnread \/ publishAptSuite \/ buildAptRelease \/ signAptRelease
         \/ buildRpmRepomd \/ signRpmRepomd \/ regenerateApkIndex \/ OsCommit \/ Fail \/ OsCrash
  PROVE  OsInv' /\ Accumulates
<1> USE DEF served
<1>0. /\ OsTypeOK /\ MetaClosed /\ BundleThere /\ ServedMerged /\ ListedIsPresent
  BY DEF OsInv, OsTyped
<1>1. /\ UNCHANGED <<repoKind, low, osDisk>>
  BY DEF Merge, MergeUnread, publishAptSuite, buildAptRelease, signAptRelease, buildRpmRepomd, signRpmRepomd,
         regenerateApkIndex, OsCommit, Fail, OsCrash
<1>2. UNCHANGED wire
  BY <1>1 DEF low
<1>3. MetaClosed'
  BY <1>0, <1>1 DEF MetaClosed
<1>4. ASSUME osPc # "idle"
      PROVE  /\ osNext <= Len(wire) /\ OsBundle.kept \subseteq Packages /\ OsBundle.snap \in Contents
             /\ (UNCHANGED osNext => BundleThere')
             /\ repoKind = "rpm" => <<"meta", OsBundle.snap>> \in DOMAIN osDisk
  <2>1. osNext <= Len(wire) /\ Valid(OsBundle) /\ PathsOf(OsBundle) \subseteq DOMAIN osDisk
    BY <1>0, <1>4 DEF BundleThere
  <2>2. OsBundle \in OsBundles
    BY <2>1, OsBundleTyped
  <2>3. UNCHANGED osNext => OsBundle' = OsBundle
    BY <1>2 DEF OsBundle
  <2>4. UNCHANGED osNext => BundleThere'
    BY <1>1, <1>2, <2>1, <2>3 DEF BundleThere, Valid, validateAptMirror, validateRpmMirror, validateApkMirror
  <2>5. repoKind = "rpm" => <<"meta", OsBundle.snap>> \in PathsOf(OsBundle)
    BY <2>1 DEF Valid, validateRpmMirror
  <2> QED BY <2>1, <2>2, <2>4, <2>5 DEF OsBundles, Contents
<1>5. ASSUME OsFault PROVE osFaults' \in 0 .. OsMaxFaults /\ osFaults' # 0
  BY <1>0, <1>5 DEF OsFault, OsTypeOK, OsAssumed
<1>6. CASE Merge
  <2>1. merged' \subseteq Packages /\ (repoKind # "rpm" => merged \subseteq merged')
    BY <1>0, <1>4, <1>6 DEF Merge, mergeAptMirror, publishRpmMirror, mergeApkMirrors, OsTypeOK
  <2>2. ServedMerged' /\ ListedIsPresent' /\ Accumulates
    BY <1>0, <1>6, <2>1 DEF Merge, ServedMerged, ListedIsPresent, Accumulates
  <2> QED BY <1>0, <1>1, <1>3, <1>4, <1>6, <2>1, <2>2, HighKeeps DEF Merge, OsTypeOK
<1>7. CASE MergeUnread
  <2>1. merged' \subseteq Packages
    BY <1>4, <1>7 DEF MergeUnread
  <2>2. osFaults' \in 0 .. OsMaxFaults /\ osFaults' # 0
    BY <1>5, <1>7 DEF MergeUnread
  <2>3. ServedMerged' /\ ListedIsPresent' /\ Accumulates
    BY <1>0, <1>7, <2>2 DEF MergeUnread, ServedMerged, ListedIsPresent, Accumulates
  <2> QED BY <1>0, <1>1, <1>3, <1>4, <1>7, <2>1, <2>2, <2>3, HighKeeps DEF MergeUnread, OsTypeOK
<1>8. CASE publishAptSuite
  <2>1. packages' \subseteq Packages /\ packages' \subseteq merged /\ packages' = {p \in merged : <<"pkg", p>> \in DOMAIN osDisk}
    BY <1>0, <1>8 DEF publishAptSuite, presentAptStanzas, OsTypeOK
  <2>2. ServedMerged' /\ ListedIsPresent' /\ Accumulates
    BY <1>0, <1>8, <2>1 DEF publishAptSuite, ServedMerged, ListedIsPresent, Accumulates
  <2> QED BY <1>0, <1>1, <1>3, <1>4, <1>8, <2>1, <2>2, HighKeeps DEF publishAptSuite, OsTypeOK
<1>9. CASE buildAptRelease \/ signAptRelease \/ signRpmRepomd
  <2>1. ServedMerged' /\ ListedIsPresent' /\ Accumulates
    BY <1>0, <1>9 DEF buildAptRelease, signAptRelease, signRpmRepomd, ServedMerged, ListedIsPresent, Accumulates
  <2> QED BY <1>0, <1>1, <1>3, <1>4, <1>9, <2>1, HighKeeps DEF buildAptRelease, signAptRelease, signRpmRepomd, OsTypeOK
<1>10. CASE buildRpmRepomd
  <2>1. /\ packages' \in Contents /\ \A p \in packages' : <<"pkg", p>> \in DOMAIN osDisk
    BY <1>0, <1>4, <1>10 DEF buildRpmRepomd, MetaClosed
  <2>2. ServedMerged' /\ ListedIsPresent' /\ Accumulates
    BY <1>0, <1>10, <2>1 DEF buildRpmRepomd, ServedMerged, ListedIsPresent, Accumulates
  <2> QED BY <1>0, <1>1, <1>3, <1>4, <1>10, <2>1, <2>2, HighKeeps DEF buildRpmRepomd, OsTypeOK, Contents
<1>11. CASE regenerateApkIndex
  <2>1. packages' \subseteq Packages /\ packages' \subseteq merged /\ packages' = {p \in merged : <<"pkg", p>> \in DOMAIN osDisk}
    BY <1>0, <1>11 DEF regenerateApkIndex, OsTypeOK
  <2>2. ServedMerged' /\ ListedIsPresent' /\ Accumulates
    BY <1>0, <1>11, <2>1 DEF regenerateApkIndex, ServedMerged, ListedIsPresent, Accumulates
  <2> QED BY <1>0, <1>1, <1>3, <1>4, <1>11, <2>1, <2>2, HighKeeps DEF regenerateApkIndex, OsTypeOK
<1>12. CASE OsCommit
  <2>1. osNext' \in 1 .. (Len(wire) + 1)
    BY <1>0, <1>4, <1>12 DEF OsCommit, OsTypeOK
  <2>2. ServedMerged' /\ ListedIsPresent' /\ Accumulates /\ BundleThere'
    BY <1>0, <1>12 DEF OsCommit, ServedMerged, ListedIsPresent, Accumulates, BundleThere
  <2> QED BY <1>0, <1>1, <1>3, <1>12, <2>1, <2>2, HighKeeps DEF OsCommit, OsTypeOK
<1>13. CASE Fail \/ OsCrash
  <2>1. UNCHANGED <<merged, packages, release, signature, osNext>> /\ osPc' = "idle"
    BY <1>13 DEF Fail, OsCrash
  <2>2. osFaults' \in 0 .. OsMaxFaults /\ osCrashes' \in 0 .. OsMaxCrashes /\ (osFaults' = 0 => osFaults = 0)
    <3>1. CASE Fail
      BY <1>0, <1>5, <3>1 DEF Fail, OsTypeOK
    <3>2. CASE OsCrash
      BY <1>0, <3>2 DEF OsCrash, OsTypeOK, OsAssumed
    <3> QED BY <1>13, <3>1, <3>2
  <2>3. ServedMerged' /\ ListedIsPresent' /\ Accumulates /\ BundleThere'
    BY <1>0, <1>1, <2>1, <2>2 DEF ServedMerged, ListedIsPresent, Accumulates, BundleThere
  <2> QED BY <1>0, <1>1, <1>3, <2>1, <2>2, <2>3, HighKeeps DEF OsTypeOK
<1> QED BY <1>6, <1>7, <1>8, <1>9, <1>10, <1>11, <1>12, <1>13

LEMMA OsKeeps ==
  ASSUME OsAssumed, OsInv, [OsNext]_osVars
  PROVE  OsInv' /\ Accumulates
<1> USE DEF served
<1>1. CASE UpstreamChanges \/ FetchRelease \/ FetchIndex \/ Download \/ OsInstall
  <2>1. UNCHANGED <<packages, repoKind>>
    BY <1>1 DEF UpstreamChanges, FetchRelease, FetchIndex, Download, OsInstall
  <2>2. Accumulates
    BY <2>1 DEF Accumulates
  <2> QED BY <1>1, <2>2, CollectKeeps, InstallKeeps
<1>2. CASE UNCHANGED osVars
  <2>1. UNCHANGED <<repoKind, up, collect, sent, wire, osDisk, merged, packages, release, signature, osNext, osPc, osFaults, osCrashes>>
    BY <1>2 DEF osVars
  <2>2. Accumulates
    BY <2>1 DEF Accumulates
  <2>3. OsInv'
    BY <2>1, LowKeeps DEF OsInv, OsTyped, OsTypeOK
  <2> QED BY <2>2, <2>3
<1> QED BY <1>1, <1>2, StepKeeps DEF OsNext, OsImport

LEMMA OsAlways ==
  ASSUME OsAssumed
  PROVE  OsSpec => []OsInv /\ IndexAccumulates
<1>1. OsInit => OsInv
  BY OsStart
<1>2. OsInv /\ [OsNext]_osVars => OsInv' /\ Accumulates
  BY OsKeeps
<1> QED BY <1>1, <1>2, PTL DEF OsSpec, IndexAccumulates

(* Types are kept by every operating-system repository and its manifests.    *)
THEOREM OsTypeCorrect == OsSpec => []OsTypeOK
<1> USE OsAssumption
<1>1. OsInv => OsTypeOK
  BY DEF OsInv, OsTyped
<1> QED BY <1>1, OsAlways, PTL

(* An index that is served lists installed packages only, whatever import    *)
(* failed or was cut off on the way; a signed index is of the listed state.  *)
THEOREM ListedPackagesPresent == OsSpec => []ListedIsPresent
<1> USE OsAssumption
<1>1. OsInv => ListedIsPresent
  BY DEF OsInv
<1> QED BY <1>1, OsAlways, PTL

(* Where imports merge, no step takes a package out of the served index as   *)
(* long as nothing has failed.                                                *)
THEOREM IndexesAccumulate == OsSpec => IndexAccumulates
BY OsAlways, OsAssumption

----------------------------------------------------------------------------
(* Publishers of package streams.                                            *)
PubTyped == PublishTypeOK /\ todo \in Seq(Records)

(* An import has a bundle, and a .nuspec a record.                           *)
InBundle == (pc # "idle" => next <= Len(Bundles[stream])) /\ (pc = "nuspec" => stream = "nuget" /\ todo # <<>>)

(* Nothing is published before every file of the bundle is installed.        *)
Whole(r) == \A p \in FilesOf(r) : Present(Rel(r), p)
Extracted ==
  /\ pc = "install" => \A r \in ToSet(Bundle) : r \in ToSet(todo) \/ Whole(r)
  /\ pc \notin {"idle", "install"} => \A r \in ToSet(Bundle) : Whole(r)

(* What a document says of a file beside the archive was true when written.  *)
Attested == stream = "npm" => \A rel \in Releases : 2 \in stored[rel] => Present(rel, 2)

(* The generated indexes were made of installed files.                       *)
Indexed ==
  /\ stream \in {"crates", "cran", "conda"} => \A rel \in listing : Present(rel, 1)
  /\ stream = "helm" => \A rel \in listing : Present(rel, 1) \/ Present(rel, 0)

(* RubyGems: info files are rewritten name by name before the versions file. *)
Gems == {rel \in Releases : 1 \in stored[rel] /\ Present(rel, 1)}
GemsOrdered ==
  stream = "rubygems" =>
    /\ listing2 \subseteq Gems /\ listing2 \subseteq listing
    /\ pc = "index" => \A rel \in Gems : rel[1] \notin regen => rel \in listing
    /\ pc = "index2" => Gems \subseteq listing

PubInv == PubTyped /\ InBundle /\ Extracted /\ Attested /\ Indexed /\ GemsOrdered

(* Files of a record, and that they stay.                                    *)
LEMMA FilesAreParts ==
  ASSUME PubAssumed, stream \in Ecosystems, NEW r \in Records
  PROVE  FilesOf(r) \subseteq Parts /\ Rel(r) \in Releases
<1>1. stream \in Known
  BY DEF PubAssumed, Ecosystems
<1>2. FilesOf(r) \subseteq {1, 2, 3}
  BY <1>1 DEF Known, FilesOf, Records, Parts, validateManifestModules, validateCrateRecord, validateNugetPackages,
     validateComposerRecord, validateGemRecord, validateNpmPackages, validateCRANPackages, validateGalaxyCollections,
     validateHelmChart, validateCondaPackage, validateSnapPackage, validateTerraformProvider, validateVSXExtension,
     validateMavenArtifacts
<1> QED BY <1>2 DEF Parts, Rel, Releases, Records

LEMMA WholeStays ==
  ASSUME stream' = stream, disk \subseteq disk', NEW r, Whole(r)
  PROVE  Whole(r)'
<1>1. FilesOf(r)' = FilesOf(r)
  BY DEF FilesOf
<1> QED BY <1>1 DEF Whole, Present

LEMMA BundleIsRecords ==
  ASSUME PubAssumed, PubInv, next <= Len(Bundles[stream])
  PROVE  Bundle \in Seq(Records)
<1>1. stream \in DOMAIN Bundles /\ next \in 1 .. (Len(Bundles[stream]) + 1)
  BY DEF PubInv, PubTyped, PublishTypeOK, Ecosystems
<1>2. Bundles[stream] \in Seq(Seq(Records))
  BY <1>1 DEF PubAssumed
<1>3. next \in 1 .. Len(Bundles[stream])
  BY <1>1, <1>2, LenProperties
<1> HIDE DEF Records
<1> QED BY <1>2, <1>3, ElementOfSeq DEF Bundle

(* The head of the records left is one, and the rest are the others.         *)
LEMMA TodoStep ==
  ASSUME PubInv, todo # <<>>
  PROVE  /\ Head(todo) \in Records /\ Tail(todo) \in Seq(Records)
         /\ ToSet(todo) = {Head(todo)} \cup ToSet(Tail(todo))
<1> HIDE DEF Records
<1>1. todo \in Seq(Records)
  BY DEF PubInv, PubTyped
<1>2. Head(todo) = todo[1] /\ Head(todo) \in Records /\ Tail(todo) \in Seq(Records) /\ Len(todo) \in Nat \ {0}
      /\ Len(Tail(todo)) = Len(todo) - 1 /\ \A i \in 1 .. Len(Tail(todo)) : Tail(todo)[i] = todo[i + 1]
  BY <1>1, HeadTailProperties, LenProperties, EmptySeq
<1>3. \A i \in 1 .. Len(todo) : i = 1 \/ i - 1 \in 1 .. Len(Tail(todo))
  BY <1>2
<1>4. \A i \in 1 .. Len(todo) : i = 1 \/ todo[i] = Tail(todo)[i - 1]
  BY <1>2, <1>3
<1>5. \A i \in 1 .. Len(Tail(todo)) : i + 1 \in 1 .. Len(todo)
  BY <1>2
<1>6. ToSet(todo) = {todo[i] : i \in 1 .. Len(todo)} /\ ToSet(Tail(todo)) = {Tail(todo)[i] : i \in 1 .. Len(Tail(todo))}
  BY <1>1, <1>2, LenProperties DEF ToSet
<1>7. todo[1] \in ToSet(todo)
  BY <1>2, <1>6
<1>8. \A i \in 1 .. Len(todo) : todo[i] \in {todo[1]} \cup ToSet(Tail(todo))
  BY <1>3, <1>4, <1>6
<1>9. \A i \in 1 .. Len(Tail(todo)) : Tail(todo)[i] \in ToSet(todo)
  BY <1>2, <1>5, <1>6
<1>10. ToSet(todo) \subseteq {todo[1]} \cup ToSet(Tail(todo))
  BY <1>6, <1>8
<1>11. ToSet(Tail(todo)) \subseteq ToSet(todo)
  BY <1>6, <1>9
<1> QED BY <1>2, <1>7, <1>10, <1>11

(* What is listed was installed.                                             *)
LEMMA PubListed ==
  ASSUME PubAssumed, PubInv
  PROVE  ListedIsInstalled
<1>0. stream \in Known
  BY DEF PubAssumed, PubInv, PubTyped, PublishTypeOK, Ecosystems
<1> USE DEF Listed, Known
<1>1. ASSUME NEW rel \in Releases, NEW p \in 1 .. 2, p \in Listed(rel)
      PROVE  Present(rel, p) \/ (stream = "helm" /\ Present(rel, 0))
  <2>1. CASE stream \in {"crates", "cran", "conda", "helm"}
    BY <1>1, <2>1 DEF PubInv, Indexed, handleCrateIndexFile, cranServableFile, condaServablePath, helmServablePath
  <2>2. CASE stream = "rubygems"
    BY <1>1, <2>2 DEF PubInv, GemsOrdered, Gems, rubygemsServableFile
  <2>3. CASE stream = "npm"
    <3>1. stored[rel] \in SUBSET Parts
      BY DEF PubInv, PubTyped, PublishTypeOK
    <3> QED BY <1>1, <2>3, <3>1 DEF PubInv, Attested, npmVersionObjects, readNpmStoredManifest
  <2>4. CASE stream \in {"go", "nuget", "composer", "galaxy", "vsx"}
    BY <1>1, <2>4 DEF completeVersions, isComplete, nugetVersions, readNugetStored, composerVersionObjects,
       readComposerStored, galaxyServedVersions, readGalaxyStored, vsxServedVersions, readVSXStored
  <2>5. CASE stream \in {"snap", "terraform", "maven"}
    BY <1>1, <2>5 DEF snapServedRevisions, readSnapStored, handleTfProviderVersions, readTfProviderMeta,
       buildMavenMetadata
  <2> QED BY <1>0, <2>1, <2>2, <2>3, <2>4, <2>5
<1>2. stream = "rubygems" => listing2 \subseteq listing
  BY DEF PubInv, GemsOrdered
<1> QED BY <1>1, <1>2 DEF ListedIsInstalled

(* The state before any import.                                              *)
LEMMA PubStart ==
  ASSUME PubAssumed, PublishInit
  PROVE  PubInv
<1> DEFINE Old == {{}} \cup {{Rel(Bundles[e][1][1])} : e \in {stream} \cap {"helm"}}
<1>1. PICK old \in Old :
        /\ disk = {<<rel, 0>> : rel \in old} /\ stored = [rel \in Releases |-> IF rel \in old THEN {0} ELSE {}]
        /\ listing = old
  BY DEF PublishInit
<1>2. stream \in DOMAIN Bundles /\ Bundles[stream] \in Seq(Seq(Records)) /\ Faults[stream] \in Nat
  BY DEF PublishInit, PubAssumed, Ecosystems
<1>3. old = {} \/ (stream = "helm" /\ old = {Rel(Bundles[stream][1][1])})
  BY <1>1
<1>4. old \subseteq Releases
  <2>1. CASE stream = "helm"
    <3>1. Bundles[stream] \in Seq(Seq(Records)) /\ Bundles[stream] # <<>> /\ Bundles[stream][1] # <<>>
      BY <1>2, <2>1 DEF PubAssumed
    <3> HIDE DEF Records
    <3>2. Bundles[stream][1] \in Seq(Records)
      BY <3>1, EmptySeq, LenProperties, ElementOfSeq
    <3>3. Bundles[stream][1][1] \in Records
      BY <3>1, <3>2, EmptySeq, LenProperties, ElementOfSeq
    <3> QED BY <1>3, <3>3 DEF Records, Rel, Releases
  <2> QED BY <1>3, <2>1
<1>5. Len(Bundles[stream]) \in Nat
  BY <1>2, LenProperties
<1>6. PublishTypeOK
  <2>1. disk \subseteq Releases \X Parts
    BY <1>1, <1>4 DEF Parts
  <2>2. stored \in [Releases -> SUBSET Parts]
    BY <1>1 DEF Parts
  <2> QED BY <1>1, <1>2, <1>4, <1>5, <2>1, <2>2 DEF PublishInit, PublishTypeOK, PubAssumed, Ecosystems
<1>7. todo = <<>> /\ pc = "idle" /\ listing2 = {}
  BY DEF PublishInit
<1>8. PubTyped /\ InBundle /\ Extracted /\ GemsOrdered
  BY <1>6, <1>7, EmptySeq DEF PubTyped, InBundle, Extracted, GemsOrdered
<1>9. Attested
  BY <1>1 DEF Attested
<1>10. Indexed
  BY <1>1, <1>3 DEF Indexed, Present
<1> QED BY <1>8, <1>9, <1>10 DEF PubInv

(* An import given up, for an error or a crash: what is on disk stays.       *)
LEMMA GivenUpKeeps ==
  ASSUME PubAssumed, PubInv, UNCHANGED <<stream, next, disk, stored, tags, listing, listing2, names>>,
         faults' \in Nat, crashes' \in 0 .. MaxCrashes, pc' = "idle", todo' = <<>>, regen' = {}, done' = 0
  PROVE  PubInv'
<1>1. PubTyped'
  BY EmptySeq DEF PubInv, PubTyped, PublishTypeOK
<1>2. InBundle' /\ Extracted'
  BY DEF InBundle, Extracted
<1>3. Attested' /\ Indexed' /\ GemsOrdered'
  BY DEF PubInv, Attested, Indexed, GemsOrdered, Gems, Present
<1> QED BY <1>1, <1>2, <1>3 DEF PubInv

LEMMA StrictKeeps ==
  ASSUME PubAssumed, PubInv, strictError
  PROVE  PubInv'
<1>1. faults' \in Nat /\ crashes \in 0 .. MaxCrashes
  BY DEF PubInv, PubTyped, PublishTypeOK, strictError, Fault
<1> QED BY <1>1, GivenUpKeeps DEF strictError, Fault, Abort, generated

LEMMA PubCrashKeeps ==
  ASSUME PubAssumed, PubInv, Crash
  PROVE  PubInv'
<1>1. faults \in Nat /\ crashes' \in 0 .. MaxCrashes
  BY DEF PubAssumed, PubInv, PubTyped, PublishTypeOK, Crash
<1> QED BY <1>1, GivenUpKeeps DEF Crash, Abort, generated

(* A record published: only its document changes.                            *)
LEMMA RecordKeeps ==
  ASSUME PubAssumed, PubInv, pc = "publish", pc' = "publish", todo # <<>>, todo' = Tail(todo),
         UNCHANGED <<stream, next, disk, tags, listing, listing2, names, regen, crashes>>,
         stored' \in [Releases -> SUBSET Parts], faults' \in Nat, done' \in Nat,
         stream = "npm" => \A rel \in Releases : 2 \in stored'[rel] => Present(rel, 2),
         stream = "rubygems" => \A rel \in Releases : 1 \in stored[rel] => 1 \in stored'[rel]
  PROVE  PubInv'
<1>1. PubTyped'
  BY TodoStep DEF PubInv, PubTyped, PublishTypeOK
<1>2. InBundle'
  BY DEF PubInv, InBundle
<1>3. Bundle' = Bundle
  BY DEF Bundle
<1>4. Extracted'
  <2>1. \A r \in ToSet(Bundle) : Whole(r)'
    BY WholeStays DEF PubInv, Extracted
  <2> QED BY <1>3, <2>1 DEF Extracted
<1>5. Attested' /\ Indexed'
  BY DEF PubInv, Attested, Indexed, Present
<1>6. GemsOrdered'
  BY DEF PubInv, GemsOrdered, Gems, Present
<1> QED BY <1>1, <1>2, <1>4, <1>5, <1>6 DEF PubInv

(* Installing.                                                               *)
LEMMA PubInstallKeeps ==
  ASSUME PubAssumed, PubInv, Install \/ InstallFile \/ BeginPublish
  PROVE  PubInv'
<1> USE DEF control, generated
<1>1. stream \in Ecosystems /\ stream' = stream /\ next' = next /\ Bundle' = Bundle
  BY DEF PubInv, PubTyped, PublishTypeOK, Install, InstallFile, BeginPublish, Bundle
<1>2. next <= Len(Bundles[stream])
  BY DEF PubInv, InBundle, Install, InstallFile, BeginPublish
<1>3. Bundle \in Seq(Records)
  BY <1>2, BundleIsRecords
<1>4. CASE Install
  <2>1. PubTyped'
    BY <1>3, <1>4 DEF PubInv, PubTyped, PublishTypeOK, Install
  <2>2. InBundle' /\ Extracted' /\ Attested' /\ Indexed' /\ GemsOrdered'
    BY <1>1, <1>2, <1>4 DEF PubInv, InBundle, Extracted, Attested, Indexed, GemsOrdered, Gems, Present, Install
  <2> QED BY <2>1, <2>2 DEF PubInv
<1>5. CASE InstallFile
  <2> DEFINE h == Head(todo)
  <2>1. h \in Records /\ Tail(todo) \in Seq(Records) /\ ToSet(todo) = {h} \cup ToSet(Tail(todo)) /\ pc = "install"
    BY <1>5, TodoStep DEF InstallFile
  <2>2. FilesOf(h) \subseteq Parts /\ Rel(h) \in Releases
    BY <1>1, <2>1, FilesAreParts
  <2>3. PICK p \in FilesOf(h) :
          /\ disk' = disk \cup {<<Rel(h), p>>}
          /\ todo' = IF \A q \in FilesOf(h) : <<Rel(h), q>> \in disk' THEN Tail(todo) ELSE todo
    BY <1>5 DEF InstallFile
  <2>4. PubTyped'
    <3>1. disk' \subseteq Releases \X Parts
      BY <2>2, <2>3 DEF PubInv, PubTyped, PublishTypeOK
    <3>2. todo' \in Seq(Records)
      BY <2>1, <2>3 DEF PubInv, PubTyped
    <3> QED BY <1>1, <1>5, <3>1, <3>2 DEF PubInv, PubTyped, PublishTypeOK, InstallFile
  <2>5. InBundle'
    BY <1>1, <1>2, <1>5, <2>1 DEF InstallFile, InBundle
  <2>6. Extracted'
    <3>1. ASSUME NEW r \in ToSet(Bundle) PROVE r \in ToSet(todo') \/ Whole(r)'
      <4>1. r \in ToSet(todo) \/ Whole(r)
        BY <2>1, <3>1 DEF PubInv, Extracted
      <4>2. CASE Whole(r)
        BY <1>1, <2>3, <4>2, WholeStays
      <4>3. CASE r = h /\ \A q \in FilesOf(h) : <<Rel(h), q>> \in disk'
        <5>1. \A q \in FilesOf(r)' : <<Rel(r), q>> \in disk'
          BY <1>1, <4>3 DEF FilesOf
        <5> QED BY <5>1 DEF Whole, Present
      <4>4. CASE r \in ToSet(todo) /\ ~(r = h /\ \A q \in FilesOf(h) : <<Rel(h), q>> \in disk')
        BY <2>1, <2>3, <4>4
      <4> QED BY <4>1, <4>2, <4>3, <4>4
    <3> QED BY <1>1, <1>5, <2>1, <3>1 DEF Extracted, InstallFile
  <2>7. Attested' /\ Indexed'
    BY <1>1, <1>5, <2>3 DEF PubInv, Attested, Indexed, Present, InstallFile
  <2>8. GemsOrdered'
    BY <1>1, <1>5, <2>1, <2>3 DEF PubInv, GemsOrdered, Gems, Present, InstallFile
  <2> QED BY <2>4, <2>5, <2>6, <2>7, <2>8 DEF PubInv
<1>6. CASE BeginPublish
  <2>1. pc = "install" /\ todo = <<>> /\ pc' = "publish" /\ UNCHANGED <<stream, next, faults, crashes, disk, stored, tags, listing, listing2, names, done>>
    BY <1>6 DEF BeginPublish, StartRecords
  <2>2. todo' \in Seq(Records) /\ regen' \subseteq Names
    <3>1. <<>> \in Seq(Records)
      BY EmptySeq
    <3>2. BundleNames \subseteq Names
      <4>1. \A r \in ToSet(Bundle) : r \in Records
        BY <1>3, LenProperties, ElementOfSeq DEF ToSet
      <4> QED BY <4>1 DEF BundleNames, Records
    <3> QED BY <1>3, <1>6, <3>1, <3>2 DEF BeginPublish, StartRecords
  <2>3. PubTyped'
    BY <2>1, <2>2 DEF PubInv, PubTyped, PublishTypeOK
  <2>4. Extracted'
    <3>1. \A r \in ToSet(Bundle) : Whole(r)
      <4>1. ToSet(todo) = {}
        BY <2>1, EmptySeq DEF ToSet
      <4> QED BY <2>1, <4>1 DEF PubInv, Extracted
    <3>2. \A r \in ToSet(Bundle) : Whole(r)'
      BY <2>1, <3>1, WholeStays
    <3> QED BY <1>1, <2>1, <3>2 DEF Extracted
  <2>5. InBundle' /\ Attested' /\ Indexed' /\ GemsOrdered'
    BY <1>1, <1>2, <2>1 DEF PubInv, InBundle, Attested, Indexed, GemsOrdered, Gems, Present
  <2> QED BY <2>3, <2>4, <2>5 DEF PubInv
<1> QED BY <1>4, <1>5, <1>6

(* Publishing the records, one publisher after the other.                    *)
LEMMA StoreKeeps ==
  ASSUME PubAssumed, PubInv, pc = "publish", todo # <<>>, NEW rel \in Releases, NEW ps \in SUBSET Parts,
         Store(rel, ps), stream = "npm" /\ 2 \in ps => Present(rel, 2), stream = "rubygems" => 1 \in ps
  PROVE  PubInv'
<1>1. /\ stored' = [stored EXCEPT ![rel] = ps] /\ done' = done + 1 /\ todo' = Tail(todo) /\ pc' = "publish"
      /\ UNCHANGED <<stream, next, disk, tags, listing, listing2, names, regen, crashes, faults>>
  BY DEF Store, NextRecord, control, generated
<1>2. stored \in [Releases -> SUBSET Parts] /\ done \in Nat /\ faults \in Nat
  BY DEF PubInv, PubTyped, PublishTypeOK
<1>3. stored' \in [Releases -> SUBSET Parts] /\ done' \in Nat /\ faults' \in Nat
      /\ \A x \in Releases : stored'[x] = IF x = rel THEN ps ELSE stored[x]
  BY <1>1, <1>2
<1>4. stream = "npm" => \A x \in Releases : 2 \in stored'[x] => Present(x, 2)
  BY <1>3 DEF PubInv, Attested
<1>5. stream = "rubygems" => \A x \in Releases : 1 \in stored[x] => 1 \in stored'[x]
  BY <1>3
<1> QED BY <1>1, <1>3, <1>4, <1>5, RecordKeeps

LEMMA SkipKeeps ==
  ASSUME PubAssumed, PubInv, pc = "publish", todo # <<>>, Skip, UNCHANGED control \/ Fault
  PROVE  PubInv'
<1>1. /\ todo' = Tail(todo) /\ pc' = "publish" /\ faults' \in Nat
      /\ UNCHANGED <<stream, next, disk, stored, tags, listing, listing2, names, regen, done, crashes>>
  BY DEF Skip, NextRecord, control, generated, Fault, PubInv, PubTyped, PublishTypeOK
<1>2. stored \in [Releases -> SUBSET Parts] /\ done \in Nat
  BY DEF PubInv, PubTyped, PublishTypeOK
<1>3. stream = "npm" => \A x \in Releases : 2 \in stored[x] => Present(x, 2)
  BY DEF PubInv, Attested
<1> QED BY <1>1, <1>2, <1>3, RecordKeeps

(* A read or write failed, and the document is written from what was read.   *)
LEMMA FaultyStoreKeeps ==
  ASSUME PubAssumed, PubInv, pc = "publish", todo # <<>>, stream \in {"helm", "terraform"}, Fault, NextRecord,
         NEW rel \in Releases, NEW ps \in SUBSET Parts, stored' = [stored EXCEPT ![rel] = ps], done' = done + 1,
         UNCHANGED <<disk, tags, generated>>
  PROVE  PubInv'
<1>1. /\ todo' = Tail(todo) /\ pc' = "publish" /\ faults' \in Nat
      /\ UNCHANGED <<stream, next, disk, tags, listing, listing2, names, regen, crashes>>
  BY DEF NextRecord, generated, Fault, PubInv, PubTyped, PublishTypeOK
<1>2. stored' \in [Releases -> SUBSET Parts] /\ done' \in Nat
  BY DEF PubInv, PubTyped, PublishTypeOK
<1> QED BY <1>1, <1>2, RecordKeeps

LEMMA RecordStepKeeps ==
  ASSUME PubAssumed, PubInv,
         \/ writeCompleteMarkers \/ publishComposerPackage \/ upsertGemLine \/ publishNpmPackage
         \/ publishCRANPackage \/ publishGalaxyCollection \/ publishHelmChart
         \/ publishCondaPackage \/ publishSnapPackage \/ publishTerraformProvider
         \/ publishVSXExtension \/ PassOver
  PROVE  PubInv'
<1> DEFINE h == Head(todo)
<1>1. pc = "publish" /\ todo # <<>> /\ stream \in Ecosystems
  BY DEF writeCompleteMarkers, publishComposerPackage, upsertGemLine, publishNpmPackage, publishCRANPackage,
     publishGalaxyCollection, publishHelmChart, publishCondaPackage, publishSnapPackage, publishTerraformProvider,
     publishVSXExtension, PassOver, Publishing, PubInv, PubTyped, PublishTypeOK
<1>2. h \in Records
  BY <1>1, TodoStep
<1>3. Rel(h) \in Releases
  BY <1>1, <1>2, FilesAreParts
<1>4. stored[Rel(h)] \subseteq Parts
  BY <1>3 DEF PubInv, PubTyped, PublishTypeOK
<1> HIDE DEF h
<1>5. CASE strictError
  BY <1>5, StrictKeeps
<1>6. CASE Skip /\ (UNCHANGED control \/ Fault)
  BY <1>1, <1>6, SkipKeeps
<1>7. CASE writeCompleteMarkers /\ Store(Rel(h), {1, 2, 3})
  <2>1. stream = "go" /\ {1, 2, 3} \subseteq Parts
    BY <1>7 DEF writeCompleteMarkers, Publishing, Parts
  <2> QED BY <1>1, <1>3, <1>7, <2>1, StoreKeeps
<1>8. CASE Store(Rel(h), {1}) /\ stream # "npm"
  <2>1. {1} \subseteq Parts
    BY DEF Parts
  <2> QED BY <1>1, <1>3, <1>8, <2>1, StoreKeeps
<1>9. CASE publishNpmPackage /\ Store(Rel(h), applyNpmVerification(h))
  <2>1. applyNpmVerification(h) \subseteq Parts /\ (2 \in applyNpmVerification(h) => Present(Rel(h), 2)) /\ stream = "npm"
    BY <1>9 DEF publishNpmPackage, Publishing, applyNpmVerification, Parts
  <2> QED BY <1>1, <1>3, <1>9, <2>1, StoreKeeps
<1>10. CASE publishHelmChart
  <2> DEFINE new == {1} \cup {p \in {2} : 2 \in h.parts /\ Present(Rel(h), 2)}
  <2>1. stream = "helm" /\ new \subseteq Parts /\ new \cup {0} \subseteq Parts
    BY <1>10 DEF publishHelmChart, Publishing, Parts
  <2>2. \/ strictError \/ (Skip /\ (UNCHANGED control \/ Fault)) \/ Store(Rel(h), new)
        \/ /\ Fault /\ NextRecord /\ stored' = [stored EXCEPT ![Rel(h)] = new \cup {0}]
           /\ done' = done + 1 /\ UNCHANGED <<disk, tags, generated>>
    BY <1>10 DEF publishHelmChart, h, skipInvalid, lenientError
  <2> HIDE DEF new
  <2>3. CASE Store(Rel(h), new)
    BY <1>1, <1>3, <2>1, <2>3, StoreKeeps
  <2>4. CASE /\ Fault /\ NextRecord /\ stored' = [stored EXCEPT ![Rel(h)] = new \cup {0}]
             /\ done' = done + 1 /\ UNCHANGED <<disk, tags, generated>>
    BY <1>1, <1>3, <2>1, <2>4, FaultyStoreKeeps
  <2> QED BY <1>5, <1>6, <2>2, <2>3, <2>4
<1>11. CASE publishSnapPackage /\ Store(Rel(h), {1, 2})
  <2>1. stream = "snap" /\ {1, 2} \subseteq Parts
    BY <1>11 DEF publishSnapPackage, Publishing, Parts
  <2> QED BY <1>1, <1>3, <1>11, <2>1, StoreKeeps
<1>12. CASE publishTerraformProvider
  <2> DEFINE ps == validateTerraformProvider(h)
             both == mergeTfPlatforms(Rel(h), ps)
  <2>1. stream = "terraform" /\ ps \subseteq Parts /\ both \subseteq Parts
    BY <1>4, <1>12 DEF publishTerraformProvider, Publishing, Parts, validateTerraformProvider, mergeTfPlatforms
  <2>2. \/ (Skip /\ (UNCHANGED control \/ Fault)) \/ Store(Rel(h), both)
        \/ /\ Fault /\ NextRecord /\ stored' = [stored EXCEPT ![Rel(h)] = ps]
           /\ done' = done + 1 /\ UNCHANGED <<disk, tags, generated>>
    BY <1>12 DEF publishTerraformProvider, h, skipInvalid, lenientError
  <2> HIDE DEF ps, both
  <2>3. CASE Store(Rel(h), both)
    BY <1>1, <1>3, <2>1, <2>3, StoreKeeps
  <2>4. CASE /\ Fault /\ NextRecord /\ stored' = [stored EXCEPT ![Rel(h)] = ps]
             /\ done' = done + 1 /\ UNCHANGED <<disk, tags, generated>>
    BY <1>1, <1>3, <2>1, <2>4, FaultyStoreKeeps
  <2> QED BY <1>6, <2>2, <2>3, <2>4
<1>13. \/ strictError \/ (Skip /\ (UNCHANGED control \/ Fault))
       \/ (writeCompleteMarkers /\ Store(Rel(h), {1, 2, 3})) \/ (Store(Rel(h), {1}) /\ stream # "npm")
       \/ (publishNpmPackage /\ Store(Rel(h), applyNpmVerification(h))) \/ publishHelmChart
       \/ (publishSnapPackage /\ Store(Rel(h), {1, 2})) \/ publishTerraformProvider
  BY DEF h, writeCompleteMarkers, publishComposerPackage, upsertGemLine, publishNpmPackage, publishCRANPackage,
     publishGalaxyCollection, publishCondaPackage, publishSnapPackage, publishVSXExtension, PassOver, Publishing,
     skipInvalid, lenientError
<1> QED BY <1>5, <1>6, <1>7, <1>8, <1>9, <1>10, <1>11, <1>12, <1>13

(* Writing an index: the files and documents stay.                           *)
LEMMA IndexKeeps ==
  ASSUME PubAssumed, PubInv, pc \notin {"idle", "install"}, UNCHANGED <<stream, next, disk, stored, crashes>>,
         pc' \in {"publish", "nuspec", "tags", "index", "index2", "names", "commit"},
         todo' \in Seq(Records), pc' = "nuspec" => stream = "nuget" /\ todo' # <<>>,
         tags' \subseteq Releases, listing' \subseteq Releases, listing2' \subseteq Releases, names' \subseteq Names,
         regen' \subseteq Names, done' \in Nat, faults' \in Nat, Indexed', GemsOrdered'
  PROVE  PubInv'
<1>1. PubTyped'
  BY DEF PubInv, PubTyped, PublishTypeOK
<1>2. InBundle'
  BY DEF PubInv, InBundle
<1>3. Bundle' = Bundle
  BY DEF Bundle
<1>4. Extracted'
  <2>1. \A r \in ToSet(Bundle) : Whole(r)'
    BY WholeStays DEF PubInv, Extracted
  <2> QED BY <1>3, <2>1 DEF Extracted
<1>5. Attested'
  BY DEF PubInv, Attested, Present
<1> QED BY <1>1, <1>2, <1>4, <1>5 DEF PubInv

LEMMA NugetKeeps ==
  ASSUME PubAssumed, PubInv, publishNugetPackage \/ writeNuspec
  PROVE  PubInv'
<1> USE DEF control, generated
<1>0. /\ todo \in Seq(Records) /\ tags \subseteq Releases /\ listing \subseteq Releases /\ listing2 \subseteq Releases
      /\ names \subseteq Names /\ regen \subseteq Names /\ done \in Nat /\ faults \in Nat
      /\ stored \in [Releases -> SUBSET Parts] /\ stream \in Ecosystems /\ stream = "nuget" /\ todo # <<>>
  BY DEF PubInv, PubTyped, PublishTypeOK, InBundle, publishNugetPackage, writeNuspec, Publishing
<1>1. CASE strictError
  BY <1>1, StrictKeeps
<1>2. CASE publishNugetPackage /\ ~strictError
  <2>1. CASE skipInvalid
    BY <1>0, <1>2, <2>1, SkipKeeps DEF publishNugetPackage, Publishing, skipInvalid
  <2>2. CASE ~skipInvalid
    <3>1. /\ stored' = [stored EXCEPT ![Rel(Head(todo))] = {1}] /\ pc = "publish" /\ pc' = "nuspec"
          /\ UNCHANGED <<stream, next, disk, tags, listing, listing2, names, todo, regen, done, faults, crashes>>
      BY <1>2, <2>2 DEF publishNugetPackage, Publishing
    <3>2. PubTyped'
      <4>1. {1} \in SUBSET Parts
        BY DEF Parts
      <4>2. stored' \in [Releases -> SUBSET Parts]
        BY <1>0, <3>1, <4>1
      <4> QED BY <1>0, <3>1, <4>2 DEF PubInv, PubTyped, PublishTypeOK
    <3>3. Bundle' = Bundle /\ \A r \in ToSet(Bundle) : Whole(r)'
      BY <3>1, WholeStays DEF PubInv, Extracted, Bundle
    <3>4. InBundle' /\ Extracted'
      BY <1>0, <3>1, <3>3 DEF PubInv, InBundle, Extracted
    <3>5. Attested' /\ Indexed' /\ GemsOrdered'
      BY <1>0, <3>1 DEF Attested, Indexed, GemsOrdered
    <3> QED BY <3>2, <3>4, <3>5 DEF PubInv
  <2> QED BY <2>1, <2>2
<1>3. CASE writeNuspec /\ ~strictError
  <2>1. /\ listing2' = listing2 \cup {Rel(Head(todo))} /\ pc = "nuspec" /\ pc' = "publish" /\ todo' = Tail(todo)
        /\ done' = done + 1 /\ UNCHANGED <<stream, next, disk, stored, tags, listing, names, regen, faults, crashes>>
    BY <1>3 DEF writeNuspec
  <2>2. Head(todo) \in Records /\ todo' \in Seq(Records)
    BY <1>0, <2>1, TodoStep
  <2>3. Rel(Head(todo)) \in Releases
    BY <1>0, <2>2, FilesAreParts
  <2>4. Indexed' /\ GemsOrdered'
    BY <1>0, <2>1 DEF Indexed, GemsOrdered
  <2> QED BY <1>0, <2>1, <2>2, <2>3, <2>4, IndexKeeps
<1> QED BY <1>1, <1>2, <1>3

(* The end of the records, the tags and the commit.                          *)
LEMMA EndKeeps ==
  ASSUME PubAssumed, PubInv, EndPublish \/ publishNpmDistTags \/ Commit
  PROVE  PubInv'
<1> USE DEF control, generated
<1>0. /\ todo \in Seq(Records) /\ tags \subseteq Releases /\ listing \subseteq Releases /\ listing2 \subseteq Releases
      /\ names \subseteq Names /\ regen \subseteq Names /\ done \in Nat /\ faults \in Nat /\ stream \in Ecosystems
      /\ stored \in [Releases -> SUBSET Parts] /\ pc \notin {"idle", "install"} /\ next <= Len(Bundles[stream])
  BY DEF PubInv, PubTyped, PublishTypeOK, InBundle, EndPublish, publishNpmDistTags, Commit
<1>1. Bundle \in Seq(Records)
  BY <1>0, BundleIsRecords
<1>2. \A r \in ToSet(Bundle) : r \in Records
  BY <1>1, LenProperties, ElementOfSeq DEF ToSet
<1>3. BundleNames \subseteq Names
  BY <1>2 DEF BundleNames, Records
<1>4. CASE EndPublish
  <2>1. UNCHANGED <<stream, next, disk, stored, tags, listing, listing2, names, todo, done, faults, crashes>>
    BY <1>4 DEF EndPublish
  <2>2. pc' \in {"tags", "index", "commit"} /\ (stream = "rubygems" => pc' \in {"index", "commit"})
    BY <1>4 DEF EndPublish
  <2>3. regen' \subseteq Names /\ (stream = "rubygems" => regen' = StoredNames)
    BY <1>3, <1>4 DEF EndPublish, PubAssumed, StoredNames
  <2>4. Indexed'
    BY <2>1 DEF PubInv, Indexed, Present
  <2>5. GemsOrdered'
    <3>1. \A rel \in Gems : rel[1] \in StoredNames
      BY <1>0 DEF Gems, StoredNames, Releases
    <3> QED BY <2>1, <2>2, <2>3, <3>1 DEF PubInv, GemsOrdered, Gems, Present
  <2> QED BY <1>0, <2>1, <2>2, <2>3, <2>4, <2>5, IndexKeeps
<1>5. CASE publishNpmDistTags /\ ~strictError
  <2>1. /\ UNCHANGED <<stream, next, disk, stored, listing, listing2, names, todo, done, faults, crashes>>
        /\ pc = "tags" /\ pc' \in {"tags", "commit"} /\ regen' \subseteq regen
    BY <1>5 DEF publishNpmDistTags
  <2>2. tags' \subseteq Releases
    <3>1. \A r \in ToSet(Bundle) : Rel(r) \in Releases
      BY <1>0, <1>2, FilesAreParts
    <3>2. CASE UNCHANGED tags
      BY <1>0, <3>2
    <3>3. CASE \E n \in regen :
                 tags' = {rel \in tags : rel[1] # n} \cup {Rel(r) : r \in {s \in ToSet(Bundle) : s.name = n}}
      BY <1>0, <3>1, <3>3
    <3> QED BY <1>5, <3>2, <3>3 DEF publishNpmDistTags
  <2>3. Indexed'
    BY <2>1 DEF PubInv, Indexed, Present
  <2>4. GemsOrdered'
    BY <2>1 DEF PubInv, GemsOrdered, Gems, Present
  <2> QED BY <1>0, <2>1, <2>2, <2>3, <2>4, IndexKeeps
<1>6. CASE Commit
  <2>1. /\ next' = next + 1 /\ pc' = "idle" /\ todo' = <<>> /\ done' = 0 /\ regen' = {}
        /\ UNCHANGED <<stream, disk, stored, tags, listing, listing2, names, faults, crashes>>
    BY <1>6 DEF Commit
  <2>2. Len(Bundles[stream]) \in Nat /\ next \in Nat
    BY <1>0, LenProperties DEF PubAssumed, Ecosystems, PubInv, PubTyped, PublishTypeOK
  <2>3. next' \in 1 .. (Len(Bundles[stream]) + 1)
    BY <1>0, <2>1, <2>2 DEF PubInv, PubTyped, PublishTypeOK
  <2>4. PubTyped'
    BY <1>0, <2>1, <2>3, EmptySeq DEF PubInv, PubTyped, PublishTypeOK
  <2>5. InBundle' /\ Extracted' /\ Attested' /\ Indexed' /\ GemsOrdered'
    BY <2>1 DEF PubInv, InBundle, Extracted, Attested, Indexed, GemsOrdered, Gems, Present
  <2> QED BY <2>4, <2>5 DEF PubInv
<1>7. CASE publishNpmDistTags /\ strictError
  BY <1>7, StrictKeeps
<1> QED BY <1>4, <1>5, <1>6, <1>7

(* The generated indexes.                                                    *)
LEMMA CrateIndexKeeps ==
  ASSUME PubAssumed, PubInv, publishCrateIndex
  PROVE  PubInv'
<1> USE DEF control, generated
<1>0. /\ todo \in Seq(Records) /\ tags \subseteq Releases /\ listing \subseteq Releases /\ listing2 \subseteq Releases
      /\ names \subseteq Names /\ regen \subseteq Names /\ done \in Nat /\ faults \in Nat /\ stream \in Ecosystems
      /\ pc = "publish" /\ next <= Len(Bundles[stream]) /\ stream = "crates"
  BY DEF PubInv, PubTyped, PublishTypeOK, InBundle, publishCrateIndex
<1>1. Bundle \in Seq(Records)
  BY <1>0, BundleIsRecords
<1>2. \A r \in ToSet(Bundle) : r \in Records
  BY <1>1, LenProperties, ElementOfSeq DEF ToSet
<1>3. \A r \in ToSet(Bundle) : Rel(r) \in Releases
  BY <1>0, <1>2, FilesAreParts
<1>4. \A r \in ToSet(Bundle) : Present(Rel(r), 1)
  <2>1. \A r : FilesOf(r) = {1}
    BY <1>0 DEF FilesOf, validateCrateRecord
  <2> QED BY <1>0, <2>1 DEF PubInv, Extracted, Whole
<1>5. CASE strictError
  BY <1>5, StrictKeeps
<1>6. CASE ~strictError
  <2>1. PICK n \in regen :
          /\ listing' = listing \cup {Rel(r) : r \in {s \in ToSet(Bundle) : s.name = n}} /\ regen' = regen \ {n}
          /\ UNCHANGED <<stream, next, faults, crashes, disk, stored, tags, listing2, names, pc, todo, done>>
    BY <1>6 DEF publishCrateIndex, crateLines
  <2>2. listing' \subseteq Releases /\ regen' \subseteq Names
    BY <1>0, <1>3, <2>1
  <2>3. Indexed'
    <3>1. \A rel \in listing' : Present(rel, 1)
      BY <1>0, <1>4, <2>1 DEF PubInv, Indexed
    <3> QED BY <1>0, <2>1, <3>1 DEF Indexed, Present
  <2>4. GemsOrdered'
    BY <1>0, <2>1 DEF GemsOrdered
  <2> QED BY <1>0, <2>1, <2>2, <2>3, <2>4, IndexKeeps
<1> QED BY <1>5, <1>6

LEMMA GemIndexKeeps ==
  ASSUME PubAssumed, PubInv, regenerateGemInfoFile \/ writeRubyGemsVersions \/ writeRubyGemsNames
  PROVE  PubInv'
<1> USE DEF control, generated
<1>0. /\ todo \in Seq(Records) /\ tags \subseteq Releases /\ listing \subseteq Releases /\ listing2 \subseteq Releases
      /\ names \subseteq Names /\ regen \subseteq Names /\ done \in Nat /\ faults \in Nat /\ Gems \subseteq Releases
      /\ pc \in {"index", "index2", "names"}
  BY DEF PubInv, PubTyped, PublishTypeOK, Gems, regenerateGemInfoFile, writeRubyGemsVersions, writeRubyGemsNames
<1>1. \A n \in Names : gemPresentKeys(n) = {rel \in Gems : rel[1] = n}
  BY DEF gemPresentKeys, Gems, Releases
<1>2. CASE strictError
  BY <1>2, StrictKeeps
<1>3. CASE regenerateGemInfoFile /\ ~strictError
  <2>1. pc = "index" /\ stream = "rubygems"
    BY <1>3 DEF regenerateGemInfoFile
  <2>2. CASE \E n \in regen :
               /\ listing' = {rel \in listing : rel[1] # n} \cup gemPresentKeys(n) /\ regen' = regen \ {n}
               /\ UNCHANGED <<control, disk, stored, tags, listing2, names, pc, todo, done>>
    <3>1. PICK n \in regen :
               /\ listing' = {rel \in listing : rel[1] # n} \cup gemPresentKeys(n) /\ regen' = regen \ {n}
               /\ UNCHANGED <<control, disk, stored, tags, listing2, names, pc, todo, done>>
      BY <2>2
    <3>2. gemPresentKeys(n) = {rel \in Gems : rel[1] = n}
      BY <1>0, <1>1, <3>1
    <3>3. Gems' = Gems
      BY <3>1 DEF Gems, Present
    <3>4. listing' \subseteq Releases /\ regen' \subseteq Names
      BY <1>0, <3>1, <3>2
    <3>5. GemsOrdered'
      <4>1. listing2 \subseteq Gems /\ listing2 \subseteq listing
            /\ \A rel \in Gems : rel[1] \notin regen => rel \in listing
        BY <2>1 DEF PubInv, GemsOrdered
      <4>2. listing2' \subseteq listing'
        BY <3>1, <3>2, <4>1
      <4>3. \A rel \in Gems : rel[1] \notin regen' => rel \in listing'
        BY <3>1, <3>2, <4>1
      <4> QED BY <2>1, <3>1, <3>3, <4>1, <4>2, <4>3 DEF GemsOrdered
    <3>6. Indexed'
      BY <2>1, <3>1 DEF Indexed
    <3> QED BY <1>0, <2>1, <3>1, <3>4, <3>5, <3>6, IndexKeeps
  <2>3. CASE /\ regen = {} /\ pc' = "index2"
             /\ UNCHANGED <<control, disk, stored, tags, generated, todo, regen, done>>
    <3>1. Gems' = Gems
      BY <2>3 DEF Gems, Present
    <3>2. GemsOrdered'
      BY <2>1, <2>3, <3>1 DEF PubInv, GemsOrdered
    <3>3. Indexed'
      BY <2>1, <2>3 DEF Indexed
    <3> QED BY <1>0, <2>1, <2>3, <3>2, <3>3, IndexKeeps
  <2> QED BY <1>3, <2>2, <2>3 DEF regenerateGemInfoFile
<1>4. CASE writeRubyGemsVersions /\ ~strictError
  <2>1. /\ pc = "index2" /\ stream = "rubygems" /\ listing2' = UNION {gemPresentKeys(n) : n \in Names} /\ pc' = "names"
        /\ UNCHANGED <<stream, next, faults, crashes, disk, stored, tags, listing, names, todo, regen, done>>
    BY <1>4 DEF writeRubyGemsVersions
  <2>2. listing2' \subseteq Gems
    BY <1>1, <2>1
  <2>3. Gems' = Gems
    BY <2>1 DEF Gems, Present
  <2>4. GemsOrdered'
    BY <2>1, <2>2, <2>3 DEF PubInv, GemsOrdered
  <2>5. Indexed'
    BY <2>1 DEF Indexed
  <2> QED BY <1>0, <2>1, <2>2, <2>4, <2>5, IndexKeeps
<1>5. CASE writeRubyGemsNames /\ ~strictError
  <2>1. /\ pc = "names" /\ names' \subseteq Names /\ pc' = "commit"
        /\ UNCHANGED <<stream, next, faults, crashes, disk, stored, tags, listing, listing2, todo, regen, done>>
    BY <1>5 DEF writeRubyGemsNames
  <2>2. Gems' = Gems
    BY <2>1 DEF Gems, Present
  <2>3. GemsOrdered'
    BY <2>1, <2>2 DEF PubInv, GemsOrdered
  <2>4. Indexed'
    BY <2>1 DEF PubInv, Indexed, Present
  <2> QED BY <1>0, <2>1, <2>3, <2>4, IndexKeeps
<1> QED BY <1>2, <1>3, <1>4, <1>5

LEMMA LenientIndexKeeps ==
  ASSUME PubAssumed, PubInv,
         regenerateCRANIndex \/ writePackagesGz \/ regenerateHelmIndex \/ regenerateCondaRepodata
  PROVE  PubInv'
<1> USE DEF control, generated
<1>0. /\ todo \in Seq(Records) /\ tags \subseteq Releases /\ listing \subseteq Releases /\ listing2 \subseteq Releases
      /\ names \subseteq Names /\ regen \subseteq Names /\ done \in Nat /\ faults \in Nat
      /\ pc \in {"index", "index2"} /\ stream \in {"cran", "helm", "conda"}
  BY DEF PubInv, PubTyped, PublishTypeOK, regenerateCRANIndex, writePackagesGz, regenerateHelmIndex,
     regenerateCondaRepodata
<1>1. \A drop \in SUBSET Releases : Unreadable(drop) => faults' \in Nat /\ UNCHANGED <<stream, next, crashes>>
  BY <1>0 DEF Unreadable, Fault
<1>2. CASE strictError
  BY <1>2, StrictKeeps
<1>3. CASE regenerateCRANIndex /\ ~strictError
  <2>1. PICK drop \in SUBSET Releases :
          /\ Unreadable(drop) /\ listing' = cranNewestStored(drop) /\ pc' = "index2" /\ stream = "cran"
          /\ UNCHANGED <<disk, stored, tags, listing2, names, todo, regen, done>>
    BY <1>3 DEF regenerateCRANIndex
  <2>2. \A rel \in listing' : rel \in Releases /\ Present(rel, 1)
    BY <2>1 DEF cranNewestStored, readCRANStored
  <2>3. Indexed' /\ GemsOrdered'
    BY <1>1, <2>1, <2>2 DEF Indexed, GemsOrdered, Present
  <2> QED BY <1>0, <1>1, <2>1, <2>2, <2>3, IndexKeeps
<1>4. CASE writePackagesGz /\ ~strictError
  <2>1. /\ stream = "cran" /\ listing2' = listing /\ pc' = "commit"
        /\ UNCHANGED <<stream, next, faults, crashes, disk, stored, tags, listing, names, todo, regen, done>>
    BY <1>4 DEF writePackagesGz
  <2>2. Indexed' /\ GemsOrdered'
    BY <2>1 DEF PubInv, Indexed, GemsOrdered, Present
  <2> QED BY <1>0, <2>1, <2>2, IndexKeeps
<1>5. CASE regenerateHelmIndex /\ ~strictError
  <2>1. PICK drop \in SUBSET Releases :
          /\ Unreadable(drop) /\ listing' = {rel \in Releases \ drop : helmIndexEntry(rel)} /\ pc' = "commit"
          /\ stream = "helm" /\ UNCHANGED <<disk, stored, tags, listing2, names, todo, regen, done>>
    BY <1>5 DEF regenerateHelmIndex
  <2>2. \A rel \in listing' : rel \in Releases /\ (Present(rel, 1) \/ Present(rel, 0))
    BY <2>1 DEF helmIndexEntry
  <2>3. Indexed' /\ GemsOrdered'
    BY <1>1, <2>1, <2>2 DEF Indexed, GemsOrdered, Present
  <2> QED BY <1>0, <1>1, <2>1, <2>2, <2>3, IndexKeeps
<1>6. CASE regenerateCondaRepodata /\ ~strictError
  <2>0. stream = "conda" /\ pc = "index"
    BY <1>6 DEF regenerateCondaRepodata
  <2>1. CASE /\ regen = {} /\ pc' = "commit"
             /\ UNCHANGED <<control, disk, stored, tags, generated, todo, regen, done>>
    <3>1. Indexed' /\ GemsOrdered'
      BY <2>0, <2>1 DEF PubInv, Indexed, GemsOrdered, Present
    <3> QED BY <1>0, <2>0, <2>1, <3>1, IndexKeeps
  <2>2. CASE ~(regen = {} /\ pc' = "commit"
               /\ UNCHANGED <<control, disk, stored, tags, generated, todo, regen, done>>)
    <3>1. PICK n \in regen, drop \in SUBSET Releases :
            /\ Unreadable(drop) /\ regen' = regen \ {n}
            /\ listing' = {rel \in listing : rel[1] # n} \cup {rel \in ({n} \X Versions) \ drop : readCondaStoredRaw(rel)}
            /\ UNCHANGED <<disk, stored, tags, listing2, names, pc, todo, done>>
      BY <1>6, <2>2 DEF regenerateCondaRepodata
    <3>2. \A rel \in {n} \X Versions : rel \in Releases
      BY <1>0 DEF Releases
    <3>3. \A rel \in listing : Present(rel, 1)
      BY <2>0 DEF PubInv, Indexed
    <3>4. \A rel \in listing' : rel \in Releases /\ Present(rel, 1)
      BY <1>0, <3>1, <3>2, <3>3 DEF readCondaStoredRaw
    <3>5. Indexed' /\ GemsOrdered'
      BY <1>1, <2>0, <3>1, <3>4 DEF Indexed, GemsOrdered, Present
    <3> QED BY <1>0, <1>1, <2>0, <3>1, <3>4, <3>5, IndexKeeps
  <2> QED BY <2>1, <2>2
<1> QED BY <1>2, <1>3, <1>4, <1>5, <1>6

(* The invariant is kept by every step.                                      *)
LEMMA PubKeeps ==
  ASSUME PubAssumed, PubInv, [PublishNext]_publishVars
  PROVE  PubInv'
<1>1. CASE UNCHANGED publishVars
  BY <1>1 DEF publishVars, PubInv, PubTyped, PublishTypeOK, InBundle, Extracted, Attested, Indexed, GemsOrdered, Gems,
     Bundle, Whole, FilesOf, Present
<1>2. CASE PublishNext
  BY <1>2, PubInstallKeeps, RecordStepKeeps, NugetKeeps, EndKeeps, CrateIndexKeeps, GemIndexKeeps, LenientIndexKeeps,
     PubCrashKeeps DEF PublishNext, Import
<1> QED BY <1>1, <1>2

LEMMA PubAlways ==
  ASSUME PubAssumed
  PROVE  PublishSpec => []PubInv
<1>1. PublishInit => PubInv
  BY PubStart
<1>2. PubInv /\ [PublishNext]_publishVars => PubInv'
  BY PubKeeps
<1> QED BY <1>1, <1>2, PTL DEF PublishSpec

(* Types are kept by every publisher.                                        *)
THEOREM PublishTypeCorrect == PublishSpec => []PublishTypeOK
<1> USE PublishAssumption
<1>1. PubInv => PublishTypeOK
  BY DEF PubInv, PubTyped
<1> QED BY <1>1, PubAlways, PTL

(* Whatever a client is told about can be downloaded, in all fourteen         *)
(* ecosystems, half way through an import, after an error and after a crash.  *)
THEOREM ListedFilesInstalled == PublishSpec => []ListedIsInstalled
<1> USE PublishAssumption
<1>1. PubInv => ListedIsInstalled
  BY PubListed
<1> QED BY <1>1, PubAlways, PTL

----------------------------------------------------------------------------
(* Models and repositories.                                                  *)
Loaded ==
  publish.pc # "idle" =>
    /\ publish = [pc |-> publish.pc, got |-> publish.got]
    /\ \A i \in Items : publish.got[i] # HfNone => BlobsOf(publish.got[i]) \subseteq hfBlobs

HfInv == Loaded /\ ServedIsPresent

LEMMA PresentInit == HfInit => HfInv
  BY DEF HfInit, HfInv, Loaded, ServedIsPresent, NoPublish

(* Steps of the hub, of a collect, and those that give an import up.         *)
LEMMA OthersKeep ==
  ASSUME HfInv, UNCHANGED <<hfBlobs, models, repo>>, publish' = publish \/ publish' = NoPublish
  PROVE  HfInv'
  BY DEF HfInv, Loaded, ServedIsPresent, NoPublish

(* The files a bundle carries and the prior ones are all the manifest lists.  *)
LEMMA InstallLoads ==
  ASSUME HfInv, HfInstall
  PROVE  HfInv'
<1> DEFINE m == Head(hfWire)
<1>1. m.files \subseteq hfBlobs'
  BY DEF HfInstall
<1>2. hfBlobs \subseteq hfBlobs' /\ UNCHANGED <<models, repo>>
  BY DEF HfInstall
<1>3. Loaded'
  <2>1. publish' = [pc |-> "models", got |-> m.got] /\ HfValid(m)
    BY DEF HfInstall
  <2>2. \A i \in Items : m.got[i] # HfNone => BlobsOf(m.got[i]) \subseteq hfBlobs'
    BY <1>1, <2>1 DEF HfValid
  <2> QED BY <2>1, <2>2 DEF Loaded, BlobsOf
<1>4. ServedIsPresent'
  BY <1>2 DEF HfInv, ServedIsPresent, BlobsOf
<1> QED BY <1>3, <1>4 DEF HfInv

LEMMA MergeModelKeeps ==
  ASSUME HfInv, MergeHFModel
  PROVE  HfInv'
<1>1. Loaded'
  BY DEF HfInv, Loaded, MergeHFModel, BlobsOf
<1>2. ASSUME NEW t \in ModelTags, models'[t] # HfNone
      PROVE  BlobsOf(models'[t]) \subseteq hfBlobs'
  <2>1. models'[t] = IF publish.got[t] = HfNone THEN models[t] ELSE publish.got[t]
    BY DEF MergeHFModel, MergedModels
  <2>2. CASE publish.got[t] = HfNone
    BY <1>2, <2>1, <2>2 DEF HfInv, ServedIsPresent, MergeHFModel
  <2>3. CASE publish.got[t] # HfNone
    BY <2>1, <2>3 DEF HfInv, Loaded, MergeHFModel, Items
  <2> QED BY <2>2, <2>3
<1>3. \A c \in repo'.snapshots : BlobsOf(c) \subseteq hfBlobs'
  BY DEF HfInv, ServedIsPresent, MergeHFModel
<1> QED BY <1>1, <1>2, <1>3 DEF HfInv, ServedIsPresent, BlobsOf

LEMMA MergeRepoKeeps ==
  ASSUME HfInv, MergeHFRepo
  PROVE  HfInv'
<1>1. Loaded'
  BY DEF MergeHFRepo, NoPublish, Loaded
<1>2. repo'.snapshots = repo.snapshots \cup {publish.got[b] : b \in {c \in Branches : publish.got[c] # HfNone}}
  BY DEF MergeHFRepo
<1>3. \A c \in repo'.snapshots : BlobsOf(c) \subseteq hfBlobs'
  BY <1>2 DEF HfInv, Loaded, ServedIsPresent, MergeHFRepo, Items
<1>4. \A t \in ModelTags : models'[t] # HfNone => BlobsOf(models'[t]) \subseteq hfBlobs'
  BY DEF HfInv, ServedIsPresent, MergeHFRepo
<1> QED BY <1>1, <1>3, <1>4 DEF HfInv, ServedIsPresent, BlobsOf

LEMMA PresentNext == HfInv /\ [HfNext]_hfVars => HfInv'
<1> SUFFICES ASSUME HfInv, [HfNext]_hfVars
             PROVE  HfInv'
  OBVIOUS
<1>1. ASSUME NEW i \in Items, NEW v \in Manifests \cup Commits, MoveHub(i, v)
      PROVE  HfInv'
  BY <1>1, OthersKeep DEF MoveHub
<1>2. ASSUME NEW refs \in SUBSET Items, NEW force \in BOOLEAN, StartCollect(refs, force)
      PROVE  HfInv'
  BY <1>2, OthersKeep DEF StartCollect
<1>3. ASSUME NEW i \in Items, MirrorItem(i)
      PROVE  HfInv'
  BY <1>3, OthersKeep DEF MirrorItem
<1>4. ASSUME NEW i \in Items, NEW n \in 0 .. Len(NeededBy(i)) - 1, SkipItem(i, n)
      PROVE  HfInv'
  BY <1>4, OthersKeep DEF SkipItem
<1>5. CASE StartRepos \/ Export \/ CollectFails \/ PublishAborts
  BY <1>5, OthersKeep DEF StartRepos, Export, CollectFails, PublishAborts
<1>6. CASE ImportStep
  BY <1>6, InstallLoads, MergeModelKeeps, MergeRepoKeeps DEF ImportStep
<1>7. CASE UNCHANGED hfVars
  BY <1>7, OthersKeep DEF hfVars
<1> QED BY <1>1, <1>2, <1>3, <1>4, <1>5, <1>6, <1>7 DEF HfNext

(* Every blob that a tag or a stored snapshot needs is in the blob store,      *)
(* between the two merges of an import and after a crash too (validateHF,     *)
(* mergeHFModel, mergeHFRepo).                                               *)
THEOREM IndexedBlobsPresent == HfSpec => []ServedIsPresent
<1>1. HfInv => ServedIsPresent
  BY DEF HfInv
<1> QED BY PresentInit, PresentNext, <1>1, PTL DEF HfSpec
----------------------------------------------------------------------------
(* What a collect stages and a bundle carries.                               *)

Finds == {g \in [Items -> Manifests \cup Commits \cup {HfNone}] :
            \A i \in Items : g[i] = HfNone \/ g[i] \in IF i \in ModelTags THEN Manifests ELSE Commits}
Mirroring == [pc : {"models", "repos"}, todo : SUBSET Items, force : BOOLEAN, staged : SUBSET Blobs,
              disk : SUBSET Blobs, listed : SUBSET Blobs, prior : SUBSET Blobs, got : Finds]
Sent == [got : Finds, files : SUBSET Blobs, carried : SUBSET Blobs]

HfTyped ==
  /\ hub \in Finds /\ \A i \in Items : hub[i] \in IF i \in ModelTags THEN Manifests ELSE Commits
  /\ job \in Mirroring \cup {NoJob} /\ (job # NoJob => job.prior \subseteq job.listed)
  /\ forwarded \subseteq Blobs /\ hfBlobs \subseteq Blobs /\ hfWire \in Seq(Sent)
  /\ publish \in [pc : {"models", "repos"}, got : Finds] \cup {NoPublish}
  /\ publish # NoPublish => hfWire # <<>>
  /\ models \in [ModelTags -> Manifests \cup {HfNone}]
  /\ repo \in [snapshots : SUBSET Commits, refs : [Branches -> Commits \cup {HfNone}]]

(* What a collect staged or listed it fetched, or the stream forwarded it.    *)
StagedOrForwarded ==
  job # NoJob => \A b \in job.staged \cup job.listed : b \in job.disk \/ (~job.force /\ b \in forwarded)

MirrorInv == HfTyped /\ StagedOrForwarded

LEMMA Needs ==
  ASSUME HfAssumed, HfTyped, NEW i \in Items
  PROVE  /\ NeededBy(i) \in Seq(Blobs) /\ Range(NeededBy(i)) \subseteq Blobs
         /\ \A n \in 0 .. Len(NeededBy(i)) - 1 : Range(SubSeq(NeededBy(i), 1, n)) \subseteq Blobs
<1>1. NeededBy(i) \in Seq(Blobs)
  <2>1. CASE i \in ModelTags
    <3>1. hub[i] \in Manifests /\ hub[i] \in Blobs
      BY <2>1 DEF HfTyped, Blobs
    <3>2. Layers[hub[i]] \in Seq(Blobs)
      BY <3>1 DEF HfAssumed
    <3> QED BY <2>1, <3>1, <3>2 DEF NeededBy
  <2>2. CASE i \notin ModelTags
    <3>1. hub[i] \in Commits
      BY <2>2 DEF HfTyped
    <3> QED BY <2>2, <3>1 DEF HfAssumed, NeededBy
  <2> QED BY <2>1, <2>2
<1>2. ASSUME NEW n \in 0 .. Len(NeededBy(i)) - 1
      PROVE  Range(SubSeq(NeededBy(i), 1, n)) \subseteq Blobs
  <2>1. SubSeq(NeededBy(i), 1, n) \in Seq(Blobs)
    BY <1>1
  <2> QED BY <2>1 DEF Range
<1>3. Range(NeededBy(i)) \subseteq Blobs
  BY <1>1 DEF Range
<1> QED BY <1>1, <1>2, <1>3

LEMMA MirrorInit == HfInit => MirrorInv
<1> SUFFICES ASSUME HfInit PROVE MirrorInv
  OBVIOUS
<1>1. hub \in [Items -> Manifests \cup Commits] /\ \A i \in Items : hub[i] \in IF i \in ModelTags THEN Manifests ELSE Commits
  BY DEF HfInit
<1>2. hub \in Finds
  BY <1>1 DEF Finds
<1>3. job = NoJob /\ publish = NoPublish /\ hfWire = <<>> /\ forwarded = {} /\ hfBlobs = {}
      /\ models = [t \in ModelTags |-> HfNone] /\ repo = [snapshots |-> {}, refs |-> [b \in Branches |-> HfNone]]
  BY DEF HfInit
<1> QED BY <1>1, <1>2, <1>3 DEF MirrorInv, HfTyped, StagedOrForwarded

(* A reference that is mirrored or skipped stages what it has looked at.      *)
LEMMA ItemStages ==
  ASSUME HfAssumed, MirrorInv, NEW i \in Items, NEW needs \in SUBSET Blobs, job # NoJob,
         UNCHANGED <<hub, forwarded, hfWire, hfBlobs, models, repo, publish>>, job' \in Mirroring,
         job'.force = job.force, job'.staged = job.staged \cup needs,
         job'.disk = job.disk \cup HfFetched(needs), job'.listed \subseteq job.listed \cup needs,
         job'.prior \subseteq job'.listed
  PROVE  MirrorInv'
<1>1. HfTyped'
  BY DEF MirrorInv, HfTyped
<1>2. ASSUME NEW b \in job'.staged \cup job'.listed
      PROVE  b \in job'.disk \/ (~job'.force /\ b \in forwarded')
  <2>1. CASE b \in job.staged \cup job.listed
    BY <2>1 DEF MirrorInv, StagedOrForwarded
  <2>2. CASE b \in needs /\ b \notin job.staged
    BY <2>2 DEF HfFetched, IsPrior
  <2> QED BY <2>1, <2>2
<1> QED BY <1>1, <1>2 DEF MirrorInv, StagedOrForwarded

LEMMA MirrorCollects ==
  ASSUME HfAssumed, MirrorInv, NEW i \in Items, MirrorItem(i)
  PROVE  MirrorInv'
<1> DEFINE needs == Range(NeededBy(i))
<1>1. needs \in SUBSET Blobs
  BY Needs DEF MirrorInv
<1>2. job \in Mirroring /\ job # NoJob /\ job.prior \subseteq job.listed
  BY DEF MirrorItem, MirrorInv, HfTyped, NoJob
<1>3. hub[i] \in IF i \in ModelTags THEN Manifests ELSE Commits
  BY DEF MirrorInv, HfTyped
<1> HIDE DEF needs
<1>4. [job.got EXCEPT ![i] = hub[i]] \in Finds
  <2>1. job.got \in Finds
    BY <1>2 DEF Mirroring
  <2> QED BY <1>3, <2>1 DEF Finds
<1>5. job' = [job EXCEPT !.todo = @ \ {i}, !.got[i] = hub[i],
                         !.staged = @ \cup needs, !.disk = @ \cup HfFetched(needs),
                         !.listed = @ \cup needs,
                         !.prior = @ \cup {b \in needs \ job.listed : b \notin job.staged /\ IsPrior(b)}]
      /\ UNCHANGED <<hub, forwarded, hfWire, hfBlobs, models, repo, publish>>
  BY DEF MirrorItem, needs
<1>6. HfFetched(needs) \subseteq needs
  BY DEF HfFetched
<1>7. /\ job'.force = job.force /\ job'.staged = job.staged \cup needs
      /\ job'.disk = job.disk \cup HfFetched(needs) /\ job'.listed = job.listed \cup needs
      /\ job'.prior \subseteq job.prior \cup needs
      /\ job'.got = [job.got EXCEPT ![i] = hub[i]]
      /\ job'.todo = job.todo \ {i} /\ job'.pc = job.pc
      /\ DOMAIN job' = DOMAIN job
  BY <1>2, <1>5 DEF Mirroring
<1>8. job' \in Mirroring
  BY <1>1, <1>2, <1>4, <1>5, <1>6 DEF Mirroring
<1> QED BY <1>1, <1>2, <1>5, <1>7, <1>8, ItemStages

LEMMA SkipCollects ==
  ASSUME HfAssumed, MirrorInv, NEW i \in Items, NEW n \in 0 .. Len(NeededBy(i)) - 1, SkipItem(i, n)
  PROVE  MirrorInv'
<1> DEFINE needs == Range(SubSeq(NeededBy(i), 1, n))
<1>1. needs \in SUBSET Blobs
  BY Needs DEF MirrorInv
<1>2. job \in Mirroring /\ job # NoJob /\ job.prior \subseteq job.listed
  BY DEF SkipItem, MirrorInv, HfTyped, NoJob
<1> HIDE DEF needs
<1>3. job' = [job EXCEPT !.todo = @ \ {i}, !.staged = @ \cup needs, !.disk = @ \cup HfFetched(needs)]
      /\ UNCHANGED <<hub, forwarded, hfWire, hfBlobs, models, repo, publish>>
  BY DEF SkipItem, needs
<1>4. HfFetched(needs) \subseteq needs
  BY DEF HfFetched
<1>5. job' \in Mirroring /\ job'.force = job.force /\ job'.staged = job.staged \cup needs
      /\ job'.disk = job.disk \cup HfFetched(needs) /\ job'.listed = job.listed /\ job'.prior = job.prior
  BY <1>1, <1>2, <1>3, <1>4 DEF Mirroring
<1> QED BY <1>1, <1>2, <1>3, <1>5, ItemStages

LEMMA RestCollects ==
  ASSUME HfAssumed, MirrorInv,
         StartRepos \/ Export \/ CollectFails \/ PublishAborts \/ ImportStep \/ UNCHANGED hfVars
  PROVE  MirrorInv'
<1>1. CASE StartRepos
  <2>1. job \in Mirroring /\ job # NoJob
    BY <1>1 DEF StartRepos, MirrorInv, HfTyped, NoJob
  <2>2. job' \in Mirroring /\ job'.listed = job.listed /\ job'.staged = {} /\ job'.force = job.force
        /\ job'.disk = job.disk /\ job'.prior = job.prior
    BY <1>1, <2>1 DEF StartRepos, Mirroring
  <2> QED BY <1>1, <2>1, <2>2 DEF StartRepos, MirrorInv, HfTyped, StagedOrForwarded
<1>2. CASE Export
  <2>1. job \in Mirroring
    BY <1>2 DEF Export, MirrorInv, HfTyped, NoJob
  <2>2. [got |-> job.got, files |-> job.listed, carried |-> Delivered] \in Sent
    BY <2>1 DEF Mirroring, Sent, Delivered
  <2>3. hfWire' \in Seq(Sent) /\ (hfWire # <<>> => hfWire' # <<>>)
    <3>1. hfWire \in Seq(Sent)
      BY DEF MirrorInv, HfTyped
    <3>2. CASE Delivered = {}
      BY <1>2, <3>1, <3>2 DEF Export
    <3>3. CASE Delivered # {}
      BY <1>2, <2>2, <3>1, <3>3 DEF Export
    <3> QED BY <3>2, <3>3
  <2>4. forwarded' \subseteq Blobs
    BY <1>2, <2>1, <2>2 DEF Export, MirrorInv, HfTyped, Mirroring
  <2> QED BY <1>2, <2>3, <2>4 DEF Export, MirrorInv, HfTyped, StagedOrForwarded
<1>3. CASE CollectFails \/ PublishAborts \/ UNCHANGED hfVars
  BY <1>3 DEF CollectFails, PublishAborts, hfVars, MirrorInv, HfTyped, StagedOrForwarded
<1>4. CASE HfInstall
  <2>1. Head(hfWire) \in Sent
    BY <1>4 DEF HfInstall, MirrorInv, HfTyped
  <2>2. hfBlobs' \subseteq Blobs /\ publish' \in [pc : {"models", "repos"}, got : Finds]
    BY <1>4, <2>1 DEF HfInstall, MirrorInv, HfTyped, Sent
  <2> QED BY <1>4, <2>2 DEF HfInstall, MirrorInv, HfTyped, StagedOrForwarded
<1>5. CASE MergeHFModel
  <2>1. publish \in [pc : {"models", "repos"}, got : Finds]
    BY <1>5 DEF MergeHFModel, MirrorInv, HfTyped, NoPublish
  <2>2. \A t \in ModelTags : publish.got[t] = HfNone \/ publish.got[t] \in Manifests
    BY <2>1 DEF Finds, Items
  <2>3. models' \in [ModelTags -> Manifests \cup {HfNone}]
    BY <1>5, <2>2 DEF MergeHFModel, MergedModels, MirrorInv, HfTyped
  <2>4. publish' \in [pc : {"models", "repos"}, got : Finds] /\ hfWire # <<>>
    BY <1>5, <2>1 DEF MergeHFModel, MirrorInv, HfTyped, NoPublish
  <2> QED BY <1>5, <2>3, <2>4 DEF MergeHFModel, MirrorInv, HfTyped, StagedOrForwarded
<1>6. CASE MergeHFRepo
  <2>1. publish \in [pc : {"models", "repos"}, got : Finds]
    BY <1>6 DEF MergeHFRepo, MirrorInv, HfTyped, NoPublish
  <2>2. \A b \in Branches : publish.got[b] = HfNone \/ publish.got[b] \in Commits
    BY <2>1 DEF Finds, Items, HfAssumed
  <2>3. repo' \in [snapshots : SUBSET Commits, refs : [Branches -> Commits \cup {HfNone}]]
    BY <1>6, <2>2 DEF MergeHFRepo, MirrorInv, HfTyped
  <2>4. hfWire # <<>> /\ hfWire \in Seq(Sent) /\ hfWire' = Tail(hfWire)
    BY <1>6, <2>1 DEF MergeHFRepo, MirrorInv, HfTyped, NoPublish
  <2>5. hfWire' \in Seq(Sent)
    BY <2>4
  <2> QED BY <1>6, <2>3, <2>5 DEF MergeHFRepo, MirrorInv, HfTyped, StagedOrForwarded
<1> QED BY <1>1, <1>2, <1>3, <1>4, <1>5, <1>6 DEF ImportStep

LEMMA StartCollects ==
  ASSUME HfAssumed, MirrorInv, NEW refs \in SUBSET Items, NEW force \in BOOLEAN, StartCollect(refs, force)
  PROVE  MirrorInv'
<1>1. Nothing \in Finds
  BY DEF Nothing, Finds
<1>2. job' \in Mirroring /\ job'.staged = {} /\ job'.listed = {} /\ job'.prior = {}
  BY <1>1 DEF StartCollect, Mirroring
<1> QED BY <1>2 DEF StartCollect, MirrorInv, HfTyped, StagedOrForwarded

LEMMA MoveCollects ==
  ASSUME HfAssumed, MirrorInv, NEW i \in Items, NEW v \in Manifests \cup Commits, MoveHub(i, v)
  PROVE  MirrorInv'
<1>1. hub' \in Finds /\ \A k \in Items : hub'[k] \in IF k \in ModelTags THEN Manifests ELSE Commits
  BY DEF MoveHub, MirrorInv, HfTyped, Finds
<1> QED BY <1>1 DEF MoveHub, MirrorInv, HfTyped, StagedOrForwarded

LEMMA MirrorNext == HfAssumed /\ MirrorInv /\ [HfNext]_hfVars => MirrorInv'
<1> SUFFICES ASSUME HfAssumed, MirrorInv, [HfNext]_hfVars PROVE MirrorInv'
  OBVIOUS
<1>1. ASSUME NEW i \in Items, NEW v \in Manifests \cup Commits, MoveHub(i, v)
      PROVE  MirrorInv'
  BY <1>1, MoveCollects
<1>2. ASSUME NEW refs \in SUBSET Items, NEW force \in BOOLEAN, StartCollect(refs, force)
      PROVE  MirrorInv'
  BY <1>2, StartCollects
<1>3. ASSUME NEW i \in Items, MirrorItem(i)
      PROVE  MirrorInv'
  BY <1>3, MirrorCollects
<1>4. ASSUME NEW i \in Items, NEW n \in 0 .. Len(NeededBy(i)) - 1, SkipItem(i, n)
      PROVE  MirrorInv'
  BY <1>4, SkipCollects
<1> QED BY <1>1, <1>2, <1>3, <1>4, RestCollects DEF HfNext

LEMMA MirrorAlways == ASSUME HfAssumed PROVE HfSpec => []MirrorInv
<1>1. [HfNext]_hfVars /\ MirrorInv => MirrorInv'
  BY MirrorNext
<1> QED BY MirrorInit, <1>1, PTL DEF HfSpec

(* The mirror's variables keep their types, for every hub and every model.    *)
THEOREM HfTypeCorrect == HfSpec => []HfTypeOK
<1> USE HfAssumption
<1>1. MirrorInv => HfTypeOK
  BY DEF MirrorInv, HfTyped, HfTypeOK, Mirroring, NoJob, NoPublish
<1> QED BY MirrorAlways, <1>1, PTL

(* What exportIfNew is about to pack is in the staging directory, whatever    *)
(* was skipped, staged before or forwarded by an earlier bundle               *)
(* (downloadHFBlob, downloadHFRepoFile, markPriorFiles).                     *)
THEOREM BundleFilesStaged == HfSpec => []DeliveredIsStaged
<1> USE HfAssumption
<1>1. MirrorInv => DeliveredIsStaged
  BY DEF MirrorInv, HfTyped, StagedOrForwarded, DeliveredIsStaged, Delivered, Prior, Mirroring, NoJob
<1> QED BY MirrorAlways, <1>1, PTL
=============================================================================
