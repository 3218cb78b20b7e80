-------------------------- MODULE HighImportProofs --------------------------
(***************************************************************************)
(* Proofs about HighImport for any streams, sequence bound, gap limit and  *)
(* number of faults.  The properties are about counters and directories;   *)
(* what makes them inductive is what the pass that holds importMu relies   *)
(* on: which number it is importing (PassSound) and what it has already    *)
(* swept out of quarantine (Swept).                                        *)
(***************************************************************************)
EXTENDS HighImport, TLAPS

(* Filed as a duplicate only if memory, which is never ahead of the durable  *)
(* state, has it as imported.                                               *)
Shelved == \A b \in dups : b[2] <= mem[b[1]]

PassSound ==
  /\ pass.pc \in {"verify", "extract", "install", "commit"} => pass.at[2] = mem[pass.at[1]] + 1
  /\ pass.pc = "commit" => installed[pass.at[1]] = pass.at[2]
  /\ pass.pc = "move" /\ pass.dst = "duplicates" => pass.at[2] <= mem[pass.at[1]]

Hopeless == {b \in Listed(quarantine) : Unreachable(b)}

Swept ==
  /\ pass.pc \in {"drain", "verify", "extract", "install", "commit"} => Hopeless = {}
  /\ pass.pc = "sweep" => Hopeless \subseteq pass.todo
  /\ pass.pc = "move" /\ pass.back = "drain" => Hopeless = {} /\ pass.dst # "quarantine"
  /\ pass.pc = "move" /\ pass.dst = "imported" => pass.back = "drain"
  /\ pass.pc = "move" /\ pass.back = "sweep" =>
       /\ pass.src = "quarantine" /\ pass.dst = "rejected" /\ ~pass.resume
       /\ \A b \in Hopeless : b \in pass.todo \/ (b = pass.at /\ pass.next <= 2)

Inv == TypeOK /\ CountersOrdered /\ Shelved /\ PassSound /\ Swept

----------------------------------------------------------------------------
(* An idle pass has its type.                                               *)
LEMMA NoPassType == NoPass \in Passes
BY ConstantsAssumption DEF NoPass, Passes, Bundles

(* The initial state: nothing imported, no pass under way.                  *)
LEMMA InitInv == Init => Inv
<1>1. SUFFICES ASSUME Init PROVE Inv
  OBVIOUS
<1>2. Empty \in Artifacts /\ Whole \in Artifacts
  BY DEF Empty, Whole, Artifacts
<1>3. TypeOK
  <2>1. landing \in [Streams -> [Seqs -> Artifacts]] /\ quarantine \in [Streams -> [Seqs -> Artifacts]]
    BY <1>1, <1>2 DEF Init
  <2>2. 0 \in 0 .. MaxSeq /\ 0 \in 0 .. MaxFaults
    BY ConstantsAssumption
  <2>3. /\ mem \in [Streams -> 0 .. MaxSeq] /\ disk \in [Streams -> 0 .. MaxSeq]
        /\ installed \in [Streams -> 0 .. MaxSeq]
    BY <1>1, <2>2 DEF Init
  <2>4. pass \in Passes /\ pass.pc = "idle"
    BY <1>1, NoPassType DEF Init, NoPass
  <2> QED BY <1>1, <2>1, <2>2, <2>3, <2>4 DEF Init, TypeOK
<1> QED BY <1>1, <1>3 DEF Init, Inv, CountersOrdered, Shelved, PassSound, Swept, NoPass

(* A step that changes neither counters, shelves nor quarantine keeps what    *)
(* does not depend on the pass.                                             *)
LEMMA Frame ==
  ASSUME Inv, UNCHANGED <<mem, disk, installed, dups>>
  PROVE  /\ CountersOrdered' /\ Shelved'
         /\ quarantine' = quarantine => Hopeless' = Hopeless
BY DEF Inv, CountersOrdered, Shelved, Hopeless, Listed, Unreachable, NextSeq

(* A step back to an idle pass keeps the invariant if the counters do.       *)
LEMMA IdleStep ==
  ASSUME TypeOK', CountersOrdered', Shelved', pass' = NoPass
  PROVE  Inv'
BY DEF Inv, PassSound, Swept, NoPass

(* A transport stores an artifact.                                          *)
LEMMA ArriveInv ==
  ASSUME Inv, NEW s \in Streams, NEW n \in Seqs, NEW x \in Suffixes, NEW v \in {"good", "bad"},
         Arrive(s, n, x, v), faults' \in 0 .. MaxFaults
  PROVE  Inv'
<1>1. UNCHANGED <<quarantine, mem, disk, installed, dups>>
  BY DEF Arrive, counters
<1>2. landing' \in [Streams -> [Seqs -> Artifacts]]
  BY DEF Inv, TypeOK, Arrive, Artifacts
<1>3. kick' \in BOOLEAN
  BY DEF Arrive, Inv, TypeOK
<1>4. /\ pass' \in Passes /\ pass'.pc = pass.pc /\ pass'.at = pass.at /\ pass'.src = pass.src
      /\ pass'.dst = pass.dst /\ pass'.next = pass.next /\ pass'.back = pass.back
      /\ pass'.todo = pass.todo /\ pass'.resume = pass.resume
  <2>1. pass \in Passes /\ <<s, n>> \in Bundles
    BY DEF Inv, TypeOK, Bundles
  <2>2. CASE pass' = pass
    BY <2>1, <2>2
  <2>3. CASE pass' = [pass EXCEPT !.fresh = @ \cup {<<s, n>>}]
    BY <2>1, <2>3 DEF Passes
  <2> QED BY <2>2, <2>3 DEF Arrive
<1>5. TypeOK'
  BY <1>1, <1>2, <1>3, <1>4 DEF Inv, TypeOK
<1> QED BY <1>1, <1>4, <1>5, Frame DEF Inv, PassSound, Swept

(* A pass begins.                                                           *)
LEMMA StartPassInv == ASSUME Inv, StartPass PROVE Inv'
<1>1. UNCHANGED <<landing, quarantine, mem, disk, installed, dups, faults>> /\ kick' = FALSE
  BY DEF StartPass, dirs, counters
<1>2. pass' \in Passes /\ pass'.pc = "sort"
  BY NoPassType DEF StartPass, NoPass, Passes, Listed
<1>3. TypeOK'
  BY <1>1, <1>2 DEF Inv, TypeOK
<1> QED BY <1>1, <1>2, <1>3, Frame DEF Inv, PassSound, Swept

(* Setting out to move bundle b gives the pass its type and target.         *)
LEMMA MoveFacts ==
  ASSUME pass \in Passes, NEW b \in Bundles, NEW src \in {"landing", "quarantine"},
         NEW dst \in {"quarantine", "duplicates", "rejected", "imported"},
         NEW back \in {"sort", "sweep", "drain"}, NEW resume \in BOOLEAN,
         Move(b, src, dst, back, resume)
  PROVE  /\ pass' \in Passes /\ pass'.pc = "move" /\ pass'.at = b
         /\ pass'.src = src /\ pass'.dst = dst /\ pass'.back = back /\ pass'.next = 1
         /\ pass'.todo = pass.todo \ {b} /\ pass'.resume = resume /\ pass'.fresh = pass.fresh
<1>1. pass' = [pc |-> "move", todo |-> pass.todo \ {b}, queue |-> pass.queue, again |-> pass.again,
               round |-> pass.round, backlog |-> pass.backlog, at |-> b, src |-> src, dst |-> dst,
               next |-> 1, back |-> back, resume |-> resume, fresh |-> pass.fresh]
  BY DEF Move, Passes
<1>2. pass.todo \ {b} \in SUBSET Bundles /\ 1 \in 1 .. 3 /\ b \in Bundles \cup {<<>>}
      /\ pass.queue \in SUBSET Streams /\ pass.again \in SUBSET Streams
      /\ pass.round \in 0 .. MaxRounds /\ pass.backlog \in [Streams -> SUBSET Seqs]
      /\ pass.fresh \in SUBSET Bundles
  BY DEF Passes
<1>3. pass' \in Passes
  BY <1>1, <1>2 DEF Passes
<1> QED BY <1>1, <1>3

(* Sorting decides on a bundle; a bundle goes to duplicates only if it is    *)
(* imported.                                                                *)
LEMMA SortBundleInv ==
  ASSUME Inv, NEW b \in Bundles, SortBundle(b)
  PROVE  Inv'
<1>1. UNCHANGED <<landing, quarantine, mem, disk, installed, dups, kick, faults>>
  BY DEF SortBundle, dirs, counters
<1>2. pass \in Passes /\ pass.pc = "sort"
  BY DEF Inv, TypeOK, SortBundle
<1>3. \/ pass' = [pass EXCEPT !.todo = @ \ {b}]
      \/ Move(b, "landing", "quarantine", "sort", TRUE)
      \/ Move(b, "landing", "rejected", "sort", FALSE)
      \/ Move(b, "landing", "quarantine", "sort", FALSE)
      \/ b[2] <= mem[b[1]] /\ Move(b, "landing", "duplicates", "sort", FALSE)
  BY DEF SortBundle
<1>4. CASE pass' = [pass EXCEPT !.todo = @ \ {b}]
  <2>1. pass' \in Passes /\ pass'.pc = "sort"
    BY <1>2, <1>4 DEF Passes
  <2>2. TypeOK'
    BY <1>1, <2>1 DEF Inv, TypeOK
  <2> QED BY <1>1, <2>1, <2>2, Frame DEF Inv, PassSound, Swept
<1>5. CASE \E dst \in {"quarantine", "rejected", "duplicates"}, resume \in BOOLEAN :
             /\ Move(b, "landing", dst, "sort", resume)
             /\ dst = "duplicates" => b[2] <= mem[b[1]]
  <2>1. PICK dst \in {"quarantine", "rejected", "duplicates"}, resume \in BOOLEAN :
             /\ Move(b, "landing", dst, "sort", resume)
             /\ dst = "duplicates" => b[2] <= mem[b[1]]
    BY <1>5
  <2>2. pass' \in Passes /\ pass'.pc = "move" /\ pass'.at = b /\ pass'.back = "sort" /\ pass'.dst = dst
    BY <1>2, <2>1, MoveFacts
  <2>3. TypeOK'
    BY <1>1, <2>2 DEF Inv, TypeOK
  <2>4. PassSound'
    BY <1>1, <2>1, <2>2 DEF PassSound
  <2> QED BY <1>1, <2>2, <2>3, <2>4, Frame DEF Inv, Swept
<1> QED BY <1>3, <1>4, <1>5

(* What can no longer be listed as hopeless stays so when nothing enters     *)
(* quarantine and no counter goes back.                                     *)
LEMMA HopelessShrinks ==
  ASSUME TypeOK, \A s \in Streams : mem[s] <= mem'[s] /\ mem'[s] \in Int,
         \A s \in Streams, n \in Seqs, x \in Suffixes :
           quarantine'[s][n][x] # "none" => quarantine[s][n][x] # "none"
  PROVE  Hopeless' \subseteq Hopeless
<1>1. SUFFICES ASSUME NEW b \in Bundles, b \in Hopeless' PROVE b \in Hopeless
  BY DEF Hopeless, Listed
<1>2. b[1] \in Streams /\ b[2] \in Seqs /\ b[2] \in Int /\ "manifest.json" \in Suffixes
  BY DEF Bundles, Seqs, Suffixes
<1>3. quarantine'[b[1]][b[2]]["manifest.json"] # "none"
  BY <1>1 DEF Hopeless, Listed
<1>4. b \in Listed(quarantine)
  BY <1>2, <1>3 DEF Listed
<1>5. \/ b[1] \notin Supported
      \/ b[2] > mem'[b[1]] + 1 /\ b[2] - (mem'[b[1]] + 1) > MaxGap
  BY <1>1 DEF Hopeless, Unreachable, NextSeq
<1>6. mem[b[1]] \in Int /\ mem'[b[1]] \in Int /\ mem[b[1]] <= mem'[b[1]] /\ MaxGap \in Int
  BY <1>2, ConstantsAssumption DEF TypeOK
<1>7. Unreachable(b)
  BY <1>2, <1>5, <1>6 DEF Unreachable, NextSeq
<1> QED BY <1>4, <1>7 DEF Hopeless

(* What the type invariant says of the pass at hand.                        *)
LEMMA PassFacts ==
  ASSUME Inv
  PROVE  /\ pass \in Passes
         /\ pass.pc \in {"move", "verify", "extract", "install", "commit"} => pass.at \in Bundles
BY DEF Inv, TypeOK

(* One artifact is moved.                                                   *)
LEMMA MoveFileInv == ASSUME Inv, MoveFile PROVE Inv'
<1>0. PICK s, n, x, v : /\ s = pass.at[1] /\ n = pass.at[2] /\ x = SuffixOrder[pass.next]
                       /\ v = Dir(pass.src)[s][n][x]
  OBVIOUS
<1>1. /\ pass \in Passes /\ pass.pc = "move" /\ pass.at \in Bundles /\ s \in Streams /\ n \in Seqs
      /\ pass.at = <<s, n>> /\ pass.next \in 1 .. 3
  <2>1. pass.pc = "move"
    BY DEF MoveFile
  <2>2. pass \in Passes /\ pass.at \in Bundles
    BY <2>1, PassFacts
  <2>3. pass.at \in Streams \X Seqs
    BY <2>2 DEF Bundles
  <2>4. s \in Streams /\ n \in Seqs /\ pass.at = <<s, n>>
    BY <1>0, <2>3
  <2>5. pass.next \in 1 .. 3
    BY <2>2 DEF Passes
  <2> QED BY <2>1, <2>2, <2>4, <2>5
<1>2. x \in Suffixes
  <2>1. pass.next = 1 \/ pass.next = 2 \/ pass.next = 3
    BY <1>1
  <2> QED BY <1>0, <2>1 DEF SuffixOrder, Suffixes
<1>3. UNCHANGED <<mem, disk, installed, kick, faults>>
  BY DEF MoveFile, counters
<1>4. landing[s][n][x] \in {"none", "good", "bad"} /\ quarantine[s][n][x] \in {"none", "good", "bad"}
  BY <1>1, <1>2 DEF Inv, TypeOK, Artifacts
<1>5. PICK u, w : /\ landing' = [landing EXCEPT ![s][n][x] = u]
                  /\ quarantine' = [quarantine EXCEPT ![s][n][x] = w]
                  /\ u \in {"none", "good", "bad"} /\ w \in {"none", "good", "bad"}
                  /\ pass.dst # "quarantine" => w \in {"none", quarantine[s][n][x]}
                  /\ pass.src = "quarantine" /\ pass.dst # "quarantine" /\ ~pass.resume => w = "none"
  <2>1. v \in {"none", "good", "bad"}
    BY <1>0, <1>4 DEF Dir
  <2> DEFINE moves == v # "none" /\ ~(pass.resume /\ quarantine[s][n][x] # "none")
             u == IF moves /\ pass.src = "landing" THEN "none" ELSE landing[s][n][x]
             w == CASE moves /\ pass.dst = "quarantine" -> v
                    [] moves /\ pass.src = "quarantine" -> "none"
                    [] OTHER -> quarantine[s][n][x]
  <2>2. landing' = [landing EXCEPT ![s][n][x] = u] /\ quarantine' = [quarantine EXCEPT ![s][n][x] = w]
    BY <1>0, <1>1, <1>2 DEF MoveFile, Inv, TypeOK, Artifacts
  <2>3. u \in {"none", "good", "bad"} /\ w \in {"none", "good", "bad"}
    BY <1>4, <2>1
  <2>4. pass.dst # "quarantine" => w \in {"none", quarantine[s][n][x]}
    OBVIOUS
  <2>5. pass.src = "quarantine" /\ pass.dst # "quarantine" /\ ~pass.resume => w = "none"
    BY <1>0 DEF Dir
  <2> QED BY <2>2, <2>3, <2>4, <2>5
<1>6. landing' \in [Streams -> [Seqs -> Artifacts]] /\ quarantine' \in [Streams -> [Seqs -> Artifacts]]
  <2>1. ASSUME NEW d \in [Streams -> [Seqs -> Artifacts]], NEW z \in {"none", "good", "bad"}
        PROVE  [d EXCEPT ![s][n][x] = z] \in [Streams -> [Seqs -> Artifacts]]
    BY <1>1, <1>2 DEF Artifacts
  <2>2. landing \in [Streams -> [Seqs -> Artifacts]] /\ quarantine \in [Streams -> [Seqs -> Artifacts]]
    BY DEF Inv, TypeOK
  <2> QED BY <1>5, <2>1, <2>2
<1>7. /\ pass' \in Passes
      /\ \/ /\ pass.next < 3 /\ pass'.pc = "move" /\ pass'.next = pass.next + 1 /\ pass'.at = pass.at
            /\ pass'.src = pass.src /\ pass'.dst = pass.dst /\ pass'.back = pass.back
            /\ pass'.todo = pass.todo /\ pass'.resume = pass.resume
         \/ pass.next = 3 /\ pass'.pc = pass.back /\ pass'.todo = pass.todo
  <2>1. CASE pass.next < 3
    <3>1. pass' = [pass EXCEPT !.next = @ + 1]
      BY <2>1 DEF MoveFile
    <3>2. pass.next + 1 \in 1 .. 3
      BY <1>1, <2>1
    <3> QED BY <1>1, <2>1, <3>1, <3>2 DEF Passes
  <2>2. CASE ~(pass.next < 3)
    <3>1. pass' = [pass EXCEPT !.pc = pass.back, !.at = <<>>]
      BY <2>2 DEF MoveFile
    <3>2. /\ <<>> \in Bundles \cup {<<>>} /\ pass.next = 3
          /\ pass.back \in {"idle", "sort", "move", "sweep", "drain", "verify", "extract", "install",
                            "commit"}
      BY <1>1, <2>2 DEF Passes
    <3> QED BY <1>1, <3>1, <3>2 DEF Passes
  <2> QED BY <2>1, <2>2
<1>8. pass.back \in {"sort", "sweep", "drain"}
  BY <1>1 DEF Passes
<1>9. dups' = dups \/ (pass.dst = "duplicates" /\ dups' = dups \cup {pass.at})
  BY DEF MoveFile
<1>10. TypeOK'
  <2>1. dups' \subseteq Bundles
    BY <1>1, <1>9 DEF Inv, TypeOK
  <2> QED BY <1>1, <1>3, <1>6, <1>7, <1>8, <2>1 DEF Inv, TypeOK
<1>11. CountersOrdered'
  BY <1>3 DEF Inv, CountersOrdered
<1>12. Shelved'
  BY <1>1, <1>3, <1>9 DEF Inv, Shelved, PassSound
<1>13. PassSound'
  BY <1>1, <1>3, <1>7, <1>8 DEF Inv, PassSound
<1>14. ASSUME pass.dst # "quarantine" PROVE Hopeless' \subseteq Hopeless
  <2>1. \A t \in Streams, m \in Seqs, y \in Suffixes :
          quarantine'[t][m][y] # "none" => quarantine[t][m][y] # "none"
    <3>1. w = "none" \/ w = quarantine[s][n][x]
      BY <1>5, <1>14
    <3>2. quarantine \in [Streams -> [Seqs -> Artifacts]]
      BY DEF Inv, TypeOK
    <3> QED BY <1>1, <1>2, <1>5, <3>1, <3>2 DEF Artifacts
  <2>2. \A t \in Streams : mem[t] <= mem'[t] /\ mem'[t] \in Int
    BY <1>3 DEF Inv, TypeOK
  <2> QED BY <2>1, <2>2, HopelessShrinks DEF Inv
<1>15. ASSUME pass.back = "sweep", pass.next = 2 PROVE pass.at \notin Hopeless'
  <2>1. x = "manifest.json" /\ pass.src = "quarantine" /\ pass.dst = "rejected" /\ ~pass.resume
    BY <1>0, <1>1, <1>15 DEF SuffixOrder, Inv, Swept
  <2>2. quarantine'[s][n][x] = "none"
    <3>1. w = "none" /\ quarantine \in [Streams -> [Seqs -> Artifacts]]
      BY <1>5, <2>1 DEF Inv, TypeOK
    <3> QED BY <1>1, <1>2, <1>5, <3>1 DEF Artifacts
  <2> QED BY <1>1, <2>1, <2>2 DEF Hopeless, Listed
<1>16. Swept'
  <2>1. CASE pass.back = "drain"
    BY <1>1, <1>7, <1>14, <2>1 DEF Inv, Swept
  <2>2. CASE pass.back = "sort"
    BY <1>1, <1>7, <2>2 DEF Inv, Swept
  <2>3. CASE pass.back = "sweep"
    <3>1. /\ pass.src = "quarantine" /\ pass.dst = "rejected" /\ ~pass.resume
          /\ \A b \in Hopeless' : b \in pass.todo \/ (b = pass.at /\ pass.next <= 2)
      BY <1>1, <1>14, <2>3 DEF Inv, Swept
    <3>2. \A b \in Hopeless' : b \in pass.todo \/ (b = pass.at /\ pass.next = 1)
      BY <1>1, <1>15, <2>3, <3>1
    <3>3. \A b \in Hopeless' : b \in pass'.todo \/ (b = pass.at /\ pass'.next <= 2 /\ pass'.pc = "move")
      BY <1>1, <1>7, <3>2
    <3> QED BY <1>7, <2>3, <3>1, <3>3 DEF Swept
  <2> QED BY <1>8, <2>1, <2>2, <2>3
<1> QED BY <1>10, <1>11, <1>12, <1>13, <1>16 DEF Inv

(* All bundles are sorted: what is hopeless in quarantine is listed.        *)
LEMMA StartSweepInv == ASSUME Inv, StartSweep PROVE Inv'
<1>1. UNCHANGED <<landing, quarantine, mem, disk, installed, dups, kick, faults>>
  BY DEF StartSweep, dirs, counters
<1>2. pass' = [pass EXCEPT !.pc = "sweep", !.todo = Hopeless] /\ pass \in Passes
  BY DEF StartSweep, Hopeless, Inv, TypeOK
<1>3. Hopeless \in SUBSET Bundles
  BY DEF Hopeless, Listed
<1>4. pass' \in Passes /\ pass'.pc = "sweep" /\ pass'.todo = Hopeless
  BY <1>2, <1>3 DEF Passes
<1>5. TypeOK'
  BY <1>1, <1>4 DEF Inv, TypeOK
<1> QED BY <1>1, <1>4, <1>5, Frame DEF Inv, PassSound, Swept

(* A hopeless bundle leaves quarantine.                                     *)
LEMMA SweepBundleInv == ASSUME Inv, NEW b \in Bundles, SweepBundle(b) PROVE Inv'
<1>1. UNCHANGED <<landing, quarantine, mem, disk, installed, dups, kick, faults>>
  BY DEF SweepBundle, dirs, counters
<1>2. pass \in Passes /\ pass.pc = "sweep" /\ Hopeless \subseteq pass.todo
  BY DEF SweepBundle, Inv, TypeOK, Swept
<1>3. /\ pass' \in Passes /\ pass'.pc = "move" /\ pass'.at = b /\ pass'.back = "sweep"
      /\ pass'.src = "quarantine" /\ pass'.dst = "rejected" /\ pass'.next = 1
      /\ pass'.todo = pass.todo \ {b} /\ pass'.resume = FALSE
  BY <1>2, MoveFacts DEF SweepBundle
<1>4. TypeOK'
  BY <1>1, <1>3 DEF Inv, TypeOK
<1>5. PassSound'
  BY <1>3 DEF PassSound
<1>6. Swept'
  BY <1>1, <1>2, <1>3, Frame DEF Swept
<1> QED BY <1>1, <1>4, <1>5, <1>6, Frame DEF Inv

(* The drain starts with nothing hopeless left in quarantine.               *)
LEMMA StartDrainInv == ASSUME Inv, StartDrain PROVE Inv'
<1>1. UNCHANGED <<landing, quarantine, mem, disk, installed, dups, kick, faults>>
  BY DEF StartDrain, dirs, counters
<1>2. PICK q, l : /\ pass' = [pass EXCEPT !.pc = "drain", !.round = 1, !.queue = q, !.backlog = l]
                  /\ q \in SUBSET Streams /\ l \in [Streams -> SUBSET Seqs]
  <2> DEFINE q == {s \in Supported : NextSeq(s) \in Seqs /\ Found(<<s, NextSeq(s)>>)}
             l == [s \in Streams |-> Backlog(s)]
  <2>1. pass' = [pass EXCEPT !.pc = "drain", !.round = 1, !.queue = q, !.backlog = l]
    BY DEF StartDrain
  <2>2. q \in SUBSET Streams
    BY ConstantsAssumption
  <2>3. l \in [Streams -> SUBSET Seqs]
    BY DEF Backlog
  <2> QED BY <2>1, <2>2, <2>3
<1>3. pass \in Passes /\ 1 \in 0 .. MaxRounds
  BY ConstantsAssumption DEF Inv, TypeOK
<1>4. pass' \in Passes /\ pass'.pc = "drain"
  BY <1>2, <1>3 DEF Passes
<1>5. Hopeless = {}
  BY DEF StartDrain, Inv, Swept
<1>6. TypeOK'
  BY <1>1, <1>4 DEF Inv, TypeOK
<1> QED BY <1>1, <1>4, <1>5, <1>6, Frame DEF Inv, PassSound, Swept

(* A turn takes the stream's next bundle, if it is there.                   *)
LEMMA StartTurnInv == ASSUME Inv, NEW s \in Streams, StartTurn(s) PROVE Inv'
<1>1. UNCHANGED <<landing, quarantine, mem, disk, installed, dups, kick, faults>>
  BY DEF StartTurn, dirs, counters
<1>2. pass \in Passes /\ pass.pc = "drain" /\ Hopeless = {}
  BY DEF StartTurn, Inv, TypeOK, Swept
<1>3. CASE NextSeq(s) \in Seqs /\ Found(<<s, NextSeq(s)>>)
  <2>1. PICK d \in {"landing", "quarantine"}, b \in Bundles :
          /\ b = <<s, NextSeq(s)>>
          /\ pass' = [pass EXCEPT !.pc = "verify", !.at = b, !.src = d, !.queue = @ \ {s}]
    <3> DEFINE b == <<s, NextSeq(s)>>
    <3>1. pass' = [pass EXCEPT !.pc = "verify", !.at = b, !.src = FindBundleDir(b), !.queue = @ \ {s}]
      BY <1>3 DEF StartTurn
    <3>2. b \in Bundles
      BY <1>3 DEF Bundles
    <3>3. FindBundleDir(b) \in {"landing", "quarantine"}
      BY DEF FindBundleDir
    <3> HIDE DEF b
    <3> QED BY <3>1, <3>2, <3>3 DEF b
  <2>2. pass' \in Passes /\ pass'.pc = "verify" /\ pass'.at = b
    BY <1>2, <2>1 DEF Passes
  <2>3. b[1] = s /\ b[2] = mem[s] + 1
    BY <2>1 DEF NextSeq
  <2>4. TypeOK'
    BY <1>1, <2>2 DEF Inv, TypeOK
  <2>5. PassSound'
    BY <1>1, <2>2, <2>3 DEF PassSound
  <2> QED BY <1>1, <1>2, <2>2, <2>4, <2>5, Frame DEF Inv, Swept
<1>4. CASE ~(NextSeq(s) \in Seqs /\ Found(<<s, NextSeq(s)>>))
  <2>1. pass' = [pass EXCEPT !.queue = @ \ {s}]
    BY <1>4 DEF StartTurn
  <2>2. pass' \in Passes /\ pass'.pc = "drain"
    BY <1>2, <2>1 DEF Passes
  <2>3. TypeOK'
    BY <1>1, <2>2 DEF Inv, TypeOK
  <2> QED BY <1>1, <1>2, <2>2, <2>3, Frame DEF Inv, PassSound, Swept
<1> QED BY <1>3, <1>4

(* A rejection out of the drain, seen as a move.                            *)
LEMMA RejectFacts ==
  ASSUME pass \in Passes, pass.at \in Bundles, pass.src \in {"landing", "quarantine"},
         Move(pass.at, pass.src, "rejected", "drain", FALSE)
  PROVE  /\ pass' \in Passes /\ pass'.pc = "move" /\ pass'.at = pass.at
         /\ pass'.dst = "rejected" /\ pass'.back = "drain" /\ pass'.src = pass.src
         /\ pass'.next = 1 /\ pass'.resume = FALSE /\ pass'.fresh = pass.fresh
<1>1. pass' = [pc |-> "move", todo |-> pass.todo \ {pass.at}, queue |-> pass.queue,
               again |-> pass.again, round |-> pass.round, backlog |-> pass.backlog,
               at |-> pass.at, src |-> pass.src, dst |-> "rejected",
               next |-> 1, back |-> "drain", resume |-> FALSE, fresh |-> pass.fresh]
  BY DEF Move, Passes
<1>2. pass.todo \ {pass.at} \in SUBSET Bundles /\ 1 \in 1 .. 3 /\ pass.at \in Bundles \cup {<<>>}
      /\ pass.queue \in SUBSET Streams /\ pass.again \in SUBSET Streams
      /\ pass.round \in 0 .. MaxRounds /\ pass.backlog \in [Streams -> SUBSET Seqs]
      /\ pass.fresh \in SUBSET Bundles
  BY DEF Passes
<1>3. pass' \in Passes
  BY <1>1, <1>2 DEF Passes
<1> QED BY <1>1, <1>3

(* Verification and extraction go on, or set out to reject the bundle.      *)
LEMMA CheckInv ==
  ASSUME Inv, UNCHANGED <<dirs, counters, dups, kick, faults>>,
         pass.pc \in {"verify", "extract"},
         \/ \E p \in {"extract", "install"} : pass' = [pass EXCEPT !.pc = p]
         \/ Move(pass.at, pass.src, "rejected", "drain", FALSE)
  PROVE  Inv'
<1>1. UNCHANGED <<landing, quarantine, mem, disk, installed, dups, kick, faults>>
  BY DEF dirs, counters
<1>2. /\ pass \in Passes /\ pass.at \in Bundles /\ Hopeless = {}
      /\ pass.at[2] = mem[pass.at[1]] + 1 /\ pass.src \in {"landing", "quarantine"}
  <2>1. pass \in Passes /\ pass.at \in Bundles
    BY PassFacts
  <2>2. PassSound /\ Swept
    BY DEF Inv
  <2>3. Hopeless = {}
    BY <2>2 DEF Swept
  <2>4. pass.at[2] = mem[pass.at[1]] + 1
    BY <2>2 DEF PassSound
  <2>5. pass.src \in {"landing", "quarantine"}
    BY <2>1 DEF Passes
  <2> QED BY <2>1, <2>3, <2>4, <2>5
<1>3. CASE \E p \in {"extract", "install"} : pass' = [pass EXCEPT !.pc = p]
  <2>1. pass' \in Passes /\ pass'.pc \in {"extract", "install"} /\ pass'.at = pass.at
    BY <1>2, <1>3 DEF Passes
  <2>2. TypeOK'
    BY <1>1, <1>2, <2>1 DEF Inv, TypeOK
  <2>3. PassSound'
    BY <1>1, <1>2, <2>1 DEF PassSound
  <2> QED BY <1>1, <1>2, <2>1, <2>2, <2>3, Frame DEF Inv, Swept
<1>4. CASE Move(pass.at, pass.src, "rejected", "drain", FALSE)
  <2>1. /\ pass' \in Passes /\ pass'.pc = "move" /\ pass'.at = pass.at
        /\ pass'.dst = "rejected" /\ pass'.back = "drain"
    BY <1>2, <1>4, RejectFacts
  <2>2. TypeOK'
    BY <1>1, <1>2, <2>1 DEF Inv, TypeOK
  <2> QED BY <1>1, <1>2, <2>1, <2>2, Frame DEF Inv, PassSound, Swept
<1> QED BY <1>3, <1>4

(* installVerifiedBundle: the repository reflects the bundle at hand, which  *)
(* is the next one.                                                         *)
LEMMA InstallInv == ASSUME Inv, Install PROVE Inv'
<1>1. /\ UNCHANGED <<landing, quarantine, mem, disk, dups, kick, faults>>
      /\ installed' = [installed EXCEPT ![pass.at[1]] = pass.at[2]]
      /\ pass' = [pass EXCEPT !.pc = "commit"]
  BY DEF Install, dirs
<1>2. PICK s \in Streams, n \in Seqs : pass.at = <<s, n>> /\ n = mem[s] + 1
  BY DEF Install, Inv, TypeOK, PassSound, Bundles
<1>3. installed' = [installed EXCEPT ![s] = n] /\ n \in 0 .. MaxSeq
  BY <1>1, <1>2 DEF Seqs
<1>4. pass' \in Passes /\ pass'.pc = "commit" /\ pass'.at = <<s, n>> /\ pass.pc = "install"
  <2>1. pass \in Passes /\ pass.pc = "install"
    BY PassFacts DEF Install
  <2>2. pass' \in Passes
    BY <1>1, <2>1 DEF Passes
  <2>3. pass'.pc = "commit" /\ pass'.at = pass.at
    BY <1>1, <2>1 DEF Passes
  <2> QED BY <1>2, <2>1, <2>2, <2>3
<1>5. TypeOK'
  <2>1. TypeOK
    BY DEF Inv
  <2>2. installed' \in [Streams -> 0 .. MaxSeq]
    BY <1>3, <2>1 DEF TypeOK
  <2>3. pass'.at \in Bundles
    BY <1>2, <1>4 DEF Bundles
  <2> QED BY <1>1, <1>4, <2>1, <2>2, <2>3 DEF TypeOK
<1>6. CountersOrdered'
  BY <1>1, <1>2, <1>3 DEF Inv, TypeOK, CountersOrdered
<1>7. Shelved'
  BY <1>1 DEF Inv, Shelved
<1>8. PassSound'
  BY <1>1, <1>2, <1>3, <1>4 DEF PassSound, Inv, TypeOK
<1>9. Swept'
  BY <1>1, <1>4 DEF Inv, Swept, Hopeless, Listed, Unreachable, NextSeq
<1> QED BY <1>5, <1>6, <1>7, <1>8, <1>9 DEF Inv

(* commitImportedStateLocked: the file, then memory.                        *)
LEMMA CommitInv == ASSUME Inv, Commit PROVE Inv'
<1>1. PICK s \in Streams, n \in Seqs :
        /\ pass.at = <<s, n>> /\ n = mem[s] + 1 /\ installed[s] = n
  BY DEF Commit, Inv, TypeOK, PassSound, Bundles
<1>2. /\ UNCHANGED <<landing, quarantine, installed, dups, kick, faults>>
      /\ disk' = [mem EXCEPT ![s] = n] /\ mem' = [mem EXCEPT ![s] = n]
  BY <1>1 DEF Commit, dirs
<1>3. PICK g : /\ pass' = [pass EXCEPT !.pc = "move", !.dst = "imported", !.next = 1, !.resume = FALSE,
                                       !.back = "drain", !.again = g]
               /\ g = pass.again \/ g = pass.again \cup {s}
  <2> DEFINE g == IF \E m \in pass.backlog[pass.at[1]] : pass.at[2] < m
                  THEN pass.again \cup {pass.at[1]} ELSE pass.again
  <2>1. pass' = [pass EXCEPT !.pc = "move", !.dst = "imported", !.next = 1, !.resume = FALSE,
                             !.back = "drain", !.again = g]
    BY DEF Commit
  <2>2. g = pass.again \/ g = pass.again \cup {s}
    BY <1>1
  <2> QED BY <2>1, <2>2
<1>4. pass \in Passes /\ pass.pc = "commit" /\ Hopeless = {}
  BY DEF Commit, Inv, TypeOK, Swept
<1>5. /\ pass' \in Passes /\ pass'.pc = "move" /\ pass'.at = <<s, n>> /\ pass'.dst = "imported"
      /\ pass'.back = "drain"
  <2>1. g \in SUBSET Streams
    BY <1>3, <1>4 DEF Passes
  <2>2. pass' = [pc |-> "move", todo |-> pass.todo, queue |-> pass.queue, again |-> g,
                 round |-> pass.round, backlog |-> pass.backlog, at |-> pass.at, src |-> pass.src,
                 dst |-> "imported", next |-> 1, back |-> "drain", resume |-> FALSE,
                 fresh |-> pass.fresh]
    BY <1>3, <1>4 DEF Passes
  <2>3. /\ pass.todo \in SUBSET Bundles /\ pass.queue \in SUBSET Streams /\ 1 \in 1 .. 3
        /\ pass.round \in 0 .. MaxRounds /\ pass.backlog \in [Streams -> SUBSET Seqs]
        /\ pass.fresh \in SUBSET Bundles
        /\ pass.at \in Bundles \cup {<<>>} /\ pass.src \in {"landing", "quarantine"}
    BY <1>4 DEF Passes
  <2>4. pass' \in Passes
    BY <2>1, <2>2, <2>3 DEF Passes
  <2> QED BY <1>1, <2>2, <2>4
<1>6. mem \in [Streams -> 0 .. MaxSeq] /\ n \in 0 .. MaxSeq
  BY DEF Inv, TypeOK, Seqs
<1>7. TypeOK'
  BY <1>2, <1>5, <1>6 DEF Inv, TypeOK, Bundles
<1>8. CountersOrdered'
  BY <1>1, <1>2, <1>6 DEF Inv, TypeOK, CountersOrdered
<1>9. Shelved'
  BY <1>1, <1>2, <1>6 DEF Inv, TypeOK, Shelved, Bundles, Seqs
<1>10. Hopeless' \subseteq Hopeless
  <2>1. \A t \in Streams : mem[t] <= mem'[t] /\ mem'[t] \in Int
    BY <1>1, <1>2, <1>6
  <2> QED BY <1>2, <2>1, HopelessShrinks DEF Inv
<1> QED BY <1>4, <1>5, <1>7, <1>8, <1>9, <1>10 DEF Inv, PassSound, Swept

(* Going back to the drain with an empty hand.                              *)
LEMMA BackToDrain ==
  ASSUME Inv, pass.pc \in {"verify", "extract", "install", "commit"} \/
              (pass.pc = "move" /\ pass.back = "drain"),
         pass' = [pass EXCEPT !.pc = "drain", !.at = <<>>],
         UNCHANGED <<landing, quarantine, mem, installed, dups, kick>>,
         disk' \in [Streams -> 0 .. MaxSeq], faults' \in 0 .. MaxFaults, CountersOrdered'
  PROVE  Inv'
<1>1. pass' \in Passes /\ pass'.pc = "drain"
  <2>1. <<>> \in Bundles \cup {<<>>} /\ pass \in Passes
    BY DEF Inv, TypeOK
  <2> QED BY <2>1 DEF Passes
<1>2. TypeOK'
  BY <1>1 DEF Inv, TypeOK
<1>3. Hopeless' = {}
  BY DEF Inv, Swept, Hopeless, Listed, Unreachable, NextSeq
<1> QED BY <1>1, <1>2, <1>3 DEF Inv, Shelved, PassSound, Swept

(* A fault is counted within its bound.                                     *)
LEMMA FaultType == ASSUME TypeOK, Fault PROVE faults' \in 0 .. MaxFaults
BY ConstantsAssumption DEF TypeOK, Fault

(* The save fails, before or after the rename; memory stays behind, and the  *)
(* repository is ahead of both by at most this bundle.                      *)
LEMMA CommitFailsInv == ASSUME Inv, CommitFails PROVE Inv'
<1>1. PICK s \in Streams, n \in Seqs :
        /\ pass.at = <<s, n>> /\ n = mem[s] + 1 /\ installed[s] = n
  BY DEF CommitFails, Inv, TypeOK, PassSound, Bundles
<1>2. /\ UNCHANGED <<landing, quarantine, mem, installed, dups, kick>>
      /\ disk' = disk \/ disk' = [mem EXCEPT ![s] = n]
      /\ pass.pc = "commit" /\ pass' = [pass EXCEPT !.pc = "drain", !.at = <<>>]
  BY <1>1 DEF CommitFails, dirs
<1>3. /\ mem \in [Streams -> 0 .. MaxSeq] /\ disk \in [Streams -> 0 .. MaxSeq]
      /\ installed \in [Streams -> 0 .. MaxSeq] /\ n \in 0 .. MaxSeq
  BY DEF Inv, TypeOK, Seqs
<1>4. disk' \in [Streams -> 0 .. MaxSeq]
  BY <1>2, <1>3
<1>5. CountersOrdered'
  BY <1>1, <1>2, <1>3 DEF Inv, CountersOrdered
<1>6. faults' \in 0 .. MaxFaults
  BY FaultType DEF CommitFails, Inv
<1> QED BY <1>2, <1>4, <1>5, <1>6, BackToDrain

(* An operational error leaves everything in place.                         *)
LEMMA TurnFailsInv == ASSUME Inv, TurnFails PROVE Inv'
<1>1. /\ UNCHANGED <<landing, quarantine, mem, disk, installed, dups, kick>>
      /\ pass.pc \in {"verify", "extract", "install"}
      /\ pass' = [pass EXCEPT !.pc = "drain", !.at = <<>>]
  BY DEF TurnFails, dirs, counters
<1>2. faults' \in 0 .. MaxFaults /\ disk \in [Streams -> 0 .. MaxSeq]
  BY FaultType DEF TurnFails, Inv, TypeOK
<1> QED BY <1>1, <1>2, Frame, BackToDrain

(* A failed move ends the pass, or the stream's turn once it is imported.    *)
LEMMA MoveFailsInv == ASSUME Inv, MoveFails PROVE Inv'
<1>1. /\ UNCHANGED <<landing, quarantine, mem, disk, installed, dups, kick>>
      /\ pass.pc = "move"
      /\ \/ pass.dst = "imported" /\ pass' = [pass EXCEPT !.pc = "drain", !.at = <<>>]
         \/ /\ pass.back = "drain"
            /\ pass' = [pass EXCEPT !.pc = "drain", !.queue = {}, !.again = {}]
         \/ pass' = NoPass
  BY DEF MoveFails, dirs, counters
<1>2. faults' \in 0 .. MaxFaults /\ disk \in [Streams -> 0 .. MaxSeq]
  BY FaultType DEF MoveFails, Inv, TypeOK
<1>3. CASE pass.dst = "imported" /\ pass' = [pass EXCEPT !.pc = "drain", !.at = <<>>]
  <2>1. pass.back = "drain"
    BY <1>1, <1>3 DEF Inv, Swept
  <2> QED BY <1>1, <1>2, <1>3, <2>1, Frame, BackToDrain
<1>4. CASE pass.back = "drain" /\ pass' = [pass EXCEPT !.pc = "drain", !.queue = {}, !.again = {}]
  <2>1. pass \in Passes /\ Hopeless = {}
    BY <1>1, <1>4 DEF Inv, TypeOK, Swept
  <2>2. pass' \in Passes /\ pass'.pc = "drain"
    BY <1>4, <2>1 DEF Passes
  <2>3. TypeOK'
    BY <1>1, <1>2, <2>2 DEF Inv, TypeOK
  <2> QED BY <1>1, <2>1, <2>2, <2>3, Frame DEF Inv, PassSound, Swept
<1>5. CASE pass' = NoPass
  <2>1. TypeOK'
    BY <1>1, <1>2, <1>5, NoPassType DEF Inv, TypeOK, NoPass
  <2> QED BY <1>1, <1>5, <2>1, Frame, IdleStep
<1> QED BY <1>1, <1>3, <1>4, <1>5

(* The streams with a backlog go into another round.                        *)
LEMMA NextRoundInv == ASSUME Inv, NextRound PROVE Inv'
<1>1. UNCHANGED <<landing, quarantine, mem, disk, installed, dups, kick, faults>>
  BY DEF NextRound, dirs, counters
<1>2. pass \in Passes /\ pass.pc = "drain" /\ Hopeless = {} /\ pass.round + 1 \in 0 .. MaxRounds
      /\ pass' = [pass EXCEPT !.round = @ + 1, !.queue = pass.again, !.again = {}]
  BY ConstantsAssumption DEF NextRound, Inv, TypeOK, Swept, Passes
<1>3. pass' \in Passes /\ pass'.pc = "drain"
  BY <1>2 DEF Passes
<1>4. TypeOK'
  BY <1>1, <1>3 DEF Inv, TypeOK
<1> QED BY <1>1, <1>2, <1>3, <1>4, Frame DEF Inv, PassSound, Swept

(* The pass ends.                                                           *)
LEMMA EndPassInv == ASSUME Inv, EndPass PROVE Inv'
<1>1. UNCHANGED <<landing, quarantine, mem, disk, installed, dups, faults>> /\ pass' = NoPass
      /\ kick' \in BOOLEAN
  BY DEF EndPass, dirs, counters, Inv, TypeOK
<1>2. TypeOK'
  BY <1>1, NoPassType DEF Inv, TypeOK, NoPass
<1> QED BY <1>1, <1>2, Frame, IdleStep

(* An old incomplete set is deleted from landing.                           *)
LEMMA ReapInv == ASSUME Inv, NEW b \in Bundles, ReapIncomplete(b) PROVE Inv'
<1>1. UNCHANGED <<quarantine, mem, disk, installed, dups, kick, pass>>
      /\ landing' = [landing EXCEPT ![b[1]][b[2]] = Empty]
  BY DEF ReapIncomplete, counters
<1>2. landing' \in [Streams -> [Seqs -> Artifacts]]
  <2>1. Empty \in Artifacts
    BY DEF Empty, Artifacts
  <2> QED BY <1>1, <2>1 DEF Inv, TypeOK, Bundles
<1>3. faults' \in 0 .. MaxFaults
  BY FaultType DEF ReapIncomplete, Inv
<1>4. TypeOK'
  BY <1>1, <1>2, <1>3 DEF Inv, TypeOK
<1> QED BY <1>1, <1>4, Frame DEF Inv, PassSound, Swept

(* A restart reads the durable state, which memory was never ahead of.      *)
LEMMA RestartInv == ASSUME Inv, Restart PROVE Inv'
<1>1. UNCHANGED <<landing, quarantine, disk, installed, dups>> /\ mem' = disk /\ pass' = NoPass
      /\ kick' = FALSE
  BY DEF Restart, dirs
<1>2. faults' \in 0 .. MaxFaults
  BY FaultType DEF Restart, Inv
<1>3. TypeOK'
  BY <1>1, <1>2, NoPassType DEF Inv, TypeOK, NoPass
<1>4. CountersOrdered'
  BY <1>1 DEF Inv, TypeOK, CountersOrdered
<1>5. Shelved'
  <2>1. \A b \in Bundles : b[1] \in Streams /\ b[2] \in Int
    BY DEF Bundles, Seqs
  <2> QED BY <1>1, <2>1 DEF Inv, TypeOK, CountersOrdered, Shelved
<1> QED BY <1>1, <1>3, <1>4, <1>5, IdleStep

(* Every step keeps the invariant.                                          *)
LEMMA NextInv == Inv /\ [Next]_vars => Inv'
<1>1. SUFFICES ASSUME Inv, [Next]_vars PROVE Inv'
  OBVIOUS
<1>2. ASSUME NEW s \in Streams, NEW n \in Seqs, NEW x \in Suffixes,
             ArriveGood(s, n, x) \/ ArriveBad(s, n, x)
      PROVE  Inv'
  <2>1. faults' \in 0 .. MaxFaults
    BY <1>1, <1>2, FaultType DEF ArriveGood, ArriveBad, Inv, TypeOK
  <2> QED BY <1>1, <1>2, <2>1, ArriveInv DEF ArriveGood, ArriveBad
<1>3. CASE PassStep
  <2>1. CASE StartPass
    BY <1>1, <2>1, StartPassInv
  <2>2. CASE \E b \in Bundles : SortBundle(b) \/ SweepBundle(b)
    BY <1>1, <2>2, SortBundleInv, SweepBundleInv
  <2>3. CASE MoveFile
    BY <1>1, <2>3, MoveFileInv
  <2>4. CASE StartSweep
    BY <1>1, <2>4, StartSweepInv
  <2>5. CASE StartDrain
    BY <1>1, <2>5, StartDrainInv
  <2>6. CASE \E s \in Streams : StartTurn(s)
    BY <1>1, <2>6, StartTurnInv
  <2>7. CASE VerifyManifest
    BY <1>1, <2>7, CheckInv DEF VerifyManifest
  <2>8. CASE Extract
    BY <1>1, <2>8, CheckInv DEF Extract
  <2>9. CASE Install
    BY <1>1, <2>9, InstallInv
  <2>10. CASE Commit
    BY <1>1, <2>10, CommitInv
  <2>11. CASE NextRound
    BY <1>1, <2>11, NextRoundInv
  <2>12. CASE EndPass
    BY <1>1, <2>12, EndPassInv
  <2> QED BY <1>3, <2>1, <2>2, <2>3, <2>4, <2>5, <2>6, <2>7, <2>8, <2>9, <2>10, <2>11, <2>12
          DEF PassStep
<1>4. CASE CommitFails
  BY <1>1, <1>4, CommitFailsInv
<1>5. CASE TurnFails
  BY <1>1, <1>5, TurnFailsInv
<1>6. CASE MoveFails
  BY <1>1, <1>6, MoveFailsInv
<1>7. CASE \E b \in Bundles : ReapIncomplete(b)
  BY <1>1, <1>7, ReapInv
<1>8. CASE Restart
  BY <1>1, <1>8, RestartInv
<1>9. CASE UNCHANGED vars
  <2>1. UNCHANGED <<landing, quarantine, mem, disk, installed, dups, kick, pass, faults>>
    BY <1>9 DEF vars
  <2>2. TypeOK'
    BY <1>1, <2>1 DEF Inv, TypeOK
  <2> QED BY <1>1, <2>1, <2>2, Frame DEF Inv, PassSound, Swept
<1> QED BY <1>1, <1>2, <1>3, <1>4, <1>5, <1>6, <1>7, <1>8, <1>9 DEF Next

(* The inductive invariant holds throughout.                                *)
LEMMA InvAlways == Spec => []Inv
BY InitInv, NextInv, PTL DEF Spec

----------------------------------------------------------------------------
(* The importer's state has its type.                                       *)
THEOREM TypeCorrect == Spec => []TypeOK
<1>1. Inv => TypeOK
  BY DEF Inv
<1> QED BY <1>1, InvAlways, PTL

(* commitImportedStateLocked keeps memory at or behind import-state.json,    *)
(* and that at or behind what is installed, whatever fails or crashes.      *)
THEOREM CountersAlwaysOrdered == Spec => []CountersOrdered
<1>1. Inv => CountersOrdered
  BY DEF Inv
<1> QED BY <1>1, InvAlways, PTL

(* sortLandingBundleLocked never files under duplicates/ what the durable    *)
(* state still wants.                                                       *)
THEOREM WantedNeverShelved == Spec => []NoWantedBundleShelved
<1>1. Inv => NoWantedBundleShelved
  <2>1. SUFFICES ASSUME Inv, NEW b \in dups PROVE b[2] <= disk[b[1]]
    BY DEF NoWantedBundleShelved
  <2>2. b[1] \in Streams /\ b[2] \in Int
    BY <2>1 DEF Inv, TypeOK, Bundles, Seqs
  <2>3. b[2] <= mem[b[1]] /\ mem[b[1]] <= disk[b[1]] /\ mem[b[1]] \in Int /\ disk[b[1]] \in Int
    BY <2>1, <2>2 DEF Inv, TypeOK, Shelved, CountersOrdered
  <2> QED BY <2>2, <2>3
<1> QED BY <1>1, InvAlways, PTL

(* While streams drain, rejectInvalidQuarantineLocked has left nothing in    *)
(* quarantine that can never be imported.                                   *)
THEOREM QuarantineAlwaysWithinReach == Spec => []QuarantineWithinReach
<1>1. Inv => QuarantineWithinReach
  BY DEF Inv, Swept, Hopeless, QuarantineWithinReach
<1> QED BY <1>1, InvAlways, PTL

(* Every step of the importer leaves the repository as it is or applies the  *)
(* next bundle of one stream.                                               *)
LEMMA StepInOrder ==
  ASSUME Inv, [Next]_vars
  PROVE  [Served!Next]_installed
<1>1. CASE Install
  <2>1. PICK s \in Streams, n \in Seqs : pass.at = <<s, n>> /\ n = mem[s] + 1
    BY <1>1 DEF Install, Inv, TypeOK, PassSound, Bundles
  <2>2. installed' = [installed EXCEPT ![s] = n]
    BY <1>1, <2>1 DEF Install
  <2>3. installed \in [Streams -> 0 .. MaxSeq] /\ mem[s] \in Int /\ n <= MaxSeq /\ MaxSeq \in Int
        /\ mem[s] <= installed[s] /\ installed[s] <= mem[s] + 1
    BY ConstantsAssumption DEF Inv, TypeOK, CountersOrdered, Seqs
  <2>4. CASE installed[s] = n
    BY <2>2, <2>3, <2>4
  <2>5. CASE installed[s] # n
    <3>1. installed[s] + 1 = n /\ installed[s] < MaxSeq
      BY <2>1, <2>3, <2>5
    <3>2. Served!Apply(s)
      BY <2>2, <3>1 DEF Served!Apply
    <3> QED BY <3>2 DEF Served!Next
  <2> QED BY <2>4, <2>5
<1>2. CASE ~Install
  <2>1. UNCHANGED installed
    BY <1>2 DEF Next, vars, PassStep, ArriveGood, ArriveBad, Arrive, StartPass, SortBundle,
       SweepBundle, MoveFile, StartSweep, StartDrain, StartTurn, VerifyManifest, Extract, Commit,
       NextRound, EndPass, CommitFails, TurnFails, MoveFails, ReapIncomplete, Restart, counters
  <2> QED BY <2>1
<1> QED BY <1>1, <1>2

(* The importer implements OrderedDelivery: the repository is always the     *)
(* result of applying bundles 1, 2, 3, ... of each stream in order, through  *)
(* reordered, repeated and damaged arrivals, failed steps and crashes.      *)
THEOREM ImplementsOrderedDelivery == Spec => InOrder
<1>1. Init => Served!Init
  BY DEF Init, Served!Init
<1>2. Inv /\ [Next]_vars => [Served!Next]_installed
  BY StepInOrder
<1> QED BY <1>1, <1>2, InvAlways, PTL DEF Spec, InOrder, Served!Spec

----------------------------------------------------------------------------
(* Early bundles are kept.  What the reaper relies on: a bundle that lies in *)
(* pieces over both directories is put together while the pass sorts, so by   *)
(* the time it reaps, a set that lies in pieces has only just landed, or is   *)
(* the one whose rejection failed.                                          *)
Spread(b) ==
  \A x \in Suffixes : landing[b[1]][b[2]][x] # "none" \/ quarantine[b[1]][b[2]][x] # "none"

Split(b) ==
  /\ b[1] \in Supported /\ b[2] > mem[b[1]] /\ b \notin pass.fresh
  /\ Spread(b) /\ ~Complete(landing, b) /\ ~Complete(quarantine, b)

Gathered ==
  /\ pass.pc = "sort" => \A b \in Bundles : Split(b) => b \in pass.todo
  /\ pass.pc = "move" =>
       \A b \in Bundles : Split(b) => b = pass.at \/ (pass.back = "sort" /\ b \in pass.todo)
  /\ pass.pc \in {"sweep", "verify", "extract", "install", "commit"} => \A b \in Bundles : ~Split(b)
  /\ pass.pc = "drain" =>
       \A b \in Bundles : Split(b) => /\ b = pass.at /\ pass.dst = "rejected"
                                      /\ pass.queue = {} /\ pass.again = {}

(* The artifacts that a move has dealt with before its k-th.                 *)
Before(x, k) == (x = "tar.gz" /\ k >= 2) \/ (x = "manifest.json" /\ k >= 3)

(* What a move has done so far, artifact by artifact.                       *)
Moved ==
  pass.pc = "move" =>
    /\ pass.dst = "quarantine" => pass.src = "landing" /\ pass.back = "sort"
    /\ pass.dst = "rejected" => ~pass.resume
    /\ pass.dst = "imported" => ~pass.resume /\ pass.at[2] <= mem[pass.at[1]]
    /\ \A x \in Suffixes :
         LET l == landing[pass.at[1]][pass.at[2]][x]
             q == quarantine[pass.at[1]][pass.at[2]][x]
         IN  /\ pass.dst = "quarantine" =>
                  (l # "none" \/ q # "none") /\ (Before(x, pass.next) => q # "none")
             /\ pass.dst = "rejected" /\ Before(x, pass.next) =>
                  IF pass.src = "quarantine" THEN q = "none"
                  ELSE l = "none" \/ pass.at \in pass.fresh

(* With the directories as they are, no bundle comes to lie in pieces.       *)
LEMMA SplitFrame ==
  ASSUME Inv, UNCHANGED <<landing, quarantine>>, pass'.fresh = pass.fresh,
         \A s \in Streams : mem'[s] \in Int /\ mem[s] <= mem'[s]
  PROVE  \A b \in Bundles : Split(b)' => Split(b)
<1>1. SUFFICES ASSUME NEW b \in Bundles, Split(b)' PROVE Split(b)
  OBVIOUS
<1>2. b[1] \in Streams /\ b[2] \in Int /\ mem[b[1]] \in Int
  BY DEF Inv, TypeOK, Bundles, Seqs
<1>3. b[2] > mem[b[1]]
  BY <1>1, <1>2 DEF Split
<1> QED BY <1>1, <1>3 DEF Split, Spread, Complete

(* The common case: no counter moves either.                                *)
LEMMA SplitSame ==
  ASSUME UNCHANGED <<landing, quarantine, mem>>, pass'.fresh = pass.fresh
  PROVE  \A b \in Bundles : Split(b)' = Split(b)
BY DEF Split, Spread, Complete

(* An idle pass promises nothing.                                           *)
LEMMA IdleKept == ASSUME pass' = NoPass PROVE Gathered' /\ Moved'
BY DEF Gathered, Moved, NoPass

(* A file that lands makes its bundle one that has only just landed.        *)
LEMMA ArriveKept ==
  ASSUME Inv, Gathered, Moved, NEW s \in Streams, NEW n \in Seqs, NEW x \in Suffixes,
         NEW v \in {"good", "bad"}, Arrive(s, n, x, v)
  PROVE  Gathered' /\ Moved'
<1>1. CASE pass.pc = "idle"
  <2>1. pass'.pc = "idle"
    BY <1>1 DEF Arrive
  <2> QED BY <2>1 DEF Gathered, Moved
<1>2. CASE pass.pc # "idle"
  <2>1. pass \in Passes /\ pass' = [pass EXCEPT !.fresh = @ \cup {<<s, n>>}]
    BY <1>2 DEF Arrive, Inv, TypeOK
  <2>2. /\ pass'.pc = pass.pc /\ pass'.at = pass.at /\ pass'.src = pass.src
        /\ pass'.dst = pass.dst /\ pass'.next = pass.next /\ pass'.back = pass.back
        /\ pass'.todo = pass.todo /\ pass'.resume = pass.resume /\ pass'.queue = pass.queue
        /\ pass'.again = pass.again /\ pass'.fresh = pass.fresh \cup {<<s, n>>}
    BY <2>1 DEF Passes
  <2>3. quarantine' = quarantine /\ mem' = mem
    BY DEF Arrive, counters
  <2>4. \A t \in Streams, m \in Seqs, y \in Suffixes :
          landing'[t][m][y] = IF t = s /\ m = n /\ y = x THEN v ELSE landing[t][m][y]
    BY DEF Arrive, Inv, TypeOK, Artifacts
  <2>5. ASSUME NEW b \in Bundles, Split(b)' PROVE Split(b)
    <3>1. b # <<s, n>> /\ b \notin pass.fresh
      BY <2>2, <2>5 DEF Split
    <3>2. PICK t \in Streams, m \in Seqs : b = <<t, m>>
      BY DEF Bundles
    <3>3. \A y \in Suffixes : landing'[t][m][y] = landing[t][m][y]
      BY <2>4, <3>1, <3>2
    <3> QED BY <2>3, <2>5, <3>1, <3>2, <3>3 DEF Split, Spread, Complete
  <2>6. Gathered'
    BY <2>2, <2>5 DEF Gathered
  <2>7. Moved'
    <3>1. SUFFICES ASSUME pass.pc = "move" PROVE Moved'
      BY <2>2 DEF Moved
    <3>2. PICK t \in Streams, m \in Seqs : pass.at = <<t, m>>
      BY <3>1, PassFacts DEF Bundles
    <3>3. \A y \in Suffixes : landing'[t][m][y] = landing[t][m][y]
                              \/ (landing'[t][m][y] # "none" /\ pass.at \in pass'.fresh)
      BY <2>2, <2>4, <3>2
    <3>4. pass.fresh \subseteq pass'.fresh
      BY <2>2
    <3> QED BY <2>2, <2>3, <3>1, <3>2, <3>3, <3>4 DEF Moved, Before
  <2> QED BY <2>6, <2>7
<1> QED BY <1>1, <1>2

(* The scan lists every bundle that lies in pieces.                         *)
LEMMA StartPassKept == ASSUME Inv, StartPass PROVE Gathered' /\ Moved'
<1>1. /\ UNCHANGED <<landing, quarantine, mem>>
      /\ pass'.pc = "sort" /\ pass'.fresh = {}
      /\ pass'.todo = Listed(landing) \cup {b \in Listed(quarantine) : b[1] \in Supported}
  BY DEF StartPass, NoPass, dirs, counters
<1>2. ASSUME NEW b \in Bundles, Split(b)' PROVE b \in pass'.todo
  BY <1>1, <1>2 DEF Split, Spread, Listed, Suffixes
<1> QED BY <1>1, <1>2 DEF Gathered, Moved

(* Sorting leaves a bundle where it is only if it does not lie in pieces.    *)
LEMMA SortBundleKept ==
  ASSUME Inv, Gathered, NEW b \in Bundles, SortBundle(b)
  PROVE  Gathered' /\ Moved'
<1>1. UNCHANGED <<landing, quarantine, mem>>
  BY DEF SortBundle, dirs, counters
<1>2. pass \in Passes /\ pass.pc = "sort" /\ \A c \in Bundles : Split(c) => c \in pass.todo
  BY DEF Inv, TypeOK, SortBundle, Gathered
<1>3. b[1] \in Streams /\ b[2] \in Int /\ mem[b[1]] \in Int
  BY DEF Inv, TypeOK, Bundles, Seqs
<1>4. \/ pass' = [pass EXCEPT !.todo = @ \ {b}] /\ ~Split(b)
      \/ Spread(b) /\ Move(b, "landing", "quarantine", "sort", TRUE)
      \/ Move(b, "landing", "rejected", "sort", FALSE)
      \/ Spread(b) /\ Move(b, "landing", "quarantine", "sort", FALSE)
      \/ Move(b, "landing", "duplicates", "sort", FALSE)
  <2>1. Split(b) => ResumeNeeded(b)
    BY <1>3 DEF Split, Spread, ResumeNeeded, NextSeq
  <2>2. ResumeNeeded(b) => Spread(b)
    BY DEF ResumeNeeded, Spread
  <2>3. Complete(landing, b) => Spread(b) /\ ~Split(b)
    BY DEF Complete, Spread, Split
  <2>4. CASE ~Complete(landing, b) /\ b[1] \in Supported
    BY <2>1, <2>2, <2>4 DEF SortBundle
  <2>5. CASE Complete(landing, b) \/ b[1] \notin Supported
    <3>1. ~Unreachable(b) => Complete(landing, b)
      BY <2>5 DEF Unreachable
    <3> QED BY <2>3, <2>5, <3>1 DEF SortBundle
  <2> QED BY <2>4, <2>5
<1>5. CASE pass' = [pass EXCEPT !.todo = @ \ {b}] /\ ~Split(b)
  <2>1. pass'.pc = "sort" /\ pass'.todo = pass.todo \ {b} /\ pass'.fresh = pass.fresh
    BY <1>2, <1>5 DEF Passes
  <2>2. \A c \in Bundles : Split(c)' => c \in pass'.todo
    BY <1>1, <1>2, <1>5, <2>1, SplitSame
  <2> QED BY <2>1, <2>2 DEF Gathered, Moved
<1>6. CASE \E dst \in {"quarantine", "rejected", "duplicates"}, resume \in BOOLEAN :
             /\ Move(b, "landing", dst, "sort", resume)
             /\ dst = "quarantine" => Spread(b)
             /\ dst = "rejected" => ~resume
  <2>1. PICK dst \in {"quarantine", "rejected", "duplicates"}, resume \in BOOLEAN :
             /\ Move(b, "landing", dst, "sort", resume)
             /\ dst = "quarantine" => Spread(b)
             /\ dst = "rejected" => ~resume
    BY <1>6
  <2>2. /\ pass'.pc = "move" /\ pass'.at = b /\ pass'.src = "landing" /\ pass'.dst = dst
        /\ pass'.back = "sort" /\ pass'.next = 1 /\ pass'.todo = pass.todo \ {b}
        /\ pass'.resume = resume /\ pass'.fresh = pass.fresh
    BY <1>2, <2>1, MoveFacts
  <2>3. \A c \in Bundles : Split(c)' => c = b \/ c \in pass'.todo
    BY <1>1, <1>2, <2>2, SplitSame
  <2>4. Gathered'
    BY <2>2, <2>3 DEF Gathered
  <2>5. Moved'
    BY <1>1, <2>1, <2>2 DEF Moved, Before, Spread
  <2> QED BY <2>4, <2>5
<1> QED BY <1>4, <1>5, <1>6

(* What one moved artifact leaves in either directory.                      *)
LEMMA MoveCell ==
  ASSUME Inv, MoveFile
  PROVE  \E s \in Streams, n \in Seqs, x \in Suffixes,
            u \in {"none", "good", "bad"}, w \in {"none", "good", "bad"} :
           /\ pass.at = <<s, n>> /\ x = SuffixOrder[pass.next]
           /\ landing' = [landing EXCEPT ![s][n][x] = u]
           /\ quarantine' = [quarantine EXCEPT ![s][n][x] = w]
           /\ pass.src = "landing" /\ pass.dst = "quarantine" =>
                \/ u = landing[s][n][x] /\ w = quarantine[s][n][x] /\ (u = "none" \/ w # "none")
                \/ u = "none" /\ w = landing[s][n][x] /\ w # "none"
           /\ pass.src = "landing" /\ pass.dst # "quarantine" /\ ~pass.resume =>
                u = "none" /\ w = quarantine[s][n][x]
           /\ pass.src = "quarantine" /\ pass.dst # "quarantine" /\ ~pass.resume =>
                u = landing[s][n][x] /\ w = "none"
<1>0. pass.pc = "move"
  BY DEF MoveFile
<1>1. PICK s \in Streams, n \in Seqs : pass.at = <<s, n>>
  BY <1>0, PassFacts DEF Bundles
<1>2. PICK x : x = SuffixOrder[pass.next]
  OBVIOUS
<1>3. x \in Suffixes
  <2>1. pass.next = 1 \/ pass.next = 2 \/ pass.next = 3
    BY PassFacts DEF Passes
  <2> QED BY <1>2, <2>1 DEF SuffixOrder, Suffixes
<1> DEFINE v == Dir(pass.src)[s][n][x]
           moves == v # "none" /\ ~(pass.resume /\ quarantine[s][n][x] # "none")
           u == IF moves /\ pass.src = "landing" THEN "none" ELSE landing[s][n][x]
           w == CASE moves /\ pass.dst = "quarantine" -> v
                  [] moves /\ pass.src = "quarantine" -> "none"
                  [] OTHER -> quarantine[s][n][x]
<1>4. landing' = [landing EXCEPT ![s][n][x] = u] /\ quarantine' = [quarantine EXCEPT ![s][n][x] = w]
  BY <1>1, <1>2, <1>3 DEF MoveFile, Inv, TypeOK, Artifacts
<1>5. pass.src = "landing" /\ pass.dst = "quarantine" =>
        \/ u = landing[s][n][x] /\ w = quarantine[s][n][x] /\ (u = "none" \/ w # "none")
        \/ u = "none" /\ w = landing[s][n][x] /\ w # "none"
  BY DEF Dir
<1>6. pass.src = "landing" /\ pass.dst # "quarantine" /\ ~pass.resume =>
        u = "none" /\ w = quarantine[s][n][x]
  BY DEF Dir
<1>7. pass.src = "quarantine" /\ pass.dst # "quarantine" /\ ~pass.resume =>
        u = landing[s][n][x] /\ w = "none"
  BY DEF Dir
<1>8. u \in {"none", "good", "bad"} /\ w \in {"none", "good", "bad"}
  <2>1. /\ landing[s][n][x] \in {"none", "good", "bad"}
        /\ quarantine[s][n][x] \in {"none", "good", "bad"}
    BY <1>3 DEF Inv, TypeOK, Artifacts
  <2> QED BY <2>1 DEF Dir
<1> HIDE DEF u, w
<1> QED BY <1>1, <1>2, <1>3, <1>4, <1>5, <1>6, <1>7, <1>8

(* A move takes nothing apart that it does not put together again or take    *)
(* away in full.                                                            *)
LEMMA MoveFileKept == ASSUME Inv, Gathered, Moved, MoveFile PROVE Gathered' /\ Moved'
<1>1. PICK s \in Streams, n \in Seqs, x \in Suffixes,
           u \in {"none", "good", "bad"}, w \in {"none", "good", "bad"} :
           /\ pass.at = <<s, n>> /\ x = SuffixOrder[pass.next]
           /\ landing' = [landing EXCEPT ![s][n][x] = u]
           /\ quarantine' = [quarantine EXCEPT ![s][n][x] = w]
           /\ pass.src = "landing" /\ pass.dst = "quarantine" =>
                \/ u = landing[s][n][x] /\ w = quarantine[s][n][x] /\ (u = "none" \/ w # "none")
                \/ u = "none" /\ w = landing[s][n][x] /\ w # "none"
           /\ pass.src = "landing" /\ pass.dst # "quarantine" /\ ~pass.resume =>
                u = "none" /\ w = quarantine[s][n][x]
           /\ pass.src = "quarantine" /\ pass.dst # "quarantine" /\ ~pass.resume =>
                u = landing[s][n][x] /\ w = "none"
  BY MoveCell
<1>2. /\ pass \in Passes /\ pass.pc = "move" /\ pass.at \in Bundles /\ mem' = mem
      /\ pass.next \in 1 .. 3 /\ pass.src \in {"landing", "quarantine"}
      /\ pass.dst \in {"quarantine", "duplicates", "rejected", "imported"}
      /\ pass.back \in {"sort", "sweep", "drain"}
  <2>1. pass.pc = "move" /\ mem' = mem
    BY DEF MoveFile, counters
  <2> QED BY <2>1, PassFacts DEF Passes
<1>3. \A t \in Streams, m \in Seqs, y \in Suffixes :
        /\ landing'[t][m][y] = IF t = s /\ m = n /\ y = x THEN u ELSE landing[t][m][y]
        /\ quarantine'[t][m][y] = IF t = s /\ m = n /\ y = x THEN w ELSE quarantine[t][m][y]
  BY <1>1 DEF Inv, TypeOK, Artifacts
<1>4. \A b \in Bundles : b # pass.at => \A y \in Suffixes :
        /\ landing'[b[1]][b[2]][y] = landing[b[1]][b[2]][y]
        /\ quarantine'[b[1]][b[2]][y] = quarantine[b[1]][b[2]][y]
  BY <1>1, <1>3 DEF Bundles
<1>5. ASSUME NEW b \in Bundles, b # pass.at, pass'.fresh = pass.fresh, Split(b)' PROVE Split(b)
  BY <1>2, <1>4, <1>5 DEF Split, Spread, Complete
<1>6. \A y \in Suffixes :
        LET l == landing'[s][n][y]
            q == quarantine'[s][n][y]
            done == Before(y, pass.next) \/ y = x
        IN  /\ pass.dst = "quarantine" =>
                 (l # "none" \/ q # "none") /\ (done => q # "none")
            /\ pass.dst = "rejected" /\ done =>
                 IF pass.src = "quarantine" THEN q = "none"
                 ELSE l = "none" \/ pass.at \in pass.fresh
  <2>1. TAKE y \in Suffixes
  <2>2. /\ landing'[s][n][y] = IF y = x THEN u ELSE landing[s][n][y]
        /\ quarantine'[s][n][y] = IF y = x THEN w ELSE quarantine[s][n][y]
    BY <1>3
  <2>3. /\ pass.dst = "quarantine" => pass.src = "landing"
        /\ pass.dst = "rejected" => ~pass.resume
        /\ pass.dst = "quarantine" =>
             /\ landing[s][n][y] # "none" \/ quarantine[s][n][y] # "none"
             /\ Before(y, pass.next) => quarantine[s][n][y] # "none"
        /\ pass.dst = "rejected" /\ Before(y, pass.next) =>
             IF pass.src = "quarantine" THEN quarantine[s][n][y] = "none"
             ELSE landing[s][n][y] = "none" \/ pass.at \in pass.fresh
    BY <1>1, <1>2 DEF Moved
  <2>4. CASE y = x
    BY <1>1, <1>2, <2>2, <2>3, <2>4
  <2>5. CASE y # x
    BY <1>1, <1>2, <2>2, <2>3, <2>5
  <2> QED BY <2>4, <2>5
<1>7. CASE pass.next < 3
  <2>1. /\ pass'.pc = "move" /\ pass'.at = pass.at /\ pass'.src = pass.src /\ pass'.dst = pass.dst
        /\ pass'.back = pass.back /\ pass'.todo = pass.todo /\ pass'.resume = pass.resume
        /\ pass'.next = pass.next + 1 /\ pass'.fresh = pass.fresh
    BY <1>2, <1>7 DEF MoveFile, Passes
  <2>2. Gathered'
    BY <1>2, <1>5, <2>1 DEF Gathered
  <2>3. \A y \in Suffixes : Before(y, pass.next + 1) <=> Before(y, pass.next) \/ y = x
    BY <1>1, <1>2, <1>7 DEF Before, SuffixOrder, Suffixes
  <2>4. Moved'
    BY <1>1, <1>2, <1>6, <2>1, <2>3 DEF Moved
  <2> QED BY <2>2, <2>4
<1>8. CASE pass.next = 3
  <2>1. pass'.pc = pass.back /\ pass'.todo = pass.todo /\ pass'.fresh = pass.fresh
    <3>1. ~(pass.next < 3)
      BY <1>8
    <3>2. pass' = [pass EXCEPT !.pc = pass.back, !.at = <<>>]
      BY <3>1 DEF MoveFile
    <3> QED BY <1>2, <3>2 DEF Passes
  <2>2. \A y \in Suffixes : Before(y, 3) \/ y = x
    BY <1>1, <1>8 DEF Before, SuffixOrder, Suffixes
  <2>3. ~Split(<<s, n>>)'
    <3>1. SUFFICES ASSUME Split(<<s, n>>)' PROVE FALSE
      OBVIOUS
    <3>2. /\ s \in Supported /\ n > mem[s] /\ <<s, n>> \notin pass.fresh
          /\ \A y \in Suffixes : landing'[s][n][y] # "none" \/ quarantine'[s][n][y] # "none"
          /\ \E y \in Suffixes : landing'[s][n][y] = "none"
          /\ \E y \in Suffixes : quarantine'[s][n][y] = "none"
      BY <1>1, <1>2, <2>1, <3>1 DEF Split, Spread, Complete
    <3>3. n \in Int /\ mem[s] \in Int
      BY DEF Inv, TypeOK, Seqs
    <3>4. pass.dst # "duplicates" /\ pass.dst # "imported"
      BY <1>1, <1>2, <3>2, <3>3 DEF Inv, PassSound, Moved
    <3>5. pass.dst # "quarantine"
      BY <1>6, <1>8, <2>2, <3>2
    <3>6. pass.dst # "rejected"
      BY <1>1, <1>2, <1>6, <1>8, <2>2, <3>2
    <3> QED BY <1>2, <3>4, <3>5, <3>6
  <2>4. \A b \in Bundles : Split(b)' => b # pass.at /\ Split(b)
    BY <1>1, <1>5, <2>1, <2>3
  <2>5. /\ pass'.pc = "sort" => \A b \in Bundles : Split(b)' => b \in pass'.todo
        /\ pass'.pc \in {"sweep", "drain"} => \A b \in Bundles : ~Split(b)'
    BY <1>2, <2>1, <2>4 DEF Gathered
  <2>6. Gathered'
    BY <1>2, <2>1, <2>5 DEF Gathered
  <2> QED BY <1>2, <2>1, <2>6 DEF Moved
<1> QED BY <1>2, <1>7, <1>8

(* Steps that leave directories and memory alone and find or leave nothing   *)
(* in pieces.                                                               *)
LEMMA QuietKept ==
  ASSUME Inv, UNCHANGED <<landing, quarantine, mem>>, pass'.fresh = pass.fresh,
         \A b \in Bundles : ~Split(b), pass'.pc # "move"
  PROVE  Gathered' /\ Moved'
BY SplitSame DEF Gathered, Moved

(* Sweeping begins when nothing is left to sort.                            *)
LEMMA StartSweepKept == ASSUME Inv, Gathered, StartSweep PROVE Gathered' /\ Moved'
<1>1. /\ UNCHANGED <<landing, quarantine, mem>> /\ \A b \in Bundles : ~Split(b)
      /\ pass' = [pass EXCEPT !.pc = "sweep", !.todo = Hopeless] /\ pass \in Passes
  BY DEF StartSweep, Hopeless, Gathered, dirs, counters, Inv, TypeOK
<1>2. pass'.pc = "sweep" /\ pass'.fresh = pass.fresh
  BY <1>1 DEF Passes
<1> QED BY <1>1, <1>2, QuietKept

(* A rejection sets out with nothing in pieces.                             *)
LEMMA RejectKept ==
  ASSUME UNCHANGED <<landing, quarantine, mem>>, pass'.fresh = pass.fresh,
         \A b \in Bundles : ~Split(b),
         pass'.pc = "move", pass'.dst = "rejected", pass'.next = 1, pass'.resume = FALSE
  PROVE  Gathered' /\ Moved'
BY SplitSame DEF Gathered, Moved, Before

(* A hopeless bundle leaves quarantine.                                     *)
LEMMA SweepBundleKept ==
  ASSUME Inv, Gathered, NEW b \in Bundles, SweepBundle(b)
  PROVE  Gathered' /\ Moved'
<1>1. /\ UNCHANGED <<landing, quarantine, mem>> /\ \A c \in Bundles : ~Split(c) /\ pass \in Passes
      /\ Move(b, "quarantine", "rejected", "sweep", FALSE)
  BY DEF SweepBundle, Gathered, dirs, counters, Inv, TypeOK
<1>2. pass'.pc = "move" /\ pass'.dst = "rejected" /\ pass'.next = 1 /\ pass'.resume = FALSE
      /\ pass'.fresh = pass.fresh
  BY <1>1, MoveFacts
<1> QED BY <1>1, <1>2, RejectKept

(* The drain begins.                                                        *)
LEMMA StartDrainKept == ASSUME Inv, Gathered, StartDrain PROVE Gathered' /\ Moved'
<1>1. /\ UNCHANGED <<landing, quarantine, mem>> /\ \A b \in Bundles : ~Split(b)
      /\ pass'.pc = "drain" /\ pass'.fresh = pass.fresh
  BY DEF StartDrain, Gathered, dirs, counters, Inv, TypeOK, Passes
<1> QED BY <1>1, QuietKept

(* A stream takes its turn only while the drain goes on.                    *)
LEMMA StartTurnKept ==
  ASSUME Inv, Gathered, NEW s \in Streams, StartTurn(s)
  PROVE  Gathered' /\ Moved'
<1>1. /\ UNCHANGED <<landing, quarantine, mem>> /\ \A b \in Bundles : ~Split(b)
      /\ pass \in Passes
  BY DEF StartTurn, Gathered, dirs, counters, Inv, TypeOK
<1>2. pass'.pc \in {"verify", "drain"} /\ pass'.fresh = pass.fresh
  BY <1>1 DEF StartTurn, Passes
<1> QED BY <1>1, <1>2, QuietKept

(* Verification and extraction.                                             *)
LEMMA CheckKept ==
  ASSUME Inv, Gathered, UNCHANGED <<dirs, counters>>, pass.pc \in {"verify", "extract"},
         \/ \E p \in {"extract", "install"} : pass' = [pass EXCEPT !.pc = p]
         \/ Move(pass.at, pass.src, "rejected", "drain", FALSE)
  PROVE  Gathered' /\ Moved'
<1>1. UNCHANGED <<landing, quarantine, mem>> /\ \A b \in Bundles : ~Split(b)
  BY DEF Gathered, dirs, counters
<1>2. pass \in Passes /\ pass.at \in Bundles /\ pass.src \in {"landing", "quarantine"}
  BY PassFacts DEF Passes
<1>3. CASE \E p \in {"extract", "install"} : pass' = [pass EXCEPT !.pc = p]
  <2>1. pass'.pc \in {"extract", "install"} /\ pass'.fresh = pass.fresh
    BY <1>2, <1>3 DEF Passes
  <2> QED BY <1>1, <2>1, QuietKept
<1>4. CASE Move(pass.at, pass.src, "rejected", "drain", FALSE)
  <2>1. pass'.pc = "move" /\ pass'.dst = "rejected" /\ pass'.next = 1 /\ pass'.resume = FALSE
        /\ pass'.fresh = pass.fresh
    BY <1>2, <1>4, RejectFacts
  <2> QED BY <1>1, <2>1, RejectKept
<1> QED BY <1>3, <1>4

(* Installing touches no directory of the importer.                         *)
LEMMA InstallKept == ASSUME Inv, Gathered, Install PROVE Gathered' /\ Moved'
<1>1. /\ UNCHANGED <<landing, quarantine, mem>> /\ \A b \in Bundles : ~Split(b)
      /\ pass'.pc = "commit" /\ pass'.fresh = pass.fresh
  BY DEF Install, Gathered, dirs, Inv, TypeOK, Passes
<1> QED BY <1>1, QuietKept

(* What is moved to imported/ is imported.                                  *)
LEMMA CommitKept == ASSUME Inv, Gathered, Commit PROVE Gathered' /\ Moved'
<1>1. PICK s \in Streams, n \in Seqs : pass.at = <<s, n>> /\ n = mem[s] + 1
  BY DEF Commit, Inv, TypeOK, PassSound, Bundles
<1>2. /\ UNCHANGED <<landing, quarantine>> /\ mem' = [mem EXCEPT ![s] = n]
      /\ pass \in Passes /\ \A b \in Bundles : ~Split(b)
  BY <1>1 DEF Commit, dirs, Inv, TypeOK, Gathered
<1>3. pass'.pc = "move" /\ pass'.at = <<s, n>> /\ pass'.dst = "imported" /\ pass'.resume = FALSE
      /\ pass'.fresh = pass.fresh
  BY <1>1, <1>2 DEF Commit, Passes
<1>4. mem \in [Streams -> 0 .. MaxSeq] /\ n \in Int
  BY DEF Inv, TypeOK, Seqs
<1>5. \A b \in Bundles : ~Split(b)'
  <2>1. \A t \in Streams : mem'[t] \in Int /\ mem[t] <= mem'[t]
    BY <1>1, <1>2, <1>4
  <2> QED BY <1>2, <1>3, <2>1, SplitFrame
<1>6. mem'[s] = n /\ n <= n
  BY <1>2, <1>4
<1> QED BY <1>3, <1>5, <1>6 DEF Gathered, Moved

(* Going back to the drain after a failure.                                 *)
LEMMA TurnEndsKept ==
  ASSUME Inv, Gathered, UNCHANGED <<landing, quarantine, mem>>,
         pass.pc \in {"verify", "extract", "install", "commit"},
         pass' = [pass EXCEPT !.pc = "drain", !.at = <<>>]
  PROVE  Gathered' /\ Moved'
<1>1. \A b \in Bundles : ~Split(b)
  BY DEF Gathered
<1>2. pass'.pc = "drain" /\ pass'.fresh = pass.fresh
  BY DEF Inv, TypeOK, Passes
<1> QED BY <1>1, <1>2, QuietKept

(* A failed move: only a rejection leaves its bundle in pieces.             *)
LEMMA MoveFailsKept == ASSUME Inv, Gathered, Moved, MoveFails PROVE Gathered' /\ Moved'
<1>1. UNCHANGED <<landing, quarantine, mem>> /\ pass.pc = "move" /\ pass \in Passes
  BY DEF MoveFails, dirs, counters, Inv, TypeOK
<1>2. CASE pass.dst = "imported"
  <2>1. pass' = [pass EXCEPT !.pc = "drain", !.at = <<>>]
    BY <1>2 DEF MoveFails
  <2>2. pass'.pc = "drain" /\ pass'.fresh = pass.fresh
    BY <1>1, <2>1 DEF Passes
  <2>3. pass.back = "drain" /\ pass.at \in Bundles /\ pass.at[2] <= mem[pass.at[1]]
    BY <1>1, <1>2, PassFacts DEF Inv, Swept, Moved
  <2>4. ~Split(pass.at)
    BY <2>3 DEF Split, Bundles, Seqs, Inv, TypeOK
  <2>5. \A b \in Bundles : ~Split(b)
    BY <1>1, <2>3, <2>4 DEF Gathered
  <2> QED BY <1>1, <2>2, <2>5, QuietKept
<1>3. CASE pass.dst = "rejected" /\ pass.back = "drain"
  <2>1. pass' = [pass EXCEPT !.pc = "drain", !.queue = {}, !.again = {}]
    BY <1>3 DEF MoveFails
  <2>2. /\ pass'.pc = "drain" /\ pass'.fresh = pass.fresh /\ pass'.at = pass.at
        /\ pass'.dst = "rejected" /\ pass'.queue = {} /\ pass'.again = {}
    BY <1>1, <1>3, <2>1 DEF Passes
  <2>3. \A b \in Bundles : Split(b)' => b = pass.at
    BY <1>1, <1>3, <2>2, SplitSame DEF Gathered
  <2> QED BY <2>2, <2>3 DEF Gathered, Moved
<1>4. CASE pass.dst # "imported" /\ ~(pass.dst = "rejected" /\ pass.back = "drain")
  <2>1. pass' = NoPass
    BY <1>4 DEF MoveFails
  <2> QED BY <2>1, IdleKept
<1> QED BY <1>2, <1>3, <1>4

(* Another round is drained only if nothing failed.                         *)
LEMMA NextRoundKept == ASSUME Inv, Gathered, NextRound PROVE Gathered' /\ Moved'
<1>1. /\ UNCHANGED <<landing, quarantine, mem>> /\ \A b \in Bundles : ~Split(b)
      /\ pass'.pc = "drain" /\ pass'.fresh = pass.fresh
  BY DEF NextRound, Gathered, dirs, counters, Inv, TypeOK, Passes
<1> QED BY <1>1, QuietKept

(* Reaping leaves nothing of a set in landing, so no pieces of it.          *)
LEMMA ReapKept ==
  ASSUME Inv, Gathered, NEW b \in Bundles, ReapIncomplete(b)
  PROVE  Gathered' /\ Moved'
<1>1. UNCHANGED <<quarantine, mem, pass>> /\ pass.pc = "drain"
  BY DEF ReapIncomplete, counters
<1>2. PICK s \in Streams, n \in Seqs : b = <<s, n>>
  BY DEF Bundles
<1>3. \A t \in Streams, m \in Seqs :
        landing'[t][m] = IF t = s /\ m = n THEN Empty ELSE landing[t][m]
  BY <1>2 DEF ReapIncomplete, Inv, TypeOK
<1>4. ASSUME NEW c \in Bundles, Split(c)' PROVE Split(c)
  <2>1. PICK t \in Streams, m \in Seqs : c = <<t, m>>
    BY DEF Bundles
  <2>2. CASE t = s /\ m = n
    BY <1>1, <1>3, <1>4, <2>1, <2>2 DEF Split, Spread, Complete, Empty
  <2>3. CASE ~(t = s /\ m = n)
    BY <1>1, <1>3, <1>4, <2>1, <2>3 DEF Split, Spread, Complete
  <2> QED BY <2>2, <2>3
<1> QED BY <1>1, <1>4 DEF Gathered, Moved

(* Every step keeps what the reaper relies on.                              *)
LEMMA NextKept ==
  ASSUME Inv, Gathered, Moved, [Next]_vars
  PROVE  Gathered' /\ Moved'
<1>1. ASSUME NEW s \in Streams, NEW n \in Seqs, NEW x \in Suffixes,
             ArriveGood(s, n, x) \/ ArriveBad(s, n, x)
      PROVE  Gathered' /\ Moved'
  BY <1>1, ArriveKept DEF ArriveGood, ArriveBad
<1>2. CASE PassStep
  <2>1. CASE StartPass
    BY <2>1, StartPassKept
  <2>2. CASE \E b \in Bundles : SortBundle(b) \/ SweepBundle(b)
    BY <2>2, SortBundleKept, SweepBundleKept
  <2>3. CASE MoveFile
    BY <2>3, MoveFileKept
  <2>4. CASE StartSweep
    BY <2>4, StartSweepKept
  <2>5. CASE StartDrain
    BY <2>5, StartDrainKept
  <2>6. CASE \E s \in Streams : StartTurn(s)
    BY <2>6, StartTurnKept
  <2>7. CASE VerifyManifest
    BY <2>7, CheckKept DEF VerifyManifest
  <2>8. CASE Extract
    BY <2>8, CheckKept DEF Extract
  <2>9. CASE Install
    BY <2>9, InstallKept
  <2>10. CASE Commit
    BY <2>10, CommitKept
  <2>11. CASE NextRound
    BY <2>11, NextRoundKept
  <2>12. CASE EndPass
    BY <2>12, IdleKept DEF EndPass
  <2> QED BY <1>2, <2>1, <2>2, <2>3, <2>4, <2>5, <2>6, <2>7, <2>8, <2>9, <2>10, <2>11, <2>12
          DEF PassStep
<1>3. CASE CommitFails
  BY <1>3, TurnEndsKept DEF CommitFails, dirs
<1>4. CASE TurnFails
  BY <1>4, TurnEndsKept DEF TurnFails, dirs, counters
<1>5. CASE MoveFails
  BY <1>5, MoveFailsKept
<1>6. CASE \E b \in Bundles : ReapIncomplete(b)
  BY <1>6, ReapKept
<1>7. CASE Restart
  BY <1>7, IdleKept DEF Restart
<1>8. CASE UNCHANGED vars
  <2>1. UNCHANGED <<landing, quarantine, mem, pass>>
    BY <1>8 DEF vars
  <2>2. \A b \in Bundles : Split(b)' = Split(b)
    BY <2>1, SplitSame
  <2> QED BY <2>1, <2>2 DEF Gathered, Moved
<1> QED BY <1>1, <1>2, <1>3, <1>4, <1>5, <1>6, <1>7, <1>8 DEF Next

(* One step of the importer leaves a whole bundle whole, imports it, or is   *)
(* one of the two exceptions FutureBundleKept names.                        *)
LEMMA BundleKept ==
  ASSUME Inv, Gathered, Moved, [Next]_vars,
         NEW b \in Bundles, Held(b), b[2] > disk[b[1]], ~Unreachable(b)
  PROVE  \/ Held(b)'
         \/ b[2] <= disk'[b[1]]
         \/ pass.at = b /\ pass.dst = "rejected"
         \/ \E x \in Suffixes : landing'[b[1]][b[2]][x] = "bad"
<1>1. PICK s \in Streams, n \in Seqs : b = <<s, n>>
  BY DEF Bundles
<1>2. /\ \A x \in Suffixes : landing[s][n][x] = "good" \/ quarantine[s][n][x] = "good"
      /\ \A x \in Suffixes : landing[s][n][x] # "bad" /\ quarantine[s][n][x] # "bad"
      /\ \A x \in Suffixes : landing[s][n][x] \in {"none", "good"}
      /\ \A x \in Suffixes : quarantine[s][n][x] \in {"none", "good"}
  BY <1>1 DEF Held, Inv, TypeOK, Artifacts
<1>3. s \in Supported /\ n > mem[s]
  <2>1. n > disk[s] /\ mem[s] <= disk[s] /\ mem[s] \in Int /\ disk[s] \in Int /\ n \in Int
    BY <1>1 DEF Inv, TypeOK, CountersOrdered, Seqs
  <2>2. s \in Supported
    BY <1>1 DEF Unreachable
  <2> QED BY <2>1, <2>2
<1>4. CASE UNCHANGED <<landing, quarantine>>
  BY <1>4 DEF Held
<1>5. ASSUME NEW t \in Streams, NEW m \in Seqs, NEW x \in Suffixes, NEW v \in {"good", "bad"},
             Arrive(t, m, x, v)
      PROVE  Held(b)' \/ \E y \in Suffixes : landing'[s][n][y] = "bad"
  <2>1. /\ quarantine' = quarantine
        /\ \A y \in Suffixes :
             landing'[s][n][y] = IF t = s /\ m = n /\ y = x THEN v ELSE landing[s][n][y]
    BY <1>5 DEF Arrive, Inv, TypeOK, Artifacts
  <2> QED BY <1>1, <1>2, <2>1 DEF Held
<1>6. CASE MoveFile
  <2>1. PICK t \in Streams, m \in Seqs, x \in Suffixes,
             u \in {"none", "good", "bad"}, w \in {"none", "good", "bad"} :
          /\ pass.at = <<t, m>> /\ x = SuffixOrder[pass.next]
          /\ landing' = [landing EXCEPT ![t][m][x] = u]
          /\ quarantine' = [quarantine EXCEPT ![t][m][x] = w]
          /\ pass.src = "landing" /\ pass.dst = "quarantine" =>
               \/ u = landing[t][m][x] /\ w = quarantine[t][m][x] /\ (u = "none" \/ w # "none")
               \/ u = "none" /\ w = landing[t][m][x] /\ w # "none"
          /\ pass.src = "landing" /\ pass.dst # "quarantine" /\ ~pass.resume =>
               u = "none" /\ w = quarantine[t][m][x]
          /\ pass.src = "quarantine" /\ pass.dst # "quarantine" /\ ~pass.resume =>
               u = landing[t][m][x] /\ w = "none"
    BY <1>6, MoveCell
  <2>2. \A y \in Suffixes :
          /\ landing'[s][n][y] = IF t = s /\ m = n /\ y = x THEN u ELSE landing[s][n][y]
          /\ quarantine'[s][n][y] = IF t = s /\ m = n /\ y = x THEN w ELSE quarantine[s][n][y]
    BY <2>1 DEF Inv, TypeOK, Artifacts
  <2>3. CASE ~(t = s /\ m = n)
    BY <1>1, <1>2, <2>2, <2>3 DEF Held
  <2>4. CASE t = s /\ m = n
    <3>1. pass.pc = "move" /\ pass.dst \in {"quarantine", "duplicates", "rejected", "imported"}
          /\ pass.at[2] = n /\ pass.at[1] = s
      BY <1>6, <2>1, <2>4, PassFacts DEF MoveFile, Passes
    <3>2. pass.dst # "duplicates" /\ pass.dst # "imported"
      <4>1. mem[s] \in Int /\ n \in Int
        BY DEF Inv, TypeOK, Seqs
      <4> QED BY <1>3, <3>1, <4>1 DEF Inv, PassSound, Moved
    <3>3. CASE pass.dst = "quarantine"
      <4>1. pass.src = "landing"
        BY <3>1, <3>3 DEF Moved
      <4>2. \A y \in Suffixes :
              /\ landing'[s][n][y] = "good" \/ quarantine'[s][n][y] = "good"
              /\ landing'[s][n][y] # "bad" /\ quarantine'[s][n][y] # "bad"
        BY <1>2, <2>1, <2>2, <2>4, <3>3, <4>1
      <4> QED BY <1>1, <4>2 DEF Held
    <3>4. CASE pass.dst = "rejected"
      BY <1>1, <2>1, <2>4, <3>4
    <3> QED BY <3>1, <3>2, <3>3, <3>4
  <2> QED BY <2>3, <2>4
<1>7. ASSUME NEW c \in Bundles, ReapIncomplete(c) PROVE Held(b)' \/ (pass.at = b /\ pass.dst = "rejected")
  <2>1. quarantine' = quarantine /\ pass.pc = "drain"
    BY <1>7 DEF ReapIncomplete
  <2>2. PICK t \in Streams, m \in Seqs : c = <<t, m>>
    BY DEF Bundles
  <2>3. landing'[s][n] = IF t = s /\ m = n THEN Empty ELSE landing[s][n]
    BY <1>7, <2>2 DEF ReapIncomplete, Inv, TypeOK
  <2>4. CASE ~(t = s /\ m = n)
    BY <1>1, <1>2, <2>1, <2>3, <2>4 DEF Held
  <2>5. CASE t = s /\ m = n
    <3>1. ~Complete(landing, b) /\ b \notin pass.fresh
      BY <1>1, <1>7, <2>2, <2>5 DEF ReapIncomplete
    <3>2. Spread(b)
      BY <1>1, <1>2 DEF Spread
    <3>3. CASE Split(b)
      BY <2>1, <3>3 DEF Gathered
    <3>4. CASE ~Split(b)
      <4>1. Complete(quarantine, b)
        BY <1>1, <1>3, <3>1, <3>2, <3>4 DEF Split
      <4>2. \A x \in Suffixes : quarantine[s][n][x] = "good"
        BY <1>1, <1>2, <4>1 DEF Complete
      <4> QED BY <1>1, <2>1, <2>3, <2>5, <4>2 DEF Held, Empty
    <3> QED BY <3>3, <3>4
  <2> QED BY <2>4, <2>5
<1>8. \/ UNCHANGED <<landing, quarantine>>
      \/ \E t \in Streams, m \in Seqs, x \in Suffixes, v \in {"good", "bad"} : Arrive(t, m, x, v)
      \/ MoveFile
      \/ \E c \in Bundles : ReapIncomplete(c)
  BY DEF Next, vars, PassStep, ArriveGood, ArriveBad, StartPass, SortBundle, SweepBundle, StartSweep,
         StartDrain, StartTurn, VerifyManifest, Extract, Install, Commit, NextRound, EndPass,
         CommitFails, TurnFails, MoveFails, Restart, dirs
<1> QED BY <1>1, <1>4, <1>5, <1>6, <1>7, <1>8

(* deployment.md's "retained in quarantine, never discarded": through every  *)
(* move, interrupted move, reap and crash.                                  *)
THEOREM FutureBundlesKept == Spec => FutureBundleKept
<1>1. Init => Gathered /\ Moved
  BY DEF Init, NoPass, Gathered, Moved
<1>2. Inv /\ Gathered /\ Moved /\ [Next]_vars => Gathered' /\ Moved'
  BY NextKept
<1> DEFINE Step ==
      \A b \in Bundles :
        Held(b) /\ b[2] > disk[b[1]] /\ ~Unreachable(b) =>
          \/ Held(b)'
          \/ b[2] <= disk'[b[1]]
          \/ pass.at = b /\ pass.dst = "rejected"
          \/ \E x \in Suffixes : landing'[b[1]][b[2]][x] = "bad"
<1>3. Inv /\ Gathered /\ Moved /\ [Next]_vars => Step
  BY BundleKept
<1> QED BY <1>1, <1>2, <1>3, InvAlways, PTL DEF Spec, FutureBundleKept
=============================================================================
