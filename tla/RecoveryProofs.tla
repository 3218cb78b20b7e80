--------------------------- MODULE RecoveryProofs ---------------------------
(***************************************************************************)
(* What retention keeps, for any streams, sequence bound and number of     *)
(* checkpoints, with and without a carrier that drains during a prune.     *)
(*                                                                         *)
(* Neither property is inductive.  Both rest on where an exported bundle   *)
(* can have gone: it is archived, or a journalled plan's cutoff covers it  *)
(* (Held), and on what every plan under review or journalled still means   *)
(* now, after bundles were exported, checkpoints were taken and dropped    *)
(* and the receiver was rebuilt from one of them (Sound, Spared).          *)
(***************************************************************************)
EXTENDS Recovery, FiniteSetTheorems, WellFoundedInduction, TLAPS

Positions == [Streams -> 1 .. MaxSeq + 1]
Ledgers == [next : Positions, pruned : Cursors, missing : BOOLEAN]

(* The plan in the operator's hands and all that were ever applied.          *)
Reviewed == {j.plan : j \in journals} \cup ({plan} \ {NoPlan})

PlanTyped(p) ==
  /\ p.tips \in Cursors /\ p.cutoffs \in Cursors /\ p.boot \in BOOLEAN
  /\ p.candidates \subseteq Streams \X Seqs
  /\ p.ledger \in Ledgers

RecoveryTyped ==
  /\ RecoveryTypeOK
  /\ ledger \in Ledgers
  /\ \A p \in Reviewed : PlanTyped(p)

(* No state knows of a bundle that was never exported.                       *)
Bounded ==
  \A s \in Streams :
    /\ next[s] <= topSeq[s] + 1 /\ ledger.next[s] <= topSeq[s] + 1
    /\ archive[s] \subseteq 1 .. topSeq[s] /\ spool[s] \subseteq 1 .. topSeq[s]

(* A plan prunes exported bundles up to its cutoffs, and records a tip that   *)
(* is no lower.                                                             *)
Sound(p) ==
  /\ \A s \in Streams :
       /\ p.cutoffs[s] <= p.tips[s] /\ p.tips[s] <= topSeq[s]
       /\ p.ledger.next[s] <= topSeq[s] + 1
  /\ \A c \in p.candidates : c[2] <= p.cutoffs[c[1]]

(* What a plan prunes is needed neither by the receiver nor after it is       *)
(* rebuilt from a checkpoint.                                               *)
Spared(p) ==
  ~p.boot => \A s \in Streams :
               p.cutoffs[s] <= received[s] /\ \A cp \in checkpoints : p.cutoffs[s] <= cp[s]

Plans == \A p \in Reviewed : Sound(p) /\ Spared(p)

Held ==
  \A s \in Streams : \A n \in 1 .. topSeq[s] :
    n \in archive[s] \/ \E j \in journals : n <= j.plan.cutoffs[s]

Running == lowUp => LedgerLoads /\ apply.pc = "idle"

Applying ==
  apply.pc # "idle" =>
    /\ plan # NoPlan /\ apply.todo \subseteq plan.candidates
    /\ \E j \in journals : j.plan = plan

RecoveryInv == RecoveryTyped /\ Bounded /\ Plans /\ Held /\ Running /\ Applying

----------------------------------------------------------------------------
(* The least and the greatest element of a set of naturals.                 *)
LEMMA MinOfFacts ==
  ASSUME NEW S \in SUBSET Nat, S # {}
  PROVE  MinOf(S) \in S /\ \A n \in S : MinOf(S) <= n
<1> DEFINE Below(n) == 0 .. n - 1
           T == {Below(n) : n \in S}
<1>1. T \subseteq FiniteSubsetsOf(Nat)
  <2> SUFFICES ASSUME NEW n \in S PROVE Below(n) \in FiniteSubsetsOf(Nat)
    OBVIOUS
  <2>1. n \in Nat /\ n - 1 \in Int /\ Below(n) \in SUBSET Nat
    OBVIOUS
  <2>2. IsFiniteSet(Below(n))
    BY <2>1, FS_Interval
  <2> QED BY <2>1, <2>2 DEF FiniteSubsetsOf
<1>2. T # {}
  OBVIOUS
<1> HIDE DEF T
<1>3. PICK X \in T : \A Y \in T : ~ (<<Y, X>> \in StrictSubsetOrdering(Nat))
  BY <1>1, <1>2, FS_StrictSubsetOrderingWellFounded, WFMin
<1>4. PICK m \in S : X = Below(m)
  BY DEF T
<1>5. ASSUME NEW n \in S PROVE m <= n
  <2> SUFFICES ASSUME n < m PROVE FALSE
    OBVIOUS
  <2>1. Below(n) \in T
    BY DEF T
  <2>2. Below(n) \subseteq X /\ Below(n) # X /\ Below(n) \subseteq Nat /\ X \subseteq Nat
    <3>1. n \in Below(m) /\ n \notin Below(n)
      OBVIOUS
    <3> QED BY <1>4, <3>1
  <2>3. <<Below(n), X>> \in StrictSubsetOrdering(Nat)
    BY <2>2 DEF StrictSubsetOrdering
  <2> QED BY <1>3, <2>1, <2>3
<1>6. \E k \in S : \A n \in S : k <= n
  BY <1>5
<1> QED BY <1>6 DEF MinOf

LEMMA MaxOfFacts ==
  ASSUME NEW S \in SUBSET Nat, S # {}, NEW b \in Nat, \A n \in S : n <= b
  PROVE  MaxOf(S) \in S /\ \A n \in S : n <= MaxOf(S)
<1> DEFINE T == {b - n : n \in S}
<1>1. \A n \in S : b - n \in Nat /\ b - n \in T
  OBVIOUS
<1>2. \A t \in T : \E n \in S : t = b - n
  OBVIOUS
<1> HIDE DEF T
<1>3. T \in SUBSET Nat /\ T # {}
  BY <1>1, <1>2
<1>4. MinOf(T) \in T /\ \A t \in T : MinOf(T) <= t
  BY <1>3, MinOfFacts
<1>5. PICK m \in S : MinOf(T) = b - m
  BY <1>2, <1>4
<1>6. ASSUME NEW n \in S PROVE n <= m
  <2>1. b - m <= b - n
    BY <1>1, <1>4, <1>5
  <2>2. n \in Nat /\ m \in Nat
    OBVIOUS
  <2> QED BY <2>1, <2>2
<1>7. \E k \in S : \A n \in S : n <= k
  BY <1>6
<1> QED BY <1>7 DEF MaxOf

(* The tip, and the number the low side offers next.                        *)
LEMMA TipFacts ==
  ASSUME RecoveryAssumed, RecoveryTyped, Bounded, NEW s \in Streams
  PROVE  /\ Tip(s) \in 0 .. MaxSeq /\ Tip(s) <= topSeq[s]
         /\ ledger.next[s] - 1 <= Tip(s)
         /\ \A n \in archive[s] : n <= Tip(s)
<1> DEFINE S == {next[s] - 1, ledger.next[s] - 1, 0} \cup archive[s]
<1>1. /\ next[s] \in 1 .. MaxSeq + 1 /\ ledger.next[s] \in 1 .. MaxSeq + 1
      /\ archive[s] \subseteq 1 .. topSeq[s] /\ topSeq[s] \in 0 .. MaxSeq
      /\ next[s] <= topSeq[s] + 1 /\ ledger.next[s] <= topSeq[s] + 1
  BY DEF RecoveryTyped, RecoveryTypeOK, Bounded, Cursors
<1>2. S \in SUBSET Nat /\ S # {} /\ \A n \in S : n <= topSeq[s]
  BY <1>1 DEF RecoveryAssumed
<1>3. next[s] - 1 \in S /\ ledger.next[s] - 1 \in S /\ archive[s] \subseteq S
  OBVIOUS
<1>4. Tip(s) = MaxOf(S)
  BY DEF Tip
<1> HIDE DEF S
<1>5. topSeq[s] \in Nat
  BY <1>1 DEF RecoveryAssumed
<1>6. MaxOf(S) \in S /\ \A n \in S : n <= MaxOf(S)
  BY <1>2, <1>5, MaxOfFacts
<1>7. Tip(s) \in Nat /\ Tip(s) <= topSeq[s]
  BY <1>2, <1>4, <1>6
<1>8. Tip(s) \in 0 .. MaxSeq
  BY <1>1, <1>7 DEF RecoveryAssumed
<1>9. ledger.next[s] - 1 <= Tip(s) /\ \A n \in archive[s] : n <= Tip(s)
  BY <1>3, <1>4, <1>6
<1> QED BY <1>7, <1>8, <1>9

LEMMA EvidenceReaches ==
  ASSUME RecoveryAssumed, RecoveryInv, LedgerLoads, NEW s \in Streams, topSeq[s] # 0,
         topSeq[s] \notin archive[s]
  PROVE  ledger.next[s] > topSeq[s]
<1>1. topSeq[s] \in 1 .. topSeq[s] /\ topSeq[s] \in 0 .. MaxSeq /\ ledger.next[s] \in 1 .. MaxSeq + 1
  BY DEF RecoveryInv, RecoveryTyped, RecoveryTypeOK, Cursors, RecoveryAssumed
<1>2. PICK j \in journals : topSeq[s] <= j.plan.cutoffs[s]
  BY <1>1 DEF RecoveryInv, Held
<1>3. /\ j.plan \in Reviewed
      /\ j.plan.cutoffs[s] \in 0 .. MaxSeq /\ j.plan.tips[s] \in 0 .. MaxSeq
      /\ j.plan.cutoffs[s] <= j.plan.tips[s]
  BY DEF RecoveryInv, RecoveryTyped, PlanTyped, Plans, Sound, Reviewed, Cursors
<1>4. ledger.next[s] > j.plan.tips[s]
  BY DEF LedgerLoads
<1> QED BY <1>1, <1>2, <1>3, <1>4 DEF RecoveryAssumed

LEMMA TipIsExported ==
  ASSUME RecoveryAssumed, RecoveryInv, LedgerLoads, NEW s \in Streams
  PROVE  Tip(s) = topSeq[s]
<1>1. /\ Tip(s) \in 0 .. MaxSeq /\ Tip(s) <= topSeq[s] /\ ledger.next[s] - 1 <= Tip(s)
      /\ \A n \in archive[s] : n <= Tip(s)
  BY TipFacts DEF RecoveryInv
<1>2. topSeq[s] \in 0 .. MaxSeq /\ ledger.next[s] \in 1 .. MaxSeq + 1
  BY DEF RecoveryInv, RecoveryTyped, RecoveryTypeOK, Cursors
<1>3. CASE topSeq[s] = 0
  BY <1>1, <1>2, <1>3 DEF RecoveryAssumed
<1>4. CASE topSeq[s] \in archive[s]
  BY <1>1, <1>2, <1>4 DEF RecoveryAssumed
<1>5. CASE topSeq[s] # 0 /\ topSeq[s] \notin archive[s]
  <2>1. ledger.next[s] > topSeq[s]
    BY <1>5, EvidenceReaches
  <2> QED BY <1>1, <1>2, <2>1 DEF RecoveryAssumed
<1> QED BY <1>3, <1>4, <1>5

LEMMA NextFreeFacts ==
  ASSUME RecoveryAssumed, RecoveryInv, NEW s \in Streams
  PROVE  /\ NextFree(s) \in 1 .. MaxSeq + 1 /\ NextFree(s) <= topSeq[s] + 1
         /\ lowUp => NextFree(s) > topSeq[s]
<1> DEFINE S == {next[s], ledger.next[s]} \cup {n + 1 : n \in archive[s] \cup spool[s]}
<1>1. /\ next[s] \in 1 .. MaxSeq + 1 /\ ledger.next[s] \in 1 .. MaxSeq + 1
      /\ archive[s] \subseteq 1 .. topSeq[s] /\ spool[s] \subseteq 1 .. topSeq[s]
      /\ topSeq[s] \in 0 .. MaxSeq
      /\ next[s] <= topSeq[s] + 1 /\ ledger.next[s] <= topSeq[s] + 1
  BY DEF RecoveryInv, RecoveryTyped, RecoveryTypeOK, Bounded, Cursors
<1>2. S \in SUBSET (Nat \ {0}) /\ S # {} /\ \A n \in S : n <= topSeq[s] + 1
  BY <1>1 DEF RecoveryAssumed
<1>3. MaxOf(S) \in S /\ \A n \in S : n <= MaxOf(S)
  <2>1. S \in SUBSET Nat /\ topSeq[s] + 1 \in Nat
    BY <1>1, <1>2 DEF RecoveryAssumed
  <2> HIDE DEF S
  <2> QED BY <1>2, <2>1, MaxOfFacts
<1>4. NextFree(s) = MaxOf(S)
  BY DEF NextFree
<1>5. /\ next[s] \in S /\ ledger.next[s] \in S
      /\ topSeq[s] \in archive[s] => topSeq[s] + 1 \in S
  OBVIOUS
<1> HIDE DEF S
<1>6. NextFree(s) \in 1 .. MaxSeq + 1 /\ NextFree(s) <= topSeq[s] + 1
  <2>1. NextFree(s) \in Nat \ {0} /\ NextFree(s) <= topSeq[s] + 1
    BY <1>2, <1>3, <1>4
  <2> QED BY <1>1, <2>1 DEF RecoveryAssumed
<1>7. ASSUME lowUp PROVE NextFree(s) > topSeq[s]
  <2>1. CASE topSeq[s] = 0
    BY <1>6, <2>1
  <2>2. CASE topSeq[s] \in archive[s]
    <3>1. topSeq[s] + 1 <= NextFree(s)
      BY <1>3, <1>4, <1>5, <2>2
    <3> QED BY <1>1, <1>6, <3>1 DEF RecoveryAssumed
  <2>3. CASE topSeq[s] # 0 /\ topSeq[s] \notin archive[s]
    <3>1. ledger.next[s] > topSeq[s]
      BY <1>7, <2>3, EvidenceReaches DEF RecoveryInv, Running
    <3>2. ledger.next[s] <= NextFree(s)
      BY <1>3, <1>4, <1>5
    <3> QED BY <1>1, <1>6, <3>1, <3>2 DEF RecoveryAssumed
  <2> QED BY <2>1, <2>2, <2>3
<1> QED BY <1>6, <1>7

----------------------------------------------------------------------------
(* The cutoffs of a plan made now.                                          *)
LEMMA ConfirmedFacts ==
  ASSUME RecoveryAssumed, RecoveryTyped, Bounded, NEW s \in Streams, NEW known \in SUBSET Streams, NEW boot \in BOOLEAN
  PROVE  /\ Confirmed(s, Floors(known), boot) \in 0 .. Tip(s)
         /\ ~boot => /\ Confirmed(s, Floors(known), boot) <= received[s]
                     /\ \A cp \in checkpoints : Confirmed(s, Floors(known), boot) <= cp[s]
<1> DEFINE S == {Tip(s)} \cup {cp[s] : cp \in checkpoints} \cup (IF s \in known THEN {received[s]} ELSE {})
<1>1. /\ Tip(s) \in 0 .. MaxSeq /\ received[s] \in 0 .. MaxSeq
      /\ \A cp \in checkpoints : cp[s] \in 0 .. MaxSeq
  BY TipFacts DEF RecoveryTyped, RecoveryTypeOK, Cursors
<1>2. S \in SUBSET Nat /\ S # {}
  BY <1>1
<1>3. MinOf(S) \in S /\ \A n \in S : MinOf(S) <= n
  BY <1>2, MinOfFacts
<1>4. /\ Tip(s) \in S /\ \A cp \in checkpoints : cp[s] \in S
      /\ s \in known => received[s] \in S
  OBVIOUS
<1>5. /\ DOMAIN Floors(known) = known
      /\ s \in known => Floors(known)[s] = received[s]
  BY DEF Floors
<1>6. S = {Tip(s)} \cup {cp[s] : cp \in checkpoints}
            \cup (IF s \in DOMAIN Floors(known) THEN {Floors(known)[s]} ELSE {})
  BY <1>5
<1>7. CASE MetadataPending(s) \/ (s \notin known /\ ~boot)
  <2>1. Confirmed(s, Floors(known), boot) = 0
    BY <1>5, <1>7 DEF Confirmed
  <2> QED BY <1>1, <2>1 DEF RecoveryAssumed
<1>8. CASE ~(MetadataPending(s) \/ (s \notin known /\ ~boot))
  <2>1. Confirmed(s, Floors(known), boot) = MinOf(S)
    BY <1>5, <1>6, <1>8 DEF Confirmed
  <2> HIDE DEF S
  <2>2. MinOf(S) \in Nat
    BY <1>2, <1>3
  <2> QED BY <1>1, <1>3, <1>4, <1>8, <2>1, <2>2 DEF RecoveryAssumed
<1> QED BY <1>7, <1>8

LEMMA CutoffFacts ==
  ASSUME RecoveryAssumed, RecoveryTyped, Bounded, NEW s \in Streams, NEW known \in SUBSET Streams, NEW boot \in BOOLEAN
  PROVE  /\ Cutoff(s, Floors(known), boot) \in 0 .. Tip(s)
         /\ ~boot => /\ Cutoff(s, Floors(known), boot) <= received[s]
                     /\ \A cp \in checkpoints : Cutoff(s, Floors(known), boot) <= cp[s]
<1> DEFINE c == Confirmed(s, Floors(known), boot)
           S == {c} \cup {n - 1 : n \in {m \in spool[s] : m <= c}}
<1>1. /\ c \in 0 .. Tip(s)
      /\ ~boot => c <= received[s] /\ \A cp \in checkpoints : c <= cp[s]
  BY ConfirmedFacts
<1>2. /\ Tip(s) \in 0 .. MaxSeq /\ received[s] \in 0 .. MaxSeq
      /\ \A cp \in checkpoints : cp[s] \in 0 .. MaxSeq
      /\ spool[s] \subseteq 1 .. MaxSeq
  BY TipFacts DEF RecoveryTyped, RecoveryTypeOK, Cursors, Seqs
<1>3. Cutoff(s, Floors(known), boot) = MinOf(S)
  BY DEF Cutoff
<1> HIDE DEF c
<1>4. S \in SUBSET Nat /\ S # {} /\ c \in S
  BY <1>1, <1>2 DEF RecoveryAssumed
<1>5. MinOf(S) \in S /\ MinOf(S) <= c
  BY <1>4, MinOfFacts
<1>6. MinOf(S) \in Nat
  BY <1>4, <1>5
<1> HIDE DEF S
<1> QED BY <1>1, <1>2, <1>3, <1>5, <1>6 DEF RecoveryAssumed

LEMMA PlanFacts ==
  ASSUME RecoveryAssumed, RecoveryTyped, Bounded, NEW known \in SUBSET Streams, NEW boot \in BOOLEAN
  PROVE  LET p == PlanOf(Floors(known), boot) IN PlanTyped(p) /\ Sound(p) /\ Spared(p)
<1> DEFINE p == PlanOf(Floors(known), boot)
<1>1. /\ p.tips = [s \in Streams |-> Tip(s)]
      /\ p.cutoffs = [s \in Streams |-> Cutoff(s, Floors(known), boot)]
      /\ p.boot = boot /\ p.ledger = ledger
      /\ p.candidates = {c \in Streams \X Seqs : c[2] \in archive[c[1]] /\ c[2] <= p.cutoffs[c[1]]}
  BY DEF PlanOf, Tips
<1>2. \A s \in Streams :
        /\ p.tips[s] \in 0 .. MaxSeq /\ p.tips[s] <= topSeq[s]
        /\ p.cutoffs[s] \in 0 .. p.tips[s]
        /\ ~boot => p.cutoffs[s] <= received[s] /\ \A cp \in checkpoints : p.cutoffs[s] <= cp[s]
  BY <1>1, TipFacts, CutoffFacts
<1> HIDE DEF p
<1>3. PlanTyped(p)
  <2>1. p.tips \in Cursors /\ p.cutoffs \in Cursors
    BY <1>1, <1>2 DEF Cursors, RecoveryAssumed
  <2> QED BY <1>1, <2>1 DEF PlanTyped, RecoveryTyped
<1>4. Sound(p)
  BY <1>1, <1>2 DEF Sound, Bounded
<1>5. Spared(p)
  BY <1>1, <1>2 DEF Spared
<1> QED BY <1>3, <1>4, <1>5 DEF p

----------------------------------------------------------------------------
(* Steps that let the exporter only advance, bring no plan and lower neither  *)
(* the receiver nor the checkpoints below what plans spare.                  *)
LEMMA PlansKeep ==
  ASSUME RecoveryInv, RecoveryAssumed,
         Reviewed' \subseteq Reviewed,
         topSeq \in Cursors, topSeq' \in Cursors,
         \A s \in Streams : topSeq[s] <= topSeq'[s],
         \A p \in Reviewed, s \in Streams :
           ~p.boot => /\ p.cutoffs[s] <= received'[s]
                      /\ \A cp \in checkpoints' : p.cutoffs[s] <= cp[s]
  PROVE  Plans' /\ \A p \in Reviewed' : PlanTyped(p)
<1> SUFFICES ASSUME NEW p \in Reviewed
             PROVE  Sound(p)' /\ Spared(p)' /\ PlanTyped(p)
  BY DEF Plans
<1>1. Sound(p) /\ PlanTyped(p)
  BY DEF RecoveryInv, RecoveryTyped, Plans
<1>2. ASSUME NEW s \in Streams
      PROVE  /\ p.cutoffs[s] \in 0 .. MaxSeq /\ p.tips[s] \in 0 .. MaxSeq
             /\ p.ledger.next[s] \in 1 .. MaxSeq + 1
             /\ topSeq[s] \in 0 .. MaxSeq /\ topSeq'[s] \in 0 .. MaxSeq
             /\ topSeq[s] <= topSeq'[s]
  BY <1>1 DEF PlanTyped, Cursors, Ledgers, Positions
<1>3. Sound(p)'
  BY <1>1, <1>2 DEF Sound, RecoveryAssumed
<1> QED BY <1>1, <1>3 DEF Spared

(* Steps that leave the plans, what was exported and what is needed alone.    *)
LEMMA PlansStay ==
  ASSUME RecoveryInv, RecoveryAssumed, Reviewed' \subseteq Reviewed, UNCHANGED <<topSeq, received>>,
         checkpoints' \subseteq checkpoints
  PROVE  Plans' /\ \A p \in Reviewed' : PlanTyped(p)
<1>1. \A s \in Streams : topSeq[s] \in 0 .. MaxSeq
  BY DEF RecoveryInv, RecoveryTyped, RecoveryTypeOK, Cursors
<1>2. \A s \in Streams : topSeq[s] <= topSeq'[s]
  BY <1>1 DEF RecoveryAssumed
<1>3. \A p \in Reviewed, s \in Streams :
        ~p.boot => /\ p.cutoffs[s] <= received'[s]
                   /\ \A cp \in checkpoints' : p.cutoffs[s] <= cp[s]
  BY DEF RecoveryInv, Plans, Spared
<1> QED BY <1>2, <1>3, PlansKeep DEF RecoveryInv, RecoveryTyped, RecoveryTypeOK

LEMMA SameReviewed ==
  ASSUME UNCHANGED <<journals, plan>>
  PROVE  Reviewed' = Reviewed
BY DEF Reviewed

LEMMA RecoveryStart ==
  ASSUME RecoveryAssumed, RecoveryInit
  PROVE  RecoveryInv
<1>1. Reviewed = {}
  BY DEF RecoveryInit, Reviewed
<1>2. RecoveryTyped
  <2>1. NoLedger \in Ledgers
    BY DEF NoLedger, Ledgers, Positions, Cursors, RecoveryAssumed
  <2>2. ledger.next \in [Streams -> 1 .. MaxSeq + 1] /\ ledger.pruned \in Cursors
    BY <2>1 DEF RecoveryInit, Ledgers, Positions
  <2>3. 1 \in 1 .. MaxSeq + 1 /\ [s \in Streams |-> 0] \in Cursors
    BY DEF Cursors, RecoveryAssumed
  <2>4. RecoveryTypeOK
    BY <2>2, <2>3 DEF RecoveryInit, RecoveryTypeOK, Idle
  <2> QED BY <1>1, <2>1, <2>4 DEF RecoveryInit, RecoveryTyped
<1>3. Bounded
  BY DEF RecoveryInit, Bounded, NoLedger
<1>4. Held
  BY DEF RecoveryInit, Held
<1> QED BY <1>1, <1>2, <1>3, <1>4 DEF RecoveryInit, RecoveryInv, Plans, Running, Applying, Idle

----------------------------------------------------------------------------
(* The low side's steps.                                                    *)
LEMMA LowRootKeeps ==
  ASSUME RecoveryAssumed, RecoveryInv,
         StartLow \/ StopLow \/ CrashApply
  PROVE  RecoveryInv'
<1>1. UNCHANGED <<next, archive, packing, ledger, journals, spool, checkpoints, received, plan, topSeq>>
  BY DEF StartLow, StopLow, CrashApply, root, outside
<1>2. Reviewed' = Reviewed
  BY <1>1, SameReviewed
<1>3. Plans' /\ \A p \in Reviewed' : PlanTyped(p)
  BY <1>1, <1>2, PlansStay
<1>4. RecoveryTyped'
  <2>1. lowUp' \in BOOLEAN /\ apply' \in {apply, Idle}
    BY DEF StartLow, StopLow, CrashApply, RecoveryInv, RecoveryTyped, RecoveryTypeOK
  <2>2. RecoveryTypeOK'
    BY <1>1, <2>1 DEF RecoveryInv, RecoveryTyped, RecoveryTypeOK, Idle
  <2> QED BY <1>1, <1>3, <2>2 DEF RecoveryInv, RecoveryTyped
<1>5. Bounded' /\ Held'
  BY <1>1 DEF RecoveryInv, Bounded, Held
<1>6. Running'
  BY <1>1 DEF RecoveryInv, Running, StartLow, StopLow, CrashApply, LedgerLoads, LockFree, Idle
<1>7. Applying'
  BY <1>1 DEF RecoveryInv, Applying, StartLow, StopLow, CrashApply, Idle
<1> QED BY <1>3, <1>4, <1>5, <1>6, <1>7 DEF RecoveryInv

LEMMA ExportKeeps ==
  ASSUME RecoveryAssumed, RecoveryInv, NEW s \in Streams, NEW part \in BOOLEAN, ExportBundle(s, part)
  PROVE  RecoveryInv'
<1> DEFINE n == NextFree(s)
<1>0. /\ lowUp /\ n <= MaxSeq
      /\ archive' = [archive EXCEPT ![s] = @ \cup {n}]
      /\ spool' = [spool EXCEPT ![s] = @ \cup {n}]
      /\ next' = [next EXCEPT ![s] = n + 1]
      /\ topSeq' = [topSeq EXCEPT ![s] = n]
      /\ packing' \in {packing \cup {s}, packing \ {s}}
      /\ UNCHANGED <<lowUp, ledger, journals, checkpoints, received, plan, apply>>
  BY DEF ExportBundle
<1>1. n \in 1 .. MaxSeq /\ n <= topSeq[s] + 1 /\ n > topSeq[s]
  BY <1>0, NextFreeFacts DEF RecoveryAssumed
<1> HIDE DEF n
<1>2. /\ next \in [Streams -> 1 .. MaxSeq + 1] /\ topSeq \in Cursors
      /\ archive \in [Streams -> SUBSET Seqs] /\ spool \in [Streams -> SUBSET Seqs]
  BY DEF RecoveryInv, RecoveryTyped, RecoveryTypeOK
<1>3. n = topSeq[s] + 1
  BY <1>1, <1>2 DEF Cursors, RecoveryAssumed
<1>4. topSeq' \in Cursors /\ \A t \in Streams : topSeq[t] <= topSeq'[t]
  BY <1>0, <1>1, <1>2 DEF Cursors, RecoveryAssumed
<1>5. Reviewed' = Reviewed
  BY <1>0, SameReviewed
<1>6. Plans' /\ \A p \in Reviewed' : PlanTyped(p)
  <2>1. \A p \in Reviewed, t \in Streams :
          ~p.boot => /\ p.cutoffs[t] <= received'[t]
                     /\ \A cp \in checkpoints' : p.cutoffs[t] <= cp[t]
    BY <1>0 DEF RecoveryInv, Plans, Spared
  <2> QED BY <1>2, <1>4, <1>5, <2>1, PlansKeep
<1>7. RecoveryTyped'
  <2>1. n \in Seqs /\ n + 1 \in 1 .. MaxSeq + 1
    BY <1>1 DEF Seqs, RecoveryAssumed
  <2>2. next' \in [Streams -> 1 .. MaxSeq + 1]
    BY <1>0, <1>2, <2>1
  <2>3. archive' \in [Streams -> SUBSET Seqs] /\ spool' \in [Streams -> SUBSET Seqs]
    BY <1>0, <1>2, <2>1
  <2>4. packing' \subseteq Streams
    BY <1>0 DEF RecoveryInv, RecoveryTyped, RecoveryTypeOK
  <2> QED BY <1>0, <1>4, <1>6, <2>2, <2>3, <2>4 DEF RecoveryInv, RecoveryTyped, RecoveryTypeOK
<1>8. Bounded'
  <2> SUFFICES ASSUME NEW t \in Streams
               PROVE  /\ next'[t] <= topSeq'[t] + 1 /\ ledger.next[t] <= topSeq'[t] + 1
                      /\ archive'[t] \subseteq 1 .. topSeq'[t] /\ spool'[t] \subseteq 1 .. topSeq'[t]
    BY <1>0 DEF Bounded
  <2>1. CASE t # s
    BY <1>0, <1>2, <2>1 DEF RecoveryInv, Bounded, Cursors
  <2>2. CASE t = s
    <3>1. /\ next'[s] = n + 1 /\ topSeq'[s] = n
          /\ archive'[s] = archive[s] \cup {n} /\ spool'[s] = spool[s] \cup {n}
      BY <1>0, <1>2 DEF Cursors
    <3>2. ledger.next[s] <= topSeq[s] + 1 /\ ledger.next[s] \in 1 .. MaxSeq + 1 /\ topSeq[s] \in 0 .. MaxSeq
      BY <1>2 DEF RecoveryInv, Bounded, RecoveryTyped, RecoveryTypeOK, Cursors
    <3>3. archive[s] \subseteq 1 .. topSeq[s] /\ spool[s] \subseteq 1 .. topSeq[s]
      BY DEF RecoveryInv, Bounded
    <3> QED BY <1>1, <1>3, <2>2, <3>1, <3>2, <3>3 DEF RecoveryAssumed
  <2> QED BY <2>1, <2>2
<1>9. Held'
  <2> SUFFICES ASSUME NEW t \in Streams, NEW m \in 1 .. topSeq'[t]
               PROVE  m \in archive'[t] \/ \E j \in journals : m <= j.plan.cutoffs[t]
    BY <1>0 DEF Held
  <2>1. CASE m \in 1 .. topSeq[t]
    BY <1>0, <1>2, <2>1 DEF RecoveryInv, Held
  <2>2. CASE m \notin 1 .. topSeq[t]
    <3>1. t = s /\ topSeq'[s] = n
      BY <1>0, <1>2, <2>2 DEF Cursors
    <3>2. m = n
      BY <1>2, <1>3, <2>2, <3>1 DEF Cursors, RecoveryAssumed
    <3> QED BY <1>0, <1>2, <3>1, <3>2
  <2> QED BY <2>1, <2>2
<1>10. Running' /\ Applying'
  BY <1>0 DEF RecoveryInv, Running, Applying, LedgerLoads
<1> QED BY <1>6, <1>7, <1>8, <1>9, <1>10 DEF RecoveryInv

(* The operator restores an older state file or loses the ledger; bundles     *)
(* appear in and leave the spool; the receiver moves.                        *)
LEMMA OperatorKeeps ==
  ASSUME RecoveryAssumed, RecoveryInv,
         \/ \E s \in Streams, n \in Seqs : RollBackState(s, n)
         \/ LoseLedger
  PROVE  RecoveryInv'
<1>1. /\ UNCHANGED <<lowUp, archive, packing, journals, spool, checkpoints, received, plan, apply, topSeq>>
      /\ ~lowUp
  BY DEF RollBackState, LoseLedger, outside, LockFree
<1>2. Plans' /\ \A p \in Reviewed' : PlanTyped(p)
  BY <1>1, SameReviewed, PlansStay
<1>3. Held' /\ Running' /\ Applying'
  BY <1>1 DEF RecoveryInv, Held, Running, Applying
<1>4. /\ next \in [Streams -> 1 .. MaxSeq + 1] /\ topSeq \in Cursors
      /\ \A s \in Streams : next[s] <= topSeq[s] + 1
  BY DEF RecoveryInv, RecoveryTyped, RecoveryTypeOK, Bounded
<1>5. CASE LoseLedger
  <2>1. ledger' = NoLedger /\ next' = next
    BY <1>5 DEF LoseLedger
  <2>2. NoLedger \in Ledgers
    BY DEF NoLedger, Ledgers, Positions, Cursors, RecoveryAssumed
  <2>3. RecoveryTyped'
    BY <1>1, <1>2, <2>1, <2>2 DEF RecoveryInv, RecoveryTyped, RecoveryTypeOK, Ledgers, Positions
  <2>4. Bounded'
    <3>1. \A s \in Streams : ledger'.next[s] = 1 /\ topSeq[s] \in 0 .. MaxSeq
      BY <1>4, <2>1 DEF NoLedger, Cursors
    <3>2. \A s \in Streams : ledger'.next[s] <= topSeq[s] + 1
      BY <3>1 DEF RecoveryAssumed
    <3> QED BY <1>1, <2>1, <3>2 DEF RecoveryInv, Bounded
  <2> QED BY <1>2, <1>3, <2>3, <2>4 DEF RecoveryInv
<1>6. ASSUME NEW s \in Streams, NEW n \in Seqs, RollBackState(s, n)
      PROVE  RecoveryInv'
  <2>1. next' = [next EXCEPT ![s] = n] /\ n < next[s] /\ ledger' = ledger
    BY <1>6 DEF RollBackState
  <2>2. n \in 1 .. MaxSeq + 1
    BY DEF Seqs, RecoveryAssumed
  <2>3. RecoveryTyped'
    <3>1. next' \in [Streams -> 1 .. MaxSeq + 1]
      BY <1>4, <2>1, <2>2
    <3>2. RecoveryTypeOK'
      BY <1>1, <2>1, <3>1 DEF RecoveryInv, RecoveryTyped, RecoveryTypeOK
    <3> QED BY <1>2, <2>1, <3>2 DEF RecoveryInv, RecoveryTyped
  <2>4. Bounded'
    <3>1. \A t \in Streams : next'[t] <= topSeq[t] + 1
      BY <1>4, <2>1, <2>2 DEF Cursors, RecoveryAssumed
    <3> QED BY <1>1, <2>1, <3>1 DEF RecoveryInv, Bounded
  <2> QED BY <1>2, <1>3, <2>3, <2>4 DEF RecoveryInv
<1> QED BY <1>5, <1>6

LEMMA SpoolKeeps ==
  ASSUME RecoveryAssumed, RecoveryInv, NEW s \in Streams, NEW n \in Seqs,
         ReExport(s, n) \/ \E arrives \in BOOLEAN : Drain(s, n, arrives)
  PROVE  RecoveryInv'
<1>1. /\ UNCHANGED <<lowUp, next, archive, packing, ledger, journals, checkpoints, plan, apply, topSeq>>
      /\ \/ spool' = [spool EXCEPT ![s] = @ \cup {n}] /\ n \in archive[s]
         \/ spool' = [spool EXCEPT ![s] = @ \ {n}]
      /\ received' = received \/ (n = received[s] + 1 /\ received' = [received EXCEPT ![s] = n])
  BY DEF ReExport, Drain, root
<1>2. received \in Cursors /\ topSeq \in Cursors /\ spool \in [Streams -> SUBSET Seqs]
  BY DEF RecoveryInv, RecoveryTyped, RecoveryTypeOK
<1>3. received' \in Cursors /\ \A t \in Streams : received[t] <= received'[t]
  BY <1>1, <1>2 DEF Cursors, Seqs, RecoveryAssumed
<1>4. Plans' /\ \A p \in Reviewed' : PlanTyped(p)
  <2>1. \A p \in Reviewed, t \in Streams :
          ~p.boot => /\ p.cutoffs[t] <= received'[t]
                     /\ \A cp \in checkpoints' : p.cutoffs[t] <= cp[t]
    <3> SUFFICES ASSUME NEW p \in Reviewed, NEW t \in Streams, ~p.boot
                 PROVE  p.cutoffs[t] <= received'[t] /\ \A cp \in checkpoints' : p.cutoffs[t] <= cp[t]
      OBVIOUS
    <3>1. p.cutoffs[t] \in 0 .. MaxSeq /\ received[t] \in 0 .. MaxSeq /\ received'[t] \in 0 .. MaxSeq
      BY <1>2, <1>3 DEF RecoveryInv, RecoveryTyped, PlanTyped, Cursors
    <3>2. p.cutoffs[t] <= received[t] /\ \A cp \in checkpoints : p.cutoffs[t] <= cp[t]
      BY DEF RecoveryInv, Plans, Spared
    <3> QED BY <1>1, <1>3, <3>1, <3>2 DEF RecoveryAssumed
  <2>2. \A t \in Streams : topSeq[t] <= topSeq'[t]
    BY <1>1, <1>2 DEF Cursors, RecoveryAssumed
  <2> QED BY <1>1, <1>2, <2>1, <2>2, SameReviewed, PlansKeep
<1>5. spool' \in [Streams -> SUBSET Seqs] /\ \A t \in Streams : spool'[t] \subseteq spool[t] \cup archive[t]
  BY <1>1, <1>2
<1>6. RecoveryTyped'
  BY <1>1, <1>3, <1>4, <1>5 DEF RecoveryInv, RecoveryTyped, RecoveryTypeOK
<1>7. Bounded'
  BY <1>1, <1>5 DEF RecoveryInv, Bounded
<1>8. Held' /\ Running' /\ Applying'
  BY <1>1 DEF RecoveryInv, Held, Running, Applying, LedgerLoads
<1> QED BY <1>4, <1>6, <1>7, <1>8 DEF RecoveryInv

(* Checkpoints: a receiver rebuilt from one, one taken, one dropped.           *)
LEMMA CheckpointKeeps ==
  ASSUME RecoveryAssumed, RecoveryInv,
         \/ \E cp \in checkpoints : RestoreReceiver(cp) \/ DropCheckpoint(cp)
         \/ \E base \in checkpoints \cup {[s \in Streams |-> 0]} : Checkpoint(base)
  PROVE  RecoveryInv'
<1>1. UNCHANGED <<lowUp, next, archive, packing, ledger, journals, spool, plan, apply, topSeq>>
  BY DEF RestoreReceiver, DropCheckpoint, Checkpoint, root
<1>2. /\ checkpoints \subseteq Cursors /\ received \in Cursors /\ topSeq \in Cursors
  BY DEF RecoveryInv, RecoveryTyped, RecoveryTypeOK
<1>3. /\ received' \in checkpoints \cup {received}
      /\ \/ checkpoints' \subseteq checkpoints
         \/ checkpoints' = checkpoints \cup {Tips} /\ LedgerLoads
  BY DEF RestoreReceiver, DropCheckpoint, Checkpoint
<1>4. LedgerLoads => \A t \in Streams : Tips[t] = topSeq[t]
  BY TipIsExported DEF Tips
<1>5. LedgerLoads => Tips = topSeq
  BY <1>2, <1>4 DEF Tips, Cursors
<1>6. Plans' /\ \A p \in Reviewed' : PlanTyped(p)
  <2>1. \A p \in Reviewed, t \in Streams :
          ~p.boot => /\ p.cutoffs[t] <= received'[t]
                     /\ \A cp \in checkpoints' : p.cutoffs[t] <= cp[t]
    <3> SUFFICES ASSUME NEW p \in Reviewed, NEW t \in Streams, ~p.boot
                 PROVE  p.cutoffs[t] <= received'[t] /\ \A cp \in checkpoints' : p.cutoffs[t] <= cp[t]
      OBVIOUS
    <3>1. /\ p.cutoffs[t] \in 0 .. MaxSeq /\ p.tips[t] \in 0 .. MaxSeq /\ topSeq[t] \in 0 .. MaxSeq
          /\ p.cutoffs[t] <= p.tips[t] /\ p.tips[t] <= topSeq[t]
      BY <1>2 DEF RecoveryInv, RecoveryTyped, PlanTyped, Plans, Sound, Cursors
    <3>2. p.cutoffs[t] <= topSeq[t]
      BY <3>1 DEF RecoveryAssumed
    <3>3. p.cutoffs[t] <= received[t] /\ \A cp \in checkpoints : p.cutoffs[t] <= cp[t]
      BY DEF RecoveryInv, Plans, Spared
    <3> QED BY <1>3, <1>5, <3>2, <3>3
  <2>2. \A t \in Streams : topSeq[t] <= topSeq'[t]
    BY <1>1, <1>2 DEF Cursors, RecoveryAssumed
  <2> QED BY <1>1, <1>2, <2>1, <2>2, SameReviewed, PlansKeep
<1>7. received' \in Cursors /\ checkpoints' \subseteq Cursors
  BY <1>2, <1>3, <1>5
<1>8. RecoveryTyped'
  <2>1. RecoveryTypeOK'
    BY <1>1, <1>7 DEF RecoveryInv, RecoveryTyped, RecoveryTypeOK
  <2> QED BY <1>1, <1>6, <2>1 DEF RecoveryInv, RecoveryTyped
<1>9. Bounded' /\ Held' /\ Running' /\ Applying'
  BY <1>1 DEF RecoveryInv, Bounded, Held, Running, Applying, LedgerLoads
<1> QED BY <1>6, <1>8, <1>9 DEF RecoveryInv

----------------------------------------------------------------------------
(* Retention.                                                               *)
LEMMA MakePlanKeeps ==
  ASSUME RecoveryAssumed, RecoveryInv, NEW known \in SUBSET Streams, NEW boot \in BOOLEAN, MakePlan(known, boot)
  PROVE  RecoveryInv'
<1> DEFINE p == PlanOf(Floors(known), boot)
<1>1. /\ UNCHANGED <<lowUp, next, archive, packing, ledger, journals, spool, checkpoints, received, apply, topSeq>>
      /\ plan' = p /\ apply.pc = "idle"
  BY DEF MakePlan, root, outside, LockFree
<1>2. PlanTyped(p) /\ Sound(p) /\ Spared(p)
  BY PlanFacts DEF RecoveryInv
<1> HIDE DEF p
<1>3. Reviewed' \subseteq Reviewed \cup {p}
  BY <1>1 DEF Reviewed
<1>4. \A q \in Reviewed \cup {p} : PlanTyped(q) /\ Sound(q) /\ Spared(q)
  BY <1>2 DEF RecoveryInv, RecoveryTyped, Plans
<1>5. \A q : (Sound(q)' <=> Sound(q)) /\ (Spared(q)' <=> Spared(q))
  BY <1>1 DEF Sound, Spared
<1>6. Plans' /\ \A q \in Reviewed' : PlanTyped(q)
  BY <1>3, <1>4, <1>5 DEF Plans
<1>7. RecoveryTyped'
  <2>1. RecoveryTypeOK'
    BY <1>1 DEF RecoveryInv, RecoveryTyped, RecoveryTypeOK
  <2> QED BY <1>1, <1>6, <2>1 DEF RecoveryInv, RecoveryTyped
<1>8. Bounded' /\ Held' /\ Running' /\ Applying'
  BY <1>1 DEF RecoveryInv, Bounded, Held, Running, Applying, LedgerLoads
<1> QED BY <1>6, <1>7, <1>8 DEF RecoveryInv

LEMMA BeginApplyKeeps ==
  ASSUME RecoveryAssumed, RecoveryInv, BeginApply
  PROVE  RecoveryInv'
<1> DEFINE J == [plan |-> plan, complete |-> FALSE]
<1>1. /\ UNCHANGED <<lowUp, next, archive, packing, ledger, spool, checkpoints, received, plan, topSeq>>
      /\ ~lowUp /\ plan # NoPlan
      /\ apply' = [pc |-> "ledger", todo |-> plan.candidates]
      /\ journals' = journals \cup {J}
  BY DEF BeginApply, outside, LockFree
<1>2. plan \in Reviewed /\ J.plan = plan /\ J.complete = FALSE
  BY <1>1 DEF Reviewed
<1> HIDE DEF J
<1>3. Reviewed' \subseteq Reviewed
  BY <1>1, <1>2 DEF Reviewed
<1>4. Plans' /\ \A p \in Reviewed' : PlanTyped(p)
  BY <1>1, <1>3, PlansStay
<1>5. RecoveryTyped'
  <2>1. PlanTyped(plan)
    BY <1>2 DEF RecoveryInv, RecoveryTyped
  <2>2. \A j \in journals' : j.plan.candidates \subseteq Streams \X Seqs /\ j.complete \in BOOLEAN
    BY <1>1, <1>2, <2>1 DEF RecoveryInv, RecoveryTyped, RecoveryTypeOK, PlanTyped
  <2>3. apply'.pc = "ledger" /\ apply'.todo \subseteq Streams \X Seqs
    BY <1>1, <2>1 DEF PlanTyped
  <2>4. RecoveryTypeOK'
    BY <1>1, <2>2, <2>3 DEF RecoveryInv, RecoveryTyped, RecoveryTypeOK
  <2> QED BY <1>1, <1>4, <2>4 DEF RecoveryInv, RecoveryTyped
<1>6. Bounded' /\ Held' /\ Running'
  BY <1>1 DEF RecoveryInv, Bounded, Held, Running
<1>7. Applying'
  BY <1>1, <1>2 DEF Applying
<1> QED BY <1>4, <1>5, <1>6, <1>7 DEF RecoveryInv

LEMMA LedgerKeeps ==
  ASSUME RecoveryAssumed, RecoveryInv, PersistLedger
  PROVE  RecoveryInv'
<1>1. /\ UNCHANGED <<lowUp, next, archive, packing, journals, spool, checkpoints, received, plan, topSeq>>
      /\ apply.pc = "ledger" /\ apply' = [apply EXCEPT !.pc = "delete"]
      /\ ledger' = Advanced(plan)
  BY DEF PersistLedger, outside
<1>2. ~lowUp /\ plan \in Reviewed /\ apply.todo \subseteq plan.candidates /\ \E j \in journals : j.plan = plan
  BY <1>1 DEF RecoveryInv, Running, Applying, Reviewed
<1>3. PlanTyped(plan) /\ Sound(plan)
  BY <1>2 DEF RecoveryInv, RecoveryTyped, Plans
<1>4. ASSUME NEW s \in Streams
      PROVE  /\ MaxOf({plan.ledger.next[s], plan.tips[s] + 1}) \in 1 .. MaxSeq + 1
             /\ MaxOf({plan.ledger.next[s], plan.tips[s] + 1}) <= topSeq[s] + 1
             /\ MaxOf({plan.ledger.pruned[s], plan.cutoffs[s]}) \in 0 .. MaxSeq
  <2>1. /\ plan.ledger.next[s] \in 1 .. MaxSeq + 1 /\ plan.ledger.pruned[s] \in 0 .. MaxSeq
        /\ plan.tips[s] \in 0 .. MaxSeq /\ plan.cutoffs[s] \in 0 .. MaxSeq
        /\ plan.ledger.next[s] <= topSeq[s] + 1 /\ plan.tips[s] <= topSeq[s] /\ topSeq[s] \in 0 .. MaxSeq
    BY <1>3 DEF PlanTyped, Sound, Ledgers, Positions, Cursors, RecoveryInv, RecoveryTyped, RecoveryTypeOK
  <2> DEFINE N == {plan.ledger.next[s], plan.tips[s] + 1}
             P == {plan.ledger.pruned[s], plan.cutoffs[s]}
  <2>2. N \in SUBSET Nat /\ N # {} /\ P \in SUBSET Nat /\ P # {} /\ MaxSeq + 1 \in Nat
        /\ (\A n \in N : n <= MaxSeq + 1) /\ (\A n \in P : n <= MaxSeq + 1)
    BY <2>1 DEF RecoveryAssumed
  <2>3. MaxOf(N) \in N /\ MaxOf(P) \in P
    <3> HIDE DEF N, P
    <3> QED BY <2>2, MaxOfFacts
  <2>4. /\ MaxOf(N) = plan.ledger.next[s] \/ MaxOf(N) = plan.tips[s] + 1
        /\ MaxOf(P) = plan.ledger.pruned[s] \/ MaxOf(P) = plan.cutoffs[s]
    BY <2>3
  <2> QED BY <2>1, <2>4 DEF RecoveryAssumed
<1>5. ledger' \in Ledgers /\ \A s \in Streams : ledger'.next[s] <= topSeq[s] + 1
  <2>1. ledger' = [next |-> [s \in Streams |-> MaxOf({plan.ledger.next[s], plan.tips[s] + 1})],
                   pruned |-> [s \in Streams |-> MaxOf({plan.ledger.pruned[s], plan.cutoffs[s]})],
                   missing |-> FALSE]
    BY <1>1 DEF Advanced
  <2> QED BY <1>4, <2>1 DEF Ledgers, Positions, Cursors
<1>6. Plans' /\ \A p \in Reviewed' : PlanTyped(p)
  BY <1>1, SameReviewed, PlansStay
<1>7. apply'.pc = "delete" /\ apply'.todo = apply.todo
  BY <1>1, <1>2 DEF RecoveryInv, RecoveryTyped, RecoveryTypeOK
<1>8. RecoveryTyped'
  <2>1. RecoveryTypeOK'
    BY <1>1, <1>5, <1>7 DEF RecoveryInv, RecoveryTyped, RecoveryTypeOK, Ledgers, Positions
  <2> QED BY <1>5, <1>6, <2>1 DEF RecoveryTyped
<1>9. Bounded' /\ Held' /\ Running'
  BY <1>1, <1>2, <1>5 DEF RecoveryInv, Bounded, Held, Running
<1>10. Applying'
  BY <1>1, <1>2, <1>7 DEF RecoveryInv, Applying
<1> QED BY <1>6, <1>8, <1>9, <1>10 DEF RecoveryInv

LEMMA DeleteKeeps ==
  ASSUME RecoveryAssumed, RecoveryInv, NEW s \in Streams, NEW n \in Seqs, DeleteCandidate(s, n)
  PROVE  RecoveryInv'
<1>1. /\ UNCHANGED <<lowUp, next, packing, ledger, journals, spool, checkpoints, received, plan, topSeq>>
      /\ archive' = [archive EXCEPT ![s] = @ \ {n}]
      /\ apply.pc = "delete" /\ <<s, n>> \in apply.todo
      /\ apply' = [apply EXCEPT !.todo = @ \ {<<s, n>>}]
  BY DEF DeleteCandidate, outside
<1>2. ~lowUp /\ plan \in Reviewed /\ <<s, n>> \in plan.candidates /\ \E j \in journals : j.plan = plan
  BY <1>1 DEF RecoveryInv, Running, Applying, Reviewed
<1>3. n <= plan.cutoffs[s]
  BY <1>2 DEF RecoveryInv, Plans, Sound
<1>4. archive \in [Streams -> SUBSET Seqs]
  BY DEF RecoveryInv, RecoveryTyped, RecoveryTypeOK
<1>5. \A t \in Streams : archive'[t] \in SUBSET archive[t] /\ \A m \in archive[t] : m \in archive'[t] \/ (t = s /\ m = n)
  BY <1>1, <1>4
<1>6. Plans' /\ \A p \in Reviewed' : PlanTyped(p)
  BY <1>1, SameReviewed, PlansStay
<1>7. apply'.pc = apply.pc /\ apply'.todo \subseteq apply.todo
  BY <1>1
<1>8. RecoveryTyped'
  <2>1. archive' \in [Streams -> SUBSET Seqs]
    BY <1>1, <1>4
  <2>2. RecoveryTypeOK'
    BY <1>1, <1>7, <2>1 DEF RecoveryInv, RecoveryTyped, RecoveryTypeOK
  <2> QED BY <1>1, <1>6, <2>2 DEF RecoveryInv, RecoveryTyped
<1>9. Bounded' /\ Running'
  BY <1>1, <1>2, <1>5 DEF RecoveryInv, Bounded, Running
<1>10. Held'
  BY <1>1, <1>2, <1>3, <1>5 DEF RecoveryInv, Held
<1>11. Applying'
  BY <1>1, <1>7 DEF RecoveryInv, Applying
<1> QED BY <1>6, <1>8, <1>9, <1>10, <1>11 DEF RecoveryInv

LEMMA ApplyFinishKeeps ==
  ASSUME RecoveryAssumed, RecoveryInv, FinishApply
  PROVE  RecoveryInv'
<1> DEFINE J == [plan |-> plan, complete |-> TRUE]
<1>1. /\ UNCHANGED <<lowUp, next, archive, packing, ledger, spool, checkpoints, received, plan, topSeq>>
      /\ apply.pc = "delete" /\ apply' = Idle
      /\ journals' = {j \in journals : j.plan # plan} \cup {J}
  BY DEF FinishApply, outside
<1>2. J.plan = plan /\ J.complete = TRUE
  OBVIOUS
<1> HIDE DEF J
<1>3. ~lowUp /\ \E j \in journals : j.plan = plan
  BY <1>1 DEF RecoveryInv, Running, Applying
<1>4. /\ \A j \in journals : \E k \in journals' : k.plan = j.plan
      /\ \A k \in journals' : (\E j \in journals : k.plan = j.plan) /\ (k \in journals \/ k = J)
  BY <1>1, <1>2, <1>3
<1>5. Reviewed' \subseteq Reviewed
  BY <1>1, <1>4 DEF Reviewed
<1>6. Plans' /\ \A p \in Reviewed' : PlanTyped(p)
  BY <1>1, <1>5, PlansStay
<1>7. RecoveryTyped'
  <2>1. \A k \in journals' : k.plan.candidates \subseteq Streams \X Seqs /\ k.complete \in BOOLEAN
    BY <1>2, <1>4 DEF RecoveryInv, RecoveryTyped, RecoveryTypeOK
  <2>2. RecoveryTypeOK'
    BY <1>1, <2>1 DEF RecoveryInv, RecoveryTyped, RecoveryTypeOK, Idle
  <2> QED BY <1>1, <1>6, <2>2 DEF RecoveryInv, RecoveryTyped
<1>8. Bounded' /\ Running' /\ Applying'
  BY <1>1, <1>3 DEF RecoveryInv, Bounded, Running, Applying, Idle
<1>9. Held'
  <2> SUFFICES ASSUME NEW s \in Streams, NEW n \in 1 .. topSeq[s]
               PROVE  n \in archive[s] \/ \E k \in journals' : n <= k.plan.cutoffs[s]
    BY <1>1 DEF Held
  <2> QED BY <1>4 DEF RecoveryInv, Held
<1> QED BY <1>6, <1>7, <1>8, <1>9 DEF RecoveryInv

LEMMA RecoveryStep ==
  ASSUME RecoveryAssumed, RecoveryInv, [RecoveryNext]_recoveryVars
  PROVE  RecoveryInv'
<1>1. CASE StartLow \/ StopLow \/ CrashApply
  BY <1>1, LowRootKeeps
<1>2. CASE LoseLedger \/ \E s \in Streams, n \in Seqs : RollBackState(s, n)
  BY <1>2, OperatorKeeps
<1>3. ASSUME NEW s \in Streams, NEW b \in BOOLEAN, ExportBundle(s, b)
      PROVE  RecoveryInv'
  BY <1>3, ExportKeeps
<1>4. ASSUME NEW s \in Streams, NEW n \in Seqs, ReExport(s, n) \/ \E b \in BOOLEAN : Drain(s, n, b)
      PROVE  RecoveryInv'
  BY <1>4, SpoolKeeps
<1>5. CASE \/ \E cp \in checkpoints : RestoreReceiver(cp) \/ DropCheckpoint(cp)
           \/ \E cp \in checkpoints \cup {[s \in Streams |-> 0]} : Checkpoint(cp)
  BY <1>5, CheckpointKeeps
<1>6. ASSUME NEW known \in SUBSET Streams, NEW boot \in BOOLEAN, MakePlan(known, boot)
      PROVE  RecoveryInv'
  BY <1>6, MakePlanKeeps
<1>7. CASE BeginApply \/ PersistLedger \/ FinishApply
  BY <1>7, BeginApplyKeeps, LedgerKeeps, ApplyFinishKeeps
<1>8. ASSUME NEW s \in Streams, NEW n \in Seqs, DeleteCandidate(s, n)
      PROVE  RecoveryInv'
  BY <1>8, DeleteKeeps
<1>9. CASE UNCHANGED recoveryVars
  <2>1. UNCHANGED <<lowUp, next, archive, packing, ledger, journals, spool, checkpoints, received, plan, apply, topSeq>>
    BY <1>9 DEF recoveryVars, root, outside
  <2>2. Plans' /\ \A p \in Reviewed' : PlanTyped(p)
    BY <2>1, SameReviewed, PlansStay
  <2>3. RecoveryTypeOK'
    BY <2>1 DEF RecoveryInv, RecoveryTyped, RecoveryTypeOK
  <2> QED BY <2>1, <2>2, <2>3 DEF RecoveryInv, RecoveryTyped, Bounded, Held, Running, Applying, LedgerLoads
<1> QED BY <1>1, <1>2, <1>3, <1>4, <1>5, <1>6, <1>7, <1>8, <1>9 DEF RecoveryNext

----------------------------------------------------------------------------
(* The recovery state keeps its types: counters of the low side, the ledger,  *)
(* checkpoints and receiver stay within the bound, whatever is rolled back.   *)
THEOREM RecoveryTypeCorrect == RecoverySpec => []RecoveryTypeOK
<1> USE RecoveryAssumption
<1>1. RecoveryInv => RecoveryTypeOK
  BY DEF RecoveryInv, RecoveryTyped
<1> QED BY <1>1, RecoveryStart, RecoveryStep, PTL DEF RecoverySpec

(* A running low side never gives a new bundle a number it has used           *)
(* (persistRetentionLedger, checkRetentionLedgerEvidence).                  *)
THEOREM PrunedNumbersStayUsed == RecoverySpec => []PrunedNeverReused
<1> USE RecoveryAssumption
<1>1. RecoveryInv => PrunedNeverReused
  BY NextFreeFacts DEF PrunedNeverReused
<1> QED BY <1>1, RecoveryStart, RecoveryStep, PTL DEF RecoverySpec

(* Without --allow-bootstrap the archive holds every bundle the receiver      *)
(* lacks, whichever checkpoint it is rebuilt from (setRetentionCutoffs).     *)
THEOREM NoReceiverStranded == RecoverySpec => []ReceiverNotStranded
<1> USE RecoveryAssumption
<1>1. ASSUME RecoveryInv, \A j \in journals : ~j.plan.boot,
             NEW s \in Streams, NEW n \in (received[s] + 1) .. topSeq[s]
      PROVE  n \in archive[s]
  <2>1. received[s] \in 0 .. MaxSeq /\ topSeq[s] \in 0 .. MaxSeq
    BY <1>1 DEF RecoveryInv, RecoveryTyped, RecoveryTypeOK, Cursors
  <2>2. n \in 1 .. topSeq[s] /\ n > received[s]
    BY <2>1 DEF RecoveryAssumed
  <2>3. ASSUME NEW j \in journals, n <= j.plan.cutoffs[s]
        PROVE  FALSE
    <3>1. j.plan \in Reviewed
      BY DEF Reviewed
    <3>2. j.plan.cutoffs[s] <= received[s] /\ j.plan.cutoffs[s] \in 0 .. MaxSeq
      BY <1>1, <3>1 DEF RecoveryInv, RecoveryTyped, PlanTyped, Plans, Spared, Cursors
    <3> QED BY <2>1, <2>2, <2>3, <3>2 DEF RecoveryAssumed
  <2> QED BY <1>1, <2>2, <2>3 DEF RecoveryInv, Held
<1>2. RecoveryInv => ReceiverNotStranded
  BY <1>1 DEF ReceiverNotStranded
<1> QED BY <1>2, RecoveryStart, RecoveryStep, PTL DEF RecoverySpec
=============================================================================
