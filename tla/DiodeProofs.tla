---------------------------- MODULE DiodeProofs -----------------------------
(***************************************************************************)
(* What crosses the diode: transfers of datagrams, HTTP and SFTP ingest,   *)
(* and heartbeats.                                                         *)
(*                                                                         *)
(* UDP.  QuotaHeld for every number of sends, blocks, shards and open      *)
(* transfers and for every quota: the admission of a transfer reserves its *)
(* whole size, and every later step only moves or frees what it reserved.  *)
(*                                                                         *)
(* Ingest.  UnverifiedBounded for every number of bundles and every quota. *)
(* The quota is read directory by directory while the importer moves       *)
(* bundles between them, so what the transfer has added up is related to   *)
(* what the directories listed so far hold now (Measured).  NoMixedCopy    *)
(* rests on what a publication has and has not renamed yet (Downloads).    *)
(*                                                                         *)
(* Heartbeats.  ReportNeverShrinks for every number of exports, every      *)
(* clock range and replay window and any amount of loss, repetition and    *)
(* reordering: of two heartbeats of one epoch of the low side's clock, no  *)
(* matter where each of them is, the later one reports at least as much    *)
(* (Ordered), since none is ahead of the low side itself (Past).           *)
(***************************************************************************)
EXTENDS UdpDiode, Ingest, Monitor, FiniteSetTheorems, WellFoundedInduction, TLAPS

(* A set of numbers has a least one: 0 .. n - 1 is the smaller the smaller n. *)
LEMMA LeastNatural ==
  ASSUME NEW S \in SUBSET Nat, S # {}
  PROVE  \E m \in S : \A n \in S : m <= n
<1> DEFINE Below(n) == 0 .. n - 1
           T == {Below(n) : n \in S}
<1>1. T \subseteq FiniteSubsetsOf(Nat)
  <2> SUFFICES ASSUME NEW n \in S PROVE Below(n) \in FiniteSubsetsOf(Nat)
    OBVIOUS
  <2>1. n \in Nat /\ n - 1 \in Int /\ Below(n) \in SUBSET Nat
    OBVIOUS
  <2>2. IsFiniteSet(Below(n))
    BY <2>1, FS_Interval
  <2> QED BY <2>1, <2>2 DEF FiniteSubsetsOf
<1>2. T # {}
  OBVIOUS
<1> HIDE DEF T
<1>3. PICK X \in T : \A Y \in T : ~ (<<Y, X>> \in StrictSubsetOrdering(Nat))
  BY <1>1, <1>2, FS_StrictSubsetOrderingWellFounded, WFMin
<1>4. PICK m \in S : X = Below(m)
  BY DEF T
<1>5. ASSUME NEW n \in S PROVE m <= n
  <2> SUFFICES ASSUME n < m PROVE FALSE
    OBVIOUS
  <2>1. Below(n) \in T
    BY DEF T
  <2>2. n \in Below(m) /\ n \notin Below(n)
    OBVIOUS
  <2>3. Below(n) \subseteq X /\ Below(n) # X /\ Below(n) \subseteq Nat /\ X \subseteq Nat
    BY <1>4, <2>2
  <2>4. <<Below(n), X>> \in StrictSubsetOrdering(Nat)
    BY <2>3 DEF StrictSubsetOrdering
  <2> QED BY <1>3, <2>1, <2>4
<1> QED BY <1>5

----------------------------------------------------------------------------
(* The UDP diode.                                                           *)

(* The units of the quota's sum.                                             *)
Unit(f) == IF f = None THEN 0 ELSE 1
QuotaInv == DOMAIN active = Transfers /\ active = [t \in Transfers |-> active[t]] /\ QuotaHeld

LEMMA QuotaSum ==
  /\ QuotaHeld <=> Unit(landed) + Unit(part) + Cardinality(Active) + Unit(persisting) <= Room
  /\ Stored = Unit(landed) + Unit(part)
  /\ Unit(landed) \in 0 .. 1 /\ Unit(part) \in 0 .. 1 /\ Unit(persisting) \in 0 .. 1
  BY DEF QuotaHeld, Stored, Unit

LEMMA ActiveCount ==
  ASSUME UdpAssumed
  PROVE  IsFiniteSet(Active) /\ Cardinality(Active) \in Nat
<1>1. IsFiniteSet(Active)
  BY FS_Subset DEF UdpAssumed, Active
<1> QED BY <1>1, FS_CardinalityType

(* A transfer that is opened counts once, one that is over not at all.         *)
LEMMA OneMore ==
  ASSUME UdpAssumed, QuotaInv, NEW t \in Transfers, NEW r, active' = [active EXCEPT ![t] = r]
  PROVE  /\ Cardinality(Active') <= Cardinality(Active) + 1
         /\ active[t] # None \/ r = None => Cardinality(Active') <= Cardinality(Active)
         /\ active[t] # None /\ r = None => Cardinality(Active') = Cardinality(Active) - 1
         /\ Cardinality(Active') \in Nat
         /\ active' = [u \in Transfers |-> active'[u]] /\ DOMAIN active' = Transfers
<1>1. active'[t] = r /\ \A u \in Transfers \ {t} : active'[u] = active[u]
  BY DEF QuotaInv
<1>2. active' = [u \in Transfers |-> active'[u]] /\ DOMAIN active' = Transfers
  BY DEF QuotaInv
<1>3. IsFiniteSet(Active) /\ Cardinality(Active) \in Nat
  BY ActiveCount
<1>4. IsFiniteSet(Active \cup {t}) /\ Cardinality(Active \cup {t}) <= Cardinality(Active) + 1
  <2>1. /\ IsFiniteSet(Active \cup {t})
        /\ Cardinality(Active \cup {t}) = IF t \in Active THEN Cardinality(Active) ELSE Cardinality(Active) + 1
    BY <1>3, FS_AddElement
  <2>2. CASE t \in Active
    BY <1>3, <2>1, <2>2
  <2>3. CASE t \notin Active
    BY <1>3, <2>1, <2>3
  <2> QED BY <2>1, <2>2, <2>3
<1>5. Active' \subseteq Active \cup {t}
  BY <1>1 DEF Active
<1>6. IsFiniteSet(Active') /\ Cardinality(Active') <= Cardinality(Active \cup {t}) /\ Cardinality(Active') \in Nat
  BY <1>4, <1>5, FS_Subset, FS_CardinalityType
<1>7. active[t] # None \/ r = None => Cardinality(Active') <= Cardinality(Active)
  <2> SUFFICES ASSUME active[t] # None \/ r = None
               PROVE  Active' \subseteq Active
    BY <1>3, FS_Subset
  <2> QED BY <1>1 DEF Active
<1>8. active[t] # None /\ r = None => Cardinality(Active') = Cardinality(Active) - 1
  <2> SUFFICES ASSUME active[t] # None, r = None
               PROVE  t \in Active /\ Active' = Active \ {t}
    BY <1>3, FS_RemoveElement
  <2> QED BY <1>1 DEF Active
<1>9. Cardinality(Active \cup {t}) \in Nat
  BY <1>4, FS_CardinalityType
<1> QED BY <1>2, <1>3, <1>4, <1>6, <1>7, <1>8, <1>9

LEMMA QuotaInit ==
  ASSUME UdpAssumed, UdpInit
  PROVE  QuotaInv
<1>1. Active = {}
  BY DEF UdpInit, Active
<1>2. Cardinality(Active) = 0
  BY <1>1, FS_EmptySet
<1> QED BY <1>2 DEF UdpInit, QuotaInv, QuotaHeld, Stored, UdpAssumed

(* Steps that leave the transfers alone and count no more than before.        *)
LEMMA NoneMore ==
  ASSUME UdpAssumed, QuotaInv, UNCHANGED active,
         Unit(landed') + Unit(part') + Unit(persisting') <= Unit(landed) + Unit(part) + Unit(persisting)
  PROVE  QuotaInv'
<1>1. Active' = Active /\ Cardinality(Active) \in Nat
  BY ActiveCount DEF Active
<1>2. QuotaHeld' <=> Unit(landed') + Unit(part') + Cardinality(Active') + Unit(persisting') <= Room
  BY DEF QuotaHeld, Stored, Unit, Active
<1>3. Unit(landed) + Unit(part) + Cardinality(Active) + Unit(persisting) <= Room
  BY QuotaSum DEF QuotaInv
<1>4. Room \in Nat /\ Unit(landed) \in Nat /\ Unit(part) \in Nat /\ Unit(persisting) \in Nat
      /\ Unit(landed') \in Nat /\ Unit(part') \in Nat /\ Unit(persisting') \in Nat
  BY DEF UdpAssumed, Unit
<1>5. QuotaHeld'
  BY <1>1, <1>2, <1>3, <1>4
<1> QED BY <1>5 DEF QuotaInv

(* Steps of one transfer that end within the quota.                          *)
LEMMA OneTransfer ==
  ASSUME UdpAssumed, QuotaInv, NEW t \in Transfers, NEW r, active' = [active EXCEPT ![t] = r],
         Unit(landed') + Unit(part') + Unit(persisting') + Cardinality(Active') <= Room
  PROVE  QuotaInv'
<1>1. QuotaHeld' <=> Unit(landed') + Unit(part') + Cardinality(Active') + Unit(persisting') <= Room
  BY DEF QuotaHeld, Stored, Unit, Active
<1>2. Unit(landed') \in Nat /\ Unit(part') \in Nat /\ Unit(persisting') \in Nat /\ Cardinality(Active') \in Nat
  BY OneMore DEF Unit
<1>3. QuotaHeld'
  BY <1>1, <1>2
<1> QED BY <1>3, OneMore DEF QuotaInv

LEMMA DeliverKeeps ==
  ASSUME UdpAssumed, QuotaInv, NEW t \in Transfers, NEW b \in Blocks, NEW i \in Shards, Deliver(t, b, i)
  PROVE  QuotaInv'
<1> DEFINE n == Cardinality(Active)
           freed == IF active[t] = None /\ Resumable THEN 1 ELSE 0
<1>1. persisting = None /\ persisting' = None /\ (active[t] # None \/ Admitted)
  BY DEF Deliver
<1>2. n \in Nat /\ Room \in Nat
  BY ActiveCount DEF UdpAssumed
<1>3. Unit(landed) + Unit(part) + n <= Room
  BY <1>1, <1>2, QuotaSum DEF QuotaInv, Unit
<1>4. active[t] = None => Unit(landed) + Unit(part) - freed + n < Room
  BY <1>1, QuotaSum DEF Admitted
<1>5. freed \in 0 .. Unit(part)
  BY DEF Resumable, Unit
<1>6. ASSUME TakePartial(t)
      PROVE  Unit(part') = Unit(part) - freed
  BY <1>6 DEF TakePartial, Resumable, Unit
<1>7. PICK r : \/ Finish(t, r)
               \/ active' = [active EXCEPT ![t] = r] /\ TakePartial(t) /\ UNCHANGED landed
  BY DEF Deliver
<1>8. Unit(landed) \in 0 .. 1 /\ Unit(part) \in 0 .. 1 /\ Unit(landed') \in 0 .. 1 /\ Unit(persisting') = 0
  BY <1>1 DEF Unit
<1>9. CASE Finish(t, r)
  <2>1. active' = [active EXCEPT ![t] = None]
    BY <1>9 DEF Finish
  <2>2. /\ Cardinality(Active') \in Nat /\ Cardinality(Active') <= n
        /\ active[t] # None => Cardinality(Active') = n - 1
    BY <2>1, OneMore
  <2>3. CASE HashMatches(r)
    <3>1. Unit(part') = 0
      BY <1>9, <2>3 DEF Finish, Unit
    <3>2. Unit(landed') + Unit(part') + Unit(persisting') + Cardinality(Active') <= Room
      BY <1>2, <1>3, <1>4, <1>5, <1>8, <2>2, <3>1
    <3> QED BY <2>1, <3>2, OneTransfer
  <2>4. CASE ~HashMatches(r)
    <3>1. landed' = landed /\ Unit(part') = Unit(part) - freed
      BY <1>6, <1>9, <2>4 DEF Finish
    <3>2. Unit(landed') + Unit(part') + Unit(persisting') + Cardinality(Active') <= Room
      BY <1>2, <1>3, <1>5, <1>8, <2>2, <3>1
    <3> QED BY <2>1, <3>2, OneTransfer
  <2> QED BY <2>3, <2>4
<1>10. CASE active' = [active EXCEPT ![t] = r] /\ TakePartial(t) /\ UNCHANGED landed
  <2>1. /\ Cardinality(Active') \in Nat /\ Cardinality(Active') <= n + 1
        /\ active[t] # None => Cardinality(Active') <= n
    BY <1>10, OneMore
  <2>2. Unit(landed') = Unit(landed) /\ Unit(part') = Unit(part) - freed
    BY <1>6, <1>10
  <2>3. Unit(landed') + Unit(part') + Unit(persisting') + Cardinality(Active') <= Room
    BY <1>2, <1>3, <1>4, <1>5, <1>8, <2>1, <2>2
  <2> QED BY <1>10, <2>3, OneTransfer
<1> QED BY <1>7, <1>9, <1>10

(* A transfer that fails frees its place, one that goes silent leaves it to     *)
(* the bytes it is about to keep.                                            *)
LEMMA EndKeeps ==
  ASSUME UdpAssumed, QuotaInv, NEW t \in Transfers, Fail(t) \/ Expire(t)
  PROVE  QuotaInv'
<1>1. /\ active' = [active EXCEPT ![t] = None] /\ active[t] # None
      /\ persisting = None /\ UNCHANGED <<part, landed>>
  BY DEF Fail, Expire, Active
<1>2. Cardinality(Active') = Cardinality(Active) - 1 /\ Cardinality(Active') \in Nat /\ Cardinality(Active) \in Nat
  BY <1>1, OneMore, ActiveCount
<1>3. Unit(landed) + Unit(part) + Cardinality(Active) <= Room
  BY <1>1, <1>2, QuotaSum DEF QuotaInv, Unit, UdpAssumed
<1>4. /\ Unit(landed') = Unit(landed) /\ Unit(part') = Unit(part) /\ Unit(persisting') \in 0 .. 1
      /\ Unit(landed) \in 0 .. 1 /\ Unit(part) \in 0 .. 1
  BY <1>1 DEF Unit
<1>5. Unit(landed') + Unit(part') + Unit(persisting') + Cardinality(Active') <= Room
  BY <1>2, <1>3, <1>4 DEF UdpAssumed
<1> QED BY <1>1, <1>5, OneTransfer

LEMMA CrashKeeps ==
  ASSUME UdpAssumed, QuotaInv, CrashCatcher
  PROVE  QuotaInv'
<1>1. /\ active' = [u \in Transfers |-> None] /\ persisting' = None /\ UNCHANGED <<part, landed>>
  BY DEF CrashCatcher
<1>2. Active' = {}
  BY <1>1 DEF Active
<1>3. Cardinality(Active') = 0
  BY <1>2, FS_EmptySet
<1>4. Unit(landed) + Unit(part) <= Room
  BY QuotaSum, ActiveCount DEF QuotaInv, UdpAssumed
<1>5. QuotaHeld'
  BY <1>1, <1>3, <1>4 DEF QuotaHeld, Stored, Unit
<1> QED BY <1>1, <1>5 DEF QuotaInv

LEMMA QuotaStep ==
  ASSUME UdpAssumed, QuotaInv, [UdpNext]_udpVars
  PROVE  QuotaInv'
<1>1. ASSUME NEW t \in Transfers, Send(t) \/ ForgetDone(t)
      PROVE  QuotaInv'
  BY <1>1, NoneMore DEF Send, ForgetDone, Unit
<1>2. ASSUME NEW t \in Transfers, Fail(t) \/ Expire(t)
      PROVE  QuotaInv'
  BY <1>2, EndKeeps
<1>3. ASSUME NEW t \in Transfers, NEW b \in Blocks, NEW i \in Shards, Deliver(t, b, i)
      PROVE  QuotaInv'
  BY <1>3, DeliverKeeps
<1>4. CASE PersistData
  BY <1>4, NoneMore DEF PersistData, Unit
<1>5. CASE PersistFails \/ Reap \/ TakeLanded
  BY <1>5, NoneMore DEF PersistFails, Reap, TakeLanded, Unit
<1>6. CASE CrashCatcher
  BY <1>6, CrashKeeps
<1>7. CASE UNCHANGED udpVars
  BY <1>7, NoneMore DEF udpVars, Unit
<1> QED BY <1>1, <1>2, <1>3, <1>4, <1>5, <1>6, <1>7 DEF UdpNext

----------------------------------------------------------------------------
(* The landed file, the partial kept for a re-send, the one about to be kept   *)
(* and every file in reassembly fit the quota together, however sends overlap, *)
(* fall silent, resume or fail (admitNewTransfer, adoptPartialFile).         *)
THEOREM UnverifiedWithinQuota == UdpSpec => []QuotaHeld
<1> USE UdpDiodeAssumption
<1>1. QuotaInv => QuotaHeld
  BY DEF QuotaInv
<1> QED BY QuotaInit, QuotaStep, <1>1, PTL DEF UdpSpec

----------------------------------------------------------------------------
(* A reassembly claims no whole file: it would have landed or failed.          *)
Reassembly == [have : [Blocks -> SUBSET Shards], written : SUBSET Blocks, claimed : SUBSET Blocks]
UdpShapes ==
  /\ active = [t \in Transfers |-> active[t]]
  /\ \A t \in Active : active[t] \in Reassembly
UdpInv == UdpShapes /\ UdpTypeOK

LEMMA UdpStart ==
  ASSUME UdpInit
  PROVE  UdpInv
<1>1. Active = {} /\ active = [t \in Transfers |-> active[t]]
  BY DEF UdpInit, Active
<1> QED BY <1>1 DEF UdpInit, UdpInv, UdpShapes, UdpTypeOK

(* A datagram's reassembly is one, before and after its shard.                *)
LEMMA ReassemblyFacts ==
  ASSUME UdpInv, NEW t \in Transfers, NEW b \in Blocks, NEW i \in Shards,
         NEW opened, opened = IF active[t] = None THEN Opened ELSE active[t]
  PROVE  opened \in Reassembly /\ WithShard(opened, b, i) \in Reassembly
<1>1. NewTransfer \in Reassembly
  BY DEF NewTransfer, Reassembly
<1>2. Opened \in Reassembly
  <2>1. CASE Resumable
    <3>1. state \subseteq Blocks /\ (part = None \/ part \subseteq Blocks) /\ part # None
      BY <2>1 DEF UdpInv, UdpTypeOK, Resumable
    <3>2. Opened = [NewTransfer EXCEPT !.written = part, !.claimed = state]
      BY <2>1 DEF Opened
    <3> QED BY <1>1, <3>1, <3>2 DEF Reassembly
  <2>2. CASE ~Resumable
    BY <1>1, <2>2 DEF Opened
  <2> QED BY <2>1, <2>2
<1>3. opened \in Reassembly
  BY <1>2 DEF UdpInv, UdpShapes, Active
<1>4. MakeRoom(opened, b) \in Reassembly
  BY <1>3 DEF MakeRoom, Reassembly
<1>5. WithShard(opened, b, i) \in Reassembly
  <2> DEFINE room == MakeRoom(opened, b)
             have == room.have[b] \cup {i}
  <2>1. have \in SUBSET Shards
    BY <1>4 DEF Reassembly
  <2>2. [room EXCEPT !.have[b] = have] \in Reassembly
    BY <1>4, <2>1 DEF Reassembly
  <2>3. [room EXCEPT !.have[b] = {}, !.written = @ \cup {b}, !.claimed = @ \cup {b}] \in Reassembly
    BY <1>4 DEF Reassembly
  <2> QED BY <2>2, <2>3 DEF WithShard
<1> QED BY <1>3, <1>5

LEMMA UdpTypeStep ==
  ASSUME UdpInv, [UdpNext]_udpVars
  PROVE  UdpInv'
<1> DEFINE Held(f) == f = None \/ f \subseteq Blocks
<1>1. /\ sent \subseteq Transfers /\ done \subseteq Transfers /\ active = [t \in Transfers |-> active[t]]
      /\ \A t \in Active : active[t] \in Reassembly /\ active[t].claimed # Blocks
      /\ Held(state) /\ Held(part) /\ Held(persisting) /\ Held(landed)
  BY DEF UdpInv, UdpShapes, UdpTypeOK
<1>2. ASSUME sent' \subseteq Transfers, done' \subseteq Transfers, active' = [t \in Transfers |-> active'[t]],
             \A t \in Active' : active'[t] \in Reassembly /\ active'[t].claimed # Blocks,
             Held(state'), Held(part'), Held(persisting'), Held(landed')
      PROVE  UdpInv'
  BY <1>2 DEF UdpInv, UdpShapes, UdpTypeOK, Reassembly
<1>3. ASSUME NEW t \in Transfers, NEW r, active' = [active EXCEPT ![t] = r],
             r = None \/ (r \in Reassembly /\ r.claimed # Blocks)
      PROVE  /\ active' = [u \in Transfers |-> active'[u]]
             /\ \A u \in Active' : active'[u] \in Reassembly /\ active'[u].claimed # Blocks
  <2>1. active'[t] = r /\ active' = [u \in Transfers |-> active'[u]] /\ \A u \in Transfers \ {t} : active'[u] = active[u]
    BY <1>1, <1>3
  <2> QED BY <1>1, <1>3, <2>1 DEF Active
<1>4. UNCHANGED active => Active' = Active
  BY DEF Active
<1>5. ASSUME NEW t \in Transfers, TakePartial(t)
      PROVE  Held(state') /\ Held(part')
  BY <1>1, <1>5 DEF TakePartial
<1> HIDE DEF Held
<1>6. Held(None)
  BY DEF Held
<1>7. ASSUME NEW t \in Transfers, Send(t) \/ ForgetDone(t)
      PROVE  UdpInv'
  BY <1>1, <1>2, <1>4, <1>7 DEF Send, ForgetDone
<1>8. ASSUME NEW t \in Transfers, Fail(t)
      PROVE  UdpInv'
  BY <1>1, <1>2, <1>3, <1>8 DEF Fail
<1>9. ASSUME NEW t \in Transfers, Expire(t)
      PROVE  UdpInv'
  <2>1. active' = [active EXCEPT ![t] = None] /\ active[t] \in Reassembly /\ UNCHANGED <<sent, done, part, landed>>
    BY <1>1, <1>9 DEF Expire
  <2>2. \/ UNCHANGED <<state, persisting>>
        \/ state' = active[t].claimed /\ persisting' = active[t].written
    BY <1>9 DEF Expire
  <2>3. Held(state') /\ Held(persisting')
    BY <1>1, <2>1, <2>2 DEF Reassembly, Held
  <2> QED BY <1>1, <1>2, <1>3, <2>1, <2>3
<1>10. ASSUME NEW t \in Transfers, NEW b \in Blocks, NEW i \in Shards, Deliver(t, b, i)
       PROVE  UdpInv'
  <2> DEFINE opened == IF active[t] = None THEN Opened ELSE active[t]
             r == IF b \in opened.claimed \/ ~Fits(opened, b) THEN opened ELSE WithShard(opened, b, i)
  <2>1. r \in Reassembly
    BY ReassemblyFacts
  <2>2. /\ UNCHANGED <<sent, persisting>>
        /\ \/ r.claimed = Blocks /\ Finish(t, r)
           \/ r.claimed # Blocks /\ active' = [active EXCEPT ![t] = r] /\ TakePartial(t) /\ UNCHANGED <<done, landed>>
    BY <1>10 DEF Deliver
  <2> HIDE DEF opened, r
  <2>3. CASE Finish(t, r)
    <3>1. active' = [active EXCEPT ![t] = None] /\ done' \subseteq Transfers
      BY <1>1, <2>3 DEF Finish
    <3>2. Held(state') /\ Held(part') /\ Held(landed')
      <4>1. CASE HashMatches(r)
        BY <1>6, <2>1, <2>3, <4>1 DEF Finish, Reassembly, Held
      <4>2. CASE ~HashMatches(r)
        BY <1>1, <1>5, <2>3, <4>2 DEF Finish
      <4> QED BY <4>1, <4>2
    <3> QED BY <1>1, <1>2, <1>3, <2>2, <3>1, <3>2
  <2>4. CASE r.claimed # Blocks /\ active' = [active EXCEPT ![t] = r] /\ TakePartial(t) /\ UNCHANGED <<done, landed>>
    BY <1>1, <1>2, <1>3, <1>5, <2>1, <2>2, <2>4
  <2> QED BY <2>2, <2>3, <2>4
<1>11. CASE PersistData \/ PersistFails \/ Reap \/ TakeLanded
  BY <1>1, <1>2, <1>4, <1>6, <1>11 DEF PersistData, PersistFails, Reap, TakeLanded
<1>12. CASE CrashCatcher
  <2>1. active' = [t \in Transfers |-> active'[t]] /\ Active' = {} /\ done' = {} /\ persisting' = None
    BY <1>12 DEF CrashCatcher, Active
  <2> QED BY <1>1, <1>2, <1>6, <1>12, <2>1 DEF CrashCatcher
<1>13. CASE UNCHANGED udpVars
  BY <1>1, <1>2, <1>4, <1>13 DEF udpVars
<1> QED BY <1>7, <1>8, <1>9, <1>10, <1>11, <1>12, <1>13 DEF UdpNext

(* A reassembly has only shards and blocks of its file, and a file that is      *)
(* complete does not stay in reassembly (completeBlock, finishTransfer).      *)
THEOREM UdpTypeCorrect == UdpSpec => []UdpTypeOK
<1>1. UdpInv => UdpTypeOK
  BY DEF UdpInv
<1> QED BY UdpStart, UdpTypeStep, <1>1, PTL DEF UdpSpec

----------------------------------------------------------------------------
(* HTTP and SFTP ingest.                                                    *)

----------------------------------------------------------------------------
(* The invariant.                                                           *)
Measuring == {"landing", "quarantine", "rejected", "write"}
Publishing == {"recheck", "archive", "signature"}
Ops == [kind : {"put", "fetch"}, pc : Measuring \cup Publishing, at : BundleFiles, sum : Nat]
Polls == [pc : {"idle", "fetch", "import"}, todo : SUBSET Numbers]

IngestTyped ==
  /\ IngestTypeOK /\ rejected \in Nat
  /\ op \in Ops \cup {NoOp} /\ poll \in Polls
  /\ op.kind = "put" => op.pc \in Measuring

LandingUnits == Cardinality(Landed) + Cardinality(temps)
ListedUnits == LandingUnits + 2 * Cardinality(quarantine)
AllUnits == ListedUnits + rejected

(* The sum covers the directories listed so far as they are NOW: bundles only *)
(* move on to directories that are still to be listed, and nobody but the    *)
(* holder of ingestMu adds any.                                             *)
Measured ==
  /\ op.pc = "quarantine" => LandingUnits <= op.sum
  /\ op.pc = "rejected" => ListedUnits <= op.sum
  /\ op.pc = "write" => AllUnits <= op.sum

(* What publishSFTPBundle renames is on the disk, and what it must not meet   *)
(* is not.                                                                  *)
Tar == <<op.at[1], "tar">>
Sig == <<op.at[1], "sig">>
Downloads ==
  op.kind = "fetch" =>
    /\ op.at = Sig /\ op.pc # "signature" => Tar \in temps
    /\ op.pc \in Publishing => Sig \in temps /\ op.at = Sig
    /\ op.pc = "archive" => landing[Sig] = "none"
    /\ op.pc = "signature" => landing[Tar] = "sftp" /\ landing[Sig] = "none"

IngestInv == IngestTyped /\ Measured /\ UnverifiedBounded /\ Downloads

----------------------------------------------------------------------------
(* Counting.                                                                *)
LEMMA Fewer ==
  ASSUME NEW S, IsFiniteSet(S), NEW T \in SUBSET S
  PROVE  IsFiniteSet(T) /\ Cardinality(S) \in Nat /\ Cardinality(T) \in Nat /\ Cardinality(T) <= Cardinality(S)
BY FS_Subset, FS_CardinalityType

LEMMA AtMostOneMore ==
  ASSUME NEW S, IsFiniteSet(S), NEW x, NEW T \in SUBSET (S \cup {x})
  PROVE  IsFiniteSet(T) /\ Cardinality(S) \in Nat /\ Cardinality(T) \in Nat /\ Cardinality(T) <= Cardinality(S) + 1
<1>1. IsFiniteSet(S \cup {x}) /\ Cardinality(S \cup {x}) <= Cardinality(S) + 1 /\ Cardinality(S) \in Nat
  <2>1. IsFiniteSet(S \cup {x}) /\ Cardinality(S) \in Nat
    BY FS_AddElement, FS_CardinalityType
  <2>2. Cardinality(S \cup {x}) = IF x \in S THEN Cardinality(S) ELSE Cardinality(S) + 1
    BY FS_AddElement
  <2> QED BY <2>1, <2>2
<1>2. IsFiniteSet(T) /\ Cardinality(T) \in Nat /\ Cardinality(T) <= Cardinality(S \cup {x})
  /\ Cardinality(S \cup {x}) \in Nat
  BY <1>1, Fewer
<1> QED BY <1>1, <1>2

LEMMA AtLeastOneLess ==
  ASSUME NEW S, IsFiniteSet(S), NEW x \in S, NEW T \in SUBSET (S \ {x})
  PROVE  IsFiniteSet(T) /\ Cardinality(S) \in Nat /\ Cardinality(T) \in Nat /\ Cardinality(T) <= Cardinality(S) - 1
<1>1. IsFiniteSet(S \ {x}) /\ Cardinality(S \ {x}) = Cardinality(S) - 1 /\ Cardinality(S) \in Nat
  BY FS_RemoveElement, FS_CardinalityType
<1>2. IsFiniteSet(T) /\ Cardinality(T) \in Nat /\ Cardinality(T) <= Cardinality(S \ {x})
  BY <1>1, Fewer
<1> QED BY <1>1, <1>2

LEMMA FilesFinite == ASSUME IngestAssumed PROVE IsFiniteSet(Numbers) /\ IsFiniteSet(BundleFiles)
<1>1. IsFiniteSet(Numbers)
  BY FS_Interval DEF Numbers, IngestAssumed
<1>2. IsFiniteSet(Kinds)
  <2>1. IsFiniteSet({"tar"}) /\ Kinds = {"tar"} \cup {"sig"}
    BY FS_Singleton DEF Kinds
  <2> QED BY <2>1, FS_AddElement
<1> QED BY <1>1, <1>2, FS_Product DEF BundleFiles

(* Every directory holds finitely many units, before and after a step.        *)
LEMMA Counted ==
  ASSUME IngestAssumed, IngestTyped
  PROVE  /\ IsFiniteSet(Landed) /\ IsFiniteSet(temps) /\ IsFiniteSet(quarantine)
         /\ \E l, t, q \in Nat :
              /\ l = Cardinality(Landed) /\ t = Cardinality(temps) /\ q = Cardinality(quarantine)
              /\ rejected \in Nat
              /\ LandingUnits = l + t /\ ListedUnits = l + t + 2 * q /\ AllUnits = l + t + 2 * q + rejected
         /\ UnverifiedBounded <=> AllUnits <= Quota
<1>1. IsFiniteSet(Numbers) /\ IsFiniteSet(BundleFiles)
  BY FilesFinite
<1>2. Landed \subseteq BundleFiles /\ temps \subseteq BundleFiles /\ quarantine \subseteq Numbers
  BY DEF IngestTyped, IngestTypeOK, Landed
<1>3. /\ IsFiniteSet(Landed) /\ IsFiniteSet(temps) /\ IsFiniteSet(quarantine)
      /\ Cardinality(Landed) \in Nat /\ Cardinality(temps) \in Nat /\ Cardinality(quarantine) \in Nat
  BY <1>1, <1>2, FS_Subset, FS_CardinalityType
<1>4. rejected \in Nat
  BY DEF IngestTyped
<1> QED BY <1>3, <1>4 DEF LandingUnits, ListedUnits, AllUnits, UnverifiedBounded

LEMMA CountedNext ==
  ASSUME IngestAssumed, IngestTyped'
  PROVE  /\ \E l, t, q, r \in Nat :
              /\ l = Cardinality(Landed') /\ t = Cardinality(temps') /\ q = Cardinality(quarantine')
              /\ r = rejected'
              /\ LandingUnits' = l + t /\ ListedUnits' = l + t + 2 * q /\ AllUnits' = l + t + 2 * q + r
         /\ UnverifiedBounded' <=> AllUnits' <= Quota
<1>1. IsFiniteSet(Numbers) /\ IsFiniteSet(BundleFiles)
  BY FilesFinite
<1>2. Landed' \subseteq BundleFiles /\ temps' \subseteq BundleFiles /\ quarantine' \subseteq Numbers
  BY DEF IngestTyped, IngestTypeOK, Landed
<1>3. Cardinality(Landed') \in Nat /\ Cardinality(temps') \in Nat /\ Cardinality(quarantine') \in Nat
  BY <1>1, <1>2, FS_Subset, FS_CardinalityType
<1>4. rejected' \in Nat
  BY DEF IngestTyped
<1>5. \E l, t, q, r \in Nat :
        l = Cardinality(Landed') /\ t = Cardinality(temps') /\ q = Cardinality(quarantine') /\ r = rejected'
  BY <1>3, <1>4
<1>6. PICK l \in Nat, t \in Nat, q \in Nat, r \in Nat :
        l = Cardinality(Landed') /\ t = Cardinality(temps') /\ q = Cardinality(quarantine') /\ r = rejected'
  BY <1>5
<1>7. LandingUnits' = l + t
  BY <1>6 DEF LandingUnits
<1>8. ListedUnits' = l + t + 2 * q
  BY <1>6, <1>7 DEF ListedUnits
<1>9. AllUnits' = l + t + 2 * q + r
  BY <1>6, <1>8 DEF AllUnits
<1>10. UnverifiedBounded' <=> l + t + 2 * q + r <= Quota
  BY <1>6 DEF UnverifiedBounded
<1> QED BY <1>6, <1>7, <1>8, <1>9, <1>10

(* The first bundle of a list is one of the list.                            *)
LEMMA FirstOfFacts ==
  ASSUME NEW S \in SUBSET Nat, S # {}
  PROVE  FirstOf(S) \in S
BY LeastNatural DEF FirstOf

----------------------------------------------------------------------------
(* The steps.                                                               *)
LEMMA IngestInitInv == ASSUME IngestAssumed PROVE IngestInit => IngestInv
<1> SUFFICES ASSUME IngestInit PROVE IngestInv
  OBVIOUS
<1>1. Landed = {} /\ Cardinality({}) = 0
  BY FS_EmptySet DEF IngestInit, Landed
<1>2. UnverifiedBounded
  BY <1>1 DEF IngestInit, UnverifiedBounded, IngestAssumed
<1>3. IngestTyped /\ Measured /\ Downloads
  BY DEF IngestInit, IngestTyped, IngestTypeOK, Measured, Downloads, NoOp, NoPoll, Polls, IngestAssumed
<1> QED BY <1>2, <1>3 DEF IngestInv

(* Whoever holds ingestMu, nothing that was measured grows.                  *)
LEMMA NothingGrows ==
  ASSUME IngestAssumed, IngestInv, IngestTyped', Downloads', op' = op,
         LandingUnits' <= LandingUnits, ListedUnits' <= ListedUnits, AllUnits' <= AllUnits
  PROVE  IngestInv'
<1>1. /\ LandingUnits \in Nat /\ ListedUnits \in Nat /\ AllUnits \in Nat
      /\ UnverifiedBounded <=> AllUnits <= Quota
  BY Counted DEF IngestInv
<1>2. /\ LandingUnits' \in Nat /\ ListedUnits' \in Nat /\ AllUnits' \in Nat
      /\ UnverifiedBounded' <=> AllUnits' <= Quota
  BY CountedNext
<1>3. op.sum \in Int /\ Quota \in Int
  BY DEF IngestInv, IngestTyped, Ops, NoOp, IngestAssumed
<1>4. Measured'
  BY <1>1, <1>2, <1>3 DEF IngestInv, Measured
<1>5. UnverifiedBounded'
  BY <1>1, <1>2, <1>3 DEF IngestInv
<1> QED BY <1>4, <1>5 DEF IngestInv

(* Outside a measurement only the quota itself counts.                       *)
LEMMA OnlyTheQuota ==
  ASSUME IngestAssumed, IngestTyped', Downloads',
         op'.pc \notin {"quarantine", "rejected", "write"}, AllUnits' <= Quota
  PROVE  IngestInv'
BY CountedNext DEF IngestInv, Measured

(* A step that takes nothing in and lets go of a transfer, or starts one.      *)
LEMMA NothingTaken ==
  ASSUME IngestAssumed, IngestInv, IngestTyped', Downloads',
         UNCHANGED importVars, temps' \subseteq temps,
         op' = op \/ op'.pc \in {"free", "landing"}
  PROVE  IngestInv'
<1>1. PICK l \in Nat, t \in Nat, q \in Nat :
        /\ l = Cardinality(Landed) /\ t = Cardinality(temps) /\ q = Cardinality(quarantine)
        /\ rejected \in Nat /\ IsFiniteSet(temps)
        /\ LandingUnits = l + t /\ ListedUnits = l + t + 2 * q /\ AllUnits = l + t + 2 * q + rejected
        /\ AllUnits <= Quota
  BY Counted DEF IngestInv
<1>2. PICK l1 \in Nat, t1 \in Nat, q1 \in Nat, r1 \in Nat :
        /\ l1 = Cardinality(Landed') /\ t1 = Cardinality(temps') /\ q1 = Cardinality(quarantine')
        /\ r1 = rejected'
        /\ LandingUnits' = l1 + t1 /\ ListedUnits' = l1 + t1 + 2 * q1 /\ AllUnits' = l1 + t1 + 2 * q1 + r1
  BY CountedNext
<1>3. l1 = l /\ q1 = q /\ r1 = rejected
  BY <1>1, <1>2 DEF importVars, Landed
<1>4. t1 <= t
  BY <1>1, <1>2, Fewer
<1>5. LandingUnits' <= LandingUnits /\ ListedUnits' <= ListedUnits /\ AllUnits' <= AllUnits
  BY <1>1, <1>2, <1>3, <1>4
<1>6. CASE op' = op
  BY <1>5, <1>6, NothingGrows
<1>7. CASE op'.pc \in {"free", "landing"}
  <2>1. AllUnits' <= Quota
    BY <1>1, <1>2, <1>5 DEF IngestAssumed
  <2> QED BY <1>7, <2>1, OnlyTheQuota
<1> QED BY <1>6, <1>7

LEMMA MeasureInv == ASSUME IngestAssumed, IngestInv, Measure PROVE IngestInv'
<1>1. /\ op \in Ops /\ op.pc \in {"landing", "quarantine", "rejected"} /\ op.sum \in Nat
      /\ op' = [op EXCEPT !.sum = op.sum + UnitsIn(op.pc), !.pc = NextDir(op.pc)]
      /\ UNCHANGED <<remote, importVars, temps, poll, crashes>>
  BY DEF Measure, IngestInv, IngestTyped, Ops, NoOp
<1>2. PICK l \in Nat, t \in Nat, q \in Nat :
        /\ l = Cardinality(Landed) /\ t = Cardinality(temps) /\ q = Cardinality(quarantine)
        /\ rejected \in Nat
        /\ LandingUnits = l + t /\ ListedUnits = l + t + 2 * q /\ AllUnits = l + t + 2 * q + rejected
  BY Counted DEF IngestInv
<1>3. LandingUnits' = LandingUnits /\ ListedUnits' = ListedUnits /\ AllUnits' = AllUnits
      /\ UnverifiedBounded' = UnverifiedBounded
  BY <1>1 DEF importVars, LandingUnits, ListedUnits, AllUnits, Landed, UnverifiedBounded
<1>4. /\ op'.kind = op.kind /\ op'.at = op.at
      /\ op'.pc = NextDir(op.pc) /\ op'.sum = op.sum + UnitsIn(op.pc)
  BY <1>1 DEF Ops
<1>5. UnitsIn(op.pc) \in Nat /\ op'.pc \in {"quarantine", "rejected", "write"}
  BY <1>1, <1>2, <1>4 DEF UnitsIn, NextDir
<1>6. op' \in Ops
  <2>1. op.sum + UnitsIn(op.pc) \in Nat /\ NextDir(op.pc) \in Measuring
    BY <1>1, <1>4, <1>5 DEF Measuring
  <2> QED BY <1>1, <2>1 DEF Ops
<1>7. IngestTyped'
  <2>1. /\ remote' = remote /\ landing' = landing /\ quarantine' = quarantine /\ rejected' = rejected
        /\ taken' = taken /\ temps' = temps /\ poll' = poll /\ crashes' = crashes
    BY <1>1 DEF importVars
  <2>2. IngestTypeOK'
    BY <1>5, <2>1 DEF IngestInv, IngestTyped, IngestTypeOK
  <2> QED BY <1>4, <1>5, <1>6, <2>1, <2>2 DEF IngestInv, IngestTyped, Measuring
<1>8. Downloads'
  BY <1>1, <1>4, <1>5 DEF IngestInv, Downloads, Tar, Sig, Publishing, importVars
<1>9. Measured'
  <2>1. CASE op.pc = "landing"
    <3>1. op'.pc = "quarantine" /\ op'.sum = op.sum + l + t
      BY <1>2, <1>4, <2>1, <1>1 DEF UnitsIn, NextDir
    <3> QED BY <1>1, <1>2, <1>3, <3>1 DEF Measured
  <2>2. CASE op.pc = "quarantine"
    <3>1. op'.pc = "rejected" /\ op'.sum = op.sum + 2 * q /\ l + t <= op.sum
      BY <1>2, <1>4, <2>2, <1>1 DEF UnitsIn, NextDir, IngestInv, Measured
    <3>2. l + t + 2 * q <= op.sum + 2 * q
      BY <1>1, <3>1
    <3> QED BY <1>2, <1>3, <3>1, <3>2 DEF Measured
  <2>3. CASE op.pc = "rejected"
    <3>1. op'.pc = "write" /\ op'.sum = op.sum + rejected /\ l + t + 2 * q <= op.sum
      BY <1>2, <1>4, <2>3, <1>1 DEF UnitsIn, NextDir, IngestInv, Measured
    <3>2. l + t + 2 * q + rejected <= op.sum + rejected
      BY <1>1, <1>2, <3>1
    <3> QED BY <1>2, <1>3, <3>1, <3>2 DEF Measured
  <2> QED BY <1>1, <2>1, <2>2, <2>3
<1> QED BY <1>3, <1>7, <1>8, <1>9 DEF IngestInv

(* The steps that move no file: uploads and downloads begin or give up, the   *)
(* poller goes on, the folder fills, the high side restarts.                *)
LEMMA QuietInv ==
  ASSUME IngestAssumed, IngestInv,
         \/ PutRefused \/ StartPoll \/ StartFetch \/ StageFails \/ PollImported \/ EndPoll \/ CrashHigh
         \/ \E f \in BundleFiles : Promote(f[1], f[2]) \/ StartPut(f)
  PROVE  IngestInv'
<1>1. /\ IngestTypeOK /\ rejected \in Nat /\ op \in Ops \cup {NoOp} /\ poll \in Polls
      /\ op.kind = "put" => op.pc \in Measuring
  BY DEF IngestInv, IngestTyped
<1> DEFINE Quiet == UNCHANGED importVars /\ temps' \subseteq temps
<1>2. ASSUME Quiet, op' = NoOp,
             remote' = remote, poll' \in Polls,
             crashes' \in 0 .. MaxCrashes
      PROVE  IngestInv'
  <2>1. IngestTyped' /\ Downloads'
    BY <1>1, <1>2 DEF IngestTyped, IngestTypeOK, Polls, importVars, NoOp, Downloads
  <2> QED BY <1>2, <2>1, NothingTaken DEF NoOp
<1>3. ASSUME Quiet, op' = op, temps' = temps,
             remote' \subseteq BundleFiles, poll' \in Polls,
             crashes' \in 0 .. MaxCrashes
      PROVE  IngestInv'
  <2>1. IngestTyped'
    BY <1>1, <1>3 DEF IngestTyped, IngestTypeOK, Polls, importVars
  <2>2. Downloads'
    BY <1>3 DEF IngestInv, Downloads, Tar, Sig, importVars
  <2> QED BY <1>3, <2>1, <2>2, NothingTaken
<1>4. ASSUME Quiet, NEW k \in {"put", "fetch"}, NEW f \in BundleFiles,
             op' = [kind |-> k, pc |-> "landing", at |-> f, sum |-> 0], k = "fetch" => f[2] = "tar",
             UNCHANGED <<remote, poll, crashes>>
      PROVE  IngestInv'
  <2>1. op' \in Ops /\ op'.kind = k /\ op'.pc = "landing" /\ op'.at = f
    BY <1>4 DEF Ops, Measuring
  <2>2. IngestTyped'
    BY <1>1, <1>4, <2>1 DEF IngestTyped, IngestTypeOK, importVars, Measuring
  <2>3. Downloads'
    BY <1>4, <2>1 DEF Downloads, Sig, Publishing
  <2> QED BY <1>4, <2>1, <2>2, <2>3, NothingTaken
<1>5. ASSUME PutRefused PROVE IngestInv'
  BY <1>1, <1>2, <1>5 DEF PutRefused, IngestTypeOK, Polls
<1>6. ASSUME StartPoll PROVE IngestInv'
  BY <1>1, <1>3, <1>6 DEF StartPoll, IngestTypeOK, Polls, Ready
<1>7. ASSUME StartFetch PROVE IngestInv'
  <2> DEFINE n == FirstOf(poll.todo)
  <2>1. n \in Numbers
    <3>1. poll.todo \subseteq Numbers /\ poll.todo # {} /\ Numbers \subseteq Nat
      BY <1>1, <1>7 DEF StartFetch, IngestTypeOK, Numbers
    <3> QED BY <3>1, FirstOfFacts
  <2>2. <<n, "tar">> \in BundleFiles
    BY <2>1 DEF BundleFiles, Kinds
  <2> HIDE DEF n
  <2>3. CASE Next1(n) /\ UNCHANGED <<op, temps>>
    BY <1>1, <1>3, <1>7, <2>3 DEF StartFetch, Next1, IngestTypeOK, Polls
  <2>4. CASE /\ op' = [kind |-> "fetch", pc |-> "landing", at |-> <<n, "tar">>, sum |-> 0]
             /\ temps' = temps \ {<<n, "tar">>} /\ UNCHANGED poll
    <3>1. Quiet /\ UNCHANGED <<remote, poll, crashes>>
      BY <1>7, <2>4 DEF StartFetch
    <3> QED BY <1>4, <2>2, <2>4, <3>1
  <2> QED BY <1>7, <2>3, <2>4 DEF StartFetch, n
<1>8. ASSUME StageFails PROVE IngestInv'
  BY <1>1, <1>2, <1>8 DEF StageFails, Next1, IngestTypeOK, Polls
<1>9. ASSUME PollImported \/ EndPoll PROVE IngestInv'
  BY <1>1, <1>3, <1>9 DEF PollImported, EndPoll, NoPoll, IngestTypeOK, Polls
<1>10. ASSUME CrashHigh PROVE IngestInv'
  <2>1. crashes' \in 0 .. MaxCrashes
    BY <1>1, <1>10 DEF CrashHigh, IngestTypeOK, IngestAssumed
  <2> QED BY <1>1, <1>2, <1>10, <2>1 DEF CrashHigh, NoPoll, IngestTypeOK, Polls
<1>11. ASSUME NEW f \in BundleFiles, Promote(f[1], f[2]) PROVE IngestInv'
  <2>1. <<f[1], f[2]>> \in BundleFiles
    BY <1>11 DEF BundleFiles
  <2> QED BY <1>1, <1>3, <1>11, <2>1 DEF Promote, IngestTypeOK
<1>12. ASSUME NEW f \in BundleFiles, StartPut(f) PROVE IngestInv'
  BY <1>4, <1>12 DEF StartPut
<1> QED BY <1>5, <1>6, <1>7, <1>8, <1>9, <1>10, <1>11, <1>12

(* A file is taken in only after a sum below the quota, and is one unit.       *)
LEMMA RoomForOne ==
  ASSUME IngestAssumed, IngestInv, op.pc = "write", RoomLeft
  PROVE  AllUnits + 1 <= Quota /\ AllUnits \in Nat
<1>1. AllUnits \in Nat /\ AllUnits <= op.sum
  BY Counted DEF IngestInv, Measured
<1>2. op.sum \in Int /\ Quota \in Int /\ op.sum < Quota
  BY DEF IngestInv, IngestTyped, Ops, NoOp, IngestAssumed, RoomLeft
<1> QED BY <1>1, <1>2

LEMMA PutInv ==
  ASSUME IngestAssumed, IngestInv, NEW v \in {"put", "bad"}, Put(v)
  PROVE  IngestInv'
<1>1. /\ IngestTypeOK /\ rejected \in Nat /\ op \in Ops /\ poll \in Polls
  BY DEF IngestInv, IngestTyped, Put, NoOp
<1>2. AllUnits + 1 <= Quota
  BY RoomForOne DEF Put
<1>3. IngestTyped' /\ Downloads'
  BY <1>1 DEF Put, IngestTyped, IngestTypeOK, Downloads, NoOp
<1>4. PICK l \in Nat, t \in Nat, q \in Nat :
        /\ l = Cardinality(Landed) /\ t = Cardinality(temps) /\ q = Cardinality(quarantine)
        /\ rejected \in Nat /\ IsFiniteSet(Landed) /\ AllUnits = l + t + 2 * q + rejected
  BY Counted DEF IngestInv
<1>5. PICK l1 \in Nat, t1 \in Nat, q1 \in Nat, r1 \in Nat :
        /\ l1 = Cardinality(Landed') /\ t1 = Cardinality(temps') /\ q1 = Cardinality(quarantine')
        /\ r1 = rejected' /\ AllUnits' = l1 + t1 + 2 * q1 + r1
  BY <1>3, CountedNext
<1>6. Landed' \subseteq Landed \cup {op.at}
  BY <1>1 DEF Put, Landed, IngestTypeOK
<1>7. l1 <= l + 1
  BY <1>4, <1>5, <1>6, AtMostOneMore
<1>8. t1 = t /\ q1 = q /\ r1 = rejected
  BY <1>4, <1>5 DEF Put
<1>9. AllUnits' <= Quota
  BY <1>2, <1>4, <1>5, <1>7, <1>8 DEF IngestAssumed
<1> QED BY <1>3, <1>9, OnlyTheQuota DEF Put, NoOp

LEMMA StageFileInv == ASSUME IngestAssumed, IngestInv, StageFile PROVE IngestInv'
<1>1. /\ IngestTypeOK /\ rejected \in Nat /\ op \in Ops /\ poll \in Polls
      /\ op.kind = "fetch" /\ op.pc = "write" /\ op.at \in BundleFiles /\ Downloads
      /\ UNCHANGED <<remote, importVars, poll, crashes>>
  BY DEF IngestInv, IngestTyped, StageFile, NoOp, Ops
<1>2. AllUnits + 1 <= Quota
  BY <1>1, RoomForOne DEF StageFile
<1>3. PICK n \in Numbers, k \in Kinds : op.at = <<n, k>>
  BY <1>1 DEF BundleFiles
<1>4. /\ op.at[1] = n /\ op.at[2] = k /\ <<n, "sig">> \in BundleFiles /\ <<n, "tar">> \in BundleFiles
      /\ Tar = <<n, "tar">> /\ Sig = <<n, "sig">>
  BY <1>3 DEF BundleFiles, Kinds, Tar, Sig
<1>5. /\ op' \in Ops /\ op'.kind = "fetch" /\ op'.pc \in {"landing", "recheck"} /\ op'.at = <<n, "sig">>
      /\ temps' \subseteq temps \cup {op.at} /\ <<n, "tar">> \in temps'
      /\ op'.pc = "recheck" => <<n, "sig">> \in temps'
  <2>1. CASE k = "tar"
    <3>1. /\ op' = [op EXCEPT !.pc = "landing", !.at = <<n, "sig">>, !.sum = 0]
          /\ temps' = (temps \ {<<n, "sig">>}) \cup {op.at}
      BY <1>4, <2>1 DEF StageFile
    <3>2. /\ op'.kind = "fetch" /\ op'.pc = "landing" /\ op'.at = <<n, "sig">> /\ op' \in Ops
      BY <1>1, <1>4, <3>1 DEF Ops, Measuring
    <3>3. /\ <<n, "tar">> \in temps' /\ temps' \subseteq temps \cup {op.at}
      BY <1>3, <2>1, <3>1
    <3> QED BY <3>2, <3>3
  <2>2. CASE k = "sig"
    <3>1. op' = [op EXCEPT !.pc = "recheck"] /\ temps' = temps \cup {op.at}
      BY <1>4, <2>2 DEF StageFile
    <3>2. /\ op'.kind = "fetch" /\ op'.pc = "recheck" /\ op'.at = <<n, "sig">> /\ op' \in Ops
      BY <1>1, <1>3, <2>2, <3>1 DEF Ops, Publishing
    <3>3. <<n, "tar">> \in temps
      BY <1>1, <1>3, <1>4, <2>2 DEF Downloads
    <3> QED BY <1>3, <2>2, <3>1, <3>2, <3>3
  <2> QED BY <2>1, <2>2 DEF Kinds
<1>6. IngestTyped'
  <2>1. temps' \subseteq BundleFiles
    BY <1>1, <1>5 DEF IngestTypeOK
  <2> QED BY <1>1, <1>5, <2>1 DEF IngestTyped, IngestTypeOK, importVars, Measuring
<1>7. Downloads'
  <2>1. Tar' = <<n, "tar">> /\ Sig' = <<n, "sig">>
    BY <1>5 DEF Tar, Sig
  <2> QED BY <1>5, <2>1 DEF Downloads, Publishing
<1>8. PICK l \in Nat, t \in Nat, q \in Nat :
        /\ l = Cardinality(Landed) /\ t = Cardinality(temps) /\ q = Cardinality(quarantine)
        /\ rejected \in Nat /\ IsFiniteSet(temps) /\ AllUnits = l + t + 2 * q + rejected
  BY Counted DEF IngestInv
<1>9. PICK l1 \in Nat, t1 \in Nat, q1 \in Nat, r1 \in Nat :
        /\ l1 = Cardinality(Landed') /\ t1 = Cardinality(temps') /\ q1 = Cardinality(quarantine')
        /\ r1 = rejected' /\ AllUnits' = l1 + t1 + 2 * q1 + r1
  BY <1>6, CountedNext
<1>10. t1 <= t + 1
  BY <1>5, <1>8, <1>9, AtMostOneMore
<1>11. l1 = l /\ q1 = q /\ r1 = rejected
  BY <1>1, <1>8, <1>9 DEF importVars, Landed
<1>12. AllUnits' <= Quota
  BY <1>2, <1>8, <1>9, <1>10, <1>11 DEF IngestAssumed
<1> QED BY <1>5, <1>6, <1>7, <1>12, OnlyTheQuota

(* publishSFTPBundle only moves: a file that lands is a temporary less.        *)
LEMMA PublishInv == ASSUME IngestAssumed, IngestInv, Publish PROVE IngestInv'
<1>1. /\ IngestTypeOK /\ rejected \in Nat /\ op \in Ops /\ poll \in Polls
      /\ op.kind = "fetch" /\ op.pc \in Publishing /\ op.at \in BundleFiles /\ Downloads
      /\ UNCHANGED <<remote, quarantine, rejected, taken, crashes>>
  BY DEF IngestInv, IngestTyped, Publish, NoOp, Ops, Publishing
<1>2. PICK n \in Numbers, k \in Kinds : op.at = <<n, k>>
  BY <1>1 DEF BundleFiles
<1>3. /\ op.at[1] = n /\ <<n, "sig">> \in BundleFiles /\ <<n, "tar">> \in BundleFiles
      /\ Tar = <<n, "tar">> /\ Sig = <<n, "sig">> /\ op.at = Sig
      /\ <<n, "tar">> # <<n, "sig">>
  BY <1>1, <1>2 DEF BundleFiles, Kinds, Tar, Sig, Downloads
<1>4. PICK l \in Nat, t \in Nat, q \in Nat :
        /\ l = Cardinality(Landed) /\ t = Cardinality(temps) /\ q = Cardinality(quarantine)
        /\ rejected \in Nat /\ IsFiniteSet(Landed) /\ IsFiniteSet(temps)
        /\ l + t + 2 * q + rejected <= Quota
  BY Counted DEF IngestInv
<1>5. ASSUME IngestTyped', Downloads', op'.pc \notin {"quarantine", "rejected", "write"},
             \A l1, t1 \in Nat : l1 = Cardinality(Landed') /\ t1 = Cardinality(temps') => l1 + t1 <= l + t
      PROVE  IngestInv'
  <2>1. PICK l1 \in Nat, t1 \in Nat, q1 \in Nat, r1 \in Nat :
          /\ l1 = Cardinality(Landed') /\ t1 = Cardinality(temps') /\ q1 = Cardinality(quarantine')
          /\ r1 = rejected' /\ AllUnits' = l1 + t1 + 2 * q1 + r1
    BY <1>5, CountedNext
  <2>2. q1 = q /\ r1 = rejected /\ l1 + t1 <= l + t
    BY <1>1, <1>4, <1>5, <2>1
  <2>3. AllUnits' <= Quota
    BY <1>4, <2>1, <2>2 DEF IngestAssumed
  <2> QED BY <1>5, <2>3, OnlyTheQuota
<1>6. CASE /\ op' = NoOp /\ temps' = temps \ Mine(n) /\ Next1(n) /\ UNCHANGED landing
  <2>1. UNCHANGED importVars /\ temps' \subseteq temps /\ op'.pc = "free"
    BY <1>1, <1>6 DEF importVars, NoOp
  <2>2. IngestTyped' /\ Downloads'
    BY <1>1, <1>6 DEF IngestTyped, IngestTypeOK, Polls, NoOp, Next1, Downloads
  <2> QED BY <2>1, <2>2, NothingTaken
<1>7. CASE /\ op.pc = "recheck" /\ landing' = WithoutSignature
           /\ op' = [op EXCEPT !.pc = "archive"] /\ UNCHANGED <<temps, poll>>
  <2>1. op' \in Ops /\ op'.pc = "archive" /\ op'.kind = "fetch" /\ op'.at = op.at
    BY <1>1, <1>7 DEF Ops, Publishing
  <2>2. landing' \in [BundleFiles -> {"none", "put", "bad", "sftp"}] /\ landing'[<<n, "sig">>] = "none"
        /\ Landed' \subseteq Landed
    BY <1>1, <1>3, <1>7 DEF WithoutSignature, IngestTypeOK, Landed
  <2>3. IngestTyped'
    BY <1>1, <1>7, <2>1, <2>2 DEF IngestTyped, IngestTypeOK
  <2>4. Downloads'
    BY <1>1, <1>3, <1>7, <2>1, <2>2 DEF Downloads, Tar, Sig, Publishing
  <2>5. \A l1, t1 \in Nat : l1 = Cardinality(Landed') /\ t1 = Cardinality(temps') => l1 + t1 <= l + t
    BY <1>4, <1>7, <2>2, Fewer
  <2> QED BY <1>5, <2>1, <2>3, <2>4, <2>5
<1>8. CASE /\ op.pc = "archive" /\ landing' = [landing EXCEPT ![<<n, "tar">>] = "sftp"]
           /\ temps' = temps \ {<<n, "tar">>} /\ op' = [op EXCEPT !.pc = "signature"] /\ UNCHANGED poll
  <2>1. op' \in Ops /\ op'.pc = "signature" /\ op'.kind = "fetch" /\ op'.at = op.at
    BY <1>1, <1>8 DEF Ops, Publishing
  <2>2. /\ landing' \in [BundleFiles -> {"none", "put", "bad", "sftp"}] /\ landing'[<<n, "tar">>] = "sftp"
        /\ landing'[<<n, "sig">>] = landing[<<n, "sig">>]
        /\ Landed' \subseteq Landed \cup {<<n, "tar">>}
    BY <1>1, <1>3, <1>8 DEF IngestTypeOK, Landed
  <2>3. <<n, "tar">> \in temps /\ <<n, "sig">> \in temps /\ landing[<<n, "sig">>] = "none"
    BY <1>1, <1>3, <1>8 DEF Downloads
  <2>4. IngestTyped'
    BY <1>1, <1>8, <2>1, <2>2 DEF IngestTyped, IngestTypeOK
  <2>5. Downloads'
    BY <1>1, <1>3, <1>8, <2>1, <2>2, <2>3 DEF Downloads, Tar, Sig, Publishing
  <2>6. Cardinality(Landed') <= l + 1 /\ Cardinality(temps') <= t - 1
    BY <1>4, <1>8, <2>2, <2>3, AtMostOneMore, AtLeastOneLess
  <2>7. \A l1, t1 \in Nat : l1 = Cardinality(Landed') /\ t1 = Cardinality(temps') => l1 + t1 <= l + t
    BY <2>6
  <2> QED BY <1>5, <2>1, <2>4, <2>5, <2>7
<1>9. CASE /\ op.pc = "signature" /\ landing' = [landing EXCEPT ![<<n, "sig">>] = "sftp"]
           /\ temps' = temps \ Mine(n) /\ op' = NoOp
           /\ poll' = [pc |-> "import", todo |-> poll.todo \ {n}]
  <2>1. /\ landing' \in [BundleFiles -> {"none", "put", "bad", "sftp"}]
        /\ Landed' \subseteq Landed \cup {<<n, "sig">>}
    BY <1>1, <1>3, <1>9 DEF IngestTypeOK, Landed
  <2>2. <<n, "sig">> \in temps /\ <<n, "sig">> \in Mine(n)
    BY <1>1, <1>3, <1>9 DEF Downloads, Mine
  <2>3. IngestTyped' /\ Downloads' /\ op'.pc = "free"
    BY <1>1, <1>9, <2>1 DEF IngestTyped, IngestTypeOK, Polls, NoOp, Downloads
  <2>4. Cardinality(Landed') <= l + 1 /\ Cardinality(temps') <= t - 1
    BY <1>4, <1>9, <2>1, <2>2, AtMostOneMore, AtLeastOneLess
  <2>5. \A l1, t1 \in Nat : l1 = Cardinality(Landed') /\ t1 = Cardinality(temps') => l1 + t1 <= l + t
    BY <2>4
  <2> QED BY <1>5, <2>3, <2>5
<1> QED BY <1>3, <1>6, <1>7, <1>8, <1>9 DEF Publish

----------------------------------------------------------------------------
(* The importer: a bundle that leaves the landing directory frees two units.   *)
LEMMA BundleLeaves ==
  ASSUME IngestAssumed, IngestTyped, NEW n \in Numbers, Complete(n), Clear(n)
  PROVE  /\ Cardinality(Landed') \in Nat /\ Cardinality(Landed') + 2 <= Cardinality(Landed)
         /\ landing' \in [BundleFiles -> {"none", "put", "bad", "sftp"}]
<1>1. IsFiniteSet(Landed)
  BY Counted
<1>2. <<n, "tar">> \in Landed /\ <<n, "sig">> \in Landed /\ <<n, "tar">> # <<n, "sig">>
  BY DEF Complete, Landed, BundleFiles, Kinds
<1>3. Landed' \subseteq (Landed \ {<<n, "tar">>}) \ {<<n, "sig">>}
  BY DEF Clear, Landed, IngestTyped, IngestTypeOK, BundleFiles
<1>4. <<n, "sig">> \in Landed \ {<<n, "tar">>}
  BY <1>2
<1>5. IsFiniteSet(Landed \ {<<n, "tar">>}) /\ Cardinality(Landed \ {<<n, "tar">>}) <= Cardinality(Landed) - 1
      /\ Cardinality(Landed \ {<<n, "tar">>}) \in Nat /\ Cardinality(Landed) \in Nat
  BY <1>1, <1>2, AtLeastOneLess
<1>6. Cardinality(Landed') \in Nat /\ Cardinality(Landed') <= Cardinality(Landed \ {<<n, "tar">>}) - 1
  BY <1>3, <1>4, <1>5, AtLeastOneLess
<1>7. landing' \in [BundleFiles -> {"none", "put", "bad", "sftp"}]
  BY DEF Clear, IngestTyped, IngestTypeOK
<1> QED BY <1>5, <1>6, <1>7

(* The importer and the sweep move bundles on, to a directory listed later.    *)
LEMMA ImporterInv ==
  ASSUME IngestAssumed, IngestInv, ImportStep \/ ReapRejected
  PROVE  IngestInv'
<1>1. /\ IngestTypeOK /\ IngestTyped /\ rejected \in Nat /\ op \in Ops \cup {NoOp} /\ poll \in Polls
      /\ op.kind = "put" => op.pc \in Measuring
      /\ Downloads
  BY DEF IngestInv, IngestTyped
<1>2. PICK l \in Nat, t \in Nat, q \in Nat :
        /\ l = Cardinality(Landed) /\ t = Cardinality(temps) /\ q = Cardinality(quarantine)
        /\ rejected \in Nat /\ IsFiniteSet(quarantine)
        /\ LandingUnits = l + t /\ ListedUnits = l + t + 2 * q /\ AllUnits = l + t + 2 * q + rejected
  BY <1>1, Counted
<1> DEFINE Less ==
      \A l1, q1 \in Nat : l1 = Cardinality(Landed') /\ q1 = Cardinality(quarantine') =>
        l1 <= l /\ l1 + 2 * q1 <= l + 2 * q /\ l1 + 2 * q1 + rejected' <= l + 2 * q + rejected
<1> HIDE DEF Less
<1>3. ASSUME UNCHANGED <<remote, temps, op, poll, crashes>>, ImportMuFree \/ landing' = landing,
             landing' \in [BundleFiles -> {"none", "put", "bad", "sftp"}],
             quarantine' \subseteq Numbers, rejected' \in Nat, taken' \in 0 .. MaxBundle,
             Less
      PROVE  IngestInv'
  <2>1. IngestTyped'
    <3>1. Landed' \subseteq BundleFiles /\ IsFiniteSet(BundleFiles) /\ IsFiniteSet(Numbers)
      BY FilesFinite DEF Landed
    <3>2. Cardinality(Landed') \in Nat /\ Cardinality(quarantine') \in Nat
      BY <1>3, <3>1, FS_Subset, FS_CardinalityType
    <3>3. PICK l1 \in Nat, q1 \in Nat : l1 = Cardinality(Landed') /\ q1 = Cardinality(quarantine')
      BY <3>2
    <3>6. PICK r1 \in Nat : r1 = rejected'
      BY <1>3
    <3>7. l1 + 2 * q1 + r1 <= l + 2 * q + rejected
      BY <1>3, <3>3, <3>6 DEF Less
    <3>4. l + t + 2 * q + rejected <= Quota /\ Quota \in Nat
      BY <1>2, Counted DEF IngestInv, IngestAssumed
    <3>5. rejected' \in 0 .. Quota + 1
      BY <1>2, <3>4, <3>6, <3>7
    <3> QED BY <1>1, <1>3, <3>5 DEF IngestTyped, IngestTypeOK
  <2>2. Downloads'
    <3>1. Tar' = Tar /\ Sig' = Sig
      BY <1>3 DEF Tar, Sig
    <3> QED BY <1>1, <1>3, <3>1 DEF Downloads, ImportMuFree
  <2>3. PICK l1 \in Nat, t1 \in Nat, q1 \in Nat, r1 \in Nat :
          /\ l1 = Cardinality(Landed') /\ t1 = Cardinality(temps') /\ q1 = Cardinality(quarantine')
          /\ r1 = rejected' /\ LandingUnits' = l1 + t1 /\ ListedUnits' = l1 + t1 + 2 * q1
          /\ AllUnits' = l1 + t1 + 2 * q1 + r1
    BY <2>1, CountedNext
  <2>4. t1 = t
    BY <1>2, <1>3, <2>3
  <2>5. l1 <= l /\ l1 + 2 * q1 <= l + 2 * q /\ l1 + 2 * q1 + r1 <= l + 2 * q + rejected
    BY <1>3, <2>3 DEF Less
  <2>6. LandingUnits' <= LandingUnits /\ ListedUnits' <= ListedUnits /\ AllUnits' <= AllUnits
    BY <1>2, <2>3, <2>4, <2>5
  <2> QED BY <1>3, <2>1, <2>2, <2>6, NothingGrows
<1>4. ASSUME NEW n \in Numbers, SortBundle(n) PROVE IngestInv'
  <2>1. /\ Complete(n) /\ Clear(n) /\ ImportMuFree
        /\ quarantine' = IF n > taken THEN quarantine \cup {n} ELSE quarantine
        /\ UNCHANGED <<remote, rejected, taken, temps, op, poll, crashes>>
    BY <1>4 DEF SortBundle, Sortable
  <2>2. /\ Cardinality(Landed') \in Nat /\ Cardinality(Landed') + 2 <= l
        /\ landing' \in [BundleFiles -> {"none", "put", "bad", "sftp"}]
    BY <1>1, <1>2, <2>1, BundleLeaves
  <2>3. /\ Cardinality(quarantine') \in Nat /\ Cardinality(quarantine') <= q + 1
        /\ quarantine' \subseteq Numbers
    <3>1. quarantine' \subseteq quarantine \cup {n} /\ quarantine \subseteq Numbers
      BY <1>1, <2>1 DEF IngestTypeOK
    <3> QED BY <1>2, <3>1, AtMostOneMore
  <2>4. Less
    BY <1>2, <2>1, <2>2, <2>3 DEF Less
  <2> QED BY <1>1, <1>3, <2>1, <2>2, <2>3, <2>4 DEF IngestTypeOK
<1>5. ASSUME NEW n \in Numbers, ImportBundle(n) PROVE IngestInv'
  <2>1. /\ ImportMuFree /\ UNCHANGED <<remote, temps, op, poll, crashes>>
        /\ taken' \in 0 .. MaxBundle /\ rejected' \in Nat
    <3>1. n \in 0 .. MaxBundle
      BY DEF Numbers, IngestAssumed
    <3> QED BY <1>1, <1>5, <3>1 DEF ImportBundle, IngestTypeOK
  <2>2. CASE Complete(n)
    <3>1. Clear(n) /\ quarantine' = quarantine /\ rejected' <= rejected + 2
      BY <1>1, <1>5, <2>2 DEF ImportBundle
    <3>2. /\ Cardinality(Landed') \in Nat /\ Cardinality(Landed') + 2 <= l
          /\ landing' \in [BundleFiles -> {"none", "put", "bad", "sftp"}]
      BY <1>1, <1>2, <2>2, <3>1, BundleLeaves
    <3>3. Less
      BY <1>2, <2>1, <3>1, <3>2 DEF Less
    <3> QED BY <1>1, <1>3, <2>1, <3>1, <3>2, <3>3 DEF IngestTypeOK
  <2>3. CASE ~Complete(n)
    <3>1. landing' = landing /\ quarantine' = quarantine \ {n} /\ rejected' = rejected
      BY <1>5, <2>3 DEF ImportBundle
    <3>2. Landed' = Landed /\ quarantine' \subseteq quarantine
      BY <3>1 DEF Landed
    <3>3. Cardinality(quarantine') \in Nat /\ Cardinality(quarantine') <= q
      BY <1>2, <3>2, Fewer
    <3>4. Less
      BY <1>2, <3>1, <3>2, <3>3 DEF Less
    <3> QED BY <1>1, <1>3, <2>1, <3>1, <3>2, <3>4 DEF IngestTypeOK
  <2> QED BY <2>2, <2>3
<1>6. ASSUME ReapRejected PROVE IngestInv'
  <2>1. UNCHANGED <<remote, landing, quarantine, taken, temps, op, poll, crashes>> /\ rejected' = 0
    BY <1>6 DEF ReapRejected
  <2>2. Less
    BY <1>2, <2>1 DEF Landed, Less
  <2> QED BY <1>1, <1>3, <2>1, <2>2 DEF IngestTypeOK
<1> QED BY <1>4, <1>5, <1>6 DEF ImportStep

----------------------------------------------------------------------------
LEMMA IngestNextInv ==
  ASSUME IngestAssumed, IngestInv, [IngestNext]_ingestVars
  PROVE  IngestInv'
<1>1. CASE TransferStep
  BY <1>1, MeasureInv, PutInv, QuietInv, StageFileInv, PublishInv DEF TransferStep
<1>2. CASE ImportStep \/ ReapRejected
  BY <1>2, ImporterInv
<1>3. CASE CrashHigh \/ \E f \in BundleFiles : Promote(f[1], f[2]) \/ StartPut(f)
  BY <1>3, QuietInv
<1>4. CASE UNCHANGED ingestVars
  BY <1>4 DEF ingestVars, IngestInv, IngestTyped, IngestTypeOK, Measured, UnverifiedBounded, Downloads,
              Tar, Sig, Landed, LandingUnits, ListedUnits, AllUnits
<1> QED BY <1>1, <1>2, <1>3, <1>4 DEF IngestNext

LEMMA IngestInvAlways == ASSUME IngestAssumed PROVE IngestSpec => []IngestInv
<1>1. IngestInit => IngestInv
  BY IngestInitInv
<1>2. IngestInv /\ [IngestNext]_ingestVars => IngestInv'
  BY IngestNextInv
<1> QED BY <1>1, <1>2, PTL DEF IngestSpec

(* Uploads, downloads and imports in any order, crashes included, keep every    *)
(* variable of the model in its type.                                        *)
THEOREM IngestTypeCorrect == IngestSpec => []IngestTypeOK
<1> USE IngestAssumption
<1>1. IngestInv => IngestTypeOK
  BY DEF IngestInv, IngestTyped
<1> QED BY <1>1, IngestInvAlways, PTL

(* Both push transports together never store more unverified data than the     *)
(* quota allows, whatever the quota and the number of bundles: the measurement *)
(* of unverifiedTransportBytes is not atomic, and still never too low.        *)
THEOREM QuotaKept == IngestSpec => []UnverifiedBounded
<1> USE IngestAssumption
<1>1. IngestInv => UnverifiedBounded
  BY DEF IngestInv
<1> QED BY <1>1, IngestInvAlways, PTL

(* One step of a download completes a bundle only when both its files are the   *)
(* downloaded ones.                                                          *)
LEMMA CompletesOwn == ASSUME IngestAssumed, IngestInv, [IngestNext]_ingestVars PROVE CompletesItsCopy
<1> SUFFICES ASSUME op.kind = "fetch", NEW n \in Numbers, ~Complete(n), Complete(n)'
             PROVE  \A k \in Kinds : landing'[<<n, k>>] = "sftp"
  BY DEF CompletesItsCopy
<1>1. /\ IngestTypeOK /\ op \in Ops /\ op.at \in BundleFiles /\ Downloads
  BY DEF IngestInv, IngestTyped, NoOp, Ops
<1>2. \E k \in Kinds : landing[<<n, k>>] = "none" /\ landing'[<<n, k>>] # "none"
  BY DEF Complete
<1>3. PICK k \in Kinds : landing[<<n, k>>] = "none" /\ landing'[<<n, k>>] # "none" /\ <<n, k>> \in BundleFiles
  BY <1>2 DEF BundleFiles
<1>4. ~ImportStep
  BY <1>3 DEF ImportStep, SortBundle, ImportBundle, Clear
<1>5. \A v \in {"put", "bad"} : ~Put(v)
  BY DEF Put
<1>6. Publish
  BY <1>3, <1>4, <1>5 DEF IngestNext, TransferStep, Measure, PutRefused, StartPoll, StartFetch, StageFile,
     StageFails, PollImported, EndPoll, ReapRejected, CrashHigh, Promote, StartPut, importVars, ingestVars
<1>7. PICK m \in Numbers : /\ op.at[1] = m /\ Tar = <<m, "tar">> /\ Sig = <<m, "sig">>
                       /\ <<m, "tar">> \in BundleFiles /\ <<m, "sig">> \in BundleFiles
  BY <1>1 DEF BundleFiles, Kinds, Tar, Sig
<1>8. CASE op.pc = "recheck"
  BY <1>1, <1>3, <1>6, <1>7, <1>8 DEF Publish, WithoutSignature, IngestTypeOK
<1>9. CASE op.pc = "archive"
  <2>1. landing[<<m, "sig">>] = "none" /\ landing' = [landing EXCEPT ![<<m, "tar">>] = "sftp"]
    BY <1>1, <1>6, <1>7, <1>9 DEF Publish, Downloads
  <2>2. landing'[<<m, "sig">>] = "none"
    BY <1>1, <1>7, <2>1 DEF IngestTypeOK
  <2>3. <<n, k>> = <<m, "tar">>
    BY <1>1, <1>3, <1>7, <2>1 DEF IngestTypeOK
  <2>4. n = m /\ landing'[<<n, "sig">>] # "none"
    BY <2>3 DEF Complete, Kinds
  <2> QED BY <2>2, <2>4
<1>10. CASE op.pc = "signature"
  <2>1. landing[<<m, "tar">>] = "sftp" /\ landing' = [landing EXCEPT ![<<m, "sig">>] = "sftp"]
    BY <1>1, <1>6, <1>7, <1>10 DEF Publish, Downloads
  <2>2. landing'[<<m, "tar">>] = "sftp" /\ landing'[<<m, "sig">>] = "sftp"
    BY <1>1, <1>7, <2>1 DEF IngestTypeOK
  <2>3. <<n, k>> = <<m, "sig">>
    BY <1>1, <1>3, <1>7, <2>1 DEF IngestTypeOK
  <2> QED BY <2>2, <2>3 DEF Kinds
<1> QED BY <1>6, <1>8, <1>9, <1>10 DEF Publish

(* An SFTP download never completes a bundle with a file of another copy, though *)
(* its two renames and the removal before them are steps of their own.         *)
THEOREM CopiesNotMixed == IngestSpec => NoMixedCopy
<1> USE IngestAssumption
<1>1. IngestInv /\ [IngestNext]_ingestVars => [CompletesItsCopy]_ingestVars
  BY CompletesOwn
<1> QED BY <1>1, IngestInvAlways, PTL DEF IngestSpec, NoMixedCopy

----------------------------------------------------------------------------
(* Heartbeats.                                                              *)

Packet == [created : Nat, last : Nat, epoch : {0, 1}]
RecordType == [received : BOOLEAN, created : Nat, last : Nat, epoch : {0, 1}, age : Nat]

Shapes ==
  /\ exported \in Nat /\ lowClock \in Nat /\ epoch \in {0, 1}
  /\ wire \subseteq Packet /\ hbFile \ {Junk} \subseteq Packet
  /\ record \in RecordType

(* Heartbeats that may still be recorded, and the one that was.               *)
Known == wire \cup (hbFile \ {Junk}) \cup {record}

Past ==
  \A p \in Known : p.epoch <= epoch /\ p.last <= exported /\ (p.epoch = epoch => p.created <= lowClock)

Ordered == \A p, q \in Known : p.epoch = q.epoch /\ p.created > q.created => p.last >= q.last

MonitorInv == Shapes /\ Past /\ Ordered

----------------------------------------------------------------------------
LEMMA MonitorStart ==
  ASSUME MonitorInit
  PROVE  MonitorInv
<1>1. /\ wire = {} /\ hbFile = {} /\ lowClock = 1 /\ exported = 0 /\ epoch = 0
      /\ record = [received |-> FALSE, created |-> 0, last |-> 0, epoch |-> 0, age |-> 0]
  BY DEF MonitorInit, NoRecord
<1>2. record \in RecordType
  BY <1>1 DEF RecordType
<1>3. Known = {record} /\ record.created = 0 /\ record.last = 0 /\ record.epoch = 0
  BY <1>1 DEF Known
<1> QED BY <1>1, <1>2, <1>3 DEF MonitorInv, Shapes, Past, Ordered

(* What is known are numbers.                                               *)
LEMMA KnownNumbers ==
  ASSUME Shapes
  PROVE  \A p \in Known : p.created \in Nat /\ p.last \in Nat /\ p.epoch \in {0, 1}
  BY DEF Shapes, Known, Packet, RecordType

(* Steps that bring no new heartbeat: what is recorded was known, the low      *)
(* side only moves on.                                                      *)
LEMMA LessKnown ==
  ASSUME MonitorInv, Shapes',
         \A p \in Known' : \E q \in Known : p.created = q.created /\ p.last = q.last /\ p.epoch = q.epoch,
         exported' >= exported, UNCHANGED <<lowClock, epoch>>
  PROVE  MonitorInv'
<1>1. Past'
  <2> SUFFICES ASSUME NEW p \in Known'
               PROVE  p.epoch <= epoch' /\ p.last <= exported' /\ (p.epoch = epoch' => p.created <= lowClock')
    BY DEF Past
  <2>1. PICK q \in Known : p.created = q.created /\ p.last = q.last /\ p.epoch = q.epoch
    OBVIOUS
  <2>2. q.epoch <= epoch /\ q.last <= exported /\ (q.epoch = epoch => q.created <= lowClock)
    BY DEF MonitorInv, Past
  <2>3. q.last \in Nat /\ exported \in Nat /\ exported' \in Nat
    BY KnownNumbers DEF MonitorInv, Shapes
  <2> QED BY <2>1, <2>2, <2>3
<1>2. Ordered'
  BY DEF MonitorInv, Ordered
<1> QED BY <1>1, <1>2 DEF MonitorInv

LEMMA SendKeeps ==
  ASSUME MonitorAssumed, MonitorInv, SendHeartbeat
  PROVE  MonitorInv'
<1> DEFINE new == [created |-> lowClock, last |-> exported, epoch |-> epoch]
<1>1. /\ wire' \subseteq wire \cup {new} /\ UNCHANGED <<exported, epoch, hbFile, record>>
      /\ lowClock' = IF lowClock < MaxClock THEN lowClock + 1 ELSE lowClock
  BY DEF SendHeartbeat, bundleVars
<1>2. exported \in Nat /\ lowClock \in Nat /\ epoch \in {0, 1}
  BY DEF MonitorInv, Shapes
<1>3. new \in Packet /\ new.created = lowClock /\ new.last = exported /\ new.epoch = epoch
  BY <1>2 DEF Packet
<1> HIDE DEF new
<1>4. Shapes'
  BY <1>1, <1>2, <1>3 DEF MonitorInv, Shapes, MonitorAssumed
<1>5. Known' \subseteq Known \cup {new}
  BY <1>1 DEF Known
<1>6. \A p \in Known : p.created \in Nat /\ p.last \in Nat
  BY KnownNumbers DEF MonitorInv
<1>7. Past'
  <2> SUFFICES ASSUME NEW p \in Known'
               PROVE  p.epoch <= epoch' /\ p.last <= exported' /\ (p.epoch = epoch' => p.created <= lowClock')
    BY DEF Past
  <2>1. CASE p = new
    BY <2>1, <1>1, <1>2, <1>3
  <2>2. CASE p \in Known
    <3>1. p.epoch <= epoch /\ p.last <= exported /\ (p.epoch = epoch => p.created <= lowClock)
      BY <2>2 DEF MonitorInv, Past
    <3>2. p.created \in Nat
      BY <2>2, <1>6
    <3> QED BY <3>1, <3>2, <1>1, <1>2
  <2> QED BY <2>1, <2>2, <1>5
<1>8. Ordered'
  <2> SUFFICES ASSUME NEW p \in Known', NEW q \in Known', p.epoch = q.epoch, p.created > q.created
               PROVE  p.last >= q.last
    BY DEF Ordered
  <2>1. CASE p \in Known /\ q \in Known
    BY <2>1 DEF MonitorInv, Ordered
  <2>2. CASE p = new /\ q \in Known
    BY <2>2, <1>2, <1>3, <1>6 DEF MonitorInv, Past
  <2>3. CASE p \in Known /\ q = new
    BY <2>3, <1>2, <1>3, <1>6 DEF MonitorInv, Past
  <2>4. CASE p = new /\ q = new
    BY <2>4, <1>2, <1>3
  <2> QED BY <2>1, <2>2, <2>3, <2>4, <1>5
<1> QED BY <1>4, <1>7, <1>8 DEF MonitorInv

LEMMA ResetKeeps ==
  ASSUME MonitorInv, ResetClock
  PROVE  MonitorInv'
<1>1. /\ epoch = 0 /\ epoch' = 1 /\ lowClock' = 1 /\ Known' = Known
      /\ UNCHANGED <<exported, wire, hbFile, record>>
  BY DEF ResetClock, bundleVars, Known
<1>2. Shapes' /\ Ordered'
  BY <1>1 DEF MonitorInv, Shapes, Ordered
<1>3. Past'
  BY <1>1, KnownNumbers DEF MonitorInv, Past
<1> QED BY <1>2, <1>3 DEF MonitorInv

(* recordHeartbeat on a known heartbeat.                                      *)
LEMMA RecordedKnown ==
  ASSUME MonitorInv, NEW p \in wire \cup (hbFile \ {Junk}), record' = Recorded(p)
  PROVE  /\ record' \in RecordType
         /\ \E q \in Known : record'.created = q.created /\ record'.last = q.last /\ record'.epoch = q.epoch
<1>1. p \in Packet /\ p \in Known /\ record \in Known /\ record \in RecordType
  BY DEF MonitorInv, Shapes, Known
<1>2. CASE Accepts(p)
  <2>1. record' = [received |-> TRUE, created |-> p.created, last |-> p.last, epoch |-> p.epoch, age |-> 0]
    BY <1>2 DEF Recorded
  <2>2. record' \in RecordType
    BY <1>1, <2>1 DEF Packet, RecordType
  <2> QED BY <1>1, <2>1, <2>2
<1>3. CASE ~Accepts(p)
  BY <1>1, <1>3 DEF Recorded
<1> QED BY <1>2, <1>3

LEMMA HandleKeeps ==
  ASSUME MonitorInv, NEW p \in wire, HandleHeartbeat(p)
  PROVE  MonitorInv'
<1>1. record' = Recorded(p) /\ wire' \subseteq wire /\ UNCHANGED <<exported, lowClock, epoch, hbFile>>
  BY DEF HandleHeartbeat, Taken, bundleVars
<1>2. /\ record' \in RecordType
      /\ \E q \in Known : record'.created = q.created /\ record'.last = q.last /\ record'.epoch = q.epoch
  BY <1>1, RecordedKnown
<1>3. Shapes'
  BY <1>1, <1>2 DEF MonitorInv, Shapes
<1>4. \A k \in Known' : k \in Known \/ k = record'
  BY <1>1 DEF Known
<1>5. exported' >= exported
  BY <1>1 DEF MonitorInv, Shapes
<1> QED BY <1>1, <1>2, <1>3, <1>4, <1>5, LessKnown

LEMMA FileKeeps ==
  ASSUME MonitorInv, ReadHeartbeatFile
  PROVE  MonitorInv'
<1>1. PICK p \in hbFile : record' = Recorded(p)
  BY DEF ReadHeartbeatFile
<1>2. p \in hbFile \ {Junk} /\ UNCHANGED <<exported, lowClock, epoch, wire, hbFile>>
  BY <1>1 DEF ReadHeartbeatFile, bundleVars, linkVars
<1>3. /\ record' \in RecordType
      /\ \E q \in Known : record'.created = q.created /\ record'.last = q.last /\ record'.epoch = q.epoch
  BY <1>1, <1>2, RecordedKnown
<1>4. Shapes'
  BY <1>2, <1>3 DEF MonitorInv, Shapes
<1>5. \A k \in Known' : k \in Known \/ k = record'
  BY <1>2 DEF Known
<1>6. exported' >= exported
  BY <1>2 DEF MonitorInv, Shapes
<1> QED BY <1>2, <1>3, <1>4, <1>5, <1>6, LessKnown

(* Steps that only move, drop or age what is known.                          *)
LEMMA MoveKeeps ==
  ASSUME MonitorInv, wire' \subseteq wire, hbFile' \subseteq hbFile \cup wire \cup {Junk},
         record' = record, exported' \in Nat, exported' >= exported, UNCHANGED <<lowClock, epoch>>
  PROVE  MonitorInv'
<1>1. Shapes'
  BY DEF MonitorInv, Shapes
<1>2. Known' \subseteq Known
  BY DEF Known
<1> QED BY <1>1, <1>2, LessKnown

LEMMA AgeKeeps ==
  ASSUME MonitorAssumed, MonitorInv, Age
  PROVE  MonitorInv'
<1>1. record \in RecordType /\ UNCHANGED <<exported, lowClock, epoch, wire, hbFile>>
  BY DEF MonitorInv, Shapes, Age, bundleVars, linkVars
<1>2. /\ record' = [record EXCEPT !.age = @ + 1]
      /\ record' \in RecordType /\ record'.created = record.created
      /\ record'.last = record.last /\ record'.epoch = record.epoch
  BY <1>1 DEF Age, RecordType
<1>3. Shapes'
  BY <1>1, <1>2 DEF MonitorInv, Shapes
<1>4. \A k \in Known' : k \in Known \/ k = record'
  BY <1>1 DEF Known
<1>5. exported' >= exported /\ record \in Known
  BY <1>1 DEF MonitorInv, Shapes, Known
<1> QED BY <1>1, <1>2, <1>3, <1>4, <1>5, LessKnown

LEMMA MonitorStep ==
  ASSUME MonitorAssumed, MonitorInv, [MonitorNext]_monitorVars
  PROVE  MonitorInv'
<1>0. exported \in Nat
  BY DEF MonitorInv, Shapes
<1>1. CASE Export
  BY <1>0, <1>1, MoveKeeps DEF Export, linkVars
<1>2. ASSUME NEW n \in 1 .. MaxExport, Lose(n) \/ Cross(n) \/ Reexport(n)
      PROVE  MonitorInv'
  BY <1>0, <1>2, MoveKeeps DEF Lose, Cross, Reexport, linkVars
<1>3. CASE SendHeartbeat
  BY <1>3, SendKeeps
<1>4. CASE ResetClock
  BY <1>4, ResetKeeps
<1>5. CASE DropJunk
  BY <1>0, <1>5, MoveKeeps DEF DropJunk, bundleVars
<1>6. ASSUME NEW p \in wire, HandleHeartbeat(p) \/ CarryHeartbeat(p)
      PROVE  MonitorInv'
  <2>1. CASE HandleHeartbeat(p)
    BY <2>1, HandleKeeps
  <2>2. CASE CarryHeartbeat(p)
    BY <1>0, <2>2, MoveKeeps DEF CarryHeartbeat, Taken, bundleVars
  <2> QED BY <1>6, <2>1, <2>2
<1>7. CASE ReadHeartbeatFile
  BY <1>7, FileKeeps
<1>8. CASE RemoveHeartbeatFile
  BY <1>0, <1>8, MoveKeeps DEF RemoveHeartbeatFile, bundleVars, linkVars
<1>9. CASE Age
  BY <1>9, AgeKeeps
<1>10. CASE ImportPass \/ ImportPassFails
  BY <1>0, <1>10, MoveKeeps DEF ImportPass, ImportPassFails, linkVars
<1>11. CASE UNCHANGED monitorVars
  BY <1>0, <1>11, MoveKeeps DEF monitorVars
<1> QED BY <1>1, <1>2, <1>3, <1>4, <1>5, <1>6, <1>7, <1>8, <1>9, <1>10, <1>11 DEF MonitorNext

(* What a fresh record accepts is newer, so it reports as much or more.        *)
LEMMA AcceptedGrows ==
  ASSUME MonitorAssumed, MonitorInv, NEW p \in wire \cup (hbFile \ {Junk}), record' = Recorded(p)
  PROVE  Grows
<1> SUFFICES ASSUME record.received, record.age < Window, record'.epoch = record.epoch
             PROVE  record'.last >= record.last
  BY DEF Grows
<1>1. p \in Known /\ record \in Known /\ record \in RecordType
  BY DEF MonitorInv, Shapes, Known
<1>2. CASE Accepts(p)
  <2>1. p.created > record.created
    BY <1>1, <1>2 DEF Accepts, RecordType, MonitorAssumed
  <2>2. record'.last = p.last /\ record'.epoch = p.epoch
    BY <1>2 DEF Recorded
  <2> QED BY <1>1, <2>1, <2>2 DEF MonitorInv, Ordered
<1>3. CASE ~Accepts(p)
  BY <1>1, <1>3 DEF Recorded, RecordType
<1> QED BY <1>2, <1>3

LEMMA StepGrows ==
  ASSUME MonitorAssumed, MonitorInv, [MonitorNext]_monitorVars
  PROVE  [Grows]_monitorVars
<1>1. record \in RecordType
  BY DEF MonitorInv, Shapes
<1>2. CASE record' = record
  BY <1>1, <1>2 DEF Grows, RecordType
<1>3. CASE Age
  BY <1>1, <1>3 DEF Age, Grows, RecordType
<1>4. ASSUME NEW p \in wire, HandleHeartbeat(p)
      PROVE  Grows
  BY <1>4, AcceptedGrows DEF HandleHeartbeat
<1>5. CASE ReadHeartbeatFile
  <2>1. \E p \in hbFile \ {Junk} : record' = Recorded(p)
    BY <1>5 DEF ReadHeartbeatFile
  <2> QED BY <2>1, AcceptedGrows
<1>6. record' = record \/ Age \/ (\E p \in wire : HandleHeartbeat(p)) \/ ReadHeartbeatFile
  BY DEF MonitorNext, monitorVars, Export, Lose, Cross, Reexport, SendHeartbeat, ResetClock, DropJunk,
         CarryHeartbeat, RemoveHeartbeatFile, ImportPass, ImportPassFails
<1> QED BY <1>2, <1>3, <1>4, <1>5, <1>6

----------------------------------------------------------------------------
(* A replayed, overtaken or carried heartbeat never makes the high side take    *)
(* back a sequence it has shown while the record is fresh                     *)
(* (diodeHeartbeatState.record).                                             *)
THEOREM ReportOnlyGrows == MonitorSpec => ReportNeverShrinks
<1> USE MonitorAssumption
<1> QED BY MonitorStart, MonitorStep, StepGrows, PTL DEF MonitorSpec, ReportNeverShrinks

----------------------------------------------------------------------------
(* What an import pass reaches: the least number whose successor is missing.  *)
LEMMA ReachFacts ==
  ASSUME MonitorAssumed, MonitorTypeOK
  PROVE  Reach \in imported .. exported
<1> DEFINE S == {n \in imported .. MaxExport : n + 1 \notin arrived}
<1>1. /\ imported \in Nat /\ exported \in Nat /\ MaxExport \in Nat /\ imported <= exported /\ exported <= MaxExport
      /\ arrived \subseteq 1 .. exported
  BY DEF MonitorAssumed, MonitorTypeOK
<1>2. S \in SUBSET Nat /\ MaxExport \in S
  BY <1>1
<1> HIDE DEF S
<1>3. PICK m \in S : \A n \in S : m <= n
  BY <1>2, LeastNatural
<1>4. m \in imported .. MaxExport /\ m + 1 \notin arrived
  BY <1>3 DEF S
<1>5. (imported + 1) .. m \subseteq arrived
  <2> SUFFICES ASSUME NEW k \in (imported + 1) .. m
               PROVE  k \in arrived
    OBVIOUS
  <2>1. k - 1 \in imported .. MaxExport /\ ~ (m <= k - 1) /\ (k - 1) + 1 = k
    BY <1>1, <1>4
  <2>2. k - 1 \notin S
    BY <1>3, <2>1
  <2> QED BY <2>1, <2>2 DEF S
<1>6. Reach \in imported .. MaxExport /\ (imported + 1) .. Reach \subseteq arrived
  BY <1>4, <1>5 DEF Reach
<1>7. Reach > imported => Reach \in arrived
  BY <1>1, <1>6
<1> QED BY <1>1, <1>6, <1>7

(* What the status calls the highest is a bundle that was exported.           *)
LEMMA StatusFacts ==
  ASSUME MonitorAssumed, MonitorTypeOK, NEW n \in 0 .. exported
  PROVE  Status(n).highest \in 0 .. exported
<1> DEFINE A == arrived \cup {n}
           below(x) == exported - x
           S == {below(x) : x \in A}
<1>1. exported \in Nat /\ A \subseteq 0 .. exported /\ A # {}
  BY DEF MonitorAssumed, MonitorTypeOK
<1>2. S \in SUBSET Nat /\ S # {}
  BY <1>1
<1>3. PICK m \in S : \A k \in S : m <= k
  <2> HIDE DEF S
  <2> QED BY <1>2, LeastNatural
<1>4. PICK x \in A : m = below(x)
  BY <1>3
<1>5. \A y \in A : below(y) \in S
  OBVIOUS
<1>6. \A y \in A : x >= y
  <2> SUFFICES ASSUME NEW y \in A PROVE x >= y
    OBVIOUS
  <2>1. below(x) <= below(y)
    BY <1>3, <1>4, <1>5
  <2>2. x \in Int /\ y \in Int /\ exported \in Int
    BY <1>1
  <2> QED BY <2>1, <2>2
<1>7. Max(A) \in A
  BY <1>6 DEF Max
<1> QED BY <1>1, <1>7 DEF Status

LEMMA MonitorTyped ==
  ASSUME MonitorAssumed, MonitorInit
  PROVE  MonitorTypeOK
<1>1. Cardinality({}) = 0
  BY FS_EmptySet
<1> QED BY <1>1 DEF MonitorInit, MonitorTypeOK, MonitorAssumed, NoRecord, NoSnapshot

LEMMA MonitorTypeStep ==
  ASSUME MonitorAssumed, MonitorInv, MonitorTypeOK, [MonitorNext]_monitorVars
  PROVE  MonitorTypeOK'
<1>1. /\ exported \in 0 .. MaxExport /\ imported \in 0 .. exported /\ transit \cup lost \cup arrived = 1 .. exported
      /\ lowClock \in 1 .. MaxClock /\ epoch \in {0, 1} /\ replays \in 0 .. MaxReplays /\ Cardinality(hbFile) <= 1
      /\ record.age \in 0 .. Window /\ record.last \in 0 .. exported /\ snapshot.highest \in 0 .. exported
  BY DEF MonitorTypeOK
<1>2. MaxExport \in Nat /\ MaxClock \in Nat \ {0} /\ Window \in Nat /\ MaxReplays \in Nat
  BY DEF MonitorAssumed
<1>3. \A x : Cardinality({x}) = 1
  BY FS_Singleton
<1>4. ASSUME NEW p \in wire \cup (hbFile \ {Junk}), record' = Recorded(p), exported' = exported
      PROVE  record'.age \in 0 .. Window /\ record'.last \in 0 .. exported'
  <2>1. p \in Known /\ p \in Packet
    BY DEF MonitorInv, Shapes, Known
  <2>2. p.last \in Nat /\ p.last <= exported
    BY <2>1 DEF MonitorInv, Past, Packet
  <2>3. CASE Accepts(p)
    BY <1>1, <1>2, <1>4, <2>2, <2>3 DEF Recorded
  <2>4. CASE ~Accepts(p)
    BY <1>1, <1>4, <2>4 DEF Recorded
  <2> QED BY <2>3, <2>4
<1>5. CASE Export
  <2>1. 1 .. exported' = (1 .. exported) \cup {exported + 1} /\ exported' \in 0 .. MaxExport
    BY <1>1, <1>2, <1>5 DEF Export
  <2>2. transit' \cup lost' \cup arrived' = 1 .. exported'
    BY <1>1, <1>5, <2>1 DEF Export
  <2>3. imported' \in 0 .. exported' /\ record'.last \in 0 .. exported' /\ snapshot'.highest \in 0 .. exported'
    BY <1>1, <1>2, <1>5 DEF Export
  <2> QED BY <1>1, <1>5, <2>1, <2>2, <2>3 DEF Export, MonitorTypeOK, linkVars
<1>6. ASSUME NEW n \in 1 .. MaxExport, Lose(n) \/ Cross(n) \/ Reexport(n)
      PROVE  MonitorTypeOK'
  <2>1. transit' \cup lost' \cup arrived' = transit \cup lost \cup arrived
    BY <1>6 DEF Lose, Cross, Reexport
  <2> QED BY <1>1, <1>6, <2>1 DEF Lose, Cross, Reexport, MonitorTypeOK, linkVars
<1>7. CASE SendHeartbeat
  BY <1>1, <1>2, <1>7 DEF SendHeartbeat, MonitorTypeOK, bundleVars
<1>8. CASE ResetClock
  BY <1>1, <1>2, <1>8 DEF ResetClock, MonitorTypeOK, bundleVars
<1>9. CASE DropJunk
  <2>1. Cardinality(hbFile') <= 1
    <3>1. hbFile' = {Junk}
      BY <1>9 DEF DropJunk
    <3>2. Cardinality(hbFile') = 1
      BY <1>3, <3>1
    <3> QED BY <3>2
  <2> QED BY <1>1, <1>2, <1>9, <2>1 DEF DropJunk, MonitorTypeOK, bundleVars
<1>10. ASSUME NEW p \in wire, HandleHeartbeat(p)
       PROVE  MonitorTypeOK'
  <2>1. replays' \in 0 .. MaxReplays
    BY <1>1, <1>2, <1>10 DEF HandleHeartbeat, Taken
  <2>2. exported' = exported /\ record' = Recorded(p)
    BY <1>10 DEF HandleHeartbeat, bundleVars
  <2>3. record'.age \in 0 .. Window /\ record'.last \in 0 .. exported'
    BY <1>4, <2>2
  <2> QED BY <1>1, <1>10, <2>1, <2>3 DEF HandleHeartbeat, MonitorTypeOK, bundleVars
<1>11. ASSUME NEW p \in wire, CarryHeartbeat(p)
       PROVE  MonitorTypeOK'
  <2>1. replays' \in 0 .. MaxReplays
    BY <1>1, <1>2, <1>11 DEF CarryHeartbeat, Taken
  <2>2. Cardinality(hbFile') <= 1
    BY <1>3, <1>11 DEF CarryHeartbeat
  <2> QED BY <1>1, <1>11, <2>1, <2>2 DEF CarryHeartbeat, MonitorTypeOK, bundleVars
<1>12. CASE ReadHeartbeatFile
  <2>1. PICK p \in hbFile : record' = Recorded(p)
    BY <1>12 DEF ReadHeartbeatFile
  <2>2. p \in hbFile \ {Junk} /\ exported' = exported
    BY <1>12 DEF ReadHeartbeatFile, bundleVars
  <2>3. record'.age \in 0 .. Window /\ record'.last \in 0 .. exported'
    BY <1>4, <2>1, <2>2
  <2> QED BY <1>1, <1>12, <2>3 DEF ReadHeartbeatFile, MonitorTypeOK, bundleVars, linkVars
<1>13. CASE RemoveHeartbeatFile
  <2>1. Cardinality({}) = 0
    BY FS_EmptySet
  <2> QED BY <1>1, <1>13, <2>1 DEF RemoveHeartbeatFile, MonitorTypeOK, bundleVars, linkVars
<1>14. CASE Age
  <2>1. record' = [record EXCEPT !.age = @ + 1] /\ record \in RecordType /\ record.age < Window
    BY <1>14 DEF Age, MonitorInv, Shapes
  <2>2. record'.age \in 0 .. Window /\ record'.last = record.last
    BY <1>1, <1>2, <2>1 DEF RecordType
  <2> QED BY <1>1, <1>14, <2>2 DEF Age, MonitorTypeOK, bundleVars, linkVars
<1>15. CASE ImportPass
  <2>1. imported' = Reach /\ Reach \in 0 .. exported
    BY <1>1, <1>2, <1>15, ReachFacts DEF ImportPass
  <2>2. snapshot'.highest \in 0 .. exported
    BY <2>1, <1>15, StatusFacts DEF ImportPass
  <2> QED BY <1>1, <1>15, <2>1, <2>2 DEF ImportPass, MonitorTypeOK, linkVars
<1>16. CASE ImportPassFails
  <2>1. imported' \in 0 .. exported
    BY <1>1, <1>2, <1>16, ReachFacts DEF ImportPassFails
  <2> QED BY <1>1, <1>16, <2>1 DEF ImportPassFails, MonitorTypeOK, linkVars
<1>17. CASE UNCHANGED monitorVars
  BY <1>1, <1>17 DEF monitorVars, MonitorTypeOK
<1> QED BY <1>5, <1>6, <1>7, <1>8, <1>9, <1>10, <1>11, <1>12, <1>13, <1>14, <1>15, <1>16, <1>17 DEF MonitorNext

(* Nothing reported, recorded or imported is ahead of what the low side has    *)
(* exported, the receiver's import never goes back, and each exported bundle  *)
(* is somewhere (diodeheartbeat.go, buildImportStatus).                       *)
THEOREM MonitorTypeCorrect == MonitorSpec => []MonitorTypeOK
<1> USE MonitorAssumption
<1>1. MonitorInit => MonitorInv /\ MonitorTypeOK
  BY MonitorStart, MonitorTyped
<1>2. MonitorInv /\ MonitorTypeOK /\ [MonitorNext]_monitorVars => (MonitorInv /\ MonitorTypeOK)'
  BY MonitorStep, MonitorTypeStep
<1> QED BY <1>1, <1>2, PTL DEF MonitorSpec
=============================================================================
