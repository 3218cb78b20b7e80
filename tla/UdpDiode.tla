------------------------------ MODULE UdpDiode ------------------------------
(***************************************************************************)
(* One file crossing the UDP diode: pitcher.go sends it as Reed-Solomon    *)
(* blocks of shards, one datagram each, with no answer ever; catcher.go    *)
(* and diodewire.go put the blocks together again, keep what a silent      *)
(* transfer had for the next re-send, and land the file by rename after    *)
(* its SHA-256 matched.                                                    *)
(*                                                                         *)
(* Every datagram of a send may arrive any number of times, in any order,  *)
(* late or never; damaged ones fail their CRC and are lost.  Every send of *)
(* the file carries the same bytes under a transfer id of its own.  Time   *)
(* is not modelled: a transfer may go silent whenever it is active.        *)
(***************************************************************************)
EXTENDS Integers, FiniteSets

CONSTANTS
  Transfers,      \* bound: transfer ids, one per send of the file
  BlockCount,     \* blocks of the file
  DataShards,     \* any DataShards of a block's shards rebuild it
  ParityShards,
  MaxTransfers,   \* diodeMaxTransfers
  MaxOpenBlocks,  \* diodeMaxOpenBlocks
  Room,           \* diodeMaxUnverifiedBytes, in files of this size
  None            \* absent

VARIABLES
  sent,        \* transfers the pitcher has sent
  active,      \* diodeAssembler.active: transfer -> its reassembly, or None
  done,        \* diodeAssembler.done: transfers whose datagrams are ignored
  state,       \* <name>.udp-part.json: blocks it claims, or None
  part,        \* <name>.udp-part: blocks whose bytes it holds, or None
  persisting,  \* bytes persistPartial is about to rename to part, or None
  landed       \* the landed file: blocks whose bytes it holds, or None

udpVars == <<sent, active, done, state, part, persisting, landed>>

Blocks == 1 .. BlockCount
Shards == 1 .. (DataShards + ParityShards)
NewTransfer == [have |-> [b \in Blocks |-> {}], written |-> {}, claimed |-> {}]

(* Transfers are finitely many; the room is a number.                       *)
UdpAssumed == IsFiniteSet(Transfers) /\ Room \in Nat
ASSUME UdpDiodeAssumption == UdpAssumed

UdpInit ==
  /\ sent = {} /\ done = {}
  /\ active = [t \in Transfers |-> None]
  /\ state = None /\ part = None /\ persisting = None /\ landed = None

Active == {t \in Transfers : active[t] # None}
OpenBlocks(r) == {b \in Blocks : r.have[b] # {}}
Oldest(S) == CHOOSE b \in S : \A c \in S : b <= c

----------------------------------------------------------------------------
(* sendFile: the pitcher sends every shard of every block under a fresh id.  *)
Send(t) ==
  /\ t \notin sent
  /\ sent' = sent \cup {t}
  /\ UNCHANGED <<active, done, state, part, persisting, landed>>

----------------------------------------------------------------------------
(* probePartial: a kept partial of the same file with some blocks, not all.  *)
Resumable == state \notin {None, {}, Blocks} /\ part # None

(* storedUnverifiedBytes plus the whole size of every active transfer.       *)
Stored == (IF landed = None THEN 0 ELSE 1) + (IF part = None THEN 0 ELSE 1)

StoredOnly ==   \* mutant: what is in reassembly is not counted
  /\ Cardinality(Active) < MaxTransfers
  /\ Stored - (IF Resumable THEN 1 ELSE 0) < Room
Admitted ==
  /\ Cardinality(Active) < MaxTransfers
  /\ Stored - (IF Resumable THEN 1 ELSE 0) + Cardinality(Active) < Room

(* openTransfer, adoptPartialFile: the partial's bytes and claims move into  *)
(* the new transfer.                                                        *)
Opened == IF Resumable THEN [NewTransfer EXCEPT !.written = part, !.claimed = state] ELSE NewTransfer

TakePartial(t) ==
  IF active[t] = None /\ Resumable THEN state' = None /\ part' = None ELSE UNCHANGED <<state, part>>

(* blockFor, evictOpenBlock: with too many open blocks the lowest is given   *)
(* up for a later one.                                                      *)
MakeRoom(r, b) ==
  IF b \in OpenBlocks(r) \/ Cardinality(OpenBlocks(r)) < MaxOpenBlocks THEN r
  ELSE [r EXCEPT !.have[Oldest(OpenBlocks(r))] = {}]
Fits(r, b) ==
  \/ b \in OpenBlocks(r) \/ Cardinality(OpenBlocks(r)) < MaxOpenBlocks
  \/ b > Oldest(OpenBlocks(r))

(* addShard and completeBlock: the last shard needed writes the block.       *)
WithShard(r, b, i) ==
  LET have == MakeRoom(r, b).have[b] \cup {i}
  IN  IF Cardinality(have) < DataShards
      THEN [MakeRoom(r, b) EXCEPT !.have[b] = have]
      ELSE [MakeRoom(r, b) EXCEPT !.have[b] = {}, !.written = @ \cup {b}, !.claimed = @ \cup {b}]

(* finishTransfer, landFile: only a file whose hash matches is landed; it     *)
(* replaces one of the same name and makes the partial superfluous.          *)
HashMatches(r) == r.written = Blocks
Finish(t, r) ==
  /\ active' = [active EXCEPT ![t] = None]
  /\ done' = done \cup {t}
  /\ IF HashMatches(r)
     THEN landed' = r.written /\ state' = None /\ part' = None
     ELSE UNCHANGED landed /\ TakePartial(t)

(* parseDiodePacket, validate: a datagram that passes its CRC is one of a     *)
(* send.                                                                    *)
Received(t) == t \in sent

(* handleDatagram                                                           *)
Deliver(t, b, i) ==
  /\ persisting = None
  /\ Received(t) /\ t \notin done
  /\ active[t] # None \/ Admitted
  /\ LET opened == IF active[t] = None THEN Opened ELSE active[t]
         r == IF b \in opened.claimed \/ ~Fits(opened, b) THEN opened ELSE WithShard(opened, b, i)
     IN  \/ /\ r.claimed = Blocks
            /\ Finish(t, r)
         \/ /\ r.claimed # Blocks
            /\ active' = [active EXCEPT ![t] = r]
            /\ TakePartial(t)
            /\ UNCHANGED <<done, landed>>
  /\ UNCHANGED <<sent, persisting>>

(* failTransfer: a block could not be rebuilt or written.                   *)
Fail(t) ==
  /\ persisting = None /\ t \in Active
  /\ active' = [active EXCEPT ![t] = None]
  /\ done' = done \cup {t}
  /\ UNCHANGED <<sent, state, part, persisting, landed>>

(* betterPartialExists                                                      *)
BetterPartial(r) ==
  state # None /\ part # None /\ Cardinality(state) >= Cardinality(r.claimed)

(* expireStale, persistPartial: a silent transfer's claims are written       *)
(* first, then its bytes are renamed.                                       *)
Expire(t) ==
  /\ persisting = None /\ t \in Active
  /\ active' = [active EXCEPT ![t] = None]
  /\ IF active[t].claimed = {} \/ BetterPartial(active[t])
     THEN UNCHANGED <<state, persisting>>
     ELSE state' = active[t].claimed /\ persisting' = active[t].written
  /\ UNCHANGED <<sent, done, part, landed>>

PersistData ==
  /\ persisting # None
  /\ part' = persisting
  /\ persisting' = None
  /\ UNCHANGED <<sent, active, done, state, landed>>

(* Writing either half failed: both are dropped.                            *)
PersistFails ==
  /\ persisting # None
  /\ state' = None /\ part' = None /\ persisting' = None
  /\ UNCHANGED <<sent, active, done, landed>>

(* reapPartials after a day; rememberDone's ring and diodeDoneRemember.      *)
Reap ==
  /\ persisting = None /\ state # None
  /\ state' = None /\ part' = None
  /\ UNCHANGED <<sent, active, done, persisting, landed>>

ForgetDone(t) ==
  /\ persisting = None /\ t \in done
  /\ done' = done \ {t}
  /\ UNCHANGED <<sent, active, state, part, persisting, landed>>

(* The importer takes the landed file away (HighImport).                    *)
TakeLanded ==
  /\ landed # None
  /\ landed' = None
  /\ UNCHANGED <<sent, active, done, state, part, persisting>>

(* The high side dies: temporary files are left over, the rest is forgotten. *)
CrashCatcher ==
  /\ active' = [t \in Transfers |-> None]
  /\ done' = {} /\ persisting' = None
  /\ UNCHANGED <<sent, state, part, landed>>

UdpNext ==
  \/ \E t \in Transfers :
       \/ Send(t) \/ Fail(t) \/ Expire(t) \/ ForgetDone(t)
       \/ \E b \in Blocks, i \in Shards : Deliver(t, b, i)
  \/ PersistData \/ PersistFails \/ Reap \/ TakeLanded \/ CrashCatcher

UdpSpec == UdpInit /\ [][UdpNext]_udpVars

----------------------------------------------------------------------------
UdpTypeOK ==
  /\ sent \subseteq Transfers /\ done \subseteq Transfers
  /\ \A t \in Active :
       /\ active[t].have \in [Blocks -> SUBSET Shards]
       /\ active[t].written \subseteq Blocks /\ active[t].claimed \in (SUBSET Blocks) \ {Blocks}
  /\ \A f \in {state, part, persisting, landed} : f = None \/ f \subseteq Blocks

(* The landed file, the kept partial and everything in reassembly fit the      *)
(* quota together (admitNewTransfer reserves the whole size).                *)
QuotaHeld == Stored + Cardinality(Active) + (IF persisting = None THEN 0 ELSE 1) <= Room

(* diodewire.go:903 "never a partial with stale state describing other        *)
(* bytes": what the resume state claims, the partial file holds.             *)
ResumeHonest == persisting = None /\ state # None /\ part # None => state \subseteq part
=============================================================================
