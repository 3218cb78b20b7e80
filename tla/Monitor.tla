------------------------------ MODULE Monitor ------------------------------
(***************************************************************************)
(* What the high side can know of bundles that never arrived, for one      *)
(* stream: the low side's signed heartbeats (diodeheartbeat.go) over a     *)
(* link that loses, repeats and reorders, the import status snapshot they  *)
(* are laid over (highside.go).                                            *)
(*                                                                         *)
(* A packet is its created time and the last sequence it reports; "epoch"  *)
(* tells apart the times before and after a reset of the low side's clock. *)
(***************************************************************************)
EXTENDS Integers, FiniteSets, FiniteSetsExt

CONSTANTS
  MaxExport,   \* bound: bundles 1 .. MaxExport
  MaxClock,    \* bound on created times between two resets
  Window,      \* diodeHeartbeatReplayWindow in ticks
  MaxWire,     \* bound: heartbeats under way at one time
  MaxReplays   \* bound: packets the link delivers again, files that are not heartbeats

VARIABLES
  exported,    \* last committed sequence of the low side
  transit, lost, arrived,   \* where each exported bundle is
  imported,
  lowClock, epoch,
  wire,        \* heartbeats under way
  replays,
  hbFile,      \* landing/artigate.heartbeat: a set of at most one packet, or junk
  hbRead,      \* the packet an import pass has read and not yet removed
  record,      \* diodeHeartbeatState: last packet accepted and its age
  snapshot     \* the published import status

monitorVars == <<exported, transit, lost, arrived, imported, lowClock, epoch, wire, replays,
                 hbFile, hbRead, record, snapshot>>
bundleVars == <<exported, transit, lost, arrived, imported>>
linkVars == <<lowClock, epoch, wire, replays>>

Junk == [created |-> 0, last |-> 0, epoch |-> 2]
NoRecord == [received |-> FALSE, created |-> 0, last |-> 0, epoch |-> 0, age |-> 0]
NoSnapshot == [highest |-> 0, missing |-> {}]

(* Bounds and the window are numbers; the clock can move.                   *)
MonitorAssumed == MaxExport \in Nat /\ MaxClock \in Nat \ {0} /\ Window \in Nat /\ MaxReplays \in Nat
ASSUME MonitorAssumption == MonitorAssumed

MonitorInit ==
  /\ exported = 0 /\ transit = {} /\ lost = {} /\ arrived = {} /\ imported = 0
  /\ lowClock = 1 /\ epoch = 0 /\ wire = {} /\ replays = 0
  /\ hbFile = {} /\ hbRead = {}
  /\ record = NoRecord /\ snapshot = NoSnapshot

----------------------------------------------------------------------------
(* Bundles: exported, lost or delivered in any order, re-exported on request. *)
Export ==
  /\ exported < MaxExport
  /\ exported' = exported + 1 /\ transit' = transit \cup {exported + 1}
  /\ UNCHANGED <<lost, arrived, imported, linkVars, hbFile, hbRead, record, snapshot>>
Lose(n) ==
  /\ n \in transit /\ transit' = transit \ {n} /\ lost' = lost \cup {n}
  /\ UNCHANGED <<exported, arrived, imported, linkVars, hbFile, hbRead, record, snapshot>>
Cross(n) ==
  /\ n \in transit /\ transit' = transit \ {n} /\ arrived' = arrived \cup {n}
  /\ UNCHANGED <<exported, lost, imported, linkVars, hbFile, hbRead, record, snapshot>>
Reexport(n) ==
  /\ n \in lost /\ lost' = lost \ {n} /\ transit' = transit \cup {n}
  /\ UNCHANGED <<exported, arrived, imported, linkVars, hbFile, hbRead, record, snapshot>>

----------------------------------------------------------------------------
(* lastExportedSequences and sendDiodeHeartbeat; any heartbeat still under      *)
(* way may be lost.                                                         *)
SendHeartbeat ==
  /\ \E keep \in SUBSET wire :
       /\ Cardinality(keep) < MaxWire
       /\ wire' = keep \cup {[created |-> lowClock, last |-> exported, epoch |-> epoch]}
  /\ lowClock' = IF lowClock < MaxClock THEN lowClock + 1 ELSE lowClock
  /\ UNCHANGED <<bundleVars, epoch, replays, hbFile, hbRead, record, snapshot>>
ResetClock ==
  /\ epoch = 0 /\ epoch' = 1 /\ lowClock' = 1
  /\ UNCHANGED <<bundleVars, wire, replays, hbFile, hbRead, record, snapshot>>

(* recordHeartbeat: while the record is fresh only a newer packet replaces it. *)
AnyPacket(p) == TRUE   \* mutant: no replay guard
AlwaysNewer(p) == ~record.received \/ p.created > record.created   \* mutant: the guard never relaxes
Accepts(p) == ~record.received \/ p.created > record.created \/ record.age >= Window
Recorded(p) ==
  IF Accepts(p)
  THEN [received |-> TRUE, created |-> p.created, last |-> p.last, epoch |-> p.epoch, age |-> 0]
  ELSE record

(* A datagram or an HTTP upload; the link may deliver a packet again.         *)
Taken(p) ==
  \/ wire' = wire \ {p} /\ UNCHANGED replays
  \/ replays < MaxReplays /\ replays' = replays + 1 /\ UNCHANGED wire
HandleHeartbeat(p) ==
  /\ p \in wire /\ Taken(p) /\ record' = Recorded(p)
  /\ UNCHANGED <<bundleVars, lowClock, epoch, hbFile, hbRead, snapshot>>
(* The carrier drops it as a file; something unverifiable may lie there too.  *)
CarryHeartbeat(p) ==
  /\ p \in wire /\ Taken(p) /\ hbFile' = {p}
  /\ UNCHANGED <<bundleVars, lowClock, epoch, hbRead, record, snapshot>>
DropJunk ==
  /\ hbFile = {} /\ hbRead = {} /\ replays < MaxReplays
  /\ hbFile' = {Junk} /\ replays' = replays + 1
  /\ UNCHANGED <<bundleVars, lowClock, epoch, wire, hbRead, record, snapshot>>

(* consumeLandingHeartbeat: read and record, then remove what is there now;   *)
(* a file that does not verify is removed after a grace.                    *)
ReadHeartbeatFile ==
  /\ hbRead = {} /\ hbFile # {} /\ Junk \notin hbFile
  /\ hbRead' = hbFile
  /\ \E p \in hbFile : record' = Recorded(p)
  /\ UNCHANGED <<bundleVars, linkVars, hbFile, snapshot>>
RemoveHeartbeatFile ==
  /\ hbRead # {} \/ Junk \in hbFile
  /\ hbFile' = {} /\ hbRead' = {}
  /\ UNCHANGED <<bundleVars, linkVars, record, snapshot>>

Age ==
  /\ record.received /\ record.age < Window
  /\ record' = [record EXCEPT !.age = @ + 1]
  /\ UNCHANGED <<bundleVars, linkVars, hbFile, hbRead, snapshot>>

----------------------------------------------------------------------------
(* An import pass imports what follows in order and publishes the status.      *)
Reach == CHOOSE n \in imported .. MaxExport :
           /\ (imported + 1) .. n \subseteq arrived
           /\ n + 1 \notin arrived
Status(done) ==
  LET top == Max(arrived \cup {done})
  IN  [highest |-> top, missing |-> ((done + 1) .. top) \ arrived]

ImportPass ==
  /\ imported' = Reach
  /\ snapshot' = Status(Reach)
  /\ UNCHANGED <<exported, transit, lost, arrived, linkVars, hbFile, hbRead, record>>

(* A scan that fails keeps the last good snapshot.                           *)
ImportPassFails ==
  /\ imported' \in imported .. Reach
  /\ UNCHANGED <<exported, transit, lost, arrived, linkVars, hbFile, hbRead, record, snapshot>>

MonitorNext ==
  \/ Export \/ \E n \in 1 .. MaxExport : Lose(n) \/ Cross(n) \/ Reexport(n)
  \/ SendHeartbeat \/ ResetClock \/ DropJunk
  \/ \E p \in wire : HandleHeartbeat(p) \/ CarryHeartbeat(p)
  \/ ReadHeartbeatFile \/ RemoveHeartbeatFile \/ Age
  \/ ImportPass \/ ImportPassFails

(* Heartbeats and passes run on timers, time passes, and the link, which may   *)
(* lose any one heartbeat, delivers some of the current ones.               *)
Delivers == \E p \in wire : p.last = exported /\ p.epoch = epoch /\ HandleHeartbeat(p)
MonitorSpec ==
  /\ MonitorInit /\ [][MonitorNext]_monitorVars
  /\ WF_monitorVars(SendHeartbeat) /\ SF_monitorVars(Delivers) /\ WF_monitorVars(Age)
  /\ WF_monitorVars(ImportPass) /\ WF_monitorVars(RemoveHeartbeatFile)

----------------------------------------------------------------------------
MonitorTypeOK ==
  /\ exported \in 0 .. MaxExport /\ imported \in 0 .. exported
  /\ transit \cup lost \cup arrived = 1 .. exported
  /\ lowClock \in 1 .. MaxClock /\ epoch \in {0, 1} /\ replays \in 0 .. MaxReplays
  /\ Cardinality(hbFile) <= 1
  /\ record.age \in 0 .. Window /\ record.last \in 0 .. exported
  /\ snapshot.highest \in 0 .. exported

(* Neither reordering nor repetition makes the high side take back a sequence  *)
(* it has shown: while the record is fresh and the low clock runs on, the   *)
(* reported sequence only grows.                                            *)
Grows ==
  record.received /\ record.age < Window /\ record'.epoch = record.epoch
    => record'.last >= record.last
ReportNeverShrinks == [][Grows]_monitorVars

(* What status shows as missing or awaited.                                  *)
Awaited == (snapshot.highest + 1) .. record.last
Reported == snapshot.missing \cup Awaited

(* A bundle that is lost on the way is eventually reported or re-exported,     *)
(* although nothing of it arrived and heartbeats are lost, repeated or      *)
(* overtaken, and even if the low side's clock was set back.                *)
LossIsReported == \A n \in 1 .. MaxExport : (n \in lost) ~> (n \in Reported \/ n \notin lost)
============================================================================
