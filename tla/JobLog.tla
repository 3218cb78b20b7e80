------------------------------- MODULE JobLog -------------------------------
(***************************************************************************)
(* One job's progress log (jobs.go) and a client that follows it           *)
(* (jobs_http.go): a ring of the last Cap lines, a cursor that counts      *)
(* every line ever appended, and a broadcast channel that is closed and    *)
(* replaced at each change.  Line n of the job is the number n.            *)
(***************************************************************************)
EXTENDS Integers, Sequences

CONSTANTS
  Cap,      \* jobLogCap
  MaxLines  \* bound on the lines one job appends

VARIABLES
  ring,      \* Job.log
  logHead,   \* Job.logHead
  dropped,   \* Job.logDropped
  ended,     \* the job is in a terminal state
  logEpoch,  \* number of broadcasts: identifies the channel Job.updated
  follower   \* its step, the epoch of the channel it holds, and what it wrote:
             \* the lines in order, how many it was told are missing, the cursor

jobLogVars == <<ring, logHead, dropped, ended, logEpoch, follower>>

(* The ring has a slot.                                                     *)
LogAssumed == Cap \in Nat \ {0} /\ MaxLines \in Nat
ASSUME JobLogAssumption == LogAssumed

Appended == dropped + Len(ring)

JobLogInit ==
  /\ ring = <<>> /\ logHead = 0 /\ dropped = 0 /\ ended = FALSE /\ logEpoch = 0
  /\ follower = [pc |-> "read", cursor |-> 0, seen |-> <<>>, missing |-> 0, holds |-> 0]

----------------------------------------------------------------------------
(* appendLog: the oldest line is overwritten once the ring is full.          *)
PushedKeepHead(n) ==   \* mutant: the ring's start does not move
  IF Len(ring) < Cap THEN ring' = Append(ring, n) /\ UNCHANGED <<logHead, dropped>>
  ELSE /\ ring' = [ring EXCEPT ![logHead + 1] = n]
       /\ dropped' = dropped + 1 /\ UNCHANGED logHead
Pushed(n) ==
  IF Len(ring) < Cap THEN ring' = Append(ring, n) /\ UNCHANGED <<logHead, dropped>>
  ELSE /\ ring' = [ring EXCEPT ![logHead + 1] = n]
       /\ logHead' = (logHead + 1) % Cap
       /\ dropped' = dropped + 1

AppendLog ==
  /\ ~ended /\ Appended < MaxLines
  /\ Pushed(Appended + 1)
  /\ logEpoch' = logEpoch + 1
  /\ UNCHANGED <<ended, follower>>

(* finishJob broadcasts the terminal state.                                  *)
FinishLog ==
  /\ ~ended /\ ended' = TRUE /\ logEpoch' = logEpoch + 1
  /\ UNCHANGED <<ring, logHead, dropped, follower>>

----------------------------------------------------------------------------
(* logSince, under the job's lock: a note for the lines already overwritten,  *)
(* the rest of the ring, and the channel for the next change.               *)
Since(cursor) ==
  LET from == IF cursor < dropped THEN dropped ELSE cursor
  IN  [n \in 1 .. (Appended - from) |-> ring[1 + ((logHead + (from + n - 1 - dropped)) % Cap)]]
MissingSince(cursor) == IF cursor < dropped THEN dropped - cursor ELSE 0

(* followJobNDJSON: the batch is written; a terminal state ends the stream,   *)
(* else the client waits on the channel that came with the batch.           *)
ReadBatch ==
  /\ follower.pc = "read"
  /\ follower' = [pc |-> IF ended THEN "done" ELSE "wait",
                  cursor |-> Appended,
                  seen |-> follower.seen \o Since(follower.cursor),
                  missing |-> follower.missing + MissingSince(follower.cursor),
                  holds |-> logEpoch]
  /\ UNCHANGED <<ring, logHead, dropped, ended, logEpoch>>

Woken == follower.pc = "wait" /\ logEpoch > follower.holds
Wake ==
  /\ Woken
  /\ follower' = [follower EXCEPT !.pc = "read"]
  /\ UNCHANGED <<ring, logHead, dropped, ended, logEpoch>>

JobLogNext == AppendLog \/ FinishLog \/ ReadBatch \/ Wake

JobLogSpec == JobLogInit /\ [][JobLogNext]_jobLogVars

----------------------------------------------------------------------------
JobLogTypeOK ==
  /\ ring \in Seq(1 .. MaxLines) /\ Len(ring) <= Cap
  /\ logHead \in 0 .. (Cap - 1)
  /\ dropped \in 0 .. MaxLines /\ Appended <= MaxLines
  /\ ended \in BOOLEAN /\ logEpoch \in 0 .. (MaxLines + 1)
  /\ follower.pc \in {"read", "wait", "done"} /\ follower.holds \in 0 .. logEpoch

(* Every line up to the client's cursor was either shown once, in order, or   *)
(* counted as not shown, however the ring turned between two reads.         *)
EveryLineAccounted ==
  LET f == follower
  IN  /\ Len(f.seen) + f.missing = f.cursor
      /\ \A i, k \in DOMAIN f.seen : i < k => f.seen[i] < f.seen[k]
      /\ \A i \in DOMAIN f.seen : f.seen[i] <= f.cursor
=============================================================================
