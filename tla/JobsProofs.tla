----------------------------- MODULE JobsProofs -----------------------------
(***************************************************************************)
(* OneJobPerWatch and StreamRunsOne for any number of jobs, streams and    *)
(* watches and any queue capacity.  What they rest on: a watch's claim is  *)
(* its live job (Claimed); a queue holds queued jobs of its stream, each   *)
(* once (Queued); a stream's running job is its dispatcher's, and there is *)
(* a dispatcher only while the stream is registered as having one          *)
(* (Dispatched).  NoRunTwice rests on RanWaits: what a tick has run is due  *)
(* again only through an edit.                                             *)
(*                                                                         *)
(* A job's log: EveryLineAccounted for every capacity and number of lines, *)
(* from where the ring keeps the lines after the dropped ones (HoldsLast). *)
(***************************************************************************)
EXTENDS Jobs, JobLog, TLAPS

(* Identities of jobs are numbers; the markers are none of them, and every     *)
(* watch names a stream.                                                     *)

Typed ==
  /\ byID \in [JobIds -> JobType]
  /\ queue \in [JobStreams -> Seq(JobIds)]
  /\ live \in [JobStreams -> BOOLEAN]
  /\ worker \in [JobStreams -> JobIds \cup {"none", "take"}]
  /\ claim \in [Watches -> JobIds \cup {Manual}]

Claimed == \A i \in JobIds : Live(i) /\ byID[i].watch # Manual => claim[byID[i].watch] = i

Queued ==
  /\ \A s \in JobStreams : \A n \in 1 .. Len(queue[s]) :
       byID[queue[s][n]].phase = "queued" /\ byID[queue[s][n]].stream = s
  /\ \A s \in JobStreams : \A m, n \in 1 .. Len(queue[s]) : queue[s][m] = queue[s][n] => m = n

Dispatched ==
  /\ \A i \in JobIds : byID[i].phase = "running" => worker[byID[i].stream] = i
  /\ \A s \in JobStreams : ~live[s] => worker[s] = "none"

Placed == \A i \in JobIds : Live(i) => byID[i].stream \in JobStreams

JobsInv == Typed /\ Claimed /\ Queued /\ Dispatched /\ Placed

----------------------------------------------------------------------------
(* A queue without its k-th job.                                            *)
LEMMA WithoutSeq ==
  ASSUME NEW S, NEW q \in Seq(S), NEW k \in 1 .. Len(q)
  PROVE  /\ Without(q, k) \in Seq(S)
         /\ Len(Without(q, k)) = Len(q) - 1
         /\ \A n \in 1 .. Len(q) - 1 : Without(q, k)[n] = IF n < k THEN q[n] ELSE q[n + 1]
  BY DEF Without

LEMMA UnbornPhase == Unborn.phase = "unborn" /\ Unborn \in JobType
  BY DEF Unborn, JobType

LEMMA InvInit ==
  ASSUME JobsInit
  PROVE  JobsInv
<1>1. /\ \A i \in JobIds : byID[i] = Unborn
      /\ \A s \in JobStreams : queue[s] = <<>> /\ worker[s] = "none"
  BY DEF JobsInit
<1>3. \A i \in JobIds : byID[i].phase = "unborn"
  BY <1>1, UnbornPhase
<1>4. Typed
  <2>1. byID \in [JobIds -> JobType]
    BY UnbornPhase DEF JobsInit
  <2>2. queue \in [JobStreams -> Seq(JobIds)]
    BY DEF JobsInit
  <2> QED BY <2>1, <2>2 DEF JobsInit, Typed
<1>5. Claimed /\ Placed
  BY <1>3 DEF Claimed, Placed, Live
<1>6. Queued /\ Dispatched
  BY <1>1, <1>3 DEF Queued, Dispatched
<1> QED BY <1>4, <1>5, <1>6 DEF JobsInv

(* Steps that leave the manager alone.                                       *)
LEMMA OutsideKeeps ==
  ASSUME JobsInv, UNCHANGED <<byID, queue, live, worker, claim>>
  PROVE  JobsInv'
  BY DEF JobsInv, Typed, Claimed, Queued, Dispatched, Placed, Live

LEMMA EnqueueKeeps ==
  ASSUME JobsInv, Named, NEW i \in JobIds, NEW s \in JobStreams, NEW w \in Watches \cup {Manual}, Enqueue(i, s, w)
  PROVE  JobsInv'
<1> USE DEF JobsInv
<1>1. /\ byID[i] = Unborn /\ Admits(s, w)
      /\ byID' = [byID EXCEPT ![i] = [phase |-> "queued", stream |-> s, watch |-> w, canceled |-> FALSE]]
      /\ queue' = [queue EXCEPT ![s] = Append(@, i)]
      /\ claim' = IF w = Manual THEN claim ELSE [claim EXCEPT ![w] = i]
      /\ live' = [live EXCEPT ![s] = TRUE]
      /\ worker' = IF live[s] THEN worker ELSE [worker EXCEPT ![s] = "take"]
  BY DEF Enqueue
<1>2. Typed'
  <2>1. [phase |-> "queued", stream |-> s, watch |-> w, canceled |-> FALSE] \in JobType
    BY DEF JobType
  <2>2. byID' \in [JobIds -> JobType]
    BY <1>1, <2>1 DEF Typed
  <2>3. Append(queue[s], i) \in Seq(JobIds)
    BY DEF Typed
  <2>4. queue' \in [JobStreams -> Seq(JobIds)]
    BY <1>1, <2>3 DEF Typed
  <2>5. claim' \in [Watches -> JobIds \cup {Manual}]
    BY <1>1 DEF Typed
  <2> QED BY <1>1, <2>2, <2>4, <2>5 DEF Typed
<1>j. /\ byID'[i] = [phase |-> "queued", stream |-> s, watch |-> w, canceled |-> FALSE]
      /\ \A k \in JobIds \ {i} : byID'[k] = byID[k]
  BY <1>1 DEF Typed
<1>3. Claimed'
  <2> SUFFICES ASSUME NEW k \in JobIds, byID'[k].phase # "unborn", byID'[k].watch # Manual
               PROVE  claim'[byID'[k].watch] = k
    BY DEF Claimed, Live
  <2>1. CASE k = i
    BY <2>1, <1>1, <1>j DEF Typed
  <2>2. CASE k # i
    <3>0. byID[k] \in JobType
      BY DEF Typed
    <3>1. byID'[k] = byID[k] /\ claim[byID[k].watch] = k /\ byID[k].watch \in Watches
      BY <2>2, <3>0, <1>j DEF Claimed, Live, JobType
    <3>2. w # Manual => byID[k].watch # w
      BY <1>1, <3>1 DEF Admits, Named
    <3> QED BY <1>1, <3>1, <3>2 DEF Typed
  <2> QED BY <2>1, <2>2
<1>4. Queued'
  <2>1. ASSUME NEW t \in JobStreams, NEW n \in 1 .. Len(queue[t])
        PROVE  queue[t][n] \in JobIds /\ queue[t][n] # i
    <3>1. queue[t][n] \in JobIds
      BY DEF Typed
    <3>2. byID[queue[t][n]].phase = "queued"
      BY DEF Queued
    <3>3. byID[i].phase = "unborn"
      BY <1>1, UnbornPhase
    <3> QED BY <3>1, <3>2, <3>3
  <2>2. /\ queue'[s] = Append(queue[s], i)
        /\ Len(queue'[s]) = Len(queue[s]) + 1
        /\ queue'[s][Len(queue[s]) + 1] = i
        /\ \A n \in 1 .. Len(queue[s]) : queue'[s][n] = queue[s][n]
    BY <1>1 DEF Typed
  <2>3. \A t \in JobStreams \ {s} : queue'[t] = queue[t]
    BY <1>1 DEF Typed
  <2>4. /\ byID'[i].phase = "queued" /\ byID'[i].stream = s
        /\ \A k \in JobIds \ {i} : byID'[k] = byID[k]
    BY <1>1 DEF Typed
  <2>5. ASSUME NEW t \in JobStreams, NEW n \in 1 .. Len(queue'[t])
        PROVE  byID'[queue'[t][n]].phase = "queued" /\ byID'[queue'[t][n]].stream = t
    <3>1. CASE t # s
      BY <3>1, <2>1, <2>3, <2>4 DEF Queued
    <3>2. CASE t = s /\ n \in 1 .. Len(queue[s])
      BY <3>2, <2>1, <2>2, <2>4 DEF Queued
    <3>3. CASE t = s /\ n = Len(queue[s]) + 1
      BY <3>3, <2>2, <2>4
    <3> QED BY <3>1, <3>2, <3>3, <2>2 DEF Typed
  <2>6. ASSUME NEW t \in JobStreams, NEW m \in 1 .. Len(queue'[t]), NEW n \in 1 .. Len(queue'[t]),
               queue'[t][m] = queue'[t][n]
        PROVE  m = n
    <3>1. CASE t # s
      BY <3>1, <2>3, <2>6 DEF Queued
    <3>2. CASE t = s
      BY <3>2, <2>1, <2>2, <2>6 DEF Queued, Typed
    <3> QED BY <3>1, <3>2
  <2> QED BY <2>5, <2>6 DEF Queued
<1>5. Dispatched'
  <2> SUFFICES ASSUME NEW k \in JobIds, byID'[k].phase = "running"
               PROVE  worker'[byID'[k].stream] = k
    BY <1>1 DEF Typed, Dispatched
  <2>1. k # i /\ byID'[k] = byID[k] /\ worker[byID[k].stream] = k /\ byID[k].stream \in JobStreams
    BY <1>j DEF Dispatched, Placed, Live
  <2>2. ~live[s] => byID[k].stream # s
    BY <2>1 DEF Dispatched, Named
  <2> QED BY <1>1, <2>1, <2>2 DEF Typed
<1>6. Placed'
  BY <1>1 DEF Typed, Placed, Live
<1> QED BY <1>2, <1>3, <1>4, <1>5, <1>6

LEMMA NextJobKeeps ==
  ASSUME JobsInv, Named, NEW s \in JobStreams, NextJob(s)
  PROVE  JobsInv'
<1> USE DEF JobsInv
<1>1. worker[s] = "take" /\ UNCHANGED claim
  BY DEF NextJob
<1>2. CASE queue[s] = <<>> \/ closed
  <2>1. /\ worker' = [worker EXCEPT ![s] = "none"] /\ live' = [live EXCEPT ![s] = FALSE]
        /\ UNCHANGED <<byID, queue>>
    BY <1>2 DEF NextJob, Leave
  <2>2. Typed' /\ Claimed' /\ Queued' /\ Placed'
    BY <1>1, <2>1 DEF Typed, Claimed, Queued, Placed, Live
  <2>3. Dispatched'
    BY <1>1, <2>1 DEF Typed, Dispatched, Placed, Live, Named
  <2> QED BY <2>2, <2>3
<1>3. CASE queue[s] # <<>> /\ ~closed
  <2> DEFINE i == Head(queue[s])
  <2>1. /\ queue' = [queue EXCEPT ![s] = Tail(@)]
        /\ worker' = [worker EXCEPT ![s] = i]
        /\ byID' = [byID EXCEPT ![i].phase = "running"]
        /\ UNCHANGED live
    BY <1>3 DEF NextJob
  <2>2. /\ Len(queue[s]) > 0 /\ i = queue[s][1] /\ i \in JobIds
        /\ Tail(queue[s]) \in Seq(JobIds) /\ Len(Tail(queue[s])) = Len(queue[s]) - 1
        /\ \A n \in 1 .. Len(queue[s]) - 1 : Tail(queue[s])[n] = queue[s][n + 1]
    BY <1>3 DEF Typed
  <2>3. byID[i].phase = "queued" /\ byID[i].stream = s
    BY <2>2 DEF Queued
  <2>4. byID[i] \in JobType
    BY <2>2 DEF Typed
  <2>5. /\ byID'[i].phase = "running" /\ byID'[i].stream = s /\ byID'[i].watch = byID[i].watch /\ byID'[i] \in JobType
        /\ \A k \in JobIds \ {i} : byID'[k] = byID[k]
    BY <2>1, <2>2, <2>3, <2>4 DEF Typed, JobType
  <2>6. Typed'
    <3>1. byID' \in [JobIds -> JobType]
      BY <2>1, <2>5 DEF Typed
    <3>2. queue' \in [JobStreams -> Seq(JobIds)]
      BY <2>1, <2>2 DEF Typed
    <3> QED BY <1>1, <2>1, <2>2, <3>1, <3>2 DEF Typed
  <2>7. Claimed' /\ Placed'
    BY <1>1, <2>3, <2>5 DEF Claimed, Placed, Live
  <2>8. Queued'
    <3>1. ASSUME NEW t \in JobStreams, NEW n \in 1 .. Len(queue'[t])
          PROVE  byID'[queue'[t][n]].phase = "queued" /\ byID'[queue'[t][n]].stream = t
      <4>1. CASE t # s
        <5>1. queue'[t] = queue[t] /\ queue[t][n] \in JobIds
          BY <2>1, <4>1 DEF Typed
        <5>2. byID[queue[t][n]].phase = "queued" /\ byID[queue[t][n]].stream = t
          BY <5>1 DEF Queued
        <5> QED BY <2>3, <2>5, <4>1, <5>1, <5>2
      <4>2. CASE t = s
        <5>1. queue'[s] = Tail(queue[s])
          BY <2>1 DEF Typed
        <5>2. n + 1 \in 1 .. Len(queue[s]) /\ queue'[s][n] = queue[s][n + 1] /\ 1 \in 1 .. Len(queue[s])
          BY <2>2, <4>2, <5>1 DEF Typed
        <5>3. queue[s][n + 1] \in JobIds /\ queue[s][n + 1] # i
          BY <2>2, <5>2 DEF Queued, Typed
        <5>4. byID[queue[s][n + 1]].phase = "queued" /\ byID[queue[s][n + 1]].stream = s
          BY <5>2 DEF Queued
        <5> QED BY <2>5, <4>2, <5>2, <5>3, <5>4
      <4> QED BY <4>1, <4>2
    <3>2. ASSUME NEW t \in JobStreams, NEW m \in 1 .. Len(queue'[t]), NEW n \in 1 .. Len(queue'[t]),
                 queue'[t][m] = queue'[t][n]
          PROVE  m = n
      <4>1. CASE t # s
        BY <2>1, <3>2, <4>1 DEF Queued, Typed
      <4>2. CASE t = s
        <5>1. queue'[s] = Tail(queue[s])
          BY <2>1 DEF Typed
        <5>2. /\ m + 1 \in 1 .. Len(queue[s]) /\ n + 1 \in 1 .. Len(queue[s])
              /\ queue[s][m + 1] = queue[s][n + 1]
          BY <2>2, <3>2, <4>2, <5>1 DEF Typed
        <5>3. m + 1 = n + 1
          BY <5>2 DEF Queued
        <5> QED BY <5>3, <2>2, <4>2, <5>1 DEF Typed
      <4> QED BY <4>1, <4>2
    <3> QED BY <3>1, <3>2 DEF Queued
  <2>9. Dispatched'
    <3>1. ASSUME NEW k \in JobIds, byID'[k].phase = "running"
          PROVE  worker'[byID'[k].stream] = k
      <4>1. CASE k = i
        BY <2>1, <2>5, <4>1 DEF Typed
      <4>2. CASE k # i
        <5>1. byID[k].phase = "running" /\ byID'[k] = byID[k]
          BY <2>5, <3>1, <4>2
        <5>2. worker[byID[k].stream] = k /\ byID[k].stream \in JobStreams
          BY <5>1 DEF Dispatched, Placed, Live
        <5>3. byID[k].stream # s
          BY <1>1, <5>2 DEF Named
        <5> QED BY <2>1, <5>1, <5>2, <5>3 DEF Typed
      <4> QED BY <4>1, <4>2
    <3>2. \A t \in JobStreams : ~live'[t] => worker'[t] = "none"
      BY <1>1, <2>1 DEF Dispatched, Typed
    <3> QED BY <3>1, <3>2 DEF Dispatched
  <2> QED BY <2>6, <2>7, <2>8, <2>9
<1> QED BY <1>2, <1>3

(* A job that is not queued changes its phase to another such phase, or is     *)
(* over; its dispatcher may go back to taking jobs when it is over.          *)
LEMMA PhaseKeeps ==
  ASSUME JobsInv, Named, NEW i \in JobIds, NEW j \in JobType,
         byID[i].phase \in {"removed", "running", "finished", "recorded"},
         j.phase \in {"finished", "recorded"}, j.stream = byID[i].stream, j.watch = byID[i].watch,
         byID' = [byID EXCEPT ![i] = j], UNCHANGED <<queue, live, worker, claim>>
  PROVE  JobsInv'
<1> USE DEF JobsInv
<1>1. byID'[i] = j /\ \A k \in JobIds \ {i} : byID'[k] = byID[k]
  BY DEF Typed
<1>2. Typed'
  BY DEF Typed
<1>3. Claimed' /\ Placed'
  BY <1>1 DEF Claimed, Placed, Live
<1>4. \A t \in JobStreams : \A n \in 1 .. Len(queue[t]) : queue[t][n] \in JobIds \ {i}
  BY DEF Queued, Typed
<1>5. Queued'
  BY <1>1, <1>4 DEF Queued
<1>6. Dispatched'
  BY <1>1 DEF Dispatched
<1> QED BY <1>2, <1>3, <1>5, <1>6

LEMMA FinishKeeps ==
  ASSUME JobsInv, Named, NEW i \in JobIds, FinishJob(i) \/ RecordOutcome(i)
  PROVE  JobsInv'
<1>1. byID[i] \in JobType /\ byID \in [JobIds -> JobType]
  BY DEF JobsInv, Typed
<1>2. CASE FinishJob(i)
  <2>1. byID' = [byID EXCEPT ![i] = [byID[i] EXCEPT !.phase = "finished"]]
    BY <1>1, <1>2 DEF FinishJob
  <2>2. [byID[i] EXCEPT !.phase = "finished"] \in JobType
    BY <1>1 DEF JobType
  <2>3. UNCHANGED <<queue, live, worker, claim>> /\ byID[i].phase \in {"running", "removed"}
    BY <1>2 DEF FinishJob
  <2> DEFINE j == [byID[i] EXCEPT !.phase = "finished"]
  <2>4. j.phase = "finished" /\ j.stream = byID[i].stream /\ j.watch = byID[i].watch
    BY <1>1 DEF JobType
  <2> HIDE DEF j
  <2> QED BY <2>1, <2>2, <2>3, <2>4, PhaseKeeps DEF j
<1>3. CASE RecordOutcome(i)
  <2>1. byID' = [byID EXCEPT ![i] = [byID[i] EXCEPT !.phase = "recorded"]]
    BY <1>1, <1>3 DEF RecordOutcome
  <2>2. [byID[i] EXCEPT !.phase = "recorded"] \in JobType
    BY <1>1 DEF JobType
  <2>3. UNCHANGED <<queue, live, worker, claim>> /\ byID[i].phase = "finished"
    BY <1>3 DEF RecordOutcome, managerVars
  <2> DEFINE j == [byID[i] EXCEPT !.phase = "recorded"]
  <2>4. j.phase = "recorded" /\ j.stream = byID[i].stream /\ j.watch = byID[i].watch
    BY <1>1 DEF JobType
  <2> HIDE DEF j
  <2> QED BY <2>1, <2>2, <2>3, <2>4, PhaseKeeps DEF j
<1> QED BY <1>2, <1>3

LEMMA ReleaseKeeps ==
  ASSUME JobsInv, Named, NEW i \in JobIds, ReleaseWatchJob(i)
  PROVE  JobsInv'
<1> USE DEF JobsInv
<1> DEFINE w == byID[i].watch
           s == byID[i].stream
<1>1. /\ byID[i].phase = "recorded" /\ byID' = [byID EXCEPT ![i] = Unborn]
      /\ claim' = IF w # Manual /\ claim[w] = i THEN [claim EXCEPT ![w] = Manual] ELSE claim
      /\ worker' = IF worker[s] = i THEN [worker EXCEPT ![s] = "take"] ELSE worker
      /\ UNCHANGED <<queue, live>>
  BY DEF ReleaseWatchJob
<1>2. byID[i] \in JobType /\ s \in JobStreams
  BY <1>1 DEF Typed, Placed, Live
<1>3. byID'[i] = Unborn /\ \A k \in JobIds \ {i} : byID'[k] = byID[k]
  BY <1>1 DEF Typed
<1>4. Typed'
  BY <1>1, <1>2, UnbornPhase DEF Typed
<1>5. Claimed'
  <2> SUFFICES ASSUME NEW k \in JobIds, byID'[k].phase # "unborn", byID'[k].watch # Manual
               PROVE  claim'[byID'[k].watch] = k
    BY DEF Claimed, Live
  <2>1. k # i /\ byID'[k] = byID[k] /\ byID[k] \in JobType
    BY <1>3, UnbornPhase DEF Typed
  <2>2. claim[byID[k].watch] = k /\ byID[k].watch \in Watches
    BY <2>1 DEF Claimed, Live, JobType
  <2> QED BY <1>1, <2>1, <2>2 DEF Typed
<1>6. Placed'
  BY <1>3, UnbornPhase DEF Placed, Live
<1>7. Queued'
  <2>1. \A t \in JobStreams : \A n \in 1 .. Len(queue[t]) : queue[t][n] \in JobIds \ {i}
    BY <1>1 DEF Queued, Typed
  <2> QED BY <1>1, <1>3, <2>1 DEF Queued
<1>8. Dispatched'
  <2>1. ASSUME NEW k \in JobIds, byID'[k].phase = "running"
        PROVE  worker'[byID'[k].stream] = k
    <3>1. k # i /\ byID'[k] = byID[k]
      BY <1>3, <2>1, UnbornPhase
    <3>2. worker[byID[k].stream] = k /\ byID[k].stream \in JobStreams
      BY <2>1, <3>1 DEF Dispatched, Placed, Live
    <3> QED BY <1>1, <3>1, <3>2 DEF Typed
  <2>2. ASSUME NEW t \in JobStreams, ~live'[t]
        PROVE  worker'[t] = "none"
    <3>1. worker[t] = "none"
      BY <1>1, <2>2 DEF Dispatched
    <3> QED BY <1>1, <1>2, <3>1 DEF Typed, Named
  <2> QED BY <2>1, <2>2 DEF Dispatched
<1> QED BY <1>4, <1>5, <1>6, <1>7, <1>8

LEMMA CancelKeeps ==
  ASSUME JobsInv, Named, NEW i \in JobIds, Cancel(i)
  PROVE  JobsInv'
<1> USE DEF JobsInv
<1> DEFINE s == byID[i].stream
<1>1. UNCHANGED <<live, worker, claim>>
  BY DEF Cancel
<1>2. byID[i] \in JobType /\ (Live(i) => s \in JobStreams)
  BY DEF Typed, Placed
<1>3. ASSUME NEW p \in {"removed", "running"},
             byID' = [byID EXCEPT ![i].phase = p, ![i].canceled = TRUE]
      PROVE  /\ byID'[i] \in JobType /\ byID'[i].phase = p /\ byID'[i].stream = s /\ byID'[i].watch = byID[i].watch
             /\ \A k \in JobIds \ {i} : byID'[k] = byID[k]
             /\ byID' \in [JobIds -> JobType]
  <2>1. [[byID[i] EXCEPT !.phase = p] EXCEPT !.canceled = TRUE] \in JobType
    BY <1>2 DEF JobType
  <2>2. byID'[i] = [[byID[i] EXCEPT !.phase = p] EXCEPT !.canceled = TRUE]
    BY <1>3 DEF Typed
  <2>3. byID'[i].phase = p /\ byID'[i].stream = s /\ byID'[i].watch = byID[i].watch
    BY <1>2, <2>2 DEF JobType
  <2> QED BY <1>3, <2>1, <2>2, <2>3 DEF Typed
<1>4. CASE byID[i].phase = "queued"
  <2>1. /\ RemoveQueued(i, s)
        /\ byID' = [byID EXCEPT ![i].phase = "removed", ![i].canceled = TRUE]
    BY <1>4 DEF Cancel
  <2>2. s \in JobStreams
    BY <1>2, <1>4 DEF Live
  <2>3. PICK k \in 1 .. Len(queue[s]) : queue[s][k] = i /\ queue' = [queue EXCEPT ![s] = Without(@, k)]
    BY <2>1 DEF RemoveQueued
  <2>4. /\ Without(queue[s], k) \in Seq(JobIds)
        /\ Len(Without(queue[s], k)) = Len(queue[s]) - 1
        /\ \A n \in 1 .. Len(queue[s]) - 1 :
              Without(queue[s], k)[n] = IF n < k THEN queue[s][n] ELSE queue[s][n + 1]
    <3>1. queue[s] \in Seq(JobIds)
      BY <2>2 DEF Typed
    <3> QED BY <3>1, WithoutSeq
  <2>5. queue'[s] = Without(queue[s], k) /\ \A t \in JobStreams \ {s} : queue'[t] = queue[t]
    BY <2>2, <2>3 DEF Typed
  <2>6. /\ byID'[i].phase = "removed" /\ byID'[i].stream = s /\ byID'[i].watch = byID[i].watch
        /\ \A m \in JobIds \ {i} : byID'[m] = byID[m]
        /\ byID' \in [JobIds -> JobType]
    BY <1>3, <2>1
  <2>7. Typed'
    BY <1>1, <2>2, <2>3, <2>4, <2>6 DEF Typed
  <2>8. Claimed' /\ Placed'
    BY <1>1, <1>4, <2>6 DEF Claimed, Placed, Live
  <2>9. ASSUME NEW n \in 1 .. Len(queue[s]) - 1
        PROVE  \E m \in 1 .. Len(queue[s]) : m = (IF n < k THEN n ELSE n + 1) /\ queue'[s][n] = queue[s][m] /\ m # k
    BY <2>2, <2>4, <2>5 DEF Typed
  <2>10. Queued'
    <3>1. ASSUME NEW t \in JobStreams, NEW n \in 1 .. Len(queue'[t])
          PROVE  byID'[queue'[t][n]].phase = "queued" /\ byID'[queue'[t][n]].stream = t
      <4>1. \E m \in 1 .. Len(queue[t]) : queue'[t][n] = queue[t][m] /\ queue[t][m] # i
        <5>1. CASE t # s
          BY <5>1, <1>4, <2>5 DEF Queued
        <5>2. CASE t = s
          <6>1. n \in 1 .. Len(queue[s]) - 1
            BY <5>2, <2>4, <2>5
          <6>2. PICK m \in 1 .. Len(queue[s]) : queue'[s][n] = queue[s][m] /\ m # k
            BY <6>1, <2>9
          <6>3. queue[s][m] # i
            BY <2>2, <2>3, <6>2 DEF Queued
          <6> QED BY <5>2, <6>2, <6>3
        <5> QED BY <5>1, <5>2
      <4>2. PICK m \in 1 .. Len(queue[t]) : queue'[t][n] = queue[t][m] /\ queue[t][m] # i
        BY <4>1
      <4>3. queue[t][m] \in JobIds
        BY DEF Typed
      <4>4. byID[queue[t][m]].phase = "queued" /\ byID[queue[t][m]].stream = t
        BY DEF Queued
      <4> QED BY <2>6, <4>2, <4>3, <4>4
    <3>2. ASSUME NEW t \in JobStreams, NEW m \in 1 .. Len(queue'[t]), NEW n \in 1 .. Len(queue'[t]),
                 queue'[t][m] = queue'[t][n]
          PROVE  m = n
      <4>1. CASE t # s
        BY <4>1, <2>5, <3>2 DEF Queued
      <4>2. CASE t = s
        <5> DEFINE At(x) == IF x < k THEN x ELSE x + 1
        <5>1. m \in 1 .. Len(queue[s]) - 1 /\ n \in 1 .. Len(queue[s]) - 1
          BY <4>2, <2>4, <2>5
        <5>2. /\ At(m) \in 1 .. Len(queue[s]) /\ At(n) \in 1 .. Len(queue[s])
              /\ queue[s][At(m)] = queue[s][At(n)]
          BY <4>2, <5>1, <2>9, <3>2
        <5>3. At(m) = At(n)
          BY <2>2, <5>2 DEF Queued
        <5> QED BY <5>1, <5>3
      <4> QED BY <4>1, <4>2
    <3> QED BY <3>1, <3>2 DEF Queued
  <2>11. Dispatched'
    BY <1>1, <2>6 DEF Dispatched
  <2> QED BY <2>7, <2>8, <2>10, <2>11
<1>5. CASE byID[i].phase # "queued"
  <2>1. byID[i].phase = "running" /\ UNCHANGED queue /\ byID' = [byID EXCEPT ![i].canceled = TRUE]
    BY <1>5 DEF Cancel
  <2>2. byID' = [byID EXCEPT ![i] = [byID[i] EXCEPT !.canceled = TRUE]]
    BY <1>2, <2>1 DEF Typed
  <2>3. /\ [byID[i] EXCEPT !.canceled = TRUE] \in JobType
        /\ byID'[i] = [byID[i] EXCEPT !.canceled = TRUE]
        /\ \A m \in JobIds \ {i} : byID'[m] = byID[m]
    BY <1>2, <2>2 DEF JobType, Typed
  <2>4. byID'[i].phase = byID[i].phase /\ byID'[i].stream = s /\ byID'[i].watch = byID[i].watch
    BY <1>2, <2>3 DEF JobType
  <2>5. Typed'
    BY <1>1, <2>1, <2>2, <2>3 DEF Typed
  <2>6. \A t \in JobStreams : \A n \in 1 .. Len(queue[t]) : queue[t][n] \in JobIds \ {i}
    BY <2>1 DEF Queued, Typed
  <2>t. \A m \in JobIds : /\ byID'[m].phase = byID[m].phase /\ byID'[m].stream = byID[m].stream
                          /\ byID'[m].watch = byID[m].watch
    BY <2>3, <2>4
  <2>7. Claimed' /\ Placed' /\ Dispatched'
    <3>1. Claimed'
      BY <1>1, <2>t DEF Claimed, Live
    <3>2. Placed'
      BY <2>t DEF Placed, Live
    <3>3. Dispatched'
      BY <1>1, <2>t DEF Dispatched
    <3> QED BY <3>1, <3>2, <3>3
  <2>8. Queued'
    BY <2>1, <2>3, <2>6 DEF Queued
  <2> QED BY <2>5, <2>7, <2>8
<1> QED BY <1>4, <1>5

LEMMA ShutdownKeeps ==
  ASSUME JobsInv, Shutdown
  PROVE  JobsInv'
<1> USE DEF JobsInv
<1>1. UNCHANGED <<live, worker, claim>> /\ queue' = [s \in JobStreams |-> <<>>]
  BY DEF Shutdown
<1>2. ASSUME NEW i \in JobIds
      PROVE  /\ byID'[i] \in JobType /\ byID'[i].stream = byID[i].stream /\ byID'[i].watch = byID[i].watch
             /\ byID'[i].phase = "running" => byID[i].phase = "running"
             /\ byID'[i].phase = "unborn" <=> byID[i].phase = "unborn"
  <2>1. byID[i] \in JobType
    BY DEF Typed
  <2>2. byID'[i] = CASE byID[i].phase = "queued" -> [byID[i] EXCEPT !.phase = "removed", !.canceled = TRUE]
                    [] byID[i].phase = "running" -> [byID[i] EXCEPT !.canceled = TRUE]
                    [] OTHER -> byID[i]
    BY DEF Shutdown
  <2>3. CASE byID[i].phase = "queued"
    BY <2>1, <2>2, <2>3 DEF JobType
  <2>4. CASE byID[i].phase = "running"
    BY <2>1, <2>2, <2>4 DEF JobType
  <2>5. CASE byID[i].phase \notin {"queued", "running"}
    BY <2>1, <2>2, <2>5
  <2> QED BY <2>3, <2>4, <2>5
<1>3. Typed'
  <2>1. byID' \in [JobIds -> JobType]
    BY <1>2 DEF Shutdown
  <2>2. queue' \in [JobStreams -> Seq(JobIds)]
    BY <1>1
  <2> QED BY <1>1, <2>1, <2>2 DEF Typed
<1>4. Claimed' /\ Placed' /\ Dispatched'
  BY <1>1, <1>2 DEF Claimed, Placed, Dispatched, Live
<1>5. Queued'
  BY <1>1 DEF Queued
<1> QED BY <1>3, <1>4, <1>5

LEMMA InvNext ==
  ASSUME Named, Streamed, JobsInv, [JobsNext]_jobsVars
  PROVE  JobsInv'
<1>1. ASSUME NEW i \in JobIds, NEW s \in JobStreams, CollectRequest(i, s)
      PROVE  JobsInv'
  BY <1>1, EnqueueKeeps DEF CollectRequest
<1>2. ASSUME NEW i \in JobIds, NEW w \in Watches, RunNow(i, w) \/ EnqueueDueWatch(i, w)
      PROVE  JobsInv'
  <2>1. StreamOf[w] \in JobStreams
    BY DEF Streamed
  <2>2. Enqueue(i, StreamOf[w], w)
    BY <1>2 DEF RunNow, EnqueueDueWatch
  <2> QED BY <2>1, <2>2, EnqueueKeeps
<1>3. ASSUME NEW s \in JobStreams, NextJob(s)
      PROVE  JobsInv'
  BY <1>3, NextJobKeeps
<1>4. ASSUME NEW i \in JobIds, FinishJob(i) \/ RecordOutcome(i) \/ ReleaseWatchJob(i) \/ Cancel(i)
      PROVE  JobsInv'
  BY <1>4, FinishKeeps, ReleaseKeeps, CancelKeeps
<1>5. CASE Shutdown
  BY <1>5, ShutdownKeeps
<1>6. ASSUME NEW S \in SUBSET Watches, Tick(S)
      PROVE  JobsInv'
  BY <1>6, OutsideKeeps DEF Tick, managerVars
<1>7. ASSUME NEW w \in Watches, SkipDueWatch(w) \/ Disable(w) \/ Delete(w) \/ Create(w) \/ ReadForEdit(w)
      PROVE  JobsInv'
  BY <1>7, OutsideKeeps DEF SkipDueWatch, Disable, Delete, Create, ReadForEdit, managerVars
<1>8. ASSUME NEW w \in Watches, NEW next \in {"due", "later"}, SetEnabled(w, next)
      PROVE  JobsInv'
  BY <1>8, OutsideKeeps DEF SetEnabled, managerVars
<1>9. ASSUME NEW next \in {"due", "later"}, Update(next)
      PROVE  JobsInv'
  BY <1>9, OutsideKeeps DEF Update, managerVars
<1>10. CASE UNCHANGED jobsVars
  BY <1>10, OutsideKeeps DEF jobsVars
<1> QED BY <1>1, <1>2, <1>3, <1>4, <1>5, <1>6, <1>7, <1>8, <1>9, <1>10 DEF JobsNext

----------------------------------------------------------------------------
(* A watch has at most one live job, from its admission until the hook that    *)
(* schedules its next run has returned (enqueue, releaseWatchJob).           *)
THEOREM WatchRunsAlone == JobsSpec => []OneJobPerWatch
<1> USE JobsAssumption
<1>1. JobsInv => OneJobPerWatch
  BY DEF JobsInv, Claimed, OneJobPerWatch
<1> QED BY InvInit, InvNext, <1>1, PTL DEF JobsSpec

(* A stream's collects never run side by side: at most one job of a stream is  *)
(* running, however dispatchers come and go (nextJob, enqueue).              *)
THEOREM StreamRunsAlone == JobsSpec => []StreamRunsOne
<1> USE JobsAssumption
<1>1. JobsInv => StreamRunsOne
  BY DEF JobsInv, Dispatched, StreamRunsOne
<1> QED BY InvInit, InvNext, <1>1, PTL DEF JobsSpec

----------------------------------------------------------------------------
(* The watch rows and the scheduler's tick.                                  *)

Rows == [mode : {"on", "off", "gone"}, next : {"due", "later"}, based : BOOLEAN]
RowsTyped ==
  /\ slot \in [JobStreams -> JobIds \cup {Manual}] /\ closed \in BOOLEAN
  /\ row \in [Watches -> Rows] /\ tick \subseteq Watches /\ ran \subseteq Watches
  /\ edit \in [watch : Watches \cup {Manual}, read : {"fresh", "stale"}]

(* A watch whose run was recorded since it was listed waits for a later tick.  *)
RanWaits == \A w \in ran : w \in tick => ~StillDue(w)

LEMMA RowsInit == JobsInit => RowsTyped /\ RanWaits
<1> SUFFICES ASSUME JobsInit PROVE RowsTyped /\ RanWaits
  OBVIOUS
<1>1. [mode |-> "on", next |-> "due", based |-> TRUE] \in Rows
  BY DEF Rows
<1>2. slot \in [JobStreams -> JobIds \cup {Manual}] /\ row \in [Watches -> Rows]
  BY <1>1 DEF JobsInit
<1>3. edit \in [watch : Watches \cup {Manual}, read : {"fresh", "stale"}]
  BY DEF JobsInit, NoEdit
<1> QED BY <1>2, <1>3 DEF JobsInit, RowsTyped, RanWaits

LEMMA RowsNext ==
  ASSUME Streamed, Unwatched, Typed, RowsTyped, RanWaits, [JobsNext]_jobsVars
  PROVE  RowsTyped' /\ RanWaits'
<1>1. ASSUME UNCHANGED <<row, edit>>, ran' = ran, tick' \subseteq tick, closed' \in BOOLEAN,
             slot' \in [JobStreams -> JobIds \cup {Manual}]
      PROVE  RowsTyped' /\ RanWaits'
  BY <1>1 DEF RowsTyped, RanWaits, StillDue
<1>2. ASSUME NEW i \in JobIds, NEW s \in JobStreams, CollectRequest(i, s)
      PROVE  RowsTyped' /\ RanWaits'
  BY <1>1, <1>2 DEF CollectRequest, Enqueue, RowsTyped
<1>3. ASSUME NEW i \in JobIds, NEW w \in Watches, RunNow(i, w) \/ EnqueueDueWatch(i, w)
      PROVE  RowsTyped' /\ RanWaits'
  BY <1>1, <1>3 DEF RunNow, EnqueueDueWatch, Enqueue, RowsTyped
<1>4. ASSUME NEW s \in JobStreams, NextJob(s)
      PROVE  RowsTyped' /\ RanWaits'
  <2>1. queue[s] \in Seq(JobIds) /\ slot \in [JobStreams -> JobIds \cup {Manual}]
    BY DEF Typed, RowsTyped
  <2>2. queue[s] # <<>> => Head(queue[s]) \in JobIds
    BY <2>1
  <2>3. slot' \in [JobStreams -> JobIds \cup {Manual}]
    BY <1>4, <2>1, <2>2 DEF NextJob
  <2> QED BY <1>1, <1>4, <2>3 DEF NextJob, RowsTyped
<1>5. ASSUME NEW i \in JobIds, FinishJob(i) \/ ReleaseWatchJob(i) \/ Cancel(i)
      PROVE  RowsTyped' /\ RanWaits'
  BY <1>1, <1>5 DEF FinishJob, ReleaseWatchJob, Cancel, RowsTyped
<1>6. ASSUME NEW i \in JobIds, RecordOutcome(i)
      PROVE  RowsTyped' /\ RanWaits'
  <2> DEFINE w == byID[i].watch
  <2>1. w \in Watches \cup {Manual}
    BY DEF Typed, JobType
  <2>2. /\ row' = IF w = Manual \/ row[w].mode = "gone" THEN row
                  ELSE [row EXCEPT ![w].next = "later", ![w].based = TRUE]
        /\ edit' = IF w # Manual /\ edit.watch = w THEN [edit EXCEPT !.read = "stale"] ELSE edit
        /\ ran' = ran \cup ({w} \cap tick)
        /\ UNCHANGED <<slot, closed, tick>>
    BY <1>6 DEF RecordOutcome, managerVars
  <2> HIDE DEF w
  <2>3. row' \in [Watches -> Rows] /\ edit' \in [watch : Watches \cup {Manual}, read : {"fresh", "stale"}]
    BY <2>1, <2>2 DEF RowsTyped, Rows
  <2>4. RowsTyped'
    BY <2>2, <2>3 DEF RowsTyped
  <2>5. ASSUME NEW x \in Watches, x # w PROVE row'[x] = row[x]
    BY <2>1, <2>2, <2>5 DEF RowsTyped
  <2>6. ASSUME w \in Watches PROVE row'[w].mode = "gone" \/ row'[w].next = "later"
    BY <2>2, <2>6 DEF RowsTyped, Rows, Unwatched
  <2>7. RanWaits'
    <3> SUFFICES ASSUME NEW x \in ran', x \in tick' PROVE ~StillDue(x)'
      BY DEF RanWaits
    <3>1. x \in Watches /\ (x = w \/ x \in ran) /\ x \in tick
      BY <2>2 DEF RowsTyped
    <3>2. CASE x = w
      BY <2>6, <3>1, <3>2 DEF StillDue
    <3>3. CASE x # w
      BY <2>5, <3>1, <3>3 DEF RanWaits, StillDue
    <3> QED BY <3>2, <3>3
  <2> QED BY <2>4, <2>7
<1>7. CASE Shutdown
  BY <1>1, <1>7 DEF Shutdown, RowsTyped
<1>8. ASSUME NEW S \in SUBSET Watches, Tick(S)
      PROVE  RowsTyped' /\ RanWaits'
  <2>1. /\ row' = [w \in Watches |-> IF w \in S THEN [row[w] EXCEPT !.next = "due"] ELSE row[w]]
        /\ tick' \subseteq Watches /\ ran' = {} /\ UNCHANGED <<slot, closed, edit>>
    BY <1>8 DEF Tick, managerVars
  <2>2. row' \in [Watches -> Rows]
    BY <2>1 DEF RowsTyped, Rows
  <2> QED BY <2>1, <2>2 DEF RowsTyped, RanWaits
<1>9. ASSUME NEW w \in Watches, SkipDueWatch(w)
      PROVE  RowsTyped' /\ RanWaits'
  BY <1>1, <1>9 DEF SkipDueWatch, RowsTyped, managerVars
<1>10. ASSUME NEW w \in Watches, NEW r \in Rows, row' = [row EXCEPT ![w] = r],
              ~(r.mode = "on" /\ r.next = "due") \/ w \notin tick \/ w \notin ran',
              ran' \subseteq ran, UNCHANGED <<slot, closed, tick>>,
              edit' \in [watch : Watches \cup {Manual}, read : {"fresh", "stale"}]
      PROVE  RowsTyped' /\ RanWaits'
  <2>1. row' \in [Watches -> Rows] /\ row'[w] = r /\ \A x \in Watches \ {w} : row'[x] = row[x]
    BY <1>10 DEF RowsTyped
  <2>2. RowsTyped'
    BY <1>10, <2>1 DEF RowsTyped
  <2>3. RanWaits'
    BY <1>10, <2>1 DEF RanWaits, StillDue, RowsTyped
  <2> QED BY <2>2, <2>3
<1>11. ASSUME NEW w \in Watches, Disable(w) \/ Delete(w) \/ Create(w) \/ ReadForEdit(w)
       PROVE  RowsTyped' /\ RanWaits'
  <2>1. CASE Disable(w)
    <3>1. [row[w] EXCEPT !.mode = "off"] \in Rows /\ [row[w] EXCEPT !.mode = "off"].mode = "off"
          /\ row' = [row EXCEPT ![w] = [row[w] EXCEPT !.mode = "off"]]
      BY <2>1 DEF Disable, RowsTyped, Rows
    <3> QED BY <1>10, <2>1, <3>1 DEF Disable, managerVars, RowsTyped
  <2>2. CASE Delete(w)
    <3>1. [row[w] EXCEPT !.mode = "gone"] \in Rows /\ [row[w] EXCEPT !.mode = "gone"].mode = "gone"
          /\ row' = [row EXCEPT ![w] = [row[w] EXCEPT !.mode = "gone"]]
      BY <2>2 DEF Delete, RowsTyped, Rows
    <3> QED BY <1>10, <2>2, <3>1 DEF Delete, managerVars, RowsTyped
  <2>3. CASE Create(w)
    <3>1. [mode |-> "on", next |-> "due", based |-> TRUE] \in Rows
      BY DEF Rows
    <3> QED BY <1>10, <2>3, <3>1 DEF Create, managerVars, RowsTyped
  <2>4. CASE ReadForEdit(w)
    BY <2>4 DEF ReadForEdit, managerVars, RowsTyped, RanWaits, StillDue
  <2> QED BY <1>11, <2>1, <2>2, <2>3, <2>4
<1>12. ASSUME NEW w \in Watches, NEW next \in {"due", "later"}, SetEnabled(w, next)
       PROVE  RowsTyped' /\ RanWaits'
  <2>1. [mode |-> "on", next |-> next, based |-> TRUE] \in Rows
    BY DEF Rows
  <2> QED BY <1>10, <1>12, <2>1 DEF SetEnabled, managerVars, RowsTyped
<1>13. ASSUME NEW next \in {"due", "later"}, Update(next)
       PROVE  RowsTyped' /\ RanWaits'
  <2> DEFINE w == edit.watch
             r == [row[w] EXCEPT !.next = next, !.based = edit.read = "fresh"]
  <2>1. /\ row' = IF row[w].mode = "gone" THEN row
                  ELSE [row EXCEPT ![w].next = next, ![w].based = edit.read = "fresh"]
        /\ ran' = ran \ {w} /\ UNCHANGED <<slot, closed, tick>>
        /\ edit' \in [watch : Watches \cup {Manual}, read : {"fresh", "stale"}]
        /\ w \in Watches \cup {Manual}
    BY <1>13 DEF Update, managerVars, NoEdit, RowsTyped
  <2>2. CASE row' = row
    BY <2>1, <2>2 DEF RowsTyped, RanWaits, StillDue
  <2>3. CASE w \in Watches /\ row' # row
    <3>1. row[w] \in Rows /\ (edit.read = "fresh") \in BOOLEAN
      BY <2>3 DEF RowsTyped
    <3>2. r \in Rows
      BY <3>1 DEF Rows
    <3>3. row' = [row EXCEPT ![w] = r]
      BY <2>1, <2>3, <3>1 DEF RowsTyped, Rows
    <3> HIDE DEF r, w
    <3> QED BY <1>10, <2>1, <2>3, <3>2, <3>3
  <2>4. CASE w = Manual
    BY <2>1, <2>2, <2>4 DEF RowsTyped, Unwatched
  <2> QED BY <2>1, <2>2, <2>3, <2>4
<1>14. CASE UNCHANGED jobsVars
  BY <1>1, <1>14 DEF jobsVars, RowsTyped
<1> QED BY <1>2, <1>3, <1>4, <1>5, <1>6, <1>7, <1>8, <1>9, <1>11, <1>12, <1>13, <1>14 DEF JobsNext

(* Jobs, queues, dispatchers, claims, rows and ticks keep their types.         *)
THEOREM JobsTypeCorrect == JobsSpec => []JobsTypeOK
<1> USE JobsAssumption
<1>1. JobsInv => Typed
  BY DEF JobsInv
<1>2. JobsInv /\ RowsTyped => JobsTypeOK
  BY DEF JobsInv, Typed, RowsTyped, Rows, JobsTypeOK
<1> QED BY InvInit, InvNext, RowsInit, RowsNext, <1>1, <1>2, PTL DEF JobsSpec

(* The scheduler never queues a watch for a moment whose run was recorded in   *)
(* between: the row it lists from is stale, the row it reads again is not      *)
(* (enqueueDueWatch, recordWatchOutcome), whatever operators do to the row.   *)
THEOREM DueWatchRunsOnce == JobsSpec => NoRunTwice
<1> USE JobsAssumption
<1>1. JobsInv => Typed
  BY DEF JobsInv
<1>2. RanWaits => QueuesUnrun
  BY DEF RanWaits, QueuesUnrun, EnqueueDueWatch
<1>3. QueuesUnrun => [QueuesUnrun]_jobsVars
  OBVIOUS
<1> QED BY InvInit, InvNext, RowsInit, RowsNext, <1>1, <1>2, <1>3, PTL DEF JobsSpec, NoRunTwice

----------------------------------------------------------------------------
(* A job's log.                                                             *)

Followers == [pc : {"read", "wait", "done"}, cursor : Nat, seen : Seq(Nat), missing : Nat, holds : Nat]

(* Where a ring that starts after slot h keeps the i-th oldest of its lines.  *)
Slot(h, i) == 1 + ((h + i - 1) % Cap)

(* The ring holds the lines after the first d, oldest first from its head;    *)
(* until it is full it has not turned.                                      *)
HoldsLast(r, h, d) ==
  /\ Len(r) < Cap => h = 0 /\ d = 0
  /\ \A i \in 1 .. Len(r) : r[Slot(h, i)] = d + i

LogInv ==
  /\ JobLogTypeOK /\ follower \in Followers
  /\ HoldsLast(ring, logHead, dropped)
  /\ logEpoch = IF ended THEN Appended + 1 ELSE Appended
  /\ follower.cursor <= Appended
  /\ EveryLineAccounted

----------------------------------------------------------------------------
LEMMA Turn ==
  ASSUME LogAssumed, NEW a \in 0 .. 2 * Cap - 1
  PROVE  a % Cap = IF a < Cap THEN a ELSE a - Cap
<1>1. CASE a < Cap
  <2>1. a \in 0 .. Cap - 1 /\ Cap \in Nat \ {0}
    BY <1>1 DEF LogAssumed
  <2>2. a % Cap = a
    BY <2>1
  <2> QED BY <1>1, <2>2
<1>2. CASE a >= Cap
  <2>1. a \in Cap .. 2 * Cap - 1 /\ Cap \in Nat \ {0}
    BY <1>2 DEF LogAssumed
  <2>2. a % Cap = a - Cap
    BY <2>1
  <2> QED BY <1>2, <2>1, <2>2
<1> QED BY <1>1, <1>2 DEF LogAssumed

LEMMA SlotFacts ==
  ASSUME LogAssumed, NEW h \in 0 .. Cap - 1, NEW i \in 1 .. Cap
  PROVE  Slot(h, i) = (IF h + i <= Cap THEN h + i ELSE h + i - Cap) /\ Slot(h, i) \in 1 .. Cap
<1>1. h + i - 1 \in 0 .. 2 * Cap - 1 /\ Cap \in Nat \ {0}
  BY DEF LogAssumed
<1>2. (h + i - 1) % Cap = IF h + i - 1 < Cap THEN h + i - 1 ELSE h + i - 1 - Cap
  BY <1>1, Turn
<1> QED BY <1>1, <1>2 DEF Slot

(* While there is room the ring does not turn, ...                            *)
LEMMA AppendHolds ==
  ASSUME LogAssumed, NEW r \in Seq(Nat), Len(r) < Cap, NEW h, NEW d, HoldsLast(r, h, d)
  PROVE  HoldsLast(Append(r, d + Len(r) + 1), h, d)
<1>1. h = 0 /\ d = 0 /\ Cap \in Nat \ {0} /\ Len(r) \in Nat
  BY DEF HoldsLast, LogAssumed
<1> DEFINE q == Append(r, d + Len(r) + 1)
<1>2. q \in Seq(Nat) /\ Len(q) = Len(r) + 1 /\ q[Len(r) + 1] = d + Len(r) + 1
      /\ \A k \in 1 .. Len(r) : q[k] = r[k]
  BY <1>1
<1> HIDE DEF q
<1>3. ASSUME NEW i \in 1 .. Len(q) PROVE q[Slot(h, i)] = d + i
  <2>1. i \in 1 .. Cap /\ Slot(h, i) = i
    BY <1>1, <1>2, SlotFacts
  <2>2. CASE i = Len(r) + 1
    BY <1>1, <1>2, <2>1, <2>2
  <2>3. CASE i \in 1 .. Len(r)
    BY <1>1, <1>2, <2>1, <2>3 DEF HoldsLast
  <2> QED BY <1>1, <1>2, <2>2, <2>3
<1> QED BY <1>1, <1>3 DEF HoldsLast, q

(* ... and once it is full a new line takes the place of the oldest.           *)
LEMMA OverwriteHolds ==
  ASSUME LogAssumed, NEW r \in Seq(Nat), Len(r) = Cap, NEW h \in 0 .. Cap - 1, NEW d \in Nat,
         HoldsLast(r, h, d)
  PROVE  HoldsLast([r EXCEPT ![h + 1] = d + Len(r) + 1], (h + 1) % Cap, d + 1)
<1> DEFINE q == [r EXCEPT ![h + 1] = d + Len(r) + 1]
           g == (h + 1) % Cap
<1>1. Cap \in Nat \ {0} /\ h + 1 \in 1 .. Cap
  BY DEF LogAssumed
<1>2. q \in Seq(Nat) /\ Len(q) = Cap
      /\ \A k \in 1 .. Cap : q[k] = IF k = h + 1 THEN d + Cap + 1 ELSE r[k]
  BY <1>1
<1>3. g = (IF h + 1 < Cap THEN h + 1 ELSE 0) /\ g \in 0 .. Cap - 1
  <2>1. h + 1 \in 0 .. 2 * Cap - 1
    BY <1>1
  <2>2. g = IF h + 1 < Cap THEN h + 1 ELSE h + 1 - Cap
    BY <2>1, Turn
  <2> QED BY <1>1, <2>2
<1> HIDE DEF q, g
<1>4. ASSUME NEW i \in 1 .. Len(q) PROVE q[Slot(g, i)] = d + 1 + i
  <2>1. i \in 1 .. Cap /\ Slot(g, i) = IF g + i <= Cap THEN g + i ELSE g + i - Cap
    BY <1>2, <1>3, SlotFacts
  <2>2. CASE i = Cap
    <3>1. Slot(g, i) = h + 1
      BY <1>1, <1>3, <2>1, <2>2
    <3> QED BY <1>1, <1>2, <2>2, <3>1
  <2>3. CASE i # Cap
    <3>1. i + 1 \in 1 .. Cap
      BY <1>1, <2>1, <2>3
    <3>2. Slot(h, i + 1) = (IF h + (i + 1) <= Cap THEN h + (i + 1) ELSE h + (i + 1) - Cap)
          /\ Slot(h, i + 1) \in 1 .. Cap
      BY <3>1, SlotFacts
    <3>3. Slot(g, i) = Slot(h, i + 1) /\ Slot(g, i) # h + 1
      BY <1>1, <1>3, <2>1, <3>1, <3>2
    <3>4. r[Slot(h, i + 1)] = d + (i + 1)
      BY <3>1 DEF HoldsLast
    <3>5. q[Slot(g, i)] = r[Slot(h, i + 1)]
      BY <1>2, <3>2, <3>3
    <3>6. d + (i + 1) = d + 1 + i
      BY <2>1
    <3> QED BY <3>3, <3>4, <3>5, <3>6
  <2> QED BY <2>2, <2>3
<1>5. HoldsLast(q, g, d + 1)
  BY <1>1, <1>2, <1>4 DEF HoldsLast
<1> QED BY <1>5 DEF q, g

----------------------------------------------------------------------------
LEMMA LogInitInv == ASSUME LogAssumed PROVE JobLogInit => LogInv
<1> SUFFICES ASSUME JobLogInit PROVE LogInv
  OBVIOUS
<1>1. /\ ring = <<>> /\ Len(ring) = 0 /\ Appended = 0
      /\ logHead = 0 /\ dropped = 0 /\ ended = FALSE /\ logEpoch = 0
  BY DEF JobLogInit, Appended
<1>2. follower \in Followers /\ follower.cursor = 0 /\ follower.missing = 0 /\ follower.seen = <<>>
      /\ Len(follower.seen) = 0 /\ DOMAIN follower.seen = {}
      /\ follower.pc = "read" /\ follower.holds = 0
  BY DEF JobLogInit, Followers
<1>3. JobLogTypeOK
  <2>1. 0 <= Cap /\ 0 \in 0 .. Cap - 1 /\ 0 \in 0 .. MaxLines /\ 0 \in 0 .. MaxLines + 1 /\ 0 <= MaxLines
    BY DEF LogAssumed
  <2>2. ring \in Seq(1 .. MaxLines)
    BY <1>1
  <2>3. 0 \in 0 .. 0
    OBVIOUS
  <2> QED BY <1>1, <1>2, <2>1, <2>2, <2>3 DEF JobLogTypeOK
<1>4. HoldsLast(ring, logHead, dropped)
  BY <1>1 DEF JobLogInit, HoldsLast
<1>5. EveryLineAccounted
  BY <1>2 DEF EveryLineAccounted
<1>6. logEpoch = (IF ended THEN Appended + 1 ELSE Appended) /\ follower.cursor <= Appended
  BY <1>1, <1>2
<1> QED BY <1>2, <1>3, <1>4, <1>5, <1>6 DEF LogInv

LEMMA AppendLogInv == ASSUME LogAssumed, LogInv, AppendLog PROVE LogInv'
<1>1. /\ ring \in Seq(1 .. MaxLines) /\ ring \in Seq(Nat) /\ Len(ring) \in Nat /\ Len(ring) <= Cap
      /\ logHead \in 0 .. Cap - 1 /\ dropped \in Nat /\ Cap \in Nat \ {0} /\ MaxLines \in Nat
      /\ Appended = dropped + Len(ring) /\ Appended + 1 \in 1 .. MaxLines
      /\ HoldsLast(ring, logHead, dropped) /\ follower' = follower /\ ended' = ended /\ logEpoch' = logEpoch + 1
  BY DEF LogInv, AppendLog, JobLogTypeOK, LogAssumed, Appended
<1>2. \E r \in Seq(1 .. MaxLines), h \in 0 .. Cap - 1, d \in Nat :
        /\ ring' = r /\ logHead' = h /\ dropped' = d
        /\ HoldsLast(r, h, d) /\ Len(r) <= Cap /\ d + Len(r) = Appended + 1
  <2>1. CASE Len(ring) < Cap
    <3> DEFINE r == Append(ring, dropped + Len(ring) + 1)
    <3>1. r \in Seq(1 .. MaxLines) /\ Len(r) = Len(ring) + 1
      BY <1>1
    <3>2. HoldsLast(r, logHead, dropped)
      BY <1>1, <2>1, AppendHolds
    <3>3. ring' = r /\ logHead' = logHead /\ dropped' = dropped
      BY <1>1, <2>1 DEF AppendLog, Pushed
    <3>4. Len(r) <= Cap /\ dropped + Len(r) = Appended + 1
      BY <1>1, <2>1, <3>1
    <3> HIDE DEF r
    <3> QED BY <1>1, <3>1, <3>2, <3>3, <3>4
  <2>2. CASE Len(ring) = Cap
    <3> DEFINE r == [ring EXCEPT ![logHead + 1] = dropped + Len(ring) + 1]
    <3>1. r \in Seq(1 .. MaxLines) /\ Len(r) = Len(ring)
      <4>1. logHead + 1 \in 1 .. Len(ring) /\ dropped + Len(ring) + 1 \in 1 .. MaxLines
        BY <1>1, <2>2
      <4> QED BY <1>1, <4>1
    <3>2. HoldsLast(r, (logHead + 1) % Cap, dropped + 1)
      BY <1>1, <2>2, OverwriteHolds
    <3>3. ring' = r /\ logHead' = (logHead + 1) % Cap /\ dropped' = dropped + 1
      BY <1>1, <2>2 DEF AppendLog, Pushed
    <3>4. (logHead + 1) % Cap \in 0 .. Cap - 1 /\ dropped + 1 \in Nat
      BY <1>1
    <3>5. Len(r) <= Cap /\ (dropped + 1) + Len(r) = Appended + 1
      BY <1>1, <2>2, <3>1
    <3> HIDE DEF r
    <3> QED BY <3>1, <3>2, <3>3, <3>4, <3>5
  <2> QED BY <1>1, <2>1, <2>2
<1>3. PICK r \in Seq(1 .. MaxLines), h \in 0 .. Cap - 1, d \in Nat :
        /\ ring' = r /\ logHead' = h /\ dropped' = d
        /\ HoldsLast(r, h, d) /\ Len(r) <= Cap /\ d + Len(r) = Appended + 1
  BY <1>2
<1>4. Appended' = Appended + 1
  BY <1>3 DEF Appended
<1>5. logEpoch' = Appended' /\ ended' = FALSE /\ logEpoch' \in 0 .. MaxLines + 1 /\ logEpoch \in Nat /\ logEpoch + 1 = logEpoch'
  BY <1>1, <1>4 DEF LogInv, AppendLog
<1>6. JobLogTypeOK'
  <2>1. dropped' \in 0 .. MaxLines /\ Appended' <= MaxLines
    BY <1>1, <1>3, <1>4
  <2>2. follower.holds \in 0 .. logEpoch'
    BY <1>5 DEF LogInv, JobLogTypeOK
  <2> QED BY <1>1, <1>3, <1>5, <2>1, <2>2 DEF LogInv, JobLogTypeOK
<1>7. EveryLineAccounted' /\ follower' \in Followers
  BY <1>1 DEF LogInv, EveryLineAccounted
<1>8. follower'.cursor <= Appended'
  BY <1>1, <1>4 DEF LogInv, Followers
<1> QED BY <1>3, <1>5, <1>6, <1>7, <1>8 DEF LogInv

LEMMA FinishInv == ASSUME LogAssumed, LogInv, FinishLog PROVE LogInv'
<1>1. /\ UNCHANGED <<ring, logHead, dropped, follower>> /\ ended = FALSE /\ ended' = TRUE /\ logEpoch' = logEpoch + 1
      /\ JobLogTypeOK /\ logEpoch = Appended /\ Appended \in Nat /\ Appended <= MaxLines /\ MaxLines \in Nat
  BY DEF FinishLog, LogInv, LogAssumed, JobLogTypeOK, Appended
<1>2. Appended' = Appended
  BY <1>1 DEF Appended
<1>3. logEpoch' \in 0 .. MaxLines + 1 /\ logEpoch' = Appended + 1 /\ follower.holds \in 0 .. logEpoch'
  BY <1>1 DEF JobLogTypeOK
<1>4. JobLogTypeOK'
  BY <1>1, <1>2, <1>3 DEF JobLogTypeOK
<1>5. EveryLineAccounted'
  BY <1>1 DEF LogInv, EveryLineAccounted
<1> QED BY <1>1, <1>2, <1>3, <1>4, <1>5 DEF LogInv

LEMMA WakeInv == ASSUME LogAssumed, LogInv, Wake PROVE LogInv'
<1>1. /\ UNCHANGED <<ring, logHead, dropped, ended, logEpoch>> /\ follower \in Followers
      /\ follower' = [follower EXCEPT !.pc = "read"] /\ JobLogTypeOK /\ EveryLineAccounted
  BY DEF Wake, LogInv
<1>2. /\ follower' \in Followers /\ follower'.pc = "read" /\ follower'.cursor = follower.cursor
      /\ follower'.seen = follower.seen /\ follower'.missing = follower.missing
      /\ follower'.holds = follower.holds
  BY <1>1 DEF Followers
<1>3. Appended' = Appended
  BY <1>1 DEF Appended
<1>4. JobLogTypeOK'
  BY <1>1, <1>2, <1>3 DEF JobLogTypeOK
<1>5. EveryLineAccounted'
  BY <1>1, <1>2 DEF EveryLineAccounted
<1> QED BY <1>1, <1>2, <1>3, <1>4, <1>5 DEF LogInv

(* What logSince returns are the lines after its cursor that the ring still    *)
(* has, in order, and it says how many are gone.                              *)
LEMMA SinceFacts ==
  ASSUME LogAssumed, LogInv, NEW c \in Nat, c <= Appended
  PROVE  LET from == IF c < dropped THEN dropped ELSE c
         IN  /\ from \in Nat /\ c <= from /\ from <= Appended /\ Appended \in Nat
             /\ MissingSince(c) = from - c
             /\ Since(c) \in Seq(Nat) /\ Len(Since(c)) = Appended - from
             /\ \A n \in 1 .. Appended - from : Since(c)[n] = from + n
<1> DEFINE from == IF c < dropped THEN dropped ELSE c
           count == Appended - from
<1>1. /\ ring \in Seq(1 .. MaxLines) /\ Len(ring) \in Nat /\ Len(ring) <= Cap /\ dropped \in Nat
      /\ Appended = dropped + Len(ring) /\ Cap \in Nat \ {0}
  BY DEF LogInv, JobLogTypeOK, LogAssumed, Appended
<1>2. from \in Nat /\ c <= from /\ from <= Appended /\ dropped <= from /\ count \in Nat /\ MissingSince(c) = from - c
  BY <1>1 DEF MissingSince
<1>3. Since(c) = [n \in 1 .. count |-> ring[1 + ((logHead + (from + n - 1 - dropped)) % Cap)]]
  BY DEF Since
<1> HIDE DEF from, count
<1>4. ASSUME NEW n \in 1 .. count
      PROVE  ring[1 + ((logHead + (from + n - 1 - dropped)) % Cap)] = from + n
  <2> DEFINE i == from + n - dropped
  <2>1. i \in 1 .. Len(ring) /\ dropped + i = from + n /\ logHead + i - 1 = logHead + (from + n - 1 - dropped)
    BY <1>1, <1>2 DEF count, LogInv, JobLogTypeOK
  <2> HIDE DEF i
  <2>2. ring[Slot(logHead, i)] = dropped + i
    BY <2>1 DEF LogInv, HoldsLast
  <2> QED BY <2>1, <2>2 DEF Slot
<1>5. /\ Since(c) = [n \in 1 .. count |-> from + n]
  BY <1>3, <1>4
<1>6. Since(c) \in Seq(Nat) /\ Len(Since(c)) = count /\ \A n \in 1 .. count : Since(c)[n] = from + n
  <2>1. \A n \in 1 .. count : from + n \in Nat
    BY <1>2
  <2> QED BY <1>2, <1>5, <2>1
<1> QED BY <1>1, <1>2, <1>6 DEF from, count

LEMMA ConcatFacts ==
  ASSUME NEW s \in Seq(Nat), NEW t \in Seq(Nat)
  PROVE  /\ s \o t \in Seq(Nat) /\ Len(s \o t) = Len(s) + Len(t)
         /\ \A i \in 1 .. Len(s) : (s \o t)[i] = s[i]
         /\ \A i \in Len(s) + 1 .. Len(s) + Len(t) : (s \o t)[i] = t[i - Len(s)]
OBVIOUS

(* What was seen, missed before and missed now makes up what precedes.       *)
LEMMA Told ==
  ASSUME NEW a \in Nat, NEW m \in Nat, NEW x, NEW c \in Nat, NEW from \in Nat, a + m = c, x = from - c
  PROVE  m + x = from - a
OBVIOUS

LEMMA ReadBatchInv == ASSUME LogAssumed, LogInv, ReadBatch PROVE LogInv'
<1> DEFINE c == follower.cursor
           from == IF c < dropped THEN dropped ELSE c
           new == Since(c)
           seen == follower.seen \o new
<1>1. /\ UNCHANGED <<ring, logHead, dropped, ended, logEpoch>> /\ JobLogTypeOK /\ EveryLineAccounted
      /\ follower' = [pc |-> IF ended THEN "done" ELSE "wait", cursor |-> Appended, seen |-> seen,
                      missing |-> follower.missing + MissingSince(c), holds |-> logEpoch]
      /\ follower.seen \in Seq(Nat) /\ c \in Nat /\ c <= Appended /\ follower.missing \in Nat
      /\ logEpoch \in Nat
  BY DEF ReadBatch, LogInv, Followers, JobLogTypeOK
<1>2. /\ from \in Nat /\ c <= from /\ from <= Appended /\ Appended \in Nat
      /\ MissingSince(c) = from - c
      /\ new \in Seq(Nat) /\ Len(new) = Appended - from
      /\ \A n \in 1 .. Appended - from : new[n] = from + n
  BY <1>1, SinceFacts
<1> DEFINE a == Len(follower.seen)
<1>3. /\ a \in Nat /\ a + follower.missing = c
      /\ \A i, k \in 1 .. a : i < k => follower.seen[i] < follower.seen[k]
      /\ \A i \in 1 .. a : follower.seen[i] <= c
  BY <1>1 DEF EveryLineAccounted
<1> HIDE DEF new, from, c
<1>4. /\ seen \in Seq(Nat) /\ Len(seen) = a + Len(new)
      /\ \A i \in 1 .. a : seen[i] = follower.seen[i]
      /\ \A i \in a + 1 .. a + Len(new) : seen[i] = new[i - a]
  <2>1. follower.seen \in Seq(Nat) /\ new \in Seq(Nat)
    BY <1>1, <1>2
  <2> QED BY ONLY <2>1, ConcatFacts
<1> HIDE DEF seen, a
<1>5. Len(seen) + (follower.missing + MissingSince(c)) = Appended
  <2>1. follower.missing + MissingSince(c) = from - a
    <3>1. /\ follower.missing \in Nat /\ c \in Nat /\ from \in Nat /\ a \in Nat
          /\ a + follower.missing = c /\ MissingSince(c) = from - c
      BY <1>1, <1>2, <1>3
    <3> QED BY ONLY <3>1, Told
  <2>2. Len(seen) = a + (Appended - from)
    BY <1>2, <1>4
  <2> QED BY <1>2, <1>3, <2>1, <2>2
<1>6. ASSUME NEW i \in 1 .. Len(seen), i <= a
      PROVE  i \in 1 .. a /\ seen[i] = follower.seen[i] /\ seen[i] <= c /\ seen[i] \in Nat
  <2>1. i \in 1 .. a /\ seen[i] \in Nat
    BY <1>3, <1>4, <1>6
  <2> QED BY <1>3, <1>4, <2>1
<1>15. ASSUME NEW i \in 1 .. Len(seen), i > a
       PROVE  seen[i] = from + (i - a) /\ seen[i] <= Appended /\ c < seen[i]
  <2>1. i - a \in 1 .. Appended - from /\ i \in a + 1 .. a + Len(new) /\ i \in Int
    BY <1>2, <1>3, <1>4, <1>15
  <2>2. seen[i] = from + (i - a)
    BY <1>2, <1>4, <2>1
  <2>3. from + (i - a) <= Appended /\ c < from + (i - a)
    BY <1>1, <1>2, <1>3, <2>1
  <2> QED BY <2>2, <2>3
<1>7. ASSUME NEW i \in 1 .. Len(seen) PROVE seen[i] <= Appended
  <2>1. CASE i <= a
    BY <1>1, <1>2, <1>6, <2>1
  <2>2. CASE i > a
    BY <1>15, <2>2
  <2> QED BY <1>3, <2>1, <2>2
<1>8. ASSUME NEW i \in 1 .. Len(seen), NEW k \in 1 .. Len(seen), i < k PROVE seen[i] < seen[k]
  <2>1. CASE k <= a
    <3>1. i <= a
      BY <1>3, <1>8, <2>1
    <3>2. i \in 1 .. a /\ k \in 1 .. a /\ seen[i] = follower.seen[i] /\ seen[k] = follower.seen[k]
      BY <1>6, <2>1, <3>1
    <3> QED BY <1>3, <1>8, <3>2
  <2>2. CASE k > a /\ i <= a
    <3>1. seen[i] <= c /\ seen[i] \in Nat
      BY <1>6, <2>2
    <3>2. c < seen[k] /\ seen[k] \in Nat
      BY <1>4, <1>15, <2>2
    <3> QED BY <1>1, <3>1, <3>2
  <2>3. CASE k > a /\ i > a
    <3>1. seen[i] = from + (i - a) /\ seen[k] = from + (k - a)
      BY <1>15, <2>3
    <3>2. from + (i - a) < from + (k - a)
      BY <1>2, <1>3, <1>8
    <3> QED BY <3>1, <3>2
  <2> QED BY <1>3, <1>8, <2>1, <2>2, <2>3
<1>9. /\ follower'.cursor = Appended /\ follower'.seen = seen /\ follower'.holds = logEpoch
      /\ follower'.missing = follower.missing + MissingSince(c)
      /\ follower'.pc \in {"wait", "done"} /\ follower' \in Followers
  <2>1. follower.missing + MissingSince(c) \in Nat
    BY <1>1, <1>2
  <2> QED BY <1>1, <1>2, <1>4, <2>1 DEF Followers
<1>10. Appended' = Appended
  BY <1>1 DEF Appended
<1>11. DOMAIN seen = 1 .. Len(seen)
  BY <1>4
<1>12. EveryLineAccounted'
  BY <1>5, <1>7, <1>8, <1>9, <1>11 DEF EveryLineAccounted
<1>13. JobLogTypeOK'
  <2>1. logEpoch \in 0 .. logEpoch
    BY <1>1
  <2> QED BY <1>1, <1>9, <1>10, <2>1 DEF JobLogTypeOK
<1>14. follower'.cursor <= Appended'
  BY <1>2, <1>9, <1>10
<1> QED BY <1>1, <1>9, <1>10, <1>12, <1>13, <1>14 DEF LogInv
----------------------------------------------------------------------------
LEMMA LogNextInv == ASSUME LogAssumed, LogInv, [JobLogNext]_jobLogVars PROVE LogInv'
<1>1. CASE JobLogNext
  BY <1>1, AppendLogInv, FinishInv, ReadBatchInv, WakeInv DEF JobLogNext
<1>2. CASE UNCHANGED jobLogVars
  <2>1. UNCHANGED <<ring, logHead, dropped, ended, logEpoch, follower>>
    BY <1>2 DEF jobLogVars
  <2>2. Appended' = Appended
    BY <2>1 DEF Appended
  <2> QED BY <2>1, <2>2 DEF LogInv, JobLogTypeOK, EveryLineAccounted
<1> QED BY <1>1, <1>2

LEMMA LogInvAlways == ASSUME LogAssumed PROVE JobLogSpec => []LogInv
<1>1. JobLogInit => LogInv
  BY LogInitInv
<1>2. LogInv /\ [JobLogNext]_jobLogVars => LogInv'
  BY LogNextInv
<1> QED BY <1>1, <1>2, PTL DEF JobLogSpec

(* A job's log keeps its types for every ring size and number of lines.        *)
THEOREM LogTypeCorrect == JobLogSpec => []JobLogTypeOK
<1> USE JobLogAssumption
<1>1. LogInv => JobLogTypeOK
  BY DEF LogInv
<1> QED BY <1>1, LogInvAlways, PTL

(* Whatever the size of the ring and however far it turned between two reads,  *)
(* a follower has seen every line up to its cursor once and in order, or was   *)
(* told how many it missed.                                                  *)
THEOREM LogAccounted == JobLogSpec => []EveryLineAccounted
<1> USE JobLogAssumption
<1>1. LogInv => EveryLineAccounted
  BY DEF LogInv
<1> QED BY <1>1, LogInvAlways, PTL
=============================================================================
