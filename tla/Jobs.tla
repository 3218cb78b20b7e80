-------------------------------- MODULE Jobs --------------------------------
(***************************************************************************)
(* The low side's job queues (jobs.go) and the scheduler that feeds them   *)
(* (watch.go): one queue and at most one dispatcher goroutine per stream,  *)
(* a claim per watch that outlives its job until the outcome is recorded,  *)
(* Stop requests, shutdown, and edits of a watch's row.                    *)
(*                                                                         *)
(* A job's goroutines are folded into its phase: unborn, queued, removed   *)
(* (taken out of the queue by a Stop or by shutdown), running, finished    *)
(* (terminal, its hook still to run), recorded (claim still held), then    *)
(* unborn again: identities are reused where the code counts up.  A        *)
(* watch's next run is "due" or "later" as seen from the last tick's clock. *)
(***************************************************************************)
EXTENDS Integers, Sequences, FiniteSets

CONSTANTS
  JobIds,      \* bound: jobs that exist at one time
  JobStreams,
  Watches,
  StreamOf,    \* watch -> stream
  QueueCap,    \* jobQueueCap
  Manual       \* marks a job no watch asked for

VARIABLES
  byID,         \* job -> its stream, watch, phase and whether its context is canceled
  queue,       \* jobManager.queues
  slot,        \* jobManager.running: stream -> job or Manual for none
  live,        \* jobManager.dispatch
  worker,      \* stream -> "none", "take" or the job its dispatcher runs
  claim,       \* jobManager.watchJobs: watch -> job or Manual for none
  closed,
  row,         \* watch -> row: on, off or gone; next run; based on the last run
  tick,        \* watches the scheduler's tick has listed and not yet handled
  ran,         \* history: watches whose outcome was recorded since the listing
  edit         \* an edit that has read its row: watch and "fresh" or "stale"

jobsVars == <<byID, queue, slot, live, worker, claim, closed, row, tick, ran, edit>>
managerVars == <<queue, slot, live, worker, claim>>

(* Jobs, watches and the marks for no job are told apart; a watch has a     *)
(* stream.                                                                  *)
Named == Manual \notin JobIds /\ "none" \notin JobIds /\ "take" \notin JobIds
Streamed == StreamOf \in [Watches -> JobStreams]
Unwatched == Manual \notin Watches
ASSUME JobsAssumption == Named /\ Streamed /\ Unwatched

Unborn == [phase |-> "unborn", stream |-> "", watch |-> Manual, canceled |-> FALSE]
Live(i) == byID[i].phase # "unborn"
NoEdit == [watch |-> Manual, read |-> "fresh"]

JobsInit ==
  /\ byID = [i \in JobIds |-> Unborn]
  /\ queue = [s \in JobStreams |-> <<>>]
  /\ slot = [s \in JobStreams |-> Manual]
  /\ live = [s \in JobStreams |-> FALSE] /\ worker = [s \in JobStreams |-> "none"]
  /\ claim = [w \in Watches |-> Manual]
  /\ closed = FALSE
  /\ row = [w \in Watches |-> [mode |-> "on", next |-> "due", based |-> TRUE]]
  /\ tick = {} /\ ran = {} /\ edit = NoEdit

----------------------------------------------------------------------------
(* enqueue: refused when closed, when the watch is claimed or the queue is   *)
(* full; starts a dispatcher when the stream has none.                      *)
Admits(s, w) ==
  /\ ~closed
  /\ w # Manual => claim[w] = Manual
  /\ Len(queue[s]) < QueueCap

Enqueue(i, s, w) ==
  /\ byID[i] = Unborn /\ Admits(s, w)
  /\ byID' = [byID EXCEPT ![i] = [phase |-> "queued", stream |-> s, watch |-> w, canceled |-> FALSE]]
  /\ queue' = [queue EXCEPT ![s] = Append(@, i)]
  /\ claim' = IF w = Manual THEN claim ELSE [claim EXCEPT ![w] = i]
  /\ live' = [live EXCEPT ![s] = TRUE]
  /\ worker' = IF live[s] THEN worker ELSE [worker EXCEPT ![s] = "take"]
  /\ UNCHANGED slot

(* A collect request, or Run now: neither looks at the watch's next run.     *)
CollectRequest(i, s) ==
  Enqueue(i, s, Manual) /\ UNCHANGED <<closed, row, tick, ran, edit>>
RunNow(i, w) ==
  /\ row[w].mode # "gone"
  /\ Enqueue(i, StreamOf[w], w) /\ UNCHANGED <<closed, row, tick, ran, edit>>

(* nextJob: the dispatcher takes the head of its queue or leaves.            *)
LeaveMarked(s) ==   \* mutant: the dispatcher leaves and stays registered
  worker' = [worker EXCEPT ![s] = "none"] /\ UNCHANGED live
Leave(s) ==
  worker' = [worker EXCEPT ![s] = "none"] /\ live' = [live EXCEPT ![s] = FALSE]

NextJob(s) ==
  /\ worker[s] = "take"
  /\ IF queue[s] = <<>> \/ closed
     THEN Leave(s) /\ UNCHANGED <<byID, queue, slot>>
     ELSE LET i == Head(queue[s])
          IN  /\ queue' = [queue EXCEPT ![s] = Tail(@)]
              /\ slot' = [slot EXCEPT ![s] = i]
              /\ worker' = [worker EXCEPT ![s] = i]
              /\ byID' = [byID EXCEPT ![i].phase = "running"]
              /\ UNCHANGED live
  /\ UNCHANGED <<claim, closed, row, tick, ran, edit>>

(* finishJob, in the dispatcher after the collect has ended and in the       *)
(* goroutine that removed a queued job: terminal state and slot first, ...   *)
FinishAndRelease(i) ==   \* mutant: the claim goes with the running slot
  /\ byID[i].phase \in {"running", "removed"}
  /\ byID' = [byID EXCEPT ![i].phase = "finished"]
  /\ slot' = IF slot[byID[i].stream] = i THEN [slot EXCEPT ![byID[i].stream] = Manual] ELSE slot
  /\ claim' = IF byID[i].watch = Manual THEN claim ELSE [claim EXCEPT ![byID[i].watch] = Manual]
  /\ UNCHANGED <<queue, live, worker, closed, row, tick, ran, edit>>
FinishJob(i) ==
  /\ byID[i].phase \in {"running", "removed"}
  /\ byID' = [byID EXCEPT ![i].phase = "finished"]
  /\ slot' = IF slot[byID[i].stream] = i THEN [slot EXCEPT ![byID[i].stream] = Manual] ELSE slot
  /\ UNCHANGED <<queue, live, worker, claim, closed, row, tick, ran, edit>>

(* ... then recordWatchOutcome under watchMu: whatever the outcome, the next  *)
(* run is one interval away; a row that is gone is not written.             *)
RecordOutcome(i) ==
  /\ byID[i].phase = "finished"
  /\ byID' = [byID EXCEPT ![i].phase = "recorded"]
  /\ LET w == byID[i].watch
     IN  /\ row' = IF w = Manual \/ row[w].mode = "gone" THEN row
                   ELSE [row EXCEPT ![w].next = "later", ![w].based = TRUE]
         /\ edit' = IF w # Manual /\ edit.watch = w THEN [edit EXCEPT !.read = "stale"] ELSE edit
         /\ ran' = ran \cup ({w} \cap tick)
  /\ UNCHANGED <<managerVars, closed, tick>>

(* ... and the claim is released when the hook has returned; a dispatcher     *)
(* then looks for its next job.                                             *)
ReleaseWatchJob(i) ==
  /\ byID[i].phase = "recorded"
  /\ byID' = [byID EXCEPT ![i] = Unborn]
  /\ LET w == byID[i].watch
     IN  claim' = IF w # Manual /\ claim[w] = i THEN [claim EXCEPT ![w] = Manual] ELSE claim
  /\ worker' = IF worker[byID[i].stream] = i
               THEN [worker EXCEPT ![byID[i].stream] = "take"] ELSE worker
  /\ UNCHANGED <<queue, slot, live, closed, row, tick, ran, edit>>

(* cancel: a queued job leaves its queue (removeQueuedLocked) and finishes in  *)
(* the caller; a running one has its context canceled and is finished by its *)
(* dispatcher.                                                              *)
Without(q, k) == [n \in 1 .. Len(q) - 1 |-> IF n < k THEN q[n] ELSE q[n + 1]]
RemoveQueued(i, s) ==
  \E k \in 1 .. Len(queue[s]) : queue[s][k] = i /\ queue' = [queue EXCEPT ![s] = Without(@, k)]
Cancel(i) ==
  /\ \/ /\ byID[i].phase = "queued"
        /\ RemoveQueued(i, byID[i].stream)
        /\ byID' = [byID EXCEPT ![i].phase = "removed", ![i].canceled = TRUE]
     \/ /\ byID[i].phase = "running" /\ ~byID[i].canceled
        /\ byID' = [byID EXCEPT ![i].canceled = TRUE] /\ UNCHANGED queue
  /\ UNCHANGED <<slot, live, worker, claim, closed, row, tick, ran, edit>>

Shutdown ==
  /\ ~closed /\ closed' = TRUE
  /\ queue' = [s \in JobStreams |-> <<>>]
  /\ byID' = [i \in JobIds |->
       CASE byID[i].phase = "queued" -> [byID[i] EXCEPT !.phase = "removed", !.canceled = TRUE]
         [] byID[i].phase = "running" -> [byID[i] EXCEPT !.canceled = TRUE]
         [] OTHER -> byID[i]]
  /\ UNCHANGED <<slot, live, worker, claim, row, tick, ran, edit>>

----------------------------------------------------------------------------
(* runDueWatches lists the due rows of this moment; rows become due as time   *)
(* passes, which only the next tick sees.                                   *)
Tick(S) ==
  /\ tick = {} /\ ~closed
  /\ row' = [w \in Watches |-> IF w \in S THEN [row[w] EXCEPT !.next = "due"] ELSE row[w]]
  /\ tick' = {w \in Watches : row[w].mode = "on" /\ row'[w].next = "due"}
  /\ tick' # {} /\ ran' = {}
  /\ UNCHANGED <<byID, managerVars, closed, edit>>

(* enqueueDueWatch, under watchMu: the row is read again.                    *)
ListedIsDue(w) == TRUE   \* mutant: the listing is trusted
StillDue(w) == row[w].mode = "on" /\ row[w].next = "due"
EnqueueDueWatch(i, w) ==
  /\ w \in tick /\ StillDue(w)
  /\ Enqueue(i, StreamOf[w], w)
  /\ tick' = tick \ {w}
  /\ UNCHANGED <<closed, row, ran, edit>>
SkipDueWatch(w) ==
  /\ w \in tick /\ ~(StillDue(w) /\ Admits(StreamOf[w], w))
  /\ tick' = tick \ {w}
  /\ UNCHANGED <<byID, managerVars, closed, row, ran, edit>>

----------------------------------------------------------------------------
(* Rows change outside watchMu.  Enabling makes the watch due at once; the    *)
(* tick in progress may or may not still see that.                          *)
SetEnabled(w, next) ==
  /\ row[w].mode # "gone"
  /\ row' = [row EXCEPT ![w] = [mode |-> "on", next |-> next, based |-> TRUE]]
  /\ ran' = ran \ {w}
  /\ UNCHANGED <<byID, managerVars, closed, tick, edit>>
Disable(w) ==
  /\ row[w].mode = "on"
  /\ row' = [row EXCEPT ![w].mode = "off"]
  /\ UNCHANGED <<byID, managerVars, closed, tick, ran, edit>>
Delete(w) ==
  /\ row[w].mode # "gone"
  /\ row' = [row EXCEPT ![w].mode = "gone"]
  /\ UNCHANGED <<byID, managerVars, closed, tick, ran, edit>>
Create(w) ==
  /\ row[w].mode = "gone" /\ claim[w] = Manual /\ w \notin tick /\ edit.watch # w
  /\ row' = [row EXCEPT ![w] = [mode |-> "on", next |-> "due", based |-> TRUE]]
  /\ UNCHANGED <<byID, managerVars, closed, tick, ran, edit>>

(* handleUpdateWatch reads the row, then stores it with a next run computed   *)
(* from the last run it read.                                               *)
ReadForEdit(w) ==
  /\ edit = NoEdit /\ row[w].mode # "gone"
  /\ edit' = [watch |-> w, read |-> "fresh"]
  /\ UNCHANGED <<byID, managerVars, closed, row, tick, ran>>
Update(next) ==
  /\ edit # NoEdit
  /\ row' = IF row[edit.watch].mode = "gone" THEN row
            ELSE [row EXCEPT ![edit.watch].next = next, ![edit.watch].based = edit.read = "fresh"]
  /\ edit' = NoEdit /\ ran' = ran \ {edit.watch}
  /\ UNCHANGED <<byID, managerVars, closed, tick>>

JobsNext ==
  \/ \E i \in JobIds, s \in JobStreams : CollectRequest(i, s)
  \/ \E i \in JobIds, w \in Watches : RunNow(i, w) \/ EnqueueDueWatch(i, w)
  \/ \E s \in JobStreams : NextJob(s)
  \/ \E i \in JobIds : FinishJob(i) \/ RecordOutcome(i) \/ ReleaseWatchJob(i) \/ Cancel(i)
  \/ Shutdown
  \/ \E S \in SUBSET Watches : Tick(S)
  \/ \E w \in Watches : SkipDueWatch(w) \/ Disable(w) \/ Delete(w) \/ Create(w) \/ ReadForEdit(w)
  \/ \E w \in Watches, next \in {"due", "later"} : SetEnabled(w, next)
  \/ \E next \in {"due", "later"} : Update(next)

(* A dispatcher keeps running while it lives, a collect ends (its downloads   *)
(* are bounded in time) and a hook returns.                                 *)
JobStep(i) == FinishJob(i) \/ RecordOutcome(i) \/ ReleaseWatchJob(i)
JobsFairness ==
  /\ \A s \in JobStreams : WF_jobsVars(NextJob(s))
  /\ \A i \in JobIds : WF_jobsVars(JobStep(i))
JobsSpec == JobsInit /\ [][JobsNext]_jobsVars /\ JobsFairness

----------------------------------------------------------------------------
JobType == [phase : {"unborn", "queued", "removed", "running", "finished", "recorded"},
            stream : JobStreams \cup {""}, watch : Watches \cup {Manual}, canceled : BOOLEAN]
JobsTypeOK ==
  /\ byID \in [JobIds -> JobType]
  /\ queue \in [JobStreams -> Seq(JobIds)]
  /\ slot \in [JobStreams -> JobIds \cup {Manual}]
  /\ live \in [JobStreams -> BOOLEAN]
  /\ worker \in [JobStreams -> JobIds \cup {"none", "take"}]
  /\ claim \in [Watches -> JobIds \cup {Manual}]
  /\ closed \in BOOLEAN
  /\ row \in [Watches -> [mode : {"on", "off", "gone"}, next : {"due", "later"}, based : BOOLEAN]]
  /\ tick \subseteq Watches /\ ran \subseteq Watches
  /\ edit \in [watch : Watches \cup {Manual}, read : {"fresh", "stale"}]

(* A watch has at most one job between its admission and the end of the hook   *)
(* that schedules its next run, whoever finished the previous one.          *)
OneJobPerWatch ==
  \A i, k \in JobIds :
    Live(i) /\ Live(k) /\ byID[i].watch = byID[k].watch /\ byID[i].watch # Manual => i = k

(* At most one collect of a stream runs at a time, so a stream's downloads    *)
(* and exports never overlap.                                               *)
StreamRunsOne ==
  \A i, k \in JobIds :
    byID[i].phase = "running" /\ byID[k].phase = "running" /\ byID[i].stream = byID[k].stream => i = k

(* The scheduler never queues a watch a second time for the moment it was     *)
(* listed as due: if its run was recorded since, it waits for a later tick. *)
QueuesUnrun == \A i \in JobIds, w \in Watches : EnqueueDueWatch(i, w) => w \notin ran
NoRunTwice == [][QueuesUnrun]_jobsVars

(* Every job that was accepted reaches its end and lets go of its claim,      *)
(* whether it runs, is stopped in the queue or meets a shutdown.            *)
AcceptedJobsEnd == \A i \in JobIds : (byID[i].phase = "queued") ~> (byID[i].phase = "unborn")

(* Update's comment: "A watch that has run before gets its next run re-spaced  *)
(* from that last run at the new interval".                                 *)
RespacedFromLastRun == \A w \in Watches : row[w].based
============================================================================
