------------------------------ MODULE SweepJobs ------------------------------
(***************************************************************************)
(* The background watch-memory sweeps of the daemon (crates/windbg-ttd,    *)
(* jobs.rs) over the replay sessions of ReplayRegistry.  Clients call      *)
(* tools and every sweep is a tokio task; the mutex around ServiceState    *)
(* makes each tool call, and each iteration of a sweep, one step, and lets *)
(* everybody else run between two iterations of a sweep.                   *)
(***************************************************************************)
EXTENDS ReplayRegistry, Sequences

CONSTANTS
  MaxJob,             (* bound on the jobs started                         *)
  MaxHits,            (* the largest max_hits a request may carry (1024)   *)
  StepsPerSequence,   (* positions that share a sequence number            *)
  NoRequest

ASSUME SweepAssumption ==
  /\ MaxJob \in Nat \ {0}
  /\ MaxHits \in Nat \ {0}
  /\ StepsPerSequence \in Nat \ {0}

VARIABLES
  nextJob,          (* next_job_id                                         *)
  status,           (* JobRecord.status, "absent" before the job exists    *)
  cancelRequested,  (* JobRecord.cancel_requested                          *)
  progress,         (* JobRecord.progress_current                          *)
  result,           (* the stop_reason of JobRecord.result, or "none"      *)
  error,            (* whether JobRecord.error is set                      *)
  task,             (* the spawned task: "none", "sweeping" or "returned"  *)
  request,          (* the request the task runs with                      *)
  hits,             (* the task's own list of hits, as positions           *)
  disturbed         (* history: jobs whose cursor somebody else moved      *)

jobVars == <<nextJob, status, cancelRequested, progress, result, error,
             task, request, hits>>
vars == <<registryVars, jobVars, disturbed>>

JobIds == 1 .. MaxJob
Statuses == {"absent", "running", "completed", "failed", "cancelled"}
StopReasons == {"max_hits", "not_found", "duplicate_position", "cancelled"}
Requests == [cursor : Handles,
             direction : Directions \cup {"unknown"},
             max_hits : 0 .. MaxHits + 1]

Sequence(p) == p \div StepsPerSequence

Init ==
  /\ RegistryInit
  /\ nextJob = 0
  /\ status = [j \in JobIds |-> "absent"]
  /\ cancelRequested = [j \in JobIds |-> FALSE]
  /\ progress = [j \in JobIds |-> 0]
  /\ result = [j \in JobIds |-> "none"]
  /\ error = [j \in JobIds |-> FALSE]
  /\ task = [j \in JobIds |-> "none"]
  /\ request = [j \in JobIds |-> NoRequest]
  /\ hits = [j \in JobIds |-> <<>>]
  /\ disturbed = {}

-----------------------------------------------------------------------------
(* The job registry.                                                       *)

ValidRequest(r) ==
  /\ r.max_hits \in 1 .. MaxHits
  /\ r.direction # "unknown"

(* job_start_watch_memory_sweep: nothing awaits between the record's       *)
(* insertion and the spawn, so the record and its task appear together.    *)
StartSweep(r) ==
  LET j == nextJob + 1
  IN /\ nextJob < MaxJob
     /\ ValidRequest(r)
     /\ nextJob' = j
     /\ status' = [status EXCEPT ![j] = "running"]
     /\ task' = [task EXCEPT ![j] = "sweeping"]
     /\ request' = [request EXCEPT ![j] = r]
     /\ UNCHANGED <<cancelRequested, progress, result, error, hits>>
     /\ UNCHANGED <<registryVars, disturbed>>

\* Faulty: a finished job takes the request too.
CancelAlwaysTakes(j) == status[j] # "absent"

(* job_cancel leaves a job that has ended alone.                           *)
CancelTakes(j) == status[j] = "running"

CancelJob(j) ==
  /\ j <= nextJob
  /\ CancelTakes(j)
  /\ cancelRequested' = [cancelRequested EXCEPT ![j] = TRUE]
  /\ UNCHANGED <<nextJob, status, progress, result, error, task, request, hits>>
  /\ UNCHANGED <<registryVars, disturbed>>

\* Faulty: the iteration that answers does not return.
AnswerAndGoOn(j, end, reason) ==
  /\ status' = [status EXCEPT ![j] = end]
  /\ result' = [result EXCEPT ![j] = reason]
  /\ UNCHANGED <<task, error, progress>>

\* JobRegistry::complete and cancel_with_result: a status and a result.
Answer(j, end, reason) ==
  /\ status' = [status EXCEPT ![j] = end]
  /\ result' = [result EXCEPT ![j] = reason]
  /\ task' = [task EXCEPT ![j] = "returned"]
  /\ UNCHANGED <<error, progress>>

\* JobRegistry::fail: an error; the hits collected so far are lost.
Fail(j) ==
  /\ status' = [status EXCEPT ![j] = "failed"]
  /\ error' = [error EXCEPT ![j] = TRUE]
  /\ task' = [task EXCEPT ![j] = "returned"]
  /\ UNCHANGED <<result, progress>>

-----------------------------------------------------------------------------
(* The task of a sweep.                                                    *)

Push(j, p) == hits' = [hits EXCEPT ![j] = Append(@, p)]

\* Faulty: the first sequence number is not remembered.
SeenLast(j, p) == Len(hits[j]) > 1 /\ Sequence(hits[j][Len(hits[j])]) = Sequence(p)

\* seen_positions holds the sequence numbers of the hits, not their steps.
Seen(j, p) == \E i \in DOMAIN hits[j] : Sequence(hits[j][i]) = Sequence(p)

\* History: another actor has moved the cursor of these jobs.
Disturb(h, by) ==
  disturbed' = disturbed \cup
    {j \in JobIds \ by : status[j] = "running" /\ request[j].cursor = h}

\* An iteration starts: the lock is taken and cancel_requested is read.
Iterating(j) ==
  /\ task[j] = "sweeping"
  /\ Len(hits[j]) < request[j].max_hits

SweepCancelled(j) ==
  /\ Iterating(j)
  /\ cancelRequested[j]
  /\ Answer(j, "cancelled", "cancelled")
  /\ UNCHANGED <<nextJob, cancelRequested, request, hits>>
  /\ UNCHANGED <<registryVars, disturbed>>

\* Faulty: cancel_requested is only read when a sweep ends.
MayReplayAnyway(j) == Iterating(j)

MayReplay(j) == Iterating(j) /\ ~cancelRequested[j]

(* memory_watchpoint fails: the session or the cursor is gone, or has no   *)
(* native cursor, or the engine refuses the watchpoint.                    *)
SweepFails(j) ==
  /\ MayReplay(j)
  /\ Fail(j)
  /\ UNCHANGED <<nextJob, cancelRequested, request, hits>>
  /\ UNCHANGED <<registryVars, disturbed>>

(* memory_watchpoint fails after it has replayed.                          *)
SweepLeaks(j) ==
  /\ MayReplay(j)
  /\ \E p \in Positions :
       ReplayLeaks(request[j].cursor, request[j].direction, p)
  /\ Fail(j)
  /\ Disturb(request[j].cursor, {j})
  /\ UNCHANGED <<nextJob, cancelRequested, request, hits>>

(* The watchpoint call ends at p: found or not, its position is pushed.    *)
(* An unfound one, and a sequence number seen before, complete the job.    *)
SweepEnds(j) ==
  /\ MayReplay(j)
  /\ \E p \in Positions :
       /\ Replay(request[j].cursor, request[j].direction, p)
       /\ Push(j, p)
       /\ \/ Answer(j, "completed", "not_found")
          \/ Seen(j, p) /\ Answer(j, "completed", "duplicate_position")
  /\ Disturb(request[j].cursor, {j})
  /\ UNCHANGED <<nextJob, cancelRequested, request>>

\* Faulty: every step is a forward step.
StepForward(direction) == "next"

\* The sweep steps on in the direction it searches.
StepDirection(direction) ==
  IF direction = "previous" THEN "previous" ELSE "next"

(* A new hit at p, then one step in the same direction, all in one hold of *)
(* the lock.  A failing step loses the hits.                               *)
SweepHits(j) ==
  LET h == request[j].cursor
      direction == request[j].direction
  IN /\ MayReplay(j)
     /\ \E p, q \in Positions :
          /\ Reaches(direction, replay[h], p)
          /\ Reaches(StepDirection(direction), p, q)
          /\ ~Seen(j, p)
          /\ Replayable(h)
          /\ Push(j, p)
          /\ \/ /\ Land(h, q)
                /\ progress' = [progress EXCEPT ![j] = Len(hits[j]) + 1]
                /\ UNCHANGED <<status, result, error, task>>
             \/ /\ q = p
                /\ Land(h, p)
                /\ Fail(j)
     /\ Disturb(h, {j})
     /\ UNCHANGED <<nextSession, live, native, nextCursor, cursors, leaked>>
     /\ UNCHANGED <<nextJob, cancelRequested, request>>

\* Faulty: the task falls off the end of its loop.
SweepFallsOff(j) ==
  /\ task[j] = "sweeping"
  /\ Len(hits[j]) >= request[j].max_hits
  /\ task' = [task EXCEPT ![j] = "returned"]
  /\ UNCHANGED <<nextJob, status, cancelRequested, progress, result, error>>
  /\ UNCHANGED <<request, hits, registryVars, disturbed>>

(* The loop has run max_hits times.  cancel_requested is not read again: a *)
(* request that arrives after the last iteration changes nothing.          *)
SweepFull(j) ==
  /\ task[j] = "sweeping"
  /\ Len(hits[j]) >= request[j].max_hits
  /\ Answer(j, "completed", "max_hits")
  /\ UNCHANGED <<nextJob, cancelRequested, request, hits>>
  /\ UNCHANGED <<registryVars, disturbed>>

SweepTask(j) ==
  \/ SweepCancelled(j)
  \/ SweepFails(j)
  \/ SweepLeaks(j)
  \/ SweepEnds(j)
  \/ SweepHits(j)
  \/ SweepFull(j)

-----------------------------------------------------------------------------
(* Clients of the daemon.                                                  *)

ClientOpens ==
  /\ \/ \E opened \in {"native", "placeholder", "failed"} : LoadTrace(opened)
     \/ \E s \in SessionIds : CreateCursor(s)
  /\ UNCHANGED <<jobVars, disturbed>>

ClientCloses ==
  /\ \E s \in SessionIds : CloseTrace(s)
  /\ UNCHANGED <<jobVars, disturbed>>

ClientMoves ==
  /\ \E h \in Handles, p \in Positions :
       /\ \/ SetPosition(h, p)
          \/ \E d \in Directions : Replay(h, d, p) \/ ReplayLeaks(h, d, p)
       /\ Disturb(h, {})
  /\ UNCHANGED jobVars

ClientStarts == \E r \in Requests : StartSweep(r)
ClientCancels == \E j \in JobIds : CancelJob(j)

Next ==
  \/ ClientOpens
  \/ ClientCloses
  \/ ClientMoves
  \/ ClientStarts
  \/ ClientCancels
  \/ \E j \in JobIds : SweepTask(j)

(* Tokio polls a task that waits for the mutex, and the mutex is fair: a   *)
(* task that can take it does.  The engine calls return.                   *)
Fairness == \A j \in JobIds : WF_vars(SweepTask(j))

Spec == Init /\ [][Next]_vars
FairSpec == Spec /\ Fairness

-----------------------------------------------------------------------------
(* Invariants.                                                             *)

JobsTypeOK ==
  /\ nextJob \in 0 .. MaxJob
  /\ status \in [JobIds -> Statuses]
  /\ cancelRequested \in [JobIds -> BOOLEAN]
  /\ progress \in [JobIds -> 0 .. MaxHits]
  /\ result \in [JobIds -> StopReasons \cup {"none"}]
  /\ error \in [JobIds -> BOOLEAN]
  /\ task \in [JobIds -> {"none", "sweeping", "returned"}]
  /\ request \in [JobIds -> Requests \cup {NoRequest}]
  /\ \A j \in JobIds : j <= nextJob =>
       request[j] \in [cursor : Handles,
                      direction : Directions,
                      max_hits : 1 .. MaxHits]
  /\ hits \in [JobIds -> Seq(Positions)]
  /\ disturbed \subseteq JobIds

(* The values of every variable; a request the daemon accepted is within   *)
(* the limits that start_watch_memory_sweep checks (jobs.rs).              *)
TypeOK == RegistryTypeOK /\ JobsTypeOK

(* The record of a job and its task agree: a Running record has a live     *)
(* task, a result comes with Completed or Cancelled, an error with Failed, *)
(* and only a job somebody asked to stop is Cancelled (jobs.rs, complete,  *)
(* fail, cancel_with_result, run_watch_memory_sweep_job).                  *)
RecordsMatchTasks ==
  \A j \in JobIds :
    /\ status[j] = "absent" <=> j > nextJob
    /\ task[j] = "none" <=> j > nextJob
    /\ status[j] = "running" <=> task[j] = "sweeping"
    /\ status[j] = "cancelled" <=> result[j] = "cancelled"
    /\ status[j] \in {"completed", "cancelled"} <=> result[j] # "none"
    /\ status[j] = "failed" <=> error[j]
    /\ status[j] \in {"absent"} => ~cancelRequested[j]
    /\ status[j] = "cancelled" => cancelRequested[j]

(* progress_current counts the iterations that ended in a step: it trails  *)
(* the hits by at most the one that ended the sweep, no sweep collects     *)
(* more than max_hits, and "max_hits" says it collected that many.         *)
ProgressCounts ==
  \A j \in JobIds : j <= nextJob =>
    /\ progress[j] \in {Len(hits[j]), Len(hits[j]) - 1}
    /\ Len(hits[j]) <= request[j].max_hits
    /\ status[j] = "running" => progress[j] = Len(hits[j])
    /\ result[j] = "max_hits" => progress[j] = request[j].max_hits
    /\ result[j] \in {"not_found", "duplicate_position"} =>
         progress[j] = Len(hits[j]) - 1

(* No sequence number is collected twice, whoever moves the cursor between *)
(* two iterations, except by the last hit of a sweep that has ended.       *)
HitsDistinct ==
  \A j \in JobIds :
    /\ \A i, k \in 1 .. Len(hits[j]) :
         i < k /\ Sequence(hits[j][i]) = Sequence(hits[j][k]) =>
           k = Len(hits[j]) /\ result[j] \in {"duplicate_position", "not_found"}
    /\ result[j] = "duplicate_position" =>
         \E i \in 1 .. Len(hits[j]) - 1 :
           Sequence(hits[j][i]) = Sequence(hits[j][Len(hits[j])])

(* A sweep whose cursor nobody else moved reports its hits in the order of *)
(* the trace, forwards or backwards as it was asked.                       *)
OrderedHits ==
  \A j \in JobIds \ disturbed : j <= nextJob =>
    \A i, k \in 1 .. Len(hits[j]) :
      i < k => Reaches(request[j].direction, hits[j][i], hits[j][k])

(* What a sweep has collected is in order, and nothing twice, whatever     *)
(* happens to its cursor between two iterations.                           *)
HitsAreSound == HitsDistinct /\ OrderedHits

-----------------------------------------------------------------------------
(* Action properties.                                                      *)

(* Once job_cancel has been taken by a running sweep, the sweep collects   *)
(* nothing more and does not move its cursor while it ends.                *)
CancelStopsReplay ==
  [][\A j \in JobIds :
       status[j] = "running" /\ cancelRequested[j] =>
         /\ hits'[j] = hits[j]
         /\ status'[j] # "running" => replay' = replay]_vars

(* Session and cursor ids are never handed out again, closed or not, so a  *)
(* client's old id never names somebody else's cursor (allocate_session_id,*)
(* create_cursor).                                                         *)
IdsNeverReused ==
  [][/\ \A s \in live' \ live : s > nextSession
     /\ \A h \in cursors' \ cursors :
          h[1] \in live => h[2] > nextCursor[h[1]]]_vars

-----------------------------------------------------------------------------
(* The jobs implement what the job tools promise.                          *)

answer ==
  [j \in JobIds |-> IF error[j] THEN "error"
                   ELSE IF result[j] # "none" THEN "result" ELSE "none"]

Promise == INSTANCE JobLifecycle
             WITH Jobs <- JobIds, phase <- status, wish <- cancelRequested

(* Every record moves only as JobLifecycle allows: it ends once, and an    *)
(* ended job's status, answer and cancel flag never change again.          *)
KeepsPromise == Promise!Init /\ [][Promise!Next]_(Promise!vars)

(* And every started sweep ends, whatever the clients do to its cursor.    *)
Lifecycle == Promise!Spec

(* What the sweep command says of itself, "The command advances one step   *)
(* after each hit to avoid reporting the same position repeatedly" (cli.rs)*)
(* and of its stop reason: "duplicate_position" means that the position of *)
(* the last hit had been reported before.                                  *)
DuplicateIsARepeat ==
  \A j \in JobIds : result[j] = "duplicate_position" =>
    \E i \in 1 .. Len(hits[j]) - 1 : hits[j][i] = hits[j][Len(hits[j])]
=============================================================================
