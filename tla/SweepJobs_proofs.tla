--------------------------- MODULE SweepJobs_proofs ---------------------------
(***************************************************************************)
(* What holds of the sweeps for any number of sessions, cursors, positions,*)
(* jobs and hits, and that the jobs are what JobLifecycle promises.        *)
(***************************************************************************)
EXTENDS SweepJobs, TLAPS

-----------------------------------------------------------------------------
(* Every operation of the session registry keeps its invariants, whatever  *)
(* calls it: a client's tool call or an iteration of a sweep.              *)

\* The inductive invariant: a stale position is explained by a leak only as
\* long as ids are not reused and a cursor does not outlive its session.
RegistryInv == RegistryTypeOK /\ IdsAllocated /\ StaleOnlyAfterLeak

(* A new registry is empty.                                                *)
LEMMA RegistryStarts == RegistryInit => RegistryInv
  BY RegistryAssumption
  DEF RegistryInit, RegistryInv, RegistryTypeOK, IdsAllocated,
      StaleOnlyAfterLeak, Positions, LifetimeStart, SessionIds, Handles

(* load_trace: the id is new, so nothing in the maps belongs to it.        *)
LEMMA LoadTraceKeeps ==
  ASSUME RegistryInv, NEW opened, LoadTrace(opened)
  PROVE  RegistryInv'
<1>1. nextSession' \in SessionIds /\ nextSession' \notin live
  BY RegistryAssumption
  DEF RegistryInv, RegistryTypeOK, IdsAllocated, LoadTrace, SessionIds
<1>2. RegistryTypeOK'
  BY <1>1, RegistryAssumption
  DEF RegistryInv, RegistryTypeOK, LoadTrace, SessionIds
<1>3. IdsAllocated'
  BY <1>1, RegistryAssumption
  DEF RegistryInv, RegistryTypeOK, IdsAllocated, LoadTrace, SessionIds, Handles
<1>4. StaleOnlyAfterLeak'
  BY <1>1
  DEF RegistryInv, RegistryTypeOK, IdsAllocated, StaleOnlyAfterLeak, LoadTrace
<1> QED
  BY <1>2, <1>3, <1>4 DEF RegistryInv

(* close_trace: what is left in the maps belongs to other sessions.        *)
LEMMA CloseTraceKeeps ==
  ASSUME RegistryInv, NEW s \in SessionIds, CloseTrace(s)
  PROVE  RegistryInv'
<1>1. RegistryTypeOK'
  BY RegistryAssumption
  DEF RegistryInv, RegistryTypeOK, CloseTrace, Positions, LifetimeStart
<1>2. IdsAllocated'
  BY DEF RegistryInv, RegistryTypeOK, IdsAllocated, CloseTrace, Handles
<1>3. StaleOnlyAfterLeak'
  BY DEF RegistryInv, RegistryTypeOK, StaleOnlyAfterLeak, CloseTrace, Handles
<1> QED
  BY <1>1, <1>2, <1>3 DEF RegistryInv

(* create_cursor: the new cursor's position is the one the engine reports. *)
LEMMA CreateCursorKeeps ==
  ASSUME RegistryInv, NEW s \in SessionIds, CreateCursor(s)
  PROVE  RegistryInv'
<1> DEFINE h == <<s, nextCursor'[s]>>
<1>1. /\ nextCursor'[s] = nextCursor[s] + 1
      /\ nextCursor'[s] \in CursorIds
      /\ h \in Handles /\ h \notin cursors
      /\ nextCursor' \in [SessionIds -> 0 .. MaxCursor]
      /\ \A t \in SessionIds \ {s} : nextCursor'[t] = nextCursor[t]
  BY RegistryAssumption
  DEF RegistryInv, RegistryTypeOK, IdsAllocated, CreateCursor, Handles,
      SessionIds, CursorIds
<1>2. cursors' \subseteq cursors \cup {h}
  BY DEF CreateCursor
<1>3. RegistryTypeOK'
  BY <1>1, <1>2
  DEF RegistryInv, RegistryTypeOK, CreateCursor, Land
<1>4. IdsAllocated'
  BY <1>1, <1>2
  DEF RegistryInv, RegistryTypeOK, IdsAllocated, CreateCursor, Handles,
      SessionIds, CursorIds
<1>5. StaleOnlyAfterLeak'
  <2> SUFFICES ASSUME NEW g \in cursors', g[1] \in native',
                      cached'[g] # replay'[g]
               PROVE  g \in leaked'
    BY DEF StaleOnlyAfterLeak
  <2>1. g \in Handles
    BY <1>3 DEF RegistryTypeOK
  <2>2. CASE g = h
    BY <1>1, <2>2, <2>1
    DEF RegistryInv, RegistryTypeOK, CreateCursor, Land
  <2>3. CASE g # h
    BY <1>1, <1>2, <2>1, <2>3
    DEF RegistryInv, RegistryTypeOK, StaleOnlyAfterLeak, CreateCursor, Land
  <2> QED
    BY <2>2, <2>3
<1> QED
  BY <1>3, <1>4, <1>5 DEF RegistryInv

(* Any successful move of a cursor - step, memory_watchpoint, or both in   *)
(* one iteration of a sweep - ends with the position that is remembered.   *)
LEMMA LandKeeps ==
  ASSUME RegistryInv, NEW h \in Handles, NEW p \in Positions, Land(h, p),
         UNCHANGED <<nextSession, live, native, nextCursor, cursors, leaked>>
  PROVE  RegistryInv'
<1>1. RegistryTypeOK'
  BY DEF RegistryInv, RegistryTypeOK, Land
<1>2. IdsAllocated'
  BY DEF RegistryInv, IdsAllocated
<1>3. StaleOnlyAfterLeak'
  BY DEF RegistryInv, RegistryTypeOK, StaleOnlyAfterLeak, Land
<1> QED
  BY <1>1, <1>2, <1>3 DEF RegistryInv

(* position_set: only a native cursor's position is compared.              *)
LEMMA SetPositionKeeps ==
  ASSUME RegistryInv, NEW h \in Handles, NEW p \in Positions, SetPosition(h, p)
  PROVE  RegistryInv'
<1>1. CASE h[1] \in native
  BY <1>1, LandKeeps DEF SetPosition
<1>2. CASE h[1] \notin native
  BY <1>2
  DEF RegistryInv, RegistryTypeOK, IdsAllocated, StaleOnlyAfterLeak, SetPosition
<1> QED
  BY <1>1, <1>2

(* memory_watchpoint, failing after the replay: the cursor has its leak.   *)
LEMMA ReplayLeaksKeeps ==
  ASSUME RegistryInv, NEW h \in Handles, NEW direction, NEW p \in Positions,
         ReplayLeaks(h, direction, p)
  PROVE  RegistryInv'
<1>1. RegistryTypeOK'
  BY DEF RegistryInv, RegistryTypeOK, ReplayLeaks
<1>2. IdsAllocated'
  BY DEF RegistryInv, IdsAllocated, ReplayLeaks, Replayable
<1>3. StaleOnlyAfterLeak'
  BY DEF RegistryInv, RegistryTypeOK, StaleOnlyAfterLeak, ReplayLeaks
<1> QED
  BY <1>1, <1>2, <1>3 DEF RegistryInv

(* step and memory_watchpoint, when they succeed.                          *)
LEMMA ReplayKeeps ==
  ASSUME RegistryInv, NEW h \in Handles, NEW direction, NEW p \in Positions,
         Replay(h, direction, p)
  PROVE  RegistryInv'
  BY LandKeeps DEF Replay

-----------------------------------------------------------------------------
(* The invariant.                                                          *)

\* A job id that has not been handed out has left no trace.
Fresh == \A j \in JobIds : j > nextJob => progress[j] = 0 /\ hits[j] = <<>>

\* The inductive invariant of the jobs: the limits of an accepted request
\* bound the hits only because the record of a sweeping task exists.
JobsInv == JobsTypeOK /\ RecordsMatchTasks /\ ProgressCounts /\ Fresh

Inv == RegistryInv /\ JobsInv

-----------------------------------------------------------------------------
(* The registry: every step of the composition is one of its operations.   *)

(* A step of a client or of a sweep keeps the invariant of the registry.   *)
LEMMA RegistryStep ==
  ASSUME RegistryInv, JobsInv, [Next]_vars
  PROVE  RegistryInv'
<1>1. CASE UNCHANGED registryVars
  BY <1>1
  DEF registryVars, RegistryInv, RegistryTypeOK, IdsAllocated, StaleOnlyAfterLeak
<1>2. CASE ClientOpens
  <2>1. CASE \E opened \in {"native", "placeholder", "failed"} : LoadTrace(opened)
    BY <2>1, LoadTraceKeeps
  <2>2. CASE \E s \in SessionIds : CreateCursor(s)
    BY <2>2, CreateCursorKeeps
  <2> QED
    BY <1>2, <2>1, <2>2 DEF ClientOpens
<1>3. CASE ClientCloses
  BY <1>3, CloseTraceKeeps DEF ClientCloses
<1>4. CASE ClientMoves
  BY <1>4, SetPositionKeeps, ReplayKeeps, ReplayLeaksKeeps DEF ClientMoves
<1>5. ASSUME NEW j \in JobIds, SweepTask(j)
      PROVE  RegistryInv'
  <2>1. task[j] = "sweeping" => request[j].cursor \in Handles
    BY DEF JobsInv, JobsTypeOK, RecordsMatchTasks, JobIds
  <2>2. CASE SweepCancelled(j) \/ SweepFails(j) \/ SweepFull(j)
    BY <1>1, <2>2 DEF SweepCancelled, SweepFails, SweepFull
  <2>3. CASE SweepLeaks(j)
    BY <2>1, <2>3, ReplayLeaksKeeps DEF SweepLeaks, MayReplay, Iterating
  <2>4. CASE SweepEnds(j)
    BY <2>1, <2>4, ReplayKeeps DEF SweepEnds, MayReplay, Iterating
  <2>5. CASE SweepHits(j)
    BY <2>1, <2>5, LandKeeps DEF SweepHits, MayReplay, Iterating
  <2> QED
    BY <1>5, <2>2, <2>3, <2>4, <2>5 DEF SweepTask
<1> QED
  BY <1>1, <1>2, <1>3, <1>4, <1>5
  DEF Next, vars, ClientStarts, ClientCancels, StartSweep, CancelJob

-----------------------------------------------------------------------------
(* The jobs.                                                               *)

(* Before the first request there is no job.                               *)
LEMMA JobsStart == Init => JobsInv
<1> SUFFICES ASSUME Init PROVE JobsInv
  OBVIOUS
<1>1. JobsTypeOK
  BY SweepAssumption DEF Init, JobsTypeOK, JobIds, Statuses
<1>2. RecordsMatchTasks /\ ProgressCounts /\ Fresh
  BY DEF Init, RecordsMatchTasks, ProgressCounts, Fresh, JobIds
<1> QED
  BY <1>1, <1>2 DEF JobsInv

(* The new record and its task appear together.                            *)
LEMMA StartKeeps ==
  ASSUME JobsInv, NEW r \in Requests, StartSweep(r)
  PROVE  JobsInv'
<1> DEFINE n == nextJob + 1
<1>1. /\ n \in JobIds /\ nextJob' = n
      /\ nextJob \in 0 .. MaxJob
      /\ status[n] = "absent" /\ task[n] = "none" /\ result[n] = "none"
      /\ ~error[n] /\ ~cancelRequested[n]
      /\ progress[n] = 0 /\ hits[n] = <<>>
  <2>1. n \in JobIds /\ n > nextJob /\ nextJob' = n /\ nextJob \in 0 .. MaxJob
    BY SweepAssumption DEF JobsInv, JobsTypeOK, StartSweep, JobIds
  <2>2. status[n] = "absent" /\ task[n] = "none"
    BY <2>1 DEF JobsInv, RecordsMatchTasks
  <2>3. result[n] = "none" /\ ~error[n] /\ ~cancelRequested[n]
    BY <2>1, <2>2 DEF JobsInv, RecordsMatchTasks
  <2>4. progress[n] = 0 /\ hits[n] = <<>>
    BY <2>1 DEF JobsInv, Fresh
  <2> QED
    BY <2>1, <2>2, <2>3, <2>4
<1>2. /\ r \in [cursor : Handles, direction : Directions, max_hits : 1 .. MaxHits]
      /\ r.max_hits \in 1 .. MaxHits
  BY DEF StartSweep, ValidRequest, Requests
<1>3. JobsTypeOK'
  <2>1. \A j \in JobIds : j <= nextJob' =>
          request'[j] \in [cursor : Handles, direction : Directions,
                           max_hits : 1 .. MaxHits]
    BY <1>1, <1>2
    DEF JobsInv, JobsTypeOK, StartSweep, JobIds
  <2> QED
    BY <1>1, <2>1 DEF JobsInv, JobsTypeOK, StartSweep, JobIds, Statuses
<1>4. RecordsMatchTasks'
  BY <1>1 DEF JobsInv, JobsTypeOK, RecordsMatchTasks, StartSweep, JobIds
<1>5. ProgressCounts'
  BY <1>1, <1>2 DEF JobsInv, JobsTypeOK, ProgressCounts, StartSweep, JobIds
<1>6. Fresh'
  BY <1>1 DEF JobsInv, JobsTypeOK, Fresh, StartSweep, JobIds
<1> QED
  BY <1>3, <1>4, <1>5, <1>6 DEF JobsInv

(* A request to cancel is remembered, and nothing else happens to the job. *)
LEMMA CancelKeeps ==
  ASSUME JobsInv, NEW j \in JobIds, CancelJob(j)
  PROVE  JobsInv'
<1>1. JobsTypeOK'
  BY DEF JobsInv, JobsTypeOK, CancelJob
<1>2. RecordsMatchTasks'
  BY DEF JobsInv, JobsTypeOK, RecordsMatchTasks, CancelJob, CancelTakes
<1>3. ProgressCounts' /\ Fresh'
  BY DEF JobsInv, ProgressCounts, Fresh, CancelJob
<1> QED
  BY <1>1, <1>2, <1>3 DEF JobsInv

(* What the invariant says of a job whose task is still sweeping.          *)
LEMMA Sweeping ==
  ASSUME JobsInv, NEW j \in JobIds, task[j] = "sweeping"
  PROVE  /\ j <= nextJob /\ status[j] = "running"
         /\ result[j] = "none" /\ ~error[j]
         /\ progress[j] = Len(hits[j])
         /\ hits[j] \in Seq(Positions)
         /\ request[j].max_hits \in 1 .. MaxHits
         /\ Len(hits[j]) <= request[j].max_hits
<1>1. j <= nextJob /\ status[j] = "running" /\ result[j] = "none" /\ ~error[j]
  BY DEF JobsInv, JobsTypeOK, RecordsMatchTasks, JobIds
<1>2. progress[j] = Len(hits[j]) /\ Len(hits[j]) <= request[j].max_hits
  BY <1>1 DEF JobsInv, ProgressCounts
<1>3. hits[j] \in Seq(Positions) /\ request[j].max_hits \in 1 .. MaxHits
  BY <1>1 DEF JobsInv, JobsTypeOK
<1> QED
  BY <1>1, <1>2, <1>3

(* One more hit.                                                           *)
LEMMA PushAppends ==
  ASSUME JobsTypeOK, NEW j \in JobIds, NEW p \in Positions, Push(j, p)
  PROVE  /\ hits' \in [JobIds -> Seq(Positions)]
         /\ Len(hits'[j]) = Len(hits[j]) + 1
         /\ \A i \in JobIds \ {j} : hits'[i] = hits[i]
<1>1. hits[j] \in Seq(Positions)
  BY DEF JobsTypeOK
<1>2. /\ Append(hits[j], p) \in Seq(Positions)
      /\ Len(Append(hits[j], p)) = Len(hits[j]) + 1
  BY <1>1
<1> QED
  BY <1>2 DEF JobsTypeOK, Push

(* A sweep that ends with an answer, after one more hit or none.           *)
LEMMA AnswerKeeps ==
  ASSUME JobsInv, NEW j \in JobIds, task[j] = "sweeping",
         NEW end \in {"completed", "cancelled"}, NEW reason \in StopReasons,
         Answer(j, end, reason),
         end = "cancelled" <=> reason = "cancelled",
         end = "cancelled" => cancelRequested[j],
         UNCHANGED <<nextJob, cancelRequested, request>>,
         disturbed' \subseteq JobIds,
         hits' \in [JobIds -> Seq(Positions)],
         \A i \in JobIds \ {j} : hits'[i] = hits[i],
         \/ /\ hits'[j] = hits[j]
            /\ reason \in {"max_hits", "cancelled"}
            /\ reason = "max_hits" => Len(hits[j]) = request[j].max_hits
         \/ /\ Len(hits'[j]) = Len(hits[j]) + 1
            /\ Len(hits[j]) < request[j].max_hits
            /\ reason \in {"not_found", "duplicate_position"}
  PROVE  JobsInv'
<1>1. /\ j <= nextJob /\ Len(hits[j]) \in Nat
      /\ progress[j] = Len(hits[j]) /\ Len(hits[j]) <= request[j].max_hits
      /\ request[j].max_hits \in 1 .. MaxHits
  BY Sweeping
<1>2. JobsTypeOK'
  BY DEF JobsInv, JobsTypeOK, Answer, Statuses
<1>3. RecordsMatchTasks'
  BY <1>1, Sweeping
  DEF JobsInv, JobsTypeOK, RecordsMatchTasks, Answer, StopReasons
<1>4. ProgressCounts'
  <2> SUFFICES ASSUME NEW i \in JobIds, i <= nextJob'
               PROVE  /\ progress'[i] \in {Len(hits'[i]), Len(hits'[i]) - 1}
                      /\ Len(hits'[i]) <= request'[i].max_hits
                      /\ status'[i] = "running" => progress'[i] = Len(hits'[i])
                      /\ result'[i] = "max_hits" =>
                           progress'[i] = request'[i].max_hits
                      /\ result'[i] \in {"not_found", "duplicate_position"} =>
                           progress'[i] = Len(hits'[i]) - 1
    BY DEF ProgressCounts
  <2>1. CASE i = j
    BY <1>1, <2>1 DEF JobsInv, JobsTypeOK, Answer
  <2>2. CASE i # j
    BY <2>2 DEF JobsInv, JobsTypeOK, ProgressCounts, Answer
  <2> QED
    BY <2>1, <2>2
<1>5. Fresh'
  BY <1>1 DEF JobsInv, JobsTypeOK, Fresh, Answer, JobIds
<1> QED
  BY <1>2, <1>3, <1>4, <1>5 DEF JobsInv

(* A sweep that ends with an error, after one more hit or none.            *)
LEMMA FailKeeps ==
  ASSUME JobsInv, NEW j \in JobIds, task[j] = "sweeping", Fail(j),
         UNCHANGED <<nextJob, cancelRequested, request>>,
         disturbed' \subseteq JobIds,
         hits' \in [JobIds -> Seq(Positions)],
         \A i \in JobIds \ {j} : hits'[i] = hits[i],
         \/ hits'[j] = hits[j]
         \/ /\ Len(hits'[j]) = Len(hits[j]) + 1
            /\ Len(hits[j]) < request[j].max_hits
  PROVE  JobsInv'
<1>1. /\ j <= nextJob /\ Len(hits[j]) \in Nat
      /\ progress[j] = Len(hits[j]) /\ Len(hits[j]) <= request[j].max_hits
      /\ request[j].max_hits \in 1 .. MaxHits /\ result[j] = "none"
  BY Sweeping
<1>2. JobsTypeOK'
  BY DEF JobsInv, JobsTypeOK, Fail, Statuses
<1>3. RecordsMatchTasks'
  BY <1>1, Sweeping DEF JobsInv, JobsTypeOK, RecordsMatchTasks, Fail
<1>4. ProgressCounts'
  <2> SUFFICES ASSUME NEW i \in JobIds, i <= nextJob'
               PROVE  /\ progress'[i] \in {Len(hits'[i]), Len(hits'[i]) - 1}
                      /\ Len(hits'[i]) <= request'[i].max_hits
                      /\ status'[i] = "running" => progress'[i] = Len(hits'[i])
                      /\ result'[i] = "max_hits" =>
                           progress'[i] = request'[i].max_hits
                      /\ result'[i] \in {"not_found", "duplicate_position"} =>
                           progress'[i] = Len(hits'[i]) - 1
    BY DEF ProgressCounts
  <2>1. CASE i = j
    BY <1>1, <2>1 DEF JobsInv, JobsTypeOK, Fail
  <2>2. CASE i # j
    BY <2>2 DEF JobsInv, JobsTypeOK, ProgressCounts, Fail
  <2> QED
    BY <2>1, <2>2
<1>5. Fresh'
  BY <1>1 DEF JobsInv, JobsTypeOK, Fresh, Fail, JobIds
<1> QED
  BY <1>2, <1>3, <1>4, <1>5 DEF JobsInv

(* A sweep that goes on after a hit.                                       *)
LEMMA HitKeeps ==
  ASSUME JobsInv, NEW j \in JobIds, task[j] = "sweeping",
         NEW p \in Positions, Push(j, p),
         progress' = [progress EXCEPT ![j] = Len(hits[j]) + 1],
         Len(hits[j]) < request[j].max_hits,
         disturbed' \subseteq JobIds,
         UNCHANGED <<nextJob, cancelRequested, request,
                     status, result, error, task>>
  PROVE  JobsInv'
<1>1. /\ j <= nextJob /\ Len(hits[j]) \in Nat
      /\ progress[j] = Len(hits[j]) /\ result[j] = "none"
      /\ request[j].max_hits \in 1 .. MaxHits
  BY Sweeping
<1>2. /\ hits' \in [JobIds -> Seq(Positions)]
      /\ Len(hits'[j]) = Len(hits[j]) + 1
      /\ \A i \in JobIds \ {j} : hits'[i] = hits[i]
  BY PushAppends DEF JobsInv
<1>3. Len(hits[j]) + 1 \in 0 .. MaxHits
  BY <1>1, SweepAssumption
<1>4. JobsTypeOK'
  BY <1>2, <1>3 DEF JobsInv, JobsTypeOK
<1>5. RecordsMatchTasks'
  BY DEF JobsInv, RecordsMatchTasks
<1>6. ProgressCounts'
  <2> SUFFICES ASSUME NEW i \in JobIds, i <= nextJob'
               PROVE  /\ progress'[i] \in {Len(hits'[i]), Len(hits'[i]) - 1}
                      /\ Len(hits'[i]) <= request'[i].max_hits
                      /\ status'[i] = "running" => progress'[i] = Len(hits'[i])
                      /\ result'[i] = "max_hits" =>
                           progress'[i] = request'[i].max_hits
                      /\ result'[i] \in {"not_found", "duplicate_position"} =>
                           progress'[i] = Len(hits'[i]) - 1
    BY DEF ProgressCounts
  <2>1. CASE i = j
    BY <1>1, <1>2, <2>1 DEF JobsInv, JobsTypeOK
  <2>2. CASE i # j
    BY <1>2, <2>2 DEF JobsInv, JobsTypeOK, ProgressCounts
  <2> QED
    BY <2>1, <2>2
<1>7. Fresh'
  BY <1>1, <1>2 DEF JobsInv, JobsTypeOK, Fresh, JobIds
<1> QED
  BY <1>4, <1>5, <1>6, <1>7 DEF JobsInv

(* One iteration of a sweep, whatever the engine answers.                  *)
LEMMA TaskKeeps ==
  ASSUME JobsInv, NEW j \in JobIds, SweepTask(j)
  PROVE  JobsInv'
<1> USE DEF JobsInv
<1>1. /\ hits \in [JobIds -> Seq(Positions)] /\ hits[j] \in Seq(Positions)
      /\ disturbed \subseteq JobIds
  BY DEF JobsTypeOK
<1>2. CASE SweepCancelled(j)
  BY <1>1, <1>2, AnswerKeeps DEF SweepCancelled, Iterating, StopReasons
<1>3. CASE SweepFails(j)
  BY <1>1, <1>3, FailKeeps DEF SweepFails, MayReplay, Iterating
<1>4. CASE SweepLeaks(j)
  BY <1>1, <1>4, FailKeeps DEF SweepLeaks, MayReplay, Iterating, Disturb
<1>5. CASE SweepEnds(j)
  <2>1. PICK p \in Positions :
          /\ Push(j, p)
          /\ \/ Answer(j, "completed", "not_found")
             \/ Answer(j, "completed", "duplicate_position")
    BY <1>5 DEF SweepEnds
  <2> QED
    BY <1>1, <1>5, <2>1, PushAppends, AnswerKeeps
    DEF SweepEnds, MayReplay, Iterating, Disturb, StopReasons
<1>6. CASE SweepHits(j)
  <2>1. PICK p \in Positions :
          /\ Push(j, p)
          /\ \/ /\ progress' = [progress EXCEPT ![j] = Len(hits[j]) + 1]
                /\ UNCHANGED <<status, result, error, task>>
             \/ Fail(j)
    BY <1>6 DEF SweepHits
  <2>2. /\ task[j] = "sweeping" /\ Len(hits[j]) < request[j].max_hits
        /\ UNCHANGED <<nextJob, cancelRequested, request>>
        /\ disturbed' \subseteq JobIds
    BY <1>1, <1>6 DEF SweepHits, MayReplay, Iterating, Disturb
  <2>3. CASE Fail(j)
    BY <2>1, <2>2, <2>3, PushAppends, FailKeeps
  <2> QED
    BY <2>1, <2>2, <2>3, HitKeeps
<1>7. CASE SweepFull(j)
  <2>1. Len(hits[j]) = request[j].max_hits
    BY <1>1, <1>7, Sweeping DEF SweepFull
  <2> QED
    BY <1>1, <1>7, <2>1, AnswerKeeps DEF SweepFull, StopReasons
<1> QED
  BY <1>2, <1>3, <1>4, <1>5, <1>6, <1>7 DEF SweepTask

(* Every step keeps the invariant of the jobs.                             *)
LEMMA JobsStep ==
  ASSUME JobsInv, [Next]_vars
  PROVE  JobsInv'
<1>1. ASSUME UNCHANGED jobVars, disturbed' \subseteq JobIds
      PROVE  JobsInv'
  BY <1>1
  DEF jobVars, JobsInv, JobsTypeOK, RecordsMatchTasks, ProgressCounts, Fresh
<1>2. disturbed \subseteq JobIds
  BY DEF JobsInv, JobsTypeOK
<1>3. CASE ClientMoves
  BY <1>1, <1>2, <1>3 DEF ClientMoves, Disturb
<1>4. CASE ClientOpens \/ ClientCloses \/ UNCHANGED vars
  BY <1>1, <1>2, <1>4 DEF ClientOpens, ClientCloses, vars
<1> QED
  BY <1>3, <1>4, StartKeeps, CancelKeeps, TaskKeeps
  DEF Next, ClientStarts, ClientCancels

-----------------------------------------------------------------------------
(* The theorems.                                                           *)

(* The invariant holds for any number of sessions and jobs.                *)
LEMMA Inductive == Spec => []Inv
<1>1. Init => Inv
  BY RegistryStarts, JobsStart DEF Init, Inv
<1>2. Inv /\ [Next]_vars => Inv'
  BY RegistryStep, JobsStep DEF Inv
<1> QED
  BY <1>1, <1>2, PTL DEF Spec

(* Every variable keeps its values, and every accepted request the limits  *)
(* of start_watch_memory_sweep.                                            *)
THEOREM SweepTypes == Spec => []TypeOK
<1>1. Inv => TypeOK
  BY DEF Inv, RegistryInv, JobsInv, TypeOK
<1> QED
  BY <1>1, Inductive, PTL

(* The registry remembers where every native cursor is, unless a           *)
(* memory_watchpoint call failed on it after it had replayed.              *)
THEOREM StalePositionsExplained == Spec => []StaleOnlyAfterLeak
<1>1. Inv => StaleOnlyAfterLeak
  BY DEF Inv, RegistryInv
<1> QED
  BY <1>1, Inductive, PTL

(* The record of a job and its task agree: nothing Running has lost its    *)
(* task, and what a record answers fits its status.                        *)
THEOREM RecordsFollowTasks == Spec => []RecordsMatchTasks
<1>1. Inv => RecordsMatchTasks
  BY DEF Inv, JobsInv
<1> QED
  BY <1>1, Inductive, PTL

(* progress_current is the number of hits the sweep went on from, and a    *)
(* sweep never collects more than max_hits.                                *)
THEOREM ProgressIsExact == Spec => []ProgressCounts
<1>1. Inv => ProgressCounts
  BY DEF Inv, JobsInv
<1> QED
  BY <1>1, Inductive, PTL

(* A sweep that has been asked to stop collects and replays nothing more.  *)
THEOREM CancelIsFinal == Spec => CancelStopsReplay
<1> DEFINE Stops(j) ==
      status[j] = "running" /\ cancelRequested[j] =>
        /\ hits'[j] = hits[j]
        /\ status'[j] # "running" => replay' = replay
<1>1. ASSUME Inv, [Next]_vars, NEW j \in JobIds
      PROVE  Stops(j)
  <2> SUFFICES ASSUME status[j] = "running", cancelRequested[j]
               PROVE  /\ hits'[j] = hits[j]
                      /\ status'[j] # "running" => replay' = replay
    OBVIOUS
  <2> /\ status \in [JobIds -> Statuses] /\ hits \in [JobIds -> Seq(Positions)]
      /\ status[j] = "running" /\ j <= nextJob
    BY <1>1, SweepAssumption
    DEF Inv, JobsInv, JobsTypeOK, RecordsMatchTasks, JobIds
  <2>1. ASSUME NEW i \in JobIds, SweepTask(i), i # j
        PROVE  hits'[j] = hits[j] /\ status'[j] = status[j]
    BY <2>1
    DEF SweepTask, SweepCancelled, SweepFails, SweepLeaks, SweepEnds, SweepHits,
        SweepFull, Answer, Fail, Push
  <2>2. CASE SweepTask(j)
    BY <2>2
    DEF SweepTask, SweepCancelled, SweepFails, SweepLeaks, SweepEnds, SweepHits,
        SweepFull, MayReplay, registryVars
  <2>3. CASE \/ ClientOpens \/ ClientCloses \/ ClientMoves
             \/ ClientCancels \/ UNCHANGED vars
    BY <2>3
    DEF ClientOpens, ClientCloses, ClientMoves, ClientCancels, CancelJob,
        jobVars, vars
  <2>4. CASE ClientStarts
    BY <1>1, <2>4, SweepAssumption
    DEF ClientStarts, StartSweep, registryVars, Inv, JobsInv, JobsTypeOK, JobIds
  <2> QED
    BY <1>1, <2>1, <2>2, <2>3, <2>4 DEF Next
<1>2. Inv /\ [Next]_vars => [\A j \in JobIds : Stops(j)]_vars
  BY <1>1
<1> QED
  BY <1>2, Inductive, PTL DEF Spec, CancelStopsReplay

(* Ids of closed traces and of cursors are never handed out again.         *)
THEOREM IdsAreFresh == Spec => IdsNeverReused
<1> DEFINE NewIds ==
      /\ \A s \in live' \ live : s > nextSession
      /\ \A h \in cursors' \ cursors :
           h[1] \in live => h[2] > nextCursor[h[1]]
<1>1. ASSUME Inv, [Next]_vars
      PROVE  NewIds
  <2>1. CASE live' \subseteq live /\ cursors' \subseteq cursors
    BY <2>1
  <2>2. ASSUME NEW opened, LoadTrace(opened)
        PROVE  NewIds
    BY <1>1, <2>2, RegistryAssumption DEF LoadTrace, Inv, RegistryInv, RegistryTypeOK
  <2>3. ASSUME NEW s \in SessionIds, CreateCursor(s)
        PROVE  NewIds
    BY <1>1, <2>3, RegistryAssumption
    DEF CreateCursor, Inv, RegistryInv, RegistryTypeOK, SessionIds, Handles
  <2> QED
    BY <1>1, <2>1, <2>2, <2>3
    DEF Next, ClientOpens, ClientCloses, ClientMoves, ClientStarts,
        ClientCancels, StartSweep, CancelJob, CloseTrace, SetPosition, Replay,
        ReplayLeaks, SweepTask, SweepCancelled, SweepFails, SweepLeaks,
        SweepEnds, SweepHits, SweepFull, registryVars, vars
<1>2. Inv /\ [Next]_vars => [NewIds]_vars
  BY <1>1
<1> QED
  BY <1>2, Inductive, PTL DEF Spec, IdsNeverReused

-----------------------------------------------------------------------------
(* The hits.                                                               *)

\* A sweep that has collected something, and the last of it.
Collecting(j) == status[j] = "running" /\ hits[j] # <<>>
LastHit(j) == hits[j][Len(hits[j])]

\* The cursor of such a sweep was there, so its id is not handed out again.
CursorKnown ==
  \A j \in JobIds : Collecting(j) =>
    LET h == request[j].cursor
    IN h[1] <= nextSession /\ (h[1] \in live => h[2] <= nextCursor[h[1]])

\* Unless somebody else moved it, the cursor is not before the last hit.
CursorBehind ==
  \A j \in JobIds \ disturbed : Collecting(j) /\ request[j].cursor \in cursors =>
    Reaches(request[j].direction, LastHit(j), replay[request[j].cursor])

HitsInv == CursorKnown /\ CursorBehind /\ HitsDistinct /\ OrderedHits

(* What the invariants say of the request and the hits of a running job.   *)
LEMMA RunningJob ==
  ASSUME Inv, NEW j \in JobIds, status[j] = "running"
  PROVE  /\ j <= nextJob /\ task[j] = "sweeping" /\ result[j] = "none"
         /\ request[j].cursor \in Handles /\ request[j].direction \in Directions
         /\ hits[j] \in Seq(Positions)
<1>1. j <= nextJob /\ task[j] = "sweeping" /\ result[j] = "none"
  <2>1. task[j] = "sweeping"
    BY DEF Inv, JobsInv, RecordsMatchTasks
  <2> QED
    BY <2>1, Sweeping DEF Inv
<1> QED
  BY <1>1 DEF Inv, JobsInv, JobsTypeOK

(* A sweep changes its own hits, its own cursor and nothing else that the  *)
(* invariant is about.                                                     *)
LEMMA TaskTouchesItsOwn ==
  ASSUME Inv, NEW j \in JobIds, SweepTask(j)
  PROVE  /\ UNCHANGED <<nextSession, live, nextCursor, cursors, request, nextJob>>
         /\ disturbed \subseteq disturbed'
         /\ \A i \in JobIds \ {j} : /\ hits'[i] = hits[i] /\ status'[i] = status[i] /\ result'[i] = result[i]
                                    /\ status[i] = "running" /\ i \notin disturbed' =>
                                         replay'[request[i].cursor] = replay[request[i].cursor]
<1>1. task[j] = "sweeping"
  BY DEF SweepTask, SweepCancelled, SweepFails, SweepLeaks, SweepEnds, SweepHits, SweepFull, MayReplay, Iterating
<1>2. request[j].cursor \in Handles
  <2>1. status[j] = "running"
    BY <1>1 DEF Inv, JobsInv, RecordsMatchTasks
  <2> QED
    BY <2>1, RunningJob
<1>3. UNCHANGED <<nextSession, live, nextCursor, cursors, request, nextJob>> /\ disturbed \subseteq disturbed'
  BY DEF SweepTask, SweepCancelled, SweepFails, SweepLeaks, SweepEnds, SweepHits, SweepFull, ReplayLeaks, Replay,
         registryVars, Disturb
<1>4. ASSUME NEW i \in JobIds \ {j}
      PROVE  /\ hits'[i] = hits[i] /\ status'[i] = status[i] /\ result'[i] = result[i]
  <2>1. hits' = hits \/ \E p \in Positions : Push(j, p)
    BY DEF SweepTask, SweepCancelled, SweepFails, SweepLeaks, SweepEnds, SweepHits, SweepFull
  <2>2. hits'[i] = hits[i]
    BY <1>4, <2>1 DEF Push, Inv, JobsInv, JobsTypeOK
  <2>3. UNCHANGED <<status, result>> \/ Fail(j) \/ \E end, reason : Answer(j, end, reason)
    BY DEF SweepTask, SweepCancelled, SweepFails, SweepLeaks, SweepEnds, SweepHits, SweepFull
  <2> QED
    BY <1>4, <2>2, <2>3 DEF Fail, Answer, Inv, JobsInv, JobsTypeOK
<1>5. ASSUME NEW i \in JobIds \ {j}, status[i] = "running", i \notin disturbed'
      PROVE  replay'[request[i].cursor] = replay[request[i].cursor]
  <2>1. request[i].cursor \in Handles /\ replay \in [Handles -> Positions]
    BY <1>5, RunningJob DEF Inv, RegistryInv, RegistryTypeOK
  <2>2. CASE replay' = replay
    BY <2>2
  <2>3. CASE Disturb(request[j].cursor, {j}) /\ \E p : replay' = [replay EXCEPT ![request[j].cursor] = p]
    <3>1. request[i].cursor # request[j].cursor
      BY <1>5, <2>3 DEF Disturb
    <3> QED
      BY <2>1, <2>3, <3>1
  <2> QED
    BY <2>2, <2>3
    DEF SweepTask, SweepCancelled, SweepFails, SweepLeaks, SweepEnds, SweepHits, SweepFull, ReplayLeaks, Replay,
        Land, registryVars
<1> QED
  BY <1>3, <1>4, <1>5

\* How the hits of a sweep grow: not at all, or by where the engine stopped.
Grows(j, p) ==
  /\ hits'[j] = Append(hits[j], p)
  /\ Replayable(request[j].cursor)
  /\ Reaches(request[j].direction, replay[request[j].cursor], p)
  /\ \/ status'[j] # "running" /\ result'[j] = "not_found"
     \/ status'[j] # "running" /\ result'[j] = "duplicate_position" /\ Seen(j, p)
     \/ /\ ~Seen(j, p) /\ result'[j] = "none"
        /\ status'[j] = "running" => Reaches(request[j].direction, p, replay'[request[j].cursor])

(* What one iteration does to the hits of its sweep.                       *)
LEMMA TaskCollects ==
  ASSUME Inv, NEW j \in JobIds, SweepTask(j)
  PROVE  \/ hits'[j] = hits[j] /\ status'[j] # "running" /\ result'[j] \in {"none", "cancelled", "max_hits"}
         \/ \E p \in Positions : Grows(j, p)
<1>1. /\ task[j] = "sweeping" /\ status[j] = "running" /\ result[j] = "none"
      /\ request[j].cursor \in Handles /\ request[j].direction \in Directions
      /\ status \in [JobIds -> Statuses] /\ result \in [JobIds -> StopReasons \cup {"none"}]
      /\ hits \in [JobIds -> Seq(Positions)] /\ replay \in [Handles -> Positions]
  <2>1. task[j] = "sweeping"
    BY DEF SweepTask, SweepCancelled, SweepFails, SweepLeaks, SweepEnds, SweepHits, SweepFull, MayReplay, Iterating
  <2>2. status[j] = "running"
    BY <2>1 DEF Inv, JobsInv, RecordsMatchTasks
  <2> QED
    BY <2>1, <2>2, RunningJob DEF Inv, JobsInv, JobsTypeOK, RegistryInv, RegistryTypeOK
<1>2. ASSUME Fail(j)
      PROVE  status'[j] = "failed" /\ result'[j] = "none"
  BY <1>1, <1>2 DEF Fail
<1>3. ASSUME NEW end \in Statuses, NEW reason \in StopReasons, Answer(j, end, reason)
      PROVE  status'[j] = end /\ result'[j] = reason
  BY <1>1, <1>3 DEF Answer
<1>4. CASE SweepCancelled(j) \/ SweepFull(j)
  BY <1>3, <1>4 DEF SweepCancelled, SweepFull, Statuses, StopReasons
<1>5. CASE SweepFails(j) \/ SweepLeaks(j)
  BY <1>2, <1>5 DEF SweepFails, SweepLeaks
<1>6. CASE SweepEnds(j)
  <2>1. PICK p \in Positions :
          /\ Replay(request[j].cursor, request[j].direction, p)
          /\ Push(j, p)
          /\ \/ Answer(j, "completed", "not_found")
             \/ Seen(j, p) /\ Answer(j, "completed", "duplicate_position")
    BY <1>6 DEF SweepEnds
  <2>2. hits'[j] = Append(hits[j], p)
    BY <1>1, <2>1 DEF Push
  <2>3. Replayable(request[j].cursor) /\ Reaches(request[j].direction, replay[request[j].cursor], p)
    BY <2>1 DEF Replay
  <2>4. status'[j] = "completed" /\ (result'[j] = "not_found" \/ (result'[j] = "duplicate_position" /\ Seen(j, p)))
    BY <1>3, <2>1 DEF Statuses, StopReasons
  <2>5. Grows(j, p)
    BY <2>2, <2>3, <2>4 DEF Grows
  <2> QED
    BY <2>5
<1>7. CASE SweepHits(j)
  <2>1. PICK p, q \in Positions :
          /\ Reaches(request[j].direction, replay[request[j].cursor], p)
          /\ Reaches(StepDirection(request[j].direction), p, q)
          /\ ~Seen(j, p)
          /\ Replayable(request[j].cursor)
          /\ Push(j, p)
          /\ \/ Land(request[j].cursor, q) /\ UNCHANGED <<status, result>>
             \/ Fail(j)
    BY <1>7 DEF SweepHits
  <2>2. hits'[j] = Append(hits[j], p)
    BY <1>1, <2>1 DEF Push
  <2>3. CASE Fail(j)
    <3>1. status'[j] # "running" /\ result'[j] = "none"
      BY <1>2, <2>3
    <3>2. Grows(j, p)
      BY <2>1, <2>2, <3>1 DEF Grows
    <3> QED
      BY <3>2
  <2>4. CASE Land(request[j].cursor, q) /\ UNCHANGED <<status, result>>
    <3>1. replay'[request[j].cursor] = q /\ result'[j] = "none"
      BY <1>1, <2>4 DEF Land
    <3>2. StepDirection(request[j].direction) = request[j].direction
      BY <1>1 DEF StepDirection, Directions
    <3>3. Grows(j, p)
      BY <2>1, <2>2, <3>1, <3>2 DEF Grows
    <3> QED
      BY <3>3
  <2> QED
    BY <2>1, <2>3, <2>4
<1> QED
  BY <1>4, <1>5, <1>6, <1>7 DEF SweepTask

(* The order of positions.                                                 *)
LEMMA ReachesOnwards ==
  ASSUME NEW d, NEW a \in Positions, NEW b \in Positions, NEW e \in Positions, Reaches(d, a, b), Reaches(d, b, e)
  PROVE  Reaches(d, a, e)
BY RegistryAssumption DEF Reaches, Positions

(* The hits with one more.                                                 *)
LEMMA OneMore ==
  ASSUME NEW list \in Seq(Positions), NEW p \in Positions, NEW longer, longer = Append(list, p)
  PROVE  /\ Len(longer) = Len(list) + 1 /\ Len(list) \in Nat /\ longer[Len(list) + 1] = p
         /\ longer # <<>>
         /\ \A i \in 1 .. Len(list) : longer[i] = list[i] /\ list[i] \in Positions
OBVIOUS

(* One iteration keeps what is said of its hits.                           *)
LEMMA TaskKeepsHits ==
  ASSUME Inv, Inv', HitsInv, NEW j \in JobIds, SweepTask(j)
  PROVE  HitsInv'
<1>1. /\ UNCHANGED <<nextSession, live, nextCursor, cursors, request, nextJob>>
      /\ disturbed \subseteq disturbed'
      /\ \A i \in JobIds \ {j} : hits'[i] = hits[i] /\ status'[i] = status[i] /\ result'[i] = result[i]
      /\ \A i \in JobIds \ {j} : status[i] = "running" /\ i \notin disturbed' =>
           replay'[request[i].cursor] = replay[request[i].cursor]
  BY TaskTouchesItsOwn
<1>2. /\ status[j] = "running" /\ task[j] = "sweeping" /\ result[j] = "none" /\ j <= nextJob
      /\ request[j].cursor \in Handles /\ hits[j] \in Seq(Positions)
  <2>1. status[j] = "running"
    BY DEF SweepTask, SweepCancelled, SweepFails, SweepLeaks, SweepEnds, SweepHits, SweepFull, MayReplay, Iterating,
           Inv, JobsInv, RecordsMatchTasks
  <2> QED
    BY <2>1, RunningJob
<1>3. replay[request[j].cursor] \in Positions /\ replay'[request[j].cursor] \in Positions
  BY <1>2 DEF Inv, RegistryInv, RegistryTypeOK
<1>4. CASE hits'[j] = hits[j] /\ status'[j] # "running" /\ result'[j] \in {"none", "cancelled", "max_hits"}
  <2>1. CursorKnown' /\ CursorBehind'
    BY <1>1, <1>4 DEF HitsInv, CursorKnown, CursorBehind, Collecting, LastHit
  <2>2. HitsDistinct'
    BY <1>1, <1>2, <1>4 DEF HitsInv, HitsDistinct
  <2>3. OrderedHits'
    BY <1>1, <1>4 DEF HitsInv, OrderedHits
  <2> QED
    BY <2>1, <2>2, <2>3 DEF HitsInv
<1>5. ASSUME NEW p \in Positions, Grows(j, p)
      PROVE  HitsInv'
  <2>1. /\ Len(hits'[j]) = Len(hits[j]) + 1 /\ Len(hits[j]) \in Nat
        /\ hits'[j][Len(hits[j]) + 1] = p /\ hits'[j] # <<>>
        /\ \A i \in 1 .. Len(hits[j]) : hits'[j][i] = hits[j][i] /\ hits[j][i] \in Positions
    <3>1. hits'[j] = Append(hits[j], p)
      BY <1>5 DEF Grows
    <3>2. hits[j] \in Seq(Positions)
      BY <1>2
    <3> QED
      BY <3>1, <3>2, OneMore
  <2>2. CursorKnown'
    <3>1. request[j].cursor \in cursors /\ IdsAllocated
      BY <1>5 DEF Grows, Replayable, Inv, RegistryInv
    <3>2. request[j].cursor[1] <= nextSession
          /\ (request[j].cursor[1] \in live => request[j].cursor[2] <= nextCursor[request[j].cursor[1]])
      BY <3>1 DEF IdsAllocated
    <3> QED
      BY <1>1, <3>2 DEF HitsInv, CursorKnown, Collecting
  <2>3. CursorBehind'
    <3>1. ASSUME status'[j] = "running"
          PROVE  Reaches(request[j].direction, hits'[j][Len(hits'[j])], replay'[request[j].cursor])
      <4>1. Reaches(request[j].direction, p, replay'[request[j].cursor])
        BY <1>2, <1>5, <3>1 DEF Grows
      <4> QED
        BY <2>1, <4>1
    <3> QED
      BY <1>1, <3>1 DEF HitsInv, CursorBehind, Collecting, LastHit
  <2>4. HitsDistinct'
    <3>1. ASSUME NEW i \in JobIds \ {j}
          PROVE  /\ \A k, l \in 1 .. Len(hits'[i]) :
                      k < l /\ Sequence(hits'[i][k]) = Sequence(hits'[i][l]) =>
                        l = Len(hits'[i]) /\ result'[i] \in {"duplicate_position", "not_found"}
                 /\ result'[i] = "duplicate_position" =>
                      \E k \in 1 .. Len(hits'[i]) - 1 :
                        Sequence(hits'[i][k]) = Sequence(hits'[i][Len(hits'[i])])
      BY <1>1, <3>1 DEF HitsInv, HitsDistinct
    <3>2. ASSUME NEW k \in 1 .. Len(hits[j]), NEW l \in 1 .. Len(hits[j]), k < l
          PROVE  Sequence(hits[j][k]) # Sequence(hits[j][l])
      BY <1>2, <3>2 DEF HitsInv, HitsDistinct
    <3>3. Seen(j, p) <=> \E k \in 1 .. Len(hits[j]) : Sequence(hits[j][k]) = Sequence(p)
      BY <1>2 DEF Seen
    <3>4. ASSUME NEW k \in 1 .. Len(hits'[j]), NEW l \in 1 .. Len(hits'[j]),
                 k < l, Sequence(hits'[j][k]) = Sequence(hits'[j][l])
          PROVE  l = Len(hits'[j]) /\ result'[j] \in {"duplicate_position", "not_found"}
      <4>1. k \in 1 .. Len(hits[j])
        BY <2>1, <3>4
      <4>2. CASE l \in 1 .. Len(hits[j])
        BY <2>1, <3>2, <3>4, <4>1, <4>2
      <4>3. CASE l = Len(hits[j]) + 1
        <5>1. Seen(j, p)
          BY <2>1, <3>3, <3>4, <4>1, <4>3
        <5> QED
          BY <1>5, <2>1, <4>3, <5>1 DEF Grows
      <4> QED
        BY <2>1, <4>2, <4>3
    <3>5. ASSUME result'[j] = "duplicate_position"
          PROVE  \E k \in 1 .. Len(hits'[j]) - 1 : Sequence(hits'[j][k]) = Sequence(hits'[j][Len(hits'[j])])
      <4>1. Seen(j, p)
        BY <1>5, <3>5 DEF Grows
      <4>2. PICK k \in 1 .. Len(hits[j]) : Sequence(hits[j][k]) = Sequence(p)
        BY <3>3, <4>1
      <4>3. k \in 1 .. Len(hits'[j]) - 1
        BY <2>1
      <4> QED
        BY <2>1, <4>2, <4>3
    <3> QED
      BY <3>1, <3>4, <3>5 DEF HitsDistinct
  <2>5. OrderedHits'
    <3>1. ASSUME NEW i \in (JobIds \ disturbed') \ {j}, i <= nextJob'
          PROVE  \A k, l \in 1 .. Len(hits'[i]) :
                   k < l => Reaches(request'[i].direction, hits'[i][k], hits'[i][l])
      BY <1>1, <3>1 DEF HitsInv, OrderedHits
    <3>2. ASSUME j \notin disturbed', NEW k \in 1 .. Len(hits'[j]), NEW l \in 1 .. Len(hits'[j]), k < l
          PROVE  Reaches(request'[j].direction, hits'[j][k], hits'[j][l])
      <4>1. k \in 1 .. Len(hits[j]) /\ j \notin disturbed /\ request' = request
        BY <1>1, <2>1, <3>2
      <4>2. \A a, b \in 1 .. Len(hits[j]) : a < b => Reaches(request[j].direction, hits[j][a], hits[j][b])
        BY <1>2, <4>1 DEF HitsInv, OrderedHits
      <4>3. CASE l \in 1 .. Len(hits[j])
        BY <2>1, <3>2, <4>1, <4>2, <4>3
      <4>4. CASE l = Len(hits[j]) + 1
        <5>1. Len(hits[j]) \in 1 .. Len(hits[j]) /\ hits[j] # <<>>
          BY <1>2, <2>1, <4>1
        <5>2. Reaches(request[j].direction, hits[j][Len(hits[j])], replay[request[j].cursor])
          BY <1>2, <1>5, <4>1, <5>1 DEF HitsInv, CursorBehind, Collecting, LastHit, Grows, Replayable
        <5>3. Reaches(request[j].direction, hits[j][Len(hits[j])], p)
          BY <1>3, <1>5, <2>1, <5>1, <5>2, ReachesOnwards DEF Grows
        <5>4. k = Len(hits[j]) \/ Reaches(request[j].direction, hits[j][k], hits[j][Len(hits[j])])
          BY <4>1, <4>2, <5>1
        <5>5. Reaches(request[j].direction, hits[j][k], p)
          BY <2>1, <4>1, <5>1, <5>3, <5>4, ReachesOnwards
        <5> QED
          BY <2>1, <4>1, <4>4, <5>5
      <4> QED
        BY <2>1, <4>3, <4>4
    <3> QED
      BY <3>1, <3>2 DEF OrderedHits
  <2> QED
    BY <2>2, <2>3, <2>4, <2>5 DEF HitsInv
<1> QED
  BY <1>4, <1>5, TaskCollects

(* Hits stay as they are while what they rest on does.                     *)
LEMMA HitsStay ==
  ASSUME HitsInv, UNCHANGED <<nextJob, hits, result, request>>,
         disturbed \subseteq disturbed',
         \A j \in JobIds : status'[j] = "running" => status[j] = "running",
         \A j \in JobIds : Collecting(j) =>
           LET h == request[j].cursor
           IN /\ h \in cursors' => h \in cursors /\ (j \notin disturbed' => replay'[h] = replay[h])
              /\ h[1] <= nextSession'
              /\ h[1] \in live' => h[2] <= nextCursor'[h[1]]
  PROVE  HitsInv'
<1>1. CursorKnown'
  BY DEF CursorKnown, Collecting
<1>2. CursorBehind'
  BY DEF HitsInv, CursorBehind, Collecting, LastHit
<1>3. HitsDistinct' /\ OrderedHits'
  BY DEF HitsInv, HitsDistinct, OrderedHits
<1> QED
  BY <1>1, <1>2, <1>3 DEF HitsInv

(* What clients do to sessions and cursors keeps what is said of the hits: *)
(* the id of a cursor that is gone is not handed out again.                *)
LEMMA ClientKeepsHits ==
  ASSUME Inv, HitsInv, ClientOpens \/ ClientCloses \/ ClientMoves \/ ClientCancels \/ UNCHANGED vars
  PROVE  HitsInv'
<1>1. /\ nextSession \in Nat /\ nextJob \in Nat /\ live \subseteq SessionIds
      /\ nextCursor \in [SessionIds -> 0 .. MaxCursor] /\ replay \in [Handles -> Positions]
      /\ \A s \in live : s <= nextSession
      /\ status \in [JobIds -> Statuses]
  BY SweepAssumption, RegistryAssumption
  DEF Inv, RegistryInv, RegistryTypeOK, IdsAllocated, JobsInv, JobsTypeOK
<1>2. ASSUME NEW j \in JobIds, Collecting(j)
      PROVE  /\ request[j].cursor \in Handles
             /\ request[j].cursor[1] \in SessionIds /\ request[j].cursor[2] \in CursorIds
             /\ request[j].cursor[1] <= nextSession
             /\ request[j].cursor[1] \in live => request[j].cursor[2] <= nextCursor[request[j].cursor[1]]
  <2>1. request[j].cursor \in Handles
    BY <1>2, RunningJob DEF Collecting
  <2> QED
    BY <1>2, <2>1 DEF HitsInv, CursorKnown, Handles
<1>3. CASE ClientCancels \/ UNCHANGED vars
  <2>1. UNCHANGED <<nextJob, hits, result, request, disturbed, status, nextSession, live, cursors, nextCursor, replay>>
    BY <1>3 DEF ClientCancels, CancelJob, registryVars, vars, jobVars
  <2> QED
    BY <1>1, <1>2, <2>1, HitsStay
<1>4. CASE ClientMoves
  <2>1. PICK h \in Handles, p \in Positions :
          /\ (\/ SetPosition(h, p) \/ \E d \in Directions : Replay(h, d, p) \/ ReplayLeaks(h, d, p))
          /\ Disturb(h, {})
    BY <1>4 DEF ClientMoves
  <2>2. /\ UNCHANGED <<nextSession, live, cursors, nextCursor>>
        /\ replay' = replay \/ replay' = [replay EXCEPT ![h] = p]
    BY <2>1 DEF SetPosition, Replay, ReplayLeaks, Land
  <2>3. UNCHANGED <<nextJob, hits, result, request, status>> /\ disturbed \subseteq disturbed'
    BY <1>4, <2>1 DEF ClientMoves, jobVars, Disturb
  <2>4. ASSUME NEW j \in JobIds, Collecting(j), j \notin disturbed'
        PROVE  replay'[request[j].cursor] = replay[request[j].cursor]
    <3>1. request[j].cursor # h
      BY <2>1, <2>4 DEF Disturb, Collecting
    <3> QED
      BY <1>1, <1>2, <2>2, <2>4, <3>1
  <2> QED
    BY <1>1, <1>2, <2>2, <2>3, <2>4, HitsStay
<1>5. CASE ClientCloses
  <2>1. PICK s \in SessionIds : CloseTrace(s)
    BY <1>5 DEF ClientCloses
  <2>2. UNCHANGED <<nextJob, hits, result, request, disturbed, status, nextSession>>
    BY <1>5, <2>1 DEF ClientCloses, jobVars, CloseTrace
  <2>3. /\ cursors' = cursors \ {h \in Handles : h[1] = s} /\ live' = live \ {s}
        /\ \A h \in Handles : h[1] # s => replay'[h] = replay[h]
        /\ \A t \in SessionIds \ {s} : nextCursor'[t] = nextCursor[t]
    BY <1>1, <2>1 DEF CloseTrace
  <2>4. \A j \in JobIds : Collecting(j) =>
          LET h == request[j].cursor
          IN /\ h \in cursors' => h \in cursors /\ (j \notin disturbed' => replay'[h] = replay[h])
             /\ h[1] <= nextSession'
             /\ h[1] \in live' => h[2] <= nextCursor'[h[1]]
    BY <1>2, <2>2, <2>3
  <2> QED
    BY <1>1, <2>2, <2>4, HitsStay
<1>6. CASE ClientOpens
  <2>1. UNCHANGED <<nextJob, hits, result, request, disturbed, status>>
    BY <1>6 DEF ClientOpens, jobVars
  <2>2. ASSUME NEW opened \in {"native", "placeholder", "failed"}, LoadTrace(opened)
        PROVE  HitsInv'
    <3>1. /\ nextSession' = nextSession + 1 /\ live' \subseteq live \cup {nextSession + 1}
          /\ UNCHANGED <<nextCursor, cursors, replay>>
      BY <2>2 DEF LoadTrace
    <3>2. \A j \in JobIds : Collecting(j) =>
            LET h == request[j].cursor
            IN h[1] <= nextSession' /\ (h[1] \in live' => h[2] <= nextCursor'[h[1]])
      BY <1>1, <1>2, <3>1 DEF SessionIds
    <3> QED
      BY <1>1, <2>1, <3>1, <3>2, HitsStay
  <2>3. ASSUME NEW s \in SessionIds, CreateCursor(s)
        PROVE  HitsInv'
    <3> DEFINE new == <<s, nextCursor[s] + 1>>
    <3>1. /\ s \in live /\ UNCHANGED <<nextSession, live>>
          /\ nextCursor' = [nextCursor EXCEPT ![s] = nextCursor[s] + 1]
          /\ cursors' \subseteq cursors \cup {new}
          /\ replay' = replay \/ \E p \in Positions : replay' = [replay EXCEPT ![new] = p]
      BY <1>1, <2>3 DEF CreateCursor, Land
    <3>2. ASSUME NEW j \in JobIds, Collecting(j)
          PROVE  request[j].cursor # new
      BY <1>1, <1>2, <3>1, <3>2
    <3>3. \A j \in JobIds : Collecting(j) =>
            LET h == request[j].cursor
            IN /\ h \in cursors' => h \in cursors /\ (j \notin disturbed' => replay'[h] = replay[h])
               /\ h[1] <= nextSession'
               /\ h[1] \in live' => h[2] <= nextCursor'[h[1]]
      <4> SUFFICES ASSUME NEW j \in JobIds, Collecting(j)
                   PROVE  LET h == request[j].cursor
                          IN /\ h \in cursors' => h \in cursors /\ (j \notin disturbed' => replay'[h] = replay[h])
                             /\ h[1] <= nextSession'
                             /\ h[1] \in live' => h[2] <= nextCursor'[h[1]]
        OBVIOUS
      <4>1. replay'[request[j].cursor] = replay[request[j].cursor]
        BY <1>1, <1>2, <3>1, <3>2
      <4>2. request[j].cursor[1] \in live => request[j].cursor[2] <= nextCursor'[request[j].cursor[1]]
        BY <1>1, <1>2, <3>1 DEF CursorIds
      <4> QED
        BY <1>2, <3>1, <3>2, <4>1, <4>2
    <3> QED
      BY <1>1, <2>1, <3>1, <3>3, HitsStay
  <2> QED
    BY <1>6, <2>2, <2>3 DEF ClientOpens
<1> QED
  BY <1>3, <1>4, <1>5, <1>6

(* A sweep starts without hits.                                            *)
LEMMA StartKeepsHits ==
  ASSUME Inv, HitsInv, ClientStarts
  PROVE  HitsInv'
<1>1. PICK r \in Requests : StartSweep(r)
  BY DEF ClientStarts
<1> DEFINE n == nextJob + 1
<1>2. n \in JobIds /\ n > nextJob /\ nextJob \in Nat /\ hits[n] = <<>>
  BY <1>1, SweepAssumption DEF StartSweep, Inv, JobsInv, JobsTypeOK, Fresh, JobIds
<1>3. /\ nextJob' = n /\ UNCHANGED <<hits, result, registryVars, disturbed>>
      /\ \A j \in JobIds \ {n} : status'[j] = status[j] /\ request'[j] = request[j]
      /\ \A j \in JobIds \ {n} : j <= nextJob' => j <= nextJob
  BY <1>1, <1>2 DEF StartSweep, Inv, JobsInv, JobsTypeOK, JobIds
<1>4. CursorKnown' /\ CursorBehind'
  BY <1>2, <1>3 DEF HitsInv, CursorKnown, CursorBehind, Collecting, LastHit, registryVars
<1>5. HitsDistinct'
  BY <1>3 DEF HitsInv, HitsDistinct
<1>6. OrderedHits'
  <2>1. Len(hits[n]) = 0
    BY <1>2
  <2> QED
    BY <1>2, <1>3, <2>1 DEF HitsInv, OrderedHits
<1> QED
  BY <1>4, <1>5, <1>6 DEF HitsInv

(* What a sweep has collected is in the order of the trace if nobody else  *)
(* moved its cursor, and nothing of one sequence number twice, however the *)
(* clients load, close and move: for any number of sweeps on any cursors.  *)
THEOREM HitsStaySound == Spec => []HitsAreSound
<1>1. Init => HitsInv
  BY DEF Init, HitsInv, CursorKnown, CursorBehind, HitsDistinct, OrderedHits, Collecting, JobIds
<1>2. Inv /\ Inv' /\ HitsInv /\ [Next]_vars => HitsInv'
  BY TaskKeepsHits, ClientKeepsHits, StartKeepsHits DEF Next
<1>3. HitsInv => HitsAreSound
  BY DEF HitsInv, HitsAreSound
<1> QED
  BY <1>1, <1>2, <1>3, Inductive, PTL DEF Spec

-----------------------------------------------------------------------------
(* The jobs are what JobLifecycle promises.                                *)

(* A record that ends: the job answers with a result or an error.          *)
LEMMA EndFinishes ==
  ASSUME Inv, NEW j \in JobIds, status[j] = "running", cancelRequested' = cancelRequested,
         Fail(j) \/ \E end \in {"completed", "cancelled"}, reason \in StopReasons :
                      Answer(j, end, reason) /\ (end = "cancelled" => cancelRequested[j])
  PROVE  Promise!Finish(j)
<1>1. /\ status \in [JobIds -> Statuses] /\ result \in [JobIds -> StopReasons \cup {"none"}]
      /\ error \in [JobIds -> BOOLEAN] /\ result[j] = "none" /\ ~error[j]
  <2>1. ~error[j]
    BY DEF Inv, JobsInv, RecordsMatchTasks
  <2> QED
    BY <2>1, RunningJob DEF Inv, JobsInv, JobsTypeOK
<1>2. CASE Fail(j)
  <2>1. status' = [status EXCEPT ![j] = "failed"]
    BY <1>2 DEF Fail
  <2>2. answer' = [answer EXCEPT ![j] = "error"]
    BY <1>1, <1>2 DEF Fail, answer
  <2> QED
    BY <2>1, <2>2 DEF Promise!Finish, Promise!Terminal
<1>3. ASSUME NEW end \in {"completed", "cancelled"}, NEW reason \in StopReasons, Answer(j, end, reason),
             end = "cancelled" => cancelRequested[j]
      PROVE  Promise!Finish(j)
  <2>1. status' = [status EXCEPT ![j] = end] /\ reason # "none"
    BY <1>3 DEF Answer, StopReasons
  <2>2. answer' = [answer EXCEPT ![j] = "result"]
    BY <1>1, <1>3, <2>1 DEF Answer, answer
  <2> QED
    BY <1>3, <2>1, <2>2 DEF Promise!Finish, Promise!Terminal
<1> QED
  BY <1>2, <1>3

(* Every step of the jobs is one of JobLifecycle, or none.                 *)
LEMMA StepKeepsPromise ==
  ASSUME Inv, [Next]_vars
  PROVE  [Promise!Next]_(Promise!vars)
<1> USE DEF Promise!Next, Promise!vars
<1>1. CASE UNCHANGED <<status, cancelRequested, result, error>>
  BY <1>1 DEF answer
<1>2. CASE ClientOpens \/ ClientCloses \/ ClientMoves \/ UNCHANGED vars
  BY <1>1, <1>2 DEF ClientOpens, ClientCloses, ClientMoves, vars, jobVars
<1>3. ASSUME NEW r \in Requests, StartSweep(r)
      PROVE  [Promise!Next]_(Promise!vars)
  <2>1. nextJob + 1 \in JobIds /\ nextJob + 1 > nextJob
    BY <1>3, SweepAssumption DEF StartSweep, Inv, JobsInv, JobsTypeOK, JobIds
  <2>2. status[nextJob + 1] = "absent"
    BY <2>1 DEF Inv, JobsInv, RecordsMatchTasks
  <2>3. status' = [status EXCEPT ![nextJob + 1] = "running"] /\ UNCHANGED <<cancelRequested, result, error>>
    BY <1>3 DEF StartSweep
  <2>4. answer' = answer
    BY <2>3 DEF answer
  <2>5. Promise!Start(nextJob + 1)
    BY <2>2, <2>3, <2>4 DEF Promise!Start
  <2> QED
    BY <2>1, <2>5
<1>4. ASSUME NEW j \in JobIds, CancelJob(j)
      PROVE  [Promise!Next]_(Promise!vars)
  <2>1. status[j] = "running" /\ cancelRequested' = [cancelRequested EXCEPT ![j] = TRUE]
        /\ UNCHANGED <<status, result, error>>
    BY <1>4 DEF CancelJob, CancelTakes
  <2>2. answer' = answer
    BY <2>1 DEF answer
  <2>3. Promise!RequestCancel(j)
    BY <2>1, <2>2 DEF Promise!RequestCancel
  <2> QED
    BY <2>3
<1>5. ASSUME NEW j \in JobIds, SweepTask(j)
      PROVE  [Promise!Next]_(Promise!vars)
  <2>1. status[j] = "running" /\ cancelRequested' = cancelRequested
    BY <1>5 DEF SweepTask, SweepCancelled, SweepFails, SweepLeaks, SweepEnds, SweepHits, SweepFull, MayReplay,
                Iterating, Inv, JobsInv, RecordsMatchTasks
  <2>2. \/ UNCHANGED <<status, result, error>>
        \/ Fail(j)
        \/ \E end \in {"completed", "cancelled"}, reason \in StopReasons :
             Answer(j, end, reason) /\ (end = "cancelled" => cancelRequested[j])
    BY <1>5 DEF SweepTask, SweepCancelled, SweepFails, SweepLeaks, SweepEnds, SweepHits, SweepFull, StopReasons
  <2> QED
    BY <1>1, <2>1, <2>2, EndFinishes
<1> QED
  BY <1>2, <1>3, <1>4, <1>5 DEF Next, ClientStarts, ClientCancels

(* The safety part of Lifecycle: a job ends once, never takes an answer    *)
(* back, and is Cancelled only if somebody asked (JobRegistry).            *)
THEOREM JobsKeepPromise == Spec => KeepsPromise
<1>1. Init => Promise!Init
  BY DEF Init, Promise!Init, answer
<1>2. Inv /\ [Next]_vars => [Promise!Next]_(Promise!vars)
  BY StepKeepsPromise
<1> QED
  BY <1>1, <1>2, Inductive, PTL DEF Spec, KeepsPromise
=============================================================================
