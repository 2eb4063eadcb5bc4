---------------------------- MODULE JobLifecycle ----------------------------
(***************************************************************************)
(* What the job tools promise a client of the daemon (crates/windbg-ttd,   *)
(* jobs.rs, JobStatus, JobSummary and JobResultResponse), whatever a job   *)
(* does: it starts once, ends once, answers with a result or an error and  *)
(* never takes an answer back; only a job asked to stop ends Cancelled.    *)
(***************************************************************************)
CONSTANTS Jobs

VARIABLES
  phase,     (* "absent" or the job's JobStatus                            *)
  wish,      (* cancel_requested                                           *)
  answer     (* "none", "result" or "error": what job_result returns       *)

vars == <<phase, wish, answer>>

Terminal == {"completed", "failed", "cancelled"}

Init ==
  /\ phase = [j \in Jobs |-> "absent"]
  /\ wish = [j \in Jobs |-> FALSE]
  /\ answer = [j \in Jobs |-> "none"]

Start(j) ==
  /\ phase[j] = "absent"
  /\ phase' = [phase EXCEPT ![j] = "running"]
  /\ UNCHANGED <<wish, answer>>

RequestCancel(j) ==
  /\ phase[j] = "running"
  /\ wish' = [wish EXCEPT ![j] = TRUE]
  /\ UNCHANGED <<phase, answer>>

Finish(j) ==
  /\ phase[j] = "running"
  /\ \E end \in Terminal :
       /\ end = "cancelled" => wish[j]
       /\ phase' = [phase EXCEPT ![j] = end]
       /\ answer' = [answer EXCEPT ![j] =
                       IF end = "failed" THEN "error" ELSE "result"]
  /\ UNCHANGED wish

Next == \E j \in Jobs : Start(j) \/ RequestCancel(j) \/ Finish(j)

Spec == Init /\ [][Next]_vars /\ \A j \in Jobs : WF_vars(Finish(j))
=============================================================================
