---------------------------- MODULE StartupProfile ----------------------------
(***************************************************************************)
(* `live startup-profile` (crates/windbg-tool, cli/platform.rs): launches  *)
(* the target under DbgEng once per run and records the stops it makes     *)
(* until a module loads, nothing has happened for a while, the process     *)
(* exits, time is up or the timeline is full.                              *)
(*                                                                         *)
(* A unit of time stands for a millisecond of the clock that runs while    *)
(* the target is resumed.  DbgEng's WaitForEvent is late by a unit, or     *)
(* early by one (the budget is cut to whole milliseconds), or brings a     *)
(* stop.  That it ended without an event is read from the timeout status   *)
(* or from the empty last event, which are not told apart here.            *)
(***************************************************************************)
EXTENDS Integers, Sequences, FiniteSets

CONSTANTS
  MaxRuns,      (* --runs                                                  *)
  MaxEvents,    (* the largest --max-events                                *)
  Timeout,      (* --timeout-ms                                            *)
  MaxSettle,    (* the largest --settle-ms                                 *)
  MaxRankedGaps (* STARTUP_PROFILE_MAX_RANKED_GAPS                         *)

ASSUME ProfileAssumption ==
  /\ MaxRuns \in Nat \ {0}
  /\ MaxEvents \in Nat /\ MaxEvents >= 2
  /\ Timeout \in Nat \ {0}
  /\ MaxSettle \in Nat
  /\ MaxRankedGaps \in Nat \ {0}

VARIABLES
  args,         (* the command's arguments                                 *)
  pc,           (* where the command is                                    *)
  target,       (* the process that the current or last run launched       *)
  timeline,     (* the stops retained: kind and resumed time               *)
  resumed,      (* resumed_elapsed                                         *)
  quiet,        (* quiet_started_at                                        *)
  completion,   (* completion.status                                       *)
  loaded,       (* completion.module_load is there                         *)
  tail,         (* tail_filter_started_after_event_index, from 1           *)
  finish,       (* finish_reason                                           *)
  failed,       (* collect_startup_profile_stops returned an error         *)
  runs,         (* what each run came to                                   *)
  omitted       (* history: positions of the timeline after which an event *)
                (* of the target was not retained                          *)

collection == <<timeline, resumed, quiet, completion, loaded, tail, finish, omitted>>
vars == <<args, pc, target, collection, failed, runs>>

Never == -1

Kinds == {"create_process", "requested_load", "other", "exit_process"}
PassingStops == {"requested_load", "other"}

FinishReasons == {"none", "exit_process", "timeout", "event_limit",
                  "completion_module", "completion_module_quiet_interval"}

CompletionStates ==
  {"not_requested", "waiting_for_module", "module_observed",
   "waiting_for_quiet_interval", "quiet_interval_observed",
   "process_exit_before_module", "process_exit_before_quiet_interval",
   "module_not_observed_before_timeout", "quiet_interval_not_observed_before_timeout",
   "module_not_observed_before_event_limit",
   "quiet_interval_not_observed_before_event_limit"}

(* No --settle-ms is 0.                                                    *)
Arguments ==
  {a \in [runs : 1..MaxRuns, maxEvents : 2..MaxEvents, completion : BOOLEAN,
          settle : 0..MaxSettle, end : {"detach", "terminate"}] :
     /\ a.settle > 0 => a.completion
     /\ a.runs = 1 \/ a.end = "terminate"}

Init ==
  /\ args \in Arguments
  /\ pc = "launching"
  /\ target = "none"
  /\ timeline = <<>>
  /\ resumed = 0
  /\ quiet = Never
  /\ completion = "not_requested"
  /\ loaded = FALSE
  /\ tail = Never
  /\ finish = "none"
  /\ failed = FALSE
  /\ runs = <<>>
  /\ omitted = {}

-----------------------------------------------------------------------------
(* The budgets and the verdicts.                                           *)

Smaller(a, b) == IF a < b THEN a ELSE b
Saturated(n) == IF n < 0 THEN 0 ELSE n

Remaining == Saturated(Timeout - resumed)

WaitBudget ==
  IF quiet = Never THEN Remaining
  ELSE Smaller(Saturated(args.settle - (resumed - quiet)), Remaining)

\* How long a wait may have taken that brought no event.
Waits == {d \in (WaitBudget - 1)..(WaitBudget + 1) : d > 0}

Full == Len(timeline) >= args.maxEvents

\* Faulty: the exit boundary finds no place any more.
FullForTailLate == Len(timeline) >= args.maxEvents

\* Without a completion module one place is kept for the exit.
FullForTail == Len(timeline) >= args.maxEvents - 1

RunStatus ==
  IF finish \in {"exit_process", "completion_module", "completion_module_quiet_interval"}
  THEN "completed" ELSE "incomplete"

\* The elapsed time of the gap that starts at i.
Elapsed(i) == timeline[i + 1].at - timeline[i].at

\* Faulty: the gap that the tail begins with counts as fully observed.
RankableTooFar(i) == i \in 1..(Len(timeline) - 1) /\ (tail = Never \/ i <= tail)

Rankable(i) == i \in 1..(Len(timeline) - 1) /\ (tail = Never \/ i < tail)

\* largest_observed_gaps: longest first, the earlier of two equal ones first.
LargestGaps ==
  LET Before(j, i) == Elapsed(j) > Elapsed(i) \/ (Elapsed(j) = Elapsed(i) /\ j < i)
      ranked == {i \in 1..Len(timeline) : Rankable(i)}
  IN {i \in ranked : Cardinality({j \in ranked : Before(j, i)}) < MaxRankedGaps}

-----------------------------------------------------------------------------
(* One run.                                                                *)

(* The first of --runs whose launch fails is the last.  A launch that      *)
(* fails after CreateProcess neither detaches nor terminates.              *)
LaunchFails ==
  /\ pc = "launching"
  /\ target' \in {"none", "abandoned"}
  /\ runs' = Append(runs, [status |-> "failed", finish |-> "none", completion |-> "not_requested"])
  /\ pc' = "done"
  /\ failed' = TRUE
  /\ UNCHANGED <<args, collection>>

Launch ==
  /\ pc = "launching"
  /\ target' = "stopped"
  /\ timeline' = <<>>
  /\ resumed' = 0
  /\ quiet' = Never
  /\ completion' = IF args.completion THEN "waiting_for_module" ELSE "not_requested"
  /\ loaded' = FALSE
  /\ tail' = Never
  /\ finish' = "none"
  /\ omitted' = {}
  /\ pc' = "created"
  /\ UNCHANGED <<args, failed, runs>>

RecordCreateProcess ==
  /\ pc = "created"
  /\ timeline' = <<[kind |-> "create_process", at |-> 0]>>
  /\ pc' = "looping"
  /\ UNCHANGED <<args, target, resumed, quiet, completion, loaded, tail, finish,
                 failed, runs, omitted>>

(* A call into DbgEng fails: filters, continue, wait or last event.        *)
EngineFails ==
  /\ pc \in {"created", "looping", "waiting"}
  /\ failed' = TRUE
  /\ pc' = "ending"
  /\ UNCHANGED <<args, target, collection, runs>>

\* completion.status when the loop is left for the reason r.
CompletionAfter(r, waiting) ==
  IF ~args.completion THEN waiting
  ELSE CASE r = "timeout" /\ loaded -> "quiet_interval_not_observed_before_timeout"
         [] r = "timeout" /\ ~loaded -> "module_not_observed_before_timeout"
         [] r = "event_limit" /\ loaded -> "quiet_interval_not_observed_before_event_limit"
         [] r = "event_limit" /\ ~loaded -> "module_not_observed_before_event_limit"
         [] OTHER -> waiting

Finish(r, status) ==
  /\ finish' = r
  /\ completion' = CompletionAfter(r, status)
  /\ pc' = "ending"

EventLimit ==
  /\ pc = "looping"
  /\ args.completion
  /\ Full
  /\ Finish("event_limit", completion)
  /\ UNCHANGED <<args, target, timeline, resumed, quiet, loaded, tail, failed, runs, omitted>>

(* The top of the loop: once nothing but the exit has a place left, the    *)
(* filters stop the target for the exit only.                              *)
Continue ==
  /\ pc = "looping"
  /\ ~(args.completion /\ Full)
  /\ tail' = IF ~args.completion /\ tail = Never /\ FullForTail THEN Len(timeline) ELSE tail
  /\ IF Remaining = 0
     THEN Finish("timeout", completion) /\ UNCHANGED target
     ELSE /\ pc' = "waiting"
          /\ target' = "running"
          /\ UNCHANGED <<finish, completion>>
  /\ UNCHANGED <<args, timeline, resumed, quiet, loaded, failed, runs, omitted>>

(* With the tail's filters the target runs past its threads and modules.   *)
PassUnobserved ==
  /\ pc = "waiting"
  /\ tail # Never
  /\ omitted' = omitted \cup {Len(timeline)}
  /\ UNCHANGED <<args, pc, target, timeline, resumed, quiet, completion, loaded, tail,
                 finish, failed, runs>>

Retains(kind) == tail = Never \/ kind = "exit_process"

\* Faulty: only the waits that bring no event are counted.
CountedByTimeoutOnly(d) == resumed

ResumedAfter(d) == resumed + d

(* The wait brings a stop after d units.                                   *)
Observe(kind, d) ==
  /\ pc = "waiting"
  /\ d \in 0..WaitBudget
  /\ resumed' = ResumedAfter(d)
  /\ timeline' = IF Retains(kind)
                 THEN Append(timeline, [kind |-> kind, at |-> resumed']) ELSE timeline
  /\ omitted' = IF Retains(kind) THEN omitted ELSE omitted \cup {Len(timeline)}

TargetExits(d) ==
  /\ Observe("exit_process", d)
  /\ target' = "exited"
  /\ Finish("exit_process",
            IF quiet # Never THEN "process_exit_before_quiet_interval"
            ELSE IF args.completion /\ ~loaded THEN "process_exit_before_module"
            ELSE completion)
  /\ UNCHANGED <<args, quiet, loaded, tail, failed, runs>>

(* The first load of --completion-module ends the run or starts the quiet  *)
(* interval.                                                               *)
RequestedModuleLoads(d) ==
  /\ Observe("requested_load", d)
  /\ args.completion /\ ~loaded
  /\ target' = "stopped"
  /\ loaded' = TRUE
  /\ IF args.settle > 0
     THEN /\ quiet' = resumed'
          /\ completion' = "waiting_for_quiet_interval"
          /\ pc' = "looping"
          /\ UNCHANGED finish
     ELSE Finish("completion_module", "module_observed") /\ UNCHANGED quiet
  /\ UNCHANGED <<args, tail, failed, runs>>

\* Faulty: a stop does not restart the quiet interval.
QuietKept(now) == quiet

\* Any other stop (an exception included) restarts the interval.
QuietAfter(now) == IF quiet = Never THEN Never ELSE now

(* In the tail only exceptions still stop the target, at most one a unit.  *)
OtherStop(d) ==
  /\ \E kind \in PassingStops :
       /\ Observe(kind, d)
       /\ kind = "requested_load" => ~args.completion \/ loaded
  /\ tail # Never => d > 0
  /\ target' = "stopped"
  /\ quiet' = QuietAfter(resumed')
  /\ pc' = "looping"
  /\ UNCHANGED <<args, completion, loaded, tail, finish, failed, runs>>

\* Faulty: a wait that was cut short by the remaining time counts too.
SettledAnyhow(now) == quiet # Never

Settled(now) == quiet # Never /\ now - quiet >= args.settle

NoEvent ==
  /\ pc = "waiting"
  /\ \E d \in Waits : resumed' = resumed + d
  /\ IF Settled(resumed')
     THEN Finish("completion_module_quiet_interval", "quiet_interval_observed")
     ELSE Finish("timeout", completion)
  /\ UNCHANGED <<args, target, timeline, quiet, loaded, tail, failed, runs, omitted>>

-----------------------------------------------------------------------------
(* The end of a run, and the next one.                                     *)

NeedsNoCleanup == ~failed /\ finish = "exit_process"

\* Faulty: a run whose target could not be ended is as good as any.
StatusUncleaned(ended) == IF failed THEN "failed" ELSE RunStatus

StatusAfterCleanup(ended) ==
  IF failed THEN "failed" ELSE IF ended THEN RunStatus ELSE "cleanup_failed"

\* The command stops after the first run that is not completed.
GoesOn(status, count) == status = "completed" /\ count < args.runs

EndRun ==
  /\ pc = "ending"
  /\ \E ended \in BOOLEAN :
       /\ NeedsNoCleanup => ended
       /\ target' = IF NeedsNoCleanup THEN target
                    ELSE IF ~ended THEN "abandoned"
                    ELSE IF args.end = "detach" THEN "detached" ELSE "terminated"
       /\ runs' = Append(runs, [status |-> StatusAfterCleanup(ended),
                                finish |-> finish, completion |-> completion])
       /\ pc' = IF GoesOn(StatusAfterCleanup(ended), Len(runs')) THEN "launching" ELSE "done"
  /\ UNCHANGED <<args, collection, failed>>

Done == pc = "done" /\ UNCHANGED vars

Next ==
  \/ LaunchFails \/ Launch \/ RecordCreateProcess \/ EngineFails
  \/ EventLimit \/ Continue \/ PassUnobserved \/ NoEvent \/ EndRun
  \/ \E d \in 0..Timeout :
       TargetExits(d) \/ RequestedModuleLoads(d) \/ OtherStop(d)
  \/ Done

(* The command's own steps are taken, and WaitForEvent comes back at the   *)
(* latest when its budget is used up.                                      *)
Fairness ==
  /\ WF_vars(Launch) /\ WF_vars(RecordCreateProcess) /\ WF_vars(Continue)
  /\ WF_vars(EventLimit) /\ WF_vars(NoEvent) /\ WF_vars(EndRun)

Spec == Init /\ [][Next]_vars /\ Fairness

-----------------------------------------------------------------------------
(* Properties.                                                             *)

RunRecords == [status : {"failed", "cleanup_failed", "completed", "incomplete"},
               finish : FinishReasons, completion : CompletionStates]

(* Every variable keeps its type.                                          *)
TypeOK ==
  /\ args \in Arguments
  /\ pc \in {"launching", "created", "looping", "waiting", "ending", "done"}
  /\ target \in {"none", "stopped", "running", "exited", "detached", "terminated", "abandoned"}
  /\ timeline \in Seq([kind : Kinds, at : Nat])
  /\ resumed \in Nat
  /\ quiet \in Nat \cup {Never}
  /\ completion \in CompletionStates
  /\ loaded \in BOOLEAN
  /\ tail \in Nat \cup {Never}
  /\ finish \in FinishReasons
  /\ failed \in BOOLEAN
  /\ runs \in Seq(RunRecords)
  /\ omitted \subseteq Nat

(* A run that ends with a quiet interval has seen the module load, and for *)
(* the whole of --settle-ms before its end the target ran without a stop,  *)
(* whatever it did between the load and that interval.                     *)
QuietWasObserved ==
  finish = "completion_module_quiet_interval" =>
    /\ \E i \in 1..Len(timeline) : timeline[i].kind = "requested_load"
    /\ omitted = {}
    /\ \A i \in 1..Len(timeline) : timeline[i].at + args.settle <= resumed

(* The timeline never holds more than --max-events stops, and a run that   *)
(* ends with the exit of the process holds the exit in it.                 *)
ExitIsRetained ==
  /\ Len(timeline) <= args.maxEvents
  /\ finish = "exit_process" => timeline[Len(timeline)].kind = "exit_process"

(* No event of the target lies unrecorded inside a gap that the profile    *)
(* ranks as the time between two adjacent stops.                           *)
RankedGapsAreComplete == LargestGaps \cap omitted = {}

(* The assertion before each wait holds: the loop never comes to a wait    *)
(* with an empty budget while the run still has time.                      *)
BudgetIsPositive == pc = "looping" /\ Remaining > 0 => WaitBudget > 0

(* The next run is launched only after the target of the last one is gone. *)
TargetsDoNotOverlap == pc = "launching" => target \in {"none", "exited", "terminated"}

(* A run asked to wait for a module is completed only when it has seen     *)
(* what it waited for; docs/cli.md: "If process exit, timeout, or the      *)
(* event limit occurs first, the result stays incomplete".                 *)
CompletedMeansReached ==
  \A i \in 1..Len(runs) :
    args.completion /\ runs[i].status = "completed" =>
      runs[i].completion \in {"module_observed", "quiet_interval_observed"}

(* The command ends, whatever the target does while it runs.               *)
ProfileEnds == <>(pc = "done")
=============================================================================
