---------------------------- MODULE TraceRecording ----------------------------
(***************************************************************************)
(* `trace record` (crates/windbg-tool, cli/platform.rs): the plan of the   *)
(* arguments, how the recorder is elevated, the target that is launched    *)
(* first when it must run without shadow stacks, the recorder (TTD.exe),   *)
(* a thread that waits for it, and the stop request when a limit runs out. *)
(* The target and the recorder are other processes: they end when they     *)
(* like, also while a limit runs out.                                      *)
(***************************************************************************)
EXTENDS Naturals

VARIABLES
  recording,  (* what the command does next                                *)
  plan,       (* its arguments                                             *)
  process,    (* the target                                                *)
  recorder,   (* TTD.exe                                                   *)
  trace,      (* what is at the path of the trace                          *)
  stop,       (* the answer to the stop request                            *)
  outcome     (* the answer of the command                                 *)

recordingVars == <<recording, plan, process, recorder, trace, stop, outcome>>

-----------------------------------------------------------------------------
(* The plan.  An amount is "none", "zero" or "some".                       *)

Amounts == {"none", "zero", "some"}
RecordArguments ==
  [profile : {"none", "startup", "recent"}, maxFile : Amounts, ring : BOOLEAN,
   seconds : Amounts, noShadowStack : BOOLEAN, module : {"none", "name", "path", "blank"}]

Settings(maxFile, ring) == [maxFile |-> maxFile, ring |-> ring]

\* trace_size_settings.
SizeSettings(a) ==
  CASE a.profile = "startup" -> Settings("some", FALSE)
    [] a.profile = "recent" -> Settings("some", TRUE)
    [] OTHER -> Settings(a.maxFile, a.ring)

\* Faulty: a limit does not ask for a target whose id is known.
BoundedKnowsItsTargetNot(a) == TRUE

\* The stop request names the target, which TTD does not tell when it launches it.
BoundedKnowsItsTarget(a) == a.seconds = "some" => a.noShadowStack

Plannable(a) ==
  /\ a.profile # "none" => a.maxFile = "none" /\ ~a.ring
  /\ a.seconds # "zero"
  /\ BoundedKnowsItsTarget(a)
  /\ a.maxFile # "zero"
  /\ SizeSettings(a).ring => SizeSettings(a).maxFile = "some"
  /\ a.module \notin {"path", "blank"}

\* parse_windows_sudo_mode, and what trace_record_launcher makes of it.
Launchable(elevated, sudo) == elevated \/ sudo \in {"inline", "disable_input"}

NoPlan == [profile |-> "none", maxFile |-> "none", ring |-> FALSE, seconds |-> "none",
           noShadowStack |-> FALSE, module |-> "none"]

RecordingInit ==
  /\ recording = "idle"
  /\ plan = NoPlan
  /\ process = "none"
  /\ recorder = "none"
  /\ trace = "absent"
  /\ stop = "none"
  /\ outcome = "none"

-----------------------------------------------------------------------------
(* The command.                                                            *)

Answer(o) == recording' = "done" /\ outcome' = o

\* Usable: TTD.exe is found, the directory is there and the trace is not.
Plan(a, usable) ==
  /\ recording = "idle"
  /\ plan' = a
  /\ IF usable /\ Plannable(a) THEN recording' = "planned" /\ UNCHANGED outcome ELSE Answer("refused")
  /\ UNCHANGED <<process, recorder, trace, stop>>

FindLauncher(elevated, sudo) ==
  /\ recording = "planned"
  /\ IF Launchable(elevated, sudo)
     THEN recording' = (IF plan.noShadowStack THEN "launching" ELSE "spawning") /\ UNCHANGED outcome
     ELSE Answer("error")
  /\ UNCHANGED <<plan, process, recorder, trace, stop>>

(* launch_target_with_shadow_stacks_disabled: CreateProcess fails, or the  *)
(* wait for the target to become idle does, with the target running.       *)
LaunchTarget(result) ==
  /\ recording = "launching"
  /\ process' = IF result = "not_created" THEN "none" ELSE "running"
  /\ IF result = "idle" THEN recording' = "spawning" /\ UNCHANGED outcome ELSE Answer("error")
  /\ UNCHANGED <<plan, recorder, trace, stop>>

\* The recorder attaches to the target or launches it itself.
SpawnRecorder(spawned) ==
  /\ recording = "spawning"
  /\ IF spawned
     THEN /\ recorder' = "running"
          /\ process' = (IF plan.noShadowStack THEN process ELSE "running")
          /\ recording' = "waiting"
          /\ UNCHANGED outcome
     ELSE Answer("error") /\ UNCHANGED <<process, recorder>>
  /\ UNCHANGED <<plan, trace, stop>>

Ended == recorder \in {"succeeded", "failed"}

\* The waiting thread's message is received, before the limit or behind it.
RecorderEndObserved ==
  /\ recording \in {"waiting", "finalizing"}
  /\ Ended
  /\ recording' = "checking"
  /\ UNCHANGED <<plan, process, recorder, trace, stop, outcome>>

\* recv_timeout, also when the recorder ends at that moment.
LimitRunsOut ==
  /\ recording = "waiting"
  /\ plan.seconds = "some"
  /\ recording' = "stopping"
  /\ UNCHANGED <<plan, process, recorder, trace, stop, outcome>>

\* Faulty: the trace is not waited for.
AfterStopAtOnce == "checking"

\* The recorder writes the trace out before it ends.
AfterStop == "finalizing"

\* TTD.exe -stop with the id of the target.
RequestStop(accepted) ==
  /\ recording = "stopping"
  /\ stop' = IF accepted THEN "accepted" ELSE "refused"
  /\ IF accepted THEN recording' = AfterStop /\ UNCHANGED outcome ELSE Answer("error")
  /\ UNCHANGED <<plan, process, recorder, trace>>

\* The exit code, the file, and what is read of it for the report.
Check(readable) ==
  /\ recording = "checking"
  /\ Answer(IF readable /\ recorder = "succeeded" /\ trace # "absent" THEN "ok" ELSE "error")
  /\ UNCHANGED <<plan, process, recorder, trace, stop>>

-----------------------------------------------------------------------------
(* The other processes.                                                    *)

TargetEnds ==
  /\ process = "running"
  /\ process' = "exited"
  /\ UNCHANGED <<recording, plan, recorder, trace, stop, outcome>>

\* A recorder that fails leaves what it had; one that succeeds was told to
\* stop or has no target any more.
RecorderEnds ==
  /\ recorder = "running"
  /\ \/ recorder' = "failed" /\ trace' \in {"absent", "partial"}
     \/ /\ process = "exited" \/ stop = "accepted"
        /\ recorder' = "succeeded"
        /\ trace' \in {"absent", "final"}
  /\ UNCHANGED <<recording, plan, process, stop, outcome>>

RecordingNext ==
  \/ \E a \in RecordArguments, usable \in BOOLEAN : Plan(a, usable)
  \/ \E elevated \in BOOLEAN, sudo \in {"missing", "unrecognized", "force_new_window", "inline", "disable_input"} :
       FindLauncher(elevated, sudo)
  \/ \E result \in {"not_created", "not_idle", "idle"} : LaunchTarget(result)
  \/ \E yes \in BOOLEAN : SpawnRecorder(yes) \/ RequestStop(yes) \/ Check(yes)
  \/ RecorderEndObserved
  \/ LimitRunsOut
  \/ TargetEnds
  \/ RecorderEnds

RecordingSpec == RecordingInit /\ [][RecordingNext]_recordingVars

-----------------------------------------------------------------------------

(* A recording that is reported has ended and is written out, in time or   *)
(* behind an accepted stop request; a recorder is left running only where  *)
(* the answer says that it may be; a limit never runs out for a target     *)
(* nobody could stop; and a size is bounded whenever the trace is a ring   *)
(* (run_trace_record, execute_trace_recording).                            *)
RecordingsAreFinal ==
  /\ outcome = "ok" => recorder = "succeeded" /\ trace = "final" /\ stop # "refused"
  /\ outcome = "ok" /\ process = "running" => stop = "accepted"
  /\ recording = "done" /\ recorder = "running" => stop = "refused"
  /\ recording = "stopping" => plan.noShadowStack
  /\ recording \notin {"idle", "done"} /\ SizeSettings(plan).ring => SizeSettings(plan).maxFile = "some"
  /\ outcome = "refused" => process = "none" /\ recorder = "none"
=============================================================================
