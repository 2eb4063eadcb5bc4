------------------------------ MODULE LiveBreak -------------------------------
(***************************************************************************)
(* `live startup-break` and `live managed-break` (crates/windbg-tool,      *)
(* cli/platform.rs, with windbg-dbgeng's lib.rs and coreclr_dac.rs): one   *)
(* command launches a target under DbgEng, leads it from stop to stop to a *)
(* breakpoint, reports where it is and lets it go.  A managed method is    *)
(* found through the CLR's data access library (the DAC), which makes the  *)
(* CLR raise notifications: exceptions that only the debugger handles, so  *)
(* that the target is to be resumed with DEBUG_STATUS_GO_HANDLED after     *)
(* each of them, and with DEBUG_STATUS_GO after any other stop.            *)
(*                                                                         *)
(* The target, the CLR in it and DbgEng are external.  A step of the       *)
(* command may fail at any call; deadlines are such failures.              *)
(***************************************************************************)
EXTENDS Naturals

CONSTANT MaxNotifications  (* MAX_PRELIMINARY_NOTIFICATIONS, MAX_CLR_NOTIFICATIONS *)

ASSUME NotificationsAssumption == MaxNotifications \in Nat \ {0}

VARIABLES
  args,       (* the command and its arguments                             *)
  pc,         (* the step the command is at                                *)
  waiting,    (* inside WaitForEvent, after a continue                     *)
  go,         (* how the target was last resumed                           *)
  pending,    (* clr_notification_pending, continue_as_handled             *)
  attempt,    (* notifications seen by the loop that is waiting            *)
  breakpoint, (* the breakpoint configured in DbgEng                       *)
  hit,        (* the hit reported                                          *)
  result      (* what the command has come to                              *)

command == <<args, pc, waiting, go, pending, attempt, breakpoint, hit, result>>

VARIABLES
  target,     (* the process launched                                      *)
  stop,       (* the last event it stopped with                            *)
  visible,    (* the managed module is registered with the CLR             *)
  jitted,     (* the method has native code                                *)
  notified,   (* the notifications requested of the CLR                    *)
  wrote       (* history: what was written to the target's memory          *)

debuggee == <<target, stop, visible, jitted, notified, wrote>>
vars == <<command, debuggee>>

(* --allow-runtime-write belongs to managed-break and excludes             *)
(* --hardware-execute; --initial-break and --wait-for-module belong to     *)
(* startup-break.                                                          *)
Arguments ==
  {a \in [command : {"startup", "managed"}, hardware : BOOLEAN, write : BOOLEAN,
          initial : BOOLEAN, module : BOOLEAN, end : {"detach", "terminate"}] :
     /\ a.write => a.command = "managed" /\ ~a.hardware
     /\ a.initial \/ a.module => a.command = "startup"
     /\ ~(a.initial /\ a.hardware)}

Managed == args.command = "managed"

Waits == {"coreclr", "managed", "dac", "code", "module", "breakpoint"}
Steps == {"open", "look_up", "disable", "resolve", "set", "report"}

Init ==
  /\ args \in Arguments
  /\ pc = "launching"
  /\ waiting = FALSE
  /\ go = "none"
  /\ pending = FALSE
  /\ attempt = 0
  /\ breakpoint = "none"
  /\ hit = FALSE
  /\ result = "none"
  /\ target = "none"
  /\ stop = "none"
  /\ visible = FALSE
  /\ jitted = FALSE
  /\ notified = {}
  /\ wrote = {}

-----------------------------------------------------------------------------
(* Launching, and resuming the target.                                     *)

AfterLaunch ==
  IF Managed THEN "coreclr"
  ELSE IF args.module THEN "module"
  ELSE IF args.initial THEN "report" ELSE "set"

(* A launch that fails after CreateProcess leaves the process behind.      *)
LaunchFails ==
  /\ pc = "launching"
  /\ target' \in {"none", "abandoned"}
  /\ result' = "error"
  /\ pc' = "done"
  /\ UNCHANGED <<args, waiting, go, pending, attempt, breakpoint, hit, stop, visible,
                 jitted, notified, wrote>>

(* WaitForEvent reports success for a bounded wait that brought no event,  *)
(* so that the target may still be running.                                *)
Launch ==
  /\ pc = "launching"
  /\ \/ target' = "stopped" /\ stop' = "initial"
     \/ target' = "running" /\ stop' = "none"
  /\ pc' = AfterLaunch
  /\ UNCHANGED <<args, waiting, go, pending, attempt, breakpoint, hit, result, visible,
                 jitted, notified, wrote>>

AttemptsLeft == attempt < MaxNotifications

HowToGo == IF pending THEN "go_handled" ELSE "go"

(* DbgEng writes the byte of a code breakpoint when the target resumes.    *)
Continue ==
  /\ pc \in Waits
  /\ ~waiting
  /\ AttemptsLeft
  /\ waiting' = TRUE
  /\ go' = HowToGo
  /\ target' = "running"
  /\ wrote' = IF breakpoint = "code" THEN wrote \cup {"breakpoint"} ELSE wrote
  /\ UNCHANGED <<args, pc, pending, attempt, breakpoint, hit, result, stop, visible,
                 jitted, notified>>

(* The wait brings an event; what has run meanwhile may have registered    *)
(* the module and compiled the method.                                     *)
StopWith(event) ==
  /\ waiting
  /\ waiting' = FALSE
  /\ target' = IF event = "exit" THEN "exited" ELSE "stopped"
  /\ stop' = event
  /\ visible' \in {visible, TRUE}
  /\ jitted' \in {jitted, visible'}
  /\ event = "notification" => notified # {}
  /\ event = "breakpoint" => breakpoint # "none" /\ (Managed => jitted)
  /\ UNCHANGED <<args, go, breakpoint, notified, wrote>>

-----------------------------------------------------------------------------
(* The steps of managed-break up to the method's native code.              *)

CoreClrLoads ==
  /\ pc = "coreclr"
  /\ StopWith("load")
  /\ pc' = "open"
  /\ UNCHANGED <<pending, attempt, hit, result>>

\* Faulty: the data target forgets allow_target_writes.
TargetWritesAlways == TRUE

\* WriteVirtual and AllocVirtual of the data target.
TargetWrites == args.write

(* Opening the DAC, and, unless the breakpoint is the processor's, asking  *)
(* the CLR for notifications, which it has to write down in the target.    *)
OpenDac ==
  /\ pc = "open"
  /\ IF args.hardware THEN UNCHANGED <<notified, wrote>>
     ELSE /\ TargetWrites
          /\ notified' = {"module_load"}
          /\ wrote' = wrote \cup {"notifications"}
  /\ pc' = "managed"
  /\ attempt' = 0
  /\ UNCHANGED <<args, waiting, go, pending, breakpoint, hit, result, target, stop,
                 visible, jitted>>

ManagedModuleLoads ==
  /\ pc = "managed"
  /\ StopWith("load")
  /\ pc' = "look_up"
  /\ UNCHANGED <<pending, attempt, hit, result>>

\* Faulty: the loops do not count their notifications.
AttemptUncounted == attempt

NextAttempt == attempt + 1

(* wait_for_dbgeng_managed_module_load and wait_for_managed_code_breakpoint *)
(* go on after a notification.                                             *)
NotificationPassed ==
  /\ pc \in {"managed", "breakpoint"}
  /\ Managed /\ ~args.hardware
  /\ StopWith("notification")
  /\ pending' = TRUE
  /\ attempt' = NextAttempt
  /\ UNCHANGED <<pc, hit, result>>

\* Faulty: what the last loop knew outlives the module load.
PendingCarriedOver == pending

\* Whatever the loop passed, the target has now stopped for the load.
PendingAfterLoad == FALSE

(* Is the module loaded as far as the DAC can see?                         *)
LookUpModule ==
  /\ pc = "look_up"
  /\ pc' = IF visible THEN IF args.hardware THEN "resolve" ELSE "disable"
           ELSE IF args.hardware THEN "report" ELSE "dac"
  /\ attempt' = 0
  /\ pending' = PendingAfterLoad
  /\ UNCHANGED <<args, waiting, go, breakpoint, hit, result, debuggee>>

(* wait_for_managed_module_in_dac, one notification.                       *)
ModuleNotified ==
  /\ pc = "dac"
  /\ StopWith("notification")
  /\ pending' = TRUE
  /\ IF visible' THEN pc' = "disable" /\ UNCHANGED attempt
     ELSE attempt' = NextAttempt /\ UNCHANGED pc
  /\ UNCHANGED <<hit, result>>

DisableNotifications ==
  /\ pc = "disable"
  /\ notified' = {}
  /\ pc' = "resolve"
  /\ UNCHANGED <<args, waiting, go, pending, attempt, breakpoint, hit, result, target,
                 stop, visible, jitted, wrote>>

(* resolve_and_notify asks for a notification in any case;                 *)
(* resolve_read_only never does.                                           *)
ResolveMethod ==
  /\ pc = "resolve"
  /\ visible
  /\ notified' = IF args.hardware THEN notified ELSE notified \cup {"code"}
  /\ attempt' = 0
  /\ pc' = IF jitted THEN "set" ELSE IF args.hardware THEN "report" ELSE "code"
  /\ UNCHANGED <<args, waiting, go, pending, breakpoint, hit, result, target, stop,
                 visible, jitted, wrote>>

(* The notification that code was generated; without code the command      *)
(* fails.                                                                  *)
CodeGenerated ==
  /\ pc = "code"
  /\ StopWith("notification")
  /\ jitted'
  /\ pending' = TRUE
  /\ pc' = "set"
  /\ UNCHANGED <<attempt, hit, result>>

-----------------------------------------------------------------------------
(* The breakpoint, of either command.                                      *)

\* startup-break --wait-for-module looks at the event only.
RequestedModuleLoads ==
  /\ pc = "module"
  /\ StopWith("load")
  /\ pc' = IF args.initial THEN "report" ELSE "set"
  /\ UNCHANGED <<pending, attempt, hit, result>>

SetBreakpoint ==
  /\ pc = "set"
  /\ breakpoint' = IF args.hardware THEN "processor" ELSE "code"
  /\ attempt' = 0
  /\ pc' = "breakpoint"
  /\ UNCHANGED <<args, waiting, go, pending, hit, result, debuggee>>

\* Faulty: any stop passes for the breakpoint.
HitByAnyStop(event) == event # "exit"

HitBy(event) == event = "breakpoint"

BreakpointHit ==
  /\ pc = "breakpoint"
  /\ \E event \in {"breakpoint", "load", "other", "exit"} :
       /\ StopWith(event)
       /\ HitBy(event)
  /\ hit' = TRUE
  /\ pc' = "report"
  /\ UNCHANGED <<pending, attempt, result>>

(* Software managed-break fails at any other stop; the others report it.   *)
Reports == ~(Managed /\ ~args.hardware)

BreakpointMissed ==
  /\ pc = "breakpoint"
  /\ Reports
  /\ \E event \in {"load", "other", "exit"} : StopWith(event) /\ ~HitBy(event)
  /\ pc' = "report"
  /\ UNCHANGED <<pending, attempt, hit, result>>

(* The wait ends without an event: the target goes on running.             *)
NoEvent ==
  /\ waiting
  /\ waiting' = FALSE
  /\ IF pc = "breakpoint" /\ Reports
     THEN pc' = "report" /\ UNCHANGED result
     ELSE pc' = "ending" /\ result' = "error"
  /\ UNCHANGED <<args, go, pending, attempt, breakpoint, hit, debuggee>>

(* Registers, stack and symbols of the stop.                               *)
Report ==
  /\ pc = "report"
  /\ result' = "ok"
  /\ pc' = "ending"
  /\ UNCHANGED <<args, waiting, go, pending, attempt, breakpoint, hit, debuggee>>

\* The stops that the step at hand goes on from.
Answered(event) ==
  \/ pc \in {"coreclr", "managed", "module"} /\ event = "load"
  \/ pc \in {"managed", "dac", "breakpoint"} /\ event = "notification"
  \/ pc = "code" /\ event = "notification" /\ jitted'
  \/ pc = "breakpoint" /\ (Reports \/ event = "breakpoint")

(* A stop that the step did not ask for.                                   *)
UnexpectedStop ==
  /\ \E event \in {"load", "notification", "breakpoint", "other", "exit"} :
       StopWith(event) /\ ~Answered(event)
  /\ result' = "error"
  /\ pc' = "ending"
  /\ UNCHANGED <<pending, attempt, hit>>

(* A call fails, the time of a loop is up, or its notifications are.       *)
StepFails ==
  /\ pc \in Waits \cup Steps
  /\ result' = "error"
  /\ pc' = "ending"
  /\ waiting' = FALSE
  /\ UNCHANGED <<args, go, pending, attempt, breakpoint, hit, debuggee>>

(* The session is ended whatever the closure returned; its error comes     *)
(* first.                                                                  *)
EndSession ==
  /\ pc = "ending"
  /\ \E ended \in BOOLEAN :
       /\ target' = IF ~ended THEN "abandoned"
                    ELSE IF args.end = "detach" THEN "detached" ELSE "terminated"
       /\ result' = IF ended THEN result ELSE "error"
  /\ pc' = "done"
  /\ UNCHANGED <<args, waiting, go, pending, attempt, breakpoint, hit, stop, visible,
                 jitted, notified, wrote>>

Done == pc = "done" /\ UNCHANGED vars

Next ==
  \/ LaunchFails \/ Launch \/ Continue
  \/ CoreClrLoads \/ OpenDac \/ ManagedModuleLoads \/ NotificationPassed
  \/ LookUpModule \/ ModuleNotified \/ DisableNotifications \/ ResolveMethod
  \/ CodeGenerated \/ RequestedModuleLoads \/ SetBreakpoint
  \/ BreakpointHit \/ BreakpointMissed \/ NoEvent \/ Report
  \/ UnexpectedStop \/ StepFails \/ EndSession
  \/ Done

(* The command takes its next step, and a wait comes back at the latest    *)
(* when its time is up.                                                    *)
Spec == Init /\ [][Next]_vars /\ WF_vars(Next)

-----------------------------------------------------------------------------
(* Properties.                                                             *)

(* Every variable keeps its type.                                          *)
TypeOK ==
  /\ args \in Arguments
  /\ pc \in Waits \cup Steps \cup {"launching", "ending", "done"}
  /\ waiting \in BOOLEAN
  /\ go \in {"none", "go", "go_handled"}
  /\ pending \in BOOLEAN
  /\ attempt \in Nat /\ attempt <= MaxNotifications
  /\ breakpoint \in {"none", "code", "processor"}
  /\ hit \in BOOLEAN
  /\ result \in {"none", "ok", "error"}
  /\ target \in {"none", "running", "stopped", "exited", "detached", "terminated", "abandoned"}
  /\ stop \in {"none", "initial", "load", "notification", "breakpoint", "other", "exit"}
  /\ visible \in BOOLEAN
  /\ jitted \in BOOLEAN
  /\ notified \in SUBSET {"module_load", "code"}
  /\ wrote \in SUBSET {"notifications", "breakpoint"}

(* Across all the waits of a command, the target is resumed as handled     *)
(* exactly when it had stopped with a CLR notification: one that is not    *)
(* handled reaches the target as an exception nobody catches, and any      *)
(* other exception that is handled is lost to it.                          *)
AcknowledgedExactly == waiting => (go = "go_handled" <=> stop = "notification")

(* Nothing is written to the target of managed-break unless               *)
(* --allow-runtime-write is given, by the CLR's notifications or by the    *)
(* byte of a breakpoint that nothing else guards, and never under          *)
(* --hardware-execute.                                                     *)
WritesNeedPermission ==
  /\ Managed /\ ~args.write => wrote = {}
  /\ args.hardware => wrote = {}

(* A hit is the breakpoint's, in code that exists; a software              *)
(* managed-break that succeeds has hit and leaves no module-load           *)
(* notifications to a target that may run on.                              *)
SuccessIsExact ==
  /\ hit => breakpoint # "none" /\ stop = "breakpoint" /\ (Managed => jitted)
  /\ result = "ok" /\ Managed /\ ~args.hardware => hit /\ "module_load" \notin notified

(* The command ends, however many notifications the CLR raises.            *)
CommandEnds == <>(pc = "done")
=============================================================================
