-------------------------- MODULE LiveBreak_proofs ---------------------------
(***************************************************************************)
(* Invariants of the commands that lead a target to a breakpoint, for any  *)
(* limit on the notifications.                                             *)
(***************************************************************************)
EXTENDS LiveBreak, TLAPS

Software == Managed /\ ~args.hardware

CommandTypes ==
  /\ args \in Arguments
  /\ pc \in Waits \cup Steps \cup {"launching", "ending", "done"}
  /\ waiting \in BOOLEAN
  /\ go \in {"none", "go", "go_handled"}
  /\ pending \in BOOLEAN
  /\ attempt \in Nat /\ attempt <= MaxNotifications
  /\ breakpoint \in {"none", "code", "processor"}
  /\ hit \in BOOLEAN
  /\ result \in {"none", "ok", "error"}

TargetTypes ==
  /\ target \in {"none", "running", "stopped", "exited", "detached", "terminated", "abandoned"}
  /\ stop \in {"none", "initial", "load", "notification", "breakpoint", "other", "exit"}
  /\ visible \in BOOLEAN
  /\ jitted \in BOOLEAN
  /\ notified \in SUBSET {"module_load", "code"}
  /\ wrote \in SUBSET {"notifications", "breakpoint"}

\* A wait is one of the command's, and what it resumed with was pending.
Resumed ==
  waiting => pc \in Waits /\ AttemptsLeft /\ (go = "go_handled" <=> pending)

\* pending says what the target has stopped with.
PendingIsTheStop ==
  pc \in Waits \cup {"launching", "open", "disable", "resolve", "set"} =>
    (pending <=> stop = "notification")

\* Which commands get where.
Path ==
  /\ pc \in {"coreclr", "managed", "dac", "code", "open", "look_up", "disable", "resolve"} =>
       Managed
  /\ pc \in {"dac", "code", "disable"} => Software
  /\ pc = "module" => ~Managed
  /\ pc \in {"launching", "coreclr", "open", "managed", "dac", "code", "look_up",
             "disable", "resolve", "set", "module"} => breakpoint = "none" /\ ~hit
  /\ pc = "breakpoint" => breakpoint # "none" /\ ~hit
  /\ pc \notin {"ending", "done"} => result = "none"
  /\ pc = "report" /\ Software => hit
  /\ pc \in {"launching", "coreclr", "module", "open"} => ~pending
  /\ pc = "look_up" => stop = "load"

\* What has been asked of the CLR, and written for it.
Asked ==
  /\ ~Software => notified = {}
  /\ pc \in {"resolve", "set", "code", "breakpoint", "report"} => "module_load" \notin notified
  /\ args.hardware => breakpoint # "code"
  /\ Software /\ ~args.write =>
       pc \in {"launching", "coreclr", "open", "ending", "done"} /\ breakpoint = "none"

\* The method's code and its module.
Code ==
  /\ jitted => visible
  /\ Managed /\ pc \in {"set", "breakpoint"} => jitted

Inv ==
  /\ CommandTypes /\ TargetTypes
  /\ Resumed /\ PendingIsTheStop /\ Path /\ Asked /\ Code
  /\ WritesNeedPermission /\ SuccessIsExact

(* The limit on notifications is a number.                                 *)
LEMMA LimitIsNatural == 0 <= MaxNotifications
  BY NotificationsAssumption DEF NotificationsAssumption

(* The start satisfies the invariant.                                      *)
LEMMA Starts == Init => Inv
<1> SUFFICES ASSUME Init PROVE Inv
  OBVIOUS
<1>1. CommandTypes /\ TargetTypes
  BY LimitIsNatural DEF Init, CommandTypes, TargetTypes
<1>2. Resumed /\ Path /\ Asked /\ Code
  BY DEF Init, Resumed, Path, Asked, Code, Software, Managed
<1>3. PendingIsTheStop
  BY DEF Init, PendingIsTheStop
<1>4. WritesNeedPermission /\ SuccessIsExact
  BY DEF Init, WritesNeedPermission, SuccessIsExact
<1> QED
  BY <1>1, <1>2, <1>3, <1>4 DEF Inv

\* What has run while the command waited.
LEMMA Progress ==
  ASSUME Inv, NEW event, StopWith(event)
  PROVE  (jitted => jitted') /\ (jitted' => visible')
<1>1. jitted \in BOOLEAN /\ visible \in BOOLEAN /\ (jitted => visible)
  BY DEF Inv, TargetTypes, Code
<1>2. visible' = visible \/ visible' = TRUE
  BY DEF StopWith
<1>3. visible => visible'
  BY <1>1, <1>2, Zenon
<1>4. jitted' = jitted \/ jitted' = visible'
  BY DEF StopWith
<1>5. CASE jitted' = jitted
  BY <1>1, <1>3, <1>5, Zenon
<1>6. CASE jitted' = visible'
  BY <1>1, <1>3, <1>6, Zenon
<1> QED
  BY <1>4, <1>5, <1>6, Zenon

(* While the command waits, its next attempt is inside the limit.          *)
LEMMA NextAttemptBounded ==
  ASSUME Inv, waiting
  PROVE  NextAttempt \in Nat /\ NextAttempt <= MaxNotifications
  BY NotificationsAssumption
  DEF NextAttempt, AttemptsLeft, Inv, CommandTypes, TargetTypes, Resumed

(* Launching or attaching: there is no breakpoint yet.                     *)
LEMMA LaunchKeeps ==
  ASSUME Inv, Launch \/ LaunchFails
  PROVE  Inv'
<1>1. CASE Launch
  BY <1>1
  DEF Launch, AfterLaunch, AttemptsLeft, Inv, CommandTypes, TargetTypes, Resumed,
      PendingIsTheStop, Path, Asked, Code, WritesNeedPermission, SuccessIsExact,
      Software, Managed, Waits, Steps
<1>2. CASE LaunchFails
  BY <1>2
  DEF LaunchFails, AttemptsLeft, Inv, CommandTypes, TargetTypes, Resumed,
      PendingIsTheStop, Path, Asked, Code, WritesNeedPermission, SuccessIsExact,
      Software, Managed, Waits, Steps
<1> QED
  BY <1>1, <1>2

(* Every continue hands on whether the last stop was a notification.       *)
LEMMA ContinueKeeps ==
  ASSUME Inv, Continue
  PROVE  Inv'
  BY
  DEF Continue, AttemptsLeft, HowToGo, Inv, CommandTypes, TargetTypes, Resumed,
      PendingIsTheStop, Path, Asked, Code, WritesNeedPermission, SuccessIsExact,
      Software, Managed, Waits, Steps

(* A wait that brings a stop.                                              *)
LEMMA StopKeeps ==
  ASSUME Inv,
         \/ CoreClrLoads \/ ManagedModuleLoads \/ NotificationPassed
         \/ ModuleNotified \/ CodeGenerated \/ RequestedModuleLoads
         \/ BreakpointHit \/ BreakpointMissed \/ UnexpectedStop
  PROVE  Inv'
<1>1. PICK event : StopWith(event)
  BY
  DEF CoreClrLoads, ManagedModuleLoads, NotificationPassed, ModuleNotified,
      CodeGenerated,
         RequestedModuleLoads, BreakpointHit, BreakpointMissed, UnexpectedStop
<1>2. /\ (jitted => jitted') /\ (jitted' => visible')
      /\ NextAttempt \in Nat /\ NextAttempt <= MaxNotifications
  BY <1>1, Progress, NextAttemptBounded DEF StopWith
<1>3. jitted' \in BOOLEAN /\ visible' \in BOOLEAN
  BY <1>1 DEF StopWith, Inv, TargetTypes
<1>4. CASE CoreClrLoads
  <2>1. CommandTypes'
    BY <1>2, <1>3, <1>4 DEF CoreClrLoads, StopWith, Inv, CommandTypes, Waits, Steps
  <2>2. TargetTypes'
    BY <1>2, <1>3, <1>4 DEF CoreClrLoads, StopWith, Inv, TargetTypes
  <2>3. Resumed' /\ PendingIsTheStop' /\ Path'
    BY <1>2, <1>3, <1>4
    DEF CoreClrLoads, StopWith, AttemptsLeft, Inv, CommandTypes, Resumed,
        PendingIsTheStop, Path, Asked, Software, Managed, Waits, Steps
  <2>4. Asked' /\ Code' /\ WritesNeedPermission'
    BY <1>2, <1>3, <1>4
    DEF CoreClrLoads, StopWith, Inv, TargetTypes, Path, Asked, Code,
        WritesNeedPermission, Software, Managed, Waits, Steps
  <2>5. SuccessIsExact'
    BY <1>2, <1>3, <1>4
    DEF CoreClrLoads, StopWith, Inv, Path, Asked, Code, SuccessIsExact, Software,
        Managed
  <2> QED
    BY <2>1, <2>2, <2>3, <2>4, <2>5 DEF Inv
<1>5. CASE ManagedModuleLoads
  <2>1. CommandTypes'
    BY <1>2, <1>3, <1>5 DEF ManagedModuleLoads, StopWith, Inv, CommandTypes, Waits, Steps
  <2>2. TargetTypes'
    BY <1>2, <1>3, <1>5 DEF ManagedModuleLoads, StopWith, Inv, TargetTypes
  <2>3. Resumed' /\ PendingIsTheStop' /\ Path'
    BY <1>2, <1>3, <1>5
    DEF ManagedModuleLoads, StopWith, AttemptsLeft, Inv, CommandTypes, Resumed,
        PendingIsTheStop, Path, Asked, Software, Managed, Waits, Steps
  <2>4. Asked' /\ Code' /\ WritesNeedPermission'
    BY <1>2, <1>3, <1>5
    DEF ManagedModuleLoads, StopWith, Inv, TargetTypes, Path, Asked, Code,
        WritesNeedPermission, Software, Managed, Waits, Steps
  <2>5. SuccessIsExact'
    BY <1>2, <1>3, <1>5
    DEF ManagedModuleLoads, StopWith, Inv, Path, Asked, Code, SuccessIsExact,
        Software, Managed
  <2> QED
    BY <2>1, <2>2, <2>3, <2>4, <2>5 DEF Inv
<1>6. CASE NotificationPassed
  <2>1. CommandTypes'
    BY <1>2, <1>3, <1>6 DEF NotificationPassed, StopWith, Inv, CommandTypes, Waits, Steps
  <2>2. TargetTypes'
    BY <1>2, <1>3, <1>6 DEF NotificationPassed, StopWith, Inv, TargetTypes
  <2>3. Resumed' /\ PendingIsTheStop' /\ Path'
    BY <1>2, <1>3, <1>6
    DEF NotificationPassed, StopWith, AttemptsLeft, Inv, CommandTypes, Resumed,
        PendingIsTheStop, Path, Asked, Software, Managed, Waits, Steps
  <2>4. Asked' /\ Code' /\ WritesNeedPermission'
    BY <1>2, <1>3, <1>6
    DEF NotificationPassed, StopWith, Inv, TargetTypes, Path, Asked, Code,
        WritesNeedPermission, Software, Managed, Waits, Steps
  <2>5. SuccessIsExact'
    BY <1>2, <1>3, <1>6
    DEF NotificationPassed, StopWith, Inv, Path, Asked, Code, SuccessIsExact,
        Software, Managed
  <2> QED
    BY <2>1, <2>2, <2>3, <2>4, <2>5 DEF Inv
<1>7. CASE ModuleNotified
  <2>1. CommandTypes'
    BY <1>2, <1>3, <1>7 DEF ModuleNotified, StopWith, Inv, CommandTypes, Waits, Steps
  <2>2. TargetTypes'
    BY <1>2, <1>3, <1>7 DEF ModuleNotified, StopWith, Inv, TargetTypes
  <2>3. Resumed' /\ PendingIsTheStop' /\ Path'
    BY <1>2, <1>3, <1>7
    DEF ModuleNotified, StopWith, AttemptsLeft, Inv, CommandTypes, Resumed,
        PendingIsTheStop, Path, Asked, Software, Managed, Waits, Steps
  <2>4. Asked' /\ Code' /\ WritesNeedPermission'
    BY <1>2, <1>3, <1>7
    DEF ModuleNotified, StopWith, Inv, TargetTypes, Path, Asked, Code,
        WritesNeedPermission, Software, Managed, Waits, Steps
  <2>5. SuccessIsExact'
    BY <1>2, <1>3, <1>7
    DEF ModuleNotified, StopWith, Inv, Path, Asked, Code, SuccessIsExact, Software,
        Managed
  <2> QED
    BY <2>1, <2>2, <2>3, <2>4, <2>5 DEF Inv
<1>8. CASE CodeGenerated
  <2>1. CommandTypes'
    BY <1>2, <1>3, <1>8 DEF CodeGenerated, StopWith, Inv, CommandTypes, Waits, Steps
  <2>2. TargetTypes'
    BY <1>2, <1>3, <1>8 DEF CodeGenerated, StopWith, Inv, TargetTypes
  <2>3. Resumed' /\ PendingIsTheStop' /\ Path'
    BY <1>2, <1>3, <1>8
    DEF CodeGenerated, StopWith, AttemptsLeft, Inv, CommandTypes, Resumed,
        PendingIsTheStop, Path, Asked, Software, Managed, Waits, Steps
  <2>4. Asked' /\ Code' /\ WritesNeedPermission'
    BY <1>2, <1>3, <1>8
    DEF CodeGenerated, StopWith, Inv, TargetTypes, Path, Asked, Code,
        WritesNeedPermission, Software, Managed, Waits, Steps
  <2>5. SuccessIsExact'
    BY <1>2, <1>3, <1>8
    DEF CodeGenerated, StopWith, Inv, Path, Asked, Code, SuccessIsExact, Software,
        Managed
  <2> QED
    BY <2>1, <2>2, <2>3, <2>4, <2>5 DEF Inv
<1>9. CASE RequestedModuleLoads
  <2>1. CommandTypes'
    BY <1>2, <1>3, <1>9
    DEF RequestedModuleLoads, StopWith, Inv, CommandTypes, Waits, Steps
  <2>2. TargetTypes'
    BY <1>2, <1>3, <1>9 DEF RequestedModuleLoads, StopWith, Inv, TargetTypes
  <2>3. Resumed' /\ PendingIsTheStop' /\ Path'
    BY <1>2, <1>3, <1>9
    DEF RequestedModuleLoads, StopWith, AttemptsLeft, Inv, CommandTypes, Resumed,
        PendingIsTheStop, Path, Asked, Software, Managed, Waits, Steps
  <2>4. Asked' /\ Code' /\ WritesNeedPermission'
    BY <1>2, <1>3, <1>9
    DEF RequestedModuleLoads, StopWith, Inv, TargetTypes, Path, Asked, Code,
        WritesNeedPermission, Software, Managed, Waits, Steps
  <2>5. SuccessIsExact'
    BY <1>2, <1>3, <1>9
    DEF RequestedModuleLoads, StopWith, Inv, Path, Asked, Code, SuccessIsExact,
        Software, Managed
  <2> QED
    BY <2>1, <2>2, <2>3, <2>4, <2>5 DEF Inv
<1>10. CASE BreakpointHit
  <2>1. CommandTypes'
    BY <1>2, <1>3, <1>10
    DEF BreakpointHit, HitBy, StopWith, Inv, CommandTypes, Waits, Steps
  <2>2. TargetTypes'
    BY <1>2, <1>3, <1>10 DEF BreakpointHit, HitBy, StopWith, Inv, TargetTypes
  <2>3. Resumed' /\ PendingIsTheStop' /\ Path'
    BY <1>2, <1>3, <1>10
    DEF BreakpointHit, HitBy, StopWith, AttemptsLeft, Inv, CommandTypes, Resumed,
        PendingIsTheStop, Path, Asked, Software, Managed, Waits, Steps
  <2>4. Asked' /\ Code' /\ WritesNeedPermission'
    BY <1>2, <1>3, <1>10
    DEF BreakpointHit, HitBy, StopWith, Inv, TargetTypes, Path, Asked, Code,
        WritesNeedPermission, Software, Managed, Waits, Steps
  <2>5. SuccessIsExact'
    BY <1>2, <1>3, <1>10
    DEF BreakpointHit, HitBy, StopWith, Inv, Path, Asked, Code, SuccessIsExact,
        Software, Managed
  <2> QED
    BY <2>1, <2>2, <2>3, <2>4, <2>5 DEF Inv
<1>11. CASE BreakpointMissed
  <2>1. CommandTypes'
    BY <1>2, <1>3, <1>11
    DEF BreakpointMissed, HitBy, Reports, StopWith, Inv, CommandTypes, Waits, Steps
  <2>2. TargetTypes'
    BY <1>2, <1>3, <1>11 DEF BreakpointMissed, HitBy, Reports, StopWith, Inv, TargetTypes
  <2>3. Resumed' /\ PendingIsTheStop' /\ Path'
    BY <1>2, <1>3, <1>11
    DEF BreakpointMissed, HitBy, Reports, StopWith, AttemptsLeft, Inv, CommandTypes,
        Resumed, PendingIsTheStop, Path, Asked, Software, Managed, Waits, Steps
  <2>4. Asked' /\ Code' /\ WritesNeedPermission'
    BY <1>2, <1>3, <1>11
    DEF BreakpointMissed, HitBy, Reports, StopWith, Inv, TargetTypes, Path, Asked,
        Code, WritesNeedPermission, Software, Managed, Waits, Steps
  <2>5. SuccessIsExact'
    BY <1>2, <1>3, <1>11
    DEF BreakpointMissed, HitBy, Reports, StopWith, Inv, Path, Asked, Code,
        SuccessIsExact, Software, Managed
  <2> QED
    BY <2>1, <2>2, <2>3, <2>4, <2>5 DEF Inv
<1>12. CASE UnexpectedStop
  <2>1. CommandTypes'
    BY <1>2, <1>3, <1>12
    DEF UnexpectedStop, Answered, Reports, StopWith, Inv, CommandTypes, Waits, Steps
  <2>2. TargetTypes'
    BY <1>2, <1>3, <1>12 DEF UnexpectedStop, Answered, Reports, StopWith, Inv, TargetTypes
  <2>3. Resumed' /\ PendingIsTheStop' /\ Path'
    BY <1>2, <1>3, <1>12
    DEF UnexpectedStop, Answered, Reports, StopWith, AttemptsLeft, Inv, CommandTypes,
        Resumed, PendingIsTheStop, Path, Asked, Software, Managed, Waits, Steps
  <2>4. Asked' /\ Code' /\ WritesNeedPermission'
    BY <1>2, <1>3, <1>12
    DEF UnexpectedStop, Answered, Reports, StopWith, Inv, TargetTypes, Path, Asked,
        Code, WritesNeedPermission, Software, Managed, Waits, Steps
  <2>5. ~hit
    BY <1>12 DEF UnexpectedStop, StopWith, Inv, Resumed, Path, Waits
  <2>6. SuccessIsExact'
    BY <1>12, <2>5 DEF UnexpectedStop, SuccessIsExact
  <2> QED
    BY <2>1, <2>2, <2>3, <2>4, <2>6 DEF Inv
<1> QED
  BY <1>4, <1>5, <1>6, <1>7, <1>8, <1>9, <1>10, <1>11, <1>12

(* A step of the command while the target stands still, and the end.       *)
LEMMA StepKeeps ==
  ASSUME Inv,
         \/ OpenDac \/ LookUpModule \/ DisableNotifications \/ ResolveMethod
         \/ SetBreakpoint \/ NoEvent \/ Report \/ StepFails \/ EndSession
  PROVE  Inv'
<1>1. CASE OpenDac
  <2>1. CommandTypes'
    BY LimitIsNatural, <1>1 DEF OpenDac, TargetWrites, Inv, CommandTypes, Waits, Steps
  <2>2. TargetTypes'
    BY LimitIsNatural, <1>1 DEF OpenDac, TargetWrites, Inv, TargetTypes
  <2>3. Resumed' /\ PendingIsTheStop' /\ Path'
    BY LimitIsNatural, <1>1
    DEF OpenDac, TargetWrites, AttemptsLeft, Inv, CommandTypes, Resumed,
        PendingIsTheStop, Path, Asked, Software, Managed, Waits, Steps
  <2>4. Asked' /\ Code' /\ WritesNeedPermission'
    BY LimitIsNatural, <1>1
    DEF OpenDac, TargetWrites, Inv, TargetTypes, Path, Asked, Code,
        WritesNeedPermission, Software, Managed, Waits, Steps
  <2>5. SuccessIsExact'
    BY LimitIsNatural, <1>1
    DEF OpenDac, TargetWrites, Inv, Path, Asked, Code, SuccessIsExact, Software,
        Managed
  <2> QED
    BY <2>1, <2>2, <2>3, <2>4, <2>5 DEF Inv
<1>2. CASE LookUpModule
  <2>1. CommandTypes'
    BY LimitIsNatural, <1>2
    DEF LookUpModule, PendingAfterLoad, debuggee, Inv, CommandTypes, Waits, Steps
  <2>2. TargetTypes'
    BY LimitIsNatural, <1>2 DEF LookUpModule, PendingAfterLoad, debuggee, Inv, TargetTypes
  <2>3. Resumed' /\ PendingIsTheStop' /\ Path'
    BY LimitIsNatural, <1>2
    DEF LookUpModule, PendingAfterLoad, debuggee, AttemptsLeft, Inv, CommandTypes,
        Resumed, PendingIsTheStop, Path, Asked, Software, Managed, Waits, Steps
  <2>4. Asked' /\ Code' /\ WritesNeedPermission'
    BY LimitIsNatural, <1>2
    DEF LookUpModule, PendingAfterLoad, debuggee, Inv, TargetTypes, Path, Asked, Code,
        WritesNeedPermission, Software, Managed, Waits, Steps
  <2>5. SuccessIsExact'
    BY LimitIsNatural, <1>2
    DEF LookUpModule, PendingAfterLoad, debuggee, Inv, Path, Asked, Code,
        SuccessIsExact, Software, Managed
  <2> QED
    BY <2>1, <2>2, <2>3, <2>4, <2>5 DEF Inv
<1>3. CASE DisableNotifications
  <2>1. CommandTypes'
    BY <1>3 DEF DisableNotifications, Inv, CommandTypes, Waits, Steps
  <2>2. TargetTypes'
    BY <1>3 DEF DisableNotifications, Inv, TargetTypes
  <2>3. Resumed' /\ PendingIsTheStop' /\ Path'
    BY <1>3
    DEF DisableNotifications, AttemptsLeft, Inv, CommandTypes, Resumed,
        PendingIsTheStop, Path, Asked, Software, Managed, Waits, Steps
  <2>4. Asked' /\ Code' /\ WritesNeedPermission'
    BY <1>3
    DEF DisableNotifications, Inv, TargetTypes, Path, Asked, Code,
        WritesNeedPermission, Software, Managed, Waits, Steps
  <2>5. SuccessIsExact'
    BY <1>3
    DEF DisableNotifications, Inv, Path, Asked, Code, SuccessIsExact, Software,
        Managed
  <2> QED
    BY <2>1, <2>2, <2>3, <2>4, <2>5 DEF Inv
<1>4. CASE ResolveMethod
  <2>1. CommandTypes'
    BY LimitIsNatural, <1>4 DEF ResolveMethod, Inv, CommandTypes, Waits, Steps
  <2>2. TargetTypes'
    BY LimitIsNatural, <1>4 DEF ResolveMethod, Inv, TargetTypes
  <2>3. Resumed' /\ PendingIsTheStop' /\ Path'
    BY LimitIsNatural, <1>4
    DEF ResolveMethod, AttemptsLeft, Inv, CommandTypes, Resumed, PendingIsTheStop,
        Path, Asked, Software, Managed, Waits, Steps
  <2>4. Asked' /\ Code' /\ WritesNeedPermission'
    BY LimitIsNatural, <1>4
    DEF ResolveMethod, Inv, TargetTypes, Path, Asked, Code, WritesNeedPermission,
        Software, Managed, Waits, Steps
  <2>5. SuccessIsExact'
    BY LimitIsNatural, <1>4
    DEF ResolveMethod, Inv, Path, Asked, Code, SuccessIsExact, Software, Managed
  <2> QED
    BY <2>1, <2>2, <2>3, <2>4, <2>5 DEF Inv
<1>5. CASE SetBreakpoint
  <2>1. CommandTypes'
    BY LimitIsNatural, <1>5 DEF SetBreakpoint, debuggee, Inv, CommandTypes, Waits, Steps
  <2>2. TargetTypes'
    BY LimitIsNatural, <1>5 DEF SetBreakpoint, debuggee, Inv, TargetTypes
  <2>3. Resumed' /\ PendingIsTheStop' /\ Path'
    BY LimitIsNatural, <1>5
    DEF SetBreakpoint, debuggee, AttemptsLeft, Inv, CommandTypes, Resumed,
        PendingIsTheStop, Path, Asked, Software, Managed, Waits, Steps
  <2>4. Asked' /\ Code' /\ WritesNeedPermission'
    BY LimitIsNatural, <1>5
    DEF SetBreakpoint, debuggee, Inv, TargetTypes, Path, Asked, Code,
        WritesNeedPermission, Software, Managed, Waits, Steps
  <2>5. SuccessIsExact'
    BY LimitIsNatural, <1>5
    DEF SetBreakpoint, debuggee, Inv, Path, Asked, Code, SuccessIsExact, Software,
        Managed
  <2> QED
    BY <2>1, <2>2, <2>3, <2>4, <2>5 DEF Inv
<1>6. CASE NoEvent
  <2>1. CommandTypes'
    BY <1>6 DEF NoEvent, Reports, debuggee, Inv, CommandTypes, Waits, Steps
  <2>2. TargetTypes'
    BY <1>6 DEF NoEvent, Reports, debuggee, Inv, TargetTypes
  <2>3. Resumed' /\ PendingIsTheStop' /\ Path'
    BY <1>6
    DEF NoEvent, Reports, debuggee, AttemptsLeft, Inv, CommandTypes, Resumed,
        PendingIsTheStop, Path, Asked, Software, Managed, Waits, Steps
  <2>4. Asked' /\ Code' /\ WritesNeedPermission'
    BY <1>6
    DEF NoEvent, Reports, debuggee, Inv, TargetTypes, Path, Asked, Code,
        WritesNeedPermission, Software, Managed, Waits, Steps
  <2>5. SuccessIsExact'
    BY <1>6
    DEF NoEvent, Reports, debuggee, Inv, Path, Asked, Code, SuccessIsExact, Software,
        Managed
  <2> QED
    BY <2>1, <2>2, <2>3, <2>4, <2>5 DEF Inv
<1>7. CASE Report
  <2>1. CommandTypes'
    BY <1>7 DEF Report, debuggee, Inv, CommandTypes, Waits, Steps
  <2>2. TargetTypes'
    BY <1>7 DEF Report, debuggee, Inv, TargetTypes
  <2>3. Resumed' /\ PendingIsTheStop' /\ Path'
    BY <1>7
    DEF Report, debuggee, AttemptsLeft, Inv, CommandTypes, Resumed, PendingIsTheStop,
        Path, Asked, Software, Managed, Waits, Steps
  <2>4. Asked' /\ Code' /\ WritesNeedPermission'
    BY <1>7
    DEF Report, debuggee, Inv, TargetTypes, Path, Asked, Code, WritesNeedPermission,
        Software, Managed, Waits, Steps
  <2>5. SuccessIsExact'
    BY <1>7
    DEF Report, debuggee, Inv, Path, Asked, Code, SuccessIsExact, Software, Managed
  <2> QED
    BY <2>1, <2>2, <2>3, <2>4, <2>5 DEF Inv
<1>8. CASE StepFails
  <2>1. CommandTypes'
    BY <1>8 DEF StepFails, debuggee, Inv, CommandTypes, Waits, Steps
  <2>2. TargetTypes'
    BY <1>8 DEF StepFails, debuggee, Inv, TargetTypes
  <2>3. Resumed' /\ PendingIsTheStop' /\ Path'
    BY <1>8
    DEF StepFails, debuggee, AttemptsLeft, Inv, CommandTypes, Resumed,
        PendingIsTheStop, Path, Asked, Software, Managed, Waits, Steps
  <2>4. Asked' /\ Code' /\ WritesNeedPermission'
    BY <1>8
    DEF StepFails, debuggee, Inv, TargetTypes, Path, Asked, Code,
        WritesNeedPermission, Software, Managed, Waits, Steps
  <2>5. SuccessIsExact'
    BY <1>8
    DEF StepFails, debuggee, Inv, Path, Asked, Code, SuccessIsExact, Software, Managed
  <2> QED
    BY <2>1, <2>2, <2>3, <2>4, <2>5 DEF Inv
<1>9. CASE EndSession
  <2>1. CommandTypes'
    BY <1>9 DEF EndSession, Inv, CommandTypes, Waits, Steps
  <2>2. TargetTypes'
    BY <1>9 DEF EndSession, Inv, TargetTypes
  <2>3. Resumed' /\ PendingIsTheStop' /\ Path'
    BY <1>9
    DEF EndSession, AttemptsLeft, Inv, CommandTypes, Resumed, PendingIsTheStop, Path,
        Asked, Software, Managed, Waits, Steps
  <2>4. Asked' /\ Code' /\ WritesNeedPermission'
    BY <1>9
    DEF EndSession, Inv, TargetTypes, Path, Asked, Code, WritesNeedPermission,
        Software, Managed, Waits, Steps
  <2>5. SuccessIsExact'
    BY <1>9 DEF EndSession, Inv, Path, Asked, Code, SuccessIsExact, Software, Managed
  <2> QED
    BY <2>1, <2>2, <2>3, <2>4, <2>5 DEF Inv
<1> QED
  BY <1>1, <1>2, <1>3, <1>4, <1>5, <1>6, <1>7, <1>8, <1>9

(* Inv is inductive.                                                       *)
LEMMA NextKeeps == Inv /\ [Next]_vars => Inv'
<1> SUFFICES ASSUME Inv, [Next]_vars PROVE Inv'
  OBVIOUS
<1>1. CASE UNCHANGED vars
  BY <1>1
  DEF vars, command, debuggee, AttemptsLeft, Inv, CommandTypes, TargetTypes, Resumed,
      PendingIsTheStop, Path, Asked, Code, WritesNeedPermission, SuccessIsExact,
      Software, Managed, Waits, Steps
<1>2. CASE Next
  BY <1>1, <1>2, LaunchKeeps, ContinueKeeps, StopKeeps, StepKeeps DEF Next, Done
<1> QED
  BY <1>1, <1>2

(* The invariant holds for any limit on notifications.                     *)
LEMMA Invariance == Spec => []Inv
<1> QED
  BY Starts, NextKeeps, PTL DEF Spec

(* Every variable keeps its type.                                          *)
THEOREM BreakTypes == Spec => []TypeOK
<1>1. Inv => TypeOK
  BY DEF Inv, CommandTypes, TargetTypes, TypeOK
<1> QED
  BY <1>1, Invariance, PTL

(* The target is resumed as handled after a CLR notification and after     *)
(* nothing else, whatever the order in which module loads, notifications   *)
(* and breakpoints arrive.                                                 *)
THEOREM NotificationsAreAcknowledged == Spec => []AcknowledgedExactly
<1>1. Inv => AcknowledgedExactly
  BY DEF Inv, Resumed, PendingIsTheStop, AcknowledgedExactly
<1> QED
  BY <1>1, Invariance, PTL

(* No write reaches a target whose owner did not allow it.                 *)
THEOREM NothingWrittenUnasked == Spec => []WritesNeedPermission
<1>1. Inv => WritesNeedPermission
  BY DEF Inv
<1> QED
  BY <1>1, Invariance, PTL

(* What a successful command reports is so.                                *)
THEOREM ReportsAreTrue == Spec => []SuccessIsExact
<1>1. Inv => SuccessIsExact
  BY DEF Inv
<1> QED
  BY <1>1, Invariance, PTL
==============================================================================
