--------------------------- MODULE TargetRegistry ---------------------------
(***************************************************************************)
(* The live and dump targets the daemon owns (crates/windbg-ttd,           *)
(* targets.rs, TargetRegistry) and what becomes of their debuggees.  Every *)
(* tool call runs under the service's mutex until the engine worker has    *)
(* answered, so each is one step here; EngineWorker shows what happens     *)
(* inside one.  Calls that fail and change nothing are stuttering steps.   *)
(***************************************************************************)
EXTENDS Naturals, FiniteSets

CONSTANTS MaxTarget     (* bound on the target ids handed out              *)

ASSUME TargetAssumption == MaxTarget \in Nat \ {0}

VARIABLES
  nextTarget,   (* next_target_id                                          *)
  targets,      (* the ids in the map                                      *)
  kind,         (* "live" or "dump" per id                                 *)
  dead,         (* ids whose worker's thread has panicked, or never ran    *)
  debuggee,     (* what has become of the debuggee of each id              *)
  refused,      (* history: ids whose engine refused to let it go          *)
  daemon,       (* "serving", "stopped" or "exited" without a drop         *)
  reply         (* history: what the last close or terminate answered      *)

vars ==
  <<nextTarget, targets, kind, dead, debuggee, refused, daemon, reply>>

TargetIds == 1 .. MaxTarget
Kinds == {"live", "dump"}
Fates == {"none", "attached", "detached", "terminated", "abandoned"}

Init ==
  /\ nextTarget = 0
  /\ targets = {}
  /\ kind = [t \in TargetIds |-> "dump"]
  /\ dead = {}
  /\ debuggee = [t \in TargetIds |-> "none"]
  /\ refused = {}
  /\ daemon = "serving"
  /\ reply = "none"

-----------------------------------------------------------------------------
(* Opening.                                                                *)

\* allocate_target_id.
Allocated == nextTarget + 1

(* live_launch_session, live_attach_process, dump_open_session: the id is  *)
(* taken once the engine has the session, before the worker's thread.      *)
OpenTarget(k) ==
  LET t == Allocated
  IN /\ nextTarget < MaxTarget
     /\ nextTarget' = t
     /\ targets' = targets \cup {t}
     /\ kind' = [kind EXCEPT ![t] = k]
     /\ debuggee' = [debuggee EXCEPT ![t] =
                       IF k = "live" THEN "attached" ELSE "none"]
     /\ UNCHANGED <<dead, refused>>

(* The worker's thread cannot be started: the id is spent, and the session *)
(* is dropped without a detach.                                            *)
OpenWithoutWorker(k) ==
  LET t == Allocated
  IN /\ nextTarget < MaxTarget
     /\ nextTarget' = t
     /\ kind' = [kind EXCEPT ![t] = k]
     /\ dead' = dead \cup {t}
     /\ debuggee' = [debuggee EXCEPT ![t] =
                       IF k = "live" THEN "abandoned" ELSE "none"]
     /\ UNCHANGED <<targets, refused>>

-----------------------------------------------------------------------------
(* Using a target.                                                         *)

(* An operation panics on the worker's thread and the call fails; the      *)
(* session is dropped there, the target stays in the map.                  *)
OperationPanics(t) ==
  /\ t \in targets \ dead
  /\ dead' = dead \cup {t}
  /\ debuggee' = [debuggee EXCEPT ![t] =
                    IF @ = "attached" THEN "abandoned" ELSE @]
  /\ UNCHANGED <<nextTarget, targets, kind, refused>>

-----------------------------------------------------------------------------
(* Letting go of targets.                                                  *)

\* Faulty: the target stays in the map.
KeepTarget(t) == t \in targets /\ UNCHANGED targets

\* The target is removed from the map before anything that may fail.
Remove(t) == targets' = targets \ {t}

\* Faulty: the destructor shuts the worker down without a detach.
DroppedQuietly(t, refuses) ==
  IF debuggee[t] = "attached" THEN "abandoned" ELSE debuggee[t]

(* What the destructor leaves of a debuggee: shutdown with                 *)
(* detach_live_target, where a refusal is ignored.  A dead worker has let  *)
(* its session go before.                                                  *)
Dropped(t, refuses) ==
  IF debuggee[t] # "attached" THEN debuggee[t]
  ELSE IF refuses THEN "abandoned" ELSE "detached"

Refuse(R) == refused' = refused \cup R

(* The engine does what the tool is for, and the worker is shut down.      *)
LetGo(t, fate) ==
  /\ kind[t] = "live" /\ t \notin dead
  /\ debuggee' = [debuggee EXCEPT ![t] = fate]
  /\ reply' = fate
  /\ UNCHANGED refused

(* The engine call fails, and the target is dropped on the early return.   *)
LetGoFails(t) ==
  /\ kind[t] = "live"
  /\ \E refuses \in BOOLEAN :
       debuggee' = [debuggee EXCEPT ![t] = Dropped(t, refuses)]
  /\ reply' = "failed"
  /\ Refuse({t} \ dead)

(* A dump is only shut down, which a dead worker fails.                    *)
CloseTarget(t) ==
  /\ t \in targets
  /\ Remove(t)
  /\ \/ LetGo(t, "detached")
     \/ LetGoFails(t)
     \/ /\ kind[t] = "dump"
        /\ reply' = IF t \in dead THEN "failed" ELSE "closed"
        /\ UNCHANGED <<debuggee, refused>>
  /\ UNCHANGED <<nextTarget, kind, dead, daemon>>

(* The target is checked to be live when it is out of the map already: a   *)
(* dump target is dropped by the call that refuses to terminate it.        *)
TerminateTarget(t) ==
  /\ t \in targets
  /\ Remove(t)
  /\ \/ LetGo(t, "terminated")
     \/ LetGoFails(t)
     \/ /\ kind[t] = "dump"
        /\ reply' = "not_live"
        /\ UNCHANGED <<debuggee, refused>>
  /\ UNCHANGED <<nextTarget, kind, dead, daemon>>

(* The daemon leaves its loop and nothing else holds the service's state:  *)
(* the state, and every target in it, is dropped.                          *)
DaemonStops ==
  /\ daemon = "serving"
  /\ daemon' = "stopped"
  /\ targets' = {}
  /\ \E R \in SUBSET (targets \ dead) :
       /\ Refuse(R)
       /\ debuggee' = [t \in TargetIds |->
                         IF t \in targets THEN Dropped(t, t \in R)
                         ELSE debuggee[t]]
  /\ reply' = "none"
  /\ UNCHANGED <<nextTarget, kind, dead>>

(* process::exit runs while a connection or a sweep still holds the state: *)
(* no destructor runs, and the workers go with the process.                *)
DaemonExits ==
  /\ daemon = "serving"
  /\ daemon' = "exited"
  /\ targets' = {}
  /\ debuggee' = [t \in TargetIds |->
                    IF debuggee[t] = "attached" THEN "abandoned" ELSE debuggee[t]]
  /\ reply' = "none"
  /\ UNCHANGED <<nextTarget, kind, dead, refused>>

Open ==
  /\ daemon = "serving"
  /\ \E k \in Kinds : OpenTarget(k) \/ OpenWithoutWorker(k)
  /\ reply' = "none"
  /\ UNCHANGED daemon

Use ==
  /\ daemon = "serving"
  /\ \E t \in TargetIds : OperationPanics(t)
  /\ reply' = "none"
  /\ UNCHANGED daemon

End ==
  /\ daemon = "serving"
  /\ \E t \in TargetIds : CloseTarget(t) \/ TerminateTarget(t)

Next == Open \/ Use \/ End \/ DaemonStops \/ DaemonExits

Spec == Init /\ [][Next]_vars

-----------------------------------------------------------------------------

(* The values of every variable.                                           *)
TypeOK ==
  /\ nextTarget \in 0 .. MaxTarget
  /\ targets \subseteq 1 .. nextTarget
  /\ kind \in [TargetIds -> Kinds]
  /\ dead \subseteq 1 .. nextTarget
  /\ debuggee \in [TargetIds -> Fates]
  /\ refused \subseteq 1 .. nextTarget
  /\ daemon \in {"serving", "stopped", "exited"}
  /\ reply \in {"none", "closed", "detached", "terminated", "not_live", "failed"}

(* The daemon lists exactly the live targets whose debuggees it holds: no  *)
(* debuggee stays attached to a target that is gone, and no target that    *)
(* still has its engine has lost its debuggee (close_target,               *)
(* terminate_target, Drop).                                                *)
AttachedIffServed ==
  \A t \in TargetIds :
    debuggee[t] = "attached" <=> t \in targets \ dead /\ kind[t] = "live"

(* A debuggee is left to itself only after its engine refused to let it go,*)
(* or its worker died or never ran, or the process went without dropping   *)
(* its state (close_target, terminate_target, Drop, insert_target).        *)
NeverAbandoned ==
  \A t \in TargetIds : debuggee[t] = "abandoned" =>
    t \in dead \cup refused \/ daemon = "exited"

(* Once a debuggee has been let go, no later call touches it: not a second *)
(* close or terminate, and not the end of the daemon.                      *)
FatesAreFinal ==
  [][\A t \in TargetIds :
       debuggee[t] \in {"detached", "terminated", "abandoned"} =>
         debuggee'[t] = debuggee[t]]_vars

(* "Terminate and close a daemon-owned live target session" (tools.rs): a  *)
(* call that is refused because the target is not live leaves it open.     *)
RefusedTerminateKeepsTarget ==
  [][reply' = "not_live" => targets' = targets]_vars
=============================================================================
