------------------------ MODULE TargetRegistry_proofs ------------------------
(***************************************************************************)
(* What holds of the targets, and of their debuggees, for any number of    *)
(* targets opened.                                                         *)
(***************************************************************************)
EXTENDS TargetRegistry, TLAPS

\* A target that has not been opened has no debuggee to let go of.
Fresh == \A t \in TargetIds : t > nextTarget => debuggee[t] = "none"

Inv == TypeOK /\ AttachedIffServed /\ NeverAbandoned /\ Fresh

(* A new registry is empty.                                                *)
LEMMA Starts == Init => Inv
  BY TargetAssumption
  DEF Init, Inv, TypeOK, AttachedIffServed, NeverAbandoned, Fresh, TargetIds,
      Kinds, Fates

\* Of a debuggee that is dropped: it is never left attached, and abandoned
\* only by an engine that refuses.
LEMMA DroppedIsLetGo ==
  ASSUME TypeOK, NEW t \in TargetIds, NEW refuses \in BOOLEAN
  PROVE  /\ Dropped(t, refuses) \in Fates \ {"attached"}
         /\ debuggee[t] # "attached" => Dropped(t, refuses) = debuggee[t]
         /\ debuggee[t] = "attached" =>
              (Dropped(t, refuses) = "abandoned" <=> refuses)
  BY DEF TypeOK, Dropped, Fates

(* A target that is opened has a new id.                                   *)
LEMMA OpenKeeps ==
  ASSUME Inv, NEW k \in Kinds, daemon' = daemon, reply' = "none",
         OpenTarget(k) \/ OpenWithoutWorker(k)
  PROVE  Inv'
<1> DEFINE t == nextTarget + 1
<1>1. /\ nextTarget' = t /\ t \in TargetIds /\ nextTarget \in Nat
      /\ t \notin targets /\ t \notin dead /\ t \notin refused
      /\ targets' \subseteq targets \cup {t}
      /\ dead' \subseteq dead \cup {t}
  BY TargetAssumption
  DEF Inv, TypeOK, OpenTarget, OpenWithoutWorker, Allocated, TargetIds
<1>2. TypeOK'
  <2>1. /\ kind' \in [TargetIds -> Kinds]
        /\ debuggee' \in [TargetIds -> Fates]
    BY <1>1
    DEF Inv, TypeOK, OpenTarget, OpenWithoutWorker, Allocated, Fates
  <2>2. /\ nextTarget' \in 0 .. MaxTarget
        /\ targets' \subseteq 1 .. nextTarget'
        /\ dead' \subseteq 1 .. nextTarget'
        /\ refused' \subseteq 1 .. nextTarget'
    <3>1. /\ nextTarget' \in 0 .. MaxTarget
          /\ (1 .. nextTarget) \cup {t} \subseteq 1 .. nextTarget'
      BY <1>1, TargetAssumption DEF TargetIds
    <3>2. refused' = refused
      BY DEF OpenTarget, OpenWithoutWorker
    <3> QED
      BY <1>1, <3>1, <3>2 DEF Inv, TypeOK
  <2> QED
    BY <2>1, <2>2 DEF Inv, TypeOK
<1>3. AttachedIffServed'
  BY <1>1
  DEF Inv, TypeOK, AttachedIffServed, OpenTarget, OpenWithoutWorker, Allocated,
      Kinds
<1>4. NeverAbandoned'
  BY <1>1
  DEF Inv, TypeOK, NeverAbandoned, OpenTarget, OpenWithoutWorker, Allocated
<1>5. Fresh'
  <2>1. \A s \in TargetIds : s > t => s # t /\ s > nextTarget
    BY <1>1 DEF TargetIds
  <2> QED
    BY <1>1, <2>1
    DEF Inv, TypeOK, Fresh, OpenTarget, OpenWithoutWorker, Allocated
<1> QED
  BY <1>2, <1>3, <1>4, <1>5 DEF Inv

(* A command that panics takes the worker along, not the entry.            *)
LEMMA PanicKeeps ==
  ASSUME Inv, NEW t \in TargetIds, OperationPanics(t), daemon' = daemon,
         reply' = "none"
  PROVE  Inv'
<1>1. TypeOK'
  BY DEF Inv, TypeOK, OperationPanics, Fates
<1>2. AttachedIffServed'
  BY DEF Inv, TypeOK, AttachedIffServed, OperationPanics
<1>3. NeverAbandoned'
  BY DEF Inv, TypeOK, NeverAbandoned, OperationPanics
<1>4. Fresh'
  BY DEF Inv, TypeOK, Fresh, OperationPanics
<1> QED
  BY <1>1, <1>2, <1>3, <1>4 DEF Inv

(* Closing and terminating: the entry goes, whatever becomes of the        *)
(* debuggee.                                                               *)
LEMMA EndKeeps ==
  ASSUME Inv, daemon = "serving",
         NEW t \in TargetIds, CloseTarget(t) \/ TerminateTarget(t)
  PROVE  Inv'
<1>1. /\ t \in targets /\ targets' = targets \ {t} /\ t \in 1 .. nextTarget
      /\ UNCHANGED <<nextTarget, kind, dead, daemon>>
      /\ refused \subseteq refused' /\ refused' \subseteq refused \cup {t}
      /\ reply' \in {"closed", "detached", "terminated", "not_live", "failed"}
  BY DEF Inv, TypeOK, CloseTarget, TerminateTarget, Remove, LetGo, LetGoFails,
         Refuse
<1>2. PICK fate \in Fates \ {"attached"} :
        /\ debuggee' = [debuggee EXCEPT ![t] = fate]
        /\ fate = "abandoned" => t \in dead \cup refused'
  <2>1. CASE kind[t] = "dump"
    <3>1. debuggee[t] \in Fates \ {"attached"} /\ debuggee' = debuggee
      BY <2>1 DEF Inv, TypeOK, AttachedIffServed, CloseTarget, TerminateTarget,
                  LetGo, LetGoFails
    <3>2. debuggee' = [debuggee EXCEPT ![t] = debuggee[t]]
      BY <3>1 DEF Inv, TypeOK
    <3>3. debuggee[t] = "abandoned" => t \in dead \cup refused'
      BY <1>1 DEF Inv, NeverAbandoned
    <3> QED
      BY <3>1, <3>2, <3>3
  <2>2. CASE LetGo(t, "detached") \/ LetGo(t, "terminated")
    BY <2>2 DEF LetGo, Fates
  <2>3. CASE LetGoFails(t)
    <3>1. PICK refuses \in BOOLEAN :
            debuggee' = [debuggee EXCEPT ![t] = Dropped(t, refuses)]
      BY <2>3 DEF LetGoFails
    <3>2. t \in dead \cup refused'
      BY <2>3 DEF LetGoFails, Refuse
    <3> QED
      BY <3>1, <3>2, DroppedIsLetGo DEF Inv
  <2> QED
    BY <2>1, <2>2, <2>3 DEF CloseTarget, TerminateTarget
<1>3. TypeOK'
  BY <1>1, <1>2 DEF Inv, TypeOK
<1>4. AttachedIffServed'
  BY <1>1, <1>2 DEF Inv, TypeOK, AttachedIffServed
<1>5. NeverAbandoned'
  BY <1>1, <1>2 DEF Inv, TypeOK, NeverAbandoned
<1>6. Fresh'
  BY <1>1, <1>2 DEF Inv, TypeOK, Fresh, TargetIds
<1> QED
  BY <1>3, <1>4, <1>5, <1>6 DEF Inv

(* The daemon ends: what is still attached is let go or abandoned.         *)
LEMMA StopKeeps ==
  ASSUME Inv, DaemonStops
  PROVE  Inv'
<1>1. PICK R \in SUBSET (targets \ dead) :
        /\ refused' = refused \cup R
        /\ debuggee' = [t \in TargetIds |->
                          IF t \in targets THEN Dropped(t, t \in R)
                          ELSE debuggee[t]]
  BY DEF DaemonStops, Refuse
<1>2. \A t \in TargetIds \ targets : debuggee'[t] = debuggee[t]
  BY <1>1
<1>3. ASSUME NEW t \in targets
      PROVE  /\ debuggee'[t] \in Fates \ {"attached"}
             /\ debuggee[t] # "attached" => debuggee'[t] = debuggee[t]
             /\ debuggee'[t] = "abandoned" /\ t \notin R =>
                  debuggee[t] = "abandoned"
  <2>1. t \in TargetIds /\ debuggee[t] \in Fates
    BY TargetAssumption DEF Inv, TypeOK, TargetIds
  <2>2. debuggee'[t] = Dropped(t, t \in R)
    BY <1>1, <2>1
  <2> QED
    BY <2>1, <2>2 DEF Dropped, Fates
<1>4. debuggee' \in [TargetIds -> Fates]
  BY <1>1, <1>2, <1>3 DEF Inv, TypeOK
<1>5. TypeOK'
  BY <1>1, <1>4 DEF Inv, TypeOK, DaemonStops
<1>6. AttachedIffServed'
  BY <1>2, <1>3 DEF Inv, TypeOK, AttachedIffServed, DaemonStops
<1>7. NeverAbandoned'
  BY <1>1, <1>2, <1>3 DEF Inv, TypeOK, NeverAbandoned, DaemonStops
<1>8. Fresh'
  BY <1>2 DEF Inv, TypeOK, Fresh, DaemonStops, TargetIds
<1> QED
  BY <1>5, <1>6, <1>7, <1>8 DEF Inv

(* The process is gone.                                                    *)
LEMMA ExitKeeps ==
  ASSUME Inv, DaemonExits
  PROVE  Inv'
  BY DEF Inv, TypeOK, AttachedIffServed, NeverAbandoned, Fresh, Fates, DaemonExits

(* The invariant holds for any number of targets.                          *)
LEMMA Inductive == Spec => []Inv
<1>1. Inv /\ [Next]_vars => Inv'
  <2> SUFFICES ASSUME Inv, [Next]_vars PROVE Inv'
    OBVIOUS
  <2>1. CASE UNCHANGED vars
    BY <2>1 DEF vars, Inv, TypeOK, AttachedIffServed, NeverAbandoned, Fresh
  <2> QED
    BY <2>1, OpenKeeps, PanicKeeps, EndKeeps, StopKeeps, ExitKeeps
    DEF Next, Open, Use, End
<1> QED
  BY <1>1, Starts, PTL DEF Spec

-----------------------------------------------------------------------------

(* The daemon lists exactly the live targets whose debuggees it holds.     *)
THEOREM ServedIffAttached == Spec => []AttachedIffServed
<1>1. Inv => AttachedIffServed
  BY DEF Inv
<1> QED
  BY <1>1, Inductive, PTL

(* However a target goes, its debuggee is let go of, unless its engine     *)
(* refused, its worker had died or the process went with its state.        *)
THEOREM NobodyIsAbandoned == Spec => []NeverAbandoned
<1>1. Inv => NeverAbandoned
  BY DEF Inv
<1> QED
  BY <1>1, Inductive, PTL

(* A debuggee that has been let go of is left alone for good.              *)
THEOREM FatesNeverChange == Spec => FatesAreFinal
<1> DEFINE Final(t) ==
      debuggee[t] \in {"detached", "terminated", "abandoned"} =>
        debuggee'[t] = debuggee[t]
<1>1. ASSUME Inv, [Next]_vars, NEW t \in TargetIds
      PROVE  Final(t)
  <2> USE <1>1 DEF Inv
  <2>1. ASSUME NEW k \in Kinds, OpenTarget(k) \/ OpenWithoutWorker(k)
        PROVE  Final(t)
    BY <2>1, TargetAssumption
    DEF TypeOK, Fresh, OpenTarget, OpenWithoutWorker, Allocated, TargetIds
  <2>2. ASSUME NEW s \in TargetIds, OperationPanics(s)
        PROVE  Final(t)
    BY <2>2 DEF TypeOK, OperationPanics
  <2>3. ASSUME NEW s \in TargetIds, CloseTarget(s) \/ TerminateTarget(s)
        PROVE  Final(t)
    BY <2>3, DroppedIsLetGo
    DEF TypeOK, AttachedIffServed, CloseTarget, TerminateTarget, LetGo,
        LetGoFails
  <2>4. CASE DaemonStops
    BY <2>4 DEF DaemonStops, Dropped
  <2>5. CASE DaemonExits \/ UNCHANGED vars
    BY <2>5 DEF DaemonExits, TypeOK, vars
  <2> QED
    BY <2>1, <2>2, <2>3, <2>4, <2>5 DEF Next, Open, Use, End
<1>2. Inv /\ [Next]_vars => [\A t \in TargetIds : Final(t)]_vars
  BY <1>1
<1> QED
  BY <1>2, Inductive, PTL DEF Spec, FatesAreFinal
=============================================================================
