-------------------------- MODULE SerializedEngine --------------------------
(***************************************************************************)
(* What EngineWorker promises its callers (crates/windbg-ttd, targets.rs,  *)
(* "Owns a DbgEng client on one dedicated thread. DbgEng requests are      *)
(* serialized"): a call is answered exactly once before it returns, even   *)
(* by a worker that has died; the engine closes when no call is            *)
(* outstanding, and no call starts after that.                             *)
(***************************************************************************)
CONSTANTS Callers

VARIABLES
  engine,    (* "open" or "closed"                                         *)
  state      (* of a caller's call: "idle", "called", "ok" or "error"      *)

vars == <<engine, state>>

Init ==
  /\ engine = "open"
  /\ state = [c \in Callers |-> "idle"]

Call(c) ==
  /\ engine = "open"
  /\ state[c] = "idle"
  /\ state' = [state EXCEPT ![c] = "called"]
  /\ UNCHANGED engine

(* One call runs, and answers; or a failure of the worker answers several. *)
Answer(c) ==
  /\ state[c] = "called"
  /\ \E a \in {"ok", "error"} : state' = [state EXCEPT ![c] = a]
  /\ UNCHANGED engine

Collapse ==
  /\ \E failed \in SUBSET {c \in Callers : state[c] = "called"} :
       state' = [c \in Callers |-> IF c \in failed THEN "error" ELSE state[c]]
  /\ UNCHANGED engine

Return(c) ==
  /\ state[c] \in {"ok", "error"}
  /\ state' = [state EXCEPT ![c] = "idle"]
  /\ UNCHANGED engine

Close ==
  /\ engine = "open"
  /\ \A c \in Callers : state[c] = "idle"
  /\ engine' = "closed"
  /\ UNCHANGED state

Next ==
  \/ Collapse
  \/ Close
  \/ \E c \in Callers : Call(c) \/ Answer(c) \/ Return(c)

Spec == Init /\ [][Next]_vars /\ \A c \in Callers : WF_vars(Answer(c) \/ Return(c))
=============================================================================
