--------------------------- MODULE ReplayRegistry ---------------------------
(***************************************************************************)
(* The session registry of the replay service (crates/windbg-ttd,          *)
(* ttd_replay/registry.rs): trace sessions, their replay cursors and the   *)
(* position the registry remembers for each cursor.  A session opened      *)
(* without the native bridge is a placeholder, whose cursors cannot        *)
(* replay.  Every operation runs under the service's one mutex, so each is *)
(* one step.  Calls that return an error and change nothing are left out:  *)
(* they are the stuttering steps of this specification.                    *)
(***************************************************************************)
EXTENDS Naturals, FiniteSets

CONSTANTS
  MaxSession,   (* bound on the session ids handed out                     *)
  MaxCursor,    (* bound on the cursor ids handed out in one session       *)
  MaxPosition   (* the last position of every trace                        *)

ASSUME RegistryAssumption ==
  /\ MaxSession \in Nat \ {0}
  /\ MaxCursor \in Nat \ {0}
  /\ MaxPosition \in Nat

VARIABLES
  nextSession,  (* next_session_id: the last id handed out                 *)
  live,         (* the ids of the sessions in the map                      *)
  native,       (* those of them that hold a native trace                  *)
  nextCursor,   (* next_cursor_id of each session                          *)
  cursors,      (* the cursors in the sessions' maps                       *)
  cached,       (* ReplayCursor.position, what session summaries report    *)
  replay,       (* where the native cursor is: GetPosition of the engine   *)
  leaked        (* cursors that still carry a watchpoint of a failed call  *)

registryVars ==
  <<nextSession, live, native, nextCursor, cursors, cached, replay, leaked>>

SessionIds == 1 .. MaxSession
CursorIds == 1 .. MaxCursor
Handles == SessionIds \X CursorIds
Positions == 0 .. MaxPosition
Directions == {"next", "previous"}

\* LifetimeStart is the position a placeholder's cursor starts at.
LifetimeStart == 0

RegistryInit ==
  /\ nextSession = 0
  /\ live = {}
  /\ native = {}
  /\ nextCursor = [s \in SessionIds |-> 0]
  /\ cursors = {}
  /\ cached = [h \in Handles |-> LifetimeStart]
  /\ replay = [h \in Handles |-> LifetimeStart]
  /\ leaked = {}

\* The lookups of step and memory_watchpoint succeed and find a native cursor.
Replayable(h) == h \in cursors /\ h[1] \in native

\* The engine only moves a cursor in the direction it replays.
Reaches(direction, from, to) ==
  IF direction = "next" THEN from <= to ELSE to <= from

\* Faulty: the registry forgets to remember where the engine ended.
LandUncached(h, p) ==
  /\ replay' = [replay EXCEPT ![h] = p]
  /\ UNCHANGED cached

\* An operation that succeeded stores the position it ended at.
Land(h, p) ==
  /\ replay' = [replay EXCEPT ![h] = p]
  /\ cached' = [cached EXCEPT ![h] = p]

\* Faulty: the new id is the number of open sessions plus one.
LoadTraceById(opened) ==
  /\ nextSession < MaxSession
  /\ nextSession' = nextSession + 1
  /\ live' = IF opened = "failed" THEN live
             ELSE live \cup {Cardinality(live) + 1}
  /\ native' = IF opened = "native" THEN native \cup {Cardinality(live) + 1}
               ELSE native
  /\ UNCHANGED <<nextCursor, cursors, cached, replay, leaked>>

(* ttd_load_trace.  The session id is taken before the trace is opened: a  *)
(* failed open keeps it.  Without an explicit trace index or companion     *)
(* file, a trace that cannot be opened becomes a placeholder session.      *)
LoadTrace(opened) ==
  /\ nextSession < MaxSession
  /\ nextSession' = nextSession + 1
  /\ live' = IF opened = "failed" THEN live ELSE live \cup {nextSession'}
  /\ native' = IF opened = "native" THEN native \cup {nextSession'} ELSE native
  /\ UNCHANGED <<nextCursor, cursors, cached, replay, leaked>>

(* ttd_close_trace: the session and all its cursors go.                    *)
CloseTrace(s) ==
  LET mine == {h \in Handles : h[1] = s}
      Forget(position) ==
        [h \in Handles |-> IF h \in mine THEN LifetimeStart ELSE position[h]]
  IN /\ s \in live
     /\ live' = live \ {s}
     /\ native' = native \ {s}
     /\ nextCursor' = [nextCursor EXCEPT ![s] = 0]
     /\ cursors' = cursors \ mine
     /\ leaked' = leaked \ mine
     /\ cached' = Forget(cached)
     /\ replay' = Forget(replay)
     /\ UNCHANGED nextSession

(* ttd_cursor_create.  The cursor id is taken before the native cursor is  *)
(* created, and kept when that fails.  A new native cursor may be anywhere.*)
CreateCursor(s) ==
  /\ s \in live
  /\ nextCursor[s] < MaxCursor
  /\ nextCursor' = [nextCursor EXCEPT ![s] = @ + 1]
  /\ LET h == <<s, nextCursor'[s]>>
     IN \/ /\ s \in native
           /\ cursors' = cursors \cup {h}
           /\ \E p \in Positions : Land(h, p)
        \/ /\ s \notin native
           /\ cursors' = cursors \cup {h}
           /\ UNCHANGED <<cached, replay>>
        \/ /\ s \in native
           /\ UNCHANGED <<cursors, cached, replay>>
  /\ UNCHANGED <<nextSession, live, native, leaked>>

(* ttd_position_set.  A native cursor is asked where it landed; the cursor *)
(* of a placeholder just remembers the request.                            *)
SetPosition(h, p) ==
  /\ h \in cursors
  /\ IF h[1] \in native
     THEN Land(h, p)
     ELSE /\ cached' = [cached EXCEPT ![h] = p]
          /\ UNCHANGED replay
  /\ UNCHANGED <<nextSession, live, native, nextCursor, cursors, leaked>>

(* ttd_step, and ttd_memory_watchpoint when the bridge call succeeds.      *)
Replay(h, direction, p) ==
  /\ Replayable(h)
  /\ Reaches(direction, replay[h], p)
  /\ Land(h, p)
  /\ UNCHANGED <<nextSession, live, native, nextCursor, cursors, leaked>>

(* ttd_memory_watchpoint when the bridge replays and then cannot remove    *)
(* the watchpoint: the call fails after the native cursor has moved, and   *)
(* the registry keeps the position it remembered.                          *)
ReplayLeaks(h, direction, p) ==
  /\ Replayable(h)
  /\ Reaches(direction, replay[h], p)
  /\ replay' = [replay EXCEPT ![h] = p]
  /\ leaked' = leaked \cup {h}
  /\ UNCHANGED <<nextSession, live, native, nextCursor, cursors, cached>>

-----------------------------------------------------------------------------

RegistryTypeOK ==
  /\ nextSession \in 0 .. MaxSession
  /\ live \subseteq SessionIds
  /\ native \subseteq live
  /\ nextCursor \in [SessionIds -> 0 .. MaxCursor]
  /\ cursors \subseteq Handles
  /\ cached \in [Handles -> Positions]
  /\ replay \in [Handles -> Positions]
  /\ leaked \subseteq Handles

(* Ids are handed out once: what is in the maps was allocated, and no      *)
(* cursor outlives its session (registry.rs, allocate_session_id,          *)
(* create_cursor, close_trace).                                            *)
IdsAllocated ==
  /\ \A s \in live : s <= nextSession
  /\ \A s \in SessionIds \ live : nextCursor[s] = 0
  /\ \A h \in cursors : h[1] \in live /\ h[2] <= nextCursor[h[1]]
  /\ leaked \subseteq cursors

(* The position the registry remembers for a native cursor is the one the  *)
(* engine reports, unless a memory_watchpoint call failed after it had     *)
(* replayed (registry.rs, set_position, step, memory_watchpoint).          *)
StaleOnlyAfterLeak ==
  \A h \in cursors :
    h[1] \in native /\ cached[h] # replay[h] => h \in leaked
=============================================================================
