------------------------ MODULE ClientCommands_proofs ------------------------
(***************************************************************************)
(* What holds of the commands for any number of sessions, cursors,         *)
(* positions and hits, beside any other clients and through a restart of   *)
(* the daemon; of a recording and of an installation of WinDbg; and of     *)
(* what the registry answers of a trace, whatever the engine does.         *)
(*                                                                         *)
(* None of the promises is inductive.  What a command says of its cursor   *)
(* rests on what it knows at each of its calls (Opening, Reading and       *)
(* Sweeping), and on the registry: ids are not handed out again.           *)
(***************************************************************************)
EXTENDS ClientCommands, TLAPS, FiniteSetTheorems

Sweep == "sweep_watch_memory"
Opens == {"open", "open_at"}

-----------------------------------------------------------------------------
(* The inductive invariant.                                                *)

\* A stale position is explained by a leak only as long as ids are not
\* reused and a cursor does not outlive its session.
RegistryInv == RegistryTypeOK /\ IdsAllocated /\ StaleOnlyAfterLeak

Hits == [found : BOOLEAN, position : Positions]

CommandTypes ==
  /\ command \in Commands \cup {"none"}
  /\ status \in {"none", "running", "ok", "error"}
  /\ status # "none" => command \in Commands
  /\ status = "running" => step \in DOMAIN Script[command]
  /\ at \in (SessionIds \cup {0}) \X (CursorIds \cup {0})
  /\ direction \in Directions
  /\ hits \in Seq(Hits)
  /\ gone \in BOOLEAN /\ disturbed \in BOOLEAN /\ restarted \in BOOLEAN

\* Between two commands nothing is left of the last one.
NothingLeft ==
  status = "none" => command = "none" /\ at = NoHandle /\ seen = {} /\ ~gone /\ ~disturbed /\ ~restarted

\* The id of a session that was closed is one of those handed out.
GoneFor ==
  gone /\ ~restarted => at[1] # 0 /\ at[1] \notin live /\ at[1] <= nextSession

\* What an open knows at each of its calls.
Opening ==
  command \in Opens =>
    /\ status = "running" /\ step = 1 => at[1] = 0
    /\ status = "running" /\ step \in {1, 2} => seen = {}
    /\ (status = "ok" \/ (status = "running" /\ step = 3)) /\ ~disturbed => at \in cursors

\* Only a snapshot starts from a position that is remembered.
Reading ==
  ~disturbed /\ (at \notin leaked \/ command # "context_snapshot") =>
    seen = {} \/ (at \in cursors /\ seen = {PositionOf(at)})

Distinct ==
  \A i, k \in DOMAIN hits : i # k => Sequence(hits[i].position) # Sequence(hits[k].position)
AllFound == \A i \in DOMAIN hits : hits[i].found
LastNotFound ==
  hits # <<>> /\ (\A i \in DOMAIN hits : hits[i].found <=> i # Len(hits))

\* The three ways a sweep ends well.
Stopped ==
  \/ stopReason = "not_found" /\ LastNotFound /\ Len(hits) <= MaxHits
  \/ stopReason = "duplicate_position" /\ AllFound /\ ~Distinct /\ Len(hits) <= MaxHits
  \/ stopReason = "max_hits" /\ AllFound /\ Distinct /\ Len(hits) = MaxHits

\* The hits are behind the cursor, in the order it passed them.
InOrder ==
  /\ \A i, k \in DOMAIN hits : i < k => Reaches(direction, hits[i].position, hits[k].position)
  /\ \A i \in DOMAIN hits : Reaches(direction, hits[i].position, replay[at])

Sweeping ==
  /\ command # Sweep => hits = <<>>
  /\ command = Sweep =>
       /\ at \in Handles /\ seen = {}
       /\ status = "running" => AllFound /\ Distinct /\ Len(hits) <= MaxHits
       /\ status = "running" /\ step = 1 => Len(hits) < MaxHits
       /\ status = "ok" => Stopped
       /\ ~disturbed /\ hits # <<>> => at \in cursors /\ InOrder

CommandInv == CommandTypes /\ NothingLeft /\ GoneFor /\ Opening /\ Reading /\ Sweeping

-----------------------------------------------------------------------------
(* The scripts.                                                            *)

Asks(tools) == [tool : tools, skips : Nat]

\* The tools of the commands that neither open nor replay.
ReadingTools ==
  {"trace_info", "capabilities", "position_get", "active_threads", "stack_info", "compact_registers",
   "full_registers", "read_memory", "address_info", "command_line", "module_events", "thread_events",
   "list_exceptions", "list_keyframes", "list_modules", "position_set", "stack_read"}
OpeningTools == {"load_trace", "cursor_create"}
ReplayingTools == {"memory_watchpoint", "step"}

(* The commands with one answer that is no snapshot only read and seek.    *)
LEMMA OtherScripts ==
  ASSUME NEW name \in Commands \ (Opens \cup {Sweep, "context_snapshot"})
  PROVE  Script[name] \in Seq(Asks(ReadingTools))
<1> USE DEF Must, Note, Unless, Abort, Asks, ReadingTools
<1>1. Script["debug_capabilities"] \in Seq(Asks(ReadingTools))
  BY DEF Script, ArchitectureState
<1>2. Script["symbols_diagnose"] \in Seq(Asks(ReadingTools))
  BY DEF Script
<1>3. Script["replay_to"] \in Seq(Asks(ReadingTools))
  BY DEF Script
<1>4. Script["exception_focus"] \in Seq(Asks(ReadingTools))
  BY DEF Script
<1>5. Script["stack_backtrace"] \in Seq(Asks(ReadingTools))
  BY DEF Script
<1>6. Script["object_vtable"] \in Seq(Asks(ReadingTools))
  BY DEF Script
<1>7. name \in {"debug_capabilities", "symbols_diagnose", "replay_to", "exception_focus", "stack_backtrace",
                "object_vtable"}
  BY DEF Commands, Script, Opens, Sweep
<1> QED
  BY <1>1, <1>2, <1>3, <1>4, <1>5, <1>6, <1>7

(* A snapshot asks for the sessions first and then only reads.             *)
LEMMA SnapshotScript ==
  Script["context_snapshot"] \in Seq(Asks({"sessions"} \cup ReadingTools))
<1> USE DEF Must, Note, Unless, Abort, Asks, ReadingTools
<1> DEFINE Snapshot == Asks({"sessions"} \cup ReadingTools)
<1>1. /\ ArchitectureState \in Seq(Snapshot)
      /\ CurrentCode \in Seq(Snapshot)
      /\ TimelineCalls \in Seq(Snapshot)
      /\ <<Note("command_line")>> \in Seq(Snapshot)
  BY DEF ArchitectureState, CurrentCode, TimelineCalls
<1>2. <<Must("sessions"), Note("trace_info"), Note("capabilities"), Note("position_get"),
         Note("active_threads"), Note("stack_info")>> \in Seq(Snapshot)
  OBVIOUS
<1>3. Script["context_snapshot"] =
          <<Must("sessions"), Note("trace_info"), Note("capabilities"), Note("position_get"),
            Note("active_threads"), Note("stack_info")>>
          \o ArchitectureState \o CurrentCode \o <<Note("command_line")>> \o TimelineCalls
  BY DEF Script
<1> HIDE DEF Snapshot, Must, Note, Unless
<1>4. Script["context_snapshot"] \in Seq(Snapshot)
  BY <1>1, <1>2, <1>3
<1> QED
  BY <1>4 DEF Snapshot

(* Which command a call belongs to.                                        *)
LEMMA WhoCalls ==
  ASSUME CommandTypes, status = "running"
  PROVE  /\ step \in Nat
         /\ Tool = "sessions" => command = "context_snapshot"
         /\ Tool = "load_trace" => command \in Opens /\ step = 1
         /\ Tool = "cursor_create" => command \in Opens /\ step = 2
         /\ Tool = "memory_watchpoint" => command = Sweep /\ step = 1
         /\ Tool = "step" => command = Sweep /\ step = 2
         /\ command = Sweep => Tool \in ReplayingTools
         /\ command \in Opens =>
              /\ step = 1 => Tool = "load_trace"
              /\ step = 2 => Tool = "cursor_create"
              /\ step \in {1, 2, 3}
              /\ step = 3 => Tool = "position_set"
         /\ command \in Opens \cup {Sweep} => Script[command][step].skips = Abort
<1>1. command \in Commands /\ step \in DOMAIN Script[command]
  BY DEF CommandTypes
<1>2. CASE command \in Opens
  BY <1>1, <1>2 DEF Opens, Sweep, Tool, Script, Must, Abort
<1>3. CASE command = Sweep
  BY <1>1, <1>3 DEF Opens, Sweep, Tool, Script, Must, Abort, ReplayingTools
<1>4. CASE command = "context_snapshot"
  <2>1. Script[command][step] \in Asks({"sessions"} \cup ReadingTools) /\ step \in Nat
    BY <1>1, <1>4, SnapshotScript
  <2> QED
    BY <1>4, <2>1 DEF Opens, Sweep, Tool, Asks, ReadingTools
<1>5. CASE command \notin Opens \cup {Sweep, "context_snapshot"}
  <2>1. Script[command][step] \in Asks(ReadingTools) /\ step \in Nat
    BY <1>1, <1>5, OtherScripts
  <2> QED
    BY <1>5, <2>1 DEF Tool, Asks, ReadingTools
<1> QED
  BY <1>2, <1>3, <1>4, <1>5

-----------------------------------------------------------------------------
(* The registry under the commands.                                        *)

\* Whatever a call of any client does to the registry.
Operation ==
  \/ UNCHANGED registryVars
  \/ \E opened \in {"native", "placeholder", "failed"} : LoadTrace(opened)
  \/ \E s \in SessionIds : CloseTrace(s) \/ CreateCursor(s)
  \/ \E h \in Handles : \E p \in Positions :
       \/ SetPosition(h, p)
       \/ \E towards \in Directions : Replay(h, towards, p) \/ ReplayLeaks(h, towards, p)

(* A new registry, of the first daemon or of the next one, is empty.       *)
LEMMA RegistryStarts == RegistryInit => RegistryInv
  BY RegistryAssumption
  DEF RegistryInit, RegistryInv, RegistryTypeOK, IdsAllocated,
      StaleOnlyAfterLeak, Positions, LifetimeStart, SessionIds, Handles

(* What an operation does to sessions and cursors: ids grow, and what was  *)
(* there is there as it was, or gone.                                      *)
LEMMA IdsGrow ==
  ASSUME RegistryInv, Operation
  PROVE  /\ nextSession \in Nat /\ nextSession' \in Nat /\ nextSession <= nextSession'
         /\ live \subseteq SessionIds
         /\ live' \subseteq live \cup (SessionIds \cap {nextSession + 1})
         /\ \A s \in live \cap live' : s \in native' <=> s \in native
         /\ leaked \cap cursors' \subseteq leaked'
<1> USE RegistryAssumption DEF RegistryInv, RegistryTypeOK, SessionIds
<1>1. CASE UNCHANGED registryVars
  BY <1>1 DEF registryVars
<1>2. CASE \E opened \in {"native", "placeholder", "failed"} : LoadTrace(opened)
  BY <1>2 DEF LoadTrace, IdsAllocated
<1>3. CASE \E s \in SessionIds : CloseTrace(s)
  BY <1>3 DEF CloseTrace
<1>4. CASE \E s \in SessionIds : CreateCursor(s)
  BY <1>4 DEF CreateCursor
<1>5. CASE \E h \in Handles : \E p \in Positions :
             SetPosition(h, p) \/ \E towards \in Directions : Replay(h, towards, p) \/ ReplayLeaks(h, towards, p)
  BY <1>5 DEF SetPosition, Replay, ReplayLeaks
<1> QED
  BY <1>1, <1>2, <1>3, <1>4, <1>5 DEF Operation

(* Every operation keeps the invariant of the registry.                    *)
LEMMA RegistryKeeps ==
  ASSUME RegistryInv, Operation
  PROVE  RegistryInv'
<1>1. CASE UNCHANGED registryVars
  BY <1>1 DEF registryVars, RegistryInv, RegistryTypeOK, IdsAllocated, StaleOnlyAfterLeak
<1>2. ASSUME NEW opened \in {"native", "placeholder", "failed"}, LoadTrace(opened)
      PROVE  RegistryInv'
  <2>1. nextSession' \in SessionIds /\ nextSession' \notin live
    BY <1>2, RegistryAssumption DEF RegistryInv, RegistryTypeOK, IdsAllocated, LoadTrace, SessionIds
  <2>2. RegistryTypeOK' /\ IdsAllocated'
    BY <1>2, <2>1, RegistryAssumption
    DEF RegistryInv, RegistryTypeOK, IdsAllocated, LoadTrace, SessionIds, Handles
  <2>3. StaleOnlyAfterLeak'
    BY <1>2, <2>1 DEF RegistryInv, RegistryTypeOK, IdsAllocated, StaleOnlyAfterLeak, LoadTrace
  <2> QED
    BY <2>2, <2>3 DEF RegistryInv
<1>3. ASSUME NEW s \in SessionIds, CloseTrace(s)
      PROVE  RegistryInv'
  <2>1. RegistryTypeOK'
    BY <1>3, RegistryAssumption DEF RegistryInv, RegistryTypeOK, CloseTrace, Positions, LifetimeStart
  <2>2. IdsAllocated' /\ StaleOnlyAfterLeak'
    BY <1>3 DEF RegistryInv, RegistryTypeOK, IdsAllocated, StaleOnlyAfterLeak, CloseTrace, Handles
  <2> QED
    BY <2>1, <2>2 DEF RegistryInv
<1>4. ASSUME NEW s \in SessionIds, CreateCursor(s)
      PROVE  RegistryInv'
  <2> DEFINE h == <<s, nextCursor'[s]>>
  <2>1. /\ nextCursor'[s] = nextCursor[s] + 1
        /\ h \in Handles /\ h \notin cursors
        /\ nextCursor' \in [SessionIds -> 0 .. MaxCursor]
        /\ \A t \in SessionIds \ {s} : nextCursor'[t] = nextCursor[t]
    BY <1>4, RegistryAssumption
    DEF RegistryInv, RegistryTypeOK, IdsAllocated, CreateCursor, Handles, SessionIds, CursorIds
  <2>2. cursors' \subseteq cursors \cup {h}
    BY <1>4 DEF CreateCursor
  <2>3. RegistryTypeOK'
    BY <1>4, <2>1, <2>2 DEF RegistryInv, RegistryTypeOK, CreateCursor, Land
  <2>4. IdsAllocated'
    BY <1>4, <2>1, <2>2
    DEF RegistryInv, RegistryTypeOK, IdsAllocated, CreateCursor, Handles, SessionIds, CursorIds
  <2>5. \A g \in cursors \cup {h} :
          g \in Handles /\ (g # h => cached'[g] = cached[g] /\ replay'[g] = replay[g])
    BY <1>4, <2>1 DEF RegistryInv, RegistryTypeOK, CreateCursor, Land
  <2>6. h \in cursors' /\ h[1] \in native => cached'[h] = replay'[h]
    BY <1>4, <2>1 DEF RegistryInv, RegistryTypeOK, CreateCursor, Land
  <2>7. StaleOnlyAfterLeak'
    BY <1>4, <2>2, <2>5, <2>6 DEF RegistryInv, StaleOnlyAfterLeak, CreateCursor
  <2> QED
    BY <2>3, <2>4, <2>7 DEF RegistryInv
<1>5. ASSUME NEW h \in Handles, NEW p \in Positions, NEW towards,
             SetPosition(h, p) \/ Replay(h, towards, p) \/ ReplayLeaks(h, towards, p)
      PROVE  RegistryInv'
  <2>1. RegistryTypeOK' /\ IdsAllocated'
    BY <1>5
    DEF RegistryInv, RegistryTypeOK, IdsAllocated, SetPosition, Replay, Replayable, ReplayLeaks, Land
  <2>2. StaleOnlyAfterLeak'
    BY <1>5
    DEF RegistryInv, RegistryTypeOK, StaleOnlyAfterLeak, SetPosition, Replay, ReplayLeaks, Land
  <2> QED
    BY <2>1, <2>2 DEF RegistryInv
<1> QED
  BY <1>1, <1>2, <1>3, <1>4, <1>5 DEF Operation

-----------------------------------------------------------------------------
(* The commands.                                                           *)

(* A set of numbers that is not empty has a least one.                     *)
LEMMA LeastExists ==
  ASSUME NEW S, S \subseteq Nat, S # {}
  PROVE  \E k \in S : \A l \in S : k <= l
<1>1. PICK k \in S : \A l \in S : <<l, k>> \notin OpToRel(<, Nat)
  BY WFMin, NatLessThanWellFounded
<1>2. \A l \in S : ~(l < k)
  BY <1>1 DEF OpToRel
<1> QED
  BY <1>2

(* The first session, or the first cursor, is one of them or none.         *)
LEMMA LowestIsOne ==
  ASSUME NEW S, S \subseteq Nat
  PROVE  Lowest(S) \in S \cup {0}
  BY LeastExists DEF Lowest

(* The next call is a later one of the same script.                        *)
LEMMA GoOnGoes ==
  ASSUME NEW n, NEW handle, CommandTypes, status = "running", GoOn(n, handle)
  PROVE  \/ status' = "ok" /\ step' = step /\ Callable(n, handle) = {}
         \/ status' = "running" /\ step' \in DOMAIN Script[command] /\ step' > n
<1>1. command \in Commands
  BY DEF CommandTypes
<1>2. DOMAIN Script[command] \subseteq Nat
  <2>1. CASE command = "open" \/ command = "open_at"
    <3>1. command = "open" => DOMAIN Script[command] \subseteq Nat
      BY DEF Script
    <3>2. command = "open_at" => DOMAIN Script[command] \subseteq Nat
      BY DEF Script
    <3> QED
      BY <2>1, <3>1, <3>2
  <2>2. CASE command = Sweep
    BY <2>2 DEF Script, Sweep
  <2>3. CASE command = "context_snapshot"
    BY <2>3, SnapshotScript
  <2>4. CASE command \notin Opens \cup {Sweep, "context_snapshot"}
    BY <1>1, <2>4, OtherScripts
  <2> QED
    BY <2>1, <2>2, <2>3, <2>4 DEF Opens
<1>3. Callable(n, handle) \subseteq Nat /\ Callable(n, handle) \subseteq DOMAIN Script[command]
  BY <1>2 DEF Callable
<1>4. CASE Callable(n, handle) = {}
  BY <1>4 DEF GoOn
<1>5. CASE Callable(n, handle) # {}
  <2>1. step' = CHOOSE k \in Callable(n, handle) : \A l \in Callable(n, handle) : k <= l
    BY <1>5 DEF GoOn
  <2>2. step' \in Callable(n, handle)
    BY <1>3, <1>5, <2>1, LeastExists
  <2> QED
    BY <1>3, <1>5, <2>2 DEF GoOn, Callable
<1> QED
  BY <1>4, <1>5

(* What is said of the hits stays, as long as they do.                     *)
LEMMA SameHits ==
  ASSUME hits' = hits
  PROVE  /\ Distinct' = Distinct /\ AllFound' = AllFound /\ LastNotFound' = LastNotFound
         /\ stopReason' = stopReason => Stopped' = Stopped
         /\ direction' = direction /\ at' = at /\ replay'[at] = replay[at] => InOrder' = InOrder
  BY DEF Distinct, AllFound, LastNotFound, Stopped, InOrder

(* The command begins with nothing left of the last one.                   *)
LEMMA BeginKeeps ==
  ASSUME RegistryInv, CommandInv, NEW name \in Commands, NEW handle,
         NEW towards \in Directions, NEW threadId, Begin(name, handle, towards, threadId)
  PROVE  CommandInv'
<1>1. /\ seen = {} /\ hits = <<>> /\ ~gone /\ ~disturbed /\ ~restarted
      /\ status' = "running" /\ step' = 1 /\ command' = name /\ at' = handle /\ direction' = towards
      /\ UNCHANGED <<seen, hits, stopReason, disturbed, restarted, registryVars>>
  BY DEF CommandInv, NothingLeft, Sweeping, Begin, Idle, Sweep
<1>2. /\ handle \in (SessionIds \cup {0}) \X (CursorIds \cup {0})
      /\ handle[1] <= nextSession \/ handle[1] = 0
      /\ name \in Opens => handle[1] = 0
      /\ name = Sweep => handle \in Handles
  <2>1. handle \in Subjects(name)
    BY DEF Begin
  <2>2. Subjects(name) \subseteq {NoHandle} \cup Told \cup HandedOut
    BY DEF Subjects
  <2>3. name = Sweep => Subjects(name) = HandedOut
    BY DEF Subjects, Sweep
  <2>4. name \in Opens => Subjects(name) = {NoHandle}
    BY DEF Subjects, Opens
  <2> QED
    BY <2>1, <2>2, <2>3, <2>4 DEF NoHandle, Told, HandedOut, Handles
<1>3. 1 \in DOMAIN Script[name]
  <2>1. \A other \in {"open", "open_at", "symbols_diagnose", "replay_to", "exception_focus",
                      "sweep_watch_memory", "stack_backtrace", "object_vtable"} :
          1 \in DOMAIN Script[other]
    BY DEF Script
  <2>2. 1 \in DOMAIN Script["context_snapshot"]
    BY DEF Script, ArchitectureState, CurrentCode, TimelineCalls
  <2>3. 1 \in DOMAIN Script["debug_capabilities"]
    BY DEF Script, ArchitectureState
  <2> QED
    BY <2>1, <2>2, <2>3 DEF Commands, Script
<1>4. gone' = (handle[1] \notin live \cup {0})
  BY DEF Begin
<1>5. CommandTypes'
  BY <1>1, <1>2, <1>3, <1>4 DEF CommandInv, CommandTypes
<1>6. GoneFor'
  BY <1>1, <1>2, <1>4 DEF GoneFor, registryVars
<1>7. Opening'
  BY <1>1, <1>2 DEF Opening
<1>8. Reading' /\ NothingLeft'
  BY <1>1 DEF Reading, NothingLeft
<1>9. AllFound /\ Distinct /\ Len(hits) = 0
  BY <1>1 DEF AllFound, Distinct
<1>10. Sweeping'
  BY <1>1, <1>2, <1>9, SameHits, CommandAssumption DEF Sweeping
<1> QED
  BY <1>5, <1>6, <1>7, <1>8, <1>10 DEF CommandInv

(* Nothing is left of a command that has returned.                         *)
LEMMA ReturnKeeps ==
  ASSUME CommandInv, Return
  PROVE  CommandInv'
<1>1. CommandTypes'
  <2>1. hits' \in Seq(Hits) /\ at' \in (SessionIds \cup {0}) \X (CursorIds \cup {0})
    BY DEF Return, NoHandle
  <2> QED
    BY <2>1 DEF CommandTypes, Return, Directions
<1>2. NothingLeft' /\ GoneFor' /\ Opening' /\ Reading'
  BY DEF NothingLeft, GoneFor, Opening, Reading, Return, Opens
<1>3. Sweeping'
  BY DEF Sweeping, Return, Sweep
<1> QED
  BY <1>1, <1>2, <1>3 DEF CommandInv

(* What every call keeps, whatever it is.                                  *)
LEMMA CallKeepsTypes ==
  ASSUME CommandTypes, status = "running", Unmoved,
         \/ status' \in {"ok", "error"}
         \/ status' = "running" /\ step' \in DOMAIN Script[command],
         at' \in (SessionIds \cup {0}) \X (CursorIds \cup {0}), hits' \in Seq(Hits)
  PROVE  CommandTypes' /\ NothingLeft'
  BY DEF CommandTypes, NothingLeft, Unmoved

(* A call that fails ends an open and a sweep, and shows nothing.          *)
LEMMA FailKeeps ==
  ASSUME CommandInv, Fail
  PROVE  CommandInv'
<1> USE DEF CommandInv
<1>1. /\ status = "running" /\ CommandTypes
      /\ UNCHANGED <<registryVars, at, seen, hits, stopReason, command, direction, gone, disturbed, restarted>>
      /\ Unmoved
  BY DEF Fail, Unmoved, KeepsHits
<1>2. /\ \/ status' = "error"
         \/ status' = "ok"
         \/ status' = "running" /\ step' \in DOMAIN Script[command]
      /\ Script[command][step].skips = Abort => status' = "error"
  BY <1>1, GoOnGoes DEF Fail
<1>3. command \in Opens \cup {Sweep} => status' = "error"
  BY <1>1, <1>2, WhoCalls
<1>4. CommandTypes' /\ NothingLeft'
  BY <1>1, <1>2, CallKeepsTypes DEF CommandTypes
<1>5. GoneFor' /\ Reading'
  BY <1>1 DEF GoneFor, Reading, PositionOf, registryVars
<1>6. Opening'
  BY <1>1, <1>3 DEF Opening
<1>7. Sweeping'
  BY <1>1, <1>3, SameHits DEF Sweeping, registryVars
<1> QED
  BY <1>4, <1>5, <1>6, <1>7

(* A query shows the cursor where it is.                                   *)
LEMMA QueryKeeps ==
  ASSUME CommandInv, Query
  PROVE  CommandInv'
<1> USE DEF CommandInv
<1>1. /\ status = "running" /\ CommandTypes
      /\ UNCHANGED <<registryVars, at, hits, stopReason, command, direction, gone, disturbed, restarted>>
      /\ Unmoved
  BY DEF Query, Calls, Unmoved, KeepsHits
<1>2. status' = "ok" \/ (status' = "running" /\ step' \in DOMAIN Script[command])
  BY <1>1, GoOnGoes DEF Query
<1>3. command \notin Opens \cup {Sweep} /\ Tool # "cursor_create"
  <2>1. Tool \notin Changing
    BY DEF Query, Calls
  <2> QED
    BY <1>1, <2>1, WhoCalls DEF Changing, ReplayingTools
<1>4. CommandTypes' /\ NothingLeft'
  BY <1>1, <1>2, CallKeepsTypes DEF CommandTypes
<1>5. GoneFor'
  BY <1>1 DEF GoneFor, registryVars
<1>6. Reading'
  <2>1. seen' = seen \/ (at \in cursors /\ seen' = seen \cup {PositionOf(at)})
    BY <1>3 DEF Query, Serves
  <2>2. PositionOf(at)' = PositionOf(at) /\ cursors' = cursors /\ leaked' = leaked
    BY <1>1 DEF PositionOf, registryVars
  <2> QED
    BY <1>1, <2>1, <2>2 DEF Reading
<1>7. Opening' /\ Sweeping'
  BY <1>1, <1>3 DEF Opening, Sweeping
<1> QED
  BY <1>4, <1>5, <1>6, <1>7

(* The sessions: a position that is remembered is the engine's, unless the *)
(* cursor was left behind by a call that failed.                           *)
LEMMA SelectHandlesKeeps ==
  ASSUME RegistryInv, CommandInv, SelectHandles
  PROVE  CommandInv'
<1> USE DEF CommandInv
<1> DEFINE session == IF at[1] # 0 THEN at[1] ELSE Lowest(live)
           cursor == IF at[2] # 0 THEN at[2] ELSE Lowest({c \in CursorIds : <<session, c>> \in cursors})
           chosen == <<session, cursor>>
<1>1. /\ status = "running" /\ CommandTypes /\ Tool = "sessions"
      /\ UNCHANGED <<registryVars, hits, stopReason, command, direction, gone, disturbed, restarted>>
      /\ Unmoved
  BY DEF SelectHandles, Calls, Unmoved, KeepsHits
<1>2. /\ at' = chosen
      /\ seen' = IF chosen \in cursors THEN {cached[chosen]} ELSE {}
      /\ GoOn(step, chosen)
  BY DEF SelectHandles
<1>3. status' = "ok" \/ (status' = "running" /\ step' \in DOMAIN Script[command])
  BY <1>1, <1>2, GoOnGoes
<1>4. command = "context_snapshot"
  BY <1>1, WhoCalls
<1>5. session \in SessionIds \cup {0} /\ cursor \in CursorIds \cup {0}
  <2>1. live \subseteq SessionIds /\ SessionIds \subseteq Nat /\ CursorIds \subseteq Nat
    BY DEF RegistryInv, RegistryTypeOK, SessionIds, CursorIds
  <2>2. Lowest(live) \in SessionIds \cup {0}
    BY <2>1, LowestIsOne
  <2>3. Lowest({c \in CursorIds : <<session, c>> \in cursors}) \in CursorIds \cup {0}
    <3> HIDE DEF session
    <3> QED
      BY <2>1, LowestIsOne
  <2> QED
    BY <2>2, <2>3 DEF CommandTypes
<1> HIDE DEF session, cursor
<1>6. CommandTypes' /\ NothingLeft'
  BY <1>1, <1>2, <1>3, <1>5, CallKeepsTypes DEF CommandTypes
<1>7. GoneFor'
  BY <1>1, <1>2 DEF GoneFor, registryVars, session
<1>8. Reading'
  <2>1. CASE chosen \in cursors /\ chosen \notin leaked
    <3>1. cached[chosen] = PositionOf(chosen)
      BY <2>1 DEF RegistryInv, StaleOnlyAfterLeak, PositionOf
    <3> QED
      BY <1>1, <1>2, <2>1, <3>1 DEF Reading, registryVars, PositionOf
  <2>2. CASE chosen \notin cursors \/ chosen \in leaked
    BY <1>1, <1>2, <1>4, <2>2 DEF Reading, registryVars
  <2> QED
    BY <2>1, <2>2
<1>9. Opening' /\ Sweeping'
  BY <1>1, <1>4 DEF Opening, Sweeping, Opens, Sweep
<1> QED
  BY <1>6, <1>7, <1>8, <1>9

(* An open names the session that was loaded.                              *)
LEMMA OpenTraceKeeps ==
  ASSUME RegistryInv, CommandInv, NEW opened \in {"native", "placeholder", "failed"}, OpenTrace(opened)
  PROVE  CommandInv'
<1> USE DEF CommandInv
<1>1. /\ status = "running" /\ CommandTypes /\ Tool = "load_trace"
      /\ UNCHANGED <<seen, hits, stopReason, command, direction, gone, disturbed, restarted>>
      /\ Unmoved
  BY DEF OpenTrace, Calls, Unmoved, KeepsHits
<1>2. command \in Opens /\ step = 1 /\ command # Sweep
  BY <1>1, WhoCalls DEF Opens, Sweep
<1>3. seen = {} /\ at[1] = 0 /\ (gone => restarted)
  BY <1>1, <1>2 DEF Opening, GoneFor
<1>4. \/ status' = "error" /\ at' = at
      \/ status' = "running" /\ step' = 2 /\ at' = <<nextSession', 0>> /\ nextSession' \in SessionIds
  <2>1. nextSession' \in SessionIds
    BY RegistryAssumption DEF OpenTrace, LoadTrace, RegistryInv, RegistryTypeOK, SessionIds
  <2>2. CASE opened = "failed"
    BY <2>2 DEF OpenTrace
  <2>3. CASE opened # "failed"
    BY <1>1, <1>2, <2>1, <2>3 DEF OpenTrace
  <2> QED
    BY <2>2, <2>3
<1>5. 2 \in DOMAIN Script[command]
  <2>1. 2 \in DOMAIN Script["open"]
    BY DEF Script
  <2>2. 2 \in DOMAIN Script["open_at"]
    BY DEF Script
  <2> QED
    BY <1>2, <2>1, <2>2 DEF Opens
<1>6. at' \in (SessionIds \cup {0}) \X (CursorIds \cup {0})
  BY <1>4 DEF CommandTypes
<1>7. CommandTypes' /\ NothingLeft'
  BY <1>1, <1>4, <1>5, <1>6, CallKeepsTypes DEF CommandTypes
<1>8. GoneFor' /\ Reading' /\ Opening' /\ Sweeping'
  BY <1>1, <1>2, <1>3, <1>4 DEF GoneFor, Reading, Opening, Sweeping
<1> QED
  BY <1>7, <1>8

(* ... and the cursor that was created, unless creating it failed.         *)
LEMMA OpenCursorKeeps ==
  ASSUME RegistryInv, RegistryInv', CommandInv, OpenCursor
  PROVE  CommandInv'
<1> USE DEF CommandInv
<1>1. /\ status = "running" /\ CommandTypes /\ Tool = "cursor_create"
      /\ UNCHANGED <<seen, hits, stopReason, command, direction, gone, disturbed, restarted>>
      /\ Unmoved
  BY DEF OpenCursor, Calls, Unmoved, KeepsHits
<1>2. command \in Opens /\ step = 2 /\ command # Sweep
  BY <1>1, WhoCalls DEF Opens, Sweep
<1>3. seen = {} /\ at[1] \in live /\ (gone => restarted)
  BY <1>1, <1>2 DEF Opening, GoneFor, OpenCursor, Serves
<1>4. CASE Created
  <2>1. /\ at' = <<at[1], nextCursor'[at[1]]>>
        /\ GoOn(step, at')
        /\ CreateCursor(at[1])
    BY <1>4 DEF OpenCursor
  <2>2. at' \in cursors'
    BY <1>4, <2>1 DEF CreateCursor, Created
  <2>3. at' \in Handles
    BY <2>2 DEF RegistryInv, RegistryTypeOK
  <2>4. status' = "ok" \/ (status' = "running" /\ step' \in DOMAIN Script[command] /\ step' > 2)
    BY <1>1, <1>2, <2>1, GoOnGoes
  <2>5. status' = "running" => step' \notin {1, 2}
    BY <2>4
  <2>6. CommandTypes' /\ NothingLeft'
    BY <1>1, <2>3, <2>4, CallKeepsTypes DEF CommandTypes, Handles
  <2> QED
    BY <1>1, <1>2, <1>3, <2>2, <2>5, <2>6 DEF GoneFor, Reading, Opening, Sweeping
<1>5. CASE ~Created
  <2>1. status' = "error" /\ at' = at
    BY <1>5 DEF OpenCursor
  <2>2. CommandTypes' /\ NothingLeft'
    BY <1>1, <2>1, CallKeepsTypes DEF CommandTypes
  <2> QED
    BY <1>1, <1>2, <1>3, <2>1, <2>2 DEF GoneFor, Reading, Opening, Sweeping
<1> QED
  BY <1>4, <1>5

(* A cursor that was told to go to a position is there.                    *)
LEMMA SeekKeeps ==
  ASSUME RegistryInv, CommandInv, NEW p \in Positions, Seek(p)
  PROVE  CommandInv'
<1> USE DEF CommandInv
<1>1. /\ status = "running" /\ CommandTypes /\ Tool = "position_set"
      /\ UNCHANGED <<at, hits, stopReason, command, direction, gone, disturbed, restarted>>
      /\ Unmoved /\ seen' = {p}
  BY DEF Seek, Calls, Unmoved, KeepsHits
<1>2. command # Sweep /\ (command \in Opens => step = 3)
  BY <1>1, WhoCalls DEF ReplayingTools
<1>3. status' = "ok" \/ (status' = "running" /\ step' \in DOMAIN Script[command] /\ step' > step)
  BY <1>1, GoOnGoes DEF Seek
<1>4. at \in cursors /\ at \in Handles /\ UNCHANGED <<nextSession, live, native, cursors, leaked>>
  BY DEF Seek, SetPosition, RegistryInv, RegistryTypeOK
<1>5. PositionOf(at)' = p
  BY <1>1, <1>4 DEF Seek, SetPosition, Land, PositionOf, RegistryInv, RegistryTypeOK
<1>6. CommandTypes' /\ NothingLeft'
  BY <1>1, <1>3, CallKeepsTypes DEF CommandTypes
<1>7. GoneFor' /\ Reading'
  BY <1>1, <1>4, <1>5 DEF GoneFor, Reading
<1>8. Opening'
  <2>1. command \in Opens /\ status' = "running" => step' \notin {1, 2}
    BY <1>2, <1>3
  <2> QED
    BY <1>1, <1>4, <2>1 DEF Opening
<1>9. Sweeping'
  BY <1>1, <1>2 DEF Sweeping
<1> QED
  BY <1>6, <1>7, <1>8, <1>9

(* Passing on in one direction keeps the order.                            *)
LEMMA ReachesOn ==
  ASSUME NEW towards, NEW a \in Positions, NEW b \in Positions, NEW c \in Positions,
         Reaches(towards, a, b), Reaches(towards, b, c)
  PROVE  Reaches(towards, a, c)
  BY DEF Reaches, Positions

\* The cursor has replayed to p.
Replayed(p) ==
  /\ at \in cursors /\ at' = at
  /\ Reaches(direction, replay[at], p)
  /\ replay'[at] = p /\ cursors' = cursors

(* The hits stay behind the cursor when it replays.                        *)
LEMMA ReplayKeepsOrder ==
  ASSUME RegistryInv, CommandTypes, NEW p \in Positions, Replayed(p), InOrder,
         hits' = hits, direction' = direction
  PROVE  InOrder'
<1>1. replay[at] \in Positions
  BY DEF Replayed, RegistryInv, RegistryTypeOK
<1>2. \A i \in DOMAIN hits : hits[i].position \in Positions
  <2>1. \A i \in DOMAIN hits : hits[i] \in Hits
    BY DEF CommandTypes
  <2> QED
    BY <2>1 DEF Hits
<1>3. \A i \in DOMAIN hits : Reaches(direction, hits[i].position, p)
  BY <1>1, <1>2, ReachesOn DEF Replayed, InOrder
<1> QED
  BY <1>3 DEF InOrder, Replayed

(* A watchpoint that cannot be removed ends the sweep; the cursor has      *)
(* replayed, and the hits stay behind it.                                  *)
LEMMA WatchLeaksKeeps ==
  ASSUME RegistryInv, CommandInv, NEW p \in Positions, WatchLeaks(p)
  PROVE  CommandInv'
<1> USE DEF CommandInv
<1>1. /\ status = "running" /\ CommandTypes /\ Tool = "memory_watchpoint"
      /\ UNCHANGED <<at, seen, hits, stopReason, command, direction, gone, disturbed, restarted>>
      /\ Unmoved /\ status' = "error"
  BY DEF WatchLeaks, Calls, Unmoved, KeepsHits
<1>2. command = Sweep /\ seen = {} /\ command \notin Opens
  BY <1>1, WhoCalls DEF Sweeping, Sweep, Opens
<1>3. Replayed(p) /\ UNCHANGED <<nextSession, live>>
  BY <1>1 DEF WatchLeaks, ReplayLeaks, Replayable, Replayed, RegistryInv, RegistryTypeOK
<1>4. CommandTypes' /\ NothingLeft'
  BY <1>1, CallKeepsTypes DEF CommandTypes
<1>5. GoneFor' /\ Reading' /\ Opening'
  BY <1>1, <1>2, <1>3 DEF GoneFor, Reading, Opening
<1>6. InOrder => InOrder'
  BY <1>1, <1>3, ReplayKeepsOrder
<1>7. Sweeping'
  BY <1>1, <1>2, <1>3, <1>6 DEF Sweeping, Replayed
<1> QED
  BY <1>4, <1>5, <1>7

(* A step takes the cursor on from a hit, or the sweep has all it may.     *)
LEMMA StepKeeps ==
  ASSUME RegistryInv, CommandInv, NEW p \in Positions, Step(p)
  PROVE  CommandInv'
<1> USE DEF CommandInv
<1>1. /\ status = "running" /\ CommandTypes /\ Tool = "step"
      /\ UNCHANGED <<at, seen, hits, command, direction, gone, disturbed, restarted>>
      /\ Unmoved
  BY DEF Step, Calls, Unmoved
<1>2. command = Sweep /\ seen = {} /\ command \notin Opens
  BY <1>1, WhoCalls DEF Sweeping, Sweep, Opens
<1>3. Replayed(p) /\ UNCHANGED <<nextSession, live>>
  BY <1>1 DEF Step, StepTowards, Replay, Replayable, Land, Replayed, RegistryInv, RegistryTypeOK
<1>4. InOrder => InOrder'
  BY <1>1, <1>3, ReplayKeepsOrder
<1>5. 1 \in DOMAIN Script[command] /\ Len(hits) \in Nat
  BY <1>1, <1>2 DEF Script, Sweep, CommandTypes
<1>6. AllFound /\ Distinct /\ Len(hits) <= MaxHits
  BY <1>1, <1>2 DEF Sweeping
<1>7. CASE Len(hits) < MaxHits
  <2>1. status' = "running" /\ step' = 1
    BY <1>1, <1>7 DEF Step
  <2>2. CommandTypes' /\ NothingLeft'
    BY <1>1, <1>5, <2>1, CallKeepsTypes DEF CommandTypes
  <2>3. GoneFor' /\ Reading' /\ Opening'
    BY <1>1, <1>2, <1>3 DEF GoneFor, Reading, Opening
  <2>4. Sweeping'
    BY <1>1, <1>2, <1>3, <1>4, <1>6, <1>7, <2>1, SameHits DEF Sweeping, Replayed
  <2> QED
    BY <2>2, <2>3, <2>4
<1>8. CASE ~(Len(hits) < MaxHits)
  <2>1. status' = "ok" /\ stopReason' = "max_hits"
    BY <1>8 DEF Step
  <2>2. CommandTypes' /\ NothingLeft'
    BY <1>1, <2>1, CallKeepsTypes DEF CommandTypes
  <2>3. GoneFor' /\ Reading' /\ Opening'
    BY <1>1, <1>2, <1>3 DEF GoneFor, Reading, Opening
  <2>4. Len(hits) = MaxHits
    BY <1>5, <1>6, <1>8, CommandAssumption
  <2>5. Stopped'
    BY <1>1, <1>6, <2>1, <2>4, SameHits DEF Stopped
  <2>6. Sweeping'
    BY <1>1, <1>2, <1>3, <1>4, <2>1, <2>5 DEF Sweeping, Replayed
  <2> QED
    BY <2>2, <2>3, <2>6
<1> QED
  BY <1>7, <1>8

(* A watchpoint ends the sweep or adds a hit the sweep did not have.       *)
LEMMA WatchKeeps ==
  ASSUME RegistryInv, CommandInv, NEW found \in BOOLEAN, NEW p \in Positions, Watch(found, p)
  PROVE  CommandInv'
<1> USE DEF CommandInv
<1> DEFINE n == Len(hits) + 1
           hit == [found |-> found, position |-> p]
           repeated == \E i \in DOMAIN hits : Sequence(hits[i].position) = Sequence(p)
<1>1. /\ status = "running" /\ CommandTypes /\ Tool = "memory_watchpoint"
      /\ UNCHANGED <<at, seen, command, direction, gone, disturbed, restarted>>
      /\ Unmoved /\ hits' = Append(hits, hit)
  BY DEF Watch, Calls, Unmoved
<1>2. command = Sweep /\ step = 1 /\ command \notin Opens
  BY <1>1, WhoCalls DEF Sweep, Opens
<1>3. /\ seen = {} /\ at \in Handles /\ AllFound /\ Distinct /\ Len(hits) < MaxHits
      /\ ~disturbed => InOrder
  <2>1. hits = <<>> => InOrder
    BY DEF InOrder
  <2> QED
    BY <1>1, <1>2, <2>1 DEF Sweeping
<1>4. Replayed(p) /\ UNCHANGED <<nextSession, live>>
  BY <1>1 DEF Watch, Replay, Replayable, Land, Replayed, RegistryInv, RegistryTypeOK
<1>5. hit \in Hits
  BY DEF Hits
<1>6. /\ hits' \in Seq(Hits) /\ hits' # <<>> /\ Len(hits') = n
      /\ n \in Nat /\ DOMAIN hits = 1..(n - 1) /\ DOMAIN hits' = 1..n
      /\ \A i \in 1..(n - 1) : hits'[i] = hits[i]
      /\ hits'[n] = hit
  <2> HIDE DEF hit
  <2> QED
    BY <1>1, <1>5 DEF CommandTypes
<1>7. n <= MaxHits
  BY <1>3, <1>6, CommandAssumption
<1> DEFINE m == n - 1
<1>8. m \in Nat /\ n = m + 1 /\ DOMAIN hits = 1..m /\ (\A i \in 1..m : hits'[i] = hits[i])
  BY <1>6
<1>9. hits'[n].found = found /\ hits'[n].position = p
  BY <1>6
<1> HIDE DEF n, m, hit
<1>10. InOrder => InOrder'
  <2> SUFFICES ASSUME InOrder PROVE InOrder'
    OBVIOUS
  <2>1. \A i \in 1..m : hits[i] \in Hits
    BY <1>1, <1>8 DEF CommandTypes
  <2>2. \A i \in 1..m : hits[i].position \in Positions
    BY <2>1 DEF Hits
  <2>3. replay[at] \in Positions
    BY <1>3 DEF RegistryInv, RegistryTypeOK
  <2>4. \A i \in 1..m : Reaches(direction, hits[i].position, p)
    BY <1>4, <1>8, <2>2, <2>3, ReachesOn DEF Replayed, InOrder
  <2>5. Reaches(direction, p, p)
    BY DEF Reaches, Positions
  <2>6. \A i \in 1..n : Reaches(direction, hits'[i].position, p)
    BY <1>8, <1>9, <2>4, <2>5
  <2>7. \A i, k \in 1..n : i < k => Reaches(direction, hits'[i].position, hits'[k].position)
    <3> SUFFICES ASSUME NEW i \in 1..n, NEW k \in 1..n, i < k
                 PROVE  Reaches(direction, hits'[i].position, hits'[k].position)
      OBVIOUS
    <3>1. i \in 1..m
      BY <1>8
    <3>2. k \in 1..m \/ k = n
      BY <1>8
    <3>3. CASE k \in 1..m
      BY <1>8, <3>1, <3>3 DEF InOrder
    <3>4. CASE k = n
      BY <1>9, <2>6, <3>4
    <3> QED
      BY <3>2, <3>3, <3>4
  <2> QED
    BY <1>1, <1>4, <1>6, <2>6, <2>7 DEF InOrder, Replayed
<1>11. GoneFor' /\ Reading' /\ Opening'
  BY <1>1, <1>2, <1>3, <1>4 DEF GoneFor, Reading, Opening
<1>12. ~disturbed => at \in cursors' /\ InOrder'
  BY <1>3, <1>4, <1>10 DEF Replayed
<1>13. CASE ~found
  <2>1. status' = "ok" /\ stopReason' = "not_found"
    BY <1>13 DEF Watch
  <2>2. LastNotFound'
    <3>1. \A i \in 1..n : hits'[i].found <=> i # n
      BY <1>3, <1>8, <1>9, <1>13 DEF AllFound
    <3> QED
      BY <1>6, <3>1 DEF LastNotFound
  <2>3. Stopped'
    BY <1>6, <1>7, <2>1, <2>2 DEF Stopped
  <2>4. CommandTypes' /\ NothingLeft'
    BY <1>1, <1>6, <2>1, CallKeepsTypes DEF CommandTypes
  <2>5. Sweeping'
    BY <1>1, <1>2, <1>3, <1>12, <2>1, <2>3 DEF Sweeping
  <2> QED
    BY <1>11, <2>4, <2>5
<1>14. ASSUME found PROVE AllFound'
  <2>1. \A i \in 1..n : hits'[i].found
    <3>1. \A i \in 1..m : hits'[i].found
      BY <1>3, <1>8 DEF AllFound
    <3>2. hits'[n].found
      BY <1>9, <1>14
    <3> QED
      BY <1>8, <3>1, <3>2
  <2> QED
    BY <1>6, <2>1 DEF AllFound
<1>15. CASE found /\ repeated
  <2>1. status' = "ok" /\ stopReason' = "duplicate_position"
    BY <1>15 DEF Watch
  <2>2. PICK i \in 1..m : Sequence(hits[i].position) = Sequence(p)
    BY <1>8, <1>15
  <2>3. i \in 1..n /\ n \in 1..n /\ i # n
    BY <1>8
  <2>4. ~Distinct'
    BY <1>6, <1>8, <1>9, <2>2, <2>3 DEF Distinct, Sequence
  <2>5. Stopped'
    BY <1>6, <1>7, <1>14, <1>15, <2>1, <2>4 DEF Stopped
  <2>6. CommandTypes' /\ NothingLeft'
    BY <1>1, <1>6, <2>1, CallKeepsTypes DEF CommandTypes
  <2>7. Sweeping'
    BY <1>1, <1>2, <1>3, <1>12, <2>1, <2>5 DEF Sweeping
  <2> QED
    BY <1>11, <2>6, <2>7
<1>16. CASE found /\ ~repeated
  <2>1. GoOn(1, at)
    BY <1>2, <1>16 DEF Watch
  <2>2. 2 \in Callable(1, at)
    BY <1>2, <1>3 DEF Callable, Script, Must, Sweep, Unscoped, SessionTools, Handles, SessionIds, CursorIds
  <2>3. status' = "running" /\ step' \in DOMAIN Script[command] /\ step' # 1
    BY <1>1, <2>1, <2>2, GoOnGoes
  <2>4. Distinct'
    <3>1. \A i, k \in 1..n : i # k => Sequence(hits'[i].position) # Sequence(hits'[k].position)
      <4> SUFFICES ASSUME NEW i \in 1..n, NEW k \in 1..n, i # k
                   PROVE  Sequence(hits'[i].position) # Sequence(hits'[k].position)
        OBVIOUS
      <4>1. CASE i \in 1..m /\ k \in 1..m
        BY <1>3, <1>8, <4>1 DEF Distinct
      <4>2. CASE i = n /\ k \in 1..m
        BY <1>8, <1>9, <1>16, <4>2
      <4>3. CASE i \in 1..m /\ k = n
        BY <1>8, <1>9, <1>16, <4>3
      <4>4. (i \in 1..m \/ i = n) /\ (k \in 1..m \/ k = n)
        BY <1>8
      <4> QED
        BY <4>1, <4>2, <4>3, <4>4
    <3> QED
      BY <1>6, <3>1 DEF Distinct, Sequence
  <2>5. CommandTypes' /\ NothingLeft'
    BY <1>1, <1>6, <2>3, CallKeepsTypes DEF CommandTypes
  <2>6. Sweeping'
    BY <1>1, <1>2, <1>3, <1>6, <1>7, <1>12, <1>14, <1>16, <2>3, <2>4 DEF Sweeping
  <2> QED
    BY <1>11, <2>5, <2>6
<1> QED
  BY <1>13, <1>15, <1>16

(* Another client: what it does to the session and the cursor of the       *)
(* command is seen, and a session it closed does not come back.            *)
LEMMA OthersKeeps ==
  ASSUME RegistryInv, RegistryInv', CommandInv, Others
  PROVE  CommandInv'
<1> USE DEF CommandInv
<1>1. /\ UNCHANGED <<command, status, step, at, direction, thread, seen, hits, stopReason, restarted>>
      /\ gone' = (gone \/ at[1] \in live \ live')
      /\ disturbed' =
           (disturbed \/ (at \in cursors /\ (at \notin cursors' \/ replay'[at] # replay[at] \/ cached'[at] # cached[at])))
  BY DEF Others
<1>2. Operation
  BY DEF Others, AnyOperation, Operation
<1>3. CommandTypes'
  BY <1>1 DEF CommandTypes
<1>4. NothingLeft'
  <2>1. at = NoHandle => at[1] \notin live /\ at \notin cursors
    BY DEF NoHandle, RegistryInv, RegistryTypeOK, SessionIds, Handles
  <2> QED
    BY <1>1, <2>1 DEF NothingLeft
<1>5. GoneFor'
  <2>1. at[1] \in live => at[1] # 0 /\ at[1] <= nextSession
    <3>1. 0 \notin SessionIds
      BY DEF SessionIds
    <3> QED
      BY <3>1 DEF RegistryInv, RegistryTypeOK, IdsAllocated
  <2>2. at[1] \in Nat
    <3>1. \A s \in SessionIds \cup {0} : s \in Nat
      BY DEF SessionIds
    <3>2. at[1] \in SessionIds \cup {0}
      BY DEF CommandTypes
    <3> QED
      BY <3>1, <3>2
  <2>3. gone' /\ ~restarted => at[1] # 0 /\ at[1] <= nextSession /\ (at[1] \notin live \/ at[1] \notin live')
    BY <1>1, <2>1 DEF GoneFor
  <2>4. /\ nextSession \in Nat /\ nextSession' \in Nat /\ nextSession <= nextSession'
        /\ live' \subseteq live \cup {nextSession + 1}
    BY <1>2, IdsGrow
  <2>5. at[1] <= nextSession => at[1] <= nextSession' /\ at[1] # nextSession + 1
    BY <2>2, <2>4
  <2> QED
    BY <1>1, <2>3, <2>4, <2>5 DEF GoneFor
<1>6. Reading'
  <2> SUFFICES ASSUME ~disturbed', at \notin leaked' \/ command # "context_snapshot", seen # {}
               PROVE  at \in cursors' /\ seen = {PositionOf(at)'}
    BY <1>1 DEF Reading, PositionOf
  <2>1. ~disturbed /\ (at \in cursors => at \in cursors' /\ replay'[at] = replay[at] /\ cached'[at] = cached[at])
    BY <1>1
  <2>2. at \notin leaked \/ command # "context_snapshot"
    BY <1>2, <2>1, IdsGrow DEF RegistryInv, IdsAllocated
  <2>3. at \in cursors /\ seen = {PositionOf(at)}
    BY <2>1, <2>2 DEF Reading
  <2>4. at[1] \in live /\ at[1] \in live'
    BY <2>1, <2>3 DEF RegistryInv, IdsAllocated
  <2>5. at[1] \in native' <=> at[1] \in native
    BY <1>2, <2>4, IdsGrow
  <2> QED
    BY <1>1, <2>1, <2>3, <2>5 DEF PositionOf
<1>7. Opening'
  BY <1>1 DEF Opening
<1>8. Sweeping'
  <2>1. ~disturbed' /\ at \in cursors => ~disturbed /\ at \in cursors' /\ replay'[at] = replay[at]
    BY <1>1
  <2> QED
    BY <1>1, <2>1, SameHits DEF Sweeping
<1> QED
  BY <1>3, <1>4, <1>5, <1>6, <1>7, <1>8

(* A new daemon: the command is disturbed, and its session is gone.        *)
LEMMA RestartKeeps ==
  ASSUME CommandInv, Restart
  PROVE  CommandInv'
<1> USE DEF CommandInv
<1>1. /\ UNCHANGED <<command, status, step, at, direction, thread, seen, hits, stopReason>>
      /\ status = "running" /\ restarted' = TRUE /\ disturbed' = TRUE
      /\ gone' = (gone \/ at[1] # 0)
  BY DEF Restart
<1>2. CommandTypes' /\ NothingLeft'
  BY <1>1 DEF CommandTypes, NothingLeft
<1>3. GoneFor' /\ Reading' /\ Opening'
  BY <1>1 DEF GoneFor, Reading, Opening
<1>4. Sweeping'
  BY <1>1, SameHits DEF Sweeping
<1> QED
  BY <1>2, <1>3, <1>4

(* A step of the client, of the other clients or of the daemon.            *)
LEMMA ClientKeeps ==
  ASSUME RegistryInv, CommandInv, Client
  PROVE  RegistryInv' /\ CommandInv'
<1>1. ASSUME Operation PROVE RegistryInv'
  BY <1>1, RegistryKeeps
<1>2. CASE \E name \in Commands : \E handle \in {NoHandle} \cup (SessionIds \X ({0} \cup CursorIds)) :
             \E towards \in Directions : \E threadId \in {Absent, 1} : Begin(name, handle, towards, threadId)
  BY <1>1, <1>2, BeginKeeps DEF Begin, Operation
<1>3. CASE Return
  BY <1>1, <1>3, ReturnKeeps DEF Return, Operation
<1>4. CASE Fail
  BY <1>1, <1>4, FailKeeps DEF Fail, Operation
<1>5. CASE Query
  BY <1>1, <1>5, QueryKeeps DEF Query, Operation
<1>6. CASE SelectHandles
  BY <1>1, <1>6, SelectHandlesKeeps DEF SelectHandles, Operation
<1>7. ASSUME NEW opened \in {"native", "placeholder", "failed"}, OpenTrace(opened)
      PROVE  RegistryInv' /\ CommandInv'
  <2>1. Operation
    BY <1>7 DEF OpenTrace, Operation
  <2> QED
    BY <1>1, <1>7, <2>1, OpenTraceKeeps
<1>8. CASE OpenCursor
  <2>1. at[1] \in SessionIds
    BY <1>8 DEF OpenCursor, Serves, RegistryInv, RegistryTypeOK
  <2>2. Operation
    BY <1>8, <2>1 DEF OpenCursor, Operation
  <2> QED
    BY <1>1, <1>8, <2>2, OpenCursorKeeps
<1>9. ASSUME NEW p \in Positions,
             Seek(p) \/ WatchLeaks(p) \/ Step(p) \/ \E found \in BOOLEAN : Watch(found, p)
      PROVE  RegistryInv' /\ CommandInv'
  <2>1. direction \in Directions
    BY DEF CommandInv, CommandTypes
  <2>2. \/ SetPosition(at, p)
        \/ Replay(at, direction, p)
        \/ ReplayLeaks(at, direction, p)
    BY <1>9 DEF Seek, WatchLeaks, Step, StepTowards, Watch
  <2>3. at \in Handles
    BY <2>2 DEF SetPosition, Replay, ReplayLeaks, Replayable, RegistryInv, RegistryTypeOK
  <2>4. Operation
    BY <2>1, <2>2, <2>3 DEF Operation
  <2> QED
    BY <1>1, <1>9, <2>4, SeekKeeps, WatchLeaksKeeps, StepKeeps, WatchKeeps
<1>10. CASE Others
  <2>1. Operation
    BY <1>10 DEF Others, AnyOperation, Operation
  <2> QED
    BY <1>1, <1>10, <2>1, OthersKeeps
<1>11. CASE Restart
  <2>1. RegistryInv'
    BY <1>11, RegistryAssumption
    DEF Restart, RegistryInv, RegistryTypeOK, IdsAllocated, StaleOnlyAfterLeak, Positions, LifetimeStart
  <2> QED
    BY <1>11, <2>1, RestartKeeps
<1> QED
  BY <1>2, <1>3, <1>4, <1>5, <1>6, <1>7, <1>8, <1>9, <1>10, <1>11 DEF Client, Call

(* A step that is none of theirs.                                          *)
LEMMA BesideKeeps ==
  ASSUME RegistryInv, CommandInv, UNCHANGED <<registryVars, commandVars>>
  PROVE  RegistryInv' /\ CommandInv'
<1>1. RegistryInv'
  BY RegistryKeeps DEF Operation
<1>2. CommandTypes' /\ NothingLeft'
  BY DEF CommandInv, CommandTypes, NothingLeft, commandVars
<1>3. GoneFor' /\ Reading' /\ Opening'
  BY DEF CommandInv, GoneFor, Reading, Opening, PositionOf, commandVars, registryVars
<1>4. Sweeping'
  BY SameHits DEF CommandInv, Sweeping, commandVars, registryVars
<1> QED
  BY <1>1, <1>2, <1>3, <1>4 DEF CommandInv

-----------------------------------------------------------------------------
(* A recording: what is known at each step of the command                  *)
(* (RecordingProgress), and that a recorder which ended well had lost its  *)
(* target or was told to stop (RecorderEndedWell).                         *)

\* The values of every variable but the plan.
RecordingTypes ==
  /\ recording \in {"idle", "planned", "launching", "spawning", "waiting", "stopping", "finalizing",
                    "checking", "done"}
  /\ plan \in RecordArguments
  /\ process \in {"none", "running", "exited"}
  /\ recorder \in {"none", "running", "succeeded", "failed"}
  /\ trace \in {"absent", "partial", "final"}
  /\ stop \in {"none", "accepted", "refused"}
  /\ outcome \in {"none", "refused", "error", "ok"}

RecordingProgress ==
  /\ recording \in {"idle", "planned", "launching"} => process = "none"
  /\ recording \in {"idle", "planned", "launching", "spawning"} => recorder = "none"
  /\ recording \notin {"finalizing", "checking", "done"} => stop = "none"
  /\ recording = "finalizing" => stop = "accepted"
  /\ recording = "checking" => Ended /\ stop # "refused"
  /\ recording = "stopping" => plan.seconds = "some"
  /\ recording \notin {"idle", "done"} => Plannable(plan)
  /\ recording # "done" => outcome = "none"
  /\ recording = "done" => outcome # "none"

RecorderEndedWell ==
  recorder = "succeeded" => (process = "exited" \/ stop = "accepted") /\ trace # "partial"

RecordingReported ==
  /\ outcome = "ok" => recorder = "succeeded" /\ trace = "final" /\ stop # "refused"
  /\ outcome = "refused" => process = "none" /\ recorder = "none"
  /\ recording = "done" /\ recorder = "running" => stop = "refused"

RecordingInv == RecordingTypes /\ RecordingProgress /\ RecorderEndedWell /\ RecordingReported

-----------------------------------------------------------------------------

(* The command that was not asked anything yet satisfies the invariant.    *)
LEMMA RecordingStarts == RecordingInit => RecordingInv
BY DEF RecordingInit, NoPlan, RecordingInv, RecordingTypes, RecordArguments, Amounts, RecordingProgress,
     RecorderEndedWell, RecordingReported, Ended

(* Every step keeps the invariant: one case for each action.               *)
LEMMA RecordingNextKeeps ==
  ASSUME RecordingInv, RecordingNext
  PROVE  RecordingInv'
<1> USE DEF RecordingInv, Answer
<1>1. ASSUME NEW a \in RecordArguments, NEW usable \in BOOLEAN, Plan(a, usable)
      PROVE  RecordingInv'
  <2>1. RecordingTypes'
    BY <1>1 DEF Plan, RecordingTypes
  <2>2. Plannable(plan)' = Plannable(a)
    BY <1>1 DEF Plan, Plannable, BoundedKnowsItsTarget, SizeSettings, Settings
  <2>3. RecordingProgress'
    BY <1>1, <2>2 DEF Plan, RecordingProgress, Ended
  <2>4. RecorderEndedWell' /\ RecordingReported'
    BY <1>1 DEF Plan, RecorderEndedWell, RecordingReported, RecordingProgress
  <2> QED
    BY <2>1, <2>3, <2>4
<1>2. ASSUME NEW elevated \in BOOLEAN, NEW sudo, FindLauncher(elevated, sudo)
      PROVE  RecordingInv'
  <2>1. RecordingTypes'
    BY <1>2 DEF FindLauncher, RecordingTypes
  <2>2. RecordingProgress'
    BY <1>2 DEF FindLauncher, RecordingProgress, Ended
  <2>3. RecorderEndedWell' /\ RecordingReported'
    BY <1>2 DEF FindLauncher, RecorderEndedWell, RecordingReported, RecordingProgress
  <2> QED
    BY <2>1, <2>2, <2>3
<1>3. ASSUME NEW result, LaunchTarget(result)
      PROVE  RecordingInv'
  <2>1. RecordingTypes'
    BY <1>3 DEF LaunchTarget, RecordingTypes
  <2>2. RecordingProgress'
    BY <1>3 DEF LaunchTarget, RecordingProgress, Ended
  <2>3. RecorderEndedWell' /\ RecordingReported'
    BY <1>3 DEF LaunchTarget, RecorderEndedWell, RecordingReported, RecordingProgress
  <2> QED
    BY <2>1, <2>2, <2>3
<1>4. ASSUME NEW spawned \in BOOLEAN, SpawnRecorder(spawned)
      PROVE  RecordingInv'
  <2>1. RecordingTypes'
    BY <1>4 DEF SpawnRecorder, RecordingTypes
  <2>2. RecordingProgress'
    BY <1>4 DEF SpawnRecorder, RecordingProgress, Ended
  <2>3. RecorderEndedWell' /\ RecordingReported'
    BY <1>4 DEF SpawnRecorder, RecorderEndedWell, RecordingReported, RecordingProgress
  <2> QED
    BY <2>1, <2>2, <2>3
<1>5. ASSUME NEW accepted \in BOOLEAN, RequestStop(accepted)
      PROVE  RecordingInv'
  <2>1. RecordingTypes'
    BY <1>5 DEF RequestStop, AfterStop, RecordingTypes
  <2>2. RecordingProgress'
    BY <1>5 DEF RequestStop, AfterStop, RecordingProgress, Ended
  <2>3. RecorderEndedWell' /\ RecordingReported'
    BY <1>5 DEF RequestStop, AfterStop, RecorderEndedWell, RecordingReported, RecordingProgress
  <2> QED
    BY <2>1, <2>2, <2>3
<1>6. ASSUME NEW readable \in BOOLEAN, Check(readable)
      PROVE  RecordingInv'
  <2>1. RecordingTypes'
    BY <1>6 DEF Check, RecordingTypes
  <2>2. RecordingProgress'
    BY <1>6 DEF Check, RecordingProgress, Ended
  <2>3. RecorderEndedWell' /\ RecordingReported'
    BY <1>6 DEF Check, RecordingTypes, RecorderEndedWell, RecordingReported, RecordingProgress, Ended
  <2> QED
    BY <2>1, <2>2, <2>3
<1>7. CASE RecorderEndObserved
  <2>1. RecordingTypes'
    BY <1>7 DEF RecorderEndObserved, RecordingTypes
  <2>2. RecordingProgress'
    BY <1>7 DEF RecorderEndObserved, RecordingProgress, Ended
  <2>3. RecorderEndedWell' /\ RecordingReported'
    BY <1>7 DEF RecorderEndObserved, RecorderEndedWell, RecordingReported, RecordingProgress
  <2> QED
    BY <2>1, <2>2, <2>3
<1>8. CASE LimitRunsOut
  <2>1. RecordingTypes'
    BY <1>8 DEF LimitRunsOut, RecordingTypes
  <2>2. RecordingProgress'
    BY <1>8 DEF LimitRunsOut, RecordingProgress, Ended
  <2>3. RecorderEndedWell' /\ RecordingReported'
    BY <1>8 DEF LimitRunsOut, RecorderEndedWell, RecordingReported, RecordingProgress
  <2> QED
    BY <2>1, <2>2, <2>3
<1>9. CASE TargetEnds
  <2>1. RecordingTypes'
    BY <1>9 DEF TargetEnds, RecordingTypes
  <2>2. RecordingProgress'
    BY <1>9 DEF TargetEnds, RecordingProgress, Ended
  <2>3. RecorderEndedWell' /\ RecordingReported'
    BY <1>9 DEF TargetEnds, RecorderEndedWell, RecordingReported, RecordingProgress
  <2> QED
    BY <2>1, <2>2, <2>3
<1>10. CASE RecorderEnds
  <2>1. RecordingTypes'
    BY <1>10 DEF RecorderEnds, RecordingTypes
  <2>2. RecordingProgress'
    BY <1>10 DEF RecorderEnds, RecordingProgress, Ended
  <2>3. RecorderEndedWell' /\ RecordingReported'
    BY <1>10 DEF RecorderEnds, RecorderEndedWell, RecordingReported, RecordingProgress, RecordingTypes
  <2> QED
    BY <2>1, <2>2, <2>3
<1> QED
  BY <1>1, <1>2, <1>3, <1>4, <1>5, <1>6, <1>7, <1>8, <1>9, <1>10 DEF RecordingNext

(* A step that changes nothing keeps the invariant.                        *)
LEMMA RecordingStutterKeeps == RecordingInv /\ UNCHANGED recordingVars => RecordingInv'
BY DEF RecordingInv, recordingVars, RecordingTypes, RecordingProgress, RecorderEndedWell, RecordingReported,
     Ended, Plannable,
       BoundedKnowsItsTarget, SizeSettings, Settings

(* The invariant implies what is promised of a recording.                  *)
LEMMA RecordingInvIsFinal == RecordingInv => RecordingsAreFinal
<1> SUFFICES ASSUME RecordingInv PROVE RecordingsAreFinal
  OBVIOUS
<1>1. outcome = "ok" => recorder = "succeeded" /\ trace = "final" /\ stop # "refused"
  BY DEF RecordingInv, RecordingReported
<1>2. outcome = "ok" /\ process = "running" => stop = "accepted"
  BY DEF RecordingInv, RecordingReported, RecorderEndedWell
<1>3. recording = "stopping" => plan.noShadowStack
  BY DEF RecordingInv, RecordingProgress, Plannable, BoundedKnowsItsTarget
<1>4. recording \notin {"idle", "done"} /\ SizeSettings(plan).ring => SizeSettings(plan).maxFile = "some"
  BY DEF RecordingInv, RecordingProgress, Plannable
<1> QED
  BY <1>1, <1>2, <1>3, <1>4 DEF RecordingInv, RecordingReported, RecordingsAreFinal

(* What `trace record` reports as recorded has ended and is written out,   *)
(* whatever the target and the recorder do while a limit runs out.         *)
THEOREM RecordingIsFinal == RecordingSpec => []RecordingsAreFinal
<1>1. RecordingInit => RecordingInv
  BY RecordingStarts
<1>2. RecordingInv /\ [RecordingNext]_recordingVars => RecordingInv'
  BY RecordingNextKeeps, RecordingStutterKeeps
<1>3. RecordingInv => RecordingsAreFinal
  BY RecordingInvIsFinal
<1> QED
  BY <1>1, <1>2, <1>3, PTL DEF RecordingSpec

-----------------------------------------------------------------------------
(* An installation.  That what is answered is whole rests on what each     *)
(* step before the answer knows (InstallWork), on every tree that is not   *)
(* whole being one that was broken off (TreesKnown), and on the lock:      *)
(* nobody but its holder changes the directory.                            *)

Searching == {"fetching", "checking", "clearing", "downloading", "verifying", "removing", "extracting"}
RecordingVersion == {"recording", "writing"}
Phases == {"idle", "locking", "cleaning", "releasing", "launching", "done"} \cup Searching \cup RecordingVersion
InstallAnswers == {"none", "present", "installed", "error", "launched"}
Trees == {"absent", "partial", "startable", "whole"}

\* The values of every variable.
InstallTypes ==
  /\ latest \in Versions
  /\ phase \in [Installers -> Phases]
  /\ request \in [Installers -> Requests]
  /\ version \in [Installers -> 0..MaxVersion]
  /\ answer \in [Installers -> InstallAnswers]
  /\ lock \in BOOLEAN
  /\ download \in {"absent", "empty", "signed", "unsigned"}
  /\ tree \in [Versions -> Trees]
  /\ recorded \in 0..MaxVersion
  /\ broken \in SUBSET Versions
  /\ abandoned \in BOOLEAN

\* What is found or unpacked is still there when it is answered.
Found(i) ==
  /\ version[i] \in Versions
  /\ answer[i] \in {"present", "installed"}
  /\ answer[i] = "installed" => tree[version[i]] = "whole"
  /\ answer[i] = "present" => tree[version[i]] \in {"startable", "whole"}

\* What the command at each of its steps may rely on.
InstallWork(i) ==
  /\ phase[i] \in Searching \ {"fetching"} => version[i] \in Versions
  /\ phase[i] \in {"removing", "extracting"} => download = "signed"
  /\ phase[i] = "extracting" => version[i] \in broken
  /\ phase[i] \in RecordingVersion \cup {"cleaning"} => Found(i)
  /\ phase[i] = "cleaning" => recorded = version[i] /\ answer[i] = "installed"
  /\ phase[i] = "releasing" /\ answer[i] # "error" => Found(i) /\ recorded = version[i]
  /\ phase[i] = "launching" => version[i] \in Versions

\* A tree that is not whole was broken off, and so was one that is recorded and is not there.
TreesKnown ==
  \A v \in Versions :
    /\ tree[v] \in {"partial", "startable"} => v \in broken
    /\ recorded = v => tree[v] = "whole" \/ v \in broken

InstallInv == InstallTypes /\ LockIsHeld /\ (\A i \in Installers : InstallWork(i)) /\ TreesKnown

-----------------------------------------------------------------------------
(* One step of one command.                                                *)

InstallStep(i) ==
  \/ \E r \in Requests : StartInstall(i, r)
  \/ \E yes \in BOOLEAN :
       AcquireLock(i, yes) \/ Download(i, yes) \/ RemoveTree(i, yes) \/ CleanUp(i, yes) \/ ReleaseLock(i, yes)
  \/ Fails(i)
  \/ FetchAppinstaller(i) \/ CheckInstalled(i) \/ ClearDownload(i) \/ VerifyMsixTrust(i)
  \/ ExtractEntries(i) \/ ExtractEnds(i)
  \/ TruncateVersion(i) \/ WriteVersion(i)
  \/ Launch(i)
  \/ Killed(i)

(* A version is a number, and 0 is none.                                   *)
LEMMA VersionsArePositive == 1 \in Versions /\ 0 \notin Versions /\ Versions \subseteq 0..MaxVersion
BY InstallAssumption, SMT DEF Versions

(* The start satisfies the invariant.                                      *)
LEMMA InstallStarts == InstallInit => InstallInv
<1> SUFFICES ASSUME InstallInit PROVE InstallInv
  OBVIOUS
<1>1. InstallTypes
  <2>1. phase \in [Installers -> Phases] /\ answer \in [Installers -> InstallAnswers]
    BY DEF InstallInit, Phases, InstallAnswers
  <2>2. request \in [Installers -> Requests]
    BY DEF InstallInit, Requests
  <2>3. version \in [Installers -> 0..MaxVersion] /\ tree \in [Versions -> Trees]
    BY InstallAssumption DEF InstallInit, Trees
  <2>4. recorded \in 0..MaxVersion
    BY InstallAssumption DEF InstallInit
  <2>5. latest \in Versions
    BY VersionsArePositive DEF InstallInit
  <2>6. lock \in BOOLEAN /\ download \in {"absent", "empty", "signed", "unsigned"} /\ broken \in SUBSET Versions
        /\ abandoned \in BOOLEAN
    BY DEF InstallInit
  <2> QED
    BY <2>1, <2>2, <2>3, <2>4, <2>5, <2>6 DEF InstallTypes
<1>2. LockIsHeld
  BY DEF LockIsHeld, Holding, InstallInit
<1>3. \A i \in Installers : InstallWork(i)
  BY DEF InstallWork, InstallInit, Searching, RecordingVersion
<1>4. TreesKnown
  BY VersionsArePositive DEF TreesKnown, InstallInit
<1> QED
  BY <1>1, <1>2, <1>3, <1>4 DEF InstallInv

(* What no step of a command changes unless the command has the lock.      *)
LEMMA HoldersChangeTheDirectory ==
  ASSUME NEW i \in Installers, InstallStep(i), ~Holding(i)
  PROVE  UNCHANGED Disk
BY DEF InstallStep, Holding, Disk, Unasked, Gives, GoTo, StartInstall, AcquireLock, Download, RemoveTree, CleanUp,
       ReleaseLock, Fails, FetchAppinstaller, CheckInstalled, ClearDownload, VerifyMsixTrust, ExtractEntries,
       ExtractEnds, TruncateVersion, WriteVersion, Launch, Killed

(* A step of one command is none of another.                               *)
LEMMA OthersStay ==
  ASSUME NEW i \in Installers, NEW k \in Installers, i # k, InstallTypes, InstallStep(i)
  PROVE  /\ phase'[k] = phase[k] /\ version'[k] = version[k] /\ answer'[k] = answer[k]
         /\ Holding(k)' = Holding(k)
<1>1. phase'[k] = phase[k]
  BY DEF InstallTypes, InstallStep, Stop, GoTo, StartInstall, AcquireLock, Download, RemoveTree, CleanUp,
       ReleaseLock, Fails, FetchAppinstaller, CheckInstalled, ClearDownload, VerifyMsixTrust, ExtractEntries,
       ExtractEnds, TruncateVersion, WriteVersion, Launch, Killed
<1>2. version'[k] = version[k]
  BY DEF InstallTypes, InstallStep, StartInstall, AcquireLock, Download, RemoveTree, CleanUp,
       ReleaseLock, Fails, FetchAppinstaller, CheckInstalled, ClearDownload, VerifyMsixTrust, ExtractEntries,
       ExtractEnds, TruncateVersion, WriteVersion, Launch, Killed
<1>3. answer'[k] = answer[k]
  BY DEF InstallTypes, InstallStep, Stop, Gives, StartInstall, AcquireLock, Download, RemoveTree, CleanUp,
       ReleaseLock, Fails, FetchAppinstaller, CheckInstalled, ClearDownload, VerifyMsixTrust, ExtractEntries,
       ExtractEnds, TruncateVersion, WriteVersion, Launch, Killed
<1> QED
  BY <1>1, <1>2, <1>3 DEF Holding

(* Every step of a command keeps the types.                                *)
LEMMA StepKeepsTypes ==
  ASSUME NEW i \in Installers, InstallTypes, InstallWork(i), InstallStep(i)
  PROVE  InstallTypes'
<1>1. latest' = latest
  BY DEF InstallStep, Unasked, StartInstall, AcquireLock, Download, RemoveTree, CleanUp, ReleaseLock, Fails,
       FetchAppinstaller, CheckInstalled, ClearDownload, VerifyMsixTrust, ExtractEntries, ExtractEnds,
       TruncateVersion, WriteVersion, Launch, Killed
<1>2. phase' \in [Installers -> Phases]
  <2>1. phase' = phase \/ \E p \in Phases : phase' = [phase EXCEPT ![i] = p]
    BY DEF InstallStep, Stop, GoTo, StartInstall, AcquireLock, Download, RemoveTree, CleanUp, ReleaseLock, Fails,
         FetchAppinstaller, CheckInstalled, ClearDownload, VerifyMsixTrust, ExtractEntries, ExtractEnds,
         TruncateVersion, WriteVersion, Launch, Killed, Phases, Searching, RecordingVersion
  <2> QED
    BY <2>1 DEF InstallTypes
<1>3. answer' \in [Installers -> InstallAnswers]
  <2>1. answer' = answer \/ \E a \in InstallAnswers : answer' = [answer EXCEPT ![i] = a]
    BY DEF InstallStep, Stop, Gives, StartInstall, AcquireLock, Download, RemoveTree, CleanUp, ReleaseLock, Fails,
         FetchAppinstaller, CheckInstalled, ClearDownload, VerifyMsixTrust, ExtractEntries, ExtractEnds,
         TruncateVersion, WriteVersion, Launch, Killed, InstallAnswers
  <2> QED
    BY <2>1 DEF InstallTypes
<1>4. request' \in [Installers -> Requests]
  <2>1. request' = request \/ \E r \in Requests : request' = [request EXCEPT ![i] = r]
    BY DEF InstallStep, Unasked, StartInstall, AcquireLock, Download, RemoveTree, CleanUp, ReleaseLock, Fails,
         FetchAppinstaller, CheckInstalled, ClearDownload, VerifyMsixTrust, ExtractEntries, ExtractEnds,
         TruncateVersion, WriteVersion, Launch, Killed
  <2> QED
    BY <2>1 DEF InstallTypes
<1>5. version' \in [Installers -> 0..MaxVersion]
  <2>1. version' = version \/ version' = [version EXCEPT ![i] = latest]
    BY DEF InstallStep, StartInstall, AcquireLock, Download, RemoveTree, CleanUp, ReleaseLock, Fails,
         FetchAppinstaller, CheckInstalled, ClearDownload, VerifyMsixTrust, ExtractEntries, ExtractEnds,
         TruncateVersion, WriteVersion, Launch, Killed
  <2> QED
    BY <2>1, VersionsArePositive DEF InstallTypes
<1>6. lock' \in BOOLEAN
  BY DEF InstallTypes, InstallStep, StartInstall, AcquireLock, Download, RemoveTree, CleanUp, ReleaseLock, Fails,
       FetchAppinstaller, CheckInstalled, ClearDownload, VerifyMsixTrust, ExtractEntries, ExtractEnds,
       TruncateVersion, WriteVersion, Launch, Killed
<1>7. abandoned' \in BOOLEAN
  BY DEF InstallTypes, InstallStep, Unasked, StartInstall, AcquireLock, Download, RemoveTree, CleanUp, ReleaseLock,
       Fails, FetchAppinstaller, CheckInstalled, ClearDownload, VerifyMsixTrust, ExtractEntries, ExtractEnds,
       TruncateVersion, WriteVersion, Launch, Killed
<1>8. download' \in {"absent", "empty", "signed", "unsigned"}
  BY DEF InstallTypes, InstallStep, Disk, StartInstall, AcquireLock, Download, RemoveTree, CleanUp, ReleaseLock,
       Fails, FetchAppinstaller, CheckInstalled, ClearDownload, VerifyMsixTrust, ExtractEntries, ExtractEnds,
       TruncateVersion, WriteVersion, Launch, Killed
<1>9. tree' \in [Versions -> Trees]
  <2>1. tree' = tree \/ \E t \in Trees : tree' = [tree EXCEPT ![version[i]] = t]
    BY DEF InstallStep, Disk, StartInstall, AcquireLock, Download, RemoveTree, CleanUp, ReleaseLock, Fails,
         FetchAppinstaller, CheckInstalled, ClearDownload, VerifyMsixTrust, ExtractEntries, ExtractEnds,
         TruncateVersion, WriteVersion, Launch, Killed, Trees
  <2> QED
    BY <2>1 DEF InstallTypes
<1>10. recorded' \in 0..MaxVersion
  <2>1. recorded' = recorded \/ recorded' = 0 \/ recorded' = version[i]
    BY DEF InstallStep, Disk, StartInstall, AcquireLock, Download, RemoveTree, CleanUp, ReleaseLock, Fails,
         FetchAppinstaller, CheckInstalled, ClearDownload, VerifyMsixTrust, ExtractEntries, ExtractEnds,
         TruncateVersion, WriteVersion, Launch, Killed
  <2> QED
    BY <2>1, InstallAssumption DEF InstallTypes
<1>11. broken' \in SUBSET Versions
  <2>1. \/ broken' = broken
        \/ broken' = broken \ {version[i]}
        \/ phase[i] = "removing" /\ broken' = broken \cup {version[i]}
    BY DEF InstallStep, Disk, StartInstall, AcquireLock, Download, RemoveTree, CleanUp, ReleaseLock, Fails,
         FetchAppinstaller, CheckInstalled, ClearDownload, VerifyMsixTrust, ExtractEntries, ExtractEnds,
         TruncateVersion, WriteVersion, Launch, Killed
  <2> QED
    BY <2>1 DEF InstallTypes, InstallWork, Searching
<1> QED
  BY <1>1, <1>2, <1>3, <1>4, <1>5, <1>6, <1>7, <1>8, <1>9, <1>10, <1>11 DEF InstallTypes

(* Only AcquireLock makes a command the holder, and only where there is    *)
(* none; it stops being it by ReleaseLock or by being killed.              *)
LEMMA StepKeepsLock ==
  ASSUME NEW i \in Installers, InstallTypes, LockIsHeld, InstallStep(i)
  PROVE  LockIsHeld'
<1>1. \A k \in Installers \ {i} : Holding(k)' = Holding(k)
  BY OthersStay
<1>2. CASE lock' = lock /\ Holding(i)' = Holding(i) /\ abandoned' = abandoned
  BY <1>1, <1>2 DEF LockIsHeld
<1>3. CASE ~lock /\ lock'
  <2>1. Holding(i)'
    BY <1>3 DEF InstallTypes, InstallStep, StartInstall, AcquireLock, Download, RemoveTree, CleanUp,
         ReleaseLock, Fails,
       FetchAppinstaller, CheckInstalled, ClearDownload, VerifyMsixTrust, ExtractEntries, ExtractEnds,
       TruncateVersion, WriteVersion, Launch, Killed, GoTo, Holding, LockIsHeld
  <2> QED
    BY <1>1, <1>3, <2>1 DEF LockIsHeld
<1>4. CASE phase[i] = "releasing"
  <2>1. Holding(i) /\ (\A k \in Installers : Holding(k) => k = i) /\ lock
    BY <1>4 DEF LockIsHeld, Holding
  <2>2. ~Holding(i)' \/ (lock' = lock /\ Holding(i)' = Holding(i) /\ abandoned' = abandoned)
    BY <1>4 DEF InstallTypes, InstallStep, Stop, StartInstall, AcquireLock, Download, RemoveTree, CleanUp,
         ReleaseLock,
       Fails, FetchAppinstaller, CheckInstalled, ClearDownload, VerifyMsixTrust, ExtractEntries, ExtractEnds,
       TruncateVersion, WriteVersion, Launch, Killed, GoTo, Holding
  <2>3. lock' => abandoned' \/ Holding(i)'
    BY <1>4, <2>1 DEF InstallTypes, InstallStep, Stop, StartInstall, AcquireLock, Download, RemoveTree, CleanUp,
         ReleaseLock,
       Fails, FetchAppinstaller, CheckInstalled, ClearDownload, VerifyMsixTrust, ExtractEntries, ExtractEnds,
       TruncateVersion, WriteVersion, Launch, Killed, GoTo, Holding, Releases
  <2> QED
    BY <1>1, <2>1, <2>2, <2>3 DEF LockIsHeld
<1>5. CASE Killed(i)
  <2>1. lock' = lock /\ abandoned' = TRUE /\ ~Holding(i)'
    BY <1>5 DEF Killed, GoTo, Holding, InstallTypes
  <2> QED
    BY <1>1, <2>1 DEF LockIsHeld
<1>6. \/ lock' = lock /\ Holding(i)' = Holding(i) /\ abandoned' = abandoned
      \/ ~lock /\ lock'
      \/ phase[i] = "releasing"
      \/ Killed(i)
  BY DEF InstallTypes, InstallStep, Stop, Unasked, StartInstall, AcquireLock, Download, RemoveTree, CleanUp,
       ReleaseLock,
     Fails, FetchAppinstaller, CheckInstalled, ClearDownload, VerifyMsixTrust, ExtractEntries, ExtractEnds,
     TruncateVersion, WriteVersion, Launch, GoTo, Holding, LockFree
<1> QED
  BY <1>2, <1>3, <1>4, <1>5, <1>6

(* The command that steps: what it relies on next follows from what it did *)
(* or from what it relied on.                                              *)
LEMMA StepKeepsWork ==
  ASSUME NEW i \in Installers, InstallTypes, InstallWork(i), TreesKnown, InstallStep(i)
  PROVE  InstallWork(i)'
<1> USE DEF InstallTypes, GoTo, Gives, Unasked, Disk
<1>1. CASE \E r \in Requests : StartInstall(i, r)
  BY <1>1 DEF StartInstall, InstallWork, Searching, RecordingVersion
<1>2. CASE \E yes \in BOOLEAN : AcquireLock(i, yes)
  BY <1>2 DEF AcquireLock, InstallWork, Searching, RecordingVersion
<1>3. CASE \E yes \in BOOLEAN : Download(i, yes)
  BY <1>3 DEF Download, InstallWork, Searching, RecordingVersion
<1>4. CASE \E yes \in BOOLEAN : RemoveTree(i, yes)
  BY <1>4 DEF RemoveTree, Stop, InstallWork, Searching, RecordingVersion
<1>5. CASE \E yes \in BOOLEAN : CleanUp(i, yes)
  BY <1>5 DEF CleanUp, InstallWork, Found, Searching, RecordingVersion
<1>6. CASE \E yes \in BOOLEAN : ReleaseLock(i, yes)
  BY <1>6 DEF ReleaseLock, InstallWork, Found, Searching, RecordingVersion
<1>7. CASE Fails(i)
  BY <1>7 DEF Fails, Stop, InstallWork, Searching, RecordingVersion, InstallAnswers
<1>8. CASE FetchAppinstaller(i)
  BY <1>8 DEF FetchAppinstaller, InstallWork, Searching, RecordingVersion
<1>9. CASE CheckInstalled(i)
  BY <1>9 DEF CheckInstalled, Present, HasShell, InstallWork, Found, Searching, RecordingVersion, InstallAnswers
<1>10. CASE ClearDownload(i) \/ VerifyMsixTrust(i)
  BY <1>10 DEF ClearDownload, VerifyMsixTrust, Stop, InstallWork, Searching, RecordingVersion, InstallAnswers
<1>11. CASE ExtractEntries(i)
  BY <1>11 DEF ExtractEntries, InstallWork, Searching, RecordingVersion
<1>12. CASE ExtractEnds(i)
  BY <1>12 DEF ExtractEnds, Stop, HasShell, InstallWork, Found, Searching, RecordingVersion, InstallAnswers
<1>13. CASE TruncateVersion(i)
  BY <1>13 DEF TruncateVersion, InstallWork, Found, Searching, RecordingVersion
<1>14. CASE WriteVersion(i)
  BY <1>14 DEF WriteVersion, InstallWork, Found, Searching, RecordingVersion
<1>15. CASE Launch(i) \/ Killed(i)
  BY <1>15 DEF Launch, Killed, InstallWork, Searching, RecordingVersion
<1> QED
  BY <1>1, <1>2, <1>3, <1>4, <1>5, <1>6, <1>7, <1>8, <1>9, <1>10, <1>11, <1>12, <1>13, <1>14, <1>15 DEF InstallStep

(* The others: one that has the lock finds the directory as it left it.    *)
LEMMA StepKeepsOthersWork ==
  ASSUME NEW i \in Installers, NEW k \in Installers, i # k, InstallTypes, LockIsHeld, InstallWork(k), InstallStep(i)
  PROVE  InstallWork(k)'
<1>1. /\ phase'[k] = phase[k] /\ version'[k] = version[k] /\ answer'[k] = answer[k]
  BY OthersStay
<1>2. CASE Holding(k)
  <2>1. UNCHANGED Disk
    BY <1>2, HoldersChangeTheDirectory DEF LockIsHeld
  <2> QED
    BY <1>1, <2>1 DEF InstallWork, Found, Disk
<1>3. CASE ~Holding(k)
  BY <1>1, <1>3 DEF InstallWork, Holding, Searching, RecordingVersion
<1> QED
  BY <1>2, <1>3

(* A tree that is cleared or partly unpacked is counted as broken off      *)
(* until the last entry is out; only a version that was found or unpacked  *)
(* is recorded.                                                            *)
LEMMA StepKeepsTrees ==
  ASSUME NEW i \in Installers, InstallTypes, InstallWork(i), TreesKnown, InstallStep(i)
  PROVE  TreesKnown'
<1> USE DEF InstallTypes, Unasked, Disk
<1>1. CASE UNCHANGED <<tree, recorded, broken>>
  BY <1>1 DEF TreesKnown
<1>2. CASE \E yes \in BOOLEAN : RemoveTree(i, yes)
  BY <1>2 DEF RemoveTree, TreesKnown, Trees, HasShell
<1>3. CASE ExtractEntries(i)
  BY <1>3 DEF ExtractEntries, InstallWork, Searching, TreesKnown
<1>4. CASE ExtractEnds(i)
  BY <1>4 DEF ExtractEnds, HasShell, TreesKnown
<1>5. CASE TruncateVersion(i)
  BY <1>5, VersionsArePositive DEF TruncateVersion, TreesKnown
<1>6. CASE WriteVersion(i)
  BY <1>6 DEF WriteVersion, InstallWork, Found, RecordingVersion, TreesKnown
<1>7. \/ UNCHANGED <<tree, recorded, broken>>
      \/ \E yes \in BOOLEAN : RemoveTree(i, yes)
      \/ ExtractEntries(i) \/ ExtractEnds(i) \/ TruncateVersion(i) \/ WriteVersion(i)
  BY DEF InstallStep, StartInstall, AcquireLock, Download, CleanUp, ReleaseLock, Fails,
     FetchAppinstaller, CheckInstalled, ClearDownload, VerifyMsixTrust, Launch, Killed
<1> QED
  BY <1>1, <1>2, <1>3, <1>4, <1>5, <1>6, <1>7

-----------------------------------------------------------------------------

(* InstallInv is inductive.                                                      *)
LEMMA InstallNextKeeps == InstallInv /\ [InstallNext]_installVars => InstallInv'
<1> SUFFICES ASSUME InstallInv, [InstallNext]_installVars PROVE InstallInv'
  OBVIOUS
<1>1. CASE UNCHANGED installVars
  BY <1>1 DEF InstallInv, installVars, InstallTypes, LockIsHeld, Holding, InstallWork, Found, TreesKnown
<1>2. CASE Publish
  <2>1. latest' \in Versions
    BY <1>2, InstallAssumption DEF Publish, InstallInv, InstallTypes, Versions
  <2>2. UNCHANGED <<phase, request, version, answer, lock, Disk, abandoned>>
    BY <1>2 DEF Publish
  <2> QED
    BY <2>1, <2>2 DEF InstallInv, InstallTypes, LockIsHeld, Holding, InstallWork, Found, TreesKnown, Disk
<1>3. ASSUME NEW i \in Installers, InstallStep(i) PROVE InstallInv'
  <2>1. InstallTypes' /\ LockIsHeld' /\ TreesKnown'
    BY <1>3, StepKeepsTypes, StepKeepsLock, StepKeepsTrees DEF InstallInv
  <2>2. \A k \in Installers : InstallWork(k)'
    BY <1>3, StepKeepsWork, StepKeepsOthersWork DEF InstallInv
  <2> QED
    BY <2>1, <2>2 DEF InstallInv
<1> QED
  BY <1>1, <1>2, <1>3 DEF InstallNext, InstallStep

(* The invariant says what InstallsAreWhole does.                          *)
LEMMA InstallInvIsWhole == InstallInv => InstallsAreWhole
<1> SUFFICES ASSUME InstallInv PROVE InstallsAreWhole
  OBVIOUS
<1>1. AnsweredIsWhole
  BY DEF InstallInv, InstallTypes, InstallWork, Found, TreesKnown, AnsweredIsWhole
<1>2. RecordedIsWhole
  BY VersionsArePositive DEF InstallInv, InstallTypes, TreesKnown, RecordedIsWhole, Shown, HasShell
<1> QED
  BY <1>1, <1>2 DEF InstallInv, InstallsAreWhole

(* However many installers run and are killed, and whatever fails: one at  *)
(* a time works in the directory, and what is answered or recorded as      *)
(* installed is whole or known to be broken off (WindbgManager::install).  *)
THEOREM InstalledIsWhole == InstallSpec => []InstallsAreWhole
<1>1. InstallSpec => []InstallInv
  BY InstallStarts, InstallNextKeeps, PTL DEF InstallSpec
<1> QED
  BY <1>1, InstallInvIsWhole, PTL

-----------------------------------------------------------------------------
(* The invariant of the whole, and what it implies.                        *)

IInv == RegistryInv /\ CommandInv /\ RecordingInv /\ InstallInv

(* The start satisfies the invariant.                                      *)
LEMMA InitHolds == Init => IInv
<1> SUFFICES ASSUME Init PROVE IInv
  OBVIOUS
<1>1. RegistryInv /\ RecordingInv /\ InstallInv
  BY RegistryStarts, RecordingStarts, InstallStarts DEF Init
<1>2. CommandTypes
  <2>1. hits \in Seq(Hits) /\ at \in (SessionIds \cup {0}) \X (CursorIds \cup {0})
    BY DEF Init, NoHandle
  <2> QED
    BY <2>1 DEF CommandTypes, Init, Directions
<1>3. NothingLeft /\ GoneFor /\ Opening /\ Reading
  BY DEF NothingLeft, GoneFor, Opening, Reading, Init, Opens
<1>4. Sweeping
  BY DEF Sweeping, Init, Sweep
<1> QED
  BY <1>1, <1>2, <1>3, <1>4 DEF CommandInv, IInv

(* IInv is inductive.                                                      *)
LEMMA NextKeepsInvariant == IInv /\ [Next]_vars => IInv'
<1> SUFFICES ASSUME IInv, [Next]_vars PROVE IInv'
  OBVIOUS
<1> USE DEF IInv
<1>1. ASSUME UNCHANGED recordingVars PROVE RecordingInv'
  BY <1>1, RecordingStutterKeeps
<1>2. ASSUME UNCHANGED installVars PROVE InstallInv'
  BY <1>2, InstallNextKeeps
<1>3. CASE Client /\ UNCHANGED <<recordingVars, installVars>>
  BY <1>1, <1>2, <1>3, ClientKeeps
<1>4. CASE Record
  BY <1>2, <1>4, BesideKeeps, RecordingNextKeeps DEF Record
<1>5. CASE Install
  BY <1>1, <1>5, BesideKeeps, InstallNextKeeps DEF Install
<1>6. CASE UNCHANGED vars
  BY <1>1, <1>2, <1>6, BesideKeeps DEF vars
<1> QED
  BY <1>3, <1>4, <1>5, <1>6 DEF Next

(* Whatever the commands, the other clients, the recorder and the          *)
(* installers do, the invariant holds.                                     *)
THEOREM InvariantHolds == Spec => []IInv
  BY InitHolds, NextKeepsInvariant, PTL DEF Spec

(* The position the registry remembers of a native cursor is the engine's, *)
(* also under the commands, unless a failed call left the cursor behind    *)
(* (registry.rs, set_position, step, memory_watchpoint).                   *)
THEOREM RememberedIsTheEngines == Spec => []StaleOnlyAfterLeak
<1>1. IInv => StaleOnlyAfterLeak
  BY DEF IInv, RegistryInv
<1> QED
  BY <1>1, InvariantHolds, PTL

(* Everything one answer shows of a cursor is of one position, unless      *)
(* another client moved the cursor in the meantime or a watchpoint call    *)
(* had failed on it (context_snapshot_value, disasm_value).                *)
THEOREM ReadingsAlwaysAgree == Spec => []ReadingsAgree
<1>1. ASSUME IInv PROVE ReadingsAgree
  <2> SUFFICES ASSUME ~disturbed, at \notin leaked PROVE Cardinality(seen) <= 1
    BY DEF ReadingsAgree
  <2>1. seen = {} \/ \E p : seen = {p}
    BY <1>1 DEF IInv, CommandInv, Reading
  <2>2. CASE seen = {}
    BY <2>2, FS_EmptySet
  <2>3. CASE \E p : seen = {p}
    BY <2>3, FS_Singleton
  <2> QED
    BY <2>1, <2>2, <2>3
<1> QED
  BY <1>1, InvariantHolds, PTL

(* A session that was closed under a command never comes back as somebody  *)
(* else's, however many traces are opened meanwhile (allocate_session_id). *)
THEOREM ClosedStaysGone == Spec => []GoneStaysGone
<1>1. IInv => GoneStaysGone
  BY DEF IInv, CommandInv, GoneFor, RegistryInv, IdsAllocated, GoneStaysGone
<1> QED
  BY <1>1, InvariantHolds, PTL

(* How many hits a sweep of n calls has that were found: all, or all but   *)
(* the last.                                                               *)
LEMMA FoundHits ==
  ASSUME CommandTypes, NEW found, found = {i \in DOMAIN hits : hits[i].found}
  PROVE  /\ AllFound => found = DOMAIN hits /\ Cardinality(found) = Len(hits)
         /\ LastNotFound => Cardinality(found) = Len(hits) - 1
<1> DEFINE n == Len(hits)
<1>1. n \in Nat /\ DOMAIN hits = 1..n /\ (hits # <<>> => n # 0)
  BY DEF CommandTypes
<1> HIDE DEF n
<1>2. AllFound => found = 1..n
  BY <1>1 DEF AllFound
<1>3. LastNotFound => found = 1..(n - 1) /\ n # 0
  <2> SUFFICES ASSUME LastNotFound PROVE found = 1..(n - 1) /\ n # 0
    OBVIOUS
  <2>1. n # 0 /\ \A i \in 1..n : hits[i].found <=> i # n
    BY <1>1 DEF LastNotFound, n
  <2> QED
    BY <1>1, <2>1
<1>4. Cardinality(1..n) = n
  BY <1>1, FS_Interval
<1>5. n # 0 => Cardinality(1..(n - 1)) = n - 1
  BY <1>1, FS_Interval
<1> QED
  BY <1>1, <1>2, <1>3, <1>4, <1>5 DEF n

(* An open that succeeded names a cursor that is there and reports where   *)
(* it is; a sweep counts no more hits than it was allowed, says truly why  *)
(* it stopped and, when nobody else moved its cursor, has its hits in the  *)
(* order it replayed in (open_and_print, sweep_watch_memory_and_print).    *)
THEOREM ReportsAlwaysMatch == Spec => []ReportsMatchTheCursor
<1>1. ASSUME IInv PROVE ReportsMatchTheCursor
  <2> USE <1>1 DEF IInv, CommandInv
  <2> DEFINE found == {i \in DOMAIN hits : hits[i].found}
             apart == \A i, k \in found : i # k => Sequence(hits[i].position) # Sequence(hits[k].position)
  <2>1. ASSUME status = "ok", command \in {"open", "open_at"}, ~disturbed
        PROVE  at \in cursors /\ seen \subseteq {PositionOf(at)}
    <3>1. at \in cursors
      BY <2>1 DEF Opening, Opens
    <3>2. seen = {} \/ seen = {PositionOf(at)}
      BY <2>1 DEF Reading
    <3> QED
      BY <3>1, <3>2
  <2>2. ASSUME status = "ok", command = "sweep_watch_memory"
        PROVE  /\ Cardinality(found) <= MaxHits
               /\ stopReason = "max_hits" <=> Cardinality(found) = MaxHits /\ apart
               /\ stopReason = "not_found" <=> Cardinality(found) < Len(hits)
               /\ ~disturbed =>
                    \A i, k \in DOMAIN hits : i < k => Reaches(direction, hits[i].position, hits[k].position)
    <3>1. Stopped /\ (~disturbed => InOrder)
      BY <2>2 DEF Sweeping, Sweep, InOrder
    <3>2. Len(hits) \in Nat /\ MaxHits \in Nat
      BY CommandAssumption DEF CommandTypes
    <3>3. /\ AllFound => found = DOMAIN hits /\ Cardinality(found) = Len(hits)
          /\ LastNotFound => Cardinality(found) = Len(hits) - 1
      BY FoundHits
    <3>4. AllFound => (apart <=> Distinct)
      BY <3>3 DEF Distinct
    <3> HIDE DEF found, apart
    <3>5. /\ Cardinality(found) <= MaxHits
          /\ stopReason = "max_hits" <=> Cardinality(found) = MaxHits /\ apart
          /\ stopReason = "not_found" <=> Cardinality(found) < Len(hits)
      <4>1. CASE stopReason = "not_found" /\ LastNotFound /\ Len(hits) <= MaxHits
        BY <3>2, <3>3, <4>1
      <4>2. CASE stopReason = "duplicate_position" /\ AllFound /\ ~Distinct /\ Len(hits) <= MaxHits
        <5>1. ~apart /\ stopReason # "max_hits" /\ stopReason # "not_found"
          BY <3>4, <4>2
        <5>2. Cardinality(found) = Len(hits)
          BY <3>3, <4>2
        <5>3. Cardinality(found) <= MaxHits /\ ~(Cardinality(found) < Len(hits))
          BY <3>2, <4>2, <5>2
        <5> QED
          BY <5>1, <5>3
      <4>3. CASE stopReason = "max_hits" /\ AllFound /\ Distinct /\ Len(hits) = MaxHits
        BY <3>2, <3>3, <3>4, <4>3
      <4> QED
        BY <3>1, <4>1, <4>2, <4>3 DEF Stopped
    <3> QED
      BY <3>1, <3>5 DEF InOrder
  <2> QED
    BY <2>1, <2>2 DEF ReportsMatchTheCursor
<1> QED
  BY <1>1, InvariantHolds, PTL

(* The same of a recording beside the client and the installers: what      *)
(* `trace record` reports as recorded has ended and is written out.        *)
THEOREM RecordingsAlwaysFinal == Spec => []RecordingsAreFinal
<1>1. IInv => RecordingsAreFinal
  BY RecordingInvIsFinal DEF IInv
<1> QED
  BY <1>1, InvariantHolds, PTL

(* ... and of the installers beside them: what is answered or recorded as  *)
(* installed is whole or known to be broken off.                           *)
THEOREM InstallsAlwaysWhole == Spec => []InstallsAreWhole
<1>1. IInv => InstallsAreWhole
  BY InstallInvIsWhole DEF IInv
<1> QED
  BY <1>1, InvariantHolds, PTL

-----------------------------------------------------------------------------
(* The answers of the replay service, for every input.                     *)

(* A list that did not grow between the two calls of the bridge is answered*)
(* whole and without a row of the buffer's default, however long it is.    *)
THEOREM ListsAreAnsweredWhole ==
  ASSUME NEW Row, NEW before \in Seq(Row), NEW after \in Seq(Row), Len(after) <= Len(before)
  PROVE  TwoCalls(before, after) = after
<1> DEFINE counted == Len(before)
           buffer == [i \in 1..counted |-> IF i <= Len(after) THEN after[i] ELSE DefaultRow]
<1>1. Len(before) \in Nat /\ Len(after) \in Nat /\ Least(Len(after), counted) = Len(after)
  BY DEF Least
<1>2. TwoCalls(before, after) = SubSeq(buffer, 1, Len(after))
  BY <1>1 DEF TwoCalls, ListCall
<1>3. buffer \in Seq(Row \cup {DefaultRow}) /\ Len(buffer) = counted
  BY <1>1
<1>4. /\ SubSeq(buffer, 1, Len(after)) \in Seq(Row \cup {DefaultRow})
      /\ Len(SubSeq(buffer, 1, Len(after))) = Len(after)
      /\ \A i \in 1..Len(after) : SubSeq(buffer, 1, Len(after))[i] = after[i]
  BY <1>1, <1>3
<1> HIDE DEF buffer
<1> QED
  BY <1>1, <1>2, <1>4

\* What the engine may answer for a window of any size.
AnswersOf(address, size) ==
  {w \in [address : Nat, size : Nat, inPlace : BOOLEAN] :
     address <= w.address /\ w.address + w.size <= address + size}

(* The answer to a read starts where the engine's window does and has its  *)
(* bytes, from whichever buffer they came.                                 *)
LEMMA WhatIsRead ==
  ASSUME NEW address \in Nat, NEW size \in Nat, NEW w \in AnswersOf(address, size)
  PROVE  /\ ReadMemory(w, address, size).address = w.address
         /\ ReadMemory(w, address, size).bytes = w.size
         /\ Len(ReadMemory(w, address, size).data) = w.size
         /\ ReadMemory(w, address, size).data = [i \in 1..w.size |-> w.address + i - 1]
<1> DEFINE buffer == EngineBuffer(w, address, size)
           front == InFront(w, address, size)
<1>1. w.address \in Nat /\ w.size \in Nat /\ w.size <= size /\ Least(size, w.size) = w.size
  BY DEF AnswersOf, Least
<1>2. buffer \in Seq(Nat) /\ Len(buffer) = size
  BY <1>1 DEF EngineBuffer
<1>3. Least(Len(buffer), w.size) = w.size
  BY <1>1, <1>2
<1> HIDE DEF buffer
<1>4. /\ front \in Seq(Nat) /\ Len(front) = size
      /\ \A i \in 1..w.size : front[i] = w.address + i - 1
  <2>1. front = [i \in 1..size |-> IF i <= w.size THEN w.address + i - 1 ELSE buffer[i]]
    BY <1>2, <1>3 DEF InFront, MovedToFront, buffer
  <2> HIDE DEF front
  <2>2. \A i \in 1..size : (IF i <= w.size THEN w.address + i - 1 ELSE buffer[i]) \in Nat
    BY <1>1, <1>2
  <2> QED
    BY <1>1, <2>1, <2>2
<1>5. /\ Len(SubSeq(front, 1, w.size)) = w.size
      /\ SubSeq(front, 1, w.size) = [i \in 1..w.size |-> w.address + i - 1]
  <2> HIDE DEF front
  <2>1. /\ SubSeq(front, 1, w.size) \in Seq(Nat)
        /\ Len(SubSeq(front, 1, w.size)) = w.size
        /\ \A i \in 1..w.size : SubSeq(front, 1, w.size)[i] = w.address + i - 1
    BY <1>1, <1>4
  <2> QED
    BY <1>1, <2>1
<1>6. BridgeRead(w, address, size) =
        [address |-> w.address, bytes |-> w.size, data |-> SubSeq(front, 1, w.size)]
  BY <1>1 DEF BridgeRead
<1> DEFINE data == SubSeq(front, 1, w.size)
<1>7. ReadMemory(w, address, size) =
        [refused |-> FALSE, address |-> w.address, bytes |-> w.size,
         complete |-> w.address = address /\ w.size = size, data |-> data]
  BY <1>6 DEF ReadMemory
<1> HIDE DEF front, data
<1>8. Len(data) = w.size /\ data = [i \in 1..w.size |-> w.address + i - 1]
  BY <1>5 DEF data
<1>9. /\ ReadMemory(w, address, size).address = w.address
      /\ ReadMemory(w, address, size).bytes = w.size
      /\ ReadMemory(w, address, size).data = data
  BY <1>7
<1> QED
  BY <1>8, <1>9

(* An answer is complete exactly if the window is what was asked for.      *)
LEMMA CompleteMeansAll ==
  ASSUME NEW address \in Nat, NEW size \in Nat, NEW w \in AnswersOf(address, size)
  PROVE  ReadMemory(w, address, size).complete <=> w.address = address /\ w.size = size
<1> DEFINE whole == w.address = address /\ w.size = size
           data == SubSeq(InFront(w, address, size), 1, w.size)
<1>1. w.size \in Nat /\ w.size <= size
  BY DEF AnswersOf
<1>2. Least(size, w.size) = w.size
  BY <1>1 DEF Least
<1>3. BridgeRead(w, address, size) = [address |-> w.address, bytes |-> w.size, data |-> data]
  BY <1>2 DEF BridgeRead
<1> HIDE DEF data
<1>4. ReadMemory(w, address, size) =
        [refused |-> FALSE, address |-> w.address, bytes |-> w.size, complete |-> whole, data |-> data]
  BY <1>3 DEF ReadMemory
<1>5. whole \in BOOLEAN
  OBVIOUS
<1> HIDE DEF whole
<1>6. ReadMemory(w, address, size).complete = whole
  BY <1>4
<1> QED
  BY <1>5, <1>6 DEF whole

(* For every address and size, and whatever part of it the engine knows:   *)
(* a byte of the answer is the one of its address, the answer is complete  *)
(* exactly if it is all that was asked for, and an exact read is nothing   *)
(* else (ttd_mcp_read_memory, read_exact_memory).                          *)
THEOREM BytesAreAlwaysTheirs ==
  ASSUME NEW address \in Nat, NEW size \in Nat, NEW w \in AnswersOf(address, size)
  PROVE  LET read == ReadMemory(w, address, size)
             All == [i \in 1..size |-> address + i - 1]
         IN /\ \A i \in DOMAIN read.data : read.data[i] = read.address + i - 1
            /\ read.complete <=> read.data = All
            /\ Exact(read, address, size) # Refused => Exact(read, address, size).data = All
<1> DEFINE read == ReadMemory(w, address, size)
           All == [i \in 1..size |-> address + i - 1]
<1>1. /\ w.address \in Nat /\ w.size \in Nat
      /\ address <= w.address /\ w.address + w.size <= address + size
  BY DEF AnswersOf
<1>2. /\ read.address = w.address /\ read.bytes = w.size
      /\ Len(read.data) = w.size /\ read.data = [i \in 1..w.size |-> w.address + i - 1]
  BY WhatIsRead
<1>7. read.complete <=> w.address = address /\ w.size = size
  BY CompleteMeansAll, Zenon
<1> HIDE DEF read
<1>3. w.address = address /\ w.size = size => read.data = All
  BY <1>2
<1>4. read.data = All => w.address = address /\ w.size = size
  <2> SUFFICES ASSUME read.data = All PROVE w.size = size
    BY <1>1
  <2>1. DOMAIN read.data = 1..w.size /\ DOMAIN read.data = 1..size
    BY <1>2
  <2> HIDE DEF All
  <2>2. 1..w.size = 1..size
    BY <2>1
  <2> QED
    BY <1>1, <2>2
<1>5. \A i \in DOMAIN read.data : read.data[i] = read.address + i - 1
  BY <1>2
<1>6. Exact(read, address, size) # Refused =>
        Exact(read, address, size) = read /\ w.address = address /\ w.size = size
  BY <1>2 DEF Exact
<1> HIDE DEF All
<1> QED
  BY <1>2, <1>3, <1>4, <1>5, <1>6, <1>7 DEF read, All

(* A command line that is answered is the string the parameters point to,  *)
(* all of it (ttd_command_line).                                           *)
THEOREM CommandLinesAreTheirs ==
  ASSUME NEW peb, NEW parameters, NEW s \in [length : Nat, maximum : Nat, buffer : Nat],
         NEW address \in Nat, NEW w \in AnswersOf(address, s.length),
         CommandLine(peb, parameters, s, ReadMemory(w, address, s.length)) # Refused
  PROVE  CommandLine(peb, parameters, s, ReadMemory(w, address, s.length)).data
           = [i \in 1..s.length |-> s.buffer + i - 1]
<1> DEFINE read == ReadMemory(w, address, s.length)
<1>1. CommandLine(peb, parameters, s, read) = Exact(read, s.buffer, s.length)
  BY DEF CommandLine
<1> s.length \in Nat
  OBVIOUS
<1>2. /\ read.address = w.address /\ read.bytes = w.size
      /\ read.data = [i \in 1..w.size |-> w.address + i - 1]
  BY WhatIsRead
<1> HIDE DEF read
<1>3. Exact(read, s.buffer, s.length) = read /\ w.address = s.buffer /\ w.size = s.length
  BY <1>1, <1>2 DEF Exact, read
<1> QED
  BY <1>1, <1>2, <1>3 DEF read

(* A percentage of a span lies in it, and a higher one does not lie before *)
(* a lower one.                                                            *)
LEMMA Shares ==
  ASSUME NEW span \in Nat, NEW p \in 0..100, NEW q \in 0..100, p <= q
  PROVE  /\ (span * p) \div 100 \in 0..span
         /\ (span * p) \div 100 <= (span * q) \div 100
<1>1. span * p \in Nat /\ span * q \in Nat
  OBVIOUS
<1>2. span * p <= span * q /\ span * q <= span * 100
  OBVIOUS
<1> DEFINE a == span * p  b == span * q
<1>3. a \in Nat /\ b \in Nat /\ a <= b /\ b <= span * 100
  BY <1>1, <1>2
<1> HIDE DEF a, b
<1>4. a \div 100 \in Nat /\ b \div 100 \in Nat /\ a \div 100 <= b \div 100 /\ b \div 100 <= span
  BY <1>3
<1> QED
  BY <1>4 DEF a, b

(* A percentage of any trace is one of its sequences, later for a higher   *)
(* percentage and the last one at 100 and beyond (resolve_against).        *)
THEOREM PercentsStayInside ==
  ASSUME NEW start \in Nat, NEW end \in Nat, start <= end, NEW p \in Nat, NEW q \in Nat, p <= q
  PROVE  /\ Percent(p, start, end) \in start..end
         /\ Percent(p, start, end) <= Percent(q, start, end)
         /\ p >= 100 => Percent(p, start, end) = end
<1> DEFINE span == end - start
<1>1. span \in Nat /\ start + span = end
  OBVIOUS
<1>2. /\ Least(p, 100) \in 0..100 /\ Least(q, 100) \in 0..100 /\ Least(p, 100) <= Least(q, 100)
      /\ p >= 100 => Least(p, 100) = 100
  BY DEF Least
<1>3. /\ Percent(p, start, end) = start + (span * Least(p, 100)) \div 100
      /\ Percent(q, start, end) = start + (span * Least(q, 100)) \div 100
  BY DEF Percent
<1> HIDE DEF span
<1>4. /\ (span * Least(p, 100)) \div 100 \in 0..span
      /\ (span * Least(p, 100)) \div 100 <= (span * Least(q, 100)) \div 100
      /\ (span * Least(q, 100)) \div 100 \in 0..span
  <2> DEFINE a == Least(p, 100)  b == Least(q, 100)
  <2>1. a \in 0..100 /\ b \in 0..100 /\ a <= b
    BY <1>2
  <2>2. b <= b
    BY <2>1
  <2> HIDE DEF a, b
  <2>3. (span * a) \div 100 \in 0..span /\ (span * a) \div 100 <= (span * b) \div 100
    BY <1>1, <2>1, Shares
  <2>4. (span * b) \div 100 \in 0..span
    BY <1>1, <2>1, <2>2, Shares
  <2> QED
    BY <2>3, <2>4 DEF a, b
<1>5. (span * 100) \div 100 = span
  BY <1>1
<1>6. p >= 100 => (span * Least(p, 100)) \div 100 = span
  BY <1>2, <1>5
<1> DEFINE a == (span * Least(p, 100)) \div 100
           b == (span * Least(q, 100)) \div 100
<1>7. a \in 0..span /\ a <= b /\ b \in 0..span /\ (p >= 100 => a = span)
  BY <1>4, <1>6
<1>8. Percent(p, start, end) = start + a /\ Percent(q, start, end) = start + b
  BY <1>3
<1> HIDE DEF a, b
<1> QED
  BY <1>1, <1>7, <1>8

-----------------------------------------------------------------------------
(* Modules, threads and ranges.                                            *)

(* An answer with a module in it is no refusal.                            *)
LEMMA AnsweredModule ==
  ASSUME NEW by, NEW m
  PROVE  [matchedBy |-> by, module |-> m] # Refused
<1>1. "matchedBy" \in DOMAIN [matchedBy |-> by, module |-> m]
  OBVIOUS
<1>2. "matchedBy" \notin DOMAIN Refused
  BY DEF Refused
<1> QED
  BY <1>1, <1>2

ModulesIn == [name : STRING, base : Nat, size : Nat]

(* The first of the rows that were hit is one of them.                     *)
LEMMA FirstIsHit ==
  ASSUME NEW rows, NEW covering, covering \subseteq Nat, covering # {}
  PROVE  \E i \in covering : FirstOf(rows, covering) = rows[i] /\ \A j \in covering : i <= j
<1>1. \E i \in covering : \A j \in covering : i <= j
  BY LeastExists
<1> QED
  BY <1>1 DEF FirstOf

(* A module is found for an address exactly if a row covers it, and it is  *)
(* the first one that does.                                                *)
LEMMA ModuleFound ==
  ASSUME NEW rows \in Seq(ModulesIn), NEW address \in Nat
  PROVE  /\ ModuleAt(address, rows) # NoModule <=> \E i \in DOMAIN rows : InModule(address, rows[i])
         /\ ModuleAt(address, rows) # NoModule => InModule(address, ModuleAt(address, rows))
<1> DEFINE covering == {i \in DOMAIN rows : InModule(address, rows[i])}
<1>1. covering \subseteq Nat
  OBVIOUS
<1>2. ModuleAt(address, rows) = FirstOf(rows, covering)
  BY DEF ModuleAt
<1>3. covering = {} => ModuleAt(address, rows) = NoModule
  BY <1>2 DEF FirstOf
<1>4. ASSUME covering # {}
      PROVE  InModule(address, ModuleAt(address, rows)) /\ ModuleAt(address, rows) # NoModule
  <2> HIDE DEF covering
  <2>1. PICK i \in covering : FirstOf(rows, covering) = rows[i]
    BY <1>1, <1>4, FirstIsHit
  <2>2. i \in DOMAIN rows /\ InModule(address, rows[i])
    BY <2>1 DEF covering
  <2>3. ~InModule(address, NoModule)
    BY DEF InModule, NoModule
  <2> QED
    BY <1>2, <2>1, <2>2, <2>3
<1>5. covering # {} <=> \E i \in DOMAIN rows : InModule(address, rows[i])
  OBVIOUS
<1> HIDE DEF covering
<1> QED
  BY <1>3, <1>4, <1>5

(* For any modules, any stack and any address of a process: the address is *)
(* called one of a module exactly if ttd_module_info finds a module there, *)
(* one of the stack only if ttd_stack_info has it in the stack's range; a  *)
(* module that is found by its address is the same whatever name is asked  *)
(* for; and an offset leads there and back (classify_address, module_info, *)
(* stack_context, signed_delta).                                           *)
THEOREM LookupsAlwaysAgree ==
  ASSUME NEW rows \in Seq(ModulesIn), NEW address \in Nat, NEW name \in STRING,
         NEW stack \in [base : Nat, limit : Nat] \cup {Refused}, NEW teb, NEW peb
  PROVE  LET byAddress == ModuleInfo(address, "", rows)
             class == Classify(address, rows, stack, teb, peb)
         IN /\ class = "module" <=> byAddress # Refused
            /\ byAddress # Refused =>
                 /\ InModule(address, byAddress.module)
                 /\ ModuleInfo(address, name, rows) = byAddress
            /\ class = "stack" => stack # Refused /\ PointerInRange(address, stack)
<1> DEFINE first == ModuleAt(address, rows)
           class == Classify(address, rows, stack, teb, peb)
<1>1. address # Absent
  BY DEF Absent
<1>2. CASE first # NoModule
  <2>1. /\ ModuleInfo(address, "", rows) = [matchedBy |-> "address", module |-> first]
        /\ ModuleInfo(address, name, rows) = [matchedBy |-> "address", module |-> first]
    BY <1>1, <1>2 DEF ModuleInfo
  <2>2. class = "module"
    BY <1>2 DEF Classify
  <2>3. [matchedBy |-> "address", module |-> first] # Refused
    BY AnsweredModule
  <2>4. InModule(address, first)
    BY <1>2, ModuleFound
  <2>5. [matchedBy |-> "address", module |-> first].module = first
    OBVIOUS
  <2>6. class # "stack"
    BY <2>2
  <2> DEFINE found == [matchedBy |-> "address", module |-> first]
  <2> HIDE DEF first, class, found
  <2> QED
    BY <2>1, <2>2, <2>3, <2>4, <2>5, <2>6 DEF class, found
<1>3. CASE first = NoModule
  <2>1. ModuleInfo(address, "", rows) = Refused
    BY <1>1, <1>3 DEF ModuleInfo
  <2>2. class # "module"
    BY <1>3 DEF Classify
  <2>3. class = "stack" => stack # Refused /\ InStack(address, stack)
    BY <1>3 DEF Classify
  <2>4. stack # Refused /\ InStack(address, stack) => PointerInRange(address, stack)
    BY DEF InStack, PointerInRange
  <2> HIDE DEF class
  <2> QED
    BY <2>1, <2>2, <2>3, <2>4 DEF class
<1> QED
  BY <1>2, <1>3

\* The threads the engine has, each with ids of its own.
Listed(threads) ==
  \A i, k \in DOMAIN threads : threads[i].id # 0 /\ threads[i].id # Absent /\ (threads[i].id = threads[k].id => i = k)

(* For any threads and modules, whichever thread is the current one: the   *)
(* register context of a thread is its row among the active threads, and   *)
(* without a thread it is that of the current one (register_context,       *)
(* ttd_mcp_active_threads, ttd_mcp_x64_context).                           *)
THEOREM ThreadsAlwaysAgree ==
  ASSUME NEW Thread, NEW threads \in Seq(Thread), Listed(threads), NEW rows,
         NEW current \in DOMAIN threads, NEW i \in DOMAIN threads
  PROVE  LET listed == ActiveThreads(threads, current, rows)
         IN /\ DOMAIN listed = DOMAIN threads
            /\ RegisterContext(threads, current, threads[i].id, rows) = listed[i]
            /\ \A id \in {0, Absent} : RegisterContext(threads, current, id, rows) = listed[current]
            /\ ThreadState(CursorState(threads, current)) = listed[current].state
<1> DEFINE Row(k) == [state |-> ThreadState(threads[k]), module |-> ModuleAt(ThreadState(threads[k]).pc, rows)]
<1>1. TwoCalls(threads, BridgeThreads(threads, current)) = threads
  <2>1. Len(threads) <= Len(threads)
    OBVIOUS
  <2> QED
    BY <2>1, ListsAreAnsweredWhole DEF BridgeThreads
<1>2. \A k \in DOMAIN threads : ThreadState(threads[k]).pc = threads[k].pc
  BY DEF ThreadState
<1>3. ActiveThreads(threads, current, rows) = [k \in DOMAIN threads |-> Row(k)]
  BY <1>1, <1>2 DEF ActiveThreads
<1>4. ThreadAsked(threads, current, threads[i].id) = i
  BY DEF ThreadAsked, Listed
<1>5. \A id \in {0, Absent} : ThreadAsked(threads, current, id) = current
  BY DEF ThreadAsked
<1>6. \A id : RegisterContext(threads, current, id, rows) = Row(ThreadAsked(threads, current, id))
  BY DEF RegisterContext, X64Context
<1>7. Row(current).state = ThreadState(threads[current])
  OBVIOUS
<1> HIDE DEF Row
<1> QED
  BY <1>3, <1>4, <1>5, <1>6, <1>7 DEF CursorState

(* A range is complete exactly when all of it was copied                   *)
(* (ttd_mcp_query_memory_range).                                           *)
LEMMA RangesAreComplete ==
  ASSUME NEW range \in [address : Nat, size : Nat], NEW address \in Nat \ {0}, NEW limit \in 0..MaxRead
  PROVE  RegistryRange(TRUE, range, address, limit).complete <=>
           Len(RegistryRange(TRUE, range, address, limit).data) = range.size
<1> DEFINE copied == Least(limit, range.size)
           data == [i \in 1..copied |-> range.address + i - 1]
<1>1. copied \in Nat
  BY DEF Least, MaxRead
<1>2. RegistryRange(TRUE, range, address, limit) = MemoryRange(range, limit)
  <2>1. address # 0 /\ ~(limit > MaxRead)
    BY DEF MaxRead
  <2> QED
    BY <2>1, Zenon DEF RegistryRange
<1>3. Len(data) = copied
  BY <1>1
<1> HIDE DEF copied, data
<1>4. /\ MemoryRange(range, limit).data = data
      /\ MemoryRange(range, limit).complete = (copied = range.size)
  BY DEF MemoryRange, BridgeRange, data, copied
<1> QED
  BY <1>2, <1>3, <1>4

Spans == [address : Nat, size : Nat]

(* For any ranges of the window that was read: a range is reported unless  *)
(* the answer says that ranges are missing, and the offset of a range that *)
(* has bytes leads to its first byte in the data of the same answer,       *)
(* wherever the engine read it (ttd_mcp_query_memory_buffer_with_ranges).  *)
THEOREM RangesAlwaysLeadHome ==
  ASSUME NEW address \in Nat \ {0}, NEW size \in 1..MaxRead, NEW w \in AnswersOf(address, size),
         NEW ranges \in Seq(Spans), NEW limit \in 1..MaxRanges,
         \A i \in DOMAIN ranges :
           w.address <= ranges[i].address /\ ranges[i].address + ranges[i].size <= w.address + w.size
  PROVE  LET b == RegistryBuffer(TRUE, w, ranges, address, size, limit)
         IN /\ b.truncated <=> Len(b.ranges) < Len(ranges)
            /\ \A i \in DOMAIN b.ranges :
                 /\ b.ranges[i].address = ranges[i].address /\ b.ranges[i].size = ranges[i].size
                 /\ b.ranges[i].size > 0 =>
                      /\ b.ranges[i].offset + 1 \in DOMAIN b.read.data
                      /\ b.read.data[b.ranges[i].offset + 1] = b.ranges[i].address
<1> DEFINE read == ReadMemory(w, address, size)
           kept == Least(Len(ranges), limit)
           Offset(r) == IF r.address >= w.address THEN Least(r.address - w.address, MaxOffset) ELSE 0
           rows == [i \in 1..kept |->
                      [address |-> ranges[i].address, size |-> ranges[i].size, offset |-> Offset(ranges[i])]]
           b == RegistryBuffer(TRUE, w, ranges, address, size, limit)
<1>1. /\ size \in Nat /\ size <= 4 /\ limit \in Nat /\ limit # 0 /\ limit <= MaxRanges /\ size # 0 /\ size <= MaxRead
      /\ MaxOffset = 3
  BY DEF MaxRead, MaxRanges, MaxOffset
<1>2. b = MemoryBuffer(w, ranges, address, size, limit)
  BY <1>1 DEF RegistryBuffer, MaxRead, MaxRanges
<1>3. BridgeRanges(w, ranges, limit) = rows
  BY DEF BridgeRanges
<1> HIDE DEF rows, read
<1> DEFINE cut == Len(ranges) > limit
<1> HIDE DEF cut
<1>4. b.read = read /\ (b.truncated <=> cut) /\ b.ranges = rows
  <2>1. MemoryBuffer(w, ranges, address, size, limit) = [read |-> read, truncated |-> cut, ranges |-> rows]
    BY <1>3, Zenon DEF MemoryBuffer, read, cut
  <2>2. cut \in BOOLEAN
    BY DEF cut
  <2> HIDE DEF b
  <2>3. b = [read |-> read, truncated |-> cut, ranges |-> rows]
    BY <1>2, <2>1 DEF b
  <2> QED
    BY <2>2, <2>3
<1>5. kept \in Nat /\ kept <= Len(ranges) /\ (Len(ranges) > limit <=> kept < Len(ranges))
  BY <1>1 DEF Least
<1>6. Len(rows) = kept /\ DOMAIN rows = 1..kept
  BY <1>5 DEF rows
<1>7. /\ w.address \in Nat /\ w.size \in Nat /\ w.size <= size
      /\ DOMAIN read.data = 1..w.size
      /\ \A k \in 1..w.size : read.data[k] = w.address + k - 1
  <2>1. w.address \in Nat /\ w.size \in Nat /\ w.size <= size
    BY <1>1 DEF AnswersOf
  <2>2. read.data = [i \in 1..w.size |-> w.address + i - 1]
    BY <1>1, WhatIsRead DEF read
  <2> QED
    BY <2>1, <2>2
<1>8. ASSUME NEW i \in DOMAIN rows
      PROVE  /\ rows[i].address = ranges[i].address /\ rows[i].size = ranges[i].size
             /\ rows[i].size > 0 =>
                  /\ rows[i].offset + 1 \in 1..w.size
                  /\ w.address + (rows[i].offset + 1) - 1 = rows[i].address
  <2> HIDE DEF kept, b
  <2>4. i \in 1..Len(ranges)
    BY <1>5, <1>6
  <2>5. ranges[i] \in Spans /\ i \in DOMAIN ranges
    BY <2>4
  <2>1. /\ i \in DOMAIN ranges /\ ranges[i].address \in Nat /\ ranges[i].size \in Nat
        /\ w.address <= ranges[i].address /\ ranges[i].address + ranges[i].size <= w.address + w.size
    BY <2>5 DEF Spans
  <2>2. /\ rows[i].address = ranges[i].address /\ rows[i].size = ranges[i].size
        /\ rows[i].offset = Offset(ranges[i])
    BY <1>6 DEF rows
  <2>3. ranges[i].size > 0 => Offset(ranges[i]) = ranges[i].address - w.address
    <3> DEFINE y == ranges[i].size  c == ranges[i].address  v == w.address  u == w.size
    <3>1. y \in Nat /\ c \in Nat /\ v \in Nat /\ u \in Nat /\ u <= 4 /\ v <= c /\ c + y <= v + u
      BY <1>1, <1>7, <2>1
    <3>2. Offset(ranges[i]) = IF c >= v THEN Least(c - v, 3) ELSE 0
      BY <1>1
    <3> HIDE DEF y, c, v, u, Offset
    <3>3. y > 0 => Least(c - v, 3) = c - v /\ c >= v
      BY <3>1 DEF Least
    <3> QED
      BY <3>2, <3>3 DEF y, c, v
  <2> DEFINE z == ranges[i].size  a == ranges[i].address  o == Offset(ranges[i])
  <2>6. z \in Nat /\ a \in Nat /\ w.address <= a /\ a + z <= w.address + w.size /\ (z > 0 => o = a - w.address)
    BY <2>1, <2>3
  <2>7. rows[i].size = z /\ rows[i].address = a /\ rows[i].offset = o
    BY <2>2
  <2> HIDE DEF Offset, z, a, o
  <2>8. z > 0 => o + 1 \in 1..w.size /\ w.address + (o + 1) - 1 = a
    BY <1>7, <2>6
  <2> QED
    BY <2>2, <2>7, <2>8
<1> HIDE DEF b, kept
<1>9. b.truncated <=> Len(b.ranges) < Len(ranges)
  BY <1>4, <1>5, <1>6 DEF cut
<1> QED
  BY <1>4, <1>7, <1>8, <1>9 DEF b

-----------------------------------------------------------------------------
(* What a trace is opened with, and what it offers.                        *)

(* A bridge is loaded exactly if a candidate loads, and it is the first of *)
(* those (NativeBridge::load).                                             *)
LEMMA FirstBridgeLoads ==
  ASSUME NEW candidates \in Seq(STRING), BridgeLoaded(candidates) # "none"
  PROVE  \E i \in DOMAIN candidates :
           /\ BridgeLoaded(candidates) = candidates[i]
           /\ \A j \in DOMAIN candidates : j < i => candidates[j] \in {"missing", "broken"}
<1> DEFINE there == {i \in DOMAIN candidates : candidates[i] \notin {"missing", "broken"}}
<1>1. there \subseteq Nat /\ there \subseteq DOMAIN candidates
  OBVIOUS
<1>2. there # {}
  BY DEF BridgeLoaded
<1>3. BridgeLoaded(candidates) = candidates[CHOOSE i \in there : \A j \in there : i <= j]
  BY <1>2 DEF BridgeLoaded
<1>4. \A j \in DOMAIN candidates : j \notin there => candidates[j] \in {"missing", "broken"}
  OBVIOUS
<1>5. DOMAIN candidates \subseteq Nat
  OBVIOUS
<1> HIDE DEF there
<1>6. PICK i \in there : BridgeLoaded(candidates) = candidates[i] /\ \A j \in there : i <= j
  BY <1>1, <1>2, <1>3, LeastExists
<1> QED
  BY <1>1, <1>4, <1>5, <1>6

(* For any candidates for the bridge and any trace list: a placeholder is  *)
(* never what an explicit index or companion file leads to, a session is   *)
(* native only through a bridge with the engine, of which every candidate  *)
(* before it did not load, and only with an index the list has             *)
(* (load_trace, try_open_native_trace, NativeBridge::load).                *)
THEOREM ChoicesAreNeverDropped ==
  ASSUME NEW candidates \in Seq(STRING), NEW extensionOk \in BOOLEAN, NEW listed \in BOOLEAN, NEW entries,
         NEW index \in Nat \cup {Absent}, NEW companion \in BOOLEAN, NEW opens \in BOOLEAN
  PROVE  LET loaded == LoadOutcome(extensionOk, BridgeLoaded(candidates), listed, entries, index, companion, opens)
         IN /\ loaded = "placeholder" => index = Absent /\ ~companion
            /\ loaded = "native" =>
                 /\ opens
                 /\ index # Absent => listed /\ index \in entries
                 /\ companion => listed
                 /\ \E i \in DOMAIN candidates :
                      /\ candidates[i] = "engine"
                      /\ \A j \in DOMAIN candidates : j < i => candidates[j] \in {"missing", "broken"}
<1> DEFINE bridge == BridgeLoaded(candidates)
           loaded == LoadOutcome(extensionOk, bridge, listed, entries, index, companion, opens)
           opened == OpenNative(bridge, listed, entries, index, companion, opens)
<1>1. bridge = "engine" =>
        \E i \in DOMAIN candidates :
          /\ candidates[i] = "engine"
          /\ \A j \in DOMAIN candidates : j < i => candidates[j] \in {"missing", "broken"}
  BY FirstBridgeLoads
<1> HIDE DEF bridge
<1>2. opened =>
        /\ bridge = "engine" /\ opens
        /\ index # Absent => listed /\ index \in entries
        /\ companion => listed
  BY DEF OpenNative, Implemented
<1>3. opened \in BOOLEAN
  BY DEF OpenNative
<1>4. loaded = "native" => opened
  BY <1>3 DEF LoadOutcome
<1>5. loaded = "placeholder" => index = Absent /\ ~companion
  BY <1>3 DEF LoadOutcome
<1> HIDE DEF opened, loaded
<1> QED
  BY <1>1, <1>2, <1>4, <1>5 DEF loaded, bridge

(* Whatever the trace, an operation that ttd_capabilities offers is not    *)
(* refused for want of a native trace or of a PEB, and one that needs no   *)
(* native trace is always offered (capabilities).                          *)
LEMMA OfferedIsSupported ==
  ASSUME NEW isNative \in BOOLEAN, NEW hasPeb \in BOOLEAN
  PROVE  /\ \A operation \in Features(isNative, hasPeb) : ~LacksSupport(operation, isNative, hasPeb)
         /\ Everywhere \subseteq Features(isNative, hasPeb)
<1>1. Everywhere \cap NativeOnly = {} /\ "command_line" \notin Everywhere /\ "module_info" \notin Everywhere
  BY DEF Everywhere, NativeOnly
<1>2. CASE isNative
  BY <1>1, <1>2 DEF Features, LacksSupport, Operations
<1>3. CASE ~isNative
  BY <1>1, <1>3 DEF Features, LacksSupport, Operations
<1> QED
  BY <1>2, <1>3

(* Every kind of access that a watchpoint can be set for has a bit of its  *)
(* own, which is reported under its name (memory_access_kind,              *)
(* native_memory_access_mask).                                             *)
LEMMA KindsAreTheirs ==
  \A access \in Accesses \cup {"read_write", "all"} : \A bit \in Mask(access) :
    AccessKind(bit) \in Accesses /\ Mask(AccessKind(bit)) = {bit}
<1>1. \A bit \in 0..7 : AccessKind(bit) \in Accesses /\ Mask(AccessKind(bit)) = {bit}
  <2>1. AccessKind(0) = "read" /\ AccessKind(1) = "write" /\ AccessKind(2) = "execute" /\ AccessKind(3) = "code_fetch"
    BY DEF AccessKind
  <2>2. /\ AccessKind(4) = "overwrite" /\ AccessKind(5) = "data_mismatch"
        /\ AccessKind(6) = "new_data" /\ AccessKind(7) = "redundant_data"
    BY DEF AccessKind
  <2>3. \A bit \in 0..7 : bit = 0 \/ bit = 1 \/ bit = 2 \/ bit = 3 \/ bit = 4 \/ bit = 5 \/ bit = 6 \/ bit = 7
    OBVIOUS
  <2>4. /\ Mask("read") = {0} /\ Mask("write") = {1} /\ Mask("execute") = {2} /\ Mask("code_fetch") = {3}
        /\ Mask("overwrite") = {4} /\ Mask("data_mismatch") = {5} /\ Mask("new_data") = {6}
        /\ Mask("redundant_data") = {7}
    BY DEF Mask
  <2> QED
    BY <2>1, <2>2, <2>3, <2>4 DEF Accesses
<1>2. \A access \in Accesses \cup {"read_write", "all"} : Mask(access) \subseteq 0..7
  BY DEF Accesses, Mask
<1> QED
  BY <1>1, <1>2

(* The flags of an index build are all that were asked for, in any order   *)
(* and however often, and no other (index_build_flags).                    *)
LEMMA FlagsAreThoseAsked ==
  ASSUME NEW f \in FlagNames, NEW g \in FlagNames
  PROVE  /\ BuildFlags(<<f, g>>).bits = FlagBits(f) \cup FlagBits(g)
         /\ BuildFlags(<<f>>).bits = FlagBits(f)
<1>1. ToSet(<<f, g>>) = {f, g} /\ ToSet(<<f>>) = {f}
  BY DEF ToSet
<1>2. \A S \in SUBSET FlagNames : \A flags :
        ToSet(flags) = S => BuildFlags(flags).bits = UNION {FlagBits(x) : x \in S}
  BY DEF BuildFlags
<1>3. {f, g} \in SUBSET FlagNames /\ {f} \in SUBSET FlagNames
  OBVIOUS
<1>4. /\ UNION {FlagBits(x) : x \in {f, g}} = FlagBits(f) \cup FlagBits(g)
      /\ UNION {FlagBits(x) : x \in {f}} = FlagBits(f)
  OBVIOUS
<1> QED
  BY <1>1, <1>2, <1>3, <1>4
=============================================================================
