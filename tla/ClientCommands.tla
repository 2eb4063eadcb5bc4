---------------------------- MODULE ClientCommands ----------------------------
(***************************************************************************)
(* The commands of windbg-tool that take more than one call to the replay  *)
(* service (crates/windbg-tool, cli.rs), beside other clients of the same  *)
(* daemon.  A command is a script of tool calls.  Every call has a         *)
(* connection of its own and is one step under the service's mutex         *)
(* (service.rs, tools.rs), but nothing holds the mutex between two of      *)
(* them: other clients move, close and open cursors in between, and the    *)
(* daemon itself may be replaced by a new one.  A call that fails ends the *)
(* command (`?`), is noted in its answer (call_status_value) or skips the  *)
(* calls that need its result.                                             *)
(***************************************************************************)
EXTENDS ReplayRegistry, ReplayQueries, TraceRecording, WindbgInstall

Reports == INSTANCE TraceReports
Profiles == INSTANCE ProfileReports
Dumps == INSTANCE DumpTriage
Images == INSTANCE PeImages

CONSTANTS
  MaxHits,           (* bound on max_hits of a sweep                       *)
  StepsPerSequence   (* how many positions share one sequence              *)

ASSUME CommandAssumption ==
  /\ MaxHits \in Nat \ {0}
  /\ StepsPerSequence \in Nat \ {0}

VARIABLES
  command,    (* the command that runs, "none" between two                 *)
  status,     (* "running", and how it ended                               *)
  step,       (* the call of its script that is next                       *)
  at,         (* the session and cursor it works on, 0 for none            *)
  direction,  (* the direction of a sweep                                  *)
  thread,     (* thread_unique_id, Absent without one                      *)
  seen,       (* the positions its answers are of                          *)
  hits,       (* what the watchpoints of a sweep found                     *)
  stopReason, (* why a sweep stopped                                       *)
  gone,       (* its session was closed before this point                  *)
  disturbed,  (* another client moved or closed its cursor                 *)
  restarted   (* the daemon was replaced while it ran                      *)

commandVars ==
  <<command, status, step, at, direction, thread, seen, hits, stopReason, gone, disturbed, restarted>>
vars == <<registryVars, commandVars, recordingVars, installVars>>

NoHandle == <<0, 0>>
Sequence(position) == position \div StepsPerSequence

-----------------------------------------------------------------------------
(* The scripts.                                                            *)

Abort == 99

\* `?`: an error ends the command.
Must(tool) == [tool |-> tool, skips |-> Abort]
\* call_status_value: an error is part of the answer.
Note(tool) == [tool |-> tool, skips |-> 0]
\* An error is noted, and the next n calls have nothing to work on.
Unless(tool, n) == [tool |-> tool, skips |-> n]

\* architecture_state_value.
ArchitectureState == <<Note("capabilities"), Note("compact_registers"), Note("full_registers")>>

\* disasm_value at the current instruction, and nearest_symbol_value there.
CurrentCode == <<Unless("full_registers", 2), Unless("read_memory", 1), Note("address_info")>>

\* timeline_events_value.
TimelineCalls ==
  <<Note("module_events"), Note("thread_events"), Note("list_exceptions"), Note("list_keyframes")>>

Script ==
  [open |-> <<Must("load_trace"), Must("cursor_create")>>,
   open_at |-> <<Must("load_trace"), Must("cursor_create"), Must("position_set")>>,
   context_snapshot |->
     <<Must("sessions"), Note("trace_info"), Note("capabilities"), Note("position_get"),
       Note("active_threads"), Note("stack_info")>>
     \o ArchitectureState \o CurrentCode \o <<Note("command_line")>> \o TimelineCalls,
   debug_capabilities |-> <<Note("capabilities")>> \o ArchitectureState,
   symbols_diagnose |-> <<Note("trace_info"), Note("capabilities"), Note("list_modules")>>,
   replay_to |-> <<Note("position_get"), Must("position_set")>>,
   exception_focus |-> <<Must("list_exceptions"), Must("position_set")>>,
   sweep_watch_memory |-> <<Must("memory_watchpoint"), Must("step")>>,
   stack_backtrace |-> <<Must("compact_registers"), Must("stack_read")>>,
   object_vtable |-> <<Must("read_memory"), Must("read_memory"), Note("address_info"), Note("address_info")>>]

Commands == DOMAIN Script
Tool == Script[command][step].tool

SessionTools ==
  {"trace_info", "capabilities", "list_modules", "module_events", "thread_events", "list_exceptions",
   "list_keyframes"}
Unscoped == {"sessions", "load_trace"}

\* The calls that change what the registry holds.
Changing == {"load_trace", "close_trace", "cursor_create", "position_set", "memory_watchpoint", "step"}

\* The calls of the script after the n-th that have the handles they take.
Callable(n, handle) ==
  {k \in DOMAIN Script[command] :
     LET tool == Script[command][k].tool
     IN /\ k > n
        /\ tool \notin Unscoped => handle[1] # 0
        /\ tool \notin Unscoped \cup SessionTools \cup {"cursor_create"} => handle[2] # 0}

\* The command goes on with the next call, or is done.
GoOn(n, handle) ==
  LET left == Callable(n, handle)
  IN IF left = {} THEN status' = "ok" /\ UNCHANGED step
     ELSE /\ step' = CHOOSE k \in left : \A l \in left : k <= l
          /\ UNCHANGED status

-----------------------------------------------------------------------------
(* Starting and ending.                                                    *)

Idle == status = "none"

\* The handles a user can have been told of.
HandedOut ==
  {h \in Handles : h[1] <= nextSession /\ (h[1] \in live => h[2] <= nextCursor[h[1]])}
Told == {<<s, 0>> : s \in {t \in SessionIds : t <= nextSession}}

\* The subjects the arguments of each command allow.
Subjects(name) ==
  CASE name \in {"open", "open_at"} -> {NoHandle}
    [] name = "context_snapshot" -> {NoHandle} \cup Told \cup HandedOut
    [] name = "debug_capabilities" -> Told \cup HandedOut
    [] name = "symbols_diagnose" -> Told
    [] OTHER -> HandedOut

Begin(name, handle, towards, threadId) ==
  /\ Idle
  /\ handle \in Subjects(name)
  /\ name # "sweep_watch_memory" => towards = "next"
  /\ name \notin {"open_at", "replay_to", "exception_focus"} => threadId = Absent
  /\ command' = name
  /\ status' = "running"
  /\ step' = 1
  /\ at' = handle
  /\ direction' = towards
  /\ thread' = threadId
  /\ gone' = (handle[1] \notin live \cup {0})
  /\ UNCHANGED <<registryVars, seen, hits, stopReason, disturbed, restarted>>

Init ==
  /\ RegistryInit
  /\ RecordingInit
  /\ InstallInit
  /\ command = "none" /\ status = "none" /\ step = 0
  /\ at = NoHandle /\ direction = "next" /\ thread = Absent
  /\ seen = {} /\ hits = <<>> /\ stopReason = "none"
  /\ gone = FALSE /\ disturbed = FALSE /\ restarted = FALSE

\* The answer is printed.
Return ==
  /\ status \in {"ok", "error"}
  /\ command' = "none" /\ status' = "none" /\ step' = 0
  /\ at' = NoHandle /\ direction' = "next" /\ thread' = Absent
  /\ seen' = {} /\ hits' = <<>> /\ stopReason' = "none"
  /\ gone' = FALSE /\ disturbed' = FALSE /\ restarted' = FALSE
  /\ UNCHANGED registryVars

-----------------------------------------------------------------------------
(* The calls.                                                              *)

Calls(tools) == status = "running" /\ Tool \in tools

Unmoved == UNCHANGED <<command, direction, thread, gone, disturbed, restarted>>
KeepsHits == UNCHANGED <<hits, stopReason>>

\* Where the answers of the service say that a cursor is.
PositionOf(h) == IF h[1] \in native THEN replay[h] ELSE cached[h]

\* The session, the cursor and the support the call needs are there.
Serves(tool) ==
  /\ at[1] \in live
  /\ tool \notin SessionTools \cup {"cursor_create"} => at \in cursors
  /\ ~LacksSupport(tool, at[1] \in native, TRUE)
  /\ tool = "position_set" => ~ThreadRefused(at[1] \in native, thread)
  /\ tool = "list_exceptions" /\ command = "exception_focus" => at[1] \in native

\* An error: of the lookup, or of the engine behind a native session.
Fail ==
  /\ status = "running"
  /\ Tool \notin Unscoped
  /\ ~Serves(Tool) \/ (at[1] \in native /\ Tool \notin {"trace_info", "capabilities", "cursor_create"})
  /\ IF Script[command][step].skips = Abort
     THEN status' = "error" /\ UNCHANGED step
     ELSE GoOn(step + Script[command][step].skips, at)
  /\ Unmoved /\ KeepsHits /\ UNCHANGED <<registryVars, at, seen>>

\* The queries that are answered from where the cursor is.
Query ==
  /\ Calls((Operations \cup {"capabilities"}) \ Changing)
  /\ Serves(Tool)
  /\ seen' = IF Tool \in SessionTools THEN seen ELSE seen \cup {PositionOf(at)}
  /\ GoOn(step, at)
  /\ Unmoved /\ KeepsHits /\ UNCHANGED <<registryVars, at>>

Lowest(ids) == IF ids = {} THEN 0 ELSE CHOOSE i \in ids : \A k \in ids : i <= k

(* context snapshot: what was asked for, or the first session and its      *)
(* first cursor, among the summaries with their remembered positions.      *)
SelectHandles ==
  /\ Calls({"sessions"})
  /\ LET session == IF at[1] # 0 THEN at[1] ELSE Lowest(live)
         cursor == IF at[2] # 0 THEN at[2]
                   ELSE Lowest({c \in CursorIds : <<session, c>> \in cursors})
         chosen == <<session, cursor>>
     IN /\ at' = chosen
        /\ seen' = IF chosen \in cursors THEN {cached[chosen]} ELSE {}
        /\ GoOn(step, chosen)
  /\ Unmoved /\ KeepsHits /\ UNCHANGED registryVars

OpenTrace(opened) ==
  /\ Calls({"load_trace"})
  /\ LoadTrace(opened)
  /\ IF opened = "failed"
     THEN status' = "error" /\ UNCHANGED <<step, at>>
     ELSE at' = <<nextSession', 0>> /\ step' = step + 1 /\ UNCHANGED status
  /\ Unmoved /\ KeepsHits /\ UNCHANGED seen

\* Faulty: the answer of ttd_cursor_create is not looked at.
CreatedAnyhow == TRUE

\* ttd_cursor_create answered with a cursor, not with an error.
Created == cursors' # cursors

OpenCursor ==
  /\ Calls({"cursor_create"})
  /\ Serves("cursor_create")
  /\ CreateCursor(at[1])
  /\ IF Created
     THEN /\ at' = <<at[1], nextCursor'[at[1]]>>
          /\ GoOn(step, at')
     ELSE status' = "error" /\ UNCHANGED <<step, at>>
  /\ Unmoved /\ KeepsHits /\ UNCHANGED seen

Seek(p) ==
  /\ Calls({"position_set"})
  /\ Serves("position_set")
  /\ SetPosition(at, p)
  /\ seen' = {p}
  /\ GoOn(step, at)
  /\ Unmoved /\ KeepsHits /\ UNCHANGED at

\* The sweep is told of a hit, of none, or of one it had seen before.
Watch(found, p) ==
  /\ Calls({"memory_watchpoint"})
  /\ Serves("memory_watchpoint")
  /\ Replay(at, direction, p)
  /\ hits' = Append(hits, [found |-> found, position |-> p])
  /\ LET repeated == \E i \in DOMAIN hits : Sequence(hits[i].position) = Sequence(p)
     IN IF ~found \/ repeated
        THEN /\ stopReason' = IF found THEN "duplicate_position" ELSE "not_found"
             /\ status' = "ok" /\ UNCHANGED step
        ELSE GoOn(step, at) /\ UNCHANGED stopReason
  /\ Unmoved /\ UNCHANGED <<at, seen>>

\* The engine replayed and then could not remove the watchpoint.
WatchLeaks(p) ==
  /\ Calls({"memory_watchpoint"})
  /\ Serves("memory_watchpoint")
  /\ ReplayLeaks(at, direction, p)
  /\ status' = "error"
  /\ Unmoved /\ KeepsHits /\ UNCHANGED <<step, at, seen>>

\* Faulty: the sweep always steps forward.
StepTowardsForward == "next"

\* One step in the direction of the sweep.
StepTowards == direction

Step(p) ==
  /\ Calls({"step"})
  /\ Serves("step")
  /\ Replay(at, StepTowards, p)
  /\ IF Len(hits) < MaxHits
     THEN step' = 1 /\ UNCHANGED <<status, stopReason>>
     ELSE status' = "ok" /\ stopReason' = "max_hits" /\ UNCHANGED step
  /\ Unmoved /\ UNCHANGED <<at, seen, hits>>

Call ==
  \/ Fail \/ Query \/ SelectHandles \/ OpenCursor
  \/ \E opened \in {"native", "placeholder", "failed"} : OpenTrace(opened)
  \/ \E p \in Positions : Seek(p) \/ WatchLeaks(p) \/ Step(p) \/ \E found \in BOOLEAN : Watch(found, p)

-----------------------------------------------------------------------------
(* The other clients, and the daemon.                                      *)

AnyOperation ==
  \/ \E opened \in {"native", "placeholder"} : LoadTrace(opened)
  \/ \E s \in SessionIds : CloseTrace(s) \/ CreateCursor(s)
  \/ \E h \in Handles : \E p \in Positions :
       \/ SetPosition(h, p)
       \/ \E towards \in Directions : Replay(h, towards, p) \/ ReplayLeaks(h, towards, p)

Others ==
  /\ AnyOperation
  /\ gone' = (gone \/ at[1] \in live \ live')
  /\ disturbed' = (disturbed \/ (at \in cursors /\ (at \notin cursors' \/ replay'[at] # replay[at] \/ cached'[at] # cached[at])))
  /\ UNCHANGED <<command, status, step, at, direction, thread, seen, hits, stopReason, restarted>>

(* The daemon ends and a new one serves the pipe: every session is lost,   *)
(* and the ids start again.                                                *)
Restart ==
  /\ status = "running"
  /\ ~restarted
  /\ nextSession' = 0 /\ live' = {} /\ native' = {} /\ cursors' = {} /\ leaked' = {}
  /\ nextCursor' = [s \in SessionIds |-> 0]
  /\ cached' = [h \in Handles |-> LifetimeStart]
  /\ replay' = [h \in Handles |-> LifetimeStart]
  /\ restarted' = TRUE
  /\ disturbed' = TRUE
  /\ gone' = (gone \/ at[1] # 0)
  /\ UNCHANGED <<command, status, step, at, direction, thread, seen, hits, stopReason>>

Client ==
  \/ \E name \in Commands : \E handle \in {NoHandle} \cup (SessionIds \X ({0} \cup CursorIds)) :
       \E towards \in Directions : \E threadId \in {Absent, 1} : Begin(name, handle, towards, threadId)
  \/ Call
  \/ Return
  \/ Others
  \/ Restart

Fresh == Idle /\ nextSession = 0
NoInstall == \A i \in Installers : phase[i] = "idle"

(* A recording and the installation of WinDbg use nothing of the daemon:   *)
(* each is checked beside one that has nothing to do.                      *)
Record == Fresh /\ NoInstall /\ RecordingNext /\ UNCHANGED <<registryVars, commandVars, installVars>>
Install ==
  Fresh /\ recording = "idle" /\ InstallNext /\ UNCHANGED <<registryVars, commandVars, recordingVars>>

Next ==
  \/ recording = "idle" /\ NoInstall /\ latest = 1 /\ Client /\ UNCHANGED <<recordingVars, installVars>>
  \/ Record
  \/ Install

Spec == Init /\ [][Next]_vars

-----------------------------------------------------------------------------
(* Safety.                                                                 *)

(* Everything one answer shows of a cursor is of one position, the session *)
(* summary it starts with included, unless another client moved the cursor *)
(* in the meantime or a watchpoint call had failed on it.  A snapshot      *)
(* calls itself "replayable_cursor" (context_snapshot_value,               *)
(* stack_backtrace_and_print, disasm_value).                               *)
ReadingsAgree ==
  ~disturbed /\ at \notin leaked => Cardinality(seen) <= 1

(* A session that was closed under a command never comes back as somebody  *)
(* else's: the command's handle names no cursor any more, however many     *)
(* traces are opened meanwhile.  Only a new daemon hands out its ids again *)
(* (allocate_session_id, DaemonClient).                                    *)
GoneStaysGone ==
  gone /\ ~restarted => at \notin cursors

(* An open that succeeded names a cursor that is there and reports where   *)
(* it is; a sweep counts no more hits than it was allowed, says truly why  *)
(* it stopped and, when nobody else moved its cursor, has its hits in the  *)
(* order it replayed in (open_and_print, sweep_watch_memory_and_print).    *)
ReportsMatchTheCursor ==
  status = "ok" =>
    /\ command \in {"open", "open_at"} /\ ~disturbed /\ ~gone =>
         at \in cursors /\ seen \subseteq {PositionOf(at)}
    /\ command = "sweep_watch_memory" =>
         LET found == {i \in DOMAIN hits : hits[i].found}
         IN /\ Cardinality(found) <= MaxHits
            /\ stopReason = "max_hits" <=>
                 /\ Cardinality(found) = MaxHits
                 /\ \A i, k \in found : i # k => Sequence(hits[i].position) # Sequence(hits[k].position)
            /\ stopReason = "not_found" <=> Cardinality(found) < Len(hits)
            /\ ~disturbed =>
                 \A i, k \in DOMAIN hits : i < k => Reaches(direction, hits[i].position, hits[k].position)

(* What the registry and the bridge answer from the engine is the engine's *)
(* (ReplayQueries); what windbg-tool computes from answers, those of the   *)
(* service, the runs of a profile, the engine of a dump and the files of   *)
(* modules, follows from them (TraceReports, ProfileReports, DumpTriage,   *)
(* PeImages).                                                              *)
AnswersAreExact ==
  Fresh /\ NoInstall /\ recording = "idle" =>
    /\ ListsAreWhole /\ BytesAreTheirs /\ RangesAreTheirs
    /\ AddressesAgree /\ ThreadsAgree /\ PercentsAreInside /\ MasksAgree /\ OffersAreKept
    /\ Reports!StringsAreExact /\ Reports!RowsAreInPlace /\ Reports!ChasesFollow
    /\ Reports!BestCandidatesFirst /\ Reports!TimelinesAreMerged
    /\ Reports!AuditsAreComplete /\ Reports!LookupsAreNearest
    /\ Reports!SearchesAreSound /\ Reports!LogsAreTrue
    /\ Profiles!PhasesAddUp /\ Profiles!SummariesAgree /\ Profiles!ReportsAddUp
    /\ Profiles!MediansAreCentral /\ Profiles!ComparisonsAreFair /\ Profiles!AccountingIsExact
    /\ Dumps!ClassificationsAreEarned /\ Dumps!TopologiesStayInside /\ Dumps!ContextsAreDecoded
    /\ Dumps!AttributionNeedsEvidence /\ Dumps!ImagesAreValidated
    /\ Images!OffsetsAreInTheirSection /\ Images!ExportsAreComplete /\ Images!ReadersAgree

\* tool_is_read_only, of the tools the commands call: it names "step" and
\* "position_set", and neither "cursor_create" nor "memory_watchpoint".
ReadOnly(tool) == tool \notin {"load_trace", "close_trace", "position_set", "step"}

(* A tool that is offered to the clients as one that only reads            *)
(* (tool_annotations, "read_only") leaves every cursor where it is and     *)
(* creates none.                                                           *)
ReadOnlyToolsChangeNothing ==
  [][Call /\ ReadOnly(Tool) => replay' = replay /\ cursors' = cursors]_vars
=============================================================================
