--------------------------- MODULE DebuggerSession ---------------------------
(***************************************************************************)
(* One DbgEng session (crates/windbg-dbgeng, lib.rs, DebuggerSession) and  *)
(* the target_* tools that use it (crates/windbg-ttd, targets.rs).  The    *)
(* engine's worker runs one operation at a time; what runs beside it is    *)
(* the debuggee, while an operation waits, and other programs, which write *)
(* the file a dump goes to.  Each call into DbgEng or Windows may fail.    *)
(* The session of a dump shares the cache of images with others.           *)
(***************************************************************************)
EXTENDS OutputCapture, TargetQueries, SymbolCache

Runtime == INSTANCE EngineRuntime
Clr == INSTANCE CoreClrData

CONSTANTS
  Threads,        (* engine thread ids                                     *)
  BreakpointIds,  (* the ids DbgEng gives to breakpoints                   *)
  MaxStops,       (* bound on the stops of the debuggee                    *)
  MaxWrites,      (* bound on what it writes in one run                    *)
  MaxText         (* the longest text                                      *)

ASSUME SessionAssumption ==
  /\ Threads # {}
  /\ MaxStops \in Nat /\ MaxWrites \in Nat /\ MaxText \in Nat \ {0}

VARIABLES
  kind,           (* DebuggerSessionKind                                   *)
  pc,             (* what the worker is in the middle of                   *)
  status,         (* the engine's execution status                         *)
  thread,         (* its current thread                                    *)
  stops,          (* how many times the debuggee has stopped               *)
  stopThread,     (* the thread of the last stop                           *)
  strayed,        (* history: a thread switch could not be undone          *)
  breakpoints,    (* "absent", "unset", "disabled" or "enabled" per id     *)
  told,           (* history: breakpoints a client has been told of        *)
  unread,         (* history: enabled, but not read back for the answer    *)
  file,           (* what is at the path dumps are written to              *)
  overwrite       (* the overwrite option of the dump in progress          *)

engineVars == <<status, thread, stops, stopThread, strayed>>
breakpointVars == <<breakpoints, told, unread>>
fileVars == <<file, overwrite>>
sessionVars == <<captureVars, engineVars, breakpointVars, fileVars, kind, pc>>
vars == <<sessionVars, cacheVars>>

Init ==
  /\ CaptureInit
  /\ CacheInit
  /\ kind \in {"live", "dump"}
  \* A live session has no cache: one will do.
  /\ kind = "live" => server = "match" /\ store = "absent"
  /\ pc = "idle"
  /\ status = "break"
  /\ thread \in Threads
  /\ stops = 0
  /\ stopThread = thread
  /\ strayed = FALSE
  /\ breakpoints = [b \in BreakpointIds |-> "absent"]
  /\ told = {} /\ unread = {}
  /\ file = "absent" /\ overwrite = FALSE

(* ensure_live_target.                                                     *)
Live == kind = "live"

-----------------------------------------------------------------------------
(* Running.                                                                *)

(* continue_execution, continue_execution_handled, step_into, step_over:   *)
(* DbgEng takes a new execution status only from a stopped debuggee.       *)
SetStatus ==
  /\ status = "break"
  /\ status' = "go"
  /\ UNCHANGED <<thread, stops, stopThread, strayed>>

TargetContinue ==
  /\ pc = "idle" /\ Live
  /\ SetStatus
  /\ UNCHANGED <<captureVars, breakpointVars, fileVars, kind, pc>>

(* target_wait_for_event, and for a dump too.                              *)
TargetWait ==
  /\ pc = "idle"
  /\ pc' = "waiting"
  /\ UNCHANGED <<captureVars, engineVars, breakpointVars, fileVars, kind>>

(* continue_and_wait: a capture first if one is asked for, then continue.  *)
ContinueAndWait ==
  /\ \/ BeginCapture
     \/ UNCHANGED captureVars
  /\ SetStatus
  /\ pc' = "running"

ContinueFails ==
  /\ \/ BeginCaptureFails
     \/ UNCHANGED captureVars
  /\ UNCHANGED <<engineVars, pc>>

(* target_continue_and_wait.                                               *)
TargetContinueWait ==
  /\ pc = "idle" /\ Live
  /\ ContinueAndWait \/ ContinueFails
  /\ UNCHANGED <<breakpointVars, fileVars, kind>>

Waiting == pc \in {"waiting", "running"}

AfterWait == IF pc = "waiting" THEN "idle" ELSE "over"

DebuggeeWrites ==
  /\ Waiting /\ status = "go"
  /\ capture.active => capture.written < MaxWrites
  /\ \E category \in {"debuggee", "symbols"}, chars \in 0..MaxText :
       Output(category, chars)
  /\ UNCHANGED <<engineVars, breakpointVars, fileVars, kind, pc>>

(* WaitForEvent brings the debuggee's next stop, its exit included: the    *)
(* engine makes the thread that stopped current.                           *)
Stops ==
  /\ Waiting /\ status = "go" /\ stops < MaxStops
  /\ stops' = stops + 1
  /\ \E t \in Threads : thread' = t /\ stopThread' = t
  /\ strayed' = FALSE
  /\ status' \in {"break", "gone"}
  /\ pc' = AfterWait
  /\ UNCHANGED <<captureVars, breakpointVars, fileVars, kind>>

(* It ends without one.                                                    *)
WaitTimesOut ==
  /\ Waiting
  /\ pc' = AfterWait
  /\ UNCHANGED <<captureVars, engineVars, breakpointVars, fileVars, kind>>

(* The end of continue_and_wait: last_event, which changes nothing, and    *)
(* finish, whose failure hides the stop from the client.                   *)
RunEnds ==
  /\ pc = "over"
  /\ IF capture.active THEN \E restored \in BOOLEAN : FinishCapture(restored)
     ELSE UNCHANGED captureVars
  /\ pc' = "idle"
  /\ UNCHANGED <<engineVars, breakpointVars, fileVars, kind>>

-----------------------------------------------------------------------------
(* Threads.                                                                *)

\* Faulty: a thread whose inspection failed stays current.
SwitchedBackOnSuccess(inspected, refused) == inspected /\ ~refused

\* The thread is switched back whether it could be inspected or not.
SwitchedBack(inspected, refused) == ~refused

(* thread_context: the thread is made current, read, and switched back.    *)
ThreadContext(t) ==
  \E inspected, refused \in BOOLEAN :
    LET changed == t # thread
        back == ~changed \/ SwitchedBack(inspected, refused)
    IN /\ thread' = IF back THEN thread ELSE t
       /\ strayed' = (strayed \/ (changed /\ refused))

(* target_thread_context.                                                  *)
TargetThreadContext ==
  /\ pc = "idle"
  /\ \E t \in Threads : ThreadContext(t)
  /\ UNCHANGED <<captureVars, status, stops, stopThread, breakpointVars, fileVars, kind, pc>>

-----------------------------------------------------------------------------
(* Breakpoints.                                                            *)

\* Faulty: a data breakpoint is enabled before its parameters are set.
DataStepsEnabledEarly == <<"offset", "enable", "parameters", "read">>

(* What each kind does to the new breakpoint, in order, before it is read  *)
(* back for the answer.                                                    *)
CodeSteps == <<"offset", "enable", "read">>
ExpressionSteps == <<"expression", "enable", "read">>
DataSteps == <<"offset", "parameters", "enable", "read">>

\* validate_breakpoint_set_request, and the match on kind of set_breakpoint.
StepsOf(location, kindOf) ==
  IF location = "symbol" THEN ExpressionSteps
  ELSE IF kindOf = "code" THEN CodeSteps ELSE DataSteps

Requests == {<<"symbol", "code">>, <<"address", "code">>, <<"address", "data">>}

(* The state of a breakpoint after the first n steps.                      *)
After(steps, n) ==
  LET done == {steps[i] : i \in 1..n}
  IN IF "enable" \in done THEN "enabled"
     ELSE IF done \cap {"offset", "expression"} # {} THEN "disabled" ELSE "unset"

(* Step n + 1 fails and the error is answered; nothing removes the         *)
(* breakpoint again.                                                       *)
AddBreakpoint(steps, b, n) ==
  /\ breakpoints[b] = "absent"
  /\ breakpoints' = [breakpoints EXCEPT ![b] = After(steps, n)]
  /\ IF n = Len(steps)
     THEN /\ told' = told \cup {b}
          /\ UNCHANGED unread
     ELSE /\ unread' = IF steps[n + 1] = "read" THEN unread \cup {b} ELSE unread
          /\ UNCHANGED told

(* add_compatible_breakpoint: AddBreakpoint2, or AddBreakpoint and a cast, *)
(* whose failure leaves the new breakpoint.                                *)
AddCompatibleFails ==
  /\ \/ UNCHANGED breakpoints
     \/ \E b \in BreakpointIds :
          /\ breakpoints[b] = "absent"
          /\ breakpoints' = [breakpoints EXCEPT ![b] = "unset"]
  /\ UNCHANGED <<told, unread>>

(* target_breakpoint_set.                                                  *)
TargetSetBreakpoint ==
  /\ pc = "idle" /\ Live
  /\ \/ \E r \in Requests, b \in BreakpointIds :
          LET steps == StepsOf(r[1], r[2])
          IN \E n \in 0..Len(steps) : AddBreakpoint(steps, b, n)
     \/ AddCompatibleFails
  /\ UNCHANGED <<captureVars, engineVars, fileVars, kind, pc>>

(* target_breakpoint_enable: any id the engine knows will do.              *)
TargetEnableBreakpoint ==
  /\ pc = "idle" /\ Live
  /\ \E b \in BreakpointIds, to \in {"enabled", "disabled"}, read \in BOOLEAN :
       /\ breakpoints[b] # "absent"
       /\ breakpoints' = [breakpoints EXCEPT ![b] = to]
       /\ told' = IF read THEN told \cup {b} ELSE told
       /\ unread' = IF read THEN unread ELSE unread \cup {b}
  /\ UNCHANGED <<captureVars, engineVars, fileVars, kind, pc>>

(* target_breakpoint_remove.                                               *)
TargetRemoveBreakpoint ==
  /\ pc = "idle" /\ Live
  /\ \E b \in BreakpointIds :
       /\ breakpoints[b] # "absent"
       /\ breakpoints' = [breakpoints EXCEPT ![b] = "absent"]
       /\ told' = told \ {b}
       /\ unread' = unread \ {b}
  /\ UNCHANGED <<captureVars, engineVars, fileVars, kind, pc>>

(* target_breakpoint_list, unless one of them cannot be read.              *)
TargetListBreakpoints ==
  /\ pc = "idle" /\ Live
  /\ told' = {b \in BreakpointIds : breakpoints[b] # "absent"}
  /\ UNCHANGED <<captureVars, engineVars, breakpoints, unread, fileVars, kind, pc>>

-----------------------------------------------------------------------------
(* Dumps.                                                                  *)

(* target_write_dump, write_dump and the first lines of                    *)
(* write_process_dump_file: an existing file is refused.                   *)
TargetWriteDump ==
  /\ pc = "idle" /\ Live
  /\ overwrite' \in BOOLEAN
  /\ IF overwrite' \/ file = "absent"
     THEN pc' = "dumping" ELSE UNCHANGED pc
  /\ UNCHANGED <<captureVars, engineVars, breakpointVars, file, kind>>

(* Another program creates or replaces the file at any time.               *)
OtherWrites ==
  /\ file' = "foreign"
  /\ pc = "dumping"
  /\ UNCHANGED <<captureVars, engineVars, breakpointVars, overwrite, kind, pc>>

\* Faulty: the file is created without create_new.
MayOpenAnyhow == TRUE

\* create_new, or truncate.
MayOpen == overwrite \/ file = "absent"

(* OpenProcess or opening the file fails.                                  *)
DumpNotOpened ==
  /\ pc = "dumping"
  /\ pc' = "idle"
  /\ overwrite' = FALSE
  /\ UNCHANGED <<captureVars, engineVars, breakpointVars, file, kind>>

OpenDump ==
  /\ pc = "dumping" /\ MayOpen
  /\ file' = "empty"
  /\ pc' = "writing"
  /\ UNCHANGED <<captureVars, engineVars, breakpointVars, overwrite, kind>>

(* DbgHelp is not loaded, or MiniDumpWriteDump fails, or the process's     *)
(* handle is not closed, or the dump is written.  Nothing removes what a   *)
(* failure leaves.                                                         *)
WriteDump ==
  /\ pc = "writing"
  /\ file' \in {"empty", "partial", "dump"}
  /\ pc' = "idle"
  /\ overwrite' = FALSE
  /\ UNCHANGED <<captureVars, engineVars, breakpointVars, kind>>

-----------------------------------------------------------------------------

Operation ==
  \/ TargetContinue
  \/ TargetWait
  \/ TargetContinueWait
  \/ DebuggeeWrites
  \/ Stops
  \/ WaitTimesOut
  \/ RunEnds
  \/ TargetThreadContext
  \/ TargetSetBreakpoint
  \/ TargetEnableBreakpoint
  \/ TargetRemoveBreakpoint
  \/ TargetListBreakpoints
  \/ TargetWriteDump
  \/ OtherWrites
  \/ DumpNotOpened
  \/ OpenDump
  \/ WriteDump

(* prefetch_dump_symbols of this target and of others, when it is opened   *)
(* and before a client's query for an address is answered.                 *)
TargetPrefetches ==
  /\ kind = "dump"
  /\ CacheNext
  /\ UNCHANGED sessionVars

Next ==
  \/ Operation /\ UNCHANGED cacheVars
  \/ TargetPrefetches

Spec == Init /\ [][Next]_vars

-----------------------------------------------------------------------------

(* The values of every variable of the session.                            *)
TypeOK ==
  /\ kind \in {"live", "dump"}
  /\ pc \in {"idle", "waiting", "running", "over", "dumping", "writing"}
  /\ status \in {"break", "go", "gone"}
  /\ thread \in Threads /\ stopThread \in Threads
  /\ stops \in 0..MaxStops
  /\ strayed \in BOOLEAN /\ overwrite \in BOOLEAN
  /\ breakpoints \in [BreakpointIds -> {"absent", "unset", "disabled", "enabled"}]
  /\ told \subseteq BreakpointIds /\ unread \subseteq BreakpointIds
  /\ file \in {"absent", "foreign", "empty", "partial", "dump"}

(* Between two calls the current thread, which registers, stacks and       *)
(* disassembly are read from, is the one that stopped, whatever threads    *)
(* have been inspected and however that failed, unless DbgEng refused to   *)
(* make it current again (thread_context).                                 *)
StopThreadIsCurrent == pc = "idle" /\ ~strayed => thread = stopThread

(* A breakpoint that can stop the debuggee is known to a client, or the    *)
(* call that enabled it was answered with an error because the breakpoint  *)
(* could not be read back: no other failure half-way through setting a     *)
(* breakpoint leaves one that is armed (add_code_breakpoint,               *)
(* add_code_breakpoint_expression, add_data_breakpoint).                   *)
ArmedIsKnown ==
  \A b \in BreakpointIds : breakpoints[b] = "enabled" => b \in told \cup unread

(* A dump that is not to overwrite never replaces a file that another      *)
(* program has put there, not even between the check and the creation      *)
(* (write_process_dump_file).                                              *)
NoOverwriteKeepsFile ==
  [][pc = "dumping" /\ file # "absent" /\ ~overwrite => file' \in {file, "foreign"}]_vars

(* What a session computes from the first answers of DbgEng and of the DAC *)
(* is exact: page walks, lists said to be complete, the method of a        *)
(* managed breakpoint, and, before all of them, the engine they are asked  *)
(* of (TargetQueries, CoreClrData and EngineRuntime state these over       *)
(* bounded inputs; they keep nothing, so one state of the session will do).*)
QueriesAreExact ==
  Init =>
    /\ WalkIsExact /\ CapturedIsComplete
    /\ Clr!ResolvedIsTheOnly /\ Clr!RefreshedIsResolved
    /\ Runtime!OneEngineForAll
=============================================================================
