----------------------------- MODULE EngineRuntime -----------------------------
(***************************************************************************)
(* How a process opens its debugger sessions: which DbgEng it selects,     *)
(* checks and loads, the symbol path it gives it, and what is launched,    *)
(* attached to or opened then (crates/windbg-dbgeng, lib.rs).  The files   *)
(* of the engine are looked at for every session and may be replaced       *)
(* between two looks; the engine is loaded once, or not at all, for the    *)
(* life of the process.                                                    *)
(***************************************************************************)
EXTENDS Integers, Sequences, FiniteSets

(* A file of the runtime: there or not, a PE image or not, and its machine. *)
Machines == {"x64", "arm64"}
Files == {"absent", "malformed"} \cup Machines

\* DBGENG_RUNTIME_COMPONENTS, the engine itself the last one.
Components == 1..2
Engine == 2
Directory == [Components -> Files]

(* select_dbgeng_runtime: the directory an environment variable names, or  *)
(* else that of the executable, if the engine is in it.                    *)
Selected(named, directory) ==
  IF directory[Engine] # "absent" THEN IF named THEN "explicit" ELSE "adjacent"
  ELSE IF named THEN "error" ELSE "system"

\* Faulty: the machines of the components are not compared.
OfAnyMachine(directory) == TRUE

OfOneMachine(directory) == \A c \in Components : directory[c] = directory[Engine]

\* inspect_selected_dbgeng_runtime, which knows nothing of the system's.
Inspected(source, directory) ==
  IF source = "system" THEN "ok"
  ELSE IF source # "error" /\ (\A c \in Components : directory[c] \in Machines) /\ OfOneMachine(directory)
       THEN "ok" ELSE "error"

(* The closure of ensure_dbgeng_runtime_loaded: selected and inspected     *)
(* again, then each file is loaded, the engine last.  host is the set of   *)
(* files that LoadLibrary accepts.                                         *)
Load(named, directory, host) ==
  LET source == Selected(named, directory)
  IN IF Inspected(source, directory) = "error" THEN "error"
     ELSE IF source = "system" THEN IF "system" \in host THEN "system" ELSE "error"
     ELSE IF \A c \in Components : directory[c] \in host THEN source ELSE "error"

\* The OnceLock keeps the first result, an error too.
LoadedOnce(before, now) == IF before = "unset" THEN now ELSE before

\* _NT_SYMBOL_PATH and _NT_ALT_SYMBOL_PATH, what is set and not blank of them.
PathValues == {"unset", "blank", "local", "srv"}
SymbolPath(standard, alternate) ==
  SelectSeq(<<standard, alternate>>, LAMBDA v : v \notin {"unset", "blank"})

\* configure_dbgeng_symbol_path: no symbol server, whatever the rest.
PathAccepted(path) == \A i \in DOMAIN path : path[i] # "srv"

(* launch_live_session_impl, attach_live_session_impl and                  *)
(* open_dump_session_impl: the runtime is inspected before the engine is   *)
(* asked for; the symbol path is set before anything is launched; and the  *)
(* first event must come in time.                                          *)
Refusal(loaded, target) == [loaded |-> loaded, source |-> "error", target |-> target]

OpenSession(loaded, named, directory, host, path, started, event) ==
  LET source == Selected(named, directory)
      now == LoadedOnce(loaded, Load(named, directory, host))
  IN IF Inspected(source, directory) = "error" THEN Refusal(loaded, "untouched")
     ELSE IF now = "error" \/ ~PathAccepted(path) \/ ~started THEN Refusal(now, "untouched")
     ELSE IF ~event THEN Refusal(now, "left")
     ELSE [loaded |-> now, source |-> source, target |-> "debugged"]

(* start_process_server_impl does not inspect what it loads.               *)
StartServer(loaded, named, directory, host, started) ==
  LET now == LoadedOnce(loaded, Load(named, directory, host))
  IN IF now = "error" \/ ~started THEN Refusal(now, "untouched")
     ELSE [loaded |-> now, source |-> now, target |-> "served"]

-----------------------------------------------------------------------------

(* What two openings of one process, and a process server beside them,     *)
(* have to do with each other when the files may be replaced in between.   *)
SharedEngine(named, before, after, host, path, started, event) ==
  LET first == OpenSession("unset", named, before, host, path, started, event)
      second == OpenSession(first.loaded, named, after, host, <<>>, TRUE, TRUE)
      server == StartServer(first.loaded, named, after, host, TRUE)
  IN /\ first.source # "error" => first.loaded = first.source /\ second.loaded = first.loaded
     /\ first.loaded \in {"explicit", "adjacent"} => OfOneMachine(before)
     /\ first.loaded \notin {"unset", "error"} => server.source = first.loaded
     /\ first.loaded = "error" => second.source = "error" /\ server.source = "error"
     /\ first.loaded = "unset" => ~OfOneMachine(before) \/ before[Engine] \notin Machines
     /\ (\E c \in Components : before[c] # before[Engine]) /\ before[Engine] \in Machines =>
          first.loaded = "unset" /\ (Load(named, after, host) # "error" => second.source # "error")
     /\ first.target = "left" => started /\ PathAccepted(path) /\ ~event
     /\ first.target = "untouched" => first.source = "error"

Hosts == {{"system", "x64"}, {"system", "arm64"}, {}}
Paths == {SymbolPath(s, a) : s, a \in PathValues}

(* However the files are replaced between two openings of one process, an  *)
(* engine that is loaded stays the process's engine, and its files were of *)
(* one machine; a load that failed is never made good.  A runtime that     *)
(* does not fit together spoils nothing: once it is replaced, the next     *)
(* session opens.  And whoever is refused before its target was started    *)
(* leaves none behind (inspect_dbgeng_runtime, create_debug_client).       *)
OneEngineForAll ==
  \A named, started, event \in BOOLEAN, before, after \in Directory, host \in Hosts, path \in Paths :
    SharedEngine(named, before, after, host, path, started, event)
=============================================================================
