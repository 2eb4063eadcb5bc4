------------------------------ MODULE CoreClrData ------------------------------
(***************************************************************************)
(* How the CoreCLR bridge answers the data access component (DAC) and what *)
(* it makes of its enumerations: which module, method and native address a *)
(* managed breakpoint is for (crates/windbg-dbgeng, coreclr_dac.rs).  The  *)
(* order of the calls, the notifications and the permission to write are   *)
(* in LiveBreak.                                                           *)
(*                                                                         *)
(* A path is a directory and a file name, both without regard to case.  A  *)
(* metadata signature is a string, "missing" where there is none.          *)
(***************************************************************************)
EXTENDS Integers, SequencesExt, FiniteSetsExt

Nothing == 0                  (* no address, no token                      *)

-----------------------------------------------------------------------------
(* Opening.                                                                *)

(* CoreClrDacBridge::open, up to the DAC: the file beside the runtime, of  *)
(* a version that can be read and is the runtime's.                        *)
Opens(host64, runtime, sibling) ==
  /\ host64
  /\ runtime.present /\ sibling.present
  /\ runtime.version # "unreadable"
  /\ sibling.version = runtime.version

-----------------------------------------------------------------------------
(* The data target.                                                        *)

\* ReadVirtual and WriteVirtual: a part is a success, and its length is told.
Transferred(succeeded, bytes) == succeeded \/ bytes # 0

\* GetThreadContext: of the engine's current thread alone, and if it fits.
ContextGiven(thread, current, fits, succeeded) == thread = current /\ fits /\ succeeded

-----------------------------------------------------------------------------
(* Modules and methods.                                                    *)

\* module_paths_match: the whole path, or its last part.
PathsMatch(expected, actual) == expected = actual \/ expected.name = actual.name

\* Faulty: the last one that matches.
FindLastModule(expected, modules) ==
  SelectLastInSeq(modules, LAMBDA m : PathsMatch(expected, m.path))

\* find_module_by_path: the first one that matches, 0 without.
FindModule(expected, modules) ==
  SelectInSeq(modules, LAMBDA m : PathsMatch(expected, m.path))

(* The method definitions of the name, in the order the DAC has them.  One *)
(* without a token, or of a token the metadata file has no signature for,  *)
(* fails the resolution.                                                   *)
Enumerable(methods, signatures) ==
  \A i \in DOMAIN methods : methods[i] # Nothing /\ signatures[methods[i]] # "missing"

MaxCandidates == 1             (* MAX_METHOD_CANDIDATES                    *)

\* Faulty: the selector is not compared.
AcceptsEvery(selector, signature) == TRUE

Accepts(selector, signature) == selector = "none" \/ selector = signature

Unresolved == [ok |-> FALSE, token |-> Nothing, module |-> 0, candidates |-> <<>>, truncated |-> FALSE]

(* resolve_method.  The signatures come from the file at the path that was *)
(* asked for, the tokens from the module that was found.                   *)
Resolve(expected, selector, modules, signatures) ==
  LET found == FindModule(expected, modules)
      methods == modules[found].methods
      matching == {i \in DOMAIN methods : Accepts(selector, signatures[methods[i]])}
  IN IF selector = "empty" \/ found = 0 THEN Unresolved
     ELSE IF ~Enumerable(methods, signatures) \/ Cardinality(matching) # 1 THEN Unresolved
     ELSE [ok |-> TRUE, token |-> methods[CHOOSE i \in matching : TRUE], module |-> found,
           candidates |-> SubSeq(methods, 1, MaxCandidates),
           truncated |-> Len(methods) > MaxCandidates]

\* find_method_instance and its entry address: of the first instance only.
EntryAddress(instances) ==
  IF instances = <<>> \/ instances[1] \in {"unexpected", "zero"} THEN "none"
  ELSE instances[1]

\* refresh_method_code: module and method are looked up again, by path and token.
Refresh(expected, token, modules, instances) ==
  LET found == FindModule(expected, modules)
  IN IF found = 0 \/ EntryAddress(instances) \in {"none", "error"} THEN [module |-> 0, token |-> Nothing]
     ELSE [module |-> found, token |-> token]

-----------------------------------------------------------------------------
(* Inputs: three methods of one name, in modules of two names.             *)

Tokens == 1..3
Paths == [directory : {"app", "other"}, name : {"m", "n"}]
Expected == [directory |-> "app", name |-> "m"]
Signatures == [Tokens -> {"a", "b", "missing"}]
Selectors == {"none", "empty", "a"}
LoadedModules == [path : Paths, methods : {<<>>, <<1>>, <<2, 1>>, <<1, 2, 3>>, <<2, Nothing>>}]
Enumerations == BoundedSeq(LoadedModules, 2)

(* A breakpoint is set for a method only if it is the one that fits: of    *)
(* several it needs a signature, and of several with that signature none   *)
(* is chosen.  It is the method of the module that was asked for unless    *)
(* another file of that name is listed before it.  The candidates shown    *)
(* are said to be all only if they are (resolve_method,                    *)
(* module_paths_match).                                                    *)
ResolvedIsTheOnly ==
  \A selector \in Selectors, modules \in Enumerations, signatures \in Signatures :
    LET r == Resolve(Expected, selector, modules, signatures)
        methods == modules[r.module].methods
    IN r.ok =>
         /\ {i \in DOMAIN methods : selector \in {"none", signatures[methods[i]]}}
              = {i \in DOMAIN methods : methods[i] = r.token}
         /\ modules[r.module].path.name = Expected.name
         /\ (\A i \in 1..(r.module - 1) : modules[i].path.name # Expected.name)
         /\ ~r.truncated => ToSet(r.candidates) = ToSet(methods)

(* A module that is loaded between the resolution of a method and the      *)
(* generation of its code does not take the place of the one resolved,     *)
(* although both are looked up by path (refresh_method_code).              *)
RefreshedIsResolved ==
  \A selector \in {"none"}, modules \in Enumerations, later \in LoadedModules, signatures \in {[t \in Tokens |-> "a"]} :
    LET r == Resolve(Expected, selector, modules, signatures)
        again == Refresh(Expected, r.token, modules \o <<later>>, <<"code">>)
    IN r.ok => again.module = r.module /\ again.token = r.token
=============================================================================
