------------------------------ MODULE DumpTriage ------------------------------
(***************************************************************************)
(* `dump inspect`: what windbg-tool concludes of a crash dump from bounded *)
(* questions to the engine (crates/windbg-tool, cli/platform.rs).  Every   *)
(* question may fail; triage goes on without the answer and says so.       *)
(*                                                                         *)
(* Addresses are 0..Top, an entry of the pool tracker table is Stride long *)
(* (0x50), and a sum above Top is one that overflows 64 bits.  What the    *)
(* engine answers is given: a module for each address, the entry that can  *)
(* be read there, the context record a parameter points to.                *)
(***************************************************************************)
EXTENDS Integers, SequencesExt, FiniteSetsExt

Top == 9
Stride == 2
Nothing == -1          (* an Option that is None                          *)

CheckedAdd(a, b) == IF a + b > Top THEN Nothing ELSE a + b
CheckedSub(a, b) == IF a < b THEN Nothing ELSE a - b

-----------------------------------------------------------------------------
(* The bug check and the context at the exception.                         *)

Codes == {"none", "0x1E", "0x3B", "0x51"}

\* dump_fault_address: the second parameter, where it is one.
FaultAddress(bugcheck) ==
  IF bugcheck.code \in {"0x1E", "0x3B"} THEN bugcheck.parameters[2] ELSE Nothing

ContextParameters(code) ==
  CASE code = "0x3B" -> <<3>>
    [] code = "0x1E" -> <<4, 3>>
    [] OTHER -> <<>>

Decoded == {"captured", "context_captured_stack_unavailable"}

\* Contexts: what is found at each parameter.
ExceptionContext(bugcheck, amd64, contexts) ==
  LET candidates == ContextParameters(bugcheck.code)
      usable == SelectSeq(candidates, LAMBDA p : contexts[p] \in Decoded)
  IN IF candidates = <<>> THEN [status |-> "not_applicable", selection |-> 0]
     ELSE IF ~amd64 THEN [status |-> "architecture_unsupported", selection |-> 0]
     ELSE IF usable = <<>> THEN [status |-> "unavailable", selection |-> 0]
     ELSE [status |-> contexts[usable[1]], selection |-> usable[1]]

-----------------------------------------------------------------------------
(* The pool tracker.                                                       *)

\* Faulty: the first address behind the table is taken for one inside.
WithinClosed(address, base, size) == base <= address /\ address <= base + size * Stride

Within(address, base, size) == base <= address /\ address < base + size * Stride

TableRelation(address, base, size) ==
  IF address = Nothing THEN "no_address"
  ELSE IF base = Nothing THEN "table_base_not_provided"
  ELSE IF CheckedAdd(base, size * Stride) = Nothing THEN "range_overflow"
  ELSE IF ~Within(address, base, size) THEN "outside_supplied_table"
  ELSE IF (address - base) % Stride = 0 THEN "within_supplied_table"
  ELSE "within_supplied_table_unaligned"

\* The entries around one, of those an address can be calculated for.
Nearby(entry) ==
  IF entry = Nothing THEN {} ELSE {CheckedSub(entry, Stride), entry, CheckedAdd(entry, Stride)} \ {Nothing}

MaxTable == 3          (* 1 048 576 entries                               *)

\* Tags: the entries whose tag can be read and printed.
Classify(entry, active, supplied, size, tags) ==
  LET observed == entry \in Nearby(entry) /\ entry \in tags
  IN IF TableRelation(entry, supplied, size) = "within_supplied_table" /\ observed
     THEN "supplied_tracker_table_entry"
     ELSE IF entry = Nothing THEN "no_validated_exception_entry_available"
     ELSE IF Within(entry, active, size) THEN "active_tracker_table_entry"
     ELSE IF observed THEN "outside_central_table_tracker_like_unclassified"
     ELSE "outside_central_table_unclassified"

\* The base and the size of the table come from the engine, or fail to.
PoolTracker(entry, active, supplied, size, tags) ==
  LET Answer(status) == [status |-> status, classification |-> "none"]
  IN CASE active = Nothing -> Answer("unavailable")
       [] active = 0 -> Answer("not_initialized")
       [] OTHER ->
            IF size \notin 1..MaxTable \/ CheckedAdd(active, size * Stride) = Nothing
            THEN Answer("unavailable")
            ELSE [status |-> "captured", classification |-> Classify(entry, active, supplied, size, tags)]

(* The tables of the processors, by the pointers the kernel holds: a slot  *)
(* each.  Boundaries are the entries that could be read.                   *)
Topology(knownBuild, complete, slots, entry, supplied, size, readable) ==
  LET offset == IF Nothing \in {entry, supplied} THEN Nothing ELSE CheckedSub(entry, supplied)
      index == IF offset # Nothing /\ offset % Stride = 0 /\ offset \div Stride < size
               THEN offset \div Stride ELSE Nothing
      used == SelectSeq([k \in DOMAIN slots |-> k], LAMBDA k : slots[k] # 0)
      Table(k) ==
        LET base == slots[k]
            end == CheckedAdd(base, size * Stride)
        IN IF end = Nothing THEN [slot |-> k, valid |-> FALSE, reads |-> {}, whole |-> FALSE]
           ELSE [slot |-> k, valid |-> TRUE,
                 reads |-> {base, end - Stride} \cup (IF index = Nothing THEN {} ELSE {base + index * Stride}),
                 whole |-> {base, end - Stride} \subseteq readable]
  IN CASE ~knownBuild -> [status |-> "unsupported_build", index |-> Nothing, tables |-> <<>>]
       [] knownBuild /\ ~complete -> [status |-> "partial", index |-> Nothing, tables |-> <<>>]
       [] OTHER -> [status |-> "captured", index |-> index, tables |-> [k \in DOMAIN used |-> Table(used[k])]]

\* KiBugCheckDriver: not set, without a name that can be read, or a name.
BugcheckDriver(pointer, name) ==
  CASE pointer = Nothing -> "unavailable"
    [] pointer = 0 -> "not_set"
    [] OTHER -> IF name = "unreadable" THEN "unavailable"
                ELSE IF name = "" THEN "pointer_present_name_unavailable"
                ELSE "captured"

-----------------------------------------------------------------------------
(* Modules that are named as evidence.                                     *)

\* The modules at the fault and at rip, each once.
SymbolModules(fault, rip, moduleAt) ==
  LET found == SelectSeq(<<fault, rip>>, LAMBDA a : a # Nothing /\ moduleAt[a] # "none")
      names == [k \in DOMAIN found |-> moduleAt[found[k]]]
  IN IF Len(names) = 2 /\ names[1] = names[2] THEN <<names[1]>> ELSE names

\* Only the frames that the unwinder vouches for.
ValidFrames(stack) == SubSeq(stack.frames, 1, IF stack.valid < Len(stack.frames) THEN stack.valid ELSE Len(stack.frames))

DriverEvidence(fault, stacks, moduleAt) ==
  LET faultRank == IF moduleAt[fault] = "none" THEN "unavailable"
                   ELSE IF moduleAt[fault] = "nt" THEN "location_only" ELSE "high"
      onStacks == UNION {{moduleAt[a] : a \in ToSet(ValidFrames(s))} : s \in stacks} \ {"nt", "none"}
      direct == onStacks # {} \/ (fault # Nothing /\ faultRank = "high")
  IN [status |-> IF direct THEN "direct_evidence_present" ELSE "no_driver_implicated",
      fault |-> IF fault = Nothing THEN "not_applicable" ELSE faultRank,
      stackModules |-> onStacks]

Grades(drivers, tracker, driver) ==
  [tracker |-> CASE tracker.classification = "none" -> "not_established"
                 [] tracker.classification \in {"active_tracker_table_entry", "supplied_tracker_table_entry"} -> "observed"
                 [] OTHER -> "possible",
   bugcheckDriver |-> IF driver = "captured" THEN "observed" ELSE "not_established",
   thirdParty |-> IF drivers.status = "direct_evidence_present" THEN "observed" ELSE "not_established"]

-----------------------------------------------------------------------------
(* The image and the symbols of the module at the fault.                   *)

\* dump_image_roots: what the caller named first, each root once.
ImageRoots(extra, system) ==
  LET all == extra \o system
  IN SelectSeq([k \in DOMAIN all |-> IF \E j \in 1..(k - 1) : all[j] = all[k] THEN "" ELSE all[k]],
               LAMBDA root : root # "")

\* Files: what lies at each root under a name, "absent" if nothing does.
ImageSearch(roots, names, files) ==
  LET places == FlattenSeq([r \in DOMAIN roots |-> [n \in DOMAIN names |-> <<roots[r], names[n]>>]])
      there == SelectSeq(places, LAMBDA p : files[p] # "absent")
      hits == SelectSeq([k \in DOMAIN there |-> k], LAMBDA k : files[there[k]] = "matches")
  IN IF hits = <<>> THEN [image |-> <<"none", "none">>, rejected |-> there]
     ELSE [image |-> there[hits[1]], rejected |-> SubSeq(there, 1, hits[1] - 1)]

(* prepare_dump_native_symbols: the first step that has nothing to go on   *)
(* with names the outcome; a reload that fails is reported beside it.      *)
NativeSymbols(fault, rip, moduleAt, identity, image, fetched, pdb) ==
  LET address == IF fault # Nothing THEN fault ELSE rip
  IN CASE address = Nothing -> "not_applicable"
       [] address # Nothing /\ moduleAt[address] = "none" -> "unavailable"
       [] OTHER -> IF ~identity THEN "unavailable"
                   ELSE IF image = <<"none", "none">> /\ fetched # "fetched"
                   THEN (IF fetched = "offline_missing" THEN "offline_image_missing" ELSE fetched)
                   ELSE CASE pdb = "cached" -> "configured_from_cache"
                          [] pdb = "downloaded" -> "downloaded_and_configured"
                          [] OTHER -> pdb

-----------------------------------------------------------------------------
(* What they promise.                                                      *)

Addresses == 0..Top
Options == Addresses \cup {Nothing}
ModuleMaps ==
  {[a \in Options |-> IF a = Nothing THEN "none" ELSE of[a % 3]] : of \in [0..2 -> {"nt", "driver", "none"}]}

(* An entry counts as one of a table that was supplied only when it is the *)
(* start of an entry inside it, whatever would overflow, and its tag was   *)
(* read; nothing is called observed without a table that holds it          *)
(* (pool_tracker_table_relation, dump_pool_tracker_observation).           *)
ClassificationsAreEarned ==
  \A entry, supplied \in Options : \A active \in {Nothing, 0, 2, 5} : \A size \in 0..4 :
    \A tags \in {{}, Addresses} :
      LET tracker == PoolTracker(entry, active, supplied, size, tags)
          inside(base) == \E k \in 0..(size - 1) : base # Nothing /\ entry = base + k * Stride
          grade == Grades([status |-> "no_driver_implicated"], tracker, "not_set").tracker
      IN /\ TableRelation(entry, supplied, size) = "within_supplied_table" =>
              inside(supplied) /\ supplied + size * Stride <= Top
         /\ tracker.classification = "supplied_tracker_table_entry" => inside(supplied) /\ entry \in tags
         /\ grade = "observed" =>
              \/ inside(supplied)
              \/ entry # Nothing /\ \E k \in 0..(size * Stride - 1) : entry = active + k
         /\ tracker.status = "captured" <=> tracker.classification # "none"
         /\ \A pointer \in {Nothing, 0, 1} : \A name \in {"unreadable", "", "named"} :
              Grades([status |-> "no_driver_implicated"], tracker, BugcheckDriver(pointer, name)).bugcheckDriver
                = "observed" <=> pointer = 1 /\ name = "named"

(* Every processor's table that is there is reported, and nothing outside  *)
(* its own entries is read for it (dump_per_cpu_tracker_topology).         *)
TopologiesStayInside ==
  \A a, b \in {0, 2, 7, 9} : \A entry, supplied \in Options : \A size \in 1..MaxTable :
    LET slots == <<a, b>>
        topology == Topology(TRUE, TRUE, slots, entry, supplied, size, Addresses)
    IN /\ {t.slot : t \in ToSet(topology.tables)} = {k \in 1..2 : slots[k] # 0}
       /\ \A t \in ToSet(topology.tables) : \A address \in t.reads :
            slots[t.slot] <= address /\ address + Stride <= slots[t.slot] + size * Stride
       /\ topology.index # Nothing => entry = supplied + topology.index * Stride

(* A context is decoded from a parameter the code of the bug check names,  *)
(* the first that holds one, and only a dump with such a bug check has a   *)
(* fault address (dump_exception_context, dump_fault_address).             *)
ContextsAreDecoded ==
  \A code \in Codes : \A amd64 \in BOOLEAN :
    \A contexts \in [3..4 -> {"captured", "context_captured_stack_unavailable", "invalid", "unavailable"}] :
      LET bugcheck == [code |-> code, parameters |-> [p \in 1..4 |-> p]]
          context == ExceptionContext(bugcheck, amd64, contexts)
      IN /\ context.selection # 0 <=> context.status \in Decoded
         /\ context.selection # 0 => context.status = contexts[context.selection]
         /\ context.selection = 3 /\ code = "0x1E" => contexts[4] \notin Decoded
         /\ context.status = "not_applicable" <=> FaultAddress(bugcheck) = Nothing

Stacks == [frames : {<<>>, <<0>>, <<0, 1>>, <<1, 2>>}, valid : 0..3]

(* A driver is implicated by the fault or by a frame the unwinder vouches  *)
(* for, and by nothing else: neither the kernel nor a module that is only  *)
(* loaded or lies on the rest of the stack; symbols are loaded once for    *)
(* each module involved (dump_driver_evidence, dump_symbol_modules).       *)
AttributionNeedsEvidence ==
  \A fault \in {Nothing, 0, 2} : \A s, t \in Stacks : \A moduleAt \in ModuleMaps :
    LET evidence == DriverEvidence(fault, {s, t}, moduleAt)
        vouched == UNION {{u.frames[k] : k \in {l \in DOMAIN u.frames : l <= u.valid}} : u \in {s, t}}
        modules == SymbolModules(fault, 1, moduleAt)
    IN /\ evidence.status = "direct_evidence_present" <=>
            \E a \in vouched \cup ({fault} \ {Nothing}) : moduleAt[a] = "driver"
       /\ ToSet(modules) = {moduleAt[fault], moduleAt[1]} \ {"none"}
       /\ Len(modules) = Cardinality(ToSet(modules))

ImageNames == <<"image", "loaded">>
Places == {"extra", "system"} \X {"image", "loaded"}

(* The image that is used is one that matches the dump, the first in the   *)
(* order of the roots, and every file passed over is listed as rejected; a *)
(* root named twice is searched once (prepare_dump_native_symbols).        *)
ImagesAreValidated ==
  /\ \A files \in [Places -> {"absent", "matches", "mismatch", "unreadable"}] :
       LET search == ImageSearch(<<"extra", "system">>, ImageNames, files)
           found == \E p \in Places : files[p] = "matches"
       IN /\ found => files[search.image] = "matches"
          /\ \A p \in ToSet(search.rejected) : files[p] \in {"mismatch", "unreadable"}
          /\ ~found => ToSet(search.rejected) = {p \in Places : files[p] # "absent"}
          /\ search.image[1] = "system" => \A n \in ToSet(ImageNames) : files[<<"extra", n>>] # "matches"
          /\ NativeSymbols(1, Nothing, [a \in Options |-> "driver"], TRUE, search.image, "unavailable", "cached")
               = "configured_from_cache" <=> found
  /\ \A extra \in BoundedSeq({"a", "b"}, 3) :
       LET roots == ImageRoots(extra, <<"b", "c">>)
       IN ToSet(roots) = ToSet(extra) \cup {"b", "c"} /\ Len(roots) = Cardinality(ToSet(roots))
=============================================================================
