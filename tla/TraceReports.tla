----------------------------- MODULE TraceReports -----------------------------
(***************************************************************************)
(* What windbg-tool computes itself from the answers of the replay service *)
(* (crates/windbg-tool, cli.rs): dumps, strings and pointers in memory     *)
(* that was read, pointer chains, return addresses recovered from a stack, *)
(* timelines, module audits, exports, DLL search orders, source files and  *)
(* the action log.                                                         *)
(*                                                                         *)
(* Widths are scaled down: a row of a dump has four bytes, a pointer two,  *)
(* a text two characters (four in the code), a trace a few sequences.      *)
(***************************************************************************)
EXTENDS Integers, SequencesExt, FiniteSetsExt

Smaller(a, b) == IF a <= b THEN a ELSE b

\* `total`, `returned`, `truncated` and the rows of every list with a limit.
Page(rows, limit) ==
  [total |-> Len(rows), rows |-> SubSeq(rows, 1, Smaller(Len(rows), limit)),
   truncated |-> Len(rows) > limit]

Concat(rows) == FlattenSeq(rows)

-----------------------------------------------------------------------------
(* Memory that was read.                                                   *)

RowSize == 4
PointerSize == 2

\* slice::chunks: the last chunk may be short; chunks_exact leaves it out.
Chunks(bytes, n) ==
  [k \in 1..((Len(bytes) + n - 1) \div n) |-> SubSeq(bytes, (k - 1) * n + 1, Smaller(k * n, Len(bytes)))]
ChunksExact(bytes, n) == SubSeq(Chunks(bytes, n), 1, Len(bytes) \div n)

\* from_le_bytes, with bytes of four values.
Pointer(chunk) == chunk[1] + 4 * chunk[2]

DumpBytes(address, bytes) ==
  [k \in DOMAIN Chunks(bytes, RowSize) |->
     [address |-> address + (k - 1) * RowSize, bytes |-> Chunks(bytes, RowSize)[k]]]

DumpPointers(address, bytes) ==
  [k \in DOMAIN Chunks(bytes, RowSize) |->
     LET whole == ChunksExact(Chunks(bytes, RowSize)[k], PointerSize)
     IN [address |-> address + (k - 1) * RowSize,
         pointers |-> [i \in DOMAIN whole |-> Pointer(whole[i])]]]

\* Faulty: the slot is counted in rows of the list and not in bytes.
SlotsByIndex(base, bytes) ==
  LET whole == ChunksExact(bytes, PointerSize)
  IN [k \in DOMAIN whole |-> [slot |-> base + k - 1, value |-> Pointer(whole[k])]]

\* memory dps and the entries of a vtable: every whole pointer at its slot.
Slots(base, bytes) ==
  LET whole == ChunksExact(bytes, PointerSize)
  IN [k \in DOMAIN whole |-> [slot |-> base + (k - 1) * PointerSize, value |-> Pointer(whole[k])]]

MinText == 2
IsText(byte) == byte \in {1, 2}

PushText(found, begin, end) ==
  IF end - begin >= MinText THEN Append(found, [offset |-> begin - 1, length |-> end - begin]) ELSE found

\* Faulty: a run that reaches the end of the bytes is forgotten.
AsciiStringsInside(bytes) ==
  LET after[i \in 0..Len(bytes)] ==
        IF i = 0 THEN [begin |-> 0, found |-> <<>>]
        ELSE LET s == after[i - 1]
             IN IF IsText(bytes[i]) THEN [s EXCEPT !.begin = IF @ = 0 THEN i ELSE @]
                ELSE IF s.begin = 0 THEN s
                ELSE [begin |-> 0, found |-> PushText(s.found, s.begin, i)]
  IN after[Len(bytes)].found

\* ascii_strings: one pass, with the run that is open at the end.
AsciiStrings(bytes) ==
  LET after[i \in 0..Len(bytes)] ==
        IF i = 0 THEN [begin |-> 0, found |-> <<>>]
        ELSE LET s == after[i - 1]
             IN IF IsText(bytes[i]) THEN [s EXCEPT !.begin = IF @ = 0 THEN i ELSE @]
                ELSE IF s.begin = 0 THEN s
                ELSE [begin |-> 0, found |-> PushText(s.found, s.begin, i)]
      last == after[Len(bytes)]
  IN IF last.begin = 0 THEN last.found ELSE PushText(last.found, last.begin, Len(bytes) + 1)

(* utf16le_strings: the scan starts again one unit behind every start, so  *)
(* a longer text is reported once more for each of its endings.            *)
Utf16Strings(bytes) ==
  LET IsUnit(i) == i + 1 <= Len(bytes) /\ IsText(bytes[i]) /\ bytes[i + 1] = 0
      Units(i) == Cardinality({n \in 1..Len(bytes) : \A k \in 0..(n - 1) : IsUnit(i + 2 * k)})
      begins == SelectSeq([k \in 1..(Len(bytes) \div 2) |-> 2 * k - 1], LAMBDA i : Units(i) >= MinText)
  IN [k \in DOMAIN begins |-> [offset |-> begins[k] - 1, length |-> Units(begins[k])]]

\* memory strings: both lists, the short ones left out, by address, a page.
Strings(bytes, encodings, minLen, limit) ==
  LET Of(encoding, found) ==
        IF encoding \notin encodings THEN <<>>
        ELSE LET long == SelectSeq(found, LAMBDA t : t.length >= minLen)
             IN [k \in DOMAIN long |-> [encoding |-> encoding, offset |-> long[k].offset, length |-> long[k].length]]
      all == Of("ascii", AsciiStrings(bytes)) \o Of("utf16", Utf16Strings(bytes))
      order == SortSeq([k \in DOMAIN all |-> k],
                       LAMBDA i, j : all[i].offset < all[j].offset \/ (all[i].offset = all[j].offset /\ i < j))
  IN Page([k \in DOMAIN order |-> all[order[k]]], limit)

\* memory_summary, of what can be told from counts: the ratios are in tenths.
CountOf(byte, bytes) == Cardinality({i \in DOMAIN bytes : bytes[i] = byte})
MemorySummary(bytes) ==
  LET Mostly(byte) == bytes # <<>> /\ 10 * CountOf(byte, bytes) >= 9 * Len(bytes)
      hints == (IF bytes = <<>> THEN {"empty"} ELSE {})
               \cup (IF Mostly(0) THEN {"mostly_zero"} ELSE {})
               \cup (IF Mostly(3) THEN {"mostly_ff"} ELSE {})
               \cup (IF \E b \in ToSet(bytes) : Mostly(b) THEN {"repeated_fill_pattern"} ELSE {})
               \cup (IF AsciiStrings(bytes) # <<>> THEN {"contains_ascii"} ELSE {})
               \cup (IF Utf16Strings(bytes) # <<>> THEN {"contains_utf16le"} ELSE {})
  IN IF hints = {} THEN {"unclassified"} ELSE hints

\* Faulty: a null pointer is followed like any other.
ChaseOn(memory, root, offset, depth) ==
  LET after[d \in 0..depth] ==
        IF d = 0 THEN [current |-> root, hops |-> <<>>, stop |-> "max_depth"]
        ELSE LET s == after[d - 1]
                 at == s.current + offset
             IN IF s.stop # "max_depth" THEN s
                ELSE IF at \notin DOMAIN memory \/ memory[at] = -1 THEN [s EXCEPT !.stop = "error"]
                ELSE [current |-> memory[at], stop |-> "max_depth",
                      hops |-> Append(s.hops, [base |-> s.current, target |-> memory[at]])]
  IN after[depth]

(* memory chase: one pointer per hop, read at the base and the offset, -1  *)
(* where it cannot be read; an address past the last one is an error too.  *)
Chase(memory, root, offset, depth) ==
  LET after[d \in 0..depth] ==
        IF d = 0 THEN [current |-> root, hops |-> <<>>, stop |-> "max_depth"]
        ELSE LET s == after[d - 1]
                 at == s.current + offset
             IN IF s.stop # "max_depth" THEN s
                ELSE IF at \notin DOMAIN memory \/ memory[at] = -1 THEN [s EXCEPT !.stop = "error"]
                ELSE [current |-> IF memory[at] = 0 THEN s.current ELSE memory[at],
                      stop |-> IF memory[at] = 0 THEN "null_pointer" ELSE "max_depth",
                      hops |-> Append(s.hops, [base |-> s.current, target |-> memory[at]])]
  IN after[depth]

-----------------------------------------------------------------------------
(* Return addresses recovered from a stack.                                *)

\* stack_candidate_confidence, in hundredths; the slot is counted in bytes.
Confidence(p) ==
  15 + (IF p.inModule THEN 55 ELSE 0) + (IF p.slot % 2 = 0 THEN 10 ELSE 0)
     + (IF p.value # 0 /\ p.value % 2 = 0 THEN 15 ELSE 0) + (IF p.value % 4 = 0 THEN 5 ELSE 0)

\* Faulty: the list is cut before it is sorted.
RecoverCutFirst(pointers, limit, least) ==
  LET kept == SelectSeq(pointers, LAMBDA p : Confidence(p) >= least)
      Before(p, q) == Confidence(p) > Confidence(q) \/ (Confidence(p) = Confidence(q) /\ p.slot < q.slot)
  IN SortSeq(Page(kept, limit).rows, Before)

\* recover_stack_candidates: the best first, the lower slot among equals.
Recover(pointers, limit, least) ==
  LET kept == SelectSeq(pointers, LAMBDA p : Confidence(p) >= least)
      Before(p, q) == Confidence(p) > Confidence(q) \/ (Confidence(p) = Confidence(q) /\ p.slot < q.slot)
  IN Page(SortSeq(kept, Before), limit).rows

(* stack backtrace: the current instruction, if there is one, and as many  *)
(* candidates as max-frames leaves.                                        *)
Backtrace(pc, pointers, maxFrames, least) ==
  LET recovered == Recover(pointers, maxFrames - 1, least)
      current == IF pc = 0 THEN <<>> ELSE <<[kind |-> "current_instruction", address |-> pc]>>
  IN current \o [k \in DOMAIN recovered |-> [kind |-> "recovered_return_address", address |-> recovered[k].value]]

-----------------------------------------------------------------------------
(* Timelines.                                                              *)

Kinds == <<"modules", "threads", "exceptions", "keyframes">>
NoSequence == 9

(* collect_timeline_events and collect_keyframe_events: the items of a     *)
(* source that answered; an item without a position sorts last.            *)
Collected(kind, source) ==
  IF ~source.ok THEN <<>>
  ELSE [i \in DOMAIN source.items |-> [kind |-> kind, sequence |-> source.items[i]]]

\* timeline_source_summary.
SourceSummary(source) ==
  IF source.ok THEN [ok |-> TRUE, items |-> Len(source.items)] ELSE [ok |-> FALSE, items |-> 0]

Included(kind, asked) == asked = "all" \/ asked = kind

EventOrder(events) ==
  LET Rank(e) == CHOOSE r \in 1..4 : <<"exceptions", "keyframes", "modules", "threads">>[r] = e.kind
      Before(i, j) ==
        \/ events[i].sequence < events[j].sequence
        \/ events[i].sequence = events[j].sequence /\ Rank(events[i]) < Rank(events[j])
        \/ events[i].sequence = events[j].sequence /\ Rank(events[i]) = Rank(events[j]) /\ i < j
      order == SortSeq([k \in DOMAIN events |-> k], Before)
  IN [k \in DOMAIN order |-> events[order[k]]]

\* Faulty: the events are sorted within their sources only.
TimelineUnmerged(sources, asked, limit) ==
  LET of == [k \in 1..4 |-> IF Included(Kinds[k], asked) THEN Collected(Kinds[k], sources[k]) ELSE <<>>]
      events == Concat([k \in 1..4 |-> EventOrder(of[k])])
  IN [page |-> Page(events, limit),
      counts |-> [k \in 1..4 |-> Len(SelectSeq(events, LAMBDA e : e.kind = Kinds[k]))]]

\* timeline_events_value: the sources in turn, merged, counted and cut.
Timeline(sources, asked, limit) ==
  LET of == [k \in 1..4 |-> IF Included(Kinds[k], asked) THEN Collected(Kinds[k], sources[k]) ELSE <<>>]
      events == EventOrder(Concat(of))
  IN [page |-> Page(events, limit),
      counts |-> [k \in 1..4 |-> Len(SelectSeq(events, LAMBDA e : e.kind = Kinds[k]))]]

-----------------------------------------------------------------------------
(* Modules, exports and files.                                             *)

\* A module's path by what audit_modules asks of it; no path is "".
PathReasons(path) ==
  CASE path = "" -> {"missing_module_path"}
    [] path = "system" -> {}
    [] path = "gone" -> {"binary_not_available_locally"}
    [] path = "program" -> {"outside_windows_directory"}
    [] path = "download" -> {"user_or_programdata_path", "temp_or_download_path", "outside_windows_directory"}
    [] path = "share" -> {"network_path", "outside_windows_directory", "binary_not_available_locally"}

\* Faulty: a module that appears twice is told by its name alone.
DuplicatesByName(modules) ==
  {n \in {m.name : m \in ToSet(modules)} : Cardinality({i \in DOMAIN modules : modules[i].name = n}) > 1}

\* The names loaded more than once, from more than one path.
Duplicates(modules) ==
  {n \in {m.name : m \in ToSet(modules)} :
     LET instances == {i \in DOMAIN modules : modules[i].name = n}
     IN Cardinality(instances) > 1 /\ Cardinality({modules[i].path : i \in instances} \ {""}) > 1}

(* audit_modules: the summary counts every module, the list stops at its   *)
(* limit and calls itself truncated as soon as the limit is reached.       *)
Audit(modules, limit) ==
  LET suspects == SelectSeq(modules, LAMBDA m : PathReasons(m.path) # {})
      listed == Page(suspects, limit).rows
  IN [counts |-> [r \in UNION {PathReasons(m.path) : m \in ToSet(modules)} |->
                    Len(SelectSeq(modules, LAMBDA m : r \in PathReasons(m.path)))],
      suspicious |-> listed, truncated |-> Len(listed) >= limit,
      duplicates |-> Duplicates(modules)]

(* session_pe_diagnostics: the first few local files are parsed.           *)
MaxParsed == 2
PeDiagnostics(modules) ==
  LET local == SelectSeq(modules, LAMBDA m : m.path \notin {"", "gone", "share"})
  IN [page |-> Page(local, MaxParsed), withPath |-> Len(SelectSeq(modules, LAMBDA m : m.path # ""))]

\* nearest_export: the last of the highest ones at or below, no forwarders.
NoExport == [rva |-> -1, forwarder |-> FALSE]
NearestExport(exports, rva) ==
  LET below == {i \in DOMAIN exports : ~exports[i].forwarder /\ exports[i].rva <= rva}
  IN IF below = {} THEN NoExport
     ELSE exports[CHOOSE i \in below : \A j \in below :
                    exports[j].rva < exports[i].rva \/ (exports[j].rva = exports[i].rva /\ j <= i)]

(* module_search_order: what is probed, in order; `kind` tells the risk.   *)
SearchOrder(hasAppDir, pathDirs, maxPathDirs) ==
  LET shown == Page(pathDirs, maxPathDirs)
  IN [order |-> <<"known_dlls">> \o (IF hasAppDir THEN <<"application_directory">> ELSE <<>>)
                \o <<"system32", "system", "windows", "current_directory">> \o shown.rows,
      truncated |-> shown.truncated]

(* collect_source_matches: the files in the order of the walk, as far as   *)
(* the limit and the depth let it go.  A file is its path and how many of  *)
(* its last components are those of the recorded path.                     *)
Walk(found, files, limit, maxDepth) ==
  LET after[i \in 0..Len(files)] ==
        IF i = 0 THEN found
        ELSE LET s == after[i - 1]
             IN IF Len(s) >= limit \/ files[i].depth > maxDepth \/ files[i].matched = 0 THEN s
                ELSE Append(s, files[i])
  IN after[Len(files)]

\* source_resolve: the walk of every root, the best first, each path once.
Resolve(direct, files, limit, maxDepth) ==
  LET found == Walk(direct, files, limit, maxDepth)
      Before(f, g) == f.matched > g.matched \/ (f.matched = g.matched /\ f.path < g.path)
      sorted == SortSeq(found, Before)
      once == SelectSeq([i \in DOMAIN sorted |-> i], LAMBDA i : i = 1 \/ sorted[i - 1].path # sorted[i].path)
  IN Page([k \in DOMAIN once |-> sorted[once[k]]], limit).rows

-----------------------------------------------------------------------------
(* The action log.                                                         *)

Groups == {"trace", "debug"}

\* command_requires_subcommand and expected_command_path_depth.
PathDepth(path) ==
  CASE path = <<>> -> 1
    [] Len(path) = 2 /\ path = <<"debug", "log">> -> 3
    [] path # <<>> /\ path # <<"debug", "log">> -> IF path[1] \in Groups THEN 2 ELSE 1
    [] OTHER -> 1

\* Faulty: the value of an option is taken for a word of the command.
CommandPathWithValues(args) ==
  LET after[i \in 0..Len(args)] ==
        IF i = 0 THEN [path |-> <<>>, done |-> FALSE, skip |-> FALSE]
        ELSE LET s == after[i - 1]
             IN CASE s.done -> s
                  [] ~s.done /\ args[i] \in {"--compact", "--pipe", "--"} ->
                       [s EXCEPT !.done = s.path # <<>> \/ args[i] = "--"]
                  [] OTHER -> LET path == Append(s.path, args[i])
                              IN [s EXCEPT !.path = path, !.done = Len(path) >= PathDepth(path)]
  IN after[Len(args)].path

\* command_path_from_args: options, and the values they take, are no words.
CommandPath(args) ==
  LET after[i \in 0..Len(args)] ==
        IF i = 0 THEN [path |-> <<>>, done |-> FALSE, skip |-> FALSE]
        ELSE LET s == after[i - 1]
             IN CASE s.done -> s
                  [] ~s.done /\ s.skip -> [s EXCEPT !.skip = FALSE]
                  [] ~s.done /\ ~s.skip /\ args[i] \in {"--compact", "--pipe", "--"} ->
                       [s EXCEPT !.done = s.path # <<>> \/ args[i] = "--", !.skip = args[i] = "--pipe" /\ s.path = <<>>]
                  [] OTHER -> LET path == Append(s.path, args[i])
                              IN [s EXCEPT !.path = path, !.done = Len(path) >= PathDepth(path)]
  IN after[Len(args)].path

\* debug_log_summary_value: the last `limit` entries; a torn line is counted.
LogSummary(lines, limit) ==
  LET entries == SelectSeq(lines, LAMBDA line : line.parses)
      recent == SubSeq(entries, Len(entries) - Smaller(limit, Len(entries)) + 1, Len(entries))
  IN [total |-> Len(entries), malformed |-> Len(lines) - Len(entries),
      failed |-> Len(SelectSeq(entries, LAMBDA e : ~e.ok)),
      recent |-> recent, truncated |-> Len(entries) > Len(recent)]

-----------------------------------------------------------------------------
(* What the reports promise.                                               *)

ShortBytes == UNION {[1..n -> 0..3] : n \in 0..5}

(* Every run of characters of at least the least length is reported once,  *)
(* at its offset and as long as it is; every UTF-16 text reported is one   *)
(* and goes as far as it can; with both the list is in order of addresses  *)
(* and says so when it is cut (ascii_strings, utf16le_strings,             *)
(* memory_strings_and_print).                                              *)
StringsAreExact ==
  \A bytes \in ShortBytes :
    LET Run(i, j) == \A k \in i..j : IsText(bytes[k])
        runs == {r \in (DOMAIN bytes) \X (DOMAIN bytes) :
                   /\ r[1] <= r[2] /\ Run(r[1], r[2])
                   /\ r[1] = 1 \/ ~IsText(bytes[r[1] - 1])
                   /\ r[2] = Len(bytes) \/ ~IsText(bytes[r[2] + 1])
                   /\ r[2] - r[1] + 1 >= MinText}
        found == AsciiStrings(bytes)
        page == Strings(bytes, {"ascii", "utf16"}, MinText, 1)
        Unit(i) == i + 2 <= Len(bytes) /\ IsText(bytes[i + 1]) /\ bytes[i + 2] = 0
    IN /\ ToSet(found) = {[offset |-> r[1] - 1, length |-> r[2] - r[1] + 1] : r \in runs}
       /\ Len(found) = Cardinality(runs)
       /\ \A t \in ToSet(Utf16Strings(bytes)) :
            /\ \A k \in 0..(t.length - 1) : Unit(t.offset + 2 * k)
            /\ ~Unit(t.offset + 2 * t.length)
       /\ page.truncated <=> Len(page.rows) < page.total
       /\ page.rows # <<>> => \A t \in ToSet(found) : page.rows[1].offset <= t.offset

(* A byte or pointer of a dump stands at its own address, and rows leave   *)
(* out nothing but what is no whole pointer (dump_db_rows, dump_dq_rows,   *)
(* memory_dps_and_print, object_vtable_and_print).                         *)
RowsAreInPlace ==
  \A bytes \in ShortBytes :
    LET rows == DumpBytes(0, bytes)
        slots == Slots(0, bytes)
    IN /\ Concat([k \in DOMAIN rows |-> rows[k].bytes]) = bytes
       /\ \A k \in DOMAIN rows : \A i \in DOMAIN rows[k].bytes : bytes[rows[k].address + i] = rows[k].bytes[i]
       /\ \A k \in DOMAIN slots : slots[k].value = Pointer(SubSeq(bytes, slots[k].slot + 1, slots[k].slot + 2))
       /\ Concat([k \in DOMAIN rows |-> DumpPointers(0, bytes)[k].pointers]) = [k \in DOMAIN slots |-> slots[k].value]
       /\ Len(slots) = Len(bytes) \div PointerSize
       /\ \A fill \in {"mostly_zero", "mostly_ff"} :
            fill \in MemorySummary(bytes) => "repeated_fill_pattern" \in MemorySummary(bytes)

(* A pointer chain goes on where its last hop led, never from a null       *)
(* pointer and never beyond the depth, and says why it ended               *)
(* (memory_chase_and_print).                                               *)
ChasesFollow ==
  \A memory \in [0..3 -> -1..3] : \A root \in 1..3 : \A offset \in 0..1 : \A depth \in 1..3 :
    LET chase == Chase(memory, root, offset, depth)
        hops == chase.hops
    IN /\ Len(hops) <= depth
       /\ \A k \in DOMAIN hops :
            /\ hops[k].base = IF k = 1 THEN root ELSE hops[k - 1].target
            /\ hops[k].base # 0
            /\ hops[k].target = memory[hops[k].base + offset]
       /\ chase.stop = "null_pointer" <=> hops # <<>> /\ hops[Len(hops)].target = 0
       /\ chase.stop = "max_depth" => Len(hops) = depth

(* No return address that is left out is better than one that is shown,    *)
(* the shown ones are in order, and a backtrace has no more frames than it *)
(* may (recover_stack_candidates, stack_backtrace_and_print).              *)
BestCandidatesFirst ==
  \A pointers \in [1..3 -> [slot : {2, 3, 4}, value : {1, 2, 4}, inModule : BOOLEAN]] :
    \A limit \in 0..2 : \A least \in {20, 75} :
      LET shown == Recover(pointers, limit, least)
      IN /\ Len(shown) <= limit
         /\ \A k \in DOMAIN shown :
              /\ Confidence(shown[k]) >= least
              /\ k > 1 => Confidence(shown[k - 1]) >= Confidence(shown[k])
              /\ Cardinality({i \in 1..3 : Confidence(pointers[i]) > Confidence(shown[k])}) < k
         /\ Len(Backtrace(1, pointers, limit + 1, least)) <= limit + 1

(* A timeline has every item of every source that answered, in the order   *)
(* of the trace across the sources; what it leaves out lies behind what it *)
(* shows, and a source that failed costs only its own items                *)
(* (timeline_events_value).                                                *)
TimelinesAreMerged ==
  LET Answers == {[ok |-> FALSE, items |-> <<>>], [ok |-> TRUE, items |-> <<>>],
                  [ok |-> TRUE, items |-> <<1>>], [ok |-> TRUE, items |-> <<2, NoSequence>>]}
  IN \A sources \in [1..4 -> Answers] : \A asked \in {"all", "modules"} : \A limit \in {0, 1, 3} :
       LET timeline == Timeline(sources, asked, limit)
           rows == timeline.page.rows
           kinds == {k \in 1..4 : Included(Kinds[k], asked)}
           items == {k \in kinds \X (1..2) : k[2] \in DOMAIN sources[k[1]].items}
       IN /\ \A k \in kinds : timeline.counts[k] = SourceSummary(sources[k]).items
          /\ timeline.page.total = Cardinality(items)
          /\ timeline.page.truncated <=> Len(rows) < Cardinality(items)
          /\ \A i \in 2..Len(rows) : rows[i - 1].sequence <= rows[i].sequence
          /\ rows # <<>> =>
               Cardinality({k \in items : sources[k[1]].items[k[2]] < rows[Len(rows)].sequence}) < Len(rows)

(* An audit that is not called truncated names every module with something *)
(* to review, its counts cover all modules whatever the limit, and a name  *)
(* is a duplicate only if it comes from two places (audit_modules,         *)
(* session_pe_diagnostics).                                                *)
AuditsAreComplete ==
  \A modules \in [1..3 -> [name : {"a", "b"}, path : {"", "system", "gone", "download"}]] : \A limit \in 0..3 :
    LET audit == Audit(modules, limit)
        pe == PeDiagnostics(modules)
    IN /\ Len(audit.suspicious) <= limit
       /\ ~audit.truncated =>
            \A m \in ToSet(modules) : PathReasons(m.path) # {} => m \in ToSet(audit.suspicious)
       /\ \A r \in DOMAIN audit.counts :
            audit.counts[r] = Cardinality({i \in 1..3 : r \in PathReasons(modules[i].path)})
       /\ \A n \in {"a", "b"} :
            n \in audit.duplicates <=>
              \E i, j \in 1..3 : /\ modules[i].name = n /\ modules[j].name = n
                                /\ "" \notin {modules[i].path, modules[j].path}
                                /\ modules[i].path # modules[j].path
       /\ pe.page.total <= pe.withPath
       /\ pe.page.truncated <=> Len(pe.page.rows) < pe.page.total

(* The nearest export is none that forwards, and no other one lies between *)
(* it and the address; a search order is cut only at the end of PATH.      *)
LookupsAreNearest ==
  /\ \A exports \in [1..3 -> [rva : 0..3, forwarder : BOOLEAN]] : \A rva \in 0..3 :
       LET nearest == NearestExport(exports, rva)
       IN /\ nearest # NoExport => nearest \in ToSet(exports)
          /\ ~nearest.forwarder /\ nearest.rva <= rva
          /\ \A e \in ToSet(exports) : ~e.forwarder /\ e.rva <= rva => e.rva <= nearest.rva
  /\ \A n \in 0..3 : \A limit \in 0..3 : \A hasAppDir \in BOOLEAN :
       LET dirs == [i \in 1..n |-> IF i = 1 THEN "bin" ELSE "tools"]
           search == SearchOrder(hasAppDir, dirs, limit)
           whole == SearchOrder(hasAppDir, dirs, n)
       IN IsPrefix(search.order, whole.order) /\ (search.truncated <=> search.order # whole.order)

Files == [path : 1..3, matched : 0..2, depth : 0..2]

(* A search for a source file that its limit did not stop finds the file   *)
(* with the longest suffix; no path is listed twice (source_resolve).      *)
SearchesAreSound ==
  \A files \in {f \in [1..3 -> Files] : f[1].path # f[2].path /\ f[2].path # f[3].path /\ f[1].path # f[3].path} :
    \A limit \in {1, 2, 4} :
      LET shown == Resolve(<<>>, files, limit, 1)
          within == {f \in ToSet(files) : f.depth <= 1 /\ f.matched > 0}
      IN /\ Len(shown) <= limit
         /\ Cardinality({f.path : f \in ToSet(shown)}) = Len(shown)
         /\ Cardinality(within) <= limit => ToSet(shown) = within
         /\ Cardinality(within) <= limit /\ within # {} => \A f \in within : f.matched <= shown[1].matched

(* The action log names the command and no option, value or argument; its  *)
(* summary shows the last entries and counts the lines it could not read   *)
(* (command_path_from_args, debug_log_summary_value).                      *)
LogsAreTrue ==
  /\ \A options \in {<<>>, <<"--compact">>, <<"--pipe", "v">>, <<"--pipe", "v", "--compact">>} :
       \A words \in {<<"doctor">>, <<"trace", "list">>, <<"debug", "log", "summarize">>} :
         \A rest \in {<<>>, <<"v">>, <<"--compact">>, <<"--", "v">>} :
           CommandPath(options \o words \o rest) = words
  /\ \A lines \in UNION {[1..n -> [parses : BOOLEAN, ok : BOOLEAN]] : n \in 0..3} : \A limit \in 0..3 :
       LET summary == LogSummary(lines, limit)
       IN /\ summary.total + summary.malformed = Len(lines)
          /\ summary.truncated <=> Len(summary.recent) < summary.total
          /\ summary.recent # <<>> /\ lines[Len(lines)].parses =>
               summary.recent[Len(summary.recent)] = lines[Len(lines)]

=============================================================================
