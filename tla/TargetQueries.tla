---------------------------- MODULE TargetQueries ----------------------------
(***************************************************************************)
(* What a debugger session computes from the answers of DbgEng without     *)
(* changing anything (crates/windbg-dbgeng, lib.rs): the page-table walk,  *)
(* the memory map, stacks, disassembly, thread accounting, the exception   *)
(* context and the last event.                                             *)
(*                                                                         *)
(* Widths are scaled down: a table has two entries, a page has two bytes,  *)
(* and a physical address is a frame number and a byte.                    *)
(***************************************************************************)
EXTENDS Integers, SequencesExt

\* A call into DbgEng that fails.
QueryError == "error"
NoRegion == [base |-> -1, size |-> -1]

-----------------------------------------------------------------------------
(* walk_x64_page_tables.                                                   *)

PageBytes == 2

(* One bit of a 64-bit entry above the physical address, NX, set.          *)
AbovePhysical == 1024

\* The levels of the walk, from the root.
Levels(la57) == IF la57 THEN <<"PML5E", "PML4E", "PDPTE", "PDE", "PTE">>
                ELSE <<"PML4E", "PDPTE", "PDE", "PTE">>

(* x64_page_table_entry: bit 7 is a large page only where one can be, and  *)
(* no_execute is bit 63.                                                   *)
Entry(present, bit7, noExecute, frame) ==
  [read |-> TRUE, present |-> present, bit7 |-> bit7, noExecute |-> noExecute, frame |-> frame]
UnreadEntry == [Entry(FALSE, FALSE, FALSE, 0) EXCEPT !.read = FALSE]
LargePage(level, e) == level \in {"PDPTE", "PDE"} /\ e.bit7

(* x64_virtual_address_is_canonical: the bits above the sign bit repeat it.*)
(* `upper` is those bits as far as a wider walk would use them.            *)
Canonical(upper, indexes) ==
  upper = IF indexes[1] = 0 THEN "zeros" ELSE "ones"

(* A page reached at level i spans the frames that the levels below it     *)
(* would have told apart; `within` is the address inside of it.            *)
Span(levels, i) == 2 ^ (Len(levels) - i)

Within(levels, i, indexes, byte) ==
  LET pages[j \in i..Len(levels)] == IF j = i THEN 0 ELSE 2 * pages[j - 1] + indexes[j]
  IN pages[Len(levels)] * PageBytes + byte

\* X64_PHYSICAL_ADDRESS_MASK, as the 4 KiB branch applies it.
SmallPageAddress(e, within) == e.frame * PageBytes + within

(* A large page's base is cut to its size but not to the physical mask.    *)
LargePageAddress(e, span, within) ==
  (IF e.noExecute THEN AbovePhysical ELSE 0) + (e.frame \div span) * span * PageBytes + within

Walked(outcome, read) == [status |-> outcome, read |-> read, mapped |-> "none"]

\* Faulty: a large page is looked for at the level that cannot have one.
AtLeafAnyBit7(level, e, last) == e.bit7 \/ last

\* The walk ends at a large page or at the last level.
AtLeaf(level, e, last) == LargePage(level, e) \/ last

(* The walk from level i on: `entries` are what is read at each level, an  *)
(* error, or not all eight bytes, included (read_physical_u64).            *)
WalkFrom(levels, entries, indexes, byte) ==
  LET walk[i \in 1..Len(levels)] ==
        LET level == levels[i]
            e == entries[i]
            within == Within(levels, i, indexes, byte)
        IN CASE ~e.read -> Walked("physical_read_unavailable", i - 1)
             [] e.read /\ ~e.present -> Walked("nonpresent", i)
             [] e.read /\ e.present /\ AtLeaf(level, e, i = Len(levels)) ->
                  [status |-> "captured", read |-> i,
                   mapped |-> IF LargePage(level, e)
                              THEN LargePageAddress(e, Span(levels, i), within)
                              ELSE SmallPageAddress(e, within)]
             [] OTHER -> IF e.frame = 0 THEN Walked("invalid_next_table", i) ELSE walk[i + 1]
  IN walk[1]

(* walk_x64_page_tables: cr4 says how many levels, cr3 where the root is;  *)
(* one that cannot be read is 0 here.                                      *)
Walk(cr4, cr3, upper, indexes, byte, entries) ==
  IF cr4 = QueryError THEN Walked("unavailable", 0)
  ELSE IF ~Canonical(upper, indexes) THEN Walked("noncanonical_address", 0)
  ELSE IF cr3 = 0 THEN Walked("unavailable", 0)
  ELSE WalkFrom(Levels(cr4 = "la57"), entries, indexes, byte)

-----------------------------------------------------------------------------
(* virtual_memory_map: regions are asked for one after the other until the *)
(* limit, an error or the end of the address space.                        *)

MapResult(outcome, regions, truncated, next) ==
  [status |-> outcome, regions |-> regions, truncated |-> truncated, next |-> next]

(* query[a] is what QueryVirtual answers for address a: an error, or the   *)
(* region that holds a or the next one above it.  Space is the number of   *)
(* addresses: an end at Space overflows.                                   *)
MemoryMap(query, space, limit) ==
  LET from[n \in 0..limit] ==
        \* The map from `at` on when n regions have been found.
        [at \in 0..(space - 1) |->
          IF n = limit THEN MapResult("bounded", n, TRUE, at)
          ELSE LET r == query[at]
               IN IF r = NoRegion
                  THEN MapResult(IF n = 0 THEN "unavailable" ELSE "partial_query_error",
                                 n, TRUE, at)
                  ELSE IF r.size = 0 THEN MapResult("failed", n, TRUE, at)
                  ELSE IF r.base + r.size >= space \/ r.base + r.size <= at
                  THEN MapResult("address_space_exhausted", n + 1, FALSE, 0)
                  ELSE from[n + 1][r.base + r.size]]
  IN from[0][0]

-----------------------------------------------------------------------------
(* Stacks.                                                                 *)

(* stack_trace_from_offsets: the first frame whose instruction is in no    *)
(* loaded module ends what is valid; frames[i] says whether it is in one.  *)
StackTrace(frames, maxFrames) ==
  LET invalid == {i \in DOMAIN frames : ~frames[i]}
      valid == IF invalid = {} THEN Len(frames)
               ELSE (CHOOSE i \in invalid : \A j \in invalid : i <= j) - 1
  IN [valid |-> valid,
      status |-> CASE frames = <<>> -> "empty"
                   [] frames # <<>> /\ invalid # {} -> "invalid_frame"
                   [] frames # <<>> /\ invalid = {} /\ Len(frames) = maxFrames ->
                        "frame_limit_reached"
                   [] OTHER -> "captured"]

(* disassemble: the addresses of the lines; next[a] is where the           *)
(* instruction at a ends, and one that ends where it begins is the last.   *)
(* Any line that cannot be disassembled fails the whole.                   *)
Disassembly(next, start, count) ==
  LET lines[n \in 0..count] ==
        IF n = 0 THEN <<>>
        ELSE LET before == lines[n - 1]
                 at == IF before = <<>> THEN start ELSE next[before[Len(before)]]
             IN IF before # <<>> /\ at = before[Len(before)] THEN before
                ELSE Append(before, at)
  IN lines[count]

-----------------------------------------------------------------------------
(* thread_accounting_snapshot.                                             *)

(* basic[i] says whether the basic information of thread i can be read.    *)
ThreadAccounting(basic, maxThreads, advanced) ==
  LET total == Len(basic)
      returned == IF ~advanced THEN 0 ELSE IF total > maxThreads THEN maxThreads ELSE total
      missing == Cardinality({i \in 1..returned : ~basic[i]})
      truncated == total > maxThreads
  IN [returned |-> returned, truncated |-> truncated, total |-> total,
      status |-> IF returned = 0 \/ missing = returned THEN "unavailable"
                 ELSE IF missing > 0 \/ truncated THEN "partial" ELSE "captured"]

-----------------------------------------------------------------------------
(* The last event.                                                         *)

(* last_event: what the payload of so many bytes yields; an event's        *)
(* details are left out when its payload is too short (read_event_info).   *)
EventDetail == [breakpoint |-> "breakpoint_id", exception |-> "exception",
                load_module |-> "module_base", unload_module |-> "module_base",
                exit_process |-> "exit_code", exit_thread |-> "exit_code"]

LastEvent(type, used, limit, needed) ==
  IF used > limit THEN QueryError
  ELSE IF type \in DOMAIN EventDetail /\ used >= needed THEN EventDetail[type] ELSE "none"

(* symbol_entry_range_by_offset: how many of the regions it returns.       *)
EntryRegions(entries, available, limit) ==
  IF entries = 0 THEN [status |-> "not_found", regions |-> 0, truncated |-> FALSE]
  ELSE [status |-> "captured",
        regions |-> IF available > limit THEN limit ELSE available,
        truncated |-> available > limit]

-----------------------------------------------------------------------------
(* The bounded inputs.                                                     *)

SomeEntries ==
  {UnreadEntry, Entry(FALSE, FALSE, FALSE, 1)}
    \cup {Entry(TRUE, bit7, nx, frame) : bit7 \in BOOLEAN, nx \in BOOLEAN, frame \in {0, 3}}

(* Where the processor goes: to the frame of the first leaf, and in it to  *)
(* what the rest of the address says.                                      *)
Translation(levels, entries, indexes, byte) ==
  LET leaf == CHOOSE i \in 1..Len(levels) :
                /\ LargePage(levels[i], entries[i]) \/ i = Len(levels)
                /\ \A j \in 1..(i - 1) : ~LargePage(levels[j], entries[j])
      span == Span(levels, leaf)
      low[i \in leaf..Len(levels)] ==
        IF i = leaf THEN 0 ELSE low[i - 1] + indexes[i] * Span(levels, i)
  IN ((entries[leaf].frame \div span) * span + low[Len(levels)]) * PageBytes + byte

LargeAndNoExecute(w, e) == w.read < Len(e) /\ e[w.read].noExecute

(* A walk that captures a mapping has read present entries only and ends   *)
(* where the processor would, with pages of every size, unless the page is *)
(* large and no-execute; any other walk maps nothing and stopped for a     *)
(* reason (walk_x64_page_tables, x64_page_table_entry).                    *)
WalkIsExact ==
  \A e \in [1..4 -> SomeEntries], i \in {<<0, 0, 1, 1>>, <<1, 1, 0, 1>>, <<1, 0, 1, 0>>} :
    LET levels == Levels(FALSE)
        w == Walk("la48", 1, IF i[1] = 0 THEN "zeros" ELSE "ones", i, 1, e)
    IN IF w.status = "captured"
       THEN /\ \A j \in 1..w.read : e[j].present
            /\ ~LargeAndNoExecute(w, e) => w.mapped = Translation(levels, e, i, 1)
       ELSE /\ w.mapped = "none"
            /\ \E j \in 1..4 :
                 /\ ~e[j].read \/ ~e[j].present \/ e[j].frame = 0
                 /\ \A k \in 1..(j - 1) : ~LargePage(levels[k], e[k])

Shortest(s, n) == SubSeq(s, 1, IF Len(s) < n THEN Len(s) ELSE n)

(* The regions of four addresses, as QueryVirtual would answer.            *)
Space == 4
Regions == {r \in [base : 0..(Space - 1), size : 1..Space] : r.base + r.size <= Space}
RegionQueries ==
  {q \in [0..(Space - 1) -> Regions \cup {NoRegion}] :
     \A a \in 0..(Space - 1) : q[a] # NoRegion =>
       /\ q[a].base + q[a].size > a
       /\ \A b \in 0..(Space - 1) :
            (a <= b \/ q[a].base <= b) /\ b < q[a].base + q[a].size => q[b] = q[a]}

(* An answer that claims to be complete is: a memory map whose status is   *)
(* address_space_exhausted has every region, a captured stack is the whole *)
(* stack and in modules throughout, captured accounting has every thread,  *)
(* disassembly has no gap, an event's detail was in its payload, and none  *)
(* of it is claimed when a limit cut the answer short (virtual_memory_map, *)
(* stack_trace_from_offsets, thread_accounting_snapshot, disassemble,      *)
(* last_event, symbol_entry_range_by_offset).                              *)
CapturedIsComplete ==
  /\ \A q \in RegionQueries, limit \in 1..3 :
       LET map == MemoryMap(q, Space, limit)
       IN map.status = "address_space_exhausted" =>
            /\ \A a \in 0..(Space - 1) : q[a] = NoRegion \/ map.regions > 0
            /\ map.regions = Cardinality({q[a] : a \in 0..(Space - 1)} \ {NoRegion})
  /\ \A stack \in UNION {[1..n -> BOOLEAN] : n \in 0..4}, maxFrames \in 1..3 :
       LET s == StackTrace(Shortest(stack, maxFrames), maxFrames)
       IN s.status = "captured" => s.valid = Len(stack)
  /\ \A threads \in UNION {[1..n -> BOOLEAN] : n \in 0..4}, maxThreads \in 1..3,
       advanced \in BOOLEAN :
       LET t == ThreadAccounting(threads, maxThreads, advanced)
       IN t.status = "captured" =>
            t.returned = Len(threads) /\ \A i \in DOMAIN threads : threads[i]
  /\ \A next \in [0..2 -> 0..2], count \in 1..4 :
       LET lines == Disassembly(next, 0, count)
       IN /\ \A i \in 2..Len(lines) : lines[i] = next[lines[i - 1]] /\ lines[i] # lines[i - 1]
          /\ Len(lines) < count => next[lines[Len(lines)]] = lines[Len(lines)]
  /\ \A type \in DOMAIN EventDetail, used, needed \in 0..3 :
       LastEvent(type, used, 2, needed) \notin {"none", QueryError} => needed <= used /\ used <= 2
  /\ \A entries \in 0..1, available \in 0..3 :
       LET range == EntryRegions(entries, available, 2)
       IN range.status = "captured" /\ ~range.truncated => range.regions = available
=============================================================================
