---------------------------- MODULE ReplayQueries ----------------------------
(***************************************************************************)
(* What the replay service computes from a native trace without moving a   *)
(* cursor (crates/windbg-ttd, ttd_replay/registry.rs, native.rs and        *)
(* position.rs, native/ttd-replay-bridge): lists, memory, registers,       *)
(* stacks, modules, addresses, positions and capabilities.                 *)
(*                                                                         *)
(* Widths are scaled down: an address has three bits, a pointer and a      *)
(* UTF-16 unit are one byte.  A byte of guest memory is identified by its  *)
(* address, so that data that has moved can be told from data in place.    *)
(***************************************************************************)
EXTENDS Integers, SequencesExt

\* What a request answers that is refused or fails.
Refused == [refused |-> TRUE]
Absent == -1

Least(a, b) == IF a <= b THEN a ELSE b

-----------------------------------------------------------------------------
(* Lists cross the bridge in two calls.                                    *)

(* A list call of the bridge: the count is always answered, the rows only  *)
(* into a buffer that takes all of them.                                   *)
ListCall(rows, capacity) ==
  [count |-> Len(rows), copied |-> IF capacity < Len(rows) THEN <<>> ELSE rows]

DefaultRow == [row |-> "default"]

(* Both calls and the truncation behind them.  `before` and `after` differ *)
(* only for ttd_trace_list, which reads the file anew in each call: every  *)
(* other list is part of a trace that is loaded, under its mutex.          *)
TwoCalls(before, after) ==
  LET counted == ListCall(before, 0).count
      answer == ListCall(after, counted)
      buffer == [i \in 1..counted |-> IF i <= Len(answer.copied) THEN answer.copied[i] ELSE DefaultRow]
  IN SubSeq(buffer, 1, Least(answer.count, counted))

\* An instance that is never unloaded carries the invalid sequence.
InvalidSequence == 99
ValidPosition(p) == IF p = InvalidSequence THEN Absent ELSE p

(* list_modules of the whole trace: one row per instance.                  *)
ModuleRow(m) ==
  [name |-> m.name, base |-> m.base, size |-> m.size,
   load |-> m.load, unload |-> ValidPosition(m.unload)]
ModuleRows(instances) == [i \in DOMAIN instances |-> ModuleRow(instances[i])]

\* list_exceptions: the parameters are capped at the size of the record.
MaxParameters == 2
ExceptionRow(e) ==
  [position |-> e.position, parameters |-> SubSeq(e.parameters, 1, Least(Len(e.parameters), MaxParameters))]

\* Faulty: the second kind of event is written from the buffer's start.
EventRowsOver(first, second, kinds) ==
  [i \in 1..(Len(first) + Len(second)) |->
     IF i <= Len(second) THEN [kind |-> kinds[2], position |-> second[i]]
     ELSE IF i <= Len(first) THEN [kind |-> kinds[1], position |-> first[i]]
     ELSE DefaultRow]

(* list_module_events and list_thread_events: the loads or creations, then *)
(* the unloads or terminations, in one buffer.                             *)
EventRows(first, second, kinds) ==
  [i \in 1..(Len(first) + Len(second)) |->
     IF i <= Len(first) THEN [kind |-> kinds[1], position |-> first[i]]
     ELSE [kind |-> kinds[2], position |-> second[i - Len(first)]]]

-----------------------------------------------------------------------------
(* Memory.                                                                 *)

MaxAddress == 7
Addresses == 0..MaxAddress

(* External: the engine answers one run of bytes inside the window asked   *)
(* for, the ones the trace knows, in the caller's buffer or in its own.    *)
Windows(address, size) ==
  {w \in [address : Addresses, size : 0..size, inPlace : BOOLEAN] :
     address <= w.address /\ w.address + w.size <= Least(address + size, MaxAddress + 1)}

\* The caller's buffer as the engine leaves it: 0 where nothing was written.
EngineBuffer(w, address, size) ==
  [i \in 1..size |-> LET a == address + i - 1
                     IN IF w.inPlace /\ a \in w.address..(w.address + w.size - 1) THEN a ELSE 0]

(* The bytes move to the front of the buffer, from wherever they are.      *)
MovedToFront(w, buffer) ==
  [i \in DOMAIN buffer |-> IF i <= Least(Len(buffer), w.size) THEN w.address + i - 1 ELSE buffer[i]]

\* Faulty: an answer in the caller's own buffer is taken to be in place.
InFrontUnlessOwn(w, address, size) ==
  LET buffer == EngineBuffer(w, address, size)
  IN IF w.inPlace THEN buffer ELSE MovedToFront(w, buffer)

InFront(w, address, size) == MovedToFront(w, EngineBuffer(w, address, size))

\* ttd_mcp_read_memory.
BridgeRead(w, address, size) ==
  LET bytes == Least(size, w.size)
  IN [address |-> w.address, bytes |-> bytes, data |-> SubSeq(InFront(w, address, size), 1, bytes)]

\* The response made of it.
ReadMemory(w, address, size) ==
  LET read == BridgeRead(w, address, size)
  IN [refused |-> FALSE, address |-> read.address, bytes |-> read.bytes,
      complete |-> read.address = address /\ read.bytes = size, data |-> read.data]

MaxRead == 4

(* ttd_read_memory as the registry guards it.                              *)
RegistryRead(isNative, w, address, size) ==
  IF size = 0 \/ size > MaxRead \/ address = 0 \/ ~isNative THEN Refused
  ELSE ReadMemory(w, address, size)

\* Faulty: a read that starts later but has the bytes passes for exact.
ExactBySize(read, address, size) == IF read.bytes = size THEN read ELSE Refused

\* read_exact_memory: all of it, from where it was asked for, or an error.
Exact(read, address, size) ==
  IF read.address = address /\ read.bytes = size THEN read ELSE Refused

(* ttd_mcp_query_memory_range: the whole range around an address, of which *)
(* the front is copied.                                                    *)
BridgeRange(range, maxBytes) ==
  [address |-> range.address, available |-> range.size, copied |-> Least(maxBytes, range.size)]

\* The response made of it.
MemoryRange(range, maxBytes) ==
  LET bridge == BridgeRange(range, maxBytes)
  IN [address |-> bridge.address, available |-> bridge.available, bytes |-> bridge.copied,
      complete |-> bridge.copied = bridge.available,
      data |-> [i \in 1..bridge.copied |-> bridge.address + i - 1]]

RegistryRange(isNative, range, address, maxBytes) ==
  IF address = 0 \/ maxBytes > MaxRead \/ ~isNative THEN Refused ELSE MemoryRange(range, maxBytes)

MaxRanges == 3
MaxOffset == 3

(* ttd_mcp_query_memory_buffer_with_ranges: `ranges` is every range of the *)
(* window, of which the engine stores as many as fit; each is reported at  *)
(* its offset in the data, which is cut to 32 bits.                        *)
BridgeRanges(w, ranges, maxRanges) ==
  LET Offset(r) == IF r.address >= w.address THEN Least(r.address - w.address, MaxOffset) ELSE 0
  IN [i \in 1..Least(Len(ranges), maxRanges) |->
        [address |-> ranges[i].address, size |-> ranges[i].size, offset |-> Offset(ranges[i])]]

\* The response made of it.
MemoryBuffer(w, ranges, address, size, maxRanges) ==
  [read |-> ReadMemory(w, address, size), truncated |-> Len(ranges) > maxRanges,
   ranges |-> BridgeRanges(w, ranges, maxRanges)]

RegistryBuffer(isNative, w, ranges, address, size, maxRanges) ==
  IF address = 0 \/ size = 0 \/ size > MaxRead \/ maxRanges = 0 \/ maxRanges > MaxRanges \/ ~isNative
  THEN Refused ELSE MemoryBuffer(w, ranges, address, size, maxRanges)

-----------------------------------------------------------------------------
(* Addresses, modules and stacks.                                          *)

\* address_in_module: a module whose end does not fit in 64 bits is empty.
InModule(address, m) ==
  /\ m.base + m.size <= MaxAddress
  /\ m.base <= address
  /\ address < m.base + m.size

NoModule == [name |-> "", base |-> 0, size |-> 0]

\* Iterator::find: the first of the rows at `hits`.
FirstOf(rows, hits) ==
  IF hits = {} THEN NoModule ELSE rows[CHOOSE i \in hits : \A j \in hits : i <= j]

ModuleAt(address, rows) == FirstOf(rows, {i \in DOMAIN rows : InModule(address, rows[i])})
ModuleNamed(name, rows) == FirstOf(rows, {i \in DOMAIN rows : rows[i].name = name})

(* ttd_module_info: the address first, then the name, over every instance  *)
(* of the trace and not over those at a position.                          *)
ModuleInfo(address, name, rows) ==
  LET byAddress == IF address = Absent THEN NoModule ELSE ModuleAt(address, rows)
      byName == IF name = "" THEN NoModule ELSE ModuleNamed(name, rows)
  IN CASE byAddress # NoModule -> [matchedBy |-> "address", module |-> byAddress]
       [] byAddress = NoModule /\ byName # NoModule -> [matchedBy |-> "name", module |-> byName]
       [] OTHER -> Refused

\* stack_context; stack_info's stack_pointer_in_range includes the base.
InStack(address, stack) == stack.limit <= address /\ address < stack.base
PointerInRange(pointer, stack) == stack.limit <= pointer /\ pointer <= stack.base

(* stack_info: both fields of the TEB, read in one piece or not at all.    *)
StackInfo(teb, read) ==
  IF teb = Absent \/ Exact(read, teb, 3) = Refused THEN Refused
  ELSE [refused |-> FALSE, base |-> read.data[2], limit |-> read.data[3]]

(* classify_address: a module before the stack, the stack before the TEB.  *)
Classify(address, rows, stack, teb, peb) ==
  CASE ModuleAt(address, rows) # NoModule -> "module"
    [] ModuleAt(address, rows) = NoModule /\ stack # Refused /\ InStack(address, stack) -> "stack"
    [] OTHER -> IF teb = address THEN "teb" ELSE IF peb = address THEN "peb" ELSE "unknown"

\* apply_i64_offset: an address outside the 64 bits is an error.
WithOffset(base, offset) == IF base + offset \in Addresses THEN base + offset ELSE Absent

NoDelta == 100

\* signed_delta, whose least value is -(2^63 - 1).
SignedDelta(address, base) ==
  LET limit == MaxAddress \div 2
  IN IF address - base \in -limit..limit THEN address - base ELSE NoDelta

(* ttd_stack_read: what is read belongs to the address of the answer, and  *)
(* so do the addresses of the pointers in it.                              *)
StackRead(pointer, offset, size, w) ==
  LET address == WithOffset(pointer, offset)
  IN IF size \notin 1..MaxRead \/ address = Absent \/ address = 0 THEN Refused
     ELSE ReadMemory(w, address, size)

StackPointers(read) ==
  {[address |-> Least(read.address + i - 1, MaxAddress), value |-> read.data[i]] :
     i \in {j \in DOMAIN read.data : read.data[j] # 0}}

(* ttd_command_line: the PEB, the parameters, and the string itself, each  *)
(* read exactly; `s` is the UNICODE_STRING found there.                    *)
CommandLine(peb, parameters, s, read) ==
  IF \/ peb = Absent \/ parameters = 0
     \/ s.length = 0 \/ s.length > s.maximum \/ s.length > MaxRead
     \/ s.length % 2 # 0 \/ s.buffer = 0
  THEN Refused ELSE Exact(read, s.buffer, s.length)

-----------------------------------------------------------------------------
(* Positions, registers, steps and watchpoints.                            *)

\* Faulty: the percentage is not cut.
PercentOver(percent, start, end) ==
  start + ((IF end >= start THEN end - start ELSE 0) * percent) \div 100

(* PositionOrPercent::resolve_against: the first step of a sequence inside *)
(* the lifetime.                                                           *)
Percent(percent, start, end) ==
  start + ((IF end >= start THEN end - start ELSE 0) * Least(percent, 100)) \div 100

\* set_position: which thread ids the native call takes.
MaxThread == 3
ThreadRefused(isNative, thread) ==
  thread # Absent /\ (thread = 0 \/ thread > MaxThread \/ ~isNative)

\* Faulty: the kinds are numbered without the one for fetched code.
AccessKindShort(bit) ==
  LET kinds == <<"read", "write", "execute", "overwrite", "data_mismatch", "new_data", "redundant_data">>
  IN IF bit + 1 \in DOMAIN kinds THEN kinds[bit + 1] ELSE "unknown"

\* memory_access_kind: the bit of a watchpoint's mask that matched.
AccessKind(bit) ==
  LET kinds == <<"read", "write", "execute", "code_fetch", "overwrite", "data_mismatch", "new_data",
                 "redundant_data">>
  IN IF bit + 1 \in DOMAIN kinds THEN kinds[bit + 1] ELSE "unknown"

\* native_memory_access_mask, as the set of its bits.
Accesses == {"read", "write", "execute", "code_fetch", "overwrite", "data_mismatch", "new_data",
             "redundant_data"}
Mask(access) ==
  CASE access = "read" -> {0}
    [] access = "write" -> {1}
    [] access = "execute" -> {2}
    [] access = "code_fetch" -> {3}
    [] access = "overwrite" -> {4}
    [] access = "data_mismatch" -> {5}
    [] access = "new_data" -> {6}
    [] access = "redundant_data" -> {7}
    [] access = "read_write" -> {0, 1}
    [] access = "all" -> 0..7

\* index_build_flags, which the bridge takes as a set of bits.
FlagBits(flag) ==
  CASE flag = "delete_existing_unloadable" -> {1}
    [] flag = "temporary" -> {2}
    [] flag = "self_contained" -> {4}
    [] flag = "all" -> {1, 2, 4}
    [] OTHER -> {}
FlagNames == {"delete_existing_unloadable", "temporary", "self_contained", "all", "none"}
BuildFlags(flags) ==
  IF ~(ToSet(flags) \subseteq FlagNames) THEN Refused
  ELSE [refused |-> FALSE, bits |-> UNION {FlagBits(f) : f \in ToSet(flags)}]

-----------------------------------------------------------------------------
(* Opening a trace.                                                        *)

(* NativeBridge::load: the first candidate that is a file and loads.  One  *)
(* that is there and does not load is passed over, and named in the error. *)
BridgeLoaded(candidates) ==
  LET there == {i \in DOMAIN candidates : candidates[i] \notin {"missing", "broken"}}
  IN IF there = {} THEN "none" ELSE candidates[CHOOSE i \in there : \A j \in there : i <= j]

(* The bridge built without the replay engine exports every entry, and     *)
(* each of them answers "not implemented".                                 *)
Implemented(bridge) == bridge = "engine"

\* ensure_path_component: an existing directory, once, in front.
PathWith(path, directory, exists) ==
  IF ~exists \/ directory \in ToSet(path) THEN path ELSE <<directory>> \o path

(* try_open_native_trace: an index or a companion file asked for has to be *)
(* found in the trace list; otherwise the list is only a source of names.  *)
(* `listed` says whether the list can be read, `entries` what is in it.    *)
OpenNative(bridge, listed, entries, index, companion, engineOpens) ==
  LET explicit == index # Absent \/ companion
      wanted == IF index = Absent THEN 0 ELSE index
  IN /\ Implemented(bridge)
     /\ explicit => listed /\ wanted \in entries
     /\ engineOpens

\* load_trace: without an explicit choice a failure becomes a placeholder.
LoadOutcome(extensionOk, bridge, listed, entries, index, companion, engineOpens) ==
  CASE ~extensionOk -> "refused"
    [] extensionOk /\ OpenNative(bridge, listed, entries, index, companion, engineOpens) -> "native"
    [] OTHER -> IF index # Absent \/ companion THEN "failed" ELSE "placeholder"

-----------------------------------------------------------------------------
(* Threads at a cursor.  The engine has for each its ids, its position and *)
(* the one before, its TEB and its program counter, 0 for none.            *)

NonZero(x) == IF x = 0 THEN Absent ELSE x
ThreadIds(t) == IF t.unique = 0 /\ t.id = 0 THEN <<>> ELSE <<t.unique, t.id>>

\* ttd_mcp_cursor_state: of the current thread.
CursorState(threads, current) == threads[current]

\* registers, and what every answer shows of a thread.
ThreadState(t) ==
  [thread |-> ThreadIds(t), position |-> t.position, previous |-> ValidPosition(t.previous),
   teb |-> NonZero(t.teb), pc |-> t.pc]

(* ttd_mcp_x64_context: no thread, or thread 0, is the current one, others *)
(* go by the id the system gave them.                                      *)
ThreadAsked(threads, current, id) ==
  IF id \in {Absent, 0} THEN current ELSE CHOOSE i \in DOMAIN threads : threads[i].id = id

X64Context(threads, current, id) == ThreadState(threads[ThreadAsked(threads, current, id)])

\* register_context: with the module at its program counter.
RegisterContext(threads, current, id, rows) ==
  LET context == X64Context(threads, current, id)
  IN [state |-> context, module |-> ModuleAt(context.pc, rows)]

\* Faulty: what is asked of the cursor without a thread is the current one's.
BridgeThreadsOfCurrent(threads, current) ==
  [i \in DOMAIN threads |-> [threads[i] EXCEPT !.previous = threads[current].previous, !.pc = threads[current].pc]]

\* ttd_mcp_active_threads: every thread's own values.
BridgeThreads(threads, current) == threads

\* ttd_active_threads: with the module at each program counter.
ActiveThreads(threads, current, rows) ==
  LET listed == TwoCalls(threads, BridgeThreads(threads, current))
  IN [i \in DOMAIN listed |-> [state |-> ThreadState(listed[i]), module |-> ModuleAt(listed[i].pc, rows)]]

-----------------------------------------------------------------------------
(* What a session says it can do, and what its operations do.              *)

\* The operations a placeholder answers too, some of them with nothing.
Everywhere == {"trace_info", "close_trace", "cursor_create", "position_get", "position_set"}
EmptyWithout == {"list_threads", "list_modules", "list_keyframes", "module_events", "thread_events",
                 "list_exceptions"}
NativeOnly == {"index_status", "index_stats", "build_index", "cursor_modules", "active_threads",
               "position_set_thread", "step", "compact_registers", "full_registers", "stack_info",
               "stack_read", "address_info", "read_memory", "memory_range", "memory_buffer_ranges",
               "memory_watchpoint"}
Operations == Everywhere \cup EmptyWithout \cup NativeOnly \cup {"command_line", "trace_list", "module_info"}

\* Faulty: the command line is offered for every native trace.
FeaturesNative(isNative, hasPeb) == IF isNative THEN Operations ELSE Everywhere

\* capabilities.
Features(isNative, hasPeb) ==
  IF ~isNative THEN Everywhere ELSE Operations \ (IF hasPeb THEN {} ELSE {"command_line"})

\* The guards at the head of each operation.
LacksSupport(operation, isNative, hasPeb) ==
  \/ operation \in NativeOnly /\ ~isNative
  \/ operation = "command_line" /\ (~hasPeb \/ ~isNative)
  \/ operation = "module_info" /\ ~isNative

-----------------------------------------------------------------------------
(* What the answers promise.                                               *)

(* Every buffer that can be asked for, with every window of an answer.     *)
Reads == {r \in (Addresses \ {0}) \X (1..MaxRead) : r[1] + r[2] - 1 <= MaxAddress}

(* A list that did not grow between the two calls is answered whole, and   *)
(* an event list has every event of either kind once, in order; a row of a *)
(* module that stays has no unload position, and no parameter of an        *)
(* exception comes from behind those it was raised with.                   *)
ListsAreWhole ==
  /\ \A n \in 0..3 : \A m \in 0..n :
       LET Rows(k) == [i \in 1..k |-> [row |-> i]]
       IN TwoCalls(Rows(n), Rows(m)) = Rows(m)
  /\ \A n, m \in 0..2 :
       LET first == [i \in 1..n |-> i]
           second == [i \in 1..m |-> 10 + i]
           rows == EventRows(first, second, <<"load", "unload">>)
       IN /\ \A i \in 1..n : rows[i] = [kind |-> "load", position |-> first[i]]
          /\ \A i \in 1..m : rows[n + i] = [kind |-> "unload", position |-> second[i]]
  /\ \A u \in {1, InvalidSequence} :
       LET rows == ModuleRows(<<[name |-> "a", base |-> 1, size |-> 2, load |-> 0, unload |-> u]>>)
       IN TwoCalls(rows, rows)[1].unload = Absent <=> u = InvalidSequence
  /\ \A n \in 0..3 :
       LET row == ExceptionRow([position |-> 1, parameters |-> [i \in 1..n |-> i]])
       IN Len(row.parameters) <= MaxParameters /\ IsPrefix(row.parameters, [i \in 1..n |-> i])

(* Every byte of an answer is the byte of the address it is reported at,   *)
(* whether the engine answered in the caller's buffer or in its own, from  *)
(* the start of the window or from further on; an answer that is complete, *)
(* or was read exactly, is all that was asked for, and nothing else.       *)
BytesAreTheirs ==
  \A asked \in Reads : \A w \in Windows(asked[1], asked[2]) :
    LET read == RegistryRead(TRUE, w, asked[1], asked[2])
        All == [i \in 1..asked[2] |-> asked[1] + i - 1]
        exact == Exact(read, asked[1], asked[2])
    IN /\ \A i \in DOMAIN read.data : read.data[i] = read.address + i - 1
       /\ read.complete <=> read.data = All
       /\ exact # Refused => exact.data = All
       /\ \A p \in StackPointers(StackRead(asked[1], 0, asked[2], w)) : p.value = p.address
       /\ asked[2] = 3 /\ StackInfo(asked[1], read) # Refused =>
            StackInfo(asked[1], read) = [refused |-> FALSE, base |-> asked[1] + 1, limit |-> asked[1] + 2]
       /\ \A s \in [length : 0..MaxRead, maximum : 0..MaxRead, buffer : {0, asked[1]}] :
            LET line == CommandLine(1, 1, s, ReadMemory(w, asked[1], s.length))
            IN line # Refused => line.data = [i \in 1..s.length |-> s.buffer + i - 1]

(* A range is complete exactly when all of it was copied, and a range of a *)
(* buffer is reported unless the answer says that ranges are missing; its  *)
(* offset leads to its first byte wherever that byte was read.             *)
RangesAreTheirs ==
  /\ \A a \in Addresses \ {0} : \A n \in 0..(MaxAddress - a) : \A limit \in 0..MaxRead :
       LET range == RegistryRange(TRUE, [address |-> a, size |-> n], a, limit)
       IN range.complete <=> Len(range.data) = n
  /\ \A asked \in Reads : \A w \in Windows(asked[1], asked[2]) : \A maxRanges \in 1..2 :
       LET cut == IF w.size = 0 THEN 0 ELSE w.size \div 2
           ranges == <<[address |-> w.address, size |-> cut],
                       [address |-> w.address + cut, size |-> w.size - cut]>>
           b == RegistryBuffer(TRUE, w, ranges, asked[1], asked[2], maxRanges)
       IN /\ b.truncated <=> Len(b.ranges) < Len(ranges)
          /\ \A i \in DOMAIN b.ranges :
               b.ranges[i].size > 0 => b.read.data[b.ranges[i].offset + 1] = b.ranges[i].address

(* What one lookup says of an address another one says too: the module of  *)
(* ttd_module_info, the stack of ttd_stack_info, offsets there and back.   *)
AddressesAgree ==
  LET Modules == {[name |-> n, base |-> b, size |-> z] : n \in {"a", "b"}, b \in {0, 2, 5}, z \in {0, 2, 3}}
      Stacks == [base : {3, 5}, limit : {1, 3}]
  IN /\ \A m1, m2 \in Modules : \A address \in Addresses :
          LET rows == <<m1, m2>>
              byAddress == ModuleInfo(address, "", rows)
              byName == ModuleInfo(address, "b", rows)
          IN /\ \A stack \in Stacks \cup {Refused} :
                  LET class == Classify(address, rows, stack, 3, 4)
                  IN /\ class = "module" <=> byAddress # Refused
                     /\ class = "stack" => PointerInRange(address, stack)
             /\ byAddress # Refused => byName = byAddress
     /\ \A base \in Addresses : \A offset \in -4..3 :
          LET address == WithOffset(base, offset)
          IN address # Absent /\ offset # -4 => SignedDelta(address, base) = offset

(* The registers, the register context of a thread and its row among the  *)
(* active threads say the same of it, the module included, whichever       *)
(* thread is the current one.                                              *)
ThreadsAgree ==
  LET Threads(id) == [unique : {id}, id : {id}, position : {1}, previous : {0, InvalidSequence},
                      teb : {0, 1}, pc : {1, 3}]
      rows == <<[name |-> "a", base |-> 2, size |-> 2]>>
  IN \A t1 \in Threads(1) : \A t2 \in Threads(2) : \A current, i \in 1..2 :
       LET threads == <<t1, t2>>
           listed == ActiveThreads(threads, current, rows)
       IN /\ RegisterContext(threads, current, i, rows) = listed[i]
          /\ RegisterContext(threads, current, 0, rows) = listed[current]
          /\ ThreadState(CursorState(threads, current)) = listed[current].state

(* A percentage of a trace is a sequence of the trace, later for a higher  *)
(* percentage, its last one at 100 and beyond.                             *)
PercentsAreInside ==
  \A start \in 0..3 : \A end \in start..7 : \A p, q \in {0, 1, 33, 50, 99, 100, 101, 255} :
    /\ Percent(p, start, end) \in start..end
    /\ p <= q => Percent(p, start, end) <= Percent(q, start, end)
    /\ p >= 100 => Percent(p, start, end) = end

(* The access a watchpoint reports is one it was set for, under its name,  *)
(* and the flags of an index build are ones that were asked for.           *)
MasksAgree ==
  /\ \A access \in Accesses \cup {"read_write", "all"} : \A bit \in Mask(access) :
       /\ AccessKind(bit) \in Accesses
       /\ Mask(AccessKind(bit)) = {bit}
  /\ \A f, g \in FlagNames :
       LET both == BuildFlags(<<f, g>>)
       IN /\ both.bits = BuildFlags(<<g, f>>).bits
          /\ BuildFlags(<<f>>).bits \subseteq both.bits
          /\ both.bits \subseteq BuildFlags(<<"all">>).bits

(* An operation that ttd_capabilities offers is not refused for want of a  *)
(* native trace or of a PEB; a placeholder is never what an explicit index *)
(* or companion file leads to, and a bridge without the engine, or one     *)
(* that did not load, never leads to a native trace.                       *)
OffersAreKept ==
  /\ \A isNative, hasPeb \in BOOLEAN : \A operation \in Features(isNative, hasPeb) :
       ~LacksSupport(operation, isNative, hasPeb)
  /\ \A isNative \in BOOLEAN : \A thread \in {Absent, 1} :
       ThreadRefused(isNative, thread) =>
         thread # Absent /\ "position_set_thread" \notin Features(isNative, TRUE)
  /\ \A candidates \in [1..2 -> {"missing", "broken", "stub", "engine"}] : \A entries \in {{0}, {0, 1}} :
       \A index \in Absent..2 : \A companion, opens, listed \in BOOLEAN :
         LET bridge == BridgeLoaded(candidates)
             outcome == LoadOutcome(TRUE, bridge, listed, entries, index, companion, opens)
         IN /\ outcome = "placeholder" => index = Absent /\ ~companion
            /\ outcome = "native" => "engine" \in ToSet(candidates) /\ opens
            /\ outcome = "native" /\ index # Absent => index \in entries
  /\ \A path \in {<<>>, <<1>>, <<2, 1>>} : \A d \in 1..3 :
       PathWith(PathWith(path, d, TRUE), d, TRUE) = PathWith(path, d, TRUE)

=============================================================================
