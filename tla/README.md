# Verification of windbg-tool

TLA+ models of the parts of windbg-tool that keep state and run concurrently,
the TLC runs that check them on small instances, and TLAPS proofs of the
properties that matter most. The code is the reference: every definition that
stands for code is listed in `PROJECT.json` under `map` with the lines it
translates.

## 1. The system

windbg-tool is a command line tool, and a daemon behind it, for replaying
Time Travel Debugging (TTD) traces and for debugging live processes and dumps
with DbgEng. Commands talk to the daemon over a named pipe, one HTTP request per
connection. The daemon keeps everything in one `ServiceState` behind one mutex.

| Component (source) | State it keeps | Operations | What makes it correct |
|---|---|---|---|
| Daemon pipe (`windbg-ttd/daemon.rs`, `windbg-tool/cli/daemon_mode.rs`, `main.rs`) | pipe instances, `shutdown_tx`, connections | accept, renew, serve, shut down, exit; client open with retries, ensure | one daemon per pipe name; every command ends; a shutdown works; one daemon serves all until it is asked to stop or fails; how a command ended tells whether it took effect |
| Service and tools (`service.rs`, `tools.rs`) | the mutex around `ServiceState` | one call per tool | calls are atomic with respect to each other; a tool announced as reading reads |
| Replay registry (`ttd_replay/registry.rs`) | sessions, cursors, ids, the remembered position of each cursor | load, close, create cursor, set position, step, watchpoint, queries | ids are never reused; the remembered position is the engine's; answers are the engine's |
| Background jobs (`jobs.rs`) | job records; per task its hits and the sequence numbers seen | start, list, status, result, cancel; the sweep loop | a job ends exactly once; cancel stops it; hits are distinct and ordered |
| Native bridge (`native.rs`, `ttd_replay_bridge.cpp`) | native engine, cursors, a mutex per trace | C calls with status codes and two-call buffers | a failed call leaves the cursor where it was (it does not always); a partial read is told from a whole one |
| Target registry (`targets.rs`) | targets, ids | open, close, terminate, and some thirty queries and commands | every debuggee is detached or terminated once, none is forgotten |
| Engine worker (`targets.rs`) | channel, thread, `DebuggerSession` | call, shutdown, drop | calls are serialized; nobody waits for ever |
| Debugger session (`windbg-dbgeng/lib.rs`) | the engine loaded into the process, its client, current thread, breakpoints, output callbacks | load, launch, attach, wait, continue, capture output, breakpoints, thread queries, dumps | callbacks and thread are put back; breakpoints are known to a client or gone; output limits hold |
| CoreCLR data access (`coreclr_dac.rs`) | COM callbacks, notifications requested | method lookup, code notification | notifications arrive before the method runs; the method is the only one that fits |
| Startup profile, managed and startup breakpoints (`cli/platform.rs`) | deadlines, quiet period, recorded events, notifications pending | launch, wait, record, end; the report and comparison of what was recorded | ends by its deadline, and for the reason it reports; phases and medians follow from the events |
| Trace recording (`cli/platform.rs`) | a target, a recorder, a waiting thread | plan, launch, limit, stop, check | what is reported as recorded has ended and is there |
| Dump triage (`cli/platform.rs`) | none | classification, stacks, pool tracker, attribution, images | nothing is blamed without evidence |
| Symbol cache (`windbg-symbols`) | cache directory, temporary files | look up, download, rename | a cached image is the one asked for, whoever downloads it |
| Installer (`windbg-install`, `cli/platform.rs`) | version directories, `version.txt`, lock file, download | install, update, run | what is reported as installed is whole |
| Multi-call commands (`cli.rs`) | handles and answers of one command | open, snapshot, replay, sweep, backtrace, ... | one answer is of one moment, or says otherwise |
| PE reader (`pe_symbols.rs`), reports (`cli.rs`), xtask, MCP stdio server, argument parsing and output | none that outlives a call | parse, dispatch, format | pure functions |

How they interact: a command opens the pipe (`open_client`), the daemon's accept
loop hands the connection to a task, the task calls `ReplayService::call_tool`,
which takes the mutex and runs the tool against the registries. A target's tools
send a closure to the target's own engine thread and block, with the mutex held,
until it answers. A sweep job is a task of its own that takes the mutex once per
iteration and drops it in between, so that clients and other sweeps can move or
close its cursor. A command of several calls opens a connection for each and
holds nothing in between. The daemon ends by leaving its loop and calling
`process::exit`, which waits neither for connections nor for sweeps. Commands that
profile, break, record or install work in their own process, beside the debuggee,
the recorder or other installers; dump sessions of several processes share one
cache directory.

The hard behaviours are therefore: what others do between two iterations of a
sweep or two calls of a command; cancellation racing completion; an engine call
that fails after it took effect, or on the way back; an engine thread that dies
under its callers; a request that took effect and whose answer does not arrive; the many ways in which a debuggee can be let
go; daemons started, stopped or replaced under the commands that use them;
deadlines and quiet periods, and a limit that runs out at the moment of the end;
files shared by processes that may be killed at any point. `PROJECT.json` lists
them under `hazards`, each at its line and with the properties that would catch it, or the reason
why none does.

## 2. The modules

    JobLifecycle      <-- refines --  SweepJobs  -- EXTENDS -->  ReplayRegistry
    SerializedEngine  <-- refines --  EngineWorker
    TargetRegistry    Daemon    StartupProfile    LiveBreak

    DebuggerSession  -- EXTENDS  -->  OutputCapture, TargetQueries, SymbolCache
                     -- INSTANCE -->  EngineRuntime, CoreClrData
    ClientCommands   -- EXTENDS  -->  ReplayRegistry, ReplayQueries,
                                      TraceRecording, WindbgInstall
                     -- INSTANCE -->  TraceReports, ProfileReports, DumpTriage, PeImages

    *_proofs  -- EXTENDS -->  the module they are about, TLAPS
                              (what a module extends is proved with it)
    StartupProfile_proofs  -- INSTANCE -->  ProfileReports, TraceReports
    DebuggerSession_proofs -- INSTANCE -->  PeImages, DumpTriage

Two kinds of module. Those with VARIABLES are state machines. TargetQueries,
EngineRuntime, CoreClrData, ReplayQueries, TraceReports, ProfileReports, DumpTriage
and PeImages hold pure functions of the code as operators and state what is true
of them for every input of a bounded set; there, widths are scaled down (an address
of three bits, a page of two bytes, a `u32` whose largest value is 7) and what
cannot be read, parsed or resolved is a value of its own. No module is RECURSIVE.

**ReplayRegistry.** `live`, `native`, `cursors`, `nextSession` and `nextCursor`
are the maps and counters of `SessionRegistry` and `TraceSession`; `cached` is
`ReplayCursor.position`, what session summaries report, and `replay` is where the
native cursor really is. A session whose trace could not be opened is a
placeholder (`live \ native`): its cursors accept positions but cannot replay.
`ReplayLeaks` is the one call that fails after it moved the cursor: the bridge
replays and then cannot remove the watchpoint. Positions are numbers; the engine
may stop anywhere in the direction it replays. A call that fails and changes
nothing is a stuttering step.

**SweepJobs** adds the job records (`status`, `cancelRequested`, `progress`,
`result`, `error`) and the tasks (`task`, `request`, `hits`). One action is one
hold of the mutex: `StartSweep`, `CancelJob`, and for a task the ways an
iteration ends: `SweepCancelled`, `SweepFails`, `SweepLeaks`, `SweepEnds` (not
found, or a sequence number seen before), `SweepHits` (a new hit and the step
after it), and `SweepFull` after the last iteration. Clients load, close, create,
move and replay at any time. `disturbed` is a history variable: the jobs whose
cursor somebody else moved.

**JobLifecycle** is what the job tools promise: a job starts once, may be asked
to stop while it runs, ends once with a result or an error, and a job that has
started ends.

**EngineWorker** models one `EngineWorker`: the bounded channel, the thread, the
calls of any number of clients, and the owner that closes, terminates or drops
the target. An operation may panic; detaching and terminating may be refused. The
callers stand for code that holds `&EngineWorker`; today the service's mutex
admits one at a time, but the comment on `EngineWorker` promises serialization
"even when future daemon callers no longer hold the global service-state lock",
so the model does not assume the mutex, and under it the channel is never full. `Exclusive` is what `&mut self` and the
removal from the map give the owner: nobody else borrows the worker.

**SerializedEngine** is that promise: calls run one at a time, each is answered
with its outcome or with an error once the engine has gone, and none is lost.

**TargetRegistry** models the map of targets and the debuggee of each target
(`attached`, `detached`, `terminated`, `abandoned`): opening, a worker that
cannot be started or whose operation panics, close and terminate with their
failures, and the two ways the daemon ends: dropping its state (`DaemonStops`) or
exiting while a connection or a sweep still holds it (`DaemonExits`).

**Daemon** models the named pipe. A daemon is starting, listening, renewing its
instance, has left its loop, or has exited; the pipe's owner is the process that
holds an instance, so a second daemon that binds while one exists ends. A
command opens, asks and reads; `ensure` spawns a daemon when the first attempt
fails and asks again. A command ends in one of four ways: its request was answered;
the answer was refused (longer than 16 MiB, not to be parsed, or with the status of an
error); the connection was cut off, by the daemon's end or by a connection task that
failed; or it never had a connection. `open_client` makes forty attempts, 50 ms apart,
and ends at once on any error but a missing or busy pipe; it does not know of
daemons that are about to listen. There is no clock in the model, so a client may give
up at any time, also while the daemon it spawned is starting. Two history variables say
what no process knows: `handled`, how often a client's request took effect, and
`broken`, the daemons whose accept loop failed.

**StartupProfile** models `live startup-profile`: the loop over `--runs`, the
launch, the loop that continues and waits (`collect_startup_profile_stops`), and
the cleanup. The variables are that function's own: `timeline`, `resumed`
(`resumed_elapsed`), `quiet` (`quiet_started_at`), `loaded` and `completion`,
`tail` (`tail_filter_started_after_event_index`), `finish`; `runs` are the
results. `target` is the debuggee's fate and `omitted` a history variable: where
in the timeline an event happened that was not retained. Time is a number of
units of `resumed`. `Continue` is the top of the loop up to the wait, and the
wait has its outcomes: `NoEvent`, `TargetExits`, `RequestedModuleLoads`,
`OtherStop`. A wait without an event may come back a unit early or late, because
the budget is cut to whole milliseconds and the clock is read after the wait.
`EngineFails` is any of the engine calls that return early.

**LiveBreak** models `live startup-break` and both forms of `live managed-break`.
`pc` is the step the command is at: the waits (`coreclr`, `managed`, `dac`,
`code`, `module`, `breakpoint`) continue the target and wait, the other steps work
on a stopped target. `pending` is the flag the code hands from loop to loop
(`clr_notification_pending`, `managed_module_notification_pending`,
`continue_as_handled`), `attempt` counts the notifications a loop has seen, and
`notified` is what the CLR has been asked for. What happens between a continue and
the stop is up to the target: it may register the managed module and compile the
method, and it may stop with an event that nobody asked for. `wrote` is a history
variable: what was written into the target, the notifications through the data
target's `WriteVirtual` and `AllocVirtual`, the byte of a software breakpoint by
DbgEng when the target resumes. `Launch` may leave the target running: a bounded
`WaitForEvent` without an event reports success (`startup_profile_no_event_sentinel`
says so of the same call), and `wait_for_initial_event` returns `Ok`. `StepFails`
is a failing call or an elapsed deadline, at any step.

**OutputCapture** is `DebuggerOutputCapture`: what the callback retains, cuts and
counts under its three limits (`Retain`, `Recorded`), the begin with the ways back
of a begin that fails half-way, and `FinishOnce`, which restores the mask and the
callbacks each whatever became of the other, with the drop of the capture behind it.

**DebuggerSession** is one `DebuggerSession` on its engine thread. `pc` says what
the worker is in the middle of; while it waits, the debuggee writes output and
stops, and while it writes a dump, other programs write the same file.
`TargetContinue`, the waits with and without capture, the inspection of another
thread (switch, query, switch back, each may fail), the four engine calls that set
a breakpoint, its removal, and `write_dump` are actions. `told`, `unread` and
`strayed` are history variables: which breakpoints a client has heard of, which
could not be read back, and whether a switch of threads could not be undone.

**SymbolCache** is the directory of images as several processes see it: `store`
(absent, match, wrong, partial), the temporary file that carries the process id,
and for each process where in `prefetch_image` it is. A crash leaves the temporary
file. It is part of DebuggerSession's state because a dump target prefetches when
it is opened; the processes beside it are other daemons and `dump inspect`.

**TargetQueries**: the walk of x64 page tables, memory maps, stacks, disassembly,
accounting and the other lists that are captured with a limit.
**EngineRuntime**: which DbgEng a process selects, inspects and loads once, and what
an opening leaves behind when it is refused. **CoreClrData**: which callbacks the
data target answers and which method a managed breakpoint resolves to.

**ClientCommands** models the commands that make several calls. `Script` gives each
command its calls, every one with what an error does: `Must` ends the command (`?`
in the code), `Note` becomes part of the answer (`call_status_value`), `Unless`
skips the calls that need its result. `at` is the session and cursor it works on,
`seen` the positions its answers are of, `hits` what a sweep in the client found.
Between any two calls other clients do anything (`Others`), and the daemon may be
replaced by another one (`Restart`), which gives out its ids from the start.
`gone`, `disturbed` and `restarted` are history variables.

**ReplayQueries**: lists in two calls of the bridge, partial reads, memory ranges,
address classification, thread and register contexts, percent positions, access
masks, capabilities. **TraceReports**: strings, vtables, pointer chases, timelines,
module audits, nearest symbols, source searches and log summaries as the commands
compute them. **ProfileReports**: phases, aggregates, module reports, comparisons
and thread accounting of finished profiles. **DumpTriage**: the decisions of
`dump inspect`. **PeImages**: offsets, exports and identities, by the reader of
windbg-tool and by that of windbg-symbols.

**TraceRecording** is `trace record`: the plan, the elevation, the target that is
launched first, the recorder and the thread that waits for it, the stop request
when a limit runs out and the last look at the recorder and the trace. Target and
recorder are processes of their own and end at any point.

**WindbgInstall** is `windbg install`, `update` and `run`: the lock file, the
version that is looked up, the download, its verification, the directory that is
removed, unpacked and recorded, the cleanup. Every command may fail or be killed at
every step, and versions are published meanwhile. Recording and installation share
no state with the daemon; ClientCommands composes them so that each is checked
beside a client that is idle, which is why their own specifications
(`RecordingSpec`, `InstallSpec`) are what the theorems are about.

## 3. The runs

| Run | Instance | What it shows |
|---|---|---|
| `sweep_shared` | 1 cursor, 3 positions, 2 per sequence number, 2 jobs, 2 hits | records match tasks; hits are in trace order unless somebody else moved the cursor, and none of one sequence number comes twice but the one the sweep ends on; a cancelled sweep neither collects nor replays; the jobs implement `JobLifecycle`, liveness included |
| `sweep_duplicate` | 1 session, 1 job, 2 positions per sequence | finding 1 |
| `engine_worker` | 4 callers and the owner, 2 slots | nobody waits for an answer that cannot come; a debuggee is let go once, by the worker's last command, and left to itself only by a refusal or a panic; an owner that started to close finishes; `SerializedEngine` is implemented |
| `targets` | 3 targets | attached iff served; abandoned only for the reasons the code cannot avoid; fates are final |
| `target_terminate` | 1 target | finding 2 |
| `daemon` | 3 daemons, 2 commands | one owner of the pipe, and a dropped state is unused (`OwnershipHolds`); a command that reached no daemon changed nothing, one that was answered took effect once, one that was cut off at most once; two commands meet different daemons only if one of these was asked to stop or failed; a shutdown that took effect ends the daemon; every command ends |
| `startup_profile` | 2 runs, 4 events, timeout 4, settling up to 2, 2 ranked gaps; with and without completion module | a quiet interval was quiet and followed the load; an exit always finds room in the timeline; ranked gaps hide no event; the wait budget is never zero; targets of successive runs do not overlap; the command ends |
| `profile_completed` | 1 run, 3 events, timeout 2 | finding 3 |
| `live_break` | every combination of arguments, 3 notifications for 64 | the target is resumed as handled exactly after a CLR notification; `managed-break` writes only with `--allow-runtime-write`, and nothing at all with a processor breakpoint; a hit is one, and success of a software `managed-break` leaves no module-load notifications; the command ends |
| `debugger_session` | output limits 2, 2 and 3; 2 threads, 1 breakpoint, 2 stops, 4 writes of up to 3 characters; 2 processes on one cache, 1 redirect, 1 crash | what a capture leaves out is counted; output callbacks are put back unless the engine refuses twice; after every query the thread of the stop is current unless a switch back failed; an armed breakpoint is one a client was told of, or its failure said so; a dump without `overwrite` keeps what another program wrote; a session pointed at the cache finds the image it asked for, and no temporary file is in the way but one that could not be removed; and `QueriesAreExact` |
| `client_commands` | 2 sessions of 1 cursor, 3 positions, 2 per sequence number, 2 hits; 2 installers, 2 versions | one answer is of one position unless somebody disturbed it; an id that was closed under a command is nobody else's while the daemon lives; what an open or a sweep reports is true of its cursor; a remembered position is stale only after a leaked watchpoint; a recording reported complete is final; an installation that is answered or recorded is whole; and `AnswersAreExact` |
| `read_only_tools` | 1 session, 1 cursor, 2 positions | finding 4 |

`QueriesAreExact` and `AnswersAreExact` are the statements of the modules of pure
functions. Their inputs are quantified inside, so one state is enough: they are
evaluated where nothing has happened yet, and every other state is left to the
state machines.

The bounds. Two sessions are the least that can be confused, and a session that
is closed and another opened needs two ids; two jobs on one cursor are every
interleaving a sweep can notice, because a sweep only sees its cursor moved.
Three positions with two to a sequence number separate a position from its
sequence number. Four callers and two slots leave two senders blocked while one
operation runs and others are queued, which is the largest number of roles a
caller can have. Three targets suffice as targets do not interact except at the
end of the daemon, when some may refuse and others not. Two commands can start
two daemons beside the one that was there. Four events leave room for the
create-process stop, the module load, a stop that restarts the quiet interval and
the exit, and let the tail begin at two different places; a timeout of four and a
settle time of two give a quiet interval that is cut off, one that is restarted
once, and one that fits. Two gaps of three make the ranking leave one out. Three
notifications instead of 64 let a loop pass none, pass one and go on, and run out.
In a capture, texts of up to three characters against a limit of two per record
and three in total, and four writes against two records, let each limit bite
alone, two of them at once, and all in one callback. Two threads are the current
one and another; one breakpoint is enough because an operation touches one; two
stops let a breakpoint be set between them. Two processes and a crash cover a
download beside another one and a process that meets the temporary file of a dead
one of its own id. Two installers are the holder of the lock and one that waits,
or the next one after a kill; two versions let an update find something.
In the pure modules each input set holds every relation the code distinguishes:
lists of up to three entries below, at and above a limit, an address before,
inside, at the end of and behind each range, sums that fit and sums that overflow.

Deadlock checking is off where the system may stop: all ids used up, all
commands ended, the worker gone, the dump of a target that cannot go on.

**Findings.** (1) A sweep remembers only the sequence number of each hit
(`jobs.rs`, `seen_positions`), but a position is a sequence and a step count:
two different accesses in one sequence end the sweep as `duplicate_position`. The
sweep in the client (`sweep_watch_memory_and_print`) does the same.
(2) `terminate_target` removes the target before it checks that it is live: the
refused call on a dump closes the dump. (3) `docs/cli.md` says of
`--completion-module` that "if process exit, timeout, or the event limit occurs
first, the result stays incomplete"; `collect_startup_profile_stops` derives the
status from the finish reason alone, and `exit_process` is completed: such a run
is followed by the next one and contributes to the aggregate. (4) `tool_annotations`
takes every tool for one that reads which `tool_is_read_only` does not name, and that
list names two tools that do not exist and leaves out `ttd_cursor_create` and
`ttd_memory_watchpoint`.

**Observed while modelling.** The models follow the code in all of these; no run is
about them.

- Daemon: `daemon ensure` gives up after two seconds and reports a failure although the
  daemon it started may still come up; one that meets a daemon which is ending, and
  still holds a connection, spawns a process that finds the name taken and exits; an
  answer that is refused leaves no trace of what the request did.
- Commands: an open that fails half-way leaves a session or a cursor nobody was
  told of. `object_vtable` computes slot addresses from the requested vtable address
  even when the read began elsewhere. `source_resolve` stops its walk at
  `max_candidates` matches, however weak, although `cli.rs:3746` promises the longest.
  UTF-16 strings are listed once per suffix, and `--min-len` below 4 has no effect.
  An audit that lists exactly its maximum is called truncated.
  `section_timeout_ms` is echoed and not applied. `breakpoint_plan` says data
  watchpoints are not there for live targets; `target_set_breakpoint` has them.
- Sessions: a launch or attach whose first event does not come returns an error and
  leaves the process it created. A failed load of DbgEng is remembered for the life
  of the process; the process server loads without the inspection; any `srv*` in
  the symbol path refuses every session. The physical address of a large page keeps
  the bits above the mask of its size. `stack_pointer_in_range` includes the stack
  base, `address_in_stack` does not. A dump that fails leaves its partial file.
- Managed breakpoints: a module path matches any module of the same file name, and
  only the first instance of a method is used.
- Profiles: comparison pairs the k-th completed runs of two artifacts, whatever
  happened to those before. A module loaded where another was unloaded takes over
  its parameters.
- Recording: a limit that runs out as the recorder ends may be answered "may still
  be active" although the trace is complete; failing to wait for idle, to spawn or
  to elevate leaves the target that was launched first.
- Installer: an unpacking that was broken off after `DbgX.Shell.exe` is taken for
  installed later; the lock file of a killed command blocks all later ones; a
  `version.txt` without its directory shows neither installed nor update; `run`
  launches without the lock.
- Cache: a crash leaves the temporary file, and a later process of the same id can
  never download that image; a PDB is taken without validation.
- PE: an RVA in the zero-filled tail of a section maps to the bytes behind it; the
  two readers add in 32 and in 64 bits; of several names of one export the last
  one stays; one unreadable name fails the whole diagnosis; NB10 entries are known
  to windbg-tool only.

## 4. Fairness

`SweepJobs`: tokio's mutex is fair and a spawned task is polled, so a task that
can take a step does (`WF` per task); engine calls return. Nothing is assumed of
clients. `EngineWorker`: the operating system runs the engine thread and the
callers' threads; a bounded channel wakes blocked senders in turn, hence strong
fairness for a client's own steps. Nobody has to call or to close. `Daemon`:
processes run; `select!` polls its branches in random order, hence strong
fairness of leaving the loop once the signal is there; a command goes on, and its
attempts to open the pipe run out, hence weak fairness of its steps. `AcceptFails`,
`ConnectionFails`, `Begin` and `Panic` are never required to happen. `StartupProfile`: the command's own steps are taken, and
`WaitForEvent` honours its timeout, hence weak fairness of `NoEvent`; nothing is
assumed of the target. `LiveBreak`: the command takes its next step, and a wait
comes back when its time is up at the latest. In the tail of a startup profile, an
exception that stops it costs at least a unit of time; with no completion module and
the tail's filters an unbounded number of stops in no time at all is the one way the
loop could not end.

The other specifications state no fairness: nothing obliges a client to make its
next call, an installer or a recorder to go on, or the network to answer, and the
code sets no limit on most of it. What they promise is safety.

## 5. What is proved

The proofs hold for every value of the constants that satisfies the named
assumptions: any number of sessions, cursors, positions, jobs, targets, daemons,
commands and processes, any limits. Every safety invariant and every action property
of a passing run is a theorem of its specification, but for `AnswersAreExact`, a
finite statement about pure functions of which about half of the parts are proved.
Eight modules hold the proofs; a module that extends several components proves them
together.

- `SweepJobs_proofs`. The inductive invariant `Inv` is `RegistryInv /\ JobsInv`.
  `RegistryInv` (type, allocation, `StaleOnlyAfterLeak`) is shown with one lemma per
  registry operation, so that the sweeps reuse it for the steps they make on a cursor.
  `JobsInv` adds to the types the agreement of record and task and the bounds on hits
  and progress.
  `IdsAllocated` is needed because a closed session must not come back with
  cursors in it. Theorems: `SweepTypes`, `StalePositionsExplained`,
  `RecordsFollowTasks`, `ProgressIsExact`, and the action properties
  `CancelIsFinal` and `IdsAreFresh`. A second invariant on top of it, `HitsInv`,
  gives `HitsStaySound`: `CursorKnown` (the cursor of a sweep that has collected something
  was there, so its id is not handed out again), `CursorBehind` (an undisturbed
  cursor stands at or beyond the last hit: what makes the next hit a later one),
  `HitsDistinct` and `OrderedHits`. `JobsKeepPromise` is the safety part of the
  refinement of `JobLifecycle`: initial states map to initial states, and every
  step to a step or a stutter.
- `EngineWorker_proofs`. `Inv` strengthens the types and `EveryWaiterServed` by
  `Owning` (while the owner proceeds nobody else has a call under way, and a command
  that is queued or runs is what its sender is about) and `Fate` (how far the owner
  has come says whether the debuggee is still attached). Theorems:
  `WaitersAreServed`, `DebuggeeIsLetGoOnce` and `WorkerIsSerialized`, the safety part
  of the refinement of `SerializedEngine`, for any callers and any bound of the
  channel.
- `TargetRegistry_proofs`. The inductive invariant strengthens `TypeOK` by
  `AttachedIffServed` and by what an unallocated id looks like. Theorems:
  `ServedIffAttached`, `NobodyIsAbandoned`, `FatesNeverChange`.
- `Daemon_proofs`. None of the three invariants is inductive alone. `IInv` adds to
  `TypeOK` what holds the pipe at each step: `ConnectionsLive` (a daemon that has not
  bound the pipe, or has exited, has no connection, and one that is held belongs to a
  daemon that renews), `RenewingHolds` (which owns the pipe meanwhile by the connection
  it accepted), `OneOwner`, `DroppedUnused`; that a daemon which has served somebody
  goes on unless it was asked to stop or failed (`ServedLives`, `LeavingIsAsked`), from
  which `OneDaemonServes` follows with `OneOwner`; and `CountsFollow`: how far a
  command that asks once has come says how often it took effect. Theorems:
  `OwnershipAlwaysHolds`, `OutcomesTellEffects`, `OneDaemonAlwaysServes`, for any number
  of daemons and commands.
- `StartupProfile_proofs`. `Inv` strengthens `TypeOK` by `Created` (a run
  that has recorded nothing starts from a clean slate), `Room` (whenever the loop
  waits the next stop has a place, and before the tail begins the exit keeps one
  besides), `TailBound` (what was omitted lies at or after the
  tail's beginning), `Clock` (a quiet interval begins at the last stop, so it is
  `resumed` itself whenever the loop comes round) and `Fate`. Theorems:
  `ProfileTypes`, `QuietIsObserved`, `ExitFindsRoom`, `GapsAreComplete`,
  `BudgetNeverRunsOut`, `OneTargetAtATime`, for every timeout, settle time, event
  limit and number of runs.
- `LiveBreak_proofs`. `Inv` strengthens the types by `Resumed` (how the target
  was resumed is what `pending` said), `PendingIsTheStop` (wherever a continue may
  follow, `pending` says whether the last stop was a notification: this is what
  each of the four loops has to hand on), `Path` (which steps belong to which
  command, and before which there is no breakpoint) and `Asked` (a software
  `managed-break` without permission never gets past opening the DAC: nothing
  after it checks the permission again). Theorems: `BreakTypes`,
  `NotificationsAreAcknowledged`, `NothingWrittenUnasked`, `ReportsAreTrue`, for
  any limit on the notifications.
- `DebuggerSession_proofs`. `IInv` is `SessionInv /\ CacheInv`, as session and cache
  share no variable. `SessionInv`: `CaptureInv` (`Counted`, the accounting of a
  capture with a function that adds up the characters of its records; `Remembered`, that
  a capture knows what was there before it, unless the engine got stuck), `CaptureRuns`
  (a capture belongs to a run), `Current` (the thread of the stop is current also while
  an operation is under way) and `ArmedIsKnown`. `CacheInv`: `RenamesWhole` (what is
  about to be renamed is the whole image of the server), `NoneReplaces` (nobody downloads
  another image over the right one: why a found image stays found although nothing is
  locked), `FoundIsThere` and `TemporaryIsRemoved`. Theorems:
  `NothingGoesUncounted`, `OutputIsRestored`, `StopThreadStaysCurrent`,
  `ArmedIsAlwaysKnown`, `CacheStaysSound` and the action property `ForeignFileIsKept`,
  for any limits, texts, threads, breakpoints and processes. The sum of the characters
  is a recursive function over the records: that two functions with its defining equation
  agree is shown by their least counterexample (`SumsAgree`).
- `ClientCommands_proofs`. `IInv` is `RegistryInv /\ CommandInv /\ RecordingInv /\
  InstallInv`. `CommandInv` says what a command knows at each of its calls:
  `GoneFor` (the id of a session that was closed under it has been handed out, so
  nobody else gets it while the daemon lives), `Opening` (before the second call there is
  no cursor, after it the cursor is there), `Reading` (the positions of its answers
  so far are that of its cursor, unless it was disturbed) and `Sweeping` (the hits lie
  behind the cursor, in the order and with the sequence numbers it passed them). The
  registry's lemmas carry over from one call to the other clients' and to a new daemon.
  `RecordingInv` is the types, `RecordingProgress` (which processes there are at which
  step), `RecorderEndedWell` (a recorder that succeeded saw its target end or accepted the
  stop request, and left no partial trace) and `RecordingReported`. `InstallInv` is the
  types, `LockIsHeld` (of the commands between acquiring and releasing there is one at
  most, and the file is there), `InstallWork` (what a command may rely on at each of its
  steps; without the lock it is not inductive, another command may remove the tree this
  one has just unpacked) and `TreesKnown`. Theorems: `ReadingsAlwaysAgree`,
  `ClosedStaysGone`, `ReportsAlwaysMatch`, `RememberedIsTheEngines`,
  `RecordingsAlwaysFinal` and `InstallsAlwaysWhole` of the composition, and
  `RecordingIsFinal` and `InstalledIsWhole` of the two commands' own specifications.

The pure functions. `QueriesStayExact` proves `QueriesAreExact` as an invariant of the
debugger session, each conjunct from a theorem that holds for every input and not only for
the bounded sets of the run. `AnswersAreExact` is not proved as a whole, but of 16 of its 33
parts the main statement is, for every input. By the module that holds the proofs:

- `DebuggerSession_proofs`: `WalksAreExact` (any tables of four or five levels, pages of any
  size), `CapturedMapIsWhole` (any address space and limit), `DisassemblyIsGapless` (any
  instructions), `CapturedStackIsWhole` and `CapturedAccountingIsWhole` (any stack, any
  threads), `ResolvedIsUnique`, `LaterModulesChangeNothing` and `RefreshFindsTheResolved` (any
  modules, any that are loaded later), `EngineIsShared` (any files the loader accepts, any
  symbol path). Of image files and dumps: `OffsetsAlwaysInTheirSection` (any sections),
  `ReadersAlwaysAgree` (any file below 4 GiB) and `ClassificationsAlwaysEarned` (any entry,
  tables, size and tags).
- `ClientCommands_proofs`: `ListsAreAnsweredWhole` (lists of any length),
  `BytesAreAlwaysTheirs`, `RangesAlwaysLeadHome` and `CommandLinesAreTheirs` (any address,
  size and partial answer of the engine), `LookupsAlwaysAgree` (any modules and stack),
  `ThreadsAlwaysAgree` (any threads), `PercentsStayInside` (any lifetime),
  `ChoicesAreNeverDropped` (any candidates for the bridge, any list of indexes), with the
  lemmas `OfferedIsSupported`, `KindsAreTheirs` and `FlagsAreThoseAsked`.
- `StartupProfile_proofs`: of TraceReports `NearestIsNearest` (any exports),
  `ChasesAlwaysFollow` (any memory, offset and depth) and `StringsAreAlwaysExact` (any bytes);
  of ProfileReports `ComparisonsAlwaysFair` (any two runs and limit) and
  `AccountingAlwaysExact` (any stops, kinds and limit).

What these theorems assume of their inputs is what the code is given: numbers are natural, a
memory map answers each address with the region it lies in, a list of threads has distinct
ids. A width (`MaxRead`, `Top`) is the one of the model, as an overflow happens there.

The functions above that go along a list or a memory are recursive, and the prover knows of a
recursive function only that it is some function with that equation, if there is one. That
there is one is `PassesExist` (a pass over 1..n) and `RecursionDefines` (a measure that
falls): each is shown for a function from types to types, so that a lemma `...KeepTypes` is
all a new one needs. What the function computes then follows from an invariant of its steps,
by the least place where it would fail (`ChaseInv`, `ScanInv`, `AccountInv`, `WalksEnd`).
`AccountInv` is the longest of them: what has been taken so far is counted, what is remembered of a
thread is the last stop that had it, and every answer so far is right.

Only model-checked:

- Liveness (`CloseEnds`, `AnswersShutdown`, `CommandsEnd`, `ProfileEnds`, `CommandEnds`, and
  the liveness that `Lifecycle` and `Serialized` demand beside their safety), because
  fairness and ENABLED are outside the prover's reach.
- `AnswersAreExact` as a whole. Its remaining parts are evaluated over finite sets, and nothing
  is claimed of inputs beyond these: the rows of dumps, UTF-16 strings, recovered stacks, timelines,
  audits, module searches and log summaries; the phases, summaries, reports and medians of profiles;
  the topology, contexts, attribution and images of triage; the exports of an image. They are
  built with `SelectSeq`, `SortSeq`, `FlattenSeq` and `FoldSet`, of which the prover knows
  nothing, so that nothing about what they return can be shown without taking it on trust.

## 6. Plan

Done: the replay registry with its jobs and clients, the engine worker with its
targets and sessions, the daemon, the startup profile and breakpoint commands,
recording, installation, cache, the reports and triage, and the proofs above.

What could follow:

1. The rows, recovered stacks and exports with selections written as functions over the
   chosen indexes, which the prover can expand; then the parts of `AnswersAreExact` that are
   left.
2. The commands of one call that reshape what they are answered, and the queries of a
   debugger session that do the same.

## 7. Not modelled

- The MCP stdio server and the choice of backend: stateless adapters of the tool
  table onto the rmcp crate.
- Argument parsing, most commands of one call, formatting and colours of the CLI, and
  `remote explain`, which prints text.
- Of the service: decoding of arguments and the JSON shapes of answers; a position
  is a number, so its text form is not modelled. That one tool call holds the
  service's mutex however long it takes, and that a target whose worker has died
  fails the listing of all targets, are visible in the code and not stated as
  properties.
- Of a debugger session: memory search, disassembly of text and the queries that
  only reshape what DbgEng answers; they appear as calls that may fail.
- Of dump triage: reading the fields of each structure. Of the startup profile: the
  provenance of the files.
- Build tasks (`xtask`) and continuous integration: sequences of external commands
  that keep nothing between calls.
- The TTD engine, DbgEng, the DAC, TTD.exe, the file system and the network are
  external: they may do whatever their callers allow for.
