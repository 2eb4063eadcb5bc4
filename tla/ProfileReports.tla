---------------------------- MODULE ProfileReports ----------------------------
(***************************************************************************)
(* What windbg-tool makes of a startup profile once its runs have ended    *)
(* (crates/windbg-tool, cli/platform.rs): phases, the lifecycle summary,   *)
(* module enrichment and thread accounting in the profile itself, the      *)
(* module report of one recorded run and the comparison of two artifacts.  *)
(* How a run comes by its timeline is StartupProfile.                      *)
(*                                                                         *)
(* A timeline is a sequence of events.  `at` is the wall time the target   *)
(* was resumed; a path stands for its normalized, lower-case form.         *)
(***************************************************************************)
EXTENDS Integers, SequencesExt, FiniteSetsExt

Reports == INSTANCE TraceReports

Missing == -1
NoModule == [path |-> "none", base |-> 0]

-----------------------------------------------------------------------------
(* Modules and events.                                                     *)

Basename(path) ==
  CASE path \in {"net6/coreclr", "net8/coreclr"} -> "coreclr"
    [] path = "rdm/app" -> "app"
    [] OTHER -> path

RuntimeLoaders == {"coreclr", "hostfxr", "hostpolicy", "clrjit", "mscoree"}
InRdm(path) == path = "rdm/app"
IsAbsolute(path) == path # "ntdll"

Identity(event) == Basename(event.module.path)
IsLoad(event) == event.kind = "load_module" /\ event.module # NoModule
IsLoadOf(event, name) == IsLoad(event) /\ Identity(event) = name

Where(timeline, Test(_)) == SelectSeq([i \in DOMAIN timeline |-> i], LAMBDA i : Test(timeline[i]))
First(indexes) == IF indexes = <<>> THEN 0 ELSE Head(indexes)
Final(indexes) == IF indexes = <<>> THEN 0 ELSE indexes[Len(indexes)]

FirstKind(timeline, kind) == First(Where(timeline, LAMBDA e : e.kind = kind))
LastKind(timeline, kind) == Final(Where(timeline, LAMBDA e : e.kind = kind))
FirstLoadOf(timeline, name) == First(Where(timeline, LAMBDA e : IsLoadOf(e, name)))

\* The first load of every module name.
FirstLoads(timeline) ==
  SelectSeq([i \in DOMAIN timeline |-> i],
    LAMBDA i : /\ IsLoad(timeline[i])
               /\ \A j \in 1..(i - 1) : ~IsLoadOf(timeline[j], Identity(timeline[i])))

Classifications(module, phase) ==
  LET name == Basename(module.path)
      known == (IF name \in RuntimeLoaders THEN {"runtime_loader"} ELSE {})
               \cup (IF InRdm(module.path) THEN {"rdm_application_path"} ELSE {})
               \cup (IF name = phase THEN {"selected_phase_module"} ELSE {})
  IN IF known = {} THEN {"other_module"} ELSE known

\* startup_profile_module_classification: one label, without the path's.
Classification(module, phase) ==
  CASE Basename(module.path) \in RuntimeLoaders -> "runtime_loader"
    [] Basename(module.path) \notin RuntimeLoaders /\ Basename(module.path) = phase -> "selected_phase_module"
    [] OTHER -> "other_module"

-----------------------------------------------------------------------------
(* Phases and the lifecycle summary of a run.                              *)

Phase(elapsed) == [observed |-> elapsed # Missing, elapsed |-> elapsed]

PhaseBetween(timeline, start, end) ==
  IF 0 \in {start, end} THEN Phase(Missing)
  ELSE IF timeline[end].at < timeline[start].at THEN Phase(Missing)
  ELSE Phase(timeline[end].at - timeline[start].at)

PhaseNames == {"launch", "to_coreclr", "to_selected", "to_exit", "whole"}

Phases(timeline, phase) ==
  LET create == FirstKind(timeline, "create_process")
      coreclr == FirstLoadOf(timeline, "coreclr")
      selected == FirstLoadOf(timeline, phase)
      exit == FirstKind(timeline, "exit_process")
  IN [launch |-> IF create = 0 THEN Phase(Missing) ELSE Phase(timeline[create].at),
      to_coreclr |-> PhaseBetween(timeline, create, coreclr),
      to_selected |-> PhaseBetween(timeline, coreclr, selected),
      to_exit |-> PhaseBetween(timeline, selected, exit),
      whole |-> PhaseBetween(timeline, create, exit)]

LifecycleSummary(timeline, phase, limit) ==
  LET firsts == FirstLoads(timeline)
      label(i) == Classification(timeline[i].module, phase)
  IN [first |-> [kind \in {"load_module", "create_thread", "exception"} |-> FirstKind(timeline, kind)],
      last |-> [kind \in {"load_module", "create_thread", "exception"} |-> LastKind(timeline, kind)],
      exit |-> FirstKind(timeline, "exit_process"),
      seen |-> Reports!Page(firsts, limit),
      runtime |-> SelectSeq(firsts, LAMBDA i : label(i) = "runtime_loader")]

-----------------------------------------------------------------------------
(* What else a run keeps: parameters and provenance of its modules.        *)

\* One module for each base address, by address, the one seen first.
ModuleParameters(timeline, limit) ==
  LET with(b) == First(Where(timeline, LAMBDA e : e.module.base = b))
      bases == SetToSortSeq({timeline[i].module.base : i \in DOMAIN timeline} \ {0}, <)
  IN Reports!Page([k \in DOMAIN bases |-> [base |-> bases[k], module |-> timeline[with(bases[k])].module]], limit)

\* One record for each path, in the order of the loads.
ModuleProvenance(timeline, limit) ==
  LET firsts == SelectSeq([i \in DOMAIN timeline |-> i],
        LAMBDA i : /\ IsLoad(timeline[i])
                   /\ \A j \in 1..(i - 1) :
                        IsLoad(timeline[j]) => timeline[j].module.path # timeline[i].module.path)
  IN Reports!Page([k \in DOMAIN firsts |->
       LET path == timeline[firsts[k]].module.path
       IN [path |-> path,
           status |-> IF IsAbsolute(path) THEN "read" ELSE "rejected_non_absolute_path"]], limit)

-----------------------------------------------------------------------------
(* The module report of one run.                                           *)

\* The records become a map; of two with one key the later one stays.
RecordWith(rows, key, value) == Final(Where(rows, LAMBDA r : r[key] = value))

\* Faulty: the time since the load before, of whatever module.
DeltaFromAnyLoad(timeline, firsts, k) ==
  LET before == Where(SubSeq(timeline, 1, firsts[k] - 1), IsLoad)
  IN IF before = <<>> THEN Missing ELSE timeline[firsts[k]].at - timeline[Final(before)].at

\* The time since the first load of the module before it in the list.
Delta(timeline, firsts, k) ==
  IF k = 1 THEN Missing ELSE timeline[firsts[k]].at - timeline[firsts[k - 1]].at

ReportRows(timeline, parameters, provenance, phase) ==
  LET firsts == FirstLoads(timeline)
  IN [k \in DOMAIN firsts |->
        LET module == timeline[firsts[k]].module
        IN [ordinal |-> k,
            event |-> firsts[k],
            delta |-> Delta(timeline, firsts, k),
            classes |-> Classifications(module, phase),
            parameters |-> RecordWith(parameters, "base", module.base),
            provenance |-> RecordWith(provenance, "path", module.path)]]

RowMatches(row, timeline, filter) ==
  /\ filter.runtimeOnly => "runtime_loader" \in row.classes
  /\ filter.rdmOnly => "rdm_application_path" \in row.classes
  /\ timeline[row.event].at >= filter.minResumed
  /\ filter.substring # "" => Identity(timeline[row.event]) = filter.substring

\* The rows are numbered before the filter, and cut behind it.
ModuleReport(timeline, parameters, provenance, phase, filter, limit) ==
  LET rows == ReportRows(timeline, parameters, provenance, phase)
  IN [observed |-> Len(rows),
      page |-> Reports!Page(SelectSeq(rows, LAMBDA r : RowMatches(r, timeline, filter)), limit)]

-----------------------------------------------------------------------------
(* Several runs, and two artifacts.                                        *)

\* Medians are doubled: an even count has the mean of the two in the middle.
Distribution(values) ==
  LET sorted == SortSeq(values, <)
      n == Len(sorted)
  IN [count |-> n,
      least |-> IF n = 0 THEN Missing ELSE sorted[1],
      median2 |-> IF n = 0 THEN Missing
                  ELSE IF n % 2 = 1 THEN 2 * sorted[n \div 2 + 1]
                  ELSE sorted[n \div 2] + sorted[n \div 2 + 1],
      most |-> IF n = 0 THEN Missing ELSE sorted[n]]

Completed(runs) == SelectSeq(runs, LAMBDA r : r.status = "completed")

PhaseSamples(runs, name) ==
  LET observed == SelectSeq(runs, LAMBDA r : r.phases[name].observed)
  IN [k \in DOMAIN observed |-> observed[k].phases[name].elapsed]

GapSamples(runs) ==
  LET with == SelectSeq(runs, LAMBDA r : r.gaps # <<>>)
  IN [k \in DOMAIN with |-> with[k].gaps[1]]

\* startup_profile_aggregate, of the runs that completed.
Aggregate(runs) ==
  [phases |-> [name \in PhaseNames |->
     [distribution |-> Distribution(PhaseSamples(runs, name)),
      missing |-> Len(runs) - Len(PhaseSamples(runs, name))]],
   gaps |-> Distribution(GapSamples(runs))]

MedianDelta(baseline, candidate) ==
  IF 0 \in {baseline.count, candidate.count} THEN [known |-> FALSE, ms2 |-> 0]
  ELSE [known |-> TRUE, ms2 |-> candidate.median2 - baseline.median2]

\* An event of a run, without what differs between any two launches.
Token(event) == [kind |-> event.kind, name |-> Basename(event.module.path), code |-> event.code]

\* Faulty: runs of different lengths that agree as far as both go are one.
DivergedInside(a, b, shared) == shared < Len(a) /\ shared < Len(b)

\* Two sequences of tokens that agree in the first `shared`.
Diverged(a, b, shared) == (shared < Len(a) /\ shared < Len(b)) \/ Len(a) # Len(b)

CompareRuns(baseline, candidate, limit) ==
  LET Tokens(timeline) ==
        LET kept == SubSeq(timeline, 1, Reports!Smaller(Len(timeline), limit))
        IN [k \in DOMAIN kept |-> Token(kept[k])]
      a == Tokens(baseline)
      b == Tokens(candidate)
      shared == Max({n \in 0..Reports!Smaller(Len(a), Len(b)) : SubSeq(a, 1, n) = SubSeq(b, 1, n)})
  IN [status |-> IF Diverged(a, b, shared) THEN "diverged" ELSE "shared_prefix_within_limit",
      shared |-> shared,
      divergence |-> IF shared < Len(a) /\ shared < Len(b) THEN shared + 1 ELSE 0,
      truncated |-> Len(baseline) > limit \/ Len(candidate) > limit]

CompareArtifacts(baseline, candidate, limit) ==
  LET a == Completed(baseline)
      b == Completed(candidate)
      pairs == Reports!Smaller(Len(a), Len(b))
  IN [phases |-> [name \in PhaseNames |->
        MedianDelta(Distribution(PhaseSamples(a, name)), Distribution(PhaseSamples(b, name)))],
      gaps |-> MedianDelta(Distribution(GapSamples(a)), Distribution(GapSamples(b))),
      sequences |-> [k \in 1..pairs |-> CompareRuns(a[k].timeline, b[k].timeline, limit)],
      unmatched |-> <<Len(a) - pairs, Len(b) - pairs>>]

-----------------------------------------------------------------------------
(* The captures at a stop that are bounded and read-only.                  *)

(* startup_profile_stop_context and startup_profile_thread_accounting: one *)
(* that fails is counted too.                                              *)
Capture(requested, selected, taken, limit) ==
  CASE ~requested -> "not_requested"
    [] requested /\ ~selected -> "not_selected"
    [] requested /\ selected /\ taken >= limit -> "limit_reached"
    [] OTHER -> "taken"

ContextKinds(chosen) ==
  IF chosen = {} THEN {"load_module", "create_thread", "exception", "exit_process"} ELSE chosen
AccountingKinds(chosen) ==
  IF chosen = {} THEN {"create_process", "load_module", "create_thread", "exit_process"} ELSE chosen

\* What is captured at each stop, of the kinds that were chosen.
StopContexts(stops, requested, chosen, limit) ==
  LET status[i \in 0..Len(stops)] ==
        IF i = 0 THEN <<>>
        ELSE LET taken == Cardinality({k \in 1..(i - 1) : status[i - 1][k] = "taken"})
             IN Append(status[i - 1], Capture(requested, stops[i].kind \in ContextKinds(chosen), taken, limit))
  IN status[Len(stops)]

NoTimes == [kernel |-> Missing, user |-> Missing]

TimeDelta(before, now) ==
  IF NoTimes \in {before, now} THEN [status |-> "missing", kernel |-> 0, user |-> 0]
  ELSE IF now.kernel < before.kernel \/ now.user < before.user
       THEN [status |-> "decreased", kernel |-> 0, user |-> 0]
  ELSE [status |-> "captured", kernel |-> now.kernel - before.kernel, user |-> now.user - before.user]

(* The stops of a run: each has the kind of its event and what the query   *)
(* answers, a failure or the threads with their counters.  A thread is     *)
(* compared with the last snapshot that had it.                            *)
Accounting(stops, requested, chosen, limit) ==
  LET after[i \in 0..Len(stops)] ==
        IF i = 0 THEN [taken |-> 0, prior |-> <<>>, answers |-> <<>>]
        ELSE LET s == after[i - 1]
                 stop == stops[i]
                 status == Capture(requested, stop.kind \in AccountingKinds(chosen), s.taken, limit)
                 threads == IF status = "taken" /\ ~stop.fails THEN stop.threads ELSE <<>>
                 deltas == [t \in DOMAIN threads \cap DOMAIN s.prior |->
                              [since |-> s.prior[t].event, delta |-> TimeDelta(s.prior[t].times, threads[t])]]
             IN [taken |-> s.taken + (IF status = "taken" THEN 1 ELSE 0),
                 prior |-> [t \in DOMAIN threads \cup DOMAIN s.prior |->
                              IF t \in DOMAIN threads THEN [event |-> i, times |-> threads[t]] ELSE s.prior[t]],
                 answers |-> Append(s.answers, [status |-> status, deltas |-> deltas])]
  IN after[Len(stops)].answers

-----------------------------------------------------------------------------
(* What they promise, over small timelines.                                *)

Shape(kind, path, base) == [kind |-> kind, module |-> [path |-> path, base |-> base], code |-> 0]
Create == Shape("create_process", "rdm/app", 1)
Passing ==
  {Shape("load_module", "net6/coreclr", 2), Shape("load_module", "net8/coreclr", 3),
   Shape("load_module", "ntdll", 2), Shape("unload_module", "net6/coreclr", 2),
   [kind |-> "create_thread", module |-> NoModule, code |-> 0],
   [kind |-> "load_module", module |-> NoModule, code |-> 0]}
Exit == [kind |-> "exit_process", module |-> NoModule, code |-> 0]

At(shape, time) == [kind |-> shape.kind, module |-> shape.module, code |-> shape.code, at |-> time]
Timed(shapes) == [i \in DOMAIN shapes |-> At(shapes[i], i * i)]

Timelines ==
  {Timed(<<Create>> \o middle \o end) : middle \in BoundedSeq(Passing, 3), end \in {<<>>, <<Exit>>}}

(* The phases of a run that were all observed add up to the whole of it,   *)
(* and none is measured between events in the wrong order                  *)
(* (derive_startup_profile_phases).                                        *)
PhasesAddUp ==
  \A timeline \in Timelines : \A phase \in {"coreclr", "ntdll"} :
    LET p == Phases(timeline, phase)
    IN /\ p.to_coreclr.observed /\ p.to_selected.observed /\ p.to_exit.observed =>
            p.to_coreclr.elapsed + p.to_selected.elapsed + p.to_exit.elapsed = p.whole.elapsed
       /\ \A name \in PhaseNames : p[name].observed <=> p[name].elapsed >= 0
       /\ p.whole.observed <=> timeline[Len(timeline)].kind = "exit_process"

(* The summary a profile carries and the report made of it later agree on  *)
(* which modules were loaded when; a cut in the list of modules loses no   *)
(* runtime loader (startup_profile_lifecycle_summary).                     *)
SummariesAgree ==
  \A timeline \in Timelines : \A limit \in 0..2 :
    LET summary == LifecycleSummary(timeline, "ntdll", limit)
        report == ReportRows(timeline, <<>>, <<>>, "ntdll")
    IN /\ summary.seen.total = Len(report)
       /\ \A k \in DOMAIN summary.seen.rows : summary.seen.rows[k] = report[k].event
       /\ ToSet(summary.runtime) = {r.event : r \in {r \in ToSet(report) : "runtime_loader" \in r.classes}}
       /\ FirstLoadOf(timeline, "coreclr") = First(summary.runtime)
       /\ \A kind \in DOMAIN summary.first :
            /\ summary.first[kind] <= summary.last[kind]
            /\ summary.first[kind] = 0 <=> \A i \in DOMAIN timeline : timeline[i].kind # kind

Filters ==
  [runtimeOnly : BOOLEAN, rdmOnly : {FALSE}, minResumed : {0, 9}, substring : {"", "coreclr", "ntdll"}]

(* The rows of a report are the first loads, in order; their times add up  *)
(* from row to row whatever the filter leaves out; what is joined to a row *)
(* is of its own base and path, and of its own module unless the base had  *)
(* been another's before (startup_profile_module_report).                  *)
ReportsAddUp ==
  \A timeline \in Timelines : \A limit \in {1, 3} :
    LET parameters == ModuleParameters(timeline, 3)
        provenance == ModuleProvenance(timeline, limit)
        rows == ReportRows(timeline, parameters.rows, provenance.rows, "ntdll")
        Module(k) == timeline[rows[k].event].module
        reused(b) == \E i, j \in DOMAIN timeline :
                       /\ timeline[i].module.base = b /\ timeline[j].module.base = b
                       /\ timeline[i].module # timeline[j].module
    IN /\ \A k \in DOMAIN rows :
            /\ timeline[rows[k].event].at =
                 timeline[rows[1].event].at + FoldSet(LAMBDA i, sum : rows[i].delta + sum, 0, 2..k)
            /\ rows[k].parameters # 0
            /\ reused(Module(k).base) \/ parameters.rows[rows[k].parameters].module = Module(k)
            /\ ~provenance.truncated => rows[k].provenance # 0
            /\ rows[k].provenance # 0 =>
                 /\ provenance.rows[rows[k].provenance].path = Module(k).path
                 /\ provenance.rows[rows[k].provenance].status = "read" => IsAbsolute(Module(k).path)
       /\ \A filter \in Filters :
            LET report == ModuleReport(timeline, parameters.rows, provenance.rows, "ntdll", filter, limit)
            IN /\ Len(report.page.rows) <= limit
               /\ \A r \in ToSet(report.page.rows) : r = rows[r.ordinal] /\ RowMatches(r, timeline, filter)
               /\ ~report.page.truncated =>
                    \A r \in ToSet(rows) : RowMatches(r, timeline, filter) => r \in ToSet(report.page.rows)

(* At least half of the samples lie on either side of the median, however  *)
(* the runs were ordered; every run of an aggregate is a sample of a phase *)
(* or is counted as missing it (startup_profile_aggregate).                *)
Samples == [status : {"completed", "incomplete"}, elapsed : {Missing, 0, 2, 5}]
RunOf(sample) ==
  [status |-> sample.status,
   timeline |-> <<>>,
   phases |-> [name \in PhaseNames |-> Phase(sample.elapsed)],
   gaps |-> IF sample.elapsed = Missing THEN <<>> ELSE <<sample.elapsed>>]
RunsOf(samples) == [k \in DOMAIN samples |-> RunOf(samples[k])]

MediansAreCentral ==
  \A samples \in BoundedSeq(Samples, 3) :
    LET runs == Completed(RunsOf(samples))
        aggregate == Aggregate(runs)
        of == aggregate.phases["whole"]
        Count(Test(_)) == Len(SelectSeq(PhaseSamples(runs, "whole"), Test))
    IN /\ of.distribution.count + of.missing = Len(runs)
       /\ of.distribution = aggregate.gaps
       /\ 2 * Count(LAMBDA v : 2 * v <= of.distribution.median2) >= of.distribution.count
       /\ 2 * Count(LAMBDA v : 2 * v >= of.distribution.median2) >= of.distribution.count
       /\ of = Aggregate(Reverse(runs)).phases["whole"]

Comparable == BoundedSeq({Create, Exit, Shape("load_module", "net6/coreclr", 2), Shape("load_module", "net8/coreclr", 3)}, 3)

(* Two runs share a prefix exactly when nothing within the limit tells     *)
(* them apart, and the answer does not depend on which of them is called   *)
(* the baseline; runs that did not complete count on neither side          *)
(* (startup_profile_compare_run_sequence, run_live_startup_compare).       *)
ComparisonsAreFair ==
  /\ \A a, b \in Comparable : \A limit \in 1..3 :
       LET ab == CompareRuns(a, b, limit)
           ba == CompareRuns(b, a, limit)
           same(i) == /\ i \in DOMAIN a <=> i \in DOMAIN b
                      /\ i \in DOMAIN a /\ i \in DOMAIN b => Token(a[i]) = Token(b[i])
       IN /\ ab = ba
          /\ ab.status = "shared_prefix_within_limit" <=> \A i \in 1..limit : same(i)
          /\ \A i \in 1..ab.shared : same(i)
          /\ ab.divergence # 0 => ~same(ab.divergence)
  /\ \A a, b \in BoundedSeq(Samples, 2) :
       LET ab == CompareArtifacts(RunsOf(a), RunsOf(b), 1)
           ba == CompareArtifacts(RunsOf(b), RunsOf(a), 1)
       IN /\ ab.gaps.known = ba.gaps.known /\ ab.gaps.ms2 = -ba.gaps.ms2
          /\ 0 \in ToSet(ab.unmatched)
          /\ ab = CompareArtifacts(Completed(RunsOf(a)), Completed(RunsOf(b)), 1)
          /\ 2 * Len(ab.sequences) + ab.unmatched[1] + ab.unmatched[2]
               = Len(Completed(RunsOf(a))) + Len(Completed(RunsOf(b)))

Times == {NoTimes, [kernel |-> 1, user |-> 0], [kernel |-> 0, user |-> 1]}
Snapshots ==
  {<<>>, 2 :> [kernel |-> 1, user |-> 1], [t \in {1, 2} |-> [kernel |-> t, user |-> t]]} \cup {1 :> times : times \in Times}
Stops ==
  [kind : {"load_module", "exit_thread"}, fails : {FALSE}, threads : Snapshots]
  \cup [kind : {"load_module"}, fails : {TRUE}, threads : {<<>>}]

(* A difference of thread times is one between two snapshots that were     *)
(* taken, the later and the last before it that had the thread, and is     *)
(* never negative; what is captured are the first stops of the chosen      *)
(* kinds, as many as were allowed (startup_profile_thread_accounting,      *)
(* startup_profile_stop_context).                                          *)
AccountingIsExact ==
  \A stops \in [1..3 -> Stops] : \A limit \in {1, 3} :
    LET answers == Accounting(stops, TRUE, {}, limit)
        contexts == StopContexts(stops, TRUE, {"exit_thread"}, limit)
        exits == {i \in 1..3 : stops[i].kind = "exit_thread"}
        had(t) == {i \in 1..3 : answers[i].status = "taken" /\ ~stops[i].fails /\ t \in DOMAIN stops[i].threads}
    IN /\ \A i \in 1..3 : contexts[i] = "taken" <=> i \in exits /\ Cardinality({k \in exits : k < i}) < limit
       /\ Cardinality({i \in 1..3 : answers[i].status = "taken"}) <= limit
       /\ \A i \in 1..3 :
            /\ answers[i].status = "limit_reached" =>
                 Cardinality({k \in 1..i : answers[k].status = "taken"}) = limit
            /\ \A t \in DOMAIN answers[i].deltas :
                 LET d == answers[i].deltas[t]
                     since == Max({k \in had(t) : k < i})
                 IN /\ d.since = since
                    /\ d.delta.status = "captured" =>
                         /\ d.delta.kernel = stops[i].threads[t].kernel - stops[since].threads[t].kernel
                         /\ d.delta.user = stops[i].threads[t].user - stops[since].threads[t].user
                         /\ d.delta.kernel >= 0 /\ d.delta.user >= 0
=============================================================================
