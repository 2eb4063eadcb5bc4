------------------------- MODULE StartupProfile_proofs -------------------------
(***************************************************************************)
(* What holds of a startup profile for every choice of its arguments: any  *)
(* number of runs, any limit, any timeout and any settle time; and of the  *)
(* reports that are made of profiles, of traces and of memory, whatever    *)
(* they are given.                                                         *)
(***************************************************************************)
EXTENDS StartupProfile, TLAPS, FiniteSetTheorems

Stops == [kind : Kinds, at : Nat]

Collecting == pc \in {"looping", "waiting"}

\* The timeline has room for what is still to be recorded.
Room ==
  /\ Collecting => finish = "none" /\ Len(timeline) >= 1
  /\ Len(timeline) <= args.maxEvents
  /\ Collecting /\ ~args.completion => Len(timeline) < args.maxEvents
  /\ pc = "waiting" /\ ~args.completion /\ tail = Never =>
       Len(timeline) < args.maxEvents - 1
  /\ pc = "waiting" /\ args.completion => Len(timeline) < args.maxEvents
  /\ finish = "exit_process" =>
       Len(timeline) >= 1 /\ timeline[Len(timeline)].kind = "exit_process"

\* Nothing is missing before the tail.
TailBound ==
  /\ args.completion => tail = Never
  /\ tail = Never => omitted = {}
  /\ \A o \in omitted : tail <= o
  /\ tail <= Len(timeline)

\* Where the clock stands, and what the quiet interval starts from.
Clock ==
  /\ \A i \in 1..Len(timeline) : timeline[i].at <= resumed
  /\ quiet # Never => loaded /\ args.completion /\ args.settle > 0
  /\ loaded => \E i \in 1..Len(timeline) : timeline[i].kind = "requested_load"
  /\ Collecting /\ quiet # Never => quiet = resumed
  /\ QuietWasObserved

\* What becomes of the target.
Fate ==
  /\ pc = "ending" /\ finish = "exit_process" => target = "exited"
  /\ TargetsDoNotOverlap

\* A run that has recorded nothing starts from the beginning.
Created ==
  pc = "created" =>
    /\ resumed = 0 /\ quiet = Never /\ ~loaded
    /\ tail = Never /\ omitted = {} /\ finish = "none"

Inv == TypeOK /\ Created /\ Room /\ TailBound /\ Clock /\ Fate

(* The start satisfies the invariant.                                      *)
LEMMA Starts == Init => Inv
<1> SUFFICES ASSUME Init PROVE Inv
  OBVIOUS
<1>1. timeline = <<>> /\ Len(timeline) = 0 /\ timeline \in Seq(Stops) /\ runs \in Seq(RunRecords)
  BY DEF Init
<1>2. TypeOK
  BY <1>1 DEF Init, TypeOK, Stops, CompletionStates, FinishReasons, Never
<1>3. Created /\ Room /\ TailBound /\ Clock /\ Fate
  BY <1>1, ProfileAssumption
  DEF Init, Created, Room, TailBound, Clock, Fate, Collecting, Arguments, QuietWasObserved,
      TargetsDoNotOverlap, Never
<1> QED
  BY <1>2, <1>3 DEF Inv

\* What Append does to the timeline.
LEMMA Appended ==
  ASSUME NEW S, NEW s \in Seq(S), NEW e \in S
  PROVE  /\ Append(s, e) \in Seq(S)
         /\ Len(s) \in Nat
         /\ Len(Append(s, e)) = Len(s) + 1
         /\ \A i \in 1..Len(s) : Append(s, e)[i] = s[i]
         /\ Append(s, e)[Len(s) + 1] = e
  OBVIOUS

(* What is left of a budget is a number.                                   *)
LEMMA BudgetsAreNatural ==
  ASSUME TypeOK
  PROVE  Remaining \in Nat /\ WaitBudget \in Nat
  BY ProfileAssumption
  DEF TypeOK, Remaining, WaitBudget, Saturated, Smaller, Never, Arguments

\* A step that ends nothing and records nothing.
LEMMA LaunchKeeps ==
  ASSUME Inv, LaunchFails \/ Launch \/ RecordCreateProcess \/ EngineFails
  PROVE  Inv'
<1>1. CASE LaunchFails
  <2>1. [status |-> "failed", finish |-> "none", completion |-> "not_requested"] \in RunRecords
    BY DEF RunRecords, FinishReasons, CompletionStates
  <2>2. runs' \in Seq(RunRecords)
    BY <1>1, <2>1 DEF LaunchFails, Inv, TypeOK
  <2>3. TypeOK'
    BY <1>1, <2>2 DEF LaunchFails, Inv, TypeOK, collection
  <2>4. Created' /\ Room' /\ TailBound' /\ Clock' /\ Fate'
    BY <1>1
    DEF LaunchFails, Inv, collection, Created, Room, TailBound, Clock, Fate, Collecting,
        QuietWasObserved, TargetsDoNotOverlap
  <2> QED
    BY <2>3, <2>4 DEF Inv
<1>2. CASE Launch
  <2>1. timeline' = <<>> /\ Len(timeline') = 0 /\ timeline' \in Seq(Stops)
    BY <1>2 DEF Launch
  <2>2. TypeOK'
    BY <1>2, <2>1
    DEF Launch, Inv, TypeOK, Stops, CompletionStates, FinishReasons, Never
  <2>3. Created' /\ Room' /\ TailBound' /\ Clock' /\ Fate'
    BY <1>2, <2>1, ProfileAssumption
    DEF Launch, Inv, TypeOK, Created, Room, TailBound, Clock, Fate, Collecting, Arguments,
        QuietWasObserved, TargetsDoNotOverlap, Never
  <2> QED
    BY <2>2, <2>3 DEF Inv
<1>3. CASE RecordCreateProcess
  <2> DEFINE e == [kind |-> "create_process", at |-> 0]
  <2>1. e \in Stops
    BY DEF Stops, Kinds
  <2>2. /\ timeline' \in Seq(Stops) /\ Len(timeline') = 1
        /\ timeline'[1] = e
    BY <1>3, <2>1 DEF RecordCreateProcess
  <2>3. TypeOK'
    BY <1>3, <2>2 DEF RecordCreateProcess, Inv, TypeOK, Stops
  <2>4. Room'
    BY <1>3, <2>2, <2>3, ProfileAssumption
    DEF RecordCreateProcess, Inv, TypeOK, Created, Room, Collecting, Arguments, Never
  <2>5. Created' /\ TailBound' /\ Clock' /\ Fate'
    BY <1>3, <2>2
    DEF RecordCreateProcess, Inv, Created, TailBound, Clock, Fate, Collecting,
        QuietWasObserved, TargetsDoNotOverlap, Never
  <2> QED
    BY <2>3, <2>4, <2>5 DEF Inv
<1>4. CASE EngineFails
  <2>1. TypeOK'
    BY <1>4 DEF EngineFails, Inv, TypeOK, collection
  <2>2. Created' /\ Room' /\ TailBound' /\ Clock' /\ Fate'
    BY <1>4
    DEF EngineFails, Inv, collection, Created, Room, TailBound, Clock, Fate, Collecting,
        QuietWasObserved, TargetsDoNotOverlap
  <2> QED
    BY <2>1, <2>2 DEF Inv
<1> QED
  BY <1>1, <1>2, <1>3, <1>4

\* The loop is left for a reason that its last wait did not give.
LEMMA LimitKeeps ==
  ASSUME Inv, EventLimit \/ Continue \/ PassUnobserved
  PROVE  Inv'
<1>0. Remaining \in Nat /\ Len(timeline) \in Nat
  BY BudgetsAreNatural DEF Inv, TypeOK
<1>1. CASE EventLimit
  <2>1. completion' \in CompletionStates /\ finish' = "event_limit" /\ pc' = "ending"
    BY <1>1
    DEF EventLimit, Finish, CompletionAfter, Inv, TypeOK, CompletionStates
  <2>2. TypeOK'
    BY <1>1, <2>1 DEF EventLimit, Inv, TypeOK, FinishReasons
  <2>3. Created' /\ Room' /\ TailBound' /\ Clock' /\ Fate'
    BY <1>1, <2>1
    DEF EventLimit, Inv, Created, Room, TailBound, Clock, Fate, Collecting,
        QuietWasObserved, TargetsDoNotOverlap
  <2> QED
    BY <2>2, <2>3 DEF Inv
<1>2. CASE Continue
  <2>1. /\ tail' \in Nat \cup {Never}
        /\ args.completion => tail' = tail
        /\ tail' = tail \/ (tail = Never /\ tail' = Len(timeline))
        /\ tail' = Never /\ ~args.completion => Len(timeline) < args.maxEvents - 1
    BY <1>2, <1>0 DEF Continue, Inv, TypeOK, FullForTail, Arguments, Never
  <2>2. CASE Remaining = 0
    <3>1. completion' \in CompletionStates /\ finish' = "timeout" /\ pc' = "ending"
      BY <1>2, <2>2
      DEF Continue, Finish, CompletionAfter, Inv, TypeOK, CompletionStates
    <3>2. TypeOK'
      BY <1>2, <2>1, <2>2, <3>1 DEF Continue, Inv, TypeOK, FinishReasons
    <3>3. Created' /\ Room' /\ TailBound' /\ Clock' /\ Fate'
      BY <1>2, <2>1, <2>2, <3>1
      DEF Continue, Inv, Created, Room, TailBound, Clock, Fate, Collecting,
          QuietWasObserved, TargetsDoNotOverlap
    <3> QED
      BY <3>2, <3>3 DEF Inv
  <2>3. CASE Remaining # 0
    <3>1. TypeOK'
      BY <1>2, <2>1, <2>3 DEF Continue, Inv, TypeOK
    <3>2. Room'
      BY <1>0, <1>2, <2>1, <2>3
      DEF Continue, Inv, TypeOK, Room, Collecting, Full, Arguments, Never
    <3>3. Created' /\ TailBound' /\ Clock' /\ Fate'
      BY <1>2, <2>1, <2>3
      DEF Continue, Inv, Created, TailBound, Clock, Fate, Collecting,
          QuietWasObserved, TargetsDoNotOverlap
    <3> QED
      BY <3>1, <3>2, <3>3 DEF Inv
  <2> QED
    BY <2>2, <2>3
<1>3. CASE PassUnobserved
  <2>1. TypeOK'
    BY <1>3, <1>0 DEF PassUnobserved, Inv, TypeOK
  <2>2. TailBound'
    BY <1>0, <1>3 DEF PassUnobserved, Inv, TypeOK, TailBound, Room, Collecting
  <2>3. Created' /\ Room' /\ Clock' /\ Fate'
    BY <1>3
    DEF PassUnobserved, Inv, Created, Room, Clock, Fate, Collecting, TailBound,
        QuietWasObserved, TargetsDoNotOverlap
  <2> QED
    BY <2>1, <2>2, <2>3 DEF Inv
<1> QED
  BY <1>1, <1>2, <1>3

\* What a stop after d units does to the timeline and the clock.
LEMMA Observed ==
  ASSUME Inv, NEW kind \in Kinds, NEW d, Observe(kind, d)
  PROVE  /\ pc = "waiting" /\ resumed' \in Nat /\ resumed <= resumed'
         /\ timeline' \in Seq(Stops) /\ omitted' \subseteq Nat
         /\ \A i \in 1..Len(timeline') : timeline'[i].at <= resumed'
         /\ Len(timeline') <= args.maxEvents /\ Len(timeline') >= 1
         /\ ~args.completion /\ kind # "exit_process" => Len(timeline') < args.maxEvents
         /\ \A o \in omitted' : tail <= o
         /\ tail <= Len(timeline')
         /\ tail = Never => /\ omitted' = {}
                           /\ timeline'[Len(timeline')].kind = kind
         /\ kind = "exit_process" => timeline'[Len(timeline')].kind = kind
         /\ loaded => \E i \in 1..Len(timeline') : timeline'[i].kind = "requested_load"
<1>1. /\ pc = "waiting" /\ d \in Nat /\ resumed' = resumed + d /\ resumed \in Nat
      /\ Len(timeline) \in Nat /\ timeline \in Seq(Stops) /\ args.maxEvents \in Nat
      /\ omitted \subseteq Nat /\ tail \in Nat \cup {-1}
  BY BudgetsAreNatural
  DEF Inv, TypeOK, Observe, ResumedAfter, Stops, Arguments, Never
<1>2. resumed' \in Nat /\ resumed <= resumed'
  BY <1>1
<1>5. \A i \in 1..Len(timeline) : timeline[i].at \in Nat
  <2>1. \A i \in 1..Len(timeline) : timeline[i] \in Stops
    BY <1>1
  <2> QED
    BY <2>1 DEF Stops
<1>3. CASE Retains(kind)
  <2> DEFINE e == [kind |-> kind, at |-> resumed']
  <2>1. timeline' = Append(timeline, e) /\ e \in Stops /\ omitted' = omitted
    BY <1>2, <1>3 DEF Observe, Stops
  <2>2. /\ timeline' \in Seq(Stops) /\ Len(timeline') = Len(timeline) + 1
        /\ \A i \in 1..Len(timeline) : timeline'[i] = timeline[i]
        /\ timeline'[Len(timeline) + 1] = e
    BY <1>1, <2>1, Appended
  <2> HIDE DEF e
  <2>3. \A i \in 1..Len(timeline') : i \in 1..Len(timeline) \/ i = Len(timeline) + 1
    BY <1>1, <2>2
  <2>4. \A i \in 1..Len(timeline) : timeline[i].at \in Nat /\ timeline[i].at <= resumed
    BY <1>5 DEF Inv, Clock
  <2>5. \A i \in 1..Len(timeline') : timeline'[i].at <= resumed'
    BY <1>1, <1>2, <2>2, <2>3, <2>4 DEF e
  <2>6. /\ Len(timeline') <= args.maxEvents /\ Len(timeline') >= 1
        /\ ~args.completion /\ kind # "exit_process" => Len(timeline') < args.maxEvents
    BY <1>1, <1>3, <2>2 DEF Inv, Room, Collecting, Retains
  <2>7. timeline'[Len(timeline')].kind = kind
    BY <2>2 DEF e
  <2>8. loaded => \E i \in 1..Len(timeline') : timeline'[i].kind = "requested_load"
    BY <1>1, <2>2 DEF Inv, Clock
  <2>9. tail <= Len(timeline') /\ (tail = Never => omitted' = {}) /\ \A o \in omitted' : tail <= o
    BY <1>1, <2>1, <2>2 DEF Inv, TailBound
  <2> QED
    BY <1>1, <1>2, <2>2, <2>1, <2>5, <2>6, <2>7, <2>8, <2>9
<1>4. CASE ~Retains(kind)
  <2>1. /\ timeline' = timeline /\ omitted' = omitted \cup {Len(timeline)}
        /\ tail # Never /\ kind # "exit_process"
    BY <1>4 DEF Observe, Retains
  <2>2. \A i \in 1..Len(timeline) : timeline[i].at \in Nat /\ timeline[i].at <= resumed
    BY <1>5 DEF Inv, Clock
  <2>3. \A i \in 1..Len(timeline') : timeline'[i].at <= resumed'
    BY <1>1, <1>2, <2>1, <2>2
  <2>4. /\ Len(timeline') <= args.maxEvents /\ Len(timeline') >= 1
        /\ ~args.completion => Len(timeline') < args.maxEvents
    BY <1>1, <2>1 DEF Inv, Room, Collecting
  <2>5. loaded => \E i \in 1..Len(timeline') : timeline'[i].kind = "requested_load"
    BY <2>1 DEF Inv, Clock
  <2>6. tail <= Len(timeline') /\ \A o \in omitted' : tail <= o
    BY <1>1, <2>1 DEF Inv, TailBound
  <2>7. omitted' \subseteq Nat
    BY <1>1, <2>1
  <2> QED
    BY <1>1, <1>2, <2>1, <2>3, <2>4, <2>5, <2>6, <2>7
<1> QED
  BY <1>3, <1>4

(* A stop is recorded where it has a place.                                *)
LEMMA StopKeeps ==
  ASSUME Inv, NEW d, TargetExits(d) \/ RequestedModuleLoads(d) \/ OtherStop(d)
  PROVE  Inv'
<1>1. CASE TargetExits(d)
  <2>1. Observe("exit_process", d) /\ "exit_process" \in Kinds
    BY <1>1 DEF TargetExits, Kinds
  <2>2. completion' \in CompletionStates /\ finish' = "exit_process" /\ pc' = "ending"
    BY <1>1
    DEF TargetExits, Finish, CompletionAfter, Inv, TypeOK, CompletionStates
  <2>3. TypeOK'
    BY <1>1, <2>1, <2>2, Observed
    DEF TargetExits, Inv, TypeOK, FinishReasons, Stops
  <2>4. Room' /\ TailBound' /\ Clock'
    BY <1>1, <2>1, <2>2, Observed
    DEF TargetExits, Inv, Room, TailBound, Clock, Collecting, QuietWasObserved
  <2>5. Created' /\ Fate'
    BY <1>1, <2>2 DEF TargetExits, Created, Fate, TargetsDoNotOverlap
  <2> QED
    BY <2>3, <2>4, <2>5 DEF Inv
<1>2. CASE RequestedModuleLoads(d)
  <2>1. Observe("requested_load", d) /\ "requested_load" \in Kinds
    BY <1>2 DEF RequestedModuleLoads, Kinds
  <2>2. /\ completion' \in CompletionStates
        /\ finish' \in {"none", "completion_module"} /\ pc' \in {"looping", "ending"}
        /\ pc' = "looping" => finish' = "none"
        /\ quiet' = quiet \/ (args.settle > 0 /\ quiet' = resumed')
        /\ pc' = "looping" => quiet' = resumed'
        /\ target' = "stopped" /\ loaded' /\ args.completion
        /\ UNCHANGED <<args, tail, failed, runs>>
    BY <1>2, <2>1
    DEF RequestedModuleLoads, Observe, Finish, CompletionAfter, Inv, TypeOK, Room, Collecting,
        CompletionStates
  <2>3. tail = Never
    BY <2>2 DEF Inv, TailBound
  <2>4. TypeOK'
    BY <2>1, <2>2, Observed, <1>2
    DEF RequestedModuleLoads, Inv, TypeOK, FinishReasons, Stops
  <2>5. Room' /\ TailBound'
    BY <2>1, <2>2, <2>3, Observed DEF Inv, Room, TailBound, Collecting
  <2>6. Clock'
    <3>1. \E i \in 1..Len(timeline') : timeline'[i].kind = "requested_load"
      <4>1. Len(timeline') \in Nat
        BY <2>4 DEF TypeOK
      <4> QED
        BY <2>1, <2>3, Observed, <4>1
    <3> QED
      BY <2>1, <2>2, <3>1, Observed DEF Inv, Clock, Collecting, QuietWasObserved
  <2>7. Created' /\ Fate'
    BY <2>2 DEF Created, Fate, TargetsDoNotOverlap
  <2> QED
    BY <2>4, <2>5, <2>6, <2>7 DEF Inv
<1>3. CASE OtherStop(d)
  <2>1. PICK kind \in PassingStops : Observe(kind, d)
    BY <1>3 DEF OtherStop
  <2>2. kind \in Kinds /\ kind # "exit_process"
    BY DEF PassingStops, Kinds
  <2>3. /\ pc' = "looping" /\ target' = "stopped" /\ finish = "none"
        /\ quiet' = IF quiet = Never THEN Never ELSE resumed'
        /\ UNCHANGED <<args, completion, loaded, tail, finish, failed, runs>>
    BY <1>3, <2>1 DEF OtherStop, QuietAfter, Observe, Inv, Room, Collecting
  <2>4. TypeOK'
    BY <2>1, <2>2, <2>3, Observed DEF Inv, TypeOK, Stops
  <2>5. Room' /\ TailBound' /\ Clock'
    BY <2>1, <2>2, <2>3, Observed
    DEF Inv, Room, TailBound, Clock, Collecting, QuietWasObserved
  <2>6. Created' /\ Fate'
    BY <2>3 DEF Created, Fate, TargetsDoNotOverlap
  <2> QED
    BY <2>4, <2>5, <2>6 DEF Inv
<1> QED
  BY <1>1, <1>2, <1>3

(* A wait that comes back without an event.                                *)
LEMMA NoEventKeeps ==
  ASSUME Inv, NoEvent
  PROVE  Inv'
<1>1. PICK d \in Waits : resumed' = resumed + d
  BY DEF NoEvent
<1>2. /\ d \in Nat /\ d > 0 /\ resumed' \in Nat /\ resumed < resumed'
      /\ pc = "waiting" /\ pc' = "ending" /\ finish = "none"
      /\ UNCHANGED <<args, target, timeline, quiet, loaded, tail, failed, runs, omitted>>
  BY <1>1, BudgetsAreNatural
  DEF NoEvent, Waits, Finish, Inv, TypeOK, Room, Collecting
<1>3. /\ completion' \in CompletionStates
      /\ finish' \in {"timeout", "completion_module_quiet_interval"}
      /\ finish' = "completion_module_quiet_interval" => Settled(resumed')
  BY DEF NoEvent, Finish, CompletionAfter, Inv, TypeOK, CompletionStates
<1>4. TypeOK'
  BY <1>2, <1>3 DEF Inv, TypeOK, FinishReasons
<1>5. /\ Len(timeline) \in Nat
      /\ \A i \in 1..Len(timeline) : timeline[i].at \in Nat /\ timeline[i].at <= resumed
  <2>1. timeline \in Seq(Stops)
    BY DEF Inv, TypeOK, Stops
  <2>2. \A i \in 1..Len(timeline) : timeline[i] \in Stops
    BY <2>1
  <2> QED
    BY <2>1, <2>2 DEF Inv, Clock, Stops
<1>6. \A i \in 1..Len(timeline') : timeline'[i].at <= resumed'
  BY <1>2, <1>5 DEF Inv, TypeOK
<1>7. QuietWasObserved'
  <2>1. SUFFICES ASSUME finish' = "completion_module_quiet_interval"
                 PROVE  QuietWasObserved'
    BY DEF QuietWasObserved
  <2>2. /\ quiet # Never /\ quiet = resumed /\ loaded /\ args.completion
        /\ resumed' - quiet >= args.settle
    BY <1>2, <1>3, <2>1 DEF Settled, Inv, Clock, Collecting
  <2>3. omitted = {} /\ \E i \in 1..Len(timeline) : timeline[i].kind = "requested_load"
    BY <2>2 DEF Inv, TailBound, Clock
  <2>4. args.settle \in Nat /\ resumed \in Nat
    BY DEF Inv, TypeOK, Arguments
  <2>5. \A i \in 1..Len(timeline) : timeline[i].at + args.settle <= resumed'
    BY <1>2, <1>5, <2>2, <2>4
  <2> QED
    BY <1>2, <2>3, <2>5 DEF QuietWasObserved
<1>8. Created' /\ Room' /\ TailBound' /\ Clock' /\ Fate'
  BY <1>2, <1>3, <1>6, <1>7
  DEF Inv, Created, Room, TailBound, Clock, Fate, Collecting, TargetsDoNotOverlap
<1> QED
  BY <1>4, <1>8 DEF Inv

(* Ranking, cleanup and the next run.                                      *)
LEMMA EndKeeps ==
  ASSUME Inv, EndRun
  PROVE  Inv'
<1>1. PICK ended \in BOOLEAN :
        /\ NeedsNoCleanup => ended
        /\ target' = IF NeedsNoCleanup THEN target
                     ELSE IF ~ended THEN "abandoned"
                     ELSE IF args.end = "detach" THEN "detached" ELSE "terminated"
        /\ runs' = Append(runs, [status |-> StatusAfterCleanup(ended),
                                 finish |-> finish, completion |-> completion])
        /\ pc' = IF GoesOn(StatusAfterCleanup(ended), Len(runs')) THEN "launching" ELSE "done"
  BY DEF EndRun
<1> DEFINE run == [status |-> StatusAfterCleanup(ended), finish |-> finish,
                   completion |-> completion]
<1>2. run \in RunRecords
  BY DEF StatusAfterCleanup, RunStatus, RunRecords, Inv, TypeOK
<1>3. runs' \in Seq(RunRecords) /\ Len(runs') = Len(runs) + 1 /\ Len(runs) \in Nat
  BY <1>1, <1>2, Appended DEF Inv, TypeOK
<1>4. /\ pc = "ending" /\ pc' \in {"launching", "done"}
      /\ UNCHANGED <<args, timeline, resumed, quiet, completion, loaded, tail, finish,
                     omitted, failed>>
  BY <1>1 DEF EndRun, collection
<1>5. target' \in {"none", "stopped", "running", "exited", "detached", "terminated", "abandoned"}
  BY <1>1 DEF Inv, TypeOK
<1>6. TypeOK'
  BY <1>3, <1>4, <1>5 DEF Inv, TypeOK
<1>7. TargetsDoNotOverlap'
  <2>1. SUFFICES ASSUME pc' = "launching" PROVE target' \in {"exited", "terminated"}
    BY DEF TargetsDoNotOverlap
  <2>2. ended /\ ~failed /\ args.runs > 1
    BY <1>1, <1>3, <2>1 DEF GoesOn, StatusAfterCleanup, Inv, TypeOK, Arguments
  <2>3. args.end = "terminate"
    BY <2>2 DEF Inv, TypeOK, Arguments
  <2>4. CASE NeedsNoCleanup
    BY <1>1, <1>4, <2>4 DEF NeedsNoCleanup, Inv, Fate
  <2>5. CASE ~NeedsNoCleanup
    BY <1>1, <2>2, <2>3, <2>5
  <2> QED
    BY <2>4, <2>5
<1>8. Created' /\ Room' /\ TailBound' /\ Clock' /\ Fate'
  BY <1>4, <1>7
  DEF Inv, Created, Room, TailBound, Clock, Fate, Collecting, QuietWasObserved
<1> QED
  BY <1>6, <1>8 DEF Inv

(* Inv is inductive.                                                       *)
LEMMA StepKeeps == Inv /\ [Next]_vars => Inv'
<1> SUFFICES ASSUME Inv, [Next]_vars PROVE Inv'
  OBVIOUS
<1>1. CASE UNCHANGED vars
  BY <1>1
  DEF vars, collection, Inv, TypeOK, Created, Room, TailBound, Clock, Fate, Collecting,
      QuietWasObserved, TargetsDoNotOverlap
<1>2. CASE Next
  BY <1>1, <1>2, LaunchKeeps, LimitKeeps, StopKeeps, NoEventKeeps, EndKeeps
  DEF Next, Done
<1> QED
  BY <1>1, <1>2

(* The invariant holds for any arguments.                                  *)
LEMMA Invariance == Spec => []Inv
<1> QED
  BY Starts, StepKeeps, PTL DEF Spec

(* Every variable keeps its type.                                          *)
THEOREM ProfileTypes == Spec => []TypeOK
<1>1. Inv => TypeOK
  BY DEF Inv
<1> QED
  BY <1>1, Invariance, PTL

(* A quiet interval is reported only when the whole of --settle-ms before  *)
(* the end of the run was free of stops and followed a load of the module. *)
THEOREM QuietIsObserved == Spec => []QuietWasObserved
<1>1. Inv => QuietWasObserved
  BY DEF Inv, Clock
<1> QED
  BY <1>1, Invariance, PTL

(* The timeline stays within --max-events, and an exit that ends a run is  *)
(* its last entry.                                                         *)
THEOREM ExitFindsRoom == Spec => []ExitIsRetained
<1>1. Inv => ExitIsRetained
  BY DEF Inv, Room, ExitIsRetained
<1> QED
  BY <1>1, Invariance, PTL

(* A ranked gap holds no event that was left out.                          *)
THEOREM GapsAreComplete == Spec => []RankedGapsAreComplete
<1>1. Inv => RankedGapsAreComplete
  <2> SUFFICES ASSUME Inv, NEW i \in LargestGaps PROVE i \notin omitted
    BY DEF RankedGapsAreComplete
  <2>1. Rankable(i) /\ i \in Int
    BY DEF LargestGaps, Rankable
  <2>2. CASE tail = Never
    BY <2>2 DEF Inv, TailBound
  <2>3. CASE tail # Never
    BY <2>1, <2>3 DEF Inv, TypeOK, TailBound, Rankable
  <2> QED
    BY <2>2, <2>3
<1> QED
  BY <1>1, Invariance, PTL

(* The loop's own assertion about its wait budget never fails.             *)
THEOREM BudgetNeverRunsOut == Spec => []BudgetIsPositive
<1>1. Inv => BudgetIsPositive
  <2> SUFFICES ASSUME Inv, pc = "looping", Remaining > 0 PROVE WaitBudget > 0
    BY DEF BudgetIsPositive
  <2>1. CASE quiet = Never
    BY <2>1 DEF WaitBudget
  <2>2. CASE quiet # Never
    <3>1. quiet = resumed /\ args.settle > 0 /\ args.settle \in Nat /\ resumed \in Nat
      BY <2>2 DEF Inv, Clock, Collecting, TypeOK, Arguments
    <3> QED
      BY <2>2, <3>1, BudgetsAreNatural DEF WaitBudget, Smaller, Saturated, Inv
  <2> QED
    BY <2>1, <2>2
<1> QED
  BY <1>1, Invariance, PTL

(* A run is launched only after the last one's target has gone.            *)
THEOREM OneTargetAtATime == Spec => []TargetsDoNotOverlap
<1>1. Inv => TargetsDoNotOverlap
  BY DEF Inv, Fate
<1> QED
  BY <1>1, Invariance, PTL

-----------------------------------------------------------------------------
(* The reports that are made of profiles, of traces and of memory.         *)

Profiles == INSTANCE ProfileReports
Reports == INSTANCE TraceReports

(* A set of numbers that is not empty has a least one.                     *)
LEMMA LeastExists ==
  ASSUME NEW S, S \subseteq Nat, S # {}
  PROVE  \E k \in S : \A l \in S : k <= l
<1>1. PICK k \in S : \A l \in S : <<l, k>> \notin OpToRel(<, Nat)
  BY WFMin, NatLessThanWellFounded
<1>2. \A l \in S : ~(l < k)
  BY <1>1 DEF OpToRel
<1> QED
  BY <1>2

(* A set of numbers with a bound that is not empty has a greatest one.     *)
LEMMA GreatestExists ==
  ASSUME NEW S, NEW n \in Nat, S \subseteq 0..n, S # {}
  PROVE  \E k \in S : \A l \in S : l <= k
<1> DEFINE mirror == {n - k : k \in S}
<1>5. \A k \in S : n - k \in Nat /\ k \in Nat
  OBVIOUS
<1>1. mirror \subseteq Nat /\ mirror # {}
  BY <1>5, Zenon
<1>2. PICK m \in mirror : \A l \in mirror : m <= l
  BY <1>1, LeastExists
<1>3. PICK k \in S : m = n - k
  OBVIOUS
<1>4. ASSUME NEW l \in S
      PROVE  l <= k
  <2>1. n - k <= n - l
    BY <1>2, <1>3
  <2>2. k \in Nat /\ l \in Nat
    BY <1>5
  <2> QED
    BY <2>1, <2>2
<1> QED
  BY <1>4

-----------------------------------------------------------------------------
(* The export nearest to an address.                                       *)

Exports == [rva : Nat, forwarder : BOOLEAN]

(* For any exports and any address in a module: the nearest export is one  *)
(* of them that forwards to no other module and does not lie behind the    *)
(* address, and none of those lies between it and the address; there is    *)
(* none only if no export is one of them (nearest_export).                 *)
THEOREM NearestIsNearest ==
  ASSUME NEW exports \in Seq(Exports), NEW rva \in Nat
  PROVE  LET nearest == Reports!NearestExport(exports, rva)
             below == {i \in DOMAIN exports : ~exports[i].forwarder /\ exports[i].rva <= rva}
         IN /\ nearest = Reports!NoExport <=> below = {}
            /\ below # {} =>
                 \E i \in below : /\ nearest = exports[i]
                                  /\ \A j \in below : exports[j].rva <= nearest.rva
<1> DEFINE below == {i \in DOMAIN exports : ~exports[i].forwarder /\ exports[i].rva <= rva}
           addresses == {exports[i].rva : i \in below}
           IsNearest(i) ==
             \A j \in below : exports[j].rva < exports[i].rva \/ (exports[j].rva = exports[i].rva /\ j <= i)
<1>1. Len(exports) \in Nat /\ DOMAIN exports = 1..Len(exports)
  OBVIOUS
<1>2. \A i \in below : i \in 0..Len(exports) /\ exports[i].rva \in 0..rva
  <2> SUFFICES ASSUME NEW i \in below
               PROVE  i \in 0..Len(exports) /\ exports[i].rva \in 0..rva
    OBVIOUS
  <2>1. i \in DOMAIN exports /\ exports[i] \in Exports /\ exports[i].rva <= rva
    BY <1>1
  <2>2. exports[i].rva \in Nat
    BY <2>1 DEF Exports
  <2> QED
    BY <1>1, <2>1, <2>2
<1>3. below = {} => Reports!NearestExport(exports, rva) = Reports!NoExport
  BY DEF Reports!NearestExport
<1>4. ASSUME below # {}
      PROVE  \E i \in below : IsNearest(i) /\ Reports!NearestExport(exports, rva) = exports[i]
  <2>1. Reports!NearestExport(exports, rva) = exports[CHOOSE i \in below : IsNearest(i)]
    BY <1>4 DEF Reports!NearestExport
  <2>2. addresses \subseteq 0..rva /\ addresses # {}
    BY <1>2, <1>4
  <2>3. PICK high \in addresses : \A a \in addresses : a <= high
    <3> HIDE DEF addresses
    <3> QED
      BY <2>2, GreatestExists
  <2> DEFINE highest == {i \in below : exports[i].rva = high}
  <2>4. highest # {} /\ highest \subseteq 0..Len(exports)
    BY <1>2, <2>3
  <2>5. PICK i \in highest : \A j \in highest : j <= i
    <3> HIDE DEF highest
    <3> QED
      BY <1>1, <2>4, GreatestExists
  <2>6. i \in below /\ exports[i].rva = high
    BY <2>5
  <2>7. \A j \in below : exports[j].rva <= high /\ (exports[j].rva = high => j <= i) /\ exports[j].rva \in Nat
    BY <1>2, <2>3, <2>5
  <2> HIDE DEF below
  <2>8. IsNearest(i)
    BY <2>6, <2>7
  <2> HIDE DEF IsNearest
  <2> QED
    BY <2>1, <2>6, <2>8
<1>5. ASSUME NEW i \in below
      PROVE  exports[i] # Reports!NoExport /\ (IsNearest(i) => \A j \in below : exports[j].rva <= exports[i].rva)
  BY <1>2 DEF Reports!NoExport
<1> HIDE DEF below, IsNearest
<1>6. Reports!NearestExport(exports, rva) = Reports!NoExport <=> below = {}
  BY <1>3, <1>4, <1>5
<1>7. below # {} =>
        \E i \in below : /\ Reports!NearestExport(exports, rva) = exports[i]
                         /\ \A j \in below : exports[j].rva <= Reports!NearestExport(exports, rva).rva
  BY <1>4, <1>5
<1> QED
  BY <1>6, <1>7 DEF below

-----------------------------------------------------------------------------
(* Passes over a list, for what the model computes by recursion along one. *)

\* The passes over 1..n that start with first and go on as onward says.
Passes(n, S, first, onward) ==
  {f \in [0..n -> S] : f[0] = first /\ \A m \in 1..n : f[m] = onward[m][f[m - 1]]}

(* A pass of any length exists: without this, what a recursive function of *)
(* the model computes is unknown to the prover.                            *)
LEMMA PassesExist ==
  ASSUME NEW S, NEW first \in S, NEW n \in Nat, NEW onward \in [1..n -> [S -> S]]
  PROVE  Passes(n, S, first, onward) # {}
<1> DEFINE Without == {k \in 0..n : Passes(k, S, first, onward) = {}}
<1> SUFFICES ASSUME Without # {}
             PROVE  FALSE
  OBVIOUS
<1>1. PICK k \in Without : \A m \in Without : k <= m
  <2>1. Without \subseteq Nat
    OBVIOUS
  <2> HIDE DEF Without
  <2> QED
    BY <2>1, LeastExists
<1>2. k \in 0..n /\ Passes(k, S, first, onward) = {}
  OBVIOUS
<1>3. k # 0
  <2>1. [m \in 0..0 |-> first] \in Passes(0, S, first, onward)
    BY DEF Passes
  <2> QED
    BY <1>2, <2>1
<1>4. PICK f \in [0..(k - 1) -> S] :
        f[0] = first /\ \A m \in 1..(k - 1) : f[m] = onward[m][f[m - 1]]
  <2>1. k - 1 \in 0..n /\ ~(k <= k - 1)
    BY <1>2, <1>3
  <2>2. k - 1 \notin Without
    <3> HIDE DEF Without
    <3> QED
      BY <1>1, <2>1
  <2> QED
    BY <2>1, <2>2 DEF Passes
<1> DEFINE last == onward[k][f[k - 1]]
           g == [m \in 0..k |-> IF m = k THEN last ELSE f[m]]
<1>5. last \in S
  <2>1. k \in 1..n /\ f[k - 1] \in S
    BY <1>2, <1>3, <1>4
  <2>2. onward[k] \in [S -> S]
    BY <2>1
  <2> QED
    BY <2>1, <2>2
<1> HIDE DEF last
<1>6. g \in [0..k -> S]
  BY <1>2, <1>4, <1>5
<1>7. g[0] = first
  BY <1>2, <1>3, <1>4
<1>8. ASSUME NEW m \in 1..k
      PROVE  g[m] = onward[m][g[m - 1]]
  <2>1. m - 1 \in 0..k /\ m - 1 # k /\ m \in 0..k
    BY <1>2
  <2>2. g[m - 1] = f[m - 1]
    BY <2>1
  <2>3. CASE m = k
    BY <1>2, <2>1, <2>2, <2>3 DEF last
  <2>4. CASE m # k
    <3>1. m \in 1..(k - 1)
      BY <1>2, <2>4
    <3> QED
      BY <1>4, <2>1, <2>2, <2>4, <3>1
  <2> QED
    BY <2>3, <2>4
<1>9. g \in Passes(k, S, first, onward)
  BY <1>6, <1>7, <1>8 DEF Passes
<1> QED
  BY <1>2, <1>9

-----------------------------------------------------------------------------
(* Chains of pointers.                                                     *)

Hop == [base : Nat, target : Nat]
ChaseStates == [current : Nat, hops : Seq(Hop), stop : {"max_depth", "null_pointer", "error"}]
ChaseStart(root) == [current |-> root, hops |-> <<>>, stop |-> "max_depth"]

\* One hop, from s.
NextHop(memory, offset, s) ==
  IF s.stop # "max_depth" THEN s
  ELSE IF s.current + offset \notin DOMAIN memory \/ memory[s.current + offset] = -1
  THEN [s EXCEPT !.stop = "error"]
  ELSE [current |-> IF memory[s.current + offset] = 0 THEN s.current ELSE memory[s.current + offset],
        stop |-> IF memory[s.current + offset] = 0 THEN "null_pointer" ELSE "max_depth",
        hops |-> Append(s.hops, [base |-> s.current, target |-> memory[s.current + offset]])]

Chased(after, memory, root, offset, depth) ==
  after = [d \in 0..depth |-> IF d = 0 THEN ChaseStart(root) ELSE NextHop(memory, offset, after[d - 1])]

\* Memory is a part of the address space, with what is read at each address of it.
Memory(memory) == \A at \in DOMAIN memory : memory[at] \in Nat \cup {-1}

(* A hop leads from one state of a chain to another.                       *)
LEMMA HopsKeepTypes ==
  ASSUME NEW memory, Memory(memory), NEW offset \in Nat, NEW s \in ChaseStates
  PROVE  NextHop(memory, offset, s) \in ChaseStates
<1> DEFINE at == s.current + offset
           pointer == memory[at]
<1>1. s.current \in Nat /\ s.hops \in Seq(Hop) /\ s.stop \in {"max_depth", "null_pointer", "error"}
  BY DEF ChaseStates
<1>2. CASE s.stop # "max_depth" \/ at \notin DOMAIN memory \/ pointer = -1
  <2>1. NextHop(memory, offset, s) = s \/ NextHop(memory, offset, s) = [s EXCEPT !.stop = "error"]
    BY <1>2 DEF NextHop
  <2> QED
    BY <2>1 DEF ChaseStates
<1>3. CASE s.stop = "max_depth" /\ at \in DOMAIN memory /\ pointer # -1
  <2>1. pointer \in Nat
    BY <1>3 DEF Memory
  <2>2. [base |-> s.current, target |-> pointer] \in Hop
    BY <1>1, <2>1 DEF Hop
  <2>3. Append(s.hops, [base |-> s.current, target |-> pointer]) \in Seq(Hop)
    BY <1>1, <2>2
  <2>4. NextHop(memory, offset, s) =
          [current |-> IF pointer = 0 THEN s.current ELSE pointer,
           stop |-> IF pointer = 0 THEN "null_pointer" ELSE "max_depth",
           hops |-> Append(s.hops, [base |-> s.current, target |-> pointer])]
    BY <1>3 DEF NextHop
  <2> HIDE DEF pointer
  <2> QED
    BY <1>1, <2>1, <2>3, <2>4 DEF ChaseStates
<1> QED
  BY <1>2, <1>3

(* The recursive function of Chase exists, and its values are states.      *)
LEMMA ChaseExists ==
  ASSUME NEW memory, Memory(memory), NEW root \in Nat, NEW offset \in Nat, NEW depth \in Nat
  PROVE  \E after : Chased(after, memory, root, offset, depth) /\ after \in [0..depth -> ChaseStates]
<1> DEFINE first == ChaseStart(root)
           onward == [d \in 1..depth |-> [s \in ChaseStates |-> NextHop(memory, offset, s)]]
<1>1. first \in ChaseStates
  BY DEF ChaseStart, ChaseStates
<1>2. onward \in [1..depth -> [ChaseStates -> ChaseStates]]
  BY HopsKeepTypes
<1>3. \A d \in 1..depth : \A s \in ChaseStates : onward[d][s] = NextHop(memory, offset, s)
  OBVIOUS
<1> HIDE DEF first, onward
<1>4. PICK after \in [0..depth -> ChaseStates] :
        after[0] = first /\ \A m \in 1..depth : after[m] = onward[m][after[m - 1]]
  BY <1>1, <1>2, PassesExist DEF Passes
<1>5. ASSUME NEW d \in 0..depth
      PROVE  after[d] = IF d = 0 THEN ChaseStart(root) ELSE NextHop(memory, offset, after[d - 1])
  <2>1. CASE d = 0
    BY <1>4, <2>1 DEF first
  <2>2. CASE d # 0
    <3>1. d \in 1..depth /\ d - 1 \in 0..depth
      BY <2>2
    <3>2. after[d - 1] \in ChaseStates
      BY <1>4, <3>1
    <3> QED
      BY <1>3, <1>4, <2>2, <3>1, <3>2
  <2> QED
    BY <2>1, <2>2
<1>6. Chased(after, memory, root, offset, depth)
  <2>1. after = [d \in 0..depth |-> after[d]]
    BY <1>4
  <2> QED
    BY <1>5, <2>1, Zenon DEF Chased
<1> QED
  BY <1>4, <1>6

\* What holds after d hops at most.
ChaseInv(memory, root, offset, d, s) ==
  LET last == s.hops[Len(s.hops)]
  IN /\ s \in ChaseStates /\ Len(s.hops) <= d
     /\ \A k \in DOMAIN s.hops :
          /\ s.hops[k].base = IF k = 1 THEN root ELSE s.hops[k - 1].target
          /\ s.hops[k].base # 0 /\ s.hops[k].base + offset \in DOMAIN memory
          /\ s.hops[k].target = memory[s.hops[k].base + offset]
     /\ s.stop = "null_pointer" => s.hops # <<>> /\ last.target = 0
     /\ s.stop # "null_pointer" => s.current # 0 /\ s.current = IF s.hops = <<>> THEN root ELSE last.target
     /\ s.stop = "error" =>
          s.current + offset \notin DOMAIN memory \/ memory[s.current + offset] = -1
     /\ s.stop = "max_depth" => Len(s.hops) = d

(* A hop keeps what holds of a chain.                                      *)
LEMMA HopsKeepInvariant ==
  ASSUME NEW memory, Memory(memory), NEW root \in Nat, NEW offset \in Nat, NEW d \in Nat,
         NEW s, ChaseInv(memory, root, offset, d, s)
  PROVE  ChaseInv(memory, root, offset, d + 1, NextHop(memory, offset, s))
<1> DEFINE at == s.current + offset
           pointer == memory[at]
           next == NextHop(memory, offset, s)
<1>1. s \in ChaseStates /\ s.current \in Nat /\ s.hops \in Seq(Hop) /\ Len(s.hops) \in Nat
  BY DEF ChaseInv, ChaseStates
<1>2. CASE s.stop # "max_depth"
  <2>1. next = s
    BY <1>2 DEF NextHop
  <2> HIDE DEF next
  <2> QED
    BY <1>1, <1>2, <2>1 DEF ChaseInv, next
<1>3. CASE s.stop = "max_depth" /\ (at \notin DOMAIN memory \/ pointer = -1)
  <2>1. next = [s EXCEPT !.stop = "error"]
    BY <1>3 DEF NextHop
  <2>2. next \in ChaseStates /\ next.current = s.current /\ next.hops = s.hops /\ next.stop = "error"
    BY <1>1, <2>1 DEF ChaseStates
  <2> HIDE DEF next
  <2> QED
    BY <1>1, <1>3, <2>2 DEF ChaseInv, next
<1>4. CASE s.stop = "max_depth" /\ at \in DOMAIN memory /\ pointer # -1
  <2> DEFINE hop == [base |-> s.current, target |-> pointer]
             last == s.hops[Len(s.hops)]
             n == Len(s.hops)
  <2>1. pointer \in Nat /\ hop \in Hop /\ hop.base = s.current /\ hop.target = pointer
    <3>1. pointer \in Nat
      BY <1>4 DEF Memory
    <3> HIDE DEF pointer
    <3> QED
      BY <1>1, <3>1 DEF Hop
  <2>2. next = [current |-> IF pointer = 0 THEN s.current ELSE pointer,
                stop |-> IF pointer = 0 THEN "null_pointer" ELSE "max_depth",
                hops |-> Append(s.hops, hop)]
    BY <1>4 DEF NextHop
  <2>3. next \in ChaseStates
    BY <1>1, HopsKeepTypes
  <2>4. /\ s.current # 0 /\ n = d
        /\ s.current = IF s.hops = <<>> THEN root ELSE last.target
    BY <1>4 DEF ChaseInv
  <2>5. \A k \in DOMAIN s.hops :
          /\ s.hops[k].base = IF k = 1 THEN root ELSE s.hops[k - 1].target
          /\ s.hops[k].base # 0 /\ s.hops[k].base + offset \in DOMAIN memory
          /\ s.hops[k].target = memory[s.hops[k].base + offset]
    BY DEF ChaseInv
  <2>6. /\ next.hops = Append(s.hops, hop)
        /\ next.current = IF pointer = 0 THEN s.current ELSE pointer
        /\ next.stop = IF pointer = 0 THEN "null_pointer" ELSE "max_depth"
    BY <2>2
  <2> DEFINE h == Append(s.hops, hop)
  <2>7. /\ Len(h) = n + 1 /\ DOMAIN h = 1..(n + 1) /\ h[n + 1] = hop /\ h # <<>>
        /\ \A k \in 1..n : h[k] = s.hops[k]
        /\ DOMAIN s.hops = 1..n /\ n \in Nat
    <3> HIDE DEF hop
    <3> QED
      BY <1>1, <2>1
  <2> HIDE DEF h, next, hop, pointer
  <2>8. ASSUME NEW k \in DOMAIN h
        PROVE  /\ h[k].base = IF k = 1 THEN root ELSE h[k - 1].target
               /\ h[k].base # 0 /\ h[k].base + offset \in DOMAIN memory
               /\ h[k].target = memory[h[k].base + offset]
    <3>1. CASE k \in 1..n
      <4>1. k # 1 => k - 1 \in 1..n
        BY <2>7, <3>1
      <4> QED
        BY <2>5, <2>7, <3>1, <4>1
    <3>2. CASE k = n + 1
      <4>1. h[k] = hop
        BY <2>7, <3>2
      <4>2. CASE n = 0
        <5>1. s.hops = <<>>
          BY <1>1, <4>2
        <5> QED
          BY <1>4, <2>1, <2>4, <3>2, <4>1, <4>2, <5>1 DEF pointer
      <4>3. CASE n # 0
        <5>1. s.hops # <<>> /\ k # 1 /\ k - 1 \in 1..n /\ k - 1 = n
          BY <1>1, <2>7, <3>2, <4>3
        <5>2. h[k - 1] = last
          BY <2>7, <5>1
        <5> QED
          BY <1>4, <2>1, <2>4, <4>1, <5>1, <5>2 DEF pointer
      <4> QED
        BY <4>2, <4>3
    <3> QED
      BY <2>7, <3>1, <3>2
  <2>9. h[Len(h)].target = pointer
    BY <2>1, <2>7
  <2> QED
    BY <2>1, <2>3, <2>4, <2>6, <2>7, <2>8, <2>9 DEF ChaseInv, h, next
<1> QED
  BY <1>2, <1>3, <1>4

(* For any memory, root, offset and depth: a chain of pointers goes on     *)
(* where its last hop led, each hop is the pointer that is read there, it  *)
(* is never followed from a null pointer nor beyond the depth, and it says *)
(* why it ended: at a null pointer, at the depth, or where nothing can be  *)
(* read (memory_chase_and_print).                                          *)
THEOREM ChasesAlwaysFollow ==
  ASSUME NEW memory, Memory(memory), NEW root \in Nat \ {0}, NEW offset \in Nat, NEW depth \in Nat
  PROVE  LET chase == Reports!Chase(memory, root, offset, depth)
             hops == chase.hops
             reached == IF hops = <<>> THEN root ELSE hops[Len(hops)].target
         IN /\ Len(hops) <= depth
            /\ \A k \in DOMAIN hops :
                 /\ hops[k].base = IF k = 1 THEN root ELSE hops[k - 1].target
                 /\ hops[k].base # 0
                 /\ hops[k].target = memory[hops[k].base + offset]
            /\ chase.stop = "null_pointer" <=> hops # <<>> /\ hops[Len(hops)].target = 0
            /\ chase.stop = "max_depth" => Len(hops) = depth
            /\ chase.stop = "error" => reached + offset \notin DOMAIN memory \/ memory[reached + offset] = -1
<1> DEFINE after == CHOOSE f : Chased(f, memory, root, offset, depth)
           Bad == {d \in 0..depth : ~ChaseInv(memory, root, offset, d, after[d])}
<1>1. Reports!Chase(memory, root, offset, depth) = after[depth]
  BY Zenon DEF Reports!Chase, Chased, NextHop, ChaseStart
<1>2. Chased(after, memory, root, offset, depth)
  BY ChaseExists
<1> HIDE DEF after
<1>3. \A d \in 0..depth : after[d] = IF d = 0 THEN ChaseStart(root) ELSE NextHop(memory, offset, after[d - 1])
  BY <1>2, Zenon DEF Chased
<1>4. ChaseInv(memory, root, offset, 0, ChaseStart(root))
  <2>1. ChaseStart(root) \in ChaseStates
    BY DEF ChaseStart, ChaseStates
  <2> QED
    BY <2>1 DEF ChaseInv, ChaseStart
<1>5. Bad = {}
  <2> SUFFICES ASSUME Bad # {}
               PROVE  FALSE
    OBVIOUS
  <2>1. Bad \subseteq Nat
    OBVIOUS
  <2>2. PICK d \in Bad : \A e \in Bad : d <= e
    <3> HIDE DEF Bad
    <3> QED
      BY <2>1, LeastExists
  <2>3. d \in 0..depth /\ ~ChaseInv(memory, root, offset, d, after[d])
    OBVIOUS
  <2>4. d # 0
    BY <1>3, <1>4, <2>3
  <2>5. d - 1 \in 0..depth /\ d - 1 \in Nat /\ ~(d <= d - 1) /\ (d - 1) + 1 = d
    BY <2>3, <2>4
  <2>6. ChaseInv(memory, root, offset, d - 1, after[d - 1])
    BY <2>2, <2>5
  <2>7. ChaseInv(memory, root, offset, (d - 1) + 1, NextHop(memory, offset, after[d - 1]))
    BY <2>5, <2>6, HopsKeepInvariant
  <2> QED
    BY <1>3, <2>3, <2>4, <2>5, <2>7
<1>6. ChaseInv(memory, root, offset, depth, after[depth])
  BY <1>5
<1> DEFINE s == after[depth]
<1>7. s.stop \in {"max_depth", "null_pointer", "error"} /\ s.hops \in Seq(Hop)
  BY <1>6 DEF ChaseInv, ChaseStates
<1>8. s.stop # "null_pointer" /\ s.hops # <<>> => s.hops[Len(s.hops)].target # 0
  BY <1>6 DEF ChaseInv
<1> HIDE DEF s
<1>9. ChaseInv(memory, root, offset, depth, s)
  BY <1>6 DEF s
<1> QED
  BY <1>1, <1>7, <1>8, <1>9 DEF ChaseInv, s

-----------------------------------------------------------------------------
(* The strings in memory.                                                  *)

Texts == [offset : Nat, length : Nat]
ScanStates == [begin : Nat, found : Seq(Texts)]
ScanStart == [begin |-> 0, found |-> <<>>]

\* One byte further, from s.
ScanByte(bytes, i, s) ==
  IF Reports!IsText(bytes[i]) THEN [s EXCEPT !.begin = IF @ = 0 THEN i ELSE @]
  ELSE IF s.begin = 0 THEN s
  ELSE [begin |-> 0, found |-> Reports!PushText(s.found, s.begin, i)]

Scanned(after, bytes) ==
  after = [i \in 0..Len(bytes) |-> IF i = 0 THEN ScanStart ELSE ScanByte(bytes, i, after[i - 1])]

\* A run of characters that goes on in neither direction.
MaximalRun(bytes, b, e) ==
  /\ b \in 1..Len(bytes) /\ e \in 1..Len(bytes) /\ b <= e
  /\ \A k \in b..e : Reports!IsText(bytes[k])
  /\ b = 1 \/ ~Reports!IsText(bytes[b - 1])
  /\ e = Len(bytes) \/ ~Reports!IsText(bytes[e + 1])

\* The long runs that end before `end` are found, each once and in order.
Found(bytes, end, found) ==
  /\ found \in Seq(Texts)
  /\ \A k \in DOMAIN found :
       /\ found[k].length >= Reports!MinText
       /\ MaximalRun(bytes, found[k].offset + 1, found[k].offset + found[k].length)
       /\ found[k].offset + found[k].length < end
  /\ \A b, e \in 1..Len(bytes) :
       MaximalRun(bytes, b, e) /\ e < end /\ e - b + 1 >= Reports!MinText =>
         \E k \in DOMAIN found : found[k].offset = b - 1 /\ found[k].length = e - b + 1
  /\ \A j, k \in DOMAIN found : j < k => found[j].offset + found[j].length < found[k].offset

\* After i bytes; an open run begins at s.begin.
ScanInv(bytes, i, s) ==
  /\ s \in ScanStates
  /\ s.begin = 0 => (i = 0 \/ ~Reports!IsText(bytes[i])) /\ Found(bytes, i, s.found)
  /\ s.begin # 0 =>
       /\ s.begin <= i /\ \A k \in s.begin..i : Reports!IsText(bytes[k])
       /\ s.begin = 1 \/ ~Reports!IsText(bytes[s.begin - 1])
       /\ Found(bytes, s.begin, s.found)

(* A byte leads from one state of the scan to another.                     *)
LEMMA ScanKeepsTypes ==
  ASSUME NEW bytes, NEW i \in Nat, NEW s \in ScanStates
  PROVE  ScanByte(bytes, i, s) \in ScanStates
<1>1. s.begin \in Nat /\ s.found \in Seq(Texts)
  BY DEF ScanStates
<1>2. CASE Reports!IsText(bytes[i])
  <2>1. ScanByte(bytes, i, s) = [s EXCEPT !.begin = IF s.begin = 0 THEN i ELSE s.begin]
    BY <1>2 DEF ScanByte
  <2> QED
    BY <1>1, <2>1 DEF ScanStates
<1>3. CASE ~Reports!IsText(bytes[i])
  <2>1. CASE s.begin = 0 \/ ~(i - s.begin >= Reports!MinText)
    BY <1>1, <1>3, <2>1 DEF ScanByte, ScanStates, Reports!PushText
  <2>2. CASE s.begin # 0 /\ i - s.begin >= Reports!MinText
    <3> DEFINE t == [offset |-> s.begin - 1, length |-> i - s.begin]
    <3>1. s.begin - 1 \in Nat /\ i - s.begin \in Nat
      BY <1>1, <2>2 DEF Reports!MinText
    <3>2. t \in Texts
      BY <3>1 DEF Texts
    <3>3. ScanByte(bytes, i, s) = [begin |-> 0, found |-> Append(s.found, t)]
      BY <1>3, <2>2 DEF ScanByte, Reports!PushText
    <3> HIDE DEF t
    <3>4. Append(s.found, t) \in Seq(Texts)
      BY <1>1, <3>2
    <3> QED
      BY <3>3, <3>4 DEF ScanStates
  <2> QED
    BY <2>1, <2>2
<1> QED
  BY <1>2, <1>3

(* The recursive function of AsciiStrings exists, with states as values.   *)
LEMMA ScanExists ==
  ASSUME NEW bytes, Len(bytes) \in Nat
  PROVE  \E after : Scanned(after, bytes)
<1> DEFINE n == Len(bytes)
           onward == [i \in 1..n |-> [s \in ScanStates |-> ScanByte(bytes, i, s)]]
<1>1. ScanStart \in ScanStates
  BY DEF ScanStart, ScanStates
<1>2. onward \in [1..n -> [ScanStates -> ScanStates]]
  BY ScanKeepsTypes
<1>3. \A d \in 1..n : \A s \in ScanStates : onward[d][s] = ScanByte(bytes, d, s)
  OBVIOUS
<1>7. n \in Nat
  OBVIOUS
<1> HIDE DEF onward, n
<1>4. PICK after \in [0..n -> ScanStates] :
        after[0] = ScanStart /\ \A m \in 1..n : after[m] = onward[m][after[m - 1]]
  <2>1. Passes(n, ScanStates, ScanStart, onward) # {}
    BY <1>1, <1>2, <1>7, PassesExist
  <2> QED
    BY <2>1 DEF Passes
<1>5. ASSUME NEW i \in 0..n
      PROVE  after[i] = IF i = 0 THEN ScanStart ELSE ScanByte(bytes, i, after[i - 1])
  <2>1. CASE i = 0
    BY <1>4, <2>1
  <2>2. CASE i # 0
    <3>1. i \in 1..n /\ i - 1 \in 0..n
      BY <1>7, <2>2
    <3>2. after[i - 1] \in ScanStates
      BY <1>4, <3>1
    <3> QED
      BY <1>3, <1>4, <2>2, <3>1, <3>2
  <2> QED
    BY <2>1, <2>2
<1>6. Scanned(after, bytes)
  <2>1. after = [i \in 0..n |-> after[i]]
    BY <1>4
  <2> QED
    BY <1>5, <2>1, Zenon DEF Scanned, n
<1> QED
  BY <1>6

(* A run that is closed at i is found there, unless it is too short.       *)
LEMMA PushFinds ==
  ASSUME NEW bytes, Len(bytes) \in Nat, NEW begin \in Nat, NEW end \in Nat, NEW found,
         begin # 0, begin < end, end <= Len(bytes) + 1,
         \A k \in begin..(end - 1) : Reports!IsText(bytes[k]),
         begin = 1 \/ ~Reports!IsText(bytes[begin - 1]),
         end = Len(bytes) + 1 \/ ~Reports!IsText(bytes[end]),
         Found(bytes, begin, found)
  PROVE  Found(bytes, end, Reports!PushText(found, begin, end))
<1> DEFINE n == Len(bytes)
<1>1. MaximalRun(bytes, begin, end - 1)
  BY DEF MaximalRun
<1>2. found \in Seq(Texts) /\ DOMAIN found = 1..Len(found) /\ Len(found) \in Nat
  BY DEF Found
<1>3. \A k \in DOMAIN found : found[k].offset \in Nat /\ found[k].length \in Nat
  <2>1. \A k \in DOMAIN found : found[k] \in Texts
    BY <1>2
  <2> QED
    BY <2>1 DEF Texts
\* A run that ends in between is that one.
<1>4. ASSUME NEW b \in 1..n, NEW e \in 1..n, MaximalRun(bytes, b, e), e < end, ~(e < begin)
      PROVE  b = begin /\ e = end - 1
  <2>1. /\ b <= e /\ \A k \in b..e : Reports!IsText(bytes[k])
        /\ b = 1 \/ ~Reports!IsText(bytes[b - 1])
        /\ e = n \/ ~Reports!IsText(bytes[e + 1])
    BY <1>4 DEF MaximalRun
  <2>2. e = end - 1
    <3> SUFFICES ASSUME e # end - 1
                 PROVE  FALSE
      OBVIOUS
    <3>1. e + 1 \in begin..(end - 1) /\ e # n
      BY <1>4
    <3> QED
      BY <2>1, <3>1
  <2>3. b = begin
    <3>1. CASE b < begin
      <4>1. begin - 1 \in b..e /\ begin # 1
        BY <1>4, <2>1, <3>1
      <4> QED
        BY <2>1, <4>1
    <3>2. CASE begin < b
      <4>1. b - 1 \in begin..(end - 1) /\ b # 1
        BY <2>1, <2>2, <3>2
      <4> QED
        BY <2>1, <4>1
    <3> QED
      BY <3>1, <3>2
  <2> QED
    BY <2>2, <2>3
<1>5. /\ \A k \in DOMAIN found :
           /\ found[k].length >= Reports!MinText
           /\ MaximalRun(bytes, found[k].offset + 1, found[k].offset + found[k].length)
           /\ found[k].offset + found[k].length < begin
      /\ \A b, e \in 1..n :
           MaximalRun(bytes, b, e) /\ e < begin /\ e - b + 1 >= Reports!MinText =>
             \E k \in DOMAIN found : found[k].offset = b - 1 /\ found[k].length = e - b + 1
      /\ \A j, k \in DOMAIN found : j < k => found[j].offset + found[j].length < found[k].offset
  BY DEF Found
<1>6. CASE ~(end - begin >= Reports!MinText)
  <2>1. Reports!PushText(found, begin, end) = found
    BY <1>6 DEF Reports!PushText
  <2>2. ASSUME NEW b \in 1..n, NEW e \in 1..n, MaximalRun(bytes, b, e), e < end, e - b + 1 >= Reports!MinText
        PROVE  e < begin
    BY <1>4, <1>6, <2>2 DEF Reports!MinText
  <2>3. \A k \in DOMAIN found : found[k].offset + found[k].length < end
    BY <1>3, <1>5
  <2> QED
    BY <1>2, <1>5, <2>1, <2>2, <2>3 DEF Found
<1>7. CASE end - begin >= Reports!MinText
  <2> DEFINE t == [offset |-> begin - 1, length |-> end - begin]
             longer == Append(found, t)
             m == Len(found)
  <2>1. Reports!PushText(found, begin, end) = longer
    BY <1>7 DEF Reports!PushText
  <2>2. t \in Texts /\ t.offset = begin - 1 /\ t.length = end - begin
    BY <1>7 DEF Texts
  <2> HIDE DEF t
  <2>3. /\ longer \in Seq(Texts) /\ DOMAIN longer = 1..(m + 1) /\ longer[m + 1] = t
        /\ \A k \in 1..m : longer[k] = found[k]
        /\ m \in Nat /\ DOMAIN found = 1..m
    BY <1>2, <2>2
  <2> HIDE DEF longer, m
  <2>4. ASSUME NEW k \in DOMAIN longer
        PROVE  /\ longer[k].length >= Reports!MinText
               /\ MaximalRun(bytes, longer[k].offset + 1, longer[k].offset + longer[k].length)
               /\ longer[k].offset + longer[k].length < end
    <3>1. CASE k \in 1..m
      <4>1. found[k].offset \in Nat /\ found[k].length \in Nat
        BY <1>3, <2>3, <3>1
      <4> QED
        BY <1>5, <2>3, <3>1, <4>1
    <3>2. CASE k = m + 1
      <4>1. (begin - 1) + 1 = begin /\ (begin - 1) + (end - begin) = end - 1
        OBVIOUS
      <4>2. longer[k] = t
        BY <2>3, <3>2
      <4>3. t.length >= Reports!MinText /\ t.offset + 1 = begin /\ t.offset + t.length = end - 1
        BY <1>7, <2>2, <4>1
      <4>4. end - 1 < end
        OBVIOUS
      <4> QED
        BY <1>1, <4>2, <4>3, <4>4
    <3> QED
      BY <2>3, <3>1, <3>2
  <2>5. ASSUME NEW b \in 1..n, NEW e \in 1..n, MaximalRun(bytes, b, e), e < end, e - b + 1 >= Reports!MinText
        PROVE  \E k \in DOMAIN longer : longer[k].offset = b - 1 /\ longer[k].length = e - b + 1
    <3>1. CASE e < begin
      <4>1. PICK k \in DOMAIN found : found[k].offset = b - 1 /\ found[k].length = e - b + 1
        BY <1>5, <2>5, <3>1
      <4>2. k \in DOMAIN longer /\ longer[k] = found[k]
        BY <2>3
      <4> QED
        BY <4>1, <4>2
    <3>2. CASE ~(e < begin)
      <4>1. b = begin /\ e = end - 1
        BY <1>4, <2>5, <3>2
      <4>2. m + 1 \in DOMAIN longer /\ longer[m + 1].offset = b - 1 /\ longer[m + 1].length = e - b + 1
        BY <2>2, <2>3, <4>1
      <4> QED
        BY <4>2
    <3> QED
      BY <3>1, <3>2
  <2>6. ASSUME NEW j \in DOMAIN longer, NEW k \in DOMAIN longer, j < k
        PROVE  longer[j].offset + longer[j].length < longer[k].offset
    <3>1. j \in 1..m /\ longer[j] = found[j] /\ j \in DOMAIN found
      BY <2>3, <2>6
    <3>2. CASE k \in 1..m
      BY <1>5, <2>3, <2>6, <3>1, <3>2
    <3>3. CASE k = m + 1
      <4>1. found[j].offset + found[j].length < begin
        BY <1>5, <3>1
      <4>2. found[j].offset \in Nat /\ found[j].length \in Nat /\ longer[k].offset = begin - 1
        BY <1>3, <2>2, <2>3, <3>1, <3>3
      <4>3. found[j].offset + found[j].length # begin - 1
        <5> SUFFICES ASSUME found[j].offset + found[j].length = begin - 1
                     PROVE  FALSE
          OBVIOUS
        <5>1. MaximalRun(bytes, found[j].offset + 1, begin - 1)
          BY <1>5, <3>1
        <5>2. begin - 1 # n /\ Reports!IsText(bytes[begin]) /\ (begin - 1) + 1 = begin /\ begin - 1 \in 1..n
          BY <5>1 DEF MaximalRun
        <5> QED
          BY <5>1, <5>2 DEF MaximalRun
      <4> QED
        BY <3>1, <4>1, <4>2, <4>3
    <3> QED
      BY <2>3, <3>2, <3>3
  <2> QED
    BY <2>1, <2>3, <2>4, <2>5, <2>6 DEF Found
<1> QED
  BY <1>6, <1>7

(* A byte keeps what holds of the scan.                                    *)
LEMMA ScanKeepsInvariant ==
  ASSUME NEW bytes, Len(bytes) \in Nat, NEW i \in 1..Len(bytes), NEW s, ScanInv(bytes, i - 1, s)
  PROVE  ScanInv(bytes, i, ScanByte(bytes, i, s))
<1> DEFINE next == ScanByte(bytes, i, s)
           n == Len(bytes)
<1>1. s \in ScanStates /\ s.begin \in Nat /\ s.found \in Seq(Texts)
  BY DEF ScanInv, ScanStates
<1>2. next \in ScanStates
  BY <1>1, ScanKeepsTypes
<1>3. CASE Reports!IsText(bytes[i]) /\ s.begin # 0
  <2>1. next.begin = s.begin /\ next.found = s.found
    BY <1>1, <1>3 DEF ScanByte, ScanStates
  <2>2. /\ s.begin <= i - 1 /\ \A k \in s.begin..(i - 1) : Reports!IsText(bytes[k])
        /\ s.begin = 1 \/ ~Reports!IsText(bytes[s.begin - 1])
        /\ Found(bytes, s.begin, s.found)
    BY <1>3 DEF ScanInv
  <2>3. s.begin <= i /\ \A k \in s.begin..i : Reports!IsText(bytes[k])
    BY <1>1, <1>3, <2>2
  <2> HIDE DEF next
  <2> QED
    BY <1>2, <1>3, <2>1, <2>2, <2>3 DEF ScanInv, next
<1>4. CASE Reports!IsText(bytes[i]) /\ s.begin = 0
  <2>1. next.begin = i /\ next.found = s.found
    BY <1>1, <1>4 DEF ScanByte, ScanStates
  <2>2. (i - 1 = 0 \/ ~Reports!IsText(bytes[i - 1])) /\ Found(bytes, i - 1, s.found)
    BY <1>4 DEF ScanInv
  <2>3. i = 1 \/ ~Reports!IsText(bytes[i - 1])
    BY <2>2
  <2>4. \A k \in i..i : Reports!IsText(bytes[k])
    BY <1>4
  <2>5. Found(bytes, i, s.found)
    <3>1. \A k \in DOMAIN s.found : s.found[k].offset \in Nat /\ s.found[k].length \in Nat
      <4>1. \A k \in DOMAIN s.found : s.found[k] \in Texts
        BY <1>1
      <4> QED
        BY <4>1 DEF Texts
    \* No run ends at i - 1, which is no character or before the bytes.
    <3>2. ASSUME NEW b \in 1..n, NEW e \in 1..n, MaximalRun(bytes, b, e), e < i
          PROVE  e < i - 1
      <4>1. Reports!IsText(bytes[e])
        BY <3>2 DEF MaximalRun
      <4> QED
        BY <2>3, <3>2, <4>1
    <3>3. \A k \in DOMAIN s.found :
            s.found[k].offset + s.found[k].length < i - 1 => s.found[k].offset + s.found[k].length < i
      BY <3>1
    <3> QED
      BY <2>2, <3>2, <3>3 DEF Found
  <2> HIDE DEF next
  <2> QED
    BY <1>2, <2>1, <2>3, <2>4, <2>5 DEF ScanInv, next
<1>5. CASE ~Reports!IsText(bytes[i]) /\ s.begin = 0
  <2>1. next = s
    BY <1>5 DEF ScanByte
  <2>2. Found(bytes, i - 1, s.found) /\ (i - 1 = 0 \/ ~Reports!IsText(bytes[i - 1]))
    BY <1>5 DEF ScanInv
  <2>5. Found(bytes, i, s.found)
    <3>1. \A k \in DOMAIN s.found : s.found[k].offset \in Nat /\ s.found[k].length \in Nat
      <4>1. \A k \in DOMAIN s.found : s.found[k] \in Texts
        BY <1>1
      <4> QED
        BY <4>1 DEF Texts
    <3>2. ASSUME NEW b \in 1..n, NEW e \in 1..n, MaximalRun(bytes, b, e), e < i
          PROVE  e < i - 1
      <4>1. Reports!IsText(bytes[e])
        BY <3>2 DEF MaximalRun
      <4> QED
        BY <2>2, <3>2, <4>1
    <3>3. \A k \in DOMAIN s.found :
            s.found[k].offset + s.found[k].length < i - 1 => s.found[k].offset + s.found[k].length < i
      BY <3>1
    <3> QED
      BY <2>2, <3>2, <3>3 DEF Found
  <2> HIDE DEF next
  <2> QED
    BY <1>1, <1>5, <2>1, <2>5 DEF ScanInv, next
<1>6. CASE ~Reports!IsText(bytes[i]) /\ s.begin # 0
  <2>1. next.begin = 0 /\ next.found = Reports!PushText(s.found, s.begin, i)
    BY <1>6 DEF ScanByte
  <2>2. /\ s.begin <= i - 1 /\ \A k \in s.begin..(i - 1) : Reports!IsText(bytes[k])
        /\ s.begin = 1 \/ ~Reports!IsText(bytes[s.begin - 1])
        /\ Found(bytes, s.begin, s.found)
    BY <1>6 DEF ScanInv
  <2>3. Found(bytes, i, Reports!PushText(s.found, s.begin, i))
    <3>1. s.begin \in Nat /\ i \in Nat /\ s.begin # 0 /\ s.begin < i /\ i <= n + 1
      BY <1>1, <1>6, <2>2
    <3> QED
      BY <1>6, <2>2, <3>1, PushFinds
  <2> HIDE DEF next
  <2> QED
    BY <1>2, <1>6, <2>1, <2>3 DEF ScanInv, next
<1> QED
  BY <1>3, <1>4, <1>5, <1>6

(* For any bytes: every run of characters of at least the least length is  *)
(* listed once, at its offset and as long as it is, also one that reaches  *)
(* the end of the bytes; nothing else is listed, and the list is in order  *)
(* of addresses (ascii_strings).                                           *)
THEOREM StringsAreAlwaysExact ==
  ASSUME NEW Byte, NEW bytes \in Seq(Byte)
  PROVE  LET found == Reports!AsciiStrings(bytes)
         IN /\ \A k \in DOMAIN found :
                 /\ found[k].length >= Reports!MinText
                 /\ MaximalRun(bytes, found[k].offset + 1, found[k].offset + found[k].length)
            /\ \A b, e \in 1..Len(bytes) :
                 MaximalRun(bytes, b, e) /\ e - b + 1 >= Reports!MinText =>
                   \E k \in DOMAIN found : found[k].offset = b - 1 /\ found[k].length = e - b + 1
            /\ \A j, k \in DOMAIN found : j < k => found[j].offset + found[j].length < found[k].offset
<1> DEFINE n == Len(bytes)
           after == CHOOSE f : Scanned(f, bytes)
           Bad == {d \in 0..n : ~ScanInv(bytes, d, after[d])}
           last == after[n]
<1>1. Reports!AsciiStrings(bytes) =
        IF last.begin = 0 THEN last.found ELSE Reports!PushText(last.found, last.begin, n + 1)
  BY Zenon DEF Reports!AsciiStrings, Scanned, ScanByte, ScanStart
<1>2. n \in Nat
  OBVIOUS
<1>3. Scanned(after, bytes)
  BY <1>2, ScanExists
<1> HIDE DEF after
<1>4. \A i \in 0..n : after[i] = IF i = 0 THEN ScanStart ELSE ScanByte(bytes, i, after[i - 1])
  BY <1>3, Zenon DEF Scanned
<1> HIDE DEF n
<1>5. ScanInv(bytes, 0, ScanStart)
  <2>1. ScanStart \in ScanStates
    BY DEF ScanStart, ScanStates
  <2>2. Found(bytes, 0, <<>>)
    <3>1. \A b, e \in 1..n : ~(e < 0)
      BY <1>2
    <3> QED
      BY <3>1 DEF Found, n
  <2> QED
    BY <2>1, <2>2 DEF ScanInv, ScanStart
<1>6. Bad = {}
  <2> SUFFICES ASSUME Bad # {}
               PROVE  FALSE
    OBVIOUS
  <2>1. Bad \subseteq Nat
    BY <1>2
  <2>2. PICK d \in Bad : \A e \in Bad : d <= e
    <3> HIDE DEF Bad
    <3> QED
      BY <2>1, LeastExists
  <2>3. d \in 0..n /\ ~ScanInv(bytes, d, after[d])
    OBVIOUS
  <2>4. d # 0
    BY <1>2, <1>4, <1>5, <2>3
  <2>5. d - 1 \in 0..n /\ d \in 1..n /\ ~(d <= d - 1)
    BY <1>2, <2>3, <2>4
  <2>6. ScanInv(bytes, d - 1, after[d - 1])
    BY <2>2, <2>5
  <2>7. ScanInv(bytes, d, ScanByte(bytes, d, after[d - 1]))
    BY <1>2, <2>5, <2>6, ScanKeepsInvariant DEF n
  <2> QED
    BY <1>4, <2>3, <2>4, <2>7
<1>7. ScanInv(bytes, n, last)
  BY <1>2, <1>6
<1> HIDE DEF last
<1>8. \A b, e \in 1..n : MaximalRun(bytes, b, e) => e < n + 1 /\ (last.begin = 0 => e < n)
  <2> SUFFICES ASSUME NEW b \in 1..n, NEW e \in 1..n, MaximalRun(bytes, b, e)
               PROVE  e < n + 1 /\ (last.begin = 0 => e < n)
    OBVIOUS
  <2>1. Reports!IsText(bytes[e])
    BY DEF MaximalRun
  <2>2. last.begin = 0 => n = 0 \/ ~Reports!IsText(bytes[n])
    BY <1>7 DEF ScanInv
  <2> QED
    BY <1>2, <2>1, <2>2
<1>9. CASE last.begin = 0
  <2>1. Reports!AsciiStrings(bytes) = last.found
    BY <1>1, <1>9
  <2>2. Found(bytes, n, last.found)
    BY <1>7, <1>9 DEF ScanInv
  <2> QED
    BY <1>8, <1>9, <2>1, <2>2 DEF Found, n
<1>10. CASE last.begin # 0
  <2>1. Reports!AsciiStrings(bytes) = Reports!PushText(last.found, last.begin, n + 1)
    BY <1>1, <1>10
  <2>2. /\ last.begin \in Nat /\ last.begin <= n
        /\ \A k \in last.begin..n : Reports!IsText(bytes[k])
        /\ last.begin = 1 \/ ~Reports!IsText(bytes[last.begin - 1])
        /\ Found(bytes, last.begin, last.found)
    BY <1>7, <1>10 DEF ScanInv, ScanStates
  <2>3. /\ n + 1 \in Nat /\ last.begin < n + 1 /\ n + 1 <= n + 1 /\ (n + 1) - 1 = n
    BY <1>2, <2>2
  <2>4. Found(bytes, n + 1, Reports!PushText(last.found, last.begin, n + 1))
    BY <1>2, <1>10, <2>2, <2>3, PushFinds DEF n
  <2> QED
    BY <1>8, <2>1, <2>4 DEF Found, n
<1> QED
  BY <1>9, <1>10

-----------------------------------------------------------------------------
(* Two runs compared.                                                      *)

(* The front of a sequence, as a function.                                 *)
LEMMA FrontOf ==
  ASSUME NEW T, NEW n \in Nat, NEW f \in [1..n -> T], NEW k \in 0..n
  PROVE  SubSeq(f, 1, k) = [i \in 1..k |-> f[i]]
<1>1. f \in Seq(T) /\ Len(f) = n
  OBVIOUS
<1>2. SubSeq(f, 1, k) \in Seq(T) /\ Len(SubSeq(f, 1, k)) = k /\ \A i \in 1..k : SubSeq(f, 1, k)[i] = f[i]
  BY <1>1
<1> QED
  BY <1>2

\* The tokens of a run, as far as the limit goes.
TokensOf(run, limit) ==
  LET kept == SubSeq(run, 1, Profiles!Reports!Smaller(Len(run), limit))
  IN [k \in DOMAIN kept |-> Profiles!Token(kept[k])]

(* The tokens of a run are those of its first events, at most `limit`.     *)
LEMMA TokensAreOfEvents ==
  ASSUME NEW Event, NEW run \in Seq(Event), NEW limit \in Nat
  PROVE  LET n == Len(TokensOf(run, limit))
         IN /\ n \in Nat /\ n <= limit /\ n <= Len(run)
            /\ Len(run) <= limit => n = Len(run)
            /\ limit <= Len(run) => n = limit
            /\ TokensOf(run, limit) = [k \in 1..n |-> Profiles!Token(run[k])]
<1> DEFINE n == Profiles!Reports!Smaller(Len(run), limit)
           kept == SubSeq(run, 1, n)
<1>1. /\ n \in Nat /\ n <= limit /\ n <= Len(run)
      /\ Len(run) <= limit => n = Len(run)
      /\ limit <= Len(run) => n = limit
  BY DEF Profiles!Reports!Smaller
<1> HIDE DEF n
<1>2. kept \in Seq(Event) /\ Len(kept) = n /\ \A k \in 1..n : kept[k] = run[k]
  BY <1>1
<1>3. TokensOf(run, limit) = [k \in DOMAIN kept |-> Profiles!Token(kept[k])]
  BY DEF TokensOf, n
<1> HIDE DEF kept
<1>4. TokensOf(run, limit) = [k \in 1..n |-> Profiles!Token(run[k])]
  BY <1>2, <1>3
<1>5. Len(TokensOf(run, limit)) = n
  BY <1>1, <1>4
<1> QED
  BY <1>1, <1>4, <1>5

\* At i both runs have the same event, or neither has one.
SameAt(a, b, i) ==
  /\ i \in DOMAIN a <=> i \in DOMAIN b
  /\ i \in DOMAIN a /\ i \in DOMAIN b => Profiles!Token(a[i]) = Profiles!Token(b[i])

(* For any two runs and any limit: they share a prefix exactly when no     *)
(* event within the limit tells them apart; what is reported as shared is  *)
(* the same in both, and the first event reported as different is          *)
(* (startup_profile_compare_run_sequence).                                 *)
THEOREM ComparisonsAlwaysFair ==
  ASSUME NEW Event, NEW a \in Seq(Event), NEW b \in Seq(Event), NEW limit \in Nat
  PROVE  LET compared == Profiles!CompareRuns(a, b, limit)
         IN /\ compared.status = "shared_prefix_within_limit" <=> \A i \in 1..limit : SameAt(a, b, i)
            /\ compared.shared \in 0..limit
            /\ \A i \in 1..compared.shared : SameAt(a, b, i)
            /\ compared.divergence # 0 =>
                 compared.divergence = compared.shared + 1 /\ ~SameAt(a, b, compared.divergence)
<1> DEFINE s == TokensOf(a, limit)
           t == TokensOf(b, limit)
           n == Len(s)
           m == Len(t)
           least == Profiles!Reports!Smaller(n, m)
           agreed == {k \in 0..least : SubSeq(s, 1, k) = SubSeq(t, 1, k)}
           shared == Profiles!Max(agreed)
           compared == Profiles!CompareRuns(a, b, limit)
<1>1. /\ n \in Nat /\ n <= limit /\ n <= Len(a) /\ Len(a) \in Nat
      /\ Len(a) <= limit => n = Len(a)
      /\ limit <= Len(a) => n = limit
      /\ s = [k \in 1..n |-> Profiles!Token(a[k])]
  BY TokensAreOfEvents
<1>2. /\ m \in Nat /\ m <= limit /\ m <= Len(b) /\ Len(b) \in Nat
      /\ Len(b) <= limit => m = Len(b)
      /\ limit <= Len(b) => m = limit
      /\ t = [k \in 1..m |-> Profiles!Token(b[k])]
  BY TokensAreOfEvents
<1>3. /\ compared.status = IF Profiles!Diverged(s, t, shared) THEN "diverged" ELSE "shared_prefix_within_limit"
      /\ compared.shared = shared
      /\ compared.divergence = IF shared < n /\ shared < m THEN shared + 1 ELSE 0
  BY DEF Profiles!CompareRuns, TokensOf
<1>4. Profiles!Diverged(s, t, shared) <=> (shared < n /\ shared < m) \/ n # m
  BY DEF Profiles!Diverged
<1>5. least \in Nat /\ least <= n /\ least <= m /\ (least = n \/ least = m)
  <2> HIDE DEF n, m
  <2> QED
    BY <1>1, <1>2 DEF Profiles!Reports!Smaller
<1> HIDE DEF compared
<1> HIDE DEF n, m, least
<1>6. s \in [1..n -> {Profiles!Token(a[k]) : k \in 1..n}] /\ t \in [1..m -> {Profiles!Token(b[k]) : k \in 1..m}]
  <2> HIDE DEF s, t
  <2> QED
    BY <1>1, <1>2
<1>7. ASSUME NEW k \in 0..least
      PROVE  k \in agreed <=> \A i \in 1..k : s[i] = t[i]
  <2> HIDE DEF s, t
  <2>1. k \in 0..n /\ k \in 0..m
    BY <1>1, <1>2, <1>5
  <2>2. SubSeq(s, 1, k) = [i \in 1..k |-> s[i]]
    BY <1>1, <1>6, <2>1, FrontOf
  <2>3. SubSeq(t, 1, k) = [i \in 1..k |-> t[i]]
    BY <1>2, <1>6, <2>1, FrontOf
  <2>4. [i \in 1..k |-> s[i]] = [i \in 1..k |-> t[i]] <=> \A i \in 1..k : s[i] = t[i]
    OBVIOUS
  <2> QED
    BY <2>2, <2>3, <2>4
<1>8. agreed \subseteq 0..least /\ 0 \in agreed
  <2>1. \A i \in 1..0 : s[i] = t[i]
    OBVIOUS
  <2>2. 0 \in 0..least
    BY <1>5
  <2>3. 0 \in agreed
    BY <1>7, <2>1, <2>2
  <2> QED
    BY <2>3
<1> HIDE DEF agreed
<1>9. shared \in agreed /\ \A k \in agreed : k <= shared
  <2>1. agreed # {}
    BY <1>8
  <2>2. \E k \in agreed : \A l \in agreed : l <= k
    BY <1>5, <1>8, <2>1, GreatestExists
  <2> QED
    BY <2>2 DEF Profiles!Max
<1> HIDE DEF shared
<1>10. /\ shared \in Nat /\ shared <= least /\ \A i \in 1..shared : s[i] = t[i]
       /\ shared < least => s[shared + 1] # t[shared + 1]
  <2>1. shared \in 0..least /\ \A i \in 1..shared : s[i] = t[i]
    BY <1>7, <1>8, <1>9
  <2>2. ASSUME shared < least, s[shared + 1] = t[shared + 1]
        PROVE  FALSE
    <3>1. shared + 1 \in 0..least /\ ~(shared + 1 <= shared)
      BY <1>5, <2>1, <2>2
    <3>2. \A i \in 1..(shared + 1) : s[i] = t[i]
      BY <1>5, <2>1, <2>2
    <3> QED
      BY <1>7, <1>9, <3>1, <3>2
  <2> QED
    BY <2>1, <2>2
<1> HIDE DEF s, t
<1>11. ASSUME NEW i \in 1..limit
       PROVE  /\ i \in DOMAIN a <=> i <= n
              /\ i \in DOMAIN b <=> i <= m
              /\ i <= n => s[i] = Profiles!Token(a[i])
              /\ i <= m => t[i] = Profiles!Token(b[i])
  BY <1>1, <1>2
<1>12. \A i \in 1..limit : SameAt(a, b, i) <=> (i <= n <=> i <= m) /\ (i <= n /\ i <= m => s[i] = t[i])
  BY <1>11 DEF SameAt
<1>13. \A i \in 1..shared : i \in 1..limit /\ SameAt(a, b, i)
  <2> SUFFICES ASSUME NEW i \in 1..shared
               PROVE  i \in 1..limit /\ SameAt(a, b, i)
    OBVIOUS
  <2>1. i \in 1..limit /\ i <= n /\ i <= m
    BY <1>1, <1>2, <1>5, <1>10
  <2> QED
    BY <1>10, <1>12, <2>1
<1>14. shared < n /\ shared < m => shared + 1 \in 1..limit /\ ~SameAt(a, b, shared + 1)
  <2> SUFFICES ASSUME shared < n, shared < m
               PROVE  shared + 1 \in 1..limit /\ ~SameAt(a, b, shared + 1)
    OBVIOUS
  <2>1. shared < least /\ shared + 1 \in 1..limit /\ shared + 1 <= n /\ shared + 1 <= m
    BY <1>1, <1>2, <1>5, <1>10
  <2> QED
    BY <1>10, <1>12, <2>1
<1>15. ~(shared < n /\ shared < m) /\ n # m => ~(\A i \in 1..limit : SameAt(a, b, i))
  <2> SUFFICES ASSUME n # m, \A i \in 1..limit : SameAt(a, b, i)
               PROVE  FALSE
    OBVIOUS
  <2>1. CASE n < m
    <3>1. n + 1 \in 1..limit /\ ~(n + 1 <= n) /\ n + 1 <= m
      BY <1>1, <1>2, <2>1
    <3> QED
      BY <1>12, <3>1
  <2>2. CASE m < n
    <3>1. m + 1 \in 1..limit /\ ~(m + 1 <= m) /\ m + 1 <= n
      BY <1>1, <1>2, <2>2
    <3> QED
      BY <1>12, <3>1
  <2> QED
    BY <1>1, <1>2, <2>1, <2>2
<1>16. ~(shared < n /\ shared < m) /\ n = m => \A i \in 1..limit : SameAt(a, b, i)
  <2> SUFFICES ASSUME ~(shared < n /\ shared < m), n = m, NEW i \in 1..limit
               PROVE  SameAt(a, b, i)
    OBVIOUS
  <2>1. shared = n
    BY <1>1, <1>2, <1>5, <1>10
  <2>2. i <= n => i \in 1..shared
    BY <2>1
  <2> QED
    BY <1>10, <1>12, <2>2
<1>17. compared.status = "shared_prefix_within_limit" <=> \A i \in 1..limit : SameAt(a, b, i)
  BY <1>3, <1>4, <1>14, <1>15, <1>16
<1>18. shared \in 0..limit /\ shared # -1
  BY <1>1, <1>5, <1>10
<1>19. compared.divergence # 0 => compared.divergence = shared + 1 /\ ~SameAt(a, b, shared + 1)
  BY <1>3, <1>14
<1> QED
  BY <1>3, <1>13, <1>17, <1>18, <1>19 DEF compared

-----------------------------------------------------------------------------
(* The counters of the threads.                                            *)

\* The functions of some of the ids.
OfSome(Ids, T) == UNION {[D -> T] : D \in SUBSET Ids}

Statuses == {"not_requested", "not_selected", "limit_reached", "taken"}
PriorOf(Ids, Counters) == OfSome(Ids, [event : Nat, times : Counters])
DeltasOf(Ids, Counters) ==
  OfSome(Ids, {[since |-> i, delta |-> Profiles!TimeDelta(x, y)] : i \in Nat, x \in Counters, y \in Counters})
AnswersWith(Ids, Counters) == [status : Statuses, deltas : DeltasOf(Ids, Counters)]
Accounts(Ids, Counters) ==
  [taken : Nat, prior : PriorOf(Ids, Counters), answers : Seq(AnswersWith(Ids, Counters))]
AccountStart == [taken |-> 0, prior |-> <<>>, answers |-> <<>>]

\* What is asked of the stops of a run: which of them, and how many.
Asked(stops, requested, chosen, limit, i, s) ==
  Profiles!Capture(requested, stops[i].kind \in Profiles!AccountingKinds(chosen), s.taken, limit)
ThreadsSeen(stops, status, i) ==
  IF status = "taken" /\ ~stops[i].fails THEN stops[i].threads ELSE <<>>
DeltasSince(s, threads) ==
  [t \in DOMAIN threads \cap DOMAIN s.prior |->
     [since |-> s.prior[t].event, delta |-> Profiles!TimeDelta(s.prior[t].times, threads[t])]]
LastSeen(s, threads, i) ==
  [t \in DOMAIN threads \cup DOMAIN s.prior |->
     IF t \in DOMAIN threads THEN [event |-> i, times |-> threads[t]] ELSE s.prior[t]]

NextStop(stops, requested, chosen, limit, i, s) ==
  LET status == Asked(stops, requested, chosen, limit, i, s)
      threads == ThreadsSeen(stops, status, i)
  IN [taken |-> s.taken + (IF status = "taken" THEN 1 ELSE 0),
      prior |-> LastSeen(s, threads, i),
      answers |-> Append(s.answers, [status |-> status, deltas |-> DeltasSince(s, threads)])]

Accounted(after, stops, requested, chosen, limit) ==
  after = [i \in 0..Len(stops) |->
             IF i = 0 THEN AccountStart ELSE NextStop(stops, requested, chosen, limit, i, after[i - 1])]

\* Each stop has counters of some threads, where the query did not fail.
StopsWith(stops, Ids, Counters) ==
  /\ Len(stops) \in Nat
  /\ \A i \in 1..Len(stops) : stops[i].threads \in OfSome(Ids, Counters)

(* What a function of some of the ids is.                                  *)
LEMMA OfSomeIsFunction ==
  ASSUME NEW Ids, NEW T, NEW f \in OfSome(Ids, T)
  PROVE  DOMAIN f \subseteq Ids /\ f = [x \in DOMAIN f |-> f[x]] /\ \A x \in DOMAIN f : f[x] \in T
BY DEF OfSome

(* A function of a subset of the ids is one of some of them.               *)
LEMMA FunctionIsOfSome ==
  ASSUME NEW Ids, NEW T, NEW D \in SUBSET Ids, NEW f \in [D -> T]
  PROVE  f \in OfSome(Ids, T)
BY DEF OfSome

(* So is the empty function.                                               *)
LEMMA NothingIsOfSome ==
  ASSUME NEW Ids, NEW T
  PROVE  <<>> \in OfSome(Ids, T) /\ DOMAIN <<>> = {}
<1>1. <<>> \in Seq(T) /\ Len(<<>>) = 0
  OBVIOUS
<1>2. <<>> \in [1..0 -> T]
  BY <1>1
<1>3. 1..0 = {}
  OBVIOUS
<1>4. <<>> \in [{} -> T]
  BY <1>2, <1>3
<1>5. {} \in SUBSET Ids
  OBVIOUS
<1> QED
  BY <1>4, <1>5, FunctionIsOfSome

\* What is seen of the threads at a stop.
LEMMA SeenAtStop ==
  ASSUME NEW Ids, NEW Counters, NEW stops, StopsWith(stops, Ids, Counters), NEW i \in 1..Len(stops), NEW status
  PROVE  /\ ThreadsSeen(stops, status, i) \in OfSome(Ids, Counters)
         /\ DOMAIN ThreadsSeen(stops, status, i) \subseteq Ids
         /\ \A t \in DOMAIN ThreadsSeen(stops, status, i) : ThreadsSeen(stops, status, i)[t] \in Counters
<1>1. ThreadsSeen(stops, status, i) \in OfSome(Ids, Counters)
  BY NothingIsOfSome DEF ThreadsSeen, StopsWith
<1> QED
  BY <1>1, OfSomeIsFunction

(* When counters are taken, and when a stop is passed over for the limit.  *)
LEMMA StatusIsOne ==
  ASSUME NEW requested \in BOOLEAN, NEW selected \in BOOLEAN, NEW taken, NEW limit
  PROVE  /\ Profiles!Capture(requested, selected, taken, limit) \in Statuses
         /\ Profiles!Capture(requested, selected, taken, limit) = "taken" <=>
              requested /\ selected /\ ~(taken >= limit)
         /\ Profiles!Capture(requested, selected, taken, limit) = "limit_reached" <=>
              requested /\ selected /\ taken >= limit
BY DEF Profiles!Capture, Statuses

(* A thread that was read now is remembered with this stop, others stay.   *)
LEMMA LastSeenIs ==
  ASSUME NEW Ids, NEW Counters, NEW s \in Accounts(Ids, Counters), NEW threads \in OfSome(Ids, Counters), NEW i \in Nat
  PROVE  /\ LastSeen(s, threads, i) \in PriorOf(Ids, Counters)
         /\ DOMAIN LastSeen(s, threads, i) = DOMAIN threads \cup DOMAIN s.prior
         /\ \A t \in DOMAIN threads : LastSeen(s, threads, i)[t] = [event |-> i, times |-> threads[t]]
         /\ \A t \in DOMAIN s.prior \ DOMAIN threads : LastSeen(s, threads, i)[t] = s.prior[t]
<1> DEFINE new == [t \in DOMAIN threads |-> [event |-> i, times |-> threads[t]]]
           all == DOMAIN threads \cup DOMAIN s.prior
           T == [event : Nat, times : Counters]
<1>1. LastSeen(s, threads, i) = [t \in all |-> IF t \in DOMAIN threads THEN new[t] ELSE s.prior[t]]
  BY DEF LastSeen
<1>2. DOMAIN threads \subseteq Ids /\ \A t \in DOMAIN threads : threads[t] \in Counters
  BY OfSomeIsFunction
<1>3. s.prior \in OfSome(Ids, T)
  BY DEF Accounts, PriorOf
<1>4. DOMAIN s.prior \subseteq Ids /\ \A t \in DOMAIN s.prior : s.prior[t] \in T
  <2> HIDE DEF T
  <2> QED
    BY <1>3, OfSomeIsFunction
<1>5. \A t \in DOMAIN threads : new[t] = [event |-> i, times |-> threads[t]] /\ new[t] \in T
  BY <1>2
<1> HIDE DEF new, T
<1>6. LastSeen(s, threads, i) \in [all -> T] /\ all \in SUBSET Ids
  BY <1>1, <1>2, <1>4, <1>5
<1>7. LastSeen(s, threads, i) \in PriorOf(Ids, Counters)
  <2>1. LastSeen(s, threads, i) \in OfSome(Ids, T)
    <3> HIDE DEF all
    <3> QED
      BY <1>6, FunctionIsOfSome
  <2> QED
    BY <2>1 DEF PriorOf, T
<1> QED
  BY <1>1, <1>5, <1>7

(* The differences are of threads that were read before.                   *)
LEMMA DeltasSinceAre ==
  ASSUME NEW Ids, NEW Counters, NEW s \in Accounts(Ids, Counters), NEW threads \in OfSome(Ids, Counters)
  PROVE  DeltasSince(s, threads) \in DeltasOf(Ids, Counters)
<1> DEFINE both == DOMAIN threads \cap DOMAIN s.prior
           R == {[since |-> j, delta |-> Profiles!TimeDelta(x, y)] : j \in Nat, x \in Counters, y \in Counters}
           T == [event : Nat, times : Counters]
<1>2. DOMAIN threads \subseteq Ids /\ \A t \in DOMAIN threads : threads[t] \in Counters
  BY OfSomeIsFunction
<1>3. s.prior \in OfSome(Ids, T)
  BY DEF Accounts, PriorOf
<1>4. \A t \in DOMAIN s.prior : s.prior[t] \in T
  <2> HIDE DEF T
  <2> QED
    BY <1>3, OfSomeIsFunction
<1>5. ASSUME NEW t \in both
      PROVE  [since |-> s.prior[t].event, delta |-> Profiles!TimeDelta(s.prior[t].times, threads[t])] \in R
  <2>1. s.prior[t].event \in Nat /\ s.prior[t].times \in Counters /\ threads[t] \in Counters
    BY <1>2, <1>4
  <2> QED
    BY <2>1
<1>6. DeltasSince(s, threads) \in [both -> R] /\ both \in SUBSET Ids
  <2> HIDE DEF R
  <2> QED
    BY <1>2, <1>5 DEF DeltasSince
<1>7. DeltasSince(s, threads) \in OfSome(Ids, R)
  <2> HIDE DEF R, both
  <2> QED
    BY <1>6, FunctionIsOfSome
<1> QED
  BY <1>7 DEF DeltasOf

(* A stop leads from one state of the accounts to another.                 *)
LEMMA NextStopKeepsTypes ==
  ASSUME NEW Ids, NEW Counters, NEW stops, StopsWith(stops, Ids, Counters), NEW i \in 1..Len(stops),
         NEW requested \in BOOLEAN, NEW chosen, NEW limit \in Nat, NEW s \in Accounts(Ids, Counters)
  PROVE  NextStop(stops, requested, chosen, limit, i, s) \in Accounts(Ids, Counters)
<1> DEFINE status == Asked(stops, requested, chosen, limit, i, s)
           threads == ThreadsSeen(stops, status, i)
           answer == [status |-> status, deltas |-> DeltasSince(s, threads)]
<1>1. status \in Statuses
  <2> DEFINE selected == stops[i].kind \in Profiles!AccountingKinds(chosen)
  <2>1. selected \in BOOLEAN
    OBVIOUS
  <2>2. status = Profiles!Capture(requested, selected, s.taken, limit)
    BY DEF Asked
  <2> HIDE DEF selected
  <2> QED
    BY <2>1, <2>2, StatusIsOne
<1> HIDE DEF status
<1>2. threads \in OfSome(Ids, Counters) /\ i \in Nat
  BY SeenAtStop DEF StopsWith
<1> HIDE DEF threads
<1>3. answer \in AnswersWith(Ids, Counters)
  BY <1>1, <1>2, DeltasSinceAre DEF AnswersWith
<1>4. LastSeen(s, threads, i) \in PriorOf(Ids, Counters)
  BY <1>2, LastSeenIs
<1>5. s.taken \in Nat /\ s.answers \in Seq(AnswersWith(Ids, Counters))
  BY DEF Accounts
<1> HIDE DEF answer
<1>6. Append(s.answers, answer) \in Seq(AnswersWith(Ids, Counters))
  BY <1>3, <1>5
<1>7. NextStop(stops, requested, chosen, limit, i, s)
        = [taken |-> s.taken + (IF status = "taken" THEN 1 ELSE 0), prior |-> LastSeen(s, threads, i),
           answers |-> Append(s.answers, answer)]
  BY DEF NextStop, status, threads, answer
<1>8. s.taken + (IF status = "taken" THEN 1 ELSE 0) \in Nat
  BY <1>5
<1> QED
  BY <1>4, <1>6, <1>7, <1>8 DEF Accounts

(* The recursive function of Accounting exists.                            *)
LEMMA AccountExists ==
  ASSUME NEW Ids, NEW Counters, NEW stops, StopsWith(stops, Ids, Counters),
         NEW requested \in BOOLEAN, NEW chosen, NEW limit \in Nat
  PROVE  \E after : Accounted(after, stops, requested, chosen, limit)
<1> DEFINE n == Len(stops)
           S == Accounts(Ids, Counters)
           onward == [i \in 1..n |-> [s \in S |-> NextStop(stops, requested, chosen, limit, i, s)]]
<1>1. AccountStart \in S
  <2>1. <<>> \in PriorOf(Ids, Counters)
    BY NothingIsOfSome DEF PriorOf
  <2>2. <<>> \in Seq(AnswersWith(Ids, Counters))
    OBVIOUS
  <2> QED
    BY <2>1, <2>2 DEF AccountStart, Accounts
<1>2. onward \in [1..n -> [S -> S]]
  BY NextStopKeepsTypes
<1>3. \A i \in 1..n : \A s \in S : onward[i][s] = NextStop(stops, requested, chosen, limit, i, s)
  OBVIOUS
<1>7. n \in Nat
  BY DEF StopsWith
<1> HIDE DEF onward, n, S
<1>8. Passes(n, S, AccountStart, onward) # {}
  BY <1>1, <1>2, <1>7, PassesExist
<1>4. PICK after \in [0..n -> S] :
        after[0] = AccountStart /\ \A m \in 1..n : after[m] = onward[m][after[m - 1]]
  BY <1>8 DEF Passes
<1>5. ASSUME NEW i \in 0..n
      PROVE  after[i] = IF i = 0 THEN AccountStart ELSE NextStop(stops, requested, chosen, limit, i, after[i - 1])
  <2>1. CASE i = 0
    BY <1>4, <2>1
  <2>2. CASE i # 0
    <3>1. i \in 1..n /\ i - 1 \in 0..n
      BY <1>7, <2>2
    <3>2. after[i - 1] \in S
      BY <1>4, <3>1
    <3> QED
      BY <1>3, <1>4, <2>2, <3>1, <3>2
  <2> QED
    BY <2>1, <2>2
<1>6. Accounted(after, stops, requested, chosen, limit)
  <2>1. after = [i \in 0..n |-> after[i]]
    BY <1>4
  <2> QED
    BY <1>5, <2>1, Zenon DEF Accounted, n
<1> QED
  BY <1>6

\* The stops up to n whose counters of a thread were read.
Had(stops, answers, t, n) ==
  {k \in 1..n : answers[k].status = "taken" /\ ~stops[k].fails /\ t \in DOMAIN stops[k].threads}

TakenUpTo(answers, n) == {k \in 1..n : answers[k].status = "taken"}

\* The last of some stops.
IsLast(k, S) == k \in S /\ \A l \in S : l <= k

\* What an answer says that is right.
AnswerRight(stops, requested, chosen, limit, answers, k) ==
  /\ answers[k].status \in {"taken", "limit_reached"} <=> requested /\ stops[k].kind \in Profiles!AccountingKinds(chosen)
  /\ answers[k].status = "limit_reached" => Cardinality(TakenUpTo(answers, k - 1)) = limit
  /\ \A t \in DOMAIN answers[k].deltas :
       LET d == answers[k].deltas[t]
       IN /\ k \in Had(stops, answers, t, k) /\ IsLast(d.since, Had(stops, answers, t, k - 1))
          /\ d.delta = Profiles!TimeDelta(stops[d.since].threads[t], stops[k].threads[t])
  /\ \A t : k \in Had(stops, answers, t, k) /\ Had(stops, answers, t, k - 1) # {} => t \in DOMAIN answers[k].deltas

\* After i stops.
AccountInv(stops, Ids, Counters, requested, chosen, limit, i, s) ==
  /\ s \in Accounts(Ids, Counters) /\ Len(s.answers) = i
  /\ s.taken = Cardinality(TakenUpTo(s.answers, i)) /\ s.taken <= limit
  /\ \A t \in DOMAIN s.prior :
       /\ IsLast(s.prior[t].event, Had(stops, s.answers, t, i))
       /\ s.prior[t].times = stops[s.prior[t].event].threads[t]
  /\ \A t : Had(stops, s.answers, t, i) # {} => t \in DOMAIN s.prior
  /\ \A k \in 1..i : AnswerRight(stops, requested, chosen, limit, s.answers, k)

\* Answers that agree up to n say the same up to there.
Agree(before, after, n) == \A k \in 1..n : before[k] = after[k]

(* Answers that agree up to n count the same stops up to there.            *)
LEMMA SameUpTo ==
  ASSUME NEW n \in Nat, NEW before, NEW after, Agree(before, after, n), NEW m \in 0..n
  PROVE  /\ TakenUpTo(before, m) = TakenUpTo(after, m)
         /\ \A stops, t : Had(stops, before, t, m) = Had(stops, after, t, m)
<1>1. \A k \in 1..m : before[k] = after[k]
  BY DEF Agree
<1>2. TakenUpTo(before, m) = TakenUpTo(after, m)
  BY <1>1 DEF TakenUpTo
<1>3. \A stops, t : Had(stops, before, t, m) = Had(stops, after, t, m)
  BY <1>1 DEF Had
<1> QED
  BY <1>2, <1>3

(* What was right of an answer stays so when others follow.                *)
LEMMA RightStaysRight ==
  ASSUME NEW n \in Nat, NEW before, NEW after, Agree(before, after, n), NEW k \in 1..n,
         NEW stops, NEW requested, NEW chosen, NEW limit,
         AnswerRight(stops, requested, chosen, limit, before, k)
  PROVE  AnswerRight(stops, requested, chosen, limit, after, k)
<1>1. before[k] = after[k] /\ k \in 0..n /\ k - 1 \in 0..n
  BY DEF Agree
<1>2. /\ TakenUpTo(before, k - 1) = TakenUpTo(after, k - 1)
      /\ \A t : Had(stops, before, t, k) = Had(stops, after, t, k)
      /\ \A t : Had(stops, before, t, k - 1) = Had(stops, after, t, k - 1)
  BY <1>1, SameUpTo
<1> QED
  BY <1>1, <1>2, Zenon DEF AnswerRight

(* The stops whose counters were taken, with one more of them.             *)
LEMMA TakenGrows ==
  ASSUME NEW answers, NEW n \in Nat
  PROVE  /\ IsFiniteSet(TakenUpTo(answers, n)) /\ Cardinality(TakenUpTo(answers, n)) \in Nat
         /\ Cardinality(TakenUpTo(answers, n + 1))
              = Cardinality(TakenUpTo(answers, n)) + (IF answers[n + 1].status = "taken" THEN 1 ELSE 0)
<1>1. IsFiniteSet(TakenUpTo(answers, n))
  <2>1. IsFiniteSet(1..n) /\ TakenUpTo(answers, n) \subseteq 1..n
    BY FS_Interval DEF TakenUpTo
  <2> QED
    BY <2>1, FS_Subset
<1>2. Cardinality(TakenUpTo(answers, n)) \in Nat
  BY <1>1, FS_CardinalityType
<1>3. CASE answers[n + 1].status = "taken"
  <2>1. TakenUpTo(answers, n + 1) = TakenUpTo(answers, n) \cup {n + 1} /\ n + 1 \notin TakenUpTo(answers, n)
    BY <1>3 DEF TakenUpTo
  <2> QED
    BY <1>1, <1>2, <1>3, <2>1, FS_AddElement
<1>4. CASE answers[n + 1].status # "taken"
  <2>1. TakenUpTo(answers, n + 1) = TakenUpTo(answers, n)
    BY <1>4 DEF TakenUpTo
  <2> QED
    BY <1>1, <1>2, <1>4, <2>1
<1> QED
  BY <1>1, <1>2, <1>3, <1>4

(* A stop keeps what holds of the accounts.                                *)
LEMMA NextStopKeepsInvariant ==
  ASSUME NEW Ids, NEW Counters, NEW stops, StopsWith(stops, Ids, Counters), NEW n \in Nat, n + 1 \in 1..Len(stops),
         NEW requested \in BOOLEAN, NEW chosen, NEW limit \in Nat,
         NEW s, AccountInv(stops, Ids, Counters, requested, chosen, limit, n, s)
  PROVE  AccountInv(stops, Ids, Counters, requested, chosen, limit, n + 1,
                    NextStop(stops, requested, chosen, limit, n + 1, s))
<1> DEFINE i == n + 1
           next == NextStop(stops, requested, chosen, limit, i, s)
           selected == stops[i].kind \in Profiles!AccountingKinds(chosen)
           status == Asked(stops, requested, chosen, limit, i, s)
           threads == ThreadsSeen(stops, status, i)
           deltas == DeltasSince(s, threads)
           answer == [status |-> status, deltas |-> deltas]
           longer == Append(s.answers, answer)
<1>1. /\ s \in Accounts(Ids, Counters) /\ s.taken \in Nat /\ s.answers \in Seq(AnswersWith(Ids, Counters))
      /\ Len(s.answers) = n /\ s.taken = Cardinality(TakenUpTo(s.answers, n)) /\ s.taken <= limit
  BY DEF AccountInv, Accounts
<1>2. next \in Accounts(Ids, Counters)
  BY <1>1, NextStopKeepsTypes
<1>3. /\ status \in Statuses
      /\ status = "taken" <=> requested /\ selected /\ ~(s.taken >= limit)
      /\ status = "limit_reached" <=> requested /\ selected /\ s.taken >= limit
  <2>1. selected \in BOOLEAN
    OBVIOUS
  <2>2. status = Profiles!Capture(requested, selected, s.taken, limit)
    BY DEF Asked
  <2> HIDE DEF selected, status
  <2> QED
    BY <2>1, <2>2, StatusIsOne
<1>4. /\ next.taken = s.taken + (IF status = "taken" THEN 1 ELSE 0)
      /\ next.prior = LastSeen(s, threads, i)
      /\ next.answers = longer
  BY DEF NextStop
<1>20. threads = ThreadsSeen(stops, status, i) /\ deltas = DeltasSince(s, threads)
  OBVIOUS
<1> HIDE DEF status, next
<1>5. threads \in OfSome(Ids, Counters)
  BY SeenAtStop
<1>6. /\ status = "taken" /\ ~stops[i].fails => threads = stops[i].threads
      /\ ~(status = "taken" /\ ~stops[i].fails) => DOMAIN threads = {}
  BY NothingIsOfSome DEF ThreadsSeen
<1> HIDE DEF threads
<1>7. answer \in AnswersWith(Ids, Counters) /\ answer.status = status /\ answer.deltas = deltas
  BY <1>1, <1>3, <1>5, DeltasSinceAre DEF AnswersWith
<1>8. /\ DOMAIN deltas = DOMAIN threads \cap DOMAIN s.prior
      /\ \A t \in DOMAIN deltas : /\ deltas[t].since = s.prior[t].event
                                  /\ deltas[t].delta = Profiles!TimeDelta(s.prior[t].times, threads[t])
  BY DEF DeltasSince
<1> HIDE DEF answer, deltas, selected
<1>9. /\ longer \in Seq(AnswersWith(Ids, Counters)) /\ Len(longer) = n + 1 /\ longer[n + 1] = answer
      /\ Agree(s.answers, longer, n)
  BY <1>1, <1>7 DEF Agree
<1> HIDE DEF longer
<1>10. n \in 0..n /\ i \in Nat /\ i - 1 = n
  OBVIOUS
<1>11. /\ TakenUpTo(s.answers, n) = TakenUpTo(longer, n)
       /\ \A t : Had(stops, s.answers, t, n) = Had(stops, longer, t, n)
  BY <1>9, <1>10, SameUpTo
<1>12. Cardinality(TakenUpTo(longer, i)) = s.taken + (IF status = "taken" THEN 1 ELSE 0)
  <2>1. longer[n + 1].status = status
    BY <1>7, <1>9
  <2>2. Cardinality(TakenUpTo(longer, n + 1))
          = Cardinality(TakenUpTo(longer, n)) + (IF longer[n + 1].status = "taken" THEN 1 ELSE 0)
    BY TakenGrows
  <2> QED
    BY <1>1, <1>11, <2>1, <2>2
<1>13. next.taken = Cardinality(TakenUpTo(next.answers, i)) /\ next.taken <= limit
  BY <1>1, <1>3, <1>4, <1>12
\* Who has been seen by now.
<1>14. \A t : Had(stops, longer, t, i) = Had(stops, longer, t, n) \cup (IF t \in DOMAIN threads THEN {i} ELSE {})
  <2>1. \A t : i \in Had(stops, longer, t, i) <=> t \in DOMAIN threads
    <3>1. i \in 1..i
      BY <1>10
    <3> HIDE DEF i
    <3>2. longer[i].status = status
      BY <1>7, <1>9 DEF i
    <3> QED
      BY <1>6, <3>1, <3>2 DEF Had
  <2>2. \A t : \A k : k # i => (k \in Had(stops, longer, t, i) <=> k \in Had(stops, longer, t, n))
    <3>1. \A k : k # i => (k \in 1..i <=> k \in 1..n)
      OBVIOUS
    <3> HIDE DEF i
    <3> QED
      BY <3>1 DEF Had
  <2>3. \A t : i \notin Had(stops, longer, t, n)
    BY DEF Had
  <2> HIDE DEF i
  <2> QED
    BY <2>1, <2>2, <2>3
<1>15. \A t, k : k \in Had(stops, longer, t, n) => k \in Nat /\ k <= n
  BY DEF Had
<1>16. /\ DOMAIN next.prior = DOMAIN threads \cup DOMAIN s.prior
       /\ \A t \in DOMAIN threads : next.prior[t].event = i /\ next.prior[t].times = threads[t]
       /\ \A t \in DOMAIN s.prior \ DOMAIN threads : next.prior[t] = s.prior[t]
  <2>1. /\ DOMAIN LastSeen(s, threads, i) = DOMAIN threads \cup DOMAIN s.prior
        /\ \A t \in DOMAIN threads : LastSeen(s, threads, i)[t] = [event |-> i, times |-> threads[t]]
        /\ \A t \in DOMAIN s.prior \ DOMAIN threads : LastSeen(s, threads, i)[t] = s.prior[t]
    <3> HIDE DEF i
    <3> QED
      BY DEF LastSeen
  <2> HIDE DEF i
  <2> QED
    BY <1>4, <2>1
<1>17. /\ \A t \in DOMAIN s.prior :
            /\ IsLast(s.prior[t].event, Had(stops, longer, t, n))
            /\ s.prior[t].times = stops[s.prior[t].event].threads[t]
       /\ \A t : Had(stops, longer, t, n) # {} => t \in DOMAIN s.prior
       /\ \A k \in 1..n : AnswerRight(stops, requested, chosen, limit, s.answers, k)
  BY <1>11 DEF AccountInv
<1>18. /\ \A t \in DOMAIN next.prior :
            /\ IsLast(next.prior[t].event, Had(stops, longer, t, i))
            /\ next.prior[t].times = stops[next.prior[t].event].threads[t]
       /\ \A t : Had(stops, longer, t, i) # {} => t \in DOMAIN next.prior
  <2>1. ASSUME NEW t \in DOMAIN threads
        PROVE  /\ IsLast(next.prior[t].event, Had(stops, longer, t, i))
               /\ next.prior[t].times = stops[next.prior[t].event].threads[t]
    <3>1. next.prior[t].event = i /\ next.prior[t].times = stops[i].threads[t]
      BY <1>6, <1>16
    <3>2. IsLast(i, Had(stops, longer, t, i))
      BY <1>14, <1>15 DEF IsLast
    <3> QED
      BY <3>1, <3>2
  <2>2. ASSUME NEW t \in DOMAIN s.prior \ DOMAIN threads
        PROVE  /\ IsLast(next.prior[t].event, Had(stops, longer, t, i))
               /\ next.prior[t].times = stops[next.prior[t].event].threads[t]
    BY <1>14, <1>16, <1>17
  <2>3. ASSUME NEW t, Had(stops, longer, t, i) # {}
        PROVE  t \in DOMAIN next.prior
    BY <1>14, <1>16, <1>17, <2>3
  <2> QED
    BY <1>16, <2>1, <2>2, <2>3
<1>19. AnswerRight(stops, requested, chosen, limit, longer, i)
  <2>1. longer[i].status = status /\ longer[i].deltas = deltas
    BY <1>7, <1>9
  <2>2. status \in {"taken", "limit_reached"} <=> requested /\ selected
    BY <1>1, <1>3
  <2>3. status = "limit_reached" => Cardinality(TakenUpTo(longer, n)) = limit
    BY <1>1, <1>3, <1>11
  <2>4. ASSUME NEW t \in DOMAIN deltas
        PROVE  /\ i \in Had(stops, longer, t, i) /\ IsLast(deltas[t].since, Had(stops, longer, t, n))
               /\ deltas[t].delta = Profiles!TimeDelta(stops[deltas[t].since].threads[t], stops[i].threads[t])
    <3>1. t \in DOMAIN threads /\ t \in DOMAIN s.prior
      BY <1>8
    <3>2. threads[t] = stops[i].threads[t]
      BY <1>6, <3>1
    <3> QED
      BY <1>8, <1>14, <1>17, <3>1, <3>2
  <2>5. ASSUME NEW t, i \in Had(stops, longer, t, i), Had(stops, longer, t, n) # {}
        PROVE  t \in DOMAIN deltas
    <3>1. i \notin Had(stops, longer, t, n)
      BY DEF Had
    <3> QED
      BY <1>8, <1>14, <1>17, <2>5, <3>1
  <2>6. selected <=> stops[i].kind \in Profiles!AccountingKinds(chosen)
    BY DEF selected
  <2> HIDE DEF i
  <2> QED
    BY <1>10, <2>1, <2>2, <2>3, <2>4, <2>5, <2>6, Zenon DEF AnswerRight
<1>21. \A k \in 1..i : AnswerRight(stops, requested, chosen, limit, longer, k)
  <2>1. \A k \in 1..n : AnswerRight(stops, requested, chosen, limit, longer, k)
    BY <1>9, <1>17, RightStaysRight
  <2>2. \A k \in 1..i : k = i \/ k \in 1..n
    OBVIOUS
  <2> HIDE DEF i
  <2> QED
    BY <1>19, <2>1, <2>2
<1>22. AccountInv(stops, Ids, Counters, requested, chosen, limit, i, next)
  <2> HIDE DEF i
  <2>1. Len(next.answers) = i
    BY <1>4, <1>9 DEF i
  <2> QED
    BY <1>2, <1>4, <1>13, <1>18, <1>21, <2>1 DEF AccountInv
<1> QED
  BY <1>22 DEF next

(* For any stops, kinds and limit: one answer for each stop; counters are  *)
(* taken at no more stops than the limit, and a stop that was passed over  *)
(* for it came after that many; a thread is compared with the last stop    *)
(* before at which it was read, exactly when there is one                  *)
(* (capture_live_thread_accounting).                                       *)
THEOREM AccountingAlwaysExact ==
  ASSUME NEW Ids, NEW Counters, NEW stops, StopsWith(stops, Ids, Counters),
         NEW requested \in BOOLEAN, NEW chosen, NEW limit \in Nat
  PROVE  LET answers == Profiles!Accounting(stops, requested, chosen, limit)
         IN /\ Len(answers) = Len(stops)
            /\ Cardinality(TakenUpTo(answers, Len(stops))) <= limit
            /\ \A k \in 1..Len(stops) : AnswerRight(stops, requested, chosen, limit, answers, k)
<1> DEFINE after == CHOOSE f : Accounted(f, stops, requested, chosen, limit)
           AfterStop(m, s) == AccountInv(stops, Ids, Counters, requested, chosen, limit, m, s)
           Bad == {m \in 0..Len(stops) : ~AfterStop(m, after[m])}
<1>1. Profiles!Accounting(stops, requested, chosen, limit) = after[Len(stops)].answers
  BY Zenon DEF Profiles!Accounting, Accounted, AccountStart, NextStop, Asked, ThreadsSeen, DeltasSince, LastSeen
<1>2. Accounted(after, stops, requested, chosen, limit)
  BY AccountExists
<1> HIDE DEF after
<1>3. \A m \in 0..Len(stops) :
        after[m] = IF m = 0 THEN AccountStart ELSE NextStop(stops, requested, chosen, limit, m, after[m - 1])
  BY <1>2, Zenon DEF Accounted
<1>4. AfterStop(0, AccountStart)
  <2>1. AccountStart \in Accounts(Ids, Counters)
    <3>1. <<>> \in PriorOf(Ids, Counters)
      BY NothingIsOfSome DEF PriorOf
    <3>2. <<>> \in Seq(AnswersWith(Ids, Counters))
      OBVIOUS
    <3> QED
      BY <3>1, <3>2 DEF AccountStart, Accounts
  <2>2. AccountStart.answers = <<>> /\ AccountStart.prior = <<>> /\ AccountStart.taken = 0
    BY DEF AccountStart
  <2>3. 1..0 = {}
    OBVIOUS
  <2>4. \A answers : TakenUpTo(answers, 0) = {} /\ \A t : Had(stops, answers, t, 0) = {}
    BY <2>3 DEF TakenUpTo, Had
  <2>5. Cardinality({}) = 0
    BY FS_EmptySet
  <2>6. DOMAIN <<>> = {}
    BY NothingIsOfSome
  <2>7. Len(<<>>) = 0 /\ 0 <= limit
    OBVIOUS
  <2> QED
    BY <2>1, <2>2, <2>3, <2>4, <2>5, <2>6, <2>7 DEF AccountInv
<1>5. Bad = {}
  <2> SUFFICES ASSUME Bad # {}
               PROVE  FALSE
    OBVIOUS
  <2>1. Bad \subseteq Nat /\ Len(stops) \in Nat
    BY DEF StopsWith
  <2>2. PICK m \in Bad : \A e \in Bad : m <= e
    <3> HIDE DEF Bad
    <3> QED
      BY <2>1, LeastExists
  <2> HIDE DEF AfterStop
  <2>3. m \in 0..Len(stops) /\ ~AfterStop(m, after[m])
    OBVIOUS
  <2>4. m # 0
    BY <1>3, <1>4, <2>3
  <2>5. m - 1 \in 0..Len(stops) /\ m - 1 \in Nat /\ ~(m <= m - 1) /\ (m - 1) + 1 = m /\ m \in 1..Len(stops)
    BY <2>1, <2>3, <2>4
  <2>6. AfterStop(m - 1, after[m - 1])
    BY <2>2, <2>5
  <2>7. AfterStop((m - 1) + 1, NextStop(stops, requested, chosen, limit, (m - 1) + 1, after[m - 1]))
    BY <2>5, <2>6, NextStopKeepsInvariant DEF AfterStop
  <2> QED
    BY <1>3, <2>3, <2>4, <2>5, <2>7
<1>6. Len(stops) \in 0..Len(stops)
  BY DEF StopsWith
<1>7. AfterStop(Len(stops), after[Len(stops)])
  BY <1>5, <1>6
<1> QED
  BY <1>1, <1>7 DEF AccountInv
=============================================================================
