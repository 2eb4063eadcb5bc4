---------------------------- MODULE EngineWorker ----------------------------
(***************************************************************************)
(* The thread that owns one DbgEng session and the channel to it           *)
(* (crates/windbg-ttd, targets.rs, EngineWorker), with the ways its owner  *)
(* lets go of it (close_target, terminate_target, Drop).                   *)
(*                                                                         *)
(* `call` borrows the worker, so calls may run concurrently; shutdown and  *)
(* drop need it exclusively, so they start when no call is outstanding.    *)
(* An operation may fail, and may panic: the thread then dies and takes    *)
(* the session and every queued command with it.                           *)
(***************************************************************************)
EXTENDS Naturals, Sequences

CONSTANTS
  Callers,      (* threads that may borrow the worker                      *)
  Owner,        (* the tool call or destructor that holds it exclusively   *)
  QueueLimit    (* the bound of the command channel (64)                   *)

ASSUME WorkerAssumption ==
  /\ Owner \notin Callers
  /\ QueueLimit \in Nat \ {0}

VARIABLES
  kind,        (* DebuggerSessionKind of the session                       *)
  queue,       (* commands in the channel                                  *)
  thread,      (* "receiving", "running", "exited" or "panicked"           *)
  running,     (* the command the thread runs, while it is "running"       *)
  calls,       (* what each caller is doing in call or shutdown            *)
  owner,       (* how far the exclusive owner has got                      *)
  debuggee,    (* what the engine has done with the debuggee               *)
  refused      (* history: the engine has refused to detach or terminate   *)

vars == <<kind, queue, thread, running, calls, owner, debuggee, refused>>

Clients == Callers \cup {Owner}
Operations == {"query", "detach", "terminate"}
Shutdowns == {"shutdown_detach", "shutdown_keep"}
Commands == [op : Operations \cup Shutdowns, by : Clients]
NoCommand == [op |-> "query", by |-> Owner]

ReceiverAlive == thread \in {"receiving", "running"}

Init ==
  /\ kind \in {"live", "dump"}
  /\ queue = <<>>
  /\ thread = "receiving"
  /\ running = NoCommand
  /\ calls = [c \in Clients |-> "idle"]
  /\ owner = "shared"
  /\ debuggee = IF kind = "live" THEN "attached" ELSE "none"
  /\ refused = FALSE

-----------------------------------------------------------------------------
(* EngineWorker::call.                                                     *)

BeginCall(c) ==
  /\ owner = "shared"
  /\ calls[c] = "idle"
  /\ calls' = [calls EXCEPT ![c] = "sending"]
  /\ UNCHANGED <<kind, queue, thread, running, owner, debuggee, refused>>

\* The command of c's send: the owner's depends on what it is doing.
CommandOf(c) ==
  [op |-> IF c = Owner THEN owner ELSE "query", by |-> c]

HasRoom == Len(queue) < QueueLimit

\* A send blocks while the channel is full, and fails without a receiver.
Send(c) ==
  /\ calls[c] = "sending"
  /\ ReceiverAlive
  /\ HasRoom
  /\ queue' = Append(queue, CommandOf(c))
  /\ calls' = [calls EXCEPT ![c] = "waiting"]
  /\ UNCHANGED <<kind, thread, running, owner, debuggee, refused>>

SendFails(c) ==
  /\ calls[c] = "sending"
  /\ ~ReceiverAlive
  /\ calls' = [calls EXCEPT ![c] = "error"]
  /\ UNCHANGED <<kind, queue, thread, running, owner, debuggee, refused>>

Return(c) ==
  /\ calls[c] \in {"ok", "error"}
  /\ calls' = [calls EXCEPT ![c] = "idle"]
  /\ UNCHANGED <<kind, queue, thread, running, owner, debuggee, refused>>

-----------------------------------------------------------------------------
(* The engine thread.                                                      *)

Receive ==
  /\ thread = "receiving"
  /\ queue # <<>>
  /\ thread' = "running"
  /\ running' = Head(queue)
  /\ queue' = Tail(queue)
  /\ UNCHANGED <<kind, calls, owner, debuggee, refused>>

\* The outcome of an operation is sent to the one who asked for it.
Respond(outcome) == calls' = [calls EXCEPT ![running.by] = outcome]

\* Faulty: a dead thread keeps the closures that were still in the channel.
HangUpKeeping(answered) ==
  /\ running' = NoCommand
  /\ UNCHANGED queue
  /\ calls' = [c \in Clients |->
                 IF c = running.by
                 THEN IF c \in answered THEN "ok" ELSE "error"
                 ELSE calls[c]]

\* Faulty: the response senders outlive the thread.
HangUpSilently(answered) ==
  /\ running' = NoCommand
  /\ queue' = <<>>
  /\ calls' = [c \in Clients |-> IF c \in answered THEN "ok" ELSE calls[c]]

(* The thread ends: whoever still waits for a response finds its sender    *)
(* dropped, with the closures left in the channel.                         *)
HangUp(answered) ==
  /\ running' = NoCommand
  /\ queue' = <<>>
  /\ calls' = [c \in Clients |->
                 IF c \in answered THEN "ok"
                 ELSE IF calls[c] = "waiting" THEN "error" ELSE calls[c]]

\* What DetachProcesses and TerminateProcesses leave behind.
After(op) == CASE op \in {"detach", "shutdown_detach"} -> "detached"
               [] op = "terminate" -> "terminated"
               [] OTHER -> debuggee

RunOperation ==
  /\ thread = "running"
  /\ running.op \in Operations
  /\ thread' = "receiving"
  /\ running' = NoCommand
  /\ \/ /\ Respond("ok")
        /\ debuggee' = After(running.op)
        /\ UNCHANGED refused
     \/ /\ Respond("error")
        /\ refused' = (refused \/ running.op # "query")
        /\ UNCHANGED debuggee
  /\ UNCHANGED <<kind, queue, owner>>

\* Dropping a session that is still attached abandons its debuggee.
Abandoned(left) == IF left = "attached" THEN "abandoned" ELSE left

\* The operation panics: the thread unwinds and nobody detaches.
Panic ==
  /\ thread = "running"
  /\ running.op \in Operations
  /\ thread' = "panicked"
  /\ HangUp({})
  /\ debuggee' = Abandoned(debuggee)
  /\ UNCHANGED <<kind, owner, refused>>

\* Faulty: the shutdown command detaches whatever it was told.
ShutdownAlwaysDetaches == TRUE

\* Whether the shutdown command detaches: it was told to and is live.
ShutdownDetaches == running.op = "shutdown_detach" /\ kind = "live"

(* The shutdown command: the outcome of the detach is ignored, the         *)
(* response is sent, and the thread ends with the session.                 *)
RunShutdown ==
  /\ thread = "running"
  /\ running.op \in Shutdowns
  /\ thread' = "exited"
  /\ HangUp({running.by})
  /\ \/ /\ ShutdownDetaches
        /\ debuggee' = After("detach")
        /\ UNCHANGED refused
     \/ /\ ShutdownDetaches
        /\ debuggee' = Abandoned(debuggee)
        /\ refused' = TRUE
     \/ /\ ~ShutdownDetaches
        /\ debuggee' = Abandoned(debuggee)
        /\ UNCHANGED refused
  /\ UNCHANGED <<kind, owner>>

-----------------------------------------------------------------------------
(* The owner: the target is out of the registry and nobody borrows it.     *)

\* Faulty: the owner does not wait for the calls that are under way.
ExclusiveOfOwner == owner = "shared" /\ calls[Owner] = "idle"

Exclusive == owner = "shared" /\ \A c \in Clients : calls[c] = "idle"

\* The owner enters call(op) or shutdown: op is what it is about to send.
Enter(op) ==
  /\ owner' = op
  /\ calls' = [calls EXCEPT ![Owner] = "sending"]
  /\ UNCHANGED <<kind, queue, thread, running, debuggee, refused>>

\* close_target detaches a live target and shuts the worker down.
Close ==
  /\ Exclusive
  /\ Enter(IF kind = "live" THEN "detach" ELSE "shutdown_keep")

\* terminate_target refuses a dump target, which is dropped all the same.
Terminate ==
  /\ Exclusive
  /\ Enter(IF kind = "live" THEN "terminate" ELSE "shutdown_detach")

\* The registry is dropped with the daemon's state.
Drop ==
  /\ Exclusive
  /\ Enter("shutdown_detach")

(* A detach or terminate that worked is followed by a plain shutdown; one  *)
(* that failed returns early, and the destructor shuts down with a detach. *)
Continue ==
  /\ owner \in {"detach", "terminate"}
  /\ calls[Owner] \in {"ok", "error"}
  /\ Enter(IF calls[Owner] = "ok" THEN "shutdown_keep" ELSE "shutdown_detach")

\* shutdown has its response and joins the thread, or found it dead.
Gone ==
  /\ owner \in Shutdowns
  /\ calls[Owner] \in {"ok", "error"}
  /\ owner' = "gone"
  /\ calls' = [calls EXCEPT ![Owner] = "idle"]
  /\ UNCHANGED <<kind, queue, thread, running, debuggee, refused>>

-----------------------------------------------------------------------------

Thread == Receive \/ RunOperation \/ Panic \/ RunShutdown
Client(c) == Send(c) \/ SendFails(c) \/ (c # Owner /\ Return(c))
OwnerProceeds == Continue \/ Gone
OwnerStarts == Close \/ Terminate \/ Drop

Next ==
  \/ Thread
  \/ OwnerProceeds
  \/ OwnerStarts
  \/ \E c \in Callers : BeginCall(c)
  \/ \E c \in Clients : Client(c)

(* The operating system runs the engine thread and the callers' threads,   *)
(* and a bounded channel wakes its blocked senders in turn, so each gets   *)
(* its slot (strong fairness).  Nobody has to call, or to close.           *)
Fairness ==
  /\ WF_vars(Thread)
  /\ WF_vars(OwnerProceeds)
  /\ \A c \in Clients : SF_vars(Client(c))

Spec == Init /\ [][Next]_vars
FairSpec == Spec /\ Fairness

-----------------------------------------------------------------------------

(* The values of every variable; the command channel keeps its bound.      *)
TypeOK ==
  /\ kind \in {"live", "dump"}
  /\ queue \in Seq(Commands)
  /\ Len(queue) <= QueueLimit
  /\ thread \in {"receiving", "running", "exited", "panicked"}
  /\ running \in Commands
  /\ calls \in [Clients -> {"idle", "sending", "waiting", "ok", "error"}]
  /\ owner \in {"shared", "gone", "detach", "terminate"} \cup Shutdowns
  /\ debuggee \in {"attached", "detached", "terminated", "abandoned", "none"}
  /\ refused \in BOOLEAN

(* Every command in the channel, and the one that runs, belongs to one     *)
(* caller that waits for it: an answer never goes to the wrong caller, and *)
(* nobody waits for a thread that has ended (targets.rs, call, shutdown).  *)
EveryWaiterServed ==
  /\ \A i, k \in DOMAIN queue : queue[i].by = queue[k].by => i = k
  /\ \A i \in DOMAIN queue : calls[queue[i].by] = "waiting"
  /\ \A c \in Clients : calls[c] = "waiting" =>
       \/ thread = "running" /\ running.by = c
       \/ ReceiverAlive /\ \E i \in DOMAIN queue : queue[i].by = c
  /\ thread = "running" =>
       /\ calls[running.by] = "waiting"
       /\ \A i \in DOMAIN queue : queue[i].by # running.by

(* Shutdown is the last command the channel ever carries: no operation is  *)
(* behind it, to be dropped unanswered (targets.rs, shutdown).             *)
NothingBehindShutdown ==
  /\ \A i \in DOMAIN queue : queue[i].op \in Shutdowns => i = Len(queue)
  /\ thread = "running" /\ running.op \in Shutdowns => queue = <<>>

(* However a target is let go - closed, terminated, dropped with an error  *)
(* half way - a live debuggee is never simply abandoned: only when the     *)
(* engine refused to detach it, or an operation killed the thread.         *)
NeverAbandoned ==
  debuggee = "abandoned" => refused \/ thread = "panicked"

(* The engine is asked to detach only what is still attached: a target     *)
(* that was detached or terminated once is not detached again, and a dump  *)
(* never is (close_target, terminate_target, Drop).                        *)
DetachesAttachedOnly ==
  thread = "running" /\ (running.op = "detach" \/ ShutdownDetaches) =>
    debuggee = "attached"

(* A debuggee is let go once, by the last command of its worker, and never *)
(* left to itself unless the engine gave out (EngineWorker, Drop).         *)
LetGoOnce == TypeOK /\ NothingBehindShutdown /\ NeverAbandoned /\ DetachesAttachedOnly

(* Every owner that started to close the target gets through, whatever     *)
(* the engine answers and whether or not the thread is alive, if each      *)
(* operation ends (close_target, terminate_target, shutdown).              *)
CloseEnds == owner # "shared" ~> owner = "gone"

(* The worker implements SerializedEngine: a call is outstanding from its  *)
(* start until its answer is there.                                        *)
Promise == INSTANCE SerializedEngine
  WITH engine <- IF owner = "shared" THEN "open" ELSE "closed",
       state <- [c \in Callers |-> IF calls[c] \in {"sending", "waiting"}
                                  THEN "called" ELSE calls[c]]

Serialized == Promise!Spec
=============================================================================
