------------------------- MODULE EngineWorker_proofs -------------------------
(***************************************************************************)
(* What holds of an engine worker for any number of callers and any bound  *)
(* of its channel.  Who waits is served because each command in the        *)
(* channel is its sender's own (Owning), and a debuggee is let go once     *)
(* because the owner's progress says what has become of it (Fate).         *)
(***************************************************************************)
EXTENDS EngineWorker, TLAPS

\* While the owner proceeds nobody else calls, and a command is what its
\* sender is about.
Owning ==
  /\ owner \in {"shared", "gone"} => calls[Owner] = "idle"
  /\ owner # "shared" => \A c \in Callers : calls[c] = "idle"
  /\ \A i \in DOMAIN queue : queue[i] = CommandOf(queue[i].by)
  /\ thread = "running" => running = CommandOf(running.by)

Ending == {"detach", "terminate"}

\* The debuggee is still attached.
Keeps == owner \in {"shared", "shutdown_detach"} \/ (owner \in Ending /\ calls[Owner] # "ok")

Fate ==
  /\ kind = "dump" <=> debuggee = "none"
  /\ ReceiverAlive => debuggee # "abandoned"
  /\ ReceiverAlive /\ kind = "live" /\ Keeps => debuggee = "attached"
  /\ owner \in Ending => kind = "live"
  /\ owner \in Ending /\ calls[Owner] = "ok" => debuggee # "attached"
  /\ owner = "shutdown_keep" => debuggee # "attached"

Inv == TypeOK /\ EveryWaiterServed /\ Owning /\ Fate /\ NeverAbandoned

-----------------------------------------------------------------------------
(* The channel.                                                            *)

(* Every command is somebody's.                                            *)
LEMMA CommandsHaveSenders ==
  ASSUME TypeOK
  PROVE  (\A i \in DOMAIN queue : queue[i] \in Commands /\ queue[i].by \in Clients) /\ running.by \in Clients
<1>1. \A i \in DOMAIN queue : queue[i] \in Commands
  BY DEF TypeOK
<1>2. \A d \in Commands : d.by \in Clients
  BY DEF Commands
<1> QED
  BY <1>1, <1>2 DEF TypeOK

(* A command of a client that sends is one.                                *)
LEMMA CommandIsOne ==
  ASSUME TypeOK, Owning, NEW c \in Clients, calls[c] = "sending"
  PROVE  CommandOf(c) \in Commands /\ CommandOf(c).by = c
<1>1. c = Owner => owner \in Operations \cup Shutdowns
  BY DEF TypeOK, Owning, Operations
<1>2. (IF c = Owner THEN owner ELSE "query") \in Operations \cup Shutdowns
  BY <1>1 DEF Operations
<1> QED
  BY <1>2 DEF CommandOf, Commands

(* When nobody waits there is nothing in the channel and nothing runs.     *)
LEMMA NobodyWaits ==
  ASSUME TypeOK, EveryWaiterServed, \A c \in Clients : calls[c] # "waiting"
  PROVE  queue = <<>> /\ thread # "running"
<1>1. thread # "running"
  BY CommandsHaveSenders DEF EveryWaiterServed
<1>2. \A i \in DOMAIN queue : queue[i].by \in Clients
  BY CommandsHaveSenders
<1>3. DOMAIN queue = {}
  BY <1>2 DEF EveryWaiterServed
<1>4. Len(queue) = 0
  BY <1>3 DEF TypeOK
<1> QED
  BY <1>1, <1>4 DEF TypeOK

(* What the oldest command leaves behind.                                  *)
LEMMA TailOfQueue ==
  ASSUME TypeOK, queue # <<>>
  PROVE  /\ Head(queue) \in Commands /\ Head(queue) = queue[1] /\ 1 \in DOMAIN queue
         /\ Tail(queue) \in Seq(Commands) /\ Len(Tail(queue)) <= QueueLimit
         /\ DOMAIN Tail(queue) = 1 .. (Len(queue) - 1) /\ DOMAIN queue = 1 .. Len(queue)
         /\ \A i \in DOMAIN Tail(queue) : i + 1 \in DOMAIN queue /\ Tail(queue)[i] = queue[i + 1]
         /\ \A i \in DOMAIN queue : i = 1 \/ (i - 1 \in DOMAIN Tail(queue) /\ Tail(queue)[i - 1] = queue[i])
<1>1. queue \in Seq(Commands) /\ Len(queue) \in Nat /\ Len(queue) >= 1
  BY DEF TypeOK
<1>2. Head(queue) \in Commands /\ Head(queue) = queue[1] /\ 1 \in DOMAIN queue
  BY <1>1
<1>3. Tail(queue) \in Seq(Commands) /\ Len(Tail(queue)) = Len(queue) - 1
  BY <1>1
<1>4. Len(queue) <= QueueLimit /\ QueueLimit \in Nat
  BY WorkerAssumption DEF TypeOK
<1>5. DOMAIN queue = 1 .. Len(queue) /\ DOMAIN Tail(queue) = 1 .. (Len(queue) - 1)
  BY <1>1, <1>3
<1>6. \A i \in 1 .. (Len(queue) - 1) : Tail(queue)[i] = queue[i + 1]
  BY <1>1
<1> QED
  BY <1>1, <1>2, <1>3, <1>4, <1>5, <1>6

(* The channel with one more command.                                      *)
LEMMA QueueAndOne ==
  ASSUME TypeOK, HasRoom, NEW d \in Commands
  PROVE  /\ Append(queue, d) \in Seq(Commands) /\ Len(Append(queue, d)) <= QueueLimit
         /\ DOMAIN queue = 1 .. Len(queue) /\ Len(queue) \in Nat
         /\ DOMAIN Append(queue, d) = 1 .. (Len(queue) + 1)
         /\ \A i \in DOMAIN queue : Append(queue, d)[i] = queue[i]
         /\ Append(queue, d)[Len(queue) + 1] = d
<1>1. queue \in Seq(Commands) /\ Len(queue) \in Nat /\ Len(queue) < QueueLimit /\ QueueLimit \in Nat
  BY WorkerAssumption DEF TypeOK, HasRoom
<1> QED
  BY <1>1

-----------------------------------------------------------------------------
(* Each action keeps the invariant.                                        *)

(* A worker starts with nothing to do.                                     *)
LEMMA Starts == Init => Inv
<1> SUFFICES ASSUME Init PROVE Inv
  OBVIOUS
<1>1. TypeOK
  <2>1. queue \in Seq(Commands) /\ Len(queue) <= QueueLimit
    BY WorkerAssumption DEF Init
  <2>2. running \in Commands
    BY DEF Init, NoCommand, Commands, Operations, Clients
  <2> QED
    BY <2>1, <2>2 DEF Init, TypeOK
<1>2. EveryWaiterServed
  BY DEF Init, EveryWaiterServed, Clients
<1>3. Owning
  BY DEF Init, Owning, Clients
<1>4. Fate /\ NeverAbandoned
  BY DEF Init, Fate, NeverAbandoned, Keeps, Ending
<1> QED
  BY <1>1, <1>2, <1>3, <1>4 DEF Inv

(* A caller enters call, or returns from it, or finds no receiver.         *)
LEMMA CallerKeeps ==
  ASSUME Inv, NEW c \in Clients, (c # Owner /\ (BeginCall(c) \/ Return(c))) \/ SendFails(c)
  PROVE  Inv'
<1>1. PICK now \in {"idle", "sending", "error"} :
        /\ calls' = [calls EXCEPT ![c] = now]
        /\ calls[c] # "waiting"
        /\ now = "sending" => owner = "shared"
        /\ c = Owner => now = "error" /\ calls[c] = "sending" /\ ~ReceiverAlive
        /\ now = "error" => calls[c] = "sending"
        /\ UNCHANGED <<kind, queue, thread, running, owner, debuggee, refused>>
  BY DEF BeginCall, Return, SendFails
<1>2. TypeOK'
  BY <1>1 DEF Inv, TypeOK
<1>3. EveryWaiterServed'
  <2>1. \A d \in Clients : calls'[d] = "waiting" <=> calls[d] = "waiting"
    BY <1>1 DEF Inv, TypeOK
  <2>2. (\A i \in DOMAIN queue : queue[i].by \in Clients) /\ running.by \in Clients
    BY CommandsHaveSenders DEF Inv
  <2> QED
    BY <1>1, <2>1, <2>2 DEF Inv, EveryWaiterServed, ReceiverAlive
<1>4. Owning'
  BY <1>1, WorkerAssumption DEF Inv, TypeOK, Owning, CommandOf, Clients
<1>5. Fate' /\ NeverAbandoned'
  BY <1>1 DEF Inv, TypeOK, Fate, NeverAbandoned, Keeps, Ending, ReceiverAlive, Clients
<1> QED
  BY <1>2, <1>3, <1>4, <1>5 DEF Inv

(* A command is sent.                                                      *)
LEMMA SendKeeps ==
  ASSUME Inv, NEW c \in Clients, Send(c)
  PROVE  Inv'
<1> DEFINE d == CommandOf(c)
<1>1. d \in Commands /\ d.by = c
  BY CommandIsOne DEF Inv, Send
<1>2. /\ queue' = Append(queue, d)
      /\ queue' \in Seq(Commands) /\ Len(queue') <= QueueLimit
      /\ DOMAIN queue = 1 .. Len(queue) /\ Len(queue) \in Nat
      /\ DOMAIN queue' = 1 .. (Len(queue) + 1)
      /\ \A i \in DOMAIN queue : queue'[i] = queue[i]
      /\ queue'[Len(queue) + 1] = d
  BY <1>1, QueueAndOne DEF Inv, Send
<1> HIDE DEF d
<1>3. /\ calls' = [calls EXCEPT ![c] = "waiting"] /\ calls[c] = "sending" /\ ReceiverAlive
      /\ calls \in [Clients -> {"idle", "sending", "waiting", "ok", "error"}]
      /\ UNCHANGED <<kind, thread, running, owner, debuggee, refused>>
  BY DEF Inv, Send, TypeOK
<1>4. /\ \A i \in DOMAIN queue : queue[i].by \in Clients /\ queue[i].by # c
      /\ thread = "running" => running.by # c
  BY <1>3, CommandsHaveSenders DEF Inv, EveryWaiterServed
<1>5. TypeOK'
  BY <1>2, <1>3 DEF Inv, TypeOK
<1>6. EveryWaiterServed'
  <2>1. \A i, k \in DOMAIN queue' : queue'[i].by = queue'[k].by => i = k
    BY <1>1, <1>2, <1>4 DEF Inv, EveryWaiterServed
  <2>2. \A i \in DOMAIN queue' : calls'[queue'[i].by] = "waiting"
    BY <1>1, <1>2, <1>3, <1>4 DEF Inv, EveryWaiterServed
  <2>3. \A e \in Clients : calls'[e] = "waiting" =>
          \/ thread' = "running" /\ running'.by = e
          \/ ReceiverAlive' /\ \E i \in DOMAIN queue' : queue'[i].by = e
    <3>1. Len(queue) + 1 \in DOMAIN queue' /\ DOMAIN queue \subseteq DOMAIN queue'
      BY <1>2
    <3> QED
      BY <1>1, <1>2, <1>3, <3>1 DEF Inv, EveryWaiterServed, ReceiverAlive
  <2>4. thread' = "running" =>
          /\ calls'[running'.by] = "waiting"
          /\ \A i \in DOMAIN queue' : queue'[i].by # running'.by
    <3>1. thread = "running" => running.by \in Clients /\ calls[running.by] = "waiting"
      BY DEF Inv, TypeOK, Commands, EveryWaiterServed
    <3> QED
      BY <1>1, <1>2, <1>3, <1>4, <3>1 DEF Inv, EveryWaiterServed
  <2> QED
    BY <2>1, <2>2, <2>3, <2>4 DEF EveryWaiterServed
<1>7. Owning'
  <2>1. owner \notin {"shared", "gone"} \/ c # Owner
    BY <1>3 DEF Inv, Owning
  <2>2. \A e : CommandOf(e)' = CommandOf(e)
    BY <1>3 DEF CommandOf
  <2>3. \A i \in DOMAIN queue' : queue'[i] = CommandOf(queue'[i].by)
    BY <1>1, <1>2 DEF Inv, Owning, d
  <2>4. owner # "shared" => \A e \in Callers : calls'[e] = "idle"
    BY <1>3 DEF Inv, Owning, Clients
  <2>5. owner \in {"shared", "gone"} => calls'[Owner] = "idle"
    BY <1>3, <2>1 DEF Inv, Owning, Clients
  <2> QED
    BY <1>3, <2>2, <2>3, <2>4, <2>5 DEF Inv, Owning
<1>8. Fate' /\ NeverAbandoned'
  BY <1>3 DEF Inv, Fate, NeverAbandoned, Keeps, Ending, ReceiverAlive, Clients
<1> QED
  BY <1>5, <1>6, <1>7, <1>8 DEF Inv

(* The thread takes the oldest command.                                    *)
LEMMA ReceiveKeeps ==
  ASSUME Inv, Receive
  PROVE  Inv'
<1>1. /\ Head(queue) \in Commands /\ Head(queue) = queue[1] /\ 1 \in DOMAIN queue
      /\ queue' = Tail(queue)
      /\ queue' \in Seq(Commands) /\ Len(queue') <= QueueLimit
      /\ \A i \in DOMAIN queue' : i \in Nat /\ i >= 1 /\ i + 1 \in DOMAIN queue /\ queue'[i] = queue[i + 1]
      /\ \A i \in DOMAIN queue : i = 1 \/ (i - 1 \in DOMAIN queue' /\ queue'[i - 1] = queue[i])
  BY TailOfQueue DEF Inv, TypeOK, Receive
<1>2. /\ thread = "receiving" /\ thread' = "running" /\ running' = queue[1]
      /\ UNCHANGED <<kind, calls, owner, debuggee, refused>>
  BY <1>1 DEF Receive
<1>3. TypeOK'
  BY <1>1, <1>2 DEF Inv, TypeOK
<1>4. EveryWaiterServed'
  <2>1. \A i, k \in DOMAIN queue' : queue'[i].by = queue'[k].by => i = k
    BY <1>1 DEF Inv, EveryWaiterServed
  <2>2. \A i \in DOMAIN queue' : calls'[queue'[i].by] = "waiting"
    BY <1>1, <1>2 DEF Inv, EveryWaiterServed
  <2>3. \A e \in Clients : calls'[e] = "waiting" =>
          \/ thread' = "running" /\ running'.by = e
          \/ ReceiverAlive' /\ \E i \in DOMAIN queue' : queue'[i].by = e
    <3> SUFFICES ASSUME NEW e \in Clients, calls[e] = "waiting", queue[1].by # e
                 PROVE  \E i \in DOMAIN queue' : queue'[i].by = e
      BY <1>2 DEF ReceiverAlive
    <3>1. PICK i \in DOMAIN queue : queue[i].by = e
      BY <1>2 DEF Inv, EveryWaiterServed
    <3>2. i - 1 \in DOMAIN queue' /\ queue'[i - 1] = queue[i]
      BY <1>1, <3>1
    <3> QED
      BY <3>1, <3>2
  <2>4. thread' = "running" =>
          /\ calls'[running'.by] = "waiting"
          /\ \A i \in DOMAIN queue' : queue'[i].by # running'.by
    BY <1>1, <1>2 DEF Inv, EveryWaiterServed
  <2> QED
    BY <2>1, <2>2, <2>3, <2>4 DEF EveryWaiterServed
<1>5. Owning'
  <2>1. \A e : CommandOf(e)' = CommandOf(e)
    BY <1>2 DEF CommandOf
  <2> QED
    BY <1>1, <1>2, <2>1 DEF Inv, Owning
<1>6. Fate' /\ NeverAbandoned'
  BY <1>2 DEF Inv, Fate, NeverAbandoned, Keeps, Ending, ReceiverAlive
<1> QED
  BY <1>3, <1>4, <1>5, <1>6 DEF Inv

(* The thread answers and goes on.                                         *)
LEMMA RunOperationKeeps ==
  ASSUME Inv, RunOperation
  PROVE  Inv'
<1>1. PICK outcome \in {"ok", "error"} :
        /\ calls' = [calls EXCEPT ![running.by] = outcome]
        /\ outcome = "ok" => debuggee' = After(running.op) /\ refused' = refused
        /\ outcome = "error" => debuggee' = debuggee /\ refused' = (refused \/ running.op # "query")
  BY DEF RunOperation, Respond
<1>2. /\ thread = "running" /\ running.op \in Operations /\ thread' = "receiving" /\ running' = NoCommand
      /\ UNCHANGED <<kind, queue, owner>>
      /\ running.by \in Clients /\ calls[running.by] = "waiting"
      /\ \A i \in DOMAIN queue : queue[i].by # running.by /\ queue[i].by \in Clients
      /\ running = CommandOf(running.by)
  BY CommandsHaveSenders DEF RunOperation, Inv, EveryWaiterServed, Owning
<1>3. running.op = (IF running.by = Owner THEN owner ELSE "query")
  BY <1>2 DEF CommandOf
<1>4. TypeOK'
  <2>1. debuggee' \in {"attached", "detached", "terminated", "abandoned", "none"}
    BY <1>1 DEF Inv, TypeOK, After
  <2>2. NoCommand \in Commands
    BY DEF NoCommand, Commands, Operations, Clients
  <2>3. refused' \in BOOLEAN
    BY <1>1 DEF Inv, TypeOK
  <2> QED
    BY <1>1, <1>2, <2>1, <2>2, <2>3 DEF Inv, TypeOK
<1>5. EveryWaiterServed'
  BY <1>1, <1>2 DEF Inv, TypeOK, EveryWaiterServed, ReceiverAlive
<1>6. Owning'
  <2>1. \A e : CommandOf(e)' = CommandOf(e)
    BY <1>2 DEF CommandOf
  <2>2. running.by = Owner \/ owner = "shared"
    BY <1>2 DEF Inv, Owning, Clients
  <2>3. running.by = Owner => owner \notin {"shared", "gone"}
    BY <1>2 DEF Inv, Owning
  <2> QED
    BY <1>1, <1>2, <2>1, <2>2, <2>3, WorkerAssumption DEF Inv, TypeOK, Owning, Clients
<1>7. running.by = Owner \/ (calls'[Owner] = calls[Owner] /\ running.op = "query")
  BY <1>1, <1>2, <1>3 DEF Inv, TypeOK, Clients
<1>8. Fate'
  <2>1. CASE running.by # Owner
    <3>1. debuggee' = debuggee /\ calls'[Owner] = calls[Owner]
      BY <1>1, <1>7, <2>1 DEF After
    <3> QED
      BY <1>2, <3>1 DEF Inv, Fate, Keeps, Ending, ReceiverAlive
  <2>2. CASE running.by = Owner /\ calls'[Owner] = "ok"
    <3>1. owner \in Ending /\ running.op = owner /\ debuggee' \in {"detached", "terminated"}
      BY <1>1, <1>2, <1>3, <2>2, WorkerAssumption
      DEF Inv, TypeOK, Owning, Ending, Operations, After, Shutdowns, Clients
    <3> QED
      BY <1>2, <2>2, <3>1 DEF Inv, Fate, Keeps, Ending, ReceiverAlive
  <2>3. CASE running.by = Owner /\ calls'[Owner] = "error"
    <3>1. owner \in Ending /\ debuggee' = debuggee /\ calls[Owner] # "ok"
      BY <1>1, <1>2, <1>3, <2>3, WorkerAssumption
      DEF Inv, TypeOK, Owning, Ending, Operations, Shutdowns, Clients
    <3> QED
      BY <1>2, <2>3, <3>1 DEF Inv, Fate, Keeps, Ending, ReceiverAlive
  <2> QED
    BY <1>1, <1>2, <2>1, <2>2, <2>3 DEF Inv, TypeOK
<1>9. NeverAbandoned'
  BY <1>2, <1>8 DEF Fate, NeverAbandoned, ReceiverAlive
<1> QED
  BY <1>4, <1>5, <1>6, <1>8, <1>9 DEF Inv

(* A thread that ends leaves nobody waiting.                               *)
LEMMA HangUpServes ==
  ASSUME Inv, NEW answered \in SUBSET {running.by}, thread = "running",
         HangUp(answered), ~ReceiverAlive', thread' \in {"exited", "panicked"}, owner' = owner
  PROVE  EveryWaiterServed' /\ Owning' /\ queue' = <<>> /\ running' \in Commands
         /\ calls' \in [Clients -> {"idle", "sending", "waiting", "ok", "error"}]
<1>1. \A c \in Clients : calls'[c] # "waiting" /\ (calls[c] = "idle" /\ c # running.by => calls'[c] = "idle")
  BY DEF HangUp, Inv, TypeOK
<1>2. running.by \in Clients /\ calls[running.by] = "waiting"
  BY DEF Inv, TypeOK, Commands, EveryWaiterServed
<1>3. EveryWaiterServed'
  BY <1>1 DEF HangUp, EveryWaiterServed, ReceiverAlive
<1>4. Owning'
  <2>1. running.by = Owner => owner \notin {"shared", "gone"}
    BY <1>2 DEF Inv, Owning
  <2>2. running.by = Owner \/ owner = "shared"
    BY <1>2 DEF Inv, Owning, Clients
  <2> QED
    BY <1>1, <2>1, <2>2, WorkerAssumption DEF HangUp, Inv, Owning, Clients, ReceiverAlive
<1>5. running' \in Commands
  BY DEF HangUp, NoCommand, Commands, Operations, Clients
<1>6. calls' \in [Clients -> {"idle", "sending", "waiting", "ok", "error"}]
  BY DEF HangUp, Inv, TypeOK
<1> QED
  BY <1>3, <1>4, <1>5, <1>6 DEF HangUp

(* An operation panics.                                                    *)
LEMMA PanicKeeps ==
  ASSUME Inv, Panic
  PROVE  Inv'
<1>1. /\ thread = "running" /\ thread' = "panicked" /\ HangUp({}) /\ debuggee' = Abandoned(debuggee)
      /\ UNCHANGED <<kind, owner, refused>>
  BY DEF Panic
<1>2. ~ReceiverAlive'
  BY <1>1 DEF ReceiverAlive
<1>3. EveryWaiterServed' /\ Owning' /\ queue' = <<>> /\ running' \in Commands
      /\ calls' \in [Clients -> {"idle", "sending", "waiting", "ok", "error"}]
  BY <1>1, <1>2, HangUpServes
<1>4. TypeOK'
  <2>1. queue' \in Seq(Commands) /\ Len(queue') <= QueueLimit
    BY <1>3, WorkerAssumption
  <2> QED
    BY <1>1, <1>3, <2>1 DEF Inv, TypeOK, Abandoned
<1>5. Fate'
  <2>1. calls'[Owner] # "ok" \/ calls[Owner] = "ok"
    BY <1>1 DEF HangUp, Inv, TypeOK, Clients
  <2> QED
    BY <1>1, <1>2, <2>1 DEF Inv, Fate, Abandoned
<1>6. NeverAbandoned'
  BY <1>1 DEF NeverAbandoned
<1> QED
  BY <1>3, <1>4, <1>5, <1>6 DEF Inv

(* The worker shuts down.                                                  *)
LEMMA RunShutdownKeeps ==
  ASSUME Inv, RunShutdown
  PROVE  Inv'
<1>1. /\ thread = "running" /\ running.op \in Shutdowns /\ thread' = "exited" /\ HangUp({running.by})
      /\ UNCHANGED <<kind, owner>>
      /\ \/ debuggee' = "detached" /\ ShutdownDetaches /\ refused' = refused
         \/ debuggee' = Abandoned(debuggee) /\ refused' = TRUE
         \/ debuggee' = Abandoned(debuggee) /\ ~ShutdownDetaches /\ refused' = refused
  BY DEF RunShutdown, After
<1>2. ~ReceiverAlive'
  BY <1>1 DEF ReceiverAlive
<1>3. EveryWaiterServed' /\ Owning' /\ queue' = <<>> /\ running' \in Commands
      /\ calls' \in [Clients -> {"idle", "sending", "waiting", "ok", "error"}]
  BY <1>1, <1>2, HangUpServes
<1>4. owner = running.op /\ running.by = Owner
  <2>1. running = CommandOf(running.by)
    BY <1>1 DEF Inv, Owning
  <2> QED
    BY <1>1, <2>1 DEF CommandOf, Shutdowns
<1>5. TypeOK'
  <2>1. queue' \in Seq(Commands) /\ Len(queue') <= QueueLimit
    BY <1>3, WorkerAssumption
  <2>2. debuggee' \in {"attached", "detached", "terminated", "abandoned", "none"} /\ refused' \in BOOLEAN
    BY <1>1 DEF Inv, TypeOK, Abandoned
  <2> QED
    BY <1>1, <1>3, <2>1, <2>2 DEF Inv, TypeOK
<1>6. Fate'
  <2>1. owner' \notin Ending
    BY <1>1, <1>4 DEF Ending, Shutdowns
  <2>2. kind' = "dump" <=> debuggee' = "none"
    BY <1>1 DEF Inv, Fate, Abandoned, ShutdownDetaches
  <2>3. debuggee' # "attached"
    BY <1>1 DEF Abandoned
  <2> QED
    BY <1>2, <2>1, <2>2, <2>3 DEF Fate
<1>7. NeverAbandoned'
  <2>1. ReceiverAlive /\ debuggee # "abandoned"
    BY <1>1 DEF Inv, Fate, ReceiverAlive
  <2>2. ~ShutdownDetaches => debuggee # "attached"
    <3>1. running.op = "shutdown_keep" \/ kind = "dump" \/ ShutdownDetaches
      BY <1>1 DEF ShutdownDetaches, Shutdowns, Inv, TypeOK
    <3> QED
      BY <1>4, <3>1 DEF Inv, Fate
  <2> QED
    BY <1>1, <2>1, <2>2 DEF NeverAbandoned, Abandoned
<1> QED
  BY <1>3, <1>5, <1>6, <1>7 DEF Inv

(* The owner sends its next command, or has none left.                     *)
LEMMA EnterKeeps ==
  ASSUME Inv, NEW op \in Ending \cup Shutdowns, \A c \in Callers : calls[c] = "idle",
         calls[Owner] \in {"idle", "ok", "error"}, Enter(op),
         op \in Ending => kind = "live" /\ owner = "shared",
         op = "shutdown_keep" => debuggee # "attached",
         op = "shutdown_detach" => owner = "shared" \/ (owner \in Ending /\ calls[Owner] # "ok")
  PROVE  Inv'
<1>1. /\ owner' = op /\ calls' = [calls EXCEPT ![Owner] = "sending"]
      /\ UNCHANGED <<kind, queue, thread, running, debuggee, refused>>
      /\ calls \in [Clients -> {"idle", "sending", "waiting", "ok", "error"}]
      /\ op \notin {"shared", "gone"}
  BY DEF Enter, Inv, TypeOK, Ending, Shutdowns
<1>2. \A c \in Clients : calls[c] # "waiting" /\ calls'[c] # "waiting"
  BY <1>1 DEF Clients
<1>3. queue = <<>> /\ thread # "running"
  BY <1>2, NobodyWaits DEF Inv
<1>4. TypeOK'
  BY <1>1 DEF Inv, TypeOK, Ending
<1>5. EveryWaiterServed'
  BY <1>1, <1>2, <1>3 DEF EveryWaiterServed
<1>6. Owning'
  BY <1>1, <1>3, WorkerAssumption DEF Owning, Clients
<1>7. calls'[Owner] = "sending"
  BY <1>1 DEF Clients
<1>8. Fate'
  BY <1>1, <1>7 DEF Inv, Fate, Keeps, ReceiverAlive, Ending, Shutdowns
<1>9. NeverAbandoned'
  BY <1>1 DEF Inv, NeverAbandoned
<1> QED
  BY <1>4, <1>5, <1>6, <1>8, <1>9 DEF Inv

(* The owner that closes, terminates or drops the worker.                  *)
LEMMA OwnerKeeps ==
  ASSUME Inv, OwnerStarts \/ OwnerProceeds
  PROVE  Inv'
<1>1. kind \in {"live", "dump"} /\ (kind = "dump" => debuggee = "none")
  BY DEF Inv, TypeOK, Fate
<1>2. Exclusive => (\A c \in Callers : calls[c] = "idle") /\ calls[Owner] = "idle" /\ owner = "shared"
  BY DEF Exclusive, Clients
<1>3. CASE Close
  BY <1>1, <1>2, <1>3, EnterKeeps DEF Close, Ending, Shutdowns
<1>4. CASE Terminate
  BY <1>1, <1>2, <1>4, EnterKeeps DEF Terminate, Ending, Shutdowns
<1>5. CASE Drop
  BY <1>2, <1>5, EnterKeeps DEF Drop, Ending, Shutdowns
<1>6. CASE Continue
  <2>1. /\ \A c \in Callers : calls[c] = "idle"
        /\ owner \in Ending /\ calls[Owner] \in {"ok", "error"}
        /\ calls[Owner] = "ok" => debuggee # "attached"
    BY <1>6 DEF Continue, Inv, Owning, Fate, Ending
  <2> QED
    BY <1>6, <2>1, EnterKeeps DEF Continue, Ending, Shutdowns
<1>7. CASE Gone
  <2>1. /\ owner \in Shutdowns /\ owner' = "gone" /\ calls' = [calls EXCEPT ![Owner] = "idle"]
        /\ calls[Owner] \in {"ok", "error"}
        /\ UNCHANGED <<kind, queue, thread, running, debuggee, refused>>
        /\ \A c \in Callers : calls[c] = "idle"
        /\ calls \in [Clients -> {"idle", "sending", "waiting", "ok", "error"}]
    BY <1>7 DEF Gone, Inv, Owning, TypeOK, Shutdowns
  <2>2. \A c \in Clients : calls[c] # "waiting" /\ calls'[c] # "waiting"
    BY <2>1 DEF Clients
  <2>3. queue = <<>> /\ thread # "running"
    BY <2>2, NobodyWaits DEF Inv
  <2>4. TypeOK'
    BY <2>1 DEF Inv, TypeOK
  <2>5. EveryWaiterServed'
    BY <2>1, <2>2, <2>3 DEF EveryWaiterServed
  <2>6. Owning'
    BY <2>1, <2>3, WorkerAssumption DEF Owning, Clients
  <2>7. Fate'
    BY <2>1 DEF Inv, Fate, Keeps, ReceiverAlive, Ending
  <2>8. NeverAbandoned'
    BY <2>1 DEF Inv, NeverAbandoned
  <2> QED
    BY <2>4, <2>5, <2>6, <2>7, <2>8 DEF Inv
<1> QED
  BY <1>3, <1>4, <1>5, <1>6, <1>7 DEF OwnerStarts, OwnerProceeds

(* The invariant is inductive.                                             *)
LEMMA NextKeeps == Inv /\ [Next]_vars => Inv'
<1> SUFFICES ASSUME Inv, [Next]_vars PROVE Inv'
  OBVIOUS
<1>1. CASE UNCHANGED vars
  BY <1>1 DEF vars, Inv, TypeOK, EveryWaiterServed, Owning, Fate, NeverAbandoned, Keeps, ReceiverAlive, CommandOf
<1>2. CASE Thread
  BY <1>2, ReceiveKeeps, RunOperationKeeps, PanicKeeps, RunShutdownKeeps DEF Thread
<1>3. CASE OwnerStarts \/ OwnerProceeds
  BY <1>3, OwnerKeeps
<1>4. ASSUME NEW c \in Callers, BeginCall(c)
      PROVE  Inv'
  BY <1>4, CallerKeeps, WorkerAssumption DEF Clients
<1>5. ASSUME NEW c \in Clients, Client(c)
      PROVE  Inv'
  BY <1>5, CallerKeeps, SendKeeps DEF Client
<1> QED
  BY <1>1, <1>2, <1>3, <1>4, <1>5 DEF Next

(* The invariant holds for any callers and any bound of the channel.       *)
LEMMA Inductive == Spec => []Inv
BY Starts, NextKeeps, PTL DEF Spec

-----------------------------------------------------------------------------

(* Nobody waits for an answer that cannot come, and no answer goes to the  *)
(* wrong caller: with any number of callers on a channel of any bound      *)
(* (EngineWorker::call).                                                   *)
THEOREM WaitersAreServed == Spec => []EveryWaiterServed
<1>1. Inv => EveryWaiterServed
  BY DEF Inv
<1> QED
  BY <1>1, Inductive, PTL

(* The shutdown command is alone in the channel.                           *)
LEMMA ShutdownIsAlone == Inv => NothingBehindShutdown
<1> SUFFICES ASSUME Inv PROVE NothingBehindShutdown
  OBVIOUS
<1>1. \A d : CommandOf(d).op \in Shutdowns => d = Owner /\ owner # "shared"
  BY DEF CommandOf, Shutdowns
<1>2. \A c \in Clients : owner # "shared" /\ c # Owner => calls[c] = "idle"
  BY DEF Inv, Owning, Clients
<1>3. ASSUME NEW i \in DOMAIN queue, queue[i].op \in Shutdowns
      PROVE  i = Len(queue)
  <2>1. queue[i].by = Owner /\ owner # "shared"
    BY <1>1, <1>3 DEF Inv, Owning
  <2>2. \A k \in DOMAIN queue : queue[k].by = Owner
    BY <1>2, <2>1, CommandsHaveSenders DEF Inv, EveryWaiterServed
  <2>3. \A k \in DOMAIN queue : k = i
    BY <2>1, <2>2 DEF Inv, EveryWaiterServed
  <2>4. queue \in Seq(Commands) /\ DOMAIN queue = 1 .. Len(queue) /\ Len(queue) \in Nat
    BY DEF Inv, TypeOK
  <2>5. Len(queue) \in DOMAIN queue
    BY <2>4
  <2> QED
    BY <2>3, <2>5
<1>4. ASSUME thread = "running", running.op \in Shutdowns
      PROVE  queue = <<>>
  <2>1. running.by = Owner /\ owner # "shared"
    BY <1>1, <1>4 DEF Inv, Owning
  <2>2. \A k \in DOMAIN queue : queue[k].by = Owner /\ queue[k].by # running.by
    BY <1>2, <1>4, <2>1, CommandsHaveSenders DEF Inv, EveryWaiterServed
  <2>3. DOMAIN queue = {}
    BY <2>1, <2>2
  <2>4. Len(queue) = 0 /\ queue \in Seq(Commands)
    BY <2>3 DEF Inv, TypeOK
  <2> QED
    BY <2>4
<1> QED
  BY <1>3, <1>4 DEF NothingBehindShutdown

(* A debuggee is let go once, by the last command of its worker, and left  *)
(* to itself only when the engine gave out (close_target,                  *)
(* terminate_target, Drop).                                                *)
THEOREM DebuggeeIsLetGoOnce == Spec => []LetGoOnce
<1>1. Inv => DetachesAttachedOnly
  <2> SUFFICES ASSUME Inv, thread = "running", running.op = "detach" \/ ShutdownDetaches
               PROVE  debuggee = "attached"
    BY DEF DetachesAttachedOnly
  <2>1. running = CommandOf(running.by) /\ calls[running.by] = "waiting"
    BY DEF Inv, Owning, EveryWaiterServed
  <2>2. running.by = Owner /\ owner = running.op
    BY <2>1 DEF CommandOf, ShutdownDetaches
  <2>3. Keeps /\ kind = "live" /\ ReceiverAlive
    BY <2>1, <2>2 DEF Inv, Fate, Keeps, Ending, ShutdownDetaches, ReceiverAlive
  <2> QED
    BY <2>3 DEF Inv, Fate
<1>2. Inv => LetGoOnce
  BY <1>1, ShutdownIsAlone DEF Inv, LetGoOnce
<1> QED
  BY <1>2, Inductive, PTL

-----------------------------------------------------------------------------
(* The worker is a serialized engine.                                      *)

\* What SerializedEngine sees of the worker.
engineSeen == IF owner = "shared" THEN "open" ELSE "closed"
stateSeen == [c \in Callers |-> IF calls[c] \in {"sending", "waiting"} THEN "called" ELSE calls[c]]

\* How the step of a serialized engine looks.
SafeNext == [Promise!Next]_<<engineSeen, stateSeen>>

(* A step in which one caller at most gets another state.                  *)
LEMMA OneCallerMoves ==
  ASSUME Inv, NEW c \in Clients, NEW now \in {"idle", "sending", "waiting", "ok", "error"},
         calls' = [calls EXCEPT ![c] = now]
  PROVE  IF c = Owner THEN stateSeen' = stateSeen
         ELSE /\ c \in Callers /\ stateSeen[c] = (IF calls[c] \in {"sending", "waiting"} THEN "called" ELSE calls[c])
              /\ stateSeen' = [stateSeen EXCEPT ![c] = IF now \in {"sending", "waiting"} THEN "called" ELSE now]
<1>1. calls \in [Clients -> {"idle", "sending", "waiting", "ok", "error"}] /\ Callers \subseteq Clients
      /\ Owner \notin Callers /\ (c # Owner => c \in Callers)
  BY WorkerAssumption DEF Inv, TypeOK, Clients
<1>2. \A e \in Callers : calls'[e] = IF e = c THEN now ELSE calls[e]
  BY <1>1
<1>3. CASE c = Owner
  BY <1>1, <1>2, <1>3 DEF stateSeen
<1>4. CASE c # Owner
  BY <1>1, <1>2, <1>4 DEF stateSeen
<1> QED
  BY <1>3, <1>4

(* A thread that ends answers those who wait with an error.                *)
LEMMA HangUpCollapses ==
  ASSUME Inv, thread = "running", NEW answered \in SUBSET {running.by}, HangUp(answered),
         answered = {} \/ running.by = Owner, owner' = owner
  PROVE  SafeNext
<1> DEFINE Failed == {c \in Callers : calls[c] = "waiting"}
<1>1. calls \in [Clients -> {"idle", "sending", "waiting", "ok", "error"}] /\ Callers \subseteq Clients
      /\ Owner \notin Callers
  BY WorkerAssumption DEF Inv, TypeOK, Clients
<1>2. \A c \in Callers : calls'[c] = IF c \in Failed THEN "error" ELSE calls[c]
  BY <1>1 DEF HangUp
<1>3. stateSeen' = [c \in Callers |-> IF c \in Failed THEN "error" ELSE stateSeen[c]]
  BY <1>2 DEF stateSeen
<1>4. Failed \in SUBSET {c \in Callers : stateSeen[c] = "called"}
  BY DEF stateSeen
<1>5. engineSeen' = engineSeen
  BY DEF engineSeen
<1>6. Promise!Collapse
  BY <1>3, <1>4, <1>5 DEF Promise!Collapse, stateSeen, engineSeen
<1> QED
  BY <1>6 DEF SafeNext, Promise!Next

(* Every step of the worker is one of a serialized engine, or none.        *)
LEMMA StepIsSerialized ==
  ASSUME Inv, [Next]_vars
  PROVE  SafeNext
<1> USE DEF Promise!Next
<1>0. calls \in [Clients -> {"idle", "sending", "waiting", "ok", "error"}] /\ Callers \subseteq Clients
      /\ Owner \notin Callers /\ Owner \in Clients
  BY WorkerAssumption DEF Inv, TypeOK, Clients
<1>1. CASE UNCHANGED <<calls, owner>>
  BY <1>1 DEF SafeNext, engineSeen, stateSeen
<1>2. ASSUME NEW c \in Callers, BeginCall(c)
      PROVE  SafeNext
  <2>1. stateSeen[c] = "idle" /\ stateSeen' = [stateSeen EXCEPT ![c] = "called"]
    BY <1>0, <1>2, OneCallerMoves DEF BeginCall
  <2>2. engineSeen = "open" /\ engineSeen' = engineSeen
    BY <1>2 DEF BeginCall, engineSeen
  <2>3. Promise!Call(c)
    BY <2>1, <2>2 DEF Promise!Call, engineSeen, stateSeen
  <2> QED
    BY <2>3 DEF SafeNext
<1>3. ASSUME NEW c \in Clients, Send(c)
      PROVE  SafeNext
  <2>1. calls' = [calls EXCEPT ![c] = "waiting"] /\ calls[c] = "sending" /\ owner' = owner
    BY <1>3 DEF Send
  <2>2. stateSeen' = stateSeen
    BY <1>0, <2>1, OneCallerMoves DEF stateSeen
  <2> QED
    BY <2>1, <2>2 DEF SafeNext, engineSeen
<1>4. ASSUME NEW c \in Clients, NEW now \in {"ok", "error"}, calls' = [calls EXCEPT ![c] = now],
             calls[c] \in {"sending", "waiting"}, owner' = owner
      PROVE  SafeNext
  <2>1. engineSeen' = engineSeen
    BY <1>4 DEF engineSeen
  <2>2. CASE c = Owner
    BY <1>0, <1>4, <2>1, <2>2, OneCallerMoves DEF SafeNext
  <2>3. CASE c # Owner
    <3>1. c \in Callers /\ stateSeen[c] = "called" /\ stateSeen' = [stateSeen EXCEPT ![c] = now]
      BY <1>0, <1>4, <2>3, OneCallerMoves
    <3>2. Promise!Answer(c)
      BY <2>1, <3>1 DEF Promise!Answer, engineSeen, stateSeen
    <3> QED
      BY <3>1, <3>2 DEF SafeNext
  <2> QED
    BY <2>2, <2>3
<1>5. ASSUME NEW c \in Clients, c # Owner, Return(c)
      PROVE  SafeNext
  <2>1. c \in Callers /\ stateSeen[c] \in {"ok", "error"} /\ stateSeen' = [stateSeen EXCEPT ![c] = "idle"]
    BY <1>0, <1>5, OneCallerMoves DEF Return
  <2>2. engineSeen' = engineSeen
    BY <1>5 DEF Return, engineSeen
  <2>3. Promise!Return(c)
    BY <2>1, <2>2 DEF Promise!Return, engineSeen, stateSeen
  <2> QED
    BY <2>1, <2>3 DEF SafeNext
<1>6. CASE RunOperation
  <2>1. PICK now \in {"ok", "error"} : calls' = [calls EXCEPT ![running.by] = now]
    BY <1>6 DEF RunOperation, Respond
  <2>2. running.by \in Clients /\ calls[running.by] = "waiting" /\ owner' = owner
    BY <1>6, CommandsHaveSenders DEF RunOperation, Inv, EveryWaiterServed
  <2> QED
    BY <1>4, <2>1, <2>2
<1>7. CASE Panic
  BY <1>7, HangUpCollapses DEF Panic
<1>8. CASE RunShutdown
  <2>1. running.by = Owner
    BY <1>8 DEF RunShutdown, Inv, Owning, CommandOf, Shutdowns
  <2> QED
    BY <1>8, <2>1, HangUpCollapses DEF RunShutdown
<1>9. CASE OwnerStarts
  <2>1. /\ Exclusive /\ owner = "shared" /\ owner' # "shared"
        /\ calls' = [calls EXCEPT ![Owner] = "sending"]
    BY <1>9 DEF OwnerStarts, Close, Terminate, Drop, Exclusive, Enter
  <2>2. \A c \in Callers : stateSeen[c] = "idle"
    BY <1>0, <2>1 DEF Exclusive, stateSeen
  <2>3. stateSeen' = stateSeen
    BY <1>0, <2>1, OneCallerMoves
  <2>4. engineSeen = "open" /\ engineSeen' = "closed"
    BY <2>1 DEF engineSeen
  <2>5. Promise!Close
    BY <2>2, <2>3, <2>4 DEF Promise!Close, engineSeen, stateSeen
  <2> QED
    BY <2>5 DEF SafeNext
<1>10. CASE OwnerProceeds
  <2>1. PICK now \in {"idle", "sending"} : calls' = [calls EXCEPT ![Owner] = now]
    BY <1>10 DEF OwnerProceeds, Continue, Gone, Enter
  <2>2. stateSeen' = stateSeen
    BY <1>0, <2>1, OneCallerMoves
  <2>3. engineSeen' = engineSeen
    BY <1>10 DEF OwnerProceeds, Continue, Gone, Enter, engineSeen, Shutdowns
  <2> QED
    BY <2>2, <2>3 DEF SafeNext
<1>11. ASSUME NEW c \in Clients, SendFails(c)
       PROVE  SafeNext
  BY <1>4, <1>11 DEF SendFails
<1> QED
  BY <1>0, <1>1, <1>2, <1>3, <1>5, <1>6, <1>7, <1>8, <1>9, <1>10, <1>11
  DEF Next, Thread, Client, Receive, vars

(* The safety part of Serialized: a worker with any number of callers is a *)
(* SerializedEngine, "serialized even when future daemon callers no longer *)
(* hold the global service-state lock" (targets.rs).                       *)
THEOREM WorkerIsSerialized == Spec => Promise!Init /\ [][Promise!Next]_<<engineSeen, stateSeen>>
<1>1. Init => Promise!Init
  BY WorkerAssumption DEF Init, Promise!Init, Clients
<1>2. Inv /\ [Next]_vars => [Promise!Next]_<<engineSeen, stateSeen>>
  BY StepIsSerialized DEF SafeNext
<1> QED
  BY <1>1, <1>2, Inductive, PTL DEF Spec
=============================================================================
