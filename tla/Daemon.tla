-------------------------------- MODULE Daemon --------------------------------
(***************************************************************************)
(* The daemon's named pipe (crates/windbg-ttd, daemon.rs) and the commands *)
(* that use it: each connects, sends one request, reads one answer and     *)
(* ends.  `daemon ensure` starts a daemon when none answers.  Nothing but  *)
(* the pipe keeps two daemons apart, and a daemon ends with                *)
(* process::exit, which waits for nobody (main.rs).                        *)
(*                                                                         *)
(* A client tries to open the pipe forty times, 50 ms apart, and knows     *)
(* nothing of daemons that are starting: in the model, which has no clock, *)
(* it may give up at any attempt, and fail with an answer in its hands.    *)
(***************************************************************************)
EXTENDS Naturals

CONSTANTS
  Daemons,      (* processes that may be started with `daemon start`       *)
  Clients,      (* processes that run one command                          *)
  NoDaemon

ASSUME DaemonAssumption == NoDaemon \notin Daemons

VARIABLES
  daemon,       (* where each daemon's run_daemon is                       *)
  signalled,    (* daemons whose shutdown_tx has been used                 *)
  client,       (* what each client is doing                               *)
  command,      (* the command it runs                                     *)
  server,       (* the daemon it is connected to, or was last              *)
  conn,         (* the connection at the server's end                      *)
  kept,         (* daemons whose service state has not been dropped        *)
  broken,       (* history: daemons whose accept loop has failed           *)
  handled       (* history: how many requests of a client took effect      *)

vars == <<daemon, signalled, client, command, server, conn, kept, broken, handled>>

DaemonStates == {"unborn", "starting", "listening", "renewing", "left", "exited"}

\* How a command ends: with an answer that it takes, or that it does not; with
\* the end of its connection where it expected one; without a connection.
Ends == {"answered", "refused", "cut", "unreached"}
ClientStates == Ends \cup
  {"idle", "opening", "asking", "spawning", "reopening", "reasking"}
ConnStates == {"none", "pending", "held", "serving", "answering"}
RequestKinds == {"tool", "ensure", "shutdown"}

(* Somebody may have run `daemon start` before.                            *)
Init ==
  /\ \E first \in Daemons \cup {NoDaemon} :
       daemon = [d \in Daemons |-> IF d = first THEN "starting" ELSE "unborn"]
  /\ signalled = {}
  /\ client = [c \in Clients |-> "idle"]
  /\ command = [c \in Clients |-> "tool"]
  /\ server = [c \in Clients |-> NoDaemon]
  /\ conn = [c \in Clients |-> "none"]
  /\ kept = Daemons
  /\ broken = {}
  /\ handled = [c \in Clients |-> 0]

-----------------------------------------------------------------------------
(* The pipe.                                                               *)

ConnectionsOf(d) == {c \in Clients : conn[c] # "none" /\ server[c] = d}

(* While it listens a daemon holds one instance without a client, or with  *)
(* one that it has not accepted yet; each connection is an instance.       *)
HasInstance(d) == daemon[d] = "listening" \/ ConnectionsOf(d) # {}

Free(d) ==
  /\ daemon[d] = "listening"
  /\ \A c \in ConnectionsOf(d) : conn[c] # "pending"

-----------------------------------------------------------------------------
(* The daemon.                                                             *)

\* Faulty: a request whose answer was lost is sent again.
TryAgain(c, end) == IF end = "cut" THEN "opening" ELSE end

\* A command whose request fails ends so, except for the first health request
\* of `daemon ensure`.
Disappointed(c, end) ==
  IF command[c] = "ensure" /\ client[c] \in {"opening", "asking"}
  THEN "spawning" ELSE end

\* Connections are closed by the daemon, its end, or the end of their task;
\* their clients read the end of the pipe where they expected an answer.
CutOff(cut) ==
  /\ conn' = [c \in Clients |-> IF c \in cut THEN "none" ELSE conn[c]]
  /\ client' = [c \in Clients |->
                  IF c \in cut THEN Disappointed(c, "cut") ELSE client[c]]

(* create_server with first_pipe_instance.                                 *)
Bind(d) ==
  /\ daemon[d] = "starting"
  /\ daemon' = [daemon EXCEPT ![d] =
                  IF \E e \in Daemons : HasInstance(e)
                  THEN "exited" ELSE "listening"]
  /\ UNCHANGED <<signalled, client, command, server, conn, kept, broken, handled>>

\* Faulty: the connection is served before there is a next instance.
AcceptAndSpawn(d) ==
  /\ daemon[d] = "listening"
  /\ \E c \in ConnectionsOf(d) :
       conn[c] = "pending" /\ conn' = [conn EXCEPT ![c] = "serving"]
  /\ daemon' = [daemon EXCEPT ![d] = "renewing"]
  /\ UNCHANGED <<signalled, client, command, server, kept, broken, handled>>

Accept(d) ==
  /\ daemon[d] = "listening"
  /\ \E c \in ConnectionsOf(d) :
       conn[c] = "pending" /\ conn' = [conn EXCEPT ![c] = "held"]
  /\ daemon' = [daemon EXCEPT ![d] = "renewing"]
  /\ UNCHANGED <<signalled, client, command, server, kept, broken, handled>>

\* Faulty: the accepted connection is dropped with the instance it had.
RenewOnly(d) ==
  /\ daemon[d] = "renewing"
  /\ daemon' = [daemon EXCEPT ![d] = "listening"]
  /\ UNCHANGED <<signalled, client, command, server, conn, kept, broken, handled>>

(* The next instance is created before the connection is spawned.          *)
Renew(d) ==
  /\ daemon[d] = "renewing"
  /\ daemon' = [daemon EXCEPT ![d] = "listening"]
  /\ conn' = [c \in Clients |->
                IF server[c] = d /\ conn[c] = "held" THEN "serving" ELSE conn[c]]
  /\ UNCHANGED <<signalled, client, command, server, kept, broken, handled>>

(* Either call of the accept loop fails: the error ends the process.       *)
AcceptFails(d) ==
  /\ \/ daemon[d] = "renewing"
     \/ daemon[d] = "listening" /\ ~Free(d)
  /\ daemon' = [daemon EXCEPT ![d] = "exited"]
  /\ CutOff(ConnectionsOf(d))
  /\ broken' = broken \cup {d}
  /\ UNCHANGED <<signalled, command, server, kept, handled>>

\* Faulty: the state goes with whoever lets go of it first.
DropStateEarly(d, last) == kept' = kept \ {d}

\* The last clone of the service that goes drops the state: the targets of
\* the daemon are let go.  A sweep that still runs has a clone too.
DropState(d, last) ==
  \/ last /\ kept' = kept \ {d}
  \/ UNCHANGED kept

\* Faulty: shutdown_rx also completes when its sender is dropped, and only the
\* connections keep the sender.
LeaveUnasked(d) ==
  /\ daemon[d] = "listening"
  /\ ConnectionsOf(d) = {}
  /\ daemon' = [daemon EXCEPT ![d] = "left"]
  /\ DropState(d, TRUE)
  /\ UNCHANGED <<signalled, client, command, server, conn, broken, handled>>

(* The loop sees the signal: the listening instance goes with a client     *)
(* that was not accepted, and run_daemon drops its clone of the service.   *)
Leave(d) ==
  LET waiting == {c \in ConnectionsOf(d) : conn[c] = "pending"}
  IN /\ daemon[d] = "listening"
     /\ d \in signalled
     /\ daemon' = [daemon EXCEPT ![d] = "left"]
     /\ CutOff(waiting)
     /\ DropState(d, ConnectionsOf(d) \subseteq waiting)
     /\ UNCHANGED <<signalled, command, server, broken, handled>>

(* process::exit: connections still being served are cut off.              *)
Exit(d) ==
  /\ daemon[d] = "left"
  /\ daemon' = [daemon EXCEPT ![d] = "exited"]
  /\ CutOff(ConnectionsOf(d))
  /\ UNCHANGED <<signalled, command, server, kept, broken, handled>>

-----------------------------------------------------------------------------
(* One connection: route_request, and the answer with Connection: close.   *)

\* Faulty: a second sender is made for each connection, and used in vain.
SignalLost(c) == UNCHANGED signalled

\* /shutdown takes shutdown_tx and uses it; once taken it is gone.
Signal(c) ==
  IF command[c] = "shutdown"
  THEN signalled' = signalled \cup {server[c]}
  ELSE UNCHANGED signalled

(* The request takes effect; its answer is still to be written.            *)
Handle(c) ==
  /\ conn[c] = "serving"
  /\ client[c] \in {"asking", "reasking"}
  /\ Signal(c)
  /\ handled' = [handled EXCEPT ![c] = @ + 1]
  /\ conn' = [conn EXCEPT ![c] = "answering"]
  /\ UNCHANGED <<daemon, client, command, server, kept, broken>>

\* The end of a connection's task, and of its clone of the service.
LetGo(c) ==
  DropState(server[c],
            daemon[server[c]] = "left" /\ ConnectionsOf(server[c]) = {c})

(* The client reads the answer, and the connection ends.  It does not take *)
(* one that is longer than 16 MiB, that it cannot parse, or whose status   *)
(* is an error.                                                            *)
Answer(c) ==
  /\ conn[c] = "answering"
  /\ \E end \in {"answered", Disappointed(c, "refused")} :
       client' = [client EXCEPT ![c] = end]
  /\ conn' = [conn EXCEPT ![c] = "none"]
  /\ LetGo(c)
  /\ UNCHANGED <<daemon, signalled, command, server, broken, handled>>

(* serve_connection fails, or the task panics: no other notices.           *)
ConnectionFails(c) ==
  /\ conn[c] \in {"serving", "answering"}
  /\ CutOff({c})
  /\ LetGo(c)
  /\ UNCHANGED <<daemon, signalled, command, server, broken, handled>>

-----------------------------------------------------------------------------
(* The commands.                                                           *)

Begin(c) ==
  /\ client[c] = "idle"
  /\ \E k \in RequestKinds : command' = [command EXCEPT ![c] = k]
  /\ client' = [client EXCEPT ![c] = "opening"]
  /\ UNCHANGED <<daemon, signalled, server, conn, kept, broken, handled>>

Opening(c) == client[c] \in {"opening", "reopening"}

Open(c) ==
  /\ Opening(c)
  /\ \E d \in Daemons :
       /\ Free(d)
       /\ server' = [server EXCEPT ![c] = d]
  /\ conn' = [conn EXCEPT ![c] = "pending"]
  /\ client' = [client EXCEPT ![c] =
                  IF @ = "opening" THEN "asking" ELSE "reasking"]
  /\ UNCHANGED <<daemon, signalled, command, kept, broken, handled>>

(* The last attempt has failed, or any with another error than that the    *)
(* pipe is not there or busy, whatever daemons are about to listen.        *)
GiveUp(c) ==
  /\ Opening(c)
  /\ client' = [client EXCEPT ![c] = Disappointed(c, "unreached")]
  /\ UNCHANGED <<daemon, signalled, command, server, conn, kept, broken, handled>>

(* `daemon ensure` starts a daemon and asks again, or fails to start it.   *)
Spawn(c) ==
  /\ client[c] = "spawning"
  /\ \/ /\ \E d \in Daemons :
             /\ daemon[d] = "unborn"
             /\ daemon' = [daemon EXCEPT ![d] = "starting"]
        /\ client' = [client EXCEPT ![c] = "reopening"]
     \/ /\ client' = [client EXCEPT ![c] = "unreached"]
        /\ UNCHANGED daemon
  /\ UNCHANGED <<signalled, command, server, conn, kept, broken, handled>>

-----------------------------------------------------------------------------

RunDaemon(d) == Bind(d) \/ Accept(d) \/ Renew(d) \/ Leave(d) \/ Exit(d)
Connection(c) == Handle(c) \/ Answer(c)
Command(c) == Open(c) \/ GiveUp(c) \/ Spawn(c)

Next ==
  \/ \E d \in Daemons : RunDaemon(d) \/ AcceptFails(d)
  \/ \E c \in Clients :
       Begin(c) \/ Connection(c) \/ ConnectionFails(c) \/ Command(c)

(* The processes run and engine calls return.  select! polls its branches  *)
(* in random order, so a signal is seen although clients keep connecting.  *)
Fairness ==
  /\ \A d \in Daemons : WF_vars(RunDaemon(d)) /\ SF_vars(Leave(d))
  /\ \A c \in Clients : WF_vars(Connection(c)) /\ WF_vars(Command(c))

Spec == Init /\ [][Next]_vars
FairSpec == Spec /\ Fairness

-----------------------------------------------------------------------------

(* The values of every variable.                                           *)
TypeOK ==
  /\ daemon \in [Daemons -> DaemonStates]
  /\ signalled \subseteq Daemons
  /\ client \in [Clients -> ClientStates]
  /\ command \in [Clients -> RequestKinds]
  /\ server \in [Clients -> Daemons \cup {NoDaemon}]
  /\ conn \in [Clients -> ConnStates]
  /\ kept \subseteq Daemons
  /\ broken \subseteq Daemons
  /\ handled \in [Clients -> Nat]
  /\ \A c \in Clients : conn[c] # "none" <=> client[c] \in {"asking", "reasking"}
  /\ \A c \in Clients : conn[c] # "none" => server[c] \in Daemons

(* All instances of the pipe belong to one daemon, however many are        *)
(* started at once: a client's sessions and targets are not spread over    *)
(* two of them (create_server, the order of the accept loop).              *)
OneOwner ==
  \A d, e \in Daemons : HasInstance(d) /\ HasInstance(e) => d = e

(* A state that is dropped has no connection that could still use it, and  *)
(* its daemon has left its loop (run_daemon, spawn_connection).            *)
DroppedUnused ==
  \A d \in Daemons \ kept :
    daemon[d] \in {"left", "exited"} /\ ConnectionsOf(d) = {}

(* Sessions and targets belong to one daemon, and no connection loses them *)
(* while it is served (run_daemon).                                        *)
OwnershipHolds == TypeOK /\ OneOwner /\ DroppedUnused

(* What a command may conclude from how it ended (request_json, and the    *)
(* error paths of read_response and open_client): one that never reached a *)
(* daemon has changed nothing, one that was answered took effect once,     *)
(* also if its answer was refused, and one that lost its connection at     *)
(* most once, whatever ended or failed meanwhile.  The health request of   *)
(* `daemon ensure`, which changes nothing, is the only one that is made    *)
(* twice.                                                                  *)
OutcomeTellsEffect ==
  \A c \in Clients : command[c] # "ensure" =>
    /\ client[c] = "unreached" => handled[c] = 0
    /\ client[c] \in {"answered", "refused"} => handled[c] = 1
    /\ client[c] = "cut" => handled[c] <= 1

(* Commands that were connected to different daemons, at whatever times,   *)
(* were so because one of these was asked to stop or failed: otherwise     *)
(* what one command opened, another one finds, although each `daemon       *)
(* ensure` may start a process of its own (run_daemon, create_server).     *)
OneDaemonServes ==
  \A b, c \in Clients :
    server[b] # NoDaemon /\ server[c] # NoDaemon /\ server[b] # server[c] =>
      {server[b], server[c]} \cap (signalled \cup broken) # {}

(* A daemon on which a shutdown request took effect exits, however the     *)
(* command fared that made it (route_request, run_daemon), and every       *)
(* command ends (open_client, run_daemon_command).                         *)
AnswersShutdown ==
  \A c \in Clients :
    command[c] = "shutdown" /\ handled[c] > 0 ~>
      \E d \in Daemons : d = server[c] /\ daemon[d] = "exited"
CommandsEnd ==
  \A c \in Clients : client[c] = "opening" ~> client[c] \in Ends
=============================================================================
