---------------------------- MODULE Daemon_proofs ----------------------------
(***************************************************************************)
(* The daemons and the commands that use them, however many there are: who *)
(* owns the pipe, that one daemon serves them all until it is asked to     *)
(* stop or fails, and what a command may conclude from how it ended.       *)
(***************************************************************************)
EXTENDS Daemon, TLAPS

\* A daemon that has not bound the pipe, or has exited, has no connection,
\* and one that has accepted a connection is making the next instance.
ConnectionsLive ==
  \A c \in Clients :
    /\ conn[c] # "none" => daemon[server[c]] \in {"listening", "renewing", "left"}
    /\ conn[c] = "held" => daemon[server[c]] = "renewing"

\* While it makes the next instance it holds on to the pipe by the
\* connection it has accepted.
RenewingHolds ==
  \A d \in Daemons :
    daemon[d] = "renewing" => \E c \in Clients : conn[c] = "held" /\ server[c] = d

\* A daemon that has served somebody goes on unless it was asked to stop or
\* failed, and who leaves was asked to.
ServedLives ==
  \A c \in Clients : server[c] # NoDaemon =>
    \/ daemon[server[c]] \in {"listening", "renewing"}
    \/ daemon[server[c]] \in {"left", "exited"} /\ server[c] \in signalled \cup broken
LeavingIsAsked == \A d \in Daemons : daemon[d] = "left" => d \in signalled

\* How far a command that asks once has come says how often it took effect.
CountsFollow ==
  \A c \in Clients :
    /\ client[c] \in {"idle", "opening"} => handled[c] = 0
    /\ command[c] # "ensure" =>
         /\ client[c] \notin {"spawning", "reopening", "reasking"}
         /\ client[c] = "asking" =>
              handled[c] = IF conn[c] = "answering" THEN 1 ELSE 0

IInv ==
  /\ TypeOK
  /\ ConnectionsLive /\ RenewingHolds /\ ServedLives /\ LeavingIsAsked
  /\ OneOwner /\ DroppedUnused
  /\ CountsFollow /\ OutcomeTellsEffect

(* The start satisfies the invariant.                                      *)
LEMMA InitHolds == Init => IInv
<1> SUFFICES ASSUME Init PROVE IInv
  OBVIOUS
<1>1. PICK first \in Daemons \cup {NoDaemon} :
        daemon = [d \in Daemons |-> IF d = first THEN "starting" ELSE "unborn"]
  BY DEF Init
<1>2. TypeOK
  BY <1>1 DEF Init, TypeOK, DaemonStates, ClientStates, ConnStates, RequestKinds, Ends
<1>3. ConnectionsLive /\ RenewingHolds
  BY <1>1 DEF Init, ConnectionsLive, RenewingHolds
<1>4. ServedLives /\ LeavingIsAsked
  BY <1>1 DEF Init, ServedLives, LeavingIsAsked
<1>5. OneOwner /\ DroppedUnused
  BY <1>1 DEF Init, OneOwner, DroppedUnused, HasInstance, ConnectionsOf
<1>6. CountsFollow /\ OutcomeTellsEffect
  BY DEF Init, CountsFollow, OutcomeTellsEffect
<1> QED
  BY <1>2, <1>3, <1>4, <1>5, <1>6 DEF IInv

(* Creating the first instance of the pipe succeeds for one daemon only.   *)
LEMMA BindKeeps ==
  ASSUME IInv, NEW d \in Daemons, Bind(d)
  PROVE  IInv'
<1>1. ConnectionsOf(d) = {} /\ daemon[d] = "starting"
  BY DEF Bind, IInv, TypeOK, ConnectionsLive, ConnectionsOf
<1>2. TypeOK'
  BY DEF Bind, IInv, TypeOK, DaemonStates
<1>3. (ConnectionsLive /\ RenewingHolds)'
  BY <1>1 DEF Bind, IInv, TypeOK, ConnectionsLive, RenewingHolds, ConnectionsOf
<1>4. ServedLives'
  BY <1>1 DEF Bind, IInv, TypeOK, ServedLives
<1>5. LeavingIsAsked'
  BY <1>1 DEF Bind, IInv, TypeOK, LeavingIsAsked
<1>6. OneOwner'
  <2>1. \A e \in Daemons : ConnectionsOf(e)' = ConnectionsOf(e)
    BY DEF Bind, ConnectionsOf
  <2>2. CASE \E e \in Daemons : HasInstance(e)
    BY <2>1, <2>2 DEF Bind, IInv, TypeOK, OneOwner, HasInstance
  <2>3. CASE ~ \E e \in Daemons : HasInstance(e)
    BY <2>1, <2>3 DEF Bind, IInv, TypeOK, OneOwner, HasInstance
  <2> QED
    BY <2>2, <2>3
<1>7. DroppedUnused'
  BY <1>1 DEF Bind, IInv, TypeOK, DroppedUnused, ConnectionsOf
<1>8. (CountsFollow /\ OutcomeTellsEffect)'
  BY DEF Bind, IInv, CountsFollow, OutcomeTellsEffect
<1> QED
  BY <1>2, <1>3, <1>4, <1>5, <1>6, <1>7, <1>8 DEF IInv

(* A connection that is accepted belongs to the daemon that listened.      *)
LEMMA AcceptKeeps ==
  ASSUME IInv, NEW d \in Daemons, Accept(d)
  PROVE  IInv'
<1>1. PICK c \in ConnectionsOf(d) :
        conn[c] = "pending" /\ conn' = [conn EXCEPT ![c] = "held"]
  BY DEF Accept
<1>2. c \in Clients /\ server[c] = d /\ conn[c] # "none" /\ daemon[d] = "listening"
  BY DEF ConnectionsOf, Accept
<1>3. \A e \in Daemons : ConnectionsOf(e)' = ConnectionsOf(e)
  BY <1>1, <1>2 DEF ConnectionsOf, Accept, IInv, TypeOK
<1>4. TypeOK'
  BY <1>1, <1>2 DEF Accept, IInv, TypeOK, DaemonStates, ConnStates
<1>5. (ConnectionsLive /\ RenewingHolds)'
  BY <1>1, <1>2 DEF Accept, IInv, TypeOK, ConnectionsLive, RenewingHolds
<1>6. ServedLives'
  BY <1>2 DEF Accept, IInv, TypeOK, ServedLives
<1>7. LeavingIsAsked'
  BY <1>2 DEF Accept, IInv, TypeOK, LeavingIsAsked
<1>8. (OneOwner /\ DroppedUnused)'
  BY <1>2, <1>3 DEF Accept, IInv, TypeOK, OneOwner, DroppedUnused, HasInstance
<1>9. (CountsFollow /\ OutcomeTellsEffect)'
  BY <1>1 DEF Accept, IInv, TypeOK, CountsFollow, OutcomeTellsEffect
<1> QED
  BY <1>4, <1>5, <1>6, <1>7, <1>8, <1>9 DEF IInv

(* Renewing the instance: others find the name taken meanwhile.            *)
LEMMA RenewKeeps ==
  ASSUME IInv, NEW d \in Daemons, Renew(d)
  PROVE  IInv'
<1>1. \A e \in Daemons : ConnectionsOf(e)' = ConnectionsOf(e)
  BY DEF ConnectionsOf, Renew, IInv, TypeOK
<1>2. HasInstance(d)
  BY DEF Renew, IInv, RenewingHolds, HasInstance, ConnectionsOf
<1>3. TypeOK'
  BY DEF Renew, IInv, TypeOK, DaemonStates, ConnStates
<1>4. (ConnectionsLive /\ RenewingHolds)'
  BY DEF Renew, IInv, TypeOK, ConnectionsLive, RenewingHolds
<1>5. ServedLives'
  BY DEF Renew, IInv, TypeOK, ServedLives
<1>6. LeavingIsAsked'
  BY DEF Renew, IInv, TypeOK, LeavingIsAsked
<1>7. (OneOwner /\ DroppedUnused)'
  BY <1>1, <1>2 DEF Renew, IInv, TypeOK, OneOwner, DroppedUnused, HasInstance
<1>8. (CountsFollow /\ OutcomeTellsEffect)'
  BY DEF Renew, IInv, TypeOK, CountsFollow, OutcomeTellsEffect
<1> QED
  BY <1>3, <1>4, <1>5, <1>6, <1>7, <1>8 DEF IInv

\* Connections that are cut off: their requests took effect once at most.
LEMMA CutOffCounts ==
  ASSUME IInv, NEW cut \in SUBSET Clients, \A c \in cut : conn[c] # "none",
         CutOff(cut), UNCHANGED <<command, handled>>
  PROVE  /\ \A c \in cut : conn'[c] = "none" /\ client'[c] \in {"spawning", "cut"}
         /\ \A c \in Clients \ cut : conn'[c] = conn[c] /\ client'[c] = client[c]
         /\ client' \in [Clients -> ClientStates] /\ conn' \in [Clients -> ConnStates]
         /\ (CountsFollow /\ OutcomeTellsEffect)'
<1>1. /\ \A c \in cut : conn'[c] = "none" /\ client'[c] = Disappointed(c, "cut")
      /\ \A c \in Clients \ cut : conn'[c] = conn[c] /\ client'[c] = client[c]
  BY DEF CutOff
<1>2. \A c \in cut : /\ client[c] \in {"asking", "reasking"}
                     /\ client'[c] \in {"spawning", "cut"}
                     /\ command[c] # "ensure" => client[c] = "asking" /\ client'[c] = "cut"
  BY <1>1 DEF Disappointed, IInv, TypeOK, CountsFollow
<1>3. client' \in [Clients -> ClientStates] /\ conn' \in [Clients -> ConnStates]
  BY <1>1, <1>2 DEF CutOff, IInv, TypeOK, ClientStates, ConnStates, Ends
<1>4. CountsFollow'
  BY <1>1, <1>2 DEF IInv, CountsFollow
<1>5. OutcomeTellsEffect'
  BY <1>1, <1>2 DEF IInv, CountsFollow, OutcomeTellsEffect
<1> QED
  BY <1>1, <1>2, <1>3, <1>4, <1>5

\* A process closes connections of its own: all of them if it ends, and
\* those it has not accepted if it leaves.
LEMMA ClosingKeeps ==
  ASSUME IInv, NEW d \in Daemons, NEW cut \in SUBSET ConnectionsOf(d), CutOff(cut),
         daemon[d] \in {"listening", "renewing", "left"},
         NEW end \in {"left", "exited"}, daemon' = [daemon EXCEPT ![d] = end],
         UNCHANGED <<signalled, command, server, handled>>,
         broken \subseteq broken', broken' \subseteq Daemons,
         d \in signalled \cup broken',
         kept' = kept \/ (kept' = kept \ {d} /\ ConnectionsOf(d) \subseteq cut),
         end = "left" =>
           daemon[d] = "listening" /\ d \in signalled,
         end = "exited" => cut = ConnectionsOf(d)
  PROVE  IInv'
<1>1. /\ cut \subseteq Clients
      /\ \A c \in cut : server[c] = d /\ conn[c] # "none" /\ client[c] \in {"asking", "reasking"}
  BY DEF ConnectionsOf, IInv, TypeOK
<1>2. /\ \A c \in Clients : /\ c \in cut => conn'[c] = "none" /\ client'[c] \in {"spawning", "cut"}
                            /\ c \notin cut => conn'[c] = conn[c] /\ client'[c] = client[c]
      /\ client' \in [Clients -> ClientStates] /\ conn' \in [Clients -> ConnStates]
      /\ (CountsFollow /\ OutcomeTellsEffect)'
  BY <1>1, CutOffCounts
<1>3. TypeOK'
  BY <1>1, <1>2 DEF IInv, TypeOK, DaemonStates
<1>4. (ConnectionsLive /\ RenewingHolds)'
  <2>1. ASSUME NEW c \in Clients, conn'[c] # "none"
        PROVE  /\ daemon'[server[c]] \in {"listening", "renewing", "left"}
               /\ conn'[c] = "held" => daemon'[server[c]] = "renewing"
    <3>1. c \notin cut /\ conn'[c] = conn[c] /\ server[c] \in Daemons
      BY <1>2, <2>1 DEF IInv, TypeOK
    <3>2. CASE server[c] = d
      <4>1. c \in ConnectionsOf(d)
        BY <2>1, <3>1, <3>2 DEF ConnectionsOf
      <4>2. end = "left" /\ daemon[d] = "listening"
        BY <3>1, <4>1
      <4>3. conn[c] # "held"
        BY <3>2, <4>2 DEF IInv, ConnectionsLive
      <4> QED
        BY <3>1, <3>2, <4>2, <4>3 DEF IInv, TypeOK
    <3>3. CASE server[c] # d
      BY <2>1, <3>1, <3>3 DEF IInv, TypeOK, ConnectionsLive
    <3> QED
      BY <3>2, <3>3
  <2>2. RenewingHolds'
    BY <1>1, <1>2 DEF IInv, TypeOK, RenewingHolds
  <2> QED
    BY <2>1, <2>2 DEF ConnectionsLive
<1>5. (ServedLives /\ LeavingIsAsked)'
  BY DEF IInv, TypeOK, ServedLives, LeavingIsAsked
<1>6. \A e \in Daemons : ConnectionsOf(e)' \subseteq ConnectionsOf(e)
  BY <1>2 DEF ConnectionsOf
<1>7. OneOwner'
  BY <1>6 DEF IInv, TypeOK, OneOwner, HasInstance
<1>8. DroppedUnused'
  <2>1. ASSUME NEW e \in Daemons \ kept'
        PROVE  daemon'[e] \in {"left", "exited"} /\ ConnectionsOf(e)' = {}
    <3>1. CASE e \notin kept
      BY <1>6, <2>1, <3>1 DEF IInv, TypeOK, DroppedUnused
    <3>2. CASE e \in kept
      <4>1. e = d /\ ConnectionsOf(d) \subseteq cut
        BY <2>1, <3>2
      <4>2. ConnectionsOf(d)' = {}
        BY <1>2, <1>6, <4>1 DEF ConnectionsOf
      <4> QED
        BY <4>1, <4>2 DEF IInv, TypeOK
    <3> QED
      BY <3>1, <3>2
  <2> QED
    BY <2>1 DEF DroppedUnused
<1> QED
  BY <1>2, <1>3, <1>4, <1>5, <1>7, <1>8 DEF IInv

(* A loop that fails or is left, and a process that ends with its          *)
(* connections.                                                            *)
LEMMA EndKeeps ==
  ASSUME IInv, NEW d \in Daemons, AcceptFails(d) \/ Leave(d) \/ Exit(d)
  PROVE  IInv'
<1>1. CASE AcceptFails(d)
  BY <1>1, ClosingKeeps DEF AcceptFails, IInv, TypeOK
<1>2. CASE Leave(d)
  <2>1. {c \in ConnectionsOf(d) : conn[c] = "pending"} \in SUBSET ConnectionsOf(d)
    OBVIOUS
  <2> QED
    BY <1>2, <2>1, ClosingKeeps DEF Leave, DropState, IInv, TypeOK
<1>3. CASE Exit(d)
  <2>1. d \in signalled
    BY <1>3 DEF Exit, IInv, LeavingIsAsked
  <2> QED
    BY <1>3, <2>1, ClosingKeeps DEF Exit, IInv, TypeOK
<1> QED
  BY <1>1, <1>2, <1>3

(* A request is taken up by the daemon the client is connected to, once.   *)
LEMMA HandleKeeps ==
  ASSUME IInv, NEW c \in Clients, Handle(c)
  PROVE  IInv'
<1>1. /\ conn[c] = "serving" /\ conn' = [conn EXCEPT ![c] = "answering"]
      /\ handled' = [handled EXCEPT ![c] = @ + 1]
      /\ server[c] \in Daemons /\ UNCHANGED <<daemon, client, command, server, kept, broken>>
  BY DEF Handle, IInv, TypeOK
<1>2. signalled \subseteq signalled' /\ signalled' \subseteq Daemons
  BY <1>1 DEF Handle, Signal, IInv, TypeOK
<1>3. TypeOK'
  BY <1>1, <1>2 DEF Handle, IInv, TypeOK, ConnStates
<1>4. (ConnectionsLive /\ RenewingHolds)'
  BY <1>1 DEF IInv, TypeOK, ConnectionsLive, RenewingHolds
<1>5. (ServedLives /\ LeavingIsAsked)'
  BY <1>1, <1>2 DEF IInv, ServedLives, LeavingIsAsked
<1>6. \A e \in Daemons : ConnectionsOf(e)' = ConnectionsOf(e)
  BY <1>1 DEF ConnectionsOf, IInv, TypeOK
<1>7. (OneOwner /\ DroppedUnused)'
  BY <1>1, <1>6 DEF IInv, OneOwner, DroppedUnused, HasInstance
<1>8. client[c] \in {"asking", "reasking"}
  BY DEF Handle
<1>9. (CountsFollow /\ OutcomeTellsEffect)'
  BY <1>1, <1>8 DEF IInv, TypeOK, CountsFollow, OutcomeTellsEffect
<1> QED
  BY <1>3, <1>4, <1>5, <1>7, <1>9 DEF IInv

\* One connection ends, with its clone of the service.
LEMMA ConnectionEnds ==
  ASSUME IInv, NEW c \in Clients, conn[c] \in {"serving", "answering"},
         conn'[c] = "none", client'[c] \notin {"asking", "reasking"},
         \A x \in Clients \ {c} : conn'[x] = conn[x] /\ client'[x] = client[x],
         client' \in [Clients -> ClientStates], conn' \in [Clients -> ConnStates],
         LetGo(c), UNCHANGED <<daemon, signalled, command, server, broken, handled>>,
         (CountsFollow /\ OutcomeTellsEffect)'
  PROVE  IInv'
<1>1. server[c] \in Daemons
  BY DEF IInv, TypeOK
<1>2. \/ kept' = kept
      \/ /\ kept' = kept \ {server[c]} /\ daemon[server[c]] = "left"
         /\ ConnectionsOf(server[c]) = {c}
  BY DEF LetGo, DropState
<1>3. TypeOK'
  BY <1>2 DEF IInv, TypeOK
<1>4. (ConnectionsLive /\ RenewingHolds)'
  BY DEF IInv, TypeOK, ConnectionsLive, RenewingHolds
<1>5. (ServedLives /\ LeavingIsAsked)'
  BY DEF IInv, ServedLives, LeavingIsAsked
<1>6. \A e \in Daemons : ConnectionsOf(e)' = ConnectionsOf(e) \ {c}
  BY DEF ConnectionsOf, IInv, TypeOK
<1>7. OneOwner'
  BY <1>1, <1>6 DEF IInv, OneOwner, HasInstance
<1>8. DroppedUnused'
  BY <1>1, <1>2, <1>6 DEF IInv, DroppedUnused
<1> QED
  BY <1>3, <1>4, <1>5, <1>7, <1>8 DEF IInv

(* An answer that is taken or refused, and a connection that fails: the    *)
(* request had its effect before the answer.                               *)
LEMMA AnswerKeeps ==
  ASSUME IInv, NEW c \in Clients, Answer(c) \/ ConnectionFails(c)
  PROVE  IInv'
<1>1. CASE Answer(c)
  <2>1. PICK end \in {"answered", Disappointed(c, "refused")} :
          client' = [client EXCEPT ![c] = end]
    BY <1>1 DEF Answer
  <2>2. /\ conn[c] = "answering" /\ conn' = [conn EXCEPT ![c] = "none"]
        /\ client[c] \in {"asking", "reasking"} /\ LetGo(c)
        /\ UNCHANGED <<daemon, signalled, command, server, broken, handled>>
    BY <1>1 DEF Answer, IInv, TypeOK
  <2>3. /\ end \in {"answered", "refused", "spawning"}
        /\ command[c] # "ensure" => end \in {"answered", "refused"} /\ client[c] = "asking"
    BY <2>2 DEF Disappointed, IInv, CountsFollow
  <2>4. /\ client'[c] = end /\ conn'[c] = "none"
        /\ \A x \in Clients \ {c} : conn'[x] = conn[x] /\ client'[x] = client[x]
        /\ client' \in [Clients -> ClientStates] /\ conn' \in [Clients -> ConnStates]
    BY <2>1, <2>2, <2>3 DEF IInv, TypeOK, ClientStates, ConnStates, Ends
  <2>5. (CountsFollow /\ OutcomeTellsEffect)'
    BY <2>2, <2>3, <2>4 DEF IInv, CountsFollow, OutcomeTellsEffect
  <2> QED
    BY <2>2, <2>3, <2>4, <2>5, ConnectionEnds
<1>2. CASE ConnectionFails(c)
  <2>1. /\ conn[c] \in {"serving", "answering"} /\ CutOff({c}) /\ LetGo(c)
        /\ UNCHANGED <<daemon, signalled, command, server, broken, handled>>
    BY <1>2 DEF ConnectionFails
  <2>2. {c} \in SUBSET Clients /\ \A x \in {c} : conn[x] # "none"
    BY <2>1
  <2>3. /\ conn'[c] = "none" /\ client'[c] \in {"spawning", "cut"}
        /\ \A x \in Clients \ {c} : conn'[x] = conn[x] /\ client'[x] = client[x]
        /\ client' \in [Clients -> ClientStates] /\ conn' \in [Clients -> ConnStates]
        /\ (CountsFollow /\ OutcomeTellsEffect)'
    BY <2>1, <2>2, CutOffCounts
  <2> QED
    BY <2>1, <2>3, ConnectionEnds
<1> QED
  BY <1>1, <1>2

(* A client opens an instance that is free.                                *)
LEMMA OpenKeeps ==
  ASSUME IInv, NEW c \in Clients, Open(c)
  PROVE  IInv'
<1>1. PICK d \in Daemons : Free(d) /\ server' = [server EXCEPT ![c] = d]
  BY DEF Open
<1>2. /\ daemon[d] = "listening" /\ client[c] \in {"opening", "reopening"}
      /\ conn[c] = "none" /\ conn' = [conn EXCEPT ![c] = "pending"]
      /\ UNCHANGED <<daemon, signalled, command, kept, broken, handled>>
  BY <1>1 DEF Free, Open, Opening, IInv, TypeOK
<1>3. /\ client' \in [Clients -> ClientStates]
      /\ client'[c] = IF client[c] = "opening" THEN "asking" ELSE "reasking"
      /\ \A x \in Clients \ {c} : client'[x] = client[x]
  BY DEF Open, IInv, TypeOK, ClientStates
<1>4. TypeOK'
  BY <1>1, <1>2, <1>3 DEF IInv, TypeOK, ConnStates
<1>5. (ConnectionsLive /\ RenewingHolds)'
  BY <1>1, <1>2 DEF IInv, TypeOK, ConnectionsLive, RenewingHolds
<1>6. (ServedLives /\ LeavingIsAsked)'
  BY <1>1, <1>2 DEF IInv, TypeOK, ServedLives, LeavingIsAsked
<1>7. /\ ConnectionsOf(d)' = ConnectionsOf(d) \cup {c}
      /\ \A e \in Daemons \ {d} : ConnectionsOf(e)' = ConnectionsOf(e)
  BY <1>1, <1>2 DEF ConnectionsOf, IInv, TypeOK
<1>8. (OneOwner /\ DroppedUnused)'
  BY <1>2, <1>7 DEF IInv, OneOwner, DroppedUnused, HasInstance
<1>9. (CountsFollow /\ OutcomeTellsEffect)'
  BY <1>2, <1>3 DEF IInv, TypeOK, CountsFollow, OutcomeTellsEffect
<1> QED
  BY <1>4, <1>5, <1>6, <1>8, <1>9 DEF IInv

(* A command begins, starts a daemon, or gives up.                         *)
LEMMA CommandKeeps ==
  ASSUME IInv, NEW c \in Clients, Begin(c) \/ GiveUp(c) \/ Spawn(c)
  PROVE  IInv'
<1>1. UNCHANGED <<signalled, server, conn, kept, broken, handled>>
  BY DEF Begin, GiveUp, Spawn
<1>2. /\ client[c] \in {"idle", "opening", "reopening", "spawning"}
      /\ client'[c] \in {"opening", "spawning", "reopening", "unreached"}
      /\ client' \in [Clients -> ClientStates] /\ command' \in [Clients -> RequestKinds]
      /\ \A x \in Clients \ {c} : client'[x] = client[x] /\ command'[x] = command[x]
      /\ client'[c] = "opening" <=> client[c] = "idle"
      /\ client[c] # "idle" => command'[c] = command[c]
      /\ client'[c] \in {"spawning", "reopening"} =>
           command[c] = "ensure" \/ client[c] = "spawning"
  <2>1. CASE Begin(c)
    BY <2>1 DEF Begin, IInv, TypeOK, ClientStates
  <2>2. CASE GiveUp(c)
    BY <2>2 DEF GiveUp, Opening, Disappointed, IInv, TypeOK, ClientStates, Ends
  <2>3. CASE Spawn(c)
    BY <2>3 DEF Spawn, IInv, TypeOK, ClientStates, Ends
  <2> QED
    BY <2>1, <2>2, <2>3
<1>3. /\ daemon' \in [Daemons -> DaemonStates]
      /\ \A d \in Daemons : daemon'[d] = daemon[d] \/ (daemon[d] = "unborn" /\ daemon'[d] = "starting")
  BY DEF Begin, GiveUp, Spawn, IInv, TypeOK, DaemonStates
<1>4. TypeOK'
  BY <1>1, <1>2, <1>3 DEF IInv, TypeOK
<1>5. (ConnectionsLive /\ RenewingHolds)'
  BY <1>1, <1>3 DEF IInv, TypeOK, ConnectionsLive, RenewingHolds
<1>6. ServedLives'
  BY <1>1, <1>3 DEF IInv, TypeOK, ServedLives
<1>7. LeavingIsAsked'
  BY <1>1, <1>3 DEF IInv, TypeOK, LeavingIsAsked
<1>8. (OneOwner /\ DroppedUnused)'
  BY <1>1, <1>3 DEF IInv, OneOwner, DroppedUnused, HasInstance, ConnectionsOf
<1>9. CountsFollow'
  BY <1>1, <1>2 DEF IInv, CountsFollow
<1>10. OutcomeTellsEffect'
  BY <1>1, <1>2 DEF IInv, CountsFollow, OutcomeTellsEffect
<1> QED
  BY <1>4, <1>5, <1>6, <1>7, <1>8, <1>9, <1>10 DEF IInv

(* IInv is inductive.                                                      *)
LEMMA NextKeepsInvariant == IInv /\ [Next]_vars => IInv'
<1> SUFFICES ASSUME IInv, [Next]_vars PROVE IInv'
  OBVIOUS
<1>1. ASSUME NEW d \in Daemons, RunDaemon(d) \/ AcceptFails(d)
      PROVE  IInv'
  BY <1>1, BindKeeps, AcceptKeeps, RenewKeeps, EndKeeps DEF RunDaemon
<1>2. ASSUME NEW c \in Clients, Begin(c) \/ Connection(c) \/ ConnectionFails(c) \/ Command(c)
      PROVE  IInv'
  BY <1>2, HandleKeeps, AnswerKeeps, OpenKeeps, CommandKeeps DEF Connection, Command
<1>3. CASE UNCHANGED vars
  BY <1>3
  DEF vars, IInv, TypeOK, ConnectionsLive, RenewingHolds, ServedLives, LeavingIsAsked,
      OneOwner, DroppedUnused, CountsFollow, OutcomeTellsEffect, HasInstance, ConnectionsOf
<1> QED
  BY <1>1, <1>2, <1>3 DEF Next

(* The invariant holds for any number of daemons and clients.              *)
THEOREM InvariantHolds == Spec => []IInv
  BY InitHolds, NextKeepsInvariant, PTL DEF Spec

(* Sessions and targets belong to one daemon, however many are started at  *)
(* once, and its state goes only after its loop and its last connection    *)
(* (run_daemon, create_server).                                            *)
THEOREM OwnershipAlwaysHolds == Spec => []OwnershipHolds
<1>1. IInv => OwnershipHolds
  BY DEF IInv, OwnershipHolds
<1> QED
  BY <1>1, InvariantHolds, PTL

(* What a command may conclude from how it ended, whoever exits, fails or  *)
(* gives up in between: never reached, no effect; answered, also with an   *)
(* answer it refuses, one effect; cut off, at most one (request_json).     *)
THEOREM OutcomesTellEffects == Spec => []OutcomeTellsEffect
<1>1. IInv => OutcomeTellsEffect
  BY DEF IInv
<1> QED
  BY <1>1, InvariantHolds, PTL

(* However many daemons `daemon ensure` starts, commands meet the same one *)
(* until one of those they met is asked to stop or fails (run_daemon).     *)
THEOREM OneDaemonAlwaysServes == Spec => []OneDaemonServes
<1>1. IInv => OneDaemonServes
  <2> SUFFICES ASSUME IInv, NEW b \in Clients, NEW c \in Clients,
                      server[b] # NoDaemon, server[c] # NoDaemon,
                      server[b] \notin signalled \cup broken,
                      server[c] \notin signalled \cup broken
               PROVE  server[b] = server[c]
    BY DEF OneDaemonServes
  <2>1. server[b] \in Daemons /\ server[c] \in Daemons
    BY DEF IInv, TypeOK
  <2>2. \A d \in Daemons : daemon[d] \in {"listening", "renewing"} => HasInstance(d)
    BY DEF IInv, RenewingHolds, HasInstance, ConnectionsOf
  <2>3. HasInstance(server[b]) /\ HasInstance(server[c])
    BY <2>1, <2>2 DEF IInv, ServedLives
  <2> QED
    BY <2>1, <2>3 DEF IInv, OneOwner
<1> QED
  BY <1>1, InvariantHolds, PTL
=============================================================================
