------------------------------- MODULE Server -------------------------------
(***************************************************************************)
(* The simulator's server (simulator/mower_net.c) and the controllers that *)
(* use it as their board through raspberry_pi/io_net.c.  One thread serves *)
(* every connection; a controller shares one connection between the        *)
(* communicator's thread and the thread of the command line, whose io_read *)
(* (io.c) takes no lock.  A connection keeps the order of the commands and *)
(* of the answers.                                                         *)
(*                                                                         *)
(* File descriptors are numbered as the kernel does, lowest first.  The    *)
(* window's save and load handlers (purplesim.c) hold another one for a    *)
(* while, under the lock of GDK that a read of a sensor needs too.         *)
(***************************************************************************)
EXTENDS Integers, FiniteSets, SequencesExt

CONSTANTS
  Clients,    \* connections that controllers make; one may be made again later
  MaxMowers,  \* MAX_MOWERS
  Sock,       \* the descriptor of the listening socket
  Writes,     \* Writes[c]: the motor and relay commands that c sends
  Batch,      \* commands that one read of the server takes at most
  Operated,   \* the controllers at whose command line somebody sits
  MaxPending  \* bound: MaxPending[c] commands c sends ahead of the server

Sides == {"left", "right"}
WriteCommands == [op : {"motor", "relay"}, side : Sides, value : 0..255]
Read == [op |-> "read"]
Commands == WriteCommands \cup {Read}

Slots == 0..(MaxMowers - 1)
\* One more connection than there are mowers, and one more file.
Fds == (Sock + 1)..(Sock + MaxMowers + 2)
NoFd == -1

ASSUME ServerAssumption ==
  /\ IsFiniteSet(Clients)
  /\ MaxMowers \in Nat \ {0}
  /\ Sock \in Nat
  /\ Writes \in [Clients -> SUBSET WriteCommands]
  /\ Batch \in Nat \ {0}
  /\ Operated \subseteq Clients
  /\ MaxPending \in [Clients -> Nat]

Threads == {"communicator", "cli"}

VARIABLES
  conn,      \* conn[c]: what the server has made of the connection
  alive,     \* alive[c]: the controller's end is open
  fd,        \* fd[c]: the server's descriptor of it
  up,        \* up[c]: commands under way to the server
  down,      \* down[c]: answers written and not taken
  waiting,   \* waiting[c]: threads of the controller inside read()
  backlog,   \* connections that wait for accept()
  mowers,    \* the records of the mowers
  clients,   \* the fd_set of the connections
  maxFd,     \* max_fd
  pc,        \* where the server's thread is
  i,         \* the first descriptor it has still to look at
  file,      \* the descriptor of the save file while a handler runs
  perturbed  \* history: a connection was accepted meanwhile

client == <<alive, waiting>>
server == <<fd, mowers, clients, maxFd, pc, i>>
vars == <<conn, alive, fd, up, down, waiting, backlog, mowers, clients, maxFd,
          pc, i, file, perturbed>>

\* init_mower
Initial == [enabled |-> FALSE, fd |-> NoFd,
            speed |-> [s \in Sides |-> 0], relay |-> [s \in Sides |-> 1]]
Mowers == [enabled : BOOLEAN, fd : Fds \cup {NoFd},
           speed : [Sides -> 0..255], relay : [Sides -> {-1, 1}]]

TypeOK ==
  /\ conn \in [Clients -> {"off", "backlog", "accepted", "open", "refused"}]
  /\ alive \in [Clients -> BOOLEAN]
  /\ fd \in [Clients -> Fds \cup {NoFd}]
  /\ up \in [Clients -> Seq(Commands)]
  /\ down \in [Clients -> Nat]
  /\ waiting \in [Clients -> SUBSET Threads]
  /\ backlog \in Seq(Clients)
  /\ mowers \in [Slots -> Mowers]
  /\ clients \subseteq Fds
  /\ maxFd \in {Sock + 1} \cup {f + 1 : f \in Fds}
  /\ pc \in {"select", "accept", "enable", "scan", "hung", "killed"}
  /\ i \in {Sock + 1} \cup {f + 1 : f \in Fds}
  /\ file \in Fds \cup {NoFd}
  /\ perturbed \in BOOLEAN

Init ==
  /\ conn = [c \in Clients |-> "off"]
  /\ alive = [c \in Clients |-> FALSE]
  /\ fd = [c \in Clients |-> NoFd]
  /\ up = [c \in Clients |-> <<>>]
  /\ down = [c \in Clients |-> 0]
  /\ waiting = [c \in Clients |-> {}]
  /\ backlog = <<>>
  /\ mowers = [k \in Slots |-> Initial]
  /\ clients = {}
  /\ maxFd = Sock + 1
  /\ pc = "select"
  /\ i = Sock + 1
  /\ file = NoFd
  /\ perturbed = FALSE

-----------------------------------------------------------------------------
\* The controllers.

\* io_net_start: connect() succeeds before the server has accepted.
Connect(c) ==
  /\ conn[c] = "off" /\ ~alive[c]
  /\ conn' = [conn EXCEPT ![c] = "backlog"]
  /\ alive' = [alive EXCEPT ![c] = TRUE]
  /\ backlog' = Append(backlog, c)
  /\ UNCHANGED <<server, up, down, waiting, file, perturbed>>

Connected(c) == alive[c] /\ conn[c] \in {"backlog", "accepted", "open"}

\* io_command_motor and io_command_relay: one write(), no answer.
SendWrite(c, w) ==
  /\ Connected(c) /\ Len(up[c]) < MaxPending[c]
  /\ "communicator" \notin waiting[c]
  /\ up' = [up EXCEPT ![c] = Append(@, w)]
  /\ UNCHANGED <<client, server, conn, down, backlog, file, perturbed>>

\* io_command_read, in either thread: the command is written ...
SendRead(c, t) ==
  /\ Connected(c) /\ Len(up[c]) < MaxPending[c]
  /\ t \notin waiting[c]
  /\ t = "cli" => c \in Operated
  /\ up' = [up EXCEPT ![c] = Append(@, Read)]
  /\ waiting' = [waiting EXCEPT ![c] = @ \cup {t}]
  /\ UNCHANGED <<server, conn, alive, down, backlog, file, perturbed>>

\* Mutant: read() does not wait for the answer.
TakeAnswerAtOnce(c, t) ==
  /\ t \in waiting[c]
  /\ down' = [down EXCEPT ![c] = @ - 1]
  /\ waiting' = [waiting EXCEPT ![c] = @ \ {t}]
  /\ UNCHANGED <<server, conn, alive, up, backlog, file, perturbed>>

\* ... and the next four bytes of the connection are taken for the answer.
TakeAnswer(c, t) ==
  /\ t \in waiting[c] /\ down[c] > 0
  /\ down' = [down EXCEPT ![c] = @ - 1]
  /\ waiting' = [waiting EXCEPT ![c] = @ \ {t}]
  /\ UNCHANGED <<server, conn, alive, up, backlog, file, perturbed>>

\* read() finds the end of a connection that the server has refused.
EndOfStream(c, t) ==
  /\ t \in waiting[c] /\ conn[c] = "refused"
  /\ waiting' = [waiting EXCEPT ![c] = @ \ {t}]
  /\ UNCHANGED <<server, conn, alive, up, down, backlog, file, perturbed>>

\* The controller exits, is killed, or dies of a write to a refused
\* connection; the kernel closes its end.
Exit(c) ==
  /\ alive[c]
  /\ alive' = [alive EXCEPT ![c] = FALSE]
  /\ waiting' = [waiting EXCEPT ![c] = {}]
  /\ down' = [down EXCEPT ![c] = 0]
  /\ conn' = [conn EXCEPT ![c] = IF @ = "refused" THEN "off" ELSE @]
  /\ UNCHANGED <<server, up, backlog, file, perturbed>>

-----------------------------------------------------------------------------
\* The window: button_save_event and button_load_event open the world's file.

FreeFds == Fds \ ({fd[c] : c \in Clients} \cup {file})
LowestFree == CHOOSE f \in FreeFds : \A g \in FreeFds : f <= g

\* The lock of GDK is free: purplesim_get_sensor_value needs it to measure from
\* the mower to each obstacle or wire, and initialize_mower too.
WindowIdle == file = NoFd

\* Each handler reads or writes the whole world, of which nothing is kept here.
OpenFile ==
  /\ WindowIdle /\ pc # "killed"
  /\ file' = LowestFree
  /\ UNCHANGED <<client, server, conn, up, down, backlog, perturbed>>

CloseFile ==
  /\ file # NoFd
  /\ file' = NoFd
  /\ UNCHANGED <<client, server, conn, up, down, backlog, perturbed>>

-----------------------------------------------------------------------------
\* The server's thread, mower_network.

\* Mutant: select() gets the highest descriptor instead of the bound above it.
WatchedBelow(f) == f \in clients /\ f < maxFd - 1

Watched(f) == f \in clients /\ f < maxFd
HasFd(c) == conn[c] = "open"
Readable(c) == up[c] # <<>> \/ ~alive[c]

\* select() waits for the listening socket and for the watched clients.
Select ==
  /\ pc = "select"
  /\ \/ backlog # <<>>
     \/ \E c \in Clients : HasFd(c) /\ Watched(fd[c]) /\ Readable(c)
  /\ pc' = IF backlog # <<>> THEN "accept" ELSE "scan"
  /\ i' = Sock + 1
  /\ UNCHANGED <<client, conn, fd, up, down, backlog, mowers, clients, maxFd,
                 file, perturbed>>

Accept ==
  /\ pc = "accept"
  /\ conn' = [conn EXCEPT ![Head(backlog)] = "accepted"]
  /\ fd' = [fd EXCEPT ![Head(backlog)] = LowestFree]
  /\ backlog' = Tail(backlog)
  /\ perturbed' = (perturbed \/ file # NoFd)
  /\ pc' = "enable"
  /\ UNCHANGED <<client, up, down, mowers, clients, maxFd, i, file>>

FreeSlots == {k \in Slots : ~mowers[k].enabled}
FirstFree == CHOOSE k \in FreeSlots : \A l \in FreeSlots : k <= l

\* enable_new_mower, with its initialize_mower.
Enable(c) ==
  /\ pc = "enable" /\ conn[c] = "accepted"
  /\ FreeSlots # {} /\ WindowIdle
  /\ mowers' = [mowers EXCEPT ![FirstFree].enabled = TRUE,
                              ![FirstFree].fd = fd[c]]
  /\ clients' = clients \cup {fd[c]}
  /\ maxFd' = IF fd[c] >= maxFd THEN fd[c] + 1 ELSE maxFd
  /\ conn' = [conn EXCEPT ![c] = "open"]
  /\ pc' = "scan"
  /\ UNCHANGED <<client, fd, up, down, backlog, i, file, perturbed>>

\* Too many connected.
Refuse(c) ==
  /\ pc = "enable" /\ conn[c] = "accepted"
  /\ FreeSlots = {}
  /\ conn' = [conn EXCEPT ![c] = IF alive[c] THEN "refused" ELSE "off"]
  /\ fd' = [fd EXCEPT ![c] = NoFd]
  /\ up' = [up EXCEPT ![c] = <<>>]
  /\ pc' = "scan"
  /\ UNCHANGED <<client, down, backlog, mowers, clients, maxFd, i, file, perturbed>>

\* get_mower
MowerOf(f) == CHOOSE k \in Slots : mowers[k].enabled /\ mowers[k].fd = f

\* send_data: a command sets one motor or relay of the mower's record, whatever
\* was sent to it before, so that of several the last one counts.
Sets(cmds, op, side) == {k \in DOMAIN cmds : cmds[k].op = op /\ cmds[k].side = side}
Value(cmds, op, side) == cmds[Max(Sets(cmds, op, side))].value
Obeyed(m, cmds) ==
  [m EXCEPT
     !.speed = [s \in Sides |-> IF Sets(cmds, "motor", s) = {} THEN @[s]
                                ELSE Value(cmds, "motor", s)],
     !.relay = [s \in Sides |-> IF Sets(cmds, "relay", s) = {} THEN @[s]
                                ELSE IF Value(cmds, "relay", s) = 0 THEN -1 ELSE 1]]

\* Mutant: send_data leaves *length at 4, so that every command is answered.
AnswersAll(cmd) == TRUE

Answers(cmd) == cmd.op = "read"

\* The client whose turn it is in the loop over the descriptors.
Turn(c) ==
  /\ pc = "scan" /\ HasFd(c)
  /\ Watched(fd[c]) /\ fd[c] >= i
  /\ \A d \in Clients : HasFd(d) /\ Watched(fd[d]) /\ fd[d] >= i => fd[c] <= fd[d]

Size(c) == IF Len(up[c]) < Batch THEN Len(up[c]) ELSE Batch
Taken(c) == SubSeq(up[c], 1, Size(c))
Answered(cmds) == {k \in DOMAIN cmds : Answers(cmds[k])}
AnswersTo(cmds) == Cardinality(Answered(cmds))

\* read() has given some commands: handle_data for each, and the answers.
\* The second answer that is written to a controller that is gone ends the
\* simulator with SIGPIPE.
Serve(c) ==
  /\ Turn(c)
  /\ IF up[c] = <<>> THEN alive[c] ELSE TRUE
  /\ LET n == AnswersTo(Taken(c)) IN
     /\ n > 0 => WindowIdle
     /\ mowers' = [mowers EXCEPT ![MowerOf(fd[c])] = Obeyed(@, Taken(c))]
     /\ up' = [up EXCEPT ![c] = SubSeq(@, Size(c) + 1, Len(@))]
     /\ down' = [down EXCEPT ![c] = @ + n]
     /\ pc' = IF ~alive[c] /\ n > 0 /\ down[c] + n >= 2 THEN "killed" ELSE pc
  /\ i' = fd[c] + 1
  /\ UNCHANGED <<client, conn, fd, backlog, clients, maxFd, file, perturbed>>

\* Mutant: disable_mower advances its index, which uncovers the wrong max_fd.
FindsAny(k, f) == mowers[k].enabled /\ mowers[k].fd = f

\* disable_mower looks at the first record only, as its index stays where it
\* is, and never returns when that is not the one.
Finds(k, f) == k = 0 /\ mowers[k].enabled /\ mowers[k].fd = f

\* The new bound is sought below itself, so that it is always the first one.
Bound(f) == IF f + 1 >= maxFd THEN Sock + 1 ELSE maxFd

EndOfFile(c) == Turn(c) /\ up[c] = <<>> /\ ~alive[c]

\* Mutant: disable_mower only marks the record as free.
CloseKeeping(c) ==
  /\ EndOfFile(c)
  /\ \E k \in Slots :
       /\ Finds(k, fd[c])
       /\ mowers' = [mowers EXCEPT ![k].enabled = FALSE]
  /\ clients' = clients \ {fd[c]}
  /\ maxFd' = Bound(fd[c])
  /\ conn' = [conn EXCEPT ![c] = "off"]
  /\ fd' = [fd EXCEPT ![c] = NoFd]
  /\ down' = [down EXCEPT ![c] = 0]
  /\ i' = fd[c] + 1
  /\ UNCHANGED <<client, up, backlog, pc, file, perturbed>>

Close(c) ==
  /\ EndOfFile(c)
  /\ \E k \in Slots :
       /\ Finds(k, fd[c])
       /\ mowers' = [mowers EXCEPT ![k] = Initial]
  /\ clients' = clients \ {fd[c]}
  /\ maxFd' = Bound(fd[c])
  /\ conn' = [conn EXCEPT ![c] = "off"]
  /\ fd' = [fd EXCEPT ![c] = NoFd]
  /\ down' = [down EXCEPT ![c] = 0]
  /\ i' = fd[c] + 1
  /\ UNCHANGED <<client, up, backlog, pc, file, perturbed>>

Hang(c) ==
  /\ EndOfFile(c)
  /\ \A k \in Slots : ~Finds(k, fd[c])
  /\ pc' = "hung"
  /\ UNCHANGED <<client, conn, fd, up, down, backlog, mowers, clients, maxFd,
                 i, file, perturbed>>

EndScan ==
  /\ pc = "scan"
  /\ \A c \in Clients : HasFd(c) => ~(Watched(fd[c]) /\ fd[c] >= i)
  /\ pc' = "select"
  /\ i' = Sock + 1
  /\ UNCHANGED <<client, conn, fd, up, down, backlog, mowers, clients, maxFd,
                 file, perturbed>>

-----------------------------------------------------------------------------
Network ==
  \/ Select \/ Accept \/ EndScan
  \/ \E c \in Clients : Enable(c) \/ Refuse(c) \/ Serve(c) \/ Close(c) \/ Hang(c)

Controller(c) ==
  \/ Connect(c) \/ Exit(c)
  \/ \E w \in Writes[c] : SendWrite(c, w)
  \/ \E t \in Threads : SendRead(c, t) \/ TakeAnswer(c, t) \/ EndOfStream(c, t)

Next ==
  \/ Network
  \/ OpenFile \/ CloseFile
  \/ \E c \in Clients : Controller(c)

Spec == Init /\ [][Next]_vars

\* The server's thread runs and gets the lock of GDK between two handlers of the
\* window, which end, and a thread that waits in read() is woken in its turn.
FairSpec ==
  /\ Spec
  /\ SF_vars(Network)
  /\ WF_vars(CloseFile)
  /\ \A c \in Operated, t \in Threads :
       SF_vars(TakeAnswer(c, t) \/ EndOfStream(c, t))

-----------------------------------------------------------------------------
Open == {c \in Clients : HasFd(c)}
Stopped == pc \in {"hung", "killed"}

\* The records of the mowers and the set of connections stay together, however
\* clients come and go: every open connection has its own descriptor and
\* exactly one enabled record, no other descriptor is watched, and a record
\* that nobody uses is as init_mower leaves it, so that the next client never
\* inherits a running motor.
RecordsMatchConnections ==
  /\ clients = {fd[c] : c \in Open}
  /\ clients = {mowers[k].fd : k \in {k \in Slots : mowers[k].enabled}}
  /\ Cardinality(clients) = Cardinality(Open)
  /\ Cardinality(clients) = Cardinality({k \in Slots : mowers[k].enabled})
  /\ \A k \in Slots : ~mowers[k].enabled => mowers[k] = Initial

\* After the highest connection has closed, max_fd forgets the others
\* (mower_net.c:511).  They would starve; but the highest one then never has
\* the first record, and disable_mower hangs before that.  Only a file of the
\* window that shifts the descriptors lets the second fault come out.
NobodyIsForgotten ==
  ~perturbed => \A f \in clients : f < maxFd

\* Both threads of a controller read from one connection without a lock, so
\* that each may take the other's answer.  The mix-up ends with the calls that
\* overlap: what is under way is always one answer for each waiting thread,
\* and a thread that reads alone finds nothing old in the connection.
AnswersAreOwed ==
  \A c \in Clients : Connected(c) =>
    Cardinality(waiting[c]) = down[c] + AnswersTo(up[c])

\* A thread in read() gets its answer as long as the server neither hangs in
\* disable_mower nor dies, and no file has shifted the descriptors.
AnswersArrive ==
  \A c \in Operated, t \in Threads :
    (t \in waiting[c]) ~> (t \notin waiting[c] \/ Stopped \/ perturbed)
=============================================================================
