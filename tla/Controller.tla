----------------------------- MODULE Controller -----------------------------
(***************************************************************************)
(* The controller as a process: purplemow.c initializes the modules, runs  *)
(* the phases they have registered to (modules.c) and so brings up the     *)
(* command line, the transport, the threads and the configuration; the     *)
(* thread of the command line then runs phases too, and the file of the    *)
(* configuration outlives the process.                                     *)
(*                                                                         *)
(* Two mutexes are modelled: that of the modules, held while the callbacks *)
(* of a phase run, and that of the commands.  The mutex of the             *)
(* configuration is not: its users are the main thread before there is     *)
(* another one, and the thread of the command line.                        *)
(***************************************************************************)
EXTENDS Integers, SequencesExt

CONSTANTS
  Default,      \* Default[n]: what the sensors set item n to
  Values,       \* what an operator may set an item to
  Files,        \* contents of the configuration file before the first start
  Transports,   \* the transports to build with: "net", "i2c"
  MaxFiles,     \* descriptors the process has left
  MaxRestarts   \* bound: starts after the first one

NoFile == [exists |-> FALSE, lines |-> <<>>]
FileOf(ls) == [exists |-> TRUE, lines |-> ls]

\* The items in the order in which sensor_range_register_values creates them.
Names == <<"sensor.range.threshold", "sensor.range.hysteresis">>
Items == ToSet(Names)
\* Any name and any type besides theirs stand for all others.
Lines == [name : Items \cup {"unknown"}, type : {"int", "unknown"}, value : Int]
Contents == {NoFile} \cup [exists : {TRUE}, lines : Seq(Lines)]

ASSUME ControllerAssumption ==
  /\ Default \in [Items -> Int]
  /\ Values \subseteq Int
  /\ Files \subseteq Contents
  /\ Transports \subseteq {"net", "i2c"}
  /\ MaxFiles \in Nat \ {0}
  /\ MaxRestarts \in Nat

\* Mutant: The transport is initialized after the communicator.
InitOrderSwapped ==
  <<"cli", "local_cli", "config", "communicator", "io", "sensors", "dcn", "mow">>

InitOrder == <<"cli", "local_cli", "config", "io", "communicator", "sensors",
               "dcn", "mow">>

\* Mutant: The configuration is loaded before the defaults.
MainPhasesDefaultsLast ==
  <<"REGISTER_COMMANDS", "REGISTER_VALUES", "LOAD_CONFIG",
    "LOAD_DEFAULT_VAULES", "START", "START_SENSORS", "MOW">>

MainPhases == <<"REGISTER_COMMANDS", "REGISTER_VALUES", "LOAD_DEFAULT_VAULES",
                "LOAD_CONFIG", "START", "START_SENSORS", "MOW">>

Phases == ToSet(MainPhases) \cup {"SAVE_CONFIG"}

\* What the init function of a module registers to the phases, in its order.
Registrations(m) ==
  CASE m = "local_cli" -> [START |-> <<"local_cli_start">>]
    [] m = "config" -> [REGISTER_COMMANDS |-> <<"config_register_commands">>,
                        LOAD_CONFIG |-> <<"config_load">>,
                        SAVE_CONFIG |-> <<"config_save">>]
    [] m = "io" -> [START |-> <<"io_start", "io_transport_start">>]
    [] m = "communicator" -> [START |-> <<"communicator_start">>]
    [] m = "sensors" ->
         [REGISTER_VALUES |-> <<"sensor_range_register_values">>,
          LOAD_DEFAULT_VAULES |-> <<"sensor_range_load_default_vaules">>,
          START_SENSORS |-> <<"sensors_start">>]
    [] m = "dcn" -> [START |-> <<"dcn_start">>]
    [] m = "mow" -> [MOW |-> <<"mow_mow">>]
    [] OTHER -> <<>>

CallbacksOf(m, p) == IF p \in DOMAIN Registrations(m) THEN Registrations(m)[p] ELSE <<>>

Callbacks == UNION {ToSet(CallbacksOf(m, p)) : m \in ToSet(InitOrder), p \in Phases}

\* The commands an init function registers.
CommandsOf(m) ==
  CASE m = "cli" -> {"?", "help", "echo", "exit"}
    [] m = "communicator" -> {"move"}
    [] m = "dcn" -> {"ip", "ips"}
    [] m = "mow" -> {"mow"}
    [] OTHER -> {}

Commands == {"config", "io_read", "i2c"}
              \cup UNION {CommandsOf(m) : m \in ToSet(InitOrder)}

\* The phase a subcommand of config runs.
PhaseOf == [save |-> "SAVE_CONFIG", load |-> "LOAD_CONFIG",
            default |-> "LOAD_DEFAULT_VAULES"]

Workers == {"communicator", "sensors", "mow"}

VARIABLES
  alive,      \* the process runs
  todo,       \* modules that main has still to initialize
  phases,     \* phases that main has still to run
  registered, \* registered[p]: the callbacks of phase p
  commands,   \* the registered commands
  mutex,      \* the thread that holds the mutex of the modules
  calls,      \* the callbacks it has still to call
  done,       \* history: the callbacks that have returned
  threads,    \* the threads that have been started
  cli,        \* what the thread of the command line does
  input,      \* its standard input: "open", "help" or "closed"
  io,         \* the transport's descriptor
  items,      \* the values of the items that have been created
  leaked,     \* descriptors that config_load has left open
  written,    \* lines config_save has put into its buffer, or NotSaving
  transport,  \* the transport the program is built with
  file,       \* the configuration file
  saved,      \* history: what the last save wrote, or set out to write
  torn,       \* history: that save has not been finished
  restarts

NotSaving == -1

startup == <<todo, phases, registered>>
runner == <<mutex, calls, done>>
line == <<cli, input>>
disk == <<file, saved, torn>>
config == <<items, leaked, written, disk>>
build == <<transport, restarts>>
vars == <<alive, startup, commands, runner, threads, line, io, config, build>>

TypeOK ==
  /\ alive \in BOOLEAN
  /\ todo \in Seq(ToSet(InitOrder))
  /\ phases \in Seq(ToSet(MainPhases))
  /\ registered \in [Phases -> Seq(Callbacks)]
  /\ commands \subseteq Commands
  /\ mutex \in {"none", "main", "cli"}
  /\ calls \in Seq(Callbacks)
  /\ done \subseteq Callbacks
  /\ threads \subseteq Workers
  /\ cli \in {"off", "prompt", "help", "reading", "phase"} \cup DOMAIN PhaseOf
  /\ input \in {"open", "help", "closed"}
  /\ io \in {"closed", "socket", "open"}
  /\ items \in [Items -> Int] \cup {<<>>}
  /\ leaked \in 0..MaxFiles
  /\ written \in NotSaving..Len(Names)
  /\ transport \in Transports
  /\ file \in Contents
  /\ saved \in [Items -> Int]
  /\ torn \in BOOLEAN
  /\ restarts \in 0..MaxRestarts

-----------------------------------------------------------------------------
\* The configuration file.

LineOf(n, v) == [name |-> n, type |-> "int", value |-> v]
LinesOf(its) == [k \in 1..Len(Names) |-> LineOf(Names[k], its[Names[k]])]

\* Mutant: the answer of config_get_item is not looked at.
LoadLineUnknown(its, l) ==
  IF l.type = "int"
  THEN [n \in DOMAIN its \cup {l.name} |-> IF n = l.name THEN l.value ELSE its[n]]
  ELSE its

\* config_load: a line with another type or an unknown name is passed over.
LoadLine(its, l) ==
  IF l.name \in DOMAIN its /\ l.type = "int"
  THEN [its EXCEPT ![l.name] = l.value]
  ELSE its
Loaded(its, f) == FoldLeft(LoadLine, its, f.lines)

-----------------------------------------------------------------------------
Init ==
  /\ alive = TRUE
  /\ todo = InitOrder
  /\ phases = MainPhases
  /\ registered = [p \in Phases |-> <<>>]
  /\ commands = {}
  /\ mutex = "none"
  /\ calls = <<>>
  /\ done = {}
  /\ threads = {}
  /\ cli = "off"
  /\ input = "open"
  /\ io = "closed"
  /\ items = <<>>
  /\ leaked = 0
  /\ written = NotSaving
  /\ transport \in Transports
  /\ file \in Files
  /\ saved = Loaded(Default, file)
  /\ torn = FALSE
  /\ restarts = 0

\* The end of the process, and what is left in the file.
Gone(contents) ==
  /\ alive' = FALSE
  /\ todo' = InitOrder
  /\ phases' = MainPhases
  /\ registered' = [p \in Phases |-> <<>>]
  /\ commands' = {}
  /\ mutex' = "none"
  /\ calls' = <<>>
  /\ done' = {}
  /\ threads' = {}
  /\ cli' = "off"
  /\ input' = "open"
  /\ io' = "closed"
  /\ items' = <<>>
  /\ leaked' = 0
  /\ written' = NotSaving
  /\ file' = contents
  /\ UNCHANGED <<saved, torn, build>>

\* A signal: the buffer of a save is lost.
Killed == alive /\ Gone(file)

\* exit() writes what is in the buffer.
Exits ==
  /\ alive
  /\ Gone(IF written = NotSaving THEN file ELSE FileOf(SubSeq(LinesOf(items), 1, written)))

Restart ==
  /\ ~alive /\ restarts < MaxRestarts
  /\ alive' = TRUE
  /\ restarts' = restarts + 1
  /\ UNCHANGED <<startup, commands, runner, threads, line, io, config,
                 transport>>

-----------------------------------------------------------------------------
\* The phases, modules.c.

\* module_register_to_phase
RegisteredWith(m) == [p \in Phases |-> registered[p] \o CallbacksOf(m, p)]

\* main: the init functions, one after the other, while there is one thread.
InitModule ==
  /\ alive /\ todo # <<>>
  /\ registered' = RegisteredWith(Head(todo))
  /\ commands' = commands \cup CommandsOf(Head(todo))
  /\ todo' = Tail(todo)
  /\ UNCHANGED <<alive, phases, runner, threads, line, io, config, build>>

\* message_open exits when it gets no queue.
NoQueue == todo # <<>> /\ Head(todo) \in {"communicator", "sensors", "mow"} /\ Exits

\* find_ips makes a list of the addresses, which never changes again, and reads
\* through the address of an interface that has none.
FindIpsFails == todo # <<>> /\ Head(todo) = "dcn" /\ Killed

InitFails == NoQueue \/ FindIpsFails

\* modules_run_phase takes the mutex ...
RunPhase(t, p) ==
  /\ mutex = "none"
  /\ mutex' = t
  /\ calls' = registered[p]

MainRunPhase ==
  /\ alive /\ todo = <<>> /\ phases # <<>>
  /\ RunPhase("main", Head(phases))
  /\ UNCHANGED <<alive, startup, commands, done, threads, line, io, config,
                 build>>

\* ... calls one function after the other, whatever they return ...
Calls(f) == alive /\ mutex # "none" /\ calls # <<>> /\ Head(calls) = f

Returns ==
  /\ calls' = Tail(calls)
  /\ done' = done \cup {Head(calls)}
  /\ UNCHANGED <<alive, startup, mutex, input, build>>

\* Mutant: A phase without the thread of main keeps the mutex.
EndPhaseKeeping ==
  /\ alive /\ mutex # "none" /\ calls = <<>>
  /\ mutex' = IF mutex = "main" THEN "none" ELSE mutex
  /\ phases' = IF mutex = "main" THEN Tail(phases) ELSE phases
  /\ cli' = IF mutex = "cli" THEN "prompt" ELSE cli
  /\ UNCHANGED <<alive, todo, registered, commands, calls, done, threads,
                 input, io, config, build>>

\* ... and gives the mutex back.
EndPhase ==
  /\ alive /\ mutex # "none" /\ calls = <<>>
  /\ mutex' = "none"
  /\ phases' = IF mutex = "main" THEN Tail(phases) ELSE phases
  /\ cli' = IF mutex = "cli" THEN "prompt" ELSE cli
  /\ UNCHANGED <<alive, todo, registered, commands, calls, done, threads,
                 input, io, config, build>>

-----------------------------------------------------------------------------
\* The callbacks.

\* Mutant: cli_execute_command keeps the mutex of the commands during the call.
RegistersWhenIdle(c) == cli \in {"off", "prompt"} /\ commands' = commands \cup {c}

\* cli_register_command waits for the mutex of the commands.
Registers(c) == cli # "help" /\ commands' = commands \cup {c}

ConfigRegisterCommands ==
  /\ Calls("config_register_commands")
  /\ Registers("config")
  /\ Returns
  /\ UNCHANGED <<threads, cli, io, config>>

\* config_create_item: a new item is 0, an old one stays as it is.
RegisterValues ==
  /\ Calls("sensor_range_register_values")
  /\ items' = [n \in Items |-> IF n \in DOMAIN items THEN items[n] ELSE 0]
  /\ Returns
  /\ UNCHANGED <<commands, threads, cli, io, leaked, written, disk>>

\* The sensor writes through its pointers to the items, which are NULL before.
LoadDefaults ==
  /\ Calls("sensor_range_load_default_vaules")
  /\ IF DOMAIN items # Items THEN Killed ELSE
     /\ items' = Default
     /\ Returns
     /\ UNCHANGED <<commands, threads, cli, io, leaked, written, disk>>

HasDescriptor == leaked < MaxFiles

\* The file is not closed again.
ConfigLoad ==
  /\ Calls("config_load")
  /\ IF HasDescriptor /\ file.exists
     THEN items' = Loaded(items, file) /\ leaked' = leaked + 1
     ELSE UNCHANGED <<items, leaked>>
  /\ Returns
  /\ UNCHANGED <<commands, threads, cli, io, written, disk>>

\* config_save: fopen empties the file ...
SaveOpen ==
  /\ Calls("config_save") /\ written = NotSaving
  /\ HasDescriptor
  /\ file' = FileOf(<<>>)
  /\ written' = 0
  /\ saved' = items /\ torn' = TRUE
  /\ UNCHANGED <<alive, startup, commands, runner, threads, line, io, items,
                 leaked, build>>

SaveOpenFails ==
  /\ Calls("config_save") /\ written = NotSaving
  /\ ~HasDescriptor
  /\ Returns
  /\ UNCHANGED <<commands, threads, cli, io, config>>

\* ... each item goes to the buffer ...
SaveItem ==
  /\ Calls("config_save") /\ written \in 0..(Len(Names) - 1)
  /\ written' = written + 1
  /\ UNCHANGED <<alive, startup, commands, runner, threads, line, io, items,
                 leaked, disk, build>>

\* ... and fclose writes it.
SaveClose ==
  /\ Calls("config_save") /\ written = Len(Names)
  /\ file' = FileOf(LinesOf(items))
  /\ written' = NotSaving
  /\ torn' = FALSE
  /\ Returns
  /\ UNCHANGED <<commands, threads, cli, io, items, leaked, saved>>

\* thread_start may fail; nobody looks at what it returns.
LocalCliStart ==
  /\ Calls("local_cli_start")
  /\ cli' \in {"prompt", "off"}
  /\ Returns
  /\ UNCHANGED <<commands, threads, io, config>>

WorkerOf == [communicator_start |-> "communicator", sensors_start |-> "sensors",
             mow_mow |-> "mow"]

StartWorker ==
  /\ \E f \in DOMAIN WorkerOf :
       /\ Calls(f)
       /\ threads' \in {threads, threads \cup {WorkerOf[f]}}
  /\ Returns
  /\ UNCHANGED <<commands, cli, io, config>>

DcnStart ==
  /\ Calls("dcn_start")
  /\ Returns
  /\ UNCHANGED <<commands, threads, cli, io, config>>

IoStart ==
  /\ Calls("io_start")
  /\ Registers("io_read")
  /\ Returns
  /\ UNCHANGED <<threads, cli, io, config>>

\* io_net_start: the descriptor of the socket is stored before it is connected.
NetSocket ==
  /\ Calls("io_transport_start") /\ transport = "net" /\ io = "closed"
  /\ io' = "socket"
  /\ UNCHANGED <<alive, startup, commands, runner, threads, line, config,
                 build>>

NetConnect ==
  /\ Calls("io_transport_start") /\ io = "socket"
  /\ io' = "open"
  /\ Returns
  /\ UNCHANGED <<commands, threads, cli, config>>

NetFails == Calls("io_transport_start") /\ transport = "net" /\ Exits

\* io_i2c_start goes on when there is no device.
I2cStart ==
  /\ Calls("io_transport_start") /\ transport = "i2c"
  /\ \/ Registers("i2c") /\ io' = "open"
     \/ io' \in {"closed", "open"} /\ UNCHANGED commands
  /\ Returns
  /\ UNCHANGED <<threads, cli, config>>

Callback ==
  \/ ConfigRegisterCommands \/ RegisterValues \/ LoadDefaults \/ ConfigLoad
  \/ SaveOpen \/ SaveOpenFails \/ SaveItem \/ SaveClose
  \/ LocalCliStart \/ StartWorker \/ DcnStart
  \/ IoStart \/ NetSocket \/ NetConnect \/ NetFails \/ I2cStart

-----------------------------------------------------------------------------
\* The thread of the command line, local_cli_listen and cli_execute_command.

\* The mutex of the commands is held while the item is sought, and given back
\* before its function is called.
Finds(c) == alive /\ cli = "prompt" /\ c \in commands

\* At the end of the input fgets leaves the buffer alone, in which only the
\* first word of the last line is left: of all commands help runs on for ever.
Typed(c) ==
  /\ Finds(c)
  /\ input # "closed"
  /\ input = "help" => c = "help"

EndOfInput ==
  /\ alive /\ cli = "prompt" /\ input = "open"
  /\ input' \in {"help", "closed"}
  /\ UNCHANGED <<alive, startup, commands, runner, threads, cli, io, config,
                 build>>

Help ==
  /\ Typed("help")
  /\ cli' = "help"
  /\ UNCHANGED <<alive, startup, commands, runner, threads, input, io, config,
                 build>>

HelpEnds ==
  /\ alive /\ cli = "help"
  /\ cli' = "prompt"
  /\ UNCHANGED <<alive, startup, commands, runner, threads, input, io, config,
                 build>>

Exit == Typed("exit") /\ Exits

\* config save, load and default
ConfigPhase(sub) ==
  /\ Typed("config")
  /\ cli' = sub
  /\ UNCHANGED <<alive, startup, commands, runner, threads, input, io, config,
                 build>>

CliRunPhase ==
  /\ alive /\ cli \in DOMAIN PhaseOf
  /\ RunPhase("cli", PhaseOf[cli])
  /\ cli' = "phase"
  /\ UNCHANGED <<alive, startup, commands, done, threads, input, io, config,
                 build>>

\* config set
ConfigSet(n, v) ==
  /\ Typed("config")
  /\ n \in DOMAIN items
  /\ items' = [items EXCEPT ![n] = v]
  /\ UNCHANGED <<alive, startup, commands, runner, threads, line, io, leaked,
                 written, disk, build>>

\* ... and without a name it hands NULL to strchr.
ConfigSetNothing == Typed("config") /\ Killed

\* io_read: io_net's write to a socket that connect() has not taken up yet is
\* answered with SIGPIPE; while connect() waits it waits too.
IoRead ==
  /\ Typed("io_read") /\ transport = "net" /\ io # "closed"
  /\ cli' = "reading"
  /\ UNCHANGED <<alive, startup, commands, runner, threads, input, io, config,
                 build>>

IoReadTooEarly == Typed("io_read") /\ transport = "net" /\ io = "socket" /\ Killed

IoAnswer ==
  /\ alive /\ cli = "reading" /\ io = "open"
  /\ cli' = "prompt"
  /\ UNCHANGED <<alive, startup, commands, runner, threads, input, io, config,
                 build>>

CommandLine ==
  \/ EndOfInput \/ Help \/ HelpEnds \/ Exit \/ CliRunPhase
  \/ \E sub \in DOMAIN PhaseOf : ConfigPhase(sub)
  \/ \E n \in Items, v \in Values : ConfigSet(n, v)
  \/ ConfigSetNothing \/ IoRead \/ IoReadTooEarly \/ IoAnswer

\* The commands that are left leave this state alone: echo, ip, ips, mow, i2c,
\* config list, an unknown one, io_read over I2C or without a descriptor.

\* message_send opens the queue each time, and exits without a descriptor; the
\* communicator may send before the sensors do, to a request of an earlier
\* process that is still in its queue.
SendFails ==
  /\ threads # {} \/ Typed("move")
  /\ leaked + (IF written = NotSaving THEN 0 ELSE 1) >= MaxFiles
  /\ Exits

-----------------------------------------------------------------------------
Next ==
  \/ InitModule \/ InitFails \/ MainRunPhase
  \/ Callback \/ EndPhase
  \/ CommandLine
  \/ SendFails \/ Killed \/ Restart

Main == InitModule \/ MainRunPhase \/ (mutex = "main" /\ (Callback \/ EndPhase))
Cli == CliRunPhase \/ HelpEnds \/ (mutex = "cli" /\ (Callback \/ EndPhase))

Spec == Init /\ [][Next]_vars

\* The threads run, connect() and the terminal answer, and a thread that waits
\* for a mutex gets it if it is free again and again.
FairSpec == Spec /\ SF_vars(Main) /\ SF_vars(Cli)

-----------------------------------------------------------------------------
Configured == {"sensor_range_register_values",
               "sensor_range_load_default_vaules", "config_load"}

\* Whatever the modules register, nobody works before what it uses is there:
\* the command line after the configuration has been loaded, the communicator
\* after the transport has been opened or has failed for good, the sensors'
\* pollers after the communicator has been started, the mow thread last.
StartedInOrder ==
  /\ cli # "off" => Configured \subseteq done /\ "config" \in commands
  /\ "communicator" \in threads => "io_transport_start" \in done
  /\ "sensors" \in threads => {"communicator_start", "local_cli_start"} \subseteq done
  /\ "mow" \in threads => "sensors_start" \in done
  /\ cli = "reading" => io # "closed"

Prefix(k) == [n \in Items |-> IF n \in {Names[j] : j \in 1..k} THEN saved[n] ELSE Default[n]]

\* After a start the items have the values of the last save, over restarts,
\* further changes that were not saved and loads and defaults in between.  When
\* that save was cut short they have the defaults; the exit of another thread
\* may save the first ones (config.c:212).
SavedValuesReturn ==
  alive /\ mutex = "none" /\ Len(phases) = 3 =>
    IF torn THEN \E k \in 0..Len(Names) : items = Prefix(k) ELSE items = saved

\* The callbacks of a phase and the commands of a thread that is already there
\* never wait for each other's mutex: the start comes to its end or the process
\* to its own, and so does every config save, load and default.
NobodyWaitsForever ==
  /\ (alive /\ phases # <<>>) ~> (phases = <<>> \/ ~alive)
  /\ (cli \in DOMAIN PhaseOf) ~> (cli = "prompt" \/ ~alive)
=============================================================================
