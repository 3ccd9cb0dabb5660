# PurpleMow in TLA+

PurpleMow is a robotic lawn mower. A Raspberry Pi (`raspberry_pi/`, C, POSIX
threads) or a phone (`android/`, Java) reads the range sensor and the boundary
wire through an Arduino (`arduino/`) and drives two wheels, each with a motor
and a direction relay. A simulator (`simulator/`) stands in for board and
garden over TCP. This directory models the program in TLA+, checks the models
with TLC and proves the central theorems with TLAPS. Paths below are relative to
the repository.

## 1. The system

| part | state | operations | talks to | what makes it hard |
|---|---|---|---|---|
| communicator (`raspberry_pi/communicator.c`) | direction, motor, speed | move, turn, stop, set speed, read a sensor | its queue; the board through `io.c`; the sensors' queues | several io calls with waits per request; writes fail silently; restarts |
| io and transports (`io.c`, `io_net.c`, `io_i2c.c`, `io_gpio.c`) | a socket or a bus | motor, relay, read | the board; also called by the CLI's thread | failed writes and reads go unnoticed; no lock |
| message queues (`messages.c`) | POSIX queues, kept by the kernel | blocking send, blocking receive | every thread | bounded; outlive the process |
| pollers and sensors (`poller.c`, `sensor_range.c`, `sensor_bwf.c`) | too close or ok | poll, handle a value | communicator, mow | hysteresis; a blocked send between decision and state |
| mow (`mow.c`, `utils/state.c`) | stopped, idle, obstacle | handle a decision | communicator | several sends per decision; ring of blocking senders |
| list (`utils/list.c`) | items, links, counter, iterator | add, remove, find, move | CLI, modules, config | pointers to freed memory, ends, counters |
| modules, start-up (`modules.c`, `purplemow.c`) | functions of each phase | register, run | every component | callbacks under a mutex |
| command line (`cli.c`, `local_cli.c`) | ordered list of commands | register, unregister, execute | every component | item used after unlock |
| configuration (`config.c`) | items and a file | create, set, load, save | modules, CLI | check then add; crash while saving |
| network identity (`dcn.c`, `auto_management.c`) | addresses found at start | show, answer pings | CLI | none: constant after start |
| firmware (`arduino/PurpleMow/PurpleMow.ino`) | outputs, I2C buffer | commands over USB and I2C | controller | interrupt handlers against the loop |
| simulator (`simulator/`) | a record and a descriptor for each client, `max_fd` | accept, serve, disconnect | controller | one loop for all clients; shares descriptors and the lock of GDK with the window |
| android bus (`android/core/.../bus`) | subscribers, a queue for each | fire, delay, dispatch | state machines, services | heap order, timers |
| android state machines (`MainFSM`, `MotorFSM`, `MotorController`, `SensorReader`) | mower and motor state | sensor and motor events | bus, stream | overlapping delayed events |
| android services (`MainService`, `CoreControllerImpl`, `ScheduleServiceImpl`, `UsbComStream`) | threads, timers | start, stop, save a schedule | bus, stream | timers never cancelled, blocking reads |
| user interfaces (`android/onboard/.../ui`, `android/webclient`) | views | | services | out of scope |

What has to be right:

- *communicator*: a relay never switches under a running motor; after a request
  wheels and motors are as asked, or else a write was lost; a turn turns.
- *pipeline*: a decision reaches the mow thread once and in order; the drive ends
  where the mow state says; nobody waits for ever; the wheels follow the sensors.
- *list*: read in either direction it is a sequence.
- *phases, CLI, configuration*: nobody works before what it uses is there; a phase
  and a command never wait for each other; what was saved is loaded again.
- *android*: a relay switches only at a stand; a stop is carried out; an obstacle is
  left behind; a saved row is armed, comes at its hours every week, and a start is
  followed by a stop.
- *simulator*: a client's commands reach its own record; others' coming and going
  neither mixes the records up nor starves it; a reader gets its answer.

`PROJECT.json` lists every component with what is modelled of it, and the
hazards of the code with the property that watches each.

## 2. The modules

| module | models | refines |
|---|---|---|
| `IoBoard` | what `io.c` writes and what the board keeps (`Duty`, `Level`) | |
| `Requests` | the requests of `communicator.c` and what each makes of direction, motor and speed | |
| `Communicator` | the communicator's thread, one step for each io call, over a board that may lose writes; crash | `Drive`, while the last writes arrive |
| `Drive` | what the communicator promises: one request after the other, relays switched without power | |
| `CommunicatorProofs` | theorems about `Communicator` and `Drive` | |
| `Mower` | pollers, communicator, sensor threads, mow thread and their queues | |
| `AbstractList` | a sequence with an iterator | |
| `List` | `utils/list.c`: structs with links, counter, freed memory | `AbstractList`, but for the two calls that add at the iterator |
| `CoreBus` | the events of the android program and the order in which a subscriber's queue gives them out | |
| `MotorFSM` | `MotorFSM`, `MotorController` and `UsbComStream`, the reader's use of the stream, the shutdown | |
| `MainFSM` | `MainFSM` with the readings and buttons it gets, over a motor whose handlers are atomic | |
| `Controller` | the process of `purplemow.c`: init functions, phases and their mutex, the command line, the configuration and its file; exit, kill, restart | |
| `Server` | `simulator/mower_net.c` and the connections to it, each shared by two threads of a controller through `io_net.c` | |
| `Schedule` | `ScheduleServiceImpl`: rows, timers, the week | |
| `MowerProofs`, `ListProofs`, `ControllerProofs`, `ServerProofs`, `MotorProofs`, `MainProofs`, `ScheduleProofs` | theorems about `Mower`, `List`, `Controller`, `Server`, `MotorFSM`, `MainFSM`, `Schedule` | |
| `MC*` | the instances TLC checks | |

**Communicator.** `pc` names the next io call of the handler that runs, and the
actions follow the handlers: `MoveStop`, `MoveRelay`, `MoveStart` for `move`;
`TurnStop`, `TurnRelay`, `TurnStart`, `TurnHalt`, `TurnReset`, `TurnResume` for
`turn`, and so on; `direction`, `motor` and `speed` are `struct communicator`. The
board (`IoBoard`) holds two relays and two duty cycles. `Write` loses the write or
not, as `LinkStates` allows: `io_i2c.c:177` and the callers in `io.c` drop every
error. `Crash` ends the process at any point and starts it again. The board then
keeps its outputs, or comes up anew, as the simulator's record of a client does.
It also stands for `message_send_prio`, which may call `exit(1)` at any send,
because `messages.c:123` tests a variable nothing has assigned. `link` is history: whether the
last write to each output has arrived. `Drive` knows nothing of lost writes, and so
`ImplementsDrive` promises its steps only where every last write has.

**Mower.** Each thread is a few actions (`Poll`, `CommDrive`, `CommRead`,
`CommReply`, `SensorTake`, `SensorDecide`, `MowTake`, `MowSend`). An action is a
piece of code up to the next blocking call, so that every interleaving at the
queues occurs. The communicator carries out a motor request in one step here, as the mow
thread and the sensors see nothing of its io calls; what these add up to is the matter of
`Communicator` and `Drive`. `WorldChange` changes what a sensor measures; a read that fails
gives what the transport leaves in the buffer. `Crash` sets the threads and their states
back and keeps the queues. `told` is a history variable.

**List.** `AbstractList` is what `list.h` and the comments of `list.c` say: a sequence and an
iterator, and calls that add the data they get. Items are addresses, so `malloc` may return a freed one and a stale link
may point to a live item again. `calls` names the calls a client makes and is chosen at
the start. `ClientAssumption` says which mixtures there are: in at one end and out at the other, read
from there; in order only; or anything without a removal at the ends. The code has clients of the
last two kinds (`cli.c`, and `modules.c`, `config.c`, `test.c`); `list_remove_first` is called
by `list_destroy` alone and `list_remove_last` by nobody, so the first kind is what the list could be used for.

**MotorFSM.** A step is one `sendCommand`, since the monitor of the stream is held for
one command and any of them may throw. `job[t]` is the handler thread `t` is in: the
commands it has still to send, and what it stores in the fields of the FSM and of
`MotorController` after them. The thread of the FSM and the thread that destroys the
service both have one. `reader` is the place of the sensor reader, which holds the
monitor while it waits for an answer (`UsbComStream.java:39`). The queue is a
`PriorityBlockingQueue` over events that all compare as equal, so that of three events
waiting the last overtakes the second (`Taken`). Fields without `volatile`
are read as last written. `MowEvent` and `EmergencyStopEvent` are never fired.

**MainFSM.** Its delays are multiples of 500 ms, so time is ticks of that length, and
`timers` a bag of events with the ticks they still wait. A round of the reader (two range
sensors and the wire) may come at any time; constants are those of
`MigrationScript.java`. An increment button is a move of one step, as speeds do not matter here.

**Controller.** Main has three stages: `todo`, the modules whose init function is still to
run; `phases`, those still to run; and the callback it is in. `Registrations` and `CommandsOf` hold
what the init functions register, in their order, so that the order in which things start is
computed and not assumed. `mutex` is that of `modules.c`, held from `RunPhase` to `EndPhase` by
main or by the command line, whose `config save`, `load` and `default` run phases too. The mutex
of the commands is held during `help` and while a command is sought. `items` are the configuration's; `file` outlives the process.
A save is `SaveOpen`, which empties the file, a `SaveItem` for each, into a buffer, and
`SaveClose`. `Exits` writes the buffer out, as `exit()` of any thread does, and `Killed` does not.
`config_load` keeps its descriptor (`leaked`) until the process ends.

**Server.** One thread in five places (`select`, `accept`, `enable`, `scan`, and `hung` or
`killed`), with `mowers`, the `fd_set` and `max_fd` as in the code; `i` is its index in the loop
over descriptors, which the kernel numbers lowest first. `up[c]` holds the commands in a
connection, `down[c]` counts its answers: which answer a thread takes cannot be told, as each is four bytes.
`Close` and `Hang` are the two ends of `disable_mower`. `OpenFile` and `CloseFile`
are the window's save and load handlers, which take a descriptor and hold the lock that
answering a read needs.

**Schedule.** Time is `now`, a step of the week, and `edge`, whether that step's first
millisecond is still running, as a timer that is armed again within it is due at once.
`Target` is what `Calendar` computes: it sets `Calendar.HOUR`, the hour of twelve, and so
leaves the half of the day as it is, while a row holds an hour from 0 to 23
(`ScheduleActivity.java:161`). `timers[<<n, d, kind>>]` is the timer that the `n`th call of `initScheduler` armed;
each call makes a new service object, or clears a map in which no timer has ever been put, so that older
timers go on. `Die` ends the process with its executor.

## 3. What TLC checks

| run | question | result |
|---|---|---|
| `communicator` | any order of requests, any loss, a crash between any two io calls: do relays, motors and turns come out right, is it what `Drive` promises, does the queue drain | yes; `Drive` while the last writes arrive |
| `mower` | can a decision be lost, doubled or reordered; can the controller stop; do the wheels follow the sensors; with a failed read, an operator and a restart over old queues | no; only in the cycle of sends; yes, but for the cycle |
| `mower_jam` | is every decision carried out | no: the ring of blocking sends closes (`messages.c:131`) |
| `list` | is the list a sequence for each of four clients | yes; of an item added at the iterator only the place |
| `list_beside` | does an item added at the iterator hold the data it was added with, as `list.c:753` has it | no: the data is never stored (`list.c:757`) |
| `motor` | with postponed moves, failures and a shutdown: do relays switch at rest, do stops and the shutdown get through | yes, unless the board never answers |
| `main` | is every obstacle left behind, without mixing manoeuvres | yes |
| `controller` | start, commands, saves and crashes: is the order of the start right, does a saved value come back, does anybody wait for ever | yes, except after a save that was cut short |
| `server` | connections that come, are refused and go at any point, two readers on one | records and connections stay together; answers arrive unless the server hangs or dies |
| `schedule` | saves, restarts and weeks: is every row armed, do timers keep their day and their time of the week, does the mower stop again | yes |
| `schedule_hours` | does a timer come at the hour of its row, as the user sets and reads it (`ScheduleActivity.java:161`) | no: `Calendar.HOUR` is the hour of twelve (`ScheduleServiceImpl.java:154`) |
| `go_home` | does a centered mower drive straight | no: a postponed turn comes back every 500 ms (`MotorFSM.java:219`) |

Met while modelling, with no document that says otherwise, or too plain for a run of
their own. The models contain all of those that lie in what they cover.

- *communicator*: a negative speed passes the clamp of `communicator.c:400` and becomes full
  power in a `uint8_t`. A turn before the first move turns nothing (`communicator.c:496`), and the mow
  thread's first decision can be such a turn.
- *list*: `list_add_last` and `list_add_first` count an item twice (`list.c:291`, known to
  `TODO:19`); `list_remove_last` leaves the neighbour a link to the freed item (`list.c:403`);
  `list_add_ordered` adds an item that equals the last one after it has found it
  (`list.c:924`).
- *controller*: `config_load` never closes its file (`config.c:195`), so that after enough
  loads every open fails and a send ends the process; a save that is cut short loses the
  old values (`config.c:212`), while an `exit()` of another thread saves the first
  ones; `config set` without a name hands NULL to `strchr` (`config.c:469`), and an empty line
  makes `cli.c:344` read before its buffer; `handle_range_sensor` ignores the
  configured threshold (`sensor_range.c:208`); `find_ips` reads an IPv6 mask as an IPv4 one
  (`dcn.c:276`).
- *simulator*: `disable_mower` never advances its index (`mower_net.c:129`), so that the server hangs when
  any mower but the first goes; and after the highest connection has closed `max_fd`
  forgets the others (`mower_net.c:511`). The first fault covers the second: `NobodyIsForgotten`.
- *firmware*: `i2c_receive` never advances its index (`PurpleMow.ino:255`), so that no command over
  I2C is understood and a read gives 0.
- *android*: a second move in the same direction sets it while the motor runs, against the assertion of
  `MotorController.java:46` (off unless the VM enables it), and harmlessly, as the relays stay; a sticky restart hands a
  null intent to `MainService.java:58`; timers of older schedules are never cancelled, so that a
  mower may start by a row that has been changed.

In the shutdown of the android service `CoreControllerImpl.java:53` stops the motors from
a second thread: between a handler's relays and motors that thread's stop is overtaken,
so that a relay can switch under a motor that runs again, and a wheel can still run when
both threads are gone and the stream is closed. No document promises otherwise, therefore
`SwitchedAtRest` and `StateIsTheMotion` leave the shutdown out. An answer the board never
gives leaves the reader in the monitor for ever (`Wedged`).

The properties, in words:

- `WheelsFollowDirection`, `MotorsFollowOrder`: between two requests each relay and
  motor whose last write arrived agrees with `struct communicator`.
  `TurnsTheRightWay`: in a turn from a known direction one wheel runs backward, the
  inner one. `RelaySwitchedUnpowered`: a relay changes only if both motors are off
  or a stop was lost.
- `InboxDrains`: a full request queue does not stay full.
- `ImplementsDrive`: the io calls of a request add up to what `Drive` promises, as long as the
  last write to each output arrives; whatever was lost before is made good by the next writes.
- `DecisionsAlternate`: decisions of a sensor alternate over queue, mow thread and
  sensor state. `DriveFollowsMow`: the last move queued is the one the mow state
  stands for. `StuckOnlyInCycle`: when nobody can go on, the ring of sends is closed.
  The first two hold until a crash: the states are then set back, the queues are not.
  `DecisionsCarriedOut`: a decision taken up is carried out (violated);
  `CarriedOutUnlessStuck`: it is, unless the ring closes, whatever else happens.
  `FollowsTheWorld`: without a crash and a closed ring the wheels do not go on forward
  while both sensors stay too close, and do while both stay clear.
- `WalksAgree`: both walks meet the live items, each once, in opposite orders, while
  nobody removes at the ends. `SortedList`: `list_add_ordered` keeps order.
  `IsTheSequence`: the list implements `AbstractList`, read from the end where its
  client removes (violated). `KeepsTheSequence`: every call but the two that add at the iterator is
  a step of it, and those two put their item on the right side.
- `StateIsTheMotion`: between two events and before any failure, `state` and
  `currentMovementSpeed` say what the wheels do. `SwitchedAtRest`: also when a command
  throws between two others. `StopIsCarriedOut`, `ShutdownEnds`: in spite of the reader's
  hold on the monitor. `PostponedMovesSettle`: moves that postpone each other end.
- `ManoeuvreGoesOn`, `MowsAgain`: a mower that avoids an obstacle has the move that ends
  this on its way, whatever the operator presses and however late a queue is drained.
  `OneManoeuvre`, `NotIntoTheObstacle`: while undisturbed.
- `StartedInOrder`: the phases bring up what a thread uses before the thread.
  `SavedValuesReturn`: after any start the items have the values of the last save; if it was
  cut short, its first ones and the defaults. `NobodyWaitsForever`: no deadlock between the two mutexes.
- `RecordsMatchConnections`: every open connection has one enabled record, and a record
  nobody uses is as new. `NobodyIsForgotten`: `max_fd` covers every connection until a file shifts the
  descriptors. `AnswersAreOwed`: for each waiting thread one answer or one read is under way, although two
  threads read without a lock. `AnswersArrive`: liveness.
- `RowsAreArmed`: after the last save every active row has its two timers, however often they have fired. `TimersKeepStep`:
  each timer comes on the day of its row, and no save, start or firing moves it to another time of the
  week, although its hour is read against the half of the day in which it is armed.
  `TimersKeepTheHour`: it comes at the hour its row holds (violated).
  `StopFollowsStart`: whatever is saved in between.

**Bounds.** Queues have one place for the kernel's ten: full, empty and a sender that waits. The
cycle needs `Capacity["main"] + 2` decisions on their way, three here. `MaxEvents` counts
changes of the world, failed reads and requests of an operator, on top of any readings at the start; the pollers
read again and again. One event, beside the crash, is what liveness leaves room for, and with two
sensors it is enough to close the ring. Readings are clear, too close and, of the range sensor, in the
hysteresis, next to the limits. One crash is enough: the state after it is an
initial one with arbitrary board and queues. `communicator` has one reply queue and one reading: the
communicator does not look at what it passes on, and one full queue is what can hold it up. Three list items give a first, an inner and
a last; three data give an ordered list an inside, the other clients do with two
(`MCTwoOfThem`). `MaxCount` bounds the counter only, which no guard of the code reads.
The speeds lie in, above and below the range of a byte.
In `motor` two requests on top of the first move (`MaxEvents`) give three moves that postpone each
other. `MaxLate` lets a timer expire once before the queue has drained,
as when the FSM waits for the monitor; unbounded lateness would fill the queue.
`MaxFailures`: one failed command, lost answer or pulled cable. In `main`
`MaxDisturbances` counts buttons and late queues together; two of them go home and
clock in. `TimerBound` and `HomeBound` limit the events on their way to the motor when the
reader reads: with 3, it reads in the last half of a manoeuvre and at any time after;
what it reads before that is ignored in the state AVOIDING_OBSTACLE. `go_home` allows one
event more on the way home. In `controller` two descriptors (`MaxFiles`) let the second load leave none, and one
restart shows what a save has left, from a file that is missing or was edited by hand
(unknown names, another type, a name twice), on both transports. In `server` three connections meet two records, so
that one is refused and descriptors are used again; one controller sends, two commands ahead of the server,
which takes one at a time. `schedule` has two days of four steps, rows
in the morning, in the afternoon, across noon, switched off and invalid, and three calls of `initScheduler`:
two sets of old timers beside the present one. The wire's readings are under the limit, slightly off (with and
without hysteresis on either side of the narrow threshold), and, in `go_home`, at the centre.

**Fairness.** Per thread: weak of a thread that is not blocked, such as the communicator with a
request, as the scheduler runs it; strong of the threads that send to a queue that is full again and
again (pollers, sensors, mow), as POSIX wakes the sender that has waited longest. Strong fairness of a command to the stream: the reader
sleeps 10 ms between two holds of the monitor. In `main` time passes between the
readings (strong fairness of `Tick`). In `controller` a thread that waits for a mutex gets it if it
is free again and again, and in `server` the lock of GDK and a shared connection likewise (strong
fairness of `Main`, `Cli`, `Network` and the readers); the window's handlers end (weak). In `schedule` time passes and the
executor runs what is due (weak fairness). Nothing is assumed of the operator, the world or crashes.
`CHECK_DEADLOCK FALSE` stands where the system may really stop, which
`StuckOnlyInCycle` then describes.

## 4. What is proved

`CommunicatorProofs`, for all sets of speeds, readings and reply queues, all capacities
and every lossy or lossless link:

- `Invariance`: the inductive invariant. The properties are not inductive, since they
  speak of the thread between two requests. The invariant says for each place of the
  thread which writes of the running handler have been made, so that the board equals
  the goal on every output whose last write arrived.
- `TypeCorrect`, `WheelsCorrect`, `MotorsCorrect`, `TurnsCorrect`, `RelaySafety`: the
  properties of the run `communicator`, from that invariant.
- `Refinement`: `ImplementsDrive`. `pc` is hidden, a handler's last step maps to `Finish`, and each
  io call to a `Work` step, for any step before and after which the last write to each output has arrived. The
  invariant above gives the guards of `Drive`, also when writes were lost earlier.

`ScheduleProofs`, for any number of days, length of the day, rows and calls:

- `Invariance`: types, armed rows, and of every timer its day (`OnItsDay`) and its hour of twelve (`OnItsHour`).
  The day alone is not inductive: a timer is armed again in the half of the day in which it fires, and only since
  it fires when it is due (`DueNow`) does it come back at the same time of the week (`SameTarget`).
  That a call of `initScheduler` finds none of its own timers needs their number to be at most `inits`.
- `RowsStayArmed`, `TimersStayInStep`: the invariant and `TimersKeepStep` of the run `schedule`, the latter
  from `OnItsDay` and from `Steady`, that no step moves a timer. They rest on arithmetic of
  remainders for any divisor (`DivMod`, `DivUnique`, `ModAdd`).

`MowerProofs`, for queues of any capacity, any readings, replies and requests of the operator,
and any number of changes of the world and crashes:

- `TypeCorrect`: the invariant adds to `TypeOK` that a running motor has a heading and that the mow thread,
  while it handles a decision, has its move still to send, perhaps after a turn (`PlanInv`).
- `DriveCorrect`: `DriveFollowsMow`, about the last move in `Q_COMMUNICATOR` or, with none there, the heading
  (`Leaves`); a move sent is the last one, a move taken becomes the heading. The theorem assumes that the
  operator orders no moves (`CliRequests \cap Moves = {}`): `mow.c` never hears of them.
- `DecisionsCorrect`: `DecisionsAlternate`, from lemmas on alternating sequences to which one is
  appended or from which the first is taken.
- `StandsOnlyInCycle`: if no thread has what it waits for (`CanGoOn`), the ring of sends is closed. The
  run `mower` checks in addition that a thread that has it can take a step (`ENABLED`).

`ControllerProofs`, for any defaults and values of the items, any file found at the start, both transports,
any number of descriptors and restarts:

- `StartupInvariant`: the properties speak of one moment of the start each. The invariant says what holds at
  every place of main: which modules have registered (`StartupInv`), which callbacks of the phase have returned
  (`RunnerInv`), that those and no others of main's have been called (`DoneInv`), what the items hold
  (`ItemsInv`), and what the next start would load from the file (`Stored`), also in the middle of a save.
- `TypeCorrect`, `OrderOfStart`, `SavedReturn`: the invariants of the run `controller`. That a saved value comes back
  rests on what `config_load` makes of a file with one more line, a fold (`FoldAppend`, `SeqInduction`, `FoldKeeps`).
  `FoldLeft` is a recursive function on sets of places. That there is one is proved by induction over the
  natural numbers, and that from their being well-founded: the library's theorems of induction take an operator,
  which the provers cannot instantiate, so it is stated for sets here (`NatSet`).

`ServerProofs`, for any number of controllers and mowers, batches of any size and any number of files:

- `Invariance`: records, descriptors and the set `clients` agree only together with where each connection
  is: in the backlog, accepted, open (`BacklogInv`, `AcceptedInv`, `DescriptorInv`). That `max_fd` covers every
  connection holds, until a file shifts the descriptors, since record `k` then has the descriptor `k`
  places after the socket's (`NumbersInv`): only the first record's client can go without hanging the server.
- `TypeCorrect`, `RecordsAgree`, `NobodyForgotten`, `AnswersOwed`: the invariants of the run `server`. A batch of commands has as
  many answers as its parts together, for any split.

`ListProofs`, for any finite set of addresses, any data, any bound of the counter and any clients that
`ClientAssumption` allows:

- `Invariance`: the properties are about walks, which no step of the code makes while it changes a link. The invariant names
  the sequence the links stand for (`Shape(s)`): the forward links lead through it from `first` to `last`, and the
  backward ones through its reverse, each in so far as the client never removes at that end (`Half`); no item
  is in it twice; its items are `live`; the counter is no less than its length. Each call is then one change of `s`
  (`InsertAt`, `RemoveAt`, nothing), and one lemma for each says so (`AddLastKeeps`, ...). They rest on
  lemmas about what an insertion, a removal and the other direction make of a sequence (`InsertReverse`, ...) and what the assignments to
  two links make of a half (`HalfInsert`, `HalfRemove`).
- `WalkIs`: a walk along a half ends with its sequence. A walk is a recursive function of the number of its steps; that there is
  one, and that the item after `n` steps is the one at place `n + 1`, is induction again, and that the bound of the walk is none follows
  from counting (`OnceFits`).
- `TypeCorrect`, `WalksCorrect`, `OrderCorrect`: the invariants of the run `list`.
- `Refinement`: `KeepsTheSequence`; the abstract `contents` is the walk in the client's direction, and the lemma of each call gives
  the abstract step together with the invariant.

`MotorProofs`, for any requests, full speed, late timers and failures:

- `TypeCorrect`: with a full speed of at least `STEP` no command exceeds it. With a smaller one the first
  increment does, since only `move(int)` of `MotorController` has a limit.
- `MotionCorrect`, `RelaySafety`: `StateIsTheMotion` and `SwitchedAtRest`. Neither is inductive, since both speak
  of moments only. `Phases` says, by the commands a handler has still to send, how far the board
  is: before the relays of a move are set the wheels stand or the relays are already as wanted. It holds
  while the cable is up and the service lives; after that the FSM sends nothing, or two threads do.

`MainProofs`, for any readings, constants of the database, buttons and disturbances:

- `Invariance`: `ManoeuvreGoesOn` is inductive with the types alone. The other two are not: `PhaseInv` says, by the number of the
  manoeuvre's events that the motor has got and the tick it is at (`Avoids`), which timers are left, what waits for the motor and
  what the motor does. The start of the program is the end of a manoeuvre.
- `TypeCorrect` (with a full speed of at least `STEP`, as above), `ManoeuvreEnds`, `OneAtATime`, `AwayFromObstacle`: the
  invariants of the run `main`.

They rest on the ASSUMEs of the modules, which TLC evaluates in every run. TLAPS cannot
prove liveness and ENABLED: `InboxDrains`, `CarriedOutUnlessStuck`, `FollowsTheWorld`,
`AnswersArrive`, `NobodyWaitsForever`,
`StopIsCarriedOut`, `ShutdownEnds`, `PostponedMovesSettle`, `MowsAgain`, `StopFollowsStart` and the second half of `StuckOnlyInCycle` stay with
TLC. Every other property of a passing run is a theorem.

## 5. Not modelled

Debug output and wording; `io_gpio.c` (another board of the same shape); the stop of the
transports (registered to a phase nobody runs); `state_stash` and `state_pop`,
`cli_unregister_command` (never called); two priorities of messages (one is
used, and `messages.h:43` numbers them against POSIX); `auto_management.c`, `mlisten.c` and
`remote_cli.c` (compiled out) and the addresses of `dcn.c` (constant after the start);
the firmware's I2C interface, which understands no command (see 3), and its loop over USB, a plain request and
answer; geometry and drawing of the simulator (floating point), its `READABLE_COMMANDS` (not
defined) and the thread that moves the mowers, which only reads the records; the sensor data kept for charts; views, RPC and third-party code of the
Android tree.

## 6. Plan

Done: communicator, `Drive` and their proofs; the pipeline; the list; phases, command line and
configuration; the shared socket and the simulator's server; the android bus and state
machines; the schedule; the proofs about each of these.

Left, in this order:

1. The life cycle of the android service before the shutdown; `SensorReader`'s buffers.
2. The firmware's loop over USB against the reconnecting phone.
