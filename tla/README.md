# Verification of real-time-edge-servo

TLA+ models, TLC runs and TLAPS proofs for the servo motion library `libnservo`
and the programs built on it (`nservo_run`, `nservo_client`, the console tool).
Paths below are relative to the repository.

## The system

| part | state it keeps | operations |
| --- | --- | --- |
| CiA 402 words (`ds402.c`, `include/ds402.h`) | none | decode a status word to a drive state, build control words |
| axis start (`axis_start()` in `tool/nservo_run.c`, `nser_axle_auto_start()` in `nservo.c`) | the control word and mode in the process image | one step of the drive's state machine per period |
| profile position (PP) axis (`pp_update_target_position()`) | `axis_pp_status_t`: target, velocity, a status counter 0..30 | set-up, hold, await; `set_target_position`, `set_profile_velocity` |
| cyclic synchronous position (CSP) axis (`csp_update_target_position()`, `get_next_pos()`, `Tp_arrays_paster()`) | `axis_csp_status_t` and its table of planners, `scale`, `current_position` | next point; load, start, stop, scale |
| profile velocity (PV) axis (`pv_update_target_velocity()`) | `axis_pv_status_t` | first cycle copies the actual velocity; `set_target_velocity` |
| trajectory planner (`trajectory_planner()`, the arithmetic of `get_next_pos()`) | none | a trapezoid for one segment |
| cycle task and life cycle (`nservo.c`) | master states, axle states, cycle counter, `running`, `is_auto_start` | configure, activate, start, one period, stop, deactivate |
| XML configuration (`nser_xml_parse.c`) | the tree of masters, slaves, axles | parse, resolve cross references |
| console tool library (`nservo_config.c`, `include/tool.h`) | a mirror of the process image under a mutex | copy in, copy out, get, set |
| console tool (`tool/console_tool.c`) | flags loaded/activated/started/finished, a history ring | its commands |
| server loop (`main()` and `command_parse()` of `nservo_run`) | poll set of at most one client, a receive buffer | accept, receive, execute, exit |
| network client (`tool/nservo_client.c`) | a connection | connect, send a line, wait for the reply, close |
| examples, scan script | none worth a model | |

How they interact: one *cyclic thread* wakes every period, receives a frame from
every EtherCAT master, updates the states, runs `main_task()` over all axes and
sends the frames. One *command thread* (the server loop) executes client commands.
Both access the same status structures **without a lock**; only the console tool
has a mutex. The drives see what the frames bring them; frames can be lost.

What is hard here: interleaving of the two threads on the shared structures,
a handshake with the drive that has no acknowledgement and only counts periods,
loads that fail half-way, start-up and shut-down orders, arrays indexed by what a
document says, and a byte stream that is cut anywhere. `PROJECT.json`
lists every hazard with its line and the properties aimed at it.

What makes each part correct: a drive is enabled only in its mode; a set point is
stable while the drive may sample it, was meant by somebody and is eventually
taken; a motion table is walked without gaps, inside its bounds and to its end;
masters are used only while active; an update of the console's mirror is neither
lost nor does it undo another one; configuration references resolve to what they
name, and the drives accept what is written to them; a line that was sent is
executed as it was sent and answered; the program comes down in order, whoever
ends it.

## Modules

* `DS402` - the words as sets of bits, `get_axle_state()`, the control word
  macros and `axis_start()`. Bit sets turn C's masks into set operations.
* `CiA402Drive` - the drive, external: the part of the CiA 402 state machine that
  these control words drive.
* `PPAxis` - one PP axis end to end: command thread, cyclic thread, process image,
  line, drive. The cyclic thread has a program counter (`pc`), so that a command
  lands between any two of its accesses to the shared structure: status 0 reads
  and writes `target_position` and `profile_velocity` in four steps
  (`InitTarget` .. `InitDone`), the set-up phase in two. `Send`, `SendLostBefore`
  and `SendLostBehind` are the three fates of a frame. `meant` and `dropped` are
  history variables of the properties only.
* `SetPoints` - what such an axis promises, with no period, frame or status in it: a
  move is *open* while its goal may still change to any place asked for, then *fixed*;
  a fixed move ends when the drive stands on its goal, or has lost its set point
  (`excused`). `PPAxis` implements it (`OneMoveAtATime == Moves!Spec`): the move is fixed
  while `status > SetupEnd`, its goal is the target in the outputs, what was asked for
  is `meant`, what was taken is the drive's set point.
* `CSPAxis` - one CSP axis: `get_next_pos()` in steps between which the command
  thread may act (`NextPoint`, `NextPlanner`, `NextRound`, `PlanOver`, `PlanEnds`),
  `Tp_arrays_paster()` as parameters, table, length, one planner at a time,
  ready; start and stop as a read and a write of the status. Where the points of
  a segment lie is abstracted to the segment's ends and the point's number.
  `client` holds the liberties a client takes; the program itself refuses
  nothing but a load while running and a start that is not ready.
* `Trajectory` - one segment: `trajectory_planner()` as an operator that returns the
  planner's fields, and `Way`, `Point` and `Position`, the arithmetic of `get_next_pos()`; `OnItsWay`
  and `ShortStep` are what properties say of points. `Saturates` chooses what the machine makes of
  a negative double as `uint32_t` (TRUE in the run, as on the i.MX boards' arm64). Doubles are
  replaced by exact numbers: instants are counted in parts of a point, places in
  units of which `2 * Parts * Parts` make a position. `AccelTimes` gives the root the code
  computes with `sqrt()` as the number that solves its equation; a segment whose root is no
  whole number of parts is not considered (`Exact`).
* `Axes` - all the axes of `nservo_run` under one `main_task()`, which serves them one after the
  other (`next`), CSP axes by `csp_update_target_position` with the real points of their
  planners, PV axes by `pv_update_target_velocity`; `Exchange` ends a period. The command thread
  executes `load_tp_file` line by line, `set_start_all` and `set_stop_all` axis by axis and
  `set_target_velocity`, between any two axes that are served. One `csp_update_target_position`
  is one step here and several in `CSPAxis`, which looks inside for one axis. A file is a
  sequence of lines with what may be wrong with each: no label, no bracket, a pair that does
  not parse. `told` and `mates` are history variables.
* `ConsoleTool` - the console tool with the part of `nservo.c` it drives: the
  command thread (`con` holds its four flags, `cpc` its place inside a command),
  the masters as the EtherCAT library sees them (`ecm`), and `cycle_task()` with
  `update_all_pods()` (`pc`: receive, lock, copy, clear, send). `tx` is the mirror
  of the outputs, `image` the outputs in the domain, `mirror` the two flags of a
  `domain_data`, `mutex` its holder. A set command takes the lock, writes, flags
  and releases in three steps. The tool checks little of the order of its
  commands, so `user` holds the liberties a user takes, and a property names those
  it does not speak of. Axle states are sampled, as in the code, every
  `AxleFreq`-th period, and auto start works on the samples. `ordered` and `carried` are history
  variables: what the user set last, and the control word among it when an update was last copied
  out. Get commands change nothing and are left out.
* `LoadConfig` - `nser_app_run_init()` with the XML parser. A document is a value:
  arrays of slave elements per master and of axle elements, as the parser may meet
  them, also with wrong, doubled or missing positions. The C arrays are functions
  from the cells written so far, so that a gap and a cell behind the array can be
  told from a filled one. `ParseSlave`, `ParseAxle` place one element; `ConfigureSlave`
  begins a slave, `StartRound` goes through the loops of `_nser_config_master()` one sync manager
  and PDO (`round`) at a time, `WriteSdo` makes one of the round's writes (`SyncWrites`); the
  drive's assignment and mapping objects are external. `RegisterAxle` finds an axle's objects, `Activate`, `ActivateFails`
  and `Link` are `nser_activate_master(0xff)`. Left out: the numbers that name the
  masters on the bus, a slave's own SDO list, watchdog, emergency buffer and clock,
  failing allocations.
* `CommandLine` - `get_cmd()` of the console tool, one step a key: the ring of lines, the two
  running indices, the cursor, and what `strncpy()` does to the slot behind the current
  one. `adjacent` is where the build puts `buff_index`: a write beyond the ring reaches it or
  reaches nothing that is read. `log` and `wiped` are history variables.
* `Server` - `main()` of `nservo_run` from `user_cycle_task_start()` to the end, with its
  clients and the life of the cyclic thread. `fd1` and `nfds` are the part of `fds[]`
  that is ever polled, `buffer` is the buffer with its `len`; a byte is known by its
  client, line and place, so that what is executed can be compared with what was
  sent. One pass of the loop is `Check`, `Poll`, `Accept` (or `AcceptNone`) and one of the
  four outcomes of a receive; a pass works on what `poll()` found, whatever the
  clients do meanwhile. `habit` holds the liberties clients take. Left out: a failing
  `accept()`, other errors of `poll()`, and the SIGPIPE of a reply to a connection
  that was reset between receive and reply.
* `MC_PPAxis`, `MC_CSPAxis`, `MC_Axes`, `MC_ConsoleTool`, `MC_CommandLine`, `MC_LoadConfig`,
  `MC_Server` - instances for TLC.
* `PPAxis_proofs`, `CSPAxis_proofs`, `Trajectory_proofs`, `Axes_proofs`, `ConsoleTool_proofs`,
  `CommandLine_proofs`, `LoadConfig_proofs`, `Server_proofs` - the proofs.

How they fit together: `LoadConfig` ends where the cyclic thread starts; `Server` is the
frame around it, in which a command is an opaque line and a period is not looked
into; `Axes` is a period and the commands that go over several axles, `PPAxis` and `CSPAxis` are
what lines and periods do to one axle each; `ConsoleTool` is the other program on the same
library, and `CommandLine` its keyboard.

Operators marked *slip* are plausible mistakes in the action that follows them.
Nothing uses them; put in that action's place, each makes one of the properties
fail, which shows that the property says something about the code.

## Runs

| run | what it shows | bounds |
| --- | --- | --- |
| `pp` | type, mode before enable, meant set points, stable set points, and that the axis implements `SetPoints`: one move at a time; under `FairSpec` a target that stays set is handed to the drive | two positions, velocities 0 and 1, phases ending at 2 and 6 in place of 20 and 30, one frame lost in a row, one fault, faults reset by level |
| `csp` | type, table and length agree, reads inside the table, one unbroken path, stops only at the plan's end; under `FairSpec` pre_stop ends | one plan of two waypoints, cyclic or not, two points a segment; three clients: careful, one that keeps to the checked states, one that sends anything |
| `csp_stop` | **violated**: set_stop never makes a stopped axis move | plans of one and two waypoints |
| `axes` | type, axes started at once stay together, a velocity that was told is kept, points lie on their way and never jump, a plan ends near its last waypoint | two CSP axes and a PV axis, three files (the same cyclic plan twice; a plan whose phases are rounded beyond its end, next to a line with a pair that does not parse; a cyclic line that fails behind its parameters), two loads, one velocity, one fault: a drive that drops out, a lost frame or a bus that leaves `ALL_OP` |
| `tool` | type, live domains, no lost update, only ordered targets, no drive disabled by another value's update or by auto start | one master, one axle, two targets, two control words; axle states sampled every third period; users: careful, and one hasty with values, restarting auto start on old samples and quitting under a running task |
| `tool_live` | a value set reaches the outputs, auto start brings the drive into operation, under `FairSpec` | the careful user; states sampled every period |
| `tool_finish` | **violated**: an axle is linked to the mirror of its own master | two masters with an axle each |
| `load` | type, a document that loads fills every cell, axles get their own objects, the order of SDO writes is accepted, the drive then maps what the document lists, a failed start is undone | one or two masters with one or two slaves, one or two axles; every combination of positions, masters, indices (also behind the arrays) and blocks, four kinds of sync managers, incomplete elements, vendor 0 |
| `load_pdos` | **violated**: the order of SDO writes for a sync manager with several PDOs | one slave, two PDOs |
| `server` | type and buffer bound, commands are lines that were sent, only open sockets are polled, the cyclic thread works on live masters and arrays; under `FairSpec` the served client is answered and the program comes down after a signal, exit or error | two clients with two lines of two bytes, a buffer of three, so that a line may be split and the buffer may fill up; clients: careful, following, crowding and resetting, leaving and resetting, pipelining and crowding |
| `server_follow` | **violated**: a client that comes when the last one has closed is answered | the same, following clients only |
| `line` | type, the ring keeps what was run, the arrows show it, Enter runs what is on the screen | a ring of three slots gone round more than once, four lines of up to two characters, a letter and the blank, both layouts of the variables |

Why the bounds are enough: the PP handshake depends on the phases only through
`PhasesAssumption` (the hold phase has to outlast the losses on both ways, the
set-up phase the losses on one); the small phases satisfy it with equality, and
with one period less the run fails. The proofs do not depend on them, and cover
any number of positions and both ways of resetting a fault. For the axes, two that are
started at once are all that can get apart, the PV axis behind them is what the loops have
to skip, and the segments are chosen so that acceleration ends on a whole point, between
two points, and with no uniform phase; the third file puts parameters in force that the table
was not made with. The proofs cover any number of axes, files and parts. For CSP,
two waypoints give a first, a last and (cyclic) a closing segment, two points a
first and a last point. For the console tool one axle has all that can disturb it:
its own other values, which every update copies along, and the thread that reads
them; three periods between two samples are the fewest in which a sample can be out of date by two
state changes; the proofs cover any number of masters and axles, any frequencies, and the
liberties the run leaves out ("any order", "set over stale"). For the loading, two cells
are one that can be taken twice and one that can be left out; the proofs cover any
number of cells. For the line editor, three slots are the current one, its neighbour (which
an insertion clears) and one that is neither; the fourth line goes round the ring. For the server, a second client is all that can be in the first
one's way, and a third one would only wait behind it.

## Fairness

`PPAxis!Fairness`: the cyclic thread is woken by an absolute timer every period
(weak fairness of its steps); the bus is in `ALL_OP` again and again (strong,
`Receive(TRUE)`): without slaves in OP nothing moves; the drive finishes what it
began. Frames are lost at most `MaxLoss` times in a row. Commands are never
assumed to come. In run `pp` a fault is reset by the level of the reset bit
(`ResetOnEdge = FALSE`): `axis_start()` writes the bit during the fault reaction
already, so a drive that wants an edge in the fault state never sees one.

`CSPAxis!Fairness`: the same for the cyclic thread, and a command once taken up
is carried out. A read beyond the table (clients that take that liberty only)
counts garbage up and is left at some point.

`ConsoleTool!Fairness`: the cyclic thread is woken every period; the command thread
finishes a set command it began and gets the mutex (`SetLock`, strong). The cyclic
thread only tries the lock. That its tries succeed again and again is assumed,
because the command thread waits for a line to be typed between two holds of a few
instructions; without it a user who always holds the lock when it is tried starves
the update.

`Server!FairSpec`: both threads run, and `poll()` has a timeout; nothing is assumed of
the clients. `LoadConfig` and `CommandLine` are sequential programs and `Axes` adds to the axes
only what relates several of them; these three state no liveness.

## What is proved

For every value of the constants that satisfies the named assumptions:

* `PPAxis_proofs`: `PPInv` is inductive, and from it `TypeOK`, `EnabledInMode`,
  `SetPointsWereMeant` as invariants, `SetPointStable` and
  `FinishedMovesWereTaken` as action properties. `ImplementsSetPoints` is the refinement: the
  initial states map to initial states of `SetPoints`, and under `PPInv` every action maps to
  one of its actions or to a stutter; raising bit 4 is `Fix`, sampling a new set point `Take`,
  and the end of status 30 `Finish`, which is where `HandshakeInv` is needed. The argument for
  `PPInv`: `ControlInv` ties
  the program counter to the status and says that bit 4 is up only past
  `SetupEnd`; `ModeInv` follows the mode from the outputs to the drive and back;
  `MeantInv` follows positions along the same way; `HandshakeInv` counts: at
  most `lost` periods of the set-up phase may pass before the drive has seen the
  bit fall, at most `lost` of the hold phase before it has seen it rise, and a
  target-reached bit that is not this move's is at most `lost + MaxLoss + 1`
  periods old - fewer than the hold phase has. With the real 20 and 30 this
  covers up to four frames lost in a row.
* `CSPAxis_proofs`: `TypeOK` and `CountMatchesTable` for every client,
  `ReadsInsideTable` for every client that leaves a moving axis's table alone and
  starts only what loaded. `TableInv` relates table, length and the loader's
  progress; `WalkInv` says that a safe client's axis at rest stands before
  planner 0 and a moving one is inside the table unless it has just walked off
  the end. `PathContinuous` and `StopsAtPlanEnd` for a client without liberties, for any plans,
  points of a segment and scales: `LoadInv` says that the axis rests while a table is filled, in
  order, each segment planned from where the one before leads, the first from where the axis
  rests; `Chained` keeps of that, once it is loaded, that the segments follow each other, a cyclic
  plan's last one leading where its first one does; `WayInv` says which point was sent last for
  every place the cyclic thread can be at in its walk. `PathInv`, their conjunction, also says that
  a stop is only under way for a cyclic plan that moves, so that a load never meets the end of
  a plan between test and store.
* `Axes_proofs`: `TypeOK` with the bound of the planner's number, `VelocityKept` and
  `StaysTogether`, for any axes, files, number of parts and faults. `TablesInv` says that a table
  that is ready has planners, each with a point, and `WalkInv` that the one an axis stands at is
  in it; `ToldInv` that a velocity is told only to an axis that has measured its own. For
  `StaysTogether` the invariant has to speak of the states in the middle of a period and of a
  loop, where the mates differ: `TogetherInv` says that they are level once the loop and the
  period are thought to their end, each mate that `main_task()` (`Due`) or the loop (`Behind`) has
  still to reach taken one step further. For `MovesAsPlanned` and `StopsNearItsEnd`, `MadeInv` says
  that the planners of a table are those of its waypoints, each from where the one before ends, and
  `FollowsInv` that the last point sent is the one before the point the axis stands at, in
  the planner before if it stands at the first one; what that means for places is in
  `Trajectory_proofs`.
* `Trajectory_proofs`: the lemmas about one segment, for any number of parts, any parameters and both
  conversions. Of the root that is a whole number of parts, `PlannedIsDriven` derives what a
  planned segment looks like (its phases cover the way exactly, at no more than the greatest
  speed); the two instants rounded to points are each half a point off at most (`RoundedNear`), so a
  phase is entered at most one *slip*, a quarter of a step, off its true place, and
  a point lies at most one behind the end (`StaysWithin`) and two successive ones at most six
  apart (`StepsAreShort`); `PositionsApart` adds what the conversion cuts off. Products of unknowns are
  what the provers do not order by themselves: `ProductMonotone`, `SquareMonotone`, `Cancel` and
  `ExactDivision` are the few facts about them, and are cited where they are needed.
* `ConsoleTool_proofs`: `TypeOK` for every user; `UsesLiveDomains`, `MirrorAgrees` and
  `SentTargetsWereOrdered` for the users they name. `ThreadInv` says who holds the
  mutex where, and that the thread exists only while the tool counts it as
  started; `OrderInv` relates the flags to the masters' states; `AgreeInv` says that a
  filled mirror without a pending update equals the outputs, and that at `Clear`
  what is flagged has been copied; `TargetInv` says that a filled mirror holds for
  every axle the target in the outputs or the one ordered. `DrivesStayEnabled` needs more, for
  any set of orders: `KeptInv` says that the outputs of a drive in operation hold the enabling word or
  the order copied last; `UpdateInv` that an update on its way carries the word of the outputs
  or an order, also when auto start has been restarted over it; `SampleInv` that a drive
  whose sample is of an early state is not in operation and has no enabling word to
  get there with, which is where a user who restarts auto start on old samples breaks it.
* `CommandLine_proofs`: all four properties, for a ring of any size, lines of any length and any
  characters. `RingInv` joins the three invariants with `WipedInv` (a slot that was cleared is not the
  first one) and `ShownInv` (the line on the screen is the one the next key works on, unless an
  insertion has reached `buff_index`). The arithmetic of the ring is in lemma `Apart`: lines less than
  `Slots` apart are in different slots.
* `LoadConfig_proofs`: `TypeOK`, `ParsedIsComplete`, `OwnObjects`, `FailedStartUndone`, for any
  documents. `SlavesInv` and `AxlesInv` say that the elements parsed so far are each in
  the cell they name; as many elements as cells are then in all of them (lemma
  `Filled`, by counting). `OffsetsInv` says what a registered object is, `MastersInv` which
  masters are active, and that those to be undone are known by their state. For `WritesAccepted`
  and `MappingAsDocumented`, `DriveInv` says that for a slave with at most one PDO to a sync manager, none
  empty, the drive's objects follow from the round and the number of its writes made, and
  that what is to be written is the rest of them; writes are delivered one by one, so that no
  induction over the lists is needed. For the other slaves the property is the finding `load_pdos`.
* `Server_proofs`: `TypeOK` with the bound of the buffer, `PolledIsOpen`, `CyclicUsesLive` and
  `CommandsAreLines`, for any clients, scripts, habits and buffer. `ReadyInv` says that between `poll()` and
  `recv()` a ready client is still the one in `fds[1]`, `LifeInv` that the thread has
  ended before anything is taken from it. `StreamInv` follows the bytes for `CommandsAreLines`:
  clients that wait for their answer have one line under way at most, whose head is what the
  buffer holds and whose rest is what their socket holds, and nobody else's byte lies before
  it; a buffer that a longer line has filled takes nothing any more.

Only model-checked: liveness (`TargetServed`, `PreStopEnds`, `SetReachesOutputs`,
`AutoStartEnables`, `ClientAnswered`, `StopsCleanly`), which is out of the prover's reach. Every safety
property of a passing run is a theorem. `MovesAsPlanned` and `StopsNearItsEnd` are proved for what they
speak of: plans that can be driven with the parameters in force (`WellPlanned`), of segments for which
the code's square root is a whole number of parts (`Exact`); that doubles come near enough to the
exact numbers is not looked into.

## Findings

* `csp_stop`: `set_stop` (`:687`) tests and stores without a lock; stored after
  the plan ended, `pre_stop` starts the whole plan again.
* `tool_finish`: `nservo_config.c:187` compares with the first master's index in every
  round of the loop; with two masters the axles of the first get the last one's
  mirror and the others none, and setting a value of those ends the program.
* `load_pdos`: `_nser_config_master()` enables a sync manager (`nservo.c:330`) inside the loop
  over its PDOs; with two of them it is enabled with one assigned, and the second is
  written while it is enabled. A mapping object that is disabled only when it has
  entries (`:281`) is a smaller relative: an empty PDO is counted and never assigned.
* `server_follow`: a client accepted while another one is in `fds[1]` goes to `fds[2]`
  (`tool/nservo_run.c:935`), which is never polled, not even after the first one has
  gone. Running `nservo_client` twice in a row is enough, if the server has not yet
  looked at the first connection's end.

Seen while modelling, without a run (lines of `tool/nservo_run.c` where no file is named).

Profile position:
- status 0 overwrites an acknowledged target with the current position until the axis has its
  first non-zero velocity (`:388`);
- a profile velocity of 0 during a move leaves status 30 waiting until a target-reached bit comes
  from elsewhere (`TargetServed` exempts it).

Cyclic synchronous position:
- a load that fails in the planners (`:311`) leaves a status `ready` of an earlier load, and
  `set_start` (`:675`) then runs the half-filled table;
- a load that fails earlier has changed the parameters already; a table of one segment that
  becomes cyclic in this way goes round from a planner it does not have (`:153`; `CSPAxis` has the
  step, `Axes` leaves it out), and a longer one that does not end where it began jumps back
  (which `MovesAsPlanned` exempts);
- a load is accepted in `pre_stop`, although the message at `:561` says the axis must be stopped
  first; a scale of 0 makes the origin of the first load meaningless (`:203`);
- an axis that comes into operation without a plan is sent target 0 of the cleared image
  (`:430` to `:434`); the example program writes the current position first
  (`example/Cyclic_Position_Mode_Test_2HSS458-EC.c:70`).

Trajectories:
- errors of `trajectory_planner()` are ignored (`:316`, `:331`): all of such a segment is walked as a
  deceleration from its origin, wherever that leads;
- the deceleration is mirrored (`:133` adds `decel / 2` times the square of the points since its
  beginning): it covers the right distance, but the axis all but stops where it begins and then
  gets faster to the end of the segment;
- the point with number `points_num` is never sent (`:142` to `:146`): every segment ends a step
  short, a plan does not reach its last waypoint;
- as the phases' ends are rounded to whole points, points lie up to a quarter of a step beyond
  the segment's end, and one step is up to about one and a half times the greatest speed
  (`OnItsWay` and `ShortStep` leave room for that);
- positions are read with `%d` into an unsigned variable (`:309`, `:315`), and a negative double is
  converted to `uint32_t` (`:140`), which C leaves undefined; an acceleration or deceleration of 0
  divides by zero (`:178`);
- the file `example/x3e_60_axis_nxp_logo` has blanks before `(`, at which a line's load fails, and its
  fourth line lacks the bracket at its end.

Server:
- `recv()` into a full buffer returns 0 and closes the client, and as `len` is not reset, every
  later one (`:940`); a client that leaves in the middle of a line leaves its bytes to the next
  one (`:959`);
- the PV records are allocated in one size and indexed in another (`:898`).

Library and configuration:
- auto start counts sampled axle states, so with `axle_status_update_freq` above 1 it ends although
  the drive has dropped out since (`AutoStartEnables` fails with `AxleFreq = 2`); the counter and the
  samples outlive `stop_task`, so that a restart with auto start can work on a sample taken before
  the user enabled the drive, and takes it back out of operation (with `AxleFreq = 3`, a user who
  takes the liberty "start over stale");
- `sync_ref_update_freq` is never used (`nservo.c:801`, `readme.md:75`);
- objects an axle does not register keep offset 0, which is another object's (`nservo.c:164`);
- a slave's position is an index that nobody checks (`nser_xml_parse.c:433`), an axle's index may
  be one too large (`:798` there), vendor 0 does not mark a slave's cell (`:442`), and the clean-up
  frees arrays that were never set (`:704`).

Console tool:
- after auto start a set command writes the control word back that the mirror was filled with,
  which disables the drive (a user who takes the liberty "set over stale");
- `activate` before `load_xml` succeeds over no masters and cannot be repeated after it
  (`tool/console_tool.c:438`); an activation that fails still builds the mirror, and the one that
  succeeds later leaves it without domains; `load_xml` cannot be repeated after it failed behind
  the first master;
- inserting a character into a line clears the head of the next line in the ring (`:179` there), and
  in the last slot what lies behind the ring; a line of 63 characters is given up and slot 0 is
  executed in its place (`:190`).

## Plan

Done: the PP, CSP and PV axes, their composition under `main_task()`, the trajectories, the console
tool with the masters' life cycle and its line editor, the loading of a configuration, the
server; an abstract set point handshake and the refinement; the proofs listed above.

Left, most useful first:
1. `Lifecycle`: the rest of the cycle task (what the slaves report, distributed clocks).
2. Scales other than 1 in `Trajectory`; a bus of several masters in `Axes`.

## Not modelled

- The PDO and SDO accessors (`include/nser_pdo.h`, `nser_sdo.h`, most of `include/tool.h`): macros that
  read or write one object, and check that the axle has one; their effect is part of the
  actions that use them. The SDO commands of the console tool: a request and its answer, no state.
- The replies' texts and the parsing of a command's words: which action a line stands for is the
  dispatch on its first words and its numbers, without state.
- Distributed clocks and slave states in the cycle task: the clocks are the EtherCAT library's, and
  the slave states are stored and read by nobody but a get command.
- Single values of the XML document (numbers, strings): good or missing in `LoadConfig`.
- The example programs (fixed motions, without decisions) and the scan script (prints what the bus
  tool reports).
