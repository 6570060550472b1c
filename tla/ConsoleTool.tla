---------------------------- MODULE ConsoleTool ----------------------------
(***************************************************************************)
(* The console tool: its command thread (start_interaction()), the cyclic  *)
(* thread it starts and stops (cycle_task() with update_all_pods()), and   *)
(* the mirror of the outputs through which the two exchange values under a *)
(* mutex.  The cyclic thread also starts the axles itself when asked to    *)
(* (nser_axle_auto_start()).                                               *)
(*                                                                         *)
(* The outputs of an axle are its control word, its mode and its target;   *)
(* the inputs are the status word alone, and reading them changes nothing, *)
(* so the half of the mirror that serves get commands is left out.         *)
(***************************************************************************)
EXTENDS CiA402Drive, FiniteSets

CONSTANTS
    NumMasters,     \* masters in the configuration file
    Axles,
    MasterOf,       \* the master of each axle
    Targets,        \* values of set_Target_position; 0 is a cleared domain's
    Orders,         \* control words a user sets
    MasterFreq,     \* master_status_update_freq
    AxleFreq,       \* axle_status_update_freq
    Junk,           \* what malloc() leaves
    NoOrder,        \* the user has not set this yet
    Users           \* the users considered, each the set of its liberties

Masters == 1..NumMasters
StartWords ==
    {contrlword_shutdown({}), contrlword_switch_on({}), contrlword_enable_operation({})}

ASSUME MastersAssumption == NumMasters \in Nat \ {0} /\ MasterOf \in [Axles -> Masters]
ASSUME TargetsAssumption == 0 \in Targets /\ NoOrder \notin Targets /\ Junk \notin Targets
ASSUME OrdersAssumption ==
    /\ Orders \subseteq StartWords /\ NoOrder \notin Orders
    /\ Junk \notin StartWords /\ Junk # {}
ASSUME FreqAssumption == MasterFreq \in Nat \ {0} /\ AxleFreq \in Nat \ {0}

(***************************************************************************)
(* The tool checks little of the order of its commands.  A user without    *)
(* liberties loads, activates once, starts the task, with auto start only  *)
(* when the sampled axle states are up to date or about to be, sets values *)
(* only when the mirror has been filled and agrees with the outputs, and   *)
(* stops the task before quitting.  A user who starts the task before      *)
(* there is a mirror ends the program with it; the model lets such a       *)
(* program go on, and no property speaks of it.                            *)
(***************************************************************************)
AllLiberties == {"any order", "set unfilled", "set over stale", "start over stale",
                 "quit running"}
ASSUME UsersAssumption == Users \subseteq SUBSET AllLiberties

VARIABLES
    con,        \* tool_data: isLoadXML, isActivate, isStart, isFinished
    ecm,        \* each master as the EtherCAT library sees it
    mapped,     \* does the tool hold the address of the master's live domain?
    run,        \* ns_data->running and is_auto_start
    pc,         \* the cyclic thread's next step
    again,      \* its local variable running
    counter,    \* cycle_counter, modulo the two frequencies
    allOp,      \* ns_master_state = ALL_OP, as last sampled
    axleState,  \* ns_axle_state, as last sampled
    carried,    \* history: the control word set last when it was last copied
    cpc,        \* the command thread's next step
    job,        \* the value it is about to set
    mutex,      \* who holds tool_data's mutex
    tx,         \* the mirror of the outputs
    mirror,     \* domain_data: isUpdate and initialed of each master
    image,      \* the outputs in the domains
    op,         \* the masters whose slaves are in OP, so that outputs count
    drv,        \* the drives
    ordered,    \* history: what the user set last
    user        \* its liberties

busVars == <<op, drv>>
cyclicVars == <<pc, again, counter, allOp, axleState, carried>>
consoleVars == <<con, ecm, cpc, job, ordered, user>>
vars == <<con, ecm, mapped, run, pc, again, counter, allOp, axleState, carried, cpc, job,
          mutex, tx, mirror, image, op, drv, ordered, user>>

Controlwords == StartWords \cup {{}}
Modes == {"none", "configured"}
Mirrored == [cw : Controlwords \cup {Junk}, mode : Modes \cup {Junk},
             target : Targets \cup {Junk}]
Cleared == [cw |-> {}, mode |-> "none", target |-> 0]
Unfilled == [cw |-> Junk, mode |-> Junk, target |-> Junk]

NoJob == [axle |-> NoOrder, field |-> "none", value |-> NoOrder]
Jobs == {NoJob}
        \cup [axle : Axles, field : {"cw"}, value : Orders]
        \cup [axle : Axles, field : {"target"}, value : Targets]

Periods == MasterFreq * AxleFreq

TypeOK ==
    /\ con \in [loaded : BOOLEAN, active : BOOLEAN, started : BOOLEAN, finished : BOOLEAN]
    /\ ecm \in [Masters -> {"none", "requested", "half", "active", "spent"}]
    /\ mapped \in [Masters -> BOOLEAN]
    /\ run \in [running : BOOLEAN, auto : BOOLEAN]
    /\ pc \in {"off", "receive", "lock", "copy", "clear", "send"}
    /\ again \in BOOLEAN
    /\ counter \in 0..(Periods - 1)
    /\ allOp \in [Masters -> BOOLEAN]
    /\ axleState \in [Axles -> AxleStates]
    /\ carried \in [Axles -> Orders \cup {NoOrder}]
    /\ cpc \in {"idle", "lock", "write", "flag", "join", "quit"}
    /\ job \in Jobs
    /\ mutex \in {"free", "cyclic", "console"}
    /\ tx \in [Axles -> Mirrored]
    /\ mirror \in [Masters -> [isUpdate : BOOLEAN, initialed : BOOLEAN]]
    /\ image \in [Axles -> Mirrored]
    /\ op \in SUBSET Masters
    /\ drv \in [Axles -> [state : AxleStates, cw : Word]]
    /\ ordered \in [Axles -> [cw : Orders \cup {NoOrder}, target : Targets \cup {NoOrder}]]
    /\ user \in Users

Init ==
    /\ con = [loaded |-> FALSE, active |-> FALSE, started |-> FALSE, finished |-> FALSE]
    /\ ecm = [m \in Masters |-> "none"]
    /\ mapped = [m \in Masters |-> FALSE]
    /\ run = [running |-> FALSE, auto |-> FALSE]
    /\ pc = "off" /\ again = FALSE /\ counter = 0
    /\ allOp = [m \in Masters |-> FALSE]
    /\ axleState = [a \in Axles |-> "no_ready_to_switch_on"]
    /\ carried = [a \in Axles |-> NoOrder]
    /\ cpc = "idle" /\ job = NoJob /\ mutex = "free"
    /\ tx = [a \in Axles |-> Unfilled]
    /\ mirror = [m \in Masters |-> [isUpdate |-> FALSE, initialed |-> FALSE]]
    /\ image = [a \in Axles |-> Cleared]
    /\ op = {}
    /\ drv = [a \in Axles |-> [state |-> "switch_on_disable", cw |-> {}]]
    /\ ordered = [a \in Axles |-> [cw |-> NoOrder, target |-> NoOrder]]
    /\ user \in Users

Takes(liberty) == liberty \in user

(***************************************************************************)
(* The bus and the drives.                                                 *)
(***************************************************************************)
\* Slaves reach OP while frames come, and leave it at any time.
BusChanges ==
    /\ \E m \in Masters :
          \/ m \notin op /\ pc # "off" /\ ecm[m] = "active" /\ op' = op \cup {m}
          \/ m \in op /\ op' = op \ {m}
    /\ UNCHANGED <<mapped, run, cyclicVars, consoleVars, mutex, tx, mirror, image, drv>>

\* A drive whose slave is not in OP switches itself off.
DriveDrops ==
    /\ \E a \in Axles :
          /\ MasterOf[a] \notin op /\ drv[a].state \in Powered
          /\ drv' = [drv EXCEPT ![a].state = "switch_on_disable"]
    /\ UNCHANGED <<mapped, run, cyclicVars, consoleVars, mutex, tx, mirror, image, op>>

\* What a drive may do with the outputs of a frame; anything if they are junk.
Reactions(a) ==
    IF MasterOf[a] \notin op THEN {drv[a]}
    ELSE IF image[a].cw = Junk
    THEN [state : AxleStates, cw : {drv[a].cw}]
    ELSE {[state |-> DriveTransition(drv[a].state, image[a].cw, drv[a].cw, FALSE),
           cw    |-> image[a].cw]}

(***************************************************************************)
(* The cyclic thread: cycle_task() with update_all_pods().                 *)
(***************************************************************************)
\* slip: the halt bit in the word that enables the operation
AutoControlwordHalted(s, cw) ==
    IF s = "ready_to_switch_on" THEN contrlword_switch_on({})
    ELSE IF s = "switched_on" THEN contrlword_enable_operation({8})
    ELSE contrlword_shutdown({})

\* slip: the case of a running axle falls through to the first one
AutoControlwordFallsThrough(s, cw) ==
    IF s = "ready_to_switch_on" THEN contrlword_switch_on({})
    ELSE IF s = "switched_on" THEN contrlword_enable_operation({})
    ELSE contrlword_shutdown({})

\* slip: an axle that is ready is told to get ready
AutoControlwordStuck(s, cw) ==
    IF s = "switched_on" THEN contrlword_enable_operation({}) ELSE contrlword_shutdown({})

\* nser_axle_auto_start(): the control word for an axle in state s.
AutoControlword(s, cw) ==
    IF s \in {"no_ready_to_switch_on", "switch_on_disable"} THEN contrlword_shutdown({})
    ELSE IF s = "ready_to_switch_on" THEN contrlword_switch_on({})
    ELSE IF s = "switched_on" THEN contrlword_enable_operation({})
    ELSE cw

AutoOutputs(o, s) ==
    [o EXCEPT !.cw = AutoControlword(s, @),
              !.mode = IF s = "switched_on" THEN "configured" ELSE @]

\* Every master is in ALL_OP and every axle in operation.
AllStarted(masters, states) ==
    /\ \A m \in Masters : masters[m]
    /\ \A a \in Axles : states[a] = "operation_enable"

\* nser_receive_all(), the state updates that are due, auto start.
Receive ==
    /\ pc = "receive"
    /\ allOp' = IF counter % MasterFreq = 0 THEN [m \in Masters |-> m \in op] ELSE allOp
    /\ axleState' =
          IF counter % AxleFreq = 0
          THEN [a \in Axles |-> get_axle_state(StatusPattern(drv[a].state))]
          ELSE axleState
    /\ image' = IF run.auto THEN [a \in Axles |-> AutoOutputs(image[a], axleState'[a])]
                ELSE image
    /\ run' = [run EXCEPT !.auto = @ /\ ~AllStarted(allOp', axleState')]
    /\ pc' = "lock"
    /\ UNCHANGED <<mapped, again, counter, carried, consoleVars, mutex, tx, mirror, busVars>>

\* pthread_mutex_trylock() fails: nothing is copied in this period.
LockBusy ==
    /\ pc = "lock" /\ mutex # "free"
    /\ again' = run.running
    /\ pc' = "send"
    /\ UNCHANGED <<mapped, run, counter, allOp, axleState, carried, consoleVars, mutex, tx, mirror,
                   image, busVars>>

\* slip: the result of pthread_mutex_trylock() is not looked at
LockTakenAnyway ==
    /\ pc = "lock"
    /\ mutex' = "cyclic"
    /\ pc' = "copy"
    /\ UNCHANGED <<mapped, run, again, counter, allOp, axleState, carried, consoleVars, tx, mirror,
                   image, busVars>>

LockTaken ==
    /\ pc = "lock" /\ mutex = "free"
    /\ mutex' = "cyclic"
    /\ pc' = "copy"
    /\ UNCHANGED <<mapped, run, again, counter, allOp, axleState, carried, consoleVars, tx, mirror,
                   image, busVars>>

\* A mirror is filled once, in the first period in ALL_OP; from then on, and
\* also before ALL_OP, an update is copied out.
Fills(m) == ~mirror[m].initialed /\ allOp[m]
CopiesOut(m) == ~Fills(m) /\ mirror[m].isUpdate

\* slip: whether an update is announced is not looked at
CopyUnannounced ==
    /\ pc = "copy"
    /\ tx' = [a \in Axles |-> IF Fills(MasterOf[a]) THEN image[a] ELSE tx[a]]
    /\ image' = [a \in Axles |-> IF Fills(MasterOf[a]) THEN image[a] ELSE tx[a]]
    /\ carried' = [a \in Axles |->
                      IF CopiesOut(MasterOf[a]) THEN ordered[a].cw ELSE carried[a]]
    /\ pc' = "clear"
    /\ UNCHANGED <<mapped, run, again, counter, allOp, axleState, consoleVars, mutex, mirror,
                   busVars>>

Copy ==
    /\ pc = "copy"
    /\ tx' = [a \in Axles |-> IF Fills(MasterOf[a]) THEN image[a] ELSE tx[a]]
    /\ image' = [a \in Axles |-> IF CopiesOut(MasterOf[a]) THEN tx[a] ELSE image[a]]
    /\ carried' = [a \in Axles |->
                      IF CopiesOut(MasterOf[a]) THEN ordered[a].cw ELSE carried[a]]
    /\ pc' = "clear"
    /\ UNCHANGED <<mapped, run, again, counter, allOp, axleState, consoleVars, mutex, mirror,
                   busVars>>

Clear ==
    /\ pc = "clear"
    /\ mirror' = [m \in Masters |->
                     IF Fills(m) THEN [mirror[m] EXCEPT !.initialed = TRUE]
                     ELSE [mirror[m] EXCEPT !.isUpdate = FALSE]]
    /\ mutex' = "free"
    /\ again' = run.running
    /\ pc' = "send"
    /\ UNCHANGED <<mapped, run, counter, allOp, axleState, carried, consoleVars, tx, image,
                   busVars>>

\* nser_send_all(): the drives act on the outputs; on to the next period, or
\* the end of the thread.
Send ==
    /\ pc = "send"
    /\ drv' \in {d \in [Axles -> UNION {Reactions(a) : a \in Axles}] :
                    \A a \in Axles : d[a] \in Reactions(a)}
    /\ counter' = (counter + 1) % Periods
    /\ pc' = IF again THEN "receive" ELSE "off"
    /\ UNCHANGED <<mapped, run, again, allOp, axleState, carried, consoleVars, mutex, tx, mirror,
                   image, op>>

Cyclic == Receive \/ LockBusy \/ LockTaken \/ Copy \/ Clear \/ Send

(***************************************************************************)
(* The command thread: start_interaction().                                *)
(***************************************************************************)
Idle == cpc = "idle"

\* nser_config_tool_finish() compares every axle's master with the first one.
\* The data it links an axle to is the last master's, or none.
LinkedMasters(a) == IF MasterOf[a] = 1 THEN {NumMasters} ELSE {}

Configured == {m \in Masters : ecm[m] # "none"}

LoadXml ==
    /\ Idle /\ ~con.loaded
    /\ Configured = {}
    /\ ecm' = [m \in Masters |-> "requested"]
    /\ con' = [con EXCEPT !.loaded = TRUE]
    /\ UNCHANGED <<mapped, run, cyclicVars, cpc, job, ordered, user, mutex, tx, mirror, image,
                   busVars>>

\* The file cannot be read, or some master or axle cannot be configured: the
\* masters requested by then stay requested, and cannot be requested again.
LoadXmlFails ==
    /\ Idle /\ ~con.loaded
    /\ \E k \in 0..NumMasters :
          ecm' = [m \in Masters |->
                     IF m <= k /\ Configured = {} THEN "requested" ELSE ecm[m]]
    /\ UNCHANGED <<con, mapped, run, cyclicVars, cpc, job, ordered, user, mutex, tx, mirror,
                   image, busVars>>

MayActivate == (con.loaded /\ ~con.finished) \/ Takes("any order")

\* nser_activate_master() for all, then the mirror, whether that succeeded or
\* not, unless it exists.
Activated(ok) ==
    /\ con' = [con EXCEPT !.active = ok, !.finished = TRUE]
    /\ IF con.finished
       THEN UNCHANGED <<mapped, tx, mirror>>
       ELSE /\ mapped' = [m \in Masters |-> ok /\ m \in Configured]
            /\ tx' = [a \in Axles |-> Unfilled]
            /\ mirror' = [m \in Masters |-> [isUpdate |-> FALSE, initialed |-> FALSE]]
    /\ image' = [a \in Axles |-> Cleared]
    /\ UNCHANGED <<run, cyclicVars, cpc, job, ordered, user, mutex, busVars>>

Activate ==
    /\ Idle /\ ~con.active /\ MayActivate
    /\ Configured \in {{}, Masters}
    /\ ecm' = [m \in Masters |-> IF m \in Configured THEN "active" ELSE ecm[m]]
    /\ Activated(TRUE)

\* Master k cannot be activated, or it can and its domain has no data (half):
\* it is not marked ACTIVATE then, and only the masters before it, which are,
\* are deactivated.
ActivateFails ==
    /\ Idle /\ ~con.active /\ MayActivate
    /\ Configured = Masters
    /\ \E k \in Masters, left \in {"requested", "half"} :
          ecm' = [m \in Masters |-> IF m < k THEN "spent" ELSE IF m = k THEN left ELSE ecm[m]]
    /\ Activated(FALSE)

\* Auto start begins with the axles as they are, or samples them first.
Sampled ==
    \/ counter % AxleFreq = 0
    \/ \A a \in Axles : axleState[a] = get_axle_state(StatusPattern(drv[a].state))

\* start_task, with or without auto start.
StartTask(auto) ==
    /\ Idle /\ ~con.started
    /\ (con.active /\ con.loaded) \/ Takes("any order")
    /\ (auto => Sampled) \/ Takes("start over stale")
    /\ run' = [running |-> TRUE, auto |-> auto]
    /\ con' = [con EXCEPT !.started = TRUE]
    /\ pc' = "receive"
    /\ UNCHANGED <<ecm, mapped, again, counter, allOp, axleState, carried, cpc, job, ordered, user,
                   mutex, tx, mirror, image, busVars>>

StartTaskFails(auto) ==
    /\ Idle /\ ~con.started
    /\ (con.active /\ con.loaded) \/ Takes("any order")
    /\ run' = [running |-> TRUE, auto |-> auto]
    /\ UNCHANGED <<mapped, cyclicVars, consoleVars, mutex, tx, mirror, image, busVars>>

\* Has auto start written what the mirror does not know?
Stale ==
    \/ run.auto
    \/ \E a \in Axles :
          /\ ~mirror[MasterOf[a]].isUpdate
          /\ tx[a].cw # image[a].cw \/ tx[a].mode # image[a].mode

MaySet(m) ==
    /\ mirror[m].initialed \/ Takes("set unfilled")
    /\ ~Stale \/ Takes("set over stale")

\* tool_pdo_set_Controlword() and tool_pdo_set_Target_position(); an axle
\* linked to nothing, or a mirror that does not exist, ends the program here.
SetCommand(j) ==
    /\ Idle /\ con.started /\ con.finished
    /\ MasterOf[j.axle] \in LinkedMasters(j.axle)
    /\ MaySet(MasterOf[j.axle])
    /\ job' = j
    /\ cpc' = "lock"
    /\ UNCHANGED <<con, ecm, mapped, run, cyclicVars, ordered, user, mutex, tx, mirror, image,
                   busVars>>

SetLock ==
    /\ cpc = "lock" /\ mutex = "free"
    /\ mutex' = "console"
    /\ cpc' = "write"
    /\ UNCHANGED <<con, ecm, mapped, run, cyclicVars, job, ordered, user, tx, mirror, image,
                   busVars>>

\* EC_WRITE_*() of one entry
Updated(outputs, j) ==
    IF j.field = "cw" THEN [outputs EXCEPT !.cw = j.value]
    ELSE [outputs EXCEPT !.target = j.value]

SetWrite ==
    /\ cpc = "write"
    /\ tx' = [tx EXCEPT ![job.axle] = Updated(@, job)]
    /\ ordered' = [ordered EXCEPT ![job.axle] = Updated(@, job)]
    /\ cpc' = "flag"
    /\ UNCHANGED <<con, ecm, mapped, run, cyclicVars, job, user, mutex, mirror, image, busVars>>

\* slip: isUpdate is not set
SetFlagForgotten ==
    /\ cpc = "flag"
    /\ mutex' = "free"
    /\ job' = NoJob
    /\ cpc' = "idle"
    /\ UNCHANGED <<con, ecm, mapped, run, cyclicVars, ordered, user, tx, mirror, image, busVars>>

SetFlag ==
    /\ cpc = "flag"
    /\ mirror' = [mirror EXCEPT ![MasterOf[job.axle]].isUpdate = TRUE]
    /\ mutex' = "free"
    /\ job' = NoJob
    /\ cpc' = "idle"
    /\ UNCHANGED <<con, ecm, mapped, run, cyclicVars, ordered, user, tx, image, busVars>>

\* slip: the thread is not joined
StopTaskWithoutJoin ==
    /\ Idle /\ con.started
    /\ run' = [run EXCEPT !.running = FALSE]
    /\ con' = [con EXCEPT !.started = FALSE]
    /\ UNCHANGED <<ecm, mapped, cyclicVars, cpc, job, ordered, user, mutex, tx, mirror, image,
                   busVars>>

\* stop_task: user_cycle_task_stop() asks the thread to end and joins it.
StopTask ==
    /\ Idle /\ con.started
    /\ run' = [run EXCEPT !.running = FALSE]
    /\ cpc' = "join"
    /\ UNCHANGED <<con, ecm, mapped, cyclicVars, job, ordered, user, mutex, tx, mirror, image,
                   busVars>>

Join ==
    /\ cpc = "join" /\ pc = "off"
    /\ con' = [con EXCEPT !.started = FALSE]
    /\ cpc' = "idle"
    /\ UNCHANGED <<ecm, mapped, run, cyclicVars, job, ordered, user, mutex, tx, mirror, image,
                   busVars>>

\* quit: nser_deactivate_all_masters() for those that are marked.
Quit ==
    /\ Idle
    /\ ~con.started \/ Takes("quit running")
    /\ ecm' = [m \in Masters |-> IF ecm[m] = "active" THEN "spent" ELSE ecm[m]]
    /\ mapped' = [m \in Masters |-> FALSE]
    /\ cpc' = "quit"
    /\ UNCHANGED <<con, run, cyclicVars, job, ordered, user, mutex, tx, mirror, image, busVars>>

SetStep == SetLock \/ SetWrite \/ SetFlag

Console ==
    \/ LoadXml \/ LoadXmlFails \/ Activate \/ ActivateFails
    \/ \E auto \in BOOLEAN : StartTask(auto) \/ StartTaskFails(auto)
    \/ \E j \in Jobs \ {NoJob} : SetCommand(j)
    \/ SetStep
    \/ StopTask \/ Join \/ Quit

Next == BusChanges \/ DriveDrops \/ Cyclic \/ Console

Spec == Init /\ [][Next]_vars

(***************************************************************************)
(* The cyclic thread is woken every period.  The command thread holds the  *)
(* mutex for a few instructions after a line was typed, so a trylock that  *)
(* is repeated every period succeeds again and again while the thread runs.*)
(***************************************************************************)
Fairness ==
    /\ WF_vars(Cyclic)
    /\ ([]<><<LockTaken>>_vars) \/ <>[](pc = "off")
    /\ SF_vars(SetLock)
    /\ WF_vars(SetWrite \/ SetFlag)
    /\ WF_vars(Join)

FairSpec == Spec /\ Fairness

(***************************************************************************)
(* Properties.                                                             *)
(***************************************************************************)
Keeps(liberties) == user \cap liberties = {}

\* The cyclic thread runs only over active masters, with the addresses of
\* their live domains in the mirror, for a user who activates once, starts
\* then, and stops the task before quitting (stop_task joins the thread).
UsesLiveDomains ==
    pc # "off" /\ Keeps({"any order", "quit running"})
        => \A m \in Masters : ecm[m] = "active" /\ mapped[m]

\* While nobody holds the mutex and no update is announced, the outputs are
\* what the mirror says, in the values that auto start does not write: no
\* update is lost between the set commands and update_all_pods(), for a user
\* who does not activate masters under a running task.
MirrorAgrees ==
    \A a \in Axles :
        LET m == MasterOf[a] IN
        (/\ Keeps({"any order"})
         /\ mutex = "free" /\ mirror[m].initialed /\ ~mirror[m].isUpdate)
            => image[a].target = tx[a].target

\* The target of an axle changes only to the one the user set last, whatever
\* else is copied along with it.
SentTargetsWereOrdered ==
    [][\A a \in Axles :
          Keeps({"set unfilled", "any order"}) /\ image'[a].target # image[a].target
              => image'[a].target = ordered[a].target]_vars

\* A drive in operation whose slave stays in OP leaves operation only by the
\* control word that was the user's last when an update was copied out: setting
\* one value disturbs no other, and auto start never takes a running axle back,
\* for a user who starts it on axle states that are not out of date.
DrivesStayEnabled ==
    [][\A a \in Axles :
          (/\ Keeps({"set unfilled", "set over stale", "start over stale", "any order"})
           /\ drv[a].state = "operation_enable" /\ drv'[a].state # "operation_enable"
           /\ MasterOf[a] \in op)
              => drv'[a].cw = carried[a]]_vars

\* The mirror of an axle is the one of its master, as the readme allows a
\* configuration with more than one.
AxlesLinked == con.finished => \A a \in Axles : LinkedMasters(a) = {MasterOf[a]}

Ending == ~con.started \/ cpc \in {"join", "quit"}

\* A target that was set arrives in the outputs, however often the cyclic
\* thread finds the mutex taken.
SetReachesOutputs ==
    \A a \in Axles, v \in Targets :
        (ordered[a].target = v /\ Keeps({"set unfilled", "any order"}))
            ~> (image[a].target = v \/ ordered[a].target # v \/ Ending)

AllEnabled == \A a \in Axles : drv[a].state = "operation_enable"

\* Auto start brings every drive into operation while all slaves are in OP, if
\* the axle states are sampled every period: an older sample of a drive that
\* has dropped out since makes auto start end too early.
AutoStartEnables ==
    (run.auto /\ con.started /\ Keeps({"set unfilled", "set over stale", "any order"}))
        ~> (AllEnabled \/ op # Masters \/ Ending)
=============================================================================
