------------------------------- MODULE PPAxis -------------------------------
(***************************************************************************)
(* One axis in profile position mode under nservo_run: the cyclic thread   *)
(* (receive, main_task, send of every period), the command thread that     *)
(* writes the same struct axis_pp_status_t without a lock, the process     *)
(* image, an EtherCAT line that loses frames, and the drive.               *)
(*                                                                         *)
(* The cyclic thread has a program counter, so that a command lands        *)
(* between any two of its accesses to the shared structure.                *)
(***************************************************************************)
EXTENDS CiA402Drive, FiniteSets

CONSTANTS
    Positions,      \* values of Target_position; 0 is what calloc leaves
    Velocities,     \* values of set_profile_velocity
    NoSetPoint,     \* the drive has taken no set point since it was enabled
    SetupEnd,       \* 20 in the source: last count of the set-up phase
    HoldEnd,        \* 30 in the source: last count of the hold phase
    MaxLoss,        \* bound on the frames lost in a row
    MaxFaults,      \* bound on the faults of the drive
    ResetOnEdge     \* does the drive want a rising edge to reset a fault?

ASSUME PositionsAssumption == 0 \in Positions /\ NoSetPoint \notin Positions
ASSUME VelocitiesAssumption == Velocities \subseteq Nat
ASSUME PhasesAssumption ==
    /\ SetupEnd \in Nat /\ HoldEnd \in Nat /\ MaxLoss \in Nat
    /\ MaxLoss < SetupEnd /\ 2 * MaxLoss + 2 <= HoldEnd - SetupEnd
ASSUME FaultsAssumption == MaxFaults \in Nat /\ ResetOnEdge \in BOOLEAN

VARIABLES
    pp,         \* struct axis_pp_status_t: target, velocity, status
    pc,         \* the cyclic thread's next access
    out,        \* output half of the process image
    in,         \* input half of the process image
    allOp,      \* ns_master_state = ALL_OP
    frame,      \* the inputs on their way back, at most one frame
    lost,       \* frames lost in a row
    drv,        \* the drive
    faults,     \* faults so far
    meant,      \* history: where the axis stood, and every acknowledged target
    dropped     \* history: the drive was not in operation throughout this handshake

cyclicVars == <<pp, pc, out, in, allOp, frame, lost>>
historyVars == <<meant, dropped>>
vars == <<pp, pc, out, in, allOp, frame, lost, drv, faults, meant, dropped>>

AllVelocities == Velocities \cup {0}
OpModes == {"none", "pp"}
Outputs == [cw : Word, mode : OpModes, target : Positions, velocity : AllVelocities]
Inputs == [sw : Word, pos : Positions]

TypeOK ==
    /\ pp \in [target : Positions, velocity : AllVelocities, status : 0..HoldEnd]
    /\ pc \in {"receive", "task", "init_velocity", "init_target", "init_done",
               "setup_velocity", "send"}
    /\ out \in Outputs
    /\ in \in Inputs
    /\ allOp \in BOOLEAN
    /\ frame \in SUBSET Inputs
    /\ lost \in 0..MaxLoss
    /\ drv \in [state : AxleStates, cw : Word, mode : OpModes,
                velocity : AllVelocities, setpoint : Positions \cup {NoSetPoint},
                pos : Positions]
    /\ faults \in 0..MaxFaults
    /\ meant \in SUBSET Positions
    /\ dropped \in BOOLEAN

(***************************************************************************)
(* calloc() clears the structure, ecrt_domain_data() the process image.    *)
(* A drive the program has not enabled yet is in one of the states it      *)
(* passes on the way up, or in a fault.                                    *)
(***************************************************************************)
Init ==
    /\ pp = [target |-> 0, velocity |-> 0, status |-> 0]
    /\ pc = "receive"
    /\ out = [cw |-> {}, mode |-> "none", target |-> 0, velocity |-> 0]
    /\ in = [sw |-> {}, pos |-> 0]
    /\ allOp = FALSE
    /\ frame = {}
    /\ lost = 0
    /\ drv \in [state : {"no_ready_to_switch_on", "switch_on_disable", "fault"},
                cw : {{}}, mode : {"none"}, velocity : {0},
                setpoint : {NoSetPoint}, pos : Positions]
    /\ faults = 0
    /\ meant = {drv.pos}
    /\ dropped = FALSE

(***************************************************************************)
(* The drive and the line.                                                 *)
(***************************************************************************)
InOperation(d) == d.state = "operation_enable"

StatusWord(d) ==
    StatusPattern(d.state)
        \cup IF InOperation(d) /\ d.setpoint \in {NoSetPoint, d.pos}
             THEN {TargetReachedBit} ELSE {}

\* A set point is taken on the rising edge of bit 4 by a drive in operation.
Takes(d, o) ==
    /\ InOperation(d)
    /\ DriveTransition(d.state, o.cw, d.cw, ResetOnEdge) = "operation_enable"
    /\ NewSetPointBit \in o.cw \ d.cw

AfterOutputs(d, o) ==
    LET s == DriveTransition(d.state, o.cw, d.cw, ResetOnEdge) IN
    [state    |-> s,
     cw       |-> o.cw,
     mode     |-> o.mode,
     velocity |-> IF Takes(d, o) THEN o.velocity ELSE d.velocity,
     setpoint |-> IF s # "operation_enable" THEN NoSetPoint
                  ELSE IF Takes(d, o) THEN o.target ELSE d.setpoint,
     pos      |-> d.pos]

DropIf(left) == dropped' = (dropped \/ left)

\* It reaches the set point it has taken, at the speed it took with it.
DriveMove ==
    /\ InOperation(drv)
    /\ drv.setpoint # NoSetPoint /\ drv.velocity # 0
    /\ drv.pos # drv.setpoint
    /\ drv' = [drv EXCEPT !.pos = drv.setpoint]
    /\ UNCHANGED <<cyclicVars, faults, historyVars>>

DriveInitialises ==
    /\ drv.state = "no_ready_to_switch_on"
    /\ drv' = [drv EXCEPT !.state = "switch_on_disable"]
    /\ UNCHANGED <<cyclicVars, faults, historyVars>>

DriveFault ==
    /\ faults < MaxFaults
    /\ drv.state \notin {"fault", "fault_reaction_active"}
    /\ faults' = faults + 1
    /\ drv' = [drv EXCEPT !.state = "fault_reaction_active", !.setpoint = NoSetPoint]
    /\ DropIf(InOperation(drv))
    /\ UNCHANGED <<cyclicVars, meant>>

DriveFaultReactionDone ==
    /\ drv.state = "fault_reaction_active"
    /\ drv' = [drv EXCEPT !.state = "fault"]
    /\ UNCHANGED <<cyclicVars, faults, historyVars>>

(***************************************************************************)
(* The cyclic thread.                                                      *)
(***************************************************************************)
\* nser_receive_all() and update_master_domain_states().  Without a frame the
\* image keeps its old inputs.
Receive(op) ==
    /\ pc = "receive"
    /\ in' = IF frame = {} THEN in ELSE CHOOSE f \in frame : TRUE
    /\ frame' = {}
    /\ allOp' = op
    /\ pc' = "task"
    /\ UNCHANGED <<pp, out, lost, drv, faults, historyVars>>

\* pp_update_target_position(): axis_start() did not return 1.
TaskNotStarted ==
    /\ pc = "task"
    /\ ~Started(in.sw)
    /\ out' = [out EXCEPT !.cw = StartControlword(in.sw, out.cw),
                          !.mode = IF StartWritesMode(in.sw) THEN "pp" ELSE out.mode]
    /\ pc' = "send"
    /\ UNCHANGED <<pp, in, allOp, frame, lost, drv, faults, historyVars>>

TaskNotAllOp ==
    /\ pc = "task" /\ Started(in.sw) /\ ~allOp
    /\ pc' = "send"
    /\ UNCHANGED <<pp, out, in, allOp, frame, lost, drv, faults, historyVars>>

Active == pc = "task" /\ Started(in.sw) /\ allOp

\* status 0: four accesses to the structure, a command between any two.  A
\* value already read may be read again or kept in a register.
InitTargetSkipped ==  \* slip: the position is not read first
    /\ Active /\ pp.status = 0
    /\ pc' = "init_velocity"
    /\ UNCHANGED <<pp, out, in, allOp, frame, lost, drv, faults, historyVars>>

InitTarget ==
    /\ Active /\ pp.status = 0
    /\ pp' = [pp EXCEPT !.target = in.pos]
    /\ pc' = "init_velocity"
    /\ UNCHANGED <<out, in, allOp, frame, lost, drv, faults, historyVars>>

InitVelocity ==
    /\ pc = "init_velocity"
    /\ out' = [out EXCEPT !.velocity = pp.velocity]
    /\ pc' = "init_target"
    /\ UNCHANGED <<pp, in, allOp, frame, lost, drv, faults, historyVars>>

InitWriteTarget ==
    /\ pc = "init_target"
    /\ \E t \in {pp.target, in.pos} :
          out' = [out EXCEPT !.target = t, !.cw = EnableOperation]
    /\ pc' = "init_done"
    /\ UNCHANGED <<pp, in, allOp, frame, lost, drv, faults, historyVars>>

InitDone ==
    /\ pc = "init_done"
    /\ \E v \in {pp.velocity, out.velocity} :
          pp' = [pp EXCEPT !.status = IF v # 0 THEN 1 ELSE 0]
    /\ dropped' = ~InOperation(drv)
    /\ pc' = "send"
    /\ UNCHANGED <<out, in, allOp, frame, lost, drv, faults, meant>>

\* Slip: the set-up phase reaches into the hold phase.
InSetupTooLong(s) == 0 < s /\ s < HoldEnd

\* 0 < status < 20
InSetup(s) == 0 < s /\ s < SetupEnd

SetupTarget ==
    /\ Active /\ InSetup(pp.status)
    /\ out' = [out EXCEPT !.target = pp.target]
    /\ pc' = "setup_velocity"
    /\ UNCHANGED <<pp, in, allOp, frame, lost, drv, faults, historyVars>>

SetupVelocity ==
    /\ pc = "setup_velocity"
    /\ out' = [out EXCEPT !.velocity = pp.velocity]
    /\ pp' = [pp EXCEPT !.status = @ + 1]
    /\ pc' = "send"
    /\ UNCHANGED <<in, allOp, frame, lost, drv, faults, historyVars>>

\* Slip: one count too many.
InHoldTooLong(s) == SetupEnd <= s /\ s <= HoldEnd

\* 20 <= status < 30: the control word is read back from the image.
InHold(s) == SetupEnd <= s /\ s < HoldEnd

HoldFollowsTarget ==  \* slip: the target goes on following the structure
    /\ Active /\ InHold(pp.status)
    /\ out' = [out EXCEPT !.cw = contrlword_new_set_point(out.cw), !.target = pp.target]
    /\ pp' = [pp EXCEPT !.status = @ + 1]
    /\ pc' = "send"
    /\ UNCHANGED <<in, allOp, frame, lost, drv, faults, historyVars>>

Hold ==
    /\ Active /\ InHold(pp.status)
    /\ out' = [out EXCEPT !.cw = contrlword_new_set_point(out.cw)]
    /\ pp' = [pp EXCEPT !.status = @ + 1]
    /\ pc' = "send"
    /\ UNCHANGED <<in, allOp, frame, lost, drv, faults, historyVars>>

AwaitKeepsBit ==  \* slip: the control word is not set back
    /\ Active /\ pp.status = HoldEnd
    /\ pp' = [pp EXCEPT !.status = IF TargetReachedBit \in in.sw THEN 1 ELSE @]
    /\ dropped' = IF TargetReachedBit \in in.sw THEN ~InOperation(drv) ELSE dropped
    /\ pc' = "send"
    /\ UNCHANGED <<out, in, allOp, frame, lost, drv, faults, meant>>

\* status 30: wait until the drive reports the target reached.
AwaitReached ==
    /\ Active /\ pp.status = HoldEnd
    /\ pp' = [pp EXCEPT !.status = IF TargetReachedBit \in in.sw THEN 1 ELSE @]
    /\ dropped' = IF TargetReachedBit \in in.sw THEN ~InOperation(drv) ELSE dropped
    /\ out' = [out EXCEPT !.cw = EnableOperation]
    /\ pc' = "send"
    /\ UNCHANGED <<in, allOp, frame, lost, drv, faults, meant>>

\* nser_send_all().  The drive puts its status in the passing frame before it
\* acts on the outputs it takes from it.
DriveActs ==
    /\ drv' = AfterOutputs(drv, out)
    /\ DropIf(InOperation(drv) /\ ~InOperation(drv'))

Send ==
    /\ pc = "send"
    /\ DriveActs
    /\ frame' = {[sw |-> StatusWord(drv), pos |-> drv.pos]}
    /\ lost' = 0
    /\ pc' = "receive"
    /\ UNCHANGED <<pp, out, in, allOp, faults, meant>>

\* The frame is lost before it reaches the drive, or behind it.
SendLostBefore ==
    /\ pc = "send" /\ lost < MaxLoss
    /\ lost' = lost + 1
    /\ pc' = "receive"
    /\ UNCHANGED <<pp, out, in, allOp, frame, drv, faults, historyVars>>

SendLostBehind ==
    /\ pc = "send" /\ lost < MaxLoss
    /\ DriveActs
    /\ lost' = lost + 1
    /\ pc' = "receive"
    /\ UNCHANGED <<pp, out, in, allOp, frame, faults, meant>>

(***************************************************************************)
(* The command thread: command_parse() for this axis.                      *)
(***************************************************************************)
SetTarget(p) ==
    /\ pp' = [pp EXCEPT !.target = p]
    /\ meant' = meant \cup {p}
    /\ UNCHANGED <<pc, out, in, allOp, frame, lost, drv, faults, dropped>>

SetVelocity(v) ==
    /\ pp' = [pp EXCEPT !.velocity = v]
    /\ UNCHANGED <<pc, out, in, allOp, frame, lost, drv, faults, historyVars>>

(***************************************************************************)
Task ==
    \/ TaskNotStarted \/ TaskNotAllOp
    \/ InitTarget \/ InitVelocity \/ InitWriteTarget \/ InitDone
    \/ SetupTarget \/ SetupVelocity \/ Hold \/ AwaitReached

Transmit == Send \/ SendLostBefore \/ SendLostBehind

Command ==
    \/ \E p \in Positions : SetTarget(p)
    \/ \E v \in Velocities : SetVelocity(v)

Next ==
    \/ \E op \in BOOLEAN : Receive(op)
    \/ Task
    \/ Transmit
    \/ DriveMove \/ DriveInitialises \/ DriveFault \/ DriveFaultReactionDone
    \/ Command

Spec == Init /\ [][Next]_vars

(***************************************************************************)
(* The cyclic thread is woken every period; the bus is in ALL_OP again and *)
(* again; the drive finishes what it has begun.  Nothing forces a client   *)
(* to send a command.                                                      *)
(***************************************************************************)
Fairness ==
    /\ WF_vars(\E op \in BOOLEAN : Receive(op))
    /\ SF_vars(Receive(TRUE))
    /\ WF_vars(Task)
    /\ WF_vars(Transmit)
    /\ WF_vars(DriveMove)
    /\ WF_vars(DriveInitialises)
    /\ WF_vars(DriveFaultReactionDone)

FairSpec == Spec /\ Fairness

(***************************************************************************)
(* Properties.                                                             *)
(***************************************************************************)
\* While bit 4 of the control word is set the target position and the
\* profile velocity in the outputs do not change, whatever a client writes:
\* the drive samples them at an instant the program cannot know
\* (pp_update_target_position()).
SetPointStable ==
    [][(NewSetPointBit \in out'.cw)
          => out'.target = out.target /\ out'.velocity = out.velocity]_vars

\* The drive is in operation only with mode pp selected: axis_start() writes
\* the mode no later than the control word that enables it.
EnabledInMode == InOperation(drv) => drv.mode = "pp"

\* The axis is only ever sent to where it stood when the program started or
\* to a position a client asked for, never to what a cleared process image
\* or a cleared structure says.
SetPointsWereMeant == drv.setpoint \in meant \cup {NoSetPoint}

\* When the program takes the target-reached bit for the end of a move, the
\* drive has taken this move's set point and stands on it, however frames
\* were lost, unless it dropped out of operation on the way: the bit is never
\* the one of the move before.
FinishedMovesWereTaken ==
    [][pp.status = HoldEnd /\ pp'.status = 1 /\ ~dropped
          => drv.setpoint = out.target /\ drv.pos = out.target]_vars

\* A target position that stays set is handed to the drive, unless a move at
\* velocity 0 is under way: that one never ends.
TargetServed ==
    \A p \in Positions :
        (pp.target = p /\ pp.status >= 1)
            ~> (drv.setpoint = p \/ pp.target # p \/ out.velocity = 0)

(***************************************************************************)
(* The axis implements SetPoints: a move is open until the set-up phase is *)
(* over and fixed until the status goes back to 1.                         *)
(***************************************************************************)
Phase == IF pp.status > SetupEnd THEN "fixed" ELSE "open"

Moves == INSTANCE SetPoints WITH
    asked <- meant, phase <- Phase, goal <- out.target, taken <- drv.setpoint,
    pos <- drv.pos, excused <- (dropped /\ Phase = "fixed")

\* Counting periods gives what SetPoints promises: pp_update_target_position()
\* offers one fixed goal at a time, the drive takes no other, and the next one
\* is offered only when the drive stands on it or has left operation.
OneMoveAtATime == Moves!Spec

(***************************************************************************)
(* The inductive invariant the safety properties follow from.              *)
(***************************************************************************)
Images == {in} \cup frame

\* Where the program counter stands and what it presupposes.
ControlInv ==
    /\ pc # "receive" => frame = {}
    /\ pc \in {"init_velocity", "init_target", "init_done"}
          => pp.status = 0 /\ Started(in.sw)
    /\ pc = "setup_velocity" => InSetup(pp.status) /\ Started(in.sw)
    /\ pc = "init_done" => out.cw = EnableOperation
    /\ NewSetPointBit \in out.cw => SetupEnd < pp.status

\* Nothing says "enabled" before the mode is in the outputs.
ModeInv ==
    /\ InOperation(drv) => drv.mode = "pp" /\ out.mode = "pp"
    /\ IsEnable(out.cw) => out.mode = "pp"
    /\ \A r \in Images : Started(r.sw) => out.mode = "pp"

\* Every place on its way to the drive's set point is meant.
MeantInv ==
    /\ drv.pos \in meant
    /\ drv.setpoint \in meant \cup {NoSetPoint}
    /\ \A f \in frame : f.pos \in meant
    /\ Started(in.sw) => in.pos \in meant
    /\ pc \in {"init_velocity", "init_target", "init_done"} \/ pp.status > 0
          => pp.target \in meant
    /\ pc = "init_done" \/ pp.status > 0 => out.target \in meant

\* The move of this handshake: taken, and taken and done.
Taken == drv.setpoint = out.target
Done == Taken /\ drv.pos = out.target

\* The task has counted this period, the frame has not been sent yet.
Ahead == IF pc = "send" THEN 1 ELSE 0

Untaken == NewSetPointBit \in out.cw /\ NewSetPointBit \notin drv.cw

\* A target-reached bit is this move's, or so few frames have been sent that
\* the hold phase cannot be over.
Fresh(r) ==
    TargetReachedBit \in r.sw
        => Done \/ pp.status - SetupEnd - Ahead <= lost + MaxLoss + 1

HandshakeInv ==
    pp.status > 0 /\ ~dropped =>
    /\ InOperation(drv)
    /\ \A r \in Images : Started(r.sw)
    /\ out.cw \in {EnableOperation, contrlword_new_set_point(EnableOperation)}
    /\ SetupEnd < pp.status /\ pp.status < HoldEnd => NewSetPointBit \in out.cw
    /\ pp.status <= SetupEnd /\ NewSetPointBit \in drv.cw
          => pp.status - Ahead <= lost
    /\ SetupEnd < pp.status /\ Untaken => pp.status - SetupEnd - Ahead <= lost
    /\ SetupEnd < pp.status /\ ~Untaken => Taken
    /\ SetupEnd < pp.status => \A f \in frame : Fresh(f)
    /\ SetupEnd < pp.status /\ frame = {} => Fresh(in)

\* A drive that is not in operation has no set point.
IdleInv == ~InOperation(drv) => drv.setpoint = NoSetPoint

PPInv == TypeOK /\ ControlInv /\ ModeInv /\ MeantInv /\ HandshakeInv
=============================================================================
