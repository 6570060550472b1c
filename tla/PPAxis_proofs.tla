--------------------------- MODULE PPAxis_proofs ---------------------------
(***************************************************************************)
(* The safety properties of PPAxis, proved for every set of positions and  *)
(* velocities, every length of the two phases and every bound on losses    *)
(* and faults that the assumptions of PPAxis admit.                        *)
(***************************************************************************)
EXTENDS PPAxis, TLAPS

Drives == [state : AxleStates, cw : Word, mode : OpModes,
           velocity : AllVelocities, setpoint : Positions \cup {NoSetPoint},
           pos : Positions]

(***************************************************************************)
(* Words.                                                                  *)
(***************************************************************************)
\* The status word of a drive is a word, and a drive shows "operation
\* enabled" when it is, and only then (get_axle_state() against the drive).
LEMMA StatusWordStarted ==
    ASSUME NEW d \in Drives
    PROVE  /\ StatusWord(d) \in Word
           /\ Started(StatusWord(d)) <=> InOperation(d)
<1> DEFINE R == IF InOperation(d) /\ d.setpoint \in {NoSetPoint, d.pos}
                THEN {TargetReachedBit} ELSE {}
           P == StatusPattern(d.state)
<1>1. StatusWord(d) = P \cup R
  BY DEF StatusWord
<1>2. R \subseteq {10}
  BY DEF TargetReachedBit
<1>3. d.state \in AxleStates
  BY DEF Drives
<1>4. P \subseteq 0..7 /\ P \in Word
  BY <1>3 DEF AxleStates, StatusPattern, Word
<1>5. P \cup R \in Word
  BY <1>2, <1>4 DEF Word
<1>6. /\ Mask4F(P \cup R) = Mask4F(P)
      /\ Mask6F(P \cup R) = Mask6F(P)
      /\ FaultBit \in P \cup R <=> FaultBit \in P
  BY <1>2 DEF Mask4F, Mask6F, FaultBit
<1>7. Started(P \cup R) <=> Started(P)
  BY <1>6 DEF Started, get_axle_state
<1>8. Started(P) <=> d.state = "operation_enable"
  <2>1. CASE d.state = "operation_enable"
    <3>1. P = {0, 1, 2, 4, 5}
      BY <2>1 DEF StatusPattern
    <3>2. Mask4F(P) = {0, 1, 2} /\ Mask6F(P) = {0, 1, 2, 5} /\ FaultBit \notin P
      BY <3>1 DEF Mask4F, Mask6F, FaultBit
    <3> QED BY <2>1, <3>2 DEF Started, get_axle_state
  <2>2. CASE d.state # "operation_enable"
    <3>1. FaultBit \in P \/ Mask6F(P) # {0, 1, 2, 5}
      BY <1>3, <2>2 DEF AxleStates, StatusPattern, Mask6F, FaultBit
    <3>2. ASSUME Mask6F(P) # {0, 1, 2, 5}
          PROVE  get_axle_state(P) # "operation_enable"
      BY <3>2 DEF get_axle_state
    <3> QED BY <2>2, <3>1, <3>2 DEF Started
  <2> QED BY <2>1, <2>2
<1> QED BY <1>1, <1>5, <1>7, <1>8 DEF InOperation

\* Bit 10 says the drive is in operation and stands on its set point or has
\* not taken one.
LEMMA ReachedBit ==
    ASSUME NEW d \in Drives
    PROVE  TargetReachedBit \in StatusWord(d)
              <=> InOperation(d) /\ d.setpoint \in {NoSetPoint, d.pos}
<1>1. d.state \in AxleStates
  BY DEF Drives
<1>2. 10 \notin StatusPattern(d.state)
  BY <1>1 DEF AxleStates, StatusPattern
<1> QED BY <1>2 DEF StatusWord, TargetReachedBit

\* axis_start() writes no new set point, and enables only with the mode.
LEMMA StartControlwordSafe ==
    ASSUME NEW sw, NEW cw \in Word, ~Started(sw)
    PROVE  LET c == StartControlword(sw, cw) IN
           /\ c \in Word
           /\ NewSetPointBit \in c => NewSetPointBit \in cw
           /\ IsEnable(c) => StartWritesMode(sw) \/ IsEnable(cw)
<1> DEFINE c == StartControlword(sw, cw)
           s == get_axle_state(sw)
<1>1. CASE FaultBit \in sw
  <2>1. c = {7}
    BY <1>1 DEF StartControlword, FaultReset
  <2> QED BY <2>1 DEF Word, NewSetPointBit, IsEnable
<1>2. CASE FaultBit \notin sw /\ s \in {"no_ready_to_switch_on", "switch_on_disable"}
  <2>1. c = {1, 2}
    BY <1>2 DEF StartControlword, contrlword_shutdown
  <2> QED BY <2>1 DEF Word, NewSetPointBit, IsEnable
<1>3. CASE FaultBit \notin sw /\ s = "ready_to_switch_on"
  <2>1. c = {0, 1, 2}
    BY <1>3 DEF StartControlword, contrlword_switch_on
  <2> QED BY <2>1 DEF Word, NewSetPointBit, IsEnable
<1>4. CASE FaultBit \notin sw /\ s = "switched_on"
  <2>1. c = {0, 1, 2, 3}
    BY <1>4 DEF StartControlword, contrlword_enable_operation
  <2>2. StartWritesMode(sw)
    BY <1>4 DEF StartWritesMode
  <2> QED BY <2>1, <2>2 DEF Word, NewSetPointBit
<1>5. CASE /\ FaultBit \notin sw
           /\ s \notin {"no_ready_to_switch_on", "switch_on_disable",
                        "ready_to_switch_on", "switched_on"}
  <2>1. c = cw
    BY <1>5 DEF StartControlword
  <2> QED BY <2>1
<1> QED BY <1>1, <1>2, <1>3, <1>4, <1>5

\* A control word that enables enables still with a new set point.
LEMMA NewSetPointEnables ==
    ASSUME NEW cw \in Word
    PROVE  LET c == contrlword_new_set_point(cw) IN
           /\ c \in Word
           /\ NewSetPointBit \in c
           /\ IsEnable(c) <=> IsEnable(cw)
BY DEF contrlword_new_set_point, Word, NewSetPointBit, IsEnable

LEMMA EnableOperationWord ==
    EnableOperation \in Word /\ NewSetPointBit \notin EnableOperation
BY DEF EnableOperation, Word, NewSetPointBit

\* A drive enters operation only by an enabling control word, and stays in it
\* under the control words of the handshake.
LEMMA Transition ==
    ASSUME NEW s \in AxleStates, NEW cw, NEW prev, NEW onEdge \in BOOLEAN
    PROVE  LET t == DriveTransition(s, cw, prev, onEdge) IN
           /\ t \in AxleStates
           /\ t = "operation_enable" => s = "operation_enable" \/ IsEnable(cw)
           /\ (s = "operation_enable"
                 /\ cw \in {EnableOperation, contrlword_new_set_point(EnableOperation)})
              => t = "operation_enable"
<1> DEFINE t == DriveTransition(s, cw, prev, onEdge)
<1>1. t \in AxleStates
  BY DEF AxleStates, DriveTransition
<1>2. ASSUME t = "operation_enable", s # "operation_enable"
      PROVE  IsEnable(cw)
  BY <1>2 DEF AxleStates, DriveTransition
<1>3. ASSUME s = "operation_enable",
             cw \in {EnableOperation, contrlword_new_set_point(EnableOperation)}
      PROVE  t = "operation_enable"
  <2>1. cw \in {{0, 1, 2, 3}, {0, 1, 2, 3, 4}}
    BY <1>3 DEF EnableOperation, contrlword_new_set_point
  <2>2. /\ ~IsShutdown(cw) /\ ~IsQuickStop(cw) /\ ~IsDisableVoltage(cw)
    BY <2>1 DEF IsShutdown, IsQuickStop, IsDisableVoltage
  <2>3. IsSwitchOn(cw) = FALSE
    BY <2>1 DEF IsSwitchOn
  <2> QED BY <1>3, <2>2, <2>3 DEF DriveTransition
<1> QED BY <1>1, <1>2, <1>3

\* What a drive becomes when it acts on outputs.
LEMMA DriveAfterOutputs ==
    ASSUME NEW d \in Drives, NEW o \in Outputs
    PROVE  LET e == AfterOutputs(d, o)
               handshake == o.cw \in {EnableOperation,
                                      contrlword_new_set_point(EnableOperation)}
           IN
           /\ e \in Drives
           /\ e.cw = o.cw /\ e.mode = o.mode /\ e.pos = d.pos
           /\ \/ e.setpoint \in {NoSetPoint, d.setpoint}
              \/ e.setpoint = o.target /\ NewSetPointBit \in o.cw
           /\ InOperation(e) => InOperation(d) \/ IsEnable(o.cw)
           /\ InOperation(d) /\ handshake
                => /\ InOperation(e)
                   /\ e.setpoint = IF NewSetPointBit \in o.cw \ d.cw
                                   THEN o.target ELSE d.setpoint
<1> DEFINE e == AfterOutputs(d, o)
           t == DriveTransition(d.state, o.cw, d.cw, ResetOnEdge)
           handshake == o.cw \in {EnableOperation,
                                  contrlword_new_set_point(EnableOperation)}
<1>1. d.state \in AxleStates /\ ResetOnEdge \in BOOLEAN
  BY FaultsAssumption DEF Drives
<1>2. /\ t \in AxleStates
      /\ t = "operation_enable" => d.state = "operation_enable" \/ IsEnable(o.cw)
      /\ d.state = "operation_enable" /\ handshake => t = "operation_enable"
  BY <1>1, Transition
<1>3. /\ e.state = t
      /\ e.cw = o.cw /\ e.mode = o.mode /\ e.pos = d.pos
      /\ e.setpoint = IF t # "operation_enable" THEN NoSetPoint
                      ELSE IF Takes(d, o) THEN o.target ELSE d.setpoint
  BY DEF AfterOutputs
<1>4. e \in Drives
  BY <1>2 DEF AfterOutputs, Drives, Outputs
<1>5. Takes(d, o) => NewSetPointBit \in o.cw
  BY DEF Takes
<1>6. ASSUME InOperation(d), handshake
      PROVE  /\ InOperation(e)
             /\ e.setpoint = IF NewSetPointBit \in o.cw \ d.cw
                             THEN o.target ELSE d.setpoint
  BY <1>2, <1>3, <1>6 DEF InOperation, Takes
<1> HIDE DEF e, t, handshake
<1>7. \/ e.setpoint \in {NoSetPoint, d.setpoint}
      \/ e.setpoint = o.target /\ NewSetPointBit \in o.cw
  BY <1>3, <1>5
<1>8. InOperation(e) => InOperation(d) \/ IsEnable(o.cw)
  BY <1>2, <1>3 DEF InOperation
<1> QED BY <1>3, <1>4, <1>6, <1>7, <1>8 DEF e, handshake

(***************************************************************************)
(* Type correctness.                                                       *)
(***************************************************************************)
LEMMA InitTypeOK == Init => TypeOK
<1> SUFFICES ASSUME Init
             PROVE  TypeOK
  OBVIOUS
<1> USE PositionsAssumption, PhasesAssumption, FaultsAssumption
<1>1. {} \in Word /\ 0 \in AllVelocities /\ {"none", "pp"} = OpModes
  BY DEF Word, AllVelocities, OpModes
<1>2. drv \in Drives
  BY <1>1 DEF Init, Drives, AxleStates
<1>3. pp \in [target : Positions, velocity : AllVelocities, status : 0..HoldEnd]
  BY <1>1 DEF Init
<1>4. out \in Outputs /\ in \in Inputs /\ frame \in SUBSET Inputs
  BY <1>1 DEF Init, Outputs, Inputs
<1>5. meant \in SUBSET Positions
  BY <1>2 DEF Init, Drives
<1>6. allOp \in BOOLEAN /\ dropped \in BOOLEAN
  BY DEF Init
<1>7. /\ pc \in {"receive", "task", "init_velocity", "init_target", "init_done",
                 "setup_velocity", "send"}
      /\ lost \in 0..MaxLoss /\ faults \in 0..MaxFaults
  BY DEF Init
<1> QED BY <1>2, <1>3, <1>4, <1>5, <1>6, <1>7 DEF TypeOK, Drives

LEMMA DriveActsType ==
    ASSUME TypeOK, DriveActs
    PROVE  drv' \in Drives /\ dropped' \in BOOLEAN
BY DriveAfterOutputs DEF TypeOK, DriveActs, DropIf, Drives

LEMMA NextTypeOK == TypeOK /\ ControlInv /\ [Next]_vars => TypeOK'
<1> SUFFICES ASSUME TypeOK, ControlInv, [Next]_vars
             PROVE  TypeOK'
  OBVIOUS
<1> USE PhasesAssumption
<1>1. ASSUME NEW op \in BOOLEAN, Receive(op)
      PROVE  TypeOK'
  BY <1>1 DEF TypeOK, Receive, historyVars
<1>2. CASE TaskNotStarted
  <2>1. out' \in Outputs
    BY <1>2, StartControlwordSafe DEF TypeOK, TaskNotStarted, Outputs, OpModes
  <2> QED BY <1>2, <2>1 DEF TypeOK, TaskNotStarted, historyVars
<1>3. CASE TaskNotAllOp
  BY <1>3 DEF TypeOK, TaskNotAllOp, historyVars
<1>4. CASE InitTarget
  BY <1>4 DEF TypeOK, InitTarget, Inputs, historyVars
<1>5. CASE InitVelocity
  BY <1>5 DEF TypeOK, InitVelocity, Outputs, historyVars
<1>6. CASE InitWriteTarget
  BY <1>6, EnableOperationWord DEF TypeOK, InitWriteTarget, Outputs, Inputs, historyVars
<1>7. CASE InitDone
  BY <1>7 DEF TypeOK, InitDone, InOperation
<1>8. CASE SetupTarget
  BY <1>8 DEF TypeOK, SetupTarget, Outputs, historyVars
<1>9. CASE SetupVelocity
  <2>1. InSetup(pp.status)
    BY <1>9 DEF SetupVelocity, ControlInv
  <2> QED BY <1>9, <2>1 DEF TypeOK, SetupVelocity, Outputs, historyVars, InSetup
<1>10. CASE Hold
  <2>1. pp' \in [target : Positions, velocity : AllVelocities, status : 0..HoldEnd]
    BY <1>10 DEF TypeOK, Hold, InHold
  <2>2. out' \in Outputs
    BY <1>10, NewSetPointEnables DEF TypeOK, Hold, Outputs
  <2> QED BY <1>10, <2>1, <2>2 DEF TypeOK, Hold, historyVars
<1>11. CASE AwaitReached
  <2>1. out' \in Outputs
    BY <1>11, EnableOperationWord DEF TypeOK, AwaitReached, Outputs
  <2>2. dropped' \in BOOLEAN
    BY <1>11 DEF TypeOK, AwaitReached, InOperation
  <2>3. pp' \in [target : Positions, velocity : AllVelocities, status : 0..HoldEnd]
    BY <1>11 DEF TypeOK, AwaitReached
  <2> QED BY <1>11, <2>1, <2>2, <2>3 DEF TypeOK, AwaitReached
<1>12. CASE Send
  <2>1. drv' \in Drives /\ dropped' \in BOOLEAN
    BY <1>12, DriveActsType DEF Send
  <2>2. frame' \in SUBSET Inputs
    BY <1>12, StatusWordStarted DEF Send, TypeOK, Drives, Inputs
  <2> QED BY <1>12, <2>1, <2>2 DEF TypeOK, Send, Drives
<1>13. CASE SendLostBefore
  BY <1>13 DEF TypeOK, SendLostBefore, historyVars
<1>14. CASE SendLostBehind
  <2>1. drv' \in Drives /\ dropped' \in BOOLEAN
    BY <1>14, DriveActsType DEF SendLostBehind
  <2> QED BY <1>14, <2>1 DEF TypeOK, SendLostBehind, Drives
<1>15. CASE DriveMove
  BY <1>15 DEF TypeOK, DriveMove, cyclicVars, historyVars
<1>16. CASE DriveInitialises
  BY <1>16 DEF TypeOK, DriveInitialises, cyclicVars, historyVars, AxleStates
<1>17. CASE DriveFault
  <2>1. dropped' \in BOOLEAN
    BY <1>17 DEF TypeOK, DriveFault, DropIf, InOperation
  <2>2. drv' \in Drives
    BY <1>17 DEF TypeOK, DriveFault, Drives, AxleStates
  <2>3. faults' \in 0..MaxFaults
    BY <1>17, FaultsAssumption DEF TypeOK, DriveFault
  <2> QED BY <1>17, <2>1, <2>2, <2>3 DEF TypeOK, DriveFault, cyclicVars, Drives
<1>18. CASE DriveFaultReactionDone
  BY <1>18 DEF TypeOK, DriveFaultReactionDone, cyclicVars, historyVars, AxleStates
<1>19. ASSUME NEW p \in Positions, SetTarget(p)
       PROVE  TypeOK'
  BY <1>19 DEF TypeOK, SetTarget
<1>20. ASSUME NEW v \in Velocities, SetVelocity(v)
       PROVE  TypeOK'
  BY <1>20 DEF TypeOK, SetVelocity, AllVelocities, historyVars
<1>21. CASE UNCHANGED vars
  BY <1>21 DEF TypeOK, vars
<1> QED
  BY <1>1, <1>2, <1>3, <1>4, <1>5, <1>6, <1>7, <1>8, <1>9, <1>10, <1>11,
     <1>12, <1>13, <1>14, <1>15, <1>16, <1>17, <1>18, <1>19, <1>20, <1>21
     DEF Next, Task, Transmit, Command

(***************************************************************************)
(* Control: the program counter and the new-set-point bit.                 *)
(***************************************************************************)
LEMMA InitControlInv == Init => ControlInv
BY DEF Init, ControlInv, NewSetPointBit

LEMMA NextControlInv == TypeOK /\ ControlInv /\ [Next]_vars => ControlInv'
<1> SUFFICES ASSUME TypeOK, ControlInv, [Next]_vars
             PROVE  ControlInv'
  OBVIOUS
<1> USE PhasesAssumption
<1>1. ASSUME NEW op \in BOOLEAN, Receive(op)
      PROVE  ControlInv'
  BY <1>1 DEF ControlInv, Receive
<1>2. CASE TaskNotStarted
  <2>1. NewSetPointBit \in out'.cw => NewSetPointBit \in out.cw
    BY <1>2, StartControlwordSafe DEF TypeOK, TaskNotStarted, Outputs
  <2> QED BY <1>2, <2>1 DEF ControlInv, TaskNotStarted
<1>3. CASE TaskNotAllOp
  BY <1>3 DEF ControlInv, TaskNotAllOp
<1>4. CASE InitTarget
  BY <1>4 DEF TypeOK, ControlInv, InitTarget, Active
<1>5. CASE InitVelocity
  BY <1>5 DEF TypeOK, ControlInv, InitVelocity, Outputs
<1>6. CASE InitWriteTarget
  <2>1. out'.cw = EnableOperation /\ NewSetPointBit \notin out'.cw
    BY <1>6, EnableOperationWord DEF TypeOK, InitWriteTarget, Outputs
  <2> QED BY <1>6, <2>1 DEF ControlInv, InitWriteTarget
<1>7. CASE InitDone
  BY <1>7, EnableOperationWord DEF TypeOK, ControlInv, InitDone
<1>8. CASE SetupTarget
  BY <1>8 DEF TypeOK, ControlInv, SetupTarget, Active, Outputs
<1>9. CASE SetupVelocity
  BY <1>9 DEF TypeOK, ControlInv, SetupVelocity, InSetup, Outputs
<1>10. CASE Hold
  BY <1>10 DEF TypeOK, ControlInv, Hold, Active, InHold
<1>11. CASE AwaitReached
  BY <1>11, EnableOperationWord DEF TypeOK, ControlInv, AwaitReached, Active, Outputs
<1>12. CASE Send
  BY <1>12 DEF ControlInv, Send
<1>13. CASE SendLostBefore
  BY <1>13 DEF ControlInv, SendLostBefore
<1>14. CASE SendLostBehind
  BY <1>14 DEF ControlInv, SendLostBehind
<1>15. CASE DriveMove
  BY <1>15 DEF ControlInv, DriveMove, cyclicVars
<1>16. CASE DriveInitialises
  BY <1>16 DEF ControlInv, DriveInitialises, cyclicVars
<1>17. CASE DriveFault
  BY <1>17 DEF ControlInv, DriveFault, cyclicVars
<1>18. CASE DriveFaultReactionDone
  BY <1>18 DEF ControlInv, DriveFaultReactionDone, cyclicVars
<1>19. ASSUME NEW p \in Positions, SetTarget(p)
       PROVE  ControlInv'
  BY <1>19 DEF TypeOK, ControlInv, SetTarget
<1>20. ASSUME NEW v \in Velocities, SetVelocity(v)
       PROVE  ControlInv'
  BY <1>20 DEF TypeOK, ControlInv, SetVelocity
<1>21. CASE UNCHANGED vars
  BY <1>21 DEF ControlInv, vars
<1> QED
  BY <1>1, <1>2, <1>3, <1>4, <1>5, <1>6, <1>7, <1>8, <1>9, <1>10, <1>11,
     <1>12, <1>13, <1>14, <1>15, <1>16, <1>17, <1>18, <1>19, <1>20, <1>21
     DEF Next, Task, Transmit, Command

(***************************************************************************)
(* Mode: the drive is enabled in profile position mode only.               *)
(***************************************************************************)
LEMMA InitModeInv == Init => ModeInv
<1> SUFFICES ASSUME Init
             PROVE  ModeInv
  OBVIOUS
<1>1. ~InOperation(drv)
  BY DEF Init, InOperation
<1>2. ~IsEnable(out.cw)
  BY DEF Init, IsEnable
<1>3. ~Started(in.sw)
  <2>1. in.sw = {}
    BY DEF Init
  <2>2. Mask6F({}) # {0, 1, 2, 5}
    BY DEF Mask6F
  <2> QED BY <2>1, <2>2 DEF Started, get_axle_state
<1> QED BY <1>1, <1>2, <1>3 DEF Init, ModeInv, Images

LEMMA DriveActsMode ==
    ASSUME TypeOK, ModeInv, DriveActs
    PROVE  InOperation(drv') => drv'.mode = "pp" /\ out.mode = "pp"
<1>1. drv \in Drives /\ out \in Outputs
  BY DEF TypeOK, Drives
<1> QED BY <1>1, DriveAfterOutputs DEF ModeInv, DriveActs

LEMMA NextModeInv == TypeOK /\ ControlInv /\ ModeInv /\ [Next]_vars => ModeInv'
<1> SUFFICES ASSUME TypeOK, ControlInv, ModeInv, [Next]_vars
             PROVE  ModeInv'
  OBVIOUS
<1> USE DEF ModeInv, Images
<1>1. ASSUME NEW op \in BOOLEAN, Receive(op)
      PROVE  ModeInv'
  <2>1. in' \in {in} \cup frame /\ frame' = {} /\ UNCHANGED <<out, drv>>
    BY <1>1 DEF Receive
  <2> QED BY <2>1
<1>2. CASE TaskNotStarted
  <2>1. out'.cw = StartControlword(in.sw, out.cw)
    BY <1>2 DEF TypeOK, TaskNotStarted, Outputs
  <2>2. out'.mode = IF StartWritesMode(in.sw) THEN "pp" ELSE out.mode
    BY <1>2 DEF TypeOK, TaskNotStarted, Outputs
  <2>3. IsEnable(out'.cw) => StartWritesMode(in.sw) \/ IsEnable(out.cw)
    BY <1>2, <2>1, StartControlwordSafe DEF TypeOK, TaskNotStarted, Outputs
  <2> QED BY <1>2, <2>2, <2>3 DEF TaskNotStarted
<1>3. CASE TaskNotAllOp
  BY <1>3 DEF TaskNotAllOp
<1>4. CASE InitTarget
  BY <1>4 DEF InitTarget
<1>5. CASE InitVelocity
  BY <1>5 DEF TypeOK, InitVelocity, Outputs
<1>6. CASE InitWriteTarget
  <2>1. out.mode = "pp" /\ out'.mode = out.mode
    BY <1>6 DEF TypeOK, ControlInv, InitWriteTarget, Outputs
  <2> QED BY <1>6, <2>1 DEF InitWriteTarget
<1>7. CASE InitDone
  BY <1>7 DEF InitDone
<1>8. CASE SetupTarget
  BY <1>8 DEF TypeOK, SetupTarget, Outputs
<1>9. CASE SetupVelocity
  BY <1>9 DEF TypeOK, SetupVelocity, Outputs
<1>10. CASE Hold
  <2>1. out.mode = "pp" /\ out'.mode = out.mode
    BY <1>10 DEF TypeOK, Hold, Active, Outputs
  <2> QED BY <1>10, <2>1 DEF Hold
<1>11. CASE AwaitReached
  <2>1. out.mode = "pp" /\ out'.mode = out.mode
    BY <1>11 DEF TypeOK, AwaitReached, Active, Outputs
  <2> QED BY <1>11, <2>1 DEF AwaitReached
<1>12. CASE Send
  <2>1. InOperation(drv') => drv'.mode = "pp" /\ out.mode = "pp"
    BY <1>12, DriveActsMode DEF Send
  <2>2. Started(StatusWord(drv)) => InOperation(drv)
    BY StatusWordStarted DEF TypeOK, Drives
  <2> QED BY <1>12, <2>1, <2>2 DEF Send
<1>13. CASE SendLostBefore
  BY <1>13 DEF SendLostBefore
<1>14. CASE SendLostBehind
  BY <1>14, DriveActsMode DEF SendLostBehind
<1>15. CASE DriveMove
  BY <1>15 DEF TypeOK, DriveMove, cyclicVars, InOperation
<1>16. CASE DriveInitialises
  BY <1>16 DEF TypeOK, DriveInitialises, cyclicVars, InOperation
<1>17. CASE DriveFault
  BY <1>17 DEF TypeOK, DriveFault, cyclicVars, InOperation
<1>18. CASE DriveFaultReactionDone
  BY <1>18 DEF TypeOK, DriveFaultReactionDone, cyclicVars, InOperation
<1>19. ASSUME NEW p \in Positions, SetTarget(p)
       PROVE  ModeInv'
  BY <1>19 DEF SetTarget
<1>20. ASSUME NEW v \in Velocities, SetVelocity(v)
       PROVE  ModeInv'
  BY <1>20 DEF SetVelocity
<1>21. CASE UNCHANGED vars
  BY <1>21 DEF vars
<1> QED
  BY <1>1, <1>2, <1>3, <1>4, <1>5, <1>6, <1>7, <1>8, <1>9, <1>10, <1>11,
     <1>12, <1>13, <1>14, <1>15, <1>16, <1>17, <1>18, <1>19, <1>20, <1>21
     DEF Next, Task, Transmit, Command

(***************************************************************************)
(* Meant: every place on its way to the drive's set point.                 *)
(***************************************************************************)
LEMMA InitMeantInv == Init => MeantInv
<1> SUFFICES ASSUME Init
             PROVE  MeantInv
  OBVIOUS
<1>1. ~Started(in.sw)
  <2>1. in.sw = {}
    BY DEF Init
  <2>2. Mask6F({}) # {0, 1, 2, 5}
    BY DEF Mask6F
  <2> QED BY <2>1, <2>2 DEF Started, get_axle_state
<1>2. drv.setpoint = NoSetPoint /\ meant = {drv.pos} /\ frame = {}
      /\ pc = "receive" /\ pp.status = 0
  BY DEF Init
<1> QED BY <1>1, <1>2 DEF MeantInv

LEMMA DriveActsMeant ==
    ASSUME TypeOK, ControlInv, MeantInv, DriveActs
    PROVE  drv'.pos \in meant /\ drv'.setpoint \in meant \cup {NoSetPoint}
<1>1. drv \in Drives /\ out \in Outputs
  BY DEF TypeOK, Drives
<1>2. /\ drv'.pos = drv.pos
      /\ \/ drv'.setpoint \in {NoSetPoint, drv.setpoint}
         \/ drv'.setpoint = out.target /\ NewSetPointBit \in out.cw
  BY <1>1, DriveAfterOutputs DEF DriveActs
<1>3. NewSetPointBit \in out.cw => out.target \in meant
  BY PhasesAssumption DEF TypeOK, ControlInv, MeantInv
<1> QED BY <1>2, <1>3 DEF MeantInv

LEMMA NextMeantInv == TypeOK /\ ControlInv /\ MeantInv /\ [Next]_vars => MeantInv'
<1> SUFFICES ASSUME TypeOK, ControlInv, MeantInv, [Next]_vars
             PROVE  MeantInv'
  OBVIOUS
<1> USE PhasesAssumption DEF MeantInv
<1>1. ASSUME NEW op \in BOOLEAN, Receive(op)
      PROVE  MeantInv'
  <2>1. in' \in frame \/ in' = in
    BY <1>1 DEF Receive
  <2> QED BY <1>1, <2>1 DEF Receive, historyVars
<1>2. CASE TaskNotStarted
  BY <1>2 DEF TypeOK, TaskNotStarted, Outputs, historyVars
<1>3. CASE TaskNotAllOp
  BY <1>3 DEF TaskNotAllOp, historyVars
<1>4. CASE InitTarget
  <2>1. in.pos \in meant /\ pp'.target = in.pos /\ pp'.status = 0
    BY <1>4 DEF TypeOK, InitTarget, Active
  <2> QED BY <1>4, <2>1 DEF InitTarget, historyVars
<1>5. CASE InitVelocity
  BY <1>5 DEF TypeOK, ControlInv, InitVelocity, Outputs, historyVars
<1>6. CASE InitWriteTarget
  <2>1. in.pos \in meant /\ pp.target \in meant
    BY <1>6 DEF ControlInv, InitWriteTarget
  <2>2. out'.target \in meant
    BY <1>6, <2>1 DEF TypeOK, InitWriteTarget, Outputs
  <2> QED BY <1>6, <2>1, <2>2 DEF InitWriteTarget, historyVars
<1>7. CASE InitDone
  BY <1>7 DEF TypeOK, InitDone
<1>8. CASE SetupTarget
  BY <1>8 DEF TypeOK, SetupTarget, Active, InSetup, Outputs, historyVars
<1>9. CASE SetupVelocity
  <2>1. pp.status > 0 /\ pp'.target = pp.target /\ out'.target = out.target
    BY <1>9 DEF TypeOK, ControlInv, SetupVelocity, InSetup, Outputs
  <2> QED BY <1>9, <2>1 DEF SetupVelocity, historyVars
<1>10. CASE Hold
  <2>1. pp.status > 0 /\ pp'.target = pp.target /\ out'.target = out.target
    BY <1>10 DEF TypeOK, Hold, Active, InHold, Outputs
  <2> QED BY <1>10, <2>1 DEF Hold, historyVars
<1>11. CASE AwaitReached
  <2>1. pp.status > 0 /\ pp'.target = pp.target /\ out'.target = out.target
    BY <1>11 DEF TypeOK, AwaitReached, Active, Outputs
  <2> QED BY <1>11, <2>1 DEF AwaitReached
<1>12. CASE Send
  <2>1. drv'.pos \in meant /\ drv'.setpoint \in meant \cup {NoSetPoint}
    BY <1>12, DriveActsMeant DEF Send
  <2> QED BY <1>12, <2>1 DEF Send
<1>13. CASE SendLostBefore
  BY <1>13 DEF SendLostBefore, historyVars
<1>14. CASE SendLostBehind
  <2>1. drv'.pos \in meant /\ drv'.setpoint \in meant \cup {NoSetPoint}
    BY <1>14, DriveActsMeant DEF SendLostBehind
  <2> QED BY <1>14, <2>1 DEF SendLostBehind
<1>15. CASE DriveMove
  BY <1>15 DEF TypeOK, DriveMove, cyclicVars, historyVars
<1>16. CASE DriveInitialises
  BY <1>16 DEF TypeOK, DriveInitialises, cyclicVars, historyVars
<1>17. CASE DriveFault
  BY <1>17 DEF TypeOK, DriveFault, cyclicVars
<1>18. CASE DriveFaultReactionDone
  BY <1>18 DEF TypeOK, DriveFaultReactionDone, cyclicVars, historyVars
<1>19. ASSUME NEW p \in Positions, SetTarget(p)
       PROVE  MeantInv'
  BY <1>19 DEF TypeOK, SetTarget
<1>20. ASSUME NEW v \in Velocities, SetVelocity(v)
       PROVE  MeantInv'
  BY <1>20 DEF TypeOK, SetVelocity, historyVars
<1>21. CASE UNCHANGED vars
  BY <1>21 DEF vars
<1> QED
  BY <1>1, <1>2, <1>3, <1>4, <1>5, <1>6, <1>7, <1>8, <1>9, <1>10, <1>11,
     <1>12, <1>13, <1>14, <1>15, <1>16, <1>17, <1>18, <1>19, <1>20, <1>21
     DEF Next, Task, Transmit, Command

(***************************************************************************)
(* Handshake: counting the frames since the set point was raised.          *)
(***************************************************************************)
LEMMA InitHandshakeInv == Init => HandshakeInv
BY DEF Init, HandshakeInv

\* Outside the drive and the line a step that leaves the images, the drive
\* and the count of lost frames alone keeps what the images say.
LEMMA HandshakeDrive ==
    ASSUME TypeOK, HandshakeInv, pp.status > 0, ~dropped, DriveActs
    PROVE  /\ InOperation(drv') /\ ~dropped'
           /\ drv'.cw = out.cw /\ drv'.pos = drv.pos
           /\ drv'.setpoint = IF Untaken THEN out.target ELSE drv.setpoint
<1>1. drv \in Drives /\ out \in Outputs
  BY DEF TypeOK, Drives
<1>2. InOperation(drv) /\ out.cw \in {EnableOperation,
                                      contrlword_new_set_point(EnableOperation)}
  BY DEF HandshakeInv
<1>3. drv' = AfterOutputs(drv, out)
  BY DEF DriveActs
<1>4. /\ InOperation(drv') /\ drv'.cw = out.cw /\ drv'.pos = drv.pos
      /\ drv'.setpoint = IF NewSetPointBit \in out.cw \ drv.cw
                         THEN out.target ELSE drv.setpoint
  BY <1>1, <1>2, <1>3, DriveAfterOutputs
<1>5. ~dropped'
  BY <1>4 DEF DriveActs, DropIf
<1> QED BY <1>4, <1>5 DEF Untaken

LEMMA NextHandshakeInv ==
    TypeOK /\ ControlInv /\ HandshakeInv /\ [Next]_vars => HandshakeInv'
<1> SUFFICES ASSUME TypeOK, ControlInv, HandshakeInv, [Next]_vars
             PROVE  HandshakeInv'
  OBVIOUS
<1> USE PhasesAssumption
<1>1. ASSUME NEW op \in BOOLEAN, Receive(op)
      PROVE  HandshakeInv'
  <2>1. /\ in' \in frame \/ (frame = {} /\ in' = in)
        /\ frame' = {} /\ pc = "receive" /\ pc' = "task"
        /\ UNCHANGED <<pp, out, lost, drv, dropped>>
    BY <1>1 DEF Receive, historyVars
  <2>2. SUFFICES ASSUME pp.status > 0, ~dropped
                 PROVE  HandshakeInv'
    BY <2>1 DEF HandshakeInv
  <2>3. Ahead = 0 /\ Ahead' = 0
    BY <2>1 DEF Ahead
  <2> QED BY <2>1, <2>2, <2>3
          DEF HandshakeInv, Images, Fresh, Done, Taken, Untaken, InOperation
<1>2. CASE TaskNotStarted
  <2>1. pp.status > 0 => dropped
    BY <1>2 DEF TypeOK, TaskNotStarted, HandshakeInv, Images
  <2> QED BY <1>2, <2>1 DEF TypeOK, TaskNotStarted, HandshakeInv, historyVars
<1>3. CASE TaskNotAllOp
  BY <1>3 DEF TypeOK, TaskNotAllOp, HandshakeInv, historyVars, Images, Fresh,
              Done, Taken, Untaken, Ahead, InOperation
<1>4. CASE InitTarget
  <2>1. pp'.status = 0
    BY <1>4 DEF TypeOK, InitTarget
  <2> QED BY <2>1 DEF HandshakeInv
<1>5. CASE InitVelocity
  <2>1. pp'.status = 0
    BY <1>5 DEF ControlInv, InitVelocity
  <2> QED BY <2>1 DEF HandshakeInv
<1>6. CASE InitWriteTarget
  <2>1. pp'.status = 0
    BY <1>6 DEF ControlInv, InitWriteTarget
  <2> QED BY <2>1 DEF HandshakeInv
<1>7. CASE InitDone
  <2>1. /\ pp'.status \in {0, 1} /\ pc' = "send" /\ frame = {}
        /\ Started(in.sw) /\ out.cw = EnableOperation
        /\ UNCHANGED <<out, in, frame, lost, drv>>
        /\ dropped' = ~InOperation(drv)
    BY <1>7 DEF TypeOK, ControlInv, InitDone
  <2>2. pp'.status > 0 /\ ~dropped' => InOperation(drv')
    BY <2>1
  <2>3. lost' \in Nat /\ Ahead' = 1 /\ (pp'.status > 0 => pp'.status = 1)
    BY <2>1 DEF TypeOK, Ahead
  <2>4. Images' = {in'} /\ \A r \in Images' : Started(r.sw)
    BY <2>1 DEF Images
  <2>5. out'.cw = EnableOperation
    BY <2>1
  <2>6. SUFFICES ASSUME pp'.status > 0, ~dropped'
                 PROVE  HandshakeInv'
    BY DEF HandshakeInv
  <2>7. /\ ~(SetupEnd < pp'.status)
        /\ pp'.status - Ahead' <= lost'
    BY <2>3, <2>6
  <2>8. InOperation(drv')
    BY <2>2, <2>6
  <2>9. out'.cw \in {EnableOperation, contrlword_new_set_point(EnableOperation)}
    BY <2>5
  <2> QED BY <2>4, <2>7, <2>8, <2>9, Zenon DEF HandshakeInv
<1>8. CASE SetupTarget
  <2>1. /\ pc = "task" /\ pc' = "setup_velocity" /\ InSetup(pp.status)
        /\ out'.cw = out.cw
        /\ UNCHANGED <<pp, in, frame, lost, drv, dropped>>
    BY <1>8 DEF TypeOK, SetupTarget, Active, Outputs, historyVars
  <2>2. Ahead = 0 /\ Ahead' = 0 /\ ~(SetupEnd < pp.status)
    BY <2>1 DEF TypeOK, Ahead, InSetup
  <2>3. Images' = Images /\ (InOperation(drv') <=> InOperation(drv))
    BY <2>1 DEF Images, InOperation
  <2> QED BY <2>1, <2>2, <2>3 DEF HandshakeInv
<1>9. CASE SetupVelocity
  <2>1. /\ pc = "setup_velocity" /\ pc' = "send" /\ InSetup(pp.status)
        /\ pp'.status = pp.status + 1
        /\ out'.cw = out.cw
        /\ UNCHANGED <<in, frame, lost, drv, dropped>>
    BY <1>9 DEF TypeOK, ControlInv, SetupVelocity, Outputs, historyVars
  <2> QED BY <2>1 DEF TypeOK, HandshakeInv, Images, Ahead, InOperation, InSetup
<1>10. CASE Hold
  <2>1. /\ pc = "task" /\ pc' = "send" /\ InHold(pp.status)
        /\ pp'.status = pp.status + 1
        /\ out'.cw = contrlword_new_set_point(out.cw)
        /\ out'.target = out.target
        /\ frame = {}
        /\ UNCHANGED <<in, frame, lost, drv, dropped>>
    BY <1>10 DEF TypeOK, ControlInv, Hold, Active, Outputs, historyVars
  <2>2. SUFFICES ASSUME ~dropped
                 PROVE  HandshakeInv'
    BY <2>1 DEF HandshakeInv
  <2>3. contrlword_new_set_point(contrlword_new_set_point(EnableOperation))
          = contrlword_new_set_point(EnableOperation)
    BY DEF contrlword_new_set_point
  <2>4. /\ out'.cw = contrlword_new_set_point(EnableOperation)
        /\ NewSetPointBit \in out'.cw
    BY <2>1, <2>2, <2>3, EnableOperationWord, NewSetPointEnables
       DEF TypeOK, HandshakeInv, InHold
  <2>5. Ahead = 0 /\ Ahead' = 1
    BY <2>1 DEF Ahead
  <2>6. CASE pp.status = SetupEnd
    <3>1. NewSetPointBit \notin drv.cw
      BY <2>1, <2>2, <2>5, <2>6 DEF TypeOK, HandshakeInv, InHold
    <3> QED BY <2>1, <2>2, <2>4, <2>5, <2>6, <3>1
            DEF TypeOK, HandshakeInv, Images, Fresh, Untaken, InOperation
  <2>7. CASE SetupEnd < pp.status
    <3>1. NewSetPointBit \in out.cw
      BY <2>1, <2>2, <2>7 DEF TypeOK, HandshakeInv, InHold
    <3> QED BY <2>1, <2>2, <2>4, <2>5, <2>7, <3>1
            DEF TypeOK, HandshakeInv, Images, Fresh, Done, Taken, Untaken, InOperation
  <2> QED BY <2>1, <2>6, <2>7 DEF TypeOK, InHold
<1>11. CASE AwaitReached
  <2>1. /\ pc = "task" /\ pc' = "send" /\ pp.status = HoldEnd
        /\ Started(in.sw)
        /\ out'.cw = EnableOperation /\ out'.target = out.target
        /\ frame = {}
        /\ UNCHANGED <<in, frame, lost, drv>>
    BY <1>11 DEF TypeOK, ControlInv, AwaitReached, Active, Outputs
  <2>2. Ahead = 0 /\ Ahead' = 1
    BY <2>1 DEF Ahead
  <2>3. CASE TargetReachedBit \in in.sw
    <3>1. pp'.status = 1 /\ dropped' = ~InOperation(drv)
      BY <1>11, <2>3 DEF TypeOK, AwaitReached
    <3>2. ~dropped' => InOperation(drv')
      BY <2>1, <3>1
    <3> QED BY <2>1, <2>2, <3>1, <3>2, EnableOperationWord
            DEF TypeOK, HandshakeInv, Images
  <2>4. CASE TargetReachedBit \notin in.sw
    <3>1. pp'.status = HoldEnd /\ dropped' = dropped
      BY <1>11, <2>1, <2>4 DEF TypeOK, AwaitReached
    <3>2. ~dropped => ~Untaken
      BY <2>1, <2>2 DEF TypeOK, HandshakeInv
    <3> QED BY <2>1, <2>2, <2>4, <3>1, <3>2, EnableOperationWord
            DEF TypeOK, HandshakeInv, Images, Fresh, Taken, Untaken, InOperation
  <2> QED BY <2>3, <2>4
<1>12. CASE Send
  <2>1. /\ pc = "send" /\ pc' = "receive" /\ frame = {} /\ lost' = 0
        /\ DriveActs
        /\ frame' = {[sw |-> StatusWord(drv), pos |-> drv.pos]}
        /\ UNCHANGED <<pp, out, in>>
    BY <1>12 DEF ControlInv, Send
  <2>2. SUFFICES ASSUME pp.status > 0, ~dropped'
                 PROVE  HandshakeInv'
    BY <2>1 DEF HandshakeInv
  <2>3. ~dropped
    BY <2>1, <2>2 DEF DriveActs, DropIf
  <2>4. /\ InOperation(drv')
        /\ drv'.cw = out.cw /\ drv'.pos = drv.pos
        /\ drv'.setpoint = IF Untaken THEN out.target ELSE drv.setpoint
    BY <2>1, <2>2, <2>3, HandshakeDrive
  <2>5. drv \in Drives /\ InOperation(drv)
    BY <2>2, <2>3 DEF TypeOK, Drives, HandshakeInv
  <2>6. Started(StatusWord(drv))
    BY <2>5, StatusWordStarted
  <2>7. Ahead = 1 /\ Ahead' = 0
    BY <2>1 DEF Ahead
  <2>8. ASSUME SetupEnd < pp.status
        PROVE  Taken' /\ \A f \in frame' : Fresh(f)'
    <3>1. Taken'
      BY <2>1, <2>2, <2>3, <2>4, <2>8 DEF HandshakeInv, Taken
    <3>2. CASE Untaken
      <4>1. pp.status - SetupEnd - 1 <= lost
        BY <2>2, <2>3, <2>7, <2>8, <3>2 DEF HandshakeInv
      <4> QED BY <2>1, <2>7, <3>1, <4>1 DEF TypeOK, Fresh
    <3>3. CASE ~Untaken
      <4>1. Taken
        BY <2>2, <2>3, <2>8, <3>3 DEF HandshakeInv
      <4>2. drv.setpoint # NoSetPoint
        BY <4>1, PositionsAssumption DEF TypeOK, Outputs, Taken
      <4>3. TargetReachedBit \in StatusWord(drv) => drv.pos = drv.setpoint
        BY <2>5, <4>2, ReachedBit
      <4> QED BY <2>1, <2>4, <3>1, <4>1, <4>3 DEF Fresh, Done, Taken
    <3> QED BY <3>1, <3>2, <3>3
  <2>9. pp.status <= SetupEnd => NewSetPointBit \notin out'.cw
    BY <2>1 DEF TypeOK, ControlInv
  <2>10. ~Untaken'
    BY <2>1, <2>4 DEF Untaken
  <2>11. \A r \in Images' : Started(r.sw)
    BY <2>1, <2>2, <2>3, <2>6 DEF HandshakeInv, Images
  <2> QED BY <2>1, <2>2, <2>3, <2>4, <2>8, <2>9, <2>10, <2>11 DEF HandshakeInv
<1>13. CASE SendLostBefore
  <2>1. /\ pc = "send" /\ pc' = "receive" /\ frame = {} /\ lost' = lost + 1
        /\ UNCHANGED <<pp, out, in, frame, drv, dropped>>
    BY <1>13 DEF ControlInv, SendLostBefore, historyVars
  <2>2. Ahead = 1 /\ Ahead' = 0
    BY <2>1 DEF Ahead
  <2> QED BY <2>1, <2>2
          DEF TypeOK, HandshakeInv, Images, Fresh, Done, Taken, Untaken, InOperation
<1>14. CASE SendLostBehind
  <2>1. /\ pc = "send" /\ pc' = "receive" /\ frame = {} /\ lost' = lost + 1
        /\ DriveActs
        /\ UNCHANGED <<pp, out, in, frame>>
    BY <1>14 DEF ControlInv, SendLostBehind
  <2>2. SUFFICES ASSUME pp.status > 0, ~dropped'
                 PROVE  HandshakeInv'
    BY <2>1 DEF HandshakeInv
  <2>3. ~dropped
    BY <2>1, <2>2 DEF DriveActs, DropIf
  <2>4. /\ InOperation(drv')
        /\ drv'.cw = out.cw /\ drv'.pos = drv.pos
        /\ drv'.setpoint = IF Untaken THEN out.target ELSE drv.setpoint
    BY <2>1, <2>2, <2>3, HandshakeDrive
  <2>5. Ahead = 1 /\ Ahead' = 0
    BY <2>1 DEF Ahead
  <2>6. ASSUME SetupEnd < pp.status
        PROVE  Taken' /\ Fresh(in)'
    <3>1. Taken'
      BY <2>1, <2>2, <2>3, <2>4, <2>6 DEF HandshakeInv, Taken
    <3>2. Done => Done'
      BY <2>1, <2>4, <3>1 DEF Done, Taken
    <3>3. Fresh(in)
      BY <2>1, <2>2, <2>3, <2>6 DEF HandshakeInv
    <3> QED BY <2>1, <2>5, <3>1, <3>2, <3>3 DEF TypeOK, Fresh
  <2>7. pp.status <= SetupEnd => NewSetPointBit \notin out'.cw
    BY <2>1 DEF TypeOK, ControlInv
  <2>8. ~Untaken'
    BY <2>1, <2>4 DEF Untaken
  <2>9. \A r \in Images' : Started(r.sw)
    BY <2>1, <2>2, <2>3 DEF HandshakeInv, Images
  <2> QED BY <2>1, <2>2, <2>3, <2>4, <2>6, <2>7, <2>8, <2>9 DEF HandshakeInv
<1>15. CASE DriveMove
  <2>1. /\ InOperation(drv) /\ drv.pos # drv.setpoint
        /\ drv' = [drv EXCEPT !.pos = drv.setpoint]
        /\ UNCHANGED <<pp, pc, out, in, frame, lost, dropped>>
    BY <1>15 DEF DriveMove, cyclicVars, historyVars
  <2>2. Ahead' = Ahead /\ (Untaken' <=> Untaken) /\ (Taken' <=> Taken) /\ ~Done
    BY <2>1 DEF TypeOK, Ahead, Untaken, Taken, Done
  <2>3. \A r \in Inputs : Fresh(r) => Fresh(r)'
    BY <2>1, <2>2 DEF Fresh
  <2>4. in \in Inputs /\ frame \subseteq Inputs
    BY DEF TypeOK
  <2>5. InOperation(drv') /\ drv'.cw = drv.cw
    BY <2>1 DEF TypeOK, InOperation
  <2> QED BY <2>1, <2>2, <2>3, <2>4, <2>5 DEF HandshakeInv, Images
<1>16. CASE DriveInitialises
  <2>1. ~InOperation(drv)
    BY <1>16 DEF DriveInitialises, InOperation
  <2> QED BY <1>16, <2>1 DEF HandshakeInv, DriveInitialises, cyclicVars, historyVars
<1>17. CASE DriveFault
  <2>1. dropped' = (dropped \/ InOperation(drv)) /\ pp' = pp
    BY <1>17 DEF DriveFault, DropIf, cyclicVars
  <2>2. pp'.status > 0 => dropped'
    BY <2>1 DEF HandshakeInv
  <2> QED BY <2>2 DEF HandshakeInv
<1>18. CASE DriveFaultReactionDone
  <2>1. ~InOperation(drv)
    BY <1>18 DEF DriveFaultReactionDone, InOperation
  <2> QED BY <1>18, <2>1
          DEF HandshakeInv, DriveFaultReactionDone, cyclicVars, historyVars
<1>19. ASSUME NEW p \in Positions, SetTarget(p)
       PROVE  HandshakeInv'
  <2>1. pp'.status = pp.status /\ UNCHANGED <<pc, out, in, frame, lost, drv, dropped>>
    BY <1>19 DEF TypeOK, SetTarget
  <2> QED BY <2>1 DEF HandshakeInv, Images, Fresh, Done, Taken, Untaken, Ahead, InOperation
<1>20. ASSUME NEW v \in Velocities, SetVelocity(v)
       PROVE  HandshakeInv'
  <2>1. pp'.status = pp.status /\ UNCHANGED <<pc, out, in, frame, lost, drv, dropped>>
    BY <1>20 DEF TypeOK, SetVelocity, historyVars
  <2> QED BY <2>1 DEF HandshakeInv, Images, Fresh, Done, Taken, Untaken, Ahead, InOperation
<1>21. CASE UNCHANGED vars
  BY <1>21 DEF vars, HandshakeInv, Images, Fresh, Done, Taken, Untaken, Ahead, InOperation
<1> QED
  BY <1>1, <1>2, <1>3, <1>4, <1>5, <1>6, <1>7, <1>8, <1>9, <1>10, <1>11,
     <1>12, <1>13, <1>14, <1>15, <1>16, <1>17, <1>18, <1>19, <1>20, <1>21
     DEF Next, Task, Transmit, Command

(***************************************************************************)
(* The theorems.                                                           *)
(***************************************************************************)
\* The inductive invariant of one profile position axis: types, control, mode
\* of operation, origin of the set points and the counting of frames that
\* pp_update_target_position() relies on.
THEOREM Invariance == Spec => []PPInv
<1>1. Init => PPInv
  BY InitTypeOK, InitControlInv, InitModeInv, InitMeantInv, InitHandshakeInv DEF PPInv
<1>2. PPInv /\ [Next]_vars => PPInv'
  BY NextTypeOK, NextControlInv, NextModeInv, NextMeantInv, NextHandshakeInv DEF PPInv
<1> QED BY <1>1, <1>2, PTL DEF Spec

\* Every variable keeps its type: the count of pp_update_target_position()
\* stays within its two phases whatever a client writes.
THEOREM TypeCorrect == Spec => []TypeOK
<1>1. PPInv => TypeOK
  BY DEF PPInv
<1> QED BY <1>1, Invariance, PTL

\* axis_start() enables the drive in profile position mode only.
THEOREM ModeBeforeEnable == Spec => []EnabledInMode
<1>1. PPInv => EnabledInMode
  BY DEF PPInv, ModeInv, EnabledInMode
<1> QED BY <1>1, Invariance, PTL

\* The drive is only sent to where it stood or where a client asked for.
THEOREM OnlyMeantSetPoints == Spec => []SetPointsWereMeant
<1>1. PPInv => SetPointsWereMeant
  BY DEF PPInv, MeantInv, SetPointsWereMeant
<1> QED BY <1>1, Invariance, PTL

\* The set point does not change while the drive may be sampling it.
THEOREM StableSetPoints == Spec => SetPointStable
<1> DEFINE Stable == NewSetPointBit \in out'.cw
                       => out'.target = out.target /\ out'.velocity = out.velocity
<1>1. PPInv /\ [Next]_vars => [Stable]_vars
  <2> SUFFICES ASSUME TypeOK, ControlInv, Next
               PROVE  Stable
    BY DEF PPInv
  <2> USE PhasesAssumption
  <2>1. CASE InitVelocity
    BY <2>1 DEF TypeOK, ControlInv, InitVelocity, Outputs
  <2>2. CASE InitWriteTarget
    BY <2>2, EnableOperationWord DEF TypeOK, InitWriteTarget, Outputs
  <2>3. CASE SetupTarget
    BY <2>3 DEF TypeOK, ControlInv, SetupTarget, Active, InSetup, Outputs
  <2>4. CASE SetupVelocity
    BY <2>4 DEF TypeOK, ControlInv, SetupVelocity, InSetup, Outputs
  <2>5. CASE TaskNotStarted \/ Hold \/ AwaitReached
    BY <2>5 DEF TypeOK, TaskNotStarted, Hold, AwaitReached, Outputs
  <2>6. CASE \/ \E op \in BOOLEAN : Receive(op)
             \/ TaskNotAllOp \/ InitTarget \/ InitDone
             \/ Transmit
             \/ DriveMove \/ DriveInitialises \/ DriveFault \/ DriveFaultReactionDone
             \/ Command
    <3>1. out' = out
      BY <2>6 DEF Receive, TaskNotAllOp, InitTarget, InitDone, Transmit, Send,
                  SendLostBefore, SendLostBehind, DriveMove, DriveInitialises,
                  DriveFault, DriveFaultReactionDone, Command, SetTarget,
                  SetVelocity, cyclicVars
    <3> QED BY <3>1
  <2> QED BY <2>1, <2>2, <2>3, <2>4, <2>5, <2>6 DEF Next, Task
<1> QED BY <1>1, Invariance, PTL DEF Spec, SetPointStable

\* The target-reached bit the program acts on is never the one of the move
\* before, however frames were lost: with the lengths of the two phases in
\* the source, up to four in a row.
THEOREM ReachedMeansDone == Spec => FinishedMovesWereTaken
<1> DEFINE Finished == pp.status = HoldEnd /\ pp'.status = 1 /\ ~dropped
                         => drv.setpoint = out.target /\ drv.pos = out.target
<1>1. PPInv /\ [Next]_vars => [Finished]_vars
  <2> SUFFICES ASSUME PPInv, Next, pp.status = HoldEnd, pp'.status = 1, ~dropped
               PROVE  drv.setpoint = out.target /\ drv.pos = out.target
    OBVIOUS
  <2> USE PhasesAssumption
  <2>1. HoldEnd > 1 /\ pp.status # 0 /\ pp.status > SetupEnd
    OBVIOUS
  <2>2. AwaitReached
    BY <2>1 DEF PPInv, TypeOK, ControlInv, Next, Task, Transmit, Command, Receive,
                TaskNotStarted, TaskNotAllOp, InitTarget, InitVelocity,
                InitWriteTarget, InitDone, SetupTarget, SetupVelocity, InSetup,
                Hold, InHold, Send, SendLostBefore, SendLostBehind, DriveMove,
                DriveInitialises, DriveFault, DriveFaultReactionDone, SetTarget,
                SetVelocity, cyclicVars, Active
  <2>3. /\ pc = "task" /\ frame = {} /\ TargetReachedBit \in in.sw
    BY <2>1, <2>2 DEF PPInv, TypeOK, ControlInv, AwaitReached, Active
  <2>4. Ahead = 0 /\ Fresh(in)
    BY <2>1, <2>3 DEF PPInv, HandshakeInv, Ahead
  <2>5. lost \in 0..MaxLoss
    BY DEF PPInv, TypeOK
  <2> QED BY <2>3, <2>4, <2>5 DEF Fresh, Done, Taken
<1> QED BY <1>1, Invariance, PTL DEF Spec, FinishedMovesWereTaken

(***************************************************************************)
(* The axis implements SetPoints.                                          *)
(***************************************************************************)
LEMMA NextIdleInv == TypeOK /\ IdleInv /\ [Next]_vars => IdleInv'
<1> SUFFICES ASSUME TypeOK, IdleInv, [Next]_vars
             PROVE  IdleInv'
  OBVIOUS
<1>1. CASE DriveActs
  BY <1>1 DEF DriveActs, AfterOutputs, IdleInv, InOperation
<1>2. CASE DriveMove
  BY <1>2 DEF DriveMove, TypeOK, IdleInv, InOperation
<1>3. CASE DriveInitialises \/ DriveFault \/ DriveFaultReactionDone
  BY <1>3 DEF DriveInitialises, DriveFault, DriveFaultReactionDone, TypeOK, IdleInv,
              InOperation
<1>4. CASE drv' = drv
  BY <1>4 DEF IdleInv, InOperation
<1> QED
  BY <1>1, <1>2, <1>3, <1>4
     DEF Next, Task, Transmit, Command, vars, Receive, TaskNotStarted, TaskNotAllOp,
         InitTarget, InitVelocity, InitWriteTarget, InitDone, SetupTarget,
         SetupVelocity, Hold, AwaitReached, Send, SendLostBefore, SendLostBehind,
         SetTarget, SetVelocity

\* A frame that reaches the drive hands it the goal of the fixed move, or
\* throws it out of operation, or changes nothing SetPoints speaks of.
LEMMA DriveActsIsMove ==
    ASSUME TypeOK, ControlInv, IdleInv, DriveActs, UNCHANGED <<pp, out, meant>>
    PROVE  [Moves!Next]_(Moves!vars)
<1>1. drv'.pos = drv.pos /\ Phase' = Phase
  BY DEF DriveActs, AfterOutputs, Phase
<1>2. drv \in Drives /\ out \in Outputs /\ dropped \in BOOLEAN
  BY DEF TypeOK, Drives
<1>3. CASE ~InOperation(drv')
  <2>1. drv'.setpoint = NoSetPoint
    BY <1>3 DEF DriveActs, AfterOutputs, InOperation
  <2>2. CASE InOperation(drv)
    <3>1. dropped' = TRUE
      BY <1>3, <2>2 DEF DriveActs, DropIf
    <3> QED BY <1>1, <2>1, <3>1 DEF Moves!Next, Moves!Lose, Phase
  <2>3. CASE ~InOperation(drv)
    <3>1. drv.setpoint = NoSetPoint /\ dropped' = dropped
      BY <1>2, <2>3 DEF IdleInv, DriveActs, DropIf
    <3> QED BY <1>1, <2>1, <3>1 DEF Moves!vars, Phase
  <2> QED BY <2>2, <2>3
<1>4. CASE InOperation(drv')
  <2>1. dropped' = dropped
    BY <1>2, <1>4 DEF DriveActs, DropIf
  <2>2. CASE Takes(drv, out)
    <3>1. drv'.setpoint = out.target
      BY <1>4, <2>2 DEF DriveActs, AfterOutputs, InOperation
    <3>2. SetupEnd < pp.status
      BY <2>2 DEF Takes, ControlInv
    <3> QED BY <1>1, <2>1, <3>1, <3>2 DEF Moves!Next, Moves!Take, Phase
  <2>3. CASE ~Takes(drv, out)
    <3>1. drv'.setpoint = drv.setpoint
      BY <1>4, <2>3 DEF DriveActs, AfterOutputs, InOperation
    <3> QED BY <1>1, <2>1, <3>1 DEF Moves!vars, Phase
  <2> QED BY <2>2, <2>3
<1> QED BY <1>3, <1>4

\* Every step of the axis is a step of SetPoints or leaves its state alone.
LEMMA StepIsMove ==
    ASSUME PPInv, IdleInv, [Next]_vars
    PROVE  [Moves!Next]_(Moves!vars)
<1> USE PhasesAssumption
<1>1. TypeOK /\ ControlInv /\ MeantInv /\ HandshakeInv
  BY DEF PPInv
<1>2. pp.status \in 0..HoldEnd /\ dropped \in BOOLEAN
  BY <1>1 DEF TypeOK
<1>3. CASE InitWriteTarget
  <2>1. pp.status = 0 /\ out'.target \in {pp.target, in.pos}
    BY <1>1, <1>3 DEF ControlInv, InitWriteTarget, TypeOK, Outputs
  <2>2. out'.target \in meant
    BY <1>1, <1>3, <2>1 DEF MeantInv, ControlInv, InitWriteTarget
  <2> QED BY <1>3, <2>1, <2>2 DEF InitWriteTarget, historyVars, Moves!Next, Moves!Choose, Phase
<1>4. CASE SetupTarget
  <2>1. 0 < pp.status /\ pp.status < SetupEnd /\ out'.target = pp.target
    BY <1>1, <1>4 DEF SetupTarget, InSetup, TypeOK, Outputs
  <2>2. out'.target \in meant
    BY <1>1, <2>1 DEF MeantInv
  <2> QED BY <1>2, <1>4, <2>1, <2>2 DEF SetupTarget, historyVars, Moves!Next, Moves!Choose, Phase
<1>5. CASE Hold
  <2>1. /\ SetupEnd <= pp.status /\ pp'.status = pp.status + 1
        /\ out'.target = out.target
    BY <1>1, <1>5 DEF Hold, InHold, TypeOK, Outputs
  <2>2. CASE pp.status = SetupEnd
    <3>1. out.target \in meant
      BY <1>1, <2>2 DEF MeantInv
    <3> QED BY <1>2, <1>5, <2>1, <2>2, <3>1
            DEF Hold, historyVars, Moves!Next, Moves!Fix, Phase
  <2>3. CASE pp.status > SetupEnd
    BY <1>2, <1>5, <2>1, <2>3 DEF Hold, historyVars, Moves!vars, Phase
  <2> QED BY <1>2, <2>1, <2>2, <2>3
<1>6. CASE AwaitReached
  <2>1. pp.status = HoldEnd /\ out'.target = out.target /\ SetupEnd < HoldEnd
    BY <1>1, <1>6 DEF AwaitReached, TypeOK, Outputs
  <2>2. CASE TargetReachedBit \in in.sw
    <3>1. pp'.status = 1
      BY <1>1, <1>6, <2>2 DEF AwaitReached, TypeOK
    <3>2. dropped \/ Done
      <4>1. pc = "task" /\ frame = {}
        BY <1>1, <1>6 DEF AwaitReached, Active, ControlInv
      <4>2. ~dropped => Fresh(in)
        BY <1>1, <2>1, <4>1 DEF HandshakeInv
      <4>3. Ahead = 0 /\ lost \in 0..MaxLoss
        BY <1>1, <4>1 DEF Ahead, TypeOK
      <4> QED BY <2>1, <2>2, <4>2, <4>3 DEF Fresh
    <3> QED BY <1>6, <2>1, <3>1, <3>2
            DEF AwaitReached, Done, Taken, Moves!Next, Moves!Finish, Phase
  <2>3. CASE TargetReachedBit \notin in.sw
    BY <1>1, <1>6, <2>1, <2>3 DEF AwaitReached, TypeOK, Moves!vars, Phase
  <2> QED BY <2>2, <2>3
<1>7. CASE Send \/ SendLostBehind
  BY <1>1, <1>7, DriveActsIsMove DEF Send, SendLostBehind
<1>8. CASE DriveMove
  BY <1>1, <1>8 DEF DriveMove, TypeOK, cyclicVars, historyVars, Moves!Next, Moves!Go, Phase
<1>9. CASE DriveFault
  <2>1. drv'.setpoint = NoSetPoint /\ drv'.pos = drv.pos
    BY <1>1, <1>9 DEF DriveFault, TypeOK
  <2>2. CASE InOperation(drv)
    BY <1>9, <2>1, <2>2 DEF DriveFault, DropIf, cyclicVars, Moves!Next, Moves!Lose, Phase
  <2>3. CASE ~InOperation(drv)
    <3>1. drv.setpoint = NoSetPoint /\ dropped' = dropped
      BY <1>2, <1>9, <2>3 DEF IdleInv, DriveFault, DropIf
    <3> QED BY <1>9, <2>1, <3>1 DEF DriveFault, cyclicVars, Moves!vars, Phase
  <2> QED BY <2>2, <2>3
<1>10. ASSUME NEW p \in Positions, SetTarget(p)
       PROVE  [Moves!Next]_(Moves!vars)
  BY <1>1, <1>10 DEF SetTarget, TypeOK, Moves!Next, Moves!Ask, Phase
<1>11. CASE InitDone
  <2>1. pp.status = 0 /\ pp'.status \in {0, 1}
    BY <1>1, <1>11 DEF InitDone, ControlInv, TypeOK
  <2> QED BY <1>11, <2>1 DEF InitDone, Moves!vars, Phase
<1>12. CASE SetupVelocity
  <2>1. /\ 0 < pp.status /\ pp.status < SetupEnd /\ pp'.status = pp.status + 1
        /\ out'.target = out.target
    BY <1>1, <1>12 DEF SetupVelocity, ControlInv, InSetup, TypeOK, Outputs
  <2> QED BY <1>2, <1>12, <2>1 DEF SetupVelocity, historyVars, Moves!vars, Phase
<1>13. CASE \/ \E op \in BOOLEAN : Receive(op)
            \/ TaskNotStarted \/ TaskNotAllOp \/ InitTarget \/ InitVelocity
            \/ SendLostBefore \/ DriveInitialises \/ DriveFaultReactionDone
            \/ \E v \in Velocities : SetVelocity(v)
            \/ UNCHANGED vars
  <2>1. /\ pp'.status = pp.status /\ out'.target = out.target
        /\ drv'.setpoint = drv.setpoint /\ drv'.pos = drv.pos
        /\ meant' = meant /\ dropped' = dropped
    BY <1>1, <1>13 DEF TypeOK, Outputs, Receive, TaskNotStarted, TaskNotAllOp,
       InitTarget, InitVelocity, SendLostBefore, DriveInitialises,
       DriveFaultReactionDone, SetVelocity, cyclicVars, historyVars, vars
  <2> QED BY <2>1 DEF Moves!vars, Phase
<1> QED
  BY <1>3, <1>4, <1>5, <1>6, <1>7, <1>8, <1>9, <1>10, <1>11, <1>12, <1>13
     DEF Next, Task, Transmit, Command

\* pp_update_target_position(), with its counting of periods, implements one
\* move at a time: SetPoints, for every number of frames lost that the two
\* phases allow.
THEOREM ImplementsSetPoints == Spec => OneMoveAtATime
<1>1. Init => Moves!Init
  BY PositionsAssumption, PhasesAssumption DEF Init, Moves!Init, Phase
<1>2. Init => IdleInv
  BY DEF Init, IdleInv
<1>3. PPInv /\ IdleInv /\ [Next]_vars => IdleInv'
  BY NextIdleInv DEF PPInv
<1>4. PPInv /\ IdleInv /\ [Next]_vars => [Moves!Next]_(Moves!vars)
  BY StepIsMove
<1> QED
  BY <1>1, <1>2, <1>3, <1>4, Invariance, PTL DEF Spec, OneMoveAtATime, Moves!Spec
=============================================================================
