------------------------ MODULE ConsoleTool_proofs -------------------------
(***************************************************************************)
(* That the console tool's cyclic thread works on live masters only, that  *)
(* no update of the mirror is lost, and that an update carries no target   *)
(* but the one ordered, and that a drive in operation is kept there: for   *)
(* every number of masters and axles, every set of values, both sampling   *)
(* frequencies and every user.                                             *)
(***************************************************************************)
EXTENDS ConsoleTool, TLAPS

(***************************************************************************)
(* The invariant.                                                          *)
(***************************************************************************)
\* Who holds the mutex, and where the two threads can be.
ThreadInv ==
    /\ mutex = "cyclic" <=> pc \in {"copy", "clear"}
    /\ mutex = "console" <=> cpc \in {"write", "flag"}
    /\ cpc \in {"lock", "write", "flag"} => job # NoJob
    /\ pc # "off" => con.started

\* The flags of a user who keeps to the order of the commands, and the masters.
OrderInv ==
    Keeps({"any order"}) =>
    /\ con.loaded => Configured = Masters
    /\ con.active => con.loaded /\ con.finished
    /\ con.active /\ cpc # "quit" => \A m \in Masters : ecm[m] = "active" /\ mapped[m]
    /\ con.started => con.active
    /\ con.started /\ Keeps({"quit running"}) => cpc # "quit"

\* A filled mirror agrees with the outputs unless an update is announced or
\* about to be; update_all_pods() clears flags only after it has copied.
AgreeInv ==
    Keeps({"any order"}) =>
    \A a \in Axles :
        LET m == MasterOf[a] IN
        /\ (/\ mirror[m].initialed /\ ~mirror[m].isUpdate
            /\ ~(cpc = "flag" /\ MasterOf[job.axle] = m))
              => image[a].target = tx[a].target
        /\ pc = "clear" /\ (Fills(m) \/ CopiesOut(m)) => image[a].target = tx[a].target

\* What an update can carry for a user who sets values in filled mirrors only.
TargetInv ==
    Keeps({"set unfilled", "any order"}) =>
    /\ ~con.finished => \A a \in Axles : image[a].target = 0
    /\ cpc \in {"lock", "write", "flag"} => mirror[MasterOf[job.axle]].initialed
    /\ \A a \in Axles :
          /\ mirror[MasterOf[a]].isUpdate => mirror[MasterOf[a]].initialed
          /\ mirror[MasterOf[a]].initialed
                => tx[a].target \in {image[a].target, ordered[a].target}

ToolInv == TypeOK /\ ThreadInv /\ OrderInv /\ AgreeInv /\ TargetInv

(***************************************************************************)
(* Types.                                                                  *)
(***************************************************************************)
LEMMA AxleStateType == ASSUME NEW w PROVE get_axle_state(w) \in AxleStates
BY DEF get_axle_state, AxleStates

LEMMA TransitionType ==
    ASSUME NEW s \in AxleStates, NEW cw, NEW prev
    PROVE  DriveTransition(s, cw, prev, FALSE) \in AxleStates
BY DEF AxleStates, DriveTransition

LEMMA ControlwordsAreWords == Controlwords \subseteq Word /\ StartWords \subseteq Controlwords
BY DEF Controlwords, StartWords, Word, contrlword_shutdown, contrlword_switch_on,
       contrlword_enable_operation

\* Auto start writes a control word, keeps the target and may set the mode.
LEMMA AutoOutputsType ==
    ASSUME NEW o \in Mirrored, NEW s
    PROVE  AutoOutputs(o, s) \in Mirrored /\ AutoOutputs(o, s).target = o.target
<1>1. AutoControlword(s, o.cw) \in Controlwords \cup {Junk}
  BY DEF AutoControlword, Mirrored, Controlwords, StartWords
<1> QED BY <1>1 DEF AutoOutputs, Mirrored, Modes

LEMMA ReactionType ==
    ASSUME TypeOK, NEW a \in Axles
    PROVE  Reactions(a) \subseteq [state : AxleStates, cw : Word]
<1>1. drv[a] \in [state : AxleStates, cw : Word] /\ image[a] \in Mirrored
  BY DEF TypeOK
<1>2. image[a].cw # Junk => image[a].cw \in Word
  BY <1>1, ControlwordsAreWords DEF Mirrored
<1> DEFINE t == DriveTransition(drv[a].state, image[a].cw, drv[a].cw, FALSE)
<1>3. drv[a].state \in AxleStates /\ drv[a].cw \in Word
  BY <1>1
<1>4. t \in AxleStates
  BY <1>3, TransitionType
<1>5. CASE MasterOf[a] \notin op
  BY <1>1, <1>5 DEF Reactions
<1>6. CASE MasterOf[a] \in op /\ image[a].cw = Junk
  <2>1. Reactions(a) = [state : AxleStates, cw : {drv[a].cw}]
    BY <1>6 DEF Reactions
  <2> QED BY <1>3, <2>1
<1>7. CASE MasterOf[a] \in op /\ image[a].cw # Junk
  <2>1. Reactions(a) = {[state |-> t, cw |-> image[a].cw]}
    BY <1>7 DEF Reactions
  <2> HIDE DEF t
  <2>2. [state |-> t, cw |-> image[a].cw] \in [state : AxleStates, cw : Word]
    BY <1>2, <1>4, <1>7
  <2> QED BY <2>1, <2>2
<1> QED BY <1>5, <1>6, <1>7

LEMMA PeriodsPositive == Periods \in Nat \ {0}
<1>1. \A i, j \in Nat \ {0} : i * j \in Nat \ {0}
  OBVIOUS
<1> QED BY <1>1, FreqAssumption DEF Periods

LEMMA UnfilledType == Unfilled \in Mirrored /\ Cleared \in Mirrored
BY TargetsAssumption DEF Unfilled, Cleared, Mirrored, Controlwords, Modes

LEMMA InitType == Init => TypeOK
<1> SUFFICES ASSUME Init PROVE TypeOK
  OBVIOUS
<1>1. counter \in 0..(Periods - 1)
  BY PeriodsPositive DEF Init
<1>2. drv \in [Axles -> [state : AxleStates, cw : Word]]
  BY DEF Init, AxleStates, Word
<1>3. axleState \in [Axles -> AxleStates]
  BY DEF Init, AxleStates
<1>4. tx \in [Axles -> Mirrored] /\ image \in [Axles -> Mirrored]
  BY UnfilledType DEF Init
<1> QED BY <1>1, <1>2, <1>3, <1>4 DEF Init, TypeOK, Jobs

LEMMA StepType == TypeOK /\ ThreadInv /\ [Next]_vars => TypeOK'
<1> SUFFICES ASSUME TypeOK, ThreadInv, [Next]_vars PROVE TypeOK'
  OBVIOUS
<1> USE DEF busVars, cyclicVars, consoleVars
<1>1. CASE BusChanges
  BY <1>1 DEF TypeOK, BusChanges
<1>2. CASE DriveDrops
  <2>1. "switch_on_disable" \in AxleStates
    BY DEF AxleStates
  <2>2. PICK a \in Axles : drv' = [drv EXCEPT ![a].state = "switch_on_disable"]
    BY <1>2 DEF DriveDrops
  <2>3. drv \in [Axles -> [state : AxleStates, cw : Word]]
    BY DEF TypeOK
  <2>4. drv' \in [Axles -> [state : AxleStates, cw : Word]]
    BY <2>1, <2>2, <2>3
  <2>5. UNCHANGED <<mapped, run, cyclicVars, consoleVars, mutex, tx, mirror, image, op>>
    BY <1>2 DEF DriveDrops
  <2> QED BY <2>4, <2>5 DEF TypeOK
<1>3. CASE Receive
  <2>1. image' \in [Axles -> Mirrored]
    BY <1>3, AutoOutputsType DEF TypeOK, Receive
  <2>2. axleState' \in [Axles -> AxleStates]
    BY <1>3, AxleStateType DEF TypeOK, Receive
  <2>3. run' \in [running : BOOLEAN, auto : BOOLEAN]
    <3>1. AllStarted(allOp', axleState') \in BOOLEAN
      BY DEF AllStarted
    <3> QED BY <1>3, <3>1 DEF TypeOK, Receive
  <2>4. allOp' \in [Masters -> BOOLEAN]
    BY <1>3 DEF TypeOK, Receive
  <2> QED BY <1>3, <2>1, <2>2, <2>3, <2>4 DEF TypeOK, Receive
<1>4. CASE LockBusy
  BY <1>4 DEF TypeOK, LockBusy
<1>5. CASE LockTaken
  BY <1>5 DEF TypeOK, LockTaken
<1>6. CASE Copy
  BY <1>6 DEF TypeOK, Copy
<1>7. CASE Clear
  <2>1. \A m \in Masters : mirror[m] \in [isUpdate : BOOLEAN, initialed : BOOLEAN]
    BY DEF TypeOK
  <2>2. \A m \in Masters :
           /\ [mirror[m] EXCEPT !.initialed = TRUE] \in [isUpdate : BOOLEAN, initialed : BOOLEAN]
           /\ [mirror[m] EXCEPT !.isUpdate = FALSE] \in [isUpdate : BOOLEAN, initialed : BOOLEAN]
    BY <2>1
  <2>3. mirror' = [m \in Masters |->
                     IF Fills(m) THEN [mirror[m] EXCEPT !.initialed = TRUE]
                     ELSE [mirror[m] EXCEPT !.isUpdate = FALSE]]
    BY <1>7 DEF Clear
  <2>4. mirror' \in [Masters -> [isUpdate : BOOLEAN, initialed : BOOLEAN]]
    BY <2>2, <2>3
  <2> QED BY <1>7, <2>4 DEF TypeOK, Clear
<1>8. CASE Send
  <2>1. drv' \in [Axles -> [state : AxleStates, cw : Word]]
    BY <1>8, ReactionType DEF Send
  <2>2. counter' \in 0..(Periods - 1)
    BY <1>8, PeriodsPositive DEF TypeOK, Send
  <2> QED BY <1>8, <2>1, <2>2 DEF TypeOK, Send
<1>9. CASE LoadXml
  <2>1. ecm' \in [Masters -> {"none", "requested", "half", "active", "spent"}]
    BY <1>9 DEF LoadXml
  <2>2. con' \in [loaded : BOOLEAN, active : BOOLEAN, started : BOOLEAN, finished : BOOLEAN]
    BY <1>9 DEF LoadXml, TypeOK
  <2>3. UNCHANGED <<mapped, run, cyclicVars, cpc, job, ordered, user, mutex, tx, mirror, image,
                    busVars>>
    BY <1>9 DEF LoadXml
  <2> QED BY <2>1, <2>2, <2>3 DEF TypeOK
<1>10. CASE LoadXmlFails
  BY <1>10 DEF TypeOK, LoadXmlFails
<1>11. ASSUME NEW ok \in BOOLEAN, Activated(ok),
              ecm' \in [Masters -> {"none", "requested", "half", "active", "spent"}]
       PROVE  TypeOK'
  <2>1. con' \in [loaded : BOOLEAN, active : BOOLEAN, started : BOOLEAN, finished : BOOLEAN]
    BY <1>11 DEF TypeOK, Activated
  <2>2. mapped' \in [Masters -> BOOLEAN]
    <3>1. CASE con.finished
      <4>1. mapped' = mapped
        BY <1>11, <3>1 DEF Activated
      <4> QED BY <4>1 DEF TypeOK
    <3>2. CASE ~con.finished
      <4>1. mapped' = [m \in Masters |-> ok /\ m \in Configured]
        BY <1>11, <3>2 DEF Activated
      <4> QED BY <4>1
    <3> QED BY <3>1, <3>2
  <2>3. mirror' \in [Masters -> [isUpdate : BOOLEAN, initialed : BOOLEAN]]
    <3>1. \/ mirror' = mirror
          \/ mirror' = [m \in Masters |-> [isUpdate |-> FALSE, initialed |-> FALSE]]
      <4>1. CASE con.finished
        BY <1>11, <4>1 DEF Activated
      <4>2. CASE ~con.finished
        BY <1>11, <4>2 DEF Activated
      <4> QED BY <4>1, <4>2
    <3>2. [m \in Masters |-> [isUpdate |-> FALSE, initialed |-> FALSE]]
            \in [Masters -> [isUpdate : BOOLEAN, initialed : BOOLEAN]]
      OBVIOUS
    <3>3. mirror \in [Masters -> [isUpdate : BOOLEAN, initialed : BOOLEAN]]
      BY DEF TypeOK
    <3> QED BY <3>1, <3>2, <3>3
  <2>4. tx' \in [Axles -> Mirrored] /\ image' \in [Axles -> Mirrored]
    BY <1>11, UnfilledType DEF TypeOK, Activated
  <2> QED BY <1>11, <2>1, <2>2, <2>3, <2>4 DEF TypeOK, Activated
<1>12. CASE Activate
  <2>1. ecm' \in [Masters -> {"none", "requested", "half", "active", "spent"}]
    BY <1>12 DEF TypeOK, Activate
  <2> QED BY <1>11, <1>12, <2>1 DEF Activate
<1>13. CASE ActivateFails
  <2>1. ecm' \in [Masters -> {"none", "requested", "half", "active", "spent"}]
    BY <1>13 DEF TypeOK, ActivateFails
  <2> QED BY <1>11, <1>13, <2>1 DEF ActivateFails
<1>14. ASSUME NEW auto \in BOOLEAN, StartTask(auto) PROVE TypeOK'
  BY <1>14 DEF TypeOK, StartTask
<1>15. ASSUME NEW auto \in BOOLEAN, StartTaskFails(auto) PROVE TypeOK'
  <2>1. run' \in [running : BOOLEAN, auto : BOOLEAN]
    BY <1>15 DEF StartTaskFails
  <2>2. UNCHANGED <<mapped, cyclicVars, consoleVars, mutex, tx, mirror, image, busVars>>
    BY <1>15 DEF StartTaskFails
  <2> QED BY <2>1, <2>2 DEF TypeOK
<1>16. ASSUME NEW j \in Jobs \ {NoJob}, SetCommand(j) PROVE TypeOK'
  BY <1>16 DEF TypeOK, SetCommand
<1>17. CASE SetLock
  BY <1>17 DEF TypeOK, SetLock
<1>18. CASE SetWrite
  <2>1. /\ job.axle \in Axles
        /\ \/ job.field = "cw" /\ job.value \in Orders
           \/ job.field = "target" /\ job.value \in Targets
    BY <1>18 DEF TypeOK, ThreadInv, Jobs, SetWrite
  <2>2. \A o \in Mirrored : Updated(o, job) \in Mirrored
    BY <2>1, OrdersAssumption, ControlwordsAreWords DEF Updated, Mirrored
  <2>3. \A o \in [cw : Orders \cup {NoOrder}, target : Targets \cup {NoOrder}] :
           Updated(o, job) \in [cw : Orders \cup {NoOrder}, target : Targets \cup {NoOrder}]
    BY <2>1 DEF Updated
  <2>4. tx' \in [Axles -> Mirrored]
    BY <1>18, <2>1, <2>2 DEF TypeOK, SetWrite
  <2>5. ordered' \in [Axles -> [cw : Orders \cup {NoOrder}, target : Targets \cup {NoOrder}]]
    BY <1>18, <2>1, <2>3 DEF TypeOK, SetWrite
  <2> QED BY <1>18, <2>4, <2>5 DEF TypeOK, SetWrite
<1>19. CASE SetFlag
  <2>1. NoJob \in Jobs
    BY DEF Jobs
  <2>2. mirror' \in [Masters -> [isUpdate : BOOLEAN, initialed : BOOLEAN]]
    <3>1. mirror \in [Masters -> [isUpdate : BOOLEAN, initialed : BOOLEAN]]
      BY DEF TypeOK
    <3>2. mirror' = [mirror EXCEPT ![MasterOf[job.axle]].isUpdate = TRUE]
      BY <1>19 DEF SetFlag
    <3> QED BY <3>1, <3>2
  <2> QED BY <1>19, <2>1, <2>2 DEF TypeOK, SetFlag
<1>20. CASE StopTask
  BY <1>20 DEF TypeOK, StopTask
<1>21. CASE Join
  BY <1>21 DEF TypeOK, Join
<1>22. CASE Quit
  <2>1. ecm' \in [Masters -> {"none", "requested", "half", "active", "spent"}]
    <3>1. \A m \in Masters : ecm[m] \in {"none", "requested", "half", "active", "spent"}
      BY DEF TypeOK
    <3> QED BY <1>22, <3>1 DEF Quit
  <2>2. mapped' \in [Masters -> BOOLEAN] /\ cpc' = "quit"
    BY <1>22 DEF Quit
  <2>3. UNCHANGED <<con, run, cyclicVars, job, ordered, user, mutex, tx, mirror, image, busVars>>
    BY <1>22 DEF Quit
  <2> QED BY <2>1, <2>2, <2>3 DEF TypeOK
<1>23. CASE UNCHANGED vars
  BY <1>23 DEF TypeOK, vars
<1> QED
  BY <1>1, <1>2, <1>3, <1>4, <1>5, <1>6, <1>7, <1>8, <1>9, <1>10, <1>12, <1>13,
     <1>14, <1>15, <1>16, <1>17, <1>18, <1>19, <1>20, <1>21, <1>22, <1>23
     DEF Next, Cyclic, Console, SetStep

(***************************************************************************)
(* The threads and the order of the commands.                              *)
(***************************************************************************)
LEMMA InitThreadInv == Init => ThreadInv
BY DEF Init, ThreadInv

LEMMA StepThreadInv == TypeOK /\ ThreadInv /\ [Next]_vars => ThreadInv'
<1> SUFFICES ASSUME TypeOK, ThreadInv, [Next]_vars PROVE ThreadInv'
  OBVIOUS
<1> USE DEF busVars, cyclicVars, consoleVars, ThreadInv
<1>1. CASE BusChanges \/ DriveDrops \/ UNCHANGED vars
  BY <1>1 DEF BusChanges, DriveDrops, vars
<1>2. CASE Cyclic
  BY <1>2 DEF TypeOK, Cyclic, Receive, LockBusy, LockTaken, Copy, Clear, Send
<1>3. CASE SetStep
  BY <1>3 DEF TypeOK, SetStep, SetLock, SetWrite, SetFlag
<1>4. CASE LoadXml \/ LoadXmlFails \/ StopTask \/ Quit \/ Join
  BY <1>4 DEF TypeOK, Idle, LoadXml, LoadXmlFails, StopTask, Quit, Join
<1>5. CASE Activate \/ ActivateFails
  BY <1>5 DEF TypeOK, Idle, Activate, ActivateFails, Activated
<1>6. ASSUME NEW auto \in BOOLEAN, StartTask(auto) \/ StartTaskFails(auto)
      PROVE  ThreadInv'
  BY <1>6 DEF TypeOK, Idle, StartTask, StartTaskFails
<1>7. ASSUME NEW j \in Jobs \ {NoJob}, SetCommand(j)
      PROVE  ThreadInv'
  BY <1>7 DEF TypeOK, Idle, SetCommand
<1> QED BY <1>1, <1>2, <1>3, <1>4, <1>5, <1>6, <1>7 DEF Next, Console

LEMMA InitOrderInv == Init => OrderInv
<1> SUFFICES ASSUME Init PROVE OrderInv
  OBVIOUS
<1>1. ~con.loaded /\ ~con.active /\ ~con.started
  BY DEF Init
<1> QED BY <1>1 DEF OrderInv

LEMMA StepOrderInv == TypeOK /\ ThreadInv /\ OrderInv /\ [Next]_vars => OrderInv'
<1> SUFFICES ASSUME TypeOK, ThreadInv, OrderInv, [Next]_vars, Keeps({"any order"})
             PROVE  OrderInv'
  <2>1. ASSUME [Next]_vars PROVE user' = user
    BY <2>1 DEF Next, vars, busVars, cyclicVars, consoleVars, BusChanges, DriveDrops, Cyclic,
       Receive, LockBusy, LockTaken, Copy, Clear, Send, Console, LoadXml, LoadXmlFails,
       Activate, ActivateFails, Activated, StartTask, StartTaskFails, SetCommand, SetStep,
       SetLock, SetWrite, SetFlag, StopTask, Join, Quit
  <2> QED BY <2>1 DEF OrderInv, Keeps
<1> USE DEF busVars, cyclicVars, consoleVars, OrderInv, Keeps
<1>1. ~Takes("any order")
  BY DEF Takes
<1>3. CASE UNCHANGED <<con, ecm, mapped, cpc, user>>
  BY <1>3 DEF Configured
<1>4. CASE BusChanges \/ DriveDrops \/ Cyclic \/ UNCHANGED vars
  BY <1>3, <1>4 DEF BusChanges, DriveDrops, Cyclic, Receive, LockBusy, LockTaken, Copy, Clear,
     Send, vars
<1>5. CASE SetStep
  <2>1. UNCHANGED <<con, ecm, mapped, user>> /\ cpc # "quit" /\ cpc' # "quit"
    BY <1>5 DEF SetStep, SetLock, SetWrite, SetFlag
  <2> QED BY <2>1 DEF Configured
<1>6. CASE LoadXml
  <2>1. Configured' = Masters
    BY <1>6 DEF TypeOK, LoadXml, Configured
  <2>2. ~con.active /\ ~con.started /\ con'.loaded /\ ~con'.active /\ ~con'.started
    BY <1>6 DEF TypeOK, LoadXml
  <2> QED BY <1>6, <2>1, <2>2
<1>7. CASE LoadXmlFails
  <2>1. ~con.loaded /\ ~con.active /\ ~con.started /\ con' = con
    BY <1>7 DEF LoadXmlFails
  <2> QED BY <1>7, <2>1
<1>8. CASE Activate
  <2>1. con.loaded /\ ~con.finished /\ ~con.active /\ ~con.started
    BY <1>1, <1>8 DEF Activate, MayActivate
  <2>2. /\ con'.loaded /\ con'.active /\ con'.finished /\ ~con'.started
    BY <1>8, <2>1 DEF TypeOK, Activate, Activated
  <2>3. \A m \in Masters : ecm'[m] = "active" /\ mapped'[m]
    BY <1>8, <2>1 DEF Activate, Activated
  <2>4. Configured' = Masters
    BY <2>3 DEF Configured
  <2> QED BY <1>8, <2>2, <2>3, <2>4 DEF Activate, Activated
<1>9. CASE ActivateFails
  <2>1. con.loaded /\ ~con.started
    BY <1>1, <1>9 DEF ActivateFails, MayActivate
  <2>2. con'.loaded /\ ~con'.active /\ ~con'.started
    BY <1>9, <2>1 DEF TypeOK, ActivateFails, Activated
  <2>3. \A m \in Masters : ecm'[m] # "none"
    BY <1>9 DEF ActivateFails, Configured
  <2>4. Configured' = Masters
    BY <2>3 DEF Configured
  <2> QED BY <1>9, <2>2, <2>4
<1>10. ASSUME NEW auto \in BOOLEAN, StartTask(auto) \/ StartTaskFails(auto)
       PROVE  OrderInv'
  <2>1. con.active /\ con.loaded /\ cpc = "idle"
    BY <1>1, <1>10 DEF StartTask, StartTaskFails, Idle
  <2>2. /\ UNCHANGED <<ecm, mapped, cpc, user>>
        /\ con'.loaded = con.loaded /\ con'.active = con.active
        /\ con'.finished = con.finished
    BY <1>10 DEF TypeOK, StartTask, StartTaskFails
  <2> QED BY <2>1, <2>2 DEF Configured
<1>11. ASSUME NEW j \in Jobs \ {NoJob}, SetCommand(j)
       PROVE  OrderInv'
  BY <1>11 DEF SetCommand, Configured, Idle
<1>12. CASE StopTask \/ Join
  <2>1. /\ UNCHANGED <<ecm, mapped, user>> /\ cpc # "quit" /\ cpc' # "quit"
        /\ con'.loaded = con.loaded /\ con'.active = con.active
        /\ con'.finished = con.finished /\ (con'.started => con.started)
    BY <1>12 DEF TypeOK, StopTask, Join, Idle
  <2> QED BY <2>1 DEF Configured
<1>13. CASE Quit
  <2>1. con' = con /\ user' = user /\ cpc' = "quit"
    BY <1>13 DEF Quit
  <2>2. con.started => Takes("quit running")
    BY <1>13 DEF Quit
  <2>3. Configured' = Configured
    BY <1>13 DEF Quit, Configured
  <2> QED BY <2>1, <2>2, <2>3 DEF Takes
<1> QED
  BY <1>4, <1>5, <1>6, <1>7, <1>8, <1>9, <1>10, <1>11, <1>12, <1>13 DEF Next, Console

(***************************************************************************)
(* The mirror and the outputs.                                             *)
(***************************************************************************)
LEMMA UserStays == [Next]_vars => user' = user
BY DEF Next, vars, busVars, cyclicVars, consoleVars, BusChanges, DriveDrops, Cyclic,
       Receive, LockBusy, LockTaken, Copy, Clear, Send, Console, LoadXml, LoadXmlFails,
       Activate, ActivateFails, Activated, StartTask, StartTaskFails, SetCommand, SetStep,
       SetLock, SetWrite, SetFlag, StopTask, Join, Quit

\* A user who keeps to the order activates before there is a mirror, and
\* while no task runs.
LEMMA ActivatesEarly ==
    ASSUME TypeOK, ThreadInv, OrderInv, Keeps({"any order"}), Activate \/ ActivateFails
    PROVE  /\ ~con.finished /\ con'.finished /\ pc = "off" /\ pc' = "off"
           /\ \A a \in Axles : image'[a] = Cleared /\ image'[a].target = 0
           /\ \A m \in Masters : ~mirror'[m].isUpdate /\ ~mirror'[m].initialed
           /\ cpc = "idle" /\ cpc' = "idle" /\ ordered' = ordered
<1>1. ~Takes("any order")
  BY DEF Takes, Keeps
<1>2. ~con.active /\ ~con.finished /\ cpc = "idle"
  BY <1>1 DEF Activate, ActivateFails, MayActivate, Idle
<1>3. PICK ok \in BOOLEAN : Activated(ok)
  BY DEF Activate, ActivateFails
<1>4. pc = "off"
  BY <1>2 DEF OrderInv, ThreadInv
<1>5. con'.finished
  BY <1>3 DEF TypeOK, Activated
<1> DEFINE fresh == [isUpdate |-> FALSE, initialed |-> FALSE]
<1>6. ~fresh.isUpdate /\ ~fresh.initialed /\ Cleared.target = 0
  BY DEF Cleared
<1> HIDE DEF fresh
<1>7. \A a \in Axles : image'[a] = Cleared
  BY <1>3 DEF Activated
<1>8. mirror' = [m \in Masters |-> fresh]
  BY <1>2, <1>3 DEF Activated, fresh
<1>9. \A m \in Masters : mirror'[m] = fresh
  BY <1>8
<1>10. /\ \A a \in Axles : image'[a].target = 0
       /\ \A m \in Masters : ~mirror'[m].isUpdate /\ ~mirror'[m].initialed
  BY <1>6, <1>7, <1>9
<1> QED BY <1>2, <1>3, <1>4, <1>5, <1>7, <1>10 DEF Activated, cyclicVars

LEMMA InitAgreeInv == Init => AgreeInv
<1> SUFFICES ASSUME Init PROVE AgreeInv
  OBVIOUS
<1>1. \A a \in Axles : ~mirror[MasterOf[a]].initialed /\ pc = "off"
  BY MastersAssumption DEF Init
<1> QED BY <1>1 DEF AgreeInv

LEMMA StepAgreeInv == TypeOK /\ ThreadInv /\ OrderInv /\ AgreeInv /\ [Next]_vars => AgreeInv'
<1> SUFFICES ASSUME TypeOK, ThreadInv, OrderInv, AgreeInv, [Next]_vars, Keeps({"any order"})
             PROVE  AgreeInv'
  BY UserStays DEF AgreeInv, Keeps
<1> DEFINE Agrees(a) == image[a].target = tx[a].target
           Quiet(a) == LET m == MasterOf[a] IN
                       /\ mirror[m].initialed /\ ~mirror[m].isUpdate
                       /\ ~(cpc = "flag" /\ MasterOf[job.axle] = m)
           Copied(a) == pc = "clear" /\ (Fills(MasterOf[a]) \/ CopiesOut(MasterOf[a]))
<1>1. \A a \in Axles : (Quiet(a) => Agrees(a)) /\ (Copied(a) => Agrees(a))
  BY DEF AgreeInv
<1>2. SUFFICES ASSUME NEW a \in Axles
               PROVE  (Quiet(a)' => Agrees(a)') /\ (Copied(a)' => Agrees(a)')
  BY DEF AgreeInv
<1> DEFINE m == MasterOf[a]
<1>3. m \in Masters
  BY MastersAssumption
<1> USE DEF busVars, cyclicVars, consoleVars
<1>4. CASE /\ UNCHANGED <<mirror, job, cpc, image, tx, allOp>>
           /\ pc' = "clear" => pc = "clear"
  BY <1>1, <1>4 DEF Fills, CopiesOut
<1>5. CASE BusChanges \/ DriveDrops \/ UNCHANGED vars
  BY <1>4, <1>5 DEF BusChanges, DriveDrops, vars
<1>6. CASE LockBusy \/ LockTaken \/ Send
  BY <1>4, <1>6 DEF LockBusy, LockTaken, Send
<1>7. CASE Receive
  <2>1. image'[a].target = image[a].target
    BY <1>7, AutoOutputsType DEF TypeOK, Receive
  <2>2. UNCHANGED <<mirror, job, cpc, tx>> /\ pc' = "lock"
    BY <1>7 DEF Receive
  <2> QED BY <1>1, <2>1, <2>2
<1>8. CASE Copy
  <2>1. /\ UNCHANGED <<mirror, job, cpc, allOp>> /\ cpc # "flag"
        /\ tx'[a] = IF Fills(m) THEN image[a] ELSE tx[a]
        /\ image'[a] = IF CopiesOut(m) THEN tx[a] ELSE image[a]
    BY <1>8 DEF Copy, ThreadInv
  <2>2. CASE Fills(m)
    BY <2>1, <2>2 DEF CopiesOut
  <2>3. CASE CopiesOut(m)
    BY <2>1, <2>3 DEF CopiesOut
  <2>4. CASE ~Fills(m) /\ ~CopiesOut(m)
    <3>1. tx'[a] = tx[a] /\ image'[a] = image[a] /\ ~Copied(a)'
      BY <2>1, <2>4 DEF Fills, CopiesOut
    <3> QED BY <1>1, <2>1, <3>1
  <2> QED BY <2>2, <2>3, <2>4
<1>9. CASE Clear
  <2>1. /\ UNCHANGED <<job, cpc, allOp, tx, image>> /\ cpc # "flag"
        /\ pc = "clear" /\ pc' = "send"
        /\ mirror'[m] = IF Fills(m) THEN [mirror[m] EXCEPT !.initialed = TRUE]
                        ELSE [mirror[m] EXCEPT !.isUpdate = FALSE]
    BY <1>3, <1>9 DEF Clear, ThreadInv
  <2>2. CASE Fills(m) \/ CopiesOut(m)
    BY <1>1, <2>1, <2>2
  <2>3. CASE ~Fills(m) /\ ~CopiesOut(m)
    <3>1. ~mirror[m].isUpdate
      BY <2>3 DEF CopiesOut
    <3>2. mirror'[m].initialed => mirror[m].initialed
      BY <1>3, <2>1, <2>3 DEF TypeOK
    <3> QED BY <1>1, <2>1, <3>1, <3>2
  <2> QED BY <2>2, <2>3
<1>10. CASE LoadXml \/ LoadXmlFails
  BY <1>4, <1>10 DEF LoadXml, LoadXmlFails
<1>11. CASE Activate \/ ActivateFails
  <2>1. ~mirror'[m].initialed /\ pc' = "off"
    BY <1>3, <1>11, ActivatesEarly
  <2> QED BY <2>1
<1>12. ASSUME NEW auto \in BOOLEAN, StartTask(auto) \/ StartTaskFails(auto)
       PROVE  (Quiet(a)' => Agrees(a)') /\ (Copied(a)' => Agrees(a)')
  BY <1>4, <1>12 DEF StartTask, StartTaskFails
<1>13. ASSUME NEW j \in Jobs \ {NoJob}, SetCommand(j)
       PROVE  (Quiet(a)' => Agrees(a)') /\ (Copied(a)' => Agrees(a)')
  <2>1. UNCHANGED <<mirror, image, tx, allOp, pc>> /\ cpc # "flag" /\ cpc' # "flag"
    BY <1>13 DEF SetCommand, Idle
  <2> QED BY <1>1, <2>1 DEF Fills, CopiesOut
<1>14. CASE SetLock
  <2>1. UNCHANGED <<mirror, image, tx, allOp, pc>> /\ cpc # "flag" /\ cpc' # "flag"
    BY <1>14 DEF SetLock
  <2> QED BY <1>1, <2>1 DEF Fills, CopiesOut
<1>15. CASE SetWrite
  <2>1. /\ UNCHANGED <<mirror, image, job, pc>> /\ cpc = "write" /\ cpc' = "flag"
        /\ tx' = [tx EXCEPT ![job.axle] = Updated(@, job)] /\ pc # "clear"
    BY <1>15 DEF SetWrite, ThreadInv
  <2>2. CASE MasterOf[job.axle] = m
    BY <2>1, <2>2
  <2>3. CASE MasterOf[job.axle] # m
    <3>1. tx'[a] = tx[a]
      BY <2>1, <2>3 DEF TypeOK
    <3> QED BY <1>1, <2>1, <3>1
  <2> QED BY <2>2, <2>3
<1>16. CASE SetFlag
  <2>1. /\ UNCHANGED <<tx, image, pc>> /\ cpc = "flag" /\ cpc' = "idle" /\ pc # "clear"
        /\ mirror' = [mirror EXCEPT ![MasterOf[job.axle]].isUpdate = TRUE]
    BY <1>16 DEF SetFlag, ThreadInv
  <2>2. CASE MasterOf[job.axle] = m
    <3>1. mirror[m] \in [isUpdate : BOOLEAN, initialed : BOOLEAN]
      BY <1>3 DEF TypeOK
    <3>2. mirror'[m] = [mirror[m] EXCEPT !.isUpdate = TRUE]
      BY <1>3, <2>1, <2>2 DEF TypeOK
    <3>3. mirror'[m].isUpdate
      BY <3>1, <3>2
    <3> QED BY <2>1, <3>3
  <2>3. CASE MasterOf[job.axle] # m
    <3>1. mirror'[m] = mirror[m]
      BY <1>3, <2>1, <2>3 DEF TypeOK
    <3> QED BY <1>1, <2>1, <2>3, <3>1
  <2> QED BY <2>2, <2>3
<1>17. CASE StopTask \/ Join \/ Quit
  <2>1. UNCHANGED <<mirror, image, tx, allOp, pc>> /\ cpc # "flag" /\ cpc' # "flag"
    BY <1>17 DEF StopTask, Join, Quit, Idle
  <2> QED BY <1>1, <2>1 DEF Fills, CopiesOut
<1> QED
  BY <1>5, <1>6, <1>7, <1>8, <1>9, <1>10, <1>11, <1>12, <1>13, <1>14, <1>15, <1>16, <1>17
     DEF Next, Cyclic, Console, SetStep

(***************************************************************************)
(* What an update carries.                                                 *)
(***************************************************************************)
LEMMA InitTargetInv == Init => TargetInv
<1> SUFFICES ASSUME Init PROVE TargetInv
  OBVIOUS
<1>1. ASSUME NEW a \in Axles
      PROVE  /\ image[a].target = 0
             /\ ~mirror[MasterOf[a]].isUpdate /\ ~mirror[MasterOf[a]].initialed
  <2>1. image[a] = Cleared /\ mirror[MasterOf[a]] = [isUpdate |-> FALSE, initialed |-> FALSE]
    BY MastersAssumption DEF Init
  <2> QED BY <2>1 DEF Cleared
<1>2. cpc = "idle"
  BY DEF Init
<1> QED BY <1>1, <1>2 DEF TargetInv

LEMMA StepTargetInv ==
    TypeOK /\ ThreadInv /\ OrderInv /\ AgreeInv /\ TargetInv /\ [Next]_vars => TargetInv'
<1> SUFFICES ASSUME TypeOK, ThreadInv, OrderInv, AgreeInv, TargetInv, [Next]_vars,
                    Keeps({"set unfilled", "any order"})
             PROVE  TargetInv'
  BY UserStays DEF TargetInv, Keeps
<1> DEFINE Carries(a) ==
              /\ mirror[MasterOf[a]].isUpdate => mirror[MasterOf[a]].initialed
              /\ mirror[MasterOf[a]].initialed
                    => tx[a].target \in {image[a].target, ordered[a].target}
           Rest == ~con.finished => \A a \in Axles : image[a].target = 0
           Job == cpc \in {"lock", "write", "flag"} => mirror[MasterOf[job.axle]].initialed
<1>0. Keeps({"any order"}) /\ ~Takes("any order") /\ ~Takes("set unfilled")
  BY DEF Keeps, Takes
<1>1. Rest /\ Job /\ \A a \in Axles : Carries(a)
  BY DEF TargetInv
<1>2. SUFFICES Rest' /\ Job' /\ (\A a \in Axles : Carries(a))'
  BY DEF TargetInv
<1>3. \A a \in Axles : MasterOf[a] \in Masters
  BY MastersAssumption
<1>4. pc # "off" => con.finished
  BY <1>0 DEF ThreadInv, OrderInv
<1> USE DEF busVars, cyclicVars, consoleVars
<1>5. CASE /\ UNCHANGED <<mirror, tx, image, ordered>>
           /\ con.finished => con'.finished
           /\ cpc' \in {"lock", "write", "flag"}
                 => cpc \in {"lock", "write", "flag"} /\ job' = job
  BY <1>1, <1>5
<1>6. CASE BusChanges \/ DriveDrops \/ UNCHANGED vars
  BY <1>5, <1>6 DEF BusChanges, DriveDrops, vars
<1>7. CASE LockBusy \/ LockTaken \/ Send
  BY <1>5, <1>7 DEF LockBusy, LockTaken, Send
<1>8. CASE Receive
  <2>1. \A a \in Axles : image'[a].target = image[a].target
    BY <1>8, AutoOutputsType DEF TypeOK, Receive
  <2>2. UNCHANGED <<mirror, job, cpc, tx, con, ordered>>
    BY <1>8 DEF Receive
  <2> QED BY <1>1, <2>1, <2>2
<1>9. CASE Copy
  <2>1. UNCHANGED <<mirror, job, cpc, con, ordered>> /\ con.finished
    BY <1>4, <1>9 DEF Copy
  <2>2. ASSUME NEW a \in Axles PROVE Carries(a)'
    <3>1. /\ tx'[a] = IF Fills(MasterOf[a]) THEN image[a] ELSE tx[a]
          /\ image'[a] = IF CopiesOut(MasterOf[a]) THEN tx[a] ELSE image[a]
      BY <1>9 DEF Copy
    <3>2. CASE Fills(MasterOf[a])
      BY <1>1, <2>1, <3>1, <3>2 DEF Fills, CopiesOut
    <3>3. CASE ~Fills(MasterOf[a])
      BY <1>1, <2>1, <3>1, <3>3
    <3> QED BY <3>2, <3>3
  <2> QED BY <1>1, <2>1, <2>2
<1>10. CASE Clear
  <2>1. UNCHANGED <<job, cpc, con, ordered, tx, image>> /\ pc = "clear"
    BY <1>10 DEF Clear
  <2>2. ASSUME NEW k \in Masters
        PROVE  /\ mirror[k].initialed => mirror'[k].initialed
               /\ mirror'[k].isUpdate => mirror[k].isUpdate
               /\ Fills(k) \/ (mirror'[k].initialed => mirror[k].initialed)
    <3>1. mirror[k] \in [isUpdate : BOOLEAN, initialed : BOOLEAN]
      BY DEF TypeOK
    <3>2. mirror'[k] = IF Fills(k) THEN [mirror[k] EXCEPT !.initialed = TRUE]
                       ELSE [mirror[k] EXCEPT !.isUpdate = FALSE]
      BY <1>10 DEF Clear
    <3> QED BY <3>1, <3>2
  <2>3. ASSUME NEW a \in Axles PROVE Carries(a)'
    <3>1. CASE Fills(MasterOf[a])
      <4>1. image[a].target = tx[a].target
        BY <1>0, <2>1, <3>1 DEF AgreeInv
      <4> QED BY <1>1, <1>3, <2>1, <2>2, <4>1
    <3>2. CASE ~Fills(MasterOf[a])
      BY <1>1, <1>3, <2>1, <2>2, <3>2
    <3> QED BY <3>1, <3>2
  <2>4. Job'
    <3>1. SUFFICES ASSUME cpc \in {"lock", "write", "flag"}
                   PROVE  mirror'[MasterOf[job.axle]].initialed
      BY <2>1
    <3>2. job.axle \in Axles
      BY <3>1 DEF TypeOK, ThreadInv, Jobs
    <3> QED BY <1>1, <1>3, <2>2, <3>1, <3>2
  <2> QED BY <1>1, <2>1, <2>3, <2>4
<1>11. CASE LoadXml \/ LoadXmlFails
  <2>1. UNCHANGED <<mirror, tx, image, ordered, cpc, job>> /\ con'.finished = con.finished
    BY <1>11 DEF TypeOK, LoadXml, LoadXmlFails
  <2> QED BY <1>5, <2>1
<1>12. CASE Activate \/ ActivateFails
  <2>1. /\ \A k \in Masters : ~mirror'[k].isUpdate /\ ~mirror'[k].initialed
        /\ con'.finished /\ cpc' = "idle"
    BY <1>0, <1>12, ActivatesEarly
  <2> QED BY <1>3, <2>1
<1>13. ASSUME NEW auto \in BOOLEAN, StartTask(auto) \/ StartTaskFails(auto)
       PROVE  Rest' /\ Job' /\ (\A a \in Axles : Carries(a))'
  <2>1. UNCHANGED <<mirror, tx, image, ordered, cpc, job>> /\ con'.finished = con.finished
    BY <1>13 DEF TypeOK, StartTask, StartTaskFails
  <2> QED BY <1>5, <2>1
<1>14. ASSUME NEW j \in Jobs \ {NoJob}, SetCommand(j)
       PROVE  Rest' /\ Job' /\ (\A a \in Axles : Carries(a))'
  <2>1. /\ UNCHANGED <<mirror, tx, image, ordered, con>> /\ job' = j
        /\ mirror[MasterOf[j.axle]].initialed
    BY <1>0, <1>14 DEF SetCommand, MaySet
  <2> QED BY <1>1, <2>1
<1>15. CASE SetLock
  BY <1>5, <1>15 DEF SetLock
<1>16. CASE SetWrite
  <2>1. /\ UNCHANGED <<mirror, image, job, con>> /\ cpc = "write" /\ cpc' = "flag"
        /\ tx' = [tx EXCEPT ![job.axle] = Updated(@, job)]
        /\ ordered' = [ordered EXCEPT ![job.axle] = Updated(@, job)]
    BY <1>16 DEF SetWrite
  <2>2. ASSUME NEW a \in Axles PROVE Carries(a)'
    <3>1. CASE a # job.axle
      <4>1. tx'[a] = tx[a] /\ ordered'[a] = ordered[a]
        BY <2>1, <3>1 DEF TypeOK
      <4> QED BY <1>1, <2>1, <4>1
    <3>2. CASE a = job.axle
      <4>1. tx'[a] = Updated(tx[a], job) /\ ordered'[a] = Updated(ordered[a], job)
        BY <2>1, <3>2 DEF TypeOK
      <4>2. /\ tx[a] \in Mirrored
            /\ ordered[a] \in [cw : Orders \cup {NoOrder}, target : Targets \cup {NoOrder}]
        BY DEF TypeOK
      <4>3. \/ tx'[a].target = ordered'[a].target
            \/ tx'[a].target = tx[a].target /\ ordered'[a].target = ordered[a].target
        BY <4>1, <4>2 DEF Updated, Mirrored
      <4> QED BY <1>1, <2>1, <4>3
    <3> QED BY <3>1, <3>2
  <2> QED BY <1>1, <2>1, <2>2
<1>17. CASE SetFlag
  <2>1. /\ UNCHANGED <<tx, image, ordered, con>> /\ cpc = "flag" /\ cpc' = "idle"
        /\ mirror' = [mirror EXCEPT ![MasterOf[job.axle]].isUpdate = TRUE]
    BY <1>17 DEF SetFlag
  <2>2. ASSUME NEW k \in Masters
        PROVE  /\ mirror'[k].initialed = mirror[k].initialed
               /\ mirror'[k].isUpdate => mirror[k].isUpdate \/ k = MasterOf[job.axle]
    <3>1. mirror[k] \in [isUpdate : BOOLEAN, initialed : BOOLEAN]
      BY DEF TypeOK
    <3>2. mirror'[k] = IF k = MasterOf[job.axle] THEN [mirror[k] EXCEPT !.isUpdate = TRUE]
                       ELSE mirror[k]
      BY <2>1 DEF TypeOK
    <3> QED BY <3>1, <3>2
  <2> QED BY <1>1, <1>3, <2>1, <2>2
<1>18. CASE StopTask \/ Join \/ Quit
  <2>1. UNCHANGED <<mirror, tx, image, ordered>> /\ con'.finished = con.finished
        /\ cpc' \notin {"lock", "write", "flag"}
    BY <1>18 DEF TypeOK, StopTask, Join, Quit
  <2> QED BY <1>5, <2>1
<1> QED
  BY <1>6, <1>7, <1>8, <1>9, <1>10, <1>11, <1>12, <1>13, <1>14, <1>15, <1>16, <1>17, <1>18
     DEF Next, Cyclic, Console, SetStep

(***************************************************************************)
(* The drives of a careful user.                                           *)
(***************************************************************************)
Careful == Keeps({"set unfilled", "set over stale", "start over stale", "any order"})

Enabling == contrlword_enable_operation({})
InOp(a) == drv[a].state = "operation_enable"
Setting == cpc \in {"lock", "write", "flag"}

\* The states auto start leads an axle out of with a word that would disable it.
Early == {"no_ready_to_switch_on", "switch_on_disable", "ready_to_switch_on"}

\* Nobody has brought a drive into operation, or ordered anything, before there
\* is a mirror; auto start and the set commands keep out of each other's way.
BeginInv ==
    /\ ~con.finished =>
          ~Setting /\ \A a \in Axles : ~InOp(a) /\ ordered[a].cw = NoOrder
    /\ run.auto => ~Setting
    /\ run.auto /\ pc = "send" => \A a \in Axles : ~mirror[MasterOf[a]].isUpdate

\* What the mirror holds for an axle: no junk once it is filled, and the order
\* once there is one.
HeldInv(a) ==
    /\ image[a].cw # Junk
    /\ mirror[MasterOf[a]].initialed \/ (pc = "clear" /\ Fills(MasterOf[a])) => tx[a].cw # Junk
    /\ ordered[a].cw # NoOrder => mirror[MasterOf[a]].initialed /\ tx[a].cw = ordered[a].cw
    /\ carried[a] # NoOrder => ordered[a].cw # NoOrder

\* A drive in operation is kept there, unless the user has ordered otherwise.
KeptInv(a) ==
    InOp(a) => image[a].cw = Enabling \/ (carried[a] # NoOrder /\ image[a].cw = carried[a])

Pending(a) ==
    mirror[MasterOf[a]].isUpdate \/ (Setting /\ MasterOf[job.axle] = MasterOf[a])

\* An update that goes on its way carries the word of the outputs or an order; if
\* auto start has been at the outputs since, at least none that disables.
UpdateInv(a) ==
    Pending(a) =>
    \/ ordered[a].cw # NoOrder
    \/ tx[a].cw = image[a].cw
    \/ run.auto /\ pc \in {"lock", "copy"} /\ (InOp(a) => tx[a].cw = Enabling)

\* While auto start works on the sample of an early state, the drive is not in
\* operation and cannot get there.
SampleInv(a) ==
    (/\ run.auto /\ pc # "off" /\ axleState[a] \in Early
     /\ ~(pc = "receive" /\ counter % AxleFreq = 0))
    => /\ ~InOp(a)
       /\ drv[a].state = "switched_on" =>
             /\ pc \in {"receive", "lock", "copy"} => ~mirror[MasterOf[a]].isUpdate
             /\ pc # "receive" => image[a].cw # Enabling

DriveInv ==
    Careful =>
    /\ BeginInv
    /\ \A a \in Axles : HeldInv(a) /\ KeptInv(a) /\ UpdateInv(a) /\ SampleInv(a)

\* What holds for a careful user.
LEMMA CarefulFacts ==
    ASSUME ToolInv, DriveInv, Careful
    PROVE  /\ TypeOK /\ ThreadInv /\ OrderInv /\ BeginInv /\ Keeps({"any order"})
           /\ \A a \in Axles :
                 /\ HeldInv(a) /\ KeptInv(a) /\ UpdateInv(a) /\ SampleInv(a)
                 /\ MasterOf[a] \in Masters
                 /\ mirror[MasterOf[a]].isUpdate => mirror[MasterOf[a]].initialed
           /\ Setting => mirror[MasterOf[job.axle]].initialed
           /\ pc # "off" => con.finished
           /\ ~Takes("any order") /\ ~Takes("set unfilled")
           /\ ~Takes("set over stale") /\ ~Takes("start over stale")
<1>1. Keeps({"any order"}) /\ Keeps({"set unfilled", "any order"})
  BY DEF Careful, Keeps
<1>2. TargetInv /\ pc # "off" => con.finished
  BY <1>1 DEF ToolInv, ThreadInv, OrderInv
<1>3. /\ ~Takes("any order") /\ ~Takes("set unfilled")
      /\ ~Takes("set over stale") /\ ~Takes("start over stale")
  BY DEF Careful, Keeps, Takes
<1>4. \A a \in Axles : mirror[MasterOf[a]].isUpdate => mirror[MasterOf[a]].initialed
  BY <1>1 DEF ToolInv, TargetInv
<1>5. Setting => mirror[MasterOf[job.axle]].initialed
  BY <1>1 DEF ToolInv, TargetInv, Setting
<1>6. pc # "off" => con.finished BY <1>1 DEF ToolInv, ThreadInv, OrderInv
<1> QED BY <1>1, <1>3, <1>4, <1>5, <1>6, MastersAssumption DEF ToolInv, DriveInv

\* The invariant holds at the start, before there is a mirror.
LEMMA DriveInit == Init => DriveInv
<1> SUFFICES ASSUME Init PROVE DriveInv
  OBVIOUS
<1>1. /\ run.auto = FALSE /\ ~Setting /\ pc = "off" /\ con.finished = FALSE
  BY DEF Init, Setting
<1>2. ASSUME NEW a \in Axles
      PROVE  /\ drv[a].state = "switch_on_disable" /\ image[a].cw = {}
             /\ ordered[a].cw = NoOrder /\ carried[a] = NoOrder
             /\ ~mirror[MasterOf[a]].isUpdate /\ ~mirror[MasterOf[a]].initialed
  <2>1. /\ image[a] = Cleared /\ mirror[MasterOf[a]] = [isUpdate |-> FALSE, initialed |-> FALSE]
        /\ drv[a] = [state |-> "switch_on_disable", cw |-> {}]
        /\ ordered[a] = [cw |-> NoOrder, target |-> NoOrder] /\ carried[a] = NoOrder
    BY MastersAssumption DEF Init
  <2> QED BY <2>1 DEF Cleared
<1>3. BeginInv BY <1>1, <1>2 DEF BeginInv, InOp
<1>4. ASSUME NEW a \in Axles PROVE HeldInv(a) /\ KeptInv(a) /\ UpdateInv(a) /\ SampleInv(a)
  BY <1>1, <1>2, OrdersAssumption DEF HeldInv, KeptInv, UpdateInv, SampleInv, InOp, Pending
<1> QED BY <1>3, <1>4 DEF DriveInv

\* The control words are four different ones.
LEMMA WordsDiffer ==
    /\ Enabling # contrlword_shutdown({}) /\ Enabling # contrlword_switch_on({})
    /\ Enabling # {} /\ Enabling # Junk
    /\ contrlword_shutdown({}) # Junk /\ contrlword_switch_on({}) # Junk
<1>1. /\ 3 \in Enabling /\ 3 \notin contrlword_shutdown({}) /\ 3 \notin contrlword_switch_on({})
  BY DEF Enabling, contrlword_shutdown, contrlword_switch_on, contrlword_enable_operation
<1> QED BY <1>1, OrdersAssumption DEF StartWords, Enabling

\* The state machine lets a drive into operation by the enabling word only.
LEMMA EnabledByWord ==
    ASSUME NEW s \in AxleStates, NEW cw \in Controlwords, NEW prev,
           DriveTransition(s, cw, prev, FALSE) = "operation_enable"
    PROVE  s = "operation_enable" \/ (s = "switched_on" /\ cw = Enabling)
<1>1. s = "operation_enable" \/ (s = "switched_on" /\ IsEnable(cw))
  BY DEF DriveTransition, AxleStates
<1>2. IsEnable(cw) => cw = Enabling
  <2>1. IsEnable(cw) => 3 \in cw BY DEF IsEnable
  <2>2. 3 \notin contrlword_shutdown({}) /\ 3 \notin contrlword_switch_on({})
    BY DEF contrlword_shutdown, contrlword_switch_on
  <2> QED BY <2>1, <2>2 DEF Controlwords, StartWords, Enabling
<1> QED BY <1>1, <1>2

\* The enabling word keeps a drive in operation.
LEMMA EnablingKeeps ==
    ASSUME NEW prev
    PROVE  DriveTransition("operation_enable", Enabling, prev, FALSE) = "operation_enable"
<1>1. Enabling = {0, 1, 2, 3}
  BY DEF Enabling, contrlword_enable_operation
<1> QED BY <1>1 DEF DriveTransition, IsDisableVoltage, IsQuickStop, IsShutdown, IsSwitchOn,
                    IsEnable, Powered

\* A fresh sample of a drive in operation or switched on is no early one.
LEMMA FreshSample ==
    ASSUME NEW s \in AxleStates, get_axle_state(StatusPattern(s)) \in Early
    PROVE  s # "operation_enable" /\ s # "switched_on"
<1>1. get_axle_state(StatusPattern("operation_enable")) = "operation_enable"
  <2>1. StatusPattern("operation_enable") = {0, 1, 2, 4, 5} BY DEF StatusPattern
  <2>2. {0, 1, 2, 4, 5} \cap {0, 1, 2, 3, 5, 6} = {0, 1, 2, 5} OBVIOUS
  <2>3. {0, 1, 2, 4, 5} \cap {0, 1, 2, 3, 6} = {0, 1, 2} OBVIOUS
  <2>4. /\ {0, 1, 2} # {6} /\ {0, 1, 2, 5} # {0, 5} /\ {0, 1, 2, 5} # {0, 1, 5} OBVIOUS
  <2> QED BY <2>1, <2>2, <2>3, <2>4 DEF get_axle_state, Mask4F, Mask6F
<1>2. get_axle_state(StatusPattern("switched_on")) = "switched_on"
  <2>1. StatusPattern("switched_on") = {0, 1, 4, 5} BY DEF StatusPattern
  <2>2. {0, 1, 4, 5} \cap {0, 1, 2, 3, 5, 6} = {0, 1, 5} OBVIOUS
  <2>3. {0, 1, 4, 5} \cap {0, 1, 2, 3, 6} = {0, 1} OBVIOUS
  <2>4. {0, 1} # {6} /\ {0, 1, 5} # {0, 5} OBVIOUS
  <2> QED BY <2>1, <2>2, <2>3, <2>4 DEF get_axle_state, Mask4F, Mask6F
<1> QED BY <1>1, <1>2 DEF Early

\* A step that moves no drive, value or flag, and starts no command.
LEMMA DriveStill ==
    ASSUME ToolInv, DriveInv, Careful, user' = user,
           UNCHANGED <<image, tx, mirror, ordered, carried, axleState, counter, allOp, drv>>,
           UNCHANGED pc, run'.auto = run.auto, con'.finished = con.finished,
           Setting' => Setting /\ job' = job
    PROVE  DriveInv'
<1>1. BeginInv'
  BY CarefulFacts DEF BeginInv, InOp
<1>2. ASSUME NEW a \in Axles
      PROVE  HeldInv(a)' /\ KeptInv(a)' /\ UpdateInv(a)' /\ SampleInv(a)'
  BY CarefulFacts
     DEF HeldInv, KeptInv, UpdateInv, SampleInv, InOp, Pending, Fills
<1> QED BY <1>1, <1>2 DEF DriveInv

\* The drives of slaves that leave OP switch themselves off.
LEMMA DriveDrop ==
    ASSUME ToolInv, DriveInv, Careful, DriveDrops
    PROVE  DriveInv'
<1>1. /\ UNCHANGED <<image, tx, mirror, ordered, carried, axleState, counter, allOp, pc, run>>
      /\ UNCHANGED <<con, job, cpc>>
  BY DEF DriveDrops, cyclicVars, consoleVars
<1>2. ASSUME NEW a \in Axles
      PROVE  drv'[a].state = drv[a].state \/ drv'[a].state = "switch_on_disable"
  <2>1. drv \in [Axles -> [state : AxleStates, cw : Word]] BY CarefulFacts DEF TypeOK
  <2>2. PICK b \in Axles : drv' = [drv EXCEPT ![b].state = "switch_on_disable"]
    BY DEF DriveDrops
  <2>3. CASE a = b BY <2>1, <2>2, <2>3
  <2>4. CASE a # b BY <2>1, <2>2, <2>4
  <2> QED BY <2>3, <2>4
<1>3. BeginInv'
  BY <1>1, <1>2, CarefulFacts DEF BeginInv, InOp, Setting
<1>4. ASSUME NEW a \in Axles
      PROVE  HeldInv(a)' /\ KeptInv(a)' /\ UpdateInv(a)' /\ SampleInv(a)'
  BY <1>1, <1>2, CarefulFacts
     DEF HeldInv, KeptInv, UpdateInv, SampleInv, InOp, Pending, Fills, Setting
<1> QED BY <1>3, <1>4 DEF DriveInv

\* The lock is taken, or found taken: by a set command then, so auto start is
\* over.
LEMMA DriveLock ==
    ASSUME ToolInv, DriveInv, Careful, LockBusy \/ LockTaken
    PROVE  DriveInv'
<1>1. /\ UNCHANGED <<image, tx, mirror, ordered, carried, axleState, counter, allOp, drv, run>>
      /\ UNCHANGED <<con, job, cpc>> /\ pc = "lock"
  BY DEF LockBusy, LockTaken, consoleVars, busVars
<1>2. pc' = "copy" \/ (pc' = "send" /\ ~run.auto)
  <2>1. CASE LockTaken BY <2>1 DEF LockTaken
  <2>2. CASE LockBusy
    <3>1. mutex = "console" BY <2>2, <1>1, CarefulFacts DEF LockBusy, ThreadInv, TypeOK
    <3>2. Setting BY <3>1, CarefulFacts DEF ThreadInv, Setting
    <3> QED BY <2>2, <3>2, CarefulFacts DEF LockBusy, BeginInv
  <2> QED BY <2>1, <2>2
<1>3. BeginInv'
  BY <1>1, <1>2, CarefulFacts DEF BeginInv, InOp, Setting
<1>4. ASSUME NEW a \in Axles
      PROVE  HeldInv(a)' /\ KeptInv(a)' /\ UpdateInv(a)' /\ SampleInv(a)'
  BY <1>1, <1>2, CarefulFacts
     DEF HeldInv, KeptInv, UpdateInv, SampleInv, InOp, Pending, Fills, Setting
<1> QED BY <1>3, <1>4 DEF DriveInv

\* update_all_pods() copies: the mirror is filled, or an update goes out.
LEMMA DriveCopy ==
    ASSUME ToolInv, DriveInv, Careful, Copy
    PROVE  DriveInv'
<1>1. /\ UNCHANGED <<mirror, ordered, axleState, counter, allOp, drv, run, con, job, cpc>>
      /\ pc = "copy" /\ pc' = "clear"
  BY DEF Copy, consoleVars, busVars
<1>2. BeginInv'
  BY <1>1, CarefulFacts DEF BeginInv, InOp, Setting
<1>3. ASSUME NEW a \in Axles
      PROVE  HeldInv(a)' /\ KeptInv(a)' /\ UpdateInv(a)' /\ SampleInv(a)'
  <2> DEFINE m == MasterOf[a]
  <2>1. /\ tx'[a] = IF Fills(m) THEN image[a] ELSE tx[a]
        /\ image'[a] = IF CopiesOut(m) THEN tx[a] ELSE image[a]
        /\ carried'[a] = IF CopiesOut(m) THEN ordered[a].cw ELSE carried[a]
    BY DEF Copy
  <2>2. HeldInv(a) /\ KeptInv(a) /\ UpdateInv(a) /\ SampleInv(a) /\ Fills(m)' = Fills(m)
        /\ (mirror[m].isUpdate => mirror[m].initialed)
    BY <1>1, CarefulFacts DEF Fills
  <2>3. run.auto => ~Setting BY CarefulFacts DEF BeginInv
  <2>4. CASE CopiesOut(m)
    <3>1. /\ tx'[a] = tx[a] /\ image'[a] = tx[a] /\ carried'[a] = ordered[a].cw
          /\ ~Fills(m) /\ mirror[m].isUpdate /\ mirror[m].initialed
      BY <2>1, <2>2, <2>4 DEF CopiesOut
    <3>2. InOp(a) /\ ordered[a].cw = NoOrder => tx[a].cw = Enabling
      BY <1>1, <2>2, <3>1 DEF HeldInv, KeptInv, UpdateInv, Pending
    <3>3. HeldInv(a)' BY <1>1, <2>2, <3>1 DEF HeldInv
    <3>4. KeptInv(a)' BY <1>1, <2>2, <3>1, <3>2 DEF HeldInv, KeptInv, InOp
    <3>5. UpdateInv(a)' BY <3>1 DEF UpdateInv
    <3>6. SampleInv(a)' BY <1>1, <2>2, <3>1 DEF SampleInv, InOp
    <3> QED BY <3>3, <3>4, <3>5, <3>6
  <2>5. CASE Fills(m)
    <3>1. /\ tx'[a] = image[a] /\ image'[a] = image[a] /\ carried'[a] = carried[a]
          /\ ~mirror[m].initialed /\ ~mirror[m].isUpdate
      BY <2>1, <2>2, <2>5 DEF CopiesOut, Fills
    <3>3. HeldInv(a)' BY <1>1, <2>2, <3>1 DEF HeldInv
    <3>4. KeptInv(a)' BY <1>1, <2>2, <3>1 DEF KeptInv, InOp
    <3>5. UpdateInv(a)' BY <3>1 DEF UpdateInv
    <3>6. SampleInv(a)' BY <1>1, <2>2, <3>1 DEF SampleInv, InOp
    <3> QED BY <3>3, <3>4, <3>5, <3>6
  <2>6. CASE ~Fills(m) /\ ~CopiesOut(m)
    <3>1. /\ tx'[a] = tx[a] /\ image'[a] = image[a] /\ carried'[a] = carried[a]
          /\ ~mirror[m].isUpdate
      BY <2>1, <2>6 DEF CopiesOut
    <3>3. HeldInv(a)' BY <1>1, <2>2, <2>6, <3>1 DEF HeldInv
    <3>4. KeptInv(a)' BY <1>1, <2>2, <3>1 DEF KeptInv, InOp
    <3>5. UpdateInv(a)'
      BY <1>1, <2>2, <2>3, <3>1 DEF UpdateInv, Pending, Setting
    <3>6. SampleInv(a)' BY <1>1, <2>2, <3>1 DEF SampleInv, InOp
    <3> QED BY <3>3, <3>4, <3>5, <3>6
  <2> QED BY <2>4, <2>5, <2>6
<1> QED BY <1>2, <1>3 DEF DriveInv

\* The flags are cleared, and a mirror that was filled counts as such.
LEMMA DriveClear ==
    ASSUME ToolInv, DriveInv, Careful, Clear
    PROVE  DriveInv'
<1>1. /\ UNCHANGED <<image, tx, ordered, carried, axleState, counter, allOp, drv, run>>
      /\ UNCHANGED <<con, job, cpc>> /\ pc = "clear" /\ pc' = "send"
  BY DEF Clear, consoleVars, busVars
<1>2. ASSUME NEW a \in Axles
      PROVE  /\ ~mirror'[MasterOf[a]].isUpdate
             /\ mirror'[MasterOf[a]].initialed
                   <=> mirror[MasterOf[a]].initialed \/ Fills(MasterOf[a])
  <2> DEFINE m == MasterOf[a]
  <2>1. m \in Masters /\ (mirror[m].isUpdate => mirror[m].initialed) BY CarefulFacts
  <2>2. mirror[m] \in [isUpdate : BOOLEAN, initialed : BOOLEAN]
    BY <2>1, CarefulFacts DEF TypeOK
  <2>3. mirror'[m] = IF Fills(m) THEN [mirror[m] EXCEPT !.initialed = TRUE]
                     ELSE [mirror[m] EXCEPT !.isUpdate = FALSE]
    BY <2>1 DEF Clear
  <2>4. CASE Fills(m) BY <2>1, <2>2, <2>3, <2>4 DEF Fills
  <2>5. CASE ~Fills(m) BY <2>2, <2>3, <2>5
  <2> QED BY <2>4, <2>5
<1>3. BeginInv'
  BY <1>1, <1>2, CarefulFacts DEF BeginInv, InOp, Setting
<1>4. ASSUME NEW a \in Axles
      PROVE  HeldInv(a)' /\ KeptInv(a)' /\ UpdateInv(a)' /\ SampleInv(a)'
  <2>1. HeldInv(a) /\ KeptInv(a) /\ UpdateInv(a) /\ SampleInv(a) BY CarefulFacts
  <2>2. HeldInv(a)' BY <1>1, <1>2, <2>1 DEF HeldInv
  <2>3. KeptInv(a)' BY <1>1, <2>1 DEF KeptInv, InOp
  <2>4. UpdateInv(a)' BY <1>1, <1>2, <2>1 DEF UpdateInv, Pending, Setting
  <2>5. SampleInv(a)' BY <1>1, <2>1 DEF SampleInv, InOp
  <2> QED BY <2>2, <2>3, <2>4, <2>5
<1> QED BY <1>3, <1>4 DEF DriveInv


\* What auto start makes of the control word.
LEMMA AutoWord ==
    ASSUME NEW s, NEW cw
    PROVE  /\ s \in Early => /\ AutoControlword(s, cw) # Enabling
                             /\ AutoControlword(s, cw) # Junk
           /\ s \notin Early => AutoControlword(s, cw) \in {cw, Enabling}
           /\ s = "operation_enable" => AutoControlword(s, cw) = cw
BY WordsDiffer DEF AutoControlword, Early, Enabling

\* The states are sampled and auto start writes its words.
LEMMA DriveReceive ==
    ASSUME ToolInv, DriveInv, Careful, Receive
    PROVE  DriveInv'
<1>1. /\ UNCHANGED <<tx, mirror, ordered, carried, counter, drv, con, job, cpc>>
      /\ pc = "receive" /\ pc' = "lock"
  BY DEF Receive, consoleVars, busVars
<1>2. /\ run'.auto => run.auto
      /\ run.auto /\ ~run'.auto => \A a \in Axles : axleState'[a] = "operation_enable"
  <2>1. run'.auto = (run.auto /\ ~AllStarted(allOp', axleState'))
    BY CarefulFacts DEF Receive, TypeOK
  <2> QED BY <2>1 DEF AllStarted
<1>3. BeginInv'
  BY <1>1, <1>2, CarefulFacts DEF BeginInv, InOp, Setting
<1>4. ASSUME NEW a \in Axles
      PROVE  HeldInv(a)' /\ KeptInv(a)' /\ UpdateInv(a)' /\ SampleInv(a)'
  <2> DEFINE m == MasterOf[a]
             s == axleState'[a]
  <2>1. HeldInv(a) /\ KeptInv(a) /\ UpdateInv(a) /\ SampleInv(a) BY CarefulFacts
  <2>2. image'[a].cw = IF run.auto THEN AutoControlword(s, image[a].cw) ELSE image[a].cw
    <3>1. image[a] \in Mirrored BY CarefulFacts DEF TypeOK
    <3>2. image'[a] = IF run.auto THEN AutoOutputs(image[a], s) ELSE image[a]
      BY DEF Receive
    <3>3. AutoOutputs(image[a], s).cw = AutoControlword(s, image[a].cw)
      BY <3>1 DEF AutoOutputs, Mirrored
    <3> QED BY <3>2, <3>3
  <2>3. CASE ~run.auto
    <3>1. image'[a].cw = image[a].cw /\ ~run'.auto BY <1>2, <2>2, <2>3
    <3>2. HeldInv(a)' BY <1>1, <2>1, <3>1 DEF HeldInv
    <3>3. KeptInv(a)' BY <1>1, <2>1, <3>1 DEF KeptInv, InOp
    <3>4. UpdateInv(a)' BY <1>1, <2>1, <2>3, <3>1 DEF UpdateInv, Pending, Setting
    <3>5. SampleInv(a)' BY <3>1 DEF SampleInv
    <3> QED BY <3>2, <3>3, <3>4, <3>5
  <2>4. CASE run.auto
    <3>1. image'[a].cw = AutoControlword(s, image[a].cw) BY <2>2, <2>4
    <3>2. s \in Early =>
             /\ ~InOp(a)
             /\ drv[a].state = "switched_on" => ~mirror[m].isUpdate
      <4>1. CASE counter % AxleFreq = 0
        <5>1. s = get_axle_state(StatusPattern(drv[a].state)) BY <4>1 DEF Receive
        <5>2. drv[a].state \in AxleStates BY CarefulFacts DEF TypeOK
        <5> HIDE DEF s
        <5> QED BY <5>1, <5>2, FreshSample DEF InOp
      <4>2. CASE counter % AxleFreq # 0
        <5>1. s = axleState[a] BY <4>2 DEF Receive
        <5> QED BY <5>1, <4>2, <2>1, <2>4, <1>1 DEF SampleInv
      <4> QED BY <4>1, <4>2
    <3> HIDE DEF s
    <3>3. HeldInv(a)'
      <4>1. image'[a].cw # Junk BY <3>1, <2>1, AutoWord, WordsDiffer DEF HeldInv
      <4> QED BY <4>1, <1>1, <2>1 DEF HeldInv
    <3>4. KeptInv(a)' BY <1>1, <2>1, <3>1, <3>2, AutoWord DEF KeptInv, InOp
    <3>5. UpdateInv(a)'
      <4>1. SUFFICES ASSUME Pending(a), ordered[a].cw = NoOrder
                     PROVE  UpdateInv(a)'
        BY <1>1 DEF UpdateInv, Pending, Setting
      <4>2. tx[a].cw = image[a].cw BY <4>1, <2>1, <1>1 DEF UpdateInv
      <4>3. InOp(a) => tx[a].cw = Enabling
        BY <4>1, <4>2, <2>1 DEF KeptInv, HeldInv
      <4>4. CASE run'.auto BY <4>4, <4>3, <1>1 DEF UpdateInv, InOp
      <4>5. CASE ~run'.auto
        <5>1. s = "operation_enable" BY <4>5, <1>2, <2>4 DEF s
        <5> QED BY <5>1, <4>2, <3>1, <1>1, AutoWord DEF UpdateInv
      <4> QED BY <4>4, <4>5
    <3>6. SampleInv(a)'
      <4>1. SUFFICES ASSUME axleState'[a] \in Early PROVE SampleInv(a)'
        BY DEF SampleInv
      <4>2. s \in Early BY <4>1 DEF s
      <4> QED BY <4>2, <1>1, <3>1, <3>2, AutoWord DEF SampleInv, InOp
    <3> QED BY <3>3, <3>4, <3>5, <3>6
  <2> QED BY <2>3, <2>4
<1> QED BY <1>3, <1>4 DEF DriveInv

\* What a frame does to a drive of a careful user.
LEMMA SendFacts ==
    ASSUME ToolInv, DriveInv, Careful, Send, NEW a \in Axles
    PROVE  \/ drv'[a] = drv[a]
           \/ /\ drv'[a].cw = image[a].cw
              /\ drv'[a].state = "operation_enable" =>
                    \/ drv[a].state = "operation_enable"
                    \/ drv[a].state = "switched_on" /\ image[a].cw = Enabling
<1>1. drv'[a] \in Reactions(a) BY DEF Send
<1>2. /\ drv[a] \in [state : AxleStates, cw : Word] /\ image[a].cw \in Controlwords
      /\ image[a].cw # Junk
  BY CarefulFacts DEF TypeOK, HeldInv, Mirrored
<1> DEFINE t == DriveTransition(drv[a].state, image[a].cw, drv[a].cw, FALSE)
<1>3. CASE MasterOf[a] \notin op BY <1>1, <1>3 DEF Reactions
<1>4. CASE MasterOf[a] \in op
  <2>1. drv'[a] = [state |-> t, cw |-> image[a].cw] BY <1>1, <1>2, <1>4 DEF Reactions
  <2>2. drv[a].state \in AxleStates BY <1>2
  <2>3. t = "operation_enable" =>
           drv[a].state = "operation_enable"
           \/ (drv[a].state = "switched_on" /\ image[a].cw = Enabling)
    BY <1>2, <2>2, EnabledByWord
  <2> HIDE DEF t
  <2> QED BY <2>1, <2>3
<1> QED BY <1>3, <1>4

\* The drives act on the outputs.
LEMMA DriveSend ==
    ASSUME ToolInv, DriveInv, Careful, Send
    PROVE  DriveInv'
<1>1. /\ UNCHANGED <<image, tx, mirror, ordered, carried, axleState, allOp, run>>
      /\ UNCHANGED <<con, job, cpc>> /\ pc = "send" /\ pc' \in {"receive", "off"}
  BY DEF Send, consoleVars
<1>2. BeginInv'
  BY <1>1, CarefulFacts DEF BeginInv, InOp, Setting
<1>3. ASSUME NEW a \in Axles
      PROVE  HeldInv(a)' /\ KeptInv(a)' /\ UpdateInv(a)' /\ SampleInv(a)'
  <2>1. /\ HeldInv(a) /\ KeptInv(a) /\ UpdateInv(a) /\ SampleInv(a)
        /\ run.auto => ~mirror[MasterOf[a]].isUpdate
    BY <1>1, CarefulFacts DEF BeginInv
  <2>2. InOp(a)' => InOp(a) \/ (drv[a].state = "switched_on" /\ image[a].cw = Enabling)
    BY SendFacts DEF InOp
  <2>3. HeldInv(a)' BY <1>1, <2>1 DEF HeldInv
  <2>4. KeptInv(a)' BY <1>1, <2>1, <2>2 DEF KeptInv
  <2>5. UpdateInv(a)' BY <1>1, <2>1 DEF UpdateInv, Pending, Setting
  <2>6. SampleInv(a)' BY <1>1, <2>1, <2>2 DEF SampleInv
  <2> QED BY <2>3, <2>4, <2>5, <2>6
<1> QED BY <1>2, <1>3 DEF DriveInv


\* A mirror is built before a drive has been brought into operation.
LEMMA DriveActivate ==
    ASSUME ToolInv, DriveInv, Careful, Activate \/ ActivateFails
    PROVE  DriveInv'
<1>1. /\ ~con.finished /\ con'.finished /\ pc = "off" /\ pc' = "off"
      /\ \A a \in Axles : image'[a] = Cleared
      /\ \A m \in Masters : ~mirror'[m].isUpdate /\ ~mirror'[m].initialed
      /\ cpc' = "idle" /\ ordered' = ordered
  BY CarefulFacts, ActivatesEarly
<1>2. UNCHANGED <<run, carried, drv>>
  BY DEF Activate, ActivateFails, Activated, cyclicVars, busVars
<1>3. BeginInv'
  BY <1>1, <1>2, CarefulFacts DEF BeginInv, Setting
<1>4. ASSUME NEW a \in Axles
      PROVE  HeldInv(a)' /\ KeptInv(a)' /\ UpdateInv(a)' /\ SampleInv(a)'
  <2>1. /\ ~InOp(a) /\ ordered[a].cw = NoOrder /\ carried[a] = NoOrder
        /\ ~mirror'[MasterOf[a]].isUpdate /\ ~mirror'[MasterOf[a]].initialed
    BY <1>1, CarefulFacts DEF BeginInv, HeldInv
  <2>2. image'[a].cw # Junk BY <1>1, OrdersAssumption DEF Cleared
  <2> QED BY <1>1, <1>2, <2>1, <2>2
          DEF HeldInv, KeptInv, UpdateInv, SampleInv, InOp, Pending, Setting
<1> QED BY <1>3, <1>4 DEF DriveInv

\* Auto start begins on samples that are up to date.
LEMMA DriveStart ==
    ASSUME ToolInv, DriveInv, Careful, NEW auto \in BOOLEAN,
           StartTask(auto) \/ StartTaskFails(auto)
    PROVE  DriveInv'
<1>1. /\ UNCHANGED <<image, tx, mirror, ordered, carried, axleState, counter, drv, job, cpc>>
      /\ ~Setting /\ con'.finished = con.finished /\ run'.auto = auto /\ pc = "off"
      /\ pc' = "off" \/ (pc' = "receive" /\ StartTask(auto))
  <2>1. CASE StartTask(auto)
    <3>1. /\ UNCHANGED <<image, tx, mirror, ordered, carried, axleState, counter, drv, job, cpc>>
          /\ run' = [running |-> TRUE, auto |-> auto] /\ con' = [con EXCEPT !.started = TRUE]
          /\ pc' = "receive" /\ cpc = "idle" /\ ~con.started
      BY <2>1 DEF StartTask, busVars, Idle
    <3>2. pc = "off" BY <3>1, CarefulFacts DEF ThreadInv
    <3>3. con'.finished = con.finished BY <3>1, CarefulFacts DEF TypeOK
    <3> QED BY <2>1, <3>1, <3>2, <3>3 DEF Setting
  <2>2. CASE StartTaskFails(auto)
    <3>1. /\ UNCHANGED <<image, tx, mirror, ordered, carried, axleState, counter, drv, job, cpc>>
          /\ run' = [running |-> TRUE, auto |-> auto] /\ con' = con
          /\ pc' = pc /\ cpc = "idle" /\ ~con.started
      BY <2>2 DEF StartTaskFails, cyclicVars, consoleVars, busVars, Idle
    <3>2. pc = "off" BY <3>1, CarefulFacts DEF ThreadInv
    <3> QED BY <3>1, <3>2 DEF Setting
  <2> QED BY <2>1, <2>2
<1>2. BeginInv'
  BY <1>1, CarefulFacts DEF BeginInv, InOp, Setting
<1>3. ASSUME NEW a \in Axles
      PROVE  HeldInv(a)' /\ KeptInv(a)' /\ UpdateInv(a)' /\ SampleInv(a)'
  <2>1. HeldInv(a) /\ KeptInv(a) /\ UpdateInv(a) BY CarefulFacts
  <2>2. HeldInv(a)' BY <1>1, <2>1 DEF HeldInv
  <2>3. KeptInv(a)' BY <1>1, <2>1 DEF KeptInv, InOp
  <2>4. UpdateInv(a)' BY <1>1, <2>1 DEF UpdateInv, Pending, Setting
  <2>5. SampleInv(a)'
    <3>1. SUFFICES ASSUME auto, StartTask(auto), pc' = "receive", counter % AxleFreq # 0,
                          axleState[a] \in Early
                   PROVE  drv[a].state # "operation_enable" /\ drv[a].state # "switched_on"
      BY <1>1 DEF SampleInv, InOp
    <3>2. Sampled BY <3>1, CarefulFacts DEF StartTask
    <3>3. axleState[a] = get_axle_state(StatusPattern(drv[a].state))
      BY <3>1, <3>2 DEF Sampled
    <3>4. drv[a].state \in AxleStates BY CarefulFacts DEF TypeOK
    <3> QED BY <3>1, <3>3, <3>4, FreshSample
  <2> QED BY <2>2, <2>3, <2>4, <2>5
<1> QED BY <1>2, <1>3 DEF DriveInv

\* A set command begins when the mirror agrees with the outputs.
LEMMA DriveSetCommand ==
    ASSUME ToolInv, DriveInv, Careful, NEW j \in Jobs \ {NoJob}, SetCommand(j)
    PROVE  DriveInv'
<1>1. /\ UNCHANGED <<image, tx, mirror, ordered, carried, axleState, counter, allOp, drv>>
      /\ UNCHANGED <<pc, run, con>> /\ job' = j /\ con.finished
  BY DEF SetCommand, cyclicVars, busVars
<1>2. ~Stale BY CarefulFacts DEF SetCommand, MaySet
<1>3. BeginInv'
  BY <1>1, <1>2, CarefulFacts DEF BeginInv, InOp, Stale
<1>4. ASSUME NEW a \in Axles
      PROVE  HeldInv(a)' /\ KeptInv(a)' /\ UpdateInv(a)' /\ SampleInv(a)'
  <2>1. /\ HeldInv(a) /\ KeptInv(a) /\ UpdateInv(a) /\ SampleInv(a)
        /\ ~mirror[MasterOf[a]].isUpdate => tx[a].cw = image[a].cw
    BY <1>2, CarefulFacts DEF Stale
  <2>2. HeldInv(a)' BY <1>1, <2>1 DEF HeldInv, Fills
  <2>3. KeptInv(a)' BY <1>1, <2>1 DEF KeptInv, InOp
  <2>4. UpdateInv(a)'
    BY <1>1, <2>1 DEF UpdateInv, Pending, InOp
  <2>5. SampleInv(a)' BY <1>1, <2>1 DEF SampleInv, InOp
  <2> QED BY <2>2, <2>3, <2>4, <2>5
<1> QED BY <1>3, <1>4 DEF DriveInv

\* A value is set in the mirror, which is then the order.
LEMMA DriveSetWrite ==
    ASSUME ToolInv, DriveInv, Careful, SetWrite
    PROVE  DriveInv'
<1>1. /\ UNCHANGED <<image, mirror, carried, axleState, counter, allOp, drv, pc, run, con, job>>
      /\ cpc = "write" /\ cpc' = "flag"
  BY DEF SetWrite, cyclicVars, busVars
<1>2. /\ job.axle \in Axles /\ mirror[MasterOf[job.axle]].initialed
      /\ job.field = "cw" => job.value \in Orders
      /\ job.field \in {"cw", "target"}
  BY <1>1, CarefulFacts DEF TypeOK, ThreadInv, Jobs, Setting
<1>3. ~run.auto /\ con.finished BY <1>1, CarefulFacts DEF BeginInv, Setting
<1>4. BeginInv' BY <1>1, <1>3 DEF BeginInv
<1>5. ASSUME NEW a \in Axles
      PROVE  HeldInv(a)' /\ KeptInv(a)' /\ UpdateInv(a)' /\ SampleInv(a)'
  <2>1. HeldInv(a) /\ KeptInv(a) /\ UpdateInv(a) /\ SampleInv(a) BY CarefulFacts
  <2>2. \/ tx'[a].cw = tx[a].cw /\ ordered'[a].cw = ordered[a].cw
        \/ /\ tx'[a].cw = job.value /\ ordered'[a].cw = job.value
           /\ job.value \in Orders /\ a = job.axle
    <3>1. CASE a # job.axle
      <4>1. tx'[a] = tx[a] /\ ordered'[a] = ordered[a]
        BY <3>1, CarefulFacts DEF SetWrite, TypeOK
      <4> QED BY <4>1
    <3>2. CASE a = job.axle
      <4>1. tx'[a] = Updated(tx[a], job) /\ ordered'[a] = Updated(ordered[a], job)
        BY <3>2, CarefulFacts DEF SetWrite, TypeOK
      <4>2. /\ tx[a] \in Mirrored
            /\ ordered[a] \in [cw : Orders \cup {NoOrder}, target : Targets \cup {NoOrder}]
        BY CarefulFacts DEF TypeOK
      <4>3. CASE job.field = "cw"
        BY <4>1, <4>2, <4>3, <3>2, <1>2 DEF Updated, Mirrored
      <4>4. CASE job.field # "cw"
        BY <4>1, <4>2, <4>4, <3>2 DEF Updated, Mirrored
      <4> QED BY <4>3, <4>4
    <3> QED BY <3>1, <3>2
  <2>3. \A w \in Orders : w # Junk /\ w # NoOrder BY OrdersAssumption
  <2>4. HeldInv(a)' BY <1>1, <1>2, <2>1, <2>2, <2>3 DEF HeldInv, Fills
  <2>5. KeptInv(a)' BY <1>1, <2>1 DEF KeptInv, InOp
  <2>6. UpdateInv(a)'
    BY <1>1, <1>3, <2>1, <2>2, <2>3 DEF UpdateInv, Pending, Setting
  <2>7. SampleInv(a)' BY <1>1, <1>3 DEF SampleInv
  <2> QED BY <2>4, <2>5, <2>6, <2>7
<1> QED BY <1>4, <1>5 DEF DriveInv

\* The update is announced.
LEMMA DriveSetFlag ==
    ASSUME ToolInv, DriveInv, Careful, SetFlag
    PROVE  DriveInv'
<1>1. /\ UNCHANGED <<image, tx, ordered, carried, axleState, counter, allOp, drv, pc, run, con>>
      /\ cpc = "flag" /\ cpc' = "idle"
      /\ mirror' = [mirror EXCEPT ![MasterOf[job.axle]].isUpdate = TRUE]
  BY DEF SetFlag, cyclicVars, busVars
<1>2. ~run.auto /\ con.finished BY <1>1, CarefulFacts DEF BeginInv, Setting
<1>3. BeginInv' BY <1>1, <1>2 DEF BeginInv
<1>4. ASSUME NEW a \in Axles
      PROVE  HeldInv(a)' /\ KeptInv(a)' /\ UpdateInv(a)' /\ SampleInv(a)'
  <2> DEFINE m == MasterOf[a]
  <2>1. HeldInv(a) /\ KeptInv(a) /\ UpdateInv(a) /\ SampleInv(a) BY CarefulFacts
  <2>2. /\ mirror'[m].initialed = mirror[m].initialed
        /\ mirror'[m].isUpdate => mirror[m].isUpdate \/ m = MasterOf[job.axle]
    <3>1. m \in Masters /\ mirror[m] \in [isUpdate : BOOLEAN, initialed : BOOLEAN]
      BY CarefulFacts DEF TypeOK
    <3>2. mirror'[m] = IF m = MasterOf[job.axle] THEN [mirror[m] EXCEPT !.isUpdate = TRUE]
                       ELSE mirror[m]
      BY <1>1, <3>1, CarefulFacts DEF TypeOK
    <3> QED BY <3>1, <3>2
  <2>3. HeldInv(a)' BY <1>1, <2>1, <2>2 DEF HeldInv, Fills
  <2>4. KeptInv(a)' BY <1>1, <2>1 DEF KeptInv, InOp
  <2>5. UpdateInv(a)'
    BY <1>1, <1>2, <2>1, <2>2 DEF UpdateInv, Pending, Setting
  <2>6. SampleInv(a)' BY <1>1, <1>2 DEF SampleInv
  <2> QED BY <2>3, <2>4, <2>5, <2>6
<1> QED BY <1>3, <1>4 DEF DriveInv

\* Every step of a careful user's tool.
LEMMA DriveStep ==
    ASSUME ToolInv, DriveInv, Careful, [Next]_vars
    PROVE  DriveInv'
<1>0. user' = user BY UserStays
<1> USE DEF busVars, cyclicVars, consoleVars
<1>1. CASE BusChanges
  BY <1>1, DriveStill DEF BusChanges, Setting
<1>2. CASE LoadXml \/ LoadXmlFails
  <2>1. con'.finished = con.finished
    BY <1>2, CarefulFacts DEF TypeOK, LoadXml, LoadXmlFails
  <2> QED BY <1>2, <2>1, DriveStill DEF LoadXml, LoadXmlFails, Setting
<1>3. CASE SetLock
  BY <1>3, DriveStill DEF SetLock, Setting
<1>4. CASE StopTask \/ Join \/ Quit
  <2>1. con'.finished = con.finished /\ run'.auto = run.auto
    BY <1>4, CarefulFacts DEF TypeOK, StopTask, Join, Quit
  <2> QED BY <1>4, <2>1, DriveStill DEF StopTask, Join, Quit, Setting
<1>5. CASE UNCHANGED vars
  BY <1>5, DriveStill DEF vars, Setting
<1> QED
  BY <1>1, <1>2, <1>3, <1>4, <1>5, DriveDrop, DriveLock, DriveCopy, DriveClear, DriveReceive,
     DriveSend, DriveActivate, DriveStart, DriveSetCommand, DriveSetWrite, DriveSetFlag
     DEF Next, Cyclic, Console, SetStep

(***************************************************************************)
(* The theorems.                                                           *)
(***************************************************************************)
LEMMA Inductive == Spec => []ToolInv
<1>1. Init => ToolInv
  BY InitType, InitThreadInv, InitOrderInv, InitAgreeInv, InitTargetInv DEF ToolInv
<1>2. ToolInv /\ [Next]_vars => ToolInv'
  BY StepType, StepThreadInv, StepOrderInv, StepAgreeInv, StepTargetInv DEF ToolInv
<1> QED BY <1>1, <1>2, PTL DEF Spec

\* Every variable of the console tool and its cyclic thread keeps its type.
THEOREM TypeCorrect == Spec => []TypeOK
<1>1. ToolInv => TypeOK
  BY DEF ToolInv
<1> QED BY <1>1, Inductive, PTL

\* The cyclic thread (cycle_task()) of a user who activates once, starts then
\* and stops before quitting works on active masters and live domains only.
THEOREM LiveDomains == Spec => []UsesLiveDomains
<1>1. ToolInv => UsesLiveDomains
  <2> SUFFICES ASSUME ToolInv, pc # "off", Keeps({"any order", "quit running"})
               PROVE  \A m \in Masters : ecm[m] = "active" /\ mapped[m]
    BY DEF UsesLiveDomains
  <2>1. Keeps({"any order"}) /\ Keeps({"quit running"})
    BY DEF Keeps
  <2> QED BY <2>1 DEF ToolInv, ThreadInv, OrderInv
<1> QED BY <1>1, Inductive, PTL

\* update_all_pods() loses no update: a filled mirror without an announced
\* update has the targets of the outputs, whenever the mutex is free.
THEOREM NoUpdateLost == Spec => []MirrorAgrees
<1>1. ToolInv => MirrorAgrees
  <2> SUFFICES ASSUME ToolInv, NEW a \in Axles, Keeps({"any order"}), mutex = "free",
                      mirror[MasterOf[a]].initialed, ~mirror[MasterOf[a]].isUpdate
               PROVE  image[a].target = tx[a].target
    BY DEF MirrorAgrees
  <2>1. cpc # "flag"
    BY DEF ToolInv, ThreadInv
  <2> QED BY <2>1 DEF ToolInv, AgreeInv
<1> QED BY <1>1, Inductive, PTL

\* Whatever an update copies along, the target of an axle only ever changes to
\* the one the user set last.
THEOREM OnlyOrderedTargets == Spec => SentTargetsWereOrdered
<1> DEFINE Ordered == \A a \in Axles :
              Keeps({"set unfilled", "any order"}) /\ image'[a].target # image[a].target
                  => image'[a].target = ordered[a].target
<1>1. ToolInv /\ [Next]_vars => [Ordered]_vars
  <2> SUFFICES ASSUME ToolInv, Next, NEW a \in Axles, Keeps({"set unfilled", "any order"}),
                      image'[a].target # image[a].target
               PROVE  image'[a].target = ordered[a].target
    OBVIOUS
  <2> USE DEF busVars, cyclicVars, consoleVars
  <2>1. TypeOK /\ ThreadInv /\ OrderInv /\ TargetInv /\ Keeps({"any order"})
    BY DEF ToolInv, Keeps
  <2>2. CASE Copy
    <3>1. CopiesOut(MasterOf[a]) /\ image'[a] = tx[a]
      BY <2>2 DEF Copy
    <3> QED BY <2>1, <3>1 DEF TargetInv, CopiesOut
  <2>3. CASE Receive
    BY <2>1, <2>3, AutoOutputsType DEF TypeOK, Receive
  <2>4. CASE Activate \/ ActivateFails
    <3>1. ~con.finished /\ image'[a].target = 0
      BY <2>1, <2>4, ActivatesEarly
    <3>2. image[a].target = 0
      BY <2>1, <3>1 DEF TargetInv
    <3> QED BY <3>1, <3>2
  <2>5. CASE image' = image
    BY <2>5
  <2> QED
    BY <2>2, <2>3, <2>4, <2>5
       DEF Next, Cyclic, Console, SetStep, BusChanges, DriveDrops, LockBusy, LockTaken, Clear,
           Send, LoadXml, LoadXmlFails, StartTask, StartTaskFails, SetCommand, SetLock,
           SetWrite, SetFlag, StopTask, Join, Quit
<1> QED BY <1>1, Inductive, PTL DEF Spec, SentTargetsWereOrdered

\* The inductive invariant of a careful user's drives.
LEMMA DriveInvariance == Spec => []DriveInv
<1>1. ToolInv /\ DriveInv /\ [Next]_vars => DriveInv'
  <2> SUFFICES ASSUME ToolInv, DriveInv, [Next]_vars, Careful' PROVE DriveInv'
    BY DEF DriveInv
  <2>1. Careful BY UserStays DEF Careful, Keeps
  <2> QED BY <2>1, DriveStep
<1> QED BY <1>1, DriveInit, Inductive, PTL DEF Spec

\* A careful user's drive leaves operation only by the word that was ordered
\* last when an update was copied out, never by auto start (nser_axle_auto_start())
\* or by what update_all_pods() copies along.
THEOREM DrivesKept == Spec => DrivesStayEnabled
<1> DEFINE Kept == \A a \in Axles :
              (/\ Keeps({"set unfilled", "set over stale", "start over stale", "any order"})
               /\ drv[a].state = "operation_enable" /\ drv'[a].state # "operation_enable"
               /\ MasterOf[a] \in op)
                  => drv'[a].cw = carried[a]
<1>1. ToolInv /\ DriveInv /\ [Next]_vars => [Kept]_vars
  <2> SUFFICES ASSUME ToolInv, DriveInv, Next, NEW a \in Axles, Careful,
                      InOp(a), drv'[a].state # "operation_enable", MasterOf[a] \in op
               PROVE  drv'[a].cw = carried[a]
    BY DEF Careful, InOp
  <2>1. CASE Send
    <3>1. /\ drv[a] \in [state : AxleStates, cw : Word] /\ image[a].cw # Junk
          /\ image[a].cw = Enabling \/ image[a].cw = carried[a]
      BY CarefulFacts DEF TypeOK, HeldInv, KeptInv
    <3> DEFINE t == DriveTransition(drv[a].state, image[a].cw, drv[a].cw, FALSE)
    <3>2. drv'[a] = [state |-> t, cw |-> image[a].cw]
      BY <2>1, <3>1 DEF Send, Reactions
    <3>4. CASE image[a].cw = carried[a]
      <4> HIDE DEF t
      <4> QED BY <3>2, <3>4
    <3>5. CASE image[a].cw = Enabling
      <4>1. drv[a].state = "operation_enable" BY DEF InOp
      <4>2. t = "operation_enable" BY <3>5, <4>1, EnablingKeeps
      <4> HIDE DEF t
      <4>3. drv'[a].state = t BY <3>2
      <4> QED BY <4>2, <4>3
    <3> QED BY <3>1, <3>4, <3>5
  <2>2. CASE DriveDrops
    <3>1. drv \in [Axles -> [state : AxleStates, cw : Word]] BY CarefulFacts DEF TypeOK
    <3> QED BY <2>2, <3>1 DEF DriveDrops, InOp
  <2>3. CASE drv' = drv BY <2>3 DEF InOp
  <2> QED
    BY <2>1, <2>2, <2>3
       DEF Next, Cyclic, Console, SetStep, BusChanges, Receive, LockBusy, LockTaken, Copy,
           Clear, LoadXml, LoadXmlFails, Activate, ActivateFails, Activated, StartTask,
           StartTaskFails, SetCommand, SetLock, SetWrite, SetFlag, StopTask, Join, Quit,
           busVars
<1> QED BY <1>1, Inductive, DriveInvariance, PTL DEF Spec, DrivesStayEnabled

=============================================================================
