-------------------------------- MODULE Axes --------------------------------
(***************************************************************************)
(* The axes of nservo_run together: main_task() serves them one after the  *)
(* other in every period, those in cyclic synchronous position mode and    *)
(* those in profile velocity mode, while the command thread loads plans    *)
(* from files for several of them and starts and stops all of them at      *)
(* once.  What a command does between two accesses to one axis is in       *)
(* CSPAxis and PPAxis; here it lands between the axes.                     *)
(*                                                                         *)
(* One master; the axes' scale is 1, which a client sets first; a plan is  *)
(* not loaded on the way to a stop, and a load that fails at its           *)
(* parameters does not make a table of one segment cyclic, both of which   *)
(* CSPAxis allows; and only plans whose times of acceleration are exact in *)
(* parts of a point are loaded.                                            *)
(***************************************************************************)
EXTENDS Trajectory, Sequences, FiniteSets

CONSTANTS
    Mode,           \* the mode of each axis, "csp" or "pv"
    Files,          \* the files of load_tp_file, each a sequence of lines
    Homes,          \* where an axis may stand at the start
    Velocities,     \* values of set_target_velocity
    Untold,         \* no velocity was told yet
    MaxLoads,       \* bound on load_tp_file commands
    MaxFaults       \* bound on what goes wrong: drives that drop out of operation,
                    \* frames that are lost, the times the bus leaves ALL_OP

NumAxes == Len(Mode)
Axles == 1..NumAxes
CspAxes == {a \in Axles : Mode[a] = "csp"}
PvAxes == {a \in Axles : Mode[a] = "pv"}

\* A line of a file: the axis it names, its parameters and its array, whose
\* pairs may stand behind a blank, and what else is wrong with it.
Pairs == [pos : Nat, points : Nat \ {0}, blank : BOOLEAN]
FileLines ==
    [axis : Nat, cyclic : BOOLEAN, accel : Nat \ {0}, decel : Nat \ {0}, max : Nat \ {0},
     pairs : Seq(Pairs), defect : {"none", "no label", "no bracket"}]

ASSUME ModeAssumption == Mode \in Seq({"csp", "pv"}) \ {<<>>}
ASSUME FilesAssumption == Files \subseteq Seq(FileLines) \ {<<>>}
ASSUME HomesAssumption == Homes \subseteq Int
ASSUME VelocitiesAssumption == Velocities \subseteq Int /\ Untold \notin Int
ASSUME BoundsAssumption == MaxLoads \in Nat /\ MaxFaults \in Nat

VARIABLES
    csp,        \* struct axis_csp_status_t of each CSP axis with its table
    pv,         \* struct axis_pv_status_t of each PV axis
    cur,        \* current_position of each CSP axis
    next,       \* the axis main_task() serves next; NumAxes + 1: none, the
                \* frames are due
    allOp,      \* ns_master_state = ALL_OP
    out,        \* Target_position or Target_velocity of each axis
    in,         \* what the image says of each drive
    drv,        \* the drives
    faults,     \* what went wrong so far
    cmd,        \* the command thread: what it does and where it has got
    loads,      \* load_tp_file commands so far
    told,       \* history: the last velocity a client was told is set once
                \* the axis has measured its own
    mates       \* history: axes of the last set_start_all nothing set apart since

cyclicVars == <<next, allOp, in>>
lineVars == <<drv, faults>>
axisVars == <<csp, pv, cur, out>>
vars == <<csp, pv, cur, next, allOp, out, in, drv, faults, cmd, loads, told, mates>>

Idle == [does |-> "nothing", file |-> <<>>, at |-> 1]
NoPlan == [status |-> "stop", current_tp |-> 0, point |-> 0, tp |-> <<>>,
           cyclic |-> FALSE, accel |-> 0, decel |-> 0, max |-> 0]

\* main() and calloc(): no plan, nothing measured, a cleared image.
Init ==
    /\ csp = [a \in CspAxes |-> NoPlan]
    /\ pv = [a \in PvAxes |-> [velocity |-> 0, status |-> 0]]
    /\ cur = [a \in CspAxes |-> 0]
    /\ next = 1 /\ allOp = FALSE
    /\ out = [a \in Axles |-> 0]
    /\ in = [a \in Axles |-> [started |-> FALSE, actual |-> 0]]
    /\ \E home \in [Axles -> Homes] :
          drv = [a \in Axles |-> [started |-> FALSE,
                                  actual  |-> IF a \in CspAxes THEN home[a] ELSE 0]]
    /\ faults = 0
    /\ cmd = Idle /\ loads = 0
    /\ told = [a \in PvAxes |-> Untold]
    /\ mates = {}

Moving(c) == c.status \in {"running", "pre_stop"}

(***************************************************************************)
(* The drives.  A drive comes into operation when axis_start() has led it  *)
(* there, which DS402 and CiA402Drive tell, and the cyclic thread learns   *)
(* of it with the next frame only: it changes just before one.             *)
(***************************************************************************)
FramesDue == next = NumAxes + 1

DriveStarts(a) ==
    /\ FramesDue /\ ~drv[a].started
    /\ drv' = [drv EXCEPT ![a].started = TRUE]
    /\ UNCHANGED <<axisVars, cyclicVars, faults, cmd, loads, told, mates>>

DriveDrops(a) ==
    /\ FramesDue /\ drv[a].started /\ faults < MaxFaults
    /\ drv' = [drv EXCEPT ![a].started = FALSE]
    /\ faults' = faults + 1
    /\ UNCHANGED <<axisVars, cyclicVars, cmd, loads, told, mates>>

\* A drive in operation does what the outputs say.
Obeys(d, o) == IF d.started THEN [d EXCEPT !.actual = o] ELSE d

\* A period ends with sending the outputs and the next one begins with what
\* the frame brought back: where the drives stood when it reached them.  op:
\* the master is in ALL_OP in the period that begins.
Exchange(op) ==
    /\ FramesDue
    /\ in' = drv
    /\ drv' = [a \in Axles |-> Obeys(drv[a], out[a])]
    /\ next' = 1 /\ allOp' = op
    /\ faults' = faults + IF allOp /\ ~op THEN 1 ELSE 0
    /\ faults' <= MaxFaults
    /\ UNCHANGED <<axisVars, cmd, loads, told, mates>>

\* The frame does not reach the drives; the image stays as it was.
ExchangeLost ==
    /\ FramesDue /\ faults < MaxFaults
    /\ next' = 1
    /\ faults' = faults + 1
    /\ UNCHANGED <<axisVars, allOp, in, drv, cmd, loads, told, mates>>

(***************************************************************************)
(* The cyclic thread.                                                      *)
(***************************************************************************)
Served(a) == next = a /\ in[a].started /\ allOp

\* A loop over all axes is under way.
Halfway == cmd.does \in {"start", "stop", "store"}

\* axis_start() did not return 1, or the master is not in ALL_OP: in the
\* latter case no axis is served in this period.
Skip(a) ==
    /\ next = a /\ ~(in[a].started /\ allOp)
    /\ next' = a + 1
    /\ mates' = IF allOp THEN mates \ {a} ELSE mates
    /\ UNCHANGED <<axisVars, allOp, in, lineVars, cmd, loads, told>>

\* slip: the velocity is measured in every period
pv_update_always(a) ==
    /\ a \in PvAxes /\ Served(a)
    /\ pv' = [pv EXCEPT ![a] = [velocity |-> in[a].actual, status |-> 1]]
    /\ out' = [out EXCEPT ![a] = pv'[a].velocity]
    /\ next' = a + 1
    /\ UNCHANGED <<csp, cur, allOp, in, lineVars, cmd, loads, told, mates>>

\* The first time the axis keeps the velocity it has.
pv_update_target_velocity(a) ==
    /\ a \in PvAxes /\ Served(a)
    /\ pv' = IF pv[a].status = 0
             THEN [pv EXCEPT ![a] = [velocity |-> in[a].actual, status |-> 1]]
             ELSE pv
    /\ out' = [out EXCEPT ![a] = pv'[a].velocity]
    /\ next' = a + 1
    /\ UNCHANGED <<csp, cur, allOp, in, lineVars, cmd, loads, told, mates>>

Current(c) == c.tp[c.current_tp + 1]

\* slip: the last planner is left out
EndsEarly(c) ==
    IF c.point + 1 < Current(c).points_num THEN [c EXCEPT !.point = @ + 1]
    ELSE IF c.current_tp + 2 < Len(c.tp)
    THEN [c EXCEPT !.point = 0, !.current_tp = @ + 1]
    ELSE IF c.cyclic /\ c.status # "pre_stop"
    THEN [c EXCEPT !.point = 0, !.current_tp = 1]
    ELSE [c EXCEPT !.point = 0, !.current_tp = 0, !.status = "stop"]

\* slip: current_tp is not reset at the end
StaysBeyond(c) ==
    IF c.point + 1 < Current(c).points_num THEN [c EXCEPT !.point = @ + 1]
    ELSE IF c.current_tp + 1 < Len(c.tp)
    THEN [c EXCEPT !.point = 0, !.current_tp = @ + 1]
    ELSE IF c.cyclic /\ c.status # "pre_stop"
    THEN [c EXCEPT !.point = 0, !.current_tp = 1]
    ELSE [c EXCEPT !.point = 0, !.current_tp = @ + 1, !.status = "stop"]

\* get_next_pos(), where it leaves the plan: the next point, the next planner,
\* the next round or the end.
Advanced(c) ==
    IF c.point + 1 < Current(c).points_num THEN [c EXCEPT !.point = @ + 1]
    ELSE IF c.current_tp + 1 < Len(c.tp)
    THEN [c EXCEPT !.point = 0, !.current_tp = @ + 1]
    ELSE IF c.cyclic /\ c.status # "pre_stop"
    THEN [c EXCEPT !.point = 0, !.current_tp = 1]
    ELSE [c EXCEPT !.point = 0, !.current_tp = 0, !.status = "stop"]

csp_update_target_position(a) ==
    /\ a \in CspAxes /\ Served(a)
    /\ cur' = [cur EXCEPT ![a] = in[a].actual]
    /\ LET c == csp[a] IN
       IF Moving(c)
       THEN /\ out' = [out EXCEPT ![a] = Point(c, Current(c), c.point)]
            /\ csp' = [csp EXCEPT ![a] = Advanced(c)]
       ELSE UNCHANGED <<csp, out>>
    /\ next' = a + 1
    /\ mates' = IF Halfway THEN {} ELSE mates
    /\ UNCHANGED <<pv, allOp, in, lineVars, cmd, loads, told>>

main_task(a) ==
    Skip(a) \/ pv_update_target_velocity(a) \/ csp_update_target_position(a)

(***************************************************************************)
(* The command thread.  A command that goes over several lines or axes is  *)
(* taken up with the first of them and then does one after the other.      *)
(***************************************************************************)
set_target_velocity(a, v) ==
    /\ cmd = Idle
    /\ pv' = [pv EXCEPT ![a].velocity = v]
    /\ told' = IF pv[a].status = 1 THEN [told EXCEPT ![a] = v] ELSE told
    /\ UNCHANGED <<csp, cur, out, cyclicVars, lineVars, cmd, loads, mates>>

\* The parameters of a line are in force as soon as they are read.
Reads(c, l) ==
    [c EXCEPT !.cyclic = l.cyclic, !.accel = l.accel, !.decel = l.decel, !.max = l.max]

\* The pairs of the array, once more the first one if the plan is cyclic.
Stations(l) == IF l.cyclic THEN Append(l.pairs, l.pairs[1]) ELSE l.pairs

\* sscanf() gets as far as station i: a pair behind a blank does not match
\* "(%d:%d)".
Matched(l, i) == \A j \in 1..i : ~Stations(l)[j].blank

\* The table: the pairs that were matched, then what calloc() left.
Table(l, origin) ==
    [i \in 1..Len(Stations(l)) |->
        IF Matched(l, i)
        THEN trajectory_planner(l, IF i = 1 THEN origin ELSE Stations(l)[i - 1].pos,
                                Stations(l)[i].pos, Stations(l)[i].points)
        ELSE Unplanned(0, 0, 0)]

IsExact(l, origin) ==
    \A i \in 1..Len(Stations(l)) :
        Exact(l.accel, l.decel,
              Distance(IF i = 1 THEN origin ELSE Stations(l)[i - 1].pos, Stations(l)[i].pos),
              Stations(l)[i].points)

\* The load ends with the parameters.
FailsEarly(l) == l.defect = "no bracket" \/ l.pairs = <<>>

\* Tp_arrays_paster(): what it makes of an axis that is not running.
Pasted(c, l, origin) ==
    IF FailsEarly(l) THEN Reads(c, l)
    ELSE [Reads(c, l) EXCEPT !.tp = Table(l, origin),
                             !.status = IF Matched(l, Len(Stations(l))) THEN "ready" ELSE @]

PastedWell(l) ==
    l.defect = "none" /\ l.pairs # <<>> /\ Matched(l, Len(Stations(l)))

\* Line at of file f; whatever is wrong with it ends the command, and what the
\* lines before it loaded stays loaded.  An axis on its way to a stop takes a
\* plan too (CSPAxis); here its client waits.
LoadLine(f, at) ==
    /\ LET l == f[at]
           a == l.axis + 1
           refused == \/ l.defect = "no label" \/ a > NumAxes
                      \/ a \notin CspAxes \/ csp[a].status = "running"
       IN  IF refused
           THEN /\ cmd' = Idle
                /\ UNCHANGED <<csp, mates>>
           ELSE /\ csp[a].status # "pre_stop"
                /\ l.pairs # <<>> => IsExact(l, cur[a])
                /\ FailsEarly(l) /\ l.cyclic => Len(csp[a].tp) # 1
                /\ csp' = [csp EXCEPT ![a] = Pasted(@, l, cur[a])]
                /\ cmd' = IF PastedWell(l) /\ at < Len(f)
                          THEN [does |-> "load", file |-> f, at |-> at + 1] ELSE Idle
                /\ mates' = mates \ {a}
    /\ UNCHANGED <<pv, cur, out, cyclicVars, lineVars, told>>

Ready == {a \in CspAxes : csp[a].status = "ready"}

\* Is no axis served yet in this period, or all of them?
BetweenPeriods == next \in {1, NumAxes + 1}

\* On to the next axis of the loop, or done.
Onward(does, a) ==
    IF a < NumAxes THEN [does |-> does, file |-> <<>>, at |-> a + 1] ELSE Idle

\* slip: the loop ends with the first axis it has started
StartFirst(a) ==
    /\ cmd' = IF a \in Ready THEN Idle ELSE Onward("start", a)
    /\ csp' = [b \in CspAxes |-> IF b = a /\ a \in Ready
                                 THEN [csp[b] EXCEPT !.status = "running"] ELSE csp[b]]
    /\ UNCHANGED <<pv, cur, out, cyclicVars, lineVars, loads, told>>

StartAxis(a) ==
    /\ cmd' = Onward("start", a)
    /\ csp' = [b \in CspAxes |-> IF b = a /\ a \in Ready
                                 THEN [csp[b] EXCEPT !.status = "running"] ELSE csp[b]]
    /\ UNCHANGED <<pv, cur, out, cyclicVars, lineVars, loads, told>>

\* The status is tested, then stored.
StopTest(a) ==
    /\ cmd' = IF a \in CspAxes /\ csp[a].status = "running"
              THEN [does |-> "store", file |-> <<>>, at |-> a]
              ELSE Onward("stop", a)
    /\ UNCHANGED <<axisVars, cyclicVars, lineVars, loads, told>>

StopStore(a) ==
    /\ csp' = [csp EXCEPT ![a].status = "pre_stop"]
    /\ cmd' = Onward("stop", a)
    /\ UNCHANGED <<pv, cur, out, cyclicVars, lineVars, loads, told>>

load_tp_file(f) ==
    cmd = Idle /\ loads < MaxLoads /\ loads' = loads + 1 /\ LoadLine(f, 1)

set_start_all == cmd = Idle /\ StartAxis(1) /\ mates' = IF BetweenPeriods THEN Ready ELSE {}

set_stop_all == cmd = Idle /\ StopTest(1) /\ mates' = IF BetweenPeriods THEN mates ELSE {}

CommandStep ==
    \/ cmd.does = "load" /\ LoadLine(cmd.file, cmd.at) /\ UNCHANGED loads
    \/ /\ \/ cmd.does = "start" /\ StartAxis(cmd.at)
          \/ cmd.does = "stop" /\ StopTest(cmd.at)
          \/ cmd.does = "store" /\ StopStore(cmd.at)
       /\ mates' = IF BetweenPeriods THEN mates ELSE {}

Command ==
    \/ \E a \in PvAxes, v \in Velocities : set_target_velocity(a, v)
    \/ \E f \in Files : load_tp_file(f)
    \/ set_start_all \/ set_stop_all

Next ==
    \/ \E a \in Axles : DriveStarts(a) \/ DriveDrops(a) \/ main_task(a)
    \/ \E op \in BOOLEAN : Exchange(op)
    \/ ExchangeLost
    \/ Command \/ CommandStep

Spec == Init /\ [][Next]_vars

(***************************************************************************)
(* Properties.                                                             *)
(***************************************************************************)
Planners ==
    [origin_pos : Int, target_pos : Nat, points_num : Nat, direction : {-1, 1},
     accel_pos : Nat, decel_pos : Nat, uniform_speed : Nat,
     point_accel_end : Nat, point_decel_start : Nat]

Plans ==
    [status : {"stop", "ready", "running", "pre_stop"}, current_tp : Nat, point : Nat,
     tp : Seq(Planners), cyclic : BOOLEAN, accel : Nat, decel : Nat, max : Nat]

Drives == [started : BOOLEAN, actual : Int]

\* Types, and that a plan that may move has a planner to move by.
TypeOK ==
    /\ csp \in [CspAxes -> Plans]
    /\ \A a \in CspAxes : csp[a].status # "stop" => csp[a].current_tp < Len(csp[a].tp)
    /\ pv \in [PvAxes -> [velocity : Int, status : {0, 1}]]
    /\ cur \in [CspAxes -> Int]
    /\ next \in 1..(NumAxes + 1) /\ allOp \in BOOLEAN
    /\ out \in [Axles -> Int]
    /\ {in, drv} \subseteq [Axles -> Drives] /\ faults \in 0..MaxFaults /\ loads \in 0..MaxLoads
    /\ cmd \in [does : {"nothing", "load", "start", "stop", "store"},
                file : Files \cup {<<>>}, at : Nat \ {0}]
    /\ Halfway => cmd.at \in Axles
    /\ cmd.does = "store" => cmd.at \in CspAxes
    /\ told \in [PvAxes -> Velocities \cup {Untold}]
    /\ mates \subseteq CspAxes

SamePlan(c, d) == c.tp = d.tp /\ c.cyclic = d.cyclic

\* Axes started at once on the same plan are at the same point of it whenever
\* a period begins or ends, and stop in the same period, as long as both were
\* served in every period of ALL_OP and no loop over the axes was cut by the
\* period (set_start_all and set_stop_all against main_task).
StaysTogether ==
    BetweenPeriods /\ ~Halfway =>
        \A a, b \in mates : SamePlan(csp[a], csp[b]) =>
            /\ csp[a].status = csp[b].status
            /\ csp[a].current_tp = csp[b].current_tp /\ csp[a].point = csp[b].point

\* The table was made with the parameters in force, every segment can be
\* driven in its time, and a plan that goes round ends where its first segment
\* does.  A load that fails behind the parameters leaves them in force for the
\* table that was there.
WellPlanned(c) ==
    /\ \A i \in DOMAIN c.tp :
          LET t == c.tp[i] IN
          /\ Exact(c.accel, c.decel, Distance(t.origin_pos, t.target_pos), t.points_num)
          /\ Planned(t) /\ t = trajectory_planner(c, t.origin_pos, t.target_pos, t.points_num)
    /\ c.cyclic => c.tp[Len(c.tp)].target_pos = c.tp[1].target_pos

\* A set point of a plan that can be driven lies on the way of its segment,
\* and the axis never jumps from one to the next, within a segment, from a
\* segment to the following one or from one round to the next (get_next_pos()
\* on what trajectory_planner() computed).
MovesAsPlanned ==
    [][\A a \in CspAxes :
          LET c == csp[a] IN
          out'[a] # out[a] /\ WellPlanned(c) =>
              /\ OnItsWay(Current(c), out'[a])
              /\ <<c.current_tp, c.point>> = <<0, 0>> \/ ShortStep(c.max, out[a], out'[a])]_vars

\* When a plan that can be driven is over, the axis is less than two periods
\* of its last segment's speed away from its last waypoint: get_next_pos()
\* leaves out the last point, and no more.
StopsNearItsEnd ==
    [][\A a \in CspAxes :
          LET c == csp[a]
              t == c.tp[Len(c.tp)]
          IN  Moving(c) /\ csp'[a].status = "stop" /\ WellPlanned(c) =>
                  ShortStep(t.uniform_speed \div Unit, out'[a], t.target_pos)]_vars

\* A velocity set after the axis has measured its own stays the one it drives
\* by until another one is set, whether the axis is served, dropped or started
\* again (pv_update_target_velocity() measures once only).
VelocityKept == \A a \in PvAxes : told[a] # Untold => pv[a].velocity = told[a]
=============================================================================
