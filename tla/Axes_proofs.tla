---------------------------- MODULE Axes_proofs ----------------------------
(***************************************************************************)
(* Proofs about the axes of nservo_run.  First what a planner and a plan   *)
(* are made of, then one invariant for the tables the cyclic thread walks, *)
(* one for the velocities, and one for the axes that were started at once. *)
(***************************************************************************)
EXTENDS Axes, Trajectory_proofs

(***************************************************************************)
(* trajectory_planner().                                                   *)
(***************************************************************************)

LEMMA SegmentType ==
    ASSUME NEW origin \in Int, NEW target \in Nat, NEW points \in Nat,
           NEW ap \in Nat, NEW dp \in Nat, NEW sp \in Nat, NEW ae \in Nat, NEW ds \in Nat
    PROVE  Segment(origin, target, points, ap, dp, sp, ae, ds) \in Planners
BY DEF Segment, Planners

LEMMA PlannerType ==
    ASSUME NEW l \in FileLines, NEW origin \in Int, NEW target \in Nat, NEW points \in Nat,
           Exact(l.accel, l.decel, Distance(origin, target), points)
    PROVE  trajectory_planner(l, origin, target, points) \in Planners
<1> DEFINE way == Distance(origin, target)
           t0 == CHOOSE t \in AccelTimes(l.accel, l.decel, way, points) : TRUE
           t1 == Parts * points - (l.accel * t0) \div l.decel
           refused == ~Reachable(l.accel, l.decel, way, points) \/ l.accel * t0 > l.max * Parts
           plan == Segment(origin, target, points, l.accel * t0 * t0,
                           l.accel * t0 * t0 + 2 * l.accel * t0 * (t1 - t0),
                           2 * Parts * l.accel * t0, Rounded(t0), Rounded(t1))
<1>1. l.accel \in Nat \ {0} /\ l.decel \in Nat \ {0} /\ way \in Nat
  <2>1. target \in Int
    OBVIOUS
  <2>2. way \in Nat
    BY <2>1, DistanceType
  <2> HIDE DEF way
  <2> QED BY <2>2 DEF FileLines
<1>2. Unplanned(origin, target, points) \in Planners
  BY SegmentType DEF Unplanned
<1>3. ASSUME ~refused PROVE plan \in Planners
  <2>1. t0 \in AccelTimes(l.accel, l.decel, way, points)
    BY <1>3 DEF Exact
  <2>2. t0 \in Nat /\ t1 \in Nat /\ t0 <= t1
    BY <1>1, <2>1, SlowsDownLater
  <2> HIDE DEF t0, t1
  <2>3. l.accel * t0 \in Nat /\ t1 - t0 \in Nat
    BY <1>1, <2>2, ProductIsNat
  <2>4. l.accel * t0 * t0 \in Nat
    BY <2>2, <2>3, ProductIsNat
  <2>5. 2 * l.accel * t0 * (t1 - t0) \in Nat
    <3>1. 2 * l.accel \in Nat
      BY <1>1
    <3>2. 2 * l.accel * t0 \in Nat
      BY <2>2, <3>1, ProductIsNat
    <3> QED BY <2>3, <3>2, ProductIsNat
  <2>6. 2 * Parts * l.accel * t0 \in Nat
    <3>1. 2 * Parts \in Nat
      BY PartsAssumption
    <3>2. 2 * Parts * l.accel \in Nat
      BY <1>1, <3>1, ProductIsNat
    <3> QED BY <2>2, <3>2, ProductIsNat
  <2>7. Rounded(t0) \in Nat /\ Rounded(t1) \in Nat
    BY <2>2, RoundedType
  <2>8. l.accel * t0 * t0 + 2 * l.accel * t0 * (t1 - t0) \in Nat
    BY <2>4, <2>5
  <2> QED BY <2>4, <2>6, <2>7, <2>8, SegmentType
<1>4. trajectory_planner(l, origin, target, points)
        = IF refused THEN Unplanned(origin, target, points) ELSE plan
  BY DEF trajectory_planner
<1> HIDE DEF plan, refused
<1> QED BY <1>2, <1>3, <1>4

(***************************************************************************)
(* What a load makes of a plan.                                            *)
(***************************************************************************)
LEMMA StationsType ==
    ASSUME NEW l \in FileLines, l.pairs # <<>>
    PROVE  /\ Stations(l) \in Seq(Pairs) /\ Len(Stations(l)) \in Nat \ {0}
           /\ l.cyclic => Len(Stations(l)) # 1
<1>1. l.pairs \in Seq(Pairs) /\ Len(l.pairs) \in Nat \ {0} /\ l.cyclic \in BOOLEAN
  <2>1. l.pairs \in Seq(Pairs) /\ l.cyclic \in BOOLEAN
    BY DEF FileLines
  <2>2. Len(l.pairs) # 0
    BY <2>1
  <2> QED BY <2>1, <2>2
<1>2. l.pairs[1] \in Pairs
  BY <1>1
<1>3. Append(l.pairs, l.pairs[1]) \in Seq(Pairs)
        /\ Len(Append(l.pairs, l.pairs[1])) = Len(l.pairs) + 1
  BY <1>1, <1>2
<1> QED BY <1>1, <1>3 DEF Stations

LEMMA TableType ==
    ASSUME NEW l \in FileLines, l.pairs # <<>>, NEW origin \in Int, IsExact(l, origin)
    PROVE  Table(l, origin) \in Seq(Planners) /\ Len(Table(l, origin)) = Len(Stations(l))
<1> DEFINE n == Len(Stations(l))
           from(i) == IF i = 1 THEN origin ELSE Stations(l)[i - 1].pos
           planner(i) == IF Matched(l, i)
                         THEN trajectory_planner(l, from(i), Stations(l)[i].pos,
                                                 Stations(l)[i].points)
                         ELSE Unplanned(0, 0, 0)
<1>1. n \in Nat \ {0} /\ \A i \in 1..n : Stations(l)[i] \in Pairs
  BY StationsType
<1>2. \A i \in 1..n : /\ from(i) \in Int /\ Stations(l)[i].pos \in Nat
                      /\ Stations(l)[i].points \in Nat
  <2> TAKE i \in 1..n
  <2>1. Stations(l)[i].pos \in Nat /\ Stations(l)[i].points \in Nat
    BY <1>1 DEF Pairs
  <2>2. CASE i = 1
    BY <2>1, <2>2
  <2>3. CASE i # 1
    <3>1. i - 1 \in 1..n
      BY <1>1, <2>3
    <3>2. Stations(l)[i - 1].pos \in Nat
      BY <1>1, <3>1 DEF Pairs
    <3> QED BY <2>1, <2>3, <3>2
  <2> QED BY <2>2, <2>3
<1>3. \A i \in 1..n : planner(i) \in Planners
  <2> TAKE i \in 1..n
  <2>1. Exact(l.accel, l.decel, Distance(from(i), Stations(l)[i].pos), Stations(l)[i].points)
    BY DEF IsExact
  <2>2. trajectory_planner(l, from(i), Stations(l)[i].pos, Stations(l)[i].points) \in Planners
    BY <1>2, <2>1, PlannerType
  <2>3. Unplanned(0, 0, 0) \in Planners
    BY SegmentType DEF Unplanned
  <2> QED BY <2>2, <2>3
<1>4. Table(l, origin) = [i \in 1..n |-> planner(i)]
  BY DEF Table
<1> HIDE DEF n, planner
<1>5. [i \in 1..n |-> planner(i)] \in Seq(Planners) /\ Len([i \in 1..n |-> planner(i)]) = n
  BY <1>1, <1>3
<1> QED BY <1>4, <1>5 DEF n

\* A plan the load leaves, and that it may be walked once it is started.
LEMMA PastedType ==
    ASSUME NEW c \in Plans, NEW l \in FileLines, NEW origin \in Int,
           l.pairs # <<>> => IsExact(l, origin)
    PROVE  /\ Pasted(c, l, origin) \in Plans
           /\ Pasted(c, l, origin).current_tp = c.current_tp
           /\ Pasted(c, l, origin).point = c.point
           /\ Pasted(c, l, origin).status \in {c.status, "ready"}
           /\ FailsEarly(l) => /\ Pasted(c, l, origin).status = c.status
                               /\ Pasted(c, l, origin).tp = c.tp
           /\ ~FailsEarly(l) => Pasted(c, l, origin).tp # <<>>
           /\ Pasted(c, l, origin).cyclic = l.cyclic
           /\ ~FailsEarly(l) /\ l.cyclic => Len(Pasted(c, l, origin).tp) # 1
<1>1. /\ Reads(c, l) \in Plans
      /\ Reads(c, l).status = c.status /\ Reads(c, l).tp = c.tp
      /\ Reads(c, l).current_tp = c.current_tp /\ Reads(c, l).point = c.point
      /\ Reads(c, l).cyclic = l.cyclic
  BY DEF Reads, Plans, FileLines
<1>2. CASE FailsEarly(l)
  BY <1>1, <1>2 DEF Pasted
<1>3. CASE ~FailsEarly(l)
  <2>1. l.pairs # <<>>
    BY <1>3 DEF FailsEarly
  <2>2. /\ Table(l, origin) \in Seq(Planners) /\ Len(Table(l, origin)) \in Nat \ {0}
        /\ l.cyclic => Len(Table(l, origin)) # 1
    BY <2>1, TableType, StationsType
  <2>3. Pasted(c, l, origin)
          = [Reads(c, l) EXCEPT
               !.tp = Table(l, origin),
               !.status = IF Matched(l, Len(Stations(l))) THEN "ready" ELSE @]
    BY <1>3 DEF Pasted
  <2> DEFINE r == Reads(c, l)
             T == Table(l, origin)
             s == IF Matched(l, Len(Stations(l))) THEN "ready" ELSE r.status
  <2>4. Pasted(c, l, origin) = [r EXCEPT !.tp = T, !.status = s]
    BY <1>1, <2>3 DEF Plans
  <2>5. T # <<>> /\ s \in {c.status, "ready"}
    BY <1>1, <2>2
  <2>6. T \in Seq(Planners) /\ (l.cyclic => Len(T) # 1)
    BY <2>2
  <2> HIDE DEF r, T, s
  <2>7. r \in Plans /\ r.current_tp = c.current_tp /\ r.point = c.point /\ r.cyclic = l.cyclic
    BY <1>1 DEF r
  <2>8. [r EXCEPT !.tp = T, !.status = s] \in Plans
    <3>1. s \in {"stop", "ready", "running", "pre_stop"}
      BY <2>5 DEF Plans
    <3> QED BY <2>6, <2>7, <3>1 DEF Plans
  <2>9. LET d == [r EXCEPT !.tp = T, !.status = s] IN
        /\ d.current_tp = c.current_tp /\ d.point = c.point /\ d.cyclic = l.cyclic
        /\ d.tp = T /\ d.status = s
    BY <2>7 DEF Plans
  <2> QED BY <1>3, <2>4, <2>5, <2>6, <2>8, <2>9
<1> QED BY <1>2, <1>3

(***************************************************************************)
(* The tables.  A plan at rest stands at its beginning, one that moves is  *)
(* inside its table, and one that goes round has a planner to go back to.  *)
(* The stop that was tested and not stored yet concerns an axis that still *)
(* has its table.                                                          *)
(***************************************************************************)
Sound(c) ==
    /\ c \in Plans
    /\ c.status # "stop" => c.current_tp < Len(c.tp)
    /\ c.status \in {"stop", "ready"} => c.current_tp = 0 /\ c.point = 0
    /\ c.cyclic => Len(c.tp) # 1

TablesInv == \A a \in CspAxes : Sound(csp[a])

CommandInv ==
    /\ cmd.does = "load" => cmd.file \in Files /\ cmd.at \in 1..Len(cmd.file)
    /\ cmd.does = "store" => /\ csp[cmd.at].status \in {"running", "stop"}
                             /\ csp[cmd.at].tp # <<>>

WalkInv == TypeOK /\ TablesInv /\ CommandInv

LEMMA AxesAreFinite == NumAxes \in Nat \ {0} /\ CspAxes \subseteq Axles /\ PvAxes \subseteq Axles
<1>1. Mode \in Seq({"csp", "pv"}) /\ Mode # <<>>
  BY ModeAssumption
<1>2. Len(Mode) \in Nat /\ Len(Mode) # 0
  BY <1>1
<1> QED BY <1>2 DEF NumAxes, CspAxes, PvAxes

LEMMA TwoKinds == CspAxes \cap PvAxes = {}
BY DEF CspAxes, PvAxes

LEMMA NoPlanIsSound == Sound(NoPlan)
<1>1. NoPlan \in Plans
  BY DEF NoPlan, Plans
<1> QED BY <1>1 DEF NoPlan, Sound

\* get_next_pos() keeps a plan sound, and its table.
LEMMA AdvancedIsSound ==
    ASSUME NEW c, Sound(c), Moving(c)
    PROVE  /\ Sound(Advanced(c)) /\ Advanced(c).tp = c.tp /\ Advanced(c).cyclic = c.cyclic
           /\ Advanced(c).status \in {c.status, "stop"}
<1>1. /\ c \in Plans /\ c.current_tp \in Nat /\ c.point \in Nat /\ c.tp \in Seq(Planners)
      /\ Len(c.tp) \in Nat /\ c.current_tp < Len(c.tp)
      /\ c.status \in {"running", "pre_stop"}
  BY DEF Sound, Plans, Moving
<1> DEFINE more == c.point + 1 < Current(c).points_num
           further == c.current_tp + 1 < Len(c.tp)
           round == c.cyclic /\ c.status # "pre_stop"
<1>2. CASE more
  <2>1. Advanced(c) = [c EXCEPT !.point = c.point + 1]
    BY <1>1, <1>2 DEF Advanced, Plans
  <2> QED BY <1>1, <2>1 DEF Sound, Plans
<1>3. CASE ~more /\ further
  <2> DEFINE d == [c EXCEPT !.point = 0, !.current_tp = c.current_tp + 1]
  <2>1. Advanced(c) = d
    BY <1>1, <1>3 DEF Advanced, Plans
  <2>2. c.current_tp + 1 \in Nat
    BY <1>1
  <2>3. /\ d \in Plans /\ d.point = 0 /\ d.current_tp = c.current_tp + 1
        /\ d.status = c.status /\ d.tp = c.tp /\ d.cyclic = c.cyclic
    BY <1>1, <2>2 DEF Plans
  <2> HIDE DEF d
  <2> QED BY <1>1, <1>3, <2>1, <2>3 DEF Sound
<1>4. CASE ~more /\ ~further /\ round
  <2> DEFINE d == [c EXCEPT !.point = 0, !.current_tp = 1]
  <2>1. Advanced(c) = d
    BY <1>1, <1>4 DEF Advanced, Plans
  <2>2. 1 < Len(c.tp)
    <3>1. Len(c.tp) # 1
      BY <1>4 DEF Sound
    <3>2. Len(c.tp) \in Nat /\ Len(c.tp) # 0
      BY <1>1
    <3>3. \A n \in Nat : n # 0 /\ n # 1 => 1 < n
      OBVIOUS
    <3> QED BY <3>1, <3>2, <3>3
  <2>3. /\ d \in Plans /\ d.point = 0 /\ d.current_tp = 1
        /\ d.status = c.status /\ d.tp = c.tp /\ d.cyclic = c.cyclic
    BY <1>1 DEF Plans
  <2> HIDE DEF d
  <2> QED BY <1>1, <1>4, <2>1, <2>2, <2>3 DEF Sound
<1>5. CASE ~more /\ ~further /\ ~round
  <2> DEFINE d == [c EXCEPT !.point = 0, !.current_tp = 0, !.status = "stop"]
  <2>1. Advanced(c) = d
    BY <1>1, <1>5 DEF Advanced, Plans
  <2>3. /\ d \in Plans /\ d.point = 0 /\ d.current_tp = 0
        /\ d.status = "stop" /\ d.tp = c.tp /\ d.cyclic = c.cyclic
    BY <1>1 DEF Plans
  <2> HIDE DEF d
  <2> QED BY <1>1, <1>5, <2>1, <2>3 DEF Sound
<1> QED BY <1>2, <1>3, <1>4, <1>5

\* Starting, and storing a stop whenever it was tested.
LEMMA StatusStored ==
    ASSUME NEW c, Sound(c), NEW s \in {"running", "pre_stop"}, c.current_tp < Len(c.tp)
    PROVE  Sound([c EXCEPT !.status = s])
BY DEF Sound, Plans

LEMMA PastedIsSound ==
    ASSUME NEW c, Sound(c), NEW l \in FileLines, NEW origin \in Int,
           l.pairs # <<>> => IsExact(l, origin),
           FailsEarly(l) /\ l.cyclic => Len(c.tp) # 1,
           c.status \in {"stop", "ready"}
    PROVE  Sound(Pasted(c, l, origin))
<1> DEFINE d == Pasted(c, l, origin)
<1>1. c \in Plans
  BY DEF Sound
<1>2. /\ d \in Plans /\ d.current_tp = c.current_tp /\ d.point = c.point
      /\ d.status \in {c.status, "ready"}
      /\ FailsEarly(l) => d.status = c.status /\ d.tp = c.tp
      /\ ~FailsEarly(l) => d.tp # <<>>
      /\ d.cyclic = l.cyclic
      /\ ~FailsEarly(l) /\ l.cyclic => Len(d.tp) # 1
  BY <1>1, PastedType
<1> HIDE DEF d
<1>3. d.current_tp = 0 /\ d.point = 0
  BY <1>2 DEF Sound
<1>4. d.cyclic => Len(d.tp) # 1
  BY <1>2
<1>5. d.status # "stop" => 0 < Len(d.tp)
  <2>1. CASE FailsEarly(l)
    BY <1>2, <2>1 DEF Sound
  <2>2. CASE ~FailsEarly(l)
    <3>1. d.tp \in Seq(Planners) /\ d.tp # <<>>
      BY <1>2, <2>2 DEF Plans
    <3> QED BY <3>1
  <2> QED BY <2>1, <2>2
<1> QED BY <1>2, <1>3, <1>4, <1>5 DEF Sound, d

(***************************************************************************)
(* The invariant, one action after the other.                              *)
(***************************************************************************)
LEMMA OnePlanChanged ==
    ASSUME WalkInv, NEW a \in CspAxes, NEW c, Sound(c), csp' = [csp EXCEPT ![a] = c]
    PROVE  /\ csp' \in [CspAxes -> Plans] /\ TablesInv'
           /\ \A b \in CspAxes : csp'[b].status # "stop" => csp'[b].current_tp < Len(csp'[b].tp)
<1>1. csp \in [CspAxes -> Plans] /\ \A b \in CspAxes : Sound(csp[b])
  BY DEF WalkInv, TypeOK, TablesInv
<1>2. \A b \in CspAxes : csp'[b] = IF b = a THEN c ELSE csp[b]
  BY <1>1
<1>3. \A b \in CspAxes : Sound(csp'[b])
  BY <1>1, <1>2
<1>4. csp' \in [CspAxes -> Plans]
  BY <1>1 DEF Sound
<1> QED BY <1>3, <1>4 DEF TablesInv, Sound

LEMMA IdleType == Idle \in [does : {"nothing", "load", "start", "stop", "store"},
                           file : Files \cup {<<>>}, at : Nat \ {0}]
BY DEF Idle

LEMMA OnwardType ==
    ASSUME NEW a \in Axles, NEW does \in {"start", "stop"}
    PROVE  /\ Onward(does, a) \in [does : {"nothing", "load", "start", "stop", "store"},
                                   file : Files \cup {<<>>}, at : Nat \ {0}]
           /\ Onward(does, a) # Idle => /\ Onward(does, a).does = does
                                        /\ Onward(does, a).at = a + 1 /\ a + 1 \in Axles
           /\ Onward(does, a).does \in {"nothing", does}
<1>1. a \in Nat /\ a + 1 \in Nat \ {0} /\ (a < NumAxes => a + 1 \in Axles)
  BY AxesAreFinite DEF Axles
<1> QED BY <1>1, IdleType DEF Onward, Idle

LEMMA DriveWalks ==
    ASSUME WalkInv, NEW a \in Axles, DriveStarts(a) \/ DriveDrops(a)
    PROVE  WalkInv'
<1> USE DEF WalkInv
<1>1. drv' \in [Axles -> Drives] /\ faults' \in 0..MaxFaults
  <2>1. drv \in [Axles -> Drives] /\ faults \in 0..MaxFaults
    BY DEF TypeOK
  <2>2. PICK b \in BOOLEAN : drv' = [drv EXCEPT ![a].started = b]
    BY DEF DriveStarts, DriveDrops
  <2>3. drv' \in [Axles -> Drives]
    BY <2>1, <2>2 DEF Drives
  <2>4. faults' \in 0..MaxFaults
    BY <2>1, BoundsAssumption DEF DriveStarts, DriveDrops
  <2> QED BY <2>3, <2>4
<1>2. UNCHANGED <<csp, pv, cur, next, allOp, out, in, cmd, loads, told, mates>>
  BY DEF DriveStarts, DriveDrops, axisVars, cyclicVars
<1>3. TypeOK'
  BY <1>1, <1>2 DEF TypeOK, Halfway
<1> QED BY <1>2, <1>3 DEF TablesInv, CommandInv

LEMMA ExchangeWalks ==
    ASSUME WalkInv, (\E op \in BOOLEAN : Exchange(op)) \/ ExchangeLost
    PROVE  WalkInv'
<1> USE DEF WalkInv
<1>1. drv' \in [Axles -> Drives] /\ in' \in [Axles -> Drives] /\ allOp' \in BOOLEAN
  <2>1. /\ drv \in [Axles -> Drives] /\ in \in [Axles -> Drives] /\ allOp \in BOOLEAN
        /\ out \in [Axles -> Int]
    BY DEF TypeOK
  <2>2. \A a \in Axles : Obeys(drv[a], out[a]) \in Drives
    BY <2>1 DEF Obeys, Drives
  <2>3. CASE ExchangeLost
    BY <2>1, <2>3 DEF ExchangeLost
  <2>4. CASE \E op \in BOOLEAN : Exchange(op)
    BY <2>1, <2>2, <2>4 DEF Exchange
  <2> QED BY <2>3, <2>4
<1>2. next' \in 1..(NumAxes + 1) /\ faults' \in 0..MaxFaults
  BY BoundsAssumption, AxesAreFinite DEF TypeOK, Exchange, ExchangeLost
<1>3. UNCHANGED <<csp, pv, cur, out, cmd, loads, told, mates>>
  BY DEF Exchange, ExchangeLost, axisVars
<1>4. TypeOK'
  BY <1>1, <1>2, <1>3 DEF TypeOK, Halfway
<1> QED BY <1>3, <1>4 DEF TablesInv, CommandInv

LEMMA SkipWalks ==
    ASSUME WalkInv, NEW a \in Axles, Skip(a)
    PROVE  WalkInv'
<1> USE DEF WalkInv
<1>1. next' \in 1..(NumAxes + 1) /\ mates' \subseteq CspAxes
  BY AxesAreFinite DEF TypeOK, Skip, Axles
<1>2. UNCHANGED <<csp, pv, cur, allOp, out, in, drv, faults, cmd, loads, told>>
  BY DEF Skip, axisVars, lineVars
<1>3. TypeOK'
  BY <1>1, <1>2 DEF TypeOK, Halfway
<1> QED BY <1>2, <1>3 DEF TablesInv, CommandInv

LEMMA PvWalks ==
    ASSUME WalkInv, NEW a \in Axles, pv_update_target_velocity(a)
    PROVE  WalkInv'
<1> USE DEF WalkInv
<1>1. a \in PvAxes /\ next' \in 1..(NumAxes + 1)
  BY AxesAreFinite DEF TypeOK, pv_update_target_velocity, Axles, Served
<1>2. in[a].actual \in Int
  BY DEF TypeOK, Drives
<1>3. pv' \in [PvAxes -> [velocity : Int, status : {0, 1}]]
  BY <1>1, <1>2 DEF TypeOK, pv_update_target_velocity
<1>4. out' \in [Axles -> Int]
  <2>1. pv'[a].velocity \in Int
    BY <1>1, <1>3
  <2> QED BY <2>1 DEF TypeOK, pv_update_target_velocity
<1>5. UNCHANGED <<csp, cur, allOp, in, drv, faults, cmd, loads, told, mates>>
  BY DEF pv_update_target_velocity, lineVars
<1>6. TypeOK'
  BY <1>1, <1>3, <1>4, <1>5 DEF TypeOK, Halfway
<1> QED BY <1>5, <1>6 DEF TablesInv, CommandInv

\* A point is a position.
LEMMA PointType ==
    ASSUME NEW c, Sound(c), Moving(c)
    PROVE  Point(c, Current(c), c.point) \in Int
<1>1. c.current_tp + 1 \in 1..Len(c.tp) /\ c.tp \in Seq(Planners)
  BY DEF Sound, Plans, Moving
<1>2. Current(c) \in Planners /\ c.point \in Nat /\ c.accel \in Nat /\ c.decel \in Nat
  BY <1>1 DEF Current, Sound, Plans
<1> DEFINE t == Current(c)
<1>3. /\ t.origin_pos \in Int /\ t.direction \in Int /\ t.accel_pos \in Int
      /\ t.decel_pos \in Int /\ t.uniform_speed \in Int /\ t.point_accel_end \in Int
      /\ t.point_decel_start \in Int
  BY <1>2 DEF Planners
<1> HIDE DEF t
<1>4. Way(c, t, c.point) \in Int
  <2>1. Parts \in Int /\ c.point \in Int
    BY <1>2, PartsAssumption
  <2>2. c.accel * c.point * c.point * Parts * Parts \in Int
    BY <1>2, <2>1
  <2>3. t.decel_pos + c.decel * Squared(c.point - t.point_decel_start) * Parts * Parts \in Int
    <3>1. Squared(c.point - t.point_decel_start) \in Int
      BY <1>3, <2>1 DEF Squared
    <3> QED BY <1>2, <1>3, <2>1, <3>1
  <2>4. t.accel_pos + t.uniform_speed * (c.point - t.point_accel_end) \in Int
    BY <1>3, <2>1
  <2> QED BY <2>2, <2>3, <2>4 DEF Way
<1>5. t.direction * Way(c, t, c.point) \in Int /\ t.origin_pos * Unit \in Int
  BY <1>3, <1>4, UnitIsNat
<1> QED BY <1>5, PositionType DEF Point, t

LEMMA CspWalks ==
    ASSUME WalkInv, NEW a \in Axles, csp_update_target_position(a)
    PROVE  WalkInv'
<1> USE DEF WalkInv
<1>1. a \in CspAxes /\ next' \in 1..(NumAxes + 1)
  BY AxesAreFinite DEF TypeOK, csp_update_target_position, Axles, Served
<1>2. Sound(csp[a]) /\ csp \in [CspAxes -> Plans] /\ out \in [Axles -> Int]
  BY <1>1 DEF TypeOK, TablesInv
<1>3. UNCHANGED <<pv, allOp, in, drv, faults, cmd, loads, told>> /\ mates' \subseteq CspAxes
  BY DEF csp_update_target_position, lineVars, TypeOK
<1>4. cur' \in [CspAxes -> Int]
  <2>1. in[a].actual \in Int
    BY DEF TypeOK, Drives
  <2> QED BY <1>1, <2>1 DEF TypeOK, csp_update_target_position
<1>5. CASE Moving(csp[a])
  <2>1. csp' = [csp EXCEPT ![a] = Advanced(csp[a])]
    BY <1>5 DEF csp_update_target_position
  <2>2. /\ Sound(Advanced(csp[a])) /\ Advanced(csp[a]).tp = csp[a].tp
        /\ Advanced(csp[a]).status \in {csp[a].status, "stop"}
    BY <1>2, <1>5, AdvancedIsSound
  <2>3. /\ csp' \in [CspAxes -> Plans] /\ TablesInv'
        /\ \A b \in CspAxes : csp'[b].status # "stop" => csp'[b].current_tp < Len(csp'[b].tp)
    BY <1>1, <2>1, <2>2, OnePlanChanged
  <2>4. out' \in [Axles -> Int]
    <3>1. out' = [out EXCEPT ![a] = Point(csp[a], Current(csp[a]), csp[a].point)]
      BY <1>5 DEF csp_update_target_position
    <3>2. Point(csp[a], Current(csp[a]), csp[a].point) \in Int
      BY <1>2, <1>5, PointType
    <3> QED BY <1>2, <3>1, <3>2
  <2>5. CommandInv'
    <3>1. \A b \in CspAxes : /\ csp'[b].tp = csp[b].tp
                             /\ csp'[b].status \in {csp[b].status, "stop"}
      BY <1>2, <2>1, <2>2
    <3>2. cmd.does = "store" => cmd.at \in CspAxes
      BY DEF TypeOK
    <3> QED BY <1>3, <3>1, <3>2 DEF CommandInv
  <2>6. TypeOK'
    BY <1>1, <1>3, <1>4, <2>3, <2>4 DEF TypeOK, Halfway
  <2> QED BY <2>3, <2>5, <2>6
<1>6. CASE ~Moving(csp[a])
  <2>1. UNCHANGED <<csp, out>>
    BY <1>6 DEF csp_update_target_position
  <2>2. TypeOK'
    BY <1>1, <1>3, <1>4, <2>1 DEF TypeOK, Halfway
  <2> QED BY <1>3, <2>1, <2>2 DEF TablesInv, CommandInv
<1> QED BY <1>5, <1>6

LEMMA VelocityWalks ==
    ASSUME WalkInv, NEW a \in PvAxes, NEW v \in Velocities, set_target_velocity(a, v)
    PROVE  WalkInv'
<1> USE DEF WalkInv
<1>1. v \in Int
  BY VelocitiesAssumption
<1>2. pv' \in [PvAxes -> [velocity : Int, status : {0, 1}]]
        /\ told' \in [PvAxes -> Velocities \cup {Untold}]
  BY <1>1 DEF TypeOK, set_target_velocity
<1>3. UNCHANGED <<csp, cur, next, allOp, out, in, drv, faults, cmd, loads, mates>>
  BY DEF set_target_velocity, cyclicVars, lineVars
<1>4. TypeOK'
  BY <1>2, <1>3 DEF TypeOK, Halfway
<1> QED BY <1>3, <1>4 DEF TablesInv, CommandInv

LEMMA LoadWalks ==
    ASSUME WalkInv, NEW f \in Files, NEW at \in 1..Len(f), LoadLine(f, at),
           loads' \in 0..MaxLoads
    PROVE  WalkInv'
<1> USE DEF WalkInv
<1> DEFINE l == f[at]
           a == l.axis + 1
           refused == \/ l.defect = "no label" \/ a > NumAxes
                      \/ a \notin CspAxes \/ csp[a].status = "running"
<1>1. UNCHANGED <<pv, cur, next, allOp, out, in, drv, faults, told>>
  BY DEF LoadLine, cyclicVars, lineVars
<1>2. l \in FileLines /\ f \in Seq(FileLines) /\ at \in Nat \ {0}
  BY FilesAssumption
<1>3. CASE refused
  <2>1. cmd' = Idle /\ UNCHANGED <<csp, mates>>
    BY <1>3 DEF LoadLine
  <2>2. TypeOK'
    BY <1>1, <2>1, IdleType DEF TypeOK, Halfway, Idle
  <2> QED BY <2>1, <2>2 DEF TablesInv, CommandInv, Idle
<1>4. CASE ~refused
  <2>1. a \in CspAxes /\ csp[a].status # "running" /\ csp[a].status # "pre_stop"
    BY <1>4 DEF LoadLine
  <2>2. /\ l.pairs # <<>> => IsExact(l, cur[a])
        /\ FailsEarly(l) /\ l.cyclic => Len(csp[a].tp) # 1
        /\ csp' = [csp EXCEPT ![a] = Pasted(csp[a], l, cur[a])]
        /\ cmd' = IF PastedWell(l) /\ at < Len(f)
                  THEN [does |-> "load", file |-> f, at |-> at + 1] ELSE Idle
        /\ mates' = mates \ {a}
    BY <1>4, <2>1 DEF LoadLine, TypeOK
  <2> HIDE DEF l, a, refused
  <2>3. Sound(csp[a]) /\ cur[a] \in Int /\ csp[a].status \in {"stop", "ready"}
    <3>1. csp[a] \in Plans /\ cur[a] \in Int /\ Sound(csp[a])
      BY <2>1 DEF TypeOK, TablesInv
    <3> QED BY <2>1, <3>1 DEF Plans
  <2>4. Sound(Pasted(csp[a], l, cur[a]))
    BY <1>2, <2>2, <2>3, PastedIsSound
  <2>5. /\ csp' \in [CspAxes -> Plans] /\ TablesInv'
        /\ \A b \in CspAxes : csp'[b].status # "stop" => csp'[b].current_tp < Len(csp'[b].tp)
    BY <2>1, <2>2, <2>4, OnePlanChanged
  <2>6. /\ cmd' \in [does : {"nothing", "load", "start", "stop", "store"},
                     file : Files \cup {<<>>}, at : Nat \ {0}]
        /\ cmd'.does \in {"load", "nothing"} /\ CommandInv'
    <3>1. CASE PastedWell(l) /\ at < Len(f)
      BY <1>2, <2>2, <3>1 DEF CommandInv
    <3>2. CASE ~(PastedWell(l) /\ at < Len(f))
      BY <2>2, <3>2, IdleType DEF CommandInv, Idle
    <3> QED BY <3>1, <3>2
  <2>7. mates' \subseteq CspAxes
    BY <2>2 DEF TypeOK
  <2>8. TypeOK'
    BY <1>1, <2>5, <2>6, <2>7 DEF TypeOK, Halfway
  <2> QED BY <2>5, <2>6, <2>8
<1> QED BY <1>3, <1>4

LEMMA StartWalks ==
    ASSUME WalkInv, NEW a \in Axles, StartAxis(a), mates' \subseteq CspAxes
    PROVE  WalkInv'
<1> USE DEF WalkInv
<1>1. UNCHANGED <<pv, cur, next, allOp, out, in, drv, faults, loads, told>>
  BY DEF StartAxis, cyclicVars, lineVars
<1>2. /\ cmd' \in [does : {"nothing", "load", "start", "stop", "store"},
                   file : Files \cup {<<>>}, at : Nat \ {0}]
      /\ Halfway' => cmd'.at \in Axles
      /\ cmd'.does \in {"nothing", "start"}
  BY OnwardType DEF StartAxis, Halfway, Idle
<1>3. csp' \in [CspAxes -> Plans] /\ \A b \in CspAxes : Sound(csp'[b])
  <2>1. \A b \in CspAxes : Sound(csp[b])
    BY DEF TablesInv
  <2>2. \A b \in CspAxes :
          csp[b].status = "ready" => Sound([csp[b] EXCEPT !.status = "running"])
    <3> SUFFICES ASSUME NEW b \in CspAxes, csp[b].status = "ready"
                 PROVE  Sound([csp[b] EXCEPT !.status = "running"])
      OBVIOUS
    <3>1. Sound(csp[b]) /\ csp[b].current_tp < Len(csp[b].tp)
      BY <2>1 DEF Sound
    <3> QED BY <3>1, StatusStored
  <2>3. csp' = [b \in CspAxes |-> IF b = a /\ a \in Ready
                                  THEN [csp[b] EXCEPT !.status = "running"] ELSE csp[b]]
    BY DEF StartAxis
  <2>4. \A b \in CspAxes : Sound(csp'[b])
    BY <2>1, <2>2, <2>3 DEF Ready
  <2>5. csp' \in [CspAxes -> Plans]
    BY <2>3, <2>4 DEF Sound
  <2> QED BY <2>4, <2>5
<1>4. TablesInv'
  BY <1>3 DEF TablesInv
<1>5. TypeOK'
  <2>1. \A b \in CspAxes : csp'[b].status # "stop" => csp'[b].current_tp < Len(csp'[b].tp)
    BY <1>3 DEF Sound
  <2> QED BY <1>1, <1>2, <1>3, <2>1 DEF TypeOK
<1>6. CommandInv'
  BY <1>2 DEF CommandInv
<1> QED BY <1>4, <1>5, <1>6

LEMMA StopTestWalks ==
    ASSUME WalkInv, NEW a \in Axles, StopTest(a), mates' \subseteq CspAxes
    PROVE  WalkInv'
<1> USE DEF WalkInv
<1>1. UNCHANGED <<csp, pv, cur, next, allOp, out, in, drv, faults, loads, told>>
  BY DEF StopTest, axisVars, cyclicVars, lineVars
<1>2. CASE a \in CspAxes /\ csp[a].status = "running"
  <2>1. cmd' = [does |-> "store", file |-> <<>>, at |-> a]
    BY <1>2 DEF StopTest
  <2>2. csp[a].tp # <<>>
    <3>1. csp[a].current_tp < Len(csp[a].tp) /\ csp[a].current_tp \in Nat
      BY <1>2 DEF TypeOK, Plans
    <3>2. Len(csp[a].tp) # 0
      BY <3>1
    <3> QED BY <3>2
  <2>3. CommandInv'
    BY <1>1, <1>2, <2>1, <2>2 DEF CommandInv
  <2>4. a \in Nat \ {0}
    BY AxesAreFinite DEF Axles
  <2>5. TypeOK'
    BY <1>1, <1>2, <2>1, <2>4 DEF TypeOK, Halfway
  <2> QED BY <1>1, <2>3, <2>5 DEF TablesInv
<1>3. CASE ~(a \in CspAxes /\ csp[a].status = "running")
  <2>1. cmd' = Onward("stop", a)
    BY <1>3 DEF StopTest
  <2>2. /\ cmd' \in [does : {"nothing", "load", "start", "stop", "store"},
                     file : Files \cup {<<>>}, at : Nat \ {0}]
        /\ Halfway' => cmd'.at \in Axles
        /\ cmd'.does \in {"nothing", "stop"}
    BY <2>1, OnwardType DEF Halfway, Idle
  <2>3. TypeOK' /\ CommandInv'
    BY <1>1, <2>2 DEF TypeOK, CommandInv
  <2> QED BY <1>1, <2>3 DEF TablesInv
<1> QED BY <1>2, <1>3

LEMMA StopStoreWalks ==
    ASSUME WalkInv, cmd.does = "store", StopStore(cmd.at), mates' \subseteq CspAxes
    PROVE  WalkInv'
<1> USE DEF WalkInv
<1> DEFINE a == cmd.at
<1>1. UNCHANGED <<pv, cur, next, allOp, out, in, drv, faults, loads, told>>
  BY DEF StopStore, cyclicVars, lineVars
<1>2. a \in CspAxes /\ a \in Axles
  BY AxesAreFinite DEF TypeOK
<1>3. csp' = [csp EXCEPT ![a] = [csp[a] EXCEPT !.status = "pre_stop"]] /\ cmd' = Onward("stop", a)
  BY <1>2 DEF StopStore, TypeOK
<1>4. Sound(csp[a]) /\ csp[a].status \in {"running", "stop"} /\ csp[a].tp # <<>>
  BY <1>2 DEF TablesInv, CommandInv
<1> HIDE DEF a
<1>5. csp[a].current_tp < Len(csp[a].tp)
  <2>1. csp[a].tp \in Seq(Planners)
    BY <1>4 DEF Sound, Plans
  <2>2. 0 < Len(csp[a].tp)
    BY <1>4, <2>1
  <2> QED BY <1>4, <2>2 DEF Sound
<1>6. Sound([csp[a] EXCEPT !.status = "pre_stop"])
  BY <1>4, <1>5, StatusStored
<1>7. /\ csp' \in [CspAxes -> Plans] /\ TablesInv'
      /\ \A b \in CspAxes : csp'[b].status # "stop" => csp'[b].current_tp < Len(csp'[b].tp)
  BY <1>2, <1>3, <1>6, OnePlanChanged
<1>8. /\ cmd' \in [does : {"nothing", "load", "start", "stop", "store"},
                   file : Files \cup {<<>>}, at : Nat \ {0}]
      /\ Halfway' => cmd'.at \in Axles
      /\ cmd'.does \in {"nothing", "stop"}
  BY <1>2, <1>3, OnwardType DEF Halfway, Idle
<1>9. TypeOK' /\ CommandInv'
  BY <1>1, <1>7, <1>8 DEF TypeOK, CommandInv
<1> QED BY <1>7, <1>9

\* The invariant of the tables holds for any axes, files, drives and frames.
THEOREM Walks == Spec => []WalkInv
<1>1. Init => WalkInv
  <2> SUFFICES ASSUME Init PROVE WalkInv
    OBVIOUS
  <2>1. csp \in [CspAxes -> Plans] /\ \A a \in CspAxes : Sound(csp[a]) /\ csp[a].status = "stop"
    <3>1. NoPlan \in Plans /\ NoPlan.status = "stop"
      BY NoPlanIsSound DEF Sound, NoPlan
    <3>2. \A a \in CspAxes : csp[a] = NoPlan
      BY DEF Init
    <3>3. csp \in [CspAxes -> Plans]
      BY <3>1 DEF Init
    <3> QED BY <3>1, <3>2, <3>3, NoPlanIsSound
  <2>2. in \in [Axles -> Drives] /\ drv \in [Axles -> Drives]
    <3>1. in \in [Axles -> Drives]
      BY DEF Init, Drives
    <3>2. PICK home \in [Axles -> Homes] :
             drv = [a \in Axles |-> [started |-> FALSE,
                                     actual  |-> IF a \in CspAxes THEN home[a] ELSE 0]]
      BY DEF Init
    <3>3. \A a \in Axles : home[a] \in Int
      BY HomesAssumption
    <3> QED BY <3>1, <3>2, <3>3 DEF Drives
  <2>3. pv \in [PvAxes -> [velocity : Int, status : {0, 1}]]
    BY DEF Init
  <2>4. next \in 1..(NumAxes + 1) /\ faults \in 0..MaxFaults /\ loads \in 0..MaxLoads
    BY AxesAreFinite, BoundsAssumption DEF Init
  <2>5. cmd = Idle /\ cmd.does = "nothing"
    BY DEF Init, Idle
  <2>6. /\ cur \in [CspAxes -> Int] /\ allOp \in BOOLEAN /\ out \in [Axles -> Int]
        /\ told \in [PvAxes -> Velocities \cup {Untold}] /\ mates \subseteq CspAxes
    <3>1. cur \in [CspAxes -> Int] /\ out \in [Axles -> Int]
      BY DEF Init
    <3>2. told \in [PvAxes -> Velocities \cup {Untold}]
      BY DEF Init
    <3> QED BY <3>1, <3>2 DEF Init
  <2>7. TypeOK
    BY <2>1, <2>2, <2>3, <2>4, <2>5, <2>6, IdleType DEF TypeOK, Halfway
  <2> QED BY <2>1, <2>5, <2>7 DEF WalkInv, TablesInv, CommandInv
<1>2. WalkInv /\ [Next]_vars => WalkInv'
  <2> SUFFICES ASSUME WalkInv, [Next]_vars PROVE WalkInv'
    OBVIOUS
  <2>1. CASE \E a \in Axles : DriveStarts(a) \/ DriveDrops(a)
    BY <2>1, DriveWalks
  <2>2. CASE \E a \in Axles : main_task(a)
    BY <2>2, SkipWalks, PvWalks, CspWalks DEF main_task
  <2>3. CASE (\E op \in BOOLEAN : Exchange(op)) \/ ExchangeLost
    BY <2>3, ExchangeWalks
  <2>4. CASE \E a \in PvAxes, v \in Velocities : set_target_velocity(a, v)
    BY <2>4, VelocityWalks
  <2>5. CASE \E f \in Files : load_tp_file(f)
    <3>1. PICK f \in Files : load_tp_file(f)
      BY <2>5
    <3>2. f \in Seq(FileLines) /\ f # <<>>
      BY FilesAssumption
    <3>3. 1 \in 1..Len(f)
      BY <3>2
    <3>4. LoadLine(f, 1) /\ loads' \in 0..MaxLoads
      BY <3>1, BoundsAssumption DEF load_tp_file, WalkInv, TypeOK
    <3> QED BY <3>3, <3>4, LoadWalks
  <2>6. CASE set_start_all \/ set_stop_all
    <3>1. 1 \in Axles
      BY AxesAreFinite DEF Axles
    <3>2. mates' \subseteq CspAxes
      BY <2>6 DEF set_start_all, set_stop_all, Ready, WalkInv, TypeOK
    <3> QED BY <2>6, <3>1, <3>2, StartWalks, StopTestWalks DEF set_start_all, set_stop_all
  <2>7. CASE CommandStep
    <3>1. CASE cmd.does = "load" /\ LoadLine(cmd.file, cmd.at) /\ UNCHANGED loads
      BY <3>1, LoadWalks DEF WalkInv, CommandInv, TypeOK
    <3>2. CASE /\ \/ cmd.does = "start" /\ StartAxis(cmd.at)
                  \/ cmd.does = "stop" /\ StopTest(cmd.at)
                  \/ cmd.does = "store" /\ StopStore(cmd.at)
               /\ mates' = IF BetweenPeriods THEN mates ELSE {}
      <4>1. mates' \subseteq CspAxes
        BY <3>2 DEF WalkInv, TypeOK
      <4>2. cmd.at \in Axles
        BY <3>2 DEF WalkInv, TypeOK, Halfway
      <4> QED BY <3>2, <4>1, <4>2, StartWalks, StopTestWalks, StopStoreWalks
    <3> QED BY <2>7, <3>1, <3>2 DEF CommandStep
  <2>8. CASE UNCHANGED vars
    BY <2>8 DEF vars, WalkInv, TypeOK, TablesInv, CommandInv, Halfway
  <2> QED BY <2>1, <2>2, <2>3, <2>4, <2>5, <2>6, <2>7, <2>8 DEF Next, Command
<1> QED BY <1>1, <1>2, PTL DEF Spec

\* Every variable keeps its type, and a plan that may move has a planner to
\* move by, for any axes and files.
THEOREM TypeCorrect == Spec => []TypeOK
<1>1. WalkInv => TypeOK
  BY DEF WalkInv
<1> QED BY <1>1, Walks, PTL

(***************************************************************************)
(* Where an axis goes.  A table leads from place to place, and an axis     *)
(* within a plan that can be driven was sent the point before the one that *)
(* is next.                                                                *)
(***************************************************************************)
\* What a load leaves: a planner that was filled begins where the one before
\* it ends.
Made(c) ==
    /\ c.tp # <<>> => c.accel # 0 /\ c.decel # 0
    /\ \A i \in 1..Len(c.tp) : i + 1 \in 1..Len(c.tp) /\ Planned(c.tp[i + 1]) =>
          c.tp[i + 1].origin_pos = c.tp[i].target_pos

AtStart(c) == <<c.current_tp, c.point>> = <<0, 0>>

\* The next point of c follows pos.
Follows(c, pos) ==
    IF c.point > 0
    THEN c.point < Current(c).points_num /\ pos = Point(c, Current(c), c.point - 1)
    ELSE \E i \in 1..Len(c.tp) : /\ c.tp[i].target_pos = Current(c).origin_pos
                                 /\ pos = Point(c, c.tp[i], c.tp[i].points_num - 1)

MadeInv == \A a \in CspAxes : Made(csp[a])
FollowsInv ==
    \A a \in CspAxes : Moving(csp[a]) /\ WellPlanned(csp[a]) =>
        AtStart(csp[a]) \/ Follows(csp[a], out[a])

\* Plans that differ in their status only.
AlikeBut(c, d) ==
    /\ c.tp = d.tp /\ c.cyclic = d.cyclic
    /\ c.accel = d.accel /\ c.decel = d.decel /\ c.max = d.max

LEMMA PlannersAlike ==
    ASSUME NEW c, NEW d, AlikeBut(c, d), NEW origin, NEW target, NEW points
    PROVE  trajectory_planner(c, origin, target, points) = trajectory_planner(d, origin, target, points)
<1>1. c.accel = d.accel /\ c.decel = d.decel /\ c.max = d.max
  BY DEF AlikeBut
<1> QED BY <1>1 DEF trajectory_planner

LEMMA PointsAlike ==
    ASSUME NEW c, NEW d, AlikeBut(c, d), NEW t, NEW i
    PROVE  Point(c, t, i) = Point(d, t, i)
BY DEF AlikeBut, Point, Way

LEMMA WellPlannedAlike ==
    ASSUME NEW c, NEW d, AlikeBut(c, d)
    PROVE  WellPlanned(c) <=> WellPlanned(d)
BY PlannersAlike DEF AlikeBut, WellPlanned

LEMMA FollowsAlike ==
    ASSUME NEW c, NEW d, AlikeBut(c, d), c.current_tp = d.current_tp, c.point = d.point, NEW pos
    PROVE  Follows(c, pos) <=> Follows(d, pos)
BY PointsAlike DEF AlikeBut, Follows, Current

\* Every segment of a plan that can be driven is driven.
LEMMA WellPlannedIsDriven ==
    ASSUME NEW c \in Plans, Made(c), WellPlanned(c), NEW i \in 1..Len(c.tp)
    PROVE  /\ Parameters(c)
           /\ c.tp[i] \in Planners /\ c.tp[i].points_num \in Nat \ {0}
           /\ \E t, k \in Nat : Driven(c, c.tp[i], t, k)
<1> DEFINE t == c.tp[i]
<1>1. c.tp \in Seq(Planners) /\ t \in Planners
  BY DEF Plans
<1>2. Parameters(c)
  <2>1. c.tp # <<>>
    BY <1>1
  <2> QED BY <2>1 DEF Made, Parameters, Plans
<1>3. /\ Exact(c.accel, c.decel, Distance(t.origin_pos, t.target_pos), t.points_num)
      /\ Planned(t) /\ t = trajectory_planner(c, t.origin_pos, t.target_pos, t.points_num)
  <2>1. i \in DOMAIN c.tp
    BY <1>1
  <2> QED BY <2>1 DEF WellPlanned
<1> HIDE DEF t
<1>4. t.origin_pos \in Int /\ t.target_pos \in Int /\ t.points_num \in Nat
  <2>1. t.origin_pos \in Int /\ t.target_pos \in Nat /\ t.points_num \in Nat
    BY <1>1 DEF Planners
  <2> QED BY <2>1
<1>5. PICK u \in Nat, k \in Nat : Driven(c, t, u, k)
  BY <1>2, <1>3, <1>4, PlannedIsDriven
<1>6. t.points_num \in Nat \ {0}
  BY <1>5 DEF Driven
<1> QED BY <1>1, <1>2, <1>5, <1>6 DEF t

\* One point of a plan that can be driven.
LEMMA NextPointFollows ==
    ASSUME NEW c, Sound(c), Moving(c), Made(c), WellPlanned(c),
           NEW pos, AtStart(c) \/ Follows(c, pos)
    PROVE  LET next_pos == Point(c, Current(c), c.point)
               last == c.tp[Len(c.tp)]
           IN  /\ OnItsWay(Current(c), next_pos)
               /\ AtStart(c) \/ ShortStep(c.max, pos, next_pos)
               /\ IF Advanced(c).status = "stop"
                  THEN ShortStep(last.uniform_speed \div Unit, next_pos, last.target_pos)
                  ELSE Follows(Advanced(c), next_pos)
<1> DEFINE n == c.current_tp + 1
           t == Current(c)
           q == Point(c, t, c.point)
           m == t.points_num
<1>1. /\ c \in Plans /\ c.tp \in Seq(Planners) /\ Len(c.tp) \in Nat /\ c.current_tp \in Nat
      /\ c.point \in Nat /\ n \in 1..Len(c.tp) /\ t = c.tp[n]
      /\ c.status \in {"running", "pre_stop"}
  BY DEF Sound, Plans, Moving, Current
<1>2. Parameters(c) /\ t \in Planners /\ m \in Nat \ {0} /\ \E u, k \in Nat : Driven(c, t, u, k)
  BY <1>1, WellPlannedIsDriven
<1>3. PICK u \in Nat, k \in Nat : Driven(c, t, u, k)
  BY <1>2
<1>4. t.origin_pos \in Int /\ t.target_pos \in Nat
  BY <1>2 DEF Planners
<1>5. c.point \in 0..(m - 1)
  <2>1. c.point < m
    BY <1>1, <1>2 DEF AtStart, Follows
  <2> QED BY <1>1, <1>2, <2>1
<1> HIDE DEF t, q, m, n
<1>6. OnItsWay(t, q)
  BY <1>2, <1>3, <1>4, <1>5, PointOnItsWay DEF q, m
<1>7. AtStart(c) \/ ShortStep(c.max, pos, q)
  <2>1. CASE AtStart(c)
    BY <2>1
  <2>2. CASE ~AtStart(c) /\ c.point > 0
    <3>1. pos = Point(c, t, c.point - 1)
      BY <2>2 DEF Follows, t
    <3> DEFINE i == c.point - 1
    <3>2. i \in 0..(m - 1) /\ i + 1 = c.point /\ i + 1 \in 0..(m - 1)
      BY <1>1, <1>2, <1>5, <2>2
    <3> HIDE DEF i
    <3>3. ShortStep(c.max, Point(c, t, i), Point(c, t, i + 1))
      BY <1>2, <1>3, <1>4, <3>2, StepWithinSegment DEF m
    <3> QED BY <3>1, <3>2, <3>3 DEF q, i
  <2>3. CASE ~AtStart(c) /\ ~(c.point > 0)
    <3>1. PICK i \in 1..Len(c.tp) : /\ c.tp[i].target_pos = t.origin_pos
                                    /\ pos = Point(c, c.tp[i], c.tp[i].points_num - 1)
      BY <2>3 DEF Follows, t
    <3>2. c.tp[i] \in Planners
      BY <1>1
    <3>3. PICK v \in Nat, j \in Nat : Driven(c, c.tp[i], v, j)
      BY <1>1, WellPlannedIsDriven
    <3>4. c.tp[i].origin_pos \in Int /\ c.tp[i].target_pos \in Nat
      BY <3>2 DEF Planners
    <3>5. c.point = 0
      BY <1>1, <2>3
    <3>6. ShortStep(c.max, Point(c, c.tp[i], c.tp[i].points_num - 1), Point(c, t, 0))
      BY <1>2, <1>3, <1>4, <3>1, <3>3, <3>4, StepToNextSegment
    <3> QED BY <3>1, <3>5, <3>6 DEF q
  <2> QED BY <2>1, <2>2, <2>3
<1>8. CASE c.point + 1 < m
  <2> DEFINE d == [c EXCEPT !.point = c.point + 1]
  <2>1. Advanced(c) = d
    BY <1>1, <1>8 DEF Advanced, Plans, m, t
  <2>2. /\ d.point = c.point + 1 /\ d.current_tp = c.current_tp /\ d.status = c.status
        /\ AlikeBut(c, d)
    BY <1>1 DEF Plans, AlikeBut
  <2> HIDE DEF d
  <2>3. Current(d) = t /\ d.point > 0 /\ d.point - 1 = c.point
    BY <1>1, <2>2 DEF AlikeBut, Current, t
  <2>4. Point(d, t, c.point) = q
    BY <2>2, PointsAlike DEF q
  <2>5. Follows(d, q)
    BY <1>8, <2>2, <2>3, <2>4 DEF Follows, m
  <2> QED BY <1>1, <1>6, <1>7, <2>1, <2>2, <2>5 DEF q, t
<1>9. CASE ~(c.point + 1 < m)
  <2>1. c.point = m - 1 /\ q = Point(c, c.tp[n], c.tp[n].points_num - 1)
    <3>1. c.point = m - 1
      BY <1>1, <1>2, <1>5, <1>9
    <3> QED BY <1>1, <3>1 DEF q, m
  <2>2. CASE c.current_tp + 1 < Len(c.tp)
    <3> DEFINE d == [c EXCEPT !.point = 0, !.current_tp = c.current_tp + 1]
    <3>1. Advanced(c) = d
      BY <1>1, <1>9, <2>2 DEF Advanced, Plans, m, t
    <3>2. /\ d.point = 0 /\ d.current_tp = c.current_tp + 1 /\ d.status = c.status
          /\ AlikeBut(c, d)
      BY <1>1 DEF Plans, AlikeBut
    <3> HIDE DEF d
    <3>3. n + 1 \in 1..Len(c.tp) /\ Current(d) = c.tp[n + 1]
      BY <1>1, <2>2, <3>2 DEF Current, AlikeBut, n
    <3>4. c.tp[n].target_pos = Current(d).origin_pos
      <4>1. Planned(c.tp[n + 1])
        BY <1>1, <3>3 DEF WellPlanned
      <4> QED BY <1>1, <3>3, <4>1 DEF Made
    <3>5. Follows(d, q)
      BY <1>1, <2>1, <3>2, <3>4, PointsAlike DEF Follows, AlikeBut
    <3> QED BY <1>1, <1>6, <1>7, <3>1, <3>2, <3>5 DEF q, t
  <2>3. CASE ~(c.current_tp + 1 < Len(c.tp))
    <3>1. n = Len(c.tp)
      BY <1>1, <2>3 DEF n
    <3>2. CASE c.cyclic /\ c.status # "pre_stop"
      <4> DEFINE d == [c EXCEPT !.point = 0, !.current_tp = 1]
      <4>1. Advanced(c) = d
        BY <1>1, <1>9, <2>3, <3>2 DEF Advanced, Plans, m, t
      <4>2. d.point = 0 /\ d.current_tp = 1 /\ d.status = c.status /\ AlikeBut(c, d)
        BY <1>1 DEF Plans, AlikeBut
      <4> HIDE DEF d
      <4>3. 1 \in 1..Len(c.tp) /\ 1 + 1 \in 1..Len(c.tp) /\ Current(d) = c.tp[1 + 1]
        <5>1. Len(c.tp) # 1
          BY <3>2 DEF Sound
        <5>2. 2 \in 1..Len(c.tp)
          <6>1. \A l \in Nat : n \in 1..l /\ l # 1 => 2 \in 1..l
            BY <1>1
          <6> QED BY <1>1, <5>1, <6>1
        <5> QED BY <4>2, <5>2 DEF Current, AlikeBut
      <4>4. c.tp[n].target_pos = Current(d).origin_pos
        <5>1. Planned(c.tp[1 + 1])
          BY <1>1, <4>3 DEF WellPlanned
        <5>2. c.tp[1 + 1].origin_pos = c.tp[1].target_pos
          BY <4>3, <5>1 DEF Made
        <5>3. c.tp[n].target_pos = c.tp[1].target_pos
          BY <3>1, <3>2 DEF WellPlanned
        <5> QED BY <4>3, <5>2, <5>3
      <4>5. Follows(d, q)
        BY <1>1, <2>1, <4>2, <4>4, PointsAlike DEF Follows, AlikeBut
      <4> QED BY <1>1, <1>6, <1>7, <4>1, <4>2, <4>5 DEF q, t
    <3>3. CASE ~(c.cyclic /\ c.status # "pre_stop")
      <4>1. Advanced(c) = [c EXCEPT !.point = 0, !.current_tp = 0, !.status = "stop"]
        BY <1>1, <1>9, <2>3, <3>3 DEF Advanced, Plans, m, t
      <4>2. Advanced(c).status = "stop"
        BY <1>1, <4>1 DEF Plans
      <4>3. ShortStep(t.uniform_speed \div Unit, Point(c, t, t.points_num - 1), t.target_pos)
        BY <1>2, <1>3, <1>4, StepToEnd
      <4>4. t = c.tp[Len(c.tp)] /\ q = Point(c, t, t.points_num - 1)
        BY <1>1, <2>1, <3>1
      <4> QED BY <1>6, <1>7, <4>2, <4>3, <4>4 DEF q, t
    <3> QED BY <3>2, <3>3
  <2> QED BY <2>2, <2>3
<1> QED BY <1>8, <1>9

LEMMA SegmentKeeps ==
    ASSUME NEW p, NEW origin, NEW target, NEW points
    PROVE  /\ trajectory_planner(p, origin, target, points).origin_pos = origin
           /\ trajectory_planner(p, origin, target, points).target_pos = target
           /\ ~Planned(Unplanned(origin, target, points))
<1>1. ASSUME NEW ap, NEW dp, NEW sp, NEW ae, NEW ds
      PROVE  /\ Segment(origin, target, points, ap, dp, sp, ae, ds).origin_pos = origin
             /\ Segment(origin, target, points, ap, dp, sp, ae, ds).target_pos = target
             /\ Segment(origin, target, points, ap, dp, sp, ae, ds).point_decel_start = ds
  BY DEF Segment
<1>2. ~(0 > 0)
  OBVIOUS
<1>3. ~Planned(Unplanned(origin, target, points))
  BY <1>1, <1>2 DEF Planned, Unplanned
<1>4. /\ trajectory_planner(p, origin, target, points).origin_pos = origin
      /\ trajectory_planner(p, origin, target, points).target_pos = target
  BY <1>1 DEF trajectory_planner, Unplanned
<1> QED BY <1>3, <1>4

\* A load leaves such a table, or the one that was there.
LEMMA PastedIsMade ==
    ASSUME NEW c \in Plans, Made(c), NEW l \in FileLines, NEW origin \in Int,
           l.pairs # <<>> => IsExact(l, origin)
    PROVE  Made(Pasted(c, l, origin))
<1>1. l.accel # 0 /\ l.decel # 0
  BY DEF FileLines
<1>2. Reads(c, l).accel = l.accel /\ Reads(c, l).decel = l.decel /\ Reads(c, l).tp = c.tp
  BY DEF Reads, Plans
<1>3. CASE FailsEarly(l)
  <2>1. Pasted(c, l, origin) = Reads(c, l)
    BY <1>3 DEF Pasted
  <2> QED BY <1>1, <1>2, <2>1 DEF Made
<1>4. CASE ~FailsEarly(l)
  <2> DEFINE T == Table(l, origin)
             d == Pasted(c, l, origin)
  <2>1. l.pairs # <<>>
    BY <1>4 DEF FailsEarly
  <2>2. T \in Seq(Planners) /\ Len(T) = Len(Stations(l)) /\ Len(T) \in Nat
    BY <2>1, TableType, StationsType
  <2>3. d.tp = T /\ d.accel = l.accel /\ d.decel = l.decel
    <3>1. d = [Reads(c, l) EXCEPT !.tp = Table(l, origin),
                                  !.status = IF Matched(l, Len(Stations(l))) THEN "ready" ELSE @]
      BY <1>4 DEF Pasted
    <3>2. Reads(c, l) \in Plans
      BY DEF Reads, Plans, FileLines
    <3> HIDE DEF d
    <3> QED BY <1>2, <3>1, <3>2 DEF Plans
  <2>4. ASSUME NEW i \in 1..Len(T), i + 1 \in 1..Len(T), Planned(T[i + 1])
        PROVE  T[i + 1].origin_pos = T[i].target_pos
    <3> DEFINE s == Stations(l)
    <3>1. \A j \in 1..Len(T) :
             T[j] = IF Matched(l, j)
                    THEN trajectory_planner(l, IF j = 1 THEN origin ELSE s[j - 1].pos,
                                            s[j].pos, s[j].points)
                    ELSE Unplanned(0, 0, 0)
      BY <2>2 DEF Table
    <3>2. i \in Nat /\ i + 1 # 1 /\ (i + 1) - 1 = i
      BY <2>2
    <3> HIDE DEF T, s
    <3>3. Matched(l, i + 1)
      BY <2>4, <3>1, SegmentKeeps
    <3>4. Matched(l, i)
      <4>1. \A j \in 1..i : j \in 1..(i + 1)
        BY <3>2
      <4> QED BY <3>3, <4>1 DEF Matched
    <3>5. T[i + 1].origin_pos = s[i].pos
      <4>1. T[i + 1] = trajectory_planner(l, s[i].pos, s[i + 1].pos, s[i + 1].points)
        BY <2>4, <3>1, <3>2, <3>3
      <4> QED BY <4>1, SegmentKeeps
    <3>6. T[i].target_pos = s[i].pos
      BY <3>1, <3>4, SegmentKeeps
    <3> QED BY <3>5, <3>6
  <2> HIDE DEF T, d
  <2> QED BY <1>1, <2>3, <2>4 DEF Made, d
<1> QED BY <1>3, <1>4

\* What a step of the system is to one axis: nothing or another status, a load
\* or a point.
Rests(c, d) == d = c \/ \E s \in {"running", "pre_stop"} : d = [c EXCEPT !.status = s]
Loads(a) ==
    /\ csp[a].status \in {"stop", "ready"}
    /\ \E l \in FileLines : /\ l.pairs # <<>> => IsExact(l, cur[a])
                            /\ csp'[a] = Pasted(csp[a], l, cur[a])
Goes(a) ==
    /\ Moving(csp[a]) /\ csp'[a] = Advanced(csp[a])
    /\ out'[a] = Point(csp[a], Current(csp[a]), csp[a].point)

LEMMA LoadOfAxis ==
    ASSUME WalkInv, NEW a \in CspAxes, NEW f \in Files, NEW at \in 1..Len(f), LoadLine(f, at)
    PROVE  out'[a] = out[a] /\ (csp'[a] = csp[a] \/ Loads(a))
<1> DEFINE l == f[at]
           b == l.axis + 1
           refused == \/ l.defect = "no label" \/ b > NumAxes
                      \/ b \notin CspAxes \/ csp[b].status = "running"
<1>1. UNCHANGED out /\ csp \in [CspAxes -> Plans]
  BY DEF LoadLine, WalkInv, TypeOK
<1>2. l \in FileLines
  BY FilesAssumption
<1>3. CASE refused
  BY <1>1, <1>3 DEF LoadLine
<1>4. CASE ~refused
  <2>1. /\ csp[b].status # "running" /\ csp[b].status # "pre_stop"
        /\ l.pairs # <<>> => IsExact(l, cur[b])
        /\ csp' = [csp EXCEPT ![b] = Pasted(csp[b], l, cur[b])]
    BY <1>1, <1>4 DEF LoadLine
  <2> HIDE DEF l, b, refused
  <2>2. CASE a # b
    BY <1>1, <2>1, <2>2
  <2>3. CASE a = b
    <3>1. csp[a].status \in {"stop", "ready"}
      BY <1>1, <2>1, <2>3 DEF Plans
    <3>2. csp'[a] = Pasted(csp[a], l, cur[a])
      BY <1>1, <2>1, <2>3
    <3> QED BY <1>1, <1>2, <2>1, <2>3, <3>1, <3>2 DEF Loads
  <2> QED BY <2>2, <2>3
<1> QED BY <1>3, <1>4

LEMMA AxisSteps ==
    ASSUME WalkInv, [Next]_vars, NEW a \in CspAxes
    PROVE  (out'[a] = out[a] /\ (Rests(csp[a], csp'[a]) \/ Loads(a))) \/ Goes(a)
<1>1. csp \in [CspAxes -> Plans] /\ out \in [Axles -> Int] /\ a \in Axles /\ a \notin PvAxes
  BY AxesAreFinite, TwoKinds DEF WalkInv, TypeOK
<1>2. CASE UNCHANGED <<csp, out>>
  BY <1>2 DEF Rests
<1>3. ASSUME NEW b \in Axles, pv_update_target_velocity(b)
      PROVE  csp'[a] = csp[a] /\ out'[a] = out[a]
  <2>1. /\ b \in PvAxes /\ UNCHANGED csp
        /\ \E v : out' = [out EXCEPT ![b] = v]
    BY <1>3 DEF pv_update_target_velocity
  <2> QED BY <1>1, <2>1
<1>4. ASSUME NEW b \in Axles, csp_update_target_position(b)
      PROVE  (csp'[a] = csp[a] /\ out'[a] = out[a]) \/ Goes(a)
  <2>1. CASE ~Moving(csp[b])
    BY <1>4, <2>1 DEF csp_update_target_position
  <2>2. CASE Moving(csp[b])
    <3>1. /\ csp' = [csp EXCEPT ![b] = Advanced(csp[b])]
          /\ out' = [out EXCEPT ![b] = Point(csp[b], Current(csp[b]), csp[b].point)]
      BY <1>4, <2>2 DEF csp_update_target_position
    <3>2. CASE a = b
      BY <1>1, <2>2, <3>1, <3>2 DEF Goes
    <3>3. CASE a # b
      BY <1>1, <3>1, <3>3
    <3> QED BY <3>2, <3>3
  <2> QED BY <2>1, <2>2
<1>5. CASE \E b \in Axles : DriveStarts(b) \/ DriveDrops(b) \/ Skip(b)
  BY <1>2, <1>5 DEF DriveStarts, DriveDrops, Skip, axisVars
<1>6. CASE (\E op \in BOOLEAN : Exchange(op)) \/ ExchangeLost
  BY <1>2, <1>6 DEF Exchange, ExchangeLost, axisVars
<1>7. CASE \E b \in PvAxes, v \in Velocities : set_target_velocity(b, v)
  BY <1>2, <1>7 DEF set_target_velocity
<1>8. CASE \E f \in Files : load_tp_file(f)
  <2>1. PICK f \in Files : load_tp_file(f)
    BY <1>8
  <2>2. f \in Seq(FileLines) /\ f # <<>>
    BY FilesAssumption
  <2>3. 1 \in 1..Len(f) /\ LoadLine(f, 1)
    BY <2>1, <2>2 DEF load_tp_file
  <2> QED BY <2>3, LoadOfAxis DEF Rests
<1>9. ASSUME NEW b, StartAxis(b)
      PROVE  out'[a] = out[a] /\ Rests(csp[a], csp'[a])
  BY <1>9 DEF StartAxis, Rests
<1>10. ASSUME NEW b, StopTest(b)
       PROVE  UNCHANGED <<csp, out>>
  BY <1>10 DEF StopTest, axisVars
<1>11. ASSUME NEW b, StopStore(b)
       PROVE  out'[a] = out[a] /\ Rests(csp[a], csp'[a])
  <2>1. UNCHANGED out /\ csp' = [csp EXCEPT ![b].status = "pre_stop"]
    BY <1>11 DEF StopStore
  <2>2. csp'[a] = IF a = b THEN [csp[a] EXCEPT !.status = "pre_stop"] ELSE csp[a]
    BY <1>1, <2>1
  <2> QED BY <2>1, <2>2 DEF Rests
<1>12. CASE set_start_all \/ set_stop_all
  BY <1>2, <1>9, <1>10, <1>12 DEF set_start_all, set_stop_all
<1>13. CASE CommandStep
  <2>1. CASE cmd.does = "load" /\ LoadLine(cmd.file, cmd.at)
    BY <2>1, LoadOfAxis DEF WalkInv, CommandInv, Rests
  <2> QED BY <1>2, <1>9, <1>10, <1>11, <1>13, <2>1 DEF CommandStep
<1>14. CASE UNCHANGED vars
  BY <1>2, <1>14 DEF vars
<1> QED BY <1>3, <1>4, <1>5, <1>6, <1>7, <1>8, <1>12, <1>13, <1>14
        DEF Next, Command, main_task, Rests

LEMMA RestsAlike ==
    ASSUME NEW c \in Plans, NEW d, Rests(c, d)
    PROVE  /\ AlikeBut(c, d) /\ c.current_tp = d.current_tp /\ c.point = d.point
           /\ d.status \in {c.status, "running", "pre_stop"}
BY DEF Rests, AlikeBut, Plans

LEMMA AdvancedIsAlike ==
    ASSUME NEW c \in Plans
    PROVE  AlikeBut(c, Advanced(c))
BY DEF Advanced, AlikeBut, Plans

LEMMA MadeAlike ==
    ASSUME NEW c, NEW d, AlikeBut(c, d), Made(c)
    PROVE  Made(d)
BY DEF AlikeBut, Made

WayInv == MadeInv /\ FollowsInv

LEMMA MadeStep ==
    ASSUME WalkInv, MadeInv, [Next]_vars
    PROVE  MadeInv'
<1> SUFFICES ASSUME NEW a \in CspAxes PROVE Made(csp'[a])
  BY DEF MadeInv, Made, Planned
<1>1. csp[a] \in Plans /\ Made(csp[a]) /\ cur[a] \in Int
  BY DEF WalkInv, TypeOK, MadeInv
<1>2. CASE Rests(csp[a], csp'[a])
  BY <1>1, <1>2, RestsAlike, MadeAlike
<1>3. CASE Loads(a)
  BY <1>1, <1>3, PastedIsMade DEF Loads
<1>4. CASE Goes(a)
  BY <1>1, <1>4, AdvancedIsAlike, MadeAlike DEF Goes
<1> QED BY <1>2, <1>3, <1>4, AxisSteps

LEMMA FollowsStep ==
    ASSUME WalkInv, MadeInv, FollowsInv, [Next]_vars
    PROVE  FollowsInv'
<1> DEFINE Following(c, pos) == Moving(c) /\ WellPlanned(c) => AtStart(c) \/ Follows(c, pos)
<1>1. FollowsInv <=> \A a \in CspAxes : Following(csp[a], out[a])
  BY DEF FollowsInv
<1>2. (\A a \in CspAxes : Following(csp'[a], out'[a])) => FollowsInv'
  BY DEF FollowsInv, Moving, WellPlanned, AtStart, Follows, Current
<1>3. ASSUME NEW a \in CspAxes PROVE Following(csp'[a], out'[a])
  <2> DEFINE c == csp[a]
             d == csp'[a]
  <2>1. c \in Plans /\ Sound(c) /\ Made(c) /\ cur[a] \in Int /\ Following(c, out[a])
    BY <1>1 DEF WalkInv, TypeOK, TablesInv, MadeInv
  <2> HIDE DEF Following
  <2>2. CASE Rests(c, d) /\ out'[a] = out[a]
    <3>1. /\ AlikeBut(c, d) /\ c.current_tp = d.current_tp /\ c.point = d.point
          /\ d.status \in {c.status, "running", "pre_stop"}
      BY <2>1, <2>2, RestsAlike
    <3>2. (WellPlanned(c) <=> WellPlanned(d)) /\ (Follows(c, out[a]) <=> Follows(d, out[a]))
          /\ (AtStart(c) <=> AtStart(d))
      BY <3>1, WellPlannedAlike, FollowsAlike DEF AtStart
    <3>3. ~Moving(c) => AtStart(c)
      BY <2>1 DEF Moving, Sound, Plans, AtStart
    <3>4. Follows(d, out'[a]) <=> Follows(d, out[a])
      BY <2>2
    <3>5. Moving(d) /\ WellPlanned(d) => AtStart(d) \/ Follows(d, out'[a])
      <4> HIDE DEF c, d
      <4> QED BY <2>1, <3>2, <3>3, <3>4 DEF Following
    <3> QED BY <3>5 DEF Following
  <2>3. CASE Loads(a)
    <3>1. PICK l \in FileLines : /\ l.pairs # <<>> => IsExact(l, cur[a])
                                 /\ d = Pasted(c, l, cur[a])
      BY <2>3 DEF Loads
    <3>2. d.status \in {c.status, "ready"} /\ c.status \in {"stop", "ready"}
      BY <2>1, <2>3, <3>1, PastedType DEF Loads
    <3>3. ~Moving(d)
      BY <3>2 DEF Moving
    <3> QED BY <3>3 DEF Following
  <2>4. CASE Goes(a)
    <3>1. Moving(c) /\ d = Advanced(c) /\ out'[a] = Point(c, Current(c), c.point)
      BY <2>4 DEF Goes
    <3>2. CASE WellPlanned(d) /\ Moving(d)
      <4>1. WellPlanned(c)
        BY <2>1, <3>1, <3>2, AdvancedIsAlike, WellPlannedAlike
      <4>2. AtStart(c) \/ Follows(c, out[a])
        BY <2>1, <3>1, <4>1 DEF Following
      <4>3. Advanced(c).status # "stop"
        BY <3>1, <3>2 DEF Moving
      <4>4. Follows(Advanced(c), out'[a])
        BY <2>1, <3>1, <4>1, <4>2, <4>3, NextPointFollows
      <4> QED BY <3>1, <4>4 DEF Following
    <3> QED BY <3>2 DEF Following
  <2> QED BY <2>2, <2>3, <2>4, AxisSteps
<1> QED BY <1>2, <1>3

\* Every axis goes where its plan leads, for any axes, files, drives and
\* frames.
THEOREM PlansAreFollowed == Spec => [](WalkInv /\ WayInv)
<1>1. Init => WayInv
  <2> SUFFICES ASSUME Init, NEW a \in CspAxes
               PROVE  Made(csp[a]) /\ ~Moving(csp[a])
    BY DEF WayInv, MadeInv, FollowsInv
  <2>1. csp[a] = NoPlan
    BY DEF Init
  <2> QED BY <2>1 DEF NoPlan, Made, Moving
<1>2. WalkInv /\ WayInv /\ [Next]_vars => WayInv'
  BY MadeStep, FollowsStep DEF WayInv
<1> QED BY <1>1, <1>2, Walks, PTL DEF Spec

\* Set points of a plan that can be driven lie on its way, and the axis jumps
\* nowhere.
THEOREM AxesMoveAsPlanned == Spec => MovesAsPlanned
<1> DEFINE AsPlanned ==
             \A a \in CspAxes :
                LET c == csp[a] IN
                out'[a] # out[a] /\ WellPlanned(c) =>
                    /\ OnItsWay(Current(c), out'[a])
                    /\ <<c.current_tp, c.point>> = <<0, 0>> \/ ShortStep(c.max, out[a], out'[a])
<1>1. WalkInv /\ WayInv /\ [Next]_vars => [AsPlanned]_vars
  <2> SUFFICES ASSUME WalkInv, WayInv, [Next]_vars, NEW a \in CspAxes,
                      out'[a] # out[a], WellPlanned(csp[a])
               PROVE  /\ OnItsWay(Current(csp[a]), out'[a])
                      /\ AtStart(csp[a]) \/ ShortStep(csp[a].max, out[a], out'[a])
    BY DEF AtStart
  <2>1. Goes(a)
    BY AxisSteps
  <2>2. Sound(csp[a]) /\ Made(csp[a]) /\ (AtStart(csp[a]) \/ Follows(csp[a], out[a]))
    BY <2>1 DEF WalkInv, TablesInv, WayInv, MadeInv, FollowsInv, Goes
  <2> QED BY <2>1, <2>2, NextPointFollows DEF Goes
<1> QED BY <1>1, PlansAreFollowed, PTL DEF Spec, MovesAsPlanned

\* A plan that is over has led the axis to its end, but for one step.
THEOREM AxesStopNearTheEnd == Spec => StopsNearItsEnd
<1> DEFINE NearItsEnd ==
             \A a \in CspAxes :
                LET c == csp[a]
                    t == c.tp[Len(c.tp)]
                IN  Moving(c) /\ csp'[a].status = "stop" /\ WellPlanned(c) =>
                        ShortStep(t.uniform_speed \div Unit, out'[a], t.target_pos)
<1>1. WalkInv /\ WayInv /\ [Next]_vars => [NearItsEnd]_vars
  <2> SUFFICES ASSUME WalkInv, WayInv, [Next]_vars, NEW a \in CspAxes,
                      Moving(csp[a]), csp'[a].status = "stop", WellPlanned(csp[a])
               PROVE  ShortStep(csp[a].tp[Len(csp[a].tp)].uniform_speed \div Unit,
                                out'[a], csp[a].tp[Len(csp[a].tp)].target_pos)
    OBVIOUS
  <2>1. csp[a] \in Plans /\ Sound(csp[a]) /\ Made(csp[a])
        /\ (AtStart(csp[a]) \/ Follows(csp[a], out[a]))
    BY DEF WalkInv, TypeOK, TablesInv, WayInv, MadeInv, FollowsInv
  <2>2. Goes(a)
    <3>1. ~Rests(csp[a], csp'[a])
      BY <2>1, RestsAlike DEF Moving
    <3>2. ~Loads(a)
      BY DEF Loads, Moving
    <3> QED BY <3>1, <3>2, AxisSteps
  <2> QED BY <2>1, <2>2, NextPointFollows DEF Goes
<1> QED BY <1>1, PlansAreFollowed, PTL DEF Spec, StopsNearItsEnd

(***************************************************************************)
(* Velocities: one that was told after the axis had measured its own is    *)
(* there, and the axis measures no more.                                   *)
(***************************************************************************)
ToldInv == \A a \in PvAxes : told[a] # Untold => pv[a].status = 1 /\ pv[a].velocity = told[a]

\* pv_update_target_velocity() never overwrites a velocity that was told.
THEOREM ToldVelocityKept == Spec => []VelocityKept
<1>1. Init => ToldInv
  BY DEF Init, ToldInv
<1>2. WalkInv /\ ToldInv /\ [Next]_vars => ToldInv'
  <2> SUFFICES ASSUME WalkInv, ToldInv, [Next]_vars PROVE ToldInv'
    OBVIOUS
  <2>1. pv \in [PvAxes -> [velocity : Int, status : {0, 1}]]
          /\ told \in [PvAxes -> Velocities \cup {Untold}]
    BY DEF WalkInv, TypeOK
  <2>2. CASE UNCHANGED <<pv, told>>
    BY <2>2 DEF ToldInv
  <2>3. ASSUME NEW a \in Axles, pv_update_target_velocity(a) PROVE ToldInv'
    <3>1. a \in PvAxes /\ UNCHANGED told
      BY <2>3 DEF pv_update_target_velocity
    <3>2. CASE pv[a].status = 0
      BY <2>1, <2>3, <3>1, <3>2 DEF pv_update_target_velocity, ToldInv
    <3>3. CASE pv[a].status # 0
      BY <2>3, <3>1, <3>3 DEF pv_update_target_velocity, ToldInv
    <3> QED BY <3>2, <3>3
  <2>4. ASSUME NEW a \in PvAxes, NEW v \in Velocities, set_target_velocity(a, v)
        PROVE  ToldInv'
    <3>1. /\ pv' = [pv EXCEPT ![a].velocity = v]
          /\ told' = IF pv[a].status = 1 THEN [told EXCEPT ![a] = v] ELSE told
      BY <2>4 DEF set_target_velocity
    <3>2. \A b \in PvAxes : pv'[b].status = pv[b].status
                            /\ pv'[b].velocity = IF b = a THEN v ELSE pv[b].velocity
      BY <2>1, <3>1
    <3>3. CASE pv[a].status = 1
      <4>1. \A b \in PvAxes : told'[b] = IF b = a THEN v ELSE told[b]
        BY <2>1, <3>1, <3>3
      <4> QED BY <3>2, <3>3, <4>1 DEF ToldInv
    <3>4. CASE pv[a].status # 1
      <4>1. told' = told /\ told[a] = Untold
        BY <3>1, <3>4 DEF ToldInv
      <4> QED BY <3>2, <4>1 DEF ToldInv
    <3> QED BY <3>3, <3>4
  <2>5. CASE \E a \in Axles : DriveStarts(a) \/ DriveDrops(a) \/ Skip(a)
                             \/ csp_update_target_position(a)
    BY <2>2, <2>5 DEF DriveStarts, DriveDrops, Skip, csp_update_target_position, axisVars
  <2>6. CASE (\E op \in BOOLEAN : Exchange(op)) \/ ExchangeLost
    BY <2>2, <2>6 DEF Exchange, ExchangeLost, axisVars
  <2>7. CASE (\E f \in Files : load_tp_file(f)) \/ set_start_all \/ set_stop_all \/ CommandStep
    BY <2>2, <2>7 DEF load_tp_file, set_start_all, set_stop_all, CommandStep, LoadLine, StartAxis,
                     StopTest, StopStore, axisVars
  <2>8. CASE UNCHANGED vars
    BY <2>2, <2>8 DEF vars
  <2> QED BY <2>3, <2>4, <2>5, <2>6, <2>7, <2>8 DEF Next, Command, main_task
<1>3. ToldInv => VelocityKept
  BY DEF ToldInv, VelocityKept
<1> QED BY <1>1, <1>2, <1>3, Walks, PTL DEF Spec

(***************************************************************************)
(* Axes started at once.  Within a period some of them have been served    *)
(* and some have not; within a loop over the axes some have been started   *)
(* or stopped and some have not.  What holds throughout is that they are   *)
(* level once the loop and the period are thought to their end.            *)
(***************************************************************************)
Level(c, d) == c.status = d.status /\ c.current_tp = d.current_tp /\ c.point = d.point

\* What the loop under way leaves of an axis.
Due(a) ==
    IF cmd.does = "start" /\ cmd.at <= a /\ csp[a].status = "ready"
    THEN [csp[a] EXCEPT !.status = "running"]
    ELSE IF cmd.does \in {"stop", "store"} /\ cmd.at <= a /\ csp[a].status = "running"
    THEN [csp[a] EXCEPT !.status = "pre_stop"]
    ELSE csp[a]

\* What a period leaves of a plan, and the axes it has not come to yet.
Step(c) == IF Moving(c) THEN Advanced(c) ELSE c
Behind(a) == allOp /\ next <= a

TogetherInv ==
    \A a, b \in mates : SamePlan(csp[a], csp[b]) =>
        /\ (Behind(a) <=> Behind(b)) => Level(Due(a), Due(b))
        /\ ~Behind(a) /\ Behind(b) => Level(Due(a), Step(Due(b)))

StoringInv == cmd.does = "store" /\ cmd.at \in mates => csp[cmd.at].status = "running"

\* Level plans on the same table stay level.
LEMMA StepsAreLevel ==
    ASSUME NEW c \in Plans, NEW d \in Plans, SamePlan(c, d), Level(c, d)
    PROVE  Level(Step(c), Step(d))
<1>1. Moving(c) <=> Moving(d)
  BY DEF Level, Moving
<1>2. CASE ~Moving(c)
  BY <1>1, <1>2 DEF Step
<1>3. CASE Moving(c)
  <2>1. Current(c) = Current(d) /\ c.point = d.point /\ c.current_tp = d.current_tp
          /\ c.status = d.status /\ c.tp = d.tp /\ c.cyclic = d.cyclic
    BY DEF SamePlan, Level, Current
  <2> DEFINE more == c.point + 1 < Current(c).points_num
             further == c.current_tp + 1 < Len(c.tp)
             round == c.cyclic /\ c.status # "pre_stop"
  <2>2. CASE more
    <3>1. Advanced(c) = [c EXCEPT !.point = @ + 1] /\ Advanced(d) = [d EXCEPT !.point = @ + 1]
      BY <2>1, <2>2 DEF Advanced
    <3> QED BY <1>1, <1>3, <2>1, <3>1 DEF Step, Level, Plans
  <2>3. CASE ~more /\ further
    <3>1. /\ Advanced(c) = [c EXCEPT !.point = 0, !.current_tp = @ + 1]
          /\ Advanced(d) = [d EXCEPT !.point = 0, !.current_tp = @ + 1]
      BY <2>1, <2>3 DEF Advanced
    <3> QED BY <1>1, <1>3, <2>1, <3>1 DEF Step, Level, Plans
  <2>4. CASE ~more /\ ~further /\ round
    <3>1. /\ Advanced(c) = [c EXCEPT !.point = 0, !.current_tp = 1]
          /\ Advanced(d) = [d EXCEPT !.point = 0, !.current_tp = 1]
      BY <2>1, <2>4 DEF Advanced
    <3> QED BY <1>1, <1>3, <2>1, <3>1 DEF Step, Level, Plans
  <2>5. CASE ~more /\ ~further /\ ~round
    <3>1. /\ Advanced(c) = [c EXCEPT !.point = 0, !.current_tp = 0, !.status = "stop"]
          /\ Advanced(d) = [d EXCEPT !.point = 0, !.current_tp = 0, !.status = "stop"]
      BY <2>1, <2>5 DEF Advanced
    <3> QED BY <1>1, <1>3, <2>1, <3>1 DEF Step, Level, Plans
  <2> QED BY <2>2, <2>3, <2>4, <2>5
<1> QED BY <1>2, <1>3

\* An action that changes nothing of what the axes are due for.
LEMMA TogetherKept ==
    ASSUME TogetherInv, mates' \subseteq mates,
           \A a \in mates' : /\ Due(a)' = Due(a) /\ (Behind(a)' <=> Behind(a))
                             /\ csp'[a].tp = csp[a].tp /\ csp'[a].cyclic = csp[a].cyclic
    PROVE  TogetherInv'
<1> SUFFICES ASSUME NEW a \in mates', NEW b \in mates', SamePlan(csp'[a], csp'[b])
             PROVE  /\ (Behind(a)' <=> Behind(b)') => Level(Due(a)', Due(b)')
                    /\ ~Behind(a)' /\ Behind(b)' => Level(Due(a)', Step(Due(b)'))
  BY DEF TogetherInv, Level, Step, Moving, Advanced, SamePlan, Current
<1>1. SamePlan(csp[a], csp[b]) /\ a \in mates /\ b \in mates
  BY DEF SamePlan
<1>2. /\ (Behind(a) <=> Behind(b)) => Level(Due(a), Due(b))
      /\ ~Behind(a) /\ Behind(b) => Level(Due(a), Step(Due(b)))
  BY <1>1 DEF TogetherInv
<1> QED BY <1>2

\* One that changes nothing of the axes at all.
LEMMA NothingTogether ==
    ASSUME TogetherInv, StoringInv, UNCHANGED <<csp, cmd>>, mates' \subseteq mates,
           \A a \in mates' : Behind(a)' <=> Behind(a)
    PROVE  TogetherInv' /\ StoringInv'
<1>1. \A a \in mates' : Due(a)' = Due(a)
  BY DEF Due
<1>2. TogetherInv'
  BY <1>1, TogetherKept
<1> QED BY <1>2 DEF StoringInv

\* Between the periods the axes are all behind or none is.
LEMMA NobodyAhead ==
    ASSUME TogetherInv, mates' \subseteq mates,
           \A a, b \in mates : Behind(a) <=> Behind(b),
           \A a, b \in mates' : Behind(a)' <=> Behind(b)',
           \A a \in mates' : csp'[a].tp = csp[a].tp /\ csp'[a].cyclic = csp[a].cyclic,
           \A a, b \in mates' : Level(Due(a), Due(b)) => Level(Due(a)', Due(b)')
    PROVE  TogetherInv'
<1> SUFFICES ASSUME NEW a \in mates', NEW b \in mates', SamePlan(csp'[a], csp'[b])
             PROVE  /\ (Behind(a)' <=> Behind(b)') => Level(Due(a)', Due(b)')
                    /\ ~Behind(a)' /\ Behind(b)' => Level(Due(a)', Step(Due(b)'))
  BY DEF TogetherInv, Level, Step, Moving, Advanced, SamePlan, Current
<1>1. SamePlan(csp[a], csp[b]) /\ a \in mates /\ b \in mates
  BY DEF SamePlan
<1>2. Level(Due(a), Due(b))
  BY <1>1 DEF TogetherInv
<1>3. Level(Due(a)', Due(b)') /\ (Behind(a)' <=> Behind(b)')
  BY <1>2
<1> QED BY <1>3

LEMMA MatesAreAxles ==
    ASSUME WalkInv
    PROVE  /\ mates \subseteq CspAxes /\ \A a \in mates : a \in Axles
           /\ BetweenPeriods => \A a \in mates : Behind(a) <=> (allOp /\ next = 1)
<1>1. mates \subseteq CspAxes /\ \A a \in mates : a \in Axles
  BY AxesAreFinite DEF WalkInv, TypeOK
<1>2. ASSUME BetweenPeriods, NEW a \in mates PROVE Behind(a) <=> (allOp /\ next = 1)
  BY <1>1, <1>2, AxesAreFinite DEF BetweenPeriods, Behind, Axles
<1> QED BY <1>1, <1>2

LEMMA ExchangeTogether ==
    ASSUME WalkInv, TogetherInv, StoringInv, (\E op \in BOOLEAN : Exchange(op)) \/ ExchangeLost
    PROVE  TogetherInv' /\ StoringInv'
<1>1. UNCHANGED <<csp, cmd, mates>> /\ next = NumAxes + 1 /\ next' = 1
  BY DEF Exchange, ExchangeLost, axisVars, FramesDue
<1>2. BetweenPeriods /\ \A a \in mates : Behind(a)' <=> allOp'
  BY <1>1, MatesAreAxles, AxesAreFinite DEF BetweenPeriods, Behind, Axles
<1>3. \A a \in mates : Due(a)' = Due(a)
  BY <1>1 DEF Due
<1>4. TogetherInv'
  BY <1>1, <1>2, <1>3, MatesAreAxles, NobodyAhead
<1> QED BY <1>1, <1>4 DEF StoringInv

LEMMA ServiceTogether ==
    ASSUME WalkInv, TogetherInv, StoringInv, NEW a \in Axles,
           Skip(a) \/ pv_update_target_velocity(a)
    PROVE  TogetherInv' /\ StoringInv'
<1>1. UNCHANGED <<csp, cmd, allOp>> /\ next = a /\ next' = a + 1
  BY DEF Skip, pv_update_target_velocity, axisVars, Served
<1>2. mates' \subseteq mates /\ (allOp => a \notin mates')
  <2>1. CASE Skip(a)
    BY <2>1 DEF Skip
  <2>2. CASE pv_update_target_velocity(a)
    BY <2>2, MatesAreAxles, TwoKinds DEF pv_update_target_velocity
  <2> QED BY <2>1, <2>2
<1>3. \A b \in mates' : Behind(b)' <=> Behind(b)
  <2> TAKE b \in mates'
  <2>1. b \in Nat /\ a \in Nat /\ (allOp => a # b)
    BY <1>2, MatesAreAxles, AxesAreFinite DEF Axles
  <2> QED BY <1>1, <2>1 DEF Behind
<1> QED BY <1>1, <1>2, <1>3, NothingTogether

\* An axis that is served catches up with those before it.
LEMMA CspTogether ==
    ASSUME WalkInv, TogetherInv, StoringInv, NEW a \in Axles, csp_update_target_position(a)
    PROVE  TogetherInv' /\ StoringInv'
<1>1. /\ UNCHANGED <<cmd, allOp>> /\ next = a /\ next' = a + 1 /\ allOp
      /\ a \in CspAxes /\ mates' = IF Halfway THEN {} ELSE mates
  BY DEF csp_update_target_position, Served
<1>2. CASE Halfway
  BY <1>1, <1>2 DEF TogetherInv, StoringInv
<1>3. CASE ~Halfway
  <2>1. csp' = [csp EXCEPT ![a] = Step(csp[a])]
    BY <1>1 DEF csp_update_target_position, Step, WalkInv, TypeOK
  <2>2. \A b \in CspAxes : csp'[b] = IF b = a THEN Step(csp[a]) ELSE csp[b]
    BY <2>1 DEF WalkInv, TypeOK
  <2>3. mates' = mates /\ \A b \in mates : Due(b) = csp[b] /\ Due(b)' = csp'[b]
    BY <1>1, <1>3 DEF Due, Halfway
  <2>4. \A b \in CspAxes : csp[b] \in Plans /\ Sound(csp[b])
    BY DEF WalkInv, TablesInv, Sound
  <2>5. Step(csp[a]).tp = csp[a].tp /\ Step(csp[a]).cyclic = csp[a].cyclic
    BY <1>1, <2>4, AdvancedIsSound DEF Step
  <2>6. \A b \in mates : Behind(b)' <=> Behind(b) /\ b # a
    <3> TAKE b \in mates
    <3>1. b \in Nat /\ a \in Nat
      BY MatesAreAxles, AxesAreFinite DEF Axles
    <3> QED BY <1>1, <3>1 DEF Behind
  <2>7. Behind(a)
    BY <1>1, AxesAreFinite DEF Behind, Axles
  <2>8. ASSUME NEW b \in mates, NEW d \in mates, SamePlan(csp'[b], csp'[d])
        PROVE  /\ (Behind(b)' <=> Behind(d)') => Level(csp'[b], csp'[d])
               /\ ~Behind(b)' /\ Behind(d)' => Level(csp'[b], Step(csp'[d]))
    <3>1. SamePlan(csp[b], csp[d]) /\ b \in CspAxes /\ d \in CspAxes
      BY <2>2, <2>5, <2>8, MatesAreAxles DEF SamePlan
    <3>2. /\ (Behind(b) <=> Behind(d)) => Level(csp[b], csp[d])
          /\ ~Behind(b) /\ Behind(d) => Level(csp[b], Step(csp[d]))
          /\ ~Behind(d) /\ Behind(b) => Level(csp[d], Step(csp[b]))
      BY <2>3, <3>1 DEF TogetherInv, SamePlan
    <3>3. Level(csp[b], csp[d]) => Level(Step(csp[b]), Step(csp[d]))
      BY <2>4, <3>1, StepsAreLevel
    <3>4. CASE b = a /\ d = a
      BY <2>6, <3>4 DEF Level
    <3>5. CASE b = a /\ d # a
      BY <2>2, <2>6, <2>7, <3>1, <3>2, <3>3, <3>5 DEF Level
    <3>6. CASE b # a /\ d = a
      BY <2>2, <2>6, <2>7, <3>1, <3>2, <3>3, <3>6 DEF Level
    <3>7. CASE b # a /\ d # a
      BY <2>2, <2>6, <3>1, <3>2, <3>7
    <3> QED BY <3>4, <3>5, <3>6, <3>7
  <2>9. TogetherInv'
    BY <2>3, <2>8 DEF TogetherInv, Level, Step, Moving, Advanced, SamePlan, Current
  <2> QED BY <1>1, <1>3, <2>9 DEF StoringInv, Halfway
<1> QED BY <1>2, <1>3

LEMMA LoadTogether ==
    ASSUME WalkInv, TogetherInv, StoringInv, NEW f, NEW at, LoadLine(f, at),
           cmd.does \in {"nothing", "load"}
    PROVE  TogetherInv' /\ StoringInv'
<1> DEFINE l == f[at]
           a == l.axis + 1
           refused == \/ l.defect = "no label" \/ a > NumAxes
                      \/ a \notin CspAxes \/ csp[a].status = "running"
<1>1. UNCHANGED <<next, allOp>> /\ cmd'.does \in {"nothing", "load"}
  <2>1. UNCHANGED <<next, allOp>>
    BY DEF LoadLine, cyclicVars
  <2>2. cmd' = Idle \/ cmd' = [does |-> "load", file |-> f, at |-> at + 1]
    BY DEF LoadLine
  <2> QED BY <2>1, <2>2 DEF Idle
<1>2. mates' \subseteq mates /\ \A b \in mates' : csp'[b] = csp[b]
  <2>1. CASE refused
    BY <2>1 DEF LoadLine
  <2>2. CASE ~refused
    <3>1. mates' = mates \ {a}
          /\ csp' = [csp EXCEPT ![a] = Pasted(csp[a], l, cur[a])]
      BY <2>2 DEF LoadLine, WalkInv, TypeOK
    <3> HIDE DEF a, l
    <3>2. csp \in [CspAxes -> Plans]
      BY DEF WalkInv, TypeOK
    <3> QED BY <3>1, <3>2, MatesAreAxles
  <2> QED BY <2>1, <2>2
<1>3. \A b \in mates' : Due(b)' = Due(b) /\ (Behind(b)' <=> Behind(b))
  BY <1>1, <1>2 DEF Due, Behind
<1>4. TogetherInv'
  BY <1>2, <1>3, TogetherKept
<1> QED BY <1>1, <1>4 DEF StoringInv

\* The loops of set_start_all and set_stop_all do what the axes are due for.
LEMMA LoopTogether ==
    ASSUME WalkInv, TogetherInv, StoringInv, Halfway,
           \/ cmd.does = "start" /\ StartAxis(cmd.at)
           \/ cmd.does = "stop" /\ StopTest(cmd.at)
           \/ cmd.does = "store" /\ StopStore(cmd.at),
           mates' = IF BetweenPeriods THEN mates ELSE {}
    PROVE  TogetherInv' /\ StoringInv'
<1> DEFINE at == cmd.at
<1>1. UNCHANGED <<next, allOp>> /\ at \in Axles /\ mates' \subseteq mates
  BY DEF StartAxis, StopTest, StopStore, cyclicVars, WalkInv, TypeOK
<1>2. \A b \in mates : b \in Nat /\ b <= NumAxes /\ b \in CspAxes
  BY MatesAreAxles, AxesAreFinite DEF Axles
<1>3. at \in Nat /\ at <= NumAxes /\ NumAxes \in Nat
  BY <1>1, AxesAreFinite DEF Axles
<1>4. csp \in [CspAxes -> Plans]
  BY DEF WalkInv, TypeOK
<1>5. CASE cmd.does = "start" /\ StartAxis(at)
  <2>1. /\ csp' = [b \in CspAxes |-> IF b = at /\ csp[b].status = "ready"
                                     THEN [csp[b] EXCEPT !.status = "running"] ELSE csp[b]]
        /\ cmd' = Onward("start", at)
    <3>1. \A b \in CspAxes : (b = at /\ at \in Ready) <=> (b = at /\ csp[b].status = "ready")
      BY DEF Ready
    <3> QED BY <1>5, <3>1 DEF StartAxis
  <2> HIDE DEF at
  <2>2. /\ cmd'.does \in {"start", "nothing"}
        /\ at < NumAxes => cmd'.does = "start" /\ cmd'.at = at + 1
        /\ ~(at < NumAxes) => cmd'.does = "nothing"
    BY <2>1 DEF Onward, Idle
  <2>3. ASSUME NEW b \in mates
        PROVE  Due(b)' = Due(b) /\ csp'[b].tp = csp[b].tp /\ csp'[b].cyclic = csp[b].cyclic
    <3>1. b \in CspAxes /\ csp[b] \in Plans /\ b \in Nat /\ b <= NumAxes
      BY <1>2, <1>4
    <3>2. csp'[b] = IF b = at /\ csp[b].status = "ready"
                    THEN [csp[b] EXCEPT !.status = "running"] ELSE csp[b]
      BY <2>1, <3>1
    <3>3. Due(b) = IF at <= b /\ csp[b].status = "ready"
                   THEN [csp[b] EXCEPT !.status = "running"] ELSE csp[b]
      BY <1>5 DEF Due, at
    <3>4. Due(b)' = IF at < NumAxes /\ at + 1 <= b /\ csp'[b].status = "ready"
                    THEN [csp'[b] EXCEPT !.status = "running"] ELSE csp'[b]
      BY <2>2 DEF Due
    <3>5. [csp[b] EXCEPT !.status = "running"].status = "running"
          /\ [csp[b] EXCEPT !.status = "running"].tp = csp[b].tp
          /\ [csp[b] EXCEPT !.status = "running"].cyclic = csp[b].cyclic
      BY <3>1 DEF Plans
    <3> QED BY <1>3, <3>1, <3>2, <3>3, <3>4, <3>5
  <2>4. TogetherInv'
    BY <1>1, <2>3, TogetherKept DEF Behind
  <2> QED BY <2>2, <2>4 DEF StoringInv
<1>6. CASE cmd.does = "stop" /\ StopTest(at)
  <2>1. /\ UNCHANGED csp
        /\ cmd' = IF at \in CspAxes /\ csp[at].status = "running"
                  THEN [does |-> "store", file |-> <<>>, at |-> at]
                  ELSE Onward("stop", at)
    BY <1>6 DEF StopTest, axisVars
  <2>2. ASSUME NEW b \in mates PROVE Due(b)' = Due(b)
    <3>1. Due(b) = IF at <= b /\ csp[b].status = "running"
                   THEN [csp[b] EXCEPT !.status = "pre_stop"] ELSE csp[b]
      BY <1>6 DEF Due
    <3>2. CASE at \in CspAxes /\ csp[at].status = "running"
      <4>1. cmd'.does = "store" /\ cmd'.at = at
        BY <2>1, <3>2
      <4> QED BY <2>1, <3>1, <4>1 DEF Due
    <3>3. CASE ~(at \in CspAxes /\ csp[at].status = "running")
      <4>1. /\ at < NumAxes => cmd'.does = "stop" /\ cmd'.at = at + 1
            /\ ~(at < NumAxes) => cmd'.does = "nothing"
        BY <2>1, <3>3 DEF Onward, Idle
      <4>2. b \in Nat /\ b <= NumAxes /\ (csp[b].status = "running" => b # at)
        BY <1>2, <3>3
      <4> HIDE DEF at
      <4>3. Due(b)' = IF at < NumAxes /\ at + 1 <= b /\ csp[b].status = "running"
                      THEN [csp[b] EXCEPT !.status = "pre_stop"] ELSE csp[b]
        BY <2>1, <4>1 DEF Due
      <4> QED BY <1>3, <3>1, <4>2, <4>3
    <3> QED BY <3>2, <3>3
  <2>3. TogetherInv'
    BY <1>1, <2>1, <2>2, TogetherKept DEF Behind
  <2>4. StoringInv'
    <3>1. cmd'.does = "store" => cmd'.at = at /\ csp[at].status = "running"
      BY <2>1 DEF Onward, Idle
    <3> QED BY <2>1, <3>1 DEF StoringInv
  <2> QED BY <2>3, <2>4
<1>7. CASE cmd.does = "store" /\ StopStore(at)
  <2>1. /\ csp' = [csp EXCEPT ![at] = [csp[at] EXCEPT !.status = "pre_stop"]]
        /\ cmd' = Onward("stop", at)
    BY <1>4, <1>7 DEF StopStore, WalkInv, TypeOK
  <2>2. at \in mates => csp[at].status = "running"
    BY <1>7 DEF StoringInv
  <2>3. at \in CspAxes
    BY <1>7 DEF WalkInv, TypeOK
  <2>4. \A b \in mates : Due(b) = IF at <= b /\ csp[b].status = "running"
                                  THEN [csp[b] EXCEPT !.status = "pre_stop"] ELSE csp[b]
    BY <1>7 DEF Due
  <2> HIDE DEF at
  <2>5. /\ cmd'.does \in {"stop", "nothing"}
        /\ at < NumAxes => cmd'.does = "stop" /\ cmd'.at = at + 1
        /\ ~(at < NumAxes) => cmd'.does = "nothing"
    BY <2>1 DEF Onward, Idle
  <2>6. ASSUME NEW b \in mates
        PROVE  Due(b)' = Due(b) /\ csp'[b].tp = csp[b].tp /\ csp'[b].cyclic = csp[b].cyclic
    <3>1. b \in CspAxes /\ csp[b] \in Plans /\ b \in Nat /\ b <= NumAxes
      BY <1>2, <1>4
    <3>2. csp'[b] = IF b = at THEN [csp[b] EXCEPT !.status = "pre_stop"] ELSE csp[b]
      BY <1>4, <2>1, <2>3, <3>1
    <3>3. Due(b)' = IF at < NumAxes /\ at + 1 <= b /\ csp'[b].status = "running"
                    THEN [csp'[b] EXCEPT !.status = "pre_stop"] ELSE csp'[b]
      BY <2>5 DEF Due
    <3>4. [csp[b] EXCEPT !.status = "pre_stop"].status = "pre_stop"
          /\ [csp[b] EXCEPT !.status = "pre_stop"].tp = csp[b].tp
          /\ [csp[b] EXCEPT !.status = "pre_stop"].cyclic = csp[b].cyclic
      BY <3>1 DEF Plans
    <3> QED BY <1>3, <2>2, <2>4, <3>1, <3>2, <3>3, <3>4
  <2>7. TogetherInv'
    BY <1>1, <2>6, TogetherKept DEF Behind
  <2> QED BY <2>5, <2>7 DEF StoringInv
<1> QED BY <1>5, <1>6, <1>7

LEMMA StartAllTogether ==
    ASSUME WalkInv, set_start_all
    PROVE  TogetherInv' /\ StoringInv'
<1>1. /\ UNCHANGED <<next, allOp>> /\ cmd' = Onward("start", 1)
      /\ csp' = [b \in CspAxes |-> IF b = 1 /\ 1 \in Ready
                                   THEN [csp[b] EXCEPT !.status = "running"] ELSE csp[b]]
      /\ mates' = IF BetweenPeriods THEN Ready ELSE {}
  BY DEF set_start_all, StartAxis, cyclicVars
<1>2. /\ cmd'.does \in {"start", "nothing"}
      /\ 1 < NumAxes => cmd'.does = "start" /\ cmd'.at = 2
      /\ ~(1 < NumAxes) => cmd'.does = "nothing"
  BY <1>1 DEF Onward, Idle
<1>3. ASSUME NEW b \in mates'
      PROVE  Due(b)'.status = "running" /\ Due(b)'.current_tp = 0 /\ Due(b)'.point = 0
             /\ (Behind(b)' <=> (allOp /\ next = 1))
  <2>1. /\ b \in CspAxes /\ csp[b].status = "ready" /\ BetweenPeriods /\ b \in Ready
        /\ b \in Nat /\ 1 <= b /\ b <= NumAxes /\ NumAxes \in Nat
    BY <1>1, AxesAreFinite DEF Ready, Axles
  <2>2. csp[b] \in Plans /\ csp[b].current_tp = 0 /\ csp[b].point = 0
    BY <2>1 DEF WalkInv, TablesInv, Sound
  <2>3. LET r == [csp[b] EXCEPT !.status = "running"] IN
        r.status = "running" /\ r.current_tp = 0 /\ r.point = 0
    BY <2>2 DEF Plans
  <2>4. csp'[b] = IF b = 1 THEN [csp[b] EXCEPT !.status = "running"] ELSE csp[b]
    BY <1>1, <2>1
  <2>5. Due(b)' = [csp[b] EXCEPT !.status = "running"]
    <3>1. CASE b = 1
      <4>1. csp'[b].status = "running" /\ csp'[b] = [csp[b] EXCEPT !.status = "running"]
        BY <2>3, <2>4, <3>1
      <4> QED BY <1>2, <4>1 DEF Due
    <3>2. CASE b # 1
      <4>1. 1 < NumAxes /\ 2 <= b
        BY <2>1, <3>2
      <4> QED BY <1>2, <2>1, <2>4, <3>2, <4>1 DEF Due
    <3> QED BY <3>1, <3>2
  <2>6. Behind(b)' <=> (allOp /\ next = 1)
    BY <1>1, <2>1 DEF BetweenPeriods, Behind
  <2> QED BY <2>3, <2>5, <2>6
<1>4. TogetherInv'
  BY <1>3 DEF TogetherInv, Level
<1> QED BY <1>2, <1>4 DEF StoringInv

LEMMA StopAllTogether ==
    ASSUME WalkInv, TogetherInv, set_stop_all
    PROVE  TogetherInv' /\ StoringInv'
<1>1. /\ UNCHANGED <<csp, next, allOp>> /\ cmd = Idle
      /\ cmd' = IF 1 \in CspAxes /\ csp[1].status = "running"
                THEN [does |-> "store", file |-> <<>>, at |-> 1]
                ELSE Onward("stop", 1)
      /\ mates' = IF BetweenPeriods THEN mates ELSE {}
  BY DEF set_stop_all, StopTest, axisVars, cyclicVars
<1>2. StoringInv'
  <2>1. cmd'.does = "store" => cmd'.at = 1 /\ csp[1].status = "running"
    BY <1>1 DEF Onward, Idle
  <2> QED BY <1>1, <2>1 DEF StoringInv
<1>3. CASE ~BetweenPeriods
  BY <1>1, <1>2, <1>3 DEF TogetherInv
<1>4. CASE BetweenPeriods
  <2>1. \A a \in mates : Due(a) = csp[a]
    BY <1>1 DEF Due, Idle
  <2>2. ASSUME NEW b \in mates
        PROVE  Due(b)' = IF csp[b].status = "running"
                         THEN [csp[b] EXCEPT !.status = "pre_stop"] ELSE csp[b]
    <3>1. b \in CspAxes /\ b \in Nat /\ 1 <= b /\ b <= NumAxes /\ NumAxes \in Nat
      BY MatesAreAxles, AxesAreFinite DEF Axles
    <3>2. CASE 1 \in CspAxes /\ csp[1].status = "running"
      <4>1. cmd'.does = "store" /\ cmd'.at = 1
        BY <1>1, <3>2
      <4> QED BY <1>1, <3>1, <4>1 DEF Due
    <3>3. CASE ~(1 \in CspAxes /\ csp[1].status = "running")
      <4>1. /\ 1 < NumAxes => cmd'.does = "stop" /\ cmd'.at = 2
            /\ ~(1 < NumAxes) => cmd'.does = "nothing"
        BY <1>1, <3>3 DEF Onward, Idle
      <4>2. csp[b].status = "running" => 1 < NumAxes /\ 2 <= b
        BY <3>1, <3>3
      <4> QED BY <1>1, <4>1, <4>2 DEF Due
    <3> QED BY <3>2, <3>3
  <2>3. \A b \in mates : csp[b] \in Plans
    BY MatesAreAxles DEF WalkInv, TypeOK
  <2>4. ASSUME NEW b \in mates, NEW d \in mates, Level(Due(b), Due(d))
        PROVE  Level(Due(b)', Due(d)')
    <3>1. Level(csp[b], csp[d])
      BY <2>1, <2>4
    <3>2. /\ csp[b] \in Plans /\ csp[d] \in Plans
          /\ Due(b)' = IF csp[b].status = "running"
                       THEN [csp[b] EXCEPT !.status = "pre_stop"] ELSE csp[b]
          /\ Due(d)' = IF csp[d].status = "running"
                       THEN [csp[d] EXCEPT !.status = "pre_stop"] ELSE csp[d]
      BY <2>2, <2>3
    <3>3. CASE csp[b].status = "running"
      BY <3>1, <3>2, <3>3 DEF Level, Plans
    <3>4. CASE csp[b].status # "running"
      BY <3>1, <3>2, <3>4 DEF Level
    <3> QED BY <3>3, <3>4
  <2>5. mates' = mates /\ \A b, d \in mates : (Behind(b) <=> Behind(d))
                                               /\ (Behind(b)' <=> Behind(d)')
    BY <1>1, <1>4, MatesAreAxles DEF Behind
  <2>6. TogetherInv'
    BY <1>1, <2>4, <2>5, NobodyAhead
  <2> QED BY <1>2, <2>6
<1> QED BY <1>2, <1>3, <1>4

\* Axes started at once on the same plan stay together, for any axes, files,
\* drives and frames.
THEOREM StartedTogether == Spec => []StaysTogether
<1>1. Init => TogetherInv /\ StoringInv
  BY DEF Init, TogetherInv, StoringInv, Idle
<1>2. WalkInv /\ TogetherInv /\ StoringInv /\ [Next]_vars => (TogetherInv /\ StoringInv)'
  <2> SUFFICES ASSUME WalkInv, TogetherInv, StoringInv, [Next]_vars
               PROVE  TogetherInv' /\ StoringInv'
    OBVIOUS
  <2>1. CASE \/ \E a \in Axles : DriveStarts(a) \/ DriveDrops(a)
             \/ \E a \in PvAxes, v \in Velocities : set_target_velocity(a, v)
             \/ UNCHANGED vars
    <3>1. UNCHANGED <<csp, cmd, mates, next, allOp>>
      BY <2>1 DEF DriveStarts, DriveDrops, set_target_velocity, axisVars, cyclicVars, vars
    <3> QED BY <3>1, NothingTogether DEF Behind
  <2>2. CASE \E a \in Axles : main_task(a)
    BY <2>2, ServiceTogether, CspTogether DEF main_task
  <2>3. CASE (\E op \in BOOLEAN : Exchange(op)) \/ ExchangeLost
    BY <2>3, ExchangeTogether
  <2>4. CASE (\E f \in Files : load_tp_file(f))
    BY <2>4, LoadTogether DEF load_tp_file, Idle
  <2>5. CASE set_start_all \/ set_stop_all
    BY <2>5, StartAllTogether, StopAllTogether
  <2>6. CASE CommandStep
    BY <2>6, LoadTogether, LoopTogether DEF CommandStep, Halfway
  <2> QED BY <2>1, <2>2, <2>3, <2>4, <2>5, <2>6 DEF Next, Command
<1>3. WalkInv /\ TogetherInv => StaysTogether
  <2> SUFFICES ASSUME WalkInv, TogetherInv, BetweenPeriods, ~Halfway,
                      NEW a \in mates, NEW b \in mates, SamePlan(csp[a], csp[b])
               PROVE  Level(csp[a], csp[b])
    BY DEF StaysTogether, Level
  <2>1. Due(a) = csp[a] /\ Due(b) = csp[b]
    BY DEF Due, Halfway
  <2>2. Behind(a) <=> Behind(b)
    BY MatesAreAxles
  <2> QED BY <2>1, <2>2 DEF TogetherInv
<1> QED BY <1>1, <1>2, <1>3, Walks, PTL DEF Spec
=============================================================================
