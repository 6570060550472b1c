----------------------------- MODULE Trajectory -----------------------------
(***************************************************************************)
(* One segment of a trajectory: what trajectory_planner() makes of it and  *)
(* where get_next_pos() puts its points.  The code computes in doubles;    *)
(* here every number is exact: instants are counted in parts of a point,   *)
(* places in units of which Unit make one position, and a segment whose    *)
(* time of acceleration is no whole number of parts is not considered.     *)
(* Scale is 1.                                                             *)
(***************************************************************************)
EXTENDS Integers

CONSTANTS
    Parts,      \* parts of a point
    Saturates   \* the machine makes 0 of a negative double that becomes a uint32_t

ASSUME PartsAssumption == Parts \in Nat \ {0} /\ Parts % 2 = 0
ASSUME SaturatesAssumption == Saturates \in BOOLEAN

Unit == 2 * Parts * Parts

Squared(x) == x * x

Distance(x, y) == IF x < y THEN y - x ELSE x - y

\* delta >= 0: within so many points there is a way to speed up and slow down.
Reachable(accel, decel, way, points) ==
    2 * (accel + decel) * way <= accel * decel * points * points

\* t0, the smaller root of a0 t^2 + b0 t + c0.
AccelTimes(accel, decel, way, points) ==
    {t \in 0..(Parts * points) :
        /\ (accel + decel) * t <= decel * points * Parts
        /\ accel * (accel + decel) * t * t + 2 * decel * way * Parts * Parts
              = 2 * accel * decel * points * Parts * t
        /\ (accel * t) % decel = 0}

Exact(accel, decel, way, points) ==
    Reachable(accel, decel, way, points) => AccelTimes(accel, decel, way, points) # {}

\* (uint32_t)(t + 0.5)
Rounded(t) == (2 * t + Parts) \div (2 * Parts)

\* A planner's fields, but for the point it has got to.
Segment(origin, target, points, accel_pos, decel_pos, speed, accel_end, decel_start) ==
    [origin_pos |-> origin, target_pos |-> target, points_num |-> points,
     direction |-> IF target < origin THEN -1 ELSE 1,
     accel_pos |-> accel_pos, decel_pos |-> decel_pos, uniform_speed |-> speed,
     point_accel_end |-> accel_end, point_decel_start |-> decel_start]

Unplanned(origin, target, points) == Segment(origin, target, points, 0, 0, 0, 0, 0)

\* Both errors, no way in this time and none at this speed, leave the
\* coefficients as calloc() made them; nobody reads what is returned.
trajectory_planner(p, origin, target, points) ==
    LET way == Distance(origin, target)
        t0  == CHOOSE t \in AccelTimes(p.accel, p.decel, way, points) : TRUE
        t1  == Parts * points - (p.accel * t0) \div p.decel
        accel_pos == p.accel * t0 * t0
    IN  IF ~Reachable(p.accel, p.decel, way, points) \/ p.accel * t0 > p.max * Parts
        THEN Unplanned(origin, target, points)
        ELSE Segment(origin, target, points,
                     accel_pos, accel_pos + 2 * p.accel * t0 * (t1 - t0),
                     2 * Parts * p.accel * t0, Rounded(t0), Rounded(t1))

Planned(tp) == tp.point_decel_start > 0

WayFromOrigin(p, tp, index) ==  \* slip: the points already passed count again
    IF index < tp.point_accel_end THEN p.accel * index * index * Parts * Parts
    ELSE IF index > tp.point_decel_start
    THEN tp.decel_pos + p.decel * Squared(index - tp.point_decel_start) * Parts * Parts
    ELSE tp.accel_pos + tp.uniform_speed * index

\* How far point number index lies behind the origin.
Way(p, tp, index) ==
    IF index < tp.point_accel_end THEN p.accel * index * index * Parts * Parts
    ELSE IF index > tp.point_decel_start
    THEN tp.decel_pos + p.decel * Squared(index - tp.point_decel_start) * Parts * Parts
    ELSE tp.accel_pos + tp.uniform_speed * (index - tp.point_accel_end)

\* (uint32_t)value.  Of a negative value, for which C leaves it open, the
\* machine makes 0 or the whole number nearer to 0.
Position(value) ==
    IF value >= 0 THEN value \div Unit
    ELSE IF Saturates THEN 0 ELSE -((-value) \div Unit)

\* Point number index as it is sent.
Point(p, tp, index) ==
    Position(tp.origin_pos * Unit + tp.direction * Way(p, tp, index))

(***************************************************************************)
(* What the properties of the axes say of points.                          *)
(***************************************************************************)
\* Between the ends of the segment, but for a quarter of a step's length that
\* rounding may lead beyond its end, and the part of a position cut off.
OnItsWay(tp, pos) ==
    LET slack == 1 + (tp.uniform_speed \div (4 * Unit)) IN
    IF tp.direction = 1 THEN tp.origin_pos <= pos /\ pos <= tp.target_pos + slack
    ELSE tp.target_pos <= pos + slack /\ pos <= tp.origin_pos

\* No longer than two periods take at this speed.
ShortStep(speed, from, to) == Distance(from, to) <= 2 * speed + 1
=============================================================================
