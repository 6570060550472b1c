----------------------------- MODULE SetPoints -----------------------------
(***************************************************************************)
(* What a profile position axis promises, without the counting of periods  *)
(* it is done with: one move at a time.  While a move is open its goal may *)
(* change to any place that was asked for; then the goal is fixed, the     *)
(* drive takes it and goes there, and the move ends when the drive stands  *)
(* on it.  Only a drive that lost its set point excuses a move from that.  *)
(***************************************************************************)
CONSTANTS
    Positions,
    NoSetPoint      \* the drive has no set point

VARIABLES
    asked,      \* where the axis stood, and every place asked for
    phase,      \* of the move: open or fixed
    goal,       \* of the move
    taken,      \* the set point the drive has
    pos,        \* where it stands
    excused     \* the drive may have lost the set point of a fixed move

vars == <<asked, phase, goal, taken, pos, excused>>

Init ==
    /\ pos \in Positions
    /\ asked = {pos}
    /\ phase = "open" /\ excused = FALSE
    /\ goal \in Positions
    /\ taken = NoSetPoint

Ask ==
    /\ \E p \in Positions : asked' = asked \cup {p}
    /\ UNCHANGED <<phase, goal, taken, pos, excused>>

Choose ==
    /\ phase = "open"
    /\ goal' \in asked
    /\ UNCHANGED <<asked, phase, taken, pos, excused>>

Fix ==
    /\ phase = "open" /\ goal \in asked
    /\ phase' = "fixed"
    /\ excused' \in BOOLEAN
    /\ UNCHANGED <<asked, goal, taken, pos>>

Take ==
    /\ phase = "fixed"
    /\ taken' = goal
    /\ UNCHANGED <<asked, phase, goal, pos, excused>>

Go ==
    /\ taken # NoSetPoint
    /\ pos' = taken
    /\ UNCHANGED <<asked, phase, goal, taken, excused>>

Lose ==
    /\ taken' = NoSetPoint
    /\ excused' = (phase = "fixed")
    /\ UNCHANGED <<asked, phase, goal, pos>>

Finish ==
    /\ phase = "fixed"
    /\ excused \/ (taken = goal /\ pos = goal)
    /\ phase' = "open" /\ excused' = FALSE
    /\ UNCHANGED <<asked, goal, taken, pos>>

Next == Ask \/ Choose \/ Fix \/ Take \/ Go \/ Lose \/ Finish

Spec == Init /\ [][Next]_vars
=============================================================================
