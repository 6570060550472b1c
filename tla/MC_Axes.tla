------------------------------ MODULE MC_Axes ------------------------------
(* Two axes in CSP mode and one in PV mode; files whose segments end         *)
(* smoothly or beyond their end, cannot be driven, or do not parse.          *)
EXTENDS Axes

MCMode == <<"csp", "csp", "pv">>

Pair(pos, points) == [pos |-> pos, points |-> points, blank |-> FALSE]
Line(axis, cyclic, pairs) ==
    [axis |-> axis, cyclic |-> cyclic, accel |-> 25, decel |-> 25, max |-> 35,
     pairs |-> pairs, defect |-> "none"]

Onwards == <<Pair(56, 3), Pair(82, 3)>>
Round == <<Pair(16, 2), Pair(0, 2)>>
Broken == <<Pair(16, 2), [Pair(0, 1) EXCEPT !.blank = TRUE]>>

MCFiles == {
    \* both axes on the same round
    <<Line(0, TRUE, Round), Line(1, TRUE, Round)>>,
    \* rounding leads beyond an end; a pair of the next line is behind a blank
    <<Line(0, FALSE, Onwards), Line(1, FALSE, Broken)>>,
    \* fails behind the parameters, which make a plan that is ready go round
    <<[Line(0, TRUE, Onwards) EXCEPT !.defect = "no bracket"]>> }
=============================================================================
