------------------------------- MODULE DS402 -------------------------------
(***************************************************************************)
(* The CiA 402 words and states as ds402.c, ds402.h and axis_start() of    *)
(* nservo_run.c use them.  A 16-bit word is the set of its bits that are   *)
(* one: C's (w & MASK) is an intersection, (w | BITS) a union and          *)
(* (w & ~BITS) a difference.                                               *)
(***************************************************************************)
EXTENDS Integers

Word == SUBSET (0..15)

AxleStates == {"no_ready_to_switch_on", "switch_on_disable",
               "ready_to_switch_on", "switched_on", "operation_enable",
               "quick_stop_active", "fault_reaction_active", "fault"}

\* get_axle_state() tests two masks, in the order given here.
Mask4F(w) == w \cap {0, 1, 2, 3, 6}
Mask6F(w) == w \cap {0, 1, 2, 3, 5, 6}

get_axle_state(w) ==
    IF Mask4F(w) = {6} THEN "switch_on_disable"
    ELSE IF Mask6F(w) = {0, 5} THEN "ready_to_switch_on"
    ELSE IF Mask6F(w) = {0, 1, 5} THEN "switched_on"
    ELSE IF Mask6F(w) = {0, 1, 2, 5} THEN "operation_enable"
    ELSE IF Mask6F(w) = {0, 1, 2} THEN "quick_stop_active"
    ELSE IF Mask4F(w) = {0, 1, 2, 3} THEN "fault_reaction_active"
    ELSE IF Mask4F(w) = {3} THEN "fault"
    ELSE "no_ready_to_switch_on"

\* Bits of the status word the programs test one at a time.
FaultBit  == 3
TargetReachedBit == 10

\* The control words, each built on the constant 0 unless an argument says
\* which word the macro extends.
contrlword_shutdown(c)         == (c \cup {1, 2}) \ {0, 7}
contrlword_switch_on(c)        == (c \cup {0, 1, 2}) \ {3, 7}
contrlword_enable_operation(c) == (c \cup {0, 1, 2, 3}) \ {7}
contrlword_new_set_point(c)    == c \cup {4}

FaultReset      == {7}              \* the literal 0x80
EnableOperation == {0, 1, 2, 3}     \* the literal 0xf
NewSetPointBit  == 4

(***************************************************************************)
(* axis_start(ns_axis, status, mode): the control word it leaves behind,   *)
(* whether it also writes Modes_of_operation, and whether it returns 1.    *)
(***************************************************************************)
StartControlword(sw, cw) ==
    LET s == get_axle_state(sw) IN
    IF FaultBit \in sw THEN FaultReset
    ELSE IF s \in {"no_ready_to_switch_on", "switch_on_disable"}
         THEN contrlword_shutdown({})
    ELSE IF s = "ready_to_switch_on" THEN contrlword_switch_on({})
    ELSE IF s = "switched_on" THEN contrlword_enable_operation({})
    ELSE cw

\* Slip: the mode only once the drive is in operation.
StartWritesModeLate(sw) ==
    FaultBit \notin sw /\ get_axle_state(sw) = "operation_enable"

StartWritesMode(sw) == FaultBit \notin sw /\ get_axle_state(sw) = "switched_on"

Started(sw) == FaultBit \notin sw /\ get_axle_state(sw) = "operation_enable"
=============================================================================
