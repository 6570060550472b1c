---------------------------- MODULE CiA402Drive ----------------------------
(***************************************************************************)
(* The servo drive at the other end of the bus.  It is hardware, outside   *)
(* src/: this is the part of the CiA 402 device state machine that the     *)
(* control words of nservo.c and nservo_run.c drive and that their status  *)
(* word decoding relies on.                                                *)
(***************************************************************************)
EXTENDS DS402

\* The status word bits a drive shows in each state (voltage enabled and
\* quick stop inactive wherever the state leaves them open).
StatusPattern(s) ==
    CASE s = "no_ready_to_switch_on" -> {}
      [] s = "switch_on_disable"     -> {4, 6}
      [] s = "ready_to_switch_on"    -> {0, 4, 5}
      [] s = "switched_on"           -> {0, 1, 4, 5}
      [] s = "operation_enable"      -> {0, 1, 2, 4, 5}
      [] s = "quick_stop_active"     -> {0, 1, 2, 4}
      [] s = "fault_reaction_active" -> {0, 1, 2, 3}
      [] s = "fault"                 -> {3}

\* The commands a control word stands for.
IsDisableVoltage(cw) == 7 \notin cw /\ 1 \notin cw
IsQuickStop(cw)      == 7 \notin cw /\ 1 \in cw /\ 2 \notin cw
IsShutdown(cw)       == 7 \notin cw /\ {1, 2} \subseteq cw /\ 0 \notin cw
IsSwitchOn(cw)       == 7 \notin cw /\ {0, 1, 2} \subseteq cw /\ 3 \notin cw
IsEnable(cw)         == 7 \notin cw /\ {0, 1, 2, 3} \subseteq cw

Powered == {"ready_to_switch_on", "switched_on", "operation_enable",
            "quick_stop_active"}

\* The state a drive in state s enters when it receives control word cw after
\* prev.  Only these arcs depend on the control word; a drive initialises,
\* faults and ends its fault reaction on its own.  onEdge says whether a
\* fault is reset by the rising edge of bit 7 or by its level.
DriveTransition(s, cw, prev, onEdge) ==
    IF s = "fault"
    THEN IF 7 \in cw /\ (onEdge => 7 \notin prev) THEN "switch_on_disable" ELSE s
    ELSE IF IsDisableVoltage(cw) /\ s \in Powered THEN "switch_on_disable"
    ELSE IF IsQuickStop(cw) /\ s \in Powered \ {"quick_stop_active"}
    THEN IF s = "operation_enable" THEN "quick_stop_active" ELSE "switch_on_disable"
    ELSE IF IsShutdown(cw) /\ s \in {"switch_on_disable", "switched_on", "operation_enable"}
    THEN "ready_to_switch_on"
    ELSE IF IsSwitchOn(cw) /\ s \in {"ready_to_switch_on", "operation_enable"}
    THEN "switched_on"
    ELSE IF IsEnable(cw) /\ s = "switched_on" THEN "operation_enable"
    ELSE s
=============================================================================
