------------------------------ MODULE CSPAxis ------------------------------
(***************************************************************************)
(* One axis in cyclic synchronous position mode under nservo_run: the      *)
(* cyclic thread walks a table of trajectory planners point by point       *)
(* (get_next_pos) while the command thread replaces the table              *)
(* (Tp_arrays_paster), starts and stops it, all without a lock.            *)
(*                                                                         *)
(* Where a segment's points lie is abstracted to the place it starts from, *)
(* the place it leads to and the number of the point.  A place is a pair   *)
(* <<name, scale>>: a waypoint of the arrays times the scale it was        *)
(* multiplied with, or one of three places that are no waypoint.  The last *)
(* point of a segment counts as its end, which the code leaves one step    *)
(* short; Axes puts every point where it lies.  The axis stands at         *)
(* position 0 at first, which is where the cleared image keeps it.         *)
(***************************************************************************)
EXTENDS Integers, Sequences

CONSTANTS
    Waypoints,  \* the positions of TP arrays
    Plans,      \* sequences of waypoints a client sends
    Points,     \* points of a segment: time * 1000000 / period_ns
    Scales,     \* values of the Scale parameter and of set_scale
    Clients     \* the clients considered, each the set of its liberties

ASSUME PlansAssumption == Plans \subseteq Seq(Waypoints) \ {<<>>}
ASSUME PointsAssumption == Points \in Nat \ {0}
ASSUME ScalesAssumption == Scales \subseteq Nat \ {0}

(***************************************************************************)
(* The program accepts every command in nearly every state.  A client      *)
(* without liberties loads and rescales only a stopped axis whose feedback *)
(* has caught up, sets a scale before it loads and keeps it, stops only    *)
(* cyclic plans and starts only what loaded without an error.              *)
(***************************************************************************)
AllLiberties == {"load while stopping", "load unsettled", "rescale",
                 "stop one pass", "start after error"}
ASSUME ClientsAssumption == Clients \subseteq SUBSET AllLiberties

VARIABLES
    csp,        \* struct axis_csp_status_t: status, current_tp, tp_num, cyclic
    tp,         \* the table of planners csp.tp points at
    scale,      \* axis_status.scale
    cur,        \* axis_status.current_position
    pc,         \* the cyclic thread's next access
    cpc,        \* the command thread's next access
    job,        \* its local variables while it loads
    last,       \* the point last written to Target_position
    sent,       \* where the drive stands after the last frame
    wire,       \* the position in the frame on its way back
    client      \* its liberties, and whether its last load was answered
                \* without an error

cyclicVars == <<cur, pc, last, sent, wire>>
vars == <<csp, tp, scale, cur, pc, cpc, job, last, sent, wire, client>>

Home == <<"home", 0>>           \* where the axis stands at the start
Midway == <<"midway", 0>>       \* between the ends of a segment
Elsewhere == <<"elsewhere", 0>> \* what no plan and no measurement says
NoWaypoint == {Home, Midway, Elsewhere}
Places == NoWaypoint \cup (Waypoints \X Scales)

\* What a planner holds of a place: a waypoint, or a measured place divided
\* by the scale of that moment.  Dividing by a scale of 0 gives no place.
Waypoint(w) == [at |-> <<w, 0>>, by |-> 0]
Measured(p, s) == [at |-> IF s = 0 THEN Elsewhere ELSE p, by |-> s]
Ends == [at : Waypoints \X {0}, by : {0}] \cup [at : Places, by : Scales \cup {0}]

\* Where an end lies once multiplied by scale s.
Scaled(e, s) ==
    IF e.by = 0 /\ s # 0 /\ e.at[1] \in Waypoints THEN <<e.at[1], s>>
    ELSE IF e.by = s /\ s # 0 THEN e.at
    ELSE Elsewhere

Planner(origin, target) ==
    [origin |-> origin, target |-> target, points |-> Points, point |-> 0]
Cleared ==
    [origin |-> Measured(Elsewhere, 0), target |-> Measured(Elsewhere, 0),
     points |-> 0, point |-> 0]
Planners == [origin : Ends, target : Ends, points : {0, Points}, point : 0..(Points - 1)]

Moves == [from : Places, to : Places, k : 0..(Points - 1), n : {0, 1, Points}]
Garbage == [from |-> Elsewhere, to |-> Elsewhere, k |-> 0, n |-> 0]

\* The place the axis rests at when m is the last point it was sent.
RestsAt(m) == IF m.k + 1 = m.n THEN m.to ELSE Midway

TypeOK ==
    /\ csp \in [status : {"stop", "ready", "running", "pre_stop"},
                current_tp : Nat, tp_num : Nat, cyclic : BOOLEAN]
    /\ tp \in Seq(Planners)
    /\ scale \in Scales \cup {0}
    /\ {cur, sent, wire} \subseteq Places
    /\ pc \in {"cycle", "point", "count", "wrap", "end", "send"}
    /\ cpc \in {"idle", "alloc", "count", "fill", "ready", "start", "stop"}
    /\ job \in [plan : Plans \cup {<<>>}, origin : Ends]
    /\ last \in Moves
    /\ client \in [liberties : Clients, loaded : BOOLEAN]

NoJob == [plan |-> <<>>, origin |-> Cleared.origin]

Init ==
    /\ csp = [status |-> "stop", current_tp |-> 0, tp_num |-> 0, cyclic |-> FALSE]
    /\ tp = <<>>
    /\ scale = 0
    /\ cur = Home /\ sent = Home /\ wire = Home
    /\ pc = "cycle" /\ cpc = "idle"
    /\ job = NoJob
    /\ last = [from |-> Home, to |-> Home, k |-> 0, n |-> 1]
    /\ client \in [liberties : Clients, loaded : {FALSE}]

(***************************************************************************)
(* The cyclic thread: csp_update_target_position() and get_next_pos().     *)
(***************************************************************************)
\* The axis is not started, or its master not in ALL_OP.
CycleIdle ==
    /\ pc = "cycle"
    /\ pc' = "send"
    /\ UNCHANGED <<csp, tp, scale, cur, cpc, job, last, sent, wire, client>>

Moving == csp.status \in {"running", "pre_stop"}

CycleStarted ==
    /\ pc = "cycle"
    /\ cur' = wire
    /\ pc' = IF Moving THEN "point" ELSE "send"
    /\ UNCHANGED <<csp, tp, scale, cpc, job, last, sent, wire, client>>

InTable == csp.current_tp < Len(tp)

NextPointTooMany ==  \* slip: < for the count before it is raised
    /\ pc = "point" /\ InTable
    /\ LET i == csp.current_tp + 1
           t == tp[i]
           more == t.point < t.points
       IN  /\ last' = [from |-> Scaled(t.origin, scale), to |-> Scaled(t.target, scale),
                       k |-> t.point, n |-> t.points]
           /\ tp' = [tp EXCEPT ![i].point = IF more THEN @ + 1 ELSE 0]
           /\ pc' = IF more THEN "send" ELSE "count"
    /\ UNCHANGED <<csp, scale, cur, cpc, job, sent, wire, client>>

\* The next point of planner current_tp, which counts it.
NextPoint ==
    /\ pc = "point" /\ InTable
    /\ LET i == csp.current_tp + 1
           t == tp[i]
           more == t.point + 1 < t.points
       IN  /\ last' = [from |-> Scaled(t.origin, scale), to |-> Scaled(t.target, scale),
                       k |-> t.point, n |-> t.points]
           /\ tp' = [tp EXCEPT ![i].point = IF more THEN @ + 1 ELSE 0]
           /\ pc' = IF more THEN "send" ELSE "count"
    /\ UNCHANGED <<csp, scale, cur, cpc, job, sent, wire, client>>

\* current_tp beyond the table: whatever lies there is read and counted.
NextPointOutside ==
    /\ pc = "point" /\ ~InTable
    /\ last' = Garbage
    /\ pc' \in {"send", "count"}
    /\ UNCHANGED <<csp, tp, scale, cur, cpc, job, sent, wire, client>>

NextPlannerBeyond ==  \* slip: <= for <
    /\ pc = "count"
    /\ csp' = [csp EXCEPT !.current_tp = @ + 1]
    /\ pc' = IF csp'.current_tp <= csp.tp_num THEN "send" ELSE "wrap"
    /\ UNCHANGED <<tp, scale, cur, cpc, job, last, sent, wire, client>>

NextPlannerCutsShort ==  \* slip: pre_stop ends the plan at the next planner
    /\ pc = "count"
    /\ csp' = [csp EXCEPT !.current_tp = @ + 1]
    /\ pc' = IF csp'.current_tp < csp.tp_num /\ csp.status # "pre_stop"
             THEN "send" ELSE "wrap"
    /\ UNCHANGED <<tp, scale, cur, cpc, job, last, sent, wire, client>>

\* The planner is done: on to the next one, or to the end of the plan.
NextPlanner ==
    /\ pc = "count"
    /\ csp' = [csp EXCEPT !.current_tp = @ + 1]
    /\ pc' = IF csp'.current_tp < csp.tp_num THEN "send" ELSE "wrap"
    /\ UNCHANGED <<tp, scale, cur, cpc, job, last, sent, wire, client>>

RoundFromStart ==  \* slip: the next round begins with planner 0
    /\ pc = "wrap" /\ csp.cyclic /\ csp.status # "pre_stop"
    /\ csp' = [csp EXCEPT !.current_tp = 0]
    /\ pc' = "send"
    /\ UNCHANGED <<tp, scale, cur, cpc, job, last, sent, wire, client>>

\* A cyclic plan goes round again, past its first planner.
NextRound ==
    /\ pc = "wrap" /\ csp.cyclic /\ csp.status # "pre_stop"
    /\ csp' = [csp EXCEPT !.current_tp = 1]
    /\ pc' = "send"
    /\ UNCHANGED <<tp, scale, cur, cpc, job, last, sent, wire, client>>

PlanOverUnlessCyclic ==  \* slip: a cyclic plan ignores pre_stop and stays
    /\ pc = "wrap" /\ ~(csp.cyclic /\ csp.status # "pre_stop")
    /\ pc' = IF csp.cyclic THEN "send" ELSE "end"
    /\ csp' = IF csp.cyclic THEN [csp EXCEPT !.current_tp = 1] ELSE csp
    /\ UNCHANGED <<tp, scale, cur, cpc, job, last, sent, wire, client>>

\* Anything else ends it, whatever is commanded between the test and the store.
PlanOver ==
    /\ pc = "wrap" /\ ~(csp.cyclic /\ csp.status # "pre_stop")
    /\ pc' = "end"
    /\ UNCHANGED <<csp, tp, scale, cur, cpc, job, last, sent, wire, client>>

PlanEnds ==
    /\ pc = "end"
    /\ csp' = [csp EXCEPT !.status = "stop", !.current_tp = 0]
    /\ pc' = "send"
    /\ UNCHANGED <<tp, scale, cur, cpc, job, last, sent, wire, client>>

\* The drive follows the frame's set point; the frame that brings it carries
\* back where the drive stood before.
Send ==
    /\ pc = "send"
    /\ wire' = sent
    /\ sent' = RestsAt(last)
    /\ pc' = "cycle"
    /\ UNCHANGED <<csp, tp, scale, cur, cpc, job, last, client>>

Cycle ==
    \/ CycleStarted \/ NextPoint \/ NextPointOutside
    \/ NextPlanner \/ NextRound \/ PlanOver \/ PlanEnds \/ Send

(***************************************************************************)
(* The command thread.                                                     *)
(***************************************************************************)
Takes(liberty) == liberty \in client.liberties

Settled == cur = RestsAt(last) /\ sent = cur /\ wire = cur

MayLoad(s) ==
    /\ csp.status = "pre_stop" => Takes("load while stopping")
    /\ Settled \/ Takes("load unsettled")
    /\ (s = scale /\ s # 0) \/ Takes("rescale")

\* Tp_arrays_paster() up to the end of the parameters.  The origin is taken
\* before the parameters are read.  An error on the way leaves the parameters
\* that were read in place.
LoadParameters(plan, cyclic, s, ok) ==
    /\ cpc = "idle"
    /\ csp.status # "running"
    /\ MayLoad(s)
    /\ job' = IF ok THEN [plan |-> plan, origin |-> Measured(cur, scale)] ELSE NoJob
    /\ csp' = [csp EXCEPT !.cyclic = cyclic]
    /\ scale' = s
    /\ cpc' = IF ok THEN "alloc" ELSE "idle"
    /\ client' = [client EXCEPT !.loaded = FALSE]
    /\ UNCHANGED <<tp, cyclicVars>>

Segments == Len(job.plan) + IF csp.cyclic THEN 1 ELSE 0

\* A cleared table, then its length, then one planner after the other.
LoadTable ==
    /\ cpc = "alloc"
    /\ tp' = [i \in 1..Segments |-> Cleared]
    /\ cpc' = "count"
    /\ UNCHANGED <<csp, scale, job, client, cyclicVars>>

LoadCountOpen ==  \* slip: the closing planner is not counted
    /\ cpc = "count"
    /\ csp' = [csp EXCEPT !.tp_num = Len(job.plan)]
    /\ cpc' = "fill"
    /\ UNCHANGED <<tp, scale, job, client, cyclicVars>>

LoadCount ==
    /\ cpc = "count"
    /\ csp' = [csp EXCEPT !.tp_num = Segments]
    /\ cpc' = "fill"
    /\ UNCHANGED <<tp, scale, job, client, cyclicVars>>

\* The closing segment of a cyclic plan leads back to the first waypoint.
LoadPlanner ==
    /\ cpc = "fill"
    /\ \E i \in 1..Len(tp) :
          LET target == Waypoint(job.plan[IF i > Len(job.plan) THEN 1 ELSE i]) IN
          /\ tp[i].points = 0 /\ \A j \in 1..(i - 1) : tp[j].points # 0
          /\ tp' = [tp EXCEPT ![i] = Planner(job.origin, target)]
          /\ job' = [job EXCEPT !.origin = target]
          /\ cpc' = IF i = Len(tp) THEN "ready" ELSE "fill"
    /\ UNCHANGED <<csp, scale, client, cyclicVars>>

\* A pair of the array does not parse: an error is answered, the table stays.
LoadPlannerFails ==
    /\ cpc = "fill"
    /\ job' = NoJob
    /\ cpc' = "idle"
    /\ UNCHANGED <<csp, tp, scale, client, cyclicVars>>

LoadDone ==
    /\ cpc = "ready"
    /\ csp' = [csp EXCEPT !.status = "ready"]
    /\ client' = [client EXCEPT !.loaded = TRUE]
    /\ job' = NoJob
    /\ cpc' = "idle"
    /\ UNCHANGED <<tp, scale, cyclicVars>>

SetScale(s) ==
    /\ cpc = "idle"
    /\ (csp.status = "stop" /\ Settled) \/ Takes("rescale")
    /\ scale' = s
    /\ UNCHANGED <<csp, tp, cpc, job, client, cyclicVars>>

\* set_start, set_start_all: the status is read, then written.
StartRead ==
    /\ cpc = "idle" /\ csp.status = "ready"
    /\ client.loaded \/ Takes("start after error")
    /\ cpc' = "start"
    /\ UNCHANGED <<csp, tp, scale, job, client, cyclicVars>>

StartWrite ==
    /\ cpc = "start"
    /\ csp' = [csp EXCEPT !.status = "running"]
    /\ cpc' = "idle"
    /\ UNCHANGED <<tp, scale, job, client, cyclicVars>>

\* set_stop, set_stop_all: the status is read, then written.
StopRead ==
    /\ cpc = "idle" /\ csp.status = "running"
    /\ csp.cyclic \/ Takes("stop one pass")
    /\ cpc' = "stop"
    /\ UNCHANGED <<csp, tp, scale, job, client, cyclicVars>>

StopWrite ==
    /\ cpc = "stop"
    /\ csp' = [csp EXCEPT !.status = "pre_stop"]
    /\ cpc' = "idle"
    /\ UNCHANGED <<tp, scale, job, client, cyclicVars>>

LoadStep == LoadTable \/ LoadCount \/ LoadPlanner \/ LoadPlannerFails \/ LoadDone

Command ==
    \/ \E plan \in Plans, cyclic, ok \in BOOLEAN, s \in Scales \cup {scale} :
          LoadParameters(plan, cyclic, s, ok)
    \/ LoadStep
    \/ \E s \in Scales : SetScale(s)
    \/ StartRead \/ StartWrite \/ StopRead \/ StopWrite

Next == CycleIdle \/ Cycle \/ Command

Spec == Init /\ [][Next]_vars

\* The cyclic thread runs every period and the axis is started again and
\* again; a command, once taken up, is carried out.  A planner beyond the
\* table is done at some point too: what stands for its current_point is
\* counted up on each visit.
Fairness ==
    /\ WF_vars(CycleIdle \/ Cycle)
    /\ SF_vars(CycleStarted)
    /\ SF_vars(NextPointOutside /\ pc' = "count")
    /\ WF_vars(LoadStep \/ StartWrite \/ StopWrite)

FairSpec == Spec /\ Fairness

(***************************************************************************)
(* Properties.                                                             *)
(***************************************************************************)
Follows(m, n) ==
    \/ n.from = m.from /\ n.to = m.to /\ n.n = m.n /\ n.k = m.k + 1
    \/ n.k = 0 /\ n.from = RestsAt(m) /\ n.from \notin {Midway, Elsewhere}

\* The set points form one unbroken path: the next point of the segment, or
\* the first point of a segment that begins where the last one ended, across
\* planners, rounds of a cyclic plan, stops and loads (get_next_pos() and the
\* table Tp_arrays_paster() leaves).
PathContinuous ==
    [][client.liberties = {} /\ last' # last => Follows(last, last')]_vars

\* get_next_pos() never reads beyond the table, unless a client replaces the
\* table of an axis that still moves or starts what did not load.
ReadsInsideTable ==
    pc = "point" /\ ~Takes("load while stopping") /\ ~Takes("start after error")
        => InTable

\* An axis that stops has walked its plan to the end, never part of it.
StopsAtPlanEnd ==
    [][client.liberties = {} /\ Moving /\ csp'.status = "stop"
          => RestsAt(last) = Scaled(tp[Len(tp)].target, scale)]_vars

\* The length the cyclic thread compares with is the length of the table it
\* walks, whatever loads failed or landed in a moving axis, but for the
\* instant between the two stores.
CountMatchesTable == cpc # "count" => csp.tp_num = Len(tp)

\* set_stop brings the motion to an end, unless the table is replaced first.
PreStopEnds ==
    (csp.status = "pre_stop") ~> (csp.status # "pre_stop" \/ cpc = "alloc")

\* set_stop never makes a stopped axis move again.
StopNeverRestarts == [][csp.status = "stop" => csp'.status # "pre_stop"]_vars
=============================================================================
