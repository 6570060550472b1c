-------------------------- MODULE CSPAxis_proofs ---------------------------
(***************************************************************************)
(* That the cyclic thread of CSPAxis stays inside the table of planners,   *)
(* for every set of plans, however commands and cycles interleave, as long *)
(* as no client replaces the table of a moving axis or starts what did not *)
(* load; that the table and its length agree for every client; and that    *)
(* what a careful client's axis is sent is one unbroken path, which ends   *)
(* where its plan does.                                                    *)
(***************************************************************************)
EXTENDS CSPAxis, TLAPS

Loading == {"alloc", "count", "fill", "ready"}

SafeClient == ~Takes("load while stopping") /\ ~Takes("start after error")

\* The table and its length, and what the loader holds of them.
TableInv ==
    /\ cpc \in {"alloc", "count", "fill"} => job.plan \in Plans
    /\ cpc \in {"count", "fill", "ready"} => Len(tp) >= 1
    /\ cpc \in {"count", "fill", "ready"} /\ csp.cyclic => Len(tp) >= 2
    /\ cpc = "count" => Len(tp) = Segments
    /\ cpc # "count" => csp.tp_num = Len(tp)

\* A safe client's axis: at rest it stands before the first planner, it moves
\* only over what has been loaded, and it is inside the table whenever the
\* cyclic thread has not just walked off its end.
WalkInv ==
    SafeClient =>
    /\ pc \in {"point", "count", "wrap", "end"} => Moving
    /\ cpc \in Loading => ~Moving /\ ~client.loaded
    /\ cpc = "start" => csp.status = "ready"
    /\ Moving \/ cpc \in {"start", "stop"} => client.loaded
    /\ client.loaded => Len(tp) >= 1 /\ (csp.cyclic => Len(tp) >= 2)
    /\ ~Moving => csp.current_tp = 0
    /\ Moving /\ pc \notin {"wrap", "end"} => csp.current_tp < Len(tp)

CSPInv == TypeOK /\ TableInv /\ WalkInv

(***************************************************************************)
(* Places and types.                                                       *)
(***************************************************************************)
LEMMA ScaledPlace ==
    ASSUME NEW e \in Ends, NEW s \in Scales \cup {0}
    PROVE  Scaled(e, s) \in Places
BY DEF Ends, Scaled, Places, NoWaypoint

LEMMA RestPlace ==
    ASSUME NEW m \in Moves
    PROVE  RestsAt(m) \in Places
BY DEF Moves, RestsAt, Places, NoWaypoint

LEMMA EndsOfPlans ==
    /\ Cleared \in Planners
    /\ \A w \in Waypoints : Waypoint(w) \in Ends
    /\ \A p \in Places, s \in Scales \cup {0} : Measured(p, s) \in Ends
<1>1. \A p \in Places, s \in Scales \cup {0} : Measured(p, s) \in Ends
  BY DEF Measured, Ends, Places, NoWaypoint
<1>2. \A w \in Waypoints : Waypoint(w) \in Ends
  BY DEF Waypoint, Ends
<1>3. Elsewhere \in Places
  BY DEF Places, NoWaypoint
<1>4. Cleared \in Planners
  BY <1>1, <1>3, PointsAssumption DEF Cleared, Planners
<1> QED BY <1>1, <1>2, <1>4

LEMMA InitTypeOK == Init => TypeOK
<1> SUFFICES ASSUME Init
             PROVE  TypeOK
  OBVIOUS
<1>1. Home \in Places
  BY DEF Places, NoWaypoint
<1>2. last \in Moves
  BY <1>1, PointsAssumption DEF Init, Moves
<1>3. job \in [plan : Plans \cup {<<>>}, origin : Ends]
  BY EndsOfPlans DEF Init, NoJob, Planners
<1>4. tp \in Seq(Planners)
  BY DEF Init
<1> QED BY <1>1, <1>2, <1>3, <1>4 DEF Init, TypeOK

LEMMA NextTypeOK == TypeOK /\ TableInv /\ [Next]_vars => TypeOK'
<1> SUFFICES ASSUME TypeOK, TableInv, [Next]_vars
             PROVE  TypeOK'
  OBVIOUS
<1> USE PointsAssumption
<1>1. CASE CycleIdle
  BY <1>1 DEF TypeOK, CycleIdle
<1>2. CASE CycleStarted
  BY <1>2 DEF TypeOK, CycleStarted
<1>3. CASE NextPoint
  <2> DEFINE i == csp.current_tp + 1
             t == tp[i]
  <2>1. i \in 1..Len(tp) /\ t \in Planners
    BY <1>3 DEF TypeOK, NextPoint, InTable
  <2>2. last' \in Moves
    <3>1. Scaled(t.origin, scale) \in Places /\ Scaled(t.target, scale) \in Places
      BY <2>1, ScaledPlace DEF TypeOK, Planners
    <3>2. t.point \in 0..(Points - 1) /\ t.points \in {0, 1, Points}
      BY <2>1 DEF Planners
    <3>3. last' = [from |-> Scaled(t.origin, scale), to |-> Scaled(t.target, scale),
                   k |-> t.point, n |-> t.points]
      BY <1>3 DEF NextPoint
    <3> HIDE DEF t
    <3> QED BY <3>1, <3>2, <3>3 DEF Moves
  <2>3. tp' \in Seq(Planners)
    <3> DEFINE u == [t EXCEPT !.point = IF t.point + 1 < t.points THEN t.point + 1 ELSE 0]
    <3>1. u \in Planners
      BY <2>1 DEF Planners
    <3>2. tp' = [tp EXCEPT ![i] = u]
      BY <1>3 DEF NextPoint
    <3> HIDE DEF u, i
    <3> QED BY <2>1, <3>1, <3>2 DEF TypeOK
  <2>4. pc' \in {"send", "count"}
    BY <1>3 DEF NextPoint
  <2> QED BY <1>3, <2>2, <2>3, <2>4 DEF TypeOK, NextPoint
<1>4. CASE NextPointOutside
  <2>1. Garbage \in Moves
    BY DEF Garbage, Moves, Places, NoWaypoint
  <2> QED BY <1>4, <2>1 DEF TypeOK, NextPointOutside
<1>5. CASE NextPlanner
  BY <1>5 DEF TypeOK, NextPlanner
<1>6. CASE NextRound \/ PlanOver \/ PlanEnds
  <2>1. CASE NextRound
    BY <2>1 DEF TypeOK, NextRound
  <2>2. CASE PlanOver
    BY <2>2 DEF TypeOK, PlanOver
  <2>3. CASE PlanEnds
    BY <2>3 DEF TypeOK, PlanEnds
  <2> QED BY <1>6, <2>1, <2>2, <2>3
<1>7. CASE Send
  BY <1>7, RestPlace DEF TypeOK, Send
<1>8. ASSUME NEW plan \in Plans, NEW cyclic \in BOOLEAN, NEW ok \in BOOLEAN,
             NEW s \in Scales \cup {scale}, LoadParameters(plan, cyclic, s, ok)
      PROVE  TypeOK'
  <2>1. s \in Scales \cup {0} /\ cur \in Places /\ scale \in Scales \cup {0}
    BY DEF TypeOK
  <2>2. job' \in [plan : Plans \cup {<<>>}, origin : Ends]
    BY <1>8, <2>1, EndsOfPlans DEF LoadParameters, NoJob, Planners
  <2>3. cpc' \in {"alloc", "idle"}
    BY <1>8 DEF LoadParameters
  <2> QED BY <1>8, <2>1, <2>2, <2>3 DEF TypeOK, LoadParameters, cyclicVars
<1>9. CASE LoadTable
  <2>1. Segments \in Nat
    BY <1>9, PlansAssumption DEF TypeOK, TableInv, LoadTable, Segments
  <2>2. tp' \in Seq(Planners)
    BY <1>9, <2>1, EndsOfPlans DEF LoadTable
  <2> QED BY <1>9, <2>2 DEF TypeOK, LoadTable, cyclicVars
<1>10. CASE LoadCount
  <2>1. Segments \in Nat
    BY <1>10, PlansAssumption DEF TypeOK, TableInv, LoadCount, Segments
  <2> QED BY <1>10, <2>1 DEF TypeOK, LoadCount, cyclicVars
<1>11. CASE LoadPlanner
  <2>1. PICK i \in 1..Len(tp) :
           LET target == Waypoint(job.plan[IF i > Len(job.plan) THEN 1 ELSE i]) IN
           /\ tp' = [tp EXCEPT ![i] = Planner(job.origin, target)]
           /\ job' = [job EXCEPT !.origin = target]
           /\ cpc' = IF i = Len(tp) THEN "ready" ELSE "fill"
    BY <1>11 DEF LoadPlanner
  <2> DEFINE target == Waypoint(job.plan[IF i > Len(job.plan) THEN 1 ELSE i])
  <2>2. job.plan \in Seq(Waypoints) /\ job.plan # <<>>
    BY <1>11, PlansAssumption DEF TableInv, LoadPlanner
  <2>3. job.plan[IF i > Len(job.plan) THEN 1 ELSE i] \in Waypoints
    BY <2>2
  <2>4. target \in Ends
    BY <2>3, EndsOfPlans
  <2> HIDE DEF target
  <2>5. Planner(job.origin, target) \in Planners
    BY <2>4 DEF TypeOK, Planner, Planners
  <2>6. tp' \in Seq(Planners) /\ job' \in [plan : Plans \cup {<<>>}, origin : Ends]
    BY <2>1, <2>4, <2>5 DEF TypeOK, target
  <2> QED BY <1>11, <2>1, <2>6 DEF TypeOK, LoadPlanner, cyclicVars
<1>12. CASE LoadPlannerFails
  <2>1. NoJob \in [plan : Plans \cup {<<>>}, origin : Ends]
    BY EndsOfPlans DEF NoJob, Planners
  <2> QED BY <1>12, <2>1 DEF TypeOK, LoadPlannerFails, cyclicVars
<1>13. CASE LoadDone
  <2>1. NoJob \in [plan : Plans \cup {<<>>}, origin : Ends]
    BY EndsOfPlans DEF NoJob, Planners
  <2> QED BY <1>13, <2>1 DEF TypeOK, LoadDone, cyclicVars
<1>14. ASSUME NEW s \in Scales, SetScale(s)
       PROVE  TypeOK'
  BY <1>14 DEF TypeOK, SetScale, cyclicVars
<1>15. CASE StartRead
  BY <1>15 DEF TypeOK, StartRead, cyclicVars
<1>16. CASE StartWrite
  BY <1>16 DEF TypeOK, StartWrite, cyclicVars
<1>17. CASE StopRead
  BY <1>17 DEF TypeOK, StopRead, cyclicVars
<1>18. CASE StopWrite
  BY <1>18 DEF TypeOK, StopWrite, cyclicVars
<1>19. CASE UNCHANGED vars
  BY <1>19 DEF TypeOK, vars
<1> QED
  BY <1>1, <1>2, <1>3, <1>4, <1>5, <1>6, <1>7, <1>8, <1>9, <1>10, <1>11,
     <1>12, <1>13, <1>14, <1>15, <1>16, <1>17, <1>18, <1>19
     DEF Next, Cycle, Command, LoadStep

(***************************************************************************)
(* The table and its length.                                               *)
(***************************************************************************)
LEMMA InitTableInv == Init => TableInv
BY DEF Init, TableInv

LEMMA NextTableInv == TypeOK /\ TableInv /\ [Next]_vars => TableInv'
<1> SUFFICES ASSUME TypeOK, TableInv, [Next]_vars
             PROVE  TableInv'
  OBVIOUS
<1> USE DEF TableInv
<1>1. CASE CycleIdle \/ CycleStarted \/ NextPointOutside \/ Send
  BY <1>1 DEF CycleIdle, CycleStarted, NextPointOutside, Send, Segments
<1>2. CASE NextPoint
  <2>1. Len(tp') = Len(tp)
    BY <1>2 DEF TypeOK, NextPoint
  <2> QED BY <1>2, <2>1 DEF NextPoint, Segments
<1>3. CASE NextPlanner
  <2>1. csp'.cyclic = csp.cyclic /\ csp'.tp_num = csp.tp_num
    BY <1>3 DEF TypeOK, NextPlanner
  <2> QED BY <1>3, <2>1 DEF NextPlanner, Segments
<1>4. CASE NextRound \/ PlanOver \/ PlanEnds
  <2>1. csp'.cyclic = csp.cyclic /\ csp'.tp_num = csp.tp_num
    BY <1>4 DEF TypeOK, NextRound, PlanOver, PlanEnds
  <2> QED BY <1>4, <2>1 DEF NextRound, PlanOver, PlanEnds, Segments
<1>5. ASSUME NEW plan \in Plans, NEW cyclic \in BOOLEAN, NEW ok \in BOOLEAN,
             NEW s \in Scales \cup {scale}, LoadParameters(plan, cyclic, s, ok)
      PROVE  TableInv'
  <2>1. csp'.tp_num = csp.tp_num
    BY <1>5 DEF TypeOK, LoadParameters
  <2>2. cpc' = "idle" \/ (cpc' = "alloc" /\ job'.plan = plan)
    BY <1>5 DEF LoadParameters
  <2> QED BY <1>5, <2>1, <2>2 DEF LoadParameters
<1>6. CASE LoadTable
  <2>1. Len(job.plan) \in Nat \ {0}
    BY <1>6, PlansAssumption DEF LoadTable
  <2>2. Segments \in Nat \ {0} /\ (csp.cyclic => Segments >= 2)
    <3>1. CASE csp.cyclic
      BY <2>1, <3>1 DEF Segments
    <3>2. CASE ~csp.cyclic
      BY <2>1, <3>2 DEF Segments
    <3> QED BY <3>1, <3>2
  <2>3. Len(tp') = Segments
    BY <1>6, <2>2 DEF LoadTable
  <2>4. Segments' = Segments
    BY <1>6 DEF LoadTable, Segments
  <2> QED BY <1>6, <2>2, <2>3, <2>4 DEF LoadTable
<1>7. CASE LoadCount
  <2>1. csp'.tp_num = Segments /\ csp'.cyclic = csp.cyclic
    BY <1>7 DEF TypeOK, LoadCount
  <2> QED BY <1>7, <2>1 DEF LoadCount
<1>8. CASE LoadPlanner
  <2>1. /\ Len(tp') = Len(tp) /\ job'.plan = job.plan
        /\ cpc' \in {"fill", "ready"} /\ csp' = csp
    BY <1>8 DEF TypeOK, LoadPlanner
  <2> QED BY <1>8, <2>1 DEF LoadPlanner
<1>9. CASE LoadPlannerFails
  BY <1>9 DEF LoadPlannerFails, cyclicVars
<1>10. CASE LoadDone
  BY <1>10 DEF TypeOK, LoadDone, cyclicVars
<1>11. ASSUME NEW s \in Scales, SetScale(s)
       PROVE  TableInv'
  BY <1>11 DEF SetScale, cyclicVars
<1>12. CASE StartRead \/ StopRead
  BY <1>12 DEF StartRead, StopRead, cyclicVars
<1>13. CASE StartWrite \/ StopWrite
  BY <1>13 DEF TypeOK, StartWrite, StopWrite, cyclicVars
<1>14. CASE UNCHANGED vars
  BY <1>14 DEF vars, Segments
<1> QED
  BY <1>1, <1>2, <1>3, <1>4, <1>5, <1>6, <1>7, <1>8, <1>9, <1>10, <1>11,
     <1>12, <1>13, <1>14
     DEF Next, Cycle, Command, LoadStep

(***************************************************************************)
(* The walk over the table.                                                *)
(***************************************************************************)
LEMMA InitWalkInv == Init => WalkInv
<1> SUFFICES ASSUME Init
             PROVE  WalkInv
  OBVIOUS
<1>1. csp.status = "stop" /\ csp.current_tp = 0 /\ ~csp.cyclic
  BY DEF Init
<1>2. pc = "cycle" /\ cpc = "idle" /\ ~client.loaded
  BY DEF Init
<1> QED BY <1>1, <1>2 DEF WalkInv, Moving, Loading

LEMMA NextWalkInv == TypeOK /\ TableInv /\ WalkInv /\ [Next]_vars => WalkInv'
<1> SUFFICES ASSUME TypeOK, TableInv, WalkInv, [Next]_vars, SafeClient'
             PROVE  WalkInv'
  BY DEF WalkInv
<1>0. client'.liberties = client.liberties
  BY DEF TypeOK, Next, Cycle, Command, LoadStep, CycleIdle, CycleStarted, NextPoint,
         NextPointOutside, NextPlanner, NextRound, PlanOver, PlanEnds, Send, LoadParameters, LoadTable,
         LoadCount, LoadPlanner, LoadPlannerFails, LoadDone, SetScale, StartRead,
         StartWrite, StopRead, StopWrite, vars
<1>a. SafeClient
  BY <1>0 DEF SafeClient, Takes
<1> USE <1>a DEF WalkInv, Loading, Moving
<1>1. CASE CycleIdle \/ CycleStarted \/ Send
  BY <1>1 DEF CycleIdle, CycleStarted, Send
<1>2. CASE NextPoint
  <2>1. Len(tp') = Len(tp) /\ pc = "point" /\ pc' \in {"send", "count"}
    BY <1>2 DEF TypeOK, NextPoint
  <2> QED BY <1>2, <2>1 DEF NextPoint
<1>3. CASE NextPointOutside
  <2>1. FALSE
    BY <1>3 DEF NextPointOutside, InTable
  <2> QED BY <2>1
<1>4. CASE NextPlanner
  <2>1. /\ pc = "count" /\ cpc # "count"
        /\ csp'.current_tp = csp.current_tp + 1
        /\ csp'.cyclic = csp.cyclic /\ csp'.status = csp.status
        /\ pc' = IF csp'.current_tp < Len(tp) THEN "send" ELSE "wrap"
    BY <1>4 DEF TypeOK, TableInv, NextPlanner
  <2> QED BY <1>4, <2>1 DEF NextPlanner
<1>5. CASE NextRound \/ PlanOver \/ PlanEnds
  <2>1. CASE NextRound
    <3>1. csp'.current_tp = 1 /\ csp'.status = csp.status /\ csp'.cyclic = csp.cyclic
      BY <2>1 DEF TypeOK, NextRound
    <3>2. pc = "wrap" /\ pc' = "send" /\ csp.cyclic
      BY <2>1 DEF NextRound
    <3> QED BY <2>1, <3>1, <3>2 DEF TypeOK, NextRound
  <2>2. CASE PlanOver
    BY <2>2 DEF PlanOver
  <2>3. CASE PlanEnds
    <3>1. csp'.current_tp = 0 /\ csp'.status = "stop" /\ csp'.cyclic = csp.cyclic
      BY <2>3 DEF TypeOK, PlanEnds
    <3> QED BY <2>3, <3>1 DEF PlanEnds
  <2> QED BY <1>5, <2>1, <2>2, <2>3
<1>6. ASSUME NEW plan \in Plans, NEW cyclic \in BOOLEAN, NEW ok \in BOOLEAN,
             NEW s \in Scales \cup {scale}, LoadParameters(plan, cyclic, s, ok)
      PROVE  WalkInv'
  <2>1. ~Moving
    BY <1>6 DEF LoadParameters, MayLoad, SafeClient
  <2>2. /\ csp'.current_tp = csp.current_tp /\ csp'.status = csp.status
        /\ ~client'.loaded /\ cpc' \in {"idle", "alloc"}
    BY <1>6 DEF TypeOK, LoadParameters
  <2> QED BY <1>6, <2>1, <2>2 DEF LoadParameters, cyclicVars
<1>7. CASE LoadTable
  BY <1>7 DEF LoadTable, cyclicVars
<1>8. CASE LoadCount
  BY <1>8 DEF TypeOK, LoadCount, cyclicVars
<1>9. CASE LoadPlanner
  <2>1. cpc' \in {"fill", "ready"}
    BY <1>9 DEF LoadPlanner
  <2> QED BY <1>9, <2>1 DEF LoadPlanner, cyclicVars
<1>10. CASE LoadPlannerFails
  BY <1>10 DEF LoadPlannerFails, cyclicVars
<1>11. CASE LoadDone
  <2>1. /\ csp'.status = "ready" /\ csp'.current_tp = csp.current_tp
        /\ csp'.cyclic = csp.cyclic
    BY <1>11 DEF TypeOK, LoadDone
  <2> QED BY <1>11, <2>1 DEF TableInv, LoadDone, cyclicVars
<1>12. ASSUME NEW s \in Scales, SetScale(s)
       PROVE  WalkInv'
  BY <1>12 DEF SetScale, cyclicVars
<1>13. CASE StartRead \/ StopRead
  BY <1>13 DEF StartRead, StopRead, cyclicVars, SafeClient
<1>14. CASE StartWrite
  <2>1. /\ csp'.status = "running" /\ csp'.current_tp = csp.current_tp
        /\ csp'.cyclic = csp.cyclic
    BY <1>14 DEF TypeOK, StartWrite
  <2> QED BY <1>14, <2>1 DEF StartWrite, cyclicVars
<1>15. CASE StopWrite
  <2>1. /\ csp'.status = "pre_stop" /\ csp'.current_tp = csp.current_tp
        /\ csp'.cyclic = csp.cyclic
    BY <1>15 DEF TypeOK, StopWrite
  <2> QED BY <1>15, <2>1 DEF StopWrite, cyclicVars
<1>16. CASE UNCHANGED vars
  BY <1>16 DEF vars
<1> QED
  BY <1>1, <1>2, <1>3, <1>4, <1>5, <1>6, <1>7, <1>8, <1>9, <1>10, <1>11,
     <1>12, <1>13, <1>14, <1>15, <1>16
     DEF Next, Cycle, Command, LoadStep

(***************************************************************************)
(* The path.                                                               *)
(***************************************************************************)
Careful == client.liberties = {}

NoPath == {Midway, Elsewhere}
Rest == RestsAt(last)

\* The segments that are planned follow each other from where the axis rests.
Target(i) == Waypoint(job.plan[IF i > Len(job.plan) THEN 1 ELSE i])
Origin(i) == IF i = 1 THEN Measured(Rest, scale) ELSE Target(i - 1)
Filled(n) == \A i \in 1..n : tp[i] = Planner(Origin(i), Target(i))

\* What a careful client's load has got to; the axis rests all the while.
LoadInv ==
    /\ cpc \in Loading => Settled /\ scale # 0
    /\ cpc \in {"count", "fill", "ready"} => Len(tp) = Segments
    /\ cpc \in {"alloc", "count"} => job.origin = Origin(1)
    /\ cpc = "count" => \A i \in 1..Len(tp) : tp[i] = Cleared
    /\ cpc = "fill" =>
          \E n \in 0..(Len(tp) - 1) :
             /\ Filled(n) /\ \A i \in (n + 1)..Len(tp) : tp[i] = Cleared
             /\ job.origin = Origin(n + 1)
    /\ cpc = "ready" => Filled(Len(tp))

\* A table that was loaded: its segments are planned and lead from waypoint to
\* waypoint, and a cyclic plan's last one to the end of its first.
Chained ==
    /\ \A i \in 1..Len(tp) :
          tp[i].points = Points /\ \E w \in Waypoints : tp[i].target = Waypoint(w)
    /\ \A i \in 2..Len(tp) : tp[i].origin = tp[i - 1].target
    /\ csp.cyclic => tp[Len(tp)].target = tp[1].target

\* Where the walk stands and which point was sent last.
AtPoint(t) ==
    IF t.point = 0 THEN Rest = Scaled(t.origin, scale) /\ Rest \notin NoPath
    ELSE last = [from |-> Scaled(t.origin, scale), to |-> Scaled(t.target, scale),
                 k |-> t.point - 1, n |-> Points]
AtEndOf(t) == last.k + 1 = last.n /\ last.to = Scaled(t.target, scale)

\* A planner that is not at hand counts from 0, the one at hand has sent as many
\* points as it counts, and one that is done has sent its last.
WayInv ==
    /\ scale # 0
    /\ \A i \in 1..Len(tp) :
          i # csp.current_tp + 1 \/ pc = "count" => tp[i].point = 0
    /\ pc \in {"cycle", "send", "point"} => AtPoint(tp[csp.current_tp + 1])
    /\ pc = "count" => AtEndOf(tp[csp.current_tp + 1])
    /\ pc \in {"wrap", "end"} => csp.current_tp = Len(tp) /\ AtEndOf(tp[Len(tp)])

\* A careful client's axis rests where a path can begin, and whatever it has
\* loaded is a path that it is on.
PathInv ==
    Careful =>
    /\ ~Moving => last.k + 1 = last.n /\ last.to \notin NoPath
    /\ LoadInv
    /\ client.loaded => Chained
    /\ client.loaded /\ csp.status # "stop" => WayInv
    /\ cpc = "stop" => csp.status = "running" /\ csp.cyclic
    /\ pc = "end" /\ csp.cyclic => csp.status = "pre_stop"

\* The invariant holds at the start, before anything is loaded.
LEMMA PathInit == Init => PathInv
<1> SUFFICES ASSUME Init PROVE PathInv OBVIOUS
<1>1. csp.status = "stop" /\ ~client.loaded /\ pc = "cycle" /\ cpc = "idle"
  BY DEF Init
<1>2. last.k + 1 = last.n /\ last.to = Home BY DEF Init
<1>3. Home \notin NoPath BY DEF Home, NoPath, Midway, Elsewhere
<1> QED BY <1>1, <1>2, <1>3 DEF PathInv, LoadInv, Loading

\* A waypoint lies where the scale puts it, which is none of the places a path
\* cannot begin at.
LEMMA ScaledWaypoint ==
    ASSUME NEW w \in Waypoints, NEW s \in Scales
    PROVE  Scaled(Waypoint(w), s) = <<w, s>> /\ <<w, s>> \notin NoPath
<1>1. s # 0 BY ScalesAssumption
<1>2. Waypoint(w).by = 0 /\ Waypoint(w).at = <<w, 0>> BY DEF Waypoint
<1>3. Scaled(Waypoint(w), s) = <<w, s>> BY <1>1, <1>2 DEF Scaled
<1>4. <<w, s>> \notin NoPath BY <1>1 DEF NoPath, Midway, Elsewhere
<1> QED BY <1>3, <1>4

\* A measured place lies where it was measured as long as the scale is kept.
LEMMA ScaledMeasured ==
    ASSUME NEW s \in Scales, NEW p
    PROVE  Scaled(Measured(p, s), s) = p
BY ScalesAssumption DEF Scaled, Measured

\* After the last point of a segment the axis rests at its end.
LEMMA RestOfPoint ==
    ASSUME last.k + 1 = last.n
    PROVE  Rest = last.to
BY DEF Rest, RestsAt

\* What holds for a careful client.
LEMMA CarefulFacts ==
    ASSUME CSPInv, PathInv, Careful
    PROVE  /\ pc \in {"point", "count", "wrap", "end"} => Moving
           /\ cpc \in Loading => ~Moving /\ ~client.loaded
           /\ cpc = "start" => csp.status = "ready"
           /\ Moving \/ cpc \in {"start", "stop"} => client.loaded
           /\ client.loaded => Len(tp) >= 1 /\ (csp.cyclic => Len(tp) >= 2)
           /\ ~Moving => csp.current_tp = 0
           /\ Moving /\ pc \notin {"wrap", "end"} => csp.current_tp < Len(tp)
           /\ TypeOK /\ TableInv /\ LoadInv
           /\ ~Moving => last.k + 1 = last.n /\ last.to \notin NoPath
           /\ client.loaded => Chained
           /\ client.loaded /\ csp.status # "stop" => WayInv
           /\ Moving => WayInv /\ Chained
           /\ cpc = "stop" => csp.status = "running" /\ csp.cyclic
           /\ pc = "end" /\ csp.cyclic => csp.status = "pre_stop"
<1>1. SafeClient BY DEF Careful, SafeClient, Takes
<1>2. Moving => csp.status # "stop" BY DEF Moving
<1> QED BY <1>1, <1>2 DEF CSPInv, WalkInv, PathInv

\* The axis stays where it is, whatever the frames bring.
LEMMA PathIdle ==
    ASSUME CSPInv, PathInv, Careful, CycleIdle \/ CycleStarted \/ Send
    PROVE  PathInv'
<1>f. UNCHANGED <<csp, tp, scale, cpc, job, last, client>>
  BY DEF CycleIdle, CycleStarted, Send
<1>p. pc \in {"cycle", "send"} /\ pc' \in {"cycle", "send", "point"}
  BY DEF CycleIdle, CycleStarted, Send
<1>1. Moving' = Moving BY <1>f DEF Moving
<1>2. LoadInv'
  <2>1. Settled => Settled' BY <1>f DEF CycleIdle, CycleStarted, Send, Settled
  <2>2. Segments' = Segments BY <1>f DEF Segments
  <2>3. \A i : Origin(i)' = Origin(i) /\ Target(i)' = Target(i)
    BY <1>f DEF Origin, Target, Rest
  <2>4. \A n \in Nat : Filled(n)' = Filled(n) BY <1>f, <2>3 DEF Filled
  <2>5. LoadInv BY CarefulFacts
  <2> QED BY <1>f, <2>1, <2>2, <2>3, <2>5 DEF LoadInv, Filled
<1>3. client.loaded => Chained' BY <1>f, CarefulFacts DEF Chained
<1>4. client.loaded /\ csp.status # "stop" => WayInv'
  BY <1>f, <1>p, CarefulFacts DEF WayInv, AtPoint, Rest
<1> QED BY <1>f, <1>p, <1>1, <1>2, <1>3, <1>4, CarefulFacts DEF PathInv

\* A point is sent: of a segment under way, or the first one of the next.
LEMMA PathPoint ==
    ASSUME CSPInv, PathInv, Careful, NextPoint
    PROVE  PathInv' /\ Follows(last, last')
<1> DEFINE i == csp.current_tp + 1
           t == tp[i]
           more == t.point + 1 < t.points
<1>m. Moving /\ WayInv /\ Chained /\ client.loaded /\ TypeOK
  BY CarefulFacts DEF NextPoint
<1>i. i \in 1..Len(tp) /\ t \in Planners /\ tp \in Seq(Planners) /\ Len(tp) \in Nat
  BY <1>m DEF TypeOK, NextPoint, InTable
<1>t. t.points = Points /\ t.point \in 0..(Points - 1) /\ Points \in Nat \ {0}
  BY <1>m, <1>i, PointsAssumption DEF Chained, Planners
<1>n. /\ last' = [from |-> Scaled(t.origin, scale), to |-> Scaled(t.target, scale),
                  k |-> t.point, n |-> t.points]
      /\ tp' = [tp EXCEPT ![i].point = IF more THEN t.point + 1 ELSE 0]
      /\ pc' = IF more THEN "send" ELSE "count"
      /\ UNCHANGED <<csp, scale, cpc, job, client>> /\ pc = "point"
  BY DEF NextPoint
<1>1. Follows(last, last')
  <2>1. AtPoint(t) BY <1>m, <1>n DEF WayInv
  <2>2. CASE t.point = 0
    BY <1>n, <2>1, <2>2 DEF AtPoint, Follows, NoPath, Rest
  <2>3. CASE t.point # 0
    BY <1>n, <1>t, <2>1, <2>3 DEF AtPoint, Follows
  <2> QED BY <2>2, <2>3
<1>2. /\ Len(tp') = Len(tp) /\ i \in 1..Len(tp')
      /\ \A j \in 1..Len(tp) : j # i => tp'[j] = tp[j]
      /\ tp'[i].point = IF more THEN t.point + 1 ELSE 0
      /\ \A j \in 1..Len(tp) : /\ tp'[j].origin = tp[j].origin /\ tp'[j].target = tp[j].target
                               /\ tp'[j].points = tp[j].points
  <2> DEFINE u == [t EXCEPT !.point = IF more THEN t.point + 1 ELSE 0]
  <2>1. tp' = [tp EXCEPT ![i] = u] BY <1>n
  <2>2. /\ u.origin = t.origin /\ u.target = t.target /\ u.points = t.points
        /\ u.point = IF more THEN t.point + 1 ELSE 0
    BY <1>i DEF Planners
  <2>3. Len(tp') = Len(tp) /\ tp'[i] = u /\ \A j \in 1..Len(tp) : j # i => tp'[j] = tp[j]
    <3> HIDE DEF u, i
    <3> QED BY <1>i, <2>1
  <2> HIDE DEF u
  <2> QED BY <1>i, <2>2, <2>3
<1>3. Chained'
  <2>1. \A j \in 1..Len(tp) :
          tp'[j].points = Points /\ \E w \in Waypoints : tp'[j].target = Waypoint(w)
    BY <1>2, <1>m DEF Chained
  <2>2. \A j \in 2..Len(tp) : tp'[j].origin = tp'[j - 1].target
    <3> SUFFICES ASSUME NEW j \in 2..Len(tp) PROVE tp'[j].origin = tp'[j - 1].target
      OBVIOUS
    <3>1. j \in 1..Len(tp) /\ j - 1 \in 1..Len(tp) BY <1>i
    <3> QED BY <3>1, <1>2, <1>m DEF Chained
  <2>3. csp.cyclic => tp'[Len(tp)].target = tp'[1].target
    <3>1. 1 \in 1..Len(tp) /\ Len(tp) \in 1..Len(tp) BY <1>i
    <3> QED BY <3>1, <1>2, <1>m DEF Chained
  <2> QED BY <1>n, <1>2, <2>1, <2>2, <2>3 DEF Chained
<1>4. WayInv'
  <2>1. scale' # 0 BY <1>n, <1>m DEF WayInv
  <2>2. \A j \in 1..Len(tp)' : j # i \/ pc' = "count" => tp'[j].point = 0
    BY <1>2, <1>n, <1>m DEF WayInv
  <2>3. CASE more
    <3>1. pc' = "send" /\ tp'[i].point = t.point + 1 /\ t.point + 1 # 0
      BY <1>n, <1>2, <2>3, <1>t
    <3>2. last' = [from |-> Scaled(tp'[i].origin, scale), to |-> Scaled(tp'[i].target, scale),
                   k |-> tp'[i].point - 1, n |-> Points]
      BY <3>1, <1>n, <1>2, <1>t, <1>i
    <3>3. AtPoint(tp[csp.current_tp + 1])' BY <3>1, <3>2, <1>n DEF AtPoint
    <3> QED BY <2>1, <2>2, <3>1, <3>3, <1>n DEF WayInv
  <2>4. CASE ~more
    <3>1. pc' = "count" BY <1>n, <2>4
    <3>2. last'.k + 1 = last'.n /\ last'.to = Scaled(t.target, scale)
      BY <1>n, <1>t, <2>4
    <3>3. AtEndOf(tp[csp.current_tp + 1])' BY <3>2, <1>n, <1>2, <1>i DEF AtEndOf
    <3> QED BY <2>1, <2>2, <3>1, <3>3, <1>n DEF WayInv
  <2> QED BY <2>3, <2>4
<1>5. Moving' /\ cpc' \notin Loading /\ pc' # "end" BY <1>m, <1>n, CarefulFacts DEF Moving
<1>6. LoadInv' BY <1>5 DEF LoadInv, Loading
<1>7. cpc' = "stop" => csp'.status = "running" /\ csp'.cyclic BY <1>n, CarefulFacts
<1> QED BY <1>1, <1>3, <1>4, <1>5, <1>6, <1>7 DEF PathInv

\* A planner is done and the walk goes on to the next one, back to the second
\* one, or is over.
LEMMA PathPlanner ==
    ASSUME CSPInv, PathInv, Careful, NextPlanner \/ NextRound \/ PlanOver
    PROVE  PathInv'
<1>m. Moving /\ WayInv /\ Chained /\ client.loaded /\ TypeOK /\ cpc \notin Loading
  BY CarefulFacts DEF NextPlanner, NextRound, PlanOver
<1>f. /\ UNCHANGED <<tp, scale, cpc, job, last, client>>
      /\ csp'.status = csp.status /\ csp'.cyclic = csp.cyclic
  BY <1>m DEF NextPlanner, NextRound, PlanOver, TypeOK
<1>l. /\ Len(tp) \in Nat /\ Len(tp) >= 1 /\ csp.current_tp \in Nat
      /\ csp.cyclic => Len(tp) >= 2
  BY <1>m, CarefulFacts DEF TypeOK
<1>s. scale \in Scales /\ scale' = scale BY <1>m, <1>f DEF WayInv, TypeOK
<1>1. Chained' BY <1>f, <1>m DEF Chained
<1>2. Rest' = Rest BY <1>f DEF Rest
<1>3. ASSUME NEW i \in 1..Len(tp), AtEndOf(tp[i])
      PROVE  Rest = Scaled(tp[i].target, scale) /\ Rest \notin NoPath
  <2>1. PICK w \in Waypoints : tp[i].target = Waypoint(w) BY <1>m DEF Chained
  <2>2. Rest = Scaled(tp[i].target, scale) BY <1>3, RestOfPoint DEF AtEndOf
  <2> QED BY <2>1, <2>2, <1>s, ScaledWaypoint
<1>4. WayInv'
  <2>1. CASE NextPlanner
    <3>1. /\ pc = "count" /\ csp'.current_tp = csp.current_tp + 1
          /\ pc' = IF csp'.current_tp < Len(tp) THEN "send" ELSE "wrap"
      BY <2>1, <1>m, CarefulFacts DEF NextPlanner, TypeOK, TableInv, Loading
    <3>2. \A i \in 1..Len(tp) : tp[i].point = 0 BY <3>1, <1>m DEF WayInv
    <3>3. csp.current_tp < Len(tp) /\ AtEndOf(tp[csp.current_tp + 1])
      BY <3>1, <1>m, CarefulFacts DEF WayInv
    <3>4. CASE csp'.current_tp < Len(tp)
      <4> DEFINE j == csp.current_tp + 1
      <4>1. j \in 1..Len(tp) /\ j + 1 \in 2..Len(tp) /\ csp'.current_tp + 1 = j + 1
        BY <3>1, <3>4, <1>l
      <4>2. tp[j + 1].origin = tp[j].target BY <4>1, <1>m DEF Chained
      <4>3. Rest = Scaled(tp[j].target, scale) /\ Rest \notin NoPath
        BY <4>1, <3>3, <1>3
      <4>4. tp[j + 1].point = 0 BY <4>1, <3>2
      <4>5. AtPoint(tp[csp.current_tp + 1])'
        BY <4>1, <4>2, <4>3, <4>4, <1>f, <1>2 DEF AtPoint
      <4>6. pc' = "send" BY <3>1, <3>4
      <4> QED BY <4>5, <4>6, <3>2, <1>f, <1>m DEF WayInv
    <3>5. CASE ~(csp'.current_tp < Len(tp))
      <4>1. csp'.current_tp = Len(tp) /\ csp.current_tp + 1 = Len(tp) /\ pc' = "wrap"
        BY <3>1, <3>3, <3>5, <1>l
      <4>2. AtEndOf(tp[Len(tp)])' BY <4>1, <3>3, <1>f DEF AtEndOf
      <4> QED BY <4>1, <4>2, <3>2, <1>f, <1>m DEF WayInv
    <3> QED BY <3>4, <3>5
  <2>2. CASE NextRound
    <3>1. pc = "wrap" /\ csp.cyclic /\ csp'.current_tp = 1 /\ pc' = "send"
      BY <2>2, <1>m DEF NextRound, TypeOK
    <3>2. csp.current_tp = Len(tp) /\ AtEndOf(tp[Len(tp)]) BY <3>1, <1>m DEF WayInv
    <3>3. \A i \in 1..Len(tp) : tp[i].point = 0
      BY <3>1, <3>2, <1>m, <1>l DEF WayInv
    <3>4. tp[2].origin = tp[1].target /\ tp[Len(tp)].target = tp[1].target
      BY <3>1, <1>l, <1>m DEF Chained
    <3>5. Rest = Scaled(tp[Len(tp)].target, scale) /\ Rest \notin NoPath
      BY <3>2, <1>3, <1>l
    <3>6. tp[2].point = 0 BY <3>1, <3>3, <1>l
    <3>7. AtPoint(tp[csp.current_tp + 1])'
      BY <3>1, <3>4, <3>5, <3>6, <1>f, <1>2 DEF AtPoint
    <3> QED BY <3>1, <3>3, <3>7, <1>f, <1>m DEF WayInv
  <2>3. CASE PlanOver
    <3>1. pc = "wrap" /\ pc' = "end" /\ csp' = csp BY <2>3 DEF PlanOver
    <3> QED BY <3>1, <1>f, <1>m DEF WayInv, AtEndOf
  <2> QED BY <2>1, <2>2, <2>3
<1>5. Moving' BY <1>f, <1>m DEF Moving
<1>6. LoadInv' BY <1>f, <1>m DEF LoadInv, Loading
<1>7. cpc' = "stop" => csp'.status = "running" /\ csp'.cyclic BY <1>f, CarefulFacts
<1>8. pc' = "end" /\ csp'.cyclic => csp'.status = "pre_stop"
  BY <1>f DEF NextPlanner, NextRound, PlanOver
<1> QED BY <1>1, <1>4, <1>5, <1>6, <1>7, <1>8 DEF PathInv

\* The plan ends where its last segment leads.
LEMMA PathEnds ==
    ASSUME CSPInv, PathInv, Careful, PlanEnds
    PROVE  PathInv' /\ Rest = Scaled(tp[Len(tp)].target, scale)
<1>m. Moving /\ WayInv /\ Chained /\ client.loaded /\ TypeOK /\ cpc \notin Loading /\ pc = "end"
  BY CarefulFacts DEF PlanEnds
<1>f. /\ UNCHANGED <<tp, scale, cpc, job, last, client>>
      /\ csp'.status = "stop" /\ csp'.cyclic = csp.cyclic /\ pc' = "send"
  BY <1>m DEF PlanEnds, TypeOK
<1>1. AtEndOf(tp[Len(tp)]) BY <1>m DEF WayInv
<1>2. last.k + 1 = last.n /\ Rest = Scaled(tp[Len(tp)].target, scale)
  BY <1>1, RestOfPoint DEF AtEndOf
<1>3. last.to \notin NoPath
  <2>1. Len(tp) \in 1..Len(tp) BY <1>m, CarefulFacts DEF TypeOK
  <2>2. PICK w \in Waypoints : tp[Len(tp)].target = Waypoint(w) BY <1>m, <2>1 DEF Chained
  <2>3. scale \in Scales BY <1>m DEF WayInv, TypeOK
  <2> QED BY <1>1, <2>2, <2>3, ScaledWaypoint DEF AtEndOf
<1>4. Chained' BY <1>f, <1>m DEF Chained
<1>5. LoadInv' BY <1>f, <1>m DEF LoadInv, Loading
<1>6. cpc # "stop" BY <1>m, CarefulFacts
<1> QED BY <1>f, <1>2, <1>3, <1>4, <1>5, <1>6 DEF PathInv

\* A load begins where the axis rests.
LEMMA PathLoadBegins ==
    ASSUME CSPInv, PathInv, Careful,
           NEW plan \in Plans, NEW cyclic \in BOOLEAN, NEW ok \in BOOLEAN,
           NEW s \in Scales \cup {scale}, LoadParameters(plan, cyclic, s, ok)
    PROVE  PathInv'
<1>t. TypeOK BY CarefulFacts
<1>f. /\ UNCHANGED <<tp, cur, pc, last, sent, wire>>
      /\ csp'.status = csp.status /\ csp'.cyclic = cyclic /\ csp'.current_tp = csp.current_tp
      /\ scale' = s /\ ~client'.loaded /\ cpc' \in {"idle", "alloc"}
  BY <1>t DEF LoadParameters, cyclicVars, TypeOK
<1>1. ~Moving /\ ~Moving' BY <1>f DEF LoadParameters, MayLoad, Careful, Takes, Moving
<1>2. Settled /\ s = scale /\ s # 0 BY DEF LoadParameters, MayLoad, Careful, Takes
<1>3. LoadInv'
  <2>1. Settled' BY <1>2, <1>f DEF Settled
  <2>2. ASSUME cpc' = "alloc" PROVE job'.origin = Origin(1)'
    <3>1. job'.origin = Measured(cur, scale) BY <2>2 DEF LoadParameters
    <3>2. Origin(1)' = Measured(Rest, scale) BY <1>f, <1>2 DEF Origin, Rest
    <3> QED BY <3>1, <3>2, <1>2 DEF Settled, Rest
  <2> QED BY <1>f, <1>2, <2>1, <2>2 DEF LoadInv, Loading
<1>4. pc # "end" BY <1>1, CarefulFacts
<1> QED BY <1>f, <1>1, <1>3, <1>4, CarefulFacts DEF PathInv

\* The axis rests while a load goes on.
LEMMA LoadRests ==
    ASSUME CSPInv, PathInv, Careful, cpc \in Loading, UNCHANGED cyclicVars, scale' = scale
    PROVE  /\ Settled' /\ scale' # 0 /\ Rest' = Rest
           /\ ~Moving /\ ~client.loaded /\ pc \in {"cycle", "send"} /\ TypeOK
           /\ last.k + 1 = last.n /\ last.to \notin NoPath
<1>1. ~Moving /\ ~client.loaded /\ TypeOK /\ Settled /\ scale # 0 BY CarefulFacts DEF LoadInv
<1>2. pc \in {"cycle", "send"} BY <1>1, CarefulFacts DEF TypeOK
<1>3. Settled' BY <1>1 DEF Settled, cyclicVars
<1> QED BY <1>1, <1>2, <1>3, CarefulFacts DEF Rest, cyclicVars

\* The table is laid out, and filled from its first planner on.
LEMMA PathLoads ==
    ASSUME CSPInv, PathInv, Careful, LoadTable \/ LoadCount \/ LoadPlanner \/ LoadPlannerFails
    PROVE  PathInv'
<1>f. /\ UNCHANGED <<scale, client>> /\ UNCHANGED cyclicVars /\ cpc \in Loading
      /\ csp'.status = csp.status /\ csp'.cyclic = csp.cyclic
  BY CarefulFacts
     DEF LoadTable, LoadCount, LoadPlanner, LoadPlannerFails, cyclicVars, Loading, TypeOK
<1>r. /\ Settled' /\ scale' # 0 /\ Rest' = Rest
      /\ ~Moving /\ ~client.loaded /\ pc \in {"cycle", "send"} /\ TypeOK
      /\ last.k + 1 = last.n /\ last.to \notin NoPath
  BY <1>f, LoadRests
<1>v. LoadInv /\ TableInv BY CarefulFacts
<1>1. LoadInv'
  <2>1. CASE LoadTable
    <3>0. job.plan \in Seq(Waypoints) BY <2>1, <1>v, PlansAssumption DEF LoadTable, TableInv
    <3>1. Segments \in Nat /\ Segments' = Segments
      <4>1. Len(job.plan) \in Nat BY <3>0
      <4>2. Segments \in Nat
        <5>1. CASE csp.cyclic BY <4>1, <5>1 DEF Segments
        <5>2. CASE ~csp.cyclic BY <4>1, <5>2 DEF Segments
        <5> QED BY <5>1, <5>2
      <4> QED BY <4>2, <2>1 DEF LoadTable, Segments
    <3>2. Len(tp') = Segments /\ \A i \in 1..Len(tp') : tp'[i] = Cleared
      BY <2>1, <3>1 DEF LoadTable
    <3>3. Origin(1)' = Origin(1) BY <1>f, <1>r DEF Origin
    <3>4. cpc' = "count" /\ job' = job /\ job.origin = Origin(1)
      BY <2>1, <1>v DEF LoadTable, LoadInv
    <3> QED BY <1>r, <3>1, <3>2, <3>3, <3>4 DEF LoadInv
  <2>2. CASE LoadCount
    <3>1. Segments' = Segments BY <2>2, <1>f DEF LoadCount, Segments
    <3>2. /\ cpc' = "fill" /\ job' = job /\ job.origin = Origin(1) /\ tp' = tp
          /\ Len(tp) = Segments /\ \A i \in 1..Len(tp) : tp[i] = Cleared
      BY <2>2, <1>v DEF LoadCount, LoadInv
    <3>3. Origin(1)' = Origin(1) BY <1>f, <1>r DEF Origin
    <3>4. Len(tp) \in Nat /\ Len(tp) >= 1 BY <2>2, <1>r, <1>v DEF LoadCount, TableInv, TypeOK
    <3>5. Filled(0)' BY DEF Filled
    <3>6. 0 \in 0..(Len(tp') - 1) /\ 0 + 1 = 1 BY <3>2, <3>4
    <3>7. \E n \in 0..(Len(tp') - 1) :
             /\ Filled(n)' /\ \A i \in (n + 1)..Len(tp') : tp'[i] = Cleared
             /\ job'.origin = Origin(n + 1)'
      BY <3>2, <3>3, <3>5, <3>6
    <3> QED BY <1>r, <3>1, <3>2, <3>7 DEF LoadInv
  <2>3. CASE LoadPlanner
    <3>1. PICK n \in 0..(Len(tp) - 1) :
             /\ Filled(n) /\ \A i \in (n + 1)..Len(tp) : tp[i] = Cleared
             /\ job.origin = Origin(n + 1)
      BY <2>3, <1>v DEF LoadPlanner, LoadInv
    <3>2. PICK i \in 1..Len(tp) :
             /\ tp[i].points = 0 /\ \A j \in 1..(i - 1) : tp[j].points # 0
             /\ tp' = [tp EXCEPT ![i] = Planner(job.origin, Target(i))]
             /\ job' = [job EXCEPT !.origin = Target(i)]
             /\ cpc' = IF i = Len(tp) THEN "ready" ELSE "fill"
      BY <2>3 DEF LoadPlanner, Target
    <3>l. Len(tp) \in Nat /\ tp \in Seq(Planners) /\ Points # 0 BY <1>r, PointsAssumption DEF TypeOK
    <3>3. i = n + 1
      <4>1. \A j \in 1..n : tp[j].points # 0
        <5>1. ASSUME NEW j \in 1..n PROVE tp[j].points # 0
          <6>1. tp[j] = Planner(Origin(j), Target(j)) BY <3>1 DEF Filled
          <6> QED BY <6>1, <3>l DEF Planner
        <5> QED BY <5>1
      <4>2. \A j \in (n + 1)..Len(tp) : tp[j].points = 0 BY <3>1 DEF Cleared
      <4>3. ~(i <= n) BY <3>2, <4>1
      <4>4. ~(n + 1 < i) BY <3>1, <3>2, <3>l, <4>2
      <4> QED BY <3>1, <3>2, <4>3, <4>4
    <3>4. /\ csp' = csp /\ job'.plan = job.plan /\ job'.origin = Target(i)
      BY <2>3, <3>2, <1>r DEF LoadPlanner, TypeOK
    <3>5. Len(tp) = Segments /\ Segments' = Segments
      BY <2>3, <3>4, <1>v DEF LoadPlanner, LoadInv, Segments
    <3>6. /\ Len(tp') = Len(tp) /\ tp'[i] = Planner(Origin(i), Target(i))
          /\ \A j \in 1..Len(tp) : j # i => tp'[j] = tp[j]
      BY <3>1, <3>2, <3>3, <3>l
    <3>7. \A j : Target(j)' = Target(j) BY <3>4 DEF Target
    <3>8. \A j : Origin(j)' = Origin(j) BY <3>7, <1>f, <1>r DEF Origin
    <3>9. Filled(i)'
      <4>1. ASSUME NEW j \in 1..i PROVE tp'[j] = Planner(Origin(j), Target(j))
        <5>1. CASE j = i BY <5>1, <3>6
        <5>2. CASE j # i
          <6>1. j \in 1..n /\ j \in 1..Len(tp) BY <5>2, <3>1, <3>3, <3>l
          <6> QED BY <6>1, <5>2, <3>1, <3>6 DEF Filled
        <5> QED BY <5>1, <5>2
      <4> QED BY <4>1, <3>7, <3>8 DEF Filled
    <3>10. CASE i = Len(tp)
      <4>1. cpc' = "ready" BY <3>10, <3>2
      <4>2. Filled(Len(tp))' BY <3>10, <3>6, <3>9
      <4>3. Len(tp') = Segments' BY <3>5, <3>6
      <4> QED BY <4>1, <4>2, <4>3, <1>r DEF LoadInv
    <3>11. CASE i # Len(tp)
      <4>1. i \in 0..(Len(tp') - 1) BY <3>11, <3>6, <3>l
      <4>2. \A j \in (i + 1)..Len(tp') : tp'[j] = Cleared BY <3>1, <3>3, <3>6, <3>l
      <4>3. job'.origin = Origin(i + 1)'
        BY <3>4, <3>7, <3>8, <3>2 DEF Origin
      <4>4. cpc' = "fill" BY <3>11, <3>2
      <4>5. \E m \in 0..(Len(tp') - 1) :
               /\ Filled(m)' /\ \A j \in (m + 1)..Len(tp') : tp'[j] = Cleared
               /\ job'.origin = Origin(m + 1)'
        BY <3>9, <4>1, <4>2, <4>3
      <4> QED BY <4>4, <4>5, <1>r, <3>5, <3>6 DEF LoadInv
    <3> QED BY <3>10, <3>11
  <2>4. CASE LoadPlannerFails BY <2>4 DEF LoadPlannerFails, LoadInv, Loading
  <2> QED BY <2>1, <2>2, <2>3, <2>4
<1>2. cpc' # "stop" BY DEF LoadTable, LoadCount, LoadPlanner, LoadPlannerFails
<1> QED BY <1>1, <1>2, <1>f, <1>r DEF PathInv, cyclicVars

\* A table that is filled leads from where the axis rests through its segments.
LEMMA PathLoaded ==
    ASSUME CSPInv, PathInv, Careful, LoadDone
    PROVE  PathInv'
<1>f. /\ UNCHANGED <<tp, scale>> /\ UNCHANGED cyclicVars /\ cpc = "ready" /\ cpc' = "idle"
      /\ csp'.status = "ready" /\ csp'.cyclic = csp.cyclic /\ csp'.current_tp = csp.current_tp
  BY CarefulFacts DEF LoadDone, TypeOK
<1>r. /\ scale' # 0 /\ Rest' = Rest /\ ~Moving /\ pc \in {"cycle", "send"} /\ TypeOK
      /\ last.k + 1 = last.n /\ last.to \notin NoPath
  BY <1>f, LoadRests DEF Loading
<1>v. Filled(Len(tp)) /\ Len(tp) = Segments /\ TableInv /\ csp.current_tp = 0
  BY <1>f, <1>r, CarefulFacts DEF LoadInv
<1>l. /\ Len(tp) \in Nat /\ Len(tp) >= 1 /\ (csp.cyclic => Len(tp) >= 2)
  BY <1>f, <1>r, <1>v DEF TableInv, TypeOK
<1>p. job.plan \in Seq(Waypoints) /\ job.plan # <<>> /\ scale \in Scales
  <2>1. Len(job.plan) # 0
    <3>1. job.plan \in Seq(Waypoints)
      <4>1. job.plan \in Plans \cup {<<>>} BY <1>r DEF TypeOK
      <4>2. <<>> \in Seq(Waypoints) OBVIOUS
      <4>3. Plans \subseteq Seq(Waypoints) BY PlansAssumption
      <4> QED BY <4>1, <4>2, <4>3
    <3>2. Len(job.plan) \in Nat BY <3>1
    <3>3. CASE csp.cyclic BY <3>2, <3>3, <1>v, <1>l DEF Segments
    <3>4. CASE ~csp.cyclic BY <3>2, <3>4, <1>v, <1>l DEF Segments
    <3> QED BY <3>3, <3>4
  <2> QED BY <1>f, <1>r, <2>1, PlansAssumption DEF TypeOK
<1>1. Chained'
  <2>1. ASSUME NEW i \in 1..Len(tp)
        PROVE  tp[i].points = Points /\ \E w \in Waypoints : tp[i].target = Waypoint(w)
    <3>1. tp[i].points = Points /\ tp[i].target = Target(i) BY <1>v DEF Filled, Planner
    <3>2. job.plan[IF i > Len(job.plan) THEN 1 ELSE i] \in Waypoints BY <1>p
    <3> QED BY <3>1, <3>2 DEF Target
  <2>2. ASSUME NEW i \in 2..Len(tp) PROVE tp[i].origin = tp[i - 1].target
    <3>1. i \in 1..Len(tp) /\ i - 1 \in 1..Len(tp) /\ i # 1 BY <1>l
    <3> QED BY <3>1, <1>v DEF Filled, Planner, Origin
  <2>3. ASSUME csp.cyclic PROVE tp[Len(tp)].target = tp[1].target
    <3>1. Len(tp) = Len(job.plan) + 1 BY <2>3, <1>v DEF Segments
    <3>2. Target(Len(tp)) = Target(1) BY <3>1, <1>p DEF Target
    <3>3. 1 \in 1..Len(tp) /\ Len(tp) \in 1..Len(tp) BY <1>l
    <3> QED BY <3>2, <3>3, <1>v DEF Filled, Planner
  <2> QED BY <1>f, <2>1, <2>2, <2>3 DEF Chained
<1>2. WayInv'
  <2>1. \A i \in 1..Len(tp) : tp[i].point = 0 BY <1>v DEF Filled, Planner
  <2>2. tp[1].origin = Measured(Rest, scale)
    <3>1. 1 \in 1..Len(tp) BY <1>l
    <3> QED BY <3>1, <1>v DEF Filled, Planner, Origin
  <2>3. Rest = Scaled(tp[1].origin, scale) BY <2>2, <1>p, ScaledMeasured
  <2>4. Rest \notin NoPath BY <1>r, RestOfPoint
  <2>5. 1 \in 1..Len(tp) /\ csp'.current_tp + 1 = 1 BY <1>l, <1>f, <1>v
  <2>6. AtPoint(tp[csp.current_tp + 1])' BY <2>1, <2>3, <2>4, <2>5, <1>f, <1>r DEF AtPoint
  <2>7. pc' \in {"cycle", "send"} BY <1>f, <1>r DEF cyclicVars
  <2> QED BY <2>1, <2>6, <2>7, <1>f, <1>r DEF WayInv
<1>3. LoadInv' BY <1>f DEF LoadInv, Loading
<1>4. pc' # "end" /\ last' = last BY <1>f, <1>r DEF cyclicVars
<1> QED BY <1>1, <1>2, <1>3, <1>4, <1>f, <1>r DEF PathInv

\* The other commands: none moves the axis or touches its table.
LEMMA PathCommands ==
    ASSUME CSPInv, PathInv, Careful,
           (\E s \in Scales : SetScale(s)) \/ StartRead \/ StartWrite \/ StopRead \/ StopWrite
    PROVE  PathInv'
<1>f. /\ UNCHANGED <<tp, job, client>> /\ UNCHANGED cyclicVars
      /\ csp'.cyclic = csp.cyclic /\ csp'.current_tp = csp.current_tp
      /\ cpc \in {"idle", "start", "stop"} /\ cpc' \in {"idle", "start", "stop"}
  BY CarefulFacts DEF SetScale, StartRead, StartWrite, StopRead, StopWrite, TypeOK
<1>1. LoadInv' BY <1>f DEF LoadInv, Loading
<1>2. client.loaded => Chained' BY <1>f, CarefulFacts DEF Chained
<1>3. CASE \E s \in Scales : SetScale(s)
  <2>1. csp.status = "stop" /\ csp' = csp /\ cpc' = "idle"
    BY <1>3 DEF SetScale, Careful, Takes
  <2>2. ~Moving /\ ~Moving' BY <2>1 DEF Moving
  <2>3. last.k + 1 = last.n /\ last.to \notin NoPath /\ pc # "end" BY <2>2, CarefulFacts
  <2> QED BY <2>1, <2>2, <2>3, <1>f, <1>1, <1>2 DEF PathInv, cyclicVars
<1>4. CASE StartRead \/ StartWrite \/ StopRead \/ StopWrite
  <2>1. /\ scale' = scale /\ csp.status # "stop" /\ csp'.status # "stop"
        /\ Moving => Moving' /\ csp'.status \in {csp.status, "running", "pre_stop"}
    BY <1>4, CarefulFacts DEF StartRead, StartWrite, StopRead, StopWrite, Moving, TypeOK
  <2>2. client.loaded => WayInv'
    BY <2>1, <1>f, CarefulFacts DEF WayInv, AtPoint, AtEndOf, Rest, cyclicVars
  <2>3. ~Moving' => last.k + 1 = last.n /\ last.to \notin NoPath BY <2>1, CarefulFacts
  <2>4. cpc' = "stop" => csp'.status = "running" /\ csp'.cyclic
    BY <1>4, <1>f DEF StartRead, StartWrite, StopRead, StopWrite, Careful, Takes
  <2>5. pc = "end" /\ csp.cyclic => csp'.status = "pre_stop"
    <3>1. CASE StartRead \/ StopRead BY <3>1, CarefulFacts DEF StartRead, StopRead
    <3>2. CASE StartWrite
      <4>1. ~Moving BY <3>2, CarefulFacts DEF StartWrite, Moving
      <4> QED BY <4>1, CarefulFacts
    <3>3. CASE StopWrite BY <3>3, CarefulFacts DEF StopWrite, TypeOK
    <3> QED BY <1>4, <3>1, <3>2, <3>3
  <2> QED BY <2>1, <2>2, <2>3, <2>4, <2>5, <1>f, <1>1, <1>2 DEF PathInv, cyclicVars
<1> QED BY <1>3, <1>4

\* Every step of a careful client's axis, and what it sends.
LEMMA PathStep ==
    ASSUME CSPInv, PathInv, Careful, [Next]_vars
    PROVE  /\ PathInv'
           /\ last' # last => Follows(last, last')
           /\ Moving /\ csp'.status = "stop" => RestsAt(last) = Scaled(tp[Len(tp)].target, scale)
<1>m. Moving => csp.status # "stop" BY DEF Moving
<1>t. TypeOK BY CarefulFacts
<1>1. CASE CycleIdle \/ CycleStarted \/ Send
  BY <1>1, <1>m, PathIdle DEF CycleIdle, CycleStarted, Send
<1>2. CASE NextPoint BY <1>2, <1>m, PathPoint DEF NextPoint
<1>3. CASE NextPointOutside
  <2>1. FALSE BY <1>3, CarefulFacts DEF NextPointOutside, InTable
  <2> QED BY <2>1
<1>4. CASE NextPlanner \/ NextRound \/ PlanOver
  BY <1>4, <1>m, <1>t, PathPlanner DEF NextPlanner, NextRound, PlanOver, TypeOK
<1>5. CASE PlanEnds BY <1>5, PathEnds DEF PlanEnds, Rest
<1>6. ASSUME NEW plan \in Plans, NEW cyclic \in BOOLEAN, NEW ok \in BOOLEAN,
             NEW s \in Scales \cup {scale}, LoadParameters(plan, cyclic, s, ok)
      PROVE  PathInv' /\ last' = last /\ csp'.status = csp.status
  BY <1>6, <1>t, PathLoadBegins DEF LoadParameters, cyclicVars, TypeOK
<1>7. CASE LoadTable \/ LoadCount \/ LoadPlanner \/ LoadPlannerFails
  BY <1>7, <1>m, <1>t, PathLoads
     DEF LoadTable, LoadCount, LoadPlanner, LoadPlannerFails, cyclicVars, TypeOK
<1>8. CASE LoadDone BY <1>8, <1>t, PathLoaded DEF LoadDone, cyclicVars, TypeOK
<1>9. CASE (\E s \in Scales : SetScale(s)) \/ StartRead \/ StartWrite \/ StopRead \/ StopWrite
  BY <1>9, <1>m, <1>t, PathCommands
     DEF SetScale, StartRead, StartWrite, StopRead, StopWrite, cyclicVars, TypeOK
<1>10. CASE UNCHANGED vars
  <2>1. PathInv'
    <3> USE <1>10 DEF vars
    <3>1. LoadInv' <=> LoadInv
      BY DEF LoadInv, Settled, Segments, Filled, Origin, Target, Rest
    <3>2. Chained' <=> Chained
      BY DEF Chained
    <3>3. WayInv' <=> WayInv
      BY DEF WayInv, AtPoint, AtEndOf, Rest
    <3>4. (Careful' <=> Careful) /\ (Moving' <=> Moving)
      BY DEF Careful, Moving
    <3> QED BY <3>1, <3>2, <3>3, <3>4 DEF PathInv
  <2> QED BY <1>10, <2>1, <1>m DEF vars
<1> QED BY <1>1, <1>2, <1>3, <1>4, <1>5, <1>6, <1>7, <1>8, <1>9, <1>10, <1>m
        DEF Next, Cycle, Command, LoadStep

\* No step changes a client's liberties.
LEMMA SameClient == TypeOK /\ [Next]_vars => client'.liberties = client.liberties
BY DEF TypeOK, Next, Cycle, Command, LoadStep, CycleIdle, CycleStarted, NextPoint,
       NextPointOutside, NextPlanner, NextRound, PlanOver, PlanEnds, Send, LoadParameters, LoadTable,
       LoadCount, LoadPlanner, LoadPlannerFails, LoadDone, SetScale, StartRead,
       StartWrite, StopRead, StopWrite, vars

(***************************************************************************)
(* The theorems.                                                           *)
(***************************************************************************)
\* The inductive invariant of one cyclic synchronous position axis.
THEOREM Invariance == Spec => []CSPInv
<1>1. Init => CSPInv
  BY InitTypeOK, InitTableInv, InitWalkInv DEF CSPInv
<1>2. CSPInv /\ [Next]_vars => CSPInv'
  BY NextTypeOK, NextTableInv, NextWalkInv DEF CSPInv
<1> QED BY <1>1, <1>2, PTL DEF Spec

\* Every variable keeps its type, for every client.
THEOREM TypeCorrect == Spec => []TypeOK
<1>1. CSPInv => TypeOK
  BY DEF CSPInv
<1> QED BY <1>1, Invariance, PTL

\* The length get_next_pos() compares with is the length of the table it
\* walks, for every client.
THEOREM CountIsTableLength == Spec => []CountMatchesTable
<1>1. CSPInv => CountMatchesTable
  BY DEF CSPInv, TableInv, CountMatchesTable
<1> QED BY <1>1, Invariance, PTL

\* get_next_pos() reads inside the table under every client that leaves the
\* table of a moving axis alone and starts only what loaded.
THEOREM NoReadOutsideTable == Spec => []ReadsInsideTable
<1>1. CSPInv => ReadsInsideTable
  BY DEF CSPInv, WalkInv, SafeClient, ReadsInsideTable, InTable
<1> QED BY <1>1, Invariance, PTL

\* The inductive invariant of a careful client's axis.
THEOREM PathInvariance == Spec => []PathInv
<1>1. CSPInv /\ PathInv /\ [Next]_vars => PathInv'
  <2> SUFFICES ASSUME CSPInv, PathInv, [Next]_vars, Careful' PROVE PathInv'
    BY DEF PathInv
  <2>1. Careful BY SameClient DEF Careful, CSPInv
  <2> QED BY <2>1, PathStep
<1> QED BY <1>1, PathInit, Invariance, PTL DEF Spec

\* The set points of a careful client's axis form one unbroken path
\* (get_next_pos() on the table of Tp_arrays_paster()).
THEOREM PathIsContinuous == Spec => PathContinuous
<1>1. CSPInv /\ PathInv /\ [Next]_vars
        => (client.liberties = {} /\ last' # last => Follows(last, last'))
  BY PathStep DEF Careful
<1>2. UNCHANGED vars => (client.liberties = {} /\ last' # last => Follows(last, last'))
  BY DEF vars
<1> QED BY <1>1, <1>2, Invariance, PathInvariance, PTL DEF Spec, PathContinuous

\* A careful client's axis stops at the end of its plan only (get_next_pos()).
THEOREM StopsOnlyAtPlanEnd == Spec => StopsAtPlanEnd
<1>1. CSPInv /\ PathInv /\ [Next]_vars
        => (client.liberties = {} /\ Moving /\ csp'.status = "stop"
              => RestsAt(last) = Scaled(tp[Len(tp)].target, scale))
  BY PathStep DEF Careful
<1> QED BY <1>1, Invariance, PathInvariance, PTL DEF Spec, StopsAtPlanEnd
=============================================================================
