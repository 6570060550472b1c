---------------------------- MODULE MC_LoadConfig ----------------------------
(* Instances of LoadConfig for TLC. *)
EXTENDS LoadConfig

CONSTANTS cw, tp

\* A sync manager without PDOs and one with the objects of one axle, or of two;
\* one PDO, none, several, or an empty one.
OneAxle == << <<>>, << << <<cw, 0>>, <<tp, 0>> >> >> >>
TwoAxles == << << << <<cw, 0>>, <<tp, 0>> >> >>, << << <<cw, 1>>, <<tp, 1>> >> >> >>
TwoPdos == << << << <<cw, 0>> >>, << <<tp, 0>> >> >> >>
EmptyPdo == << << << <<cw, 0>> >>, <<>> >> >>
Syncs == {OneAxle, TwoAxles, TwoPdos, EmptyPdo}

Slave(p, y) == [pos |-> p, good |-> TRUE, marked |-> TRUE, force |-> TRUE, syncs |-> y]
Axle(m, p, i, o, r) ==
    [master |-> m, pos |-> p, index |-> i, offset |-> o, good |-> TRUE, regs |-> r]

Slaves1 == {Slave(p, y) : p \in {0, 1}, y \in Syncs}
BadSlaves == {[Slave(0, OneAxle) EXCEPT !.good = FALSE],
              [Slave(0, OneAxle) EXCEPT !.marked = FALSE],
              [Slave(0, OneAxle) EXCEPT !.force = FALSE]}
Regs == {<< <<cw, 0>>, <<tp, 0>> >>, << <<cw, 1>> >>}
Axles1 == {Axle(m, p, i, o, r) : m \in {0, 1}, p \in {0, 1}, i \in {0, 1, 2, 3},
                                 o \in {0, 1}, r \in Regs}
BadAxles == {[Axle(0, 0, 0, 0, <<>>) EXCEPT !.good = FALSE]}

\* The sequences of one and of two members of S, from cell 0.
Arrays(S) == [UpTo(1) -> S] \cup [UpTo(2) -> S]
One(x) == [i \in UpTo(1) |-> x]
Two(x, y) == [i \in UpTo(2) |-> IF i = 0 THEN x ELSE y]
None == [i \in UpTo(0) |-> 0]
Document(ms, as) == [masters |-> ms, axles |-> as]

\* Any slaves under one or two masters, with an axle on the first.
SlaveDocs ==
    {Document(One(ss), One(Axle(0, 0, 0, 0, r))) : ss \in Arrays(Slaves1 \cup BadSlaves), r \in Regs}
    \cup {Document(Two(One(x), One(y)), Two(Axle(0, 0, 0, 0, r), Axle(1, 0, 1, 0, r))) :
             x \in Slaves1 \cup BadSlaves, y \in Slaves1 \cup BadSlaves, r \in Regs}
\* Any axles over two slaves, under one master or two.
AxleDocs ==
    {Document(ms, as) : ms \in {One(Two(Slave(1, TwoAxles), Slave(0, OneAxle))),
                                Two(One(Slave(0, TwoAxles)), One(Slave(0, TwoAxles)))},
                        as \in Arrays(Axles1 \cup BadAxles)}
EmptyDocs == {Document(None, None), Document(One(None), None),
              Document(One(One(Slave(0, OneAxle))), None)}

MCDocs == SlaveDocs \cup AxleDocs \cup EmptyDocs
MCManyPdos == {Document(One(One(Slave(0, y))), One(Axle(0, 0, 0, 0, Regs0))) :
                 y \in Syncs, Regs0 \in Regs}
MCKinds == {cw, tp}
=============================================================================
