-------------------------- MODULE LoadConfig_proofs --------------------------
(***************************************************************************)
(* Proofs about the loading of a configuration: its types, that a document *)
(* that loads fills every cell of every array, that every axle then works  *)
(* on the objects the document gives it, and that a failed start is undone.*)
(***************************************************************************)
EXTENDS LoadConfig, FiniteSetTheorems, SequenceTheorems, TLAPS

(***************************************************************************)
(* The inductive invariant.                                                *)
(***************************************************************************)
Failed == pc \in {"failed", "crashed"}

\* The slave elements of master m, and the axle elements, parsed so far.
DoneSlaves(m) ==
    IF pc # "slaves" \/ m < at[1] THEN SlaveCells(m)
    ELSE IF m = at[1] THEN UpTo(at[2]) ELSE {}

DoneAxles ==
    IF pc = "slaves" THEN {} ELSE IF pc = "axles" THEN UpTo(at[2]) ELSE AxleCells

\* Each of these elements is in one cell, the one that it names.
SlavesInv ==
    Orderly(doc) /\ ~Failed =>
      \A m \in Masters :
        /\ {slaves[m][c] : c \in DOMAIN slaves[m]} = DoneSlaves(m)
        /\ \A c \in DOMAIN slaves[m] : doc.masters[m][slaves[m][c]].pos = c

AxlesInv ==
    Orderly(doc) /\ ~Failed =>
      /\ {axles[a].element : a \in DOMAIN axles} = DoneAxles
      /\ \A a \in DOMAIN axles : LET e == doc.axles[axles[a].element]
           IN e.index = a /\ axles[a].master = e.master /\ axles[a].slave = e.pos

\* The object of kind k that axle a may access.
OwnObject(a, k) ==
    Object(axles[a].master, axles[a].slave, <<k, doc.axles[axles[a].element].offset>>)

OffsetsInv ==
    \A a \in AxleCells : \A k \in Kinds :
      \/ offsets[a][k] = NoObject
      \/ /\ pc \notin {"slaves", "axles", "configure", "write"}
         /\ a \in DOMAIN axles /\ offsets[a][k] = OwnObject(a, k)

\* What the drive makes of the writes to sync manager j and to its PDO if it has
\* only this one: both objects after the first t of them, there are Size(syncs, j).
Size(syncs, j) == IF syncs[j] = <<>> THEN 0 ELSE Len(syncs[j][1]) + 5

Untouched == [number |-> 1, list |-> <<NoObject>>]

SyncObject(syncs, j, t) ==
    IF t = 0 THEN Untouched
    ELSE IF t < Size(syncs, j) - 1 THEN [number |-> 0, list |-> <<>>]
    ELSE [number |-> IF t < Size(syncs, j) THEN 0 ELSE 1, list |-> [k \in 1 .. 1 |-> <<j, k>>]]

PdoObject(syncs, j, t) ==
    IF t < 2 THEN Untouched
    ELSE IF t < Size(syncs, j) - 2 THEN [number |-> 0, list |-> [h \in 1 .. (t - 2) |-> syncs[j][1][h]]]
    ELSE [number |-> Len(syncs[j][1]), list |-> syncs[j][1]]

ObjectsAt(syncs, j, t) ==
    syncs[j] # <<>> => /\ drive[<<j, 0>>] = SyncObject(syncs, j, t)
                       /\ drive[<<j, 1>>] = PdoObject(syncs, j, t)

\* The drive when sync manager j has had t of its writes.
DriveAt(e, j, t) ==
    /\ DOMAIN drive = DriveObjects(e)
    /\ \A i \in DOMAIN e.syncs :
          ObjectsAt(e.syncs, i, IF i < j THEN Size(e.syncs, i) ELSE IF i = j THEN t ELSE 0)

\* The writes of that sync manager, in their order.
WriteOf(syncs, j, t) ==
    IF t = 1 THEN Write(<<j, 0>>, 0, 0)
    ELSE IF t = 2 THEN Write(<<j, 1>>, 0, 0)
    ELSE IF t < Size(syncs, j) - 2 THEN Write(<<j, 1>>, t - 2, syncs[j][1][t - 2])
    ELSE IF t = Size(syncs, j) - 2 THEN Write(<<j, 1>>, 0, Len(syncs[j][1]))
    ELSE IF t = Size(syncs, j) - 1 THEN Write(<<j, 0>>, 1, <<j, 1>>)
    ELSE Write(<<j, 0>>, 0, 1)

\* The rounds are where this sync manager and its writes are.
RoundAt(syncs, j, t) ==
    \/ round = <<j, 0>> /\ todo = <<>> /\ t = 0
    \/ /\ j \in DOMAIN syncs /\ syncs[j] # <<>>
       /\ \/ round = <<j, 1>> /\ t = 0 /\ todo = <<WriteOf(syncs, j, 1)>>
          \/ round = <<j, 1>> /\ t = 1 /\ todo = <<>>
          \/ /\ round = <<j + 1, 0>> /\ t \in 1 .. Size(syncs, j)
             /\ todo = [i \in 1 .. (Size(syncs, j) - t) |-> WriteOf(syncs, j, t + i)]

DriveInv ==
    /\ pc \in {"configure", "write"} => at[1] \in Masters
    /\ \A e \in Written : OnePdoEach(e) =>
         /\ ~refused
         /\ IF e.force THEN \E j \in 1 .. (Len(e.syncs) + 1) : \E t \in Nat :
                              RoundAt(e.syncs, j, t) /\ DriveAt(e, j, t)
            ELSE todo = <<>>

MastersInv ==
    /\ pc \notin {"activate", "loaded", "failed", "crashed"} => active = {}
    /\ pc = "activate" => active = UpTo(at[1]) /\ active \subseteq state
    /\ pc = "loaded" => /\ active = Masters
                        /\ linked = [a \in AxleCells \cap DOMAIN axles |-> axles[a].master]
    /\ pc = "failed" => active \subseteq {at[1]}

IInv == TypeOK /\ SlavesInv /\ AxlesInv /\ OffsetsInv /\ MastersInv /\ DriveInv

(***************************************************************************)
(* Arrays and documents.                                                   *)
(***************************************************************************)
LEMMA ArrayFacts ==
    ASSUME NEW f, NEW S, IsArray(f, S)
    PROVE  /\ IsFiniteSet(DOMAIN f) /\ Cardinality(DOMAIN f) \in Nat
           /\ DOMAIN f = UpTo(Cardinality(DOMAIN f))
           /\ DOMAIN f \subseteq Nat
           /\ \A x \in DOMAIN f : f[x] \in S
<1>1. IsFiniteSet(DOMAIN f) /\ DOMAIN f = UpTo(Cardinality(DOMAIN f)) /\ f \in [DOMAIN f -> S]
  BY DEF IsArray
<1>2. Cardinality(DOMAIN f) \in Nat
  BY <1>1, FS_CardinalityType
<1>3. UpTo(Cardinality(DOMAIN f)) \subseteq Nat
  BY <1>2 DEF UpTo
<1> QED BY <1>1, <1>2, <1>3

LEMMA DocFacts ==
    ASSUME IsDocument(doc)
    PROVE  /\ NumMasters \in Nat /\ Masters = UpTo(NumMasters) /\ Masters \subseteq Nat
           /\ \A m \in Masters :
                /\ IsFiniteSet(SlaveCells(m)) /\ NumSlaves(m) \in Nat
                /\ SlaveCells(m) = UpTo(NumSlaves(m)) /\ SlaveCells(m) \subseteq Nat
                /\ \A s \in SlaveCells(m) : doc.masters[m][s] \in SlaveElements
           /\ IsFiniteSet(AxleCells) /\ NumAxles \in Nat
           /\ AxleCells = UpTo(NumAxles) /\ AxleCells \subseteq Nat
           /\ \A a \in AxleCells : doc.axles[a] \in AxleElements
<1>1. /\ IsArray(doc.masters, {doc.masters[m] : m \in DOMAIN doc.masters})
      /\ \A m \in DOMAIN doc.masters : IsArray(doc.masters[m], SlaveElements)
      /\ IsArray(doc.axles, AxleElements)
  BY DEF IsDocument
<1>2. NumMasters \in Nat /\ Masters = UpTo(NumMasters) /\ Masters \subseteq Nat
  BY <1>1, ArrayFacts DEF Masters, NumMasters
<1>3. ASSUME NEW m \in Masters
      PROVE  /\ IsFiniteSet(SlaveCells(m)) /\ NumSlaves(m) \in Nat
             /\ SlaveCells(m) = UpTo(NumSlaves(m)) /\ SlaveCells(m) \subseteq Nat
             /\ \A s \in SlaveCells(m) : doc.masters[m][s] \in SlaveElements
  <2>1. IsArray(doc.masters[m], SlaveElements)
    BY <1>1, <1>3 DEF Masters
  <2> QED BY <2>1, ArrayFacts DEF SlaveCells, NumSlaves
<1>4. /\ IsFiniteSet(AxleCells) /\ NumAxles \in Nat
      /\ AxleCells = UpTo(NumAxles) /\ AxleCells \subseteq Nat
      /\ \A a \in AxleCells : doc.axles[a] \in AxleElements
  BY <1>1, ArrayFacts DEF AxleCells, NumAxles
<1> QED BY <1>2, <1>3, <1>4

\* Cells that hold all of as many elements as there are cells are all of them.
LEMMA Filled ==
    ASSUME NEW S, IsFiniteSet(S), NEW D \in SUBSET S, NEW g \in [D -> S],
           {g[c] : c \in D} = S
    PROVE  D = S
<1>1. IsFiniteSet(D) /\ Cardinality(D) <= Cardinality(S)
      /\ (Cardinality(S) = Cardinality(D) => S = D)
  BY FS_Subset
<1>2. g \in Surjection(D, S)
  BY DEF Surjection
<1>3. Cardinality(S) <= Cardinality(D)
  BY <1>1, <1>2, FS_Surjection
<1>4. Cardinality(S) \in Nat /\ Cardinality(D) \in Nat
  BY <1>1, FS_CardinalityType
<1> QED BY <1>1, <1>3, <1>4

\* Once the parser is past the slaves every slave cell is filled.
LEMMA SlavesFilled ==
    ASSUME TypeOK, SlavesInv, Orderly(doc), ~Failed, pc # "slaves", NEW m \in Masters
    PROVE  DOMAIN slaves[m] = SlaveCells(m)
<1> DEFINE S == SlaveCells(m)
           D == DOMAIN slaves[m]
           g == [c \in D |-> slaves[m][c]]
<1>1. IsFiniteSet(S)
  BY DocFacts DEF TypeOK
<1>2. \A c \in D : slaves[m][c] \in S
  BY DEF TypeOK
<1>3. /\ {slaves[m][c] : c \in D} = S
      /\ \A c \in D : doc.masters[m][slaves[m][c]].pos = c
  BY DEF SlavesInv, DoneSlaves
<1>4. D \subseteq S
  BY <1>2, <1>3 DEF Orderly, Masters, SlaveCells
<1>5. g \in [D -> S] /\ {g[c] : c \in D} = S
  BY <1>2, <1>3
<1> HIDE DEF S, D, g
<1>6. D = S
  BY <1>1, <1>4, <1>5, Filled
<1> QED BY <1>6 DEF S, D

LEMMA InitInv == Init => IInv
<1> SUFFICES ASSUME Init PROVE IInv
  OBVIOUS
<1> USE DEF Init
<1>1. IsDocument(doc)
  BY DocsAssumption
<1>2. /\ pc = "slaves" /\ at = <<0, 0>> /\ DOMAIN slaves = Masters
      /\ \A m \in Masters : DOMAIN slaves[m] = {}
      /\ DOMAIN axles = {} /\ DOMAIN linked = {}
  OBVIOUS
<1>3. TypeOK
  <2>1. at \in Nat \X Nat
    <3> HIDE DEF Init
    <3> QED BY <1>2
  <2>4. pc \in PCs /\ refused \in BOOLEAN /\ round \in Nat \X Nat
    BY DEF PCs
  <2>2. DOMAIN offsets = AxleCells /\ \A a \in AxleCells : DOMAIN offsets[a] = Kinds
    OBVIOUS
  <2>3. state \subseteq Masters /\ active \subseteq Masters
    OBVIOUS
  <2> QED BY <1>1, <1>2, <2>1, <2>2, <2>3, <2>4 DEF TypeOK
<1>4. SlavesInv
  <2> SUFFICES ASSUME NEW m \in Masters
               PROVE  DoneSlaves(m) = {}
    BY <1>2 DEF SlavesInv
  <2>1. m \in Nat
    BY <1>1, DocFacts
  <2> QED BY <1>2, <2>1 DEF DoneSlaves, UpTo
<1>5. AxlesInv /\ OffsetsInv /\ MastersInv /\ DriveInv
  BY <1>2 DEF AxlesInv, DoneAxles, OffsetsInv, MastersInv, DriveInv, Written
<1> QED BY <1>3, <1>4, <1>5 DEF IInv

(***************************************************************************)
(* Parsing.                                                                *)
(***************************************************************************)
\* A step that writes to no slave, or leaves its writes alone.
LEMMA DriveIdle ==
    ASSUME DriveInv, pc' # "write", pc' = "configure" => at'[1] \in Masters'
    PROVE  DriveInv'
BY DEF DriveInv, Written

\* Whatever fails leaves everything but the program counter alone.
LEMMA FailsInv ==
    ASSUME IInv, pc \notin {"activate", "loaded", "failed", "crashed"},
           Fails({"failed"}) \/ Fails({"failed", "crashed"})
    PROVE  IInv'
<1> USE DEF IInv
<1>1. pc' \in {"failed", "crashed"} /\ UNCHANGED <<at, parsed, offsets, bus, masterVars>>
  BY DEF Fails
<1>2. TypeOK'
  BY <1>1 DEF parsed, bus, masterVars, TypeOK, PCs, Masters, SlaveCells, AxleCells, NumAxles
<1>3. SlavesInv' /\ AxlesInv'
  BY <1>1 DEF SlavesInv, AxlesInv, Failed
<1>4. OffsetsInv'
  BY <1>1 DEF parsed, OffsetsInv, AxleCells, OwnObject
<1>5. MastersInv'
  BY <1>1 DEF parsed, masterVars, MastersInv
<1>6. DriveInv'
  BY <1>1, DriveIdle
<1> QED BY <1>2, <1>3, <1>4, <1>5, <1>6

LEMMA ParseSlaveInv == ASSUME IInv, ParseSlave PROVE IInv'
<1> DEFINE m == at[1]
           s == at[2]
           e == doc.masters[m][s]
<1>0. /\ pc = "slaves" /\ m \in Masters /\ s \in SlaveCells(m)
      /\ Behind(e.pos, NumSlaves(m)) \/ ~Occupied(m, e.pos)
      /\ slaves' = [slaves EXCEPT ![m] = Put(@, e.pos, s)]
      /\ NextSlave("slaves", "axles")
      /\ UNCHANGED <<doc, axles, offsets, bus, masterVars>>
  BY DEF ParseSlave, AtSlave
<1>t. TypeOK /\ SlavesInv /\ AxlesInv /\ OffsetsInv /\ MastersInv /\ DriveInv
  BY DEF IInv
<1>1. /\ NumMasters \in Nat /\ Masters = UpTo(NumMasters) /\ m \in Nat
      /\ \A n \in Masters : /\ NumSlaves(n) \in Nat /\ SlaveCells(n) = UpTo(NumSlaves(n))
      /\ s \in Nat /\ s < NumSlaves(m) /\ m < NumMasters
      /\ e \in SlaveElements
  BY <1>0, <1>t, DocFacts DEF TypeOK, UpTo
<1>2. \/ /\ s + 1 < NumSlaves(m) /\ pc' = "slaves" /\ at' = <<m, s + 1>>
      \/ /\ s + 1 = NumSlaves(m) /\ m + 1 < NumMasters /\ pc' = "slaves" /\ at' = <<m + 1, 0>>
      \/ /\ s + 1 = NumSlaves(m) /\ m + 1 = NumMasters /\ pc' = "axles" /\ at' = <<0, 0>>
  BY <1>0, <1>1 DEF NextSlave
<1>3. pc' \in {"slaves", "axles"} /\ at' \in Nat \X Nat
  BY <1>1, <1>2
<1> HIDE DEF m, s, e
<1>4. /\ slaves'[m] = Put(slaves[m], e.pos, s) /\ DOMAIN slaves' = Masters
      /\ \A n \in Masters : n # m => slaves'[n] = slaves[n]
  BY <1>0, <1>t DEF TypeOK
<1>p. /\ DOMAIN slaves'[m] = DOMAIN slaves[m] \cup {e.pos}
      /\ slaves'[m][e.pos] = s
      /\ \A c \in DOMAIN slaves[m] : c # e.pos => slaves'[m][c] = slaves[m][c]
  BY <1>4 DEF Put
<1>5. TypeOK'
  <2>1. \A n \in Masters : \A c \in DOMAIN slaves'[n] : slaves'[n][c] \in SlaveCells(n)
    <3>1. \A n \in Masters : \A c \in DOMAIN slaves[n] : slaves[n][c] \in SlaveCells(n)
      BY <1>t DEF TypeOK
    <3> QED BY <3>1, <1>0, <1>4, <1>p
  <2> QED
    BY <2>1, <1>0, <1>3, <1>4, <1>t
    DEF bus, masterVars, TypeOK, PCs, Masters, SlaveCells, AxleCells, NumAxles
<1>6. SlavesInv'
  <2> SUFFICES ASSUME Orderly(doc), NEW n \in Masters
               PROVE  /\ {slaves'[n][c] : c \in DOMAIN slaves'[n]} = DoneSlaves(n)'
                      /\ \A c \in DOMAIN slaves'[n] : doc.masters[n][slaves'[n][c]].pos = c
    BY <1>0 DEF SlavesInv, Masters
  <2>0. ~Failed /\ n \in Nat /\ SlaveCells(n)' = SlaveCells(n)
    BY <1>0, <1>1 DEF Failed, UpTo, SlaveCells
  <2>1. /\ {slaves[n][c] : c \in DOMAIN slaves[n]} = DoneSlaves(n)
        /\ \A c \in DOMAIN slaves[n] : doc.masters[n][slaves[n][c]].pos = c
    BY <2>0, <1>t DEF SlavesInv
  <2>2. CASE n # m
    <3>1. DoneSlaves(n)' = DoneSlaves(n)
      <4>1. CASE n < m
        BY <4>1, <2>0, <1>0, <1>1, <1>2 DEF DoneSlaves, m
      <4>2. CASE n > m
        <5>1. DoneSlaves(n) = {}
          BY <4>2, <2>0, <1>0, <1>1 DEF DoneSlaves, m
        <5>2. ~(n < at'[1]) /\ (n = at'[1] => at'[2] = 0) /\ pc' = "slaves"
          <6>1. m \in Nat /\ n \in Nat /\ n > m /\ NumMasters \in Nat /\ n < NumMasters
            BY <4>2, <2>0, <1>1 DEF UpTo
          <6>2. m + 1 < NumMasters
            BY <6>1
          <6>3. pc' = "slaves" /\ (at'[1] = m \/ (at'[1] = m + 1 /\ at'[2] = 0))
            BY <1>2, <6>1, <6>2
          <6> QED BY <6>1, <6>3
        <5>3. UpTo(0) = {}
          BY DEF UpTo
        <5>4. DoneSlaves(n)' = IF n = at'[1] THEN UpTo(at'[2]) ELSE {}
          BY <5>2 DEF DoneSlaves
        <5> QED BY <5>1, <5>2, <5>3, <5>4
      <4> QED BY <4>1, <4>2, <2>2, <2>0, <1>1
    <3> QED BY <3>1, <2>1, <2>2, <1>4
  <2>3. CASE n = m
    <3>1. e.pos \notin DOMAIN slaves[m]
      <4>1. e.pos \in SlaveCells(m) /\ \A x \in SlaveCells(m) : doc.masters[m][x].marked
        BY <1>0 DEF Orderly, Masters, SlaveCells, e
      <4>2. ~Behind(e.pos, NumSlaves(m))
        BY <4>1, <1>0, <1>1 DEF Behind, UpTo
      <4>3. \A c \in DOMAIN slaves[m] : slaves[m][c] \in SlaveCells(m)
        BY <1>0, <1>t DEF TypeOK
      <4> QED BY <4>1, <4>2, <4>3, <1>0 DEF Occupied
    <3>2. DoneSlaves(m) = UpTo(s)
      BY <1>0, <1>1 DEF DoneSlaves, m, s
    <3>3. DoneSlaves(n)' = UpTo(s + 1)
      <4>1. SlaveCells(m) = UpTo(NumSlaves(m))
        BY <1>0, <1>1
      <4>2. CASE s + 1 < NumSlaves(m)
        <5>1. pc' = "slaves" /\ at'[1] = m /\ at'[2] = s + 1
          BY <4>2, <1>1, <1>2
        <5>2. DoneSlaves(n)' = UpTo(at'[2])
          BY <5>1, <1>1, <2>3, <1>0 DEF DoneSlaves
        <5> QED BY <5>1, <5>2
      <4>3. CASE s + 1 = NumSlaves(m)
        <5>1. pc' # "slaves" \/ m < at'[1]
          BY <4>3, <1>1, <1>2
        <5>2. DoneSlaves(n)' = SlaveCells(n)'
          BY <5>1, <2>3 DEF DoneSlaves
        <5> QED BY <5>2, <4>1, <4>3, <2>0, <2>3
      <4> QED BY <4>2, <4>3, <1>1, <1>2
    <3>4. UpTo(s + 1) = UpTo(s) \cup {s}
      BY <1>1 DEF UpTo
    <3>5. {slaves'[m][c] : c \in DOMAIN slaves'[m]} =
             {slaves[m][c] : c \in DOMAIN slaves[m]} \cup {s}
      BY <3>1, <1>p
    <3>6. \A c \in DOMAIN slaves'[m] : doc.masters[m][slaves'[m][c]].pos = c
      <4>1. doc.masters[m][s].pos = e.pos
        BY DEF e
      <4> QED BY <4>1, <3>1, <2>1, <2>3, <1>p
    <3> QED BY <3>2, <3>3, <3>4, <3>5, <3>6, <2>1, <2>3
  <2> QED BY <2>2, <2>3
<1>7. AxlesInv'
  <2> SUFFICES ASSUME Orderly(doc) PROVE
         /\ {axles[a].element : a \in DOMAIN axles} = DoneAxles'
         /\ \A a \in DOMAIN axles : LET x == doc.axles[axles[a].element]
              IN x.index = a /\ axles[a].master = x.master /\ axles[a].slave = x.pos
    BY <1>0 DEF AxlesInv
  <2>1. {axles[a].element : a \in DOMAIN axles} = {}
    BY <1>0, <1>t DEF AxlesInv, Failed, DoneAxles
  <2>2. DOMAIN axles = {}
    BY <2>1
  <2>3. DoneAxles' = {}
    BY <1>2 DEF DoneAxles, UpTo
  <2> QED BY <2>2, <2>3
<1>8. OffsetsInv'
  BY <1>0, <1>t DEF OffsetsInv, AxleCells
<1>9. MastersInv'
  BY <1>0, <1>3, <1>t DEF masterVars, MastersInv
<1>10. DriveInv'
  BY <1>3, <1>t, DriveIdle
<1> QED BY <1>5, <1>6, <1>7, <1>8, <1>9, <1>10 DEF IInv

LEMMA ParseAxleInv == ASSUME IInv, ParseAxle PROVE IInv'
<1> DEFINE i == at[2]
           e == doc.axles[i]
<1>t. TypeOK /\ SlavesInv /\ AxlesInv /\ OffsetsInv /\ MastersInv /\ DriveInv
  BY DEF IInv
<1>0. /\ pc = "axles" /\ i \in AxleCells
      /\ IndexAccepted(e.index) /\ e.master < NumMasters
      /\ Behind(e.index, NumAxles) \/ ~AxleTaken(e.index)
      /\ NextAxle("axles", "configure")
      /\ UNCHANGED <<doc, slaves, offsets, bus, masterVars>>
  BY DEF ParseAxle
<1>c. PICK c \in Found(e.master, e.pos) :
         axles' = Put(axles, e.index, [element |-> i, master |-> e.master, slave |-> c])
  BY DEF ParseAxle
<1>1. /\ NumAxles \in Nat /\ AxleCells = UpTo(NumAxles) /\ i \in Nat /\ i < NumAxles
      /\ e \in AxleElements
      /\ NumMasters \in Nat /\ Masters = UpTo(NumMasters)
  BY <1>0, <1>t, DocFacts DEF TypeOK, UpTo
<1>2. \/ /\ i + 1 < NumAxles /\ pc' = "axles" /\ at' = <<0, i + 1>>
      \/ /\ i + 1 = NumAxles /\ pc' = "configure" /\ at' = <<0, 0>>
  BY <1>0, <1>1 DEF NextAxle
<1>3. pc' \in {"axles", "configure"} /\ at' \in Nat \X Nat
  BY <1>1, <1>2
<1> HIDE DEF i, e
<1>4. e.index \in 0 .. NumAxles /\ e.master \in Masters /\ c \in SlaveCells(e.master)
  BY <1>0, <1>1, <1>c DEF AxleElements, IndexAccepted, UpTo, Found
<1>p. /\ DOMAIN axles' = DOMAIN axles \cup {e.index}
      /\ axles'[e.index] = [element |-> i, master |-> e.master, slave |-> c]
      /\ \A a \in DOMAIN axles : a # e.index => axles'[a] = axles[a]
  BY <1>c DEF Put
<1>5. TypeOK'
  <2>1. DOMAIN axles' \subseteq 0 .. NumAxles
    BY <1>4, <1>p, <1>t DEF TypeOK
  <2>2. \A a \in DOMAIN axles' : axles'[a] \in [element : AxleCells, master : Masters,
                                               slave : SlaveCells(axles'[a].master)]
    <3>1. \A a \in DOMAIN axles : axles[a] \in [element : AxleCells, master : Masters,
                                               slave : SlaveCells(axles[a].master)]
      BY <1>t DEF TypeOK
    <3>2. axles'[e.index] \in [element : AxleCells, master : Masters,
                               slave : SlaveCells(axles'[e.index].master)]
      BY <1>0, <1>4, <1>p DEF i
    <3> QED BY <3>1, <3>2, <1>p
  <2> QED
    BY <2>1, <2>2, <1>0, <1>3, <1>t
    DEF bus, masterVars, TypeOK, PCs, Masters, SlaveCells, AxleCells, NumAxles
<1>6. SlavesInv'
  BY <1>0, <1>3, <1>t DEF SlavesInv, DoneSlaves, Failed, Masters, SlaveCells
<1>7. AxlesInv'
  <2> SUFFICES ASSUME Orderly(doc) PROVE
         /\ {axles'[a].element : a \in DOMAIN axles'} = DoneAxles'
         /\ \A a \in DOMAIN axles' : LET x == doc.axles[axles'[a].element]
              IN x.index = a /\ axles'[a].master = x.master /\ axles'[a].slave = x.pos
    BY <1>0 DEF AxlesInv
  <2>0. ~Failed
    BY <1>0 DEF Failed
  <2>1. e.index \notin DOMAIN axles
    <3>1. e.index \in AxleCells
      BY <1>0 DEF Orderly, AxleCells, e
    <3>2. ~Behind(e.index, NumAxles)
      BY <3>1, <1>1 DEF Behind, UpTo
    <3> QED BY <3>2, <1>0 DEF AxleTaken
  <2>2. c = e.pos
    <3>1. DOMAIN slaves[e.master] = SlaveCells(e.master)
      BY <2>0, <1>0, <1>4, <1>t, SlavesFilled
    <3>2. doc.masters[e.master][slaves[e.master][c]].pos = e.pos
      BY <3>1, <1>4, <1>c DEF Found
    <3>3. doc.masters[e.master][slaves[e.master][c]].pos = c
      BY <3>1, <2>0, <1>4, <1>t DEF SlavesInv
    <3> QED BY <3>2, <3>3
  <2>3. /\ {axles[a].element : a \in DOMAIN axles} = UpTo(i)
        /\ \A a \in DOMAIN axles : LET x == doc.axles[axles[a].element]
             IN x.index = a /\ axles[a].master = x.master /\ axles[a].slave = x.pos
    BY <2>0, <1>0, <1>t DEF AxlesInv, DoneAxles, i
  <2>4. DoneAxles' = UpTo(i + 1) /\ UpTo(i + 1) = UpTo(i) \cup {i}
    <3>1. AxleCells' = UpTo(NumAxles)
      BY <1>0, <1>1 DEF AxleCells
    <3> QED BY <3>1, <1>1, <1>2 DEF DoneAxles, UpTo
  <2>5. \A a \in DOMAIN axles : a # e.index
    BY <2>1
  <2>6. {axles'[a].element : a \in DOMAIN axles'} = UpTo(i) \cup {i}
    BY <2>3, <2>5, <1>p
  <2>7. ASSUME NEW a \in DOMAIN axles'
        PROVE  LET x == doc.axles[axles'[a].element]
               IN x.index = a /\ axles'[a].master = x.master /\ axles'[a].slave = x.pos
    <3>1. CASE a = e.index
      BY <3>1, <2>2, <1>p DEF e
    <3>2. CASE a # e.index
      BY <3>2, <2>3, <2>7, <1>p
    <3> QED BY <3>1, <3>2
  <2> QED BY <2>4, <2>6, <2>7
<1>8. OffsetsInv'
  BY <1>0, <1>t DEF OffsetsInv, AxleCells
<1>9. MastersInv'
  BY <1>0, <1>3, <1>t DEF masterVars, MastersInv
<1>10. DriveInv'
  <2>1. 0 \in Masters'
    BY <1>0, <1>1, <1>4 DEF Masters, UpTo
  <2>2. pc' = "configure" => at'[1] = 0
    BY <1>2
  <2> QED BY <1>3, <1>t, <2>1, <2>2, DriveIdle
<1> QED BY <1>5, <1>6, <1>7, <1>8, <1>9, <1>10 DEF IInv

LEMMA ParseInv == ASSUME IInv, Parse PROVE IInv'
<1>1. CASE ParseSlaveFails
  <2>1. pc = "slaves" /\ (Fails({"failed"}) \/ Fails({"failed", "crashed"}))
    BY <1>1 DEF ParseSlaveFails
  <2> QED BY <2>1, FailsInv
<1>2. CASE ParseAxleFails
  <2>1. pc = "axles" /\ Fails({"failed"})
    BY <1>2 DEF ParseAxleFails
  <2> QED BY <2>1, FailsInv
<1> QED BY <1>1, <1>2, ParseSlaveInv, ParseAxleInv DEF Parse

(***************************************************************************)
(* The writes to a drive.                                                  *)
(***************************************************************************)
LEMMA OnePdo ==
    ASSUME NEW e \in SlaveElements, OnePdoEach(e), NEW j \in DOMAIN e.syncs
    PROVE  /\ e.syncs \in Seq(Seq(Seq(Objects))) /\ DOMAIN e.syncs = 1 .. Len(e.syncs)
           /\ Len(e.syncs) \in Nat /\ j \in Nat
           /\ e.syncs[j] = <<>> => Len(e.syncs[j]) = 0
           /\ e.syncs[j] # <<>> => /\ Len(e.syncs[j]) = 1 /\ DOMAIN e.syncs[j] = 1 .. 1
                                   /\ e.syncs[j][1] \in Seq(Objects) /\ e.syncs[j][1] # <<>>
                                   /\ Len(e.syncs[j][1]) \in Nat /\ Len(e.syncs[j][1]) > 0
                                   /\ DOMAIN e.syncs[j][1] = 1 .. Len(e.syncs[j][1])
<1>1. e.syncs \in Seq(Seq(Seq(Objects)))
  BY DEF SlaveElements
<1> DEFINE s == e.syncs
<1>2. Len(s[j]) <= 1 /\ <<>> \notin Range(s[j])
  BY DEF OnePdoEach
<1> HIDE DEF s
<1>3. s \in Seq(Seq(Seq(Objects))) /\ j \in DOMAIN s
  BY <1>1 DEF s
<1>4. DOMAIN s = 1 .. Len(s) /\ Len(s) \in Nat /\ j \in Nat /\ s[j] \in Seq(Seq(Objects))
  BY <1>3
<1>5. s[j] = <<>> => Len(s[j]) = 0
  OBVIOUS
<1>6. ASSUME s[j] # <<>>
      PROVE  /\ Len(s[j]) = 1 /\ DOMAIN s[j] = 1 .. 1
             /\ s[j][1] \in Seq(Objects) /\ s[j][1] # <<>>
  <2>1. Len(s[j]) \in Nat \ {0} /\ DOMAIN s[j] = 1 .. Len(s[j])
    BY <1>4, <1>6, EmptySeq
  <2>4. Len(s[j]) <= 1
    BY <1>2
  <2>6. \A l \in Nat \ {0} : l <= 1 => l = 1
    OBVIOUS
  <2>5. Len(s[j]) = 1
    BY <2>1, <2>4, <2>6
  <2>2. Len(s[j]) = 1 /\ 1 \in DOMAIN s[j]
    BY <2>1, <2>5
  <2>3. s[j][1] \in Range(s[j])
    BY <2>2 DEF Range
  <2> QED BY <1>2, <1>4, <2>1, <2>2, <2>3
<1>7. ASSUME NEW q \in Seq(Objects), q # <<>>
      PROVE  Len(q) \in Nat /\ Len(q) > 0 /\ DOMAIN q = 1 .. Len(q)
  BY <1>7, EmptySeq
<1>8. s[j] # <<>> => Len(s[j][1]) \in Nat /\ Len(s[j][1]) > 0 /\ DOMAIN s[j][1] = 1 .. Len(s[j][1])
  BY <1>6, <1>7
<1> QED BY <1>3, <1>4, <1>5, <1>6, <1>8 DEF s

LEMMA SizeOf ==
    ASSUME NEW e \in SlaveElements, OnePdoEach(e), NEW j \in DOMAIN e.syncs
    PROVE  /\ Size(e.syncs, j) \in Nat
           /\ e.syncs[j] # <<>> => Size(e.syncs, j) = Len(e.syncs[j][1]) + 5
<1>1. CASE e.syncs[j] = <<>>
  BY <1>1 DEF Size
<1>2. CASE e.syncs[j] # <<>>
  <2>1. Size(e.syncs, j) = Len(e.syncs[j][1]) + 5
    BY <1>2 DEF Size
  <2>2. Len(e.syncs[j][1]) \in Nat
    BY <1>2, OnePdo
  <2> QED BY <1>2, <2>1, <2>2
<1> QED BY <1>1, <1>2

LEMMA InDrive ==
    ASSUME NEW e \in SlaveElements, OnePdoEach(e), NEW j \in DOMAIN e.syncs
    PROVE  /\ <<j, 0>> \in DriveObjects(e)
           /\ e.syncs[j] # <<>> => <<j, 1>> \in DriveObjects(e)
<1>1. e.syncs[j] # <<>> => 1 \in DOMAIN e.syncs[j]
  BY OnePdo
<1> QED BY <1>1 DEF DriveObjects

\* As the drive comes no sync manager has had a write.
LEMMA DeliveredAt ==
    ASSUME NEW e \in SlaveElements, OnePdoEach(e), drive' = Delivered(e)
    PROVE  DriveAt(e, 1, 0)'
<1>1. DOMAIN drive' = DriveObjects(e) /\ \A o \in DriveObjects(e) : drive'[o] = Untouched
  BY DEF Delivered, Untouched
<1>2. ASSUME NEW i \in DOMAIN e.syncs
      PROVE  i \in Nat /\ ~(i < 1) /\ ObjectsAt(e.syncs, i, 0)'
  <2>1. i \in 1 .. Len(e.syncs) /\ Len(e.syncs) \in Nat
    BY OnePdo
  <2>2. <<i, 0>> \in DriveObjects(e) /\ (e.syncs[i] # <<>> => <<i, 1>> \in DriveObjects(e))
    BY InDrive
  <2> QED BY <1>1, <2>1, <2>2 DEF ObjectsAt, SyncObject, PdoObject
<1>3. ASSUME NEW i \in DOMAIN e.syncs
      PROVE  ObjectsAt(e.syncs, i, IF i < 1 THEN Size(e.syncs, i) ELSE IF i = 1 THEN 0 ELSE 0)'
  BY <1>2
<1> QED BY <1>1, <1>3 DEF DriveAt

\* Writing an entry, and writing the number of entries.
LEMMA EntryWritten ==
    ASSUME NEW x, NEW y, NEW v, NEW l, y # 0
    PROVE  LET o == [number |-> 0, list |-> l]
           IN /\ Accepts(o, Write(x, y, v))
              /\ After(o, Write(x, y, v)) = [number |-> 0, list |-> Put(l, y, v)]
BY DEF Accepts, After, Write

LEMMA NumberWritten ==
    ASSUME NEW x, NEW v, NEW c, NEW l
    PROVE  LET o == [number |-> c, list |-> l]
           IN /\ 1 .. v \subseteq DOMAIN l => Accepts(o, Write(x, 0, v))
              /\ After(o, Write(x, 0, v)) = [number |-> v, list |-> IF v = 0 THEN <<>> ELSE l]
BY DEF Accepts, After, Write

\* What one write does to the two objects, sync manager j being there.
LEMMA OneWrite ==
    ASSUME NEW e \in SlaveElements, OnePdoEach(e), NEW j \in DOMAIN e.syncs, e.syncs[j] # <<>>,
           NEW t \in Nat, t < Size(e.syncs, j)
    PROVE  LET w == WriteOf(e.syncs, j, t + 1)
               now == SyncObject(e.syncs, j, t)
               pdo == PdoObject(e.syncs, j, t)
           IN \/ /\ w.obj = <<j, 0>> /\ Accepts(now, w)
                 /\ After(now, w) = SyncObject(e.syncs, j, t + 1)
                 /\ pdo = PdoObject(e.syncs, j, t + 1)
              \/ /\ w.obj = <<j, 1>> /\ Accepts(pdo, w)
                 /\ After(pdo, w) = PdoObject(e.syncs, j, t + 1)
                 /\ now = SyncObject(e.syncs, j, t + 1)
<1> DEFINE q == e.syncs[j][1]
           n == Len(q)
<1>1. /\ q \in Seq(Objects) /\ n \in Nat /\ n > 0 /\ DOMAIN q = 1 .. n /\ Size(e.syncs, j) = n + 5
  <2>1. Size(e.syncs, j) = n + 5
    BY SizeOf
  <2> QED BY <2>1, OnePdo
<1>2. q = [h \in 1 .. n |-> q[h]]
  <2> HIDE DEF q
  <2> QED BY <1>1
<1> HIDE DEF q, n
<1>3. \A x, y, z : Write(x, y, z).obj = x
  BY DEF Write
<1>4. CASE t = 0
  <2> DEFINE w == Write(<<j, 0>>, 0, 0)
             off == [number |-> 0, list |-> <<>>]
  <2>1. WriteOf(e.syncs, j, t + 1) = w
    BY <1>4 DEF WriteOf
  <2>2. Accepts(Untouched, w) /\ After(Untouched, w) = off
    BY NumberWritten DEF Untouched
  <2>3. SyncObject(e.syncs, j, t) = Untouched /\ SyncObject(e.syncs, j, t + 1) = off
    BY <1>1, <1>4 DEF SyncObject
  <2>4. PdoObject(e.syncs, j, t + 1) = PdoObject(e.syncs, j, t)
    BY <1>4 DEF PdoObject
  <2> QED BY <1>3, <2>1, <2>2, <2>3, <2>4
<1>5. CASE t = 1
  <2> DEFINE w == Write(<<j, 1>>, 0, 0)
             off == [number |-> 0, list |-> [h \in 1 .. 0 |-> q[h]]]
  <2>1. WriteOf(e.syncs, j, t + 1) = w
    BY <1>5 DEF WriteOf
  <2>2. [h \in 1 .. 0 |-> q[h]] = <<>>
    OBVIOUS
  <2>3. Accepts(Untouched, w) /\ After(Untouched, w) = off
    BY <2>2, NumberWritten DEF Untouched
  <2>4. PdoObject(e.syncs, j, t) = Untouched /\ PdoObject(e.syncs, j, t + 1) = off
    BY <1>1, <1>5 DEF PdoObject, q
  <2>5. SyncObject(e.syncs, j, t + 1) = SyncObject(e.syncs, j, t)
    BY <1>1, <1>5 DEF SyncObject
  <2> QED BY <1>3, <2>1, <2>3, <2>4, <2>5
<1>6. CASE t \in 2 .. (n + 1)
  <2> DEFINE w == Write(<<j, 1>>, t - 1, q[t - 1])
             listed(i) == [h \in 1 .. i |-> q[h]]
  <2>1. WriteOf(e.syncs, j, t + 1) = w
    BY <1>1, <1>6 DEF WriteOf, q
  <2>2. PdoObject(e.syncs, j, t) = [number |-> 0, list |-> listed(t - 2)]
    BY <1>1, <1>6 DEF PdoObject, q
  <2>3. PdoObject(e.syncs, j, t + 1) = [number |-> 0, list |-> listed(t - 1)]
    BY <1>1, <1>6 DEF PdoObject, q
  <2>4. SyncObject(e.syncs, j, t + 1) = SyncObject(e.syncs, j, t)
    BY <1>1, <1>6 DEF SyncObject
  <2>5. Put(listed(t - 2), t - 1, q[t - 1]) = listed(t - 1)
    BY <1>6 DEF Put
  <2>6. t - 1 # 0
    BY <1>6
  <2> HIDE DEF listed
  <2>7. LET o == [number |-> 0, list |-> listed(t - 2)]
        IN Accepts(o, w) /\ After(o, w) = [number |-> 0, list |-> listed(t - 1)]
    BY <2>5, <2>6, EntryWritten
  <2> QED BY <1>3, <2>1, <2>2, <2>3, <2>4, <2>7
<1>7. CASE t = n + 2
  <2> DEFINE w == Write(<<j, 1>>, 0, n)
  <2>1. WriteOf(e.syncs, j, t + 1) = w
    BY <1>1, <1>7 DEF WriteOf, q, n
  <2>2. PdoObject(e.syncs, j, t) = [number |-> 0, list |-> [h \in 1 .. n |-> q[h]]]
    <3>1. t < Size(e.syncs, j) - 2 /\ t - 2 = n /\ ~(t < 2)
      BY <1>1, <1>7
    <3> QED BY <3>1 DEF PdoObject, q
  <2>3. PdoObject(e.syncs, j, t + 1) = [number |-> n, list |-> q]
    <3>1. ~(t + 1 < Size(e.syncs, j) - 2) /\ ~(t + 1 < 2)
      BY <1>1, <1>7
    <3> QED BY <3>1 DEF PdoObject, q, n
  <2>4. SyncObject(e.syncs, j, t + 1) = SyncObject(e.syncs, j, t)
    BY <1>1, <1>7 DEF SyncObject
  <2>5. 1 .. n \subseteq DOMAIN q /\ n # 0
    BY <1>1
  <2>6. LET o == [number |-> 0, list |-> q]
        IN Accepts(o, w) /\ After(o, w) = [number |-> n, list |-> q]
    BY <2>5, NumberWritten
  <2>7. PdoObject(e.syncs, j, t) = [number |-> 0, list |-> q]
    BY <1>2, <2>2
  <2>8. Accepts(PdoObject(e.syncs, j, t), w)
    BY <2>6, <2>7
  <2>9. After(PdoObject(e.syncs, j, t), w) = PdoObject(e.syncs, j, t + 1)
    BY <2>3, <2>6, <2>7
  <2> QED BY <1>3, <2>1, <2>4, <2>8, <2>9
<1>8. CASE t = n + 3
  <2> DEFINE w == Write(<<j, 0>>, 1, <<j, 1>>)
             own == [k \in 1 .. 1 |-> <<j, k>>]
  <2>1. WriteOf(e.syncs, j, t + 1) = w
    BY <1>1, <1>8 DEF WriteOf
  <2>2. SyncObject(e.syncs, j, t) = [number |-> 0, list |-> <<>>]
    BY <1>1, <1>8 DEF SyncObject
  <2>3. SyncObject(e.syncs, j, t + 1) = [number |-> 0, list |-> own]
    BY <1>1, <1>8 DEF SyncObject
  <2>4. PdoObject(e.syncs, j, t + 1) = PdoObject(e.syncs, j, t)
    BY <1>1, <1>8 DEF PdoObject
  <2>5. Put(<<>>, 1, <<j, 1>>) = own
    BY DEF Put
  <2> HIDE DEF own
  <2>6. LET o == [number |-> 0, list |-> <<>>]
        IN Accepts(o, w) /\ After(o, w) = [number |-> 0, list |-> own]
    BY <2>5, EntryWritten
  <2> QED BY <1>3, <2>1, <2>2, <2>3, <2>4, <2>6
<1>9. CASE t = n + 4
  <2> DEFINE w == Write(<<j, 0>>, 0, 1)
             own == [k \in 1 .. 1 |-> <<j, k>>]
  <2>1. WriteOf(e.syncs, j, t + 1) = w
    BY <1>1, <1>9 DEF WriteOf
  <2>2. SyncObject(e.syncs, j, t) = [number |-> 0, list |-> own]
    <3>1. t # 0 /\ ~(t < Size(e.syncs, j) - 1) /\ t < Size(e.syncs, j)
      BY <1>1, <1>9
    <3> QED BY <3>1 DEF SyncObject
  <2>3. SyncObject(e.syncs, j, t + 1) = [number |-> 1, list |-> own]
    <3>1. t + 1 # 0 /\ ~(t + 1 < Size(e.syncs, j) - 1) /\ ~(t + 1 < Size(e.syncs, j))
      BY <1>1, <1>9
    <3> QED BY <3>1 DEF SyncObject
  <2>4. PdoObject(e.syncs, j, t + 1) = PdoObject(e.syncs, j, t)
    BY <1>1, <1>9 DEF PdoObject
  <2>5. 1 .. 1 \subseteq DOMAIN own
    OBVIOUS
  <2> HIDE DEF own
  <2>6. LET o == [number |-> 0, list |-> own]
        IN Accepts(o, w) /\ After(o, w) = [number |-> 1, list |-> own]
    BY <2>5, NumberWritten
  <2> QED BY <1>3, <2>1, <2>2, <2>3, <2>4, <2>6
<1> QED BY <1>1, <1>4, <1>5, <1>6, <1>7, <1>8, <1>9

LEMMA WriteInDrive ==
    ASSUME NEW e \in SlaveElements, OnePdoEach(e), NEW j \in DOMAIN e.syncs, e.syncs[j] # <<>>,
           NEW t \in Nat, t < Size(e.syncs, j), DriveAt(e, j, t),
           NEW w, w = WriteOf(e.syncs, j, t + 1)
    PROVE  /\ Accepts(drive[w.obj], w)
           /\ drive' = [drive EXCEPT ![w.obj] = After(@, w)] => DriveAt(e, j, t + 1)'
<1> DEFINE now == SyncObject(e.syncs, j, t)
           pdo == PdoObject(e.syncs, j, t)
<1>j. j \in Nat /\ \A i \in DOMAIN e.syncs : i \in Nat
  BY OnePdo
<1>1. DOMAIN drive = DriveObjects(e)
  BY DEF DriveAt
<1>2. drive[<<j, 0>>] = now /\ drive[<<j, 1>>] = pdo
  BY <1>j DEF DriveAt, ObjectsAt
<1>3. <<j, 0>> \in DOMAIN drive /\ <<j, 1>> \in DOMAIN drive
  BY <1>1, InDrive
<1>4. \/ /\ w.obj = <<j, 0>> /\ Accepts(now, w)
         /\ After(now, w) = SyncObject(e.syncs, j, t + 1)
         /\ pdo = PdoObject(e.syncs, j, t + 1)
      \/ /\ w.obj = <<j, 1>> /\ Accepts(pdo, w)
         /\ After(pdo, w) = PdoObject(e.syncs, j, t + 1)
         /\ now = SyncObject(e.syncs, j, t + 1)
  BY OneWrite
<1>5. Accepts(drive[w.obj], w)
  BY <1>2, <1>4
<1> HIDE DEF now, pdo
<1>6. ASSUME drive' = [drive EXCEPT ![w.obj] = After(@, w)] PROVE DriveAt(e, j, t + 1)'
  <2>1. DOMAIN drive' = DOMAIN drive
    BY <1>6
  <2>2. \A o \in DOMAIN drive : drive'[o] = IF o = w.obj THEN After(drive[o], w) ELSE drive[o]
    BY <1>6
  <2>3. drive'[<<j, 0>>] = SyncObject(e.syncs, j, t + 1) /\ drive'[<<j, 1>>] = PdoObject(e.syncs, j, t + 1)
    <3>1. <<j, 0>> # <<j, 1>>
      OBVIOUS
    <3>2. CASE w.obj = <<j, 0>> /\ After(now, w) = SyncObject(e.syncs, j, t + 1) /\ pdo = PdoObject(e.syncs, j, t + 1)
      BY <3>1, <3>2, <1>2, <1>3, <2>2
    <3>3. CASE w.obj = <<j, 1>> /\ After(pdo, w) = PdoObject(e.syncs, j, t + 1) /\ now = SyncObject(e.syncs, j, t + 1)
      BY <3>1, <3>3, <1>2, <1>3, <2>2
    <3> QED BY <3>2, <3>3, <1>4
  <2>4. ASSUME NEW i \in DOMAIN e.syncs
        PROVE  ObjectsAt(e.syncs, i, IF i < j THEN Size(e.syncs, i) ELSE IF i = j THEN t + 1 ELSE 0)'
    <3>1. CASE i = j
      BY <3>1, <2>3, <1>j DEF ObjectsAt
    <3>2. CASE i # j
      <4> DEFINE u == IF i < j THEN Size(e.syncs, i) ELSE 0
      <4>1. ObjectsAt(e.syncs, i, u)
        BY <3>2, <2>4 DEF DriveAt
      <4>2. \A k \in {0, 1} : <<i, k>> # w.obj
        BY <3>2, <1>4
      <4>3. <<i, 0>> \in DOMAIN drive /\ (e.syncs[i] # <<>> => <<i, 1>> \in DOMAIN drive)
        BY <1>1, InDrive
      <4>4. /\ drive'[<<i, 0>>] = drive[<<i, 0>>]
            /\ e.syncs[i] # <<>> => drive'[<<i, 1>>] = drive[<<i, 1>>]
        BY <4>2, <4>3, <2>2
      <4> HIDE DEF u
      <4>5. ObjectsAt(e.syncs, i, u)'
        BY <4>1, <4>4 DEF ObjectsAt
      <4> QED BY <3>2, <4>5 DEF u
    <3> QED BY <3>1, <3>2
  <2> QED BY <1>1, <2>1, <2>4 DEF DriveAt
<1> QED BY <1>5, <1>6

\* The next sync manager: the writes of one are over, or it has none.
LEMMA ManagerDone ==
    ASSUME NEW e \in SlaveElements, OnePdoEach(e), NEW j \in DOMAIN e.syncs,
           DriveAt(e, j, Size(e.syncs, j))
    PROVE  DriveAt(e, j + 1, 0)
<1>1. j \in Nat /\ \A i \in DOMAIN e.syncs : i \in Nat
  BY OnePdo
<1>2. ASSUME NEW i \in DOMAIN e.syncs
      PROVE  (IF i < j + 1 THEN Size(e.syncs, i) ELSE IF i = j + 1 THEN 0 ELSE 0)
                = (IF i < j THEN Size(e.syncs, i) ELSE IF i = j THEN Size(e.syncs, j) ELSE 0)
  BY <1>1
<1> QED BY <1>2 DEF DriveAt

\* Between two rounds the drive is where the rounds are.
LEMMA BetweenRounds ==
    ASSUME NEW e \in SlaveElements, OnePdoEach(e), NEW i \in 1 .. (Len(e.syncs) + 1), NEW t \in Nat,
           RoundAt(e.syncs, i, t), DriveAt(e, i, t), todo = <<>>
    PROVE  \E j \in 1 .. (Len(e.syncs) + 1) :
              \/ round = <<j, 0>> /\ DriveAt(e, j, 0)
              \/ round = <<j, 1>> /\ DriveAt(e, j, 1) /\ j \in DOMAIN e.syncs /\ e.syncs[j] # <<>>
<1>1. CASE round = <<i, 0>> /\ todo = <<>> /\ t = 0
  BY <1>1
<1>2. CASE i \in DOMAIN e.syncs /\ e.syncs[i] # <<>> /\ round = <<i, 1>> /\ t = 0 /\ todo = <<WriteOf(e.syncs, i, 1)>>
  BY <1>2
<1>3. CASE i \in DOMAIN e.syncs /\ e.syncs[i] # <<>> /\ round = <<i, 1>> /\ t = 1 /\ todo = <<>>
  BY <1>3
<1>4. CASE /\ i \in DOMAIN e.syncs /\ e.syncs[i] # <<>> /\ round = <<i + 1, 0>> /\ t \in 1 .. Size(e.syncs, i)
           /\ todo = [h \in 1 .. (Size(e.syncs, i) - t) |-> WriteOf(e.syncs, i, t + h)]
  <2>0. Size(e.syncs, i) \in Nat
    BY <1>4, SizeOf
  <2>1. /\ Size(e.syncs, i) \in Nat /\ i \in 1 .. Len(e.syncs) /\ Len(e.syncs) \in Nat
    BY <1>4, <2>0, OnePdo
  <2>2. 1 .. (Size(e.syncs, i) - t) = {}
    BY <1>4
  <2>3. t = Size(e.syncs, i)
    BY <1>4, <2>1, <2>2
  <2>4. DriveAt(e, i + 1, 0)
    BY <1>4, <2>3, ManagerDone
  <2> QED BY <1>4, <2>1, <2>4
<1> QED BY <1>1, <1>2, <1>3, <1>4 DEF RoundAt

\* The writes of the second round are those behind the first.
LEMMA PdoRound ==
    ASSUME NEW e \in SlaveElements, OnePdoEach(e), NEW j \in DOMAIN e.syncs, e.syncs[j] # <<>>
    PROVE  SyncWrites(e.syncs, j, 1) = [i \in 1 .. (Size(e.syncs, j) - 1) |-> WriteOf(e.syncs, j, 1 + i)]
<1> DEFINE q == e.syncs[j][1]
           n == Len(q)
           a == <<Write(<<j, 1>>, 0, 0)>>
           b == [h \in DOMAIN q |-> Write(<<j, 1>>, h, q[h])]
           c == <<Write(<<j, 1>>, 0, n), Write(<<j, 0>>, 1, <<j, 1>>)>>
           d == <<Write(<<j, 0>>, 0, 1)>>
           S == {Write(<<j, 1>>, 0, 0), Write(<<j, 1>>, 0, n), Write(<<j, 0>>, 1, <<j, 1>>), Write(<<j, 0>>, 0, 1)}
                   \cup {Write(<<j, 1>>, h, q[h]) : h \in DOMAIN q}
<1>1. /\ q # <<>> /\ n \in Nat /\ n > 0 /\ DOMAIN q = 1 .. n /\ Size(e.syncs, j) = n + 5
      /\ Len(e.syncs[j]) = 1
  <2>1. Size(e.syncs, j) = n + 5
    BY SizeOf
  <2> QED BY <2>1, OnePdo
<1>2. SyncWrites(e.syncs, j, 1) = ((a \o b) \o c) \o d
  <2>1. PdoWrites(e.syncs, j, 1) = (a \o b) \o c
    BY <1>1, Zenon DEF PdoWrites
  <2>2. SyncWrites(e.syncs, j, 1) = PdoWrites(e.syncs, j, 1) \o <<Write(<<j, 0>>, 0, Len(e.syncs[j]))>>
    BY DEF SyncWrites
  <2>3. d = <<Write(<<j, 0>>, 0, Len(e.syncs[j]))>>
    BY <1>1
  <2> HIDE DEF a, b, c, d
  <2> QED BY <2>1, <2>2, <2>3
<1>3. a \in Seq(S) /\ c \in Seq(S) /\ d \in Seq(S) /\ Len(a) = 1 /\ Len(c) = 2 /\ Len(d) = 1
  <2>1. \A x \in S : <<x>> \in Seq(S) /\ Len(<<x>>) = 1
    <3> HIDE DEF S
    <3> QED OBVIOUS
  <2>2. \A x, y \in S : <<x, y>> \in Seq(S) /\ Len(<<x, y>>) = 2
    <3> HIDE DEF S
    <3> QED OBVIOUS
  <2>3. /\ Write(<<j, 1>>, 0, 0) \in S /\ Write(<<j, 1>>, 0, n) \in S
        /\ Write(<<j, 0>>, 1, <<j, 1>>) \in S /\ Write(<<j, 0>>, 0, 1) \in S
    OBVIOUS
  <2> HIDE DEF S
  <2> QED BY <2>1, <2>2, <2>3
<1>4. b \in Seq(S) /\ Len(b) = n
  <2> HIDE DEF q, n
  <2>1. b \in [1 .. n -> S]
    BY <1>1
  <2> HIDE DEF S, b
  <2>2. b \in Seq(S)
    BY <1>1, <2>1, SeqDef
  <2>3. Len(b) \in Nat /\ DOMAIN b = 1 .. Len(b) /\ DOMAIN b = 1 .. n
    BY <2>1, <2>2, LenProperties
  <2>4. \A k, l \in Nat : 1 .. k = 1 .. l => k = l
    OBVIOUS
  <2> QED BY <1>1, <2>2, <2>3, <2>4
<1>5. /\ a[1] = Write(<<j, 1>>, 0, 0) /\ d[1] = Write(<<j, 0>>, 0, 1)
      /\ c[1] = Write(<<j, 1>>, 0, n) /\ c[2] = Write(<<j, 0>>, 1, <<j, 1>>)
      /\ \A h \in 1 .. n : b[h] = Write(<<j, 1>>, h, q[h])
  BY <1>1
<1>6. ASSUME NEW i \in 1 .. (n + 4)
      PROVE  WriteOf(e.syncs, j, 1 + i) = IF i = 1 THEN a[1] ELSE IF i < n + 2 THEN b[i - 1]
                                          ELSE IF i < n + 4 THEN c[i - n - 1] ELSE d[1]
  <2> DEFINE W(t) == IF t = 1 THEN Write(<<j, 0>>, 0, 0)
                     ELSE IF t = 2 THEN Write(<<j, 1>>, 0, 0)
                     ELSE IF t < n + 3 THEN Write(<<j, 1>>, t - 2, q[t - 2])
                     ELSE IF t = n + 3 THEN Write(<<j, 1>>, 0, n)
                     ELSE IF t = n + 4 THEN Write(<<j, 0>>, 1, <<j, 1>>)
                     ELSE Write(<<j, 0>>, 0, 1)
  <2>1. WriteOf(e.syncs, j, 1 + i) = W(1 + i)
    <3>1. Size(e.syncs, j) - 2 = n + 3 /\ Size(e.syncs, j) - 1 = n + 4
      BY <1>1
    <3> QED BY <3>1 DEF WriteOf
  <2> HIDE DEF q, n
  <2>2. CASE i = 1
    BY <2>1, <2>2, <1>5
  <2>3. CASE i \in 2 .. (n + 1)
    <3>1. /\ 1 + i # 1 /\ 1 + i # 2 /\ 1 + i < n + 3 /\ (1 + i) - 2 = i - 1
          /\ i # 1 /\ i < n + 2 /\ i - 1 \in 1 .. n
      BY <2>3, <1>1
    <3>2. b[i - 1] = Write(<<j, 1>>, i - 1, q[i - 1])
      BY <3>1, <1>5
    <3>3. W(1 + i) = Write(<<j, 1>>, i - 1, q[i - 1])
      BY <3>1
    <3> QED BY <2>1, <3>1, <3>2, <3>3
  <2>4. CASE i = n + 2
    <3>1. /\ 1 + i # 1 /\ 1 + i # 2 /\ ~(1 + i < n + 3) /\ 1 + i = n + 3
          /\ i # 1 /\ ~(i < n + 2) /\ i < n + 4 /\ i - n - 1 = 1
      BY <2>4, <1>1
    <3> QED BY <2>1, <3>1, <1>5
  <2>5. CASE i = n + 3
    <3>1. /\ 1 + i # 1 /\ 1 + i # 2 /\ ~(1 + i < n + 3) /\ 1 + i # n + 3 /\ 1 + i = n + 4
          /\ i # 1 /\ ~(i < n + 2) /\ i < n + 4 /\ i - n - 1 = 2
      BY <2>5, <1>1
    <3> QED BY <2>1, <3>1, <1>5
  <2>6. CASE i = n + 4
    <3>1. /\ 1 + i # 1 /\ 1 + i # 2 /\ ~(1 + i < n + 3) /\ 1 + i # n + 3 /\ 1 + i # n + 4
          /\ i # 1 /\ ~(i < n + 2) /\ ~(i < n + 4)
      BY <2>6, <1>1
    <3> QED BY <2>1, <3>1, <1>5
  <2>7. i = 1 \/ i \in 2 .. (n + 1) \/ i = n + 2 \/ i = n + 3 \/ i = n + 4
    BY <1>1
  <2> QED BY <2>2, <2>3, <2>4, <2>5, <2>6, <2>7
<1> HIDE DEF q, n, a, b, c, d, S
<1> DEFINE ab == a \o b
           abc == ab \o c
           all == abc \o d
<1>7. /\ ab \in Seq(S) /\ Len(ab) = n + 1
      /\ \A i \in 1 .. (n + 1) : ab[i] = IF i = 1 THEN a[1] ELSE b[i - 1]
  <2>1. /\ ab \in Seq(S) /\ Len(ab) = Len(a) + Len(b)
        /\ \A i \in 1 .. (Len(a) + Len(b)) : ab[i] = IF i <= Len(a) THEN a[i] ELSE b[i - Len(a)]
    BY <1>3, <1>4, ConcatProperties
  <2> HIDE DEF ab
  <2>2. Len(a) + Len(b) = n + 1 /\ \A i \in 1 .. (n + 1) : i <= Len(a) <=> i = 1
    BY <1>1, <1>3, <1>4
  <2> QED BY <1>3, <2>1, <2>2
<1> HIDE DEF ab
<1>8. /\ abc \in Seq(S) /\ Len(abc) = n + 3
      /\ \A i \in 1 .. (n + 3) : abc[i] = IF i < n + 2 THEN ab[i] ELSE c[i - n - 1]
  <2>1. /\ abc \in Seq(S) /\ Len(abc) = Len(ab) + Len(c)
        /\ \A i \in 1 .. (Len(ab) + Len(c)) : abc[i] = IF i <= Len(ab) THEN ab[i] ELSE c[i - Len(ab)]
    BY <1>3, <1>7, ConcatProperties
  <2> HIDE DEF abc
  <2>2. /\ Len(ab) + Len(c) = n + 3
        /\ \A i \in 1 .. (n + 3) : (i <= Len(ab) <=> i < n + 2) /\ i - Len(ab) = i - n - 1
    BY <1>1, <1>3, <1>7
  <2> QED BY <2>1, <2>2
<1> HIDE DEF abc
<1>9. /\ all \in Seq(S) /\ Len(all) = n + 4
      /\ \A i \in 1 .. (n + 4) : all[i] = IF i < n + 4 THEN abc[i] ELSE d[1]
  <2>1. /\ all \in Seq(S) /\ Len(all) = Len(abc) + Len(d)
        /\ \A i \in 1 .. (Len(abc) + Len(d)) : all[i] = IF i <= Len(abc) THEN abc[i] ELSE d[i - Len(abc)]
    BY <1>3, <1>8, ConcatProperties
  <2> HIDE DEF all
  <2>2. /\ Len(abc) + Len(d) = n + 4
        /\ \A i \in 1 .. (n + 4) : (i <= Len(abc) <=> i < n + 4) /\ (~(i < n + 4) => i - Len(abc) = 1)
    BY <1>1, <1>3, <1>8
  <2> QED BY <2>1, <2>2
<1>10. all \in [1 .. (n + 4) -> S]
  <2> HIDE DEF all
  <2> QED BY <1>9, LenProperties
<1>11. ASSUME NEW i \in 1 .. (n + 4) PROVE all[i] = WriteOf(e.syncs, j, 1 + i)
  <2> HIDE DEF all
  <2>1. all[i] = IF i < n + 4 THEN abc[i] ELSE d[1]
    BY <1>9
  <2>2. i < n + 4 => abc[i] = IF i < n + 2 THEN ab[i] ELSE c[i - n - 1]
    BY <1>1, <1>8
  <2>3. i < n + 2 => ab[i] = IF i = 1 THEN a[1] ELSE b[i - 1]
    BY <1>1, <1>7
  <2>4. i = 1 => i < n + 2 /\ i < n + 4
    BY <1>1
  <2>5. i < n + 2 => i < n + 4
    BY <1>1
  <2> QED BY <1>6, <2>1, <2>2, <2>3, <2>4, <2>5
<1>12. all = [i \in 1 .. (n + 4) |-> WriteOf(e.syncs, j, 1 + i)]
  <2> HIDE DEF all
  <2> QED BY <1>10, <1>11
<1>13. Size(e.syncs, j) - 1 = n + 4
  BY <1>1
<1> QED BY <1>2, <1>12, <1>13 DEF ab, abc

\* The element a slave cell holds.
LEMMA CurrentType ==
    ASSUME TypeOK, DriveInv
    PROVE  /\ Written \subseteq Current /\ Current \subseteq SlaveElements
           /\ \A d, e \in Current : d = e
<1>1. Written \subseteq Current
  BY DEF Written
<1>2. CASE pc \in {"configure", "write"} /\ at[2] \in DOMAIN slaves[at[1]]
  <2>1. at[1] \in Masters
    BY <1>2 DEF DriveInv
  <2>2. slaves[at[1]][at[2]] \in SlaveCells(at[1])
    BY <1>2, <2>1 DEF TypeOK
  <2>3. doc.masters[at[1]][slaves[at[1]][at[2]]] \in SlaveElements
    BY <2>1, <2>2, DocFacts DEF TypeOK
  <2> QED BY <1>1, <1>2, <2>3 DEF Current
<1>3. CASE ~(pc \in {"configure", "write"} /\ at[2] \in DOMAIN slaves[at[1]])
  BY <1>1, <1>3 DEF Current
<1> QED BY <1>2, <1>3

LEMMA ConfigureSlaveDrive == ASSUME TypeOK, DriveInv, ConfigureSlave PROVE DriveInv'
<1>1. /\ pc = "configure" /\ pc' = "write" /\ round' = <<1, 0>> /\ todo' = <<>>
      /\ Current = {} \/ \E e \in Current : drive' = Delivered(e)
      /\ refused' = FALSE /\ UNCHANGED <<at, parsed, offsets, masterVars>>
  BY DEF ConfigureSlave
<1>2. Written' = Current /\ at'[1] \in Masters'
  BY <1>1 DEF Written, Current, DriveInv, parsed, Masters
<1>3. ASSUME NEW e \in Current, OnePdoEach(e)
      PROVE  \E j \in 1 .. (Len(e.syncs) + 1) : \E t \in Nat :
                RoundAt(e.syncs, j, t)' /\ DriveAt(e, j, t)'
  <2>1. e \in SlaveElements /\ drive' = Delivered(e)
    BY <1>1, CurrentType
  <2>2. DriveAt(e, 1, 0)'
    BY <1>3, <2>1, DeliveredAt
  <2>3. RoundAt(e.syncs, 1, 0)'
    BY <1>1 DEF RoundAt
  <2>4. e.syncs \in Seq(Seq(Seq(Objects)))
    BY <2>1 DEF SlaveElements
  <2>5. 1 \in 1 .. (Len(e.syncs) + 1)
    BY <2>4
  <2> QED BY <2>2, <2>3, <2>5
<1> QED BY <1>1, <1>2, <1>3 DEF DriveInv

\* The slave stays the one that is written to.
LEMMA SameSlave ==
    ASSUME pc' = pc, UNCHANGED <<at, parsed>>, DriveInv, pc = "write"
    PROVE  Written' = Written /\ Written = Current /\ at'[1] \in Masters'
BY DEF Written, Current, parsed, Masters, DriveInv

LEMMA StartRoundDrive == ASSUME TypeOK, DriveInv, StartRound PROVE DriveInv'
<1>1. /\ pc = "write" /\ todo = <<>> /\ UNCHANGED <<pc, at, parsed, offsets, drive, refused, masterVars>>
  BY DEF StartRound
<1>2. Written' = Written /\ Written = Current /\ at'[1] \in Masters'
  BY <1>1, SameSlave
<1>3. ASSUME NEW e \in Current, OnePdoEach(e)
      PROVE  /\ ~refused' /\ e.force
             /\ \E j \in 1 .. (Len(e.syncs) + 1) : \E t \in Nat :
                   RoundAt(e.syncs, j, t)' /\ DriveAt(e, j, t)'
  <2>1. /\ e \in SlaveElements /\ e.force /\ round[1] \in DOMAIN e.syncs
        /\ todo' = SyncWrites(e.syncs, round[1], round[2])
        /\ round' = RoundBehind(e.syncs, round[1], round[2])
    <3>1. e \in SlaveElements /\ \A d \in Current : d = e
      BY CurrentType
    <3> QED BY <3>1 DEF StartRound, Unwritten
  <2>2. /\ ~refused
        /\ \E i \in 1 .. (Len(e.syncs) + 1) : \E t \in Nat : RoundAt(e.syncs, i, t) /\ DriveAt(e, i, t)
    BY <1>2, <1>3, <2>1 DEF DriveInv
  <2>3. PICK j \in 1 .. (Len(e.syncs) + 1) :
           \/ round = <<j, 0>> /\ DriveAt(e, j, 0)
           \/ round = <<j, 1>> /\ DriveAt(e, j, 1) /\ j \in DOMAIN e.syncs /\ e.syncs[j] # <<>>
    BY <1>1, <1>3, <2>1, <2>2, BetweenRounds
  <2>4. j \in DOMAIN e.syncs /\ round[1] = j
    BY <2>1, <2>3
  <2>5. j \in Nat /\ Len(e.syncs) \in Nat /\ j \in 1 .. Len(e.syncs)
    BY <1>3, <2>1, <2>4, OnePdo
  <2>6. j \in 1 .. (Len(e.syncs) + 1) /\ j + 1 \in 1 .. (Len(e.syncs) + 1)
    BY <2>5
  <2>7. CASE round = <<j, 0>> /\ DriveAt(e, j, 0) /\ e.syncs[j] = <<>>
    <3>1. todo' = <<>> /\ round' = <<j + 1, 0>>
      <4>1. ~(0 < Len(e.syncs[j]))
        BY <1>3, <2>1, <2>4, <2>7, OnePdo
      <4> QED BY <2>1, <2>7, <4>1 DEF SyncWrites, RoundBehind
    <3>2. DriveAt(e, j + 1, 0)
      BY <1>3, <2>1, <2>4, <2>7, ManagerDone DEF Size
    <3>3. DriveAt(e, j + 1, 0)'
      BY <1>1, <3>2 DEF DriveAt, ObjectsAt
    <3>4. RoundAt(e.syncs, j + 1, 0)'
      BY <3>1 DEF RoundAt
    <3> QED BY <1>1, <2>1, <2>2, <2>6, <3>3, <3>4
  <2>8. CASE round = <<j, 0>> /\ DriveAt(e, j, 0) /\ e.syncs[j] # <<>>
    <3>1. todo' = <<WriteOf(e.syncs, j, 1)>>
      BY <2>1, <2>8 DEF SyncWrites, WriteOf
    <3>2. round' = <<j, 1>>
      <4>1. 0 < Len(e.syncs[j])
        BY <1>3, <2>1, <2>4, <2>8, OnePdo
      <4> QED BY <2>1, <2>8, <4>1 DEF RoundBehind
    <3>3. DriveAt(e, j, 0)'
      BY <1>1, <2>8 DEF DriveAt, ObjectsAt
    <3>4. RoundAt(e.syncs, j, 0)'
      BY <2>4, <2>8, <3>1, <3>2 DEF RoundAt
    <3> QED BY <1>1, <2>1, <2>2, <2>6, <3>3, <3>4
  <2>9. CASE round = <<j, 1>> /\ DriveAt(e, j, 1) /\ e.syncs[j] # <<>>
    <3>1. todo' = [i \in 1 .. (Size(e.syncs, j) - 1) |-> WriteOf(e.syncs, j, 1 + i)]
      <4>1. todo' = SyncWrites(e.syncs, j, 1)
        BY <2>1, <2>9
      <4>2. SyncWrites(e.syncs, j, 1) = [i \in 1 .. (Size(e.syncs, j) - 1) |-> WriteOf(e.syncs, j, 1 + i)]
        BY <1>3, <2>1, <2>4, <2>9, PdoRound
      <4> QED BY <4>1, <4>2
    <3>2. round' = <<j + 1, 0>> /\ 1 \in 1 .. Size(e.syncs, j)
      <4>0. Len(e.syncs[j]) = 1 /\ Len(e.syncs[j][1]) \in Nat
        BY <1>3, <2>1, <2>4, <2>9, OnePdo
      <4>1. Size(e.syncs, j) = Len(e.syncs[j][1]) + 5
        BY <1>3, <2>1, <2>4, <2>9, SizeOf
      <4>2. ~(1 < Len(e.syncs[j])) /\ 1 \in 1 .. Size(e.syncs, j)
        BY <4>0, <4>1
      <4> QED BY <2>1, <2>9, <4>2 DEF RoundBehind
    <3>3. DriveAt(e, j, 1)'
      BY <1>1, <2>9 DEF DriveAt, ObjectsAt
    <3>4. RoundAt(e.syncs, j, 1)'
      BY <2>4, <2>9, <3>1, <3>2 DEF RoundAt
    <3> QED BY <1>1, <2>1, <2>2, <2>6, <3>3, <3>4
  <2> QED BY <2>3, <2>7, <2>8, <2>9
<1> QED BY <1>2, <1>3 DEF DriveInv

LEMMA WriteSdoDrive == ASSUME TypeOK, DriveInv, WriteSdo PROVE DriveInv'
<1>1. /\ pc = "write" /\ todo # <<>> /\ todo' = Tail(todo)
      /\ UNCHANGED <<pc, at, parsed, offsets, round, masterVars>>
  BY DEF WriteSdo
<1>2. Written' = Written /\ Written = Current /\ at'[1] \in Masters'
  BY <1>1, SameSlave
<1>3. ASSUME NEW e \in Current, OnePdoEach(e)
      PROVE  /\ ~refused' /\ e.force
             /\ \E j \in 1 .. (Len(e.syncs) + 1) : \E t \in Nat :
                   RoundAt(e.syncs, j, t)' /\ DriveAt(e, j, t)'
  <2>1. e \in SlaveElements
    BY CurrentType
  <2>2. /\ ~refused /\ e.force
        /\ \E j \in 1 .. (Len(e.syncs) + 1) : \E t \in Nat : RoundAt(e.syncs, j, t) /\ DriveAt(e, j, t)
    BY <1>1, <1>2, <1>3 DEF DriveInv
  <2>3. PICK j \in 1 .. (Len(e.syncs) + 1), t \in Nat : RoundAt(e.syncs, j, t) /\ DriveAt(e, j, t)
    BY <2>2
  <2>4. /\ j \in DOMAIN e.syncs /\ e.syncs[j] # <<>>
        /\ \/ round = <<j, 1>> /\ t = 0 /\ todo = <<WriteOf(e.syncs, j, 1)>>
           \/ /\ round = <<j + 1, 0>> /\ t \in 1 .. Size(e.syncs, j)
              /\ todo = [i \in 1 .. (Size(e.syncs, j) - t) |-> WriteOf(e.syncs, j, t + i)]
    BY <1>1, <2>3 DEF RoundAt
  <2>5. Size(e.syncs, j) \in Nat /\ Size(e.syncs, j) > 5
    <3>1. Size(e.syncs, j) = Len(e.syncs[j][1]) + 5
      BY <1>3, <2>1, <2>4, SizeOf
    <3>2. Len(e.syncs[j][1]) \in Nat /\ Len(e.syncs[j][1]) > 0
      BY <1>3, <2>1, <2>4, OnePdo
    <3> QED BY <3>1, <3>2
  <2>6. t < Size(e.syncs, j) /\ Head(todo) = WriteOf(e.syncs, j, t + 1) /\ RoundAt(e.syncs, j, t + 1)'
    <3>1. CASE round = <<j, 1>> /\ t = 0 /\ todo = <<WriteOf(e.syncs, j, 1)>>
      <4>1. Head(todo) = WriteOf(e.syncs, j, 1) /\ Tail(todo) = <<>>
        BY <3>1
      <4>2. t < Size(e.syncs, j) /\ t + 1 = 1
        BY <3>1, <2>5
      <4>3. RoundAt(e.syncs, j, 1)'
        BY <1>1, <2>4, <3>1, <4>1 DEF RoundAt
      <4> QED BY <4>1, <4>2, <4>3
    <3>2. CASE /\ round = <<j + 1, 0>> /\ t \in 1 .. Size(e.syncs, j)
               /\ todo = [i \in 1 .. (Size(e.syncs, j) - t) |-> WriteOf(e.syncs, j, t + i)]
      <4> DEFINE m == Size(e.syncs, j) - t
                 S == {WriteOf(e.syncs, j, t + i) : i \in 1 .. m}
      <4>1. m \in Nat
        BY <2>5, <3>2
      <4>2. todo \in [1 .. m -> S]
        BY <3>2
      <4> HIDE DEF S, m
      <4>3. todo \in Seq(S)
        BY <4>1, <4>2, SeqDef
      <4>4. Len(todo) = m
        <5>1. Len(todo) \in Nat /\ DOMAIN todo = 1 .. Len(todo) /\ DOMAIN todo = 1 .. m
          BY <4>2, <4>3, LenProperties
        <5>2. \A k, l \in Nat : 1 .. k = 1 .. l => k = l
          OBVIOUS
        <5> QED BY <4>1, <5>1, <5>2
      <4>5. m > 0
        BY <4>1, <4>3, <4>4, <1>1, EmptySeq
      <4>6. /\ Tail(todo) \in Seq(S) /\ Len(Tail(todo)) = m - 1
            /\ \A i \in 1 .. (m - 1) : Tail(todo)[i] = todo[i + 1]
        BY <4>3, <4>4, <1>1, HeadTailProperties
      <4>7. Head(todo) = todo[1]
        OBVIOUS
      <4>8. \A i \in 1 .. m : todo[i] = WriteOf(e.syncs, j, t + i)
        BY <3>2 DEF m
      <4>9. Head(todo) = WriteOf(e.syncs, j, t + 1)
        BY <4>1, <4>5, <4>7, <4>8
      <4>10. m - 1 = Size(e.syncs, j) - (t + 1) /\ t < Size(e.syncs, j) /\ t + 1 \in 1 .. Size(e.syncs, j)
        BY <4>1, <4>5, <2>5 DEF m
      <4>11. ASSUME NEW i \in 1 .. (m - 1) PROVE Tail(todo)[i] = WriteOf(e.syncs, j, (t + 1) + i)
        <5>1. i + 1 \in 1 .. m /\ t + (i + 1) = (t + 1) + i
          BY <4>1
        <5> QED BY <4>6, <4>8, <5>1
      <4>12. Tail(todo) \in [1 .. (m - 1) -> S]
        BY <4>6, LenProperties
      <4>13. Tail(todo) = [i \in 1 .. (m - 1) |-> WriteOf(e.syncs, j, (t + 1) + i)]
        BY <4>11, <4>12
      <4>14. todo' = [i \in 1 .. (Size(e.syncs, j) - (t + 1)) |-> WriteOf(e.syncs, j, (t + 1) + i)]
        BY <1>1, <4>10, <4>13
      <4>15. RoundAt(e.syncs, j, t + 1)'
        BY <1>1, <2>4, <3>2, <4>10, <4>14 DEF RoundAt
      <4> QED BY <4>9, <4>10, <4>15
    <3> QED BY <2>4, <3>1, <3>2
  <2> DEFINE w == Head(todo)
  <2>7. /\ Accepts(drive[w.obj], w)
        /\ drive' = [drive EXCEPT ![w.obj] = After(@, w)] => DriveAt(e, j, t + 1)'
    BY <1>3, <2>1, <2>3, <2>4, <2>6, WriteInDrive
  <2>8. drive' = [drive EXCEPT ![w.obj] = After(@, w)] /\ UNCHANGED refused
    BY <2>7 DEF WriteSdo
  <2> QED BY <2>2, <2>6, <2>7, <2>8
<1> QED BY <1>2, <1>3 DEF DriveInv

LEMMA SlaveConfiguredDrive == ASSUME TypeOK, DriveInv, SlaveConfigured PROVE DriveInv'
<1>1. pc = "write" /\ NextSlave("configure", "register") /\ doc' = doc
  BY DEF SlaveConfigured, parsed
<1>2. at \in Nat \X Nat /\ at[1] \in Masters /\ NumMasters \in Nat /\ Masters = UpTo(NumMasters)
  BY <1>1, DocFacts DEF TypeOK, DriveInv
<1>3. at[1] + 1 < NumMasters => at[1] + 1 \in Masters
  BY <1>2 DEF UpTo
<1>4. /\ pc' \in {"configure", "register"}
      /\ pc' = "configure" => at'[1] = at[1] \/ (at'[1] = at[1] + 1 /\ at[1] + 1 < NumMasters)
  BY <1>1, <1>2 DEF NextSlave
<1>5. Masters' = Masters
  BY <1>1 DEF Masters
<1> QED BY <1>2, <1>3, <1>4, <1>5, DriveIdle

(***************************************************************************)
(* Configuring and registering.                                            *)
(***************************************************************************)
\* A step behind the parser that leaves what it has built alone.
LEMMA BehindParser ==
    ASSUME TypeOK, SlavesInv, AxlesInv, UNCHANGED parsed,
           pc \notin {"slaves", "axles", "failed", "crashed"}, pc' \notin {"slaves", "axles"}
    PROVE  SlavesInv' /\ AxlesInv'
<1>1. ~Failed /\ UNCHANGED <<doc, slaves, axles>>
  BY DEF Failed, parsed
<1>2. SlavesInv'
  BY <1>1 DEF SlavesInv, DoneSlaves, Masters, SlaveCells
<1>3. AxlesInv'
  BY <1>1 DEF AxlesInv, DoneAxles, AxleCells
<1> QED BY <1>2, <1>3

LEMMA NextConfigured ==
    ASSUME IInv, SlaveConfigured
    PROVE  pc' \in {"configure", "register"} /\ at' \in Nat \X Nat
<1>1. at \in Nat \X Nat
  BY DEF IInv, TypeOK
<1> QED BY <1>1 DEF SlaveConfigured, NextSlave

LEMMA ConfigureInv ==
    ASSUME IInv, ConfigureSlave \/ StartRound \/ WriteSdo \/ SlaveConfigured \/ ConfigureFails
    PROVE  IInv'
<1>t. TypeOK /\ SlavesInv /\ AxlesInv /\ OffsetsInv /\ MastersInv /\ DriveInv
  BY DEF IInv
<1>1. CASE ConfigureFails
  BY <1>1, FailsInv DEF ConfigureFails
<1>2. ASSUME ConfigureSlave \/ StartRound \/ WriteSdo \/ SlaveConfigured
      PROVE  /\ pc \in {"configure", "write"} /\ pc' \in {"configure", "write", "register"}
             /\ at' \in Nat \X Nat /\ refused' \in BOOLEAN /\ round' \in Nat \X Nat
             /\ DriveInv' /\ UNCHANGED <<parsed, offsets, masterVars>>
  <2>1. at \in Nat \X Nat /\ refused \in BOOLEAN /\ round \in Nat \X Nat
    BY <1>t DEF TypeOK
  <2>2. CASE ConfigureSlave
    <3>1. round' \in Nat \X Nat
      BY <2>2 DEF ConfigureSlave
    <3> QED BY <2>1, <2>2, <3>1, <1>t, ConfigureSlaveDrive DEF ConfigureSlave
  <2>3. CASE StartRound
    <3>1. round' \in Nat \X Nat
      BY <2>1, <2>3 DEF StartRound, RoundBehind
    <3> QED BY <2>1, <2>3, <3>1, <1>t, StartRoundDrive DEF StartRound
  <2>4. CASE WriteSdo
    BY <2>1, <2>4, <1>t, WriteSdoDrive DEF WriteSdo
  <2>5. CASE SlaveConfigured
    BY <2>1, <2>5, <1>t, NextConfigured, SlaveConfiguredDrive DEF SlaveConfigured, bus
  <2> QED BY <1>2, <2>2, <2>3, <2>4, <2>5
<1>3. ASSUME ConfigureSlave \/ StartRound \/ WriteSdo \/ SlaveConfigured PROVE IInv'
  <2>1. TypeOK'
    BY <1>2, <1>3, <1>t
    DEF parsed, masterVars, TypeOK, PCs, Masters, SlaveCells, AxleCells, NumAxles
  <2>2. SlavesInv' /\ AxlesInv'
    BY <1>2, <1>3, <1>t, BehindParser
  <2>3. OffsetsInv'
    BY <1>2, <1>3, <1>t DEF parsed, OffsetsInv, AxleCells
  <2>4. MastersInv'
    BY <1>2, <1>3, <1>t DEF masterVars, MastersInv
  <2> QED BY <1>2, <1>3, <2>1, <2>2, <2>3, <2>4 DEF IInv
<1> QED BY <1>1, <1>3

LEMMA RegisterInv == ASSUME IInv, RegisterAxle \/ RegisterAxleFails PROVE IInv'
<1>t. TypeOK /\ SlavesInv /\ AxlesInv /\ OffsetsInv /\ MastersInv /\ DriveInv
  BY DEF IInv
<1>1. CASE RegisterAxleFails
  BY <1>1, FailsInv DEF RegisterAxleFails
<1>2. CASE RegisterAxle
  <2> DEFINE a == at[2]
             regs == Range(RegsOf(a))
             new == [k \in Kinds |->
                IF \E r \in regs : r[1] = k
                THEN Object(axles[a].master, axles[a].slave, CHOOSE r \in regs : r[1] = k)
                ELSE offsets[a][k]]
  <2>1. /\ pc = "register" /\ NextAxle("register", "activate")
        /\ \A r \in regs : Registers(a, r)
        /\ offsets' = [offsets EXCEPT ![a] = new]
        /\ UNCHANGED <<parsed, bus, masterVars>>
    BY <1>2 DEF RegisterAxle
  <2>2. /\ pc' = "register" /\ at' \in Nat \X Nat
        \/ /\ pc' = "activate" /\ at' = <<0, 0>>
    <3>1. at \in Nat \X Nat
      BY <1>t DEF TypeOK
    <3> QED BY <2>1, <3>1 DEF NextAxle
  <2>3. at' \in Nat \X Nat
    BY <2>2
  <2>4. ASSUME a \in AxleCells, NEW k \in Kinds, NEW r \in regs, r[1] = k
        PROVE  a \in DOMAIN axles /\ Object(axles[a].master, axles[a].slave, r) = OwnObject(a, k)
    <3>1. a \in DOMAIN axles /\ regs = Range(doc.axles[axles[a].element].regs)
      <4>1. CASE a \in DOMAIN axles
        BY <4>1 DEF RegsOf
      <4>2. CASE a \notin DOMAIN axles
        BY <4>2, <2>4 DEF RegsOf, Range
      <4> QED BY <4>1, <4>2
    <3>2. doc.axles[axles[a].element] \in AxleElements
      BY <3>1, <1>t, DocFacts DEF TypeOK
    <3>3. r \in Objects
      <4>1. doc.axles[axles[a].element].regs \in Seq(Objects)
        BY <3>2 DEF AxleElements
      <4> DEFINE q == doc.axles[axles[a].element].regs
      <4>2. PICK j \in DOMAIN q : r = q[j]
        BY <3>1, <2>4 DEF Range
      <4> HIDE DEF q
      <4>3. q[j] \in Objects
        BY <4>1, <4>2 DEF q
      <4> QED BY <4>2, <4>3
    <3>4. r[2] = doc.axles[axles[a].element].offset
      BY <2>1, <2>4 DEF Registers, Lookup
    <3>5. r = <<k, doc.axles[axles[a].element].offset>>
      BY <3>3, <3>4, <2>4 DEF Objects
    <3> QED BY <3>1, <3>5 DEF OwnObject
  <2>5. ASSUME a \in AxleCells, NEW k \in Kinds
        PROVE  new[k] = offsets[a][k] \/ (a \in DOMAIN axles /\ new[k] = OwnObject(a, k))
    <3>1. CASE \E r \in regs : r[1] = k
      <4> DEFINE r == CHOOSE r \in regs : r[1] = k
      <4>1. r \in regs /\ r[1] = k
        BY <3>1
      <4>2. new[k] = Object(axles[a].master, axles[a].slave, r)
        BY <3>1
      <4> HIDE DEF r, new, regs, a
      <4> QED BY <4>1, <4>2, <2>4, <2>5
    <3>2. CASE ~\E r \in regs : r[1] = k
      BY <3>2
    <3> QED BY <3>1, <3>2
  <2>6. DOMAIN new = Kinds
    OBVIOUS
  <2> HIDE DEF new, regs, a
  <2>7. TypeOK'
    <3>1. DOMAIN offsets' = AxleCells /\ \A b \in AxleCells : DOMAIN offsets'[b] = Kinds
      BY <2>1, <2>6, <1>t DEF TypeOK
    <3> QED
      BY <2>1, <2>2, <2>3, <3>1, <1>t
      DEF parsed, bus, masterVars, TypeOK, PCs, Masters, SlaveCells, AxleCells, NumAxles
  <2>8. SlavesInv' /\ AxlesInv'
    BY <2>1, <2>2, <1>t, BehindParser
  <2>9. OffsetsInv'
    <3> SUFFICES ASSUME NEW b \in AxleCells, NEW k \in Kinds
                 PROVE  \/ offsets'[b][k] = NoObject
                        \/ b \in DOMAIN axles /\ offsets'[b][k] = OwnObject(b, k)
      BY <2>1, <2>2 DEF OffsetsInv, OwnObject, parsed, AxleCells
    <3>1. \/ offsets[b][k] = NoObject
          \/ b \in DOMAIN axles /\ offsets[b][k] = OwnObject(b, k)
      BY <1>t DEF OffsetsInv
    <3>2. CASE b = a
      <4>1. offsets'[b] = new
        BY <3>2, <2>1, <1>t DEF TypeOK
      <4> QED BY <4>1, <3>1, <3>2, <2>5
    <3>3. CASE b # a
      <4>1. offsets'[b] = offsets[b]
        BY <3>3, <2>1, <1>t DEF TypeOK
      <4> QED BY <4>1, <3>1
    <3> QED BY <3>2, <3>3
  <2>10. MastersInv'
    <3>1. active' = {} /\ UpTo(0) = {}
      BY <2>1, <1>t DEF masterVars, MastersInv, UpTo
    <3>2. pc' = "activate" => at'[1] = 0
      BY <2>2
    <3> QED BY <2>2, <3>1, <3>2 DEF MastersInv
  <2>11. DriveInv'
    BY <2>2, <1>t, DriveIdle
  <2> QED BY <2>7, <2>8, <2>9, <2>10, <2>11 DEF IInv
<1> QED BY <1>1, <1>2

(***************************************************************************)
(* Activating.                                                             *)
(***************************************************************************)
LEMMA StartInv == ASSUME IInv, Start PROVE IInv'
<1>t. TypeOK /\ SlavesInv /\ AxlesInv /\ OffsetsInv /\ MastersInv /\ DriveInv
  BY DEF IInv
<1>d. /\ NumMasters \in Nat /\ Masters = UpTo(NumMasters) /\ Masters \subseteq Nat
      /\ at \in Nat \X Nat /\ at[1] \in Nat
  BY <1>t, DocFacts DEF TypeOK
<1>m. at[1] < NumMasters => at[1] \in Masters
  BY <1>d DEF UpTo
<1>1. CASE Activate
  <2>1. /\ pc = "activate" /\ pc' = pc /\ at[1] < NumMasters
        /\ active' = active \cup {at[1]} /\ state' = state \cup {at[1]}
        /\ at' = <<at[1] + 1, 0>>
        /\ UNCHANGED <<pc, parsed, offsets, bus, linked>>
    BY <1>1 DEF Activate
  <2>2. TypeOK'
    BY <2>1, <1>d, <1>m, <1>t
    DEF parsed, bus, TypeOK, PCs, Masters, SlaveCells, AxleCells, NumAxles
  <2>3. SlavesInv' /\ AxlesInv'
    BY <2>1, <1>t, BehindParser
  <2>4. OffsetsInv'
    BY <2>1, <1>t DEF parsed, OffsetsInv, AxleCells, OwnObject
  <2>5. MastersInv'
    <3>1. UpTo(at[1] + 1) = UpTo(at[1]) \cup {at[1]}
      BY <1>d DEF UpTo
    <3>2. active = UpTo(at[1]) /\ active \subseteq state
      BY <2>1, <1>t DEF MastersInv
    <3>3. active' = UpTo(at'[1]) /\ active' \subseteq state'
      BY <2>1, <3>1, <3>2
    <3> QED BY <2>1, <3>3 DEF MastersInv
  <2>6. DriveInv'
    BY <2>1, <1>t, DriveIdle
  <2> QED BY <2>2, <2>3, <2>4, <2>5, <2>6 DEF IInv
<1>2. CASE ActivateFails
  <2>1. /\ pc = "activate" /\ pc' = "failed" /\ at[1] < NumMasters
        /\ active' = active \ state \/ active' = (active \cup {at[1]}) \ state
        /\ state' = {}
        /\ UNCHANGED <<at, parsed, offsets, bus, linked>>
    BY <1>2 DEF ActivateFails, Undone
  <2>2. TypeOK'
    BY <2>1, <1>m, <1>t DEF parsed, bus, TypeOK, PCs, Masters, SlaveCells, AxleCells, NumAxles
  <2>3. SlavesInv' /\ AxlesInv'
    BY <2>1, <1>t, BehindParser
  <2>4. OffsetsInv'
    BY <2>1, <1>t DEF parsed, OffsetsInv, AxleCells, OwnObject
  <2>5. MastersInv'
    <3>1. active \subseteq state
      BY <2>1, <1>t DEF MastersInv
    <3> QED BY <2>1, <3>1 DEF MastersInv
  <2>6. DriveInv'
    BY <2>1, <1>t, DriveIdle
  <2> QED BY <2>2, <2>3, <2>4, <2>5, <2>6 DEF IInv
<1>3. CASE Link
  <2>1. /\ pc = "activate" /\ at[1] = NumMasters /\ pc' \in {"loaded", "crashed"}
        /\ linked' = [a \in AxleCells \cap DOMAIN axles |-> axles[a].master]
        /\ UNCHANGED <<at, parsed, offsets, bus, state, active>>
    BY <1>3 DEF Link
  <2>2. TypeOK'
    BY <2>1, <1>t DEF parsed, bus, TypeOK, PCs, Masters, SlaveCells, AxleCells, NumAxles
  <2>3. SlavesInv' /\ AxlesInv'
    BY <2>1, <1>t, BehindParser
  <2>4. OffsetsInv'
    BY <2>1, <1>t DEF parsed, OffsetsInv, AxleCells, OwnObject
  <2>5. MastersInv'
    <3>1. active = Masters
      BY <2>1, <1>d, <1>t DEF MastersInv
    <3> QED BY <2>1, <3>1 DEF MastersInv, parsed, Masters, AxleCells
  <2>6. DriveInv'
    BY <2>1, <1>t, DriveIdle
  <2> QED BY <2>2, <2>3, <2>4, <2>5, <2>6 DEF IInv
<1> QED BY <1>1, <1>2, <1>3 DEF Start

LEMMA StutterInv == ASSUME IInv, Ended \/ UNCHANGED vars PROVE IInv'
<1>1. UNCHANGED <<doc, pc, at, slaves, axles, offsets, round, todo, drive, refused, state, active,
                  linked>>
  BY DEF Ended, vars
<1> USE <1>1 DEF IInv
<1>2. TypeOK'
  BY DEF TypeOK, PCs, Masters, SlaveCells, AxleCells, NumAxles
<1>3. SlavesInv' /\ AxlesInv'
  BY DEF SlavesInv, AxlesInv, Failed, DoneSlaves, DoneAxles, Masters, SlaveCells, AxleCells
<1>4. OffsetsInv' /\ MastersInv'
  BY DEF OffsetsInv, MastersInv, AxleCells, Masters, OwnObject
<1>5. DriveInv'
  <2>1. Written' = Written /\ Masters' = Masters
    BY DEF Written, Current, Masters
  <2>2. ASSUME NEW e, NEW j, NEW t
        PROVE  RoundAt(e.syncs, j, t)' = RoundAt(e.syncs, j, t) /\ DriveAt(e, j, t)' = DriveAt(e, j, t)
    BY DEF RoundAt, DriveAt, ObjectsAt
  <2> QED BY <2>1, <2>2 DEF DriveInv
<1> QED BY <1>2, <1>3, <1>4, <1>5

(***************************************************************************)
(* What the invariant says.                                                *)
(***************************************************************************)
\* The invariant holds however nser_app_run_init() goes, for any documents.
THEOREM Invariance == Spec => []IInv
<1>1. ASSUME IInv, [Next]_vars PROVE IInv'
  BY <1>1, ParseInv, ConfigureInv, RegisterInv, StartInv, StutterInv DEF Next, Configure
<1> QED BY InitInv, <1>1, PTL DEF Spec

\* Every variable of the loading keeps its type; an axle is stored at most one
\* cell behind the array.
THEOREM TypeCorrect == Spec => []TypeOK
BY Invariance, PTL DEF IInv

LEMMA AxlesFilled ==
    ASSUME TypeOK, AxlesInv, Orderly(doc), ~Failed, pc \notin {"slaves", "axles"}
    PROVE  DOMAIN axles = AxleCells
<1> DEFINE D == DOMAIN axles
           g == [a \in D |-> axles[a].element]
<1>1. IsFiniteSet(AxleCells)
  BY DocFacts DEF TypeOK
<1>2. \A a \in D : axles[a].element \in AxleCells
  BY DEF TypeOK
<1>3. /\ {axles[a].element : a \in D} = AxleCells
      /\ \A a \in D : doc.axles[axles[a].element].index = a
  BY DEF AxlesInv, DoneAxles
<1>4. D \subseteq AxleCells
  BY <1>2, <1>3 DEF Orderly, AxleCells
<1>5. g \in [D -> AxleCells] /\ {g[a] : a \in D} = AxleCells
  BY <1>2, <1>3
<1> HIDE DEF D, g
<1>6. D = AxleCells
  BY <1>1, <1>4, <1>5, Filled
<1> QED BY <1>6 DEF D

\* nser_xmlconfig() succeeds on an orderly document only if every cell of its
\* arrays is filled by the element that names it, however many there are.
THEOREM CompleteParse == Spec => []ParsedIsComplete
<1>1. ASSUME IInv PROVE ParsedIsComplete
  <2> SUFFICES ASSUME Parsed, Orderly(doc)
               PROVE  /\ \A m \in Masters : \A c \in SlaveCells(m) :
                            c \in DOMAIN slaves[m] /\ doc.masters[m][slaves[m][c]].pos = c
                      /\ \A a \in AxleCells :
                            a \in DOMAIN axles /\ doc.axles[axles[a].element].index = a
    BY DEF ParsedIsComplete
  <2>1. ~Failed /\ pc \notin {"slaves", "axles"} /\ TypeOK /\ SlavesInv /\ AxlesInv
    BY <1>1 DEF Parsed, Failed, IInv
  <2>2. \A m \in Masters : DOMAIN slaves[m] = SlaveCells(m)
    BY <2>1, SlavesFilled
  <2>3. DOMAIN axles = AxleCells
    BY <2>1, AxlesFilled
  <2> QED BY <2>1, <2>2, <2>3 DEF SlavesInv, AxlesInv
<1> QED BY Invariance, <1>1, PTL

\* After a successful start every axle of an orderly document accesses its own
\* objects, on its own slave, in the domain of its own active master.
THEOREM AxlesOnOwnObjects == Spec => []OwnObjects
<1>1. ASSUME IInv PROVE OwnObjects
  <2> SUFFICES ASSUME pc = "loaded", Orderly(doc), NEW i \in AxleCells
               PROVE  LET e == doc.axles[i]
                          a == e.index
                      IN /\ linked[a] = e.master /\ e.master \in active
                         /\ \A k \in Kinds :
                               \/ offsets[a][k] = NoObject
                               \/ offsets[a][k] = Object(e.master, e.pos, <<k, e.offset>>)
    BY DEF OwnObjects
  <2>t. ~Failed /\ TypeOK /\ AxlesInv /\ OffsetsInv /\ MastersInv
    BY <1>1 DEF Failed, IInv
  <2>1. /\ {axles[a].element : a \in DOMAIN axles} = AxleCells
        /\ \A a \in DOMAIN axles : LET e == doc.axles[axles[a].element]
             IN e.index = a /\ axles[a].master = e.master /\ axles[a].slave = e.pos
    BY <2>t DEF AxlesInv, DoneAxles
  <2>2. PICK a \in DOMAIN axles : axles[a].element = i
    BY <2>1
  <2>3. /\ doc.axles[i].index = a /\ axles[a].master = doc.axles[i].master
        /\ axles[a].slave = doc.axles[i].pos
    BY <2>1, <2>2
  <2>4. a \in AxleCells
    BY <2>3 DEF Orderly, AxleCells
  <2>5. active = Masters /\ linked[a] = axles[a].master /\ axles[a].master \in Masters
    BY <2>2, <2>4, <2>t DEF MastersInv, TypeOK
  <2>6. \A k \in Kinds : offsets[a][k] = NoObject \/ offsets[a][k] = OwnObject(a, k)
    BY <2>4, <2>t DEF OffsetsInv
  <2> QED BY <2>2, <2>3, <2>5, <2>6 DEF OwnObject
<1> QED BY Invariance, <1>1, PTL

\* However long the lists of the document are, the drive of a slave whose sync
\* managers have one PDO each accepts every write, in the order of the code.
THEOREM OnePdoAccepted == Spec => []WritesAccepted
<1>1. IInv => WritesAccepted
  BY DEF IInv, DriveInv, WritesAccepted
<1> QED BY Invariance, <1>1, PTL

\* ... and when the slave is configured it maps what the document lists.
THEOREM OnePdoMapped == Spec => []MappingAsDocumented
<1>1. ASSUME IInv PROVE MappingAsDocumented
  <2> SUFFICES ASSUME NEW e \in Written, todo = <<>>, Unwritten = {}, e.force, OnePdoEach(e),
                      NEW j \in DOMAIN e.syncs, e.syncs[j] # <<>>
               PROVE  /\ drive[<<j, 0>>] = [number |-> Len(e.syncs[j]),
                                            list |-> [k \in DOMAIN e.syncs[j] |-> <<j, k>>]]
                      /\ \A k \in DOMAIN e.syncs[j] :
                            drive[<<j, k>>] = [number |-> Len(e.syncs[j][k]), list |-> e.syncs[j][k]]
    BY DEF MappingAsDocumented
  <2>1. e \in SlaveElements /\ e \in Current
    BY <1>1, CurrentType DEF IInv
  <2>2. \E i \in 1 .. (Len(e.syncs) + 1) : \E t \in Nat : RoundAt(e.syncs, i, t) /\ DriveAt(e, i, t)
    BY <1>1 DEF IInv, DriveInv
  <2>3. PICK i \in 1 .. (Len(e.syncs) + 1) :
           \/ round = <<i, 0>> /\ DriveAt(e, i, 0)
           \/ round = <<i, 1>> /\ DriveAt(e, i, 1) /\ i \in DOMAIN e.syncs /\ e.syncs[i] # <<>>
    BY <2>1, <2>2, BetweenRounds
  <2>4. i \notin DOMAIN e.syncs
    BY <2>1, <2>3 DEF Unwritten
  <2>5. Len(e.syncs) \in Nat /\ DOMAIN e.syncs = 1 .. Len(e.syncs) /\ j \in Nat
    BY <2>1, OnePdo
  <2>6. j < i /\ DriveAt(e, i, 0)
    BY <2>3, <2>4, <2>5
  <2>7. ObjectsAt(e.syncs, j, Size(e.syncs, j))
    BY <2>6 DEF DriveAt
  <2>8. /\ Len(e.syncs[j]) = 1 /\ DOMAIN e.syncs[j] = 1 .. 1
        /\ Len(e.syncs[j][1]) \in Nat /\ Len(e.syncs[j][1]) > 0
    BY <2>1, OnePdo
  <2>9. Size(e.syncs, j) = Len(e.syncs[j][1]) + 5
    BY DEF Size
  <2>10. drive[<<j, 0>>] = [number |-> 1, list |-> [k \in 1 .. 1 |-> <<j, k>>]]
    <3>1. /\ Size(e.syncs, j) # 0 /\ ~(Size(e.syncs, j) < Size(e.syncs, j) - 1)
          /\ ~(Size(e.syncs, j) < Size(e.syncs, j))
      BY <2>8, <2>9
    <3> QED BY <2>7, <3>1 DEF ObjectsAt, SyncObject
  <2>11. drive[<<j, 1>>] = [number |-> Len(e.syncs[j][1]), list |-> e.syncs[j][1]]
    <3>1. ~(Size(e.syncs, j) < 2) /\ ~(Size(e.syncs, j) < Size(e.syncs, j) - 2)
      BY <2>8, <2>9
    <3> QED BY <2>7, <3>1 DEF ObjectsAt, PdoObject
  <2> QED BY <2>8, <2>10, <2>11
<1> QED BY Invariance, <1>1, PTL

\* When nser_app_run_init() fails, at most the master whose domain data could
\* not be had is left active.
THEOREM FailureUndone == Spec => []FailedStartUndone
<1>1. IInv => FailedStartUndone
  BY DEF IInv, MastersInv, FailedStartUndone
<1> QED BY Invariance, <1>1, PTL
=============================================================================
