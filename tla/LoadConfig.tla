----------------------------- MODULE LoadConfig -----------------------------
(***************************************************************************)
(* Loading a configuration: nser_app_run_init() of nservo.c with           *)
(* nser_xml_parse.c.  The document is parsed into an array of slaves per   *)
(* master and an array of axles; every slave is configured through SDO     *)
(* writes, every axle registers the objects it uses in the process image,  *)
(* and the masters are activated.  Any step can fail.                      *)
(*                                                                         *)
(* Arrays are functions from the cells written so far: a cell outside the  *)
(* domain holds what malloc() or its initialisation left there.  As in C,  *)
(* masters, slaves and axles count from 0.                                 *)
(***************************************************************************)
EXTENDS Naturals, Sequences, FiniteSets, SequencesExt

CONSTANTS
    Docs,       \* the documents
    Kinds,      \* the kinds of objects: controlword, statusword, ...
    NoObject    \* the 0 that create_new_axles() leaves in pdos_offset

VARIABLES
    doc,        \* the document
    pc,         \* what nser_app_run_init() is doing
    at,         \* the master and the element, cell or axle it is at
    slaves,     \* per master, the element whose data a cell of slaves[] holds
    axles,      \* ns_axles[]: element, master and slave cell of an axle
    offsets,    \* pdos_offset of the axles: an object in the process image
    round,      \* the sync manager whose turn it is at that slave, and its PDO
    todo,       \* the SDO writes of the round before, still to be made
    drive,      \* the assignment and mapping objects of that slave
    refused,    \* the drive refused a write
    state,      \* the masters with ns_master_state = ACTIVATE
    active,     \* the masters that are active
    linked      \* domain_dp of the axles, by its master

vars == <<doc, pc, at, slaves, axles, offsets, round, todo, drive, refused, state, active,
          linked>>
parsed == <<doc, slaves, axles>>
bus == <<round, todo, drive, refused>>
masterVars == <<state, active, linked>>

(***************************************************************************)
(* The document: the slave elements of each master, and the axle elements. *)
(*                                                                         *)
(* A slave element has a position on the bus and the objects each PDO of   *)
(* each sync manager maps; it is good if nothing required is missing, and  *)
(* marked if its VendorId is not 0.  An object is of a kind and belongs to *)
(* the block of one of the slave's axles.                                  *)
(***************************************************************************)
Objects == Kinds \X Nat
SlaveElements == [pos : Nat, good : BOOLEAN, marked : BOOLEAN,
                  force : BOOLEAN, syncs : Seq(Seq(Seq(Objects)))]
AxleElements == [master : Nat, pos : Nat, index : Nat, offset : Nat,
                 good : BOOLEAN, regs : Seq(Objects)]

UpTo(n) == 0 .. (n - 1)
Masters == DOMAIN doc.masters
SlaveCells(m) == DOMAIN doc.masters[m]
AxleCells == DOMAIN doc.axles
NumMasters == Cardinality(Masters)
NumSlaves(m) == Cardinality(SlaveCells(m))
NumAxles == Cardinality(AxleCells)

\* An array with elements in S.
IsArray(f, S) ==
    /\ IsFiniteSet(DOMAIN f)
    /\ DOMAIN f = UpTo(Cardinality(DOMAIN f))
    /\ f \in [DOMAIN f -> S]

IsDocument(d) ==
    /\ IsArray(d.masters, {d.masters[m] : m \in DOMAIN d.masters})
    /\ \A m \in DOMAIN d.masters : IsArray(d.masters[m], SlaveElements)
    /\ IsArray(d.axles, AxleElements)

ASSUME DocsAssumption == \A d \in Docs : IsDocument(d)

\* Writing v to cell c.
Put(f, c, v) == [x \in DOMAIN f \cup {c} |-> IF x = c THEN v ELSE f[x]]

Init ==
    /\ doc \in Docs
    /\ pc = "slaves"
    /\ at = <<0, 0>>
    /\ slaves = [m \in Masters |-> <<>>]
    /\ axles = <<>>
    /\ offsets = [a \in AxleCells |-> [k \in Kinds |-> NoObject]]
    /\ round = <<1, 0>>
    /\ todo = <<>>
    /\ drive = <<>>
    /\ refused = FALSE
    \* create_new_master() sets the state of the first master only
    /\ state \in SUBSET (Masters \ {0})
    /\ active = {}
    /\ linked = <<>>

\* The next element of the same master, or the first of the next master.
NextSlave(from, to) ==
    LET m == at[1]
        s == at[2]
    IN IF s + 1 < NumSlaves(m) THEN /\ pc' = from
                                    /\ at' = <<m, s + 1>>
       ELSE IF m + 1 < NumMasters THEN /\ pc' = from
                                       /\ at' = <<m + 1, 0>>
       ELSE /\ pc' = to
            /\ at' = <<0, 0>>

NextAxle(from, to) ==
    IF at[2] + 1 < NumAxles THEN /\ pc' = from
                                 /\ at' = <<0, at[2] + 1>>
    ELSE /\ pc' = to
         /\ at' = <<0, 0>>

Fails(outcomes) ==
    /\ pc' \in outcomes
    /\ UNCHANGED <<at, parsed, offsets, bus, masterVars>>

(***************************************************************************)
(* Parsing: xml_create_new_master() and xml_create_new_slaves().           *)
(***************************************************************************)
\* VendorId, 0 in a fresh cell, marks a cell as taken.
Occupied(m, c) == c \in DOMAIN slaves[m] /\ doc.masters[m][slaves[m][c]].marked

\* A cell behind the array: what it holds is anybody's guess.
Behind(c, n) == c >= n

\* There is a Master, and it has a Slave.
AtSlave == at[1] \in Masters /\ at[2] \in SlaveCells(at[1])

ParseSlave ==
    /\ pc = "slaves"
    /\ AtSlave
    /\ LET m == at[1]
           e == doc.masters[m][at[2]]
       IN /\ e.good
          /\ Behind(e.pos, NumSlaves(m)) \/ ~Occupied(m, e.pos)
          /\ slaves' = [slaves EXCEPT ![m] = Put(@, e.pos, at[2])]
    /\ NextSlave("slaves", "axles")
    /\ UNCHANGED <<doc, axles, offsets, bus, masterVars>>

\* The clean-up frees master->slaves, which nobody has set.
ParseSlaveFails ==
    /\ pc = "slaves"
    /\ AtSlave =>
         LET m == at[1]
             e == doc.masters[m][at[2]]
         IN ~e.good \/ Behind(e.pos, NumSlaves(m)) \/ Occupied(m, e.pos)
    /\ Fails(IF Masters = {} THEN {"failed"} ELSE {"failed", "crashed"})

(***************************************************************************)
(* Parsing: xml_config_axles().                                            *)
(***************************************************************************)
\* get_ns_slave(): the first cell with that position; one that nobody has
\* filled may hold any position.
Found(m, p) ==
    LET Is(c) == c \in DOMAIN slaves[m] /\ doc.masters[m][slaves[m][c]].pos = p
    IN {c \in SlaveCells(m) : /\ c \in DOMAIN slaves[m] => Is(c)
                              /\ \A b \in 0 .. (c - 1) : ~Is(b)}

\* slip: a later axle takes the place of an earlier one
AxleNeverTaken(i) == FALSE

AxleTaken(i) == i \in DOMAIN axles

\* slip: no check of the index
IndexAlwaysAccepted(i) == TRUE

\* One more than there are axles.
IndexAccepted(i) == i <= NumAxles

ParseAxle ==
    /\ pc = "axles"
    /\ at[2] \in AxleCells
    /\ LET e == doc.axles[at[2]]
       IN /\ e.good
          /\ IndexAccepted(e.index)
          /\ e.master < NumMasters
          /\ Behind(e.index, NumAxles) \/ ~AxleTaken(e.index)
          /\ \E c \in Found(e.master, e.pos) :
                axles' = Put(axles, e.index,
                             [element |-> at[2], master |-> e.master, slave |-> c])
    /\ NextAxle("axles", "configure")
    /\ UNCHANGED <<doc, slaves, offsets, bus, masterVars>>

\* Frees the axles and leaves the masters.
ParseAxleFails ==
    /\ pc = "axles"
    /\ at[2] \in AxleCells =>
         LET e == doc.axles[at[2]]
         IN \/ ~e.good
            \/ ~IndexAccepted(e.index)
            \/ Behind(e.index, NumAxles)
            \/ AxleTaken(e.index)
            \/ e.master < NumMasters =>
                 \A c \in Found(e.master, e.pos) : c \notin DOMAIN slaves[e.master]
    /\ Fails({"failed"})

(***************************************************************************)
(* Configuring the masters: _nser_config_master().                         *)
(*                                                                         *)
(* <<j, 0>> is the assignment object of sync manager j, <<j, k>> the       *)
(* mapping object of its PDO k.  Subindex 0 is the number of entries; an   *)
(* object whose number is not 0 is enabled.                                *)
(***************************************************************************)
Write(obj, sub, val) == [obj |-> obj, sub |-> sub, val |-> val]

\* slip: the mapping object is not disabled first
PdoWritesInPlace(syncs, j, k) ==
    LET entries == syncs[j][k]
    IN [h \in DOMAIN entries |-> Write(<<j, k>>, h, entries[h])]
       \o <<Write(<<j, k>>, 0, Len(entries)), Write(<<j, 0>>, k, <<j, k>>)>>

PdoWrites(syncs, j, k) ==
    LET entries == syncs[j][k]
    IN IF entries = <<>> THEN <<>>
       ELSE <<Write(<<j, k>>, 0, 0)>>
            \o [h \in DOMAIN entries |-> Write(<<j, k>>, h, entries[h])]
            \o <<Write(<<j, k>>, 0, Len(entries)), Write(<<j, 0>>, k, <<j, k>>)>>

\* slip: the sync manager is left disabled
SyncWritesDisabled(syncs, j, k) ==
    IF k # 0 THEN PdoWrites(syncs, j, k)
    ELSE IF syncs[j] = <<>> THEN <<>> ELSE <<Write(<<j, 0>>, 0, 0)>>

\* Round 0 of sync manager j disables it, unless it has no PDO; round k maps its
\* PDO k.  The sync manager is enabled behind every PDO, not behind the last one.
SyncWrites(syncs, j, k) ==
    IF k # 0 THEN PdoWrites(syncs, j, k) \o <<Write(<<j, 0>>, 0, Len(syncs[j]))>>
    ELSE IF syncs[j] = <<>> THEN <<>> ELSE <<Write(<<j, 0>>, 0, 0)>>

RoundBehind(syncs, j, k) == IF k < Len(syncs[j]) THEN <<j, k + 1>> ELSE <<j + 1, 0>>

\* The drive, external: its objects come enabled, and hold something else.
DriveObjects(e) ==
    UNION {{<<j, k>> : k \in {0} \cup DOMAIN e.syncs[j]} : j \in DOMAIN e.syncs}

Delivered(e) ==
    [o \in DriveObjects(e) |-> [number |-> 1, list |-> <<NoObject>>]]

\* An object is written while it is disabled, and enabled when it is filled.
Accepts(o, w) ==
    IF w.sub # 0 THEN o.number = 0 ELSE 1 .. w.val \subseteq DOMAIN o.list

After(o, w) ==
    IF w.sub # 0 THEN [o EXCEPT !.list = Put(@, w.sub, w.val)]
    ELSE [number |-> w.val, list |-> IF w.val = 0 THEN <<>> ELSE o.list]

\* The element of the slave that is being configured: an array cell no element
\* has filled configures nothing.
Current ==
    IF pc \in {"configure", "write"} /\ at[2] \in DOMAIN slaves[at[1]]
    THEN {doc.masters[at[1]][slaves[at[1]][at[2]]]}
    ELSE {}

\* ... if there is a round left of it.
Unwritten == {e \in Current : e.force /\ round[1] \in DOMAIN e.syncs}

ConfigureSlave ==
    /\ pc = "configure"
    /\ pc' = "write"
    /\ round' = <<1, 0>>
    /\ todo' = <<>>
    /\ \/ Current = {} /\ drive' = <<>>
       \/ \E e \in Current : drive' = Delivered(e)
    /\ refused' = FALSE
    /\ UNCHANGED <<at, parsed, offsets, masterVars>>

StartRound ==
    /\ pc = "write"
    /\ todo = <<>>
    /\ \E e \in Unwritten :
          /\ todo' = SyncWrites(e.syncs, round[1], round[2])
          /\ round' = RoundBehind(e.syncs, round[1], round[2])
    /\ UNCHANGED <<pc, at, parsed, offsets, drive, refused, masterVars>>

WriteSdo ==
    /\ pc = "write"
    /\ todo # <<>>
    /\ LET w == Head(todo)
       IN IF Accepts(drive[w.obj], w)
          THEN /\ drive' = [drive EXCEPT ![w.obj] = After(@, w)]
               /\ UNCHANGED refused
          ELSE /\ refused' = TRUE
               /\ UNCHANGED drive
    /\ todo' = Tail(todo)
    /\ UNCHANGED <<pc, at, parsed, offsets, round, masterVars>>

SlaveConfigured ==
    /\ pc = "write"
    /\ todo = <<>>
    /\ Unwritten = {}
    /\ NextSlave("configure", "register")
    /\ UNCHANGED <<parsed, offsets, bus, masterVars>>

\* The master is not there, or the EtherCAT library refuses a slave or a write.
ConfigureFails ==
    /\ pc \in {"configure", "write"}
    /\ Fails({"failed"})

(***************************************************************************)
(* Registering the objects of the axles: _nser_config_axle().              *)
(***************************************************************************)
\* The object r of slave cell c on master m, as the process image knows it.
Object(m, c, r) == [master |-> m, slave |-> c, object |-> r]

\* slip: the lookup takes any axle's object of the kind
LookupAnyBlock(r, offset) == TRUE

\* get_pdo_entry_offset() finds the object's kind once the axle's block is
\* subtracted from the index.
Lookup(r, offset) == r[2] = offset

\* The slave maps the object.
Mapped(e, r) ==
    \E j \in DOMAIN e.syncs : \E k \in DOMAIN e.syncs[j] : r \in Range(e.syncs[j][k])

\* The element of the slave of axle cell a.
SlaveOf(a) == doc.masters[axles[a].master][slaves[axles[a].master][axles[a].slave]]

Registers(a, r) ==
    /\ axles[a].slave \in DOMAIN slaves[axles[a].master]
    /\ Mapped(SlaveOf(a), r)
    /\ Lookup(r, doc.axles[axles[a].element].offset)

RegsOf(a) == IF a \in DOMAIN axles THEN doc.axles[axles[a].element].regs ELSE <<>>

RegisterAxle ==
    /\ pc = "register"
    /\ LET a == at[2]
           regs == Range(RegsOf(a))
       IN /\ \A r \in regs : Registers(a, r)
          /\ offsets' = [offsets EXCEPT ![a] = [k \in Kinds |->
                IF \E r \in regs : r[1] = k
                THEN Object(axles[a].master, axles[a].slave, CHOOSE r \in regs : r[1] = k)
                ELSE @[k]]]
    /\ NextAxle("register", "activate")
    /\ UNCHANGED <<parsed, bus, masterVars>>

RegisterAxleFails ==
    /\ pc = "register"
    /\ \E r \in Range(RegsOf(at[2])) : ~Registers(at[2], r)
    /\ Fails({"failed"})

(***************************************************************************)
(* Activating the masters: nser_activate_master() with 0xff.               *)
(***************************************************************************)
Activate ==
    /\ pc = "activate"
    /\ at[1] < NumMasters
    /\ active' = active \cup {at[1]}
    /\ state' = state \cup {at[1]}
    /\ at' = <<at[1] + 1, 0>>
    /\ UNCHANGED <<pc, parsed, offsets, bus, linked>>

\* slip: the masters activated so far stay active
UndoneNone == {}

Undone == state

\* ecrt_master_activate() fails, or ecrt_domain_data() behind it.
ActivateFails ==
    /\ pc = "activate"
    /\ at[1] < NumMasters
    /\ \/ active' = active \ Undone
       \/ active' = (active \cup {at[1]}) \ Undone
    /\ state' = {}
    /\ pc' = "failed"
    /\ UNCHANGED <<at, parsed, offsets, bus, linked>>

\* An axle cell that nobody has filled has no nser_master.
Link ==
    /\ pc = "activate"
    /\ at[1] = NumMasters
    /\ pc' \in IF AxleCells \subseteq DOMAIN axles THEN {"loaded"} ELSE {"loaded", "crashed"}
    /\ linked' = [a \in AxleCells \cap DOMAIN axles |-> axles[a].master]
    /\ UNCHANGED <<at, parsed, offsets, bus, state, active>>

Parse == ParseSlave \/ ParseSlaveFails \/ ParseAxle \/ ParseAxleFails

Configure ==
    \/ ConfigureSlave \/ StartRound \/ WriteSdo \/ SlaveConfigured \/ ConfigureFails
    \/ RegisterAxle \/ RegisterAxleFails

Start == Activate \/ ActivateFails \/ Link

\* nser_app_run_init() has returned, or the process is gone.
Ended ==
    /\ pc \in {"loaded", "failed", "crashed"}
    /\ UNCHANGED vars

Next == Parse \/ Configure \/ Start \/ Ended

Spec == Init /\ [][Next]_vars

-----------------------------------------------------------------------------
(***************************************************************************)
(* Properties.                                                             *)
(***************************************************************************)
PCs == {"slaves", "axles", "configure", "write", "register", "activate",
        "loaded", "failed", "crashed"}

\* The state has its type; an axle is stored at most one cell behind the array.
TypeOK ==
    /\ IsDocument(doc)
    /\ pc \in PCs
    /\ at \in Nat \X Nat
    /\ DOMAIN slaves = Masters
    /\ \A m \in Masters : \A c \in DOMAIN slaves[m] : slaves[m][c] \in SlaveCells(m)
    /\ DOMAIN axles \subseteq 0 .. NumAxles
    /\ \A a \in DOMAIN axles :
          axles[a] \in [element : AxleCells, master : Masters,
                        slave : SlaveCells(axles[a].master)]
    /\ DOMAIN offsets = AxleCells
    /\ \A a \in AxleCells : DOMAIN offsets[a] = Kinds
    /\ round \in Nat \X Nat
    /\ refused \in BOOLEAN
    /\ state \subseteq Masters
    /\ active \subseteq Masters
    /\ DOMAIN linked \subseteq AxleCells

\* Every position and index lies inside its array, and every slave has a vendor.
\* The parser does not see to this: it stores behind the arrays, and a vendor 0
\* lets a second slave take the same position.
Orderly(d) ==
    /\ \A m \in DOMAIN d.masters : \A s \in DOMAIN d.masters[m] :
          d.masters[m][s].pos \in DOMAIN d.masters[m] /\ d.masters[m][s].marked
    /\ \A a \in DOMAIN d.axles : d.axles[a].index \in DOMAIN d.axles

Parsed == pc \notin {"slaves", "axles", "failed", "crashed"}

\* nser_xmlconfig() succeeds only if every cell of every array is filled, by the
\* element that names it: positions and indices named twice are refused.
ParsedIsComplete ==
    Parsed /\ Orderly(doc) =>
      /\ \A m \in Masters : \A c \in SlaveCells(m) :
            c \in DOMAIN slaves[m] /\ doc.masters[m][slaves[m][c]].pos = c
      /\ \A a \in AxleCells :
            a \in DOMAIN axles /\ doc.axles[axles[a].element].index = a

\* What an axle accesses in the process image is what the document says: the
\* object of its own block, on the slave at its position, in the domain of its
\* master, which is active.
OwnObjects ==
    pc = "loaded" /\ Orderly(doc) =>
      \A i \in AxleCells : LET e == doc.axles[i]
                            a == e.index
        IN /\ linked[a] = e.master /\ e.master \in active
           /\ \A k \in Kinds :
                 \/ offsets[a][k] = NoObject
                 \/ offsets[a][k] = Object(e.master, e.pos, <<k, e.offset>>)

\* The slave to whose drive the writes go.
Written == IF pc = "write" THEN Current ELSE {}

\* No PDO is empty, and no sync manager has two.
OnePdoEach(e) ==
    \A j \in DOMAIN e.syncs : Len(e.syncs[j]) <= 1 /\ <<>> \notin Range(e.syncs[j])

\* _nser_config_master() writes assignment and mapping objects in an order the
\* drive accepts.
WritesAccepted == \A e \in Written : OnePdoEach(e) => ~refused

\* The same for sync managers with several PDOs: nservo.c:276 says "Assign every
\* pdo to this sm", and nservo.c:330 "Enable this sm" behind it.
WritesAcceptedOfMany ==
    \A e \in Written :
      (\A j \in DOMAIN e.syncs : <<>> \notin Range(e.syncs[j])) => ~refused

\* Once a slave is configured its drive maps what the document lists.
MappingAsDocumented ==
    \A e \in Written : todo = <<>> /\ Unwritten = {} /\ e.force /\ OnePdoEach(e) =>
      \A j \in DOMAIN e.syncs : e.syncs[j] # <<>> =>
        /\ drive[<<j, 0>>] = [number |-> Len(e.syncs[j]),
                              list |-> [k \in DOMAIN e.syncs[j] |-> <<j, k>>]]
        /\ \A k \in DOMAIN e.syncs[j] :
              drive[<<j, k>>] = [number |-> Len(e.syncs[j][k]), list |-> e.syncs[j][k]]

\* A failed start leaves no master active but one: if ecrt_domain_data() fails,
\* the master whose domain it is.
FailedStartUndone == pc = "failed" => active \subseteq {at[1]}
=============================================================================
