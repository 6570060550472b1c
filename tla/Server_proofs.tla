---------------------------- MODULE Server_proofs ----------------------------
(***************************************************************************)
(* Proofs about the server: its type with the bound of its buffer, the     *)
(* socket it polls, the order in which it comes down, and that it executes *)
(* what was sent.                                                          *)
(***************************************************************************)
EXTENDS Server, SequenceTheorems, TLAPS

USE DEF vars, loopVars, connVars, taskVars

(***************************************************************************)
(* The inductive invariant.                                                *)
(***************************************************************************)
\* A client sends inside its script.
PosInv ==
    \A c \in Clients : pos[c][1] \in DOMAIN Script[c] =>
        pos[c][2] \in 1 .. Script[c][pos[c][1]].length

\* Between poll() and recv() a ready client is the one in fds[1].
ReadyInv ==
    pc \in {"accept", "receive"} /\ "client" \in ready => nfds = 2 /\ fd1 \in Clients

\* The thread has been joined before anything is taken from it.
LifeInv ==
    /\ pc \in {"deactivate", "free", "ended"} => thread = "ended"
    /\ CyclicUsesLive

IInv == TypeOK /\ PosInv /\ ReadyInv /\ LifeInv /\ PolledIsOpen

LEMMA ScriptType ==
    ASSUME NEW c \in Clients
    PROVE  /\ Script[c] \in Seq([length : Nat \ {0}, exit : BOOLEAN])
           /\ \A n \in DOMAIN Script[c] : n \in Nat /\ Script[c][n].length \in Nat \ {0}
<1>1. Script[c] \in Seq([length : Nat \ {0}, exit : BOOLEAN])
  BY ScriptAssumption
<1>2. ASSUME NEW n \in DOMAIN Script[c]
      PROVE  n \in Nat /\ Script[c][n].length \in Nat \ {0}
  <2> DEFINE s == Script[c]
  <2> HIDE DEF s
  <2>1. s \in Seq([length : Nat \ {0}, exit : BOOLEAN]) /\ n \in DOMAIN s
    BY <1>1, <1>2 DEF s
  <2>2. DOMAIN s = 1 .. Len(s) /\ Len(s) \in Nat
    BY <2>1, LenProperties
  <2>3. s[n] \in [length : Nat \ {0}, exit : BOOLEAN]
    BY <2>1, <2>2, ElementOfSeq
  <2> QED BY <2>1, <2>2, <2>3 DEF s
<1> QED BY <1>1, <1>2

\* A part of a stream of bytes is one, and has the length asked for.
LEMMA PartType ==
    ASSUME NEW S, NEW s \in Seq(S), NEW m \in Nat, m <= Len(s)
    PROVE  /\ SubSeq(s, 1, m) \in Seq(S) /\ Len(SubSeq(s, 1, m)) = m
           /\ SubSeq(s, m + 1, Len(s)) \in Seq(S)
<1>1. \A i \in 1 .. Len(s) : s[i] \in S
  BY ElementOfSeq
<1>2. Len(s) \in Nat
  BY LenProperties
<1>3. SubSeq(s, 1, m) \in Seq(S) /\ Len(SubSeq(s, 1, m)) = m
  BY <1>1, <1>2, SubSeqProperties
<1>4. SubSeq(s, m + 1, Len(s)) \in Seq(S)
  BY <1>1, <1>2, SubSeqProperties
<1> QED BY <1>3, <1>4

\* What recv() gets are bytes, no more than there is room for.
LEMMA ReceivedType ==
    ASSUME TypeOK, fd1 \in Clients
    PROVE  /\ Received \in Seq(Bytes) /\ buffer \o Received \in Seq(Bytes)
           /\ Len(buffer \o Received) <= Size
           /\ SubSeq(rx[fd1], Len(Received) + 1, Len(rx[fd1])) \in Seq(Bytes)
<1> DEFINE m == Smaller(Len(rx[fd1]), Room)
<1>1. rx[fd1] \in Seq(Bytes) /\ buffer \in Seq(Bytes) /\ Len(buffer) <= Size
  BY DEF TypeOK
<1>2. Len(rx[fd1]) \in Nat /\ Len(buffer) \in Nat /\ Size \in Nat
  BY <1>1, LenProperties, SizeAssumption
<1>3. m \in Nat /\ m <= Len(rx[fd1]) /\ m <= Size - Len(buffer)
  BY <1>1, <1>2 DEF Smaller, Room
<1>4. Received = SubSeq(rx[fd1], 1, m)
  BY DEF Received
<1> HIDE DEF m
<1>5. Received \in Seq(Bytes) /\ Len(Received) = m
      /\ SubSeq(rx[fd1], m + 1, Len(rx[fd1])) \in Seq(Bytes)
  BY <1>1, <1>3, <1>4, PartType
<1>6. buffer \o Received \in Seq(Bytes) /\ Len(buffer \o Received) = Len(buffer) + m
  BY <1>1, <1>5, ConcatProperties
<1> QED BY <1>2, <1>3, <1>5, <1>6

LEMMA InitInv == Init => IInv
<1> SUFFICES ASSUME Init PROVE IInv
  OBVIOUS
<1>1. << >> \in Seq(Bytes) /\ Len(<< >>) = 0
  OBVIOUS
<1>2. TypeOK
  BY <1>1, SizeAssumption DEF Init, TypeOK, PCs
<1>3. PosInv
  <2> SUFFICES ASSUME NEW c \in Clients, pos[c][1] \in DOMAIN Script[c]
               PROVE  pos[c][2] \in 1 .. Script[c][pos[c][1]].length
    BY DEF PosInv
  <2>1. pos[c] = <<1, 1>>
    BY DEF Init
  <2>2. Script[c][pos[c][1]].length \in Nat \ {0}
    BY ScriptType
  <2> QED BY <2>1, <2>2
<1>4. ReadyInv /\ LifeInv /\ PolledIsOpen
  BY DEF Init, ReadyInv, LifeInv, CyclicUsesLive, PolledIsOpen
<1> QED BY <1>2, <1>3, <1>4 DEF IInv

(***************************************************************************)
(* The clients.                                                            *)
(***************************************************************************)
LEMMA ClientInv == ASSUME IInv, NEW c \in Clients, Client(c) PROVE IInv'
<1> USE DEF IInv
<1>1. CASE Connect(c)
  <2> USE <1>1 DEF Connect
  <2>1. TypeOK' BY DEF TypeOK, PCs, Bytes
  <2>2. PosInv' BY DEF PosInv
  <2>3. ReadyInv' /\ LifeInv' BY DEF ReadyInv, LifeInv, CyclicUsesLive
  <2>4. PolledIsOpen' BY DEF PolledIsOpen, TypeOK
  <2> QED BY <2>1, <2>2, <2>3, <2>4
<1>2. CASE Send(c)
  <2> DEFINE n == pos[c][1]
             k == pos[c][2]
             l == Script[c][n].length
  <2>0. /\ phase[c] \in {"backlog", "accepted"} /\ n \in DOMAIN Script[c]
        /\ rx' = [rx EXCEPT ![c] = Append(@, <<c, n, k>>)]
        /\ pos' = [pos EXCEPT ![c] = IF k = l THEN <<n + 1, 1>> ELSE <<n, k + 1>>]
        /\ UNCHANGED <<loopVars, phase, left, replies, executed, taskVars, habit>>
    BY <1>2 DEF Send
  <2>1. n \in Nat /\ k \in 1 .. l /\ l \in Nat \ {0} /\ pos[c] = <<n, k>>
    BY <2>0, ScriptType DEF PosInv, TypeOK
  <2>2. <<c, n, k>> \in Bytes
    BY <2>0, <2>1 DEF Bytes
  <2>3. rx' \in [Clients -> Seq(Bytes)]
    <3>1. rx[c] \in Seq(Bytes)
      BY DEF TypeOK
    <3>2. Append(rx[c], <<c, n, k>>) \in Seq(Bytes)
      BY <3>1, <2>2, AppendProperties
    <3> QED BY <3>2, <2>0 DEF TypeOK
  <2>4. pos' \in [Clients -> Nat \X Nat]
    BY <2>0, <2>1 DEF TypeOK
  <2>5. TypeOK'
    BY <2>0, <2>3, <2>4 DEF TypeOK, PCs, Bytes
  <2>6. PosInv'
    <3> SUFFICES ASSUME NEW d \in Clients, pos'[d][1] \in DOMAIN Script[d]
                 PROVE  pos'[d][2] \in 1 .. Script[d][pos'[d][1]].length
      BY DEF PosInv
    <3>1. CASE d # c
      BY <3>1, <2>0 DEF PosInv, TypeOK
    <3>2. CASE d = c /\ k = l
      <4>1. pos'[d] = <<n + 1, 1>>
        BY <3>2, <2>0 DEF TypeOK
      <4>2. Script[d][pos'[d][1]].length \in Nat \ {0}
        BY ScriptType
      <4> QED BY <4>1, <4>2
    <3>3. CASE d = c /\ k # l
      <4>1. pos'[d] = <<n, k + 1>>
        BY <3>3, <2>0 DEF TypeOK
      <4> HIDE DEF n, k
      <4>2. pos'[d][1] = n /\ pos'[d][2] = k + 1
        BY <4>1
      <4>3. k + 1 \in 1 .. l
        BY <2>1, <3>3
      <4> QED BY <4>2, <4>3, <3>3
    <3> QED BY <3>1, <3>2, <3>3
  <2>7. ReadyInv' /\ LifeInv' /\ PolledIsOpen'
    BY <2>0 DEF ReadyInv, LifeInv, CyclicUsesLive, PolledIsOpen
  <2> QED BY <2>5, <2>6, <2>7
<1>3. CASE Leave(c)
  <2> USE <1>3 DEF Leave
  <2>1. TypeOK' BY DEF TypeOK, PCs, Bytes
  <2>2. PosInv' BY DEF PosInv
  <2>3. ReadyInv' /\ LifeInv' BY DEF ReadyInv, LifeInv, CyclicUsesLive
  <2>4. PolledIsOpen' BY DEF PolledIsOpen
  <2> QED BY <2>1, <2>2, <2>3, <2>4
<1> QED BY <1>1, <1>2, <1>3 DEF Client

(***************************************************************************)
(* The loop.                                                               *)
(***************************************************************************)
LEMMA LoopInv == ASSUME IInv, Loop PROVE IInv'
<1> USE DEF IInv
<1>1. CASE Check
  <2> USE <1>1 DEF Check
  <2>1. TypeOK' BY DEF TypeOK, PCs, Bytes
  <2>2. PosInv' /\ ReadyInv' BY DEF PosInv, ReadyInv
  <2>3. LifeInv' /\ PolledIsOpen' BY DEF LifeInv, CyclicUsesLive, PolledIsOpen
  <2> QED BY <2>1, <2>2, <2>3
<1>2. CASE Poll
  <2> USE <1>2 DEF Poll
  <2>1. Ready \subseteq {"listen", "client", "error"}
        /\ ("client" \in Ready => nfds = 2 /\ fd1 # NoClient)
    BY DEF Ready
  <2>2. TypeOK' BY <2>1 DEF TypeOK, PCs, Bytes
  <2>3. ReadyInv' BY <2>1 DEF ReadyInv, TypeOK
  <2>4. PosInv' BY DEF PosInv
  <2>5. LifeInv' /\ PolledIsOpen' BY DEF LifeInv, CyclicUsesLive, PolledIsOpen
  <2> QED BY <2>2, <2>3, <2>4, <2>5
<1>3. ASSUME NEW c \in Clients, Accept(c) PROVE IInv'
  <2> USE <1>3 DEF Accept
  <2>1. TypeOK' BY DEF TypeOK, PCs, Bytes
  <2>2. PosInv' BY DEF PosInv
  <2>3. ReadyInv' BY DEF ReadyInv, TypeOK
  <2>4. LifeInv' BY DEF LifeInv, CyclicUsesLive
  <2>5. PolledIsOpen'
    BY ClientsAssumption DEF PolledIsOpen, TypeOK
  <2> QED BY <2>1, <2>2, <2>3, <2>4, <2>5
<1>4. CASE AcceptNone
  <2> USE <1>4 DEF AcceptNone
  <2>1. TypeOK' BY DEF TypeOK, PCs, Bytes
  <2>2. PosInv' /\ ReadyInv' BY DEF PosInv, ReadyInv
  <2>3. LifeInv' /\ PolledIsOpen' BY DEF LifeInv, CyclicUsesLive, PolledIsOpen
  <2> QED BY <2>1, <2>2, <2>3
<1>5. CASE ReceivePart
  <2>0. fd1 \in Clients
    BY <1>5 DEF ReceivePart, ReadyInv
  <2>1. buffer' \in Seq(Bytes) /\ Len(buffer') <= Size /\ rx' \in [Clients -> Seq(Bytes)]
    BY <1>5, <2>0, ReceivedType DEF ReceivePart, TypeOK
  <2>2. TypeOK' BY <1>5, <2>1 DEF ReceivePart, TypeOK, PCs, Bytes
  <2>3. PosInv' /\ ReadyInv' BY <1>5 DEF ReceivePart, PosInv, ReadyInv
  <2>4. LifeInv' /\ PolledIsOpen'
    BY <1>5 DEF ReceivePart, LifeInv, CyclicUsesLive, PolledIsOpen
  <2> QED BY <2>2, <2>3, <2>4
<1>6. CASE Execute
  <2> DEFINE s == buffer \o Received
  <2>0. /\ pc = "receive" /\ "client" \in ready /\ pc' = "check"
        /\ executed' = executed \cup {s}
        /\ buffer' = <<>>
        /\ running' = (running /\ ~IsExit(s))
        /\ phase' = [phase EXCEPT ![fd1] = IF IsExit(s) THEN "closed" ELSE @]
        /\ replies' = [replies EXCEPT ![fd1] = @ + 1]
        /\ rx' = [rx EXCEPT ![fd1] = SubSeq(@, Len(Received) + 1, Len(@))]
        /\ left' = [left EXCEPT ![fd1] = IF @ = "closed" THEN "reset" ELSE @]
        /\ UNCHANGED <<ready, fd1, nfds, pos, taskVars, habit>>
    BY <1>6 DEF Execute
  <2>1. fd1 \in Clients
    BY <2>0 DEF ReadyInv
  <2>2. s \in Seq(Bytes) /\ Len(s) <= Size /\ rx' \in [Clients -> Seq(Bytes)]
    BY <2>0, <2>1, ReceivedType DEF TypeOK
  <2> HIDE DEF s
  <2>3. buffer' \in Seq(Bytes) /\ Len(buffer') <= Size
    BY <2>0, SizeAssumption
  <2>4. running' \in BOOLEAN
    BY <2>0
  <2>5. phase' \in [Clients -> {"new", "backlog", "accepted", "closed"}]
        /\ left' \in [Clients -> {"no", "closed", "reset"}]
    BY <2>0, <2>1 DEF TypeOK
  <2>6. replies' \in [Clients -> Nat]
    BY <2>0, <2>1 DEF TypeOK
  <2>7. \A x \in executed' : x \in Seq(Bytes) /\ Len(x) <= Size
    BY <2>0, <2>2 DEF TypeOK
  <2>8. TypeOK'
    BY <2>0, <2>2, <2>3, <2>4, <2>5, <2>6, <2>7 DEF TypeOK, PCs, Bytes
  <2>9. PosInv' /\ ReadyInv' /\ LifeInv'
    BY <2>0 DEF PosInv, ReadyInv, LifeInv, CyclicUsesLive
  <2>10. PolledIsOpen'
    <3> SUFFICES ASSUME running', nfds' = 2
                 PROVE  fd1' # NoClient /\ phase'[fd1'] = "accepted"
      BY DEF PolledIsOpen
    <3>1. running /\ ~IsExit(s)
      BY <2>0
    <3>2. phase[fd1] = "accepted" /\ fd1 # NoClient
      BY <3>1, <2>0 DEF PolledIsOpen
    <3> QED BY <3>1, <3>2, <2>0, <2>1 DEF TypeOK
  <2> QED BY <2>8, <2>9, <2>10
<1>7. CASE CloseClient
  <2> USE <1>7 DEF CloseClient
  <2>1. TypeOK' BY DEF TypeOK, PCs, Bytes, NfdsAfterClose
  <2>2. PosInv' /\ ReadyInv' BY DEF PosInv, ReadyInv
  <2>3. LifeInv' /\ PolledIsOpen'
    BY DEF LifeInv, CyclicUsesLive, PolledIsOpen, NfdsAfterClose
  <2> QED BY <2>1, <2>2, <2>3
<1>8. CASE ReceiveError
  <2> USE <1>8 DEF ReceiveError
  <2>1. TypeOK' BY DEF TypeOK, PCs, Bytes
  <2>2. PosInv' /\ ReadyInv' BY DEF PosInv, ReadyInv
  <2>3. LifeInv' /\ PolledIsOpen' BY DEF LifeInv, CyclicUsesLive, PolledIsOpen
  <2> QED BY <2>1, <2>2, <2>3
<1>9. CASE ReceiveNone
  <2> USE <1>9 DEF ReceiveNone
  <2>1. TypeOK' BY DEF TypeOK, PCs, Bytes
  <2>2. PosInv' /\ ReadyInv' BY DEF PosInv, ReadyInv
  <2>3. LifeInv' /\ PolledIsOpen' BY DEF LifeInv, CyclicUsesLive, PolledIsOpen
  <2> QED BY <2>1, <2>2, <2>3
<1> QED BY <1>1, <1>2, <1>3, <1>4, <1>5, <1>6, <1>7, <1>8, <1>9 DEF Loop

(***************************************************************************)
(* The end, the signals and the cyclic thread.                             *)
(***************************************************************************)
LEMMA EndInv == ASSUME IInv, End PROVE IInv'
<1> USE DEF IInv
<1>1. CASE StopTask
  <2> USE <1>1 DEF StopTask
  <2>1. TypeOK' BY DEF TypeOK, PCs, Bytes
  <2>2. PosInv' /\ ReadyInv' BY DEF PosInv, ReadyInv
  <2>3. LifeInv' /\ PolledIsOpen' BY DEF LifeInv, CyclicUsesLive, PolledIsOpen
  <2> QED BY <2>1, <2>2, <2>3
<1>2. CASE Join
  <2> USE <1>2 DEF Join
  <2>1. TypeOK' BY DEF TypeOK, PCs, Bytes
  <2>2. PosInv' /\ ReadyInv' BY DEF PosInv, ReadyInv
  <2>3. LifeInv' /\ PolledIsOpen' BY DEF Joined, LifeInv, CyclicUsesLive, PolledIsOpen
  <2> QED BY <2>1, <2>2, <2>3
<1>3. CASE Deactivate
  <2> USE <1>3 DEF Deactivate
  <2>1. TypeOK' BY DEF TypeOK, PCs, Bytes
  <2>2. PosInv' /\ ReadyInv' BY DEF PosInv, ReadyInv
  <2>3. LifeInv' /\ PolledIsOpen' BY DEF LifeInv, CyclicUsesLive, PolledIsOpen
  <2> QED BY <2>1, <2>2, <2>3
<1>4. CASE Free
  <2> USE <1>4 DEF Free
  <2>1. TypeOK' BY DEF TypeOK, PCs, Bytes
  <2>2. PosInv' /\ ReadyInv' BY DEF PosInv, ReadyInv
  <2>3. LifeInv' /\ PolledIsOpen' BY DEF LifeInv, CyclicUsesLive, PolledIsOpen
  <2> QED BY <2>1, <2>2, <2>3
<1> QED BY <1>1, <1>2, <1>3, <1>4 DEF End

LEMMA OthersInv == ASSUME IInv, Signal \/ ThreadEnds \/ Ended \/ UNCHANGED vars PROVE IInv'
<1> USE DEF IInv
<1>1. CASE Signal
  <2> USE <1>1 DEF Signal
  <2>1. TypeOK' BY DEF TypeOK, PCs, Bytes
  <2>2. PosInv' /\ ReadyInv' BY DEF PosInv, ReadyInv
  <2>3. LifeInv' /\ PolledIsOpen' BY DEF LifeInv, CyclicUsesLive, PolledIsOpen
  <2> QED BY <2>1, <2>2, <2>3
<1>2. CASE ThreadEnds
  <2> USE <1>2 DEF ThreadEnds
  <2>1. TypeOK' BY DEF TypeOK, PCs, Bytes
  <2>2. PosInv' /\ ReadyInv' BY DEF PosInv, ReadyInv
  <2>3. LifeInv' /\ PolledIsOpen' BY DEF LifeInv, CyclicUsesLive, PolledIsOpen
  <2> QED BY <2>1, <2>2, <2>3
<1>3. CASE Ended \/ UNCHANGED vars
  <2> USE <1>3 DEF Ended
  <2>1. TypeOK' BY DEF TypeOK, PCs, Bytes
  <2>2. PosInv' /\ ReadyInv' BY DEF PosInv, ReadyInv
  <2>3. LifeInv' /\ PolledIsOpen' BY DEF LifeInv, CyclicUsesLive, PolledIsOpen
  <2> QED BY <2>1, <2>2, <2>3
<1> QED BY <1>1, <1>2, <1>3

\* The invariant holds in every reachable state of main(), for any clients,
\* scripts, habits and size of the buffer.
THEOREM Invariance == Spec => []IInv
<1>1. ASSUME IInv, [Next]_vars PROVE IInv'
  BY <1>1, ClientInv, LoopInv, EndInv, OthersInv DEF Next
<1> QED BY InitInv, <1>1, PTL DEF Spec

\* Every variable keeps its type; neither the receive buffer of main() nor a
\* command in it is ever longer than the array.
THEOREM TypeCorrect == Spec => []TypeOK
BY Invariance, PTL DEF IInv

\* The socket polled beside the listening one is an open one, of the client in
\* fds[1].
THEOREM OnlyOpenPolled == Spec => []PolledIsOpen
BY Invariance, PTL DEF IInv

\* The cyclic thread never runs over masters that main() has deactivated or over
\* arrays that it has freed.
THEOREM LiveForCyclic == Spec => []CyclicUsesLive
BY Invariance, PTL DEF IInv, LifeInv

(***************************************************************************)
(* Commands.  Of clients who wait for the reply and do not leave before it *)
(* nothing is under way but a part of one line, its head in the buffer and *)
(* the rest still to be received.  A buffer that is full is never received *)
(* into again, nor executed.                                               *)
(***************************************************************************)
Careful == habit \cap {"leaves", "pipelines"} = {}

\* How much of the line that has no reply yet has been sent.
Sent(c) ==
    IF pos[c][1] = replies[c] + 1 THEN pos[c][2] - 1 ELSE Script[c][replies[c] + 1].length

\* The bytes in s are those of c's line without a reply, behind the first n.
IsPart(s, c, n) == \A i \in 1 .. Len(s) : s[i] = <<c, replies[c] + 1, n + i>>

Waits(c) ==
    \/ pos[c][1] = replies[c] + 1 /\ (pos[c][1] \notin DOMAIN Script[c] => pos[c][2] = 1)
    \/ pos[c] = <<replies[c] + 2, 1>> /\ replies[c] + 1 \in DOMAIN Script[c]

Stuck == Len(buffer) = Size

StreamInv ==
    /\ executed \subseteq Lines
    /\ \A c \in Clients :
          /\ Waits(c)
          /\ phase[c] = "new" => pos[c] = <<1, 1>> /\ replies[c] = 0
          /\ left[c] # "no" => Sent(c) = 0
          /\ c # fd1 /\ phase[c] # "closed" => IsPart(rx[c], c, 0) /\ Len(rx[c]) = Sent(c)
    /\ fd1 # NoClient => \/ Stuck
                         \/ /\ IsPart(buffer, fd1, 0) /\ IsPart(rx[fd1], fd1, Len(buffer))
                            /\ Len(buffer) + Len(rx[fd1]) = Sent(fd1)
    /\ fd1 = NoClient => Stuck \/ buffer = <<>>
    /\ nfds = 1 => fd1 = NoClient
    /\ pc \in {"accept", "receive"} /\ "client" \in ready => rx[fd1] # <<>> \/ left[fd1] # "no"

LEMMA SentType ==
    ASSUME IInv, NEW c \in Clients, Waits(c)
    PROVE  Sent(c) \in Nat /\ replies[c] \in Nat /\ pos[c][1] \in Nat /\ pos[c][2] \in Nat
<1>1. replies[c] \in Nat /\ pos[c][1] \in Nat /\ pos[c][2] \in Nat
  BY DEF IInv, TypeOK
<1>2. CASE pos[c][1] = replies[c] + 1
  <2>1. pos[c][2] \in Nat \ {0}
    <3>1. CASE pos[c][1] \in DOMAIN Script[c]
      <4>1. pos[c][2] \in 1 .. Script[c][pos[c][1]].length
        BY <3>1 DEF IInv, PosInv
      <4> QED BY <1>1, <4>1
    <3>2. CASE pos[c][1] \notin DOMAIN Script[c]
      BY <1>1, <1>2, <3>2 DEF Waits
    <3> QED BY <3>1, <3>2
  <2> QED BY <1>1, <1>2, <2>1 DEF Sent
<1>3. CASE pos[c][1] # replies[c] + 1
  <2>1. replies[c] + 1 \in DOMAIN Script[c]
    BY <1>3 DEF Waits
  <2> QED BY <1>1, <1>3, <2>1, ScriptType DEF Sent
<1> QED BY <1>2, <1>3

\* Steps that move no bytes.
LEMMA NothingStreams ==
    ASSUME StreamInv, UNCHANGED <<connVars, fd1, nfds, buffer>>,
           pc' \in {"accept", "receive"} /\ "client" \in ready'
               => rx[fd1] # <<>> \/ left[fd1] # "no"
    PROVE  StreamInv'
BY DEF StreamInv, Waits, Sent, IsPart, Stuck

LEMMA ConnectStreams ==
    ASSUME IInv, StreamInv, NEW c \in Clients, Connect(c)
    PROVE  StreamInv'
<1>1. /\ UNCHANGED <<loopVars, rx, left, pos, replies, executed>>
      /\ \A d \in Clients : phase'[d] = IF d = c THEN "backlog" ELSE phase[d]
      /\ phase[c] = "new"
  BY DEF Connect, IInv, TypeOK
<1> QED BY <1>1 DEF StreamInv, Waits, Sent, IsPart, Stuck

LEMMA SendStreams ==
    ASSUME IInv, Careful, StreamInv, NEW c \in Clients, Send(c)
    PROVE  StreamInv'
<1> DEFINE n == pos[c][1]
           k == pos[c][2]
           l == Script[c][n].length
<1>1. /\ phase[c] \in {"backlog", "accepted"} /\ left[c] = "no" /\ n \in DOMAIN Script[c]
      /\ replies[c] = n - 1
      /\ rx' = [rx EXCEPT ![c] = Append(rx[c], <<c, n, k>>)]
      /\ pos' = [pos EXCEPT ![c] = IF k = l THEN <<n + 1, 1>> ELSE <<n, k + 1>>]
      /\ UNCHANGED <<loopVars, phase, left, replies, executed>>
  BY DEF Send, Careful, IInv, TypeOK
<1>2. n \in Nat \ {0} /\ k \in 1 .. l /\ l \in Nat \ {0} /\ n = replies[c] + 1
  <2>1. n \in DOMAIN Script[c] /\ Script[c] \in Seq([length : Nat \ {0}, exit : BOOLEAN])
    BY <1>1, ScriptType
  <2>2. n \in Nat \ {0}
    BY <2>1, LenProperties
  <2> QED BY <1>1, <2>2, ScriptType DEF IInv, PosInv
<1>3. rx \in [Clients -> Seq(Bytes)] /\ pos \in [Clients -> Nat \X Nat]
  BY DEF IInv, TypeOK
<1>4. pos'[c] = IF k = l THEN <<n + 1, 1>> ELSE <<n, k + 1>>
  BY <1>1, <1>3
<1>5. /\ \A d \in Clients \ {c} : rx'[d] = rx[d] /\ pos'[d] = pos[d]
      /\ rx'[c] = Append(rx[c], <<c, n, k>>)
  BY <1>1, <1>3
<1>6. Sent(c) = k - 1
  BY <1>2 DEF Sent
<1>7. Sent(c)' = k /\ Waits(c)'
  <2>1. replies'[c] = replies[c]
    BY <1>1
  <2> HIDE DEF n, k, l
  <2>2. CASE k = l
    <3>1. pos'[c] = <<n + 1, 1>>
      BY <1>4, <2>2
    <3>2. pos'[c][1] = n + 1 /\ pos'[c][1] # replies[c] + 1 /\ pos'[c] = <<replies[c] + 2, 1>>
      <4>1. replies[c] \in Nat /\ n = replies[c] + 1
        BY <1>2 DEF IInv, TypeOK
      <4>2. pos'[c][1] = n + 1
        BY <3>1
      <4>3. n + 1 # replies[c] + 1 /\ n + 1 = replies[c] + 2
        BY <4>1
      <4> QED BY <3>1, <4>2, <4>3
    <3>3. Sent(c)' = l
      BY <1>2, <2>1, <3>2 DEF Sent, l
    <3> QED BY <1>1, <1>2, <2>1, <2>2, <3>2, <3>3 DEF Waits
  <2>3. CASE k # l
    <3>1. pos'[c] = <<n, k + 1>>
      BY <1>4, <2>3
    <3>2. pos'[c][1] = replies[c] + 1 /\ pos'[c][2] = k + 1 /\ pos'[c][1] \in DOMAIN Script[c]
      BY <1>1, <1>2, <3>1
    <3>3. pos'[c][2] - 1 = k
      <4>1. k \in Nat /\ pos'[c][2] = k + 1
        BY <1>2, <3>2
      <4> QED BY <4>1
    <3>4. Sent(c)' = pos'[c][2] - 1
      <4>1. pos'[c][1] = replies'[c] + 1
        BY <2>1, <3>2
      <4> QED BY <4>1 DEF Sent
    <3>5. Waits(c)'
      BY <2>1, <3>2 DEF Waits
    <3> QED BY <3>3, <3>4, <3>5
  <2> QED BY <2>2, <2>3
<1> HIDE DEF n, k, l
<1>8. \A d \in Clients \ {c} : Sent(d)' = Sent(d) /\ Waits(d)' = Waits(d)
  BY <1>1, <1>5 DEF Sent, Waits
<1>9. /\ rx[c] \in Seq(Bytes) /\ Len(rx[c]) \in Nat
      /\ Len(rx'[c]) = Len(rx[c]) + 1 /\ rx'[c] # <<>>
      /\ \A i \in 1 .. Len(rx'[c]) :
            rx'[c][i] = IF i <= Len(rx[c]) THEN rx[c][i] ELSE <<c, n, k>>
  <2>1. <<c, n, k>> \in Bytes
    BY <1>1, <1>2 DEF Bytes, n, k, l
  <2>2. rx[c] \in Seq(Bytes)
    BY <1>3
  <2> QED BY <1>5, <2>1, <2>2, AppendProperties, LenProperties
<1>10. ASSUME NEW m \in Nat, IsPart(rx[c], c, m), m + Len(rx[c]) = k - 1
       PROVE  IsPart(rx[c], c, m)' /\ m + Len(rx'[c]) = k
  <2>0. k \in Nat /\ Len(rx[c]) \in Nat /\ Len(rx'[c]) = Len(rx[c]) + 1
    BY <1>2, <1>9
  <2>1. m + Len(rx'[c]) = k
    BY <1>10, <2>0
  <2>2. ASSUME NEW i \in 1 .. Len(rx'[c]) PROVE rx'[c][i] = <<c, replies'[c] + 1, m + i>>
    <3>1. replies'[c] + 1 = n
      BY <1>1, <1>2
    <3>2. CASE i <= Len(rx[c])
      BY <1>1, <1>9, <1>10, <3>2 DEF IsPart
    <3>3. CASE ~(i <= Len(rx[c]))
      <4>1. m + i = k
        BY <1>10, <2>0, <3>3
      <4> QED BY <1>9, <3>1, <3>3, <4>1
    <3> QED BY <3>2, <3>3
  <2> QED BY <2>1, <2>2 DEF IsPart
<1>11. ASSUME NEW d \in Clients
       PROVE  /\ Waits(d)'
              /\ phase'[d] = "new" => pos'[d] = <<1, 1>> /\ replies'[d] = 0
              /\ left'[d] # "no" => Sent(d)' = 0
              /\ d # fd1' /\ phase'[d] # "closed" => IsPart(rx[d], d, 0)' /\ Len(rx'[d]) = Sent(d)'
  <2>1. CASE d # c
    BY <1>1, <1>5, <1>8, <2>1 DEF StreamInv, IsPart
  <2>2. CASE d = c
    <3>1. c # fd1 => IsPart(rx[c], c, 0) /\ Len(rx[c]) = k - 1
      BY <1>1, <1>6 DEF StreamInv
    <3>2. c # fd1 => 0 + Len(rx[c]) = k - 1
      BY <1>9, <3>1
    <3>3. c # fd1 => IsPart(rx[c], c, 0)' /\ 0 + Len(rx'[c]) = k
      BY <1>10, <3>1, <3>2
    <3> QED BY <1>1, <1>7, <1>9, <2>2, <3>3
  <2> QED BY <2>1, <2>2
<1>12. fd1' # NoClient => \/ Stuck'
                          \/ /\ IsPart(buffer, fd1, 0)' /\ IsPart(rx[fd1], fd1, Len(buffer))'
                             /\ Len(buffer') + Len(rx'[fd1']) = Sent(fd1)'
  <2> SUFFICES ASSUME fd1 # NoClient, ~Stuck
               PROVE  /\ IsPart(buffer, fd1, 0)' /\ IsPart(rx[fd1], fd1, Len(buffer))'
                      /\ Len(buffer) + Len(rx'[fd1]) = Sent(fd1)'
    BY <1>1 DEF Stuck
  <2>1. /\ IsPart(buffer, fd1, 0) /\ IsPart(rx[fd1], fd1, Len(buffer))
        /\ Len(buffer) + Len(rx[fd1]) = Sent(fd1)
        /\ fd1 \in Clients /\ Len(buffer) \in Nat
    BY DEF StreamInv, IInv, TypeOK
  <2>2. IsPart(buffer, fd1, 0)'
    BY <1>1, <2>1 DEF IsPart
  <2>3. CASE fd1 = c
    BY <1>1, <1>6, <1>7, <1>10, <2>1, <2>2, <2>3
  <2>4. CASE fd1 # c
    BY <1>1, <1>5, <1>8, <2>1, <2>2, <2>4 DEF IsPart
  <2> QED BY <2>3, <2>4
<1>13. pc' \in {"accept", "receive"} /\ "client" \in ready' => rx'[fd1'] # <<>> \/ left'[fd1'] # "no"
  <2>1. pc \in {"accept", "receive"} /\ "client" \in ready =>
            /\ rx[fd1] # <<>> \/ left[fd1] # "no"
            /\ fd1 \in Clients
    BY DEF StreamInv, IInv, ReadyInv
  <2> QED BY <1>1, <1>5, <1>9, <2>1
<1> QED BY <1>1, <1>11, <1>12, <1>13 DEF StreamInv, Stuck

\* A careful client leaves when nothing of it is under way.
LEMMA LeaveStreams ==
    ASSUME IInv, Careful, StreamInv, NEW c \in Clients, Leave(c)
    PROVE  StreamInv'
<1>1. /\ UNCHANGED <<loopVars, phase, rx, pos, replies, executed>>
      /\ pos[c][1] \notin DOMAIN Script[c] /\ replies[c] = Len(Script[c])
      /\ \A d \in Clients \ {c} : left'[d] = left[d]
      /\ left'[c] # "no"
  BY DEF Leave, Careful, IInv, TypeOK
<1>2. Sent(c) = 0
  <2>1. replies[c] + 1 \notin DOMAIN Script[c]
    <3>1. Script[c] \in Seq([length : Nat \ {0}, exit : BOOLEAN])
      BY ScriptType
    <3>2. DOMAIN Script[c] = 1 .. Len(Script[c]) /\ Len(Script[c]) \in Nat
      BY <3>1, LenProperties
    <3> QED BY <1>1, <3>2
  <2>2. pos[c][1] = replies[c] + 1 /\ pos[c][2] = 1
    BY <1>1, <2>1 DEF StreamInv, Waits
  <2> QED BY <2>2 DEF Sent
<1>3. \A d \in Clients : Sent(d)' = Sent(d) /\ Waits(d)' = Waits(d)
  BY <1>1 DEF Sent, Waits
<1>4. pc' \in {"accept", "receive"} /\ "client" \in ready' => rx'[fd1'] # <<>> \/ left'[fd1'] # "no"
  <2>1. pc \in {"accept", "receive"} /\ "client" \in ready =>
            /\ rx[fd1] # <<>> \/ left[fd1] # "no"
            /\ fd1 \in Clients
    BY DEF StreamInv, IInv, ReadyInv
  <2> QED BY <1>1, <2>1
<1>5. \A d \in Clients :
          /\ Waits(d)'
          /\ phase'[d] = "new" => pos'[d] = <<1, 1>> /\ replies'[d] = 0
          /\ left'[d] # "no" => Sent(d)' = 0
          /\ d # fd1' /\ phase'[d] # "closed" => IsPart(rx[d], d, 0)' /\ Len(rx'[d]) = Sent(d)'
  BY <1>1, <1>2, <1>3 DEF StreamInv, IsPart
<1>6. fd1 # NoClient => fd1 \in Clients
  BY DEF IInv, TypeOK
<1> QED BY <1>1, <1>3, <1>4, <1>5, <1>6 DEF StreamInv, Stuck, IsPart

LEMMA AcceptStreams ==
    ASSUME IInv, StreamInv, NEW c \in Clients, Accept(c)
    PROVE  StreamInv'
<1>1. /\ UNCHANGED <<ready, buffer, rx, left, pos, replies, executed>>
      /\ \A d \in Clients : phase'[d] = IF d = c THEN "accepted" ELSE phase[d]
      /\ fd1' = IF nfds = 1 THEN c ELSE fd1
      /\ nfds' = 2 /\ phase[c] = "backlog" /\ pc = "accept"
  BY DEF Accept, IInv, TypeOK
<1>2. \A d \in Clients : Sent(d)' = Sent(d) /\ Waits(d)' = Waits(d)
  BY <1>1 DEF Sent, Waits
<1>3. nfds = 1 => "client" \notin ready
  BY <1>1 DEF IInv, ReadyInv
<1>4. CASE nfds = 1
  <2>1. fd1 = NoClient /\ fd1' = c /\ c # NoClient
    BY <1>1, <1>4, ClientsAssumption DEF StreamInv
  <2>2. IsPart(rx[c], c, 0) /\ Len(rx[c]) = Sent(c) /\ Len(rx[c]) \in Nat
    BY <1>1, <2>1 DEF StreamInv, IInv, TypeOK
  <2>3. Stuck \/ buffer = <<>>
    BY <2>1 DEF StreamInv
  <2>4. buffer = <<>> => /\ IsPart(buffer, c, 0) /\ IsPart(rx[c], c, Len(buffer))
                         /\ Len(buffer) + Len(rx[c]) = Sent(c)
    BY <2>2 DEF IsPart
  <2>5. Stuck' \/ (IsPart(buffer, c, 0)' /\ IsPart(rx[c], c, Len(buffer))'
                   /\ Len(buffer') + Len(rx'[c]) = Sent(c)')
    BY <1>1, <1>2, <2>3, <2>4 DEF Stuck, IsPart
  <2>6. \A d \in Clients :
          /\ Waits(d)'
          /\ phase'[d] = "new" => pos'[d] = <<1, 1>> /\ replies'[d] = 0
          /\ left'[d] # "no" => Sent(d)' = 0
          /\ d # fd1' /\ phase'[d] # "closed" => IsPart(rx[d], d, 0)' /\ Len(rx'[d]) = Sent(d)'
    BY <1>1, <1>2, <2>1, ClientsAssumption DEF StreamInv, IsPart
  <2> QED BY <1>1, <1>3, <1>4, <2>1, <2>5, <2>6 DEF StreamInv
<1>5. CASE nfds # 1
  <2>1. fd1' = fd1
    BY <1>1, <1>5
  <2>2. \A d \in Clients :
          /\ Waits(d)'
          /\ phase'[d] = "new" => pos'[d] = <<1, 1>> /\ replies'[d] = 0
          /\ left'[d] # "no" => Sent(d)' = 0
          /\ d # fd1' /\ phase'[d] # "closed" => IsPart(rx[d], d, 0)' /\ Len(rx'[d]) = Sent(d)'
    BY <1>1, <1>2, <2>1 DEF StreamInv, IsPart
  <2>3. fd1 # NoClient => fd1 \in Clients
    BY DEF IInv, TypeOK
  <2>4. fd1' # NoClient => \/ Stuck'
                           \/ /\ IsPart(buffer, fd1, 0)' /\ IsPart(rx[fd1], fd1, Len(buffer))'
                              /\ Len(buffer') + Len(rx'[fd1']) = Sent(fd1)'
    <3>1. fd1 # NoClient => \/ Stuck
                            \/ /\ IsPart(buffer, fd1, 0) /\ IsPart(rx[fd1], fd1, Len(buffer))
                               /\ Len(buffer) + Len(rx[fd1]) = Sent(fd1)
      BY DEF StreamInv
    <3>2. fd1 # NoClient => Sent(fd1)' = Sent(fd1)
      BY <1>1, <2>1, <2>3, <1>2 DEF Sent
    <3> QED BY <1>1, <2>1, <2>3, <3>1, <3>2 DEF Stuck, IsPart
  <2>5. fd1' = NoClient => Stuck' \/ buffer' = <<>>
    BY <1>1, <2>1 DEF StreamInv, Stuck
  <2>6. executed' \subseteq Lines
    BY <1>1 DEF StreamInv
  <2>7. pc' \in {"accept", "receive"} /\ "client" \in ready'
          => rx'[fd1'] # <<>> \/ left'[fd1'] # "no"
    BY <1>1, <2>1 DEF StreamInv
  <2> QED BY <1>1, <2>2, <2>4, <2>5, <2>6, <2>7 DEF StreamInv
<1> QED BY <1>4, <1>5

\* What recv() leaves, byte by byte.
LEMMA ReceivedBytes ==
    ASSUME IInv, StreamInv, fd1 \in Clients, fd1 # NoClient, Received # <<>>
    PROVE  /\ ~Stuck
           /\ Len(Received) \in Nat \ {0} /\ Len(Received) <= Len(rx[fd1])
           /\ Len(buffer) \in Nat /\ Len(rx[fd1]) \in Nat
           /\ Len(buffer \o Received) = Len(buffer) + Len(Received)
           /\ Received[Len(Received)] = <<fd1, replies[fd1] + 1, Len(buffer) + Len(Received)>>
           /\ IsPart(buffer \o Received, fd1, 0)
           /\ LET rest == SubSeq(rx[fd1], Len(Received) + 1, Len(rx[fd1])) IN
              /\ IsPart(rest, fd1, Len(buffer) + Len(Received))
              /\ Len(rest) = Len(rx[fd1]) - Len(Received)
<1> DEFINE m == Smaller(Len(rx[fd1]), Room)
           b == buffer
           x == rx[fd1]
           R == Received
<1>1. x \in Seq(Bytes) /\ b \in Seq(Bytes) /\ Len(b) <= Size /\ Size \in Nat
  BY SizeAssumption DEF IInv, TypeOK
<1>2. Len(x) \in Nat /\ Len(b) \in Nat
  BY <1>1, LenProperties
<1>3. m \in Nat /\ m <= Len(x) /\ m <= Size - Len(b)
  BY <1>1, <1>2 DEF Smaller, Room
<1>4. R = SubSeq(x, 1, m)
  BY DEF Received
<1> HIDE DEF m, x, b, R
<1>5. Len(R) = m /\ R \in Seq(Bytes) /\ \A i \in 1 .. m : R[i] = x[i]
  BY <1>1, <1>2, <1>3, <1>4
<1>6. m # 0
  BY <1>5 DEF R
<1>7. ~Stuck
  BY <1>1, <1>2, <1>3, <1>6 DEF Stuck, b
<1>8. IsPart(b, fd1, 0) /\ IsPart(x, fd1, Len(b))
  BY <1>7 DEF StreamInv, b, x
<1>9. /\ Len(b \o R) = Len(b) + m
      /\ \A i \in 1 .. Len(b) + m : (b \o R)[i] = IF i <= Len(b) THEN b[i] ELSE R[i - Len(b)]
  BY <1>1, <1>2, <1>3, <1>5, ConcatProperties
<1>10. IsPart(b \o R, fd1, 0)
  <2> SUFFICES ASSUME NEW i \in 1 .. Len(b) + m
               PROVE  (b \o R)[i] = <<fd1, replies[fd1] + 1, 0 + i>>
    BY <1>9 DEF IsPart
  <2>1. CASE i <= Len(b)
    BY <1>2, <1>8, <1>9, <2>1 DEF IsPart
  <2>2. CASE ~(i <= Len(b))
    <3>1. i - Len(b) \in 1 .. m /\ i - Len(b) \in 1 .. Len(x) /\ Len(b) + (i - Len(b)) = 0 + i
      BY <1>2, <1>3, <2>2
    <3> QED BY <1>5, <1>8, <1>9, <2>2, <3>1 DEF IsPart
  <2> QED BY <2>1, <2>2
<1> DEFINE rest == SubSeq(x, m + 1, Len(x))
<1>11. Len(rest) = Len(x) - m /\ \A i \in 1 .. Len(x) - m : rest[i] = x[m + i]
  BY <1>1, <1>2, <1>3
<1> HIDE DEF rest
<1>12. IsPart(rest, fd1, Len(b) + m)
  <2> SUFFICES ASSUME NEW i \in 1 .. Len(x) - m
               PROVE  rest[i] = <<fd1, replies[fd1] + 1, Len(b) + m + i>>
    BY <1>11 DEF IsPart
  <2>1. m + i \in 1 .. Len(x) /\ Len(b) + (m + i) = Len(b) + m + i
    BY <1>2, <1>3
  <2> QED BY <1>8, <1>11, <2>1 DEF IsPart
<1>13. R[m] = <<fd1, replies[fd1] + 1, Len(b) + m>>
  <2>1. m \in 1 .. m /\ m \in 1 .. Len(x)
    BY <1>2, <1>3, <1>6
  <2> QED BY <1>5, <1>8, <2>1 DEF IsPart
<1> QED BY <1>2, <1>3, <1>5, <1>6, <1>7, <1>9, <1>10, <1>11, <1>12, <1>13 DEF b, x, R, rest

LEMMA PartStreams ==
    ASSUME IInv, StreamInv, ReceivePart
    PROVE  StreamInv'
<1> DEFINE R == Received
<1>1. /\ pc = "receive" /\ "client" \in ready /\ R # <<>>
      /\ buffer' = buffer \o R
      /\ rx' = [rx EXCEPT ![fd1] = SubSeq(rx[fd1], Len(R) + 1, Len(rx[fd1]))]
      /\ pc' = "check"
      /\ UNCHANGED <<ready, fd1, nfds, phase, left, pos, replies, executed>>
  BY DEF ReceivePart, IInv, TypeOK
<1>2. fd1 \in Clients /\ fd1 # NoClient
  BY <1>1, ClientsAssumption DEF IInv, ReadyInv
<1>3. /\ rx'[fd1] = SubSeq(rx[fd1], Len(R) + 1, Len(rx[fd1]))
      /\ \A d \in Clients \ {fd1} : rx'[d] = rx[d]
  BY <1>1, <1>2 DEF IInv, TypeOK
<1>4. /\ ~Stuck
      /\ Len(R) \in Nat /\ Len(buffer) \in Nat /\ Len(rx[fd1]) \in Nat
      /\ Len(buffer') = Len(buffer) + Len(R)
      /\ IsPart(buffer \o R, fd1, 0)
      /\ IsPart(rx'[fd1], fd1, Len(buffer) + Len(R))
      /\ Len(rx'[fd1]) = Len(rx[fd1]) - Len(R)
  BY <1>1, <1>2, <1>3, ReceivedBytes
<1>5. \A d \in Clients : Sent(d)' = Sent(d) /\ Waits(d)' = Waits(d)
  BY <1>1 DEF Sent, Waits
<1>6. Len(buffer) + Len(rx[fd1]) = Sent(fd1)
  BY <1>2, <1>4 DEF StreamInv
<1> HIDE DEF R
<1>7. /\ IsPart(buffer, fd1, 0)' /\ IsPart(rx[fd1], fd1, Len(buffer))'
      /\ Len(buffer') + Len(rx'[fd1]) = Sent(fd1)'
  <2>1. IsPart(buffer, fd1, 0)' /\ IsPart(rx[fd1], fd1, Len(buffer))'
    BY <1>1, <1>4 DEF IsPart
  <2>2. Len(buffer') + Len(rx'[fd1]) = Len(buffer) + Len(rx[fd1])
    <3>1. \A x, y, z \in Nat : (x + z) + (y - z) = x + y
      OBVIOUS
    <3>2. Len(R) \in Nat /\ Len(buffer) \in Nat /\ Len(rx[fd1]) \in Nat
      BY <1>4
    <3>3. (Len(buffer) + Len(R)) + (Len(rx[fd1]) - Len(R)) = Len(buffer) + Len(rx[fd1])
      BY <3>1, <3>2
    <3>4. Len(buffer') = Len(buffer) + Len(R) /\ Len(rx'[fd1]) = Len(rx[fd1]) - Len(R)
      BY <1>4
    <3> QED BY <3>3, <3>4
  <2>3. Sent(fd1)' = Sent(fd1)
    BY <1>1, <1>2, <1>5
  <2> QED BY <1>6, <2>1, <2>2, <2>3
<1>8. \A d \in Clients :
          /\ Waits(d)'
          /\ phase'[d] = "new" => pos'[d] = <<1, 1>> /\ replies'[d] = 0
          /\ left'[d] # "no" => Sent(d)' = 0
          /\ d # fd1' /\ phase'[d] # "closed" => IsPart(rx[d], d, 0)' /\ Len(rx'[d]) = Sent(d)'
  BY <1>1, <1>3, <1>5 DEF StreamInv, IsPart
<1>9. executed' \subseteq Lines /\ (nfds' = 1 => fd1' = NoClient)
  BY <1>1 DEF StreamInv
<1> QED BY <1>1, <1>2, <1>7, <1>8, <1>9 DEF StreamInv

\* What ends in the newline is the line, and all that is under way.
LEMMA ExecuteStreams ==
    ASSUME IInv, StreamInv, Execute
    PROVE  StreamInv'
<1> DEFINE R == Received
           s == buffer \o R
           n == replies[fd1] + 1
           l == Script[fd1][n].length
<1>1. /\ pc = "receive" /\ "client" \in ready /\ R # <<>> /\ IsNewline(R[Len(R)])
      /\ executed' = executed \cup {s}
      /\ buffer' = <<>>
      /\ phase' = [phase EXCEPT ![fd1] = IF IsExit(s) THEN "closed" ELSE phase[fd1]]
      /\ replies' = [replies EXCEPT ![fd1] = replies[fd1] + 1]
      /\ rx' = [rx EXCEPT ![fd1] = SubSeq(rx[fd1], Len(R) + 1, Len(rx[fd1]))]
      /\ left' = [left EXCEPT ![fd1] = IF left[fd1] = "closed" THEN "reset" ELSE left[fd1]]
      /\ pc' = "check"
      /\ UNCHANGED <<fd1, nfds, pos>>
  BY DEF Execute, IInv, TypeOK
<1>2. fd1 \in Clients /\ fd1 # NoClient
  BY <1>1, ClientsAssumption DEF IInv, ReadyInv
<1>3. /\ ~Stuck /\ Len(R) \in Nat \ {0} /\ Len(buffer) \in Nat /\ Len(rx[fd1]) \in Nat
      /\ Len(R) <= Len(rx[fd1])
      /\ Len(s) = Len(buffer) + Len(R)
      /\ R[Len(R)] = <<fd1, n, Len(buffer) + Len(R)>>
      /\ IsPart(s, fd1, 0)
      /\ Len(SubSeq(rx[fd1], Len(R) + 1, Len(rx[fd1]))) = Len(rx[fd1]) - Len(R)
  BY <1>1, <1>2, ReceivedBytes
<1>4. Len(buffer) + Len(rx[fd1]) = Sent(fd1) /\ Waits(fd1)
  BY <1>2, <1>3 DEF StreamInv
<1>5. n \in Nat \ {0} /\ pos[fd1][1] \in Nat /\ pos[fd1][2] \in Nat /\ replies[fd1] \in Nat
  BY <1>2, <1>4, SentType
<1>6. Len(buffer) + Len(R) = l
  BY <1>1, <1>3 DEF IsNewline
\* The line has been sent to its end.
<1>7. pos[fd1] = <<n + 1, 1>> /\ n \in DOMAIN Script[fd1] /\ Sent(fd1) = l /\ l \in Nat \ {0}
  <2>1. pos[fd1][1] # n
    <3> SUFFICES ASSUME pos[fd1][1] = n PROVE FALSE
      OBVIOUS
    <3>1. Sent(fd1) = pos[fd1][2] - 1
      BY DEF Sent
    <3>2. Sent(fd1) >= 1
      BY <1>3, <1>4
    <3>3. n \in DOMAIN Script[fd1]
      BY <1>4, <1>5, <3>1, <3>2 DEF Waits
    <3>4. pos[fd1][2] \in 1 .. l
      BY <1>2, <3>3 DEF IInv, PosInv
    <3>5. l \in Nat
      BY <1>2, <3>3, ScriptType
    <3> HIDE DEF l
    <3> QED BY <1>3, <1>4, <1>6, <3>1, <3>4, <3>5
  <2>2. pos[fd1] = <<replies[fd1] + 2, 1>> /\ n \in DOMAIN Script[fd1]
    BY <1>4, <2>1 DEF Waits
  <2>3. replies[fd1] + 2 = n + 1
    BY <1>5
  <2>4. Sent(fd1) = l /\ l \in Nat \ {0}
    BY <1>2, <2>1, <2>2, ScriptType DEF Sent
  <2> QED BY <2>2, <2>3, <2>4
<1>8. s = Line(fd1, n)
  <2>1. buffer \in Seq(Bytes) /\ R \in Seq(Bytes) /\ s \in Seq(Bytes)
    BY <1>2, ReceivedType DEF IInv, TypeOK
  <2>2. s = [i \in 1 .. l |-> s[i]]
    <3>1. Len(s) = l
      BY <1>3, <1>6
    <3> HIDE DEF s, l
    <3> QED BY <2>1, <3>1, LenProperties
  <2>3. \A i \in 1 .. l : s[i] = <<fd1, n, i>>
    <3> SUFFICES ASSUME NEW i \in 1 .. l PROVE s[i] = <<fd1, n, i>>
      OBVIOUS
    <3>1. i \in 1 .. Len(s) /\ 0 + i = i
      BY <1>3, <1>6
    <3> QED BY <1>3, <3>1 DEF IsPart
  <2> HIDE DEF s, l
  <2>4. [i \in 1 .. l |-> s[i]] = [i \in 1 .. l |-> <<fd1, n, i>>]
    BY <2>3
  <2> QED BY <2>2, <2>4 DEF Line, l
<1>9. executed' \subseteq Lines
  <2>1. Line(fd1, n) \in Lines
    BY <1>2, <1>7 DEF Lines
  <2> QED BY <1>1, <1>8, <2>1 DEF StreamInv
<1>10. /\ Len(rx'[fd1]) = 0
       /\ \A d \in Clients \ {fd1} : /\ rx'[d] = rx[d] /\ left'[d] = left[d]
                                     /\ phase'[d] = phase[d] /\ replies'[d] = replies[d]
       /\ replies'[fd1] = n /\ left[fd1] = "no" /\ left'[fd1] = "no"
       /\ phase'[fd1] \in {phase[fd1], "closed"}
  <2>1. Len(rx[fd1]) = Len(R)
    BY <1>3, <1>4, <1>6, <1>7
  <2>2. rx'[fd1] = SubSeq(rx[fd1], Len(R) + 1, Len(rx[fd1]))
    BY <1>1, <1>2 DEF IInv, TypeOK
  <2>3. left[fd1] = "no"
    <3>1. Sent(fd1) # 0
      BY <1>7
    <3> QED BY <1>2, <3>1 DEF StreamInv
  <2>4. Len(rx'[fd1]) = 0
    BY <1>3, <2>1, <2>2
  <2> HIDE DEF R, s
  <2> QED BY <1>1, <1>2, <2>3, <2>4 DEF IInv, TypeOK
<1> HIDE DEF R, s, l
<1>11. Waits(fd1)' /\ Sent(fd1)' = 0
  <2>1. pos'[fd1] = <<n + 1, 1>> /\ replies'[fd1] = n
    BY <1>1, <1>7, <1>10
  <2> HIDE DEF n
  <2>2. pos'[fd1][1] = replies'[fd1] + 1 /\ pos'[fd1][2] = 1
    BY <2>1
  <2> QED BY <1>1, <2>2 DEF Waits, Sent
<1>12. ASSUME NEW d \in Clients \ {fd1} PROVE Sent(d)' = Sent(d) /\ Waits(d)' = Waits(d)
  BY <1>1, <1>10 DEF Sent, Waits
<1>13. ASSUME NEW d \in Clients
       PROVE  /\ Waits(d)'
              /\ phase'[d] = "new" => pos'[d] = <<1, 1>> /\ replies'[d] = 0
              /\ left'[d] # "no" => Sent(d)' = 0
              /\ d # fd1' /\ phase'[d] # "closed" => IsPart(rx[d], d, 0)' /\ Len(rx'[d]) = Sent(d)'
  <2>1. CASE d = fd1
    <3>1. phase[fd1] # "new"
      <4>1. n + 1 # 1
        BY <1>5
      <4>2. pos[fd1][1] # 1
        BY <1>7, <4>1
      <4>3. pos[fd1] # <<1, 1>>
        BY <4>2
      <4> QED BY <1>2, <4>3 DEF StreamInv
    <3> QED BY <1>1, <1>10, <1>11, <2>1, <3>1
  <2>2. CASE d # fd1
    BY <1>1, <1>10, <1>12, <2>2 DEF StreamInv, IsPart
  <2> QED BY <2>1, <2>2
<1>14. /\ IsPart(buffer, fd1, 0)' /\ IsPart(rx[fd1], fd1, Len(buffer))'
       /\ Len(buffer') + Len(rx'[fd1]) = Sent(fd1)'
  <2>1. Len(buffer') = 0 /\ Len(rx'[fd1']) = 0 /\ Sent(fd1)' = 0
    BY <1>1, <1>10, <1>11
  <2> QED BY <1>1, <2>1 DEF IsPart
<1>15. nfds' = 1 => fd1' = NoClient
  BY <1>1 DEF StreamInv
<1> QED BY <1>1, <1>2, <1>9, <1>13, <1>14, <1>15 DEF StreamInv

LEMMA CloseStreams ==
    ASSUME IInv, StreamInv, CloseClient
    PROVE  StreamInv'
<1>1. /\ pc = "receive" /\ "client" \in ready
      /\ Received = <<>> \/ left[fd1] = "reset"
      /\ \A d \in Clients \ {fd1} : phase'[d] = phase[d]
      /\ fd1 \in Clients => phase'[fd1] = "closed"
      /\ fd1' = NoClient /\ pc' = "check"
      /\ UNCHANGED <<ready, buffer, rx, left, pos, replies, executed>>
  BY DEF CloseClient, IInv, TypeOK
<1>2. fd1 \in Clients /\ fd1 # NoClient
  BY <1>1, ClientsAssumption DEF IInv, ReadyInv
<1>3. Stuck \/ buffer = <<>>
  <2> SUFFICES ASSUME ~Stuck PROVE buffer = <<>>
    OBVIOUS
  <2>1. /\ Len(buffer) + Len(rx[fd1]) = Sent(fd1)
        /\ buffer \in Seq(Bytes) /\ rx[fd1] \in Seq(Bytes)
        /\ Len(buffer) <= Size /\ Size \in Nat
    BY <1>2, SizeAssumption DEF StreamInv, IInv, TypeOK
  <2>2. Len(buffer) \in Nat /\ Len(rx[fd1]) \in Nat
    BY <2>1, LenProperties
  <2>3. CASE left[fd1] # "no"
    <3>1. Sent(fd1) = 0
      BY <1>2, <2>3 DEF StreamInv
    <3>2. Len(buffer) = 0
      BY <2>1, <2>2, <3>1
    <3> QED BY <2>1, <3>2
  <2>4. CASE left[fd1] = "no"
    <3>1. Received = <<>> /\ rx[fd1] # <<>>
      BY <1>1, <2>4 DEF StreamInv
    <3>2. Len(rx[fd1]) # 0
      BY <2>1, <3>1
    <3>3. Room \in Nat \ {0}
      BY <2>1, <2>2 DEF Room, Stuck
    <3> DEFINE m == Smaller(Len(rx[fd1]), Room)
    <3>4. m \in Nat \ {0} /\ m <= Len(rx[fd1])
      BY <2>2, <3>2, <3>3 DEF Smaller
    <3> HIDE DEF m
    <3>5. Len(SubSeq(rx[fd1], 1, m)) = m
      BY <2>1, <3>4, PartType
    <3>6. Received = SubSeq(rx[fd1], 1, m)
      BY DEF Received, m
    <3> QED BY <3>1, <3>4, <3>5, <3>6
  <2> QED BY <2>3, <2>4
<1>4. \A d \in Clients : Sent(d)' = Sent(d) /\ Waits(d)' = Waits(d)
  BY <1>1 DEF Sent, Waits
<1>5. \A d \in Clients :
          /\ Waits(d)'
          /\ phase'[d] = "new" => pos'[d] = <<1, 1>> /\ replies'[d] = 0
          /\ left'[d] # "no" => Sent(d)' = 0
          /\ d # fd1' /\ phase'[d] # "closed" => IsPart(rx[d], d, 0)' /\ Len(rx'[d]) = Sent(d)'
  BY <1>1, <1>2, <1>4 DEF StreamInv, IsPart
<1>6. executed' \subseteq Lines /\ (Stuck' \/ buffer' = <<>>)
  BY <1>1, <1>3 DEF StreamInv, Stuck
<1> QED BY <1>1, <1>5, <1>6 DEF StreamInv

LEMMA LoopStreams ==
    ASSUME IInv, StreamInv, Loop
    PROVE  StreamInv'
<1>1. CASE Poll
  <2>1. "client" \in Ready => rx[fd1] # <<>> \/ left[fd1] # "no"
    BY DEF Ready
  <2> QED BY <1>1, <2>1, NothingStreams DEF Poll
<1>2. CASE AcceptNone
  <2>1. /\ UNCHANGED <<connVars, fd1, nfds, buffer, ready>> /\ pc = "accept"
    BY <1>2 DEF AcceptNone
  <2>2. "client" \in ready => rx[fd1] # <<>> \/ left[fd1] # "no"
    BY <2>1 DEF StreamInv
  <2> QED BY <2>1, <2>2, NothingStreams
<1>3. CASE Check \/ ReceiveError \/ ReceiveNone
  BY <1>3, NothingStreams DEF Check, ReceiveError, ReceiveNone
<1> QED BY <1>1, <1>2, <1>3, AcceptStreams, PartStreams, ExecuteStreams, CloseStreams DEF Loop

LEMMA OthersStream ==
    ASSUME StreamInv, End \/ Signal \/ ThreadEnds \/ Ended \/ UNCHANGED vars
    PROVE  StreamInv'
<1>1. /\ UNCHANGED <<connVars, fd1, nfds, buffer, ready>>
      /\ pc' \in {"accept", "receive"} => pc' = pc
  BY DEF End, StopTask, Join, Deactivate, Free, Signal, ThreadEnds, Ended
<1>2. pc' \in {"accept", "receive"} /\ "client" \in ready'
        => rx[fd1] # <<>> \/ left[fd1] # "no"
  BY <1>1 DEF StreamInv
<1> QED BY <1>1, <1>2, NothingStreams

\* Of clients who wait for the reply before they send on or leave, a command
\* that is executed is a line as one of them sent it: for any clients, lines,
\* size of the buffer and ways recv() may cut the stream.
THEOREM LinesExecuted == Spec => []CommandsAreLines
<1>1. Init => (Careful => StreamInv)
  <2> SUFFICES ASSUME Init PROVE StreamInv
    OBVIOUS
  <2>1. \A c \in Clients : pos[c] = <<1, 1>> /\ replies[c] = 0 /\ left[c] = "no" /\ rx[c] = <<>>
    BY DEF Init
  <2>2. \A c \in Clients : Sent(c) = 0 /\ Waits(c)
    BY <2>1 DEF Sent, Waits
  <2>3. \A c \in Clients : IsPart(rx[c], c, 0) /\ Len(rx[c]) = Sent(c)
    BY <2>1, <2>2 DEF IsPart
  <2> QED BY <2>1, <2>2, <2>3 DEF Init, StreamInv
<1>2. IInv /\ (Careful => StreamInv) /\ [Next]_vars => (Careful => StreamInv)'
  <2> SUFFICES ASSUME IInv, Careful => StreamInv, [Next]_vars, Careful'
               PROVE  StreamInv'
    OBVIOUS
  <2>1. habit' = habit
    BY DEF Next, Client, Connect, Send, Leave, Loop, Check, Poll, Accept, AcceptNone, ReceivePart,
           Execute, CloseClient, ReceiveError, ReceiveNone, End, StopTask, Join, Deactivate, Free,
           Signal, ThreadEnds, Ended
  <2>2. Careful /\ StreamInv
    BY <2>1 DEF Careful
  <2> QED BY <2>2, ConnectStreams, SendStreams, LeaveStreams, LoopStreams, OthersStream
          DEF Next, Client
<1>3. (Careful => StreamInv) => CommandsAreLines
  BY DEF Careful, StreamInv, CommandsAreLines
<1> QED BY <1>1, <1>2, <1>3, Invariance, PTL DEF Spec
=============================================================================
