------------------------------- MODULE Server -------------------------------
(***************************************************************************)
(* The server of nservo_run: main() from the start of the cyclic task to   *)
(* its end, and the clients.  One thread polls the listening socket and at *)
(* most one client, collects what that client sends in a buffer and        *)
(* executes it when it ends in a newline.  The commands themselves are the *)
(* business of PPAxis and CSPAxis; here a command is answered, or it is    *)
(* exit.                                                                   *)
(***************************************************************************)
EXTENDS Naturals, Sequences, FiniteSets

CONSTANTS
    Clients,
    NoClient,
    Script,     \* per client, the lines it sends: their length, and is it exit
    Size,       \* sizeof(buffer)
    Habits      \* the liberties clients may take together

ASSUME ClientsAssumption == NoClient \notin Clients
ASSUME SizeAssumption == Size \in Nat \ {0}
ASSUME ScriptAssumption == Script \in [Clients -> Seq([length : Nat \ {0}, exit : BOOLEAN])]

VARIABLES
    running,    \* the global flag
    pc,         \* what main() is doing
    ready,      \* the sockets poll() found ready: 0 and 1, and error on 1
    fd1,        \* the client in fds[1]
    nfds,       \* how many of fds[] are polled
    buffer,
    phase,      \* a client's connection, as the server has it
    rx,         \* what has arrived from a client and has not been received
    left,       \* has the client closed the connection: no, closed, reset
    pos,        \* a client's next line and byte
    replies,    \* how many replies a client got
    executed,   \* the strings executed so far
    thread,     \* the cyclic thread
    nsRunning,  \* ns_data->running
    held,       \* what the cyclic thread works on: masters, arrays
    habit       \* the liberties of this behaviour

loopVars == <<running, pc, ready, fd1, nfds, buffer>>
connVars == <<phase, rx, left, pos, replies, executed>>
taskVars == <<thread, nsRunning, held>>
vars == <<loopVars, connVars, taskVars, habit>>

(***************************************************************************)
(* Lines.  A byte is known by its client, line and place; the last byte of *)
(* a line is the newline.                                                  *)
(***************************************************************************)
Line(c, n) == [k \in 1 .. Script[c][n].length |-> <<c, n, k>>]
Lines == UNION {{Line(c, n) : n \in DOMAIN Script[c]} : c \in Clients}

\* slip: whatever recv() gets is a command
AnyByteEnds(b) == TRUE

IsNewline(b) == b[3] = Script[b[1]][b[2]].length

IsExit(s) == \E c \in Clients : \E n \in DOMAIN Script[c] :
                s = Line(c, n) /\ Script[c][n].exit

Init ==
    /\ running = TRUE
    /\ pc = "check"
    /\ ready = {}
    /\ fd1 = NoClient
    /\ nfds = 1
    /\ buffer = <<>>
    /\ phase = [c \in Clients |-> "new"]
    /\ rx = [c \in Clients |-> <<>>]
    /\ left = [c \in Clients |-> "no"]
    /\ pos = [c \in Clients |-> <<1, 1>>]
    /\ replies = [c \in Clients |-> 0]
    /\ executed = {}
    /\ thread = "running"
    /\ nsRunning = TRUE
    /\ held = {"masters", "arrays"}
    /\ habit \in Habits

(***************************************************************************)
(* The clients.  nservo_client connects, sends a line, waits for the reply *)
(* and closes the connection.                                              *)
(***************************************************************************)
\* Nobody else is connected: the server has closed the other connections, or,
\* for a client that follows, the other clients have.
Alone(c) ==
    \A d \in Clients \ {c} :
        \/ phase[d] \in {"new", "closed"}
        \/ "follows" \in habit /\ left[d] = "closed"

Connect(c) ==
    /\ phase[c] = "new"
    /\ Alone(c) \/ "crowds" \in habit
    /\ phase' = [phase EXCEPT ![c] = "backlog"]
    /\ UNCHANGED <<loopVars, rx, left, pos, replies, executed, taskVars, habit>>

\* A byte of the current line arrives; a line waits for the reply to the last.
Send(c) ==
    LET n == pos[c][1]
        k == pos[c][2]
    IN /\ phase[c] \in {"backlog", "accepted"}
       /\ left[c] = "no"
       /\ n \in DOMAIN Script[c]
       /\ replies[c] = n - 1 \/ "pipelines" \in habit
       /\ rx' = [rx EXCEPT ![c] = Append(@, <<c, n, k>>)]
       /\ pos' = [pos EXCEPT ![c] =
                     IF k = Script[c][n].length THEN <<n + 1, 1>> ELSE <<n, k + 1>>]
       /\ UNCHANGED <<loopVars, phase, left, replies, executed, taskVars, habit>>

\* The client has sent its lines and got its replies, or it leaves early.
Leave(c) ==
    /\ phase[c] \in {"backlog", "accepted"}
    /\ left[c] = "no"
    /\ \/ pos[c][1] \notin DOMAIN Script[c] /\ replies[c] = Len(Script[c])
       \/ "leaves" \in habit
    /\ \E how \in {"closed"} \cup (IF "resets" \in habit THEN {"reset"} ELSE {}) :
          left' = [left EXCEPT ![c] = how]
    /\ UNCHANGED <<loopVars, phase, rx, pos, replies, executed, taskVars, habit>>

Client(c) == Connect(c) \/ Send(c) \/ Leave(c)

(***************************************************************************)
(* The loop of main().                                                     *)
(***************************************************************************)
Check ==
    /\ pc = "check"
    /\ pc' = IF running THEN "poll" ELSE "stop"
    /\ UNCHANGED <<running, ready, fd1, nfds, buffer, connVars, taskVars, habit>>

Ready ==
    (IF \E c \in Clients : phase[c] = "backlog" THEN {"listen"} ELSE {})
    \cup (IF nfds = 2 /\ fd1 # NoClient
          THEN IF left[fd1] = "reset" THEN {"error"}
               ELSE IF rx[fd1] # <<>> \/ left[fd1] = "closed" THEN {"client"} ELSE {}
          ELSE {})

\* slip: no timeout
PollReturnsOnlyReady == Ready # {}

\* poll() returns when a socket is ready, or after 10 s.
PollReturns == TRUE

Poll ==
    /\ pc = "poll"
    /\ PollReturns
    /\ ready' = Ready
    /\ pc' = "accept"
    /\ UNCHANGED <<running, fd1, nfds, buffer, connVars, taskVars, habit>>

\* With a client in fds[1] the new one goes to fds[2], which is never polled.
Accept(c) ==
    /\ pc = "accept"
    /\ "listen" \in ready
    /\ phase[c] = "backlog"
    /\ phase' = [phase EXCEPT ![c] = "accepted"]
    /\ fd1' = IF nfds = 1 THEN c ELSE fd1
    /\ nfds' = 2
    /\ pc' = "receive"
    /\ UNCHANGED <<running, ready, buffer, rx, left, pos, replies, executed, taskVars, habit>>

AcceptNone ==
    /\ pc = "accept"
    /\ "listen" \notin ready
    /\ pc' = "receive"
    /\ UNCHANGED <<running, ready, fd1, nfds, buffer, connVars, taskVars, habit>>

\* slip: a full buffer is overrun
RoomAlways == Size

\* What recv() may still fill.
Room == Size - Len(buffer)

Smaller(m, n) == IF m < n THEN m ELSE n

\* What recv() gets, if the connection stands.
Received == SubSeq(rx[fd1], 1, Smaller(Len(rx[fd1]), Room))

\* What has come does not end in a newline: it waits for more.
ReceivePart ==
    /\ pc = "receive"
    /\ "client" \in ready /\ left[fd1] # "reset"
    /\ Received # <<>> /\ ~IsNewline(Received[Len(Received)])
    /\ buffer' = buffer \o Received
    /\ rx' = [rx EXCEPT ![fd1] = SubSeq(@, Len(Received) + 1, Len(@))]
    /\ pc' = "check"
    /\ UNCHANGED <<running, ready, fd1, nfds, phase, left, pos, replies, executed, taskVars, habit>>

\* It does: the whole buffer is a command.  exit closes the sockets.  A reply to
\* a client that has closed the connection is answered with a reset.
Execute ==
    /\ pc = "receive"
    /\ "client" \in ready /\ left[fd1] # "reset"
    /\ Received # <<>> /\ IsNewline(Received[Len(Received)])
    /\ LET s == buffer \o Received
       IN /\ executed' = executed \cup {s}
          /\ buffer' = <<>>
          /\ running' = (running /\ ~IsExit(s))
          /\ phase' = [phase EXCEPT ![fd1] = IF IsExit(s) THEN "closed" ELSE @]
    /\ replies' = [replies EXCEPT ![fd1] = @ + 1]
    /\ rx' = [rx EXCEPT ![fd1] = SubSeq(@, Len(Received) + 1, Len(@))]
    /\ left' = [left EXCEPT ![fd1] = IF @ = "closed" THEN "reset" ELSE @]
    /\ pc' = "check"
    /\ UNCHANGED <<ready, fd1, nfds, pos, taskVars, habit>>

\* slip: the closed client stays among the polled
NfdsAfterCloseKept == nfds

NfdsAfterClose == 1

\* recv() gets nothing: the client has gone, or the buffer is full.  What the
\* buffer holds stays there.
CloseClient ==
    /\ pc = "receive"
    /\ "client" \in ready
    /\ Received = <<>> \/ left[fd1] = "reset"
    /\ phase' = [phase EXCEPT ![fd1] = "closed"]
    /\ fd1' = NoClient
    /\ nfds' = NfdsAfterClose
    /\ pc' = "check"
    /\ UNCHANGED <<running, ready, buffer, rx, left, pos, replies, executed, taskVars, habit>>

\* Anything but POLLIN ends the program.
ReceiveError ==
    /\ pc = "receive"
    /\ "error" \in ready
    /\ running' = FALSE
    /\ pc' = "check"
    /\ UNCHANGED <<ready, fd1, nfds, buffer, connVars, taskVars, habit>>

ReceiveNone ==
    /\ pc = "receive"
    /\ ready \cap {"client", "error"} = {}
    /\ pc' = "check"
    /\ UNCHANGED <<running, ready, fd1, nfds, buffer, connVars, taskVars, habit>>

(***************************************************************************)
(* The end: user_cycle_task_stop(), nser_deactivate_all_masters(), free(). *)
(***************************************************************************)
StopTask ==
    /\ pc = "stop"
    /\ nsRunning' = FALSE
    /\ pc' = "join"
    /\ UNCHANGED <<running, ready, fd1, nfds, buffer, connVars, thread, held, habit>>

\* slip: the thread is not waited for
JoinedAtOnce == TRUE

Joined == thread = "ended"

Join ==
    /\ pc = "join"
    /\ Joined
    /\ pc' = "deactivate"
    /\ UNCHANGED <<running, ready, fd1, nfds, buffer, connVars, taskVars, habit>>

Deactivate ==
    /\ pc = "deactivate"
    /\ held' = held \ {"masters"}
    /\ pc' = "free"
    /\ UNCHANGED <<running, ready, fd1, nfds, buffer, connVars, thread, nsRunning, habit>>

Free ==
    /\ pc = "free"
    /\ held' = held \ {"arrays"}
    /\ pc' = "ended"
    /\ UNCHANGED <<running, ready, fd1, nfds, buffer, connVars, thread, nsRunning, habit>>

Loop ==
    \/ Check \/ Poll \/ (\E c \in Clients : Accept(c)) \/ AcceptNone
    \/ ReceivePart \/ Execute \/ CloseClient \/ ReceiveError \/ ReceiveNone

End == StopTask \/ Join \/ Deactivate \/ Free

\* The handler of SIGTERM and SIGINT.  It runs in either thread: it interrupts
\* the poll() of main(), if that has begun, or the sleep of the cyclic thread,
\* where clock_nanosleep() then fails and ends the thread.
Signal ==
    /\ pc # "ended"
    /\ running
    /\ running' = FALSE
    /\ \/ /\ pc' \in IF pc = "poll" THEN {"poll", "check"} ELSE {pc}
          /\ UNCHANGED thread
       \/ /\ thread' = "ended"
          /\ UNCHANGED pc
    /\ UNCHANGED <<ready, fd1, nfds, buffer, connVars, nsRunning, held, habit>>

\* main_task() returns ns_data->running.
ThreadEnds ==
    /\ thread = "running"
    /\ ~nsRunning
    /\ thread' = "ended"
    /\ UNCHANGED <<loopVars, connVars, nsRunning, held, habit>>

Ended ==
    /\ pc = "ended"
    /\ UNCHANGED vars

Next ==
    \/ \E c \in Clients : Client(c)
    \/ Loop \/ End
    \/ Signal \/ ThreadEnds \/ Ended

Spec == Init /\ [][Next]_vars

\* The kernel runs both threads; poll() has a timeout; nothing is asked of the
\* clients.
FairSpec ==
    /\ Spec
    /\ WF_vars(Loop)
    /\ WF_vars(End)
    /\ WF_vars(ThreadEnds)

-----------------------------------------------------------------------------
(***************************************************************************)
(* Properties.                                                             *)
(***************************************************************************)
PCs == {"check", "poll", "accept", "receive", "stop", "join", "deactivate",
        "free", "ended"}

Bytes == {b \in Clients \X Nat \X Nat :
             b[2] \in DOMAIN Script[b[1]] /\ b[3] \in 1 .. Script[b[1]][b[2]].length}

\* The state has its type, and neither the buffer nor a command in it is longer
\* than the array.
TypeOK ==
    /\ running \in BOOLEAN
    /\ pc \in PCs
    /\ ready \subseteq {"listen", "client", "error"}
    /\ fd1 \in Clients \cup {NoClient}
    /\ nfds \in {1, 2}
    /\ buffer \in Seq(Bytes) /\ Len(buffer) <= Size
    /\ phase \in [Clients -> {"new", "backlog", "accepted", "closed"}]
    /\ rx \in [Clients -> Seq(Bytes)]
    /\ left \in [Clients -> {"no", "closed", "reset"}]
    /\ pos \in [Clients -> Nat \X Nat]
    /\ replies \in [Clients -> Nat]
    /\ \A s \in executed : s \in Seq(Bytes) /\ Len(s) <= Size
    /\ thread \in {"running", "ended"}
    /\ nsRunning \in BOOLEAN
    /\ held \subseteq {"masters", "arrays"}
    /\ habit \in Habits

\* Whatever recv() makes of the byte stream, a command that is executed is one
\* line as one client sent it.  Not so when a client leaves in the middle of a
\* line, which the next one then completes, or sends a line before the reply to
\* the last, which may then be part of one string with it.
CommandsAreLines ==
    habit \cap {"leaves", "pipelines"} = {} => executed \subseteq Lines

\* A socket that is polled is an open one, of the client in fds[1].
PolledIsOpen ==
    running /\ nfds = 2 => fd1 # NoClient /\ phase[fd1] = "accepted"

\* The cyclic thread works on active masters and on arrays that are allocated:
\* main() takes them away only behind user_cycle_task_stop().
CyclicUsesLive == thread = "running" => held = {"masters", "arrays"}

\* A line that has arrived is answered, if its client is the one in fds[1], or if
\* every client waits until the server has closed the connection of the last.
ClientAnswered ==
    \A c \in Clients : \A n \in DOMAIN Script[c] :
        (/\ n < pos[c][1]
         /\ habit \cap {"leaves", "pipelines"} = {}
         /\ fd1 = c \/ habit = {})
            ~> (replies[c] >= n \/ ~running \/ left[c] # "no")

\* The same if it only waits until the last client has closed it, as nservo_client
\* run twice does.  readme.md:370 to 427 runs it again and again, each time with
\* the answer.
FollowerAnswered ==
    \A c \in Clients : \A n \in DOMAIN Script[c] :
        n < pos[c][1] ~> (replies[c] >= n \/ ~running \/ left[c] # "no")

\* After a signal, exit or an error the program ends, with its masters inactive,
\* although nothing may ever become ready again.
StopsCleanly == ~running ~> (pc = "ended" /\ held = {} /\ thread = "ended")
=============================================================================
