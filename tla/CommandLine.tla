---------------------------- MODULE CommandLine ----------------------------
(***************************************************************************)
(* The line editor of the console tool, get_cmd(): a ring of lines that    *)
(* holds the line being typed and the ones entered before it, browsed with *)
(* the arrow keys, and the command loop that runs what it returns.         *)
(*                                                                         *)
(* A key is one step, its escape sequence included; '[' does nothing.  A   *)
(* slot is the string it holds.  The blank that is echoed and then dropped *)
(* at the start of a line is not shown.                                    *)
(***************************************************************************)
EXTENDS Integers, Sequences

CONSTANTS
    Slots,      \* buff_size
    MaxLen,     \* buff_len - 2, the longest line
    Chars,      \* what can be typed
    Blank,      \* ' '
    MaxLines    \* bound on buff_index

ASSUME SlotsAssumption == Slots \in Nat /\ Slots > 1
ASSUME MaxLenAssumption == MaxLen \in Nat \ {0}
ASSUME BlankAssumption == Blank \in Chars
ASSUME MaxLinesAssumption == MaxLines \in 1..255

VARIABLES
    buff,           \* the slots
    buff_index,     \* number of the line being typed
    hist_index,     \* number of the line on the screen
    col,            \* cursor
    space,          \* something was typed
    shown,          \* the line as fresh_curr_line() printed it last
    ran,            \* the line that get_cmd() returned last
    log,            \* history: the lines entered and counted
    wiped,          \* history: an insertion cleared the slot behind the current
    adjacent        \* the build put buff_index right behind buff

vars == <<buff, buff_index, hist_index, col, space, shown, ran, log, wiped, adjacent>>

Lines == UNION {[1..n -> Chars] : n \in 0..MaxLen}
Current == buff_index % Slots
Line(i) == buff[i % Slots]

Init ==
    /\ buff = [s \in 0..(Slots - 1) |-> <<>>]
    /\ buff_index = 0 /\ hist_index = 0
    /\ col = 0 /\ space = FALSE
    /\ shown = <<>> /\ ran = <<>> /\ log = <<>> /\ wiped = FALSE
    /\ adjacent \in BOOLEAN

UpAnyway ==  \* slip: the end of the ring is not tested
    /\ hist_index # 0
    /\ hist_index' = hist_index - 1
    /\ shown' = Line(hist_index') /\ col' = Len(shown')
    /\ UNCHANGED <<buff, buff_index, space, ran, log, wiped, adjacent>>

\* Not beyond the first line, nor back into the slot of the current one.
Up ==
    /\ hist_index # 0 /\ Current # (hist_index - 1) % Slots
    /\ hist_index' = hist_index - 1
    /\ shown' = Line(hist_index') /\ col' = Len(shown')
    /\ UNCHANGED <<buff, buff_index, space, ran, log, wiped, adjacent>>

DownKeepsCursor ==  \* slip: the cursor stays where it was
    /\ hist_index < buff_index /\ Current # hist_index % Slots
    /\ hist_index' = hist_index + 1
    /\ shown' = Line(hist_index')
    /\ UNCHANGED <<buff, buff_index, col, space, ran, log, wiped, adjacent>>

Down ==
    /\ hist_index < buff_index /\ Current # hist_index % Slots
    /\ hist_index' = hist_index + 1
    /\ shown' = Line(hist_index') /\ col' = Len(shown')
    /\ UNCHANGED <<buff, buff_index, space, ran, log, wiped, adjacent>>

\* The line a key works on: the one on the screen, which is copied into the
\* current slot before it is changed.
Edited == Line(hist_index)

LeftOrRight ==
    /\ \/ col < Len(Edited) /\ col' = col + 1
       \/ col > 0 /\ col' = col - 1
    /\ UNCHANGED <<buff, buff_index, hist_index, space, shown, ran, log, wiped, adjacent>>

Without(line, i) == SubSeq(line, 1, i - 1) \o SubSeq(line, i + 1, Len(line))

BackspaceInPlace ==  \* slip: the browsed line is changed where it is
    /\ buff' = IF col > 0 THEN [buff EXCEPT ![hist_index % Slots] = Without(Edited, col)] ELSE buff
    /\ col' = IF col > 0 THEN col - 1 ELSE 0
    /\ shown' = buff'[hist_index % Slots]
    /\ UNCHANGED <<buff_index, hist_index, space, ran, log, wiped, adjacent>>

Backspace ==
    /\ buff' = [buff EXCEPT ![Current] = IF col > 0 THEN Without(Edited, col) ELSE Edited]
    /\ hist_index' = buff_index
    /\ col' = IF col > 0 THEN col - 1 ELSE 0
    /\ shown' = buff'[Current]
    /\ UNCHANGED <<buff_index, space, ran, log, wiped, adjacent>>

\* The first blank is dropped; the browsed line has become the current one.
LeadingBlank ==
    /\ ~space
    /\ buff' = [buff EXCEPT ![Current] = Edited]
    /\ hist_index' = buff_index
    /\ UNCHANGED <<buff_index, col, space, shown, ran, log, wiped, adjacent>>

Typed(c) == c # Blank \/ space

Append1(c) ==
    /\ Typed(c) /\ Len(Edited) < MaxLen /\ col = Len(Edited)
    /\ buff' = [buff EXCEPT ![Current] = Append(Edited, c)]
    /\ hist_index' = buff_index
    /\ col' = col + 1 /\ space' = TRUE
    /\ shown' = buff'[Current]
    /\ UNCHANGED <<buff_index, ran, log, wiped, adjacent>>

Inserted(c) == SubSeq(Edited, 1, col) \o <<c>> \o SubSeq(Edited, col + 1, Len(Edited))

\* strncpy() fills up with zeros to buff_len from the cursor on, so that the
\* slot behind the current one begins with as many zeros as the cursor has
\* passed characters.
Insert(c) ==
    /\ Typed(c) /\ Len(Edited) < MaxLen /\ col < Len(Edited)
    /\ Current + 1 < Slots
    /\ buff' = [buff EXCEPT ![Current] = Inserted(c), ![Current + 1] = <<>>]
    /\ hist_index' = buff_index
    /\ col' = col + 1 /\ space' = TRUE /\ wiped' = TRUE
    /\ shown' = buff'[Current]
    /\ UNCHANGED <<buff_index, ran, log, adjacent>>

\* From the last slot the zeros go beyond the array: to what nobody reads, or
\* into buff_index, which forgets the history.  (Behind the fourth character
\* they would reach hist_index too, which is left out.)
InsertInLast(c) ==
    /\ Typed(c) /\ Len(Edited) < MaxLen /\ col < Len(Edited)
    /\ Current + 1 = Slots /\ (adjacent => col < 4)
    /\ buff' = [buff EXCEPT ![Current] = Inserted(c)]
    /\ hist_index' = buff_index
    /\ col' = col + 1 /\ space' = TRUE
    /\ IF adjacent THEN buff_index' = 0 /\ log' = <<>> ELSE UNCHANGED <<buff_index, log>>
    /\ shown' = buff'[buff_index' % Slots]
    /\ UNCHANGED <<ran, wiped, adjacent>>

\* The next call of get_cmd().
Prompt(b) ==
    /\ buff' = [b EXCEPT ![buff_index' % Slots] = <<>>]
    /\ hist_index' = buff_index'
    /\ col' = 0 /\ space' = FALSE /\ shown' = <<>>
    /\ wiped' = (wiped /\ buff_index' = buff_index)
    /\ UNCHANGED adjacent

EnterTyped ==  \* slip: the browsed line is not copied
    /\ buff_index < MaxLines
    /\ ran' = Line(buff_index)
    /\ IF ran' = <<>> THEN UNCHANGED <<buff_index, log>>
       ELSE buff_index' = buff_index + 1 /\ log' = Append(log, ran')
    /\ Prompt(buff)

\* An empty line is not counted.
Enter ==
    /\ buff_index < MaxLines
    /\ ran' = Edited
    /\ IF ran' = <<>> THEN UNCHANGED <<buff_index, log>>
       ELSE buff_index' = buff_index + 1 /\ log' = Append(log, ran')
    /\ Prompt([buff EXCEPT ![Current] = Edited])

\* The line is given up, and what is returned is slot 0.
TooLong(c) ==
    /\ Typed(c) /\ Len(Edited) = MaxLen
    /\ UNCHANGED <<buff_index, log>>
    /\ LET b == [buff EXCEPT ![Current] = Edited] IN ran' = b[0] /\ Prompt(b)

Next ==
    \/ Up \/ Down \/ LeftOrRight \/ Backspace \/ LeadingBlank \/ Enter
    \/ \E c \in Chars : Append1(c) \/ Insert(c) \/ InsertInLast(c) \/ TooLong(c)

Spec == Init /\ [][Next]_vars

(***************************************************************************)
(* Properties.                                                             *)
(***************************************************************************)
TypeOK ==
    /\ buff \in [0..(Slots - 1) -> Lines]
    /\ buff_index \in 0..MaxLines /\ hist_index \in 0..MaxLines
    /\ col \in 0..Len(Edited) /\ {space, wiped, adjacent} \subseteq BOOLEAN
    /\ {shown, ran} \subseteq Lines /\ log \in Seq(Lines \ {<<>>})

\* Line i is the oldest in the ring, and an insertion has cleared its slot.
Lost(i) == wiped /\ i + Slots = buff_index + 1

\* The ring keeps the last buff_size - 1 lines entered as they were run,
\* whatever is browsed, edited or given up; inserting into a line costs the
\* oldest of them at most.
HistoryKept ==
    /\ buff_index = Len(log)
    /\ \A i \in 0..(buff_index - 1) :
          i + Slots > buff_index => Line(i) = log[i + 1] \/ Lost(i)

\* A line browsed to is the one entered with that number; the arrows never
\* leave the ring.  (An insertion that reached buff_index leaves hist_index
\* beyond it.)
BrowsesWhatRan ==
    hist_index < buff_index =>
        /\ buff_index < hist_index + Slots
        /\ shown = Edited
        /\ shown = log[hist_index + 1] \/ Lost(hist_index)

\* Enter runs the line that is on the screen, typed, browsed or changed, and
\* a line given up as too long runs only what was entered before, or itself.
RunsWhatIsShown ==
    [][hist_index <= buff_index =>
          /\ Enter => ran' = shown
          /\ (\E c \in Chars : TooLong(c)) =>
                ran' = shown \/ \E i \in 1..Len(log) : ran' = log[i]]_vars
=============================================================================
