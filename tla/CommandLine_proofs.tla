------------------------- MODULE CommandLine_proofs -------------------------
(***************************************************************************)
(* The properties of the line editor for a ring of any size, lines of any  *)
(* length and any characters.  RingInv is inductive: the lines entered     *)
(* last are in slots of their own (Apart), which no key writes but an      *)
(* insertion, and that one only the oldest of them.                        *)
(***************************************************************************)
EXTENDS CommandLine, SequenceTheorems, TLAPS

\* A product with a positive factor is at least that factor, or not positive.
LEMMA Multiples ==
    ASSUME NEW k \in Int
    PROVE  (k >= 1 => Slots * k >= Slots) /\ (k <= 0 => Slots * k <= 0)
BY SlotsAssumption

\* What division leaves.
LEMMA Remainder ==
    ASSUME NEW a \in Nat
    PROVE  a % Slots \in 0..(Slots - 1) /\ a \div Slots \in Nat /\ a = Slots * (a \div Slots) + (a % Slots)
<1>1. a % Slots \in 0..(Slots - 1) BY SlotsAssumption
<1>2. a \div Slots \in Int BY SlotsAssumption
<1>3. a = Slots * (a \div Slots) + (a % Slots) BY SlotsAssumption
<1>4. a \div Slots >= 0 BY <1>1, <1>2, <1>3, SlotsAssumption, SMTT(30)
<1>5. QED BY <1>1, <1>2, <1>3, <1>4

\* Multiplication distributes over a difference.
LEMMA Factor ==
    ASSUME NEW x \in Int, NEW y \in Int
    PROVE  Slots * (x - y) = (Slots * x) - (Slots * y)
BY SlotsAssumption

\* Numbers less than Slots apart are in different slots.
LEMMA Apart ==
    ASSUME NEW a \in Nat, NEW b \in Nat, a < b, b < a + Slots
    PROVE  a % Slots # b % Slots
<1> SUFFICES ASSUME a % Slots = b % Slots PROVE FALSE OBVIOUS
<1>1. PICK x \in Nat, y \in Nat, r \in Nat : a = (Slots * x) + r /\ b = (Slots * y) + r
  BY Remainder, SlotsAssumption
<1>2. y - x \in Int BY <1>1
<1>3. b - a = Slots * (y - x)
  <2>1. Slots * (y - x) = (Slots * y) - (Slots * x) BY Factor
  <2>2. Slots * x \in Int /\ Slots * y \in Int BY SlotsAssumption
  <2>3. QED BY <1>1, <2>1, <2>2
<1>4. (y - x >= 1 => Slots * (y - x) >= Slots) /\ (y - x <= 0 => Slots * (y - x) <= 0)
  BY <1>2, Multiples
<1>5. QED BY <1>2, <1>3, <1>4, SlotsAssumption

\* The remainder is the only number below Slots that a multiple is added to.
LEMMA Same ==
    ASSUME NEW a \in Nat, NEW x \in Int, NEW r \in 0..(Slots - 1), a = (Slots * x) + r
    PROVE  a % Slots = r
<1>1. PICK y \in Int, s \in 0..(Slots - 1) : a = (Slots * y) + s /\ a % Slots = s
  BY Remainder, SlotsAssumption
<1>2. Slots * (x - y) = s - r /\ Slots * (y - x) = r - s
  <2>1. Slots * (y - x) = (Slots * y) - (Slots * x) /\ Slots * (x - y) = (Slots * x) - (Slots * y)
    BY Factor
  <2>2. Slots * x \in Int /\ Slots * y \in Int BY SlotsAssumption
  <2>3. QED BY <1>1, <2>1, <2>2, SlotsAssumption
<1>3. /\ y - x >= 1 => Slots * (y - x) >= Slots
      /\ x - y >= 1 => Slots * (x - y) >= Slots
  BY Multiples
<1>4. x = y BY <1>1, <1>2, <1>3, SlotsAssumption
<1>5. QED BY <1>1, <1>2, <1>4, SlotsAssumption

(***************************************************************************)
(* Slots.                                                                  *)
(***************************************************************************)
\* Line 0 is in slot 0.
LEMMA FirstSlot == 0 % Slots = 0
<1>1. 0 = (Slots * 0) + 0 BY SlotsAssumption
<1>2. QED BY <1>1, Same, SlotsAssumption

\* Within a round the next line is in the next slot.
LEMMA NextSlot ==
    ASSUME NEW a \in Nat, (a % Slots) + 1 < Slots
    PROVE  (a + 1) % Slots = (a % Slots) + 1
<1>1. PICK x \in Nat, r \in 0..(Slots - 1) : a = (Slots * x) + r /\ a % Slots = r
  BY Remainder
<1>2. Slots * x \in Int BY SlotsAssumption
<1>3. a + 1 = (Slots * x) + (r + 1) BY <1>1, <1>2
<1>4. r + 1 \in 0..(Slots - 1) BY <1>1, SlotsAssumption
<1>5. QED BY <1>1, <1>3, <1>4, Same

\* Once round the ring.
LEMMA Around ==
    ASSUME NEW a \in Nat
    PROVE  (a + Slots) % Slots = a % Slots
<1>1. PICK x \in Nat, r \in 0..(Slots - 1) : a = (Slots * x) + r /\ a % Slots = r
  BY Remainder
<1>2. Slots * (x + 1) = (Slots * x) + Slots
  <2>1. Slots * (x - (-1)) = (Slots * x) - (Slots * (-1)) BY Factor
  <2>2. Slots * (-1) = -Slots BY SlotsAssumption
  <2>3. Slots * x \in Int BY SlotsAssumption
  <2>4. QED BY <2>1, <2>2, <2>3, SlotsAssumption
<1>3. Slots * x \in Int BY SlotsAssumption
<1>4. a + Slots = (Slots * (x + 1)) + r BY <1>1, <1>2, <1>3, SlotsAssumption
<1>5. a + Slots \in Nat /\ x + 1 \in Int BY SlotsAssumption
<1>6. QED BY <1>1, <1>4, <1>5, Same

\* The number in this round whose slot is the first one.
LEMMA RoundBegins ==
    ASSUME NEW a \in Nat
    PROVE  a - (a % Slots) \in Nat /\ (a - (a % Slots)) % Slots = 0
<1>1. PICK x \in Nat, r \in 0..(Slots - 1) : a = (Slots * x) + r /\ a % Slots = r
  BY Remainder
<1>2. Slots * x \in Nat BY SlotsAssumption
<1>3. a - (a % Slots) = (Slots * x) + 0 BY <1>1, <1>2
<1>4. QED BY <1>2, <1>3, Same, SlotsAssumption

\* The indices are numbers and the slots they select are in the ring.
LEMMA CurrentIsSlot ==
    ASSUME TypeOK
    PROVE  /\ buff_index \in Nat /\ hist_index \in Nat
           /\ Current \in 0..(Slots - 1) /\ hist_index % Slots \in 0..(Slots - 1)
<1>1. buff_index \in Nat /\ hist_index \in Nat BY MaxLinesAssumption DEF TypeOK
<1>2. QED BY <1>1, Remainder DEF Current

(***************************************************************************)
(* Lines.                                                                  *)
(***************************************************************************)
\* Lines as the sequences of bounded length.
LEMMA LinesAreShort == Lines = {l \in Seq(Chars) : Len(l) <= MaxLen}
<1>1. ASSUME NEW l \in Lines PROVE l \in Seq(Chars) /\ Len(l) <= MaxLen
  <2>1. PICK n \in 0..MaxLen : l \in [1..n -> Chars] BY DEF Lines
  <2>2. n \in Nat BY MaxLenAssumption
  <2>3. l \in Seq(Chars) /\ Len(l) = n BY <2>1, <2>2, SeqDef, LenProperties
  <2>4. QED BY <2>1, <2>3, MaxLenAssumption
<1>2. ASSUME NEW l \in Seq(Chars), Len(l) <= MaxLen PROVE l \in Lines
  <2>1. Len(l) \in 0..MaxLen /\ l \in [1..Len(l) -> Chars]
    BY <1>2, LenProperties, MaxLenAssumption
  <2>2. QED BY <2>1 DEF Lines
<1>3. QED BY <1>1, <1>2

\* An empty slot holds a line.
LEMMA NoLine == <<>> \in Lines /\ Len(<<>>) = 0
BY LinesAreShort, MaxLenAssumption, EmptySeq

\* The length of a line.
LEMMA LineLength ==
    ASSUME NEW l \in Lines
    PROVE  l \in Seq(Chars) /\ Len(l) \in 0..MaxLen
BY LinesAreShort, LenProperties, MaxLenAssumption

\* What the keys make of a line.
LEMMA Shorter ==
    ASSUME NEW l \in Lines, NEW i \in 1..Len(l)
    PROVE  Without(l, i) \in Lines /\ Len(Without(l, i)) = Len(l) - 1
<1>1. l \in Seq(Chars) /\ Len(l) \in Nat BY LineLength, MaxLenAssumption
<1>2. SubSeq(l, 1, i - 1) \in Seq(Chars) /\ Len(SubSeq(l, 1, i - 1)) = i - 1
  BY <1>1, SubSeqProperties
<1>3. SubSeq(l, i + 1, Len(l)) \in Seq(Chars) /\ Len(SubSeq(l, i + 1, Len(l))) = Len(l) - i
  BY <1>1, SubSeqProperties
<1>4. Without(l, i) \in Seq(Chars) /\ Len(Without(l, i)) = (i - 1) + (Len(l) - i)
  <2> DEFINE s == SubSeq(l, 1, i - 1)
             t == SubSeq(l, i + 1, Len(l))
  <2>1. s \in Seq(Chars) /\ t \in Seq(Chars) /\ Len(s) = i - 1 /\ Len(t) = Len(l) - i
    BY <1>2, <1>3
  <2>2. Without(l, i) = s \o t BY DEF Without
  <2> HIDE DEF s, t
  <2>3. s \o t \in Seq(Chars) /\ Len(s \o t) = Len(s) + Len(t) BY <2>1, ConcatProperties
  <2>4. QED BY <2>1, <2>2, <2>3
<1>5. Len(Without(l, i)) = Len(l) - 1 BY <1>1, <1>4
<1>6. QED BY <1>1, <1>4, <1>5, LinesAreShort, LineLength, MaxLenAssumption

\* A character behind the last one, and one inside the line.
LEMMA LongerBehind ==
    ASSUME NEW l \in Lines, NEW c \in Chars, Len(l) < MaxLen
    PROVE  Append(l, c) \in Lines /\ Len(Append(l, c)) = Len(l) + 1
<1>1. l \in Seq(Chars) /\ Len(l) \in Nat BY LineLength, MaxLenAssumption
<1>2. Append(l, c) \in Seq(Chars) /\ Len(Append(l, c)) = Len(l) + 1 BY <1>1, AppendProperties
<1>3. QED BY <1>1, <1>2, LinesAreShort, MaxLenAssumption

LEMMA LongerInside ==
    ASSUME NEW c \in Chars, Edited \in Lines, Len(Edited) < MaxLen, col \in 0..(Len(Edited) - 1)
    PROVE  Inserted(c) \in Lines /\ Len(Inserted(c)) = Len(Edited) + 1
<1> DEFINE l == Edited
<1>1. l \in Seq(Chars) /\ Len(l) \in Nat BY LineLength, MaxLenAssumption
<1> HIDE DEF l
<1>2. SubSeq(l, 1, col) \in Seq(Chars) /\ Len(SubSeq(l, 1, col)) = col
  BY <1>1, SubSeqProperties DEF l
<1>3. SubSeq(l, col + 1, Len(l)) \in Seq(Chars) /\ Len(SubSeq(l, col + 1, Len(l))) = Len(l) - col
  BY <1>1, SubSeqProperties DEF l
<1>4. <<c>> \in Seq(Chars) /\ Len(<<c>>) = 1 OBVIOUS
<1>5. /\ SubSeq(l, 1, col) \o <<c>> \in Seq(Chars)
      /\ Len(SubSeq(l, 1, col) \o <<c>>) = col + 1
  BY <1>2, <1>4, ConcatProperties
<1>6. /\ Inserted(c) \in Seq(Chars)
      /\ Len(Inserted(c)) = (col + 1) + (Len(l) - col)
  BY <1>3, <1>5, ConcatProperties DEF Inserted, l
<1>7. Len(Inserted(c)) = Len(l) + 1 BY <1>1, <1>6 DEF l
<1>8. QED BY <1>1, <1>6, <1>7, LinesAreShort, MaxLenAssumption DEF l

(***************************************************************************)
(* Types.                                                                  *)
(***************************************************************************)
\* The ring starts with empty slots.
LEMMA TypeInit == Init => TypeOK
<1> SUFFICES ASSUME Init PROVE TypeOK OBVIOUS
<1>1. buff \in [0..(Slots - 1) -> Lines] BY NoLine DEF Init
<1>2. Edited = <<>> BY FirstSlot, SlotsAssumption DEF Init, Edited, Line
<1>3. col \in 0..Len(Edited) BY <1>2, NoLine DEF Init
<1>4. log \in Seq(Lines \ {<<>>}) BY EmptySeq DEF Init
<1>5. {space, wiped, adjacent} \subseteq BOOLEAN /\ {shown, ran} \subseteq Lines
  BY NoLine DEF Init
<1>6. buff_index \in 0..MaxLines /\ hist_index \in 0..MaxLines BY MaxLinesAssumption DEF Init
<1>7. QED BY <1>1, <1>3, <1>4, <1>5, <1>6 DEF TypeOK

\* What the types say of the line on the screen.
LEMMA EditedType ==
    ASSUME TypeOK
    PROVE  /\ Edited \in Lines /\ Len(Edited) \in 0..MaxLen /\ Len(Edited) \in Nat
           /\ col \in Nat /\ col <= Len(Edited)
<1>1. hist_index % Slots \in 0..(Slots - 1) BY CurrentIsSlot
<1>2. Edited \in Lines BY <1>1 DEF Edited, Line, TypeOK
<1>3. Len(Edited) \in 0..MaxLen BY <1>2, LineLength
<1>4. QED BY <1>2, <1>3, MaxLenAssumption DEF TypeOK

\* A line that is put into the current slot and shown.
LEMMA EditType ==
    ASSUME TypeOK, NEW l \in Lines, NEW others,
           buff' = [buff EXCEPT ![Current] = l] \/
              (others \in 0..(Slots - 1) /\ others # Current
                 /\ buff' = [buff EXCEPT ![Current] = l, ![others] = <<>>]),
           hist_index' = buff_index
    PROVE  /\ buff' \in [0..(Slots - 1) -> Lines] /\ buff'[Current] = l
           /\ Edited' = l /\ hist_index' \in 0..MaxLines
<1>1. Current \in 0..(Slots - 1) BY CurrentIsSlot
<1>2. buff' \in [0..(Slots - 1) -> Lines] /\ buff'[Current] = l BY <1>1, NoLine DEF TypeOK
<1>3. Edited' = buff'[Current] BY DEF Edited, Line, Current
<1>4. QED BY <1>2, <1>3 DEF TypeOK

\* The next prompt, whatever the slots hold.
LEMMA PromptType ==
    ASSUME TypeOK, NEW b \in [0..(Slots - 1) -> Lines], Prompt(b),
           buff_index' \in 0..MaxLines, ran' \in Lines, log' \in Seq(Lines \ {<<>>})
    PROVE  TypeOK'
<1>1. buff_index' % Slots \in 0..(Slots - 1) BY Remainder, MaxLinesAssumption
<1>2. buff' \in [0..(Slots - 1) -> Lines] /\ buff'[buff_index' % Slots] = <<>>
  BY <1>1, NoLine DEF Prompt
<1>3. Edited' = <<>> BY <1>2 DEF Edited, Line, Prompt
<1>4. col' \in 0..Len(Edited)' BY <1>3, NoLine DEF Prompt
<1>5. {space', wiped', adjacent'} \subseteq BOOLEAN BY DEF Prompt, TypeOK
<1>6. QED BY <1>2, <1>4, <1>5, NoLine DEF Prompt, TypeOK

\* One step a key.
LEMMA TypeStep == TypeOK /\ [Next]_vars => TypeOK'
<1> SUFFICES ASSUME TypeOK, [Next]_vars PROVE TypeOK' OBVIOUS
<1>e. /\ Edited \in Lines /\ Len(Edited) \in 0..MaxLen /\ Len(Edited) \in Nat
      /\ col \in Nat /\ col <= Len(Edited)
  BY EditedType
<1>s. /\ buff_index \in Nat /\ hist_index \in Nat
      /\ Current \in 0..(Slots - 1) /\ hist_index % Slots \in 0..(Slots - 1)
  BY CurrentIsSlot
<1>b. ASSUME NEW n \in 0..MaxLines, hist_index' = n, buff' = buff,
             shown' = Line(hist_index'), col' = Len(shown')
      PROVE  /\ hist_index' \in 0..MaxLines /\ buff' \in [0..(Slots - 1) -> Lines]
             /\ shown' \in Lines /\ col' \in 0..Len(Edited)'
  <2>1. n % Slots \in 0..(Slots - 1) BY Remainder, MaxLinesAssumption
  <2>2. shown' \in Lines /\ Edited' = shown' BY <1>b, <2>1 DEF Line, Edited, TypeOK
  <2>3. Len(Edited)' \in Nat BY <2>2, LineLength, MaxLenAssumption
  <2>4. QED BY <1>b, <2>2, <2>3 DEF TypeOK
<1>1. CASE Up
  <2>1. hist_index - 1 \in 0..MaxLines BY <1>1, MaxLinesAssumption DEF Up, TypeOK
  <2>2. QED BY <1>1, <1>b, <2>1 DEF Up, TypeOK
<1>2. CASE Down
  <2>1. hist_index + 1 \in 0..MaxLines BY <1>2, MaxLinesAssumption DEF Down, TypeOK
  <2>2. QED BY <1>2, <1>b, <2>1 DEF Down, TypeOK
<1>3. CASE LeftOrRight
  <2>1. col' \in 0..Len(Edited) BY <1>3, <1>e DEF LeftOrRight
  <2>2. Edited' = Edited BY <1>3 DEF LeftOrRight, Edited, Line
  <2>3. QED BY <1>3, <2>1, <2>2 DEF LeftOrRight, TypeOK
<1>4. CASE Backspace
  <2> DEFINE l == IF col > 0 THEN Without(Edited, col) ELSE Edited
  <2>1. l \in Lines /\ col' \in 0..Len(l)
    <3>1. CASE col > 0
      <4>1. col \in 1..Len(Edited) BY <3>1, <1>e
      <4>2. l \in Lines /\ Len(l) = Len(Edited) - 1 BY <3>1, <4>1, <1>e, Shorter
      <4>3. QED BY <1>4, <3>1, <4>1, <4>2, <1>e DEF Backspace
    <3>2. CASE ~(col > 0) BY <1>4, <3>2, <1>e DEF Backspace
    <3>3. QED BY <3>1, <3>2
  <2>2. buff' = [buff EXCEPT ![Current] = l] /\ hist_index' = buff_index
    BY <1>4 DEF Backspace
  <2> HIDE DEF l
  <2>3. /\ buff' \in [0..(Slots - 1) -> Lines] /\ buff'[Current] = l
        /\ Edited' = l /\ hist_index' \in 0..MaxLines
    BY <2>1, <2>2, EditType
  <2>4. QED BY <1>4, <2>1, <2>3 DEF Backspace, TypeOK
<1>5. CASE LeadingBlank
  <2>1. /\ buff' \in [0..(Slots - 1) -> Lines] /\ Edited' = Edited /\ hist_index' \in 0..MaxLines
    BY <1>5, <1>e, EditType DEF LeadingBlank
  <2>2. QED BY <1>5, <2>1 DEF LeadingBlank, TypeOK
<1>6. CASE Enter
  <2> DEFINE b == [buff EXCEPT ![Current] = Edited]
  <2>1. b \in [0..(Slots - 1) -> Lines] BY <1>e, <1>s DEF TypeOK
  <2>2. buff_index' \in 0..MaxLines BY <1>6, MaxLinesAssumption DEF Enter, TypeOK
  <2>3. ran' \in Lines BY <1>6, <1>e DEF Enter
  <2>4. log' \in Seq(Lines \ {<<>>})
    <3>1. CASE ran' = <<>> BY <1>6, <3>1 DEF Enter, TypeOK
    <3>2. CASE ran' # <<>>
      <4>1. log' = Append(log, ran') /\ ran' \in Lines \ {<<>>} BY <1>6, <2>3, <3>2 DEF Enter
      <4>2. log \in Seq(Lines \ {<<>>}) BY DEF TypeOK
      <4>3. QED BY <4>1, <4>2, AppendProperties
    <3>3. QED BY <3>1, <3>2
  <2>5. Prompt(b) BY <1>6 DEF Enter
  <2> HIDE DEF b
  <2>6. QED BY <2>1, <2>2, <2>3, <2>4, <2>5, PromptType
<1>7. ASSUME NEW c \in Chars, Append1(c) PROVE TypeOK'
  <2>1. Append(Edited, c) \in Lines /\ Len(Append(Edited, c)) = Len(Edited) + 1
    BY <1>7, <1>e, LongerBehind DEF Append1
  <2>2. buff' = [buff EXCEPT ![Current] = Append(Edited, c)] /\ hist_index' = buff_index
    BY <1>7 DEF Append1
  <2>3. /\ buff' \in [0..(Slots - 1) -> Lines] /\ buff'[Current] = Append(Edited, c)
        /\ Edited' = Append(Edited, c) /\ hist_index' \in 0..MaxLines
    BY <2>1, <2>2, EditType
  <2>4. col' \in 0..Len(Edited)' BY <1>7, <2>1, <2>3, <1>e DEF Append1
  <2>5. QED BY <1>7, <2>1, <2>3, <2>4 DEF Append1, TypeOK
<1>8. ASSUME NEW c \in Chars, Insert(c) PROVE TypeOK'
  <2>1. Inserted(c) \in Lines /\ Len(Inserted(c)) = Len(Edited) + 1
    BY <1>8, <1>e, LongerInside DEF Insert
  <2>2. /\ buff' = [buff EXCEPT ![Current] = Inserted(c), ![Current + 1] = <<>>]
        /\ hist_index' = buff_index
        /\ Current + 1 \in 0..(Slots - 1) /\ Current + 1 # Current
    BY <1>8, <1>s, SlotsAssumption DEF Insert
  <2>3. /\ buff' \in [0..(Slots - 1) -> Lines] /\ buff'[Current] = Inserted(c)
        /\ Edited' = Inserted(c) /\ hist_index' \in 0..MaxLines
    BY <2>1, <2>2, EditType
  <2>4. col' \in 0..Len(Edited)' BY <1>8, <2>1, <2>3, <1>e DEF Insert
  <2>5. QED BY <1>8, <2>1, <2>3, <2>4 DEF Insert, TypeOK
<1>9. ASSUME NEW c \in Chars, InsertInLast(c) PROVE TypeOK'
  <2>1. Inserted(c) \in Lines /\ Len(Inserted(c)) = Len(Edited) + 1
    BY <1>9, <1>e, LongerInside DEF InsertInLast
  <2>2. buff' = [buff EXCEPT ![Current] = Inserted(c)] /\ hist_index' = buff_index
    BY <1>9 DEF InsertInLast
  <2>3. /\ buff' \in [0..(Slots - 1) -> Lines] /\ buff'[Current] = Inserted(c)
        /\ Edited' = Inserted(c) /\ hist_index' \in 0..MaxLines
    BY <2>1, <2>2, EditType
  <2>4. col' \in 0..Len(Edited)' BY <1>9, <2>1, <2>3, <1>e DEF InsertInLast
  <2>5. buff_index' \in 0..MaxLines /\ log' \in Seq(Lines \ {<<>>})
    <3>1. CASE adjacent
      <4>1. buff_index' = 0 /\ log' = <<>> BY <1>9, <3>1 DEF InsertInLast
      <4>2. <<>> \in Seq(Lines \ {<<>>}) BY EmptySeq
      <4>3. QED BY <4>1, <4>2, MaxLinesAssumption
    <3>2. CASE ~adjacent
      <4>1. buff_index' = buff_index /\ log' = log BY <1>9, <3>2 DEF InsertInLast
      <4>2. QED BY <4>1 DEF TypeOK
    <3>3. QED BY <3>1, <3>2
  <2>6. shown' \in Lines
    <3>1. buff_index' % Slots \in 0..(Slots - 1) BY <2>5, Remainder, MaxLinesAssumption
    <3>2. QED BY <1>9, <2>3, <3>1 DEF InsertInLast
  <2>7. QED BY <1>9, <2>3, <2>4, <2>5, <2>6 DEF InsertInLast, TypeOK
<1>10. ASSUME NEW c \in Chars, TooLong(c) PROVE TypeOK'
  <2> DEFINE b == [buff EXCEPT ![Current] = Edited]
  <2>1. b \in [0..(Slots - 1) -> Lines] BY <1>e, <1>s DEF TypeOK
  <2>2. Prompt(b) /\ ran' = b[0] /\ buff_index' = buff_index /\ log' = log BY <1>10 DEF TooLong
  <2> HIDE DEF b
  <2>3. ran' \in Lines BY <2>1, <2>2, SlotsAssumption
  <2>4. QED BY <2>1, <2>2, <2>3, PromptType DEF TypeOK
<1>11. CASE UNCHANGED vars BY <1>11 DEF vars, TypeOK, Edited, Line
<1>12. QED BY <1>1, <1>2, <1>3, <1>4, <1>5, <1>6, <1>7, <1>8, <1>9, <1>10, <1>11 DEF Next

\* The editor keeps its types: the indices and the cursor stay inside the ring
\* and the line (get_cmd()).
THEOREM TypeCorrect == Spec => []TypeOK
BY TypeInit, TypeStep, PTL DEF Spec

(***************************************************************************)
(* The ring.                                                               *)
(***************************************************************************)
\* The slot that was cleared is not the first one: writes from the last slot
\* leave the ring.
WipedInv == wiped => Current + 1 < Slots

\* The line on the screen is the one the next key works on, but for one case:
\* the write that reached buff_index.  In that case something was typed.
ShownInv ==
    /\ hist_index <= buff_index => shown = Edited
    /\ hist_index > buff_index => space

RingInv == TypeOK /\ WipedInv /\ HistoryKept /\ ShownInv /\ BrowsesWhatRan

\* The empty ring keeps what was run: nothing.
LEMMA RingInit == Init => RingInv
<1> SUFFICES ASSUME Init PROVE RingInv OBVIOUS
<1>1. TypeOK BY TypeInit
<1>2. WipedInv /\ BrowsesWhatRan BY DEF Init, WipedInv, BrowsesWhatRan
<1>3. HistoryKept
  <2>1. Len(log) = 0 BY EmptySeq DEF Init
  <2>2. QED BY <2>1 DEF Init, HistoryKept
<1>4. ShownInv BY FirstSlot, SlotsAssumption DEF Init, ShownInv, Edited, Line
<1>5. QED BY <1>1, <1>2, <1>3, <1>4 DEF RingInv

\* The lines entered last are not in the current slot.
LEMMA OtherSlots ==
    ASSUME TypeOK, NEW i \in 0..(buff_index - 1), i + Slots > buff_index
    PROVE  i % Slots \in 0..(Slots - 1) /\ i % Slots # Current
<1>1. buff_index \in Nat /\ i \in Nat /\ i < buff_index BY CurrentIsSlot
<1>2. buff_index < i + Slots BY <1>1, SlotsAssumption
<1>3. i % Slots # Current BY <1>1, <1>2, Apart DEF Current
<1>4. QED BY <1>1, <1>3, Remainder

\* What is written to the current slot does not disturb the history.
LEMMA EditKeepsHistory ==
    ASSUME TypeOK, HistoryKept, UNCHANGED <<buff_index, log, wiped>>,
           \A s \in 0..(Slots - 1) : s # Current => buff'[s] = buff[s]
    PROVE  HistoryKept'
<1>1. ASSUME NEW i \in 0..(buff_index - 1), i + Slots > buff_index
      PROVE  Line(i)' = log[i + 1] \/ Lost(i)
  <2>1. Line(i)' = Line(i) BY <1>1, OtherSlots DEF Line
  <2>2. QED BY <1>1, <2>1 DEF HistoryKept
<1>2. ASSUME NEW i PROVE Lost(i)' = Lost(i) BY DEF Lost
<1>3. QED BY <1>1, <1>2 DEF HistoryKept

\* An arrow key shows a line of the history.
LEMMA Browsed ==
    ASSUME TypeOK, HistoryKept, UNCHANGED <<buff, buff_index, log, wiped>>,
           hist_index' \in Nat, shown' = Line(hist_index'),
           hist_index' < buff_index => buff_index < hist_index' + Slots
    PROVE  (hist_index <= buff_index => shown = Edited)' /\ BrowsesWhatRan'
<1>1. shown' = Edited' BY DEF Edited, Line
<1>2. ASSUME hist_index' < buff_index
      PROVE  shown' = log[hist_index' + 1] \/ Lost(hist_index)'
  <2>1. hist_index' \in 0..(buff_index - 1) /\ hist_index' + Slots > buff_index
    BY <1>2, CurrentIsSlot, SlotsAssumption
  <2>2. Line(hist_index') = log[hist_index' + 1] \/ Lost(hist_index')
    BY <2>1 DEF HistoryKept
  <2>3. Lost(hist_index)' = Lost(hist_index') BY DEF Lost
  <2>4. QED BY <2>2, <2>3
<1>3. QED BY <1>1, <1>2 DEF BrowsesWhatRan

\* A key that changes the line works in the current slot from then on.
LEMMA Edits ==
    ASSUME hist_index' = buff_index', shown' = Edited', buff_index' \in Nat
    PROVE  ShownInv' /\ BrowsesWhatRan'
BY DEF ShownInv, BrowsesWhatRan

\* A new prompt shows the empty line it works on.
LEMMA PromptShows ==
    ASSUME TypeOK, NEW b \in [0..(Slots - 1) -> Lines], Prompt(b), buff_index' \in Nat
    PROVE  ShownInv' /\ BrowsesWhatRan'
<1>1. buff_index' % Slots \in 0..(Slots - 1) BY Remainder
<1>2. Edited' = <<>> BY <1>1 DEF Prompt, Edited, Line
<1>3. QED BY <1>2, Edits DEF Prompt

\* A line that was counted is kept in its slot, and the next slot is emptied.
LEMMA EnterKeepsHistory ==
    ASSUME TypeOK, HistoryKept, Enter, Edited # <<>>
    PROVE  HistoryKept'
<1> DEFINE b == [buff EXCEPT ![Current] = Edited]
<1>1. /\ buff_index \in Nat /\ Current \in 0..(Slots - 1)
      /\ buff_index' = buff_index + 1 /\ log' = Append(log, Edited)
      /\ buff' = [b EXCEPT ![buff_index' % Slots] = <<>>]
  BY CurrentIsSlot DEF Enter, Prompt
<1>2. log \in Seq(Lines \ {<<>>}) /\ Len(log) = buff_index BY DEF TypeOK, HistoryKept
<1>3. Edited \in Lines \ {<<>>} BY EditedType
<1>4. /\ Len(log') = buff_index + 1 /\ log'[buff_index + 1] = Edited
      /\ \A i \in 1..buff_index : log'[i] = log[i]
  BY <1>1, <1>2, <1>3, AppendProperties
<1>5. ASSUME NEW i \in 0..buff_index, i + Slots > buff_index + 1
      PROVE  Line(i)' = log'[i + 1]
  <2>1. i \in Nat /\ buff_index + 1 \in Nat /\ i < buff_index + 1 /\ buff_index + 1 < i + Slots
    BY <1>1, <1>5, SlotsAssumption
  <2>2. i % Slots \in 0..(Slots - 1) /\ i % Slots # buff_index' % Slots
    BY <1>1, <2>1, Remainder, Apart
  <2>3. Line(i)' = b[i % Slots] BY <1>1, <2>2 DEF Line, TypeOK
  <2>4. CASE i = buff_index BY <1>1, <1>4, <2>3, <2>4 DEF Current, TypeOK
  <2>5. CASE i # buff_index
    <3>1. i \in 0..(buff_index - 1) /\ i + Slots > buff_index
      BY <1>1, <2>1, <2>5, SlotsAssumption
    <3>2. i % Slots # Current BY <3>1, OtherSlots
    <3>3. Line(i)' = Line(i) BY <2>2, <2>3, <3>2 DEF Line, TypeOK
    <3>4. ~Lost(i) BY <1>1, <1>5, SlotsAssumption DEF Lost
    <3>5. Line(i) = log[i + 1] BY <3>1, <3>4 DEF HistoryKept
    <3>6. i + 1 \in 1..buff_index BY <1>1, <3>1
    <3>7. QED BY <1>4, <3>3, <3>5, <3>6
  <2>6. QED BY <2>4, <2>5
<1>6. QED BY <1>1, <1>4, <1>5 DEF HistoryKept

\* An insertion clears the next slot, which holds the oldest line.
LEMMA InsertKeepsHistory ==
    ASSUME TypeOK, HistoryKept, NEW c \in Chars, Insert(c)
    PROVE  HistoryKept'
<1>1. /\ buff_index \in Nat /\ Current \in 0..(Slots - 1) /\ Current + 1 \in 0..(Slots - 1)
      /\ buff_index' = buff_index /\ log' = log /\ wiped' = TRUE
      /\ buff' = [buff EXCEPT ![Current] = Inserted(c), ![Current + 1] = <<>>]
  BY CurrentIsSlot, SlotsAssumption DEF Insert
<1>2. Current + 1 = (buff_index + 1) % Slots BY <1>1, NextSlot, SlotsAssumption DEF Current, Insert
<1>3. ASSUME NEW i \in 0..(buff_index - 1), i + Slots > buff_index, ~Lost(i)'
      PROVE  Line(i)' = log[i + 1]
  <2>1. i \in Nat /\ buff_index + 1 \in Nat /\ i < buff_index + 1 /\ buff_index + 1 < i + Slots
    BY <1>1, <1>3, SlotsAssumption DEF Lost
  <2>2. i % Slots # Current + 1 BY <1>2, <2>1, Apart
  <2>3. i % Slots \in 0..(Slots - 1) /\ i % Slots # Current BY <1>3, OtherSlots
  <2>4. Line(i)' = Line(i) BY <1>1, <2>2, <2>3 DEF Line, TypeOK
  <2>5. ~Lost(i) BY <1>1, <1>3 DEF Lost
  <2>6. QED BY <1>3, <2>4, <2>5 DEF HistoryKept
<1>4. QED BY <1>1, <1>3 DEF HistoryKept

\* One step a key; each part of RingInv needs the others.
LEMMA RingStep == RingInv /\ [Next]_vars => RingInv'
<1> SUFFICES ASSUME RingInv, [Next]_vars PROVE RingInv' OBVIOUS
<1>t. TypeOK /\ WipedInv /\ HistoryKept /\ ShownInv /\ BrowsesWhatRan BY DEF RingInv
<1>u. TypeOK' BY <1>t, TypeStep
<1>s. /\ buff_index \in Nat /\ hist_index \in Nat
      /\ Current \in 0..(Slots - 1) /\ hist_index % Slots \in 0..(Slots - 1)
      /\ buff_index' \in Nat /\ hist_index' \in Nat
  BY <1>t, <1>u, CurrentIsSlot, MaxLinesAssumption DEF TypeOK
<1> SUFFICES WipedInv' /\ HistoryKept' /\ ShownInv' /\ BrowsesWhatRan'
  BY <1>u DEF RingInv
<1>w. ASSUME UNCHANGED <<buff_index, wiped>> PROVE WipedInv'
  BY <1>t, <1>w DEF WipedInv, Current
<1>1. CASE Up
  <2>1. HistoryKept' BY <1>1, <1>t, EditKeepsHistory DEF Up
  <2>2. ASSUME hist_index' < buff_index PROVE buff_index < hist_index' + Slots
    <3>1. buff_index <= hist_index' + Slots
      BY <1>1, <1>t, <1>s, <2>2, SlotsAssumption DEF Up, BrowsesWhatRan
    <3>2. buff_index # hist_index' + Slots BY <1>1, <1>s, Around DEF Up, Current
    <3>3. buff_index \in Int /\ hist_index' + Slots \in Int BY <1>s, SlotsAssumption
    <3>4. QED BY <3>1, <3>2, <3>3
  <2>3. (hist_index <= buff_index => shown = Edited)' /\ BrowsesWhatRan'
    BY <1>1, <1>t, <1>s, <2>2, Browsed DEF Up
  <2>4. (hist_index > buff_index => space)' BY <1>1, <1>t, <1>s DEF Up, ShownInv
  <2>5. QED BY <1>1, <1>w, <2>1, <2>3, <2>4 DEF Up, ShownInv
<1>2. CASE Down
  <2>1. HistoryKept' BY <1>2, <1>t, EditKeepsHistory DEF Down
  <2>2. ASSUME hist_index' < buff_index PROVE buff_index < hist_index' + Slots
    BY <1>2, <1>t, <1>s, SlotsAssumption DEF Down, BrowsesWhatRan
  <2>3. (hist_index <= buff_index => shown = Edited)' /\ BrowsesWhatRan'
    BY <1>2, <1>t, <1>s, <2>2, Browsed DEF Down
  <2>4. (hist_index > buff_index => space)' BY <1>2, <1>s DEF Down
  <2>5. QED BY <1>2, <1>w, <2>1, <2>3, <2>4 DEF Down, ShownInv
<1>3. CASE LeftOrRight
  <2>1. HistoryKept' BY <1>3, <1>t, EditKeepsHistory DEF LeftOrRight
  <2>2. Edited' = Edited BY <1>3 DEF LeftOrRight, Edited, Line
  <2>3. ShownInv' BY <1>3, <1>t, <2>2 DEF LeftOrRight, ShownInv
  <2>4. BrowsesWhatRan' BY <1>3, <1>t, <2>2 DEF LeftOrRight, BrowsesWhatRan, Lost
  <2>5. QED BY <1>3, <1>w, <2>1, <2>3, <2>4 DEF LeftOrRight
<1>4. CASE Backspace
  <2>1. HistoryKept'
    BY <1>4, <1>t, EditKeepsHistory DEF Backspace, TypeOK
  <2>2. shown' = Edited' BY <1>4 DEF Backspace, Edited, Line, Current
  <2>3. QED BY <1>4, <1>w, <1>s, <2>1, <2>2, Edits DEF Backspace
<1>5. CASE LeadingBlank
  <2>1. HistoryKept' BY <1>5, <1>t, EditKeepsHistory DEF LeadingBlank, TypeOK
  <2>2. shown = Edited BY <1>5, <1>t, <1>s DEF LeadingBlank, ShownInv
  <2>3. Edited' = Edited BY <1>5, <1>t, <1>s DEF LeadingBlank, Edited, Line, Current, TypeOK
  <2>4. QED BY <1>5, <1>w, <1>s, <2>1, <2>2, <2>3, Edits DEF LeadingBlank
<1>6. CASE Enter
  <2> DEFINE b == [buff EXCEPT ![Current] = Edited]
  <2>1. b \in [0..(Slots - 1) -> Lines] BY <1>t, <1>s, EditedType DEF TypeOK
  <2>2. Prompt(b) BY <1>6 DEF Enter
  <2>3. ShownInv' /\ BrowsesWhatRan'
    <3> HIDE DEF b
    <3>1. QED BY <1>t, <1>s, <2>1, <2>2, PromptShows
  <2>4. CASE Edited = <<>>
    <3>1. UNCHANGED <<buff_index, log, wiped>>
      <4>1. buff_index' = buff_index /\ log' = log BY <1>6, <2>4 DEF Enter
      <4>2. wiped' = wiped BY <2>2, <4>1, <1>t DEF Prompt, TypeOK
      <4>3. QED BY <4>1, <4>2
    <3>2. \A s \in 0..(Slots - 1) : s # Current => buff'[s] = buff[s]
      BY <1>t, <2>2, <3>1 DEF Prompt, Current, TypeOK
    <3>3. HistoryKept' BY <1>t, <3>1, <3>2, EditKeepsHistory
    <3>4. QED BY <1>w, <2>3, <3>1, <3>3
  <2>5. CASE Edited # <<>>
    <3>1. HistoryKept' BY <1>6, <1>t, <2>5, EnterKeepsHistory
    <3>2. wiped' = FALSE
      <4>1. buff_index' # buff_index BY <1>6, <1>s, <2>5 DEF Enter
      <4>2. QED BY <2>2, <4>1 DEF Prompt
    <3>3. WipedInv' BY <3>2 DEF WipedInv
    <3>4. QED BY <2>3, <3>1, <3>3
  <2>6. QED BY <2>4, <2>5
<1>7. ASSUME NEW c \in Chars, Append1(c)
      PROVE  WipedInv' /\ HistoryKept' /\ ShownInv' /\ BrowsesWhatRan'
  <2>1. HistoryKept' BY <1>7, <1>t, EditKeepsHistory DEF Append1, TypeOK
  <2>2. shown' = Edited' BY <1>7 DEF Append1, Edited, Line, Current
  <2>3. QED BY <1>7, <1>w, <1>s, <2>1, <2>2, Edits DEF Append1
<1>8. ASSUME NEW c \in Chars, Insert(c)
      PROVE  WipedInv' /\ HistoryKept' /\ ShownInv' /\ BrowsesWhatRan'
  <2>1. HistoryKept' BY <1>8, <1>t, InsertKeepsHistory
  <2>2. shown' = Edited' BY <1>8 DEF Insert, Edited, Line, Current
  <2>3. WipedInv' BY <1>8 DEF Insert, WipedInv, Current
  <2>4. QED BY <1>8, <1>s, <2>1, <2>2, <2>3, Edits DEF Insert
<1>9. ASSUME NEW c \in Chars, InsertInLast(c)
      PROVE  WipedInv' /\ HistoryKept' /\ ShownInv' /\ BrowsesWhatRan'
  <2>1. wiped' = FALSE
    <3>1. ~(Current + 1 < Slots) BY <1>9, <1>s, SlotsAssumption DEF InsertInLast
    <3>2. wiped = FALSE BY <1>t, <3>1 DEF WipedInv, TypeOK
    <3>3. QED BY <1>9, <3>2 DEF InsertInLast
  <2>2. WipedInv' BY <2>1 DEF WipedInv
  <2>3. CASE adjacent
    <3>1. buff_index' = 0 /\ log' = <<>> /\ hist_index' = buff_index /\ space' = TRUE
      BY <1>9, <2>3 DEF InsertInLast
    <3>2. buff_index # 0 BY <1>9, FirstSlot, SlotsAssumption DEF InsertInLast, Current
    <3>3. HistoryKept'
      <4>1. Len(log') = 0 BY <3>1, EmptySeq
      <4>2. QED BY <3>1, <4>1 DEF HistoryKept
    <3>4. hist_index' > buff_index' BY <1>s, <3>1, <3>2
    <3>5. ShownInv' BY <1>s, <3>1, <3>4 DEF ShownInv
    <3>6. BrowsesWhatRan' BY <1>s, <3>4 DEF BrowsesWhatRan
    <3>7. QED BY <2>2, <3>3, <3>5, <3>6
  <2>4. CASE ~adjacent
    <3>1. buff_index' = buff_index /\ log' = log BY <1>9, <2>4 DEF InsertInLast
    <3>2. HistoryKept' BY <1>9, <1>t, <3>1, EditKeepsHistory DEF InsertInLast, TypeOK
    <3>3. shown' = Edited' BY <1>9, <3>1 DEF InsertInLast, Edited, Line
    <3>4. QED BY <1>9, <1>s, <2>2, <3>1, <3>2, <3>3, Edits DEF InsertInLast
  <2>5. QED BY <2>3, <2>4
<1>10. ASSUME NEW c \in Chars, TooLong(c)
       PROVE  WipedInv' /\ HistoryKept' /\ ShownInv' /\ BrowsesWhatRan'
  <2> DEFINE b == [buff EXCEPT ![Current] = Edited]
  <2>1. b \in [0..(Slots - 1) -> Lines] BY <1>t, <1>s, EditedType DEF TypeOK
  <2>2. Prompt(b) /\ buff_index' = buff_index /\ log' = log BY <1>10 DEF TooLong
  <2>3. wiped' = wiped BY <1>t, <2>2 DEF Prompt, TypeOK
  <2>4. \A s \in 0..(Slots - 1) : s # Current => buff'[s] = buff[s]
    BY <1>t, <2>2 DEF Prompt, Current, TypeOK
  <2>5. HistoryKept' BY <1>t, <2>2, <2>3, <2>4, EditKeepsHistory
  <2> HIDE DEF b
  <2>6. ShownInv' /\ BrowsesWhatRan' BY <1>t, <1>s, <2>1, <2>2, PromptShows
  <2>7. QED BY <1>w, <2>2, <2>3, <2>5, <2>6
<1>11. CASE UNCHANGED vars
  BY <1>11, <1>t DEF vars, WipedInv, HistoryKept, ShownInv, BrowsesWhatRan, Current, Line, Edited, Lost
<1>12. QED BY <1>1, <1>2, <1>3, <1>4, <1>5, <1>6, <1>7, <1>8, <1>9, <1>10, <1>11 DEF Next

\* The inductive invariant of the ring (get_cmd()).
THEOREM RingInvariance == Spec => []RingInv
BY RingInit, RingStep, PTL DEF Spec

\* The ring keeps the last buff_size - 1 lines entered as they were run, and
\* an insertion costs the oldest of them at most (get_cmd()).
THEOREM RingKeepsHistory == Spec => []HistoryKept
<1>1. RingInv => HistoryKept BY DEF RingInv
<1>2. QED BY <1>1, RingInvariance, PTL

\* The arrows show the lines that were entered and never leave the ring
\* (get_cmd(), the escape sequences).
THEOREM ArrowsShowHistory == Spec => []BrowsesWhatRan
<1>1. RingInv => BrowsesWhatRan BY DEF RingInv
<1>2. QED BY <1>1, RingInvariance, PTL

\* A line that was given up leaves slot 0: the line itself or one entered.
LEMMA SlotZero ==
    ASSUME RingInv, hist_index <= buff_index, NEW c \in Chars, TooLong(c)
    PROVE  ran' = shown \/ \E i \in 1..Len(log) : ran' = log[i]
<1>t. TypeOK /\ WipedInv /\ HistoryKept /\ shown = Edited BY DEF RingInv, ShownInv
<1>s. buff_index \in Nat /\ Current \in 0..(Slots - 1) BY <1>t, CurrentIsSlot
<1>1. CASE Current = 0 BY <1>1, <1>t, <1>s DEF TooLong, TypeOK
<1>2. CASE Current # 0
  <2> DEFINE i == buff_index - Current
  <2>1. i \in Nat /\ i % Slots = 0 BY <1>s, RoundBegins DEF Current
  <2>2. i \in 0..(buff_index - 1) /\ i + Slots > buff_index
    BY <1>s, <1>2, <2>1, SlotsAssumption
  <2>3. ran' = Line(i)
    <3>1. ran' = [buff EXCEPT ![Current] = Edited][0] BY DEF TooLong
    <3>2. 0 \in 0..(Slots - 1) BY SlotsAssumption
    <3>3. [buff EXCEPT ![Current] = Edited][0] = buff[0] BY <1>2, <1>t, <3>2 DEF TypeOK
    <3>4. QED BY <2>1, <3>1, <3>3 DEF Line
  <2>4. ~Lost(i) BY <1>t, <1>s, SlotsAssumption DEF Lost, WipedInv
  <2>5. Line(i) = log[i + 1] BY <1>t, <2>2, <2>4 DEF HistoryKept
  <2>6. i + 1 \in 1..Len(log) BY <1>t, <1>s, <2>2 DEF HistoryKept
  <2>7. QED BY <2>3, <2>5, <2>6
<1>3. QED BY <1>1, <1>2

\* Enter runs the line on the screen, and a line given up as too long runs
\* only what was entered (get_cmd()).
THEOREM EnterRunsShown == Spec => RunsWhatIsShown
<1>1. ASSUME RingInv, [Next]_vars, hist_index <= buff_index
      PROVE  /\ Enter => ran' = shown
             /\ (\E c \in Chars : TooLong(c)) =>
                   ran' = shown \/ \E i \in 1..Len(log) : ran' = log[i]
  <2>1. Enter => ran' = shown BY <1>1 DEF Enter, RingInv, ShownInv
  <2>2. ASSUME NEW c \in Chars, TooLong(c)
        PROVE  ran' = shown \/ \E i \in 1..Len(log) : ran' = log[i]
    BY <1>1, <2>2, SlotZero
  <2>3. QED BY <2>1, <2>2
<1>2. QED BY <1>1, RingInvariance, PTL DEF Spec, RunsWhatIsShown
=============================================================================
