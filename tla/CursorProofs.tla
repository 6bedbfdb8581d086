---------------------------- MODULE CursorProofs ----------------------------
(***************************************************************************)
(* Proofs about Cursor, for a screen of any size, any number of terminals  *)
(* and lines of any length, when BACKSPACE is pressed within a row.        *)
(***************************************************************************)
EXTENDS Cursor, SequenceTheorems, TLAPS

Inside == [x : 0 .. Cols - 1, y : 0 .. Rows - 1]

(* The cursor of a terminal, wherever it is kept. *)
CursorOf(t) == IF t = display THEN screen ELSE saved[t]

Types ==
    /\ screen \in Inside /\ saved \in [Terminal -> Inside]
    /\ enter_or_overflow \in {0, 1}
    /\ display \in Terminal /\ terminal_now \in Terminal
    /\ kb_buf_idx \in [Terminal -> Nat] /\ cells \in [Terminal -> Seq(Int)]
    /\ \A t \in Terminal : Len(cells[t]) <= kb_buf_idx[t]
    /\ cell \in 0 .. Rows * Cols - 1

(* The cursor of a terminal stands behind the last letter of its line, and  *)
(* so behind all the letters that were typed since something was printed.   *)
Ordered(s) == \A i \in 1 .. Len(s) - 1 : s[i + 1] = s[i] + 1
EndsAt(s, c) == Len(s) > 0 => s[Len(s)] + 1 = CellOf(c)
Typed(t) == Ordered(cells[t]) /\ EndsAt(cells[t], CursorOf(t))

CursorInv == Types /\ \A t \in Terminal : Typed(t)

-----------------------------------------------------------------------------
(* Facts about one position. *)
LEMMA Sizes ==
    /\ NumTerm \in Nat /\ NumTerm > 0 /\ Cols \in Nat /\ Cols > 2 /\ Rows \in Nat /\ Rows > 0
    /\ 0 \in Terminal /\ Origin \in Inside /\ CellOf(Origin) = 0
  BY CursorAssumption DEF Terminal, Origin, Inside, CellOf

LEMMA CellRange ==
    ASSUME NEW c \in Inside
    PROVE  CellOf(c) \in 0 .. Rows * Cols - 1
  <1>1. Cols \in Nat /\ Rows \in Nat /\ c.x \in 0 .. Cols - 1 /\ c.y \in 0 .. Rows - 1
    BY Sizes DEF Inside
  <1>2. Cols * c.y \in Nat
    BY <1>1
  <1>3. Cols * c.y <= Cols * (Rows - 1)
    <2> DEFINE d == Rows - 1 - c.y
    <2>1. d \in Nat /\ Rows - 1 = c.y + d
      BY <1>1
    <2> HIDE DEF d
    <2>2. Cols * (c.y + d) = Cols * c.y + Cols * d /\ Cols * d \in Nat
      BY <1>1, <2>1
    <2> QED BY <1>1, <1>2, <2>1, <2>2
  <1>4. Cols * (Rows - 1) = Rows * Cols - Cols
    BY <1>1
  <1>5. Rows * Cols \in Nat
    BY <1>1
  <1> QED BY <1>1, <1>2, <1>3, <1>4, <1>5 DEF CellOf

(* What the letters move up by when one is printed at c. *)
Moved(c) == IF Overflows(c) /\ Scrolled(c) THEN Cols ELSE 0

LEMMA NewLineInside ==
    ASSUME NEW c \in Inside
    PROVE  NewLine(c) \in Inside
  BY Sizes DEF NewLine, Inside, ScrollsAt

LEMMA AfterLetterCell ==
    ASSUME NEW c \in Inside
    PROVE  /\ AfterLetter(c) \in Inside
           /\ CellOf(AfterLetter(c)) = CellOf(c) + 1 - Moved(c)
  <1>1. Cols \in Nat /\ Cols > 2 /\ Rows \in Nat /\ c.x \in 0 .. Cols - 1 /\ c.y \in 0 .. Rows - 1
    BY Sizes DEF Inside
  <1>2. CASE ~Overflows(c)
    <2>1. AfterLetter(c) = [x |-> c.x + 1, y |-> c.y] /\ c.x + 1 <= Cols - 1
      BY <1>1, <1>2 DEF AfterLetter, Overflows, Inside
    <2> QED BY <1>1, <1>2, <2>1 DEF CellOf, Moved, Inside
  <1>3. CASE Overflows(c)
    <2>1. c.x + 1 = Cols /\ AfterLetter(c) = NewLine(c)
      BY <1>1, <1>3 DEF AfterLetter, Overflows
    <2>2. Cols * (c.y + 1) = Cols * c.y + Cols /\ Cols * c.y \in Int
      BY <1>1
    <2>3. CASE Scrolled(c)
      <3>1. NewLine(c) = [x |-> 0, y |-> c.y]
        BY <1>1, <2>3 DEF Scrolled, NewLine, ScrollsAt
      <3> QED BY <1>1, <1>3, <2>1, <2>2, <2>3, <3>1, NewLineInside DEF CellOf, Moved
    <2>4. CASE ~Scrolled(c)
      <3>1. NewLine(c) = [x |-> 0, y |-> c.y + 1]
        BY <1>1, <2>4 DEF Scrolled, NewLine, ScrollsAt
      <3> QED BY <1>1, <1>3, <2>1, <2>2, <2>4, <3>1, NewLineInside DEF CellOf, Moved
    <2> QED BY <2>3, <2>4
  <1> QED BY <1>2, <1>3

LEMMA LettersMove ==
    ASSUME NEW s \in Seq(Int), NEW c \in Inside
    PROVE  /\ MovedUp(s, c) \in Seq(Int)
           /\ Len(MovedUp(s, c)) = Len(s)
           /\ \A i \in 1 .. Len(s) : MovedUp(s, c)[i] = s[i] - Moved(c)
  <1>1. \A i \in 1 .. Len(s) : s[i] \in Int
    BY ElementOfSeq
  <1>2. CASE LetterScrolls(c)
    <2> DEFINE r == [i \in 1 .. Len(s) |-> s[i] - Cols]
    <2>1. MovedUp(s, c) = r /\ Moved(c) = Cols
      BY <1>2 DEF MovedUp, Moved, LetterScrolls
    <2>2. r \in Seq(Int) /\ Len(r) = Len(s) /\ \A i \in 1 .. Len(s) : r[i] = s[i] - Cols
      BY <1>1, Sizes
    <2> QED BY <2>1, <2>2
  <1>3. CASE ~LetterScrolls(c)
    <2>1. MovedUp(s, c) = s /\ Moved(c) = 0
      BY <1>3 DEF MovedUp, Moved, LetterScrolls
    <2> QED BY <1>1, <2>1
  <1> QED BY <1>2, <1>3

-----------------------------------------------------------------------------
LEMMA CursorInit == Init => CursorInv
  <1> SUFFICES ASSUME Init PROVE CursorInv
    OBVIOUS
  <1>1. <<>> \in Seq(Int) /\ Len(<<>>) = 0
    OBVIOUS
  <1>2. 0 \in 0 .. Rows * Cols - 1
    BY Sizes, CellRange
  <1>3. Types
    BY <1>1, <1>2, Sizes DEF Init, Types
  <1>4. \A t \in Terminal : cells[t] = <<>>
    BY DEF Init
  <1>5. \A t \in Terminal : Typed(t)
    BY <1>1, <1>4 DEF Typed, Ordered, EndsAt
  <1> QED BY <1>3, <1>5 DEF CursorInv

(* A letter typed at c goes on the line that ended there. *)
LEMMA LetterTyped ==
    ASSUME NEW s \in Seq(Int), NEW c \in Inside, Ordered(s), EndsAt(s, c)
    PROVE  LET r == MovedUp(Append(s, CellOf(c)), c)
           IN  r \in Seq(Int) /\ Len(r) = Len(s) + 1 /\ Ordered(r) /\ EndsAt(r, AfterLetter(c))
  <1> DEFINE a == Append(s, CellOf(c))
             r == MovedUp(a, c)
  <1>1. CellOf(c) \in Int /\ Moved(c) \in Int
    BY CellRange, Sizes DEF Moved
  <1>2. /\ a \in Seq(Int) /\ Len(a) = Len(s) + 1
        /\ \A i \in 1 .. Len(s) : a[i] = s[i]
        /\ a[Len(s) + 1] = CellOf(c)
    BY <1>1, AppendProperties
  <1>3. \A i \in 1 .. Len(a) : a[i] \in Int
    BY <1>2, ElementOfSeq
  <1> HIDE DEF a
  <1>4. r \in Seq(Int) /\ Len(r) = Len(a) /\ \A i \in 1 .. Len(a) : r[i] = a[i] - Moved(c)
    BY <1>2, LettersMove
  <1> HIDE DEF r
  <1>5. Len(s) \in Nat
    OBVIOUS
  <1>6. ASSUME NEW i \in 1 .. Len(a) - 1 PROVE a[i + 1] = a[i] + 1
    <2>1. CASE i = Len(s)
      BY <1>2, <1>5, <2>1 DEF EndsAt
    <2>2. CASE i # Len(s)
      <3>1. i \in 1 .. Len(s) - 1 /\ i \in 1 .. Len(s) /\ i + 1 \in 1 .. Len(s)
        BY <1>2, <1>5, <2>2
      <3> QED BY <1>2, <3>1 DEF Ordered
    <2> QED BY <2>1, <2>2
  <1>7. Ordered(r)
    <2>1. ASSUME NEW i \in 1 .. Len(r) - 1 PROVE r[i + 1] = r[i] + 1
      <3>1. i \in 1 .. Len(a) - 1 /\ i \in 1 .. Len(a) /\ i + 1 \in 1 .. Len(a)
        BY <1>2, <1>4, <1>5
      <3> QED BY <1>1, <1>3, <1>4, <1>6, <3>1
    <2> QED BY <2>1 DEF Ordered
  <1>8. EndsAt(r, AfterLetter(c))
    <2>1. r[Len(r)] = CellOf(c) - Moved(c)
      BY <1>2, <1>4, <1>5
    <2> QED BY <1>1, <2>1, AfterLetterCell DEF EndsAt
  <1> QED BY <1>2, <1>4, <1>7, <1>8 DEF r, a

LEMMA ErasesBefore ==
    ASSUME NEW c \in Inside, c.x > 0
    PROVE  Erases(c) \in Inside /\ CellOf(Erases(c)) = CellOf(c) - 1
  <1>1. c.x \in 0 .. Cols - 1 /\ c.y \in 0 .. Rows - 1 /\ Cols \in Nat /\ Rows \in Nat
    BY Sizes DEF Inside
  <1>2. Erases(c) = [x |-> c.x - 1, y |-> c.y]
    BY <1>1 DEF Erases, Inside
  <1> QED BY <1>1, <1>2 DEF Inside, CellOf

(* BACKSPACE within a row takes the last letter and its cell. *)
LEMMA LetterErased ==
    ASSUME NEW s \in Seq(Int), s # <<>>, NEW c \in Inside, Ordered(s), EndsAt(s, c), c.x > 0
    PROVE  LET r == SubSeq(s, 1, Len(s) - 1)
           IN  /\ r \in Seq(Int) /\ Len(r) = Len(s) - 1 /\ Ordered(r) /\ EndsAt(r, Erases(c))
               /\ Erases(c) \in Inside /\ CellOf(Erases(c)) = s[Len(s)]
  <1> DEFINE n == Len(s) - 1
             r == SubSeq(s, 1, n)
  <1>1. Len(s) \in Nat \ {0} /\ n \in Nat /\ n <= Len(s)
    BY EmptySeq
  <1>2. \A i \in 1 .. Len(s) : s[i] \in Int
    BY ElementOfSeq
  <1> HIDE DEF n
  <1>3. r \in Seq(Int) /\ Len(r) = n /\ \A i \in 1 .. n : r[i] = s[i]
    <2>1. 1 \in Int /\ n \in Int /\ \A i \in 1 .. n : s[i] \in Int
      BY <1>1, <1>2
    <2>2. /\ r \in Seq(Int) /\ Len(r) = IF 1 <= n THEN n - 1 + 1 ELSE 0
          /\ \A i \in 1 .. n - 1 + 1 : r[i] = s[1 + i - 1]
      BY <2>1, SubSeqProperties
    <2>3. n - 1 + 1 = n /\ \A i \in 1 .. n : 1 + i - 1 = i
      BY <1>1
    <2> QED BY <1>1, <2>2, <2>3
  <1> HIDE DEF r
  <1>4. CellOf(c) \in Int
    BY CellRange
  <1>5. Erases(c) \in Inside /\ CellOf(Erases(c)) = CellOf(c) - 1
    BY ErasesBefore
  <1>6. s[Len(s)] + 1 = CellOf(c) /\ s[Len(s)] \in Int
    BY <1>1, <1>2 DEF EndsAt
  <1>7. CellOf(Erases(c)) = s[Len(s)]
    BY <1>4, <1>5, <1>6
  <1>8. Ordered(r)
    <2>1. ASSUME NEW i \in 1 .. Len(r) - 1 PROVE r[i + 1] = r[i] + 1
      <3>1. i \in 1 .. n /\ i + 1 \in 1 .. n /\ i \in 1 .. Len(s) - 1
        BY <1>1, <1>3
      <3> QED BY <1>3, <3>1 DEF Ordered
    <2> QED BY <2>1 DEF Ordered
  <1>9. EndsAt(r, Erases(c))
    <2>1. ASSUME Len(r) > 0 PROVE r[Len(r)] + 1 = s[Len(s)]
      <3>1. n \in 1 .. n /\ n \in 1 .. Len(s) - 1 /\ n + 1 = Len(s)
        BY <1>1, <1>3, <2>1 DEF n
      <3> QED BY <1>3, <3>1 DEF Ordered
    <2> QED BY <1>7, <2>1 DEF EndsAt
  <1> QED BY <1>3, <1>5, <1>7, <1>8, <1>9 DEF r, n

-----------------------------------------------------------------------------
(* The empty line is in order, wherever the cursor goes. *)
LEMMA EmptyTyped ==
    /\ <<>> \in Seq(Int)
    /\ \A c : Ordered(<<>>) /\ EndsAt(<<>>, c)
  <1>1. <<>> \in Seq(Int) /\ Len(<<>>) = 0
    OBVIOUS
  <1> QED BY <1>1 DEF Ordered, EndsAt

(* A key moves the cursor of the screen and changes the line typed there. *)
LEMMA KeyPressed ==
    ASSUME CursorInv, NEW c \in Inside, NEW s \in Seq(Int), NEW k \in Nat, Len(s) <= k,
           screen' = c, cells' = [cells EXCEPT ![display] = s], Ordered(s), EndsAt(s, c),
           kb_buf_idx' = [kb_buf_idx EXCEPT ![display] = k],
           cell' \in 0 .. Rows * Cols - 1, enter_or_overflow' \in {0, 1},
           UNCHANGED <<saved, display, terminal_now>>
    PROVE  CursorInv'
  <1>1. Types /\ \A u \in Terminal : Typed(u)
    BY DEF CursorInv
  <1>2. /\ cells' \in [Terminal -> Seq(Int)] /\ kb_buf_idx' \in [Terminal -> Nat]
        /\ \A u \in Terminal : /\ cells'[u] = IF u = display THEN s ELSE cells[u]
                             /\ kb_buf_idx'[u] = IF u = display THEN k ELSE kb_buf_idx[u]
    BY <1>1 DEF Types
  <1>3. \A u \in Terminal : CursorOf(u)' = IF u = display THEN c ELSE CursorOf(u)
    BY <1>1 DEF Types, CursorOf
  <1>4. Types'
    BY <1>1, <1>2 DEF Types
  <1>5. ASSUME NEW u \in Terminal PROVE Typed(u)'
    <2>1. CASE u = display
      <3>1. cells'[u] = s /\ CursorOf(u)' = c
        BY <1>2, <1>3, <2>1
      <3> QED BY <3>1 DEF Typed, Ordered, EndsAt, CellOf
    <2>2. CASE u # display
      <3>1. cells'[u] = cells[u] /\ CursorOf(u)' = CursorOf(u)
        BY <1>2, <1>3, <2>2
      <3>2. Ordered(cells[u]) /\ EndsAt(cells[u], CursorOf(u))
        BY <1>1 DEF Typed
      <3> QED BY <3>1, <3>2 DEF Typed, Ordered, EndsAt, CellOf
    <2> QED BY <2>1, <2>2
  <1> QED BY <1>4, <1>5 DEF CursorInv

(* Output that moves the cursors of the terminals T at most cuts what is     *)
(* typed there.                                                            *)
LEMMA OutputCuts ==
    ASSUME CursorInv, NEW T, Cuts(T),
           screen' \in Inside, saved' \in [Terminal -> Inside],
           \A u \in Terminal : u \notin T => CursorOf(u)' = CursorOf(u),
           cell' \in 0 .. Rows * Cols - 1, enter_or_overflow' \in {0, 1},
           UNCHANGED <<display, terminal_now, kb_buf_idx>>
    PROVE  CursorInv'
  <1>1. Types /\ \A u \in Terminal : Typed(u)
    BY DEF CursorInv
  <1>2. \A u \in Terminal : cells'[u] = IF u \in T THEN <<>> ELSE cells[u]
    BY DEF Cuts
  <1>3. cells' \in [Terminal -> Seq(Int)] /\ Len(<<>>) = 0
    BY <1>1, EmptyTyped DEF Types, Cuts
  <1>4. \A u \in Terminal : kb_buf_idx[u] \in Nat /\ Len(cells[u]) <= kb_buf_idx[u]
    BY <1>1 DEF Types
  <1>5. \A u \in Terminal : Len(cells'[u]) <= kb_buf_idx'[u]
    <2> SUFFICES ASSUME NEW u \in Terminal PROVE Len(cells'[u]) <= kb_buf_idx[u]
      OBVIOUS
    <2>1. CASE u \in T
      BY <1>2, <1>3, <1>4, <2>1
    <2>2. CASE u \notin T
      BY <1>2, <1>4, <2>2
    <2> QED BY <2>1, <2>2
  <1>6. Types'
    BY <1>1, <1>3, <1>5 DEF Types
  <1>7. ASSUME NEW u \in Terminal PROVE Typed(u)'
    <2>1. CASE u \in T
      <3>1. cells'[u] = <<>>
        BY <1>2, <2>1
      <3> QED BY <1>3, <3>1 DEF Typed, Ordered, EndsAt
    <2>2. CASE u \notin T
      <3>1. cells'[u] = cells[u] /\ CursorOf(u)' = CursorOf(u)
        BY <1>2, <2>2
      <3>2. Ordered(cells[u]) /\ EndsAt(cells[u], CursorOf(u))
        BY <1>1 DEF Typed
      <3> QED BY <3>1, <3>2 DEF Typed, Ordered, EndsAt, CellOf
    <2> QED BY <2>1, <2>2
  <1> QED BY <1>6, <1>7 DEF CursorInv

LEMMA CursorNext == ASSUME Careful PROVE CursorInv /\ [Next]_vars => CursorInv'
  <1> SUFFICES ASSUME CursorInv, [Next]_vars PROVE CursorInv'
    OBVIOUS
  <1>1. Types /\ \A t \in Terminal : Typed(t)
    BY DEF CursorInv
  <1>2. /\ screen \in Inside /\ display \in Terminal /\ terminal_now \in Terminal
        /\ enter_or_overflow \in {0, 1} /\ cell \in 0 .. Rows * Cols - 1
        /\ saved \in [Terminal -> Inside] /\ cells \in [Terminal -> Seq(Int)]
        /\ kb_buf_idx \in [Terminal -> Nat]
    BY <1>1 DEF Types
  <1>3. /\ Line \in Seq(Int) /\ Ordered(Line) /\ EndsAt(Line, screen)
        /\ kb_buf_idx[display] \in Nat /\ Len(Line) <= kb_buf_idx[display]
    BY <1>1, <1>2 DEF Typed, Types, CursorOf, Line
  <1>4. \A c \in Inside : FlagAfterLetter(c) \in {0, 1}
    BY <1>2 DEF FlagAfterLetter
  <1>5. ASSUME Letter PROVE CursorInv'
    <2> DEFINE r == MovedUp(Append(Line, CellOf(screen)), screen)
               k == kb_buf_idx[display] + 1
    <2>1. r \in Seq(Int) /\ Len(r) = Len(Line) + 1 /\ Ordered(r) /\ EndsAt(r, AfterLetter(screen))
      BY <1>2, <1>3, LetterTyped
    <2>2. /\ cell' = CellOf(screen) /\ screen' = AfterLetter(screen)
          /\ cells' = [cells EXCEPT ![display] = r]
          /\ kb_buf_idx' = [kb_buf_idx EXCEPT ![display] = k]
          /\ enter_or_overflow' = FlagAfterLetter(screen)
          /\ UNCHANGED <<saved, display, terminal_now>>
      BY <1>5 DEF Letter
    <2>3. k \in Nat /\ Len(Line) + 1 <= k
      BY <1>3
    <2> HIDE DEF r, k
    <2>4. cell' \in 0 .. Rows * Cols - 1 /\ AfterLetter(screen) \in Inside /\ enter_or_overflow' \in {0, 1}
      BY <1>2, <1>4, <2>2, CellRange, AfterLetterCell
    <2> QED BY <2>1, <2>2, <2>3, <2>4, KeyPressed
  <1>6. ASSUME Backspace PROVE CursorInv'
    <2> DEFINE r == SubSeq(Line, 1, Len(Line) - 1)
               k == kb_buf_idx[display] - 1
    <2>1. kb_buf_idx[display] > 0 /\ screen.x > 0 /\ ~WrapsBack(screen)
      BY <1>6 DEF Backspace
    <2>2. k \in Nat /\ Erases(screen) \in Inside
      <3>1. k \in Nat
        BY <1>3, <2>1
      <3> QED BY <1>2, <2>1, <3>1, ErasesBefore
    <2>3. /\ cell' = CellOf(Erases(screen)) /\ screen' = Erases(screen)
          /\ cells' = [cells EXCEPT ![display] = r]
          /\ kb_buf_idx' = [kb_buf_idx EXCEPT ![display] = k]
          /\ enter_or_overflow' = enter_or_overflow
          /\ UNCHANGED <<saved, display, terminal_now>>
      BY <1>6, <2>1 DEF Backspace, AfterBackspace, ErasedCell, Line
    <2>4. cell' \in 0 .. Rows * Cols - 1
      BY <2>2, <2>3, CellRange
    <2>5. r \in Seq(Int) /\ Len(r) <= k /\ Ordered(r) /\ EndsAt(r, Erases(screen))
      <3>1. CASE Line # <<>>
        <4>1. r \in Seq(Int) /\ Len(r) = Len(Line) - 1 /\ Ordered(r) /\ EndsAt(r, Erases(screen))
          BY <1>2, <1>3, <2>1, <3>1, LetterErased
        <4> HIDE DEF r
        <4>2. Len(r) <= k
          BY <1>3, <4>1
        <4> QED BY <4>1, <4>2
      <3>2. CASE Line = <<>>
        <4>1. r = <<>>
          BY <3>2
        <4> HIDE DEF r
        <4>2. Len(r) = 0
          BY <4>1
        <4> QED BY <2>2, <4>1, <4>2, EmptyTyped
      <3> QED BY <3>1, <3>2
    <2> HIDE DEF r, k
    <2> QED BY <1>2, <2>2, <2>3, <2>4, <2>5, KeyPressed
  <1>7. ASSUME Enter \/ ControlAltL PROVE CursorInv'
    <2>1. PICK c \in Inside :
            /\ screen' = c /\ LineBegins(<<>>) /\ enter_or_overflow' \in {0, 1}
            /\ UNCHANGED <<saved, display, terminal_now, cell>>
      <3>1. CASE Enter
        BY <1>2, <3>1, NewLineInside DEF Enter
      <3>2. CASE ControlAltL
        BY <1>2, <3>2, Sizes DEF ControlAltL
      <3> QED BY <1>7, <3>1, <3>2
    <2>2. /\ kb_buf_idx' = [kb_buf_idx EXCEPT ![display] = 0]
          /\ cells' = [cells EXCEPT ![display] = <<>>] /\ Len(<<>>) = 0
      BY <2>1 DEF LineBegins
    <2>3. cell' \in 0 .. Rows * Cols - 1 /\ Len(<<>>) <= 0 /\ 0 \in Nat
      BY <1>2, <2>1, <2>2
    <2> QED BY <2>1, <2>2, <2>3, EmptyTyped, KeyPressed
  <1>8. ASSUME ControlL PROVE CursorInv'
    <2> DEFINE r == <<CellOf(Origin)>>
    <2>1. r \in Seq(Int) /\ Len(r) = 1 /\ r[1] = 0
      BY Sizes
    <2>2. /\ cell' = CellOf(Origin) /\ screen' = AfterLetter(Origin)
          /\ cells' = [cells EXCEPT ![display] = r]
          /\ kb_buf_idx' = [kb_buf_idx EXCEPT ![display] = 1]
          /\ enter_or_overflow' = FlagAfterLetter(Origin)
          /\ UNCHANGED <<saved, display, terminal_now>>
      BY <1>8, <2>1 DEF ControlL, LineBegins
    <2>3. AfterLetter(Origin) \in Inside /\ CellOf(AfterLetter(Origin)) = 1
      <3>1. Moved(Origin) = 0
        BY Sizes DEF Moved, Overflows, Origin
      <3> QED BY <3>1, Sizes, AfterLetterCell
    <2>4. Ordered(r) /\ EndsAt(r, AfterLetter(Origin))
      BY <2>1, <2>3 DEF Ordered, EndsAt
    <2>5. cell' \in 0 .. Rows * Cols - 1 /\ enter_or_overflow' \in {0, 1}
      BY <1>4, <2>2, Sizes, CellRange
    <2>6. Len(r) <= 1
      BY <2>1
    <2> HIDE DEF r
    <2> QED BY <2>1, <2>2, <2>3, <2>4, <2>5, <2>6, KeyPressed
  <1>9. ASSUME NEW t \in Terminal, Shift(t) PROVE CursorInv'
    <2>1. /\ t # display /\ saved' = [saved EXCEPT ![display] = screen]
          /\ screen' = saved[t] /\ display' = t
          /\ UNCHANGED <<enter_or_overflow, terminal_now, cell, kb_buf_idx, cells>>
      BY <1>9 DEF Shift, Load, Loaded
    <2>2. Types'
      BY <1>1, <1>2, <2>1 DEF Types
    <2>3. \A u \in Terminal : CursorOf(u)' = CursorOf(u) /\ cells'[u] = cells[u]
      BY <1>2, <2>1 DEF CursorOf
    <2>4. \A u \in Terminal : Typed(u)'
      BY <1>1, <2>3 DEF Typed, Ordered, EndsAt, CellOf
    <2> QED BY <2>2, <2>4 DEF CursorInv
  <1>10. ASSUME WriteLetter \/ WriteNewline PROVE CursorInv'
    <2>1. Cursor \in Inside
      BY <1>2 DEF Cursor
    <2>2. PICK c \in Inside :
            /\ MoveTo(c) /\ cell' \in 0 .. Rows * Cols - 1 /\ enter_or_overflow' \in {0, 1}
            /\ Cuts({terminal_now}) /\ UNCHANGED <<display, terminal_now, kb_buf_idx>>
      <3>1. CASE WriteLetter
        <4>1. AfterLetter(Cursor) \in Inside /\ CellOf(Cursor) \in 0 .. Rows * Cols - 1
          BY <2>1, CellRange, AfterLetterCell
        <4> QED BY <1>4, <2>1, <3>1, <4>1 DEF WriteLetter
      <3>2. CASE WriteNewline
        <4>1. NewLine(Cursor) \in Inside
          BY <2>1, NewLineInside
        <4> QED BY <1>2, <3>2, <4>1 DEF WriteNewline
      <3> QED BY <1>10, <3>1, <3>2
    <2>3. IF terminal_now = display THEN screen' = c /\ UNCHANGED saved
          ELSE saved' = [saved EXCEPT ![terminal_now] = c] /\ UNCHANGED screen
      BY <2>2 DEF MoveTo
    <2>4. screen' \in Inside /\ saved' \in [Terminal -> Inside]
      BY <1>2, <2>3
    <2>5. \A u \in Terminal : u \notin {terminal_now} => CursorOf(u)' = CursorOf(u)
      BY <1>2, <2>2, <2>3 DEF CursorOf
    <2> QED BY <2>2, <2>4, <2>5, OutputCuts
  <1>11. ASSUME PromptNewline \/ PrintLetter PROVE CursorInv'
    <2>1. PICK c \in Inside, d \in BOOLEAN :
            /\ screen' = c /\ Cuts(Disturbed(d))
            /\ cell' \in 0 .. Rows * Cols - 1 /\ enter_or_overflow' \in {0, 1}
            /\ UNCHANGED <<saved, display, terminal_now, kb_buf_idx>>
      <3>1. CASE PromptNewline
        <4>1. NewLine(screen) \in Inside /\ Scrolled(screen) \in BOOLEAN
          BY <1>2, NewLineInside DEF Scrolled
        <4> QED BY <1>2, <3>1, <4>1 DEF PromptNewline
      <3>2. CASE PrintLetter
        <4>1. AfterLetter(screen) \in Inside /\ LetterScrolls(screen) \in BOOLEAN
          BY <1>2, AfterLetterCell DEF LetterScrolls, Overflows, Scrolled
        <4> QED BY <1>2, <1>4, <3>2, <4>1, CellRange DEF PrintLetter
      <3> QED BY <1>11, <3>1, <3>2
    <2>2. \A u \in Terminal : u \notin Disturbed(d) => CursorOf(u)' = CursorOf(u)
      BY <2>1 DEF Disturbed, CursorOf
    <2> HIDE DEF Disturbed
    <2> QED BY <1>2, <2>1, <2>2, OutputCuts
  <1>12. ASSUME Rotate \/ UNCHANGED vars PROVE CursorInv'
    <2>1. UNCHANGED <<screen, saved, enter_or_overflow, display, cell, kb_buf_idx, cells>>
      BY <1>12 DEF Rotate, vars
    <2>2. terminal_now' \in Terminal
      <3>1. NumTerm \in Nat /\ NumTerm > 0 /\ Terminal = 0 .. NumTerm - 1
        BY Sizes DEF Terminal
      <3>2. terminal_now' = (terminal_now + 1) % NumTerm \/ terminal_now' = terminal_now
        BY <1>12 DEF Rotate, vars
      <3> QED BY <1>2, <3>1, <3>2
    <2>3. Types'
      BY <1>1, <2>1, <2>2 DEF Types
    <2>4. \A u \in Terminal : Typed(u)'
      BY <1>1, <2>1 DEF Typed, Ordered, EndsAt, CellOf, CursorOf
    <2> QED BY <2>3, <2>4 DEF CursorInv
  <1> QED BY <1>5, <1>6, <1>7, <1>8, <1>9, <1>10, <1>11, <1>12 DEF Next

LEMMA CursorInvariant == ASSUME Careful PROVE Spec => []CursorInv
  BY CursorInit, CursorNext, PTL DEF Spec

(* No cursor leaves the screen and no cell is written outside it, however   *)
(* lines wrap and the screens of the terminals scroll.                     *)
THEOREM OnTheScreen == ASSUME Careful PROVE Spec => []TypeOK
  <1>1. CursorInv => TypeOK
    <2>1. Inside \subseteq Positions
      BY Sizes DEF Inside, Positions
    <2> QED BY <2>1 DEF CursorInv, Types, TypeOK
  <1> QED BY <1>1, CursorInvariant, PTL

(* The letters typed at a terminal stand side by side until something is    *)
(* printed on its own screen, also when the terminal is left in the middle  *)
(* of the line and other terminals print.                                  *)
THEOREM LettersSideBySide == ASSUME Careful PROVE Spec => []LineInOrder
  <1>1. CursorInv => LineInOrder
    BY DEF CursorInv, Typed, Ordered, LineInOrder
  <1> QED BY <1>1, CursorInvariant, PTL

(* BACKSPACE erases the cell of the last letter of the line, if nothing else *)
(* was printed there since.                                                *)
THEOREM LastLetterErased == ASSUME Careful PROVE Spec => BackspaceErases
  <1>1. CursorInv /\ [Next]_vars => [Backspace /\ Line # <<>> => cell' = Line[Len(Line)]]_vars
    <2> SUFFICES ASSUME CursorInv, Backspace, Line # <<>> PROVE cell' = Line[Len(Line)]
      OBVIOUS
    <2>1. /\ screen \in Inside /\ Line \in Seq(Int) /\ Ordered(Line) /\ EndsAt(Line, screen)
      BY DEF CursorInv, Types, Typed, CursorOf, Line
    <2>2. screen.x > 0 /\ cell' = CellOf(Erases(screen))
      BY DEF Backspace, ErasedCell
    <2> QED BY <2>1, <2>2, LetterErased
  <1> QED BY <1>1, CursorInvariant, PTL DEF Spec, BackspaceErases

=============================================================================
