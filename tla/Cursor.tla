------------------------------- MODULE Cursor -------------------------------
(***************************************************************************)
(* Where characters are printed (putc_modf, putc_backstage, newline and    *)
(* flush_screen of lib.c), and the cursors that terminal_store and         *)
(* terminal_load keep.  The echo of the keyboard and the output of the     *)
(* displayed terminal move the one cursor of the screen, the output of     *)
(* another terminal its saved one - except for the new line before its     *)
(* prompt and for what the kernel prints, which move the cursor of the     *)
(* screen whoever runs.  Both cursors use one flag that says whether the   *)
(* last new line was asked for or came from a full one: a BACKSPACE goes   *)
(* back over the beginning of a line only in the second case.              *)
(*                                                                         *)
(* One character is one step: UP and DOWN are as many BACKSPACEs as the    *)
(* line has letters and then letters, a TAB that completes is letters, and *)
(* the output of a process is any number of its letters and new lines.     *)
(* A cell is its number on the screen; % and / are those of C.             *)
(***************************************************************************)
EXTENDS Integers, Sequences

CONSTANTS
    NumTerm, Cols, Rows,  \* 3, NUM_COLS, NUM_ROWS
    Keys,                 \* what the user presses
    MaxTyped,             \* bound: letters of the line that is typed
    Careful               \* BACKSPACE is pressed within a row only

Terminal == 0 .. NumTerm - 1

ASSUME CursorAssumption ==
    /\ {NumTerm, Cols, Rows} \subseteq Nat \ {0} /\ Cols > 2 /\ MaxTyped \in Nat
    /\ Keys \subseteq {"letter", "backspace", "enter", "ctrl_l", "ctrl_alt_l", "switch"}
    /\ Careful \in BOOLEAN

VARIABLES
    screen,             \* screen_x and screen_y
    saved,              \* terminal -> its cursor while it is not displayed
    enter_or_overflow,
    display, terminal_now,
    cell,               \* the cell written last
    kb_buf_idx,         \* terminal -> the letters of the line typed there
    cells               \* history: terminal -> where the last letters of its line are,
                        \* those typed since something else was printed behind it

vars == <<screen, saved, enter_or_overflow, display, terminal_now, cell, kb_buf_idx, cells>>

Origin == [x |-> 0, y |-> 0]
CellOf(c) == Cols * c.y + c.x

Init ==
    /\ screen = Origin /\ saved = [t \in Terminal |-> Origin]
    /\ enter_or_overflow = 1
    /\ display = 0 /\ terminal_now = 0
    /\ cell = 0
    /\ kb_buf_idx = [t \in Terminal |-> 0] /\ cells = [t \in Terminal |-> <<>>]

-----------------------------------------------------------------------------
(* newline: the screen scrolls when the cursor leaves the last row. *)
ScrollsLate == Rows + 1                                           \* mutant
ScrollsAt == Rows
NewLine(c) == [x |-> 0, y |-> IF c.y + 1 >= ScrollsAt THEN Rows - 1 ELSE c.y + 1]
Scrolled(c) == c.y + 1 >= ScrollsAt

Overflows(c) == c.x + 1 >= Cols
AfterLetter(c) == IF Overflows(c) THEN NewLine(c) ELSE [c EXCEPT !.x = @ + 1]
FlagAfterLetter(c) == IF Overflows(c) THEN 0 ELSE enter_or_overflow
LetterScrolls(c) == Overflows(c) /\ Scrolled(c)

(* The letters of a line move up with their screen. *)
MovedUp(s, c) == IF LetterScrolls(c) THEN [i \in DOMAIN s |-> s[i] - Cols] ELSE s

(* BACKSPACE erases the cell it comes to.  Behind an entered line it stops  *)
(* at the first column; behind a full one it goes to the end of the line    *)
(* above, behind its last column.                                          *)
Erases(c) == [c EXCEPT !.x = IF enter_or_overflow = 1 /\ c.x = 0 THEN 0 ELSE c.x - 1]
WrapsBack(c) == enter_or_overflow # 1 /\ Erases(c).x <= 0
AfterBackspace(c) == IF WrapsBack(c) THEN [x |-> Cols, y |-> c.y - 1] ELSE Erases(c)
ErasedBefore(c) == CellOf(c)                                      \* mutant
ErasedCell(c) == CellOf(Erases(c))

-----------------------------------------------------------------------------
Line == cells[display]
Key(k) == k \in Keys

Letter ==
    /\ Key("letter") /\ kb_buf_idx[display] < MaxTyped
    /\ cell' = CellOf(screen)
    /\ kb_buf_idx' = [kb_buf_idx EXCEPT ![display] = @ + 1]
    /\ cells' = [cells EXCEPT ![display] = MovedUp(Append(Line, CellOf(screen)), screen)]
    /\ screen' = AfterLetter(screen)
    /\ enter_or_overflow' = FlagAfterLetter(screen)
    /\ UNCHANGED <<saved, display, terminal_now>>

Backspace ==
    /\ Key("backspace") /\ kb_buf_idx[display] > 0
    /\ Careful => screen.x > 0 /\ ~WrapsBack(screen)
    /\ cell' = ErasedCell(screen)
    /\ kb_buf_idx' = [kb_buf_idx EXCEPT ![display] = @ - 1]
    /\ cells' = [cells EXCEPT ![display] = SubSeq(@, 1, Len(@) - 1)]
    /\ screen' = AfterBackspace(screen)
    /\ enter_or_overflow' = IF WrapsBack(screen) THEN 1 ELSE enter_or_overflow
    /\ UNCHANGED <<saved, display, terminal_now>>

(* Another line begins with the letters s. *)
LineBegins(s) ==
    /\ kb_buf_idx' = [kb_buf_idx EXCEPT ![display] = Len(s)]
    /\ cells' = [cells EXCEPT ![display] = s]

Enter ==
    /\ Key("enter")
    /\ screen' = NewLine(screen) /\ enter_or_overflow' = 1
    /\ LineBegins(<<>>)
    /\ UNCHANGED <<saved, display, terminal_now, cell>>

(* flush_screen leaves the flag as it is; then the letter is printed, but    *)
(* not with Alt.                                                           *)
ControlL ==
    /\ Key("ctrl_l")
    /\ cell' = CellOf(Origin)
    /\ screen' = AfterLetter(Origin)
    /\ enter_or_overflow' = FlagAfterLetter(Origin)
    /\ LineBegins(<<CellOf(Origin)>>)
    /\ UNCHANGED <<saved, display, terminal_now>>

ControlAltL ==
    /\ Key("ctrl_alt_l")
    /\ screen' = Origin
    /\ LineBegins(<<>>)
    /\ UNCHANGED <<saved, enter_or_overflow, display, terminal_now, cell>>

(* terminal_store and terminal_load; the screen of a new terminal is        *)
(* cleared, and its cursor at the origin.  After an execute that fails all  *)
(* is as it was.                                                           *)
Loaded(t) == saved[t]
KeptCursor(t) == screen                                           \* mutant
Load(t) == Loaded(t)

Shift(t) ==
    /\ Key("switch") /\ t # display
    /\ saved' = [saved EXCEPT ![display] = screen]
    /\ screen' = Load(t)
    /\ display' = t
    /\ UNCHANGED <<enter_or_overflow, terminal_now, cell, kb_buf_idx, cells>>

(***************************************************************************)
(* terminal_write, by the process of terminal_now: at the cursor of its    *)
(* terminal, on its page, also behind a line that is being typed there.    *)
(***************************************************************************)
Cursor == IF terminal_now = display THEN screen ELSE saved[terminal_now]
MoveTo(c) ==
    IF terminal_now = display THEN screen' = c /\ UNCHANGED saved
    ELSE saved' = [saved EXCEPT ![terminal_now] = c] /\ UNCHANGED screen

(* What is typed at the terminals T does not go on where it stopped. *)
Cuts(T) == cells' = [t \in Terminal |-> IF t \in T THEN <<>> ELSE cells[t]]

WriteLetter ==
    /\ cell' = CellOf(Cursor)
    /\ MoveTo(AfterLetter(Cursor))
    /\ enter_or_overflow' = FlagAfterLetter(Cursor)
    /\ Cuts({terminal_now})
    /\ UNCHANGED <<display, terminal_now, kb_buf_idx>>

WriteNewline ==
    /\ MoveTo(NewLine(Cursor)) /\ enter_or_overflow' = 1
    /\ Cuts({terminal_now})
    /\ UNCHANGED <<display, terminal_now, cell, kb_buf_idx>>

(***************************************************************************)
(* putc_modf for a terminal in the background: the new line before the     *)
(* prompt of its shell, and printf of the kernel in a system call of its   *)
(* process.  The cursor that moves is the screen's, but the page that      *)
(* scrolls is the terminal's own, under its saved cursor.                  *)
(***************************************************************************)
Disturbed(scrolls) == {display} \cup (IF scrolls THEN {terminal_now} ELSE {})

PromptNewline ==
    /\ terminal_now # display
    /\ screen' = NewLine(screen) /\ enter_or_overflow' = 1
    /\ Cuts(Disturbed(Scrolled(screen)))
    /\ UNCHANGED <<saved, display, terminal_now, cell, kb_buf_idx>>

PrintLetter ==
    /\ terminal_now # display
    /\ cell' = CellOf(screen)
    /\ screen' = AfterLetter(screen)
    /\ enter_or_overflow' = FlagAfterLetter(screen)
    /\ Cuts(Disturbed(LetterScrolls(screen)))
    /\ UNCHANGED <<saved, display, terminal_now, kb_buf_idx>>

Rotate ==
    /\ terminal_now' = (terminal_now + 1) % NumTerm
    /\ UNCHANGED <<screen, saved, enter_or_overflow, display, cell, kb_buf_idx, cells>>

Next ==
    \/ Letter \/ Backspace \/ Enter \/ ControlL \/ ControlAltL
    \/ \E t \in Terminal : Shift(t)
    \/ WriteLetter \/ WriteNewline \/ PromptNewline \/ PrintLetter \/ Rotate

Spec == Init /\ [][Next]_vars

-----------------------------------------------------------------------------
Positions == [x : 0 .. Cols, y : -1 .. Rows - 1]

(* Nothing is printed outside the 25 rows of 80 columns. *)
TypeOK ==
    /\ screen \in Positions /\ saved \in [Terminal -> Positions]
    /\ enter_or_overflow \in {0, 1}
    /\ {display, terminal_now} \subseteq Terminal
    /\ \A t \in Terminal :
          cells[t] \in Seq(Int) /\ kb_buf_idx[t] \in Nat /\ Len(cells[t]) <= kb_buf_idx[t]
    /\ cell \in 0 .. Rows * Cols - 1

(* The letters typed at a terminal stand side by side, and the next goes    *)
(* behind them, until something else is printed on its screen: output of    *)
(* its process, the new line of a prompt in the background, a message of    *)
(* the kernel.  Nothing else separates them: no switch, no output of        *)
(* another terminal.                                                       *)
LineInOrder ==
    \A t \in Terminal : \A i \in 1 .. Len(cells[t]) - 1 : cells[t][i + 1] = cells[t][i] + 1

(* BACKSPACE erases the last letter of the line, if nothing else was        *)
(* printed since it was typed.                                             *)
BackspaceErases ==
    [][Backspace /\ Line # <<>> => cell' = Line[Len(Line)]]_vars
=============================================================================
