------------------------------- MODULE Line -------------------------------
(***************************************************************************)
(* The line a user types: the keyboard handler (keyboard.c), the switch    *)
(* between terminals (terminal_shift), and the read of a line by the       *)
(* process of a terminal (terminal_read, terminal.c).                      *)
(*                                                                         *)
(* There is one keyboard buffer, of the displayed terminal; the others'     *)
(* buffers are saved.  A line stays in the buffer until the process reads  *)
(* it: terminal_read polls for a newline.  The lines read are the          *)
(* history, an array of rows that is written without regard to its bounds. *)
(*                                                                         *)
(* The letters stand for what scancode[kb_mode] makes of a key; keys that  *)
(* are ignored are left out.  Modifiers are part of the key they act on.   *)
(***************************************************************************)
EXTENDS Integers, Sequences, FiniteSets

CONSTANTS
    NumTerm,
    Letters, Ell,   \* the letters, among them Blank and Ell, the letter l
    Names,          \* the directory, which TAB completes from
    Sizes,          \* num of the calls of terminal_read
    BufSize,        \* KB_BUF_SIZE
    NameSize,       \* 32, the arrays of the TAB completion
    Width, MaxHist, \* 50 rows of 50 characters for each terminal
    NumFd,          \* descriptors of a process
    Keys,           \* what the user presses; a clean switch is not made in a line
    MaxLines,       \* bound: lines entered
    MaxTyped,       \* bound: letters are typed up to this length of the line
    MaxEntered,     \* bound: length of the lines that are entered

    Patient,        \* while a line waits at the displayed terminal nothing is
                    \* typed there and no terminal is started
    Calm            \* no interrupt inside the handler of the keyboard

Blank == " "
NUL == "nul"
NL == "newline"
Char == Letters \cup {NUL, NL}
Terminal == 0 .. NumTerm - 1
Cell == 0 .. BufSize - 1
HistCell == 0 .. NumTerm * MaxHist * Width - 1

ASSUME LineAssumption ==
    /\ {NumTerm, BufSize, NameSize, Width, MaxHist, NumFd} \subseteq Nat \ {0}
    /\ BufSize > 1
    /\ {Blank, Ell} \subseteq Letters /\ {NUL, NL} \cap Letters = {}
    /\ Names \subseteq Seq(Letters) /\ Sizes \subseteq Nat
    /\ Patient \in BOOLEAN /\ Calm \in BOOLEAN
    /\ {MaxLines, MaxTyped, MaxEntered} \subseteq Nat

VARIABLES
    keyboard_buffer, kb_buf_idx,
    saved,            \* terminal -> buffer and index while it is not displayed
    display,          \* cur_display_terminal_id - 1
    terminal_now,
    started,          \* the terminals that have a process
    reading,          \* terminal -> the size its process asked terminal_read for, or -1
    command_list, command_total, command_count,
    fds,              \* terminal -> descriptors its process has open
    handler,          \* the handler that was interrupted
    wild,             \* an array has been left: nothing is known from here on
    typed,            \* history: terminal -> the line shown on its screen
    sent, got         \* history: terminal -> lines entered, lines read

kb == <<keyboard_buffer, kb_buf_idx>>
terminals == <<saved, display, terminal_now, started>>
past == <<command_list, command_total, command_count>>
ghost == <<typed, sent, got>>
vars == <<kb, terminals, reading, past, fds, handler, wild, ghost>>

Idle == [pc |-> "idle", on |-> -1]
Zeroed == [i \in Cell |-> NUL]

(* The string that starts at cell `at' of an array of `size' cells; Len of  *)
(* it is strlen.  It is unterminated when there is no NUL.                 *)
Ends(mem, at, size) == {i \in at .. size - 1 : mem[i] = NUL}
Unterminated(mem, at, size) == Ends(mem, at, size) = {}
Str(mem, at, size) ==
    LET end == CHOOSE i \in Ends(mem, at, size) : \A j \in Ends(mem, at, size) : i <= j
    IN  [i \in 1 .. end - at |-> mem[at + i - 1]]

Put(mem, at, s) == [i \in DOMAIN mem |-> IF i - at + 1 \in DOMAIN s THEN s[i - at + 1] ELSE mem[i]]
Line(n) == [i \in 1 .. n |-> keyboard_buffer[i - 1]]

(* terminal_init and the first shell *)
Init ==
    /\ keyboard_buffer = Zeroed /\ kb_buf_idx = 0
    /\ saved = [t \in Terminal |-> [buf |-> Zeroed, idx |-> 0]]
    /\ display = 0 /\ terminal_now = 0 /\ started = {0}
    /\ reading = [t \in Terminal |-> -1]
    /\ command_list = [i \in HistCell |-> NUL]
    /\ command_total = [t \in Terminal |-> 0] /\ command_count = [t \in Terminal |-> 0]
    /\ fds = [t \in Terminal |-> 0]
    /\ handler = Idle /\ wild = FALSE
    /\ typed = [t \in Terminal |-> <<>>]
    /\ sent = [t \in Terminal |-> <<>>] /\ got = [t \in Terminal |-> <<>>]

Waiting(t) == Len(sent[t]) > Len(got[t])
Entered == {e \in Terminal \X (1 .. MaxLines) : e[2] <= Len(sent[e[1]])}

-----------------------------------------------------------------------------
(***************************************************************************)
(* The keyboard handler.  A key is handled with interrupts off, unless the *)
(* handler of a TAB or of a switch was interrupted: the latter has already *)
(* acknowledged its interrupt.                                             *)
(***************************************************************************)
Goes == ~wild /\ (Calm => handler = Idle)
AltKey(k) == Goes /\ handler.pc # "tab" /\ k \in Keys
Key(k) == AltKey(k) /\ (Patient => ~Waiting(display))

Fits == kb_buf_idx < BufSize - 1
FitsOneMore == kb_buf_idx < BufSize                               \* mutant
Room == Fits

Letter(c) ==
    /\ Key("letter") /\ Len(typed[display]) < MaxTyped /\ Room
    /\ keyboard_buffer' = Put(keyboard_buffer, kb_buf_idx, <<c>>)
    /\ kb_buf_idx' = kb_buf_idx + 1
    /\ wild' = (kb_buf_idx + 1 > BufSize - 1)
    /\ typed' = [typed EXCEPT ![display] = Append(@, c)]
    /\ UNCHANGED <<terminals, reading, past, fds, handler, sent, got>>

Backspace ==
    /\ Key("backspace") /\ kb_buf_idx > 0
    /\ kb_buf_idx' = kb_buf_idx - 1
    /\ typed' = [typed EXCEPT ![display] = SubSeq(@, 1, Len(@) - 1)]
    /\ UNCHANGED <<keyboard_buffer, terminals, reading, past, fds, handler, wild, sent, got>>

Enter ==
    /\ Key("enter") /\ Cardinality(Entered) < MaxLines /\ Len(typed[display]) <= MaxEntered
    /\ IF kb_buf_idx >= BufSize THEN wild' = TRUE /\ UNCHANGED kb
       ELSE /\ keyboard_buffer' = Put(keyboard_buffer, kb_buf_idx, <<NL>>)
            /\ kb_buf_idx' = 0
            /\ UNCHANGED wild
    /\ sent' = [sent EXCEPT ![display] = Append(@, Append(typed[display], NL))]
    /\ typed' = [typed EXCEPT ![display] = <<>>]
    /\ UNCHANGED <<terminals, reading, past, fds, handler, got>>

(* Control and l clears the screen and the index, and goes on to the letter, *)
(* unless Alt is held as well.                                              *)
ControlL(alt) ==
    /\ Key("ctrl_l")
    /\ IF alt
       THEN kb_buf_idx' = 0 /\ typed' = [typed EXCEPT ![display] = <<>>] /\ UNCHANGED keyboard_buffer
       ELSE /\ keyboard_buffer' = Put(keyboard_buffer, 0, <<Ell>>) /\ kb_buf_idx' = 1
            /\ typed' = [typed EXCEPT ![display] = <<Ell>>]
    /\ UNCHANGED <<terminals, reading, past, fds, handler, wild, sent, got>>

(* UP and DOWN erase what is typed and load a row of the history.           *)
Erased == [i \in Cell |-> IF i < kb_buf_idx THEN NUL ELSE keyboard_buffer[i]]
OneHistory(t, n) == n * Width                                     \* mutant
Row(t, n) == (t * MaxHist + n) * Width
HistSize == NumTerm * MaxHist * Width

Recall(n) ==
    LET at == Row(display, n)
        line == Str(command_list, at, HistSize)
    IN  IF Unterminated(command_list, at, HistSize) \/ Len(line) >= BufSize
        THEN wild' = TRUE /\ UNCHANGED <<kb, typed>>
        ELSE /\ keyboard_buffer' = Put(Erased, 0, Append(line, NUL))
             /\ kb_buf_idx' = Len(line)
             /\ typed' = [typed EXCEPT ![display] = line]
             /\ UNCHANGED wild

Previous == IF command_count[display] = 0 THEN 0 ELSE command_count[display] - 1

Up ==
    /\ Key("up")
    /\ command_count' = [command_count EXCEPT ![display] = Previous]
    /\ Recall(Previous)
    /\ UNCHANGED <<terminals, reading, command_list, command_total, fds, handler, sent, got>>

Down ==
    /\ Key("down")
    /\ LET next == command_count[display] + 1 IN
       IF next >= command_total[display]
       THEN /\ command_count' = [command_count EXCEPT ![display] = command_total[display]]
            /\ keyboard_buffer' = Put(Erased, 0, <<NUL>>) /\ kb_buf_idx' = 0
            /\ typed' = [typed EXCEPT ![display] = <<>>]
            /\ UNCHANGED wild
       ELSE /\ command_count' = [command_count EXCEPT ![display] = next]
            /\ Recall(next)
    /\ UNCHANGED <<terminals, reading, command_list, command_total, fds, handler, sent, got>>

(***************************************************************************)
(* TAB completes the word behind the first blanks, or the line if there is *)
(* none, from the directory, which it opens as a file of the running       *)
(* process and reads with interrupts on.                                   *)
(***************************************************************************)
WordStart ==
    LET blanks == {i \in 0 .. kb_buf_idx - 1 : keyboard_buffer[i] = Blank}
        behind == {i \in 0 .. kb_buf_idx - 1 :
                     /\ keyboard_buffer[i] # Blank
                     /\ \E b \in blanks : b < i}
    IN  IF behind = {} THEN 0 ELSE CHOOSE i \in behind : \A j \in behind : i <= j

WordOf(k) == [i \in 1 .. kb_buf_idx - k |-> keyboard_buffer[k + i - 1]]

(* strncmp over the length of the word stops at a common NUL. *)
Matches(word, name) ==
    LET cut == IF \E i \in DOMAIN word : word[i] = NUL
               THEN SubSeq(word, 1, CHOOSE i \in 0 .. Len(word) - 1 :
                                       word[i + 1] = NUL /\ \A j \in 1 .. i : word[j] # NUL)
               ELSE word
    IN  IF cut = word THEN Len(name) >= Len(word) /\ SubSeq(name, 1, Len(word)) = word
        ELSE cut = name

(* The copy is terminated only if it is a word behind blanks. *)
CopyFits(k) == IF k > 0 THEN kb_buf_idx - k < NameSize ELSE kb_buf_idx <= NameSize

TabBegin ==
    /\ Key("tab") /\ handler = Idle /\ fds[terminal_now] < NumFd
    /\ fds' = [fds EXCEPT ![terminal_now] = @ + 1]
    /\ handler' = [pc |-> "tab", on |-> terminal_now, k |-> WordStart, word |-> WordOf(WordStart)]
    /\ wild' = ~CopyFits(WordStart)
    /\ UNCHANGED <<kb, terminals, reading, past, ghost>>

(***************************************************************************)
(* A second match ends the handler at once, without the close.  Every name *)
(* that is read is given a NUL in an array of NameSize letters; the order  *)
(* of the directory is left out, and with it that a name behind the second *)
(* match is not read.                                                      *)
(***************************************************************************)
NamesFit == \A name \in Names : Len(name) < NameSize
TabEnd ==
    /\ ~wild /\ handler.pc = "tab" /\ terminal_now = handler.on
    /\ LET matching == {name \in Names : Matches(handler.word, name)}
           k == handler.k
       IN  /\ fds' = IF \E m, n \in matching : m # n THEN fds
                     ELSE [fds EXCEPT ![terminal_now] = @ - 1]
           /\ IF \E n \in matching : matching = {n}
              THEN LET name == CHOOSE n \in matching : TRUE IN
                   /\ keyboard_buffer' = Put(keyboard_buffer, k, name)
                   /\ kb_buf_idx' = k + Len(name)
                   /\ wild' = (~NamesFit \/ k + Len(name) > BufSize - 1)
                   /\ typed' = [typed EXCEPT ![display] =
                                  SubSeq(@, 1, Len(@) - Len(handler.word)) \o name]
              ELSE wild' = ~NamesFit /\ UNCHANGED <<kb, typed>>
    /\ handler' = Idle
    /\ UNCHANGED <<terminals, reading, past, sent, got>>

(***************************************************************************)
(* Alt and a function key.  terminal_store ends with sti, so the switch can *)
(* be interrupted before and after the new terminal is named.  A terminal  *)
(* without a process is given a shell, in which the handler does not       *)
(* return.                                                                 *)
(***************************************************************************)
Stored == [saved EXCEPT ![display] = [buf |-> keyboard_buffer, idx |-> kb_buf_idx]]
StoredIdxLost == [saved EXCEPT ![display] = [buf |-> keyboard_buffer, idx |-> 0]]  \* mutant
Store == Stored

ShiftBegin(t) ==
    /\ AltKey("switch") \/ (AltKey("clean_switch") /\ typed[display] = <<>>)
    /\ Patient /\ Waiting(display) => t \in started
    /\ handler = Idle /\ t # display
    /\ saved' = Store
    /\ handler' = [pc |-> "stored", on |-> terminal_now, to |-> t]
    /\ UNCHANGED <<kb, display, terminal_now, started, reading, past, fds, wild, ghost>>

ShiftName ==
    /\ ~wild /\ handler.pc = "stored" /\ terminal_now = handler.on
    /\ display' = handler.to
    /\ handler' = [handler EXCEPT !.pc = "named"]
    /\ UNCHANGED <<kb, saved, terminal_now, started, reading, past, fds, wild, ghost>>

ShiftLoad ==
    /\ ~wild /\ handler.pc = "named" /\ terminal_now = handler.on
    /\ display \in started
    /\ keyboard_buffer' = saved[display].buf /\ kb_buf_idx' = saved[display].idx
    /\ handler' = Idle
    /\ UNCHANGED <<terminals, reading, past, fds, wild, ghost>>

OldIndex == kb_buf_idx                                            \* mutant
FreshIndex == 0

ShiftStart ==
    /\ ~wild /\ handler.pc = "named" /\ terminal_now = handler.on
    /\ display \notin started
    /\ keyboard_buffer' = Put(keyboard_buffer, 0, <<NUL>>) /\ kb_buf_idx' = FreshIndex
    /\ started' = started \cup {display}
    /\ terminal_now' = display
    /\ handler' = Idle
    /\ UNCHANGED <<saved, display, reading, past, fds, wild, ghost>>

-----------------------------------------------------------------------------
(***************************************************************************)
(* The process of a terminal, while it is scheduled and not under the      *)
(* handler of an interrupt.                                                *)
(***************************************************************************)
Runs(t) == Goes /\ terminal_now = t /\ handler.on # t

ReadBegin(t, num) ==
    /\ Runs(t) /\ reading[t] = -1
    /\ reading' = [reading EXCEPT ![t] = num]
    /\ UNCHANGED <<kb, terminals, past, fds, handler, wild, ghost>>

(* detect_enter_signal *)
Newlines == {i \in Cell : keyboard_buffer[i] = NL}
EnterPosition == CHOOSE i \in Newlines : \A j \in Newlines : i <= j
Displayed(t) == display = t
LineFor(t) == Newlines # {} /\ Displayed(t)

(* The length of what is copied into the history is one less than that of   *)
(* the string in the buffer, unsigned.                                     *)
Overruns(t) ==
    \/ Unterminated(keyboard_buffer, 0, BufSize)
    \/ Ends(keyboard_buffer, 0, BufSize) # {} /\ keyboard_buffer[0] = NUL
    \/ Row(t, command_total[t]) + Len(Str(keyboard_buffer, 0, BufSize)) > HistSize

OneTooFew(t) == IF reading[t] > EnterPosition THEN EnterPosition ELSE reading[t]  \* mutant
RealReadNumber(t) == IF reading[t] > EnterPosition THEN EnterPosition + 1 ELSE reading[t]

WithNewline(line) == line                                         \* mutant
WithoutNewline(line) == Append(SubSeq(line, 1, Len(line) - 1), NUL)

ReadEnd(t) ==
    /\ Runs(t) /\ reading[t] # -1 /\ LineFor(t)
    /\ IF Overruns(t) THEN wild' = TRUE /\ UNCHANGED <<kb, past, reading, got>>
       ELSE LET line == Str(keyboard_buffer, 0, BufSize)
            IN  /\ command_list' = Put(command_list, Row(t, command_total[t]), WithoutNewline(line))
                /\ command_total' = [command_total EXCEPT ![t] = @ + 1]
                /\ command_count' = [command_count EXCEPT ![t] = command_total[t] + 1]
                /\ keyboard_buffer' = Zeroed
                /\ got' = [got EXCEPT ![t] = Append(@, [num |-> reading[t], bytes |-> Line(RealReadNumber(t))])]
                /\ reading' = [reading EXCEPT ![t] = -1]
                /\ UNCHANGED <<kb_buf_idx, wild>>
    /\ UNCHANGED <<terminals, fds, handler, typed, sent>>

Stays(t) == t                                                     \* mutant
(* The timer schedules the next terminal that has a process. *)
Successor(t) ==
    LET after(n) == (t + n) % NumTerm
        next == CHOOSE n \in 1 .. NumTerm : /\ after(n) \in started
                                            /\ \A m \in 1 .. n - 1 : after(m) \notin started
    IN  after(next)

Rotate ==
    /\ Goes
    /\ terminal_now' = Successor(terminal_now)
    /\ UNCHANGED <<kb, saved, display, started, reading, past, fds, handler, wild, ghost>>

KeyPress ==
    \/ Backspace \/ Enter \/ Up \/ Down \/ TabBegin
    \/ \E c \in Letters : Letter(c)
    \/ \E alt \in BOOLEAN : ControlL(alt)
    \/ \E t \in Terminal : ShiftBegin(t)
HandlerStep == TabEnd \/ ShiftName \/ ShiftLoad \/ ShiftStart
ReadStep(t) == ReadEnd(t) \/ \E num \in Sizes : ReadBegin(t, num)

Next == KeyPress \/ HandlerStep \/ Rotate \/ \E t \in Terminal : ReadStep(t)

Spec == Init /\ [][Next]_vars

(***************************************************************************)
(* The timer ticks, a handler that can go on does, and a process that is   *)
(* scheduled again and again while a line is there leaves its loop.        *)
(***************************************************************************)
FairSpec ==
    /\ Spec /\ WF_vars(Rotate) /\ SF_vars(HandlerStep)
    /\ \A t \in Terminal : SF_vars(ReadEnd(t))

-----------------------------------------------------------------------------
(***************************************************************************)
(* No handler and no read leaves the keyboard buffer, the history or the   *)
(* arrays of the completion, and the index stands in the buffer, at every  *)
(* terminal.                                                               *)
(***************************************************************************)
TypeOK ==
    /\ keyboard_buffer \in [Cell -> Char] /\ kb_buf_idx \in Cell
    /\ \A t \in Terminal : saved[t].buf \in [Cell -> Char] /\ saved[t].idx \in Cell
    /\ {display, terminal_now} \subseteq Terminal /\ started \subseteq Terminal
    /\ terminal_now \in started
    /\ reading \in [Terminal -> Sizes \cup {-1}]
    /\ command_list \in [HistCell -> Char]
    /\ command_total \in [Terminal -> Nat] /\ command_count \in [Terminal -> Nat]
    /\ \A t \in Terminal : command_count[t] <= command_total[t]
    /\ fds \in [Terminal -> 0 .. NumFd]
    /\ handler.pc \in {"idle", "tab", "stored", "named"}
    /\ wild \in BOOLEAN
    /\ ~wild

(* What is in the buffer up to the index is what the screen shows of the    *)
(* line, for the displayed terminal and, saved, for the others.            *)
EditLine ==
    handler = Idle =>
        /\ typed[display] = Line(kb_buf_idx)
        /\ \A t \in started \ {display} :
              typed[t] = [i \in 1 .. saved[t].idx |-> saved[t].buf[i - 1]]

(* A read returns the line that was entered at its terminal, up to the size *)
(* asked for: no line is lost, mixed with another or returned twice.       *)
LineDelivered ==
    \A t \in Terminal : \A i \in DOMAIN got[t] :
        /\ i \in DOMAIN sent[t]
        /\ got[t][i].bytes =
              SubSeq(sent[t][i], 1, IF got[t][i].num < Len(sent[t][i]) THEN got[t][i].num
                                    ELSE Len(sent[t][i]))

(* Every row of a terminal's history is the line that its process read.     *)
HistoryKept ==
    \A t \in Terminal : \A i \in DOMAIN got[t] :
        /\ i \in DOMAIN sent[t]
        /\ ~Unterminated(command_list, Row(t, i - 1), HistSize)
        /\ Str(command_list, Row(t, i - 1), HistSize) = SubSeq(sent[t][i], 1, Len(sent[t][i]) - 1)

(* A process waiting at the displayed terminal is given the line entered    *)
(* there, unless the user leaves it.                                       *)
LineServed ==
    \A t \in Terminal :
        Waiting(t) /\ reading[t] # -1 /\ display = t ~> ~Waiting(t) \/ display # t
=============================================================================
