------------------------------ MODULE Command ------------------------------
(***************************************************************************)
(* From the line typed at a shell to the argument its program asks for:    *)
(* the loop of the shell (ece391shell.c), the parsing at the start of      *)
(* execute, the arg field of the PCB and getargs (systemcall.c).           *)
(*                                                                         *)
(* One shell runs one program at a time.  The parsing runs with interrupts *)
(* off and is one step with the rest of execute, which module Process      *)
(* models; here a command is executed if its name is that of a program.    *)
(*                                                                         *)
(* Two kinds of line leave the arrays of execute and are not typed here: a *)
(* name that does not fit file_name, and an argument that is a single      *)
(* quotation mark, for which the number of bytes to copy is -1.            *)
(***************************************************************************)
EXTENDS Integers, Sequences, FiniteSets

CONSTANTS
    Letters,    \* characters of names and arguments
    MaxLine,    \* bound on the length of a line (127 in the code)
    Programs,   \* names of the executable files
    ExitLine,   \* the line that ends the shell ("exit")
    NameSize,   \* MAX_NAME_LEN
    ArgSize,    \* MAX_ARG_LEN
    NUL,        \* the zero byte
    Leftover,   \* another byte, found in memory not written to yet
    Asked       \* sizes that programs pass to getargs

Blank == " "
Quote == "\""
Char == Letters \cup {Blank, Quote}

VARIABLES
    line,       \* the command handed to execute, while its program runs
    file_name,  \* the name that execute has looked up
    arg,        \* pcb->arg of the process that the shell starts
    told        \* what getargs has returned to the program

vars == <<line, file_name, arg, told>>

Nobody == <<>>
Untold == [ret |-> 1, asked |-> 0, buf |-> [k \in 0 .. ArgSize |-> Leftover]]

(* lib.c:strlen, of an array that may have no zero byte. *)
Strlen(s) ==
    IF \E k \in DOMAIN s : s[k] = NUL
    THEN CHOOSE k \in DOMAIN s : s[k] = NUL /\ \A j \in 0 .. k - 1 : s[j] # NUL
    ELSE Cardinality(DOMAIN s)

(* lib.c:strncpy: n bytes of dest are written, zeros behind the string. *)
NoPadding(dest, src, n) ==                                        \* mutant
    [k \in DOMAIN dest |-> IF k < n /\ k < Strlen(src) THEN src[k] ELSE dest[k]]
Strncpy(dest, src, n) ==
    [k \in DOMAIN dest |-> IF k >= n THEN dest[k]
                           ELSE IF k < Strlen(src) THEN src[k] ELSE NUL]

(* The bytes of a line in memory, and its zero. *)
InMemory(s) == [k \in 0 .. Len(s) |-> IF k < Len(s) THEN s[k + 1] ELSE NUL]

-----------------------------------------------------------------------------
(* execute *)

(* The indices at which the loops over blanks and over a word stop. *)
AfterBlanks(s, i) ==
    CHOOSE j \in i .. Len(s) : /\ \A k \in i + 1 .. j : s[k] = Blank
                               /\ j = Len(s) \/ s[j + 1] # Blank
AfterWord(s, i) ==
    CHOOSE j \in i .. Len(s) : /\ \A k \in i + 1 .. j : s[k] # Blank
                               /\ j = Len(s) \/ s[j + 1] = Blank

NameStart(s) == AfterBlanks(s, 0)
NameEnd(s) == AfterWord(s, NameStart(s))
Name(s) == SubSeq(s, NameStart(s) + 1, NameEnd(s))
ArgStart(s) == AfterBlanks(s, NameEnd(s))
Quoted(s) == ArgStart(s) < Len(s) /\ s[ArgStart(s) + 1] = Quote

(* The local array arg: zeros, and the next word as far as it fits. *)
Word(s) ==
    LET last == AfterWord(s, ArgStart(s))
        fits == IF last - ArgStart(s) < ArgSize THEN last - ArgStart(s) ELSE ArgSize
    IN  [k \in 0 .. ArgSize - 1 |-> IF k < fits THEN s[ArgStart(s) + k + 1] ELSE NUL]

(* The local array arg_echo, which held `before': all but the last character. *)
EchoLength(s) == Len(s) - ArgStart(s) - 2
Echo(s, before) ==
    LET text == InMemory(SubSeq(s, ArgStart(s) + 2, Len(s)))
    IN  [Strncpy(before, text, EchoLength(s)) EXCEPT ![EchoLength(s)] = NUL]

(* What execute puts into the PCB, which held `old'. *)
ArgOf(s, old, before) ==
    Strncpy(old, IF Quoted(s) THEN Echo(s, before) ELSE Word(s), ArgSize)

Init ==
    /\ line = Nobody /\ file_name = Nobody
    /\ arg \in {[k \in 0 .. ArgSize - 1 |-> b] : b \in {NUL, Leftover}}
    /\ told = Untold

AtPrompt == line = Nobody

(* Lines that execute has the room for. *)
Fits(s) ==
    /\ Len(Name(s)) < NameSize
    /\ ~(Quoted(s) /\ ArgStart(s) = Len(s) - 1)

Lines == UNION {{s \in [1 .. n -> Char] : Fits(s)} : n \in 0 .. MaxLine}

(* An empty line, exit, or a name that is not that of a program. *)
NothingRun(s) ==
    /\ s = <<>> \/ s = ExitLine \/ Name(s) \notin Programs
    /\ UNCHANGED vars

(* execute; the arrays on its stack still hold what was there. *)
Execute(s) ==
    /\ s # ExitLine /\ Name(s) \in Programs
    /\ line' = s /\ file_name' = Name(s)
    /\ \E b \in {NUL, Leftover} :
          arg' = ArgOf(s, arg, [k \in 0 .. MaxLine |-> b])
    /\ UNCHANGED told

-----------------------------------------------------------------------------
(* getargs *)

Cut(n) == IF n > ArgSize THEN ArgSize ELSE n

(* The program gives a buffer of n bytes. *)
GetArgs(n) ==
    /\ ~AtPrompt
    /\ told' = IF Strlen(arg) = 0 THEN [Untold EXCEPT !.ret = -1]
               ELSE [ret |-> 0, asked |-> n, buf |-> Strncpy(Untold.buf, arg, Cut(n))]
    /\ UNCHANGED <<line, file_name, arg>>

(* The program halts; its PCB keeps the argument. *)
Halt ==
    /\ ~AtPrompt
    /\ line' = Nobody /\ file_name' = Nobody /\ told' = Untold
    /\ UNCHANGED arg

Next ==
    \/ AtPrompt /\ \E s \in Lines : NothingRun(s) \/ Execute(s)
    \/ \E n \in Asked : GetArgs(n)
    \/ Halt

Spec == Init /\ [][Next]_vars

-----------------------------------------------------------------------------
(* The argument that a line names: the word after the name, or all between *)
(* a quotation mark and the last character.                                *)
Argument(rest) ==
    IF rest # <<>> /\ rest[1] = Quote THEN SubSeq(rest, 2, Len(rest) - 1)
    ELSE CHOOSE w \in {SubSeq(rest, 1, k) : k \in 0 .. Len(rest)} :
            /\ \A k \in DOMAIN w : w[k] # Blank
            /\ Len(w) < Len(rest) => rest[Len(w) + 1] = Blank

AllBlank(i, j) == \A m \in i + 1 .. j : line[m] = Blank
NoBlank(i, j) == \A m \in i + 1 .. j : line[m] # Blank

(***************************************************************************)
(* A program runs that the line begins with, whatever blanks are around,   *)
(* and getargs gives it the argument behind: with a zero if there is room, *)
(* cut if there is not, and no byte of an earlier command, of the stack of *)
(* execute or behind the buffer.                                           *)
(***************************************************************************)
CommandSplit ==
    ~AtPrompt =>
        \E i \in 0 .. Len(line) : AllBlank(0, i) /\
        \E j \in i + 1 .. Len(line) : NoBlank(i, j) /\
        \E k \in j .. Len(line) :
            /\ AllBlank(j, k) /\ (k < Len(line) => j < k /\ line[k + 1] # Blank)
            /\ file_name = SubSeq(line, i + 1, j)
            /\ LET a == Argument(SubSeq(line, k + 1, Len(line))) IN
               told # Untold =>
                  IF a = <<>> THEN told.ret = -1
                  ELSE /\ told.ret = 0
                       /\ told.buf = [b \in 0 .. ArgSize |->
                                        IF b >= told.asked \/ b = ArgSize THEN Leftover
                                        ELSE IF b < Len(a) THEN a[b + 1] ELSE NUL]
=============================================================================
