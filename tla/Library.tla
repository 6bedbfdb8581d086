------------------------------ MODULE Library ------------------------------
(***************************************************************************)
(* Memory, Command and Numbers side by side.  They are sequential code and *)
(* share no state: a behaviour of this module is one of one of them.       *)
(***************************************************************************)
EXTENDS Memory

CONSTANTS
    Letters, MaxLine, Programs, ExitLine, NameSize, ArgSize,    \* Command
    NUL, Leftover, Asked,
    Width                                                       \* Numbers

VARIABLES
    subject,                                            \* which of the three
    line, file_name, arg, told,                         \* Command
    loop, conv, newval, buf, start, newbuf, beg, out    \* Numbers
commandVars == <<line, file_name, arg, told>>
numberVars == <<loop, conv, newval, buf, start, newbuf, beg, out>>
libraryVars == <<subject, vars, commandVars, numberVars>>

C == INSTANCE Command
N == INSTANCE Numbers WITH pc <- loop

(* A file has a name, characters are no zeros, and arrays have a size. *)
ASSUME CommandAssumption ==
    /\ NUL \notin C!Char /\ NUL # Leftover
    /\ MaxLine \in Nat /\ ArgSize \in Nat \ {0} /\ Asked \subseteq Nat
    /\ <<>> \notin Programs

(* Words have whole hexadecimal digits; what a power of two is. *)
ASSUME NumbersAssumption ==
    /\ Width \in Nat \ {0} /\ Width % 4 = 0
    /\ 2 ^ 0 = 1
    /\ \A n \in 0 .. Width : 2 ^ n \in Nat \ {0} /\ (n > 0 => 2 ^ n = 2 * 2 ^ (n - 1))

LibraryInit ==
    /\ subject \in {"memory", "command", "numbers"}
    /\ Init /\ C!Init /\ N!Init

LibraryNext ==
    \/ subject = "memory" /\ Next /\ UNCHANGED <<subject, commandVars, numberVars>>
    \/ subject = "command" /\ C!Next /\ UNCHANGED <<subject, vars, numberVars>>
    \/ subject = "numbers" /\ N!Next /\ UNCHANGED <<subject, vars, commandVars>>

LibrarySpec == LibraryInit /\ [][LibraryNext]_libraryVars

(* A program is given the argument that was typed; see Command. *)
CommandSplit == C!CommandSplit

(* printf prints the number it is given; see Numbers. *)
NumberPrinted == N!NumberPrinted
=============================================================================
