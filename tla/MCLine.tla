------------------------------ MODULE MCLine ------------------------------
(***************************************************************************)
(* Instances of Line for TLC, and the refinement of Editors.               *)
(***************************************************************************)
EXTENDS Line

Alphabet == {"l", " "}
Directory == {<<"l", "l">>, <<" ", "l">>}
NoFile == {}

(***************************************************************************)
(* The buffer of a terminal is the one of the keyboard or a saved one; in  *)
(* a switch all are saved.                                                 *)
(***************************************************************************)
BufferOf(t) ==
    IF t = display /\ handler.pc \notin {"stored", "named"}
    THEN [buf |-> keyboard_buffer, idx |-> kb_buf_idx] ELSE saved[t]

(* What is typed stands before the index, and what is entered up to a       *)
(* newline; before its first shell a terminal has neither.                 *)
LineOf(t) ==
    IF t \in started THEN [i \in 1 .. BufferOf(t).idx |-> BufferOf(t).buf[i - 1]] ELSE <<>>

EnteredAt(t) ==
    LET found == {i \in Cell : BufferOf(t).buf[i] = NL}
        first == CHOOSE i \in found : \A j \in found : i <= j
    IN  IF t \in started /\ found # {}
        THEN [i \in 1 .. first + 1 |-> BufferOf(t).buf[i - 1]] ELSE <<>>

(* The lines that the process of a terminal has read. *)
PastOf(t) == [n \in DOMAIN got[t] |-> SubSeq(sent[t][n], 1, Len(sent[t][n]) - 1)]

Abstract == INSTANCE Editors WITH
    Screen <- Terminal, Sign <- Letters, Newline <- NL, Name <- Names, Size <- Sizes,
    front <- display,
    line <- [t \in Terminal |-> LineOf(t)],
    entered <- [t \in Terminal |-> EnteredAt(t)],
    past <- [t \in Terminal |-> PastOf(t)],
    at <- command_count,
    answer <- got,
    lost <- wild

(***************************************************************************)
(* The keyboard handler, terminal_shift and terminal_read, with one buffer *)
(* for all terminals, behave as a line editor for each of them.            *)
(***************************************************************************)
ImplementsEditors == Abstract!Spec
=============================================================================
