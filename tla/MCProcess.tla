----------------------------- MODULE MCProcess -----------------------------
(***************************************************************************)
(* Instances of Process for TLC, and the refinement of Terminals.          *)
(***************************************************************************)
EXTENDS ProcessInv

(***************************************************************************)
(* The stack of a terminal, read off its current process and its parent:   *)
(* without shells started from shells no stack is higher than two.         *)
(***************************************************************************)
StackOf(t) ==
    LET p == pcb_array[t] IN
    IF p = NoProc THEN <<>>
    ELSE IF parent_id[p] = p THEN <<p>> ELSE <<parent_id[p], p>>

(* terminal_shift moves terminal_now before the new terminal has a shell. *)
Abstract == INSTANCE Terminals WITH
    Proc <- Id, Screen <- Term, First <- 0,
    stack <- [t \in Term |-> StackOf(t)],
    running <- IF InKernel("open") THEN Top(cpu).last ELSE terminal_now

(* execute, halt, pit_handler and terminal_shift implement Terminals. *)
ImplementsTerminals == Abstract!Spec
=============================================================================
