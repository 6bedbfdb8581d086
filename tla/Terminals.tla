----------------------------- MODULE Terminals -----------------------------
(***************************************************************************)
(* What the process layer promises: every terminal has a stack of          *)
(* processes, the last of which runs whenever the terminal is scheduled.   *)
(* A new process goes on the stack of the terminal that is running, the    *)
(* last one of a stack may leave it, and a process is on one stack only.   *)
(***************************************************************************)
EXTENDS Integers, Sequences, SequencesExt

CONSTANTS Proc, Screen, First

VARIABLES stack, running
vars == <<stack, running>>

Live == UNION {ToSet(stack[t]) : t \in Screen}

Init ==
    /\ stack = [t \in Screen |-> IF t = 0 THEN <<First>> ELSE <<>>]
    /\ running = 0

(* A terminal gets its first shell and runs. *)
Open(t, p) ==
    /\ stack[t] = <<>> /\ p \notin Live
    /\ stack' = [stack EXCEPT ![t] = <<p>>]
    /\ running' = t

(* The running process starts a child and waits for it. *)
Start(p) ==
    /\ p \notin Live
    /\ stack' = [stack EXCEPT ![running] = Append(@, p)]
    /\ UNCHANGED running

(* The running process ends; the one that started it goes on. *)
Finish ==
    /\ Len(stack[running]) > 1
    /\ stack' = [stack EXCEPT ![running] = Front(@)]
    /\ UNCHANGED running

Schedule(t) ==
    /\ stack[t] # <<>>
    /\ running' = t
    /\ UNCHANGED stack

Next ==
    \/ \E t \in Screen, p \in Proc : Open(t, p)
    \/ \E p \in Proc : Start(p)
    \/ Finish
    \/ \E t \in Screen : Schedule(t)

Spec == Init /\ [][Next]_vars
=============================================================================
