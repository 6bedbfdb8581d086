------------------------------ MODULE Editors ------------------------------
(***************************************************************************)
(* What the keyboard, the switch between terminals and the read of a line  *)
(* promise: every terminal has a line editor of its own, a place for one   *)
(* line that has been entered, and a history of the lines that its process *)
(* has read.  There is no shared buffer here, no switch under way and no   *)
(* array with an end.                                                      *)
(***************************************************************************)
EXTENDS Integers, Sequences, SequencesExt

CONSTANTS Screen, Sign, Ell, Newline, Name, Size

VARIABLES
    front,      \* the terminal on the screen
    line,       \* terminal -> the letters typed
    entered,    \* terminal -> the line that waits for its process, or <<>>
    past, at,   \* terminal -> the lines read, and where UP and DOWN are in them
    answer,     \* terminal -> what the reads have returned
    lost        \* an array of the kernel has been left: nothing is promised
vars == <<front, line, entered, past, at, answer, lost>>

Init ==
    /\ front = 0
    /\ line = [t \in Screen |-> <<>>] /\ entered = [t \in Screen |-> <<>>]
    /\ past = [t \in Screen |-> <<>>] /\ at = [t \in Screen |-> 0]
    /\ answer = [t \in Screen |-> <<>>]
    /\ lost = FALSE

(* The line on the screen becomes s; no line waits behind it. *)
Edit(s) ==
    /\ ~lost /\ entered[front] = <<>>
    /\ line' = [line EXCEPT ![front] = s]
    /\ UNCHANGED <<front, entered, past, answer, lost>>

Type(c) == Edit(Append(line[front], c)) /\ UNCHANGED at
Erase == line[front] # <<>> /\ Edit(Front(line[front])) /\ UNCHANGED at
Clear == (Edit(<<>>) \/ Edit(<<Ell>>)) /\ UNCHANGED at

(* The last letters of the line are the first of a name: the rest is added. *)
Complete(name, k) ==
    /\ IsPrefix(SubSeq(line[front], k + 1, Len(line[front])), name)
    /\ Edit(SubSeq(line[front], 1, k) \o name)
    /\ UNCHANGED at

(* UP stops at the first line of the history, DOWN goes on to an empty one. *)
Recall(n) ==
    /\ at' = [at EXCEPT ![front] = n]
    /\ Edit(IF n < Len(past[front]) THEN past[front][n + 1] ELSE <<>>)
Up == Recall(IF at[front] = 0 THEN 0 ELSE at[front] - 1)
Down == Recall(IF at[front] + 1 < Len(past[front]) THEN at[front] + 1 ELSE Len(past[front]))

Submit ==
    /\ ~lost /\ entered[front] = <<>>
    /\ entered' = [entered EXCEPT ![front] = Append(line[front], Newline)]
    /\ line' = [line EXCEPT ![front] = <<>>]
    /\ UNCHANGED <<front, past, at, answer, lost>>

(* The process of the terminal on the screen asks for num bytes. *)
Take(num) ==
    LET whole == entered[front] IN
    /\ ~lost /\ whole # <<>>
    /\ answer' = [answer EXCEPT ![front] = Append(@,
           [num |-> num,
            bytes |-> SubSeq(whole, 1, IF num < Len(whole) THEN num ELSE Len(whole))])]
    /\ past' = [past EXCEPT ![front] = Append(@, Front(whole))]
    /\ at' = [at EXCEPT ![front] = Len(past'[front])]
    /\ entered' = [entered EXCEPT ![front] = <<>>]
    /\ UNCHANGED <<front, line, lost>>

Show(t) ==
    /\ ~lost /\ front' = t
    /\ UNCHANGED <<line, entered, past, at, answer, lost>>

Lose == ~lost /\ lost'

Next ==
    \/ \E c \in Sign : Type(c)
    \/ Erase \/ Clear \/ Up \/ Down \/ Submit
    \/ \E name \in Name, k \in 0 .. Len(line[front]) : Complete(name, k)
    \/ \E num \in Size : Take(num)
    \/ \E t \in Screen : Show(t)
    \/ Lose

Spec == Init /\ [][Next]_vars
=============================================================================
