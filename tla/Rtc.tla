-------------------------------- MODULE Rtc --------------------------------
(***************************************************************************)
(* The real-time clock (rtc.c).  All processes share one divider, one      *)
(* counter and one flag: rtc_open and rtc_write set the divider, the       *)
(* interrupt handler counts down and raises the flag, and rtc_read lowers  *)
(* it and polls until it is raised again, with interrupts on.  Only the    *)
(* process of the running terminal polls.                                  *)
(*                                                                         *)
(* Words are Width bits wide; a frequency is the signed value of a word.   *)
(***************************************************************************)
EXTENDS Integers

CONSTANTS
    NumProc,   \* processes with the device open, one per terminal
    Width,     \* 32
    MaxFreq,   \* RTC_FREQ_INITI, the rate of the interrupt (1024)
    DefFreq,   \* RTC_FREQ_ACTU (2)
    Freqs      \* what processes write

Proc == 0 .. NumProc - 1
Word == 2 ^ Width

ASSUME RtcAssumption ==
    /\ NumProc \in Nat \ {0} /\ Width \in Nat \ {0, 1}
    /\ MaxFreq \in 1 .. 2 ^ (Width - 1) - 1 /\ DefFreq \in 1 .. MaxFreq
    /\ Freqs \subseteq -(2 ^ (Width - 1)) .. 2 ^ (Width - 1) - 1
(* Known of powers, but not to the provers. *)
ASSUME WordAssumption ==
    Word \in Nat /\ 2 ^ (Width - 1) \in Nat /\ 2 ^ (Width - 1) < Word

VARIABLES
    rtc_ct,   \* interrupts per tick
    counter,  \* interrupts until the next tick
    rtc_flg,
    running,  \* the process of the running terminal
    at,       \* "user", "reading" or "killed"
    ticked,   \* history: there was a tick since the process began to read
    last      \* history: the process that began to read last

device == <<rtc_ct, counter, rtc_flg>>
vars == <<device, running, at, ticked, last>>

InitialCount == MaxFreq \div DefFreq

(* rtc_init *)
Init ==
    /\ rtc_ct = InitialCount /\ counter = InitialCount /\ rtc_flg = 0
    /\ running = 0
    /\ at = [p \in Proc |-> "user"]
    /\ ticked = [p \in Proc |-> FALSE] /\ last = 0

NotReloaded == 0                                                  \* mutant
Reloaded == rtc_ct
FlagForgotten == rtc_flg                                          \* mutant
Raised == 1

(* rtc_handler *)
Handler ==
    LET left == (counter - 1) % Word IN
    /\ IF left = 0
       THEN /\ counter' = Reloaded /\ rtc_flg' = Raised
            /\ ticked' = [p \in Proc |-> at[p] = "reading"]
       ELSE counter' = left /\ UNCHANGED <<rtc_flg, ticked>>
    /\ UNCHANGED <<rtc_ct, running, at, last>>

Runs(p) == running = p /\ at[p] = "user"

(* rtc_open *)
Open(p) ==
    /\ Runs(p)
    /\ rtc_ct' = InitialCount
    /\ UNCHANGED <<counter, rtc_flg, running, at, ticked, last>>

(* freq & (freq - 1) is 0 for the words with at most one bit set. *)
AtMostOneBit(f) == f % Word \in {0} \cup {2 ^ k : k \in 0 .. Width - 1}
Accepted(f) == f <= MaxFreq /\ AtMostOneBit(f)

(* The quotient of C, rounded towards zero. *)
Quotient(a, f) == IF f > 0 THEN a \div f ELSE -(a \div (-f))

Write(p, f) ==
    /\ Runs(p) /\ Accepted(f) /\ f # 0
    /\ rtc_ct' = Quotient(MaxFreq, f) % Word
    /\ UNCHANGED <<counter, rtc_flg, running, at, ticked, last>>

(* The division by zero ends the process. *)
WriteZero(p, f) ==
    /\ Runs(p) /\ Accepted(f) /\ f = 0
    /\ at' = [at EXCEPT ![p] = "killed"]
    /\ UNCHANGED <<device, running, ticked, last>>

FlagKept == rtc_flg                                               \* mutant
Lowered == 0

ReadBegin(p) ==
    /\ Runs(p)
    /\ rtc_flg' = Lowered
    /\ at' = [at EXCEPT ![p] = "reading"]
    /\ ticked' = [ticked EXCEPT ![p] = FALSE] /\ last' = p
    /\ UNCHANGED <<rtc_ct, counter, running>>

Polls(p) == running = p /\ at[p] = "reading"

(* The loop goes on while the flag is 0. *)
ReadEnd(p) ==
    /\ Polls(p) /\ rtc_flg # 0
    /\ at' = [at EXCEPT ![p] = "user"]
    /\ UNCHANGED <<device, running, ticked, last>>

(* The timer gives the CPU to the next terminal (Process). *)
Rotate ==
    /\ running' = (running + 1) % NumProc
    /\ UNCHANGED <<device, at, ticked, last>>

Next ==
    \/ Handler \/ Rotate
    \/ \E p \in Proc :
        \/ Open(p) \/ ReadBegin(p) \/ ReadEnd(p)
        \/ \E f \in Freqs : Write(p, f) \/ WriteZero(p, f)

Spec == Init /\ [][Next]_vars

(***************************************************************************)
(* The chip interrupts again and again, the scheduler rotates, and a       *)
(* process that is run again and again with the flag up leaves its loop.   *)
(***************************************************************************)
FairSpec ==
    Spec /\ WF_vars(Handler) /\ WF_vars(Rotate) /\ \A p \in Proc : SF_vars(ReadEnd(p))

-----------------------------------------------------------------------------
(* The counter neither stops nor wraps: a tick comes within a second. *)
TypeOK ==
    /\ rtc_ct \in 1 .. MaxFreq /\ counter \in 1 .. MaxFreq
    /\ rtc_flg \in {0, 1} /\ running \in Proc
    /\ at \in [Proc -> {"user", "reading", "killed"}]
    /\ ticked \in [Proc -> BOOLEAN] /\ last \in Proc

(* A read returns only if there was a tick since it began. *)
ReadWaits ==
    [][\A p \in Proc : at[p] = "reading" /\ at'[p] = "user" => ticked[p]]_vars

(* The process that began to read last does not go on waiting when it polls *)
(* after a tick: the shared flag is lowered by no one but a later reader.    *)
TickWakes == Polls(last) /\ ticked[last] => rtc_flg = 1

(* It returns, whatever the others do to the rate, unless another process   *)
(* begins to read meanwhile.                                                *)
ReadReturns ==
    \A p \in Proc : at[p] = "reading" /\ last = p ~> at[p] = "user" \/ last # p

(* The same of every reader.  The flag of all is lowered by each.           *)
EveryTickWakes == \A p \in Proc : Polls(p) /\ ticked[p] => rtc_flg = 1

(* The rate a process reads at is changed by itself only. *)
RateIsOwn ==
    [][\A p \in Proc : at[p] = "reading" => rtc_ct' = rtc_ct]_vars

(* rtc_write takes the powers of two up to 1024 and refuses all else. *)
RateChecked ==
    [][\A p \in Proc : Runs(p) =>
          /\ at'[p] # "killed"
          /\ rtc_ct' # rtc_ct => \E k \in 0 .. Width - 1 : rtc_ct' * 2 ^ k = MaxFreq]_vars
=============================================================================
