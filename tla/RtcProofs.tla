----------------------------- MODULE RtcProofs -----------------------------
(***************************************************************************)
(* Proofs about the real-time clock, for any number of readers, any width  *)
(* of the words and any rates that are written.                            *)
(***************************************************************************)
EXTENDS Rtc, TLAPS

(***************************************************************************)
(* A reader that waits with the flag up has seen a tick (NoEarlyFlag), and *)
(* the one that began last has the flag up if it has (LastIsTold).         *)
(***************************************************************************)
Readers ==
    /\ running \in Proc /\ last \in Proc
    /\ at \in [Proc -> {"user", "reading", "killed"}]
    /\ ticked \in [Proc -> BOOLEAN]
NoEarlyFlag == \A p \in Proc : at[p] = "reading" /\ rtc_flg # 0 => ticked[p]
LastIsTold == at[last] = "reading" /\ ticked[last] => rtc_flg = 1
FlagInv == Readers /\ NoEarlyFlag /\ LastIsTold

LEMMA FlagInit == Init => FlagInv
  <1>1. 0 \in Proc
    BY RtcAssumption DEF Proc
  <1> QED BY <1>1 DEF Init, FlagInv, Readers, NoEarlyFlag, LastIsTold

LEMMA FlagNext == FlagInv /\ [Next]_vars => FlagInv'
  <1> SUFFICES ASSUME FlagInv, [Next]_vars PROVE FlagInv'
    OBVIOUS
  <1> USE DEF FlagInv, Readers, NoEarlyFlag, LastIsTold
  <1>1. CASE Handler
    <2>1. CASE (counter - 1) % Word = 0
      <3>1. /\ rtc_flg' = 1 /\ ticked' = [p \in Proc |-> at[p] = "reading"]
            /\ UNCHANGED <<running, at, last>>
        BY <1>1, <2>1 DEF Handler, Raised
      <3> QED BY <3>1
    <2>2. CASE (counter - 1) % Word # 0
      <3>1. UNCHANGED <<rtc_flg, ticked, running, at, last>>
        BY <1>1, <2>2 DEF Handler
      <3> QED BY <3>1
    <2> QED BY <2>1, <2>2
  <1>2. CASE Rotate
    <2>1. \A r \in Proc : (r + 1) % NumProc \in Proc
      BY RtcAssumption DEF Proc
    <2> QED BY <1>2, <2>1 DEF Rotate, device
  <1>3. ASSUME NEW p \in Proc, Open(p) PROVE FlagInv'
    BY <1>3 DEF Open
  <1>4. ASSUME NEW p \in Proc, NEW f \in Freqs, Write(p, f) \/ WriteZero(p, f) PROVE FlagInv'
    BY <1>4 DEF Write, WriteZero, device
  <1>5. ASSUME NEW p \in Proc, ReadBegin(p) PROVE FlagInv'
    BY <1>5 DEF ReadBegin, Lowered
  <1>6. ASSUME NEW p \in Proc, ReadEnd(p) PROVE FlagInv'
    BY <1>6 DEF ReadEnd, device
  <1>7. CASE UNCHANGED vars
    BY <1>7 DEF vars, device
  <1> QED BY <1>1, <1>2, <1>3, <1>4, <1>5, <1>6, <1>7 DEF Next

(***************************************************************************)
(* A tick ends the wait of the process that began to read last, whatever   *)
(* rates are written meanwhile: its flag is not lowered by anybody.        *)
(***************************************************************************)
THEOREM LastReaderWakes == Spec => []TickWakes
  <1>1. FlagInv => TickWakes
    BY DEF FlagInv, LastIsTold, TickWakes, Polls
  <1> QED BY <1>1, FlagInit, FlagNext, PTL DEF Spec

(***************************************************************************)
(* rtc_read returns to no process before a tick.                           *)
(***************************************************************************)
THEOREM ReadersWait == Spec => ReadWaits
  <1> DEFINE Waits == \A p \in Proc : at[p] = "reading" /\ at'[p] = "user" => ticked[p]
  <1>1. FlagInv /\ [Next]_vars => [Waits]_vars
    <2> SUFFICES ASSUME FlagInv, [Next]_vars, NEW p \in Proc, at[p] = "reading", at'[p] = "user"
                 PROVE  ticked[p]
      BY DEF FlagInv
    <2>1. PICK q \in Proc : ReadEnd(q)
      BY DEF Next, Handler, Rotate, Open, Write, WriteZero, ReadBegin, vars, FlagInv, Readers
    <2>2. q = p /\ rtc_flg # 0
      BY <2>1 DEF ReadEnd, FlagInv, Readers
    <2> QED BY <2>2 DEF FlagInv, NoEarlyFlag
  <1> QED BY <1>1, FlagInit, FlagNext, PTL DEF Spec, ReadWaits

(***************************************************************************)
(* The divider and the counter stay in 1 .. MaxFreq: no rate that is       *)
(* written stops or wraps the count, as long as nobody asks for the one    *)
(* negative number that rtc_write accepts.                                 *)
(***************************************************************************)
THEOREM CounterInRange ==
    ASSUME \A f \in Freqs : Accepted(f) => f >= 0
    PROVE  Spec => []TypeOK
  <1> USE RtcAssumption, WordAssumption
  <1>1. InitialCount \in 1 .. MaxFreq
    BY DEF InitialCount
  <1>2. \A k \in 0 .. MaxFreq : k % Word = k
    BY DEF Word
  <1>3. Init => TypeOK
    BY <1>1 DEF Init, TypeOK, Proc
  <1>4. TypeOK /\ [Next]_vars => TypeOK'
    <2> SUFFICES ASSUME TypeOK, [Next]_vars PROVE TypeOK'
      OBVIOUS
    <2> USE DEF TypeOK
    <2>1. CASE Handler
      <3>1. counter - 1 \in 0 .. MaxFreq /\ (counter - 1) % Word = counter - 1
        BY <1>2
      <3>2. UNCHANGED <<rtc_ct, running, at, last>>
        BY <2>1 DEF Handler
      <3>3. CASE counter - 1 = 0
        BY <2>1, <3>1, <3>2, <3>3 DEF Handler, Raised, Reloaded
      <3>4. CASE counter - 1 # 0
        <4>1. counter' = counter - 1 /\ UNCHANGED <<rtc_flg, ticked>>
          BY <2>1, <3>1, <3>4 DEF Handler
        <4> QED BY <3>1, <3>2, <3>4, <4>1
      <3> QED BY <3>3, <3>4
    <2>2. CASE Rotate
      <3>1. running' \in Proc
        BY <2>2 DEF Rotate, Proc
      <3> QED BY <2>2, <3>1 DEF Rotate, device
    <2>3. ASSUME NEW p \in Proc, Open(p) PROVE TypeOK'
      BY <2>3, <1>1 DEF Open
    <2>4. ASSUME NEW p \in Proc, NEW f \in Freqs, Write(p, f) PROVE TypeOK'
      <3>1. f \in 1 .. MaxFreq
        BY <2>4 DEF Write, Accepted
      <3>2. MaxFreq \div f \in 1 .. MaxFreq /\ Quotient(MaxFreq, f) = MaxFreq \div f
        BY <3>1 DEF Quotient
      <3>3. rtc_ct' \in 1 .. MaxFreq
        BY <2>4, <3>2, <1>2 DEF Write
      <3> QED BY <2>4, <3>3 DEF Write
    <2>5. ASSUME NEW p \in Proc, NEW f \in Freqs, WriteZero(p, f) PROVE TypeOK'
      BY <2>5 DEF WriteZero, device
    <2>6. ASSUME NEW p \in Proc, ReadBegin(p) PROVE TypeOK'
      BY <2>6 DEF ReadBegin, Lowered
    <2>7. ASSUME NEW p \in Proc, ReadEnd(p) PROVE TypeOK'
      BY <2>7 DEF ReadEnd, device
    <2>8. CASE UNCHANGED vars
      BY <2>8 DEF vars, device
    <2> QED BY <2>1, <2>2, <2>3, <2>4, <2>5, <2>6, <2>7, <2>8 DEF Next
  <1> QED BY <1>3, <1>4, PTL DEF Spec

=============================================================================
