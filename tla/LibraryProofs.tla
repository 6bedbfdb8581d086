---------------------------- MODULE LibraryProofs ----------------------------
(***************************************************************************)
(* The functions of the library do what their callers rely on: memcpy,     *)
(* memset and memmove for every size of the memory, every alignment,       *)
(* length and overlap; the split of a line and getargs for lines and       *)
(* arrays of every length; printf for every width of a word.               *)
(*                                                                         *)
(* Memory.  The loops keep the number of bytes left in different           *)
(* registers, in units of bytes or words (Count).  What has been stored is *)
(* the piece behind edi, or, downwards, above it (Filled); it holds what   *)
(* is wanted and the rest of the memory what it held at the call           *)
(* (Progress), so that a byte still to be read has not been overwritten.   *)
(*                                                                         *)
(* Command.  Where the loops of execute stop is where the blanks and the   *)
(* words of the line end; there is such a place because a set of numbers   *)
(* has a least one (Least).  The PCB then holds the argument of the line   *)
(* (Launched), and getargs has told it (Told).                             *)
(*                                                                         *)
(* Numbers.  The quotients that itoa has had, h, witness what the text     *)
(* denotes: u[i], the value of the first i digits, is a quotient, and the  *)
(* recursion of Denotes has no other solution (Denoted, by the least place *)
(* at which two solutions differ).  A division takes three or four bits    *)
(* off the number, so the text fits the buffer (Fit, Room).                *)
(***************************************************************************)
EXTENDS Library, FiniteSetTheorems, SequenceTheorems, WellFoundedInduction, TLAPS

-----------------------------------------------------------------------------
(* Memory *)

End == call.dest + call.n

Loops == {"top", "words", "bottom"}
Labels == Loops \cup {"idle", "direction", "bytes", "done"}

Types ==
    /\ pc \in Labels
    /\ edi \in Int /\ esi \in Int /\ ecx \in Nat /\ edx \in Nat /\ step \in {1, -1}
    /\ mem \in [Addr -> Byte] /\ old \in [Addr -> Byte]
    /\ pc # "idle" => call \in Calls /\ Allowed(call)

(* Which function is in which loop. *)
InLoop ==
    /\ pc \in Loops => call.fn \in {"memcpy", "memset"}
    /\ pc \in {"direction", "bytes"} => call.fn = "memmove"
    /\ pc = "direction" => ecx = call.n /\ edi = call.dest /\ esi = call.src
    /\ pc = "bytes" => (step = 1 <=> Forward)

Upwards == pc \in Loops \/ (pc = "bytes" /\ step = 1)
Downwards == pc = "bytes" /\ step = -1

(* Where the pointers stand, and how much is left. *)
Count ==
    /\ Upwards => edi >= call.dest
    /\ Upwards /\ call.fn # "memset" => esi - edi = call.src - call.dest
    /\ pc \in {"top", "bytes"} /\ Upwards => edi + ecx = End
    /\ pc = "words" => edi + 4 * ecx + edx = End
    /\ pc = "bottom" => edi + edx = End
    /\ Downwards => edi = call.dest + ecx - 1 /\ esi = call.src + ecx - 1 /\ ecx <= call.n

Filled ==
    IF Upwards THEN call.dest .. edi - 1
    ELSE IF Downwards THEN edi + 1 .. End - 1
    ELSE IF pc = "done" THEN Target(call) ELSE {}

Progress == \A a \in Addr : mem[a] = IF a \in Filled THEN Wanted(a) ELSE old[a]

Inv == Types /\ InLoop /\ Count /\ Progress

(* A call and its arguments. *)
LEMMA CallType ==
    ASSUME NEW c \in Calls, Allowed(c)
    PROVE  /\ c.fn \in {"memcpy", "memset", "memmove"}
           /\ c.dest \in Nat /\ c.src \in Nat /\ c.n \in Nat
           /\ c.dest + c.n <= Size
           /\ c.fn # "memset" => c.src + c.n <= Size
           /\ c.fn = "memset" => c.c \in Byte
           /\ c.fn = "memcpy" => c.dest <= c.src \/ c.src + c.n <= c.dest
  BY MemoryAssumption DEF Calls, Allowed

(* The destination lies in memory. *)
LEMMA DestType ==
    ASSUME Inv, pc # "idle"
    PROVE  call.dest \in Nat /\ call.src \in Nat /\ call.n \in Nat /\ End \in Nat
  BY CallType DEF Inv, Types, End

(* Going upwards, the next bytes to store are the wanted ones. *)
LEMMA StoredUp ==
    ASSUME Inv, Upwards, NEW k \in Nat, edi + k < End
    PROVE  /\ edi + k \in Addr /\ edi + k \in Target(call)
           /\ Stored(k) = Wanted(edi + k) /\ Stored(k) \in Byte
  <1>1. call \in Calls /\ Allowed(call)
    BY DEF Inv, Types, Upwards, Loops
  <1> USE CallType, <1>1
  <1>2. edi \in Nat /\ edi + k \in Addr /\ edi + k \in Target(call)
    BY MemoryAssumption DEF Inv, Types, Count, End, Addr, Target
  <1>3. CASE call.fn = "memset"
    BY <1>2, <1>3 DEF Stored, Wanted
  <1>4. CASE call.fn # "memset"
    <2>1. esi + k = call.src + (edi + k - call.dest) /\ esi \in Int
      BY <1>4, <1>2 DEF Inv, Count, Types
    <2>2. esi + k \in Addr
      <3>1. /\ call.dest \in Nat /\ call.src \in Nat /\ call.n \in Nat /\ call.src + call.n <= Size
            /\ Size \in Nat
        BY <1>4, MemoryAssumption
      <3>2. edi >= call.dest /\ edi + k < call.dest + call.n
        BY DEF Inv, Count, End
      <3> QED BY <1>2, <2>1, <3>1, <3>2 DEF Addr
    <2>3. call.dest <= call.src \/ call.src + call.n <= call.dest
      BY <1>4 DEF Inv, InLoop, Upwards, Forward, Loops
    <2>4. esi + k \notin Filled
      BY <2>1, <2>3, <1>2 DEF Inv, Count, Filled, End
    <2>5. mem[esi + k] = old[esi + k]
      BY <2>2, <2>4 DEF Inv, Progress
    <2>6. old[esi + k] \in Byte
      BY <2>2 DEF Inv, Types
    <2> QED BY <1>2, <1>4, <2>1, <2>5, <2>6 DEF Stored, Wanted
  <1> QED BY <1>3, <1>4

(* Going downwards too. *)
LEMMA StoredDown ==
    ASSUME Inv, Downwards, ecx # 0
    PROVE  edi \in Addr /\ edi \in Target(call) /\ Stored(0) = Wanted(edi) /\ Stored(0) \in Byte
  <1>1. call \in Calls /\ Allowed(call) /\ call.fn = "memmove" /\ call.src < call.dest
    BY CallType DEF Inv, Types, Downwards, InLoop, Forward
  <1> USE CallType, <1>1
  <1>0. /\ call.dest \in Nat /\ call.src \in Nat /\ call.n \in Nat /\ ecx \in Nat /\ Size \in Nat
        /\ call.dest + call.n <= Size
        /\ edi = call.dest + ecx - 1 /\ esi = call.src + ecx - 1 /\ ecx <= call.n
    BY MemoryAssumption DEF Inv, Types, Count
  <1>2. edi \in Addr /\ edi \in Target(call)
    BY <1>0 DEF Addr, Target
  <1>3. esi = call.src + (edi - call.dest) /\ esi \in Addr /\ esi < edi /\ esi + 0 = esi
    BY <1>0 DEF Addr
  <1>4. esi \notin Filled
    BY <1>3 DEF Inv, Types, Filled, Upwards, Downwards, Loops, End
  <1>5. mem[esi] = old[esi] /\ old[esi] \in Byte
    BY <1>3, <1>4 DEF Inv, Progress, Types
  <1> QED BY <1>2, <1>3, <1>5 DEF Stored, Wanted

-----------------------------------------------------------------------------
LEMMA InvInit == Init => Inv
  <1> SUFFICES ASSUME Init PROVE Inv
    OBVIOUS
  <1>1. Types
    BY MemoryAssumption DEF Init, Types, Labels
  <1>2. InLoop /\ Count
    BY DEF Init, InLoop, Count, Upwards, Downwards, Loops
  <1>3. Progress
    BY <1>1 DEF Init, Types, Progress, Filled, Upwards, Downwards, Loops
  <1> QED BY <1>1, <1>2, <1>3 DEF Inv

(* A function is called. *)
LEMMA InvCall ==
    ASSUME Inv, pc = "idle", NEW c \in Calls, Call(c)
    PROVE  Inv'
  <1>a. Allowed(c) /\ call' = c
    BY DEF Call
  <1> USE <1>a, CallType
  <1>1. Types'
    BY DEF Inv, Types, Labels, Loops, Call, Allowed
  <1>2. InLoop'
    BY DEF Inv, Types, InLoop, Call, Loops
  <1>3. Count'
    BY DEF Inv, Types, Count, Upwards, Downwards, Loops, Call, End
  <1>4. Filled' = {}
    BY DEF Inv, Types, Filled, Upwards, Downwards, Loops, Call
  <1>5. Progress'
    BY <1>4 DEF Inv, Types, Progress, Call
  <1> QED BY <1>1, <1>2, <1>3, <1>5 DEF Inv

(* A single byte, going upwards; d is what the loop does to its count. *)
LEMMA ByteUp ==
    ASSUME Inv, Upwards, Upwards', edi < End, pc' = pc, UNCHANGED <<call, old>>,
           mem' = [mem EXCEPT ![edi] = Stored(0)], edi' = edi + 1
    PROVE  mem' \in [Addr -> Byte] /\ Progress'
  <1>1. 0 \in Nat /\ edi + 0 = edi
    BY DEF Inv, Types
  <1>2. edi \in Addr /\ edi \in Target(call) /\ Stored(0) = Wanted(edi) /\ Stored(0) \in Byte
    BY <1>1, StoredUp
  <1>3. mem' \in [Addr -> Byte]
    BY <1>2 DEF Inv, Types
  <1>4. \A a \in Int : a \in Filled' <=> a \in Filled \/ a = edi
    BY DEF Inv, Types, Count, Filled
  <1>5. \A a : Wanted(a)' = Wanted(a)
    BY DEF Wanted, Target
  <1>6. Progress'
    BY <1>2, <1>4, <1>5 DEF Inv, Types, Progress, Addr
  <1> QED BY <1>3, <1>6

LEMMA InvTopByte == Inv /\ TopByte => Inv'
  <1> SUFFICES ASSUME Inv, TopByte PROVE Inv'
    OBVIOUS
  <1>1. Upwards /\ Upwards' /\ edi < End
    BY DEF Inv, Types, Count, TopByte, Upwards, Loops
  <1>2. mem' \in [Addr -> Byte] /\ Progress'
    BY <1>1, ByteUp DEF TopByte, StoreByte, Advance
  <1>3. Types'
    BY <1>2 DEF Inv, Types, TopByte, StoreByte, Advance, Allowed
  <1>4. InLoop'
    BY DEF Inv, InLoop, Loops, TopByte
  <1>5. Count'
    <2>1. End' = End /\ End \in Nat /\ call.dest \in Nat /\ call.src \in Nat
      BY DestType DEF TopByte, End
    <2> QED BY <1>1, <2>1 DEF Inv, Types, Count, Upwards, Downwards, TopByte, StoreByte, Advance
  <1> QED BY <1>2, <1>3, <1>4, <1>5 DEF Inv

LEMMA InvBottomByte == Inv /\ BottomByte => Inv'
  <1> SUFFICES ASSUME Inv, BottomByte PROVE Inv'
    OBVIOUS
  <1>1. Upwards /\ Upwards' /\ edi < End
    BY DEF Inv, Types, Count, BottomByte, Upwards, Loops
  <1>2. mem' \in [Addr -> Byte] /\ Progress'
    BY <1>1, ByteUp DEF BottomByte, StoreByte, Advance
  <1>3. Types'
    BY <1>2 DEF Inv, Types, BottomByte, StoreByte, Advance, Allowed
  <1>4. InLoop'
    BY DEF Inv, InLoop, Loops, BottomByte
  <1>5. Count'
    <2>1. End' = End /\ End \in Nat /\ call.dest \in Nat /\ call.src \in Nat
      BY DestType DEF BottomByte, End
    <2> QED BY <1>1, <2>1 DEF Inv, Types, Count, Upwards, Downwards, BottomByte, StoreByte, Advance
  <1> QED BY <1>2, <1>3, <1>4, <1>5 DEF Inv

(* A word. *)
LEMMA InvStoreWord == Inv /\ StoreWord => Inv'
  <1> SUFFICES ASSUME Inv, StoreWord PROVE Inv'
    OBVIOUS
  <1>a. End' = End /\ End \in Nat /\ call.dest \in Nat /\ call.src \in Nat
    BY DestType DEF StoreWord, End
  <1>1. Upwards /\ Upwards' /\ edi + 4 <= End /\ edi \in Int
    BY <1>a DEF Inv, Types, Count, StoreWord, Upwards, Loops
  <1>2. ASSUME NEW a \in edi .. edi + 3
        PROVE  a \in Addr /\ Stored(a - edi) = Wanted(a) /\ Stored(a - edi) \in Byte
    <2>1. a - edi \in Nat /\ edi + (a - edi) = a /\ a < End
      BY <1>1, <1>a
    <2> QED BY <1>1, <2>1, StoredUp
  <1>3. mem' \in [Addr -> Byte]
    BY <1>2 DEF StoreWord, Inv, Types
  <1>4. \A a \in Int : a \in Filled' <=> a \in Filled \/ a \in edi .. edi + 3
    BY <1>1, <1>a DEF Inv, Count, Filled, StoreWord, Advance
  <1>5. \A a : Wanted(a)' = Wanted(a)
    BY DEF Wanted, Target, StoreWord
  <1>6. Progress'
    BY <1>2, <1>4, <1>5 DEF Inv, Progress, Addr, StoreWord
  <1>7. Types'
    BY <1>3 DEF Inv, Types, StoreWord, Advance, Allowed
  <1>8. InLoop'
    BY DEF Inv, InLoop, Loops, StoreWord
  <1>9. Count'
    BY <1>1, <1>a DEF Inv, Types, Count, Upwards, Downwards, StoreWord, Advance
  <1> QED BY <1>6, <1>7, <1>8, <1>9 DEF Inv

(* The steps of memcpy and memset from one loop to the next. *)
LEMMA InvNextLoop ==
    ASSUME Inv, TopDone \/ TopAligned \/ WordsDone \/ BottomDone
    PROVE  Inv'
  <1>1. Upwards /\ UNCHANGED <<call, edi, esi, mem, old>>
    BY DEF TopDone, TopAligned, WordsDone, BottomDone, registers, Upwards, Loops
  <1>2. End' = End /\ End \in Nat /\ call.dest \in Nat /\ call.n \in Nat
    BY <1>1, DestType DEF End, Upwards, Loops
  <1>3. /\ pc' \in {"words", "bottom", "done"}
        /\ ecx' \in Nat /\ edx' \in Nat /\ step' \in {1, -1}
        /\ pc' = "words" => edi + 4 * ecx' + edx' = End
        /\ pc' = "bottom" => edi + edx' = End
        /\ pc' = "done" => edi = End
    BY <1>2 DEF Inv, Types, Count, Upwards, Loops, TopDone, TopAligned, WordsDone, BottomDone, registers
  <1>4. Types'
    BY <1>1, <1>3 DEF Inv, Types, Labels, Loops, Upwards, Allowed
  <1>5. InLoop'
    BY <1>1, <1>3 DEF Inv, InLoop, Loops, TopDone, TopAligned, WordsDone, BottomDone
  <1>6. Count'
    BY <1>1, <1>2, <1>3 DEF Inv, Count, Upwards, Downwards, Loops
  <1>7. Filled' = Filled
    BY <1>1, <1>2, <1>3 DEF Filled, Upwards, Downwards, Loops, Target, End, Inv, Types
  <1>8. Progress'
    BY <1>1, <1>7 DEF Inv, Progress, Wanted, Target
  <1> QED BY <1>4, <1>5, <1>6, <1>8 DEF Inv

(* memmove chooses the end it starts from. *)
LEMMA InvDirection == Inv /\ Direction => Inv'
  <1> SUFFICES ASSUME Inv, Direction PROVE Inv'
    OBVIOUS
  <1>1. /\ pc = "direction" /\ pc' = "bytes" /\ UNCHANGED <<call, ecx, edx, mem, old>>
        /\ call.fn = "memmove" /\ ecx = call.n /\ edi = call.dest /\ esi = call.src
    BY DEF Inv, InLoop, Direction
  <1>2. call.dest \in Nat /\ call.src \in Nat /\ call.n \in Nat
    BY <1>1, DestType
  <1>3. IF Forward THEN step' = 1 /\ edi' = edi /\ esi' = esi
        ELSE step' = -1 /\ edi' = edi + ecx - 1 /\ esi' = esi + ecx - 1
    BY DEF Direction
  <1>4. Types'
    BY <1>1, <1>2, <1>3 DEF Inv, Types, Labels, Allowed
  <1>5. InLoop'
    BY <1>1, <1>3 DEF InLoop, Forward, Loops
  <1>6. Count'
    BY <1>1, <1>2, <1>3 DEF Count, Upwards, Downwards, Loops, End
  <1>7. \A a \in Int : a \notin Filled /\ a \notin Filled'
    BY <1>1, <1>2, <1>3 DEF Filled, Upwards, Downwards, Loops, End
  <1>8. Progress'
    BY <1>1, <1>7 DEF Inv, Progress, Addr
  <1> QED BY <1>4, <1>5, <1>6, <1>8 DEF Inv

LEMMA InvMoveByte == Inv /\ MoveByte => Inv'
  <1> SUFFICES ASSUME Inv, MoveByte PROVE Inv'
    OBVIOUS
  <1>1. /\ pc = "bytes" /\ pc' = "bytes" /\ ecx # 0 /\ ecx' = ecx - 1
        /\ UNCHANGED <<call, edx, step, old>> /\ edi' = edi + step /\ esi' = esi + step
    BY DEF Inv, InLoop, MoveByte, Advance
  <1>2. call.dest \in Nat /\ call.src \in Nat /\ call.n \in Nat /\ End \in Nat /\ End' = End
    BY <1>1, DestType DEF End
  <1>3. mem' \in [Addr -> Byte] /\ Progress'
    <2>1. CASE step = 1
      <3>1. Upwards /\ Upwards' /\ edi < End
        BY <1>1, <1>2, <2>1 DEF Upwards, Inv, Types, Count
      <3>2. pc' = pc /\ UNCHANGED <<call, old>> /\ edi' = edi + 1
        BY <1>1, <2>1
      <3>3. mem' = [mem EXCEPT ![edi] = Stored(0)]
        BY DEF MoveByte
      <3> QED BY <3>1, <3>2, <3>3, ByteUp
    <2>2. CASE step = -1
      <3>1. Downwards /\ Downwards'
        BY <1>1, <2>2 DEF Downwards
      <3>2. edi \in Addr /\ edi \in Target(call) /\ Stored(0) = Wanted(edi) /\ Stored(0) \in Byte
        BY <1>1, <3>1, StoredDown
      <3>3. mem' = [mem EXCEPT ![edi] = Stored(0)]
        BY DEF MoveByte
      <3>4. \A a \in Int : a \in Filled' <=> a \in Filled \/ a = edi
        BY <1>1, <1>2, <2>2, <3>1 DEF Inv, Types, Count, Filled, Upwards, Downwards, Loops, End
      <3>5. \A a : Wanted(a)' = Wanted(a)
        BY <1>1 DEF Wanted, Target
      <3> QED BY <1>1, <3>2, <3>3, <3>4, <3>5 DEF Inv, Types, Progress, Addr
    <2> QED BY <2>1, <2>2 DEF Inv, Types
  <1>4. Types'
    BY <1>1, <1>3 DEF Inv, Types, Allowed
  <1>5. InLoop'
    BY <1>1 DEF Inv, InLoop, Loops, Forward
  <1>6. Count'
    BY <1>1, <1>2 DEF Inv, Types, Count, Upwards, Downwards, Loops
  <1> QED BY <1>3, <1>4, <1>5, <1>6 DEF Inv

LEMMA InvBytesDone == Inv /\ BytesDone => Inv'
  <1> SUFFICES ASSUME Inv, BytesDone PROVE Inv'
    OBVIOUS
  <1>1. /\ pc = "bytes" /\ pc' = "done" /\ ecx = 0
        /\ UNCHANGED <<call, edi, esi, ecx, edx, step, mem, old>>
    BY DEF BytesDone, registers
  <1>2. call.dest \in Nat /\ call.src \in Nat /\ call.n \in Nat
    BY <1>1, DestType
  <1>3. Types'
    BY <1>1 DEF Inv, Types, Labels, Allowed
  <1>4. InLoop' /\ Count'
    BY <1>1 DEF InLoop, Count, Upwards, Downwards, Loops
  <1>5. \A a \in Int : a \in Filled' <=> a \in Filled
    BY <1>1, <1>2 DEF Inv, Types, Count, Filled, Upwards, Downwards, Loops, Target, End
  <1>6. Progress'
    BY <1>1, <1>5 DEF Inv, Progress, Wanted, Target, Addr
  <1> QED BY <1>3, <1>4, <1>6 DEF Inv

LEMMA InvReturn == Inv /\ Return => Inv'
  <1> SUFFICES ASSUME Inv, Return PROVE Inv'
    OBVIOUS
  <1>1. Types'
    BY MemoryAssumption DEF Return, Types, Labels
  <1>2. InLoop' /\ Count'
    BY DEF Return, InLoop, Count, Upwards, Downwards, Loops
  <1>3. Progress'
    BY DEF Return, Progress, Filled, Upwards, Downwards, Loops
  <1> QED BY <1>1, <1>2, <1>3 DEF Inv

LEMMA InvNext == Inv /\ [Next]_vars => Inv'
  <1> SUFFICES ASSUME Inv, [Next]_vars PROVE Inv'
    OBVIOUS
  <1>1. CASE pc = "idle" /\ \E c \in Calls : Call(c)
    BY <1>1, InvCall
  <1>2. CASE TopByte \/ StoreWord \/ BottomByte
    BY <1>2, InvTopByte, InvStoreWord, InvBottomByte
  <1>3. CASE TopDone \/ TopAligned \/ WordsDone \/ BottomDone
    BY <1>3, InvNextLoop
  <1>4. CASE Direction \/ MoveByte \/ BytesDone
    BY <1>4, InvDirection, InvMoveByte, InvBytesDone
  <1>5. CASE Return
    BY <1>5, InvReturn
  <1>6. CASE UNCHANGED vars
    <2>1. Types' /\ InLoop' /\ Count'
      BY <1>6 DEF vars, registers, Inv, Types, InLoop, Count, Allowed, Upwards, Downwards, Forward, End
    <2>2. Progress'
      BY <1>6 DEF vars, registers, Inv, Progress, Filled, Upwards, Downwards, End, Target, Wanted
    <2> QED BY <2>1, <2>2 DEF Inv
  <1> QED BY <1>1, <1>2, <1>3, <1>4, <1>5, <1>6 DEF Next

(***************************************************************************)
(* In every behaviour, for every memory: when memcpy, memset or memmove    *)
(* returns, the destination holds what was asked and the rest of the       *)
(* memory what it held before.                                             *)
(***************************************************************************)
THEOREM MemoryCorrect == Spec => []MemoryAsAsked
  <1>1. Inv => MemoryAsAsked
    <2> SUFFICES ASSUME Inv, pc = "done", NEW a \in Addr PROVE mem[a] = Wanted(a)
      BY DEF MemoryAsAsked
    <2>1. mem[a] = IF a \in Target(call) THEN Wanted(a) ELSE old[a]
      BY DEF Inv, Progress, Filled, Upwards, Downwards, Loops
    <2> QED BY <2>1 DEF Wanted
  <1> QED BY InvInit, InvNext, <1>1, PTL DEF Spec

-----------------------------------------------------------------------------
(* Command *)

(* A set of numbers that is not empty has a least one. *)
LEMMA Least ==
    ASSUME NEW S \in SUBSET Nat, S # {}
    PROVE  \E n \in S : \A m \in S : n <= m
  <1>1. PICK n \in S : \A m \in S : ~(<<m, n>> \in OpToRel(<, Nat))
    BY NatLessThanWellFounded, WFMin
  <1>2. \A m \in S : ~(m < n)
    BY <1>1 DEF OpToRel
  <1> QED BY <1>2

-----------------------------------------------------------------------------
(***************************************************************************)
(* Command.                                                                *)
(***************************************************************************)

(* The loops over blanks and over a word stop where they should. *)
LEMMA BlanksSkipped ==
    ASSUME NEW s \in Seq(C!Char), NEW i \in 0 .. Len(s)
    PROVE  /\ C!AfterBlanks(s, i) \in i .. Len(s)
           /\ \A k \in i + 1 .. C!AfterBlanks(s, i) : s[k] = C!Blank
           /\ C!AfterBlanks(s, i) < Len(s) => s[C!AfterBlanks(s, i) + 1] # C!Blank
  <1> DEFINE S == {j \in i .. Len(s) : j = Len(s) \/ s[j + 1] # C!Blank}
  <1>1. Len(s) \in S /\ S \in SUBSET Nat
    OBVIOUS
  <1>2. PICK j \in S : \A m \in S : j <= m
    <2> HIDE DEF S
    <2> QED BY <1>1, Least
  <1>3. \A k \in i + 1 .. j : s[k] = C!Blank
    <2> SUFFICES ASSUME NEW k \in i + 1 .. j, s[k] # C!Blank PROVE FALSE
      OBVIOUS
    <2>1. k - 1 \in S /\ k - 1 < j
      OBVIOUS
    <2> HIDE DEF S
    <2> QED BY <1>1, <1>2, <2>1
  <1>4. \E m \in i .. Len(s) : (\A k \in i + 1 .. m : s[k] = C!Blank)
                               /\ (m = Len(s) \/ s[m + 1] # C!Blank)
    BY <1>3
  <1> DEFINE a == CHOOSE m \in i .. Len(s) : (\A k \in i + 1 .. m : s[k] = C!Blank)
                                             /\ (m = Len(s) \/ s[m + 1] # C!Blank)
  <1>5. a \in i .. Len(s) /\ (\A k \in i + 1 .. a : s[k] = C!Blank)
        /\ (a = Len(s) \/ s[a + 1] # C!Blank)
    BY <1>4
  <1>6. C!AfterBlanks(s, i) = a
    BY DEF C!AfterBlanks
  <1> HIDE DEF a
  <1> QED BY <1>5, <1>6

LEMMA WordSkipped ==
    ASSUME NEW s \in Seq(C!Char), NEW i \in 0 .. Len(s)
    PROVE  /\ C!AfterWord(s, i) \in i .. Len(s)
           /\ \A k \in i + 1 .. C!AfterWord(s, i) : s[k] # C!Blank
           /\ C!AfterWord(s, i) < Len(s) => s[C!AfterWord(s, i) + 1] = C!Blank
  <1> DEFINE S == {j \in i .. Len(s) : j = Len(s) \/ s[j + 1] = C!Blank}
  <1>1. Len(s) \in S /\ S \in SUBSET Nat
    OBVIOUS
  <1>2. PICK j \in S : \A m \in S : j <= m
    <2> HIDE DEF S
    <2> QED BY <1>1, Least
  <1>3. \A k \in i + 1 .. j : s[k] # C!Blank
    <2> SUFFICES ASSUME NEW k \in i + 1 .. j, s[k] = C!Blank PROVE FALSE
      OBVIOUS
    <2>1. k - 1 \in S /\ k - 1 < j
      OBVIOUS
    <2> HIDE DEF S
    <2> QED BY <1>1, <1>2, <2>1
  <1>4. \E m \in i .. Len(s) : (\A k \in i + 1 .. m : s[k] # C!Blank)
                               /\ (m = Len(s) \/ s[m + 1] = C!Blank)
    BY <1>3
  <1> DEFINE a == CHOOSE m \in i .. Len(s) : (\A k \in i + 1 .. m : s[k] # C!Blank)
                                             /\ (m = Len(s) \/ s[m + 1] = C!Blank)
  <1>5. a \in i .. Len(s) /\ (\A k \in i + 1 .. a : s[k] # C!Blank)
        /\ (a = Len(s) \/ s[a + 1] = C!Blank)
    BY <1>4
  <1>6. C!AfterWord(s, i) = a
    BY DEF C!AfterWord
  <1> HIDE DEF a
  <1> QED BY <1>5, <1>6

(* The pieces of a line: blanks, the name, blanks, what is left. *)
LEMMA Pieces ==
    ASSUME NEW s \in Seq(C!Char)
    PROVE  /\ C!NameStart(s) \in 0 .. Len(s)
           /\ C!NameEnd(s) \in C!NameStart(s) .. Len(s)
           /\ C!ArgStart(s) \in C!NameEnd(s) .. Len(s)
           /\ \A m \in 1 .. C!NameStart(s) : s[m] = C!Blank
           /\ \A m \in C!NameStart(s) + 1 .. C!NameEnd(s) : s[m] # C!Blank
           /\ \A m \in C!NameEnd(s) + 1 .. C!ArgStart(s) : s[m] = C!Blank
           /\ C!NameEnd(s) < Len(s) => s[C!NameEnd(s) + 1] = C!Blank
           /\ C!ArgStart(s) < Len(s) => s[C!ArgStart(s) + 1] # C!Blank
  <1> DEFINE i == C!NameStart(s)
             j == C!NameEnd(s)
  <1>1. /\ i \in 0 .. Len(s)
        /\ \A m \in 0 + 1 .. i : s[m] = C!Blank
    BY BlanksSkipped DEF C!NameStart
  <1>2. /\ j \in i .. Len(s)
        /\ \A m \in i + 1 .. j : s[m] # C!Blank
        /\ j < Len(s) => s[j + 1] = C!Blank
    <2> HIDE DEF i
    <2> QED BY <1>1, WordSkipped DEF C!NameEnd, i
  <1> HIDE DEF i, j
  <1>3. j \in 0 .. Len(s)
    BY <1>1, <1>2
  <1>4. /\ C!AfterBlanks(s, j) \in j .. Len(s)
        /\ \A k \in j + 1 .. C!AfterBlanks(s, j) : s[k] = C!Blank
        /\ C!AfterBlanks(s, j) < Len(s) => s[C!AfterBlanks(s, j) + 1] # C!Blank
    BY <1>3, BlanksSkipped
  <1>5. C!ArgStart(s) = C!AfterBlanks(s, j)
    BY DEF C!ArgStart, j
  <1> QED BY <1>1, <1>2, <1>4, <1>5 DEF i, j

(* An argument with a word or the text between quotation marks. *)
Rest(s) == SubSeq(s, C!ArgStart(s) + 1, Len(s))

LEMMA RestIs ==
    ASSUME NEW s \in Seq(C!Char)
    PROVE  /\ Rest(s) \in Seq(C!Char) /\ Len(Rest(s)) = Len(s) - C!ArgStart(s)
           /\ \A m \in 1 .. Len(s) - C!ArgStart(s) : Rest(s)[m] = s[C!ArgStart(s) + m]
           /\ C!Quoted(s) <=> Rest(s) # <<>> /\ Rest(s)[1] = C!Quote
  <1>1. C!ArgStart(s) \in 0 .. Len(s)
    BY Pieces
  <1>2. /\ Rest(s) \in Seq(C!Char) /\ Len(Rest(s)) = Len(s) - C!ArgStart(s)
        /\ \A m \in 1 .. Len(s) - C!ArgStart(s) : Rest(s)[m] = s[C!ArgStart(s) + m]
    <2> DEFINE k == C!ArgStart(s)
    <2> HIDE DEF k
    <2>1. k \in 0 .. Len(s)
      BY <1>1 DEF k
    <2> SUFFICES /\ SubSeq(s, k + 1, Len(s)) \in Seq(C!Char)
                 /\ Len(SubSeq(s, k + 1, Len(s))) = Len(s) - k
                 /\ \A m \in 1 .. Len(s) - k : SubSeq(s, k + 1, Len(s))[m] = s[k + m]
      BY DEF Rest, k
    <2> QED BY <2>1
  <1>3. Rest(s) # <<>> <=> C!ArgStart(s) < Len(s)
    BY <1>1, <1>2, EmptySeq
  <1> QED BY <1>1, <1>2, <1>3 DEF C!Quoted

(* The length of a string is where its first zero is, if it has one. *)
LEMMA LengthOfString ==
    ASSUME NEW a, NEW size \in Nat, NEW n \in 0 .. size, DOMAIN a = 0 .. size - 1,
           \A k \in 0 .. n - 1 : a[k] # NUL, n < size => a[n] = NUL
    PROVE  C!Strlen(a) = n
  <1>1. CASE n < size
    <2> DEFINE z == CHOOSE k \in DOMAIN a : a[k] = NUL /\ \A j \in 0 .. k - 1 : a[j] # NUL
    <2>1. n \in DOMAIN a /\ a[n] = NUL /\ \A j \in 0 .. n - 1 : a[j] # NUL
      BY <1>1
    <2>2. z \in DOMAIN a /\ a[z] = NUL /\ \A j \in 0 .. z - 1 : a[j] # NUL
      BY <2>1
    <2>3. C!Strlen(a) = z
      BY <2>1 DEF C!Strlen
    <2> HIDE DEF z
    <2>4. z \in 0 .. size - 1 /\ ~(z < n) /\ ~(n < z)
      BY <2>1, <2>2
    <2> QED BY <2>3, <2>4
  <1>2. CASE n = size
    <2>1. ~\E k \in DOMAIN a : a[k] = NUL
      BY <1>2
    <2>2. Cardinality(0 .. size - 1) = size
      <3>1. Cardinality(0 .. size - 1) = IF 0 > size - 1 THEN 0 ELSE (size - 1) - 0 + 1
        <4>1. 0 \in Int /\ size - 1 \in Int
          OBVIOUS
        <4> QED BY <4>1, FS_Interval
      <3> QED BY <3>1
    <2>3. C!Cardinality(0 .. size - 1) = Cardinality(0 .. size - 1)
      BY DEF Cardinality, C!Cardinality
    <2> QED BY <1>2, <2>1, <2>2, <2>3 DEF C!Strlen
  <1> QED BY <1>1, <1>2

(* A line, from the first character of the argument on. *)
Given(s) == C!Argument(Rest(s))

LEMMA WordIsGiven ==
    ASSUME NEW s \in Seq(C!Char), ~C!Quoted(s)
    PROVE  /\ Given(s) \in Seq(C!Char)
           /\ Len(Given(s)) = C!AfterWord(s, C!ArgStart(s)) - C!ArgStart(s)
           /\ \A k \in 1 .. Len(Given(s)) : Given(s)[k] = s[C!ArgStart(s) + k]
  <1> DEFINE i == C!ArgStart(s)
             r == Rest(s)
             n == C!AfterWord(s, i) - i
             Prefixes == {SubSeq(r, 1, k) : k \in 0 .. Len(r)}
             Is(w) == /\ \A k \in DOMAIN w : w[k] # C!Blank
                      /\ Len(w) < Len(r) => r[Len(w) + 1] = C!Blank
             g == CHOOSE w \in Prefixes : Is(w)
  <1>1. /\ i \in 0 .. Len(s) /\ C!AfterWord(s, i) \in i .. Len(s)
        /\ \A k \in i + 1 .. C!AfterWord(s, i) : s[k] # C!Blank
        /\ C!AfterWord(s, i) < Len(s) => s[C!AfterWord(s, i) + 1] = C!Blank
    <2>1. i \in 0 .. Len(s)
      BY Pieces
    <2> HIDE DEF i
    <2> QED BY <2>1, WordSkipped
  <1>2. /\ r \in Seq(C!Char) /\ Len(r) = Len(s) - i
        /\ \A m \in 1 .. Len(s) - i : r[m] = s[i + m]
        /\ ~(r # <<>> /\ r[1] = C!Quote)
    BY RestIs
  <1>3. Given(s) = g
    BY <1>2 DEF Given, C!Argument
  <1> HIDE DEF i, r
  <1>4. n \in 0 .. Len(r)
    BY <1>1, <1>2
  <1>5. \A k \in 0 .. Len(r) :
          /\ SubSeq(r, 1, k) \in Seq(C!Char) /\ Len(SubSeq(r, 1, k)) = k
          /\ \A m \in 1 .. k : SubSeq(r, 1, k)[m] = r[m]
    BY <1>2
  <1>6. /\ \A k \in 1 .. n : r[k] # C!Blank
        /\ n < Len(r) => r[n + 1] = C!Blank
    <2> HIDE DEF n
    <2>1. n = C!AfterWord(s, i) - i
      BY DEF n
    <2>2. \A k \in 1 .. n : k \in 1 .. Len(s) - i /\ i + k \in i + 1 .. C!AfterWord(s, i)
      BY <1>1, <2>1
    <2>3. \A k \in 1 .. n : r[k] # C!Blank
      BY <1>1, <1>2, <2>2
    <2>4. PICK last : last = C!AfterWord(s, i)
      OBVIOUS
    <2>5. last \in i .. Len(s) /\ n = last - i /\ i \in 0 .. Len(s)
      BY <1>1, <2>1, <2>4
    <2>6. n < Len(r) => n + 1 \in 1 .. Len(s) - i /\ i + (n + 1) = last + 1 /\ last < Len(s)
      BY <1>2, <2>5
    <2> QED BY <1>1, <1>2, <2>3, <2>4, <2>6
  <1> HIDE DEF n
  <1>7. Is(SubSeq(r, 1, n)) /\ SubSeq(r, 1, n) \in Prefixes
    <2>1. DOMAIN SubSeq(r, 1, n) = 1 .. n
      BY <1>4, <1>5
    <2> QED BY <1>4, <1>5, <1>6, <2>1
  <1>8. ASSUME NEW k \in 0 .. Len(r), Is(SubSeq(r, 1, k)) PROVE k = n
    <2>1. DOMAIN SubSeq(r, 1, k) = 1 .. k
      BY <1>5
    <2>2. \A m \in 1 .. k : r[m] # C!Blank
      BY <1>5, <1>8, <2>1
    <2>3. k < Len(r) => r[k + 1] = C!Blank
      BY <1>5, <1>8
    <2> QED BY <1>2, <1>4, <1>6, <2>2, <2>3
  <1> HIDE DEF Is
  <1>9. g = SubSeq(r, 1, n)
    <2>1. g \in Prefixes /\ Is(g)
      BY <1>7
    <2> QED BY <2>1, <1>8
  <1>10. Given(s) \in Seq(C!Char) /\ Len(Given(s)) = n
         /\ \A m \in 1 .. n : Given(s)[m] = r[m]
    BY <1>3, <1>4, <1>5, <1>9
  <1>11. \A m \in 1 .. n : r[m] = s[i + m]
    BY <1>2, <1>4
  <1> QED BY <1>10, <1>11 DEF n, i

LEMMA QuotedIsGiven ==
    ASSUME NEW s \in Seq(C!Char), C!Quoted(s), C!Fits(s)
    PROVE  /\ Given(s) \in Seq(C!Char)
           /\ Len(Given(s)) = C!EchoLength(s) /\ C!EchoLength(s) \in Nat
           /\ C!ArgStart(s) \in Nat
           /\ \A k \in 1 .. Len(Given(s)) : Given(s)[k] = s[C!ArgStart(s) + 1 + k]
  <1> DEFINE i == C!ArgStart(s)
             r == Rest(s)
             n == C!EchoLength(s)
  <1>1. i \in 0 .. Len(s) /\ i < Len(s) /\ i # Len(s) - 1 /\ n = Len(s) - i - 2
    BY Pieces DEF C!Quoted, C!Fits, C!EchoLength
  <1>2. /\ r \in Seq(C!Char) /\ Len(r) = Len(s) - i
        /\ \A m \in 1 .. Len(s) - i : r[m] = s[i + m]
        /\ r # <<>> /\ r[1] = C!Quote
    BY RestIs
  <1>3. Given(s) = SubSeq(r, 2, Len(r) - 1)
    BY <1>2 DEF Given, C!Argument
  <1> HIDE DEF i, r, n
  <1>4. n \in Nat /\ Len(r) = n + 2
    BY <1>1, <1>2
  <1>5. /\ Given(s) \in Seq(C!Char) /\ Len(Given(s)) = n
        /\ \A k \in 1 .. n : Given(s)[k] = r[k + 1]
    BY <1>2, <1>3, <1>4
  <1>6. \A k \in 1 .. n : r[k + 1] = s[i + 1 + k]
    <2>1. \A k \in 1 .. n : k + 1 \in 1 .. Len(s) - i /\ i + (k + 1) = i + 1 + k
      BY <1>1, <1>4
    <2> QED BY <1>2, <2>1
  <1> QED BY <1>1, <1>4, <1>5, <1>6 DEF i, n

(* An argument in an array of the size of arg: cut, or with zeros behind. *)
Holds(a, w) ==
    /\ DOMAIN a = 0 .. ArgSize - 1
    /\ \A k \in 0 .. ArgSize - 1 : a[k] = IF k < Len(w) THEN w[k + 1] ELSE NUL

Shorter(m, n) == IF m < n THEN m ELSE n

LEMMA LengthHeld ==
    ASSUME NEW w \in Seq(C!Char), NEW a, Holds(a, w)
    PROVE  C!Strlen(a) = Shorter(Len(w), ArgSize)
  <1> DEFINE n == Shorter(Len(w), ArgSize)
  <1>1. ArgSize \in Nat /\ n \in 0 .. ArgSize /\ n <= Len(w)
    BY CommandAssumption DEF Shorter
  <1>2. \A k \in 0 .. n - 1 : a[k] # NUL
    <2> SUFFICES ASSUME NEW k \in 0 .. n - 1 PROVE a[k] # NUL
      OBVIOUS
    <2>1. k \in 0 .. ArgSize - 1 /\ k < Len(w) /\ k + 1 \in 1 .. Len(w)
      BY <1>1
    <2>2. w[k + 1] \in C!Char
      BY <2>1
    <2> QED BY <2>1, <2>2, CommandAssumption DEF Holds
  <1>3. n < ArgSize => a[n] = NUL
    BY <1>1 DEF Holds, Shorter
  <1>4. DOMAIN a = 0 .. ArgSize - 1
    BY DEF Holds
  <1> HIDE DEF n
  <1> QED BY <1>1, <1>2, <1>3, <1>4, LengthOfString DEF n

LEMMA InMemoryLength ==
    ASSUME NEW w \in Seq(C!Char)
    PROVE  /\ C!Strlen(C!InMemory(w)) = Len(w)
           /\ \A k \in 0 .. Len(w) - 1 : C!InMemory(w)[k] = w[k + 1]
  <1> DEFINE a == C!InMemory(w)
             size == Len(w) + 1
  <1>1. size \in Nat /\ Len(w) \in 0 .. size /\ Len(w) < size /\ size - 1 = Len(w)
    OBVIOUS
  <1>2. /\ DOMAIN a = 0 .. Len(w) /\ a[Len(w)] = NUL
        /\ \A k \in 0 .. Len(w) - 1 : a[k] = w[k + 1]
    BY DEF C!InMemory
  <1>3. \A k \in 0 .. Len(w) - 1 : a[k] # NUL
    <2>1. \A k \in 0 .. Len(w) - 1 : w[k + 1] \in C!Char
      OBVIOUS
    <2> QED BY <1>2, <2>1, CommandAssumption
  <1> HIDE DEF a
  <1>4. C!Strlen(a) = Len(w)
    <2> HIDE DEF size
    <2> QED BY <1>1, <1>2, <1>3, LengthOfString
  <1> QED BY <1>2, <1>4 DEF a

(* What execute copies to the PCB. *)
LEMMA WordHolds ==
    ASSUME NEW s \in Seq(C!Char), ~C!Quoted(s)
    PROVE  Holds(C!Word(s), Given(s))
  <1> DEFINE i == C!ArgStart(s)
             n == C!AfterWord(s, i) - i
             fits == IF n < ArgSize THEN n ELSE ArgSize
  <1>1. i \in 0 .. Len(s)
    BY Pieces
  <1>2. /\ Given(s) \in Seq(C!Char) /\ Len(Given(s)) = n
        /\ \A k \in 1 .. n : Given(s)[k] = s[i + k]
    BY WordIsGiven
  <1>3. C!Word(s) = [k \in 0 .. ArgSize - 1 |-> IF k < fits THEN s[i + k + 1] ELSE NUL]
    BY DEF C!Word
  <1> HIDE DEF i, n
  <1>4. n \in Nat
    BY <1>2
  <1>5. \A k \in 0 .. ArgSize - 1 : k < fits <=> k < n
    BY <1>4, CommandAssumption
  <1>6. \A k \in 0 .. ArgSize - 1 : k < n => Given(s)[k + 1] = s[i + k + 1]
    <2> SUFFICES ASSUME NEW k \in 0 .. ArgSize - 1, k < n PROVE Given(s)[k + 1] = s[i + k + 1]
      OBVIOUS
    <2>1. k + 1 \in 1 .. n /\ i + (k + 1) = i + k + 1
      BY <1>1, <1>4, CommandAssumption
    <2> QED BY <1>2, <2>1
  <1> HIDE DEF fits
  <1> QED BY <1>2, <1>3, <1>5, <1>6 DEF Holds

LEMMA EchoIs ==
    ASSUME NEW s \in Seq(C!Char), Len(s) <= MaxLine, C!Quoted(s), C!Fits(s),
           NEW before, DOMAIN before = 0 .. MaxLine
    PROVE  /\ C!Strlen(C!Echo(s, before)) = Len(Given(s))
           /\ \A k \in 0 .. Len(Given(s)) - 1 : C!Echo(s, before)[k] = Given(s)[k + 1]
  <1> DEFINE i == C!ArgStart(s)
             n == C!EchoLength(s)
             w == SubSeq(s, i + 2, Len(s))
             text == C!InMemory(w)
             e == C!Echo(s, before)
  <1>1. /\ Given(s) \in Seq(C!Char) /\ Len(Given(s)) = n /\ n \in Nat
        /\ \A k \in 1 .. n : Given(s)[k] = s[i + 1 + k]
    BY QuotedIsGiven
  <1>2. i \in 0 .. Len(s) /\ i < Len(s) /\ i # Len(s) - 1 /\ n = Len(s) - i - 2
    BY Pieces DEF C!Quoted, C!Fits, C!EchoLength
  <1>3. e = [C!Strncpy(before, text, n) EXCEPT ![n] = NUL]
    BY DEF C!Echo
  <1> HIDE DEF i, n, e
  <1>4. /\ w \in Seq(C!Char) /\ Len(w) = n + 1
        /\ \A k \in 1 .. n + 1 : w[k] = s[i + 1 + k]
    BY <1>1, <1>2
  <1> HIDE DEF w
  <1>5. /\ C!Strlen(text) = n + 1
        /\ \A k \in 0 .. n : text[k] = w[k + 1]
    BY <1>1, <1>4, InMemoryLength
  <1> HIDE DEF text
  <1>6. C!Strncpy(before, text, n) =
            [k \in 0 .. MaxLine |-> IF k >= n THEN before[k]
                                    ELSE IF k < n + 1 THEN text[k] ELSE NUL]
    BY <1>5 DEF C!Strncpy
  <1>7. n \in 0 .. MaxLine /\ MaxLine \in Nat
    BY <1>1, <1>2, CommandAssumption
  <1>8. /\ DOMAIN e = 0 .. MaxLine /\ e[n] = NUL
        /\ \A k \in 0 .. n - 1 : e[k] = text[k]
    BY <1>3, <1>6, <1>7
  <1>9. \A k \in 0 .. n - 1 : e[k] = Given(s)[k + 1]
    <2> SUFFICES ASSUME NEW k \in 0 .. n - 1 PROVE e[k] = Given(s)[k + 1]
      OBVIOUS
    <2>1. k \in 0 .. n /\ k + 1 \in 1 .. n /\ k + 1 \in 1 .. n + 1
      BY <1>1
    <2> QED BY <1>1, <1>4, <1>5, <1>8, <2>1
  <1>10. \A k \in 0 .. n - 1 : e[k] # NUL
    <2>1. \A k \in 0 .. n - 1 : Given(s)[k + 1] \in C!Char
      BY <1>1
    <2> QED BY <1>9, <2>1, CommandAssumption
  <1>11. C!Strlen(e) = n
    <2>1. PICK size : size = MaxLine + 1
      OBVIOUS
    <2>2. size \in Nat /\ n \in 0 .. size /\ n < size /\ DOMAIN e = 0 .. size - 1
      BY <1>7, <1>8, <2>1
    <2> QED BY <1>8, <1>10, <2>2, LengthOfString
  <1> QED BY <1>1, <1>9, <1>11 DEF e

LEMMA ArgHolds ==
    ASSUME NEW s \in Seq(C!Char), Len(s) <= MaxLine, C!Fits(s),
           NEW old_arg, DOMAIN old_arg = 0 .. ArgSize - 1,
           NEW before, DOMAIN before = 0 .. MaxLine
    PROVE  Holds(C!ArgOf(s, old_arg, before), Given(s))
  <1> DEFINE src == IF C!Quoted(s) THEN C!Echo(s, before) ELSE C!Word(s)
             w == Given(s)
             m == Shorter(Len(w), ArgSize)
  <1>1. w \in Seq(C!Char)
    BY WordIsGiven, QuotedIsGiven
  <1>2. C!ArgOf(s, old_arg, before) =
            [k \in 0 .. ArgSize - 1 |-> IF k >= ArgSize THEN old_arg[k]
                                        ELSE IF k < C!Strlen(src) THEN src[k] ELSE NUL]
    BY DEF C!ArgOf, C!Strncpy
  <1>3. \A k \in 0 .. ArgSize - 1 :
            /\ k < C!Strlen(src) <=> k < Len(w)
            /\ k < Len(w) => src[k] = w[k + 1]
    <2>1. CASE C!Quoted(s)
      <3>1. /\ C!Strlen(src) = Len(w)
            /\ \A k \in 0 .. Len(w) - 1 : src[k] = w[k + 1]
        BY <2>1, EchoIs
      <3> HIDE DEF src, w
      <3>2. \A k \in 0 .. ArgSize - 1 : k < Len(w) => k \in 0 .. Len(w) - 1
        BY <1>1, CommandAssumption
      <3> QED BY <3>1, <3>2
    <2>2. CASE ~C!Quoted(s)
      <3>1. Holds(src, w)
        BY <2>2, WordHolds
      <3> HIDE DEF src, w
      <3>2. C!Strlen(src) = m
        BY <1>1, <3>1, LengthHeld
      <3>3. \A k \in 0 .. ArgSize - 1 : k < m <=> k < Len(w)
        BY <1>1, CommandAssumption DEF Shorter
      <3> HIDE DEF m
      <3> QED BY <3>1, <3>2, <3>3 DEF Holds
    <2> QED BY <2>1, <2>2
  <1> HIDE DEF src, w
  <1>4. \A k \in 0 .. ArgSize - 1 : ~(k >= ArgSize)
    BY CommandAssumption
  <1> QED BY <1>2, <1>3, <1>4 DEF Holds, w

(***************************************************************************)
(* The PCB holds the argument of the line whose program runs, and getargs  *)
(* has told nothing else.                                                  *)
(***************************************************************************)
Answer(w, n) ==
    [b \in 0 .. ArgSize |-> IF b >= n \/ b = ArgSize THEN Leftover
                            ELSE IF b < Len(w) THEN w[b + 1] ELSE NUL]

Launched ==
    /\ line \in Seq(C!Char) /\ Len(line) <= MaxLine /\ C!Fits(line)
    /\ file_name = C!Name(line) /\ file_name \in Programs
    /\ Holds(arg, Given(line))

Told ==
    \/ told = C!Untold
    \/ /\ line # <<>>
       /\ IF Given(line) = <<>> THEN told.ret = -1
          ELSE /\ told.ret = 0 /\ told.asked \in Nat
               /\ told.buf = Answer(Given(line), told.asked)

CommandInv ==
    /\ DOMAIN arg = 0 .. ArgSize - 1
    /\ line # <<>> => Launched
    /\ Told

LEMMA CommandInit == C!Init => CommandInv
  <1> SUFFICES ASSUME C!Init PROVE CommandInv
    OBVIOUS
  <1>1. line = <<>> /\ told = C!Untold
    BY DEF C!Init, C!Nobody
  <1>2. DOMAIN arg = 0 .. ArgSize - 1
    BY DEF C!Init
  <1> QED BY <1>1, <1>2 DEF CommandInv, Told

LEMMA LineType ==
    ASSUME NEW s \in C!Lines
    PROVE  s \in Seq(C!Char) /\ Len(s) <= MaxLine /\ C!Fits(s)
  <1>1. PICK n \in 0 .. MaxLine : s \in [1 .. n -> C!Char] /\ C!Fits(s)
    BY DEF C!Lines
  <1>2. n \in Nat /\ n <= MaxLine
    BY CommandAssumption
  <1>3. s \in Seq(C!Char) /\ Len(s) = n
    BY <1>1, <1>2
  <1> QED BY <1>1, <1>2, <1>3

(* An empty line names no program. *)
LEMMA NamedLine ==
    ASSUME NEW s \in Seq(C!Char), C!Name(s) \in Programs
    PROVE  C!NameStart(s) < C!NameEnd(s) /\ s # <<>>
  <1>1. C!Name(s) # <<>>
    BY CommandAssumption
  <1> DEFINE i == C!NameStart(s)
             j == C!NameEnd(s)
  <1>2. i \in 0 .. Len(s) /\ j \in i .. Len(s) /\ C!Name(s) = SubSeq(s, i + 1, j)
    BY Pieces DEF C!Name
  <1> HIDE DEF i, j
  <1>3. i = j => SubSeq(s, i + 1, j) = <<>>
    <2> SUFFICES ASSUME i = j PROVE SubSeq(s, i + 1, j) = <<>>
      OBVIOUS
    <2>1. SubSeq(s, i + 1, j) \in Seq(C!Char) /\ Len(SubSeq(s, i + 1, j)) = 0
      BY <1>2
    <2> QED BY <2>1, EmptySeq
  <1>4. i < j /\ Len(s) # 0
    BY <1>1, <1>2, <1>3
  <1> QED BY <1>4 DEF i, j

LEMMA ExecuteKeeps ==
    ASSUME CommandInv, C!AtPrompt, NEW s \in C!Lines, C!Execute(s)
    PROVE  CommandInv'
  <1>1. s \in Seq(C!Char) /\ Len(s) <= MaxLine /\ C!Fits(s)
    BY LineType
  <1>2. /\ line' = s /\ file_name' = C!Name(s) /\ C!Name(s) \in Programs /\ told' = told
    BY DEF C!Execute
  <1>3. PICK b : arg' = C!ArgOf(s, arg, [k \in 0 .. MaxLine |-> b])
    BY DEF C!Execute
  <1>4. Holds(arg', Given(s))
    BY <1>1, <1>3, ArgHolds DEF CommandInv
  <1>5. Launched'
    BY <1>1, <1>2, <1>4 DEF Launched
  <1>6. told = C!Untold
    BY DEF CommandInv, Told, C!AtPrompt, C!Nobody
  <1>7. Told'
    BY <1>2, <1>6 DEF Told, C!Untold
  <1>8. DOMAIN arg' = 0 .. ArgSize - 1
    BY <1>4 DEF Holds
  <1> QED BY <1>5, <1>7, <1>8 DEF CommandInv

LEMMA GetArgsKeeps ==
    ASSUME CommandInv, NEW n \in Asked, C!GetArgs(n)
    PROVE  CommandInv'
  <1> DEFINE w == Given(line)
  <1>1. /\ line # <<>> /\ Launched
        /\ UNCHANGED <<line, file_name, arg>>
    BY DEF CommandInv, C!GetArgs, C!AtPrompt, C!Nobody
  <1>2. Launched'
    BY <1>1 DEF Launched
  <1>3. w \in Seq(C!Char) /\ Holds(arg, w)
    BY <1>1, WordIsGiven, QuotedIsGiven DEF Launched
  <1>4. n \in Nat /\ ArgSize \in Nat \ {0}
    BY CommandAssumption
  <1>5. told' = IF C!Strlen(arg) = 0 THEN [C!Untold EXCEPT !.ret = -1]
                ELSE [ret |-> 0, asked |-> n, buf |-> C!Strncpy(C!Untold.buf, arg, C!Cut(n))]
    BY DEF C!GetArgs
  <1> HIDE DEF w
  <1>6. C!Strlen(arg) = Shorter(Len(w), ArgSize)
    BY <1>3, LengthHeld
  <1>7. C!Strlen(arg) = 0 <=> w = <<>>
    <2>1. Shorter(Len(w), ArgSize) = 0 <=> Len(w) = 0
      BY <1>3, <1>4 DEF Shorter
    <2> QED BY <1>3, <1>6, <2>1, EmptySeq
  <1>8. CASE w = <<>>
    <2>1. told'.ret = -1
      BY <1>5, <1>7, <1>8 DEF C!Untold
    <2>2. Told'
      BY <1>1, <1>8, <2>1 DEF Told, w
    <2> QED BY <1>1, <1>2, <2>2 DEF CommandInv
  <1>9. CASE w # <<>>
    <2> DEFINE buffer == C!Strncpy(C!Untold.buf, arg, C!Cut(n))
    <2>1. told' = [ret |-> 0, asked |-> n, buf |-> buffer]
      BY <1>5, <1>7, <1>9
    <2>2. buffer = [k \in 0 .. ArgSize |->
                      IF k >= C!Cut(n) THEN Leftover
                      ELSE IF k < C!Strlen(arg) THEN arg[k] ELSE NUL]
      BY DEF C!Strncpy, C!Untold
    <2>3. \A k \in 0 .. ArgSize :
             /\ k >= C!Cut(n) <=> k >= n \/ k = ArgSize
             /\ ~(k >= C!Cut(n)) => /\ k \in 0 .. ArgSize - 1
                                    /\ k < C!Strlen(arg) <=> k < Len(w)
      BY <1>3, <1>4, <1>6 DEF C!Cut, Shorter
    <2> HIDE DEF buffer
    <2>4. buffer = Answer(w, n)
      BY <1>3, <2>2, <2>3 DEF Answer, Holds
    <2>5. told'.ret = 0 /\ told'.asked = n /\ told'.buf = buffer
      BY <2>1
    <2>6. Told'
      BY <1>1, <1>4, <1>9, <2>4, <2>5 DEF Told, w, Answer
    <2> QED BY <1>1, <1>2, <2>6 DEF CommandInv
  <1> QED BY <1>8, <1>9

LEMMA CommandSame == CommandInv /\ UNCHANGED commandVars => CommandInv'
  BY DEF CommandInv, Launched, Told, commandVars, C!Untold

LEMMA CommandNext == CommandInv /\ C!Next => CommandInv'
  <1> SUFFICES ASSUME CommandInv, C!Next PROVE CommandInv'
    OBVIOUS
  <1>1. ASSUME C!AtPrompt, NEW s \in C!Lines, C!NothingRun(s) PROVE CommandInv'
    BY <1>1, CommandSame DEF C!NothingRun, C!vars, commandVars
  <1>2. ASSUME C!AtPrompt, NEW s \in C!Lines, C!Execute(s) PROVE CommandInv'
    BY <1>2, ExecuteKeeps
  <1>3. ASSUME NEW n \in Asked, C!GetArgs(n) PROVE CommandInv'
    BY <1>3, GetArgsKeeps
  <1>4. ASSUME C!Halt PROVE CommandInv'
    BY <1>4 DEF C!Halt, CommandInv, Told, C!Nobody, C!Untold
  <1> QED BY <1>1, <1>2, <1>3, <1>4 DEF C!Next

LEMMA CommandInvSplits == CommandInv => CommandSplit
  <1> SUFFICES ASSUME CommandInv, line # <<>> PROVE C!CommandSplit
    BY DEF CommandSplit, C!CommandSplit, C!AtPrompt, C!Nobody
  <1> DEFINE i == C!NameStart(line)
             j == C!NameEnd(line)
             k == C!ArgStart(line)
             a == C!Argument(SubSeq(line, k + 1, Len(line)))
             Right == told # C!Untold =>
                        IF a = <<>> THEN told.ret = -1
                        ELSE /\ told.ret = 0
                             /\ told.buf = [b \in 0 .. ArgSize |->
                                  IF b >= told.asked \/ b = ArgSize THEN Leftover
                                  ELSE IF b < Len(a) THEN a[b + 1] ELSE NUL]
  <1>1. Launched
    BY DEF CommandInv
  <1>2. line \in Seq(C!Char) /\ C!Name(line) \in Programs /\ file_name = SubSeq(line, i + 1, j)
    BY <1>1 DEF Launched, C!Name
  <1>3. i < j
    BY <1>2, NamedLine
  <1>4. /\ i \in 0 .. Len(line) /\ j \in i .. Len(line) /\ k \in j .. Len(line)
        /\ \A m \in 1 .. i : line[m] = C!Blank
        /\ \A m \in i + 1 .. j : line[m] # C!Blank
        /\ \A m \in j + 1 .. k : line[m] = C!Blank
        /\ j < Len(line) => line[j + 1] = C!Blank
        /\ k < Len(line) => line[k + 1] # C!Blank
    BY <1>2, Pieces
  <1>5. a = Given(line)
    BY DEF Given, Rest
  <1>6. Right
    <2> HIDE DEF a
    <2> QED BY <1>5 DEF CommandInv, Told, Answer
  <1> HIDE DEF Right
  <1>7. i \in 0 .. Len(line) /\ C!AllBlank(0, i)
    BY <1>4 DEF C!AllBlank
  <1>8. j \in i + 1 .. Len(line) /\ C!NoBlank(i, j)
    <2> HIDE DEF i, j
    <2> QED BY <1>3, <1>4 DEF C!NoBlank
  <1>9. k \in j .. Len(line) /\ C!AllBlank(j, k)
    BY <1>4 DEF C!AllBlank
  <1>10. k < Len(line) => j < k /\ line[k + 1] # C!Blank
    <2> HIDE DEF j, k
    <2> QED BY <1>2, <1>4
  <1> HIDE DEF i, j, k
  <1> QED BY <1>2, <1>6, <1>7, <1>8, <1>9, <1>10 DEF C!CommandSplit, Right, a

(***************************************************************************)
(* In every behaviour, for lines of any length over any characters: the    *)
(* program started is the one named in the line, and what getargs tells it *)
(* is the argument in the line, as far as it was asked for and fits.       *)
(***************************************************************************)
THEOREM ProgramsGetTheirArgument == LibrarySpec => []CommandSplit
  <1>1. LibraryInit => CommandInv
    BY CommandInit DEF LibraryInit
  <1>2. CommandInv /\ [LibraryNext]_libraryVars => CommandInv'
    BY CommandNext, CommandSame DEF LibraryNext, libraryVars
  <1> QED BY <1>1, <1>2, CommandInvSplits, PTL DEF LibrarySpec

-----------------------------------------------------------------------------
(* Numbers *)

Last == 3 * N!Digits + 1

LEMMA DigitsType == N!Digits \in Nat \ {0} /\ Width = 4 * N!Digits /\ Last \in Nat
  BY NumbersAssumption DEF N!Digits, Last

LEMMA Division ==
    ASSUME NEW r \in {10, 16}, NEW x \in Nat
    PROVE  /\ x \div r \in Nat /\ x % r \in 0 .. r - 1
           /\ x = r * (x \div r) + (x % r)
           /\ x \div r = 0 => x % r = x
           /\ 0 \div r = 0 /\ 0 % r = 0
  <1>1. CASE r = 10
    BY <1>1
  <1>2. CASE r = 16
    BY <1>2
  <1> QED BY <1>1, <1>2

(* What the text denotes is reached digit by digit. *)
Values(u, s, r, n) ==
    /\ Len(s) = n /\ u = [i \in 0 .. n |-> u[i]] /\ u[0] = 0
    /\ \A i \in 1 .. n : u[i] = r * u[i - 1] + s[i]

LEMMA Denoted ==
    ASSUME NEW s, NEW r, NEW n \in Nat, NEW u, Values(u, s, r, n)
    PROVE  N!Denotes(s, r) = u[n]
  <1> USE DEF Values
  <1> DEFINE Is(f) == f = [i \in 0 .. n |-> IF i = 0 THEN 0 ELSE r * f[i - 1] + s[i]]
             upTo == CHOOSE f : Is(f)
  <1>1. N!Denotes(s, r) = upTo[n]
    BY DEF N!Denotes
  <1>2. Is(u)
    <2>1. \A i \in 0 .. n : u[i] = IF i = 0 THEN 0 ELSE r * u[i - 1] + s[i]
      <3> SUFFICES ASSUME NEW i \in 0 .. n, i # 0 PROVE u[i] = r * u[i - 1] + s[i]
        OBVIOUS
      <3>1. i \in 1 .. n
        OBVIOUS
      <3> QED BY <3>1
    <2> DEFINE rec == [i \in 0 .. n |-> IF i = 0 THEN 0 ELSE r * u[i - 1] + s[i]]
    <2>3. \A i \in 0 .. n : u[i] = rec[i]
      BY <2>1
    <2>4. [i \in 0 .. n |-> u[i]] = [i \in 0 .. n |-> rec[i]]
      BY <2>3
    <2>5. rec = [i \in 0 .. n |-> rec[i]]
      OBVIOUS
    <2> HIDE DEF rec
    <2>6. u = rec
      BY <2>4, <2>5
    <2> QED BY <2>6 DEF rec
  <1>3. Is(upTo)
    <2> HIDE DEF Is
    <2> QED BY <1>2
  <1> HIDE DEF upTo
  <1>4. \A i \in 0 .. n : upTo[i] = u[i]
    <2> DEFINE S == {i \in 0 .. n : upTo[i] # u[i]}
    <2> SUFFICES ASSUME S # {} PROVE FALSE
      OBVIOUS
    <2>1. S \in SUBSET Nat
      OBVIOUS
    <2>2. PICK i \in S : \A m \in S : i <= m
      <3> HIDE DEF S
      <3> QED BY <2>1, Least
    <2>3. i \in 0 .. n /\ upTo[i] # u[i]
      OBVIOUS
    <2>4. i # 0
      BY <1>3, <2>3
    <2>5. i - 1 \in 0 .. n /\ i - 1 < i
      BY <2>3, <2>4
    <2>6. upTo[i - 1] = u[i - 1]
      BY <2>2, <2>5
    <2>7. upTo[i] = r * upTo[i - 1] + s[i]
      BY <1>3, <2>3, <2>4
    <2>8. u[i] = r * u[i - 1] + s[i]
      BY <2>3, <2>4
    <2> QED BY <2>3, <2>6, <2>7, <2>8
  <1> QED BY <1>1, <1>4

(***************************************************************************)
(* The quotients that the loop of itoa has had: h[j] is what was left      *)
(* after j digits.                                                         *)
(***************************************************************************)
Magnitude(c) == IF N!Negative(c) THEN 2 ^ Width - c.value ELSE c.value
StartOf(c) == IF N!Negative(c) THEN 1 ELSE IF c.spec = "#x" THEN N!Digits ELSE 0

Quotients(h, n) ==
    /\ h \in [0 .. n -> Nat] /\ h[0] = Magnitude(conv)
    /\ \A j \in 0 .. n - 1 : h[j + 1] = h[j] \div N!Radix

(* A digit takes three bits off the number, or four. *)
Bits == IF N!Radix = 10 THEN 3 ELSE 4
Fit(n) == Bits * n <= Width + Bits - 1

Room(n) == newval > 0 => \E m \in 1 .. Width : newval < 2 ^ m /\ m + Bits * n <= Width

Taking(h, n) ==
    /\ Quotients(h, n) /\ newbuf = start + n /\ h[n] = newval /\ Fit(n)
    /\ \A j \in 0 .. n - 1 : h[j] > 0 /\ buf[start + j] = h[j] % N!Radix
    /\ Room(n)

Complete(h, n) ==
    /\ Quotients(h, n) /\ h[n] = 0 /\ Fit(n) /\ buf[start + n] = N!Nul
    /\ n > 1 => h[n - 1] # 0

(* strrev has come as far as d from both ends. *)
Turning(h, n, d) ==
    /\ Complete(h, n) /\ 2 * d <= n
    /\ beg = start + d /\ newbuf = start + (n - 1) - d
    /\ \A j \in 0 .. n - 1 :
          buf[start + j] = h[IF j < d \/ j > (n - 1) - d THEN (n - 1) - j ELSE j] % N!Radix

Turned(h, n) ==
    /\ Complete(h, n)
    /\ \A j \in 0 .. n - 1 : buf[start + j] = h[(n - 1) - j] % N!Radix

Filling(h, n) ==
    /\ Turned(h, n) /\ conv.spec = "#x"
    /\ beg = n /\ newbuf \in n .. N!Digits
    /\ \A i \in n .. newbuf - 1 : buf[i] = 0

NumberLoops == {"digits", "reverse", "converted", "fill"}

NumberTypes ==
    /\ loop \in NumberLoops \cup {"idle", "printed"}
    /\ newval \in Nat /\ start \in Nat /\ newbuf \in Int /\ beg \in Int
    /\ buf \in [0 .. Last -> Int]
    /\ loop # "idle" => conv \in N!Convs

NumberInv ==
    /\ NumberTypes
    /\ loop \in NumberLoops => start = StartOf(conv) /\ (N!Negative(conv) => buf[0] = N!Minus)
    /\ loop = "digits" => conv.value # 0 /\ \E n \in Nat : \E h : Taking(h, n)
    /\ loop = "reverse" => \E n \in Nat \ {0}, d \in Nat : \E h : Turning(h, n, d)
    /\ loop = "converted" => \E n \in Nat \ {0} : \E h : Turned(h, n)
    /\ loop = "fill" => \E n \in Nat \ {0} : \E h : Filling(h, n)
    /\ NumberPrinted

-----------------------------------------------------------------------------
LEMMA Radices == N!Radix \in {10, 16} /\ Bits \in {3, 4} /\ (N!Radix = 10 <=> Bits = 3)
  BY DEF N!Radix, Bits

LEMMA ConvType ==
    ASSUME NEW c \in N!Convs
    PROVE  /\ c.spec \in {"d", "u", "x", "#x"} /\ c.value \in Nat
           /\ 2 ^ Width \in Nat /\ c.value < 2 ^ Width
           /\ N!Negative(c) => c.spec = "d" /\ c.value > 0
           /\ Magnitude(c) \in Nat /\ Magnitude(c) < 2 ^ Width
           /\ c.value > 0 => Magnitude(c) > 0
           /\ c.value = 0 => Magnitude(c) = 0
           /\ StartOf(c) \in Nat /\ StartOf(c) <= N!Digits
           /\ c.spec # "#x" => StartOf(c) <= 1
  <1>1. Width \in 0 .. Width /\ Width - 1 \in 0 .. Width
    BY NumbersAssumption
  <1>2. 2 ^ Width \in Nat \ {0} /\ 2 ^ (Width - 1) \in Nat \ {0}
    BY <1>1, NumbersAssumption
  <1>3. c.spec \in {"d", "u", "x", "#x"} /\ c.value \in 0 .. 2 ^ Width - 1
    BY DEF N!Convs, N!Words
  <1>4. N!Negative(c) => c.spec = "d" /\ c.value > 0
    BY <1>2, <1>3 DEF N!Negative
  <1>5. Magnitude(c) \in Nat /\ Magnitude(c) < 2 ^ Width
        /\ (c.value > 0 => Magnitude(c) > 0) /\ (c.value = 0 => Magnitude(c) = 0)
    BY <1>2, <1>3, <1>4 DEF Magnitude
  <1> QED BY <1>2, <1>3, <1>4, <1>5, DigitsType DEF StartOf

(* What is written stays within the buffer. *)
LEMMA InBuffer ==
    ASSUME NEW n \in Nat, Fit(n), conv \in N!Convs
    PROVE  /\ StartOf(conv) + n <= Last /\ StartOf(conv) + n \in 0 .. Last
           /\ conv.spec = "#x" => n <= N!Digits
  <1>1. CASE conv.spec = "#x"
    BY <1>1, DigitsType, ConvType DEF Fit, Bits, N!Radix, Last
  <1>2. CASE conv.spec # "#x"
    BY <1>2, DigitsType, ConvType DEF Fit, Bits, N!Radix, Last
  <1> QED BY <1>1, <1>2

LEMMA FirstFit ==
    ASSUME NEW b \in {3, 4}, NEW w \in Nat \ {0}
    PROVE  b * 1 <= w + b - 1 /\ b * 0 <= w + b - 1 /\ w + b * 0 <= w /\ w \in 1 .. w
  <1>1. CASE b = 3
    BY <1>1
  <1>2. CASE b = 4
    BY <1>2
  <1> QED BY <1>1, <1>2

LEMMA NumberInit == N!Init => NumberInv
  <1> SUFFICES ASSUME N!Init PROVE NumberInv
    OBVIOUS
  <1>1. NumberTypes
    BY DigitsType DEF N!Init, NumberTypes, N!Fresh, N!Unwritten, Last, NumberLoops
  <1> QED BY <1>1 DEF N!Init, NumberInv, NumberLoops, NumberPrinted, N!NumberPrinted

LEMMA OnlyZero ==
    ASSUME NEW n, n = 1, NEW j \in 0 .. n - 1
    PROVE  j = 0 /\ (n - 1) - j = 0
  <1>1. n - 1 = 0 /\ j \in 0 .. 0
    OBVIOUS
  <1>2. j = 0
    BY <1>1
  <1> QED BY <1>1, <1>2

LEMMA PrintfKeeps ==
    ASSUME NumberInv, loop = "idle", NEW c \in N!Convs, N!Printf(c)
    PROVE  NumberInv'
  <1>1. /\ conv' = c /\ start' = StartOf(c) /\ newbuf' = (IF c.value = 0 THEN start' + 1 ELSE start')
        /\ newval' = (IF N!Negative(c) THEN (2 ^ Width - c.value) % 2 ^ Width ELSE c.value)
        /\ loop' = (IF c.value = 0 THEN "converted" ELSE "digits") /\ beg' = beg
        /\ buf' = IF N!Negative(c) THEN [buf EXCEPT ![0] = N!Minus]
                  ELSE IF c.value = 0 THEN [buf EXCEPT ![start'] = 0, ![start' + 1] = N!Nul]
                  ELSE buf
    BY DEF N!Printf, StartOf
  <1>2. newval' = Magnitude(c)
    <2>1. ASSUME NEW p \in Nat, NEW x \in Nat, x < p, x > 0 PROVE (p - x) % p = p - x
      <3>1. PICK y : y = p - x
        OBVIOUS
      <3>2. y \in Nat /\ y < p /\ p \in Nat
        BY <2>1, <3>1
      <3>3. y % p = y
        BY <3>2
      <3> QED BY <3>1, <3>3
    <2>2. N!Negative(c) => (2 ^ Width - c.value) % 2 ^ Width = 2 ^ Width - c.value
      BY <2>1, ConvType
    <2> QED BY <1>1, <2>2 DEF Magnitude
  <1>3. /\ StartOf(c) \in 0 .. Last - 1 /\ StartOf(c) + 1 \in 0 .. Last /\ 0 \in 0 .. Last
        /\ (N!Negative(c) => c.value # 0 /\ c.value > 0) /\ Magnitude(c) \in Nat
    BY ConvType, DigitsType DEF Last
  <1>4. buf' \in [0 .. Last -> Int]
    BY <1>1, <1>3 DEF NumberInv, NumberTypes, N!Minus, N!Nul
  <1>5. NumberTypes'
    BY <1>1, <1>2, <1>3, <1>4 DEF NumberInv, NumberTypes, NumberLoops
  <1>6. start' = StartOf(conv)' /\ (N!Negative(conv)' => buf'[0] = N!Minus)
    BY <1>1, <1>3 DEF StartOf, N!Negative, NumberInv, NumberTypes
  <1>7. /\ Magnitude(conv)' = Magnitude(c) /\ Bits' \in {3, 4} /\ N!Radix' \in {10, 16}
        /\ Width \in Nat \ {0}
    BY <1>1, NumbersAssumption DEF Magnitude, N!Negative, Bits, N!Radix
  <1>8. CASE c.value = 0
    <2> DEFINE h == [j \in 0 .. 1 |-> 0]
    <2>1. Quotients(h, 1)'
      <3>1. 0 \div N!Radix' = 0
        BY <1>7, Division
      <3>2. \A j \in 0 .. 1 - 1 : h[j] = 0 /\ h[j + 1] = 0
        OBVIOUS
      <3>3. Magnitude(conv)' = 0
        BY <1>7, <1>8, ConvType
      <3> QED BY <3>1, <3>2, <3>3 DEF Quotients
    <2>2. Fit(1)'
      BY <1>7, FirstFit DEF Fit
    <2>3. buf'[start' + 1] = N!Nul /\ buf'[start' + 0] = 0
      <3>1. PICK at : at = start'
        OBVIOUS
      <3>2. at \in 0 .. Last /\ at + 1 \in 0 .. Last /\ at + 0 = at /\ at # at + 1
        BY <1>1, <1>3, <3>1, DigitsType
      <3>3. buf' = [buf EXCEPT ![at] = 0, ![at + 1] = N!Nul] /\ buf \in [0 .. Last -> Int]
        BY <1>1, <1>3, <1>8, <3>1 DEF NumberInv, NumberTypes
      <3> QED BY <3>1, <3>2, <3>3
    <2>4. Complete(h, 1)'
      BY <2>1, <2>2, <2>3 DEF Complete
    <2>5. \A j \in 0 .. 1 - 1 : buf'[start' + j] = h[(1 - 1) - j] % N!Radix'
      <3>1. 0 % N!Radix' = 0
        BY <1>7, Division
      <3>2. h[0] = 0
        OBVIOUS
      <3> HIDE DEF h
      <3> SUFFICES ASSUME NEW j \in 0 .. 1 - 1
                   PROVE  buf'[start' + j] = h[(1 - 1) - j] % N!Radix'
        OBVIOUS
      <3>3. j = 0 /\ (1 - 1) - j = 0
        BY OnlyZero
      <3>4. buf'[start' + j] = 0 /\ h[(1 - 1) - j] = 0
        BY <2>3, <3>2, <3>3
      <3> QED BY <3>1, <3>4
    <2>6. Turned(h, 1)'
      BY <2>4, <2>5 DEF Turned
    <2>7. \E n \in Nat \ {0} : \E g : Turned(g, n)'
      <3> HIDE DEF h
      <3> QED BY <2>6
    <2> QED BY <1>1, <1>5, <1>6, <1>8, <2>7 DEF NumberInv, NumberPrinted, N!NumberPrinted, NumberLoops
  <1>9. CASE c.value # 0
    <2> DEFINE h == [j \in 0 .. 0 |-> Magnitude(c)]
    <2>1. Quotients(h, 0)'
      BY <1>3, <1>7 DEF Quotients
    <2>2. Fit(0)'
      BY <1>7, FirstFit DEF Fit
    <2>3. newval' < 2 ^ Width /\ Width \in 1 .. Width /\ Width + Bits' * 0 <= Width
      BY <1>2, <1>7, ConvType, FirstFit
    <2>4. Taking(h, 0)'
      <3>1. newbuf' = start' + 0 /\ h[0] = newval' /\ ~\E j \in 0 .. 0 - 1 : TRUE
        BY <1>1, <1>2, <1>3, <1>9
      <3> HIDE DEF h
      <3> QED BY <2>1, <2>2, <2>3, <3>1 DEF Taking, Room
    <2>5. \E n \in Nat : \E g : Taking(g, n)'
      <3> HIDE DEF h
      <3> QED BY <2>4
    <2>6. conv'.value # 0
      BY <1>1, <1>9
    <2> QED BY <1>1, <1>5, <1>6, <1>9, <2>5, <2>6 DEF NumberInv, NumberPrinted, N!NumberPrinted, NumberLoops
  <1> QED BY <1>8, <1>9

LEMMA NextFit ==
    ASSUME NEW b \in {3, 4}, NEW w \in Nat, NEW n \in Nat, NEW m \in 1 .. w, m + b * n <= w
    PROVE  /\ b * (n + 1) <= w + b - 1
           /\ m > b => m - b \in 1 .. w /\ (m - b) + b * (n + 1) <= w
  <1>1. CASE b = 3
    BY <1>1
  <1>2. CASE b = 4
    BY <1>2
  <1> QED BY <1>1, <1>2

(* A division takes the bits of a digit off the number. *)
LEMMA BitsOff ==
    ASSUME NEW m \in 1 .. Width, NEW x \in Nat, x < 2 ^ m,
           NEW r \in {10, 16}, x \div r > 0
    PROVE  LET b == IF r = 10 THEN 3 ELSE 4 IN m > b /\ x \div r < 2 ^ (m - b)
  <1>1. \A k \in 0 .. Width : 2 ^ k \in Nat \ {0} /\ (k > 0 => 2 ^ k = 2 * 2 ^ (k - 1))
    BY NumbersAssumption
  <1>2. 2 ^ 0 = 1 /\ Width \in Nat
    BY NumbersAssumption
  <1>3. \A k \in 1 .. Width : k \in 0 .. Width /\ k - 1 \in 0 .. Width /\ k > 0
    BY <1>2
  <1>4. \A k \in 1 .. Width : 2 ^ k = 2 * 2 ^ (k - 1) /\ 2 ^ (k - 1) \in Nat
    BY <1>1, <1>3
  <1>5. m = 1 => 2 ^ m = 2
    BY <1>2, <1>4
  <1>6. m = 2 => 2 ^ m = 4
    <2> SUFFICES ASSUME m = 2 PROVE 2 ^ m = 4
      OBVIOUS
    <2>1. 1 \in 1 .. Width /\ 2 \in 1 .. Width /\ 1 - 1 = 0 /\ 2 - 1 = 1
      OBVIOUS
    <2>2. 2 ^ 1 = 2 * 2 ^ 0 /\ 2 ^ 2 = 2 * 2 ^ 1
      BY <1>4, <2>1
    <2> QED BY <1>2, <2>2
  <1>7. m >= 3 => 2 ^ m = 8 * 2 ^ (m - 3) /\ 2 ^ (m - 3) \in Nat
    <2> SUFFICES ASSUME m >= 3 PROVE 2 ^ m = 8 * 2 ^ (m - 3) /\ 2 ^ (m - 3) \in Nat
      OBVIOUS
    <2>1. /\ m \in 1 .. Width /\ m - 1 \in 1 .. Width /\ m - 2 \in 1 .. Width
          /\ (m - 1) - 1 = m - 2 /\ (m - 2) - 1 = m - 3
      BY <1>2
    <2>2. /\ 2 ^ m = 2 * 2 ^ (m - 1) /\ 2 ^ (m - 1) = 2 * 2 ^ (m - 2)
          /\ 2 ^ (m - 2) = 2 * 2 ^ (m - 3) /\ 2 ^ (m - 3) \in Nat
      BY <1>4, <2>1
    <2> QED BY <2>2
  <1>8. m > 3 => 2 ^ (m - 3) = 2 * 2 ^ (m - 4) /\ 2 ^ (m - 4) \in Nat
    <2> SUFFICES ASSUME m > 3 PROVE 2 ^ (m - 3) = 2 * 2 ^ (m - 4) /\ 2 ^ (m - 4) \in Nat
      OBVIOUS
    <2>1. m - 3 \in 1 .. Width /\ (m - 3) - 1 = m - 4
      BY <1>2
    <2> QED BY <1>4, <2>1
  <1>9. m = 3 => 2 ^ m = 8
    <2> SUFFICES ASSUME m = 3 PROVE 2 ^ m = 8
      OBVIOUS
    <2>1. m - 3 = 0
      OBVIOUS
    <2> QED BY <1>2, <1>7, <2>1
  <1>10. m = 4 => 2 ^ m = 16
    <2> SUFFICES ASSUME m = 4 PROVE 2 ^ m = 16
      OBVIOUS
    <2>1. m - 4 = 0 /\ m > 3 /\ m >= 3
      OBVIOUS
    <2> QED BY <1>2, <1>7, <1>8, <2>1
  <1> DEFINE p == 2 ^ m
             q == 2 ^ (m - 3)
             o == 2 ^ (m - 4)
  <1>11. /\ m = 1 => p = 2
         /\ m = 2 => p = 4
         /\ m = 3 => p = 8
         /\ m = 4 => p = 16
         /\ m >= 3 => p = 8 * q /\ q \in Nat
         /\ m > 3 => q = 2 * o /\ o \in Nat
         /\ x < p /\ m \in Nat \ {0}
    BY <1>2, <1>5, <1>6, <1>7, <1>8, <1>9, <1>10
  <1> HIDE DEF p, q, o
  <1>12. CASE r = 10
    <2>1. m > 3 /\ x \div 10 < q
      BY <1>11, <1>12
    <2> QED BY <1>12, <2>1 DEF q
  <1>13. CASE r = 16
    <2>1. m > 4 /\ x \div 16 < o
      BY <1>11, <1>13
    <2> QED BY <1>13, <2>1 DEF o
  <1> QED BY <1>12, <1>13

LEMMA DigitKeeps ==
    ASSUME NumberInv, N!Digit
    PROVE  NumberInv'
  <1> DEFINE r == N!Radix
  <1>1. /\ loop = "digits" /\ newval > 0 /\ newval \in Nat /\ start = StartOf(conv)
        /\ loop' = "digits" /\ UNCHANGED <<conv, start, beg, out>>
        /\ buf' = [buf EXCEPT ![newbuf] = newval % r]
        /\ newbuf' = newbuf + 1 /\ newval' = newval \div r
        /\ conv \in N!Convs /\ buf \in [0 .. Last -> Int]
    BY DEF NumberInv, NumberTypes, N!Digit, NumberLoops
  <1>0. PICK n \in Nat : \E h : Taking(h, n)
    BY <1>1 DEF NumberInv
  <1>2. PICK h : Taking(h, n)
    BY <1>0
  <1>3. /\ r \in {10, 16} /\ Bits \in {3, 4} /\ (r = 10 <=> Bits = 3)
        /\ newval \div r \in Nat /\ newval % r \in Int
    BY <1>1, Radices, Division
  <1>4. /\ newbuf = start + n /\ newbuf \in 0 .. Last /\ start \in Nat
    BY <1>1, <1>2, InBuffer, ConvType DEF Taking
  <1>5. /\ h \in [0 .. n -> Nat] /\ h[0] = Magnitude(conv) /\ h[n] = newval
        /\ \A j \in 0 .. n - 1 : /\ h[j + 1] = h[j] \div r
                                 /\ h[j] > 0 /\ buf[start + j] = h[j] % r
    BY <1>2 DEF Taking, Quotients
  <1>6. PICK m \in 1 .. Width : newval < 2 ^ m /\ m + Bits * n <= Width
    BY <1>1, <1>2 DEF Taking, Room
  <1>7. UNCHANGED <<N!Radix, Bits, Magnitude(conv), StartOf(conv), N!Negative(conv)>>
    BY <1>1 DEF N!Radix, Bits, Magnitude, StartOf, N!Negative
  <1> HIDE DEF r
  <1> DEFINE more == [j \in 0 .. n + 1 |-> IF j <= n THEN h[j] ELSE newval \div r]
  <1>g. PICK g : g = more
    OBVIOUS
  <1>8. g \in [0 .. n + 1 -> Nat] /\ g[0] = Magnitude(conv) /\ g[n + 1] = newval'
    BY <1>1, <1>3, <1>5, <1>g
  <1>9. \A j \in 0 .. n : g[j] = h[j] /\ g[j + 1] = g[j] \div r /\ g[j] > 0
    <2> SUFFICES ASSUME NEW j \in 0 .. n PROVE g[j] = h[j] /\ g[j + 1] = g[j] \div r /\ g[j] > 0
      OBVIOUS
    <2>1. CASE j = n
      BY <1>1, <1>5, <1>g, <2>1
    <2>2. CASE j # n
      <3>1. j \in 0 .. n - 1 /\ j + 1 \in 0 .. n + 1 /\ j + 1 <= n /\ j \in 0 .. n + 1 /\ j <= n
        BY <2>2
      <3> QED BY <1>5, <1>g, <3>1
    <2> QED BY <2>1, <2>2
  <1>10. \A j \in 0 .. n : buf'[start + j] = g[j] % r
    <2> SUFFICES ASSUME NEW j \in 0 .. n PROVE buf'[start + j] = g[j] % r
      OBVIOUS
    <2>1. g[j] = h[j]
      BY <1>9
    <2>2. CASE j = n
      BY <1>1, <1>3, <1>4, <1>5, <2>1, <2>2
    <2>3. CASE j # n
      <3>1. j \in 0 .. n - 1 /\ start + j # newbuf /\ start + j \in 0 .. Last
        BY <1>4, <2>3, DigitsType
      <3>2. buf'[start + j] = buf[start + j]
        BY <1>1, <3>1
      <3> QED BY <1>5, <2>1, <3>1, <3>2
    <2> QED BY <2>2, <2>3
  <1> HIDE DEF more
  <1>11. Width \in Nat
    BY NumbersAssumption
  <1>12. Fit(n + 1)
    BY <1>3, <1>6, <1>11, NextFit DEF Fit
  <1>13. newval' > 0 => \E k \in 1 .. Width : newval' < 2 ^ k /\ k + Bits * (n + 1) <= Width
    <2> SUFFICES ASSUME newval' > 0
                 PROVE  \E k \in 1 .. Width : newval' < 2 ^ k /\ k + Bits * (n + 1) <= Width
      OBVIOUS
    <2>1. Bits = IF r = 10 THEN 3 ELSE 4
      BY <1>3
    <2>2. m > Bits /\ newval' < 2 ^ (m - Bits)
      BY <1>1, <1>3, <1>6, <2>1, BitsOff
    <2>3. m - Bits \in 1 .. Width /\ (m - Bits) + Bits * (n + 1) <= Width
      BY <1>3, <1>6, <1>11, <2>2, NextFit
    <2> QED BY <2>2, <2>3
  <1>14. Taking(g, n + 1)'
    <2>1. newbuf' = start' + (n + 1) /\ (n + 1) - 1 = n
      BY <1>1, <1>4
    <2>2. Quotients(g, n + 1)'
      <3>1. N!Radix' = r /\ Magnitude(conv)' = Magnitude(conv)
        BY <1>7 DEF r
      <3>2. \A j \in 0 .. n : g[j + 1] = g[j] \div N!Radix'
        BY <1>9, <3>1
      <3>3. \A j \in 0 .. (n + 1) - 1 : g[j + 1] = g[j] \div N!Radix'
        BY <2>1, <3>2
      <3>4. g[0] = Magnitude(conv)'
        BY <1>8, <3>1
      <3> QED BY <1>8, <3>3, <3>4 DEF Quotients
    <2>3. Fit(n + 1)'
      BY <1>7, <1>12 DEF Fit
    <2>4. \A j \in 0 .. (n + 1) - 1 : g[j] > 0 /\ buf'[start' + j] = g[j] % N!Radix'
      BY <1>1, <1>7, <1>9, <1>10, <2>1 DEF r
    <2>5. newval' > 0 => \E k \in 1 .. Width : newval' < 2 ^ k /\ k + Bits' * (n + 1) <= Width
      BY <1>7, <1>13
    <2>6. Room(n + 1)'
      BY <2>5 DEF Room
    <2> QED BY <1>8, <2>1, <2>2, <2>3, <2>4, <2>6 DEF Taking
  <1>15. n + 1 \in Nat
    OBVIOUS
  <1>16. NumberTypes'
    BY <1>1, <1>3, <1>4, <1>7 DEF NumberInv, NumberTypes
  <1>17. start' = StartOf(conv)' /\ (N!Negative(conv)' => buf'[0] = N!Minus)
    <2>1. N!Negative(conv) => newbuf # 0
      BY <1>1, <1>4 DEF StartOf
    <2> QED BY <1>1, <1>7, <2>1 DEF NumberInv, NumberLoops
  <1> QED BY <1>1, <1>14, <1>15, <1>16, <1>17 DEF NumberInv, NumberLoops, NumberPrinted, N!NumberPrinted

LEMMA LastDigitKeeps ==
    ASSUME NumberInv, N!LastDigit
    PROVE  NumberInv'
  <1>1. /\ loop = "digits" /\ newval = 0 /\ start = StartOf(conv) /\ conv.value # 0
        /\ loop' = "reverse" /\ UNCHANGED <<conv, newval, start, out>>
        /\ buf' = [buf EXCEPT ![newbuf] = N!Nul]
        /\ newbuf' = newbuf - 1 /\ beg' = start
        /\ conv \in N!Convs /\ buf \in [0 .. Last -> Int]
    BY DEF NumberInv, NumberTypes, N!LastDigit, NumberLoops
  <1>0. PICK n \in Nat : \E h : Taking(h, n)
    BY <1>1 DEF NumberInv
  <1>2. PICK h : Taking(h, n)
    BY <1>0
  <1>3. /\ newbuf = start + n /\ newbuf \in 0 .. Last /\ start \in Nat
    BY <1>1, <1>2, InBuffer, ConvType DEF Taking
  <1>4. /\ Quotients(h, n) /\ h[n] = 0 /\ Fit(n) /\ h[0] = Magnitude(conv)
        /\ \A j \in 0 .. n - 1 : h[j] > 0 /\ buf[start + j] = h[j] % N!Radix
    BY <1>1, <1>2 DEF Taking, Quotients
  <1>5. n # 0
    BY <1>1, <1>4, ConvType
  <1>6. UNCHANGED <<N!Radix, Bits, Magnitude(conv), StartOf(conv), N!Negative(conv)>>
    BY <1>1 DEF N!Radix, Bits, Magnitude, StartOf, N!Negative
  <1>7. /\ buf'[start + n] = N!Nul /\ buf' \in [0 .. Last -> Int]
        /\ \A j \in 0 .. n - 1 : buf'[start + j] = buf[start + j]
    <2>1. \A j \in 0 .. n - 1 : start + j # newbuf /\ start + j \in 0 .. Last
      BY <1>3, DigitsType
    <2>2. buf' \in [0 .. Last -> Int]
      <3>1. N!Nul \in Int
        BY DEF N!Nul
      <3>2. buf \in [0 .. Last -> Int] /\ buf' = [buf EXCEPT ![newbuf] = N!Nul]
        BY <1>1
      <3> QED BY <3>1, <3>2
    <2>3. buf'[start + n] = N!Nul
      <3>1. newbuf \in DOMAIN buf
        BY <1>1, <1>3
      <3>2. buf'[newbuf] = N!Nul
        BY <1>1, <3>1
      <3> QED BY <1>3, <3>2
    <2>4. \A j \in 0 .. n - 1 : buf'[start + j] = buf[start + j]
      BY <1>1, <2>1
    <2> QED BY <2>2, <2>3, <2>4
  <1>8. Complete(h, n)'
    <2>1. n > 1 => h[n - 1] # 0
      <3>1. n > 1 => n - 1 \in 0 .. n - 1
        OBVIOUS
      <3> QED BY <1>4, <3>1
    <2> QED BY <1>1, <1>4, <1>6, <1>7, <2>1 DEF Complete, Quotients, Fit
  <1>9. Turning(h, n, 0)'
    <2>1. /\ beg' = start' + 0 /\ newbuf' = start' + (n - 1) - 0 /\ 2 * 0 <= n
      BY <1>1, <1>3
    <2>2. \A j \in 0 .. n - 1 : ~(j < 0 \/ j > (n - 1) - 0)
      OBVIOUS
    <2>3. \A j \in 0 .. n - 1 : buf'[start' + j] =
             h[IF j < 0 \/ j > (n - 1) - 0 THEN (n - 1) - j ELSE j] % N!Radix'
      BY <1>1, <1>4, <1>6, <1>7, <2>2
    <2> QED BY <1>8, <2>1, <2>3 DEF Turning
  <1>10. n \in Nat \ {0} /\ 0 \in Nat
    BY <1>5
  <1>11. NumberTypes'
    <2>1. /\ newval' \in Nat /\ start' \in Nat /\ newbuf' \in Int /\ beg' \in Int
          /\ loop' = "reverse" /\ conv' \in N!Convs
      BY <1>1, <1>3
    <2> QED BY <1>7, <2>1 DEF NumberTypes, NumberLoops
  <1>12. start' = StartOf(conv)' /\ (N!Negative(conv)' => buf'[0] = N!Minus)
    <2>1. N!Negative(conv) => newbuf # 0
      BY <1>1, <1>3 DEF StartOf
    <2> QED BY <1>1, <1>6, <2>1 DEF NumberInv, NumberLoops
  <1> QED BY <1>1, <1>9, <1>10, <1>11, <1>12
      DEF NumberInv, NumberLoops, NumberPrinted, N!NumberPrinted

LEMMA SwapKeeps ==
    ASSUME NumberInv, N!Swap
    PROVE  NumberInv'
  <1>1. /\ loop = "reverse" /\ start = StartOf(conv) /\ beg < newbuf
        /\ loop' = "reverse" /\ UNCHANGED <<conv, newval, start, out>>
        /\ buf' = [buf EXCEPT ![beg] = buf[newbuf], ![newbuf] = buf[beg]]
        /\ beg' = beg + 1 /\ newbuf' = newbuf - 1
        /\ conv \in N!Convs /\ buf \in [0 .. Last -> Int]
    BY DEF NumberInv, NumberTypes, N!Swap, N!MoreToSwap, NumberLoops
  <1>0. PICK n \in Nat \ {0}, d \in Nat : \E h : Turning(h, n, d)
    BY <1>1 DEF NumberInv
  <1>2. PICK h : Turning(h, n, d)
    BY <1>0
  <1>3. /\ Complete(h, n) /\ 2 * d <= n
        /\ beg = start + d /\ newbuf = start + (n - 1) - d
        /\ \A j \in 0 .. n - 1 :
              buf[start + j] = h[IF j < d \/ j > (n - 1) - d THEN (n - 1) - j ELSE j] % N!Radix
    BY <1>2 DEF Turning
  <1>4. start \in Nat /\ start + n \in 0 .. Last /\ Last \in Nat
    BY <1>1, <1>3, InBuffer, ConvType, DigitsType DEF Complete
  <1>5. UNCHANGED <<N!Radix, Bits, Magnitude(conv), StartOf(conv), N!Negative(conv)>>
    BY <1>1 DEF N!Radix, Bits, Magnitude, StartOf, N!Negative
  <1>6. PICK e : e = (n - 1) - d
    OBVIOUS
  <1>7. /\ d \in 0 .. n - 1 /\ e \in 0 .. n - 1 /\ d < e /\ newbuf = start + e
        /\ beg \in 0 .. Last /\ newbuf \in 0 .. Last /\ beg # newbuf
        /\ (n - 1) - e = d /\ (n - 1) - d = e /\ 2 * (d + 1) <= n
    <2>1. d < e /\ newbuf = start + e
      BY <1>1, <1>3, <1>4, <1>6
    <2>2. d \in 0 .. n - 1 /\ e \in 0 .. n - 1 /\ (n - 1) - e = d /\ 2 * (d + 1) <= n
      BY <1>6, <2>1
    <2> QED BY <1>3, <1>4, <1>6, <2>1, <2>2
  <1>8. buf[start + d] = h[d] % N!Radix /\ buf[start + e] = h[e] % N!Radix
    <2>1. ~(d < d \/ d > (n - 1) - d) /\ ~(e < d \/ e > (n - 1) - d)
      BY <1>7
    <2> QED BY <1>3, <1>7, <2>1
  <1>9. /\ buf' \in [0 .. Last -> Int]
        /\ buf'[start + d] = h[e] % N!Radix /\ buf'[start + e] = h[d] % N!Radix
        /\ \A i \in 0 .. Last : i # beg /\ i # newbuf => buf'[i] = buf[i]
    BY <1>1, <1>3, <1>7, <1>8
  <1>10. ASSUME NEW j \in 0 .. n - 1
         PROVE  buf'[start + j] =
                  h[IF j < d + 1 \/ j > (n - 1) - (d + 1) THEN (n - 1) - j ELSE j] % N!Radix
    <2>1. CASE j = d
      <3>1. j < d + 1 /\ (n - 1) - j = e
        BY <1>7, <2>1
      <3> QED BY <1>9, <2>1, <3>1
    <2>2. CASE j = e
      <3>1. j > (n - 1) - (d + 1) /\ (n - 1) - j = d
        BY <1>7, <2>2
      <3> QED BY <1>9, <2>2, <3>1
    <2>3. CASE j # d /\ j # e
      <3>1. start + j \in 0 .. Last /\ start + j # beg /\ start + j # newbuf
        BY <1>3, <1>4, <1>7, <2>3
      <3>2. j < d + 1 \/ j > (n - 1) - (d + 1) <=> j < d \/ j > (n - 1) - d
        BY <1>7, <2>3
      <3> QED BY <1>3, <1>9, <3>1, <3>2
    <2> QED BY <2>1, <2>2, <2>3
  <1>11. Complete(h, n)'
    <2>1. buf'[start + n] = buf[start + n]
      <3>1. start + n # beg /\ start + n # newbuf
        BY <1>3, <1>4, <1>7
      <3> QED BY <1>4, <1>9, <3>1
    <2> QED BY <1>1, <1>3, <1>5, <2>1 DEF Complete, Quotients, Fit
  <1>12. Turning(h, n, d + 1)'
    <2>1. beg' = start' + (d + 1) /\ newbuf' = start' + (n - 1) - (d + 1)
      <3>1. /\ beg' = beg + 1 /\ newbuf' = newbuf - 1 /\ start' = start /\ start \in Nat
            /\ beg = start + d /\ newbuf = start + (n - 1) - d
        BY <1>1, <1>3, <1>4
      <3> QED BY <3>1
    <2>2. \A j \in 0 .. n - 1 : buf'[start' + j] =
             h[IF j < d + 1 \/ j > (n - 1) - (d + 1) THEN (n - 1) - j ELSE j] % N!Radix'
      BY <1>1, <1>5, <1>10
    <2> QED BY <1>7, <1>11, <2>1, <2>2 DEF Turning
  <1>13. d + 1 \in Nat
    OBVIOUS
  <1>14. NumberTypes'
    BY <1>1, <1>9 DEF NumberInv, NumberTypes
  <1>15. start' = StartOf(conv)' /\ (N!Negative(conv)' => buf'[0] = N!Minus)
    <2>1. N!Negative(conv) => beg # 0 /\ newbuf # 0
      BY <1>1, <1>3, <1>7 DEF StartOf
    <2>2. 0 \in 0 .. Last
      BY <1>4
    <2> QED BY <1>1, <1>5, <1>9, <2>1, <2>2 DEF NumberInv, NumberLoops
  <1> QED BY <1>1, <1>12, <1>13, <1>14, <1>15
      DEF NumberInv, NumberLoops, NumberPrinted, N!NumberPrinted

LEMMA SwappedKeeps ==
    ASSUME NumberInv, N!Swapped
    PROVE  NumberInv'
  <1>1. /\ loop = "reverse" /\ ~(beg < newbuf) /\ start = StartOf(conv)
        /\ loop' = "converted" /\ UNCHANGED <<conv, newval, buf, start, newbuf, beg, out>>
        /\ start \in Nat
    BY DEF NumberInv, NumberTypes, N!Swapped, N!MoreToSwap, NumberLoops
  <1>0. PICK n \in Nat \ {0}, d \in Nat : \E h : Turning(h, n, d)
    BY <1>1 DEF NumberInv
  <1>2. PICK h : Turning(h, n, d)
    BY <1>0
  <1>3. UNCHANGED <<N!Radix, Bits, Magnitude(conv), StartOf(conv), N!Negative(conv)>>
    BY <1>1 DEF N!Radix, Bits, Magnitude, StartOf, N!Negative
  <1>4. ASSUME NEW j \in 0 .. n - 1
        PROVE  buf[start + j] = h[(n - 1) - j] % N!Radix
    <2>1. d >= (n - 1) - d
      BY <1>1, <1>2 DEF Turning
    <2>2. (j < d \/ j > (n - 1) - d) \/ j = (n - 1) - j
      BY <1>2, <2>1 DEF Turning
    <2> QED BY <1>2, <2>2 DEF Turning
  <1>5. Turned(h, n)'
    BY <1>1, <1>2, <1>3, <1>4 DEF Turning, Turned, Complete, Quotients, Fit
  <1>6. NumberTypes'
    BY <1>1 DEF NumberInv, NumberTypes, NumberLoops
  <1>7. start' = StartOf(conv)' /\ (N!Negative(conv)' => buf'[0] = N!Minus)
    BY <1>1, <1>3 DEF NumberInv, NumberLoops
  <1> QED BY <1>1, <1>5, <1>6, <1>7 DEF NumberInv, NumberLoops, NumberPrinted, N!NumberPrinted

(* Where a string ends, and its text. *)
StringAt(at, n) ==
    /\ at + n \in 0 .. Last
    /\ buf[at + n] = N!Nul /\ \A j \in 0 .. n - 1 : buf[at + j] # N!Nul

LEMMA TextIs ==
    ASSUME NumberTypes, NEW at \in Nat, NEW n \in Nat, StringAt(at, n)
    PROVE  /\ N!Ends(at) = at + n
           /\ N!Text(at) \in Seq(Int) /\ Len(N!Text(at)) = n
           /\ \A k \in 1 .. n : N!Text(at)[k] = buf[at + (k - 1)]
  <1> USE DEF StringAt
  <1> DEFINE Is(j) == buf[j] = N!Nul /\ \A k \in at .. j - 1 : buf[k] # N!Nul
             end == CHOOSE j \in at .. Last : Is(j)
  <1>1. \A k \in at .. (at + n) - 1 : buf[k] # N!Nul
    <2> SUFFICES ASSUME NEW k \in at .. (at + n) - 1 PROVE buf[k] # N!Nul
      OBVIOUS
    <2>1. PICK j : j = k - at
      OBVIOUS
    <2>2. j \in 0 .. n - 1 /\ at + j = k
      BY <2>1
    <2> QED BY <2>2
  <1>2. at + n \in at .. Last /\ Is(at + n) /\ Last \in Nat
    BY <1>1, DigitsType
  <1>3. end \in at .. Last /\ Is(end)
    <2> HIDE DEF Is
    <2> QED BY <1>2
  <1>4. N!Ends(at) = end
    BY DEF N!Ends, Last
  <1> HIDE DEF end
  <1>5. end = at + n
    <2>1. ~(end < at + n) /\ ~(at + n < end)
      BY <1>1, <1>2, <1>3
    <2> QED BY <1>2, <1>3, <2>1
  <1>6. N!Ends(at) - at = n
    BY <1>4, <1>5
  <1>7. N!Text(at) = [k \in 1 .. n |-> buf[at + k - 1]]
    BY <1>6 DEF N!Text
  <1>8. \A k \in 1 .. n : at + k - 1 = at + (k - 1) /\ at + (k - 1) \in 0 .. Last
    BY <1>2
  <1>9. \A k \in 1 .. n : buf[at + k - 1] \in Int
    BY <1>8 DEF NumberTypes
  <1> QED BY <1>4, <1>5, <1>7, <1>8, <1>9

(* The digits of a number, with zeros in front, denote it. *)
Written(s, h, z, n) ==
    /\ Len(s) = z + n /\ \A i \in 1 .. z : s[i] = 0
    /\ \A j \in 0 .. n - 1 : s[z + n - j] = h[j] % N!Radix

LEMMA DigitsDenote ==
    ASSUME NEW n \in Nat \ {0}, NEW z \in Nat, NEW h, Complete(h, n),
           NEW s, Written(s, h, z, n)
    PROVE  N!Denotes(s, N!Radix) = Magnitude(conv)
  <1> USE DEF Written
  <1> DEFINE r == N!Radix
             u == [i \in 0 .. z + n |-> IF i <= z THEN 0 ELSE h[z + n - i]]
  <1>1. /\ h \in [0 .. n -> Nat] /\ h[0] = Magnitude(conv) /\ h[n] = 0
        /\ \A j \in 0 .. n - 1 : h[j + 1] = h[j] \div r
    BY DEF Complete, Quotients
  <1>2. r \in {10, 16}
    BY Radices
  <1> HIDE DEF r
  <1>3. u[0] = 0 /\ u[z + n] = Magnitude(conv)
    <2>1. z + n - (z + n) = 0 /\ ~(z + n <= z) /\ 0 <= z /\ 0 \in 0 .. z + n /\ z + n \in 0 .. z + n
      OBVIOUS
    <2> QED BY <1>1, <2>1
  <1>4. ASSUME NEW i \in 1 .. z + n PROVE u[i] = r * u[i - 1] + s[i]
    <2>1. CASE i <= z
      <3>1. u[i] = 0 /\ u[i - 1] = 0 /\ s[i] = 0
        BY <2>1
      <3>2. 0 = r * 0 + 0
        BY <1>2
      <3> QED BY <3>1, <3>2
    <2>2. CASE ~(i <= z)
      <3>1. PICK j : j = z + n - i
        OBVIOUS
      <3>2. j \in 0 .. n - 1 /\ i = z + n - j /\ j + 1 \in 0 .. n /\ j \in 0 .. n
            /\ (i - 1 <= z <=> j + 1 = n) /\ z + n - (i - 1) = j + 1
            /\ i \in 0 .. z + n /\ i - 1 \in 0 .. z + n
        BY <2>2, <3>1
      <3>3. u[i] = h[j] /\ u[i - 1] = h[j + 1]
        BY <1>1, <2>2, <3>1, <3>2
      <3>4. s[i] = h[j] % r
        BY <3>2 DEF r
      <3>5. h[j] \in Nat /\ h[j + 1] = h[j] \div r
        BY <1>1, <3>2
      <3>6. h[j] = r * (h[j] \div r) + (h[j] % r)
        BY <1>2, <3>5, Division
      <3> QED BY <3>3, <3>4, <3>5, <3>6
    <2> QED BY <2>1, <2>2
  <1>5. u = [i \in 0 .. z + n |-> u[i]]
    OBVIOUS
  <1> HIDE DEF u
  <1>6. PICK m : m = z + n
    OBVIOUS
  <1>7. m \in Nat /\ Values(u, s, r, m)
    <2>1. m \in Nat /\ Len(s) = m /\ u[0] = 0
      BY <1>3, <1>6
    <2>2. u = [i \in 0 .. m |-> u[i]]
      BY <1>5, <1>6
    <2>3. \A i \in 1 .. m : u[i] = r * u[i - 1] + s[i]
      BY <1>4, <1>6
    <2> QED BY <2>1, <2>2, <2>3 DEF Values
  <1>8. N!Denotes(s, r) = u[m]
    BY <1>7, Denoted
  <1> QED BY <1>3, <1>6, <1>8 DEF r

LEMMA OnlyDigitsDenote ==
    ASSUME NEW n \in Nat \ {0}, NEW h, Complete(h, n),
           NEW s, Len(s) = n, \A j \in 0 .. n - 1 : s[n - j] = h[j] % N!Radix
    PROVE  N!Denotes(s, N!Radix) = Magnitude(conv)
  <1>1. PICK z : z = 0
    OBVIOUS
  <1>2. \A j \in 0 .. n - 1 : z + n - j = n - j
    BY <1>1
  <1>3. \A j \in 0 .. n - 1 : s[z + n - j] = h[j] % N!Radix
    BY <1>2
  <1>4. z \in Nat /\ Len(s) = z + n /\ \A i \in 1 .. z : s[i] = 0
    BY <1>1
  <1>5. Written(s, h, z, n)
    BY <1>3, <1>4 DEF Written
  <1> QED BY <1>4, <1>5, DigitsDenote

LEMMA DigitsPlain ==
    ASSUME NEW n \in Nat \ {0}, NEW h, Complete(h, n),
           NEW s \in Seq(Int), Len(s) = n,
           \A j \in 0 .. n - 1 : s[n - j] = h[j] % N!Radix
    PROVE  N!Plain(s, N!Radix)
  <1> DEFINE r == N!Radix
  <1>1. /\ h \in [0 .. n -> Nat] /\ h[n] = 0 /\ (n > 1 => h[n - 1] # 0)
        /\ \A j \in 0 .. n - 1 : h[j + 1] = h[j] \div r
    BY DEF Complete, Quotients
  <1>2. r \in {10, 16}
    BY Radices
  <1>3. \A j \in 0 .. n - 1 : s[n - j] = h[j] % r
    OBVIOUS
  <1> HIDE DEF r
  <1>4. ASSUME NEW i \in 1 .. n PROVE s[i] \in 0 .. r - 1
    <2>1. PICK j : j = n - i
      OBVIOUS
    <2>2. j \in 0 .. n - 1 /\ n - j = i /\ h[j] \in Nat
      BY <1>1, <2>1
    <2> QED BY <1>2, <1>3, <2>2, Division
  <1>5. n > 1 => s[1] # 0
    <2> SUFFICES ASSUME n > 1 PROVE s[1] # 0
      OBVIOUS
    <2>1. n - 1 \in 0 .. n - 1 /\ n - (n - 1) = 1 /\ (n - 1) + 1 = n
      OBVIOUS
    <2>2. h[n - 1] \in Nat /\ h[n - 1] # 0 /\ h[n - 1] \div r = 0 /\ s[1] = h[n - 1] % r
      BY <1>1, <1>3, <2>1
    <2> QED BY <1>2, <2>2, Division
  <1>6. s # <<>> /\ DOMAIN s = 1 .. n
    OBVIOUS
  <1> QED BY <1>4, <1>5, <1>6 DEF N!Plain, r

(* No digit is the zero byte. *)
LEMMA DigitsSeen ==
    ASSUME NEW n \in Nat \ {0}, NEW h, Turned(h, n)
    PROVE  /\ Complete(h, n) /\ buf[start + n] = N!Nul
           /\ \A j \in 0 .. n - 1 : buf[start + j] # N!Nul
           /\ \A j \in 0 .. n - 1 : buf[start + ((n - 1) - j)] = h[j] % N!Radix
  <1>1. /\ Complete(h, n) /\ buf[start + n] = N!Nul /\ h \in [0 .. n -> Nat]
        /\ \A j \in 0 .. n - 1 : buf[start + j] = h[(n - 1) - j] % N!Radix
    BY DEF Turned, Complete, Quotients
  <1>2. \A j \in 0 .. n - 1 : (n - 1) - j \in 0 .. n - 1 /\ (n - 1) - ((n - 1) - j) = j
    OBVIOUS
  <1>3. \A j \in 0 .. n - 1 : buf[start + j] # N!Nul
    <2> SUFFICES ASSUME NEW j \in 0 .. n - 1 PROVE buf[start + j] # N!Nul
      OBVIOUS
    <2>1. PICK x \in Nat : buf[start + j] = x % N!Radix
      BY <1>1, <1>2
    <2>2. x % N!Radix \in Nat
      BY Radices, Division
    <2> QED BY <2>1, <2>2 DEF N!Nul
  <1> QED BY <1>1, <1>2, <1>3
LEMMA PutsKeeps ==
    ASSUME NumberInv, N!Puts
    PROVE  NumberInv'
  <1>1. /\ loop = "converted" /\ conv.spec # "#x" /\ start = StartOf(conv) /\ conv \in N!Convs
        /\ (N!Negative(conv) => buf[0] = N!Minus)
        /\ loop' = "printed" /\ out' = N!Text(0)
        /\ UNCHANGED <<conv, newval, buf, start, newbuf, beg>>
    BY DEF NumberInv, NumberTypes, N!Puts, NumberLoops
  <1>0. PICK n \in Nat \ {0} : \E h : Turned(h, n)
    BY <1>1 DEF NumberInv
  <1>2. PICK h : Turned(h, n)
    BY <1>0
  <1>3. /\ Complete(h, n) /\ buf[start + n] = N!Nul
        /\ \A j \in 0 .. n - 1 : buf[start + j] # N!Nul
        /\ \A j \in 0 .. n - 1 : buf[start + ((n - 1) - j)] = h[j] % N!Radix
    BY <1>2, DigitsSeen
  <1>4. start + n \in 0 .. Last /\ start \in {0, 1} /\ Last \in Nat
    <2>1. start + n \in 0 .. Last
      BY <1>1, <1>3, InBuffer DEF Complete
    <2>2. start \in {0, 1}
      BY <1>1 DEF StartOf
    <2> QED BY <2>1, <2>2, DigitsType
  <1>5. NumberTypes /\ N!Radix \in {10, 16}
    BY Radices DEF NumberInv
  <1>6. NumberTypes'
    BY <1>1, <1>5 DEF NumberTypes
  <1>7. CASE ~N!Negative(conv)
    <2>1. start = 0 /\ Magnitude(conv) = conv.value
      BY <1>1, <1>7 DEF StartOf, Magnitude
    <2>2. StringAt(0, n)
      BY <1>3, <1>4, <2>1 DEF StringAt
    <2>3. PICK s : s = N!Text(0)
      OBVIOUS
    <2>4. s \in Seq(Int) /\ Len(s) = n /\ \A k \in 1 .. n : s[k] = buf[0 + (k - 1)]
      BY <1>5, <2>2, <2>3, TextIs
    <2>5. ASSUME NEW j \in 0 .. n - 1 PROVE s[n - j] = h[j] % N!Radix
      <3>1. n - j \in 1 .. n /\ 0 + ((n - j) - 1) = 0 + ((n - 1) - j)
        OBVIOUS
      <3> QED BY <1>3, <2>1, <2>4, <3>1
    <2>6. N!Plain(s, N!Radix)
      BY <1>3, <2>4, <2>5, DigitsPlain
    <2>7. N!Denotes(s, N!Radix) = conv.value
      BY <1>3, <2>1, <2>4, <2>5, OnlyDigitsDenote
    <2>8. /\ out' = s /\ ~N!Negative(conv)' /\ conv'.spec # "#x"
          /\ N!Plain(s, N!Radix') /\ N!Denotes(s, N!Radix') = conv'.value
      BY <1>1, <1>7, <2>3, <2>6, <2>7 DEF N!Negative, N!Radix
    <2>9. NumberPrinted'
      BY <2>8 DEF NumberPrinted, N!NumberPrinted
    <2> QED BY <1>1, <1>6, <2>9 DEF NumberInv, NumberLoops
  <1>8. CASE N!Negative(conv)
    <2>1. /\ start = 1 /\ Magnitude(conv) = 2 ^ Width - conv.value /\ buf[0] = N!Minus
          /\ N!Radix = 10
      BY <1>1, <1>8 DEF StartOf, Magnitude, N!Negative, N!Radix
    <2>2. 0 + (n + 1) \in 0 .. Last /\ buf[0 + (n + 1)] = N!Nul /\ n + 1 \in Nat
      <3>1. 0 + (n + 1) = start + n
        BY <2>1
      <3> QED BY <1>3, <1>4, <3>1
    <2>3. ASSUME NEW j \in 0 .. (n + 1) - 1 PROVE buf[0 + j] # N!Nul
      <3>1. CASE j = 0
        BY <2>1, <3>1 DEF N!Minus, N!Nul
      <3>2. CASE j # 0
        <4>1. j - 1 \in 0 .. n - 1 /\ 0 + j = 1 + (j - 1)
          BY <3>2
        <4> QED BY <1>3, <2>1, <4>1
      <3> QED BY <3>1, <3>2
    <2>4. PICK t : t = N!Text(0)
      OBVIOUS
    <2>5. /\ t \in Seq(Int) /\ Len(t) = n + 1
          /\ \A k \in 1 .. n + 1 : t[k] = buf[0 + (k - 1)]
      <3>1. StringAt(0, n + 1)
        BY <2>2, <2>3 DEF StringAt
      <3> QED BY <1>5, <2>2, <2>4, <3>1, TextIs
    <2>6. t[1] = N!Minus
      <3>1. 1 \in 1 .. n + 1 /\ 0 + (1 - 1) = 0
        OBVIOUS
      <3> QED BY <2>1, <2>5, <3>1
    <2>7. PICK s : s = Tail(t)
      OBVIOUS
    <2>8. s \in Seq(Int) /\ Len(s) = n /\ \A k \in 1 .. n : s[k] = t[k + 1]
      <3>1. t # <<>>
        BY <2>5
      <3> QED BY <2>5, <2>7, <3>1
    <2>9. ASSUME NEW j \in 0 .. n - 1 PROVE s[n - j] = h[j] % N!Radix
      <3>1. /\ n - j \in 1 .. n /\ (n - j) + 1 \in 1 .. n + 1
            /\ 0 + (((n - j) + 1) - 1) = 1 + ((n - 1) - j)
        OBVIOUS
      <3>2. s[n - j] = t[(n - j) + 1]
        BY <2>8, <3>1
      <3>3. t[(n - j) + 1] = buf[1 + ((n - 1) - j)]
        BY <2>5, <3>1
      <3> QED BY <1>3, <2>1, <3>2, <3>3
    <2>10. N!Plain(s, N!Radix)
      BY <1>3, <2>8, <2>9, DigitsPlain
    <2>11. N!Denotes(s, N!Radix) = Magnitude(conv)
      BY <1>3, <2>8, <2>9, OnlyDigitsDenote
    <2>12. /\ out' = t /\ Tail(t) = s /\ N!Negative(conv)' /\ conv'.spec # "#x"
           /\ t[1] = N!Minus /\ N!Plain(s, 10) /\ N!Denotes(s, 10) = 2 ^ Width - conv'.value
      BY <1>1, <1>8, <2>1, <2>4, <2>6, <2>7, <2>10, <2>11 DEF N!Negative
    <2>13. NumberPrinted'
      BY <2>12 DEF NumberPrinted, N!NumberPrinted
    <2> QED BY <1>1, <1>6, <2>13 DEF NumberInv, NumberLoops
  <1> QED BY <1>7, <1>8
LEMMA MeasureKeeps ==
    ASSUME NumberInv, N!Measure
    PROVE  NumberInv'
  <1>1. /\ loop = "converted" /\ conv.spec = "#x" /\ start = StartOf(conv) /\ conv \in N!Convs
        /\ (N!Negative(conv) => buf[0] = N!Minus)
        /\ loop' = "fill" /\ newbuf' = N!Ends(N!Digits) - N!Digits /\ beg' = newbuf'
        /\ UNCHANGED <<conv, newval, buf, start, out>>
    BY DEF NumberInv, NumberTypes, N!Measure, NumberLoops
  <1>0. PICK n \in Nat \ {0} : \E h : Turned(h, n)
    BY <1>1 DEF NumberInv
  <1>2. PICK h : Turned(h, n)
    BY <1>0
  <1>3. /\ Complete(h, n) /\ buf[start + n] = N!Nul
        /\ \A j \in 0 .. n - 1 : buf[start + j] # N!Nul
    BY <1>2, DigitsSeen
  <1>4. start = N!Digits /\ N!Digits \in Nat /\ start + n \in 0 .. Last /\ n <= N!Digits
    <2>1. ~N!Negative(conv)
      BY <1>1 DEF N!Negative
    <2>2. Fit(n)
      BY <1>3 DEF Complete
    <2> QED BY <1>1, <2>1, <2>2, InBuffer, DigitsType DEF StartOf
  <1>5. NumberTypes
    BY DEF NumberInv
  <1>6. newbuf' = n /\ beg' = n
    <2>1. N!Ends(start) = start + n
      <3>1. StringAt(start, n)
        BY <1>3, <1>4 DEF StringAt
      <3> QED BY <1>4, <1>5, <3>1, TextIs
    <2> QED BY <1>1, <1>4, <2>1
  <1>7. NumberTypes'
    BY <1>1, <1>5, <1>6 DEF NumberTypes, NumberLoops
  <1>8. UNCHANGED <<N!Radix, Bits, Magnitude(conv), StartOf(conv), N!Negative(conv)>>
    BY <1>1 DEF N!Radix, Bits, Magnitude, StartOf, N!Negative
  <1>9. Turned(h, n)'
    BY <1>1, <1>2, <1>8 DEF Turned, Complete, Quotients, Fit
  <1>10. Filling(h, n)'
    <2>1. newbuf' \in n .. N!Digits /\ \A i \in n .. newbuf' - 1 : buf'[i] = 0
      BY <1>4, <1>6
    <2> QED BY <1>1, <1>6, <1>9, <2>1 DEF Filling
  <1> QED BY <1>1, <1>7, <1>8, <1>10 DEF NumberInv, NumberLoops, NumberPrinted, N!NumberPrinted

LEMMA FillKeeps ==
    ASSUME NumberInv, N!Fill
    PROVE  NumberInv'
  <1>1. /\ loop = "fill" /\ newbuf < N!Digits /\ start = StartOf(conv) /\ conv \in N!Convs
        /\ loop' = "fill" /\ newbuf' = newbuf + 1 /\ buf' = [buf EXCEPT ![newbuf] = 0]
        /\ buf \in [0 .. Last -> Int]
        /\ UNCHANGED <<conv, newval, start, beg, out>>
    BY DEF NumberInv, NumberTypes, N!Fill, NumberLoops
  <1>0. PICK n \in Nat \ {0} : \E h : Filling(h, n)
    BY <1>1 DEF NumberInv
  <1>2. PICK h : Filling(h, n)
    BY <1>0
  <1>3. /\ Complete(h, n) /\ buf[start + n] = N!Nul /\ conv.spec = "#x" /\ beg = n
        /\ newbuf \in n .. N!Digits /\ \A i \in n .. newbuf - 1 : buf[i] = 0
        /\ \A j \in 0 .. n - 1 : buf[start + j] = h[(n - 1) - j] % N!Radix
    BY <1>2 DEF Filling, Turned, Complete
  <1>4. start = N!Digits /\ N!Digits \in Nat /\ ~N!Negative(conv) /\ Last = 3 * N!Digits + 1
    BY <1>1, <1>3, DigitsType DEF StartOf, N!Negative, Last
  <1>5. /\ newbuf \in 0 .. Last /\ newbuf + 1 \in n .. N!Digits
        /\ \A j \in 0 .. n : start + j # newbuf
    BY <1>1, <1>3, <1>4
  <1>6. UNCHANGED <<N!Radix, Bits, Magnitude(conv), StartOf(conv), N!Negative(conv)>>
    BY <1>1 DEF N!Radix, Bits, Magnitude, StartOf, N!Negative
  <1>7. /\ buf' \in [0 .. Last -> Int] /\ buf'[newbuf] = 0
        /\ \A i : i # newbuf => buf'[i] = buf[i]
    BY <1>1, <1>5
  <1>8. \A i \in n .. newbuf' - 1 : buf'[i] = 0
    <2> SUFFICES ASSUME NEW i \in n .. (newbuf + 1) - 1 PROVE buf'[i] = 0
      BY <1>1
    <2>1. CASE i = newbuf
      BY <1>7, <2>1
    <2>2. CASE i # newbuf
      <3>1. i \in n .. newbuf - 1
        BY <1>3, <2>2
      <3> QED BY <1>3, <1>7, <2>2, <3>1
    <2> QED BY <2>1, <2>2
  <1>9. \A j \in 0 .. n : buf'[start' + j] = buf[start + j]
    BY <1>1, <1>5, <1>7
  <1>10. Complete(h, n)'
    <2>1. n \in 0 .. n
      OBVIOUS
    <2>2. buf'[start' + n] = N!Nul
      BY <1>3, <1>9, <2>1
    <2> QED BY <1>3, <1>6, <2>2 DEF Complete, Quotients, Fit
  <1>11. Turned(h, n)'
    <2>1. \A j \in 0 .. n - 1 : j \in 0 .. n
      OBVIOUS
    <2>2. \A j \in 0 .. n - 1 : buf'[start' + j] = h[(n - 1) - j] % N!Radix'
      BY <1>3, <1>6, <1>9, <2>1
    <2> QED BY <1>10, <2>2 DEF Turned
  <1>12. Filling(h, n)'
    BY <1>1, <1>3, <1>5, <1>8, <1>11 DEF Filling
  <1>13. NumberTypes'
    BY <1>1, <1>7 DEF NumberInv, NumberTypes, NumberLoops
  <1> QED BY <1>1, <1>4, <1>6, <1>12, <1>13
      DEF NumberInv, NumberLoops, NumberPrinted, N!NumberPrinted

LEMMA PutsFilledKeeps ==
    ASSUME NumberInv, N!PutsFilled
    PROVE  NumberInv'
  <1>1. /\ loop = "fill" /\ newbuf >= N!Digits /\ start = StartOf(conv) /\ conv \in N!Convs
        /\ loop' = "printed" /\ out' = N!Text(beg)
        /\ UNCHANGED <<conv, newval, buf, start, newbuf, beg>>
    BY DEF NumberInv, NumberTypes, N!PutsFilled, NumberLoops
  <1>0. PICK n \in Nat \ {0} : \E h : Filling(h, n)
    BY <1>1 DEF NumberInv
  <1>2. PICK h : Filling(h, n)
    BY <1>0
  <1>3. /\ conv.spec = "#x" /\ beg = n /\ newbuf \in n .. N!Digits
        /\ (\A i \in n .. newbuf - 1 : buf[i] = 0) /\ Turned(h, n)
    BY <1>2 DEF Filling
  <1>4. start = N!Digits /\ N!Digits \in Nat /\ newbuf = N!Digits /\ n <= N!Digits
        /\ N!Radix = 16 /\ Magnitude(conv) = conv.value
        /\ Last = 3 * N!Digits + 1 /\ Last \in Nat
    BY <1>1, <1>3, DigitsType DEF StartOf, N!Negative, N!Radix, Magnitude, Last
  <1>5. /\ Complete(h, n) /\ buf[start + n] = N!Nul
        /\ \A j \in 0 .. n - 1 : buf[start + j] # N!Nul
        /\ \A j \in 0 .. n - 1 : buf[start + ((n - 1) - j)] = h[j] % N!Radix
    BY <1>3, DigitsSeen
  <1>6. PICK z : z = N!Digits - n
    OBVIOUS
  <1>7. /\ z \in Nat /\ n + N!Digits = start + n /\ n + N!Digits \in 0 .. Last
        /\ N!Digits = z + n /\ start = n + z
    BY <1>3, <1>4, <1>6
  <1>8. ASSUME NEW j \in 0 .. N!Digits - 1 PROVE buf[n + j] # N!Nul
    <2>1. CASE j < z
      <3>1. n + j \in n .. newbuf - 1
        BY <1>4, <1>7, <2>1
      <3> QED BY <1>3, <3>1 DEF N!Nul
    <2>2. CASE ~(j < z)
      <3>1. j - z \in 0 .. n - 1 /\ n + j = start + (j - z)
        BY <1>4, <1>7, <2>2
      <3> QED BY <1>5, <3>1
    <2> QED BY <1>4, <1>7, <2>1, <2>2
  <1>9. NumberTypes
    BY DEF NumberInv
  <1>10. PICK s : s = N!Text(n)
    OBVIOUS
  <1>11. s \in Seq(Int) /\ Len(s) = N!Digits /\ \A k \in 1 .. N!Digits : s[k] = buf[n + (k - 1)]
    <2>1. StringAt(n, N!Digits)
      BY <1>5, <1>7, <1>8 DEF StringAt
    <2> QED BY <1>4, <1>9, <1>10, <2>1, TextIs
  <1>12. ASSUME NEW i \in 1 .. z PROVE s[i] = 0
    <2>1. i \in 1 .. N!Digits /\ n + (i - 1) \in n .. newbuf - 1
      BY <1>4, <1>7
    <2> QED BY <1>3, <1>11, <2>1
  <1>13. ASSUME NEW j \in 0 .. n - 1 PROVE s[z + n - j] = h[j] % N!Radix
    <2>1. z + n - j \in 1 .. N!Digits /\ n + ((z + n - j) - 1) = start + ((n - 1) - j)
      BY <1>7
    <2> QED BY <1>5, <1>11, <2>1
  <1>14. N!Denotes(s, 16) = conv.value
    <2>1. Len(s) = z + n
      BY <1>7, <1>11
    <2>2. /\ \A i \in 1 .. z : s[i] = 0
          /\ \A j \in 0 .. n - 1 : s[z + n - j] = h[j] % N!Radix
      BY <1>12, <1>13
    <2>3. z \in Nat /\ Complete(h, n)
      BY <1>5, <1>7
    <2>4. Written(s, h, z, n)
      BY <2>1, <2>2 DEF Written
    <2>5. N!Denotes(s, N!Radix) = Magnitude(conv)
      BY <2>3, <2>4, DigitsDenote
    <2> QED BY <1>4, <2>5
  <1>15. NumberTypes'
    BY <1>1, <1>9 DEF NumberTypes
  <1>16. out' = s /\ conv'.spec = "#x" /\ Len(s) = N!Digits /\ N!Denotes(s, 16) = conv'.value
    BY <1>1, <1>3, <1>10, <1>11, <1>14
  <1>17. NumberPrinted'
    BY <1>16 DEF NumberPrinted, N!NumberPrinted
  <1> QED BY <1>1, <1>15, <1>17 DEF NumberInv, NumberLoops

LEMMA NumberSame ==
    ASSUME NumberInv, UNCHANGED numberVars
    PROVE  NumberInv'
  <1>1. /\ loop' = loop /\ conv' = conv /\ newval' = newval /\ buf' = buf /\ start' = start
        /\ newbuf' = newbuf /\ beg' = beg /\ out' = out
    BY DEF numberVars
  <1>2. UNCHANGED <<N!Radix, Bits, Magnitude(conv), StartOf(conv), N!Negative(conv)>>
    BY <1>1 DEF N!Radix, Bits, Magnitude, StartOf, N!Negative
  <1>3. \A h, n : /\ Taking(h, n)' <=> Taking(h, n)
                  /\ Turned(h, n)' <=> Turned(h, n)
                  /\ Filling(h, n)' <=> Filling(h, n)
    BY <1>1, <1>2 DEF Taking, Turned, Filling, Complete, Quotients, Fit, Room
  <1>4. \A h, n, d : Turning(h, n, d)' <=> Turning(h, n, d)
    BY <1>1, <1>2 DEF Turning, Complete, Quotients, Fit
  <1>5. NumberPrinted' <=> NumberPrinted
    BY <1>1, <1>2 DEF NumberPrinted, N!NumberPrinted
  <1>6. NumberTypes'
    BY <1>1 DEF NumberInv, NumberTypes
  <1> QED BY <1>1, <1>2, <1>3, <1>4, <1>5, <1>6 DEF NumberInv

LEMMA NumberNext == NumberInv /\ N!Next => NumberInv'
  <1> SUFFICES ASSUME NumberInv, N!Next PROVE NumberInv'
    OBVIOUS
  <1>1. CASE loop = "idle" /\ \E c \in N!Convs : N!Printf(c)
    BY <1>1, PrintfKeeps
  <1>2. CASE N!Digit
    BY <1>2, DigitKeeps
  <1>3. CASE N!LastDigit
    BY <1>3, LastDigitKeeps
  <1>4. CASE N!Swap
    BY <1>4, SwapKeeps
  <1>5. CASE N!Swapped
    BY <1>5, SwappedKeeps
  <1>6. CASE N!Puts
    BY <1>6, PutsKeeps
  <1>7. CASE N!Measure
    BY <1>7, MeasureKeeps
  <1>8. CASE N!Fill
    BY <1>8, FillKeeps
  <1>9. CASE N!PutsFilled
    BY <1>9, PutsFilledKeeps
  <1>10. CASE N!NextFormat
    <2>1. N!Init'
      BY <1>10 DEF N!NextFormat, N!Init
    <2>2. NumberTypes'
      BY <1>10, DigitsType DEF N!NextFormat, NumberTypes, N!Fresh, N!Unwritten, Last, NumberLoops
    <2> QED BY <1>10, <2>2 DEF N!NextFormat, NumberInv, NumberLoops, NumberPrinted, N!NumberPrinted
  <1> QED BY <1>1, <1>2, <1>3, <1>4, <1>5, <1>6, <1>7, <1>8, <1>9, <1>10 DEF N!Next

(***************************************************************************)
(* In every behaviour, for words of any number of hexadecimal digits: the  *)
(* text printed for a number denotes it, without zeros in front, with the  *)
(* sign of the smallest integer too; %#x prints every digit of the word.   *)
(***************************************************************************)
THEOREM NumbersArePrinted == LibrarySpec => []NumberPrinted
  <1>1. LibraryInit => NumberInv
    BY NumberInit DEF LibraryInit
  <1>2. NumberInv /\ [LibraryNext]_libraryVars => NumberInv'
    <2>1. ASSUME NumberInv, UNCHANGED libraryVars PROVE NumberInv'
      BY <2>1, NumberSame DEF libraryVars
    <2> QED BY <2>1, NumberNext, NumberSame DEF LibraryNext
  <1>3. NumberInv => NumberPrinted
    BY DEF NumberInv
  <1> QED BY <1>1, <1>2, <1>3, PTL DEF LibrarySpec
=============================================================================
