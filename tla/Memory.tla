------------------------------- MODULE Memory -------------------------------
(***************************************************************************)
(* memcpy, memset and memmove (lib.c), which copy the keyboard buffers,    *)
(* the video pages and the blocks of files.  They are written in assembly: *)
(* memcpy and memset store single bytes until the destination is aligned,  *)
(* then 32-bit words, then the bytes that are left; memmove stores bytes   *)
(* from the end that keeps an overlapping source intact.  One action is    *)
(* one iteration of a loop.                                                *)
(***************************************************************************)
EXTENDS Integers

CONSTANTS
    Size,      \* addresses of the memory
    Byte,      \* values of a byte
    Zero,      \* one of them
    Fills,     \* those that memset is given
    Contents   \* what the callers may have in memory when they call

Addr == 0 .. Size - 1

ASSUME MemoryAssumption ==
    /\ Size \in Nat /\ Zero \in Byte /\ Fills \subseteq Byte
    /\ Contents \subseteq [Addr -> Byte]

VARIABLES
    pc,        \* label of the loop under way
    call,      \* function and arguments
    edi, esi, ecx, edx, \* registers
    step,      \* 1, or -1 while the direction flag is set
    mem,       \* the memory
    old        \* what it was when the function was called

registers == <<edi, esi, ecx, edx, step>>
vars == <<pc, call, registers, mem, old>>

NoCall == [fn |-> "none", dest |-> 0, src |-> 0, n |-> 0, c |-> Zero]
Calls == [fn : {"memcpy", "memset", "memmove"}, dest : 0 .. Size, src : 0 .. Size,
          n : 0 .. Size, c : Fills \cup {Zero}]

Target(c) == c.dest .. c.dest + c.n - 1

(* The buffers lie in memory, and only memmove is asked to copy upwards     *)
(* between buffers that overlap.  memset has no source, the others no byte. *)
Allowed(c) ==
    /\ c.dest + c.n <= Size
    /\ IF c.fn = "memset" THEN c.src = 0 /\ c.c \in Fills
       ELSE c.src + c.n <= Size /\ c.c = Zero
    /\ c.fn = "memcpy" => c.dest <= c.src \/ c.src + c.n <= c.dest

Init ==
    /\ pc = "idle" /\ call = NoCall
    /\ edi = 0 /\ esi = 0 /\ ecx = 0 /\ edx = 0 /\ step = 1
    /\ mem \in Contents /\ old = mem

AlwaysForward == TRUE                                             \* mutant
(* cmp edi, esi; jae *)
Forward == call.src >= call.dest

Call(c) ==
    /\ Allowed(c)
    /\ call' = c /\ old' = mem
    /\ pc' = IF c.fn = "memmove" THEN "direction" ELSE "top"
    /\ edi' = c.dest /\ esi' = c.src /\ ecx' = c.n
    /\ UNCHANGED <<edx, step, mem>>

(* Byte k of what is stored next: from esi, or one of the four bytes of eax. *)
Stored(k) == IF call.fn # "memset" THEN mem[esi + k] ELSE call.c

(* The registers that point into memory move on by d. *)
Advance(d) ==
    /\ edi' = edi + d
    /\ esi' = IF call.fn # "memset" THEN esi + d ELSE esi

StoreByte == mem' = [mem EXCEPT ![edi] = Stored(0)] /\ Advance(1)

(* Single bytes, until edi is a multiple of four. *)
TopByte ==
    /\ pc = "top" /\ ecx # 0 /\ edi % 4 # 0
    /\ StoreByte /\ ecx' = ecx - 1
    /\ UNCHANGED <<pc, call, edx, step, old>>
TopDone ==
    /\ pc = "top" /\ ecx = 0
    /\ pc' = "done"
    /\ UNCHANGED <<call, registers, mem, old>>
TopAligned ==
    /\ pc = "top" /\ ecx # 0 /\ edi % 4 = 0
    /\ pc' = "words" /\ edx' = ecx % 4 /\ ecx' = ecx \div 4 /\ step' = 1
    /\ UNCHANGED <<call, edi, esi, mem, old>>

(* rep movsl, rep stosl *)
StoreWord ==
    /\ pc = "words" /\ ecx # 0
    /\ mem' = [a \in Addr |-> IF a \in edi .. edi + 3 THEN Stored(a - edi) ELSE mem[a]]
    /\ Advance(4) /\ ecx' = ecx - 1
    /\ UNCHANGED <<pc, call, edx, step, old>>
WordsDone ==
    /\ pc = "words" /\ ecx = 0
    /\ pc' = "bottom"
    /\ UNCHANGED <<call, registers, mem, old>>

(* The bytes that do not fill a word. *)
BottomByte ==
    /\ pc = "bottom" /\ edx # 0
    /\ StoreByte /\ edx' = edx - 1
    /\ UNCHANGED <<pc, call, ecx, step, old>>
BottomDone ==
    /\ pc = "bottom" /\ edx = 0
    /\ pc' = "done"
    /\ UNCHANGED <<call, registers, mem, old>>

(* memmove starts at the far end if the destination lies higher. *)
Direction ==
    /\ pc = "direction"
    /\ pc' = "bytes"
    /\ IF Forward THEN step' = 1 /\ UNCHANGED <<edi, esi>>
       ELSE step' = -1 /\ edi' = edi + ecx - 1 /\ esi' = esi + ecx - 1
    /\ UNCHANGED <<call, ecx, edx, mem, old>>

(* rep movsb *)
MoveByte ==
    /\ pc = "bytes" /\ ecx # 0
    /\ mem' = [mem EXCEPT ![edi] = Stored(0)] /\ Advance(step) /\ ecx' = ecx - 1
    /\ UNCHANGED <<pc, call, edx, step, old>>
BytesDone ==
    /\ pc = "bytes" /\ ecx = 0
    /\ pc' = "done"
    /\ UNCHANGED <<call, registers, mem, old>>

(* The callers go on, and have other things in memory at the next call. *)
Return ==
    /\ pc = "done"
    /\ pc' = "idle" /\ call' = NoCall
    /\ edi' = 0 /\ esi' = 0 /\ ecx' = 0 /\ edx' = 0 /\ step' = 1
    /\ mem' \in Contents /\ old' = mem'

Next ==
    \/ pc = "idle" /\ \E c \in Calls : Call(c)
    \/ TopByte \/ TopDone \/ TopAligned \/ StoreWord \/ WordsDone
    \/ BottomByte \/ BottomDone
    \/ Direction \/ MoveByte \/ BytesDone
    \/ Return

Spec == Init /\ [][Next]_vars

-----------------------------------------------------------------------------
(* What a byte is to be. *)
Wanted(a) ==
    IF a \notin Target(call) THEN old[a]
    ELSE IF call.fn = "memset" THEN call.c ELSE old[call.src + (a - call.dest)]

(***************************************************************************)
(* When a function returns, the n bytes at its destination are those that  *)
(* were at its source, or the byte it was given, and no other is changed,  *)
(* whatever the alignment, the length and, for memmove, the overlap.       *)
(***************************************************************************)
MemoryAsAsked == pc = "done" => \A a \in Addr : mem[a] = Wanted(a)
=============================================================================
