-------------------------- MODULE InterruptsProofs --------------------------
(***************************************************************************)
(* Proofs about Interrupts, for any number of terminals and any depth of   *)
(* nesting.                                                                *)
(***************************************************************************)
EXTENDS Interrupts, SequenceTheorems, FiniteSetTheorems, WellFoundedInduction, TLAPS

Pc == {"entry", "rotate", "read", "acknowledge", "shift", "return"}
FrameSet == [irq : Irq, pc : Pc]
Tables == [Terminal -> Seq(FrameSet)]

LEMMA IrqTypes ==
    /\ Irq = {0, 1, 8} /\ Line = {0, 1, 2, 8} /\ Pit = 0 /\ Keyboard = 1 /\ Cascade = 2 /\ Rtc = 8
    /\ 0 \in Terminal
    /\ Len(Entry) = 12
  BY InterruptsAssumption DEF Irq, Line, Pit, Keyboard, Cascade, Rtc, Terminal, Entry

(* A set of numbers that is not empty has a least one. *)
LEMMA Least ==
    ASSUME NEW S \in SUBSET Nat, S # {}
    PROVE  \E n \in S : \A m \in S : n <= m
  <1>1. PICK n \in S : \A m \in S : ~(<<m, n>> \in OpToRel(<, Nat))
    BY NatLessThanWellFounded, WFMin
  <1>2. \A m \in S : ~(m < n)
    BY <1>1 DEF OpToRel
  <1> QED BY <1>2

(* The rotation ends at the running terminal at the latest. *)
LEMMA SuccessorStarted ==
    ASSUME terminal_now \in started, started \subseteq Terminal
    PROVE  Successor \in started
  <1> DEFINE after(n) == (terminal_now + n) % NumTerm
             Found == {n \in 1 .. NumTerm : after(n) \in started}
  <1>1. NumTerm \in Nat \ {0} /\ terminal_now \in 0 .. NumTerm - 1
    BY InterruptsAssumption DEF Terminal
  <1>2. after(NumTerm) = terminal_now
    BY <1>1
  <1>3. NumTerm \in Found /\ Found \subseteq Nat
    BY <1>1, <1>2
  <1>4. PICK n \in Found : \A m \in Found : n <= m
    BY <1>3, Least
  <1> HIDE DEF after
  <1>5. n \in 1 .. NumTerm /\ after(n) \in started
    BY <1>4
  <1>6. \A m \in 1 .. n - 1 : after(m) \notin started
    BY <1>1, <1>4, <1>5
  <1> QED BY <1>5, <1>6 DEF Successor, after

-----------------------------------------------------------------------------
(* The frame on top of the running stack. *)
LEMMA TopFrame ==
    ASSUME TypeOK, NEW i \in Irq, NEW c, At(i, c)
    PROVE  /\ terminal_now \in Terminal /\ Running \in Seq(FrameSet)
           /\ Len(Running) \in Nat \ {0}
           /\ Len(Running) \in DOMAIN Running
           /\ Running[Len(Running)].irq = i /\ Running[Len(Running)].pc = c
  <1>1. terminal_now \in Terminal /\ Running \in Seq(FrameSet)
    BY DEF TypeOK, Running, FrameSet, Pc
  <1>2. Running # <<>> /\ Running[Len(Running)] = [irq |-> i, pc |-> c]
    BY DEF At, On, Running, Frame
  <1>3. Len(Running) \in Nat \ {0}
    BY <1>1, <1>2, EmptySeq
  <1>4. Len(Running) \in DOMAIN Running
    BY <1>1, <1>3
  <1> QED BY <1>1, <1>2, <1>3, <1>4

(* A handler goes on: one frame changes. *)
LEMMA GotoFrames ==
    ASSUME TypeOK, NEW i \in Irq, NEW c, At(i, c), NEW d \in Pc, Goto(d)
    PROVE  /\ stack' \in Tables
           /\ \A t \in Terminal : Len(stack'[t]) = Len(stack[t])
           /\ \A t \in Terminal : \A k \in 1 .. Len(stack[t]) :
                 stack'[t][k] = IF t = terminal_now /\ k = Len(Running)
                                THEN [irq |-> i, pc |-> d] ELSE stack[t][k]
  <1> DEFINE n == Len(Running)
             f == [Running[n] EXCEPT !.pc = d]
             r == [Running EXCEPT ![n] = f]
  <1>1. /\ terminal_now \in Terminal /\ Running \in Seq(FrameSet) /\ n \in 1 .. Len(Running)
        /\ Running[n].irq = i
    BY TopFrame
  <1>2. f \in FrameSet /\ f = [irq |-> i, pc |-> d]
    <2>1. Running[n] \in FrameSet
      BY <1>1, ElementOfSeq
    <2> QED BY <1>1, <2>1 DEF FrameSet
  <1>3. stack' = [stack EXCEPT ![terminal_now] = r]
    BY DEF Goto, Running
  <1> HIDE DEF f
  <1>4. /\ r \in Seq(FrameSet) /\ Len(r) = Len(Running)
        /\ \A k \in 1 .. Len(Running) : r[k] = IF k = n THEN f ELSE Running[k]
    BY <1>1, <1>2, ExceptSeq
  <1> HIDE DEF r, n
  <1>5. stack \in Tables
    BY DEF TypeOK, Tables, FrameSet, Pc
  <1>6. stack' \in Tables /\ \A t \in Terminal : stack'[t] = IF t = terminal_now THEN r ELSE stack[t]
    BY <1>1, <1>3, <1>4, <1>5 DEF Tables
  <1> QED BY <1>2, <1>4, <1>6 DEF Running, n

(* A request is taken: one more frame. *)
LEMMA DeliverFrames ==
    ASSUME TypeOK, NEW i \in Irq, stack' = [stack EXCEPT ![terminal_now] = Append(@, Frame(i, "entry"))]
    PROVE  /\ terminal_now \in Terminal /\ Len(Running) \in Nat /\ stack' \in Tables
           /\ \A t \in Terminal :
                 Len(stack'[t]) = IF t = terminal_now THEN Len(stack[t]) + 1 ELSE Len(stack[t])
           /\ \A t \in Terminal : \A k \in 1 .. Len(stack'[t]) :
                 stack'[t][k] = IF t = terminal_now /\ k = Len(Running) + 1
                                THEN Frame(i, "entry") ELSE stack[t][k]
  <1> DEFINE f == Frame(i, "entry")
             r == Append(Running, f)
  <1>1. terminal_now \in Terminal /\ Running \in Seq(FrameSet) /\ stack \in Tables
    BY DEF TypeOK, Running, FrameSet, Pc, Tables
  <1>2. f \in FrameSet
    BY DEF FrameSet, Frame, Pc
  <1> HIDE DEF f
  <1>3. /\ r \in Seq(FrameSet) /\ Len(r) = Len(Running) + 1
        /\ \A k \in 1 .. Len(Running) : r[k] = Running[k]
        /\ r[Len(Running) + 1] = f
    BY <1>1, <1>2, AppendProperties
  <1>4. stack' = [stack EXCEPT ![terminal_now] = r]
    BY DEF Running, f
  <1> HIDE DEF r
  <1>5. stack' \in Tables /\ \A t \in Terminal : stack'[t] = IF t = terminal_now THEN r ELSE stack[t]
    BY <1>1, <1>3, <1>4 DEF Tables
  <1>6. Len(Running) \in Nat
    BY <1>1
  <1>7. ASSUME NEW t \in Terminal, NEW k \in 1 .. Len(stack'[t])
        PROVE  stack'[t][k] = IF t = terminal_now /\ k = Len(Running) + 1 THEN f ELSE stack[t][k]
    <2>1. CASE t # terminal_now
      BY <1>5, <2>1
    <2>2. CASE t = terminal_now
      <3>1. stack'[t] = r /\ stack[t] = Running /\ k \in 1 .. Len(Running) + 1
        BY <1>3, <1>5, <2>2 DEF Running
      <3>2. k = Len(Running) + 1 \/ k \in 1 .. Len(Running)
        BY <1>6, <3>1
      <3> QED BY <1>3, <1>6, <2>2, <3>1, <3>2
    <2> QED BY <2>1, <2>2
  <1> QED BY <1>1, <1>3, <1>5, <1>6, <1>7 DEF Running, f

(* A handler returns: its frame is gone. *)
LEMMA ReturnFrames ==
    ASSUME TypeOK, NEW i \in Irq, At(i, "return"),
           stack' = [stack EXCEPT ![terminal_now] = SubSeq(@, 1, Len(@) - 1)]
    PROVE  /\ stack' \in Tables
           /\ \A t \in Terminal :
                 Len(stack'[t]) = IF t = terminal_now THEN Len(stack[t]) - 1 ELSE Len(stack[t])
           /\ \A t \in Terminal : \A k \in 1 .. Len(stack'[t]) : stack'[t][k] = stack[t][k]
  <1> DEFINE r == SubSeq(Running, 1, Len(Running) - 1)
  <1>1. terminal_now \in Terminal /\ Running \in Seq(FrameSet) /\ Len(Running) \in Nat \ {0}
    BY TopFrame
  <1>2. \A k \in 1 .. Len(Running) - 1 : Running[k] \in FrameSet
    BY <1>1, ElementOfSeq
  <1>3. /\ r \in Seq(FrameSet) /\ Len(r) = Len(Running) - 1
        /\ \A k \in 1 .. Len(Running) - 1 : r[k] = Running[k]
    <2> DEFINE n == Len(Running) - 1
    <2>1. n \in Nat /\ r = SubSeq(Running, 1, n)
      BY <1>1
    <2> HIDE DEF n, r
    <2>2. /\ SubSeq(Running, 1, n) \in Seq(FrameSet)
          /\ Len(SubSeq(Running, 1, n)) = IF 1 <= n THEN n - 1 + 1 ELSE 0
          /\ \A k \in 1 .. n - 1 + 1 : SubSeq(Running, 1, n)[k] = Running[1 + k - 1]
      <3>1. \A k \in 1 .. n : Running[k] \in FrameSet
        BY <1>2 DEF n
      <3>2. 1 \in Int /\ n \in Int
        BY <2>1
      <3> QED BY <3>1, <3>2, SubSeqProperties
    <2>3. n - 1 + 1 = n /\ \A k \in 1 .. n : 1 + k - 1 = k
      BY <2>1
    <2>4. r \in Seq(FrameSet) /\ Len(r) = n /\ \A k \in 1 .. n : r[k] = Running[k]
      BY <2>1, <2>2, <2>3
    <2> QED BY <2>4 DEF n
  <1>4. stack' = [stack EXCEPT ![terminal_now] = r]
    BY DEF Running
  <1> HIDE DEF r
  <1>5. stack \in Tables
    BY DEF TypeOK, Tables, FrameSet, Pc
  <1>6. stack' \in Tables /\ \A t \in Terminal : stack'[t] = IF t = terminal_now THEN r ELSE stack[t]
    BY <1>1, <1>3, <1>4, <1>5 DEF Tables
  <1> QED BY <1>1, <1>3, <1>6 DEF Running

-----------------------------------------------------------------------------
(***************************************************************************)
(* The inductive invariant.  TypeOK alone is not kept by terminal_init,    *)
(* which withdraws terminals: nobody has started one yet (Boots).  A line  *)
(* is unmasked by the initialisation of its device (Devices).  A request   *)
(* in service has one handler that has not acknowledged it, and one that   *)
(* is not has none (Service).                                              *)
(***************************************************************************)
Boots ==
    /\ ~Booted => started = {0}
    /\ ~Booted => \A t \in Terminal : \A k \in 1 .. Len(stack[t]) : stack[t][k].pc # "shift"

Devices ==
    /\ Rtc \in unmasked => boot > 5
    /\ Keyboard \in unmasked => boot > 6
    /\ Pit \in unmasked => boot > 10

Unfinished == {"entry", "read", "acknowledge"}

Busy(t, k, i) ==
    /\ k \in 1 .. Len(stack[t])
    /\ stack[t][k].irq = i /\ stack[t][k].pc \in Unfinished

Served(i) ==
    IF i \in isr
    THEN \E t \in Terminal, k \in Nat : \A u \in Terminal, m \in Nat : Busy(u, m, i) <=> u = t /\ m = k
    ELSE \A u \in Terminal, m \in Nat : ~Busy(u, m, i)

Service ==
    /\ \A i \in Irq : Served(i)
    /\ Cascade \in isr <=> Rtc \in isr

Depth == \A t \in Terminal : Len(stack[t]) <= MaxFrames

IInv == TypeOK /\ Boots /\ Devices /\ Service /\ Depth

LEMMA EntryParts ==
    \A k \in 1 .. 12 :
        /\ Entry[k] = "gates" <=> k = 1
        /\ Entry[k] = "files" <=> k = 3
        /\ Entry[k] = "paging" <=> k = 4
        /\ Entry[k] = "clock" <=> k = 5
        /\ Entry[k] = "keyboard" <=> k = 6
        /\ Entry[k] = "terminal 3" <=> k = 9
        /\ Entry[k] = "timer" <=> k = 10
  <1> SUFFICES ASSUME NEW k \in 1 .. 12
               PROVE  /\ Entry[k] = "gates" <=> k = 1
                      /\ Entry[k] = "files" <=> k = 3
                      /\ Entry[k] = "paging" <=> k = 4
                      /\ Entry[k] = "clock" <=> k = 5
                      /\ Entry[k] = "keyboard" <=> k = 6
                      /\ Entry[k] = "terminal 3" <=> k = 9
                      /\ Entry[k] = "timer" <=> k = 10
    OBVIOUS
  <1>1. /\ Entry[1] = "gates" /\ Entry[2] = "controller" /\ Entry[3] = "files"
        /\ Entry[4] = "paging" /\ Entry[5] = "clock" /\ Entry[6] = "keyboard"
        /\ Entry[7] = "terminal 1" /\ Entry[8] = "terminal 2" /\ Entry[9] = "terminal 3"
        /\ Entry[10] = "timer" /\ Entry[11] = "sti" /\ Entry[12] = "shell"
    BY DEF Entry
  <1>2. k = 1 \/ k = 2 \/ k = 3 \/ k = 4 \/ k = 5 \/ k = 6
        \/ k = 7 \/ k = 8 \/ k = 9 \/ k = 10 \/ k = 11 \/ k = 12
    OBVIOUS
  <1> QED BY <1>1, <1>2

(* The start: interrupts off, every line masked, no handler on any stack. *)
LEMMA InvInit == Init => IInv
  <1> SUFFICES ASSUME Init PROVE IInv
    OBVIOUS
  <1>1. \A t \in Terminal : stack[t] = <<>> /\ Len(stack[t]) = 0
    BY EmptySeq DEF Init
  <1>2. TypeOK
    <2>1. stack \in Tables
      BY EmptySeq DEF Init, Tables
    <2>2. boot \in 1 .. Len(Entry) + 1
      BY IrqTypes DEF Init
    <2>4. enabled \in BOOLEAN
      BY DEF Init
    <2>3. /\ unmasked \subseteq Line /\ irr \subseteq Irq /\ isr \subseteq Line
          /\ started \subseteq Terminal /\ terminal_now \in started
      BY IrqTypes DEF Init
    <2> QED BY <2>1, <2>2, <2>3, <2>4 DEF TypeOK, Tables, FrameSet, Pc
  <1>3. Boots /\ Devices
    BY <1>1, IrqTypes DEF Boots, Devices, Init
  <1>4. Service
    BY <1>1 DEF Service, Served, Busy, Init
  <1>5. Depth
    BY <1>1, InterruptsAssumption DEF Depth
  <1> QED BY <1>2, <1>3, <1>4, <1>5 DEF IInv

(* A step that leaves the handlers and the controllers alone. *)
LEMMA ServiceKept ==
    ASSUME Service, isr' = isr,
           \A i \in Irq : \A u \in Terminal, m \in Nat : Busy(u, m, i)' <=> Busy(u, m, i)
    PROVE  Service'
  <1>1. ASSUME NEW i \in Irq PROVE Served(i)'
    <2>1. CASE i \in isr
      <3>1. PICK t \in Terminal, k \in Nat :
                \A u \in Terminal, m \in Nat : Busy(u, m, i) <=> u = t /\ m = k
        BY <2>1 DEF Service, Served
      <3>2. \A u \in Terminal, m \in Nat : Busy(u, m, i)' <=> u = t /\ m = k
        BY <3>1
      <3> QED BY <2>1, <3>2 DEF Served
    <2>2. CASE i \notin isr
      <3>1. \A u \in Terminal, m \in Nat : ~Busy(u, m, i)
        BY <2>2 DEF Service, Served
      <3>2. \A u \in Terminal, m \in Nat : ~Busy(u, m, i)'
        BY <3>1
      <3> QED BY <2>2, <3>2 DEF Served
    <2> QED BY <2>1, <2>2
  <1> QED BY <1>1 DEF Service

(* A handler goes on and does not acknowledge, or has acknowledged before. *)
LEMMA ServiceGoto ==
    ASSUME TypeOK, Service, NEW i \in Irq, NEW c, At(i, c), NEW d \in Pc, Goto(d), isr' = isr,
           c \in Unfinished <=> d \in Unfinished
    PROVE  Service'
  <1>1. /\ terminal_now \in Terminal /\ Len(Running) \in Nat \ {0}
        /\ Running[Len(Running)].irq = i /\ Running[Len(Running)].pc = c
    BY TopFrame
  <1>2. /\ \A t \in Terminal : Len(stack'[t]) = Len(stack[t])
        /\ \A t \in Terminal : \A k \in 1 .. Len(stack[t]) :
              stack'[t][k] = IF t = terminal_now /\ k = Len(Running)
                             THEN [irq |-> i, pc |-> d] ELSE stack[t][k]
    BY GotoFrames
  <1>3. ASSUME NEW j \in Irq, NEW u \in Terminal, NEW m \in Nat
        PROVE  Busy(u, m, j)' <=> Busy(u, m, j)
    <2>1. CASE u = terminal_now /\ m = Len(Running)
      <3>1. stack[u] = Running
        BY <2>1 DEF Running
      <3>2. Busy(u, m, j) <=> i = j /\ c \in Unfinished
        BY <1>1, <2>1, <3>1 DEF Busy
      <3>3. stack'[u][m] = [irq |-> i, pc |-> d] /\ m \in 1 .. Len(stack'[u])
        BY <1>1, <1>2, <2>1, <3>1
      <3> QED BY <3>2, <3>3 DEF Busy
    <2>2. CASE ~(u = terminal_now /\ m = Len(Running))
      BY <1>2, <2>2 DEF Busy
    <2> QED BY <2>1, <2>2
  <1> QED BY <1>3, ServiceKept

(* A handler acknowledges its request. *)
LEMMA ServiceAck ==
    ASSUME TypeOK, Service, NEW i \in Irq, NEW c, At(i, c), NEW d \in Pc, Goto(d),
           isr' = Acked(i), c \in Unfinished, d \notin Unfinished
    PROVE  Service'
  <1>1. /\ terminal_now \in Terminal /\ Len(Running) \in Nat \ {0}
        /\ Running[Len(Running)].irq = i /\ Running[Len(Running)].pc = c
    BY TopFrame
  <1>2. /\ \A t \in Terminal : Len(stack'[t]) = Len(stack[t])
        /\ \A t \in Terminal : \A k \in 1 .. Len(stack[t]) :
              stack'[t][k] = IF t = terminal_now /\ k = Len(Running)
                             THEN [irq |-> i, pc |-> d] ELSE stack[t][k]
    BY GotoFrames
  <1> DEFINE n == Len(Running)
  <1>3. Busy(terminal_now, n, i)
    BY <1>1 DEF Busy, Running
  <1>4. \A u \in Terminal, m \in Nat : Busy(u, m, i) => u = terminal_now /\ m = n
    <2>1. i \in isr
      BY <1>1, <1>3 DEF Service, Served
    <2>2. PICK t \in Terminal, k \in Nat :
              \A u \in Terminal, m \in Nat : Busy(u, m, i) <=> u = t /\ m = k
      BY <2>1 DEF Service, Served
    <2> QED BY <1>1, <1>3, <2>2
  <1>5. ASSUME NEW j \in Irq, NEW u \in Terminal, NEW m \in Nat
        PROVE  Busy(u, m, j)' <=> j # i /\ Busy(u, m, j)
    <2>1. CASE u = terminal_now /\ m = n
      <3>1. stack[u] = Running
        BY <2>1 DEF Running
      <3>2. stack'[u][m] = [irq |-> i, pc |-> d]
        BY <1>1, <1>2, <2>1, <3>1
      <3>3. Busy(u, m, j) => j = i
        BY <1>1, <2>1, <3>1 DEF Busy
      <3> QED BY <3>2, <3>3 DEF Busy
    <2>2. CASE ~(u = terminal_now /\ m = n)
      <3>1. Busy(u, m, j)' <=> Busy(u, m, j)
        BY <1>2, <2>2 DEF Busy
      <3> QED BY <1>4, <2>2, <3>1
    <2> QED BY <2>1, <2>2
  <1>6. \A j \in Irq : j \in isr' <=> j # i /\ j \in isr
    BY IrqTypes DEF Acked, Lines
  <1> HIDE DEF n
  <1>7. ASSUME NEW j \in Irq PROVE Served(j)'
    <2>1. CASE j = i
      BY <1>5, <1>6, <2>1 DEF Served
    <2>2. CASE j # i /\ j \in isr
      <3>1. PICK t \in Terminal, k \in Nat :
                \A u \in Terminal, m \in Nat : Busy(u, m, j) <=> u = t /\ m = k
        BY <2>2 DEF Service, Served
      <3>2. \A u \in Terminal, m \in Nat : Busy(u, m, j)' <=> u = t /\ m = k
        BY <1>5, <2>2, <3>1
      <3> QED BY <1>6, <2>2, <3>2 DEF Served
    <2>3. CASE j # i /\ j \notin isr
      <3>1. \A u \in Terminal, m \in Nat : ~Busy(u, m, j)'
        BY <1>5, <2>3 DEF Service, Served
      <3> QED BY <1>6, <2>3, <3>1 DEF Served
    <2> QED BY <2>1, <2>2, <2>3
  <1>8. Cascade \in isr' <=> Rtc \in isr'
    BY IrqTypes DEF Acked, Lines, Service
  <1> QED BY <1>7, <1>8 DEF Service

-----------------------------------------------------------------------------
(* One lemma for each kind of step. *)

(* Entry goes on: it has no handler on its stack. *)
LEMMA BootKeeps == IInv /\ BootStep => IInv'
  <1> SUFFICES ASSUME IInv, BootStep PROVE IInv'
    OBVIOUS
  <1>1. /\ ~Booted /\ boot \in 1 .. 12 /\ boot' = boot + 1
        /\ isr' = isr /\ irr' = irr /\ stack' = stack /\ terminal_now' = terminal_now
    <2>1. ~Booted
      BY DEF BootStep, Initialise, TerminalInit, FirstShell, InEntry
    <2>2. boot' = boot + 1
      BY DEF BootStep, Initialise, TerminalInit, FirstShell
    <2>3. isr' = isr /\ irr' = irr /\ stack' = stack /\ terminal_now' = terminal_now
      BY DEF BootStep, Initialise, TerminalInit, FirstShell
    <2>4. boot \in 1 .. 12
      BY <2>1, IrqTypes DEF IInv, TypeOK, Booted
    <2> QED BY <2>1, <2>2, <2>3, <2>4
  <1>2. started = {0} /\ terminal_now = 0
    BY <1>1 DEF IInv, Boots, TypeOK
  <1>3. started' = {0}
    <2>1. CASE TerminalInit
      <3>1. PICK k \in 1 .. 3 : started' = Named(k)
        BY <2>1 DEF TerminalInit
      <3> QED BY <1>2, <3>1 DEF Named
    <2>2. CASE Initialise \/ FirstShell
      BY <1>2, <2>2 DEF Initialise, FirstShell
    <2> QED BY <2>1, <2>2 DEF BootStep
  <1>4. enabled' \in BOOLEAN
    <2>1. enabled' = enabled \/ enabled' = TRUE
      BY DEF BootStep, Initialise, TerminalInit, FirstShell
    <2> QED BY <2>1 DEF IInv, TypeOK
  <1>5. unmasked' \subseteq Line /\ Devices'
    <2>1. CASE Initialise
      <3>1. PICK part \in {"gates", "controller", "files", "paging", "clock", "keyboard", "timer"} :
                Entry[boot] = part /\ unmasked' = unmasked \cup Unmasks(part)
        BY <2>1 DEF Initialise, InEntry
      <3>2. /\ Unmasks(part) \subseteq Line
            /\ Rtc \in Unmasks(part) => part = "clock"
            /\ Keyboard \in Unmasks(part) => part = "keyboard"
            /\ Pit \in Unmasks(part) => part = "timer"
        BY IrqTypes DEF Unmasks, UnmaskedAtFirst
      <3>3. unmasked \subseteq Line /\ Devices
        BY DEF IInv, TypeOK
      <3>4. /\ part = "clock" => boot = 5
            /\ part = "keyboard" => boot = 6
            /\ part = "timer" => boot = 10
        BY <1>1, <3>1, EntryParts
      <3> QED BY <1>1, <3>1, <3>2, <3>3, <3>4 DEF Devices
    <2>2. CASE TerminalInit \/ FirstShell
      <3>1. unmasked' = unmasked
        BY <2>2 DEF TerminalInit, FirstShell
      <3> QED BY <1>1, <3>1 DEF Devices, IInv, TypeOK
    <2> QED BY <2>1, <2>2 DEF BootStep
  <1>6. TypeOK'
    BY <1>1, <1>2, <1>3, <1>4, <1>5, IrqTypes DEF IInv, TypeOK
  <1>7. Boots'
    BY <1>1, <1>3 DEF IInv, Boots
  <1>8. Service'
    <2>1. \A i \in Irq : \A u \in Terminal, m \in Nat : Busy(u, m, i)' <=> Busy(u, m, i)
      BY <1>1 DEF Busy
    <2> QED BY <1>1, <2>1, ServiceKept DEF IInv
  <1>9. Depth'
    BY <1>1 DEF IInv, Depth
  <1> QED BY <1>5, <1>6, <1>7, <1>8, <1>9 DEF IInv

(* Requests and system calls leave the handlers alone. *)
LEMMA CallKeeps == IInv /\ (SystemCall \/ Sti \/ \E i \in Irq : Raise(i)) => IInv'
  <1> SUFFICES ASSUME IInv, SystemCall \/ Sti \/ \E i \in Irq : Raise(i) PROVE IInv'
    OBVIOUS
  <1>1. /\ boot' = boot /\ unmasked' = unmasked /\ isr' = isr
        /\ terminal_now' = terminal_now /\ started' = started /\ stack' = stack
    BY DEF SystemCall, Sti, Raise, booting
  <1>2. enabled' = enabled \/ enabled' = TRUE \/ enabled' = FALSE
    BY DEF SystemCall, Sti, Raise
  <1>3. irr' \subseteq Irq
    BY DEF SystemCall, Sti, Raise, IInv, TypeOK
  <1>4. enabled' \in BOOLEAN
    BY <1>2 DEF IInv, TypeOK
  <1>5. TypeOK'
    BY <1>1, <1>3, <1>4 DEF IInv, TypeOK
  <1>6. Boots' /\ Devices'
    BY <1>1 DEF IInv, Boots, Devices, Booted
  <1>7. \A i \in Irq : \A u \in Terminal, m \in Nat : Busy(u, m, i)' <=> Busy(u, m, i)
    BY <1>1 DEF Busy
  <1>8. Service'
    BY <1>1, <1>7, ServiceKept DEF IInv
  <1>9. Depth'
    BY <1>1 DEF IInv, Depth
  <1> QED BY <1>5, <1>6, <1>8, <1>9 DEF IInv

(* A request is taken only when no handler of it is unfinished. *)
LEMMA TakenOnce ==
    ASSUME IInv, NEW i \in Irq, Deliver(i)
    PROVE  i \notin isr
  <1>1. \A j \in isr \ {Rtc} : \A l \in Lines(i) \ {Rtc} : l < j
    BY DEF Deliver
  <1>2. Cascade \in isr <=> Rtc \in isr
    BY DEF IInv, Service
  <1>3. CASE i = Rtc
    BY <1>1, <1>2, <1>3, IrqTypes DEF Lines
  <1>4. CASE i # Rtc
    BY <1>1, <1>4, IrqTypes DEF Lines
  <1> QED BY <1>3, <1>4

LEMMA DeliverKeeps ==
    ASSUME IInv, NEW i \in Irq, Deliver(i)
    PROVE  IInv'
  <1>1. /\ boot' = boot /\ unmasked' = unmasked /\ irr' = irr \ {i} /\ isr' = isr \cup Lines(i)
        /\ terminal_now' = terminal_now /\ started' = started /\ enabled' = enabled
        /\ stack' = [stack EXCEPT ![terminal_now] = Append(@, Frame(i, "entry"))]
        /\ Len(Running) < MaxFrames
    BY DEF Deliver, booting
  <1>2. TypeOK
    BY DEF IInv
  <1>3. /\ terminal_now \in Terminal /\ Len(Running) \in Nat /\ stack' \in Tables
        /\ \A t \in Terminal :
              Len(stack'[t]) = IF t = terminal_now THEN Len(stack[t]) + 1 ELSE Len(stack[t])
        /\ \A t \in Terminal : \A k \in 1 .. Len(stack'[t]) :
              stack'[t][k] = IF t = terminal_now /\ k = Len(Running) + 1
                             THEN Frame(i, "entry") ELSE stack[t][k]
    BY <1>1, <1>2, DeliverFrames
  <1> DEFINE n == Len(Running) + 1
  <1>4. n \in Nat /\ (\A t \in Terminal : Len(stack[t]) \in Nat) /\ Len(stack[terminal_now]) = n - 1
    BY <1>2, <1>3 DEF TypeOK, Running
  <1>5. TypeOK'
    <2>1. isr' \subseteq Line /\ irr' \subseteq Irq
      BY <1>1, <1>2, IrqTypes DEF Lines, TypeOK
    <2> QED BY <1>1, <1>2, <1>3, <2>1 DEF TypeOK, Tables, FrameSet, Pc
  <1>6. Boots'
    <2>1. ASSUME ~Booted, NEW t \in Terminal, NEW k \in 1 .. Len(stack'[t])
          PROVE  stack'[t][k].pc # "shift"
      <3>1. CASE t = terminal_now /\ k = n
        BY <1>3, <3>1 DEF Frame
      <3>2. CASE ~(t = terminal_now /\ k = n)
        <4>1. k \in 1 .. Len(stack[t])
          BY <1>3, <1>4, <3>2
        <4> QED BY <1>3, <2>1, <3>2, <4>1 DEF IInv, Boots
      <3> QED BY <3>1, <3>2
    <2> QED BY <1>1, <2>1 DEF IInv, Boots, Booted
  <1>7. Devices'
    BY <1>1 DEF IInv, Devices
  <1>8. ASSUME NEW j \in Irq, NEW u \in Terminal, NEW m \in Nat
        PROVE  Busy(u, m, j)' <=> Busy(u, m, j) \/ (j = i /\ u = terminal_now /\ m = n)
    <2>1. CASE u = terminal_now /\ m = n
      <3>1. stack'[u][m] = Frame(i, "entry") /\ m \in 1 .. Len(stack'[u])
        BY <1>3, <1>4, <2>1
      <3>2. ~Busy(u, m, j)
        BY <1>4, <2>1 DEF Busy
      <3> QED BY <2>1, <3>1, <3>2 DEF Busy, Frame, Unfinished
    <2>2. CASE ~(u = terminal_now /\ m = n)
      <3>1. m \in 1 .. Len(stack'[u]) <=> m \in 1 .. Len(stack[u])
        BY <1>3, <1>4, <2>2
      <3>2. m \in 1 .. Len(stack[u]) => stack'[u][m] = stack[u][m]
        BY <1>3, <2>2, <3>1
      <3> QED BY <2>2, <3>1, <3>2 DEF Busy
    <2> QED BY <2>1, <2>2
  <1>9. i \notin isr
    BY TakenOnce
  <1>10. \A j \in Irq : j \in isr' <=> j = i \/ j \in isr
    BY <1>1, IrqTypes DEF Lines
  <1> HIDE DEF n
  <1>11. ASSUME NEW j \in Irq PROVE Served(j)'
    <2>1. CASE j = i
      <3>1. \A u \in Terminal, m \in Nat : ~Busy(u, m, j)
        BY <1>9, <2>1 DEF IInv, Service, Served
      <3>2. \A u \in Terminal, m \in Nat : Busy(u, m, j)' <=> u = terminal_now /\ m = n
        BY <1>8, <2>1, <3>1
      <3>3. j \in isr'
        BY <1>10, <2>1
      <3> QED BY <1>3, <1>4, <3>2, <3>3, <1>1 DEF Served
    <2>2. CASE j # i /\ j \in isr
      <3>1. PICK t \in Terminal, k \in Nat :
                \A u \in Terminal, m \in Nat : Busy(u, m, j) <=> u = t /\ m = k
        BY <2>2 DEF IInv, Service, Served
      <3>2. \A u \in Terminal, m \in Nat : Busy(u, m, j)' <=> u = t /\ m = k
        BY <1>8, <2>2, <3>1
      <3> QED BY <1>10, <2>2, <3>2 DEF Served
    <2>3. CASE j # i /\ j \notin isr
      <3>1. \A u \in Terminal, m \in Nat : ~Busy(u, m, j)'
        BY <1>8, <2>3 DEF IInv, Service, Served
      <3> QED BY <1>10, <2>3, <3>1 DEF Served
    <2> QED BY <2>1, <2>2, <2>3
  <1>12. Cascade \in isr' <=> Rtc \in isr'
    BY <1>1, IrqTypes DEF Lines, IInv, Service
  <1>13. Depth'
    <2>1. ASSUME NEW t \in Terminal PROVE Len(stack'[t]) <= MaxFrames
      <3>1. CASE t = terminal_now
        <4>1. Len(stack'[t]) = Len(Running) + 1
          BY <1>3, <3>1 DEF Running
        <4> QED BY <1>1, <1>3, <4>1, InterruptsAssumption
      <3>2. CASE t # terminal_now
        BY <1>3, <3>2 DEF IInv, Depth
      <3> QED BY <3>1, <3>2
    <2> QED BY <2>1 DEF Depth
  <1> QED BY <1>5, <1>6, <1>7, <1>11, <1>12, <1>13 DEF IInv, Service

(* All but Service, for a handler that goes on. *)
LEMMA GotoKeeps ==
    ASSUME IInv, NEW i \in Irq, NEW c, At(i, c), NEW d \in Pc, Goto(d),
           UNCHANGED <<booting, irr>>, isr' \subseteq isr, enabled' \in BOOLEAN,
           started' \subseteq Terminal, terminal_now' \in started',
           ~Booted => started' = started /\ d # "shift"
    PROVE  TypeOK' /\ Boots' /\ Devices' /\ Depth'
  <1>1. boot' = boot /\ unmasked' = unmasked /\ irr' = irr
    BY DEF booting
  <1>2. TypeOK
    BY DEF IInv
  <1>3. /\ stack' \in Tables
        /\ \A t \in Terminal : Len(stack'[t]) = Len(stack[t])
        /\ \A t \in Terminal : \A k \in 1 .. Len(stack[t]) :
              stack'[t][k] = IF t = terminal_now /\ k = Len(Running)
                             THEN [irq |-> i, pc |-> d] ELSE stack[t][k]
    BY <1>2, GotoFrames
  <1>4. TypeOK'
    BY <1>1, <1>2, <1>3 DEF TypeOK, Tables, FrameSet, Pc
  <1>5. Boots'
    <2>1. ASSUME ~Booted, NEW t \in Terminal, NEW k \in 1 .. Len(stack'[t])
          PROVE  stack'[t][k].pc # "shift"
      <3>1. k \in 1 .. Len(stack[t])
        BY <1>3
      <3>2. stack[t][k].pc # "shift" /\ d # "shift"
        BY <2>1, <3>1 DEF IInv, Boots
      <3>3. stack'[t][k] = [irq |-> i, pc |-> d] \/ stack'[t][k] = stack[t][k]
        BY <1>3, <3>1
      <3> QED BY <3>2, <3>3
    <2>2. Booted' <=> Booted
      BY <1>1 DEF Booted
    <2>3. ~Booted => started' = {0}
      BY DEF IInv, Boots
    <2> QED BY <2>1, <2>2, <2>3 DEF Boots
  <1>6. Devices'
    BY <1>1 DEF IInv, Devices
  <1>7. Depth'
    BY <1>3 DEF IInv, Depth
  <1> QED BY <1>4, <1>5, <1>6, <1>7

LEMMA ReturnKeeps ==
    ASSUME IInv, NEW i \in Irq, Return(i)
    PROVE  IInv'
  <1>1. /\ boot' = boot /\ unmasked' = unmasked /\ irr' = irr /\ isr' = isr
        /\ terminal_now' = terminal_now /\ started' = started /\ enabled' = TRUE
        /\ stack' = [stack EXCEPT ![terminal_now] = SubSeq(@, 1, Len(@) - 1)]
        /\ At(i, "return")
    BY DEF Return, booting
  <1>2. TypeOK
    BY DEF IInv
  <1>3. /\ terminal_now \in Terminal /\ Len(Running) \in Nat \ {0}
        /\ Running[Len(Running)].pc = "return"
    BY <1>1, <1>2, TopFrame
  <1>4. /\ stack' \in Tables
        /\ \A t \in Terminal :
              Len(stack'[t]) = IF t = terminal_now THEN Len(stack[t]) - 1 ELSE Len(stack[t])
        /\ \A t \in Terminal : \A k \in 1 .. Len(stack'[t]) : stack'[t][k] = stack[t][k]
    BY <1>1, <1>2, ReturnFrames
  <1>5. \A t \in Terminal : Len(stack[t]) \in Nat
    BY <1>2 DEF TypeOK
  <1>6. TypeOK'
    BY <1>1, <1>2, <1>4 DEF TypeOK, Tables, FrameSet, Pc
  <1>7. \A t \in Terminal : \A k \in 1 .. Len(stack'[t]) : k \in 1 .. Len(stack[t])
    BY <1>4, <1>5
  <1>8. Boots'
    BY <1>1, <1>4, <1>7 DEF IInv, Boots, Booted
  <1>9. Devices'
    BY <1>1 DEF IInv, Devices
  <1>10. ASSUME NEW j \in Irq, NEW u \in Terminal, NEW m \in Nat
         PROVE  Busy(u, m, j)' <=> Busy(u, m, j)
    <2>1. CASE u = terminal_now /\ m = Len(Running)
      <3>1. stack[u] = Running /\ Len(stack'[u]) = m - 1
        BY <1>4, <2>1 DEF Running
      <3>2. ~Busy(u, m, j)
        BY <1>3, <2>1, <3>1 DEF Busy, Unfinished
      <3>3. m \notin 1 .. Len(stack'[u])
        BY <1>3, <2>1, <3>1
      <3> QED BY <3>2, <3>3 DEF Busy
    <2>2. CASE ~(u = terminal_now /\ m = Len(Running))
      <3>1. m \in 1 .. Len(stack'[u]) <=> m \in 1 .. Len(stack[u])
        BY <1>3, <1>4, <1>5, <2>2 DEF Running
      <3> QED BY <1>4, <3>1 DEF Busy
    <2> QED BY <2>1, <2>2
  <1>11. Service'
    BY <1>1, <1>10, ServiceKept DEF IInv
  <1>12. Depth'
    BY <1>4, <1>5, InterruptsAssumption DEF IInv, Depth
  <1> QED BY <1>6, <1>8, <1>9, <1>11, <1>12 DEF IInv

(* Each step of a handler moves one frame, and acknowledges or does not. *)
LEMMA StepKeeps ==
    ASSUME IInv, NEW i \in Irq, Step(i)
    PROVE  IInv'
  <1> USE DEF Pc, Unfinished
  <1>1. TypeOK /\ Service /\ enabled \in BOOLEAN /\ started \subseteq Terminal /\ terminal_now \in started
    BY DEF IInv, TypeOK
  <1>2. /\ Pit \in Irq /\ Keyboard \in Irq /\ Rtc \in Irq
        /\ \A j \in Irq : Acked(j) \subseteq isr
    BY DEF Irq, Acked
  <1>3. ASSUME PitAck PROVE IInv'
    <2>1. At(Pit, "entry") /\ Goto("rotate") /\ isr' = Acked(Pit)
      BY <1>3 DEF PitAck
    <2>2. UNCHANGED <<booting, irr, enabled, terminal_now, started>>
      BY <1>3 DEF PitAck
    <2>3. TypeOK' /\ Boots' /\ Devices' /\ Depth'
      BY <1>1, <1>2, <2>1, <2>2, GotoKeeps
    <2>4. Service'
      BY <1>1, <1>2, <2>1, ServiceAck
    <2> QED BY <2>3, <2>4 DEF IInv
  <1>4. ASSUME PitRotate PROVE IInv'
    <2>1. started # {}
      BY <1>1
    <2>2. At(Pit, "rotate") /\ Goto("return") /\ isr' = isr /\ terminal_now' = Successor
      BY <1>4, <2>1 DEF PitRotate
    <2>3. UNCHANGED <<booting, irr, started>> /\ enabled' \in BOOLEAN
      BY <1>4, <2>1 DEF PitRotate
    <2>4. Successor \in started
      BY <1>1, SuccessorStarted
    <2>5. TypeOK' /\ Boots' /\ Devices' /\ Depth'
      BY <1>1, <1>2, <2>2, <2>3, <2>4, GotoKeeps
    <2>6. Service'
      BY <1>1, <1>2, <2>2, ServiceGoto
    <2> QED BY <2>5, <2>6 DEF IInv
  <1>5. ASSUME Key PROVE IInv'
    <2>1. At(Keyboard, "entry") /\ Goto("acknowledge") /\ isr' = isr /\ enabled' = TRUE
      BY <1>5 DEF Key, InBody
    <2>2. UNCHANGED <<booting, irr, terminal_now, started>>
      BY <1>5 DEF Key
    <2>3. TypeOK' /\ Boots' /\ Devices' /\ Depth'
      BY <1>1, <1>2, <2>1, <2>2, GotoKeeps
    <2>4. Service'
      BY <1>1, <1>2, <2>1, ServiceGoto
    <2> QED BY <2>3, <2>4 DEF IInv
  <1>6. ASSUME Tab PROVE IInv'
    <2>1. At(Keyboard, "entry") /\ Goto("read") /\ isr' = isr /\ enabled' = TRUE
      BY <1>6 DEF Tab, InBody, StillInService
    <2>2. UNCHANGED <<booting, irr, terminal_now, started>>
      BY <1>6 DEF Tab
    <2>3. TypeOK' /\ Boots' /\ Devices' /\ Depth'
      BY <1>1, <1>2, <2>1, <2>2, GotoKeeps
    <2>4. Service'
      BY <1>1, <1>2, <2>1, ServiceGoto
    <2> QED BY <2>3, <2>4 DEF IInv
  <1>7. ASSUME TabEnd PROVE IInv'
    <2>1. At(Keyboard, "read") /\ Goto("acknowledge") /\ isr' = isr
      BY <1>7 DEF TabEnd
    <2>2. UNCHANGED <<booting, irr, enabled, terminal_now, started>>
      BY <1>7 DEF TabEnd
    <2>3. TypeOK' /\ Boots' /\ Devices' /\ Depth'
      BY <1>1, <1>2, <2>1, <2>2, GotoKeeps
    <2>4. Service'
      BY <1>1, <1>2, <2>1, ServiceGoto
    <2> QED BY <2>3, <2>4 DEF IInv
  <1>8. ASSUME KeyAck PROVE IInv'
    <2>1. At(Keyboard, "acknowledge") /\ Goto("return") /\ isr' = Acked(Keyboard)
      BY <1>8 DEF KeyAck, EndOfInterrupt
    <2>2. UNCHANGED <<booting, irr, enabled, terminal_now, started>>
      BY <1>8 DEF KeyAck
    <2>3. TypeOK' /\ Boots' /\ Devices' /\ Depth'
      BY <1>1, <1>2, <2>1, <2>2, GotoKeeps
    <2>4. Service'
      BY <1>1, <1>2, <2>1, ServiceAck
    <2> QED BY <2>3, <2>4 DEF IInv
  <1>9. ASSUME AltKey PROVE IInv'
    <2>1. At(Keyboard, "entry") /\ Goto("return") /\ isr' = Acked(Keyboard) /\ enabled' \in BOOLEAN
      BY <1>9 DEF AltKey, InBody
    <2>2. UNCHANGED <<booting, irr, terminal_now, started>>
      BY <1>9 DEF AltKey
    <2>3. TypeOK' /\ Boots' /\ Devices' /\ Depth'
      BY <1>1, <1>2, <2>1, <2>2, GotoKeeps
    <2>4. Service'
      BY <1>1, <1>2, <2>1, ServiceAck
    <2> QED BY <2>3, <2>4 DEF IInv
  <1>10. ASSUME Shift PROVE IInv'
    <2>1. At(Keyboard, "entry") /\ Goto("shift") /\ isr' = Acked(Keyboard) /\ enabled' = TRUE /\ Booted
      BY <1>10 DEF Shift, InBody
    <2>2. UNCHANGED <<booting, irr, terminal_now, started>>
      BY <1>10 DEF Shift
    <2>3. TypeOK' /\ Boots' /\ Devices' /\ Depth'
      BY <1>1, <1>2, <2>1, <2>2, GotoKeeps
    <2>4. Service'
      BY <1>1, <1>2, <2>1, ServiceAck
    <2> QED BY <2>3, <2>4 DEF IInv
  <1>11. ASSUME ShiftLoad PROVE IInv'
    <2>1. At(Keyboard, "shift") /\ Goto("return") /\ isr' = isr
      BY <1>11 DEF ShiftLoad
    <2>2. UNCHANGED <<booting, irr, enabled, terminal_now, started>>
      BY <1>11 DEF ShiftLoad
    <2>3. TypeOK' /\ Boots' /\ Devices' /\ Depth'
      BY <1>1, <1>2, <2>1, <2>2, GotoKeeps
    <2>4. Service'
      BY <1>1, <1>2, <2>1, ServiceGoto
    <2> QED BY <2>3, <2>4 DEF IInv
  <1>12. ASSUME NEW t \in Terminal, ShiftStart(t) PROVE IInv'
    <2>1. /\ At(Keyboard, "shift") /\ Goto("return") /\ isr' = isr
          /\ started' = started \cup {t} /\ terminal_now' = t
      BY <1>12 DEF ShiftStart
    <2>2. UNCHANGED <<booting, irr, enabled>>
      BY <1>12 DEF ShiftStart
    <2>3. Booted
      <3>1. terminal_now \in Terminal /\ Running[Len(Running)].pc = "shift" /\ Len(Running) \in Nat \ {0}
        BY <1>1, <1>2, <2>1, TopFrame
      <3>2. Len(Running) \in 1 .. Len(stack[terminal_now])
        BY <3>1 DEF Running
      <3> QED BY <3>1, <3>2 DEF IInv, Boots, Running
    <2>4. TypeOK' /\ Boots' /\ Devices' /\ Depth'
      BY <1>1, <1>2, <2>1, <2>2, <2>3, GotoKeeps
    <2>5. Service'
      BY <1>1, <1>2, <2>1, ServiceGoto
    <2> QED BY <2>4, <2>5 DEF IInv
  <1>13. ASSUME RtcBody PROVE IInv'
    <2>1. At(Rtc, "entry") /\ Goto("return") /\ isr' = Acked(Rtc) /\ enabled' = TRUE
      BY <1>13 DEF RtcBody
    <2>2. UNCHANGED <<booting, irr, terminal_now, started>>
      BY <1>13 DEF RtcBody
    <2>3. TypeOK' /\ Boots' /\ Devices' /\ Depth'
      BY <1>1, <1>2, <2>1, <2>2, GotoKeeps
    <2>4. Service'
      BY <1>1, <1>2, <2>1, ServiceAck
    <2> QED BY <2>3, <2>4 DEF IInv
  <1> QED BY <1>3, <1>4, <1>5, <1>6, <1>7, <1>8, <1>9, <1>10, <1>11, <1>12, <1>13,
             ReturnKeeps DEF Step

LEMMA InvNext == IInv /\ [Next]_vars => IInv'
  <1>1. IInv /\ UNCHANGED vars => IInv'
    <2> SUFFICES ASSUME IInv, UNCHANGED vars PROVE IInv'
      OBVIOUS
    <2>1. /\ boot' = boot /\ unmasked' = unmasked /\ irr' = irr /\ isr' = isr /\ enabled' = enabled
          /\ terminal_now' = terminal_now /\ started' = started /\ stack' = stack
      BY DEF vars
    <2>2. TypeOK'
      BY <2>1 DEF IInv, TypeOK
    <2>3. Boots' /\ Devices'
      BY <2>1 DEF IInv, Boots, Devices, Booted
    <2>4. \A i \in Irq : \A u \in Terminal, m \in Nat : Busy(u, m, i)' <=> Busy(u, m, i)
      BY <2>1 DEF Busy
    <2>5. Service'
      BY <2>1, <2>4, ServiceKept DEF IInv
    <2>6. Depth'
      BY <2>1 DEF IInv, Depth
    <2> QED BY <2>2, <2>3, <2>5, <2>6 DEF IInv
  <1> QED BY <1>1, BootKeeps, CallKeeps, DeliverKeeps, StepKeeps DEF Next

(* The strengthened invariant, for any number of terminals and frames. *)
THEOREM Invariant == Spec => []IInv
  BY InvInit, InvNext, PTL DEF Spec

(* The controllers, the boot and the stacks of the handlers keep their      *)
(* types, whatever interrupts what: the rotation of pit_handler finds a     *)
(* terminal with a process, also during terminal_init.                      *)
THEOREM TypeCorrect == Spec => []TypeOK
  <1>1. IInv => TypeOK
    BY DEF IInv
  <1> QED BY <1>1, Invariant, PTL

(* A request is in service as long as one handler of it, on any stack, has  *)
(* not acknowledged it: no handler acknowledges the request of another.     *)
THEOREM OneHandlerInService == Spec => []InService
  <1>1. IInv => InService
    <2> SUFFICES ASSUME IInv PROVE InService
      OBVIOUS
    <2>1. /\ \A t \in Terminal : Len(stack[t]) \in Nat /\ Len(stack[t]) <= MaxFrames
          /\ \A t \in Terminal : DOMAIN stack[t] = 1 .. Len(stack[t])
      BY DEF IInv, Depth, TypeOK
    <2>2. ASSUME NEW i \in Irq
          PROVE  \A t \in Terminal, k \in 1 .. MaxFrames : <<t, k>> \in Unacknowledged(i) <=> Busy(t, k, i)
      BY <2>1 DEF Unacknowledged, Busy, Unfinished
    <2>3. ASSUME NEW i \in Irq, i \in isr
          PROVE  Cardinality(Unacknowledged(i)) = 1
      <3>1. PICK t \in Terminal, k \in Nat :
                \A u \in Terminal, m \in Nat : Busy(u, m, i) <=> u = t /\ m = k
        BY <2>3 DEF IInv, Service, Served
      <3>2. k \in 1 .. MaxFrames
        <4>1. k \in 1 .. Len(stack[t])
          BY <3>1 DEF Busy
        <4> QED BY <2>1, <4>1, InterruptsAssumption
      <3>3. Unacknowledged(i) = {<<t, k>>}
        <4>1. Unacknowledged(i) \subseteq Terminal \X (1 .. MaxFrames)
          BY DEF Unacknowledged
        <4>2. \A u \in Terminal, m \in 1 .. MaxFrames : <<u, m>> \in Unacknowledged(i) <=> u = t /\ m = k
          <5>1. 1 .. MaxFrames \subseteq Nat
            BY InterruptsAssumption
          <5> QED BY <2>2, <3>1, <5>1
        <4> QED BY <3>2, <4>1, <4>2
      <3> QED BY <3>3, FS_Singleton
    <2>4. ASSUME NEW i \in Irq, i \notin isr
          PROVE  Cardinality(Unacknowledged(i)) = 0
      <3>1. \A u \in Terminal, m \in Nat : ~Busy(u, m, i)
        BY <2>4 DEF IInv, Service, Served
      <3>2. Unacknowledged(i) = {}
        <4>1. Unacknowledged(i) \subseteq Terminal \X (1 .. MaxFrames)
          BY DEF Unacknowledged
        <4> QED BY <2>2, <3>1, <4>1, InterruptsAssumption
      <3> QED BY <3>2, FS_EmptySet
    <2> QED BY <2>3, <2>4 DEF InService, IInv, Service
  <1> QED BY <1>1, Invariant, PTL

(* The first request of every device, which may come in the middle of       *)
(* terminal_init, finds what its handler uses.                              *)
THEOREM HandlersFindTheirParts == Spec => TakenWhenReady
  <1>1. IInv /\ [Next]_vars =>
            [\A i \in Irq : i \in isr' \ isr => \A part \in Needs(i) : Ready(part)]_vars
    <2> SUFFICES ASSUME IInv, Next, NEW i \in Irq, i \in isr' \ isr, NEW part \in Needs(i)
                 PROVE  Ready(part)
      BY DEF vars
    <2>1. i \in unmasked
      <3>1. CASE \E j \in Irq : Deliver(j)
        <4>1. PICK j \in Irq : isr' = isr \cup Lines(j) /\ Lines(j) \subseteq unmasked
          BY <3>1 DEF Deliver
        <4> QED BY <4>1
      <3>2. CASE BootStep \/ SystemCall \/ Sti \/ \E j \in Irq : Raise(j) \/ Step(j)
        <4>1. isr' \subseteq isr
          BY <3>2 DEF BootStep, Initialise, TerminalInit, FirstShell, SystemCall, Sti, Raise, Step,
                      PitAck, PitRotate, Key, Tab, TabEnd, KeyAck, AltKey, Shift, ShiftLoad,
                      ShiftStart, RtcBody, Return, Acked, StillInService, EndOfInterrupt
        <4> QED BY <4>1
      <3> QED BY <3>1, <3>2 DEF Next
    <2>2. boot \in 1 .. 13
      BY IrqTypes DEF IInv, TypeOK
    <2>3. /\ Entry[1] = "gates" /\ Entry[3] = "files" /\ Entry[4] = "paging"
          /\ Entry[5] = "clock" /\ Entry[6] = "keyboard" /\ Entry[9] = "terminal 3"
      BY DEF Entry
    <2>4. ASSUME NEW k \in 1 .. 12, k < boot, part = Entry[k]
          PROVE  Ready(part)
      BY <2>2, <2>4 DEF Ready
    <2>5. CASE i = Pit
      <3>1. boot > 10
        BY <2>1, <2>5 DEF IInv, Devices
      <3>2. part \in {"gates", "paging", "terminal 3"}
        <4>1. i # Rtc
          BY <2>5, IrqTypes
        <4>2. Needs(i) = {"gates", "paging"} \cup {"terminal 3"}
          BY <2>5, <4>1 DEF Needs
        <4> QED BY <4>2
      <3>3. part = Entry[1] \/ part = Entry[4] \/ part = Entry[9]
        BY <2>3, <3>2
      <3>4. 1 < boot /\ 4 < boot /\ 9 < boot
        BY <2>2, <3>1
      <3>5. 1 \in 1 .. 12 /\ 4 \in 1 .. 12 /\ 9 \in 1 .. 12
        OBVIOUS
      <3> QED BY <2>4, <3>3, <3>4, <3>5
    <2>6. CASE i = Keyboard
      <3>1. boot > 6 /\ part \in {"gates", "paging", "files", "keyboard"}
        BY <2>1, <2>6, IrqTypes DEF IInv, Devices, Needs
      <3>2. part = Entry[1] \/ part = Entry[3] \/ part = Entry[4] \/ part = Entry[6]
        BY <2>3, <3>1
      <3>3. 1 \in 1 .. 12 /\ 1 < boot /\ 3 \in 1 .. 12 /\ 3 < boot /\ 4 \in 1 .. 12 /\ 4 < boot /\ 6 \in 1 .. 12 /\ 6 < boot
        BY <2>2, <3>1
      <3> QED BY <2>4, <3>2, <3>3
    <2>7. CASE i = Rtc
      <3>1. boot > 5 /\ part \in {"gates", "clock"}
        BY <2>1, <2>7, IrqTypes DEF IInv, Devices, Needs
      <3>2. part = Entry[1] \/ part = Entry[5]
        BY <2>3, <3>1
      <3>3. 1 \in 1 .. 12 /\ 1 < boot /\ 5 \in 1 .. 12 /\ 5 < boot
        BY <2>2, <3>1
      <3> QED BY <2>4, <3>2, <3>3
    <2> QED BY <2>5, <2>6, <2>7 DEF Irq
  <1> QED BY <1>1, Invariant, PTL DEF Spec, TakenWhenReady

=============================================================================
