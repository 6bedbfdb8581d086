----------------------------- MODULE Interrupts -----------------------------
(***************************************************************************)
(* How the three interrupts of the kernel interrupt each other and the     *)
(* boot: the timer, the keyboard and the real-time clock, at the two       *)
(* interrupt controllers (i8259.c), the gates (idt.c) and in the order in  *)
(* which entry initialises (kernel.c) and the handlers acknowledge, turn   *)
(* interrupts off and on, and switch stacks.                               *)
(*                                                                         *)
(* entry runs with interrupts off until terminal_init, whose terminal_store *)
(* turns them on: what comes after is interrupted like any other code.     *)
(*                                                                         *)
(* The gates leave interrupts on: a handler can be interrupted before its  *)
(* cli, and after its sti.  A tick may then take the processor away with   *)
(* the request still in service, which silences the device and those of    *)
(* lower priority until the terminal is run again.                         *)
(*                                                                         *)
(* What is done with interrupts off is one step.  The sti of pit_handler   *)
(* and the exchange of the stacks are one step here (see Process).         *)
(***************************************************************************)
EXTENDS Integers, Sequences, FiniteSets

CONSTANTS
    NumTerm,
    MaxFrames  \* bound: handlers under way on one kernel stack

Terminal == 0 .. NumTerm - 1
Pit == 0
Keyboard == 1
Cascade == 2   \* the line of the master that the slave is wired to
Rtc == 8
Irq == {Pit, Keyboard, Rtc}
Line == Irq \cup {Cascade}

ASSUME InterruptsAssumption ==
    NumTerm \in Nat \ {0} /\ MaxFrames \in Nat \ {0}

VARIABLES
    boot,          \* the step of entry that is next
    unmasked,      \* the lines whose bit is 0 in master_mask and slave_mask
    irr,           \* the requests that wait in the controllers
    isr,           \* the lines in service: taken and not acknowledged
    enabled,       \* the interrupt flag
    terminal_now,
    started,       \* the terminals that have a process
    stack          \* terminal -> the handlers on the stack of its process

vars == <<boot, unmasked, irr, isr, enabled, terminal_now, started, stack>>
booting == <<boot, unmasked>>

(* What entry does, in its order; terminal_init stores the terminals one by *)
(* one, and each terminal_store ends with interrupts on.                    *)
FilesLate ==                                                      \* mutant
    <<"gates", "controller", "paging", "clock", "keyboard", "terminal 1", "files",
      "terminal 2", "terminal 3", "timer", "sti", "shell">>
Entry ==
    <<"gates", "controller", "files", "paging", "clock", "keyboard",
      "terminal 1", "terminal 2", "terminal 3", "timer", "sti", "shell">>
Booted == boot > Len(Entry)
Ready(part) == \E k \in 1 .. boot - 1 : Entry[k] = part

(***************************************************************************)
(* boot.S turns interrupts off.  pcb_array names process 0 for terminal 1  *)
(* before there is one, so that a tick finds a terminal to run.            *)
(***************************************************************************)
Init ==
    /\ boot = 1 /\ unmasked = {}
    /\ irr = {} /\ isr = {} /\ enabled = FALSE
    /\ terminal_now = 0 /\ started = {0}
    /\ stack = [t \in Terminal |-> <<>>]

Running == stack[terminal_now]
Frame(i, pc) == [irq |-> i, pc |-> pc]
On(t, i, pc) == stack[t] # <<>> /\ stack[t][Len(stack[t])] = Frame(i, pc)
(* The running process stands at pc in the handler of i. *)
At(i, pc) == On(terminal_now, i, pc)
Goto(pc) == stack' = [stack EXCEPT ![terminal_now][Len(Running)].pc = pc]

Entered(i) == {t \in Terminal : \E k \in DOMAIN stack[t] : stack[t][k] = Frame(i, "entry")}

-----------------------------------------------------------------------------
(* entry *)

(* A handler that interrupts entry runs on the same stack. *)
InEntry(part) == ~Booted /\ Entry[boot] = part /\ Running = <<>>

(* i8259_init masks every line but that of the slave. *)
UnmaskedAtFirst == {Cascade}

(* enable_irq in the initialisation of the devices. *)
Unmasks(part) ==
    CASE part = "controller" -> UnmaskedAtFirst
      [] part = "clock"      -> {Rtc}
      [] part = "keyboard"   -> {Keyboard}
      [] part = "timer"      -> {Pit}
      [] OTHER               -> {}

(* idt_init, i8259_init, init_filesys, paging_init and the devices; the    *)
(* clock is switched on before its line.                                   *)
Initialise ==
    /\ \E part \in {"gates", "controller", "files", "paging", "clock", "keyboard", "timer"} :
        /\ InEntry(part)
        /\ unmasked' = unmasked \cup Unmasks(part)
    /\ boot' = boot + 1
    /\ UNCHANGED <<irr, isr, enabled, terminal_now, started, stack>>

NoneNamed(k) == started \ {k - 1}                                 \* mutant
(* terminal_init: pcb_array is 0 for terminal 1 and -1 for the others. *)
Named(k) == IF k = 1 THEN started \cup {0} ELSE started \ {k - 1}

(* One terminal of terminal_init; terminal_store turns interrupts on. *)
TerminalInit ==
    /\ \E k \in 1 .. 3 :
        /\ InEntry(<<"terminal 1", "terminal 2", "terminal 3">>[k])
        /\ started' = Named(k)
    /\ boot' = boot + 1 /\ enabled' = TRUE
    /\ UNCHANGED <<unmasked, irr, isr, terminal_now, stack>>

(* sti, and execute("shell") up to its iret. *)
FirstShell ==
    /\ InEntry("sti") \/ InEntry("shell")
    /\ boot' = boot + 1 /\ enabled' = TRUE
    /\ UNCHANGED <<unmasked, irr, isr, terminal_now, started, stack>>

BootStep == Initialise \/ TerminalInit \/ FirstShell

-----------------------------------------------------------------------------
(***************************************************************************)
(* A device asks again.  The keyboard and the clock do so only after their *)
(* port was read, which the handlers do first.  What is asked before the   *)
(* controllers are initialised is forgotten, and left out.                 *)
(***************************************************************************)
Raise(i) ==
    /\ i \notin irr
    /\ Ready("controller") /\ (i = Rtc => Ready("clock"))
    /\ i # Pit => Entered(i) = {}
    /\ irr' = irr \cup {i}
    /\ UNCHANGED <<booting, isr, enabled, terminal_now, started, stack>>

(* What a request raises: at the master, and at the slave behind it. *)
Lines(i) == IF i = Rtc THEN {Rtc, Cascade} ELSE {i}

(***************************************************************************)
(* A request is taken if its lines are not masked and none of the same or  *)
(* of higher priority is in service.  Which of several waiting ones is     *)
(* first is left open.                                                     *)
(***************************************************************************)
Deliver(i) ==
    /\ enabled /\ i \in irr /\ Lines(i) \subseteq unmasked
    /\ \A j \in isr \ {Rtc}, l \in Lines(i) \ {Rtc} : l < j
    /\ Len(Running) < MaxFrames
    /\ irr' = irr \ {i} /\ isr' = isr \cup Lines(i)
    /\ stack' = [stack EXCEPT ![terminal_now] = Append(@, Frame(i, "entry"))]
    /\ UNCHANGED <<booting, enabled, terminal_now, started>>

(* The gate of int 0x80 turns interrupts off; the calls, or the return from *)
(* them, turn them on.                                                     *)
SystemCall ==
    /\ Booted /\ Running = <<>> /\ enabled
    /\ enabled' = FALSE
    /\ UNCHANGED <<booting, irr, isr, terminal_now, started, stack>>

Sti ==
    /\ Booted /\ Running = <<>> /\ ~enabled
    /\ enabled' = TRUE
    /\ UNCHANGED <<booting, irr, isr, terminal_now, started, stack>>

(* send_eoi: the request is no longer in service, at both controllers. *)
Acked(i) == isr \ Lines(i)

(* popal and iret: what was interrupted had interrupts on. *)
Return(i) ==
    /\ At(i, "return")
    /\ enabled' = TRUE
    /\ stack' = [stack EXCEPT ![terminal_now] = SubSeq(@, 1, Len(@) - 1)]
    /\ UNCHANGED <<booting, irr, isr, terminal_now, started>>

-----------------------------------------------------------------------------
(* pit_handler acknowledges before its cli, and rotates after it. *)

PitAck ==
    /\ At(Pit, "entry")
    /\ isr' = Acked(Pit)
    /\ Goto("rotate")
    /\ UNCHANGED <<booting, irr, enabled, terminal_now, started>>

(* The loop goes round for ever if no terminal has a process. *)
Successor ==
    LET after(n) == (terminal_now + n) % NumTerm
    IN  after(CHOOSE n \in 1 .. NumTerm : /\ after(n) \in started
                                          /\ \A m \in 1 .. n - 1 : after(m) \notin started)

PitRotate ==
    /\ At(Pit, "rotate")
    /\ IF started = {} THEN UNCHANGED <<terminal_now, enabled, stack>>
       ELSE /\ terminal_now' = Successor
            /\ enabled' = (Successor # terminal_now)
            /\ Goto("return")
    /\ UNCHANGED <<booting, irr, isr, started>>

-----------------------------------------------------------------------------
(* keyboard_handler *)

InBody == At(Keyboard, "entry")
AckedFirst == isr \ {Keyboard}                                    \* mutant
StillInService == isr

(* Most keys: interrupts are turned on before the key is acknowledged. *)
Key ==
    /\ InBody
    /\ enabled' = TRUE
    /\ Goto("acknowledge")
    /\ UNCHANGED <<booting, irr, isr, terminal_now, started>>

(* TAB: the read of the directory turns interrupts on.  Before the first     *)
(* execute nothing has written the PCB in which open looks for a free       *)
(* descriptor: it finds one, or it fails and the key ends like most.        *)
Tab ==
    /\ InBody
    /\ isr' = StillInService
    /\ enabled' = TRUE
    /\ Goto("read")
    /\ UNCHANGED <<booting, irr, terminal_now, started>>

TabEnd ==
    /\ At(Keyboard, "read")
    /\ Goto("acknowledge")
    /\ UNCHANGED <<booting, irr, isr, enabled, terminal_now, started>>

(* The ways out of the handler of a key without Alt, each with a sti and an *)
(* end of interrupt of its own.                                             *)
Exits ==
    {"released", "nothing to delete", "no letter", "recalled by UP", "recalled by DOWN",
     "past the history", "directory not opened", "directory not read", "second match",
     "TAB done", "end of the handler"}
SecondMatchSilent(exit) ==                                        \* mutant
    IF exit = "second match" THEN isr ELSE Acked(Keyboard)
EndOfInterrupt(exit) == Acked(Keyboard)

KeyAck ==
    /\ At(Keyboard, "acknowledge")
    /\ \E exit \in Exits : isr' = EndOfInterrupt(exit)
    /\ Goto("return")
    /\ UNCHANGED <<booting, irr, enabled, terminal_now, started>>

(* With Alt a key is acknowledged at once; one that switches nothing then   *)
(* returns, by way of the sti of terminal_shift or not.                     *)
AltKey ==
    /\ InBody
    /\ isr' = Acked(Keyboard)
    /\ enabled' \in BOOLEAN
    /\ Goto("return")
    /\ UNCHANGED <<booting, irr, terminal_now, started>>

(* terminal_store, in terminal_shift, turns interrupts on.  Nobody presses  *)
(* Alt+Fn before the first prompt.                                          *)
Shift ==
    /\ Booted /\ InBody
    /\ isr' = Acked(Keyboard) /\ enabled' = TRUE
    /\ Goto("shift")
    /\ UNCHANGED <<booting, irr, terminal_now, started>>

ShiftLoad ==
    /\ At(Keyboard, "shift")
    /\ Goto("return")
    /\ UNCHANGED <<booting, irr, isr, enabled, terminal_now, started>>

(* The new shell of a terminal leaves the handler where it is. *)
ShiftStart(t) ==
    /\ At(Keyboard, "shift") /\ t \notin started
    /\ started' = started \cup {t} /\ terminal_now' = t
    /\ Goto("return")
    /\ UNCHANGED <<booting, irr, isr, enabled>>

-----------------------------------------------------------------------------
(* rtc_handler acknowledges at both controllers before its sti. *)
RtcBody ==
    /\ At(Rtc, "entry")
    /\ isr' = Acked(Rtc) /\ enabled' = TRUE
    /\ Goto("return")
    /\ UNCHANGED <<booting, irr, terminal_now, started>>

Step(i) ==
    \/ i = Pit /\ (PitAck \/ PitRotate)
    \/ i = Keyboard /\ (Key \/ Tab \/ TabEnd \/ KeyAck \/ AltKey \/ Shift \/ ShiftLoad)
    \/ i = Keyboard /\ \E t \in Terminal : ShiftStart(t)
    \/ i = Rtc /\ RtcBody
    \/ Return(i)

Next == BootStep \/ SystemCall \/ Sti \/ \E i \in Irq : Raise(i) \/ Deliver(i) \/ Step(i)

Spec == Init /\ [][Next]_vars

(***************************************************************************)
(* The timer ticks; entry, a system call and a handler, also one that was  *)
(* interrupted by others, come to an end if they are run again and again;  *)
(* and interrupts are rare enough for none to be passed over for ever.     *)
(***************************************************************************)
FairSpec ==
    /\ Spec /\ WF_vars(Raise(Pit)) /\ SF_vars(BootStep) /\ SF_vars(Sti)
    /\ \A i \in Irq : SF_vars(Deliver(i))
    /\ \A t \in Terminal, d \in 1 .. MaxFrames :
        SF_vars(terminal_now = t /\ Len(stack[t]) = d /\ \E i \in Irq : Step(i))

-----------------------------------------------------------------------------
TypeOK ==
    /\ boot \in 1 .. Len(Entry) + 1 /\ unmasked \subseteq Line
    /\ irr \subseteq Irq /\ isr \subseteq Line /\ enabled \in BOOLEAN
    /\ started \subseteq Terminal /\ terminal_now \in started
    /\ stack \in [Terminal -> Seq([irq : Irq, pc : {"entry", "rotate", "read", "acknowledge",
                                                    "shift", "return"}])]

(***************************************************************************)
(* A request is in service exactly as long as one handler of it, on the    *)
(* stack of whatever process, has not acknowledged it.  So no key is       *)
(* handled in the middle of another but inside a switch, and no handler    *)
(* acknowledges the request of another.                                    *)
(***************************************************************************)
Unacknowledged(i) ==
    {p \in Terminal \X (1 .. MaxFrames) :
        /\ p[2] \in DOMAIN stack[p[1]]
        /\ stack[p[1]][p[2]].irq = i
        /\ stack[p[1]][p[2]].pc \in {"entry", "read", "acknowledge"}}

InService ==
    /\ \A i \in Irq : Cardinality(Unacknowledged(i)) = IF i \in isr THEN 1 ELSE 0
    /\ Cascade \in isr <=> Rtc \in isr

(***************************************************************************)
(* Whatever a handler uses is there when the first request is taken, which *)
(* is in terminal_init, long before the sti of entry: the gates, and for a *)
(* key the directory that TAB lists and the video pages.                   *)
(***************************************************************************)
Needs(i) ==
    IF i = Rtc THEN {"gates", "clock"}
    ELSE {"gates", "paging"} \cup (IF i = Pit THEN {"terminal 3"} ELSE {"files", "keyboard"})

TakenWhenReady ==
    [][\A i \in Irq : i \in isr' \ isr => \A part \in Needs(i) : Ready(part)]_vars

(* Every request is taken, whatever it meets: also those of a device whose  *)
(* handler was descheduled before it had acknowledged the last one.        *)
EveryRequestTaken == \A i \in Irq : i \in irr ~> i \in isr

(* Entry reaches the first shell, whatever interrupts it: a tick finds the *)
(* terminal it interrupts and goes back to it.                             *)
FirstShellRuns == <>Booted
=============================================================================
