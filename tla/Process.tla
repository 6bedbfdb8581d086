------------------------------ MODULE Process ------------------------------
(***************************************************************************)
(* Processes and their scheduling: execute and halt (systemcall.c), the    *)
(* timer interrupt that rotates over the terminals (pit.c), the part of    *)
(* terminal_shift that starts a shell on a new terminal (terminal.c), and  *)
(* the exception handler's way into halt (idt.c).                          *)
(*                                                                         *)
(* There is one CPU.  `cpu' is the process whose kernel stack and          *)
(* registers are live; every other variable is a global or a PCB field of  *)
(* the kernel.  Terminals are numbered from 0 (cur_display is              *)
(* cur_display_terminal_id - 1).                                           *)
(*                                                                         *)
(* A kernel path that runs with interrupts off is one step.  A path that   *)
(* turns them on before it has finished is split at that point, and a      *)
(* frame on the kernel stack of the interrupted process records how to     *)
(* continue:                                                               *)
(*   switch   pit_handler after its sti, before esp/ebp are exchanged      *)
(*   shift    terminal_shift after terminal_store has turned IF back on    *)
(*   open     terminal_shift after terminal_now was moved to the new       *)
(*            terminal, before execute("shell")                            *)
(*   launch   execute between its sti and its iret                         *)
(*   halt     halt called by int 0x80: IF stays off, nothing gets in       *)
(*   fault    halt called by exception_handler, after a sti                *)
(***************************************************************************)
EXTENDS Integers, Sequences, FiniteSets

CONSTANTS
    NumProc,     \* length of id_array (6 in the code)
    NumTerm,     \* terminals (3 in the code)
    Commands,    \* what users type: "program", "shell", "bad"
    Windows,     \* kinds of frame during which an interrupt may arrive
    PatientUser, \* no Alt+Fn between Enter and the start of the command
    MaxFrames    \* bound on nested kernel paths on one stack

NoProc == -1
Id == 0 .. NumProc - 1
IdOrNone == Id \cup {NoProc}
Term == 0 .. NumTerm - 1

ASSUME SizeAssumption ==
    /\ NumProc \in Nat \ {0} /\ NumTerm \in Nat \ {0} /\ MaxFrames \in Nat \ {0}
ASSUME EnvironmentAssumption ==
    /\ Commands \subseteq {"program", "shell", "bad"}
    /\ Windows \subseteq {"switch", "shift", "open", "launch", "fault"}
    /\ PatientUser \in BOOLEAN

VARIABLES
    id_array,     \* 1: the id is taken
    pcb_array,    \* current process of every terminal, -1 before its first shell
    parent_array, \* id the next child of the terminal gets as parent
    terminal_now, \* terminal being run
    cur_display,  \* terminal on the screen
    parent_id,    \* pcb->parent_id
    caller,       \* the kernel stack pcb->esp_ret/ebp_ret point into
    ctx,          \* pcb->esp/ebp: whose execution they resume, at what depth
    user_page,    \* process whose 4MB page is mapped at 128MB
    esp0,         \* process whose kernel stack the TSS names
    cpu,          \* process that is executing; NoProc: a dead stack was loaded
    at,           \* what every process does in user mode
    frames        \* kernel paths suspended or in progress on every stack

tables == <<id_array, pcb_array, parent_array, parent_id, caller>>
vars == <<tables, terminal_now, cur_display, ctx, user_page, esp0, cpu, at, frames>>

Position == {"none", "prompt", "command", "program", "waiting"}

NoCtx == [flow |-> NoProc, depth |-> 0]
Context == [flow : IdOrNone, depth : Nat]

(***************************************************************************)
(* One record type for all frames; a field a kind does not use holds -1.   *)
(***************************************************************************)
Kind == {"switch", "shift", "named", "open", "launch", "halt", "fault"}
AnyFrame == [kind : Kind,
             cur  : IdOrNone,             \* cur_pcb, cur_pcb_addr
             next : IdOrNone,             \* next_pcb, par_pcb_addr
             goal : Term \cup {-1},       \* terminal_id
             last : Term \cup {-1},       \* terminal_last
             disp : Term \cup {-1}]       \* cur_display_last
Frame ==
    {f \in AnyFrame : /\ f.kind \in {"switch", "halt", "fault"} => f.next \in Id
                      /\ f.kind \in {"halt", "fault"} => f.cur \in Id
                      /\ f.kind \in {"shift", "named", "open"} =>
                            f.goal \in Term /\ f.last \in Term /\ f.disp \in Term}

PcbFrame(k, c, n) ==
    [kind |-> k, cur |-> c, next |-> n, goal |-> -1, last |-> -1, disp |-> -1]
ShiftFrame(k, g, l, d) ==
    [kind |-> k, cur |-> NoProc, next |-> NoProc, goal |-> g, last |-> l, disp |-> d]

Running == cpu # NoProc
Idle(p) == frames[p] = <<>>
Top(p) == frames[p][Len(frames[p])]
Under(s) == SubSeq(s, 1, Len(s) - 1)
InUser == Running /\ Idle(cpu)
InKernel(k) == Running /\ ~Idle(cpu) /\ Top(cpu).kind = k

Push(f) == frames' = [frames EXCEPT ![cpu] = Append(@, f)]
Pop == frames' = [frames EXCEPT ![cpu] = Under(@)]
Replace(f) == frames' = [frames EXCEPT ![cpu] = Append(Under(@), f)]

(***************************************************************************)
(* IF = 1: in user mode, in the polling loops of the terminal and the RTC, *)
(* and in the windows the configuration opens.                             *)
(***************************************************************************)
Interruptible ==
    /\ Running
    /\ ~Idle(cpu) => Top(cpu).kind \in Windows /\ Len(frames[cpu]) < MaxFrames

(***************************************************************************)
(* kernel.c:entry up to the first execute("shell"): terminal 1 is shown    *)
(* and runs shell 0, which is its own parent.                              *)
(***************************************************************************)
Init ==
    /\ id_array = [p \in Id |-> IF p = 0 THEN 1 ELSE 0]
    /\ pcb_array = [t \in Term |-> IF t = 0 THEN 0 ELSE NoProc]
    /\ parent_array = pcb_array
    /\ terminal_now = 0 /\ cur_display = 0
    /\ parent_id = [p \in Id |-> 0]
    /\ caller = [p \in Id |-> NoProc]
    /\ ctx = [p \in Id |-> NoCtx]
    /\ user_page = 0 /\ esp0 = 0 /\ cpu = 0
    /\ at = [p \in Id |-> IF p = 0 THEN "prompt" ELSE "none"]
    /\ frames = [p \in Id |-> <<>>]

-----------------------------------------------------------------------------
(* execute *)

NoFreeId == \A p \in Id : id_array[p] # 0
IsLastId(n) == n = NumProc - 1                                    \* mutant
IsFirstFree(n) == id_array[n] = 0 /\ \A q \in Id : id_array[q] = 0 => n <= q

ParentForUnchecked(t, n) == parent_array[t]                       \* mutant
ParentFor(t, n) == IF parent_array[t] = NoProc THEN n ELSE parent_array[t]

(* esp_ret and ebp_ret: halt will come back to the stack execute runs on. *)
NoReturnPoint == NoProc                                           \* mutant
ReturnPoint == cpu

(***************************************************************************)
(* The part of execute after its checks.  The tables are indexed with the  *)
(* terminal on the screen.  The new process takes over the stack, so that  *)
(* a context saved on a former user of the same id is gone.                *)
(***************************************************************************)
Load(n) ==
    /\ id_array' = [id_array EXCEPT ![n] = 1]
    /\ pcb_array' = [pcb_array EXCEPT ![cur_display] = n]
    /\ parent_id' = [parent_id EXCEPT ![n] = ParentFor(cur_display, n)]
    /\ parent_array' = [parent_array EXCEPT ![cur_display] = n]
    /\ caller' = [caller EXCEPT ![n] = ReturnPoint]
    /\ ctx' = [p \in Id |-> IF p = n \/ ctx[p].flow = n THEN NoCtx ELSE ctx[p]]
    /\ user_page' = n /\ esp0' = n /\ cpu' = n

Launch == PcbFrame("launch", NoProc, NoProc)

(* A shell that has a line calls execute; the child starts. *)
Execute(c) ==
    /\ InUser /\ at[cpu] = "command" /\ c # "bad"
    /\ \E n \in Id :
       /\ IsFirstFree(n) /\ Load(n)
       /\ at' = [at EXCEPT ![cpu] = "waiting",
                           ![n] = IF c = "shell" THEN "prompt" ELSE "program"]
       /\ frames' = [frames EXCEPT ![n] = <<Launch>>]
    /\ UNCHANGED <<terminal_now, cur_display>>

(* Where a shell is once execute has returned -1 to it. *)
AfterError == "prompt"

(* No such file, not an executable, or no free id: execute returns -1. *)
ExecuteFails(c) ==
    /\ InUser /\ at[cpu] = "command" /\ (c = "bad" \/ NoFreeId)
    /\ at' = [at EXCEPT ![cpu] = AfterError]
    /\ UNCHANGED <<tables, terminal_now, cur_display, ctx, user_page, esp0, cpu, frames>>

(* The iret at the end of execute: the child reaches user mode. *)
Iret ==
    /\ InKernel("launch")
    /\ Pop
    /\ UNCHANGED <<tables, terminal_now, cur_display, ctx, user_page, esp0, cpu, at>>

(* terminal_read: the line goes to the running shell if its terminal is shown. *)
ReadLine ==
    /\ InUser /\ at[cpu] = "prompt" /\ cur_display = terminal_now
    /\ at' = [at EXCEPT ![cpu] = "command"]
    /\ UNCHANGED <<tables, terminal_now, cur_display, ctx, user_page, esp0, cpu, frames>>

-----------------------------------------------------------------------------
(* halt *)

Cur == pcb_array[terminal_now]
CanHalt == InUser /\ at[cpu] \in {"program", "command"}

(* The first shell of a terminal restarts at its entry point. *)
HaltRoot ==
    /\ CanHalt /\ Cur # NoProc /\ parent_id[Cur] = Cur
    /\ at' = [at EXCEPT ![cpu] = "prompt"]
    /\ UNCHANGED <<tables, terminal_now, cur_display, ctx, user_page, esp0, cpu, frames>>

(* parent_array once the terminal is back with par. *)
KeepParent(par) == Cur                                            \* mutant
NextParent(par) == parent_id[par]

(* id_array once p has halted. *)
IdsKept(p) == id_array                                            \* mutant
IdsAfterHalt(p) == [id_array EXCEPT ![p] = 0]

(***************************************************************************)
(* Any other process: the terminal goes back to the parent, the id is      *)
(* freed.  By a system call (k = "halt") or an exception (k = "fault").    *)
(***************************************************************************)
HaltChild(k) ==
    /\ CanHalt /\ Cur # NoProc /\ parent_id[Cur] # Cur
    /\ k = "fault" => at[cpu] = "program"
    /\ LET par == parent_id[Cur] IN
       /\ pcb_array' = [pcb_array EXCEPT ![terminal_now] = par]
       /\ parent_array' = [parent_array EXCEPT ![terminal_now] = NextParent(par)]
       /\ id_array' = IdsAfterHalt(Cur)
       /\ Push(PcbFrame(k, Cur, par))
    /\ UNCHANGED <<parent_id, caller, terminal_now, cur_display, ctx, user_page, esp0, cpu, at>>

(* par_pcb_addr, which the page and the TSS are set for. *)
PageOfChild(f) == f.cur                                           \* mutant
PageAfterHalt(f) == f.next

(* Whose execute is returned to. *)
CallerOfParent(f) == caller[f.next]                               \* mutant
CallerAfterHalt(f) == caller[f.cur]

(* Paging and TSS of the parent, then a jump into the execute of the caller. *)
HaltReturn ==
    /\ InKernel("halt") \/ InKernel("fault")
    /\ LET f == Top(cpu)  to == CallerAfterHalt(f) IN
       /\ user_page' = PageAfterHalt(f) /\ esp0' = PageAfterHalt(f)
       /\ cpu' = to
       /\ at' = [p \in Id |-> IF p = to THEN "prompt" ELSE IF p = cpu THEN "none" ELSE at[p]]
       /\ Pop
    /\ UNCHANGED <<tables, terminal_now, cur_display, ctx>>

-----------------------------------------------------------------------------
(* pit_handler *)

(* Terminals passed on the way from t to u by (t + 1) % 3. *)
Distance(t, u) == (u - t - 1) % NumTerm

IsLowest(t, u) ==                                                 \* mutant
    /\ pcb_array[u] # NoProc
    /\ \A v \in Term \ {t} : pcb_array[v] # NoProc => u # t /\ u <= v

(* u is the first terminal after t that has a process. *)
IsNext(t, u) ==
    /\ pcb_array[u] # NoProc
    /\ \A v \in Term : pcb_array[v] # NoProc => Distance(t, u) <= Distance(t, v)

PitSame ==
    /\ Interruptible
    /\ \E t \in Term :
       /\ IsNext(terminal_now, t) /\ pcb_array[t] = Cur
       /\ terminal_now' = t
    /\ UNCHANGED <<tables, cur_display, ctx, user_page, esp0, cpu, at, frames>>

PitSelect ==
    /\ Interruptible
    /\ \E t \in Term :
       /\ IsNext(terminal_now, t) /\ pcb_array[t] # Cur
       /\ terminal_now' = t
       /\ user_page' = pcb_array[t] /\ esp0' = pcb_array[t]
       /\ Push(PcbFrame("switch", Cur, pcb_array[t]))
    /\ UNCHANGED <<tables, cur_display, ctx, cpu, at>>

(* On the stacks st, the execution that the context c resumes is still there. *)
Alive(c, st) == c.flow # NoProc /\ c.depth <= Len(st[c.flow])

(* The execution f is still in execute, on the kernel stack of q. *)
OnStackOf(f, q) ==
    f # NoProc /\ ~Idle(f) /\ frames[f][1].kind = "launch" /\ caller[f] = q

(* The kernel path on top of the stack stores esp and ebp in the PCB p. *)
NothingSavedIn(p) == ctx                                          \* mutant
SavedIn(p) ==
    [q \in Id |-> IF q = p THEN [flow |-> cpu, depth |-> Len(frames[cpu]) - 1] ELSE ctx[q]]

(***************************************************************************)
(* esp and ebp are exchanged: cur_pcb's are stored, next_pcb's loaded.     *)
(* The process resumed reuses its stack, and what others left there dies.  *)
(***************************************************************************)
PitSwitch ==
    /\ InKernel("switch")
    /\ LET f == Top(cpu)
           to == ctx[f.next]
           saved == SavedIn(f.cur)
           rest == [frames EXCEPT ![cpu] = Under(@)]
       IN
       /\ ctx' = [p \in Id |-> IF p = f.next \/ OnStackOf(saved[p].flow, to.flow)
                               THEN NoCtx ELSE saved[p]]
       /\ IF Alive(to, rest)
          THEN /\ cpu' = to.flow
               /\ frames' = [rest EXCEPT ![to.flow] = SubSeq(@, 1, to.depth)]
          ELSE cpu' = NoProc /\ frames' = rest
    /\ UNCHANGED <<tables, terminal_now, cur_display, user_page, esp0, at>>

-----------------------------------------------------------------------------
(* terminal_shift *)

ShownIsBusy == pcb_array[cur_display] # NoProc /\ at[pcb_array[cur_display]] = "command"

(* Alt+Fn for a terminal that is not shown: terminal_store, IF is on again. *)
ShiftStore(t) ==
    /\ Interruptible /\ t # cur_display
    /\ PatientUser => ~ShownIsBusy
    /\ Push(ShiftFrame("shift", t, terminal_now, cur_display))
    /\ UNCHANGED <<tables, terminal_now, cur_display, ctx, user_page, esp0, cpu, at>>

(* cur_display_terminal_id is set; the rest of the switch goes by it. *)
ShiftName ==
    /\ InKernel("shift")
    /\ cur_display' = Top(cpu).goal
    /\ Replace([Top(cpu) EXCEPT !.kind = "named"])
    /\ UNCHANGED <<tables, terminal_now, ctx, user_page, esp0, cpu, at>>

HasShell(t) == t = 0 \/ pcb_array[t] # NoProc

(* The terminal has a shell: terminal_load shows it. *)
ShiftLoad ==
    /\ InKernel("named") /\ HasShell(cur_display)
    /\ Pop
    /\ UNCHANGED <<tables, terminal_now, cur_display, ctx, user_page, esp0, cpu, at>>

(* It has none: save the interrupted process, run the new terminal. *)
ShiftOpen ==
    /\ InKernel("named") /\ ~HasShell(cur_display)
    /\ terminal_now' = cur_display
    /\ ctx' = SavedIn(Cur)
    /\ Replace([Top(cpu) EXCEPT !.kind = "open"])
    /\ UNCHANGED <<tables, cur_display, user_page, esp0, cpu, at>>

(* execute("shell") on the new terminal. *)
ShiftLaunch ==
    /\ InKernel("open")
    /\ \E n \in Id :
       /\ IsFirstFree(n) /\ Load(n)
       /\ at' = [at EXCEPT ![n] = "prompt"]
       /\ frames' = [frames EXCEPT ![cpu] = Under(@), ![n] = <<Launch>>]
    /\ UNCHANGED <<terminal_now, cur_display>>

(* No free id: back to the terminals before. *)
ShiftRevert ==
    /\ InKernel("open") /\ NoFreeId
    /\ terminal_now' = Top(cpu).last /\ cur_display' = Top(cpu).disp
    /\ Pop
    /\ UNCHANGED <<tables, ctx, user_page, esp0, cpu, at>>

-----------------------------------------------------------------------------
UserStep ==
    \/ \E c \in Commands : Execute(c) \/ ExecuteFails(c)
    \/ ReadLine
    \/ HaltRoot
    \/ \E k \in {"halt", "fault"} : HaltChild(k)
KernelStep ==
    \/ Iret \/ HaltReturn \/ PitSwitch
    \/ ShiftName \/ ShiftLoad \/ ShiftOpen \/ ShiftLaunch \/ ShiftRevert
Pit == PitSame \/ PitSelect
Interrupt == Pit \/ \E t \in Term : ShiftStore(t)

Next == UserStep \/ KernelStep \/ Interrupt

(***************************************************************************)
(* The timer's request stays latched in the PIC while IF is 0 and has the  *)
(* highest priority, so a tick that could be taken again and again is      *)
(* taken.  A path in the kernel runs on.  Users need not type and programs *)
(* need not halt.                                                          *)
(***************************************************************************)
Fairness ==
    /\ SF_vars(Pit)
    /\ WF_vars(KernelStep)

Spec == Init /\ [][Next]_vars
FairSpec == Spec /\ Fairness

-----------------------------------------------------------------------------
(***************************************************************************)
(* Properties.                                                             *)
(***************************************************************************)

(* Every variable keeps to its range, whatever windows are open. *)
TypeOK ==
    /\ id_array \in [Id -> {0, 1}]
    /\ pcb_array \in [Term -> IdOrNone]
    /\ parent_array \in [Term -> IdOrNone]
    /\ terminal_now \in Term /\ cur_display \in Term
    /\ parent_id \in [Id -> Id]
    /\ caller \in [Id -> IdOrNone]
    /\ ctx \in [Id -> Context]
    /\ user_page \in Id /\ esp0 \in Id
    /\ cpu \in IdOrNone
    /\ at \in [Id -> Position]
    /\ frames \in [Id -> Seq(Frame)]

(***************************************************************************)
(* get_cur_pcb_addr, which every system call starts with, finds the PCB of *)
(* the process that made the call, and its page and kernel stack are the   *)
(* ones in use.                                                            *)
(***************************************************************************)
RunningIsCurrent == InUser => Cur = cpu /\ user_page = cpu /\ esp0 = cpu

(***************************************************************************)
(* While one terminal runs, the current process of every other one can be  *)
(* resumed: its PCB holds the esp/ebp of its own execution, saved since it *)
(* last ran.  terminal_shift and pit_handler save at different places.     *)
(***************************************************************************)
DescheduledResumable ==
    InUser => \A t \in Term \ {terminal_now} :
        pcb_array[t] # NoProc => ctx[pcb_array[t]] = [flow |-> pcb_array[t], depth |-> 0]

(* pit_handler never loads the esp of a stack that is no longer there. *)
NeverLost == Running

(* The current process of t and its ancestors. *)
Chain(t) ==
    {p \in Id : \A S \in SUBSET Id :
        pcb_array[t] \in S /\ (\A q \in S : parent_id[q] \in S) => p \in S}
Owned(t) == IF pcb_array[t] = NoProc THEN {} ELSE Chain(t)

(***************************************************************************)
(* No id leaks and none is shared: the ids taken are those of the          *)
(* terminals' current processes and their ancestors, no process belongs to *)
(* two terminals, and the ancestors wait in execute.                       *)
(***************************************************************************)
IdsAccounted ==
    InUser =>
        /\ {p \in Id : id_array[p] = 1} = UNION {Owned(t) : t \in Term}
        /\ \A t, u \in Term : t # u => Owned(t) \cap Owned(u) = {}
        /\ \A t \in Term : \A p \in Owned(t) \ {pcb_array[t]} : at[p] = "waiting"

(***************************************************************************)
(* "halt the current process and return to execute": whoever waits in      *)
(* execute has a child that is alive, or whose halt is under way.          *)
(***************************************************************************)
WaitersHaveChild ==
    \A p \in Id : at[p] = "waiting" =>
        \E q \in Id :
            /\ caller[q] = p /\ q # p
            /\ \/ id_array[q] = 1
               \/ \E i \in DOMAIN frames[q] : frames[q][i].kind \in {"halt", "fault"}

(***************************************************************************)
(* halt gives the terminal back to the process that called execute: the    *)
(* execution resumed is that of the new current process of the terminal,   *)
(* on its own page and kernel stack.                                       *)
(***************************************************************************)
ReturnsToCaller ==
    [][\A p \in Id : at[p] # "none" /\ at'[p] = "none" =>
         /\ pcb_array[terminal_now] = cpu' /\ user_page' = cpu' /\ esp0' = cpu'
         /\ cpu' = caller[p] /\ at[cpu'] = "waiting"]_vars

(***************************************************************************)
(* parent_id, from which halt takes the process that gets the terminal,    *)
(* names the process that called execute, whose stack halt returns to.     *)
(* Each is set from another variable, and halt resets parent_array to the  *)
(* parent of the parent: that is right for the first shell of a terminal   *)
(* only, so that the property holds as long as shells run no shells.       *)
(***************************************************************************)
ParentIsCaller ==
    \A p \in Id : id_array[p] = 1 /\ parent_id[p] # p => parent_id[p] = caller[p]

(* The rotation reaches every terminal that has a process, again and again. *)
EveryTerminalRuns ==
    \A t \in Term : [](pcb_array[t] # NoProc => <>(InUser /\ terminal_now = t))
=============================================================================
