------------------------------ MODULE Display ------------------------------
(***************************************************************************)
(* What the terminals show.  There is one screen and, for each terminal, a *)
(* page that backs it while another is displayed.  The kernel writes       *)
(* through one virtual page (page_table_vid) and the programs that called  *)
(* vidmap through another (page_table_vidpage); who writes where depends   *)
(* on where the timer, the keyboard handler and the switch between         *)
(* terminals have pointed them (pit.c, keyboard.c, terminal.c).            *)
(*                                                                         *)
(* The content of a page is the set of outputs on it: place, colour and    *)
(* scrolling are left out.                                                 *)
(***************************************************************************)
EXTENDS Integers, FiniteSets

CONSTANTS
    NumTerm,
    Graphic,  \* the terminals that run programs that call vidmap
    MaxOut    \* bound: outputs of all terminals

Terminal == 0 .. NumTerm - 1
Screen == -1

ASSUME DisplayAssumption ==
    NumTerm \in Nat \ {0} /\ Graphic \subseteq Terminal /\ MaxOut \in Nat

VARIABLES
    page,            \* the screen and the pages of the terminals -> outputs
    vid, vidpage,    \* the page that the two virtual pages are mapped to
    display,         \* cur_display_terminal_id - 1
    terminal_now,
    started,         \* the terminals that have a process
    drawers,         \* the terminals whose program called vidmap
    shift,           \* the switch that is under way
    out,             \* history: terminal -> its outputs since it was cleared
    count,           \* history: the number of outputs
    stray            \* history: the outputs that a wrong map has led astray

maps == <<vid, vidpage>>
vars == <<page, maps, display, terminal_now, started, drawers, shift, out, count, stray>>

NoShift == [pc |-> "none", on |-> -1, from |-> -1, to |-> -1, torn |-> FALSE]
PageOf(t) == IF t = display THEN Screen ELSE t

(* The video pages of paging_init and the first shell. *)
Init ==
    /\ page = [p \in {Screen} \cup Terminal |-> {}]
    /\ vid = Screen /\ vidpage = Screen
    /\ display = 0 /\ terminal_now = 0 /\ started = {0}
    /\ drawers = {} /\ shift = NoShift
    /\ out = [t \in Terminal |-> {}] /\ count = 0 /\ stray = {}

(* One more output of terminal t, on page p. *)
Output(t, p) ==
    /\ count < MaxOut
    /\ stray' = IF p = PageOf(t) THEN stray ELSE stray \cup {<<t, count>>}
    /\ page' = [page EXCEPT ![p] = @ \cup {<<t, count>>}]
    /\ out' = [out EXCEPT ![t] = @ \cup {<<t, count>>}]
    /\ count' = count + 1

(* An interrupt inside a switch tears it. *)
Interrupt == shift' = [shift EXCEPT !.torn = shift # NoShift]

(* The process is not under the handler of an interrupt. *)
Runs == shift.on # terminal_now

-----------------------------------------------------------------------------
(* terminal_write: both putc_modf and putc_backstage write through the map. *)
Write ==
    /\ Runs
    /\ Output(terminal_now, vid)
    /\ UNCHANGED <<maps, display, terminal_now, started, drawers, shift>>

(* vidmap maps the screen, whatever terminal calls it. *)
Vidmap ==
    /\ Runs /\ terminal_now \in Graphic
    /\ vidpage' = Screen
    /\ drawers' = drawers \cup {terminal_now}
    /\ UNCHANGED <<page, vid, display, terminal_now, started, shift, out, count, stray>>

(* A program writes to the page that vidmap gave it (mp1_poke of fish). *)
Draw ==
    /\ Runs /\ terminal_now \in drawers
    /\ Output(terminal_now, vidpage)
    /\ UNCHANGED <<maps, display, terminal_now, started, drawers, shift>>

PlainNext == (terminal_now + 1) % NumTerm                         \* mutant
(***************************************************************************)
(* The timer maps the page of the terminal it schedules, if there is       *)
(* another than the running one.                                           *)
(***************************************************************************)
Successor ==
    LET after(n) == (terminal_now + n) % NumTerm
    IN  after(CHOOSE n \in 1 .. NumTerm : /\ after(n) \in started
                                          /\ \A m \in 1 .. n - 1 : after(m) \notin started)

MapsUntouched(next) == vid                                        \* mutant
Scheduled(next) == PageOf(next)

Rotate ==
    /\ Successor # terminal_now
    /\ terminal_now' = Successor
    /\ vid' = Scheduled(Successor) /\ vidpage' = Scheduled(Successor)
    /\ Interrupt
    /\ UNCHANGED <<page, display, started, drawers, out, count, stray>>

(***************************************************************************)
(* The keyboard handler maps the screen for its echo.  After a letter it   *)
(* maps the page of the running terminal if that is not displayed, and so  *)
(* it does after a key that prints nothing: one without a letter, or any   *)
(* when the line is full.  After a line from the history or from the       *)
(* completion it maps the page of the running terminal in any case, also   *)
(* when the line was empty.  A completion that cannot read the directory   *)
(* says so through whatever is mapped.                                     *)
(***************************************************************************)
AfterEcho == PageOf(terminal_now)

Letter ==
    /\ Output(display, Screen)
    /\ vid' = AfterEcho
    /\ Interrupt
    /\ UNCHANGED <<vidpage, display, terminal_now, started, drawers>>

NoLetter ==
    /\ vid' = AfterEcho
    /\ Interrupt
    /\ UNCHANGED <<page, vidpage, display, terminal_now, started, drawers, out, count, stray>>

Recall ==
    /\ Output(display, Screen)
    /\ vid' = terminal_now
    /\ Interrupt
    /\ UNCHANGED <<vidpage, display, terminal_now, started, drawers>>

RecallNothing ==
    /\ vid' = terminal_now
    /\ Interrupt
    /\ UNCHANGED <<page, vidpage, display, terminal_now, started, drawers, out, count, stray>>

TabFails ==
    /\ Output(display, vid)
    /\ Interrupt
    /\ UNCHANGED <<maps, display, terminal_now, started, drawers>>

(* Control and l: flush_screen comes before the screen is mapped, and the   *)
(* letter is printed on it, unless Alt is held as well.                     *)
Flushed == IF vid = Screen THEN stray ELSE stray \cup page[Screen] \cup page[vid]

ControlL ==
    /\ count < MaxOut
    /\ LET echo == <<display, count>> IN
       /\ page' = [[page EXCEPT ![vid] = {}] EXCEPT ![Screen] = @ \cup {echo}]
       /\ out' = [out EXCEPT ![display] = {echo}]
    /\ count' = count + 1
    /\ stray' = Flushed
    /\ vid' = AfterEcho
    /\ Interrupt
    /\ UNCHANGED <<vidpage, display, terminal_now, started, drawers>>

AltControlL ==
    /\ page' = [page EXCEPT ![vid] = {}]
    /\ out' = [out EXCEPT ![display] = {}]
    /\ stray' = Flushed
    /\ Interrupt
    /\ UNCHANGED <<maps, display, terminal_now, started, drawers, count>>

(***************************************************************************)
(* terminal_shift saves the screen in the page of its terminal, names the  *)
(* new one and copies its page to what is mapped, then.  terminal_store    *)
(* ends with sti: the switch can be interrupted before it has named the    *)
(* new terminal and before the copy.                                       *)
(***************************************************************************)
NotSaved == page                                                  \* mutant
SavedScreen == [page EXCEPT ![display] = page[Screen]]

ShiftBegin(t) ==
    /\ shift = NoShift /\ t # display
    /\ vid' = Screen
    /\ page' = SavedScreen
    /\ shift' = [pc |-> "saved", on |-> terminal_now, from |-> display, to |-> t, torn |-> FALSE]
    /\ UNCHANGED <<vidpage, display, terminal_now, started, drawers, out, count, stray>>

Continues(pc) == shift.pc = pc /\ terminal_now = shift.on

(* What was printed or cleared since the screen was saved is not in its copy. *)
ShiftName ==
    /\ Continues("saved")
    /\ display' = shift.to
    /\ shift' = [shift EXCEPT !.pc = "named"]
    /\ stray' = IF shift.torn THEN stray \cup page[Screen] \cup page[display] ELSE stray
    /\ UNCHANGED <<page, maps, terminal_now, started, drawers, out, count>>

(* After a tick the outputs on the pages that are copied are anywhere.      *)
Loaded(p) == IF shift.torn THEN stray \cup page[Screen] \cup page[vid] \cup p ELSE stray

ShiftLoad ==
    /\ Continues("named") /\ display \in started
    /\ page' = [page EXCEPT ![vid] = page[display]]
    /\ vid' = terminal_now
    /\ shift' = NoShift
    /\ stray' = Loaded(page[display])
    /\ UNCHANGED <<vidpage, display, terminal_now, started, drawers, out, count>>

(* A terminal without a process is cleared and given a shell.  If all       *)
(* process numbers are in use, the terminal that was displayed is again.    *)
ShiftStart ==
    /\ Continues("named") /\ display \notin started
    /\ page' = [page EXCEPT ![vid] = {}]
    /\ started' = started \cup {display}
    /\ terminal_now' = display
    /\ shift' = NoShift
    /\ stray' = Loaded({})
    /\ UNCHANGED <<maps, display, drawers, out, count>>

ShiftRefused ==
    /\ Continues("named") /\ display \notin started
    /\ display' = shift.from
    /\ page' = [page EXCEPT ![vid] = page[shift.from]]
    /\ vid' = terminal_now
    /\ shift' = NoShift
    /\ stray' = Loaded(page[shift.from])
    /\ UNCHANGED <<vidpage, terminal_now, started, drawers, out, count>>

ShiftEnd == ShiftLoad \/ ShiftStart \/ ShiftRefused

Next ==
    \/ Write \/ Vidmap \/ Draw \/ Rotate
    \/ Letter \/ NoLetter \/ Recall \/ RecallNothing \/ TabFails \/ ControlL \/ AltControlL
    \/ \E t \in Terminal : ShiftBegin(t)
    \/ ShiftName \/ ShiftEnd

(***************************************************************************)
(* The timer goes on, and not all its ticks fall into a switch: that is    *)
(* some copying of pages, and keys are not pressed in step with the timer  *)
(* (else refused switches could undo for ever what the ticks repair).  The *)
(* process that switches terminals is scheduled again and again.           *)
(***************************************************************************)
RotateBetween == shift = NoShift /\ Rotate

Spec == Init /\ [][Next]_vars
FairSpec ==
    /\ Spec
    /\ WF_vars(Rotate) /\ SF_vars(RotateBetween)
    /\ SF_vars(ShiftName) /\ SF_vars(ShiftEnd)

-----------------------------------------------------------------------------
TypeOK ==
    /\ page \in [{Screen} \cup Terminal -> SUBSET (Terminal \X Nat)]
    /\ {vid, vidpage} \subseteq {Screen} \cup Terminal
    /\ {display, terminal_now} \subseteq Terminal
    /\ terminal_now \in started /\ started \subseteq Terminal /\ drawers \subseteq Graphic
    /\ shift \in {NoShift} \cup
         [pc : {"saved", "named"}, on : Terminal, from : Terminal, to : Terminal, torn : BOOLEAN]
    /\ out \in [Terminal -> SUBSET (Terminal \X Nat)] /\ count \in Nat
    /\ stray \subseteq Terminal \X Nat

(***************************************************************************)
(* Output goes astray in four ways only: it is written while the map is not *)
(* that of its terminal, drawn through the page of vidmap at another       *)
(* terminal, cleared by a Control and l that meets the map of another      *)
(* terminal, or copied, or printed and not copied any more, by a switch    *)
(* that a tick or a key has interrupted.  Of all                           *)
(* other output, a terminal shows what was written to it since it was      *)
(* cleared, all of it, and nothing that another terminal has written.      *)
(***************************************************************************)
ShowsItsOutput ==
    shift = NoShift => \A t \in started :
        /\ page[PageOf(t)] \subseteq out[t] \cup stray
        /\ out[t] \subseteq page[PageOf(t)] \cup stray

(* As soon as two terminals are used, the map is right again and again,     *)
(* whatever was pressed.                                                   *)
MapHeals ==
    [](Cardinality(started) > 1 => <>(shift = NoShift /\ vid = PageOf(terminal_now)))
=============================================================================
