# Penguin OS in TLA+

Penguin OS (`src/student-distrib`) is a small 32-bit kernel for one processor:
three terminals on one keyboard and one screen, up to six processes scheduled
by the timer, a file system in memory, a real-time clock device and ten system
calls.  There is no lock in it.  What keeps its tables consistent is when
interrupts are on and off, and most of the code is written as if they were off.
These modules model the kernel's control flow at that granularity, check it
with TLC on small instances, and prove what matters most with TLAPS for all values of
the constants: the process layer and the lines typed, and that they implement simple abstract machines, the
interrupt handlers, the video pages, the clock, the file system, and the
functions everything is copied, split and printed with.

Paths below are relative to `src/student-distrib`.

## The system

| Component | Code | State | Operations | Talks to |
|---|---|---|---|---|
| Processes | `systemcall.c`, `kernel.c` | `id_array`, `pcb_array`, `parent_array`, the PCBs, TSS `esp0`, the 128 MB page | `execute`, `halt`, `getargs`, the system call table | file system (loads the program), terminals (a PCB per terminal), scheduler (saved `esp`, `ebp`) |
| Scheduler | `pit.c` | `terminal_now`, `pcb->esp`, `pcb->ebp` | `pit_handler` | every process; the video maps |
| Exceptions | `idt.c`, `exception_wrap.S` | none | `exception_handler` | ends a program through `halt` |
| Terminals | `terminal.c` | `terminal_t` records, `cur_display_terminal_id`, history (`command_list`, `command_total`, `command_count`) | `terminal_read`, `terminal_write`, `terminal_shift`, `terminal_store`, `terminal_load` | keyboard buffer, scheduler, `execute`, video maps, cursor |
| Keyboard | `keyboard.c` | `keyboard_buffer`, `kb_buf_idx`, modifier flags | `keyboard_handler` | terminals; opens and reads the directory for TAB |
| Video maps | `paging.c`, `pit.c`, `terminal.c`, `keyboard.c`, `vidmap` | `page_table_vid`, `page_table_vidpage`, a page behind each terminal | map, copy, clear | whoever prints |
| Console | `lib.c` | `screen_x`, `screen_y`, `enter_or_overflow` | `putc_modf`, `putc_backstage`, `newline`, `flush_screen` | terminals keep a cursor each |
| File system | `filesys.c` | boot block (directory), inodes, blocks, `Free_list`, `Free_inode_list` | read, write, create, remove, list | descriptors |
| Descriptors | `systemcall.c` | `file_array` of every PCB | `open`, `close`, `read`, `write`, `remove` | file system, RTC, terminals |
| RTC | `rtc.c` | `rtc_ct`, `counter`, `rtc_flg`, shared by all | `rtc_handler`, `rtc_open`, `rtc_read`, `rtc_write` | descriptors |
| Interrupts | `i8259.c`, `idt.c`, `*.S` | masks, IDT | `enable_irq`, `send_eoi`, entry code | all handlers |
| Boot | `kernel.c`, `boot.S` | how far `entry` has come, the interrupt flag | `entry` | initialises all, and is interrupted while it does |
| Command line | `systemcall.c`, `../syscalls/ece391shell.c` | the line, `pcb->arg`, the arrays on the stack of `execute` | the loop of the shell, the first part of `execute`, `getargs` | processes, terminals |
| Library | `lib.c` | the memory given to it | `memcpy`, `memset`, `memmove`, `strncpy`, `strlen`, `itoa`, `strrev`, `printf` | everything |
| Memory map | `paging.c`, `x86_desc.*` | page directory | run once | all |

What interacts, and is hard to test:

* **A tick can come wherever interrupts are on**, and they are on in more places
  than it seems: `read` and `write` execute `sti` at once (`systemcall.c:490`,
  `:536`), `terminal_store` and `terminal_load` end with one in the middle of a
  switch (`terminal.c:325`, `:342`), `pit_handler` executes one before it
  exchanges the stacks (`pit.c:64`), `execute` before its `iret`
  (`systemcall.c:236`), `exception_handler` before `halt` (`idt.c:169`).
* **Two notions of "current terminal".**  `terminal_now` is the one that runs,
  `cur_display_terminal_id` the one that is shown.  `execute` files the child
  under the second, everything else under the first.
* **One buffer, three lines.**  The keyboard buffer is of the displayed
  terminal, a reader polls it, and a line stays in it until it is read.
* **One screen, four pages, two maps**, pointed by the timer, by the keyboard
  handler for its echo, by the switch and by `vidmap`, each with its own rule
  for putting them back.
* **Shared counters**: the two free lists, the number of directory entries, and
  the flag and the divider of the RTC are used with interrupts on by the
  processes of all terminals.
* **Arrays without bounds checks**: the history, the buffers of the completion.
* **The boot is interrupted**: `terminal_init` calls `terminal_store`, and with its
  `sti` interrupts are on long before `entry` means them to be (`kernel.c:162`);
  handlers meet what is initialised so far, and the timer a table of processes
  without one.
* **Nothing blocks**: all waiting is polling, so that progress depends on the
  rotation of the timer.

What makes each component correct:

* *processes*: the PCB found is that of the process that runs; a process that is
  off the processor has its own context saved; `halt` comes back in the
  `execute` that launched; no id leaks or is shared; every terminal runs again
  and again and every command is answered;
* *lines*: what the screen shows is what the buffer holds; a read returns the
  line entered at its terminal, once; the history is those lines; arrays are
  not left;
* *display*: output appears at its terminal and nowhere else, none is lost, and
  maps that are wrong are put right;
* *console*: all is printed on the screen, the letters typed side by side until something
  else is printed behind them, BACKSPACE erases the last;
* *files*: files share neither blocks nor inodes; a write changes one file and
  stores what it was given; a read returns it; a listing misses nothing; calls
  come back;
* *RTC*: a read waits for a tick and is woken by it; the counter neither stops
  nor wraps;
* *interrupts and boot*: a handler acknowledges its own request and no other; every
  request is taken; none is taken before its handler has what it uses; the first
  shell is reached;
* *command line*: the program is told the argument that was typed, and no byte of
  anything else;
* *library*: memory is changed as asked and nowhere else; a number printed is the
  number given.

## Modules

| Module | Models | Composes or refines |
|---|---|---|
| `Process` | `execute`, `halt`, `pit_handler`, the scheduling part of `terminal_shift`, the way from an exception into `halt` | |
| `Terminals` | abstract: one stack of processes for each terminal, and a rotation | implemented by `Process` (`MCProcess`) |
| `ProcessInv` | the inductive invariant of `Process` | |
| `ProcessProofs` | theorems about `Process`, and the proof that it implements `Terminals` | `MCProcess` |
| `FileSys` | `filesys.c` and the descriptors of `systemcall.c` | |
| `MCFileList` | adds to `FileSys` what a process that lists the directory has seen | |
| `FileSysProofs` | theorems about `FileSys` and `MCFileList` | |
| `Rtc` | `rtc.c` | |
| `Line` | `keyboard_handler`, `terminal_read`, the line part of `terminal_shift` | |
| `Editors` | abstract: a line editor, a place for one line entered and a history for each terminal | implemented by `Line` (`MCLine`) |
| `LineProofs` | theorems about `Line`, and the proof that it implements `Editors` | `MCLine` |
| `Display` | the two video maps and the pages | |
| `Cursor` | `putc_modf`, `putc_backstage`, `newline`, `flush_screen`, the saved cursors, the echo of the keyboard, the new line before a prompt in the background | |
| `Interrupts` | `entry`, the controllers, the gates, and where the three handlers acknowledge and turn interrupts off and on | |
| `Command` | the loop of the shell, the split of its line in `execute`, the `arg` of the PCB, `getargs` | |
| `Memory` | `memcpy`, `memset`, `memmove`, one action for each iteration of a loop | |
| `Numbers` | `itoa`, `strrev` and the number conversions of `printf`, one action for each iteration | |
| `Library` | nothing of its own: a behaviour is one of `Memory`, of `Command` or of `Numbers` | `Memory`, `Command`, `Numbers` |
| `LibraryProofs` | theorems about `Memory`, `Command` and `Numbers` | |
| `RtcProofs`, `DisplayProofs`, `InterruptsProofs`, `CursorProofs` | theorems | |
| `MCProcess`, `MCFileSys`, `MCFileList`, `MCRtc`, `MCLine`, `MCLibrary` | instances for TLC | |

Each module is one view of the same machine: the timer and the switch between
terminals occur in `Process`, `Line`, `Display` and `Cursor` with the part of
their effect that the module is about.  Variables have the names they have in
the code.  Terminals count from 0 (`display` is `cur_display_terminal_id - 1`).
Definitions whose comment says `mutant` are wrong variants of the definition
below them; nothing uses them, and each breaks a property when it is put in.

**Granularity.**  A path of the kernel that runs with interrupts off is one
action, with all the calls it makes.  Where the code turns interrupts on before
it is done, the action is split:

* `Process` keeps the interrupted kernel paths as frames on the stack of the
  process they run on (`switch`, `shift`, `open`, `launch`, `halt`, `fault`),
  and the constant `Windows` says in which of them an interrupt may arrive.  A
  saved context names the execution it resumes and the depth of its stack;
  loading one whose stack has since been used by another makes `cpu` `NoProc`.
* `FileSys` splits `read` and `write` at the shared counters, where a `++` or `--` is a
  load and a store (`reg` is the register), at every block taken and at every byte read.
  Three things are one step although interrupts are on: the bytes of one block that a
  write fills, its test of the offset with the store of the length, and the look of
  `dir_read` at the count.  In the runs one process at a time is inside a write, and nothing is
  promised to who reads a file meanwhile, so that no property could tell.
* `Process`, `Line` and `Display` split `terminal_shift` after `terminal_store` and, in
  it, at the line that names the new terminal (`terminal.c:246`); `Line` splits TAB, which reads
  the directory with interrupts on.  A switch to a new terminal that is refused because
  all ids are taken (`terminal.c:269`) is a step of `Process` and of `Display`; to the line
  and to the cursor, which it brings back as they were stored, nothing has happened.
* `Cursor` takes a character as a step, and a switch between terminals as one.  UP and
  DOWN are as many BACKSPACEs as the line has letters and then letters, a TAB that
  completes is letters.  `putc_modf` is one step also where a system call prints with
  interrupts on.
* `Interrupts` splits the handlers wherever they can be interrupted: at entry (the
  gates of `idt.c:106` to `:115` are marked as interrupts by their comments, but their
  type is that of a trap gate, which leaves the flag on), between the end of
  interrupt and the `cli` of `pit_handler`, in the read of the directory, inside a
  switch, and between `sti` and the end of interrupt in each of the eleven ways out
  of `keyboard_handler` (`Exits`).  A TAB before the first `execute` looks for a free
  descriptor in a PCB that nothing has written yet: both outcomes are modelled.  It justifies what the other modules assume of the handlers:
  none is entered in the middle of itself, except the keyboard handler inside a switch.
* `Memory` and `Numbers` are the loops of the library functions as they are, with a
  register or a pointer for each variable of the state: they are sequential, and what
  can go wrong is a bound, a direction or a byte too many.  `Command` takes the
  parsing of `execute` and a call of `getargs` as one step each; it is about what
  memory holds from one command to the next.
* In `Rtc` everything but the polling loop runs with interrupts off or is one
  store.

**Data.**  A name is a model value, a byte of a file is who wrote it and where
in the buffer (in `Memory`, the address it was at), an output is its terminal and a number; a key stands for what
the scancode tables make of it.  Words that wrap are taken modulo `Word` in
`FileSys` (a position after a failed write) and `2^Width` in `Rtc`.

**Histories** (`typed`, `sent`, `got`, `out`, `count`, `stray`, `ticked`, `last`,
`cells`, `seen`, `due`) are not in the code; no guard reads them except the
bounds.  (`cells`, in `Cursor`, holds where the letters typed at a terminal are, since something
else was last printed on its screen behind them.)  Once `Line` has written outside an array (`wild`), it stops: nothing is
known of what the kernel does then.

## Runs

All runs take less than four minutes with two workers.

| Run | Instance | Shows | Distinct states |
|---|---|---|---|
| `Process_quiet` | 4 ids, 3 terminals | processes, saved contexts, paging and TSS consistent; ids accounted for; `halt` returns to its caller, and the parent it is told is the one that waits; `Terminals` implemented; every terminal runs | 15 904 |
| `Process_tick_in_switch` | same, interrupts after the `sti` of `pit_handler` | **violated** `NeverLost` | |
| `FileSys_serial` | 2 processes, 3 inodes, 3 blocks of 2 bytes, writes of 1 and 3 bytes | calls that do not overlap: neither blocks nor inodes shared, contents stored, read and isolated | 449 024 |
| `FileSys_shared` | one lists and reads, one creates and writes until the disk is full | listings complete, calls come back, what a write returns is stored although the disk is full | 81 437 |
| `FileSys_second_write` | as `FileSys_serial` | **violated** `PositionFollows` | |
| `Rtc_shared` | 3 processes, words of 5 bits, rates valid and not | counter sound, reads wait and are woken | 46 599 |
| `Line_edit` | 2 terminals, buffer of 3, switches in the middle of lines and while a line waits | screen and buffer agree, lines delivered, arrays not left | 5 588 976 |
| `Line_recall` | 2 terminals, history, TAB, switches while a line waits | history right, readers served; `Editors` implemented | 259 944 |
| `Display_maps` | 3 terminals, one of them draws, switches interrupted and refused | a terminal shows what it printed, and nothing else, unless one of four faults led it astray; maps heal | 93 119 |
| `Cursor_screen` | 2 terminals, 2 rows of 4 cells, lines up to 5 letters, output and background prompts in the middle of a line | printing in place, letters side by side, BACKSPACE erases | 1 277 912 |
| `Interrupts_nested` | 2 terminals, 2 handlers on a stack, from the first step of `entry` | a request is in service as long as one handler has not acknowledged it; every request is taken, and none before its handler has what it uses; the first shell runs | 12 862 |
| `Library` | lines of 7 characters, arguments of 2; 14 bytes of memory; words of 8 bits | programs are told the argument typed; memory changed as asked; numbers printed | 55 552 |

**Bounds.**  `NumProc = 4`: three first shells and one child make every id
table full, so that refusals, reuse of an id and the revert of a switch occur;
the theorems need no bound.  (With the six ids of the code a switch finds none only
after shells have started shells, which this run leaves out.)  Two writers and three blocks of two bytes: a write
of 3 bytes crosses a block border, two files exhaust the disk, a removed name
is created again.  `MaxShort` ends the runs after one failed allocation (the
free lists' lengths go down for ever), `MaxPos` bounds positions.  RTC: five
bits let the counter wrap within 32 steps, were it passed over; the rates hold
valid ones, too high ones, several bits, zero and negative ones.  Line: a
buffer of three holds a full line and the newline; two lines are enough for one
to overtake or overwrite the other (`MaxLines`, `MaxTyped`, `MaxEntered`).
`Line_recall` lets one letter be typed: longer lines come from TAB, which the history keeps and
UP and DOWN bring back.
Display: one output (`MaxOut`) is enough, as no step asks which outputs there are and each is
copied, cleared or led astray without regard to others: what holds of one at every place holds of all,
and the theorem is for any number.
Interrupts: with two handlers on a
stack each of the three is met by each other one, and two terminals let a tick
take the processor from any of them.
Library: with `ArgSize` 2 an argument fits, just fits and is cut, `MaxLine` 7 leaves room for blanks at all
four places and for quotation marks; lengths up to 14 reach
every alignment at both ends and two words between them; 8 bits hold every
number of one to three decimal digits and the smallest integer.
Cursor: the screen scrolls, lines wrap, and lines are longer than a row
(`MaxTyped`); output comes at any place in a line.

**Fairness.**  The timer's request stays latched while interrupts are off and
has the highest priority, so a tick that can be taken again and again is taken:
strong fairness of the tick in `Process`, where a path with interrupts off
disables it, weak fairness in the other modules, where it is always enabled.
`Display` also assumes that ticks do not all fall into switches (`RotateBetween`): a switch is
some copying of pages, and a user who pressed Alt+Fn in step with the timer, each
switch refused, could undo for ever what the ticks repair.
A kernel path runs on (weak, or strong where it stands on the stack of a process that
is scheduled and descheduled).  A process that is scheduled again and again
while the condition it polls for holds sees it: a slice is 12 ms, a turn of the
loop far less (strong fairness of `ReadEnd` in `Rtc` and `Line`).  In `Interrupts`
all three requests are taken in the end: each handler runs for microseconds, and
the shortest interval between requests is a millisecond; `entry` goes on whenever
no handler stands on its stack.  In `FileSys`
a process inside a call goes on, which is what `EveryTerminalRuns` of `Process`
provides.  No fairness is assumed of users and programs: they need not type,
read or halt.

## What the passing runs take for granted, and what happens otherwise

The code does not keep its promises everywhere.  Two disagreements have runs of their own (marked
violated above).  The others are excluded from the passing runs by a constant or
by the form of the property; setting the constant, or checking the property named, shows
the trace.

| Excluded by | Then violated | Where | What happens |
|---|---|---|---|
| `Process`: `PatientUser` | `RunningIsCurrent` | `systemcall.c:203` | Alt+Fn between ENTER and `execute`: the child is recorded on the terminal shown, and runs on another |
| `Process`: `Windows` without `"launch"` | `NeverLost` | `systemcall.c:236` | a tick before the `iret` of a shell opened by a switch saves a context on the stack of the interrupted process |
| `Process`: without `"fault"` | `WaitersHaveChild` | `idt.c:169` | an excepting program's id is free before its `halt` is through; a shell opened then takes over its PCB and stack |
| `Process`: without `"shift"`, `"open"` | `NeverLost` | `terminal.c:325` | a second switch or tick inside a switch saves contexts in the wrong PCB |
| `Process`: `Commands` without `"shell"` | `ParentIsCaller` | `systemcall.c:306` | when a command of a shell that a shell has started halts, the grandparent stays in `parent_array`: the next command has it as its parent, and its `halt` returns there |
| `FileSys`: `OpenFindsFile` not checked | itself | `systemcall.c:411` | a file that does not exist can be opened |
| `FileSys`: `Ample` | `LengthIsWritten` | `filesys.c:190` | a write on a full disk records the length asked for; the rest of the file is block 0, of another file |
| `FileSys`: `Serial` | `NoAliasing` | `filesys.c:289` | two writers take the same block |
| `FileSys`: `Serial` | `NamesDistinct`, `CreatedIsListed` | `systemcall.c:557`, `filesys.c:350` | a file is created twice; a remove during a create loses the file and brings back a stale entry |
| `Rtc`: `TickWakes` speaks of the last reader | `EveryTickWakes` | `rtc.c:145` | a reader that starts lowers the flag another has not seen |
| `Rtc`: not checked | `RateIsOwn` | `rtc.c:132` | `open` and `write` change the rate of all readers |
| `Rtc`: rates without the smallest integer | `TypeOK`, `RateChecked` | `rtc.c:128` | 0 passes the test for a power of two and the division faults; the smallest integer makes the divider 0 |
| `Line`: `Patient` | `LineDelivered`, `TypeOK` | `keyboard.c:478`, `terminal.c:93` | a letter typed before the line is read overwrites it; the next line is stored behind a zero, and the copy to the history has length -1, unsigned |
| `Line`: `Patient` | `TypeOK` | `terminal.c:266` | Alt+Fn to a new terminal while a line waits: one cell of the buffer is cleared, and the new shell reads the rest of the line as its own, behind an empty string of length 0: the copy to the history has length -1. (Switches to terminals that have a process are made while a line waits.) |
| `Line`: `Calm` | `LineDelivered` | `terminal.c:325` | a tick inside a switch lets a process read a line twice, or another's |
| `Line_recall`: keys without BACKSPACE, clean switches | `HistoryKept` | `terminal.c:70` | what stands behind the newline in the buffer becomes part of the history |
| `Line`: `MaxLines` up to `MaxHist` | `HistoryKept` | `terminal.c:85` | the 51st line of a terminal goes to the history of the next |
| `Line`: `MaxTyped` in `Line_recall` | `TypeOK` | `keyboard.c:290` | a completion is longer than the buffer |
| `Line`: names shorter than `NameSize` (`NamesFit`) | `TypeOK` | `keyboard.c:267` | a directory entry with a name of 32 characters: a zero is stored behind `buf`, `temp_buf2` and `temp_buf` |
| `Line`: `MaxEntered` below the buffer | `TypeOK` | `keyboard.c:484` | a full buffer has no zero, and `strlen` runs on |
| `Display`: `stray` | `ShowsItsOutput` | `terminal.c:306`, `keyboard.c:329`, `keyboard.c:420`, `systemcall.c:623`, `terminal.c:325` | output written under a map that a switch, a recall or `vidmap` left wrong; Ctrl+L on another terminal's page; a tick in the middle of a switch, before or after the new terminal is named |
| `Cursor`: `LineInOrder` speaks of the letters typed since | itself, of the whole line | `terminal.c:123` | a shell in the background that writes its prompt prints a new line where the user is typing at the displayed terminal; output of the own process and `printf` of the kernel break the line likewise |
| `Cursor`: `Careful` | `BackspaceErases`, `TypeOK` | `lib.c:312`, `lib.c:527` | BACKSPACE over the border of a row leaves the cursor at column 80; after Ctrl+L it may go to row -1 |
| `Interrupts`: `Shift` only when `Booted` | `TypeOK` | `terminal.c:229` | Alt+Fn before the first prompt opens a shell on the stack of `entry`, which then goes on under the wrong terminal |
| `Command`: `Fits` | (not modelled) | `systemcall.c:134`, `systemcall.c:116` | an argument that is a single quotation mark: -1 bytes are copied to the array and a zero stored in front of it; a name of 32 bytes or more runs over `file_name` |

Noticed while reading, and of no effect on the properties: `pit_init` writes the low four
bits of the divisor where it means eight (`pit.c:9`); `memmove` downwards
leaves the direction flag set (`lib.c:755`), which the other functions clear for themselves;
`getargs` prints a message for a negative size and goes on (`systemcall.c:593`).

## Proofs

`ProcessProofs` proves `TypeCorrect`, `Spec => []TypeOK`, for all values of the
constants, every window and every user: the tables keep their types even where
the behaviour is wrong.  It then proves, under

    Quiet == Windows = {} /\ PatientUser /\ Commands \subseteq {"program", "bad"}

(no interrupt inside a kernel path, no Alt+Fn between ENTER and `execute`, no
shell started by a shell; each of the three is necessary, see the table above),
for any number of ids and terminals:
`CurrentIsRunning`, `SavedBeforeLeaving`, `NobodyWaitsInVain`,
`ParentWaits`, `NoIdLost` and `HaltReturnsToCaller`.

None of these is inductive by itself.  That the PCB found is that of the running
process needs to be known of every terminal that is off the processor as well,
since a tick makes one of them the running one; that needs its saved context to
be its own, which a new process could have overwritten unless its id was free;
and that it was free needs the account of the ids, which `halt` changes in two
steps.  `QuietInv` (`ProcessInv.tla`) is the conjunction of these facts:

* `OnePath`: one kernel path at most is under way, on the running stack;
* `ShallowTrees`: a terminal has a first shell and at most one child, and
  terminals share no process;
* `NoLeak`: no id is taken but by these;
* `Roles`: first shells type and wait, children run;
* `Resumable`: the processes that do not run have their own context saved;
* `MidPath`: what is known in the middle of a switch of stacks, a switch of
  terminals and a `halt`.

`QuietInvariant` proves it of `Spec`, with a step for each action and in it one for
each conjunct the action can disturb; the other theorems follow from it.

`ProcessProofs` also proves, under `Quiet`, that `Process` implements `Terminals`
(`ProcessesImplementTerminals`).  The stack of a terminal is read off
`pcb_array` and `parent_id`.  Every step is matched with one of `Terminals` or none:
`Execute` is `Start`, the opening of a terminal is `Open`, the first step of a `halt`
is `Finish` (its return changes no table), the choice of `pit_handler` is `Schedule`;
that the parent read off the PCB is the one that waits is `ShallowTrees`.

`RtcProofs`: `LastReaderWakes` and `ReadersWait` for any number of processes.  The
invariant `FlagInv` says that the flag is up only when every reader has seen a tick,
and that the one that began last has the flag up if it has seen one.  `CounterInRange`
holds for every set of rates of which `rtc_write` accepts no negative one: its test lets
the smallest integer pass.  `WordAssumption` states two facts about powers of two that
the provers do not know.

`DisplayProofs`: `TypeCorrect` and `TerminalsShowTheirOutput` for any number of
terminals and outputs.  What has to be added for induction is what the pages hold in the
middle of a switch, before and after the new terminal is named: that it leads away from a terminal
with a process (`Switches`), that the terminals which are not displayed show their output or
have none (`NotInvolved`, `NotYet`), that the output of the displayed one is on its page or,
printed meanwhile, on the screen (`Loading`), and that a switch nothing has interrupted has
the page of its terminal complete and the map on the screen (`Untorn`).

`InterruptsProofs`: `TypeCorrect`, `OneHandlerInService` and `HandlersFindTheirParts`,
for any number of terminals and any depth of nesting.  The inductive invariant adds to the types
that during the boot the first terminal is the only one (`Boots`; otherwise `terminal_init`
could withdraw the terminal that runs), that a line is unmasked by the initialisation of its
device only (`Devices`), and that each request in service has exactly one unfinished
handler (`Service`), which needs that a request is not taken while one of its own is in service
(`TakenOnce`, from the priorities and, for the clock, the cascade).  `TypeOK` of `Interrupts`
is proved only; no run lists it.

`LibraryProofs`: `MemoryCorrect`, `ProgramsGetTheirArgument` and `NumbersArePrinted`.

* `MemoryCorrect`, for every size of the memory, length, alignment and overlap.  The
  invariant relates the registers of each loop to the bytes that are left (`Count`) and says
  which part of the target has been filled (`Filled`): a byte that is still to be read is
  not in it, which is what the direction of `memmove` is for.
* `ProgramsGetTheirArgument`, for lines of any length over any characters, any set of
  programs and arrays of any size.  The model says where the loops of `execute` stop by a
  choice; that there is such a place, and only one, is `BlanksSkipped` and `WordSkipped`.
  `WordHolds` and `EchoIs` say what the two ways of parsing leave in `arg`, a word or the
  text between quotation marks; `ArgHolds`, that the PCB gets it by `strncpy` and `strlen`,
  also when it is cut and has no zero behind it.  The invariant `CommandInv` is that the PCB
  holds the argument of the line that runs (`Launched`) and that `getargs` has told
  this and nothing else (`Told`); the line was named and fits (`Fits`, see the table above).
* `NumbersArePrinted`, for words of any number of hexadecimal digits.  What a text denotes
  is defined by recursion.  While `itoa` takes a number apart, the invariant `NumberInv`
  has the quotients it has had as a witness (`Quotients`): digit `j` is the remainder of
  quotient `j` (`Taking`), `strrev` has exchanged `d` of them at both ends (`Turning`), and
  `%#x` has zeros in front of them (`Filling`).  Read from the other end, the quotients are
  the values of the beginnings of the text, so they solve the recursion of `Denotes`
  (`DigitsDenote`), which has one solution (`Denoted`).  That the text stays within
  its buffer is needed too: a division by 10 takes three bits off the number at least, one
  by 16 four (`BitsOff`, `Fit`, `Room`).  `NumbersAssumption` states what a power of two
  is, which the provers do not know, and that a word has whole hexadecimal digits.

Where these proofs need induction over the characters or the digits, they take the least
place at which something would go wrong (`Least`, from the theorem of the library that `<` is
well-founded on the naturals).

`CursorProofs`: `OnTheScreen`, `LettersSideBySide` and `LastLetterErased`, for a screen
of any size, any number of terminals and lines of any length, under `Careful`
(BACKSPACE is pressed within a row, see the table above).  `CursorInv` says of each
terminal, whether its cursor is on the screen or saved, that the letters typed there since the
last output are consecutive and that the cursor stands behind the last: an echo that
scrolls moves both up by a row, a switch exchanges the two copies of the cursor, the output of
another terminal moves neither, and what moves one without the other (the new line before a
prompt in the background, a `printf` of the kernel) ends the run of letters that is spoken of.

`FileSysProofs`: seven theorems, for any number of processes, names, files, inodes and
blocks, blocks and inodes of any size and calls of any length.  They hold in these
environments, each no narrower than the faults in the table above make necessary:

* `Orderly`: calls do not overlap (`Serial`), or one process at most writes and
  the others do not remove.  The counters of the free lists and of the directory are read
  and written back in two steps, and a second writer in between takes what the first took;
* `Ample`: no write is started that the free list has no blocks for.  A write that finds the
  list empty records the length it was asked for, and the rest of the file is block 0;
* `OnlyCreates` (for the listing): nobody removes files, and a process lists through one
  descriptor.

| Theorem | Property | Environment |
|---|---|---|
| `TablesTyped` | `TypeOK` | `Orderly` |
| `WhatWriteReturnsIsStored` | `CountIsStored` | `Orderly` |
| `NoSharing` | `NoAliasing` | `Orderly`, `Ample` |
| `WritesKeepApart` | `Isolation` | `Orderly`, `Ample` |
| `WholeWriteIsStored` | `WriteStores` | `Orderly`, `Ample` |
| `ReadReturnsTheFile` | `ReadsFile` | `Serial` |
| `ListingIsComplete` | `ListingComplete` | `Orderly`, `OnlyCreates` |

The proofs rest on a tower of invariants, each inductive given those below it:

* `Basics`: the types; that one process at most is inside a write (`Exclusive`); what each
  process knows of its own call, whatever the others do (`Private`); and, for the one that
  writes, how its registers stand to the counters in memory between a load and a store, and
  how far the copying has got (`Working`: the index is at the block that the count of
  bytes has reached);
* `Fresh`: the blocks this write has taken are different ones, and hold the part of the
  buffer that has been copied;
* `RoomLeft` and `Apart`: while a write is under way the free list has a block for each
  index still to be filled; the blocks of the files, those of the write under way and those
  still in the list are three disjoint sets.  In the middle of a write the length already
  counts blocks that are not there yet, which is why the property is only
  about quiescent states and the invariant about all;
* `InodesApart`: the entries of the directory and the free list of inodes share none,
  also while an entry is being copied;
* `Reading`: what a read has collected is the part of the file that begins at the position;
* `Kinds` and `Listing`: a call that lists is at the position of its descriptor, and what
  it has not seen stands from there on, since creations append.

`AscendingLists` gives what they need of the free lists: `Ascending` of a finite set of
numbers lists each of them once.

`LineProofs`: six theorems, for any number of terminals and letters, lines in any number
and of any length, and buffers and rows of any size, up to the bounds that a theorem names.
They hold in the environment `Orderly` of `Line`, which its runs share: nothing is typed
and no terminal is started while a line waits at the one displayed, and no interrupt comes inside the handler (`Patient`, `Calm`), and the
keys are either those of `NoRecall` (everything but UP and DOWN) or those of `Tidy`
(no BACKSPACE, no Ctrl+L, terminals switched on an empty line): an UP after one of these
brings back a row with what stood behind the line, see the table above.  A behaviour that
leaves an array is `wild` and stops there.

| Theorem | Property | Environment |
|---|---|---|
| `EveryLineIsDelivered` | `LineDelivered` | `Orderly` |
| `TheLineIsShown` | `EditLine` | `Orderly`, without TAB |
| `TheLineIsShownUnlessWild` | `~wild => EditLine` | `Orderly` |
| `TheHistoryIsKept` | `HistoryKept` | `Orderly`, `RowEach` |
| `NoArrayIsLeft` | `TypeOK` | `Orderly`, without TAB, `ShortLines`, and `RowEach` or `RoomBehind` |
| `LinesImplementEditors` | `ImplementsEditors` | `Orderly`, and `NoRecall` or `RowEach` |

`RowEach` says that a line is shorter than a row of the history and that there are no more of
them than rows (50 and 50 in the code), `ShortLines` that it is shorter than the buffer, and
`RoomBehind`, that the copy to the history, which may be as long as the buffer, fits behind the
rows of the lines before it (true of the code up to 48 lines).

The invariant is `Sound`, of every state that is not `wild`.  It says of every terminal,
whether its buffer is the keyboard's or saved (`Good`), that the buffer up to the index is the
line on the screen, and that, if a line waits, the buffer holds it from its first cell and the
index is 0, and if none waits, there is no newline in it.  None of the properties is inductive
without the last fact: it is why a read that finds a newline finds the line
of its own terminal.  To it belong the account of the lines sent and read (`Account`: one line
at most waits), what a handler that was interrupted remembers (`Handled`), and, in `Tidy`, that
behind the line there are zeros only, so that the string that is copied to the history is
the line.  `Rows` says what the history holds cell by cell; that a new row leaves the others
is arithmetic (`RowsApart`).  `Lines` bounds the number and the length of the lines, and
`Ended` says that the last cell of every buffer is a zero.  A step that leaves
an array is one of a recall, a completion or a read (`WhoGoesWild`): for `EditLine` and
`HistoryKept`, which speak of that state too, it is shown to change nothing they are about, and
for `TypeOK` not to occur.

`LinesImplementEditors` relates `Line` to `Editors`, where every terminal has an editor of its own
and there is neither a shared buffer nor a switch with an inside.  The line of a terminal is read
off the keyboard's buffer, or off the saved one while the terminal is not shown or a switch is
under way; the line entered is what stands in that buffer up to its newline.  `Sound` makes them
what was typed and sent (`Mirror`), so that each step is matched by what it does to these: a
letter is `Type`, ENTER `Submit`, a TAB with one match `Complete` (the word copied from the buffer
is the end of the line, `WordEnds`), UP and DOWN are `Up` and `Down` (the row they load is a line
that was read, or empty while there is none, `RowIsRead`), `terminal_read` is `Take`, the step of
a switch that names the new terminal is `Show`, its other steps and the timer cannot be seen.
The step that leaves an array is `Lose`, after which `Editors` promises nothing.  `Line_recall`
checks it with switches on empty lines; the theorem has those in the middle of a line as well.

Only model-checked: the liveness properties, which are out of the reach of the prover.  Every
invariant and action property of a passing run is stated by a theorem.

## Not modelled

* the rest of the descriptor tables and the page directory except the entries that
  change: written once at boot;
* requests before `i8259_init`, which the initialisation of the controllers forgets;
  `disable_irq`, which nobody calls; the self-tests, which are not called;
* the check of the ELF header (a command succeeds or fails);
* `memset_word`, `memset_dword` and other functions of `lib.c` that nothing calls; the
  conversions of `printf` for characters and strings;
* signals: stubs;
* user programs but the loop of the shell: in the models a process may make any call;
* `src/pit.c` and `src/pit.h`, an older copy that is not built;
* colours, messages, the registers saved at an interrupt, those of the RTC and the timer chip.

## Plan

In the order of importance; those done are described above.

1. `Process`, `Terminals`, `ProcessInv`, proofs.  Done.
2. `FileSys`, `MCFileList`.  Done.
3. `Rtc`.  Done.
4. `Line`.  Done.
5. `Display`, `Cursor`.  Done.
6. `Interrupts`.  Done.
7. `Command`, `Memory`, `Numbers`.  Done.
8. Proofs of the clock, the video pages, the cursor, the interrupts, the memory functions
   and the refinement of `Terminals`.  Done.
9. Proofs of the file system and of the line.  Done.
10. Proofs of the command line and of the printed numbers.  Done.
11. `Editors`, and the proof that `Line` implements it.  Done.
12. Left: a model of what a line that does not `Fit` overwrites, which needs the layout of
    the stack that a compiler chose.

## Running

    tlc -workers 2 -config Process_quiet.cfg MCProcess
    tlc -workers 2 -config Library.cfg MCLibrary
    tlapm ProcessProofs.tla
    tlapm FileSysProofs.tla
    tlapm LineProofs.tla
    tlapm InterruptsProofs.tla
    tlapm LibraryProofs.tla

`PROJECT.json` lists the runs with their modules and configurations, the code lines behind every
definition, the hazards and the theorems.
