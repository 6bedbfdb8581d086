--------------------------- MODULE DisplayProofs ---------------------------
(***************************************************************************)
(* Proofs about Display, for any number of terminals and outputs.          *)
(***************************************************************************)
EXTENDS Display, WellFoundedInduction, TLAPS

Places == {Screen} \cup Terminal
Outputs == Terminal \X Nat

(* Screen is the number of no terminal. *)
LEMMA PageTypes ==
    /\ Screen \in Places /\ Screen \notin Terminal /\ Terminal \subseteq Places
    /\ 0 \in Terminal
    /\ display \in Terminal => \A t \in Terminal : PageOf(t) \in Places
  BY DisplayAssumption DEF Places, Screen, Terminal, PageOf

(* A set of numbers that is not empty has a least one. *)
LEMMA Least ==
    ASSUME NEW S \in SUBSET Nat, S # {}
    PROVE  \E n \in S : \A m \in S : n <= m
  <1>1. PICK n \in S : \A m \in S : ~(<<m, n>> \in OpToRel(<, Nat))
    BY NatLessThanWellFounded, WFMin
  <1>2. \A m \in S : ~(m < n)
    BY <1>1 DEF OpToRel
  <1> QED BY <1>2

(* The rotation ends at the running terminal at the latest. *)
LEMMA SuccessorStarted ==
    ASSUME terminal_now \in started, started \subseteq Terminal
    PROVE  Successor \in started
  <1> DEFINE after(n) == (terminal_now + n) % NumTerm
             Found == {n \in 1 .. NumTerm : after(n) \in started}
  <1>1. NumTerm \in Nat \ {0} /\ terminal_now \in 0 .. NumTerm - 1
    BY DisplayAssumption DEF Terminal
  <1>2. after(NumTerm) = terminal_now
    BY <1>1
  <1>3. NumTerm \in Found /\ Found \subseteq Nat
    BY <1>1, <1>2
  <1>4. PICK n \in Found : \A m \in Found : n <= m
    BY <1>3, Least
  <1> HIDE DEF after
  <1>5. n \in 1 .. NumTerm /\ after(n) \in started
    BY <1>4
  <1>6. \A m \in 1 .. n - 1 : after(m) \notin started
    BY <1>1, <1>4, <1>5
  <1> QED BY <1>5, <1>6 DEF Successor, after

-----------------------------------------------------------------------------
LEMMA TypeInit == Init => TypeOK
  BY DisplayAssumption, PageTypes DEF Init, TypeOK, NoShift, Places

LEMMA OutputType ==
    ASSUME TypeOK, NEW t \in Terminal, NEW p \in Places, Output(t, p)
    PROVE  /\ page' \in [Places -> SUBSET Outputs]
           /\ out' \in [Terminal -> SUBSET Outputs]
           /\ count' \in Nat /\ stray' \subseteq Outputs
  <1>1. <<t, count>> \in Outputs
    BY DEF TypeOK, Outputs
  <1> QED BY <1>1 DEF TypeOK, Output, Places, Outputs

Shifts == [pc : {"saved", "named"}, on : Terminal, from : Terminal, to : Terminal, torn : BOOLEAN]
Switching == shift # NoShift

(* A switch that is under way has all its fields. *)
LEMMA ShiftType ==
    ASSUME TypeOK
    PROVE  /\ Switching => shift \in Shifts
           /\ shift.pc \in {"saved", "named"} => Switching
  BY DEF TypeOK, Switching, Shifts, NoShift

(* An interrupt tears a switch that is under way, and only that. *)
LEMMA Torn ==
    ASSUME TypeOK, Interrupt
    PROVE  /\ Switching' <=> Switching
           /\ Switching => /\ shift' \in Shifts /\ shift'.torn
                           /\ shift'.pc = shift.pc /\ shift'.from = shift.from /\ shift'.to = shift.to
           /\ ~Switching => shift' = shift
  <1>1. CASE Switching
    <2>1. shift \in Shifts /\ shift' = [shift EXCEPT !.torn = TRUE]
      BY <1>1, ShiftType DEF Interrupt, Switching
    <2>2. /\ shift' \in Shifts /\ shift'.torn
          /\ shift'.pc = shift.pc /\ shift'.from = shift.from /\ shift'.to = shift.to
      BY <2>1 DEF Shifts
    <2>3. shift' # NoShift
      BY <2>2 DEF NoShift
    <2> QED BY <1>1, <2>2, <2>3 DEF Switching
  <1>2. CASE ~Switching
    <2>1. shift = NoShift /\ shift' = [shift EXCEPT !.torn = FALSE]
      BY <1>2 DEF Interrupt, Switching
    <2>2. shift' = NoShift
      BY <2>1 DEF NoShift
    <2> QED BY <1>2, <2>1, <2>2 DEF Switching
  <1> QED BY <1>1, <1>2

LEMMA InterruptType ==
    ASSUME TypeOK, Interrupt
    PROVE  shift' \in {NoShift} \cup Shifts
  BY Torn DEF TypeOK, Shifts, Switching

LEMMA TypeNext == TypeOK /\ [Next]_vars => TypeOK'
  <1> SUFFICES ASSUME TypeOK, [Next]_vars PROVE TypeOK'
    OBVIOUS
  <1> USE PageTypes DEF Places, Outputs, Shifts
  <1>a. /\ display \in Terminal /\ terminal_now \in Terminal
        /\ vid \in Places /\ vidpage \in Places /\ PageOf(terminal_now) \in Places
    BY DEF TypeOK
  <1>1. CASE Write
    BY <1>1, <1>a, OutputType DEF Write, maps, TypeOK
  <1>2. CASE Vidmap
    BY <1>2, <1>a DEF Vidmap, TypeOK
  <1>3. CASE Draw
    BY <1>3, <1>a, OutputType DEF Draw, maps, TypeOK
  <1>4. CASE Rotate
    <2>1. Successor \in started /\ PageOf(Successor) \in Places
      BY <1>a, SuccessorStarted DEF TypeOK
    <2> QED BY <1>4, <2>1, InterruptType DEF Rotate, Scheduled, TypeOK
  <1>5. CASE Letter \/ Recall \/ TabFails
    BY <1>5, <1>a, OutputType, InterruptType DEF Letter, Recall, TabFails, maps, AfterEcho, TypeOK
  <1>6. CASE ControlL
    <2>1. <<display, count>> \in Outputs
      BY <1>a DEF TypeOK
    <2>2. page' \in [Places -> SUBSET Outputs] /\ out' \in [Terminal -> SUBSET Outputs]
      BY <1>6, <2>1 DEF ControlL, TypeOK
    <2>3. stray' \subseteq Outputs
      BY <1>6, <1>a DEF ControlL, Flushed, TypeOK
    <2> QED BY <1>6, <1>a, <2>2, <2>3, InterruptType DEF ControlL, AfterEcho, TypeOK
  <1>7. CASE AltControlL
    <2>1. stray' \subseteq Outputs
      BY <1>7, <1>a DEF AltControlL, Flushed, TypeOK
    <2> QED BY <1>7, <1>a, <2>1, InterruptType DEF AltControlL, maps, TypeOK
  <1>8. ASSUME NEW t \in Terminal, ShiftBegin(t) PROVE TypeOK'
    BY <1>8, <1>a DEF ShiftBegin, SavedScreen, TypeOK
  <1>9. CASE ShiftLoad
    <2>1. stray' \subseteq Outputs
      BY <1>9, <1>a DEF ShiftLoad, Loaded, TypeOK
    <2> QED BY <1>9, <1>a, <2>1 DEF ShiftLoad, TypeOK
  <1>10. CASE ShiftStart
    <2>1. stray' \subseteq Outputs
      BY <1>10, <1>a DEF ShiftStart, Loaded, TypeOK
    <2> QED BY <1>10, <1>a, <2>1 DEF ShiftStart, maps, TypeOK
  <1>11. CASE UNCHANGED vars
    BY <1>11 DEF vars, maps, TypeOK
  <1>12. CASE NoLetter \/ RecallNothing
    BY <1>12, <1>a, InterruptType DEF NoLetter, RecallNothing, AfterEcho, TypeOK
  <1>13. CASE ShiftName
    <2>1. shift \in Shifts
      BY <1>13, ShiftType DEF ShiftName, Continues
    <2>2. display' \in Terminal /\ shift' \in Shifts
      BY <1>13, <2>1 DEF ShiftName
    <2>3. stray' \subseteq Outputs
      BY <1>13, <1>a DEF ShiftName, TypeOK
    <2> QED BY <1>13, <1>a, <2>2, <2>3 DEF ShiftName, maps, TypeOK
  <1>14. CASE ShiftRefused
    <2>1. shift \in Shifts
      BY <1>14, ShiftType DEF ShiftRefused, Continues
    <2>2. shift.from \in Terminal /\ page[shift.from] \in SUBSET Outputs
      BY <1>a, <2>1 DEF TypeOK
    <2>3. stray' \subseteq Outputs
      BY <1>14, <1>a, <2>2 DEF ShiftRefused, Loaded, TypeOK
    <2> QED BY <1>14, <1>a, <2>2, <2>3 DEF ShiftRefused, TypeOK
  <1> QED BY <1>1, <1>2, <1>3, <1>4, <1>5, <1>6, <1>7, <1>8, <1>9, <1>10, <1>11, <1>12, <1>13, <1>14
             DEF Next, ShiftEnd

(* The tables of the video pages keep their types. *)
THEOREM TypeCorrect == Spec => []TypeOK
  BY TypeInit, TypeNext, PTL DEF Spec

-----------------------------------------------------------------------------
(***************************************************************************)
(* What every page holds, also in the middle of a switch: a switch leads   *)
(* from a terminal that has a process (Switches); the terminals that are   *)
(* not displayed show their output (NotInvolved), or have none (NotYet);   *)
(* the displayed one has its output on its own page and, if something was  *)
(* printed meanwhile, on the screen (Loading); and as long as nothing has  *)
(* interrupted the switch, its page is complete and the map is that of the *)
(* screen (Untorn).                                                        *)
(***************************************************************************)
Holds(p, t) == page[p] \subseteq out[t] \cup stray /\ out[t] \subseteq page[p] \cup stray

Switches ==
    /\ Switching => shift.from \in started
    /\ Switching /\ shift.pc = "named" => shift.from # display
    /\ ~Switching \/ shift.pc = "saved" => display \in started
    /\ Switching /\ shift.pc = "saved" => shift.from = display /\ shift.to # display
NotInvolved == \A t \in started : ~Switching \/ t # display => Holds(PageOf(t), t)
NotYet == \A t \in Terminal \ started : t # display => out[t] \subseteq stray
OwnPage == IF display \in started THEN page[display] ELSE {}
Loading == Switching => out[display] \subseteq page[Screen] \cup OwnPage \cup stray
Untorn ==
    Switching /\ ~shift.torn =>
        /\ vid = Screen /\ shift.on = terminal_now
        /\ IF display \in started THEN Holds(display, display) ELSE out[display] \subseteq stray

ShownInv == TypeOK /\ Switches /\ NotInvolved /\ NotYet /\ Loading /\ Untorn

LEMMA ShownInit == Init => ShownInv
  <1> SUFFICES ASSUME Init PROVE ShownInv
    OBVIOUS
  <1>1. 0 \in Terminal /\ \A t \in Terminal : PageOf(t) \in Places /\ page[PageOf(t)] = {} /\ out[t] = {}
    BY PageTypes DEF Init, Places
  <1> QED BY <1>1, TypeInit DEF Init, ShownInv, Switches, NotInvolved, NotYet, Loading, Untorn, Switching, Holds

(* An output changes its page and its history alike, or is a stray. *)
LEMMA OutputHolds ==
    ASSUME TypeOK, NEW t \in Terminal, NEW p \in Places, Output(t, p), UNCHANGED display,
           NEW u \in Terminal, Holds(PageOf(u), u)
    PROVE  Holds(PageOf(u), u)'
  <1>1. PageOf(u) \in Places /\ PageOf(u)' = PageOf(u) /\ (t # u => PageOf(t) # PageOf(u))
    BY PageTypes DEF PageOf, TypeOK
  <1>2. /\ page'[PageOf(u)] = IF PageOf(u) = p THEN page[PageOf(u)] \cup {<<t, count>>} ELSE page[PageOf(u)]
        /\ out'[u] = IF u = t THEN out[u] \cup {<<t, count>>} ELSE out[u]
        /\ stray' = IF p = PageOf(t) THEN stray ELSE stray \cup {<<t, count>>}
    BY <1>1 DEF Output, TypeOK, Places
  <1> QED BY <1>1, <1>2 DEF Holds

(* A step that at most tears the switch. *)
SameSwitch ==
    /\ UNCHANGED <<display, started>>
    /\ Switching' <=> Switching
    /\ Switching => shift'.pc = shift.pc /\ shift'.from = shift.from /\ shift'.to = shift.to

LEMMA SwitchesKept ==
    ASSUME Switches, SameSwitch
    PROVE  Switches'
  BY DEF Switches, SameSwitch

(* Write, Draw and the echo of a key. *)
LEMMA OutputInv ==
    ASSUME ShownInv, NEW t \in Terminal, NEW p \in Places, Output(t, p), TypeOK',
           t \in started \/ t = display, SameSwitch, Switching => shift'.torn
    PROVE  ShownInv'
  <1>1. TypeOK /\ started \subseteq Terminal /\ display \in Terminal
    BY DEF ShownInv, TypeOK
  <1>2. NotInvolved'
    BY <1>1, OutputHolds DEF ShownInv, SameSwitch, NotInvolved
  <1>3. NotYet'
    BY <1>1 DEF ShownInv, SameSwitch, NotYet, Output, TypeOK
  <1>4. Loading'
    <2>1. /\ out'[display] \subseteq out[display] \cup {<<t, count>>}
          /\ out'[display] # out[display] => t = display
      BY <1>1 DEF Output, TypeOK
    <2>2. page[Screen] \subseteq page'[Screen] /\ OwnPage \subseteq OwnPage' /\ stray \subseteq stray'
      BY <1>1, PageTypes DEF SameSwitch, Output, OwnPage, TypeOK, Places
    <2>3. t = display => <<t, count>> \in page'[Screen] \cup stray'
      BY <1>1, PageTypes DEF Output, PageOf, TypeOK, Places
    <2> QED BY <2>1, <2>2, <2>3 DEF ShownInv, SameSwitch, Loading
  <1>5. Untorn'
    BY DEF Untorn, SameSwitch
  <1> QED BY <1>2, <1>3, <1>4, <1>5, SwitchesKept DEF ShownInv

(* Steps that change maps only, or the process that runs. *)
LEMMA MapsInv ==
    ASSUME ShownInv, TypeOK', UNCHANGED <<page, out, stray, display, started>>,
           \/ UNCHANGED <<shift, vid, terminal_now>>
           \/ Interrupt
    PROVE  ShownInv'
  <1>1. /\ SameSwitch
        /\ Switching /\ ~shift'.torn => UNCHANGED <<shift, vid, terminal_now>>
    BY Torn DEF ShownInv, SameSwitch, Switching
  <1>2. \A t \in Terminal, q \in Places : Holds(q, t)' = Holds(q, t) /\ PageOf(t)' = PageOf(t)
    BY DEF Holds, PageOf
  <1>3. display \in Terminal /\ started \subseteq Terminal /\ \A t \in Terminal : PageOf(t) \in Places
    BY PageTypes DEF ShownInv, TypeOK
  <1>4. NotInvolved' /\ NotYet'
    BY <1>1, <1>2, <1>3 DEF ShownInv, SameSwitch, NotInvolved, NotYet
  <1>5. Loading'
    BY <1>1 DEF ShownInv, SameSwitch, Loading, OwnPage
  <1>6. Untorn'
    <2>1. Holds(display, display)' = Holds(display, display)
      BY <1>2, <1>3, PageTypes
    <2> QED BY <1>1, <2>1 DEF ShownInv, SameSwitch, Untorn, Switching
  <1> QED BY <1>1, <1>4, <1>5, <1>6, SwitchesKept DEF ShownInv

(* Control and l clears the page that is mapped, and the history with it. *)
LEMMA ClearInv ==
    ASSUME ShownInv, TypeOK', NEW echo \in SUBSET Outputs,
           page' = [[page EXCEPT ![vid] = {}] EXCEPT ![Screen] = @ \cup echo],
           out' = [out EXCEPT ![display] = echo],
           stray' = Flushed, Interrupt, UNCHANGED <<display, started>>
    PROVE  ShownInv'
  <1>1. /\ TypeOK /\ started \subseteq Terminal /\ display \in Terminal /\ vid \in Places
        /\ Screen \in Places /\ Screen \notin Terminal /\ stray \subseteq stray'
        /\ vid # Screen => page[Screen] \cup page[vid] \subseteq stray'
    BY PageTypes DEF ShownInv, TypeOK, Flushed, Places
  <1>2. SameSwitch /\ (Switching => shift'.torn)
    BY Torn DEF ShownInv, SameSwitch
  <1>3. /\ out'[display] = echo
        /\ \A t \in Terminal : t # display => out'[t] = out[t]
        /\ \A q \in Terminal : page'[q] = IF q = vid THEN {} ELSE page[q]
        /\ page'[Screen] = (IF vid = Screen THEN {} ELSE page[Screen]) \cup echo
    BY <1>1 DEF TypeOK, Places
  <1>4. \A t \in started : ~Switching \/ t # display => Holds(PageOf(t), t)'
    <2> SUFFICES ASSUME NEW t \in started, ~Switching \/ t # display PROVE Holds(PageOf(t), t)'
      OBVIOUS
    <2>1. Holds(PageOf(t), t)
      BY DEF ShownInv, NotInvolved
    <2>2. CASE t = display
      <3>1. PageOf(t)' = Screen
        BY <2>2 DEF PageOf
      <3>2. page'[Screen] \subseteq echo \cup stray' /\ echo \subseteq page'[Screen]
        BY <1>1, <1>3
      <3>3. page'[PageOf(t)'] = page'[Screen] /\ out'[t] = echo
        BY <1>3, <2>2, <3>1
      <3> QED BY <3>2, <3>3 DEF Holds
    <2>3. CASE t # display
      <3>1. PageOf(t) = t /\ PageOf(t)' = t /\ t \in Terminal
        BY <1>1, <2>3 DEF PageOf
      <3>2. page[t] \subseteq out[t] \cup stray /\ out[t] \subseteq page[t] \cup stray
        BY <2>1, <3>1 DEF Holds
      <3>3. page'[t] \subseteq page[t] /\ page[t] \subseteq page'[t] \cup stray'
        <4>1. page'[t] = IF t = vid THEN {} ELSE page[t]
          BY <1>3, <3>1
        <4>2. t = vid => page[t] \subseteq stray'
          BY <1>1, <3>1
        <4>3. CASE t = vid
          <5>1. page'[t] = {} /\ page[t] \subseteq stray'
            BY <4>1, <4>2, <4>3
          <5> QED BY <5>1
        <4>4. CASE t # vid
          BY <4>1, <4>4
        <4> QED BY <4>3, <4>4
      <3>4. out'[t] = out[t]
        BY <1>3, <2>3, <3>1
      <3> QED BY <1>1, <3>1, <3>2, <3>3, <3>4 DEF Holds
    <2> QED BY <2>2, <2>3
  <1>5. NotInvolved'
    BY <1>2, <1>4 DEF SameSwitch, NotInvolved
  <1>6. NotYet'
    BY <1>1, <1>3 DEF ShownInv, NotYet
  <1>7. Loading'
    BY <1>3 DEF Loading
  <1>8. Untorn'
    BY <1>2 DEF SameSwitch, Untorn
  <1> QED BY <1>2, <1>5, <1>6, <1>7, <1>8, SwitchesKept DEF ShownInv

LEMMA BeginInv ==
    ASSUME ShownInv, TypeOK', NEW t \in Terminal, ShiftBegin(t)
    PROVE  ShownInv'
  <1>1. /\ ~Switching /\ t # display /\ vid' = Screen
        /\ page' = [page EXCEPT ![display] = page[Screen]]
        /\ shift' = [pc |-> "saved", on |-> terminal_now, from |-> display, to |-> t, torn |-> FALSE]
        /\ UNCHANGED <<display, terminal_now, started, out, stray>>
    BY DEF ShiftBegin, SavedScreen, Switching
  <1>2. TypeOK /\ display \in started /\ started \subseteq Terminal /\ Screen \notin Terminal
    BY <1>1, PageTypes DEF ShownInv, Switches, TypeOK
  <1>3. \A u \in Terminal : page'[u] = IF u = display THEN page[Screen] ELSE page[u]
    BY <1>1, <1>2, PageTypes DEF TypeOK, Places
  <1>4. \A u \in started : Holds(u, u)'
    <2> SUFFICES ASSUME NEW u \in started PROVE Holds(u, u)'
      OBVIOUS
    <2>1. Holds(PageOf(u), u)
      BY <1>1 DEF ShownInv, NotInvolved
    <2> QED BY <1>1, <1>2, <1>3, <2>1 DEF Holds, PageOf
  <1>5. Switching'
    BY <1>1 DEF Switching, NoShift
  <1>6. Switches'
    BY <1>1, <1>2 DEF Switches
  <1>7. NotInvolved'
    BY <1>1, <1>4, <1>5 DEF NotInvolved, PageOf
  <1>8. NotYet'
    BY <1>1, <1>2 DEF ShownInv, NotYet
  <1>9. Loading'
    BY <1>1, <1>2, <1>4 DEF Loading, OwnPage, Holds
  <1>10. Untorn'
    BY <1>1, <1>2, <1>4 DEF Untorn
  <1> QED BY <1>6, <1>7, <1>8, <1>9, <1>10 DEF ShownInv

(* The old terminal's output is in its copy, or has gone astray. *)
LEMMA NameInv ==
    ASSUME ShownInv, TypeOK', ShiftName
    PROVE  ShownInv'
  <1>1. /\ TypeOK /\ started \subseteq Terminal /\ Switching /\ shift \in Shifts
        /\ shift.from = display /\ shift.from \in started /\ shift.to # display /\ shift.to \in Terminal
    BY ShiftType DEF ShownInv, Switches, ShiftName, Continues, TypeOK, Shifts
  <1>2. /\ display' = shift.to /\ UNCHANGED <<page, out, vid, terminal_now, started>>
        /\ shift'.pc = "named" /\ shift'.from = display /\ shift'.torn = shift.torn /\ shift'.on = shift.on
    BY <1>1 DEF ShiftName, maps, Shifts
  <1>3. stray \subseteq stray' /\ (~shift.torn => stray' = stray)
        /\ (shift.torn => page[Screen] \cup page[display] \subseteq stray')
    BY DEF ShiftName
  <1>4. Switching'
    BY <1>2 DEF Switching, NoShift
  <1>5. Switches'
    BY <1>1, <1>2, <1>4 DEF Switches
  <1>6. \A t \in started : Holds(t, t)'
    <2> SUFFICES ASSUME NEW t \in started PROVE Holds(t, t)'
      OBVIOUS
    <2>1. CASE t # display
      <3>1. Holds(t, t)
        BY <2>1 DEF ShownInv, NotInvolved, PageOf
      <3> QED BY <1>2, <1>3, <3>1 DEF Holds
    <2>2. CASE t = display /\ shift.torn
      <3>1. out[display] \subseteq page[Screen] \cup page[display] \cup stray
        BY <1>1, <2>2 DEF ShownInv, Loading, OwnPage
      <3> QED BY <1>2, <1>3, <2>2, <3>1 DEF Holds
    <2>3. CASE t = display /\ ~shift.torn
      <3>1. Holds(t, t)
        BY <1>1, <2>3 DEF ShownInv, Untorn
      <3> QED BY <1>2, <1>3, <2>3, <3>1 DEF Holds
    <2> QED BY <2>1, <2>2, <2>3
  <1>7. NotInvolved'
    BY <1>2, <1>4, <1>6 DEF NotInvolved, PageOf
  <1>8. \A t \in Terminal \ started : out'[t] \subseteq stray'
    BY <1>1, <1>2, <1>3 DEF ShownInv, NotYet
  <1>9. NotYet'
    BY <1>2, <1>8 DEF NotYet
  <1>10. Loading'
    BY <1>1, <1>2, <1>6, <1>8 DEF Loading, OwnPage, Holds
  <1>11. Untorn'
    BY <1>1, <1>2, <1>6, <1>8 DEF ShownInv, Untorn
  <1> QED BY <1>5, <1>7, <1>9, <1>10, <1>11 DEF ShownInv

(***************************************************************************)
(* The end of a switch: the page q of terminal d goes to what is mapped,   *)
(* and d is displayed, whether the switch comes off or is refused.         *)
(***************************************************************************)
LEMMA EndInv ==
    ASSUME ShownInv, TypeOK', Switching, shift' = NoShift,
           NEW d \in Terminal, display' = d, started' = started \cup {d},
           NEW q \in SUBSET Outputs, page' = [page EXCEPT ![vid] = q], stray' = Loaded(q),
           UNCHANGED out,
           out[d] \subseteq page[Screen] \cup q \cup stray,
           ~shift.torn => q \subseteq out[d] \cup stray /\ out[d] \subseteq q \cup stray,
           \A t \in started \ {d} : Holds(t, t),
           \A t \in Terminal \ started' : out[t] \subseteq stray'
    PROVE  ShownInv'
  <1>1. /\ TypeOK /\ started \subseteq Terminal /\ vid \in Places
        /\ Screen \notin Terminal /\ stray \subseteq stray'
        /\ shift.torn => page[Screen] \cup page[vid] \cup q \subseteq stray'
        /\ ~shift.torn => vid = Screen /\ stray' = stray
    BY PageTypes DEF ShownInv, TypeOK, Loaded, Untorn, Places
  <1>2. /\ \A u \in Terminal : page'[u] = IF u = vid THEN q ELSE page[u]
        /\ page'[Screen] = IF vid = Screen THEN q ELSE page[Screen]
    BY <1>1, PageTypes DEF TypeOK, Places
  <1>3. Holds(PageOf(d), d)'
    <2>1. PageOf(d)' = Screen
      BY DEF PageOf
    <2>2. CASE shift.torn
      BY <1>1, <1>2, <2>1, <2>2 DEF Holds
    <2>3. CASE ~shift.torn
      BY <1>1, <1>2, <2>1, <2>3 DEF Holds
    <2> QED BY <2>2, <2>3
  <1>4. \A t \in started \ {d} : Holds(PageOf(t), t)'
    <2> TAKE t \in started \ {d}
    <2>1. Holds(t, t) /\ PageOf(t)' = t /\ t \in Terminal
      BY <1>1 DEF PageOf
    <2> QED BY <1>1, <1>2, <2>1 DEF Holds
  <1>5. Switches'
    BY DEF Switches, Switching
  <1>6. NotInvolved'
    BY <1>3, <1>4 DEF NotInvolved
  <1>7. NotYet'
    BY DEF NotYet
  <1>8. Loading' /\ Untorn'
    BY DEF Loading, Untorn, Switching
  <1> QED BY <1>5, <1>6, <1>7, <1>8 DEF ShownInv

LEMMA LoadInv ==
    ASSUME ShownInv, TypeOK', ShiftLoad \/ ShiftStart
    PROVE  ShownInv'
  <1>1. TypeOK /\ Switching /\ display \in Terminal /\ started \subseteq Terminal
    BY ShiftType DEF ShownInv, ShiftLoad, ShiftStart, Continues, TypeOK
  <1>2. OwnPage \in SUBSET Outputs
    BY <1>1, PageTypes DEF OwnPage, TypeOK, Places, Outputs
  <1>3. /\ shift' = NoShift /\ display' = display /\ started' = started \cup {display}
        /\ page' = [page EXCEPT ![vid] = OwnPage] /\ stray' = Loaded(OwnPage) /\ UNCHANGED out
    BY DEF ShiftLoad, ShiftStart, OwnPage
  <1>4. out[display] \subseteq page[Screen] \cup OwnPage \cup stray
    BY <1>1 DEF ShownInv, Loading
  <1>5. ~shift.torn => OwnPage \subseteq out[display] \cup stray /\ out[display] \subseteq OwnPage \cup stray
    BY <1>1 DEF ShownInv, Untorn, OwnPage, Holds
  <1>6. \A t \in started \ {display} : Holds(t, t)
    BY DEF ShownInv, NotInvolved, PageOf
  <1>7. \A t \in Terminal \ started' : out[t] \subseteq stray'
    BY <1>3 DEF ShownInv, NotYet, Loaded
  <1> QED BY <1>1, <1>2, <1>3, <1>4, <1>5, <1>6, <1>7, EndInv

LEMMA RefusedInv ==
    ASSUME ShownInv, TypeOK', ShiftRefused
    PROVE  ShownInv'
  <1> DEFINE d == shift.from
  <1>1. /\ TypeOK /\ Switching /\ display \in Terminal \ started /\ started \subseteq Terminal
        /\ d \in started /\ d # display
    BY ShiftType DEF ShownInv, Switches, ShiftRefused, Continues, TypeOK
  <1>2. page[d] \in SUBSET Outputs
    BY <1>1, PageTypes DEF TypeOK, Places, Outputs
  <1>3. /\ shift' = NoShift /\ display' = d /\ started' = started \cup {d}
        /\ page' = [page EXCEPT ![vid] = page[d]] /\ stray' = Loaded(page[d]) /\ UNCHANGED out
    BY <1>1 DEF ShiftRefused
  <1>4. \A t \in started : Holds(t, t)
    BY <1>1 DEF ShownInv, NotInvolved, PageOf
  <1>5. page[d] \subseteq out[d] \cup stray /\ out[d] \subseteq page[d] \cup stray
    BY <1>1, <1>4 DEF Holds
  <1>6. out[display] \subseteq stray'
    BY <1>1, <1>3 DEF ShownInv, Loading, OwnPage, Untorn, Loaded
  <1>7. \A t \in Terminal \ started' : out[t] \subseteq stray'
    BY <1>1, <1>3, <1>6 DEF ShownInv, NotYet, Loaded
  <1> QED BY <1>1, <1>2, <1>3, <1>4, <1>5, <1>7, EndInv

LEMMA ShownNext == ShownInv /\ [Next]_vars => ShownInv'
  <1> SUFFICES ASSUME ShownInv, [Next]_vars PROVE ShownInv'
    OBVIOUS
  <1>a. TypeOK'
    BY TypeNext DEF ShownInv
  <1>b. /\ TypeOK /\ display \in Terminal /\ terminal_now \in Terminal /\ terminal_now \in started
        /\ vid \in Places /\ vidpage \in Places /\ Screen \in Places
    BY PageTypes DEF ShownInv, TypeOK, Places
  <1>1. CASE Write \/ Draw
    <2>1. PICK p \in {vid, vidpage} : Output(terminal_now, p)
      BY <1>1 DEF Write, Draw
    <2>2. UNCHANGED <<display, started, shift>> /\ shift.on # terminal_now
      BY <1>1 DEF Write, Draw, Runs
    <2>3. Switching => shift.torn
      BY <2>2 DEF ShownInv, Untorn
    <2>4. SameSwitch
      BY <2>2 DEF SameSwitch, Switching
    <2> QED BY <1>a, <1>b, <2>1, <2>2, <2>3, <2>4, OutputInv
  <1>2. CASE Letter \/ Recall \/ TabFails
    <2>1. PICK p \in {vid, Screen} : Output(display, p)
      BY <1>2 DEF Letter, Recall, TabFails
    <2>2. Interrupt /\ UNCHANGED <<display, started>>
      BY <1>2 DEF Letter, Recall, TabFails
    <2>3. SameSwitch /\ (Switching => shift'.torn)
      BY <1>b, <2>2, Torn DEF SameSwitch
    <2> QED BY <1>a, <1>b, <2>1, <2>3, OutputInv
  <1>3. CASE Vidmap
    BY <1>a, <1>3, MapsInv DEF Vidmap
  <1>4. CASE Rotate \/ NoLetter \/ RecallNothing
    BY <1>a, <1>4, MapsInv DEF Rotate, NoLetter, RecallNothing
  <1>5. CASE ControlL
    <2>1. {<<display, count>>} \in SUBSET Outputs
      BY <1>b DEF TypeOK, Outputs
    <2> QED BY <1>a, <1>5, <2>1, ClearInv DEF ControlL
  <1>6. CASE AltControlL
    <2>1. page' = [[page EXCEPT ![vid] = {}] EXCEPT ![Screen] = @ \cup {}]
      BY <1>b, <1>6 DEF AltControlL, TypeOK, Places
    <2> QED BY <1>a, <1>6, <2>1, ClearInv DEF AltControlL
  <1>7. ASSUME NEW t \in Terminal, ShiftBegin(t) PROVE ShownInv'
    BY <1>a, <1>7, BeginInv
  <1>8. CASE ShiftName \/ ShiftEnd
    BY <1>a, <1>8, NameInv, LoadInv, RefusedInv DEF ShiftEnd
  <1>9. CASE UNCHANGED vars
    BY <1>a, <1>9, MapsInv DEF vars, maps
  <1> QED BY <1>1, <1>2, <1>3, <1>4, <1>5, <1>6, <1>7, <1>8, <1>9 DEF Next

(***************************************************************************)
(* Every terminal shows its own output and all of it, but for what has     *)
(* gone astray in one of the four ways that `stray' counts.                *)
(***************************************************************************)
THEOREM TerminalsShowTheirOutput == Spec => []ShowsItsOutput
  <1>1. ShownInv => ShowsItsOutput
    BY DEF ShownInv, NotInvolved, Switching, Holds, ShowsItsOutput
  <1> QED BY ShownInit, ShownNext, <1>1, PTL DEF Spec

=============================================================================
