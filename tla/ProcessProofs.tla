--------------------------- MODULE ProcessProofs ---------------------------
(***************************************************************************)
(* Proofs about Process, for every number of processes and terminals: its  *)
(* types, that the invariant of ProcessInv is inductive, that the safety   *)
(* properties follow from it, and that Process implements Terminals.       *)
(***************************************************************************)
EXTENDS MCProcess, SequenceTheorems, TLAPS

-----------------------------------------------------------------------------
(* Dropping the top frame leaves frames. *)
LEMMA UnderType ==
    ASSUME NEW S, NEW s \in Seq(S), s # <<>>
    PROVE  Under(s) \in Seq(S) /\ s[Len(s)] \in S
  <1>1. Len(s) \in Nat \ {0}
    BY EmptySeq
  <1>2. \A i \in 1 .. Len(s) - 1 : s[i] \in S
    BY <1>1
  <1>3. SubSeq(s, 1, Len(s) - 1) \in Seq(S)
    BY <1>1, SubSeqProperties
  <1> QED BY <1>1, <1>3 DEF Under

(* A frame made by PcbFrame or ShiftFrame is a Frame. *)
LEMMA FrameType ==
    /\ \A k \in {"switch", "halt", "fault"}, c \in Id, n \in Id : PcbFrame(k, c, n) \in Frame
    /\ \A c \in IdOrNone, n \in Id : PcbFrame("switch", c, n) \in Frame
    /\ Launch \in Frame
    /\ \A g, l, d \in Term : ShiftFrame("shift", g, l, d) \in Frame
  BY SMT DEF PcbFrame, ShiftFrame, Launch, Frame, AnyFrame, Kind, IdOrNone, NoProc

LEMMA TopType ==
    ASSUME TypeOK, cpu \in Id, ~Idle(cpu)
    PROVE  Top(cpu) \in Frame /\ Under(frames[cpu]) \in Seq(Frame)
  <1>1. frames[cpu] \in Seq(Frame) /\ frames[cpu] # <<>>
    BY DEF TypeOK, Idle
  <1> QED BY <1>1, UnderType DEF Top

(* A kernel path that goes on in its frame. *)
LEMMA ReplaceType ==
    ASSUME TypeOK, cpu \in Id, ~Idle(cpu), NEW f \in Frame, Replace(f)
    PROVE  frames' \in [Id -> Seq(Frame)]
  <1> DEFINE new == Append(Under(frames[cpu]), f)
  <1>1. new \in Seq(Frame)
    BY TopType, AppendProperties
  <1>2. frames' = [frames EXCEPT ![cpu] = new]
    BY DEF Replace
  <1> HIDE DEF new
  <1> QED BY <1>1, <1>2 DEF TypeOK

(* The kernel paths that put a frame on the running stack. *)
LEMMA PushType ==
    ASSUME TypeOK, NEW f \in Frame, frames' = [frames EXCEPT ![cpu] = Append(@, f)]
    PROVE  frames' \in [Id -> Seq(Frame)]
  <1>1. \A s \in Seq(Frame) : Append(s, f) \in Seq(Frame)
    BY AppendProperties
  <1> QED BY <1>1 DEF TypeOK

(* The changes execute makes keep the types. *)
LEMMA LoadType ==
    ASSUME TypeOK, NEW n \in Id, Load(n)
    PROVE  /\ id_array' \in [Id -> {0, 1}]
           /\ pcb_array' \in [Term -> IdOrNone]
           /\ parent_array' \in [Term -> IdOrNone]
           /\ parent_id' \in [Id -> Id]
           /\ caller' \in [Id -> IdOrNone]
           /\ ctx' \in [Id -> Context]
           /\ user_page' \in Id /\ esp0' \in Id /\ cpu' \in IdOrNone
  <1>1. n \in IdOrNone
    BY DEF IdOrNone
  <1>2. ParentFor(cur_display, n) \in Id
    BY DEF TypeOK, ParentFor, IdOrNone
  <1>3. NoCtx \in Context
    BY DEF NoCtx, Context, IdOrNone
  <1>4. ctx' \in [Id -> Context]
    BY <1>3 DEF TypeOK, Load
  <1> QED BY <1>1, <1>2, <1>4 DEF TypeOK, Load, ReturnPoint

(* The kernel's variables keep to their ranges in every state. *)
LEMMA TypeInit == Init => TypeOK
  <1> SUFFICES ASSUME Init PROVE TypeOK
    OBVIOUS
  <1>1. 0 \in Id /\ 0 \in Term /\ 0 \in IdOrNone /\ NoProc \in IdOrNone
    BY SizeAssumption DEF Id, Term, IdOrNone
  <1>2. NoCtx \in Context /\ <<>> \in Seq(Frame)
    BY <1>1 DEF NoCtx, Context
  <1> QED BY <1>1, <1>2 DEF Init, TypeOK, Position

LEMMA TypeNext == TypeOK /\ [Next]_vars => TypeOK'
  <1> SUFFICES ASSUME TypeOK, [Next]_vars PROVE TypeOK'
    OBVIOUS
  <1>a. NoProc \in IdOrNone /\ Id \subseteq IdOrNone
    BY DEF IdOrNone
  <1>b. CASE UNCHANGED vars
    BY <1>b DEF vars, tables, TypeOK
  <1>1. ASSUME NEW c \in Commands, Execute(c) PROVE TypeOK'
    <2>1. PICK n \in Id : Load(n) /\ at' = [at EXCEPT ![cpu] = "waiting",
                     ![n] = IF c = "shell" THEN "prompt" ELSE "program"]
                 /\ frames' = [frames EXCEPT ![n] = <<Launch>>]
      BY <1>1 DEF Execute
    <2>2. at' \in [Id -> Position]
      BY <2>1 DEF TypeOK, Position
    <2>3. frames' \in [Id -> Seq(Frame)]
      BY <2>1, FrameType DEF TypeOK
    <2> QED BY <1>1, <2>1, <2>2, <2>3, LoadType DEF Execute, TypeOK
  <1>2. ASSUME NEW c \in Commands, ExecuteFails(c) PROVE TypeOK'
    BY <1>2 DEF ExecuteFails, AfterError, TypeOK, Position, tables
  <1>3. CASE ReadLine
    BY <1>3 DEF ReadLine, TypeOK, Position, tables
  <1>4. CASE HaltRoot
    BY <1>4 DEF HaltRoot, TypeOK, Position, tables
  <1>5. ASSUME NEW k \in {"halt", "fault"}, HaltChild(k) PROVE TypeOK'
    <2>1. Cur \in Id /\ parent_id[Cur] \in Id
      BY <1>5 DEF HaltChild, CanHalt, Cur, TypeOK, IdOrNone
    <2>2. PcbFrame(k, Cur, parent_id[Cur]) \in Frame
      BY <2>1, FrameType
    <2>3. frames' \in [Id -> Seq(Frame)]
      BY <1>5, <2>2, PushType DEF HaltChild, Push
    <2>4. id_array' \in [Id -> {0, 1}]
      BY <1>5 DEF HaltChild, IdsAfterHalt, TypeOK
    <2>5. pcb_array' \in [Term -> IdOrNone] /\ parent_array' \in [Term -> IdOrNone]
      BY <1>5, <1>a, <2>1 DEF HaltChild, NextParent, TypeOK
    <2> QED BY <1>5, <2>3, <2>4, <2>5 DEF HaltChild, TypeOK
  <1>6. CASE Iret
    <2>1. cpu \in Id /\ ~Idle(cpu)
      BY <1>6 DEF Iret, InKernel, Running, TypeOK, IdOrNone
    <2> QED BY <1>6, <2>1, TopType DEF Iret, Pop, TypeOK, tables
  <1>7. CASE HaltReturn
    <2>1. cpu \in Id /\ ~Idle(cpu) /\ Top(cpu).kind \in {"halt", "fault"}
      BY <1>7 DEF HaltReturn, InKernel, Running, TypeOK, IdOrNone
    <2>2. Top(cpu).next \in Id /\ Top(cpu).cur \in Id
      BY <2>1, TopType DEF Frame
    <2>3. frames' \in [Id -> Seq(Frame)]
      BY <1>7, <2>1, TopType DEF HaltReturn, Pop, TypeOK
    <2>4. at' \in [Id -> Position]
      BY <1>7 DEF HaltReturn, TypeOK, Position
    <2> QED BY <1>7, <2>2, <2>3, <2>4
            DEF HaltReturn, PageAfterHalt, CallerAfterHalt, TypeOK, tables
  <1>8. CASE PitSwitch
    <2>1. cpu \in Id /\ ~Idle(cpu) /\ Top(cpu).kind = "switch"
      BY <1>8 DEF PitSwitch, InKernel, Running, TypeOK, IdOrNone
    <2>2. Top(cpu).next \in Id
      BY <2>1, TopType DEF Frame
    <2> DEFINE to == ctx[Top(cpu).next]
               rest == [frames EXCEPT ![cpu] = Under(@)]
    <2>3. to.flow \in IdOrNone /\ to.depth \in Nat /\ NoCtx \in Context
      BY <2>2 DEF TypeOK, Context, NoCtx, IdOrNone
    <2>4. [flow |-> cpu, depth |-> Len(frames[cpu]) - 1] \in Context
      BY <2>1, EmptySeq DEF TypeOK, Context, IdOrNone, Idle
    <2>5. ctx' \in [Id -> Context]
      BY <1>8, <2>3, <2>4 DEF PitSwitch, SavedIn, TypeOK
    <2>6. rest \in [Id -> Seq(Frame)]
      BY <2>1, TopType DEF TypeOK
    <2>7. CASE Alive(to, rest)
      <3>1. to.flow \in Id /\ rest[to.flow] \in Seq(Frame) /\ to.depth <= Len(rest[to.flow])
        BY <2>3, <2>6, <2>7 DEF Alive, IdOrNone
      <3>2. cpu' = to.flow /\ frames' = [rest EXCEPT ![to.flow] = SubSeq(@, 1, to.depth)]
        BY <1>8, <2>7 DEF PitSwitch
      <3> HIDE DEF rest, to
      <3>3. \A i \in 1 .. to.depth : rest[to.flow][i] \in Frame
        BY <2>3, <3>1
      <3>4. SubSeq(rest[to.flow], 1, to.depth) \in Seq(Frame)
        BY <2>3, <3>3, SubSeqProperties
      <3>5. frames' \in [Id -> Seq(Frame)]
        BY <2>6, <3>1, <3>2, <3>4
      <3> QED BY <1>8, <1>a, <2>5, <3>1, <3>2, <3>5 DEF PitSwitch, TypeOK, tables
    <2>8. CASE ~Alive(to, rest)
      BY <1>8, <1>a, <2>5, <2>6, <2>8 DEF PitSwitch, TypeOK, tables
    <2> QED BY <2>7, <2>8
  <1>9. CASE ShiftLoad
    <2>1. cpu \in Id /\ ~Idle(cpu)
      BY <1>9 DEF ShiftLoad, InKernel, Running, TypeOK, IdOrNone
    <2> QED BY <1>9, <2>1, TopType DEF ShiftLoad, Pop, TypeOK, tables
  <1>10. CASE ShiftName
    <2>1. cpu \in Id /\ ~Idle(cpu) /\ Top(cpu).kind = "shift"
      BY <1>10 DEF ShiftName, InKernel, Running, TypeOK, IdOrNone
    <2>2. Top(cpu).goal \in Term
      BY <2>1, TopType DEF Frame
    <2>3. [Top(cpu) EXCEPT !.kind = "named"] \in Frame
      BY <2>1, TopType DEF Frame, AnyFrame, Kind
    <2>4. frames' \in [Id -> Seq(Frame)]
      BY <1>10, <2>1, <2>3, ReplaceType DEF ShiftName
    <2> QED BY <1>10, <2>2, <2>4 DEF ShiftName, TypeOK, tables
  <1>11. CASE ShiftLaunch
    <2>1. cpu \in Id /\ ~Idle(cpu)
      BY <1>11 DEF ShiftLaunch, InKernel, Running, TypeOK, IdOrNone
    <2>2. PICK n \in Id : Load(n) /\ at' = [at EXCEPT ![n] = "prompt"]
                 /\ frames' = [frames EXCEPT ![cpu] = Under(@), ![n] = <<Launch>>]
      BY <1>11 DEF ShiftLaunch
    <2>3. at' \in [Id -> Position]
      BY <2>2 DEF TypeOK, Position
    <2>4. frames' \in [Id -> Seq(Frame)]
      <3> DEFINE rest == [frames EXCEPT ![cpu] = Under(@)]
      <3>1. rest \in [Id -> Seq(Frame)]
        BY <2>1, TopType DEF TypeOK
      <3>2. frames' = [rest EXCEPT ![n] = <<Launch>>] /\ <<Launch>> \in Seq(Frame)
        BY <2>2, FrameType
      <3> HIDE DEF rest
      <3> QED BY <3>1, <3>2
    <2> QED BY <1>11, <2>2, <2>3, <2>4, LoadType DEF ShiftLaunch, TypeOK
  <1>12. CASE ShiftRevert
    <2>1. cpu \in Id /\ ~Idle(cpu) /\ Top(cpu).kind = "open"
      BY <1>12 DEF ShiftRevert, InKernel, Running, TypeOK, IdOrNone
    <2>2. Top(cpu).last \in Term /\ Top(cpu).disp \in Term
      BY <2>1, TopType DEF Frame
    <2> QED BY <1>12, <2>1, <2>2, TopType DEF ShiftRevert, Pop, TypeOK, tables
  <1>13. CASE PitSame
    BY <1>13 DEF PitSame, TypeOK, tables
  <1>14. CASE PitSelect
    <2>1. PICK t \in Term : /\ IsNext(terminal_now, t) /\ terminal_now' = t
                           /\ user_page' = pcb_array[t] /\ esp0' = pcb_array[t]
                           /\ Push(PcbFrame("switch", Cur, pcb_array[t]))
      BY <1>14 DEF PitSelect
    <2>2. pcb_array[t] \in Id /\ Cur \in IdOrNone
      BY <2>1 DEF IsNext, Cur, TypeOK, IdOrNone
    <2>3. frames' \in [Id -> Seq(Frame)]
      BY <2>1, <2>2, FrameType, PushType DEF Push
    <2> QED BY <1>14, <2>1, <2>2, <2>3 DEF PitSelect, TypeOK, tables
  <1>15. ASSUME NEW t \in Term, ShiftStore(t) PROVE TypeOK'
    <2>1. frames' \in [Id -> Seq(Frame)]
      BY <1>15, FrameType, PushType DEF ShiftStore, Push, TypeOK
    <2> QED BY <1>15, <2>1 DEF ShiftStore, TypeOK, tables
  <1>16. CASE ShiftOpen
    <2>1. cpu \in Id /\ ~Idle(cpu) /\ Top(cpu).kind = "named"
      BY <1>16 DEF ShiftOpen, InKernel, Running, TypeOK, IdOrNone
    <2>2. [Top(cpu) EXCEPT !.kind = "open"] \in Frame
      BY <2>1, TopType DEF Frame, AnyFrame, Kind
    <2>3. frames' \in [Id -> Seq(Frame)]
      BY <1>16, <2>1, <2>2, ReplaceType DEF ShiftOpen
    <2>4. [flow |-> cpu, depth |-> Len(frames[cpu]) - 1] \in Context
      BY <2>1, EmptySeq DEF TypeOK, Context, IdOrNone, Idle
    <2>5. ctx' \in [Id -> Context]
      BY <1>16, <2>4 DEF ShiftOpen, SavedIn, TypeOK
    <2> QED BY <1>16, <2>3, <2>5 DEF ShiftOpen, TypeOK, tables
  <1> QED BY <1>b, <1>1, <1>2, <1>3, <1>4, <1>5, <1>6, <1>7, <1>8, <1>9, <1>10, <1>11,
             <1>12, <1>13, <1>14, <1>15, <1>16 DEF Next, UserStep, KernelStep, Interrupt, Pit

(* Whatever windows are open and however users type, no variable leaves its *)
(* range: no path of execute, halt, pit_handler or terminal_shift maps a    *)
(* page or sets the TSS for the process -1 that marks an empty terminal.    *)
THEOREM TypeCorrect == Spec => []TypeOK
  <1> QED BY TypeInit, TypeNext, PTL DEF Spec

-----------------------------------------------------------------------------
(***************************************************************************)
(* The invariant of ProcessInv, in the environment Quiet.                  *)
(***************************************************************************)

(* The frames of the running process while one path is under way. *)
LEMMA OneFrame ==
    ASSUME TypeOK, OnePath, ~Idle(cpu)
    PROVE  /\ Top(cpu) = frames[cpu][1] /\ Under(frames[cpu]) = <<>>
           /\ Top(cpu) \in Frame /\ Running
           /\ Len(frames[cpu]) = 1
  <1>1. Len(frames[cpu]) = 1 /\ cpu \in Id
    BY DEF OnePath
  <1>2. Under(frames[cpu]) = <<>>
    BY <1>1, SubSeqEmpty DEF Under
  <1>3. cpu # NoProc
    BY <1>1 DEF Id, NoProc
  <1> QED BY <1>1, <1>2, <1>3, TopType DEF Top, Running

(* A step that leaves the stacks alone leaves the path alone. *)
LEMMA SamePath ==
    ASSUME OnePath, UNCHANGED <<cpu, frames>>
    PROVE  /\ OnePath' /\ (Idle(cpu)' <=> Idle(cpu)) /\ Top(cpu)' = Top(cpu)
           /\ \A k : InKernel(k)' <=> InKernel(k)
  BY DEF OnePath, Idle, Top, InKernel, Running

(* A path starts on the idle stack of the running process. *)
LEMMA PathStarts ==
    ASSUME TypeOK, OnePath, Idle(cpu), NEW f \in Frame, cpu' = cpu,
           frames' = [frames EXCEPT ![cpu] = Append(@, f)]
    PROVE  /\ OnePath' /\ ~Idle(cpu)' /\ Top(cpu)' = f
           /\ \A k : InKernel(k)' <=> f.kind = k
  <1>1. cpu \in Id /\ frames \in [Id -> Seq(Frame)] /\ cpu # NoProc
    BY DEF OnePath, TypeOK, Id, NoProc
  <1>2. frames'[cpu] = Append(<<>>, f) /\ frames[cpu] = <<>>
    BY <1>1 DEF Idle
  <1>3. frames'[cpu] = <<f>> /\ \A p \in Id \ {cpu} : frames'[p] = frames[p]
    BY <1>1, <1>2
  <1>4. Len(frames'[cpu]) = 1 /\ frames'[cpu][1] = f /\ frames'[cpu] # <<>>
    BY <1>3
  <1> QED BY <1>1, <1>3, <1>4 DEF OnePath, Idle, Top, InKernel, Running

(* A path ends; the CPU may go on with another process. *)
LEMMA PathEnds ==
    ASSUME TypeOK, OnePath, ~Idle(cpu), cpu' \in Id,
           frames' = [frames EXCEPT ![cpu] = Under(@)]
    PROVE  /\ OnePath' /\ Idle(cpu)'
           /\ \A k : ~InKernel(k)'
  <1>1. cpu \in Id /\ frames \in [Id -> Seq(Frame)]
    BY DEF OnePath, TypeOK
  <1>2. frames'[cpu] = <<>> /\ \A p \in Id \ {cpu} : frames'[p] = <<>>
    BY <1>1, OneFrame DEF OnePath, Idle
  <1>3. \A p \in Id : frames'[p] = <<>>
    BY <1>2
  <1> QED BY <1>1, <1>3 DEF OnePath, Idle, InKernel

(* Nothing interrupts a path in the quiet environment. *)
LEMMA InterruptsWhenIdle ==
    ASSUME Quiet, Interruptible
    PROVE  Idle(cpu) /\ InUser
  BY DEF Quiet, Interruptible, InUser

LEMMA QuietInit == Init => QuietInv
  <1> SUFFICES ASSUME Init PROVE QuietInv
    OBVIOUS
  <1>1. 0 \in Id /\ 0 \in Term /\ NoProc \notin Id
    BY SizeAssumption DEF Id, Term, NoProc
  <1>2. OnePath /\ \A k : ~InKernel(k)
    BY <1>1 DEF Init, OnePath, Idle, InKernel
  <1>3. Occupied = {0} /\ pcb_array[0] = 0 /\ Root(0) = 0
    BY <1>1 DEF Init, Occupied, Root, NoProc
  <1>4. ShallowTrees
    BY <1>1, <1>3 DEF Init, ShallowTrees
  <1>5. NoLeak
    BY <1>1, <1>3 DEF Init, NoLeak
  <1>6. Roles
    BY <1>1, <1>2, <1>3 DEF Init, Roles, Halting, Shifting
  <1>7. Resumable
    BY <1>3 DEF Init, Resumable
  <1>8. MidPath
    BY <1>1, <1>2 DEF Init, MidPath, Settled, Cur, Halting, Idle
  <1> QED BY <1>2, <1>4, <1>5, <1>6, <1>7, <1>8 DEF QuietInv

(* A refused command, a line read, and the restart of a first shell change  *)
(* nothing but what the running process does in user mode.                  *)
LEMMA PositionInv ==
    ASSUME TypeOK, QuietInv, InUser, NEW pos \in {"prompt", "command"},
           parent_id[cpu] = cpu, pos = "command" => cur_display = terminal_now,
           at' = [at EXCEPT ![cpu] = pos],
           UNCHANGED <<tables, terminal_now, cur_display, ctx, user_page, esp0, cpu, frames>>
    PROVE  QuietInv'
  <1>1. OnePath' /\ Idle(cpu) /\ Idle(cpu)' /\ \A k : ~InKernel(k) /\ ~InKernel(k)'
    BY SamePath DEF QuietInv, InUser, InKernel
  <1>2. cpu = Cur /\ Settled /\ cpu \in Id
    BY <1>1 DEF QuietInv, MidPath, Settled, OnePath
  <1>3. terminal_now \in Occupied
    BY <1>2 DEF Occupied, Cur, Id, NoProc, TypeOK
  <1>4. Occupied' = Occupied /\ \A t \in Term : Root(t)' = Root(t)
    BY DEF Occupied, Root, tables
  <1>5. ShallowTrees' /\ NoLeak' /\ Resumable'
    <2>1. ShallowTrees'
      BY <1>4 DEF QuietInv, ShallowTrees, tables, Occupied, Root
    <2>2. NoLeak'
      BY <1>4 DEF QuietInv, NoLeak, tables, Occupied, Root
    <2>3. Resumable'
      BY <1>1, <1>4 DEF QuietInv, Resumable, Halting, tables
    <2> QED BY <2>1, <2>2, <2>3
  <1>6. MidPath'
    BY <1>1, <1>2 DEF MidPath, Settled, Cur, Halting, tables
  <1>7. \A t \in Occupied : t # terminal_now =>
            cpu # pcb_array[t] /\ cpu # Root(t)
    BY <1>2, <1>3 DEF QuietInv, ShallowTrees, Cur
  <1>8. Root(terminal_now) = cpu
    BY <1>2 DEF Root, Cur
  <1>9. Roles'
    <2>1. \A t \in Occupied : t # terminal_now =>
              at'[pcb_array[t]] = at[pcb_array[t]] /\ at'[Root(t)] = at[Root(t)]
      BY <1>7, <1>4 DEF QuietInv, ShallowTrees, TypeOK, Root
    <2>2. at'[cpu] = pos
      BY <1>2 DEF TypeOK
    <2>3. \A p \in Id : at'[p] = "waiting" => at[p] = "waiting"
      BY <1>2 DEF TypeOK
    <2>4. ~Halting /\ ~Halting' /\ ~Shifting /\ ~Shifting'
      BY <1>1 DEF Halting, Shifting
    <2>5. \A t \in Occupied :
              /\ pcb_array[t] # Root(t) => at'[pcb_array[t]] = "program" /\ at'[Root(t)] = "waiting"
              /\ pcb_array[t] = Root(t) => at'[pcb_array[t]] \in {"prompt", "command"}
              /\ at'[pcb_array[t]] = "command" => cur_display = t
      BY <1>2, <1>3, <1>8, <2>1, <2>2, <2>4 DEF QuietInv, Roles, Cur
    <2>6. \A p \in Id : at'[p] = "waiting" => id_array'[p] = 1
      BY <2>3 DEF QuietInv, Roles, tables
    <2>7. Occupied' = Occupied /\ pcb_array' = pcb_array /\ cur_display' = cur_display
      BY <1>4 DEF tables
    <2>8. \A t \in Occupied : Root(t)' = Root(t)
      BY DEF Root, tables
    <2> QED BY <2>4, <2>5, <2>6, <2>7, <2>8 DEF Roles
  <1> QED BY <1>1, <1>5, <1>6, <1>9 DEF QuietInv

(* In user mode a shell is the first process of the running terminal. *)
LEMMA ShellIsRoot ==
    ASSUME TypeOK, QuietInv, InUser
    PROVE  /\ cpu = Cur /\ terminal_now \in Occupied /\ Settled /\ cpu \in Id
           /\ at[cpu] \in {"prompt", "command"} <=> parent_id[cpu] = cpu
           /\ at[cpu] = "command" => cur_display = terminal_now
  <1>1. Idle(cpu) /\ \A k : ~InKernel(k)
    BY DEF InUser, InKernel
  <1>2. cpu = Cur /\ cpu \in Id /\ Settled
    BY <1>1 DEF QuietInv, MidPath, OnePath, Settled
  <1>3. terminal_now \in Occupied
    BY <1>2 DEF Occupied, Cur, Id, NoProc, TypeOK
  <1> QED BY <1>1, <1>2, <1>3 DEF QuietInv, Roles, Root, Cur, Halting

LEMMA ExecuteFailsInv ==
    ASSUME TypeOK, QuietInv, NEW c \in Commands, ExecuteFails(c)
    PROVE  QuietInv'
  BY ShellIsRoot, PositionInv DEF ExecuteFails, AfterError

LEMMA ReadLineInv == TypeOK /\ QuietInv /\ ReadLine => QuietInv'
  BY ShellIsRoot, PositionInv DEF ReadLine

LEMMA HaltRootInv == TypeOK /\ QuietInv /\ HaltRoot => QuietInv'
  BY ShellIsRoot, PositionInv DEF HaltRoot, CanHalt

(* The running child of a first shell halts. *)
LEMMA HaltChildInv ==
    ASSUME TypeOK, QuietInv, NEW k \in {"halt", "fault"}, HaltChild(k)
    PROVE  QuietInv'
  <1> DEFINE par == parent_id[Cur]
  <1>1. /\ InUser /\ Cur # NoProc /\ par # Cur
        /\ pcb_array' = [pcb_array EXCEPT ![terminal_now] = par]
        /\ parent_array' = [parent_array EXCEPT ![terminal_now] = parent_id[par]]
        /\ id_array' = [id_array EXCEPT ![Cur] = 0]
        /\ Push(PcbFrame(k, Cur, par))
        /\ UNCHANGED <<parent_id, caller, terminal_now, cur_display, ctx,
                       user_page, esp0, cpu, at>>
    BY DEF HaltChild, CanHalt, NextParent, IdsAfterHalt
  <1>2. /\ cpu = Cur /\ terminal_now \in Occupied /\ cpu \in Id /\ terminal_now \in Term
        /\ Idle(cpu) /\ \A j : ~InKernel(j)
    BY <1>1, ShellIsRoot DEF InUser, InKernel, Occupied
  <1>3. /\ Root(terminal_now) = par /\ par \in Id /\ parent_id[par] = par
        /\ caller[cpu] = par /\ id_array[par] = 1 /\ at[par] = "waiting"
        /\ at[cpu] = "program"
    BY <1>1, <1>2 DEF QuietInv, ShallowTrees, Roles, Root, Cur, TypeOK
  <1>4. PcbFrame(k, Cur, par) \in Frame
    BY <1>2, <1>3, FrameType
  <1>5. /\ OnePath' /\ ~Idle(cpu)' /\ Top(cpu)' = PcbFrame(k, Cur, par)
        /\ \A j : InKernel(j)' <=> k = j
    <2>1. PcbFrame(k, Cur, par).kind = k
      BY DEF PcbFrame
    <2> QED BY <1>1, <1>2, <1>4, <2>1, PathStarts DEF QuietInv, Push
  <1>6. /\ Occupied' = Occupied /\ pcb_array'[terminal_now] = par
        /\ Root(terminal_now)' = par
        /\ \A t \in Term \ {terminal_now} : pcb_array'[t] = pcb_array[t] /\ Root(t)' = Root(t)
    BY <1>1, <1>2, <1>3 DEF Occupied, Root, TypeOK, Id, NoProc
  <1>7. \A t \in Occupied \ {terminal_now} :
            /\ pcb_array[t] # par /\ pcb_array[t] # cpu
            /\ Root(t) # par /\ Root(t) # cpu
            /\ t \in Term /\ pcb_array[t] \in Id /\ Root(t) \in Id
    <2>1. \A t \in Occupied : t \in Term /\ pcb_array[t] \in Id /\ Root(t) \in Id
      BY DEF QuietInv, ShallowTrees, Root, Occupied, TypeOK
    <2>2. \A t, u \in Occupied : t # u => {pcb_array[t], Root(t)} \cap {pcb_array[u], Root(u)} = {}
      BY DEF QuietInv, ShallowTrees
    <2>3. pcb_array[terminal_now] = cpu /\ Root(terminal_now) = par
      BY <1>2, <1>3 DEF Cur
    <2> QED BY <1>2, <2>1, <2>2, <2>3
  <1>8. ShallowTrees'
    <2>1. parent_array' = pcb_array'
      BY <1>1, <1>3 DEF QuietInv, ShallowTrees
    <2>2. id_array'[par] = 1 /\ \A t \in Occupied \ {terminal_now} :
              id_array'[pcb_array[t]] = 1 /\ id_array'[Root(t)] = 1
      BY <1>1, <1>2, <1>3, <1>7 DEF QuietInv, ShallowTrees, TypeOK
    <2> QED BY <1>1, <1>2, <1>3, <1>6, <1>7, <2>1, <2>2 DEF QuietInv, ShallowTrees
  <1>9. NoLeak'
    <2>1. \A p \in Id : id_array'[p] = 1 => p # cpu /\ id_array[p] = 1
      BY <1>1, <1>2 DEF TypeOK
    <2> QED BY <1>2, <1>3, <1>6, <1>7, <2>1 DEF QuietInv, NoLeak, Cur
  <1>10. Roles'
    <2>1. \A p \in Id : at'[p] = "waiting" => id_array'[p] = 1
      BY <1>1, <1>2, <1>3 DEF QuietInv, Roles, TypeOK
    <2>2. Halting' /\ ~Shifting' /\ ~Halting /\ ~Shifting
      BY <1>2, <1>5 DEF Halting, Shifting
    <2> QED BY <1>1, <1>2, <1>3, <1>6, <1>7, <2>1, <2>2 DEF QuietInv, Roles
  <1>11. Resumable'
    BY <1>1, <1>2, <1>5, <1>6, <1>7 DEF QuietInv, Resumable, Halting
  <1>12. MidPath'
    <2>1. /\ Top(cpu)'.cur = cpu' /\ Top(cpu)'.next = par /\ Cur' = par
          /\ id_array'[cpu'] = 0
      BY <1>1, <1>2, <1>5, <1>6 DEF PcbFrame, Cur, TypeOK
    <2> QED BY <1>1, <1>2, <1>3, <1>5, <2>1 DEF MidPath, Halting
  <1> QED BY <1>5, <1>8, <1>9, <1>10, <1>11, <1>12 DEF QuietInv

(* The tables of Process are untouched, and so is what QuietInv says of them. *)
LEMMA SameTables ==
    ASSUME QuietInv, UNCHANGED tables
    PROVE  /\ ShallowTrees' /\ NoLeak'
           /\ Occupied' = Occupied /\ \A t : Root(t)' = Root(t)
  <1>1. Occupied' = Occupied /\ \A t : Root(t)' = Root(t)
    BY DEF Occupied, Root, tables
  <1>2. ShallowTrees'
    BY <1>1 DEF QuietInv, ShallowTrees, tables, Occupied, Root
  <1>3. NoLeak'
    BY <1>1 DEF QuietInv, NoLeak, tables, Occupied, Root
  <1> QED BY <1>1, <1>2, <1>3

LEMMA IretInv == TypeOK /\ QuietInv /\ Iret => QuietInv'
  <1> SUFFICES ASSUME TypeOK, QuietInv, Iret PROVE QuietInv'
    OBVIOUS
  <1>1. /\ InKernel("launch") /\ Pop
        /\ UNCHANGED <<tables, terminal_now, cur_display, ctx, user_page, esp0, cpu, at>>
    BY DEF Iret
  <1>2. ~Idle(cpu) /\ Top(cpu).kind = "launch" /\ cpu \in Id
    BY <1>1 DEF InKernel, QuietInv, OnePath
  <1>3. OnePath' /\ Idle(cpu)' /\ \A k : ~InKernel(k)'
    BY <1>1, <1>2, PathEnds DEF QuietInv, Pop
  <1>4. ~Halting /\ ~Halting' /\ ~Shifting /\ ~Shifting'
    BY <1>2, <1>3 DEF Halting, Shifting, InKernel
  <1>5. MidPath'
    BY <1>1, <1>3, <1>4 DEF QuietInv, MidPath, Settled, Cur, tables
  <1>6. Roles' /\ Resumable'
    BY <1>1, <1>4, SameTables DEF QuietInv, Roles, Resumable, tables
  <1> QED BY <1>1, <1>3, <1>5, <1>6, SameTables DEF QuietInv

(* The parent goes on in its execute, on its own page and kernel stack. *)
LEMMA HaltReturnInv == TypeOK /\ QuietInv /\ HaltReturn => QuietInv'
  <1> SUFFICES ASSUME TypeOK, QuietInv, HaltReturn PROVE QuietInv'
    OBVIOUS
  <1>1. Halting /\ ~Idle(cpu) /\ cpu \in Id /\ ~Shifting
    BY DEF HaltReturn, Halting, Shifting, InKernel, QuietInv, OnePath
  <1>2. /\ Top(cpu).cur = cpu /\ Top(cpu).next = Cur /\ Cur = caller[cpu] /\ Cur \in Id
        /\ parent_id[Cur] = Cur /\ id_array[cpu] = 0
    BY <1>1 DEF QuietInv, MidPath
  <1>3. /\ cpu' = Cur /\ user_page' = Cur /\ esp0' = Cur
        /\ at' = [p \in Id |-> IF p = Cur THEN "prompt" ELSE IF p = cpu THEN "none" ELSE at[p]]
        /\ Pop /\ UNCHANGED <<tables, terminal_now, cur_display, ctx>>
    BY <1>2 DEF HaltReturn, PageAfterHalt, CallerAfterHalt
  <1>4. OnePath' /\ Idle(cpu)' /\ \A k : ~InKernel(k)'
    BY <1>1, <1>2, <1>3, PathEnds DEF QuietInv, Pop
  <1>5. ~Halting' /\ ~Shifting'
    BY <1>4 DEF Halting, Shifting
  <1>6. MidPath'
    BY <1>3, <1>4, <1>5 DEF MidPath, Settled, Cur, tables
  <1>7. terminal_now \in Occupied /\ pcb_array[terminal_now] = Cur /\ Root(terminal_now) = Cur
    BY <1>2 DEF Occupied, Cur, Id, NoProc, TypeOK, Root
  <1>8. \A t \in Occupied : t # terminal_now =>
            /\ pcb_array[t] # Cur /\ Root(t) # Cur /\ pcb_array[t] # cpu /\ Root(t) # cpu
            /\ pcb_array[t] \in Id /\ Root(t) \in Id
    <2>1. \A t \in Occupied : /\ pcb_array[t] \in Id /\ Root(t) \in Id
                             /\ id_array[pcb_array[t]] = 1 /\ id_array[Root(t)] = 1
      BY DEF QuietInv, ShallowTrees, TypeOK, Root
    <2>2. \A t \in Occupied : t # terminal_now => pcb_array[t] # Cur /\ Root(t) # Cur
      <3>1. \A t, u \in Occupied : t # u => {pcb_array[t], Root(t)} \cap {pcb_array[u], Root(u)} = {}
        BY DEF QuietInv, ShallowTrees
      <3> QED BY <1>7, <3>1
    <2> QED BY <1>2, <2>1, <2>2
  <1>9. Roles'
    <2>1. \A t \in Occupied : t # terminal_now =>
              at'[pcb_array[t]] = at[pcb_array[t]] /\ at'[Root(t)] = at[Root(t)]
      BY <1>3, <1>8
    <2>2. at'[Cur] = "prompt"
      BY <1>2, <1>3
    <2>3. \A p \in Id : at'[p] = "waiting" => id_array'[p] = 1
      BY <1>3 DEF QuietInv, Roles, tables
    <2>4. Occupied' = Occupied /\ pcb_array' = pcb_array /\ cur_display' = cur_display
          /\ \A t : Root(t)' = Root(t)
      BY <1>3, SameTables DEF tables
    <2> QED BY <1>1, <1>5, <1>7, <2>1, <2>2, <2>3, <2>4 DEF QuietInv, Roles
  <1>10. Resumable'
    BY <1>1, <1>3, <1>7, <1>8, SameTables DEF QuietInv, Resumable, tables
  <1> QED BY <1>3, <1>4, <1>6, <1>9, <1>10, SameTables DEF QuietInv

(* The tables after execute has loaded the process n for terminal_now.      *)
LEMMA LoadTables ==
    ASSUME TypeOK, QuietInv, NEW n \in Id, IsFirstFree(n), Load(n),
           terminal_now = cur_display, terminal_now' = terminal_now,
           Cur = NoProc \/ (terminal_now \in Occupied /\ Cur = cpu /\ parent_id[cpu] = cpu)
    PROVE  /\ ShallowTrees' /\ NoLeak' /\ Occupied' = Occupied \cup {terminal_now}
           /\ pcb_array'[terminal_now] = n
           /\ parent_id'[n] = IF Cur = NoProc THEN n ELSE cpu
           /\ \A t \in Occupied \ {terminal_now} :
                 /\ pcb_array'[t] = pcb_array[t] /\ parent_id'[pcb_array[t]] = Root(t)
                 /\ pcb_array[t] # n /\ Root(t) # n
           /\ \A t \in Occupied : pcb_array[t] # n /\ Root(t) # n
  <1>1. /\ terminal_now \in Term /\ id_array[n] = 0 /\ n # NoProc
        /\ id_array' = [id_array EXCEPT ![n] = 1]
        /\ pcb_array' = [pcb_array EXCEPT ![terminal_now] = n]
        /\ parent_id' = [parent_id EXCEPT ![n] = ParentFor(terminal_now, n)]
        /\ parent_array' = [parent_array EXCEPT ![terminal_now] = n]
        /\ caller' = [caller EXCEPT ![n] = cpu]
    BY DEF Load, IsFirstFree, ReturnPoint, TypeOK, Id, NoProc
  <1>2. parent_array = pcb_array
    BY DEF QuietInv, ShallowTrees
  <1>3. ParentFor(terminal_now, n) = IF Cur = NoProc THEN n ELSE cpu
    BY <1>2 DEF ParentFor, Cur
  <1>4. \A t \in Occupied :
            /\ t \in Term /\ pcb_array[t] # n /\ Root(t) # n
            /\ pcb_array[t] \in Id /\ Root(t) \in Id
    BY <1>1 DEF QuietInv, ShallowTrees, Occupied, TypeOK, Root
  <1>5. Occupied' = Occupied \cup {terminal_now}
    BY <1>1 DEF Occupied, TypeOK
  <1>6. pcb_array'[terminal_now] = n /\ parent_id'[n] = IF Cur = NoProc THEN n ELSE cpu
    BY <1>1, <1>3 DEF TypeOK
  <1>7. \A t \in Occupied \ {terminal_now} :
            /\ pcb_array'[t] = pcb_array[t] /\ parent_id'[pcb_array[t]] = Root(t)
            /\ Root(t)' = Root(t)
    BY <1>1, <1>4 DEF TypeOK, Root
  <1>8. Root(terminal_now)' = IF Cur = NoProc THEN n ELSE cpu
    BY <1>6 DEF Root
  <1>9. \A t \in Occupied \ {terminal_now} :
            /\ parent_id'[Root(t)] = Root(t) /\ id_array'[pcb_array[t]] = 1
            /\ id_array'[Root(t)] = 1 /\ caller'[pcb_array[t]] = caller[pcb_array[t]]
    BY <1>1, <1>4 DEF QuietInv, ShallowTrees, TypeOK
  <1>10. Cur # NoProc => /\ id_array'[cpu] = 1 /\ parent_id'[cpu] = cpu /\ cpu # n
                         /\ \A t \in Occupied \ {terminal_now} : pcb_array[t] # cpu /\ Root(t) # cpu
    <2> SUFFICES ASSUME Cur # NoProc
                 PROVE  /\ id_array'[cpu] = 1 /\ parent_id'[cpu] = cpu /\ cpu # n
                        /\ \A t \in Occupied \ {terminal_now} : pcb_array[t] # cpu /\ Root(t) # cpu
      OBVIOUS
    <2>1. /\ terminal_now \in Occupied /\ pcb_array[terminal_now] = cpu
          /\ Root(terminal_now) = cpu /\ parent_id[cpu] = cpu
      BY DEF Cur, Root
    <2>2. cpu \in Id /\ id_array[cpu] = 1 /\ cpu # n
      BY <2>1, <1>4 DEF QuietInv, ShallowTrees
    <2>3. id_array'[cpu] = 1 /\ parent_id'[cpu] = cpu
      BY <2>1, <2>2, <1>1 DEF TypeOK
    <2>4. ASSUME NEW t \in Occupied \ {terminal_now} PROVE pcb_array[t] # cpu /\ Root(t) # cpu
      <3>1. {pcb_array[t], Root(t)} \cap {pcb_array[terminal_now], Root(terminal_now)} = {}
        BY <2>1 DEF QuietInv, ShallowTrees
      <3> QED BY <2>1, <3>1
    <2> QED BY <2>2, <2>3, <2>4
  <1>11. id_array'[n] = 1 /\ caller'[n] = cpu
    BY <1>1 DEF TypeOK
  <1>12. ShallowTrees'
    <2>1. parent_array' = pcb_array'
      BY <1>1, <1>2
    <2>2. \A t \in Occupied' :
            /\ pcb_array'[t] \in Id /\ parent_id'[Root(t)'] = Root(t)'
            /\ id_array'[pcb_array'[t]] = 1 /\ id_array'[Root(t)'] = 1
            /\ pcb_array'[t] # Root(t)' => caller'[pcb_array'[t]] = Root(t)'
      <3> TAKE t \in Occupied'
      <3>1. CASE t = terminal_now
        <4>1. CASE Cur = NoProc
          BY <3>1, <4>1, <1>6, <1>8, <1>11
        <4>2. CASE Cur # NoProc
          BY <3>1, <4>2, <1>6, <1>8, <1>10, <1>11
        <4> QED BY <4>1, <4>2
      <3>2. CASE t # terminal_now
        BY <3>2, <1>4, <1>5, <1>7, <1>9 DEF QuietInv, ShallowTrees
      <3> QED BY <3>1, <3>2
    <2>3. \A t, u \in Occupied' :
            t # u => {pcb_array'[t], Root(t)'} \cap {pcb_array'[u], Root(u)'} = {}
      BY <1>4, <1>5, <1>6, <1>7, <1>8, <1>10 DEF QuietInv, ShallowTrees
    <2> QED BY <2>1, <2>2, <2>3 DEF ShallowTrees
  <1>13. NoLeak'
    <2> SUFFICES ASSUME NEW p \in Id, id_array'[p] = 1
                 PROVE  \E t \in Occupied' : p \in {pcb_array'[t], Root(t)'}
      BY DEF NoLeak
    <2>1. CASE p = n
      BY <2>1, <1>5, <1>6
    <2>2. CASE p # n
      <3>1. id_array[p] = 1
        BY <2>2, <1>1 DEF TypeOK
      <3>2. PICK t \in Occupied : p \in {pcb_array[t], Root(t)}
        BY <3>1 DEF QuietInv, NoLeak
      <3>3. CASE t = terminal_now
        BY <3>2, <3>3, <1>5, <1>8 DEF Cur, Root, Occupied
      <3>4. CASE t # terminal_now
        BY <3>2, <3>4, <1>5, <1>7
      <3> QED BY <3>3, <3>4
    <2> QED BY <2>1, <2>2
  <1> QED BY <1>4, <1>5, <1>6, <1>7, <1>12, <1>13

(* What execute leaves behind once the new process is loaded. *)
LEMMA LoadInv ==
    ASSUME TypeOK, QuietInv, NEW n \in Id, IsFirstFree(n), Load(n),
           terminal_now = cur_display, UNCHANGED <<terminal_now, cur_display>>,
           Cur = NoProc \/ (terminal_now \in Occupied /\ Cur = cpu /\ parent_id[cpu] = cpu),
           \A t \in Occupied : pcb_array[t] # Cur =>
               ctx[pcb_array[t]] = [flow |-> pcb_array[t], depth |-> 0],
           \A t \in Occupied : pcb_array[t] # Cur => at[pcb_array[t]] # "command",
           ~Halting, \E t \in Occupied : cpu = pcb_array[t],
           at' = IF Cur = NoProc THEN [at EXCEPT ![n] = "prompt"]
                 ELSE [at EXCEPT ![cpu] = "waiting", ![n] = "program"],
           \A p \in Id : frames'[p] = IF p = n THEN <<Launch>> ELSE <<>>
    PROVE  QuietInv'
  <1>1. /\ ShallowTrees' /\ NoLeak' /\ Occupied' = Occupied \cup {terminal_now}
        /\ pcb_array'[terminal_now] = n
        /\ parent_id'[n] = IF Cur = NoProc THEN n ELSE cpu
        /\ \A t \in Occupied \ {terminal_now} :
              /\ pcb_array'[t] = pcb_array[t] /\ parent_id'[pcb_array[t]] = Root(t)
              /\ pcb_array[t] # n /\ Root(t) # n
        /\ \A t \in Occupied : pcb_array[t] # n /\ Root(t) # n
    BY LoadTables
  <1>2. /\ cpu' = n /\ user_page' = n /\ esp0' = n /\ id_array[n] = 0
        /\ id_array' = [id_array EXCEPT ![n] = 1]
        /\ ctx' = [p \in Id |-> IF p = n \/ ctx[p].flow = n THEN NoCtx ELSE ctx[p]]
    BY DEF Load, IsFirstFree
  <1>3. Launch.kind = "launch"
    BY DEF Launch, PcbFrame
  <1>4. OnePath' /\ \A k : InKernel(k)' => k = "launch"
    BY <1>2, <1>3 DEF OnePath, Idle, InKernel, Top
  <1>5. ~Halting' /\ ~Shifting' /\ ~InKernel("switch")' /\ ~InKernel("shift")'
        /\ ~InKernel("named")' /\ ~InKernel("open")'
    BY <1>4 DEF Halting, Shifting
  <1>6. MidPath'
    BY <1>1, <1>2, <1>5 DEF MidPath, Settled, Cur
  <1>7. \A t \in Occupied : t \in Term /\ pcb_array[t] \in Id /\ Root(t) \in Id
    BY DEF QuietInv, ShallowTrees, Occupied, TypeOK, Root
  <1>8. Resumable'
    <2> SUFFICES ASSUME NEW t \in Occupied', pcb_array'[t] # n
                 PROVE  ctx'[pcb_array'[t]] = [flow |-> pcb_array'[t], depth |-> 0]
      BY <1>2 DEF Resumable
    <2>1. t \in Occupied \ {terminal_now} /\ pcb_array'[t] = pcb_array[t]
      BY <1>1
    <2>2. pcb_array[t] # Cur
      <3>1. CASE Cur = NoProc
        BY <2>1, <3>1 DEF Occupied
      <3>2. CASE Cur # NoProc
        <4>1. terminal_now \in Occupied
          BY <3>2
        <4>2. {pcb_array[t], Root(t)} \cap {pcb_array[terminal_now], Root(terminal_now)} = {}
          BY <2>1, <4>1 DEF QuietInv, ShallowTrees
        <4> QED BY <4>2 DEF Cur
      <3> QED BY <3>1, <3>2
    <2> QED BY <2>1, <2>2, <1>1, <1>2, <1>7
  <1>9. cpu \in Id /\ cpu # n /\ id_array[cpu] = 1
    BY <1>1 DEF QuietInv, ShallowTrees
  <1>10. \A t \in Occupied \ {terminal_now} :
            /\ pcb_array[t] # Cur /\ at'[pcb_array[t]] = at[pcb_array[t]]
            /\ at'[Root(t)] = at[Root(t)]
    <2> SUFFICES ASSUME NEW t \in Occupied \ {terminal_now}
                 PROVE  /\ pcb_array[t] # Cur /\ at'[pcb_array[t]] = at[pcb_array[t]]
                        /\ at'[Root(t)] = at[Root(t)]
      OBVIOUS
    <2>1. CASE Cur = NoProc
      BY <2>1, <1>1, <1>7 DEF Occupied, TypeOK
    <2>2. CASE Cur # NoProc
      <3>1. terminal_now \in Occupied /\ pcb_array[terminal_now] = cpu
        BY <2>2 DEF Cur
      <3>2. {pcb_array[t], Root(t)} \cap {pcb_array[terminal_now], Root(terminal_now)} = {}
        BY <3>1 DEF QuietInv, ShallowTrees
      <3>3. pcb_array[t] # cpu /\ Root(t) # cpu
        BY <3>1, <3>2
      <3> QED BY <2>2, <3>1, <3>3, <1>1, <1>7 DEF Cur, TypeOK
    <2> QED BY <2>1, <2>2
  <1>11. Roles'
    <2>1. at'[n] = (IF Cur = NoProc THEN "prompt" ELSE "program")
          /\ (Cur # NoProc => at'[cpu] = "waiting")
      BY <1>9 DEF TypeOK
    <2>2. \A p \in Id : at'[p] = "waiting" => id_array'[p] = 1
      <3> SUFFICES ASSUME NEW p \in Id, at'[p] = "waiting" PROVE id_array'[p] = 1
        OBVIOUS
      <3>1. p # n
        BY <2>1
      <3>2. id_array[p] = 1
        BY <3>1, <1>9 DEF QuietInv, Roles, TypeOK
      <3> QED BY <3>1, <3>2, <1>2 DEF TypeOK
    <2>3. \A t \in Occupied' : t = terminal_now => Root(t)' = IF Cur = NoProc THEN n ELSE cpu
      BY <1>1 DEF Root
    <2>4. \A t \in Occupied \ {terminal_now} : Root(t)' = Root(t)
      BY <1>1 DEF Root
    <2>5. \A t \in Occupied' :
            /\ pcb_array'[t] # Root(t)' => at'[pcb_array'[t]] = "program" /\ at'[Root(t)'] = "waiting"
            /\ pcb_array'[t] = Root(t)' => at'[pcb_array'[t]] \in {"prompt", "command"}
            /\ at'[pcb_array'[t]] # "command"
      <3> TAKE t \in Occupied'
      <3>1. CASE t = terminal_now /\ Cur = NoProc
        BY <3>1, <2>1, <2>3, <1>1
      <3>2. CASE t = terminal_now /\ Cur # NoProc
        BY <3>2, <2>1, <2>3, <1>1, <1>9
      <3>3. CASE t # terminal_now
        <4>0. t \in Occupied \ {terminal_now}
          BY <3>3, <1>1
        <4>1. /\ pcb_array'[t] = pcb_array[t]
              /\ Root(t)' = Root(t) /\ at'[pcb_array[t]] = at[pcb_array[t]]
              /\ at'[Root(t)] = at[Root(t)] /\ at[pcb_array[t]] # "command"
          <5>1. pcb_array'[t] = pcb_array[t]
            BY <4>0, <1>1
          <5>2. Root(t)' = Root(t)
            BY <4>0, <2>4
          <5>3. pcb_array[t] # Cur /\ at'[pcb_array[t]] = at[pcb_array[t]]
                /\ at'[Root(t)] = at[Root(t)]
            BY <4>0, <1>10
          <5>4. at[pcb_array[t]] # "command"
            BY <4>0, <5>3
          <5> QED BY <5>1, <5>2, <5>3, <5>4
        <4>2. /\ pcb_array[t] # Root(t) => at[pcb_array[t]] = "program" /\ at[Root(t)] = "waiting"
              /\ pcb_array[t] = Root(t) => at[pcb_array[t]] \in {"prompt", "command"}
          BY <4>0 DEF QuietInv, Roles
        <4> QED BY <4>1, <4>2
      <3> QED BY <3>1, <3>2, <3>3
    <2> QED BY <2>2, <2>5, <1>5 DEF Roles
  <1> QED BY <1>1, <1>4, <1>6, <1>8, <1>11 DEF QuietInv

LEMMA ExecuteInv ==
    ASSUME TypeOK, QuietInv, Quiet, NEW c \in Commands, Execute(c)
    PROVE  QuietInv'
  <1>1. /\ InUser /\ at[cpu] = "command" /\ c = "program"
        /\ UNCHANGED <<terminal_now, cur_display>>
    BY DEF Execute, Quiet
  <1>2. PICK n \in Id : /\ IsFirstFree(n) /\ Load(n)
                        /\ at' = [at EXCEPT ![cpu] = "waiting", ![n] = "program"]
                        /\ frames' = [frames EXCEPT ![n] = <<Launch>>]
    BY <1>1 DEF Execute
  <1>3. /\ cpu = Cur /\ terminal_now \in Occupied /\ cpu \in Id /\ parent_id[cpu] = cpu
        /\ terminal_now = cur_display /\ Cur # NoProc
    BY <1>1, ShellIsRoot DEF Id, NoProc
  <1>4. ~Halting /\ \A p \in Id : frames[p] = <<>>
    BY <1>1 DEF InUser, QuietInv, OnePath, Idle, Halting, InKernel
  <1>5. \A p \in Id : frames'[p] = IF p = n THEN <<Launch>> ELSE <<>>
    BY <1>2, <1>4 DEF TypeOK
  <1>6. \A t \in Occupied : pcb_array[t] # Cur =>
            /\ ctx[pcb_array[t]] = [flow |-> pcb_array[t], depth |-> 0]
            /\ at[pcb_array[t]] # "command"
    BY <1>3, <1>4 DEF QuietInv, Resumable, Roles, Cur
  <1> QED BY <1>1, <1>2, <1>3, <1>4, <1>5, <1>6, LoadInv DEF Cur

LEMMA ShiftLaunchInv == TypeOK /\ QuietInv /\ ShiftLaunch => QuietInv'
  <1> SUFFICES ASSUME TypeOK, QuietInv, ShiftLaunch PROVE QuietInv'
    OBVIOUS
  <1>1. InKernel("open") /\ UNCHANGED <<terminal_now, cur_display>>
    BY DEF ShiftLaunch
  <1>2. PICK n \in Id : /\ IsFirstFree(n) /\ Load(n)
                        /\ at' = [at EXCEPT ![n] = "prompt"]
                        /\ frames' = [frames EXCEPT ![cpu] = Under(@), ![n] = <<Launch>>]
    BY DEF ShiftLaunch
  <1>3. ~Idle(cpu) /\ ~Halting /\ Shifting /\ cpu \in Id /\ Under(frames[cpu]) = <<>>
        /\ Top(cpu).last \in Term
    BY <1>1, OneFrame DEF InKernel, Halting, Shifting, QuietInv, OnePath, Frame
  <1>4. /\ terminal_now = cur_display /\ Cur = NoProc
        /\ pcb_array[Top(cpu).last] = cpu /\ ctx[cpu] = [flow |-> cpu, depth |-> 0]
    BY <1>1 DEF QuietInv, MidPath
  <1>5. \E t \in Occupied : cpu = pcb_array[t]
    BY <1>3, <1>4 DEF Occupied, Id, NoProc
  <1>6. \A p \in Id : frames'[p] = IF p = n THEN <<Launch>> ELSE <<>>
    BY <1>2, <1>3 DEF QuietInv, OnePath, Idle, TypeOK
  <1>7. \A t \in Occupied : /\ ctx[pcb_array[t]] = [flow |-> pcb_array[t], depth |-> 0]
                           /\ at[pcb_array[t]] # "command"
    BY <1>3, <1>4 DEF QuietInv, Resumable, Roles
  <1> QED BY <1>1, <1>2, <1>3, <1>4, <1>5, <1>6, <1>7, LoadInv

-----------------------------------------------------------------------------
(* pit_handler *)

(* In the quiet environment an interrupt finds the running process settled. *)
LEMMA WhenInterrupted ==
    ASSUME TypeOK, QuietInv, Quiet, Interruptible
    PROVE  /\ InUser /\ Idle(cpu) /\ Settled /\ cpu \in Id
           /\ terminal_now \in Occupied /\ Cur = cpu
           /\ (\A k : ~InKernel(k)) /\ ~Halting /\ ~Shifting
  <1>1. InUser /\ Idle(cpu)
    BY InterruptsWhenIdle
  <1>2. \A k : ~InKernel(k)
    BY <1>1 DEF InKernel
  <1> QED BY <1>1, <1>2, ShellIsRoot DEF Halting, Shifting

(* No two terminals have the same current process. *)
LEMMA OneTerminal ==
    ASSUME QuietInv, NEW t \in Occupied, NEW u \in Occupied, pcb_array[t] = pcb_array[u]
    PROVE  t = u
  <1> SUFFICES ASSUME t # u PROVE FALSE
    OBVIOUS
  <1>1. {pcb_array[t], Root(t)} \cap {pcb_array[u], Root(u)} = {}
    BY DEF QuietInv, ShallowTrees
  <1> QED BY <1>1

LEMMA PitSameInv ==
    ASSUME TypeOK, QuietInv, Quiet, PitSame
    PROVE  QuietInv'
  <1>1. PICK t \in Term : pcb_array[t] = Cur /\ terminal_now' = t
    BY DEF PitSame
  <1>2. terminal_now \in Occupied /\ Interruptible
    BY WhenInterrupted DEF PitSame
  <1>3. t \in Occupied
    BY <1>1, <1>2 DEF Occupied, Cur
  <1>4. terminal_now' = terminal_now
    BY <1>1, <1>2, <1>3, OneTerminal DEF Cur
  <1>5. UNCHANGED <<tables, cur_display, ctx, user_page, esp0, cpu, at, frames>>
    BY DEF PitSame
  <1>6. /\ OnePath' /\ (Idle(cpu)' <=> Idle(cpu)) /\ Top(cpu)' = Top(cpu)
        /\ \A k : InKernel(k)' <=> InKernel(k)
    BY <1>5, SamePath DEF QuietInv
  <1>7. Halting' = Halting /\ Shifting' = Shifting
    BY <1>6 DEF Halting, Shifting
  <1>8. Roles' /\ Resumable'
    BY <1>4, <1>5, <1>7, SameTables DEF QuietInv, Roles, Resumable, tables
  <1>9. MidPath'
    BY <1>2, <1>4, <1>5, <1>6, WhenInterrupted DEF MidPath, Settled, Cur, tables, Halting
  <1> QED BY <1>5, <1>6, <1>8, <1>9, SameTables DEF QuietInv

LEMMA PitSelectInv ==
    ASSUME TypeOK, QuietInv, Quiet, PitSelect
    PROVE  QuietInv'
  <1>1. PICK t \in Term :
            /\ pcb_array[t] # NoProc /\ pcb_array[t] # Cur /\ terminal_now' = t
            /\ user_page' = pcb_array[t] /\ esp0' = pcb_array[t]
            /\ Push(PcbFrame("switch", Cur, pcb_array[t]))
    BY DEF PitSelect, IsNext
  <1>2. /\ Interruptible /\ UNCHANGED <<tables, cur_display, ctx, cpu, at>>
    BY DEF PitSelect
  <1>3. /\ Idle(cpu) /\ cpu \in Id /\ terminal_now \in Occupied /\ Cur = cpu
        /\ ~Halting /\ ~Shifting
    BY <1>2, WhenInterrupted
  <1>4. t \in Occupied /\ pcb_array[t] \in Id
    BY <1>1 DEF Occupied, QuietInv, ShallowTrees
  <1> DEFINE f == PcbFrame("switch", Cur, pcb_array[t])
  <1>5. f \in Frame /\ f.kind = "switch" /\ f.cur = cpu /\ f.next = pcb_array[t]
    BY <1>3, <1>4, FrameType DEF PcbFrame
  <1>6. /\ OnePath' /\ ~Idle(cpu)' /\ Top(cpu)' = f
        /\ \A k : InKernel(k)' <=> k = "switch"
    <2> HIDE DEF f
    <2>1. cpu' = cpu /\ frames' = [frames EXCEPT ![cpu] = Append(@, f)]
      BY <1>1, <1>2 DEF Push, f
    <2> QED BY <1>3, <1>5, <2>1, PathStarts DEF QuietInv
  <1>7. ~Halting' /\ ~Shifting'
    BY <1>6 DEF Halting, Shifting
  <1>8. Roles' /\ Resumable'
    BY <1>2, <1>3, <1>7, SameTables DEF QuietInv, Roles, Resumable, tables
  <1>9. MidPath'
    <2>1. Cur' = pcb_array[t] /\ cpu \in {pcb_array'[u] : u \in Occupied'}
      BY <1>1, <1>2, <1>3, SameTables DEF Cur, tables
    <2>2. /\ Top(cpu)'.cur = cpu' /\ cpu' \in {pcb_array'[u] : u \in Occupied'}
          /\ Cur' \in Id /\ Cur' # cpu' /\ Top(cpu)'.next = Cur'
          /\ user_page' = Cur' /\ esp0' = Cur'
      BY <1>1, <1>2, <1>3, <1>4, <1>5, <1>6, <2>1
    <2> QED BY <1>6, <1>7, <2>2 DEF MidPath
  <1> QED BY <1>2, <1>6, <1>8, <1>9, SameTables DEF QuietInv

(* The context stored is that of the process that leaves, the one loaded    *)
(* that of the process the terminal gets.                                   *)
LEMMA PitSwitchInv == TypeOK /\ QuietInv /\ PitSwitch => QuietInv'
  <1> SUFFICES ASSUME TypeOK, QuietInv, PitSwitch PROVE QuietInv'
    OBVIOUS
  <1>1. InKernel("switch") /\ ~Idle(cpu) /\ cpu \in Id /\ ~Halting /\ ~Shifting
    BY DEF PitSwitch, InKernel, Halting, Shifting, QuietInv, OnePath
  <1>2. /\ Top(cpu).cur = cpu /\ Top(cpu).next = Cur /\ Cur \in Id /\ Cur # cpu
        /\ user_page = Cur /\ esp0 = Cur
    BY <1>1 DEF QuietInv, MidPath
  <1>3. /\ Under(frames[cpu]) = <<>> /\ Len(frames[cpu]) = 1
        /\ frames[cpu][1].kind = "switch"
    BY <1>1, OneFrame DEF QuietInv, InKernel
  <1>4. terminal_now \in Occupied /\ pcb_array[terminal_now] = Cur
    BY <1>2 DEF Occupied, Cur, Id, NoProc, TypeOK
  <1>5. ctx[Cur] = [flow |-> Cur, depth |-> 0]
    BY <1>1, <1>2, <1>4 DEF QuietInv, Resumable
  <1> DEFINE saved == SavedIn(cpu)
             rest == [frames EXCEPT ![cpu] = Under(@)]
  <1>6. \A p \in Id : rest[p] = <<>>
    BY <1>1, <1>3 DEF QuietInv, OnePath, Idle, TypeOK
  <1>7. /\ cpu' = Cur /\ \A p \in Id : frames'[p] = <<>>
    <2>1. IF Alive(ctx[Cur], rest)
          THEN cpu' = Cur /\ frames' = [rest EXCEPT ![Cur] = SubSeq(@, 1, 0)]
          ELSE cpu' = NoProc /\ frames' = rest
      BY <1>2, <1>5 DEF PitSwitch
    <2>2. rest \in [Id -> Seq(Frame)]
      BY <1>1, <1>3 DEF TypeOK
    <2> HIDE DEF rest
    <2>3. Alive(ctx[Cur], rest)
      BY <1>2, <1>5, <1>6 DEF Alive, Id, NoProc
    <2>4. frames' = [rest EXCEPT ![Cur] = SubSeq(@, 1, 0)]
      BY <2>1, <2>3
    <2>5. SubSeq(rest[Cur], 1, 0) = <<>>
      BY <1>2, <2>2, SubSeqEmpty
    <2>6. \A p \in Id : frames'[p] = <<>>
      BY <1>2, <1>6, <2>2, <2>4, <2>5
    <2> QED BY <2>1, <2>3, <2>6
  <1>8. \A f \in IdOrNone, q \in Id : ~OnStackOf(f, q)
    BY <1>1, <1>3 DEF OnStackOf, QuietInv, OnePath, IdOrNone, Idle
  <1>9. /\ \A p \in Id : saved[p] = IF p = cpu THEN [flow |-> cpu, depth |-> 0] ELSE ctx[p]
    BY <1>3 DEF SavedIn
  <1>10. \A p \in Id : p # Cur => ctx'[p] = saved[p]
    <2>1. ctx' = [p \in Id |-> IF p = Cur \/ OnStackOf(saved[p].flow, Cur)
                               THEN NoCtx ELSE saved[p]]
      BY <1>2, <1>5 DEF PitSwitch
    <2>2. \A p \in Id : saved[p].flow \in IdOrNone
      <3> HIDE DEF saved
      <3>1. \A p \in Id : ctx[p].flow \in IdOrNone
        BY DEF TypeOK, Context
      <3>2. cpu \in IdOrNone /\ [flow |-> cpu, depth |-> 0].flow = cpu
        BY <1>1 DEF IdOrNone
      <3> QED BY <1>9, <3>1, <3>2
    <2> HIDE DEF saved
    <2> QED BY <1>2, <1>8, <2>1, <2>2
  <1>11. UNCHANGED <<tables, terminal_now, cur_display, user_page, esp0, at>>
    BY DEF PitSwitch
  <1>12. OnePath' /\ Idle(cpu)' /\ \A k : ~InKernel(k)'
    BY <1>2, <1>7 DEF OnePath, Idle, InKernel
  <1>13. ~Halting' /\ ~Shifting'
    BY <1>12 DEF Halting, Shifting
  <1>14. Roles'
    BY <1>1, <1>11, <1>13, SameTables DEF QuietInv, Roles, tables
  <1>15. Resumable'
    <2> SUFFICES ASSUME NEW t \in Occupied, pcb_array[t] # Cur
                 PROVE  ctx'[pcb_array[t]] = [flow |-> pcb_array[t], depth |-> 0]
      BY <1>7, <1>11, SameTables DEF Resumable, tables
    <2>1. pcb_array[t] \in Id /\ ctx'[pcb_array[t]] = saved[pcb_array[t]]
      BY <1>10 DEF QuietInv, ShallowTrees
    <2> HIDE DEF saved
    <2> QED BY <1>1, <1>9, <2>1 DEF QuietInv, Resumable
  <1>16. MidPath'
    BY <1>2, <1>7, <1>11, <1>12, <1>13 DEF MidPath, Settled, Cur, tables
  <1> QED BY <1>11, <1>12, <1>14, <1>15, <1>16, SameTables DEF QuietInv

-----------------------------------------------------------------------------
(* terminal_shift *)

(* While a shift is under way no shell has a line it has not executed. *)
LEMMA NobodyBusy ==
    ASSUME TypeOK, QuietInv, Shifting
    PROVE  /\ ~Idle(cpu) /\ cpu \in Id /\ ~Halting
           /\ \A t \in Occupied : at[pcb_array[t]] # "command"
  BY DEF QuietInv, OnePath, Roles, Shifting, Halting, InKernel

LEMMA ShiftStoreInv ==
    ASSUME TypeOK, QuietInv, Quiet, NEW t \in Term, ShiftStore(t)
    PROVE  QuietInv'
  <1> DEFINE f == ShiftFrame("shift", t, terminal_now, cur_display)
  <1>1. /\ Interruptible /\ ~ShownIsBusy /\ Push(f)
        /\ UNCHANGED <<tables, terminal_now, cur_display, ctx, user_page, esp0, cpu, at>>
    BY DEF ShiftStore, Quiet
  <1>2. /\ Idle(cpu) /\ cpu \in Id /\ Settled /\ ~Halting /\ ~Shifting
    BY <1>1, WhenInterrupted
  <1>3. f \in Frame /\ f.kind = "shift" /\ f.last = terminal_now
    BY FrameType DEF ShiftFrame, TypeOK
  <1>4. /\ OnePath' /\ ~Idle(cpu)' /\ Top(cpu)' = f
        /\ \A k : InKernel(k)' <=> k = "shift"
    <2> HIDE DEF f
    <2>1. cpu' = cpu /\ frames' = [frames EXCEPT ![cpu] = Append(@, f)]
      BY <1>1 DEF Push
    <2> QED BY <1>2, <1>3, <2>1, PathStarts DEF QuietInv
  <1>5. ~Halting'
    BY <1>4 DEF Halting
  <1>6. \A u \in Occupied : at[pcb_array[u]] # "command"
    BY <1>1 DEF QuietInv, Roles, ShownIsBusy, Occupied
  <1>7. Roles' /\ Resumable'
    BY <1>1, <1>2, <1>5, <1>6, SameTables DEF QuietInv, Roles, Resumable, tables
  <1>8. MidPath'
    BY <1>1, <1>2, <1>3, <1>4, <1>5 DEF MidPath, Settled, Cur, tables
  <1> QED BY <1>1, <1>4, <1>7, <1>8, SameTables DEF QuietInv

(* A switch that goes on in another frame is still the one path under way. *)
LEMMA PathGoesOn ==
    ASSUME TypeOK, OnePath, ~Idle(cpu), NEW f \in Frame, Replace(f), cpu' = cpu
    PROVE  /\ OnePath' /\ ~Idle(cpu)' /\ Top(cpu)' = f
           /\ \A k : InKernel(k)' <=> k = f.kind
  <1>1. Under(frames[cpu]) = <<>> /\ cpu \in Id
    BY OneFrame DEF OnePath
  <1>2. frames' = [frames EXCEPT ![cpu] = <<f>>]
    BY <1>1 DEF Replace, TypeOK
  <1>3. frames'[cpu] = <<f>> /\ \A p \in Id \ {cpu} : frames'[p] = frames[p]
    BY <1>1, <1>2 DEF TypeOK
  <1>4. Len(frames'[cpu]) = 1 /\ frames'[cpu][1] = f /\ frames'[cpu] # <<>>
    BY <1>3
  <1>5. cpu # NoProc
    BY <1>1 DEF Id, NoProc
  <1> QED BY <1>1, <1>3, <1>4, <1>5 DEF OnePath, Idle, Top, InKernel, Running

LEMMA ShiftNameInv == TypeOK /\ QuietInv /\ ShiftName => QuietInv'
  <1> SUFFICES ASSUME TypeOK, QuietInv, ShiftName PROVE QuietInv'
    OBVIOUS
  <1> DEFINE f == [Top(cpu) EXCEPT !.kind = "named"]
  <1>1. /\ InKernel("shift") /\ Replace(f)
        /\ UNCHANGED <<tables, terminal_now, ctx, user_page, esp0, cpu, at>>
    BY DEF ShiftName
  <1>2. /\ ~Idle(cpu) /\ cpu \in Id /\ ~Halting
        /\ \A t \in Occupied : at[pcb_array[t]] # "command"
    BY <1>1, NobodyBusy DEF Shifting
  <1>3. Top(cpu) \in Frame /\ Top(cpu).kind = "shift"
    BY <1>1, <1>2, TopType DEF InKernel
  <1>4. Settled /\ Top(cpu).last = terminal_now
    BY <1>1 DEF QuietInv, MidPath
  <1>5. f \in Frame /\ f.kind = "named" /\ f.last = terminal_now
    BY <1>3, <1>4 DEF Frame, AnyFrame, Kind
  <1> HIDE DEF f
  <1>6. /\ OnePath' /\ ~Idle(cpu)' /\ Top(cpu)' = f
        /\ \A k : InKernel(k)' <=> k = "named"
    BY <1>1, <1>2, <1>5, PathGoesOn DEF QuietInv
  <1>7. ~Halting'
    BY <1>6 DEF Halting
  <1>8. Roles' /\ Resumable'
    BY <1>1, <1>2, <1>7, SameTables DEF QuietInv, Roles, Resumable, tables
  <1>9. MidPath'
    BY <1>1, <1>4, <1>5, <1>6, <1>7 DEF MidPath, Settled, Cur, tables
  <1> QED BY <1>1, <1>6, <1>8, <1>9, SameTables DEF QuietInv

LEMMA ShiftLoadInv == TypeOK /\ QuietInv /\ ShiftLoad => QuietInv'
  <1> SUFFICES ASSUME TypeOK, QuietInv, ShiftLoad PROVE QuietInv'
    OBVIOUS
  <1>1. /\ InKernel("named") /\ Pop
        /\ UNCHANGED <<tables, terminal_now, ctx, user_page, esp0, cpu, at>>
    BY DEF ShiftLoad
  <1>2. /\ ~Idle(cpu) /\ cpu \in Id /\ ~Halting
        /\ \A t \in Occupied : at[pcb_array[t]] # "command"
    BY <1>1, NobodyBusy DEF Shifting
  <1>3. OnePath' /\ Idle(cpu)' /\ \A k : ~InKernel(k)'
    BY <1>1, <1>2, PathEnds DEF QuietInv, Pop
  <1>4. ~Halting' /\ ~Shifting'
    BY <1>3 DEF Halting, Shifting
  <1>5. Roles' /\ Resumable'
    BY <1>1, <1>2, <1>4, SameTables DEF QuietInv, Roles, Resumable, tables
  <1>6. MidPath'
    BY <1>1, <1>3, <1>4 DEF QuietInv, MidPath, Settled, Cur, tables
  <1> QED BY <1>1, <1>3, <1>5, <1>6, SameTables DEF QuietInv

(* The interrupted process is saved before terminal_now names the new       *)
(* terminal, as pit_handler would find it.                                  *)
LEMMA ShiftOpenInv == TypeOK /\ QuietInv /\ ShiftOpen => QuietInv'
  <1> SUFFICES ASSUME TypeOK, QuietInv, ShiftOpen PROVE QuietInv'
    OBVIOUS
  <1> DEFINE f == [Top(cpu) EXCEPT !.kind = "open"]
  <1>1. /\ InKernel("named") /\ pcb_array[cur_display] = NoProc
        /\ terminal_now' = cur_display
        /\ ctx' = SavedIn(Cur) /\ Replace(f)
        /\ UNCHANGED <<tables, cur_display, user_page, esp0, cpu, at>>
    BY DEF ShiftOpen, HasShell
  <1>2. /\ ~Idle(cpu) /\ cpu \in Id /\ ~Halting
        /\ \A t \in Occupied : at[pcb_array[t]] # "command"
    BY <1>1, NobodyBusy DEF Shifting
  <1>3. /\ Under(frames[cpu]) = <<>> /\ Len(frames[cpu]) = 1 /\ Top(cpu) \in Frame
    BY <1>2, OneFrame DEF QuietInv
  <1>4. Settled /\ Top(cpu).last = terminal_now
    BY <1>1 DEF QuietInv, MidPath
  <1>5. f \in Frame /\ f.kind = "open" /\ f.last = terminal_now
    BY <1>1, <1>3, <1>4 DEF Frame, AnyFrame, Kind, InKernel
  <1>6. /\ OnePath' /\ ~Idle(cpu)' /\ Top(cpu)' = f
        /\ \A k : InKernel(k)' <=> k = "open"
    <2> HIDE DEF f
    <2> QED BY <1>1, <1>2, <1>5, PathGoesOn DEF QuietInv
  <1>7. ~Halting'
    BY <1>6 DEF Halting
  <1>8. \A p \in Id : ctx'[p] = IF p = cpu THEN [flow |-> cpu, depth |-> 0] ELSE ctx[p]
    BY <1>1, <1>3, <1>4 DEF SavedIn, Settled
  <1>9. Roles'
    BY <1>1, <1>2, <1>7, SameTables DEF QuietInv, Roles, tables
  <1>10. Resumable'
    <2> SUFFICES ASSUME NEW t \in Occupied, pcb_array[t] # cpu
                 PROVE  ctx'[pcb_array[t]] = [flow |-> pcb_array[t], depth |-> 0]
      BY <1>1, <1>7, SameTables DEF Resumable, tables
    <2>1. pcb_array[t] \in Id /\ ctx'[pcb_array[t]] = ctx[pcb_array[t]]
      BY <1>8 DEF QuietInv, ShallowTrees
    <2> QED BY <1>2, <2>1 DEF QuietInv, Resumable
  <1>11. MidPath'
    <2>1. /\ terminal_now' = cur_display' /\ Cur' = NoProc
          /\ pcb_array'[Top(cpu)'.last] = cpu' /\ user_page' = cpu' /\ esp0' = cpu'
          /\ ctx'[cpu'] = [flow |-> cpu', depth |-> 0]
      BY <1>1, <1>2, <1>4, <1>5, <1>6, <1>8 DEF Settled, Cur, tables
    <2> QED BY <1>6, <1>7, <2>1 DEF MidPath
  <1> QED BY <1>1, <1>6, <1>9, <1>10, <1>11, SameTables DEF QuietInv

LEMMA ShiftRevertInv == TypeOK /\ QuietInv /\ ShiftRevert => QuietInv'
  <1> SUFFICES ASSUME TypeOK, QuietInv, ShiftRevert PROVE QuietInv'
    OBVIOUS
  <1>1. /\ InKernel("open") /\ Pop /\ terminal_now' = Top(cpu).last
        /\ UNCHANGED <<tables, ctx, user_page, esp0, cpu, at>>
    BY DEF ShiftRevert
  <1>2. /\ ~Idle(cpu) /\ cpu \in Id /\ ~Halting
        /\ \A t \in Occupied : at[pcb_array[t]] # "command"
    BY <1>1, NobodyBusy DEF Shifting
  <1>3. OnePath' /\ Idle(cpu)' /\ \A k : ~InKernel(k)'
    BY <1>1, <1>2, PathEnds DEF QuietInv, Pop
  <1>4. ~Halting' /\ ~Shifting'
    BY <1>3 DEF Halting, Shifting
  <1>5. pcb_array[Top(cpu).last] = cpu /\ user_page = cpu /\ esp0 = cpu
    BY <1>1 DEF QuietInv, MidPath
  <1>6. Roles' /\ Resumable'
    BY <1>1, <1>2, <1>4, SameTables DEF QuietInv, Roles, Resumable, tables
  <1>7. MidPath'
    BY <1>1, <1>3, <1>4, <1>5 DEF MidPath, Settled, Cur, tables
  <1> QED BY <1>1, <1>3, <1>6, <1>7, SameTables DEF QuietInv

-----------------------------------------------------------------------------
LEMMA QuietNext == TypeOK /\ Quiet /\ QuietInv /\ [Next]_vars => QuietInv'
  <1> SUFFICES ASSUME TypeOK, Quiet, QuietInv, [Next]_vars PROVE QuietInv'
    OBVIOUS
  <1>1. CASE UserStep
    BY <1>1, ExecuteInv, ExecuteFailsInv, ReadLineInv, HaltRootInv, HaltChildInv DEF UserStep
  <1>2. CASE KernelStep
    BY <1>2, IretInv, HaltReturnInv, PitSwitchInv, ShiftNameInv, ShiftLoadInv, ShiftOpenInv,
       ShiftLaunchInv, ShiftRevertInv DEF KernelStep
  <1>3. CASE Interrupt
    BY <1>3, PitSameInv, PitSelectInv, ShiftStoreInv DEF Interrupt, Pit
  <1>4. CASE UNCHANGED vars
    <2>1. UNCHANGED <<tables, terminal_now, cur_display, ctx, user_page, esp0, cpu, at, frames>>
      BY <1>4 DEF vars
    <2>2. /\ OnePath' /\ (Idle(cpu)' <=> Idle(cpu)) /\ Top(cpu)' = Top(cpu)
          /\ \A k : InKernel(k)' <=> InKernel(k)
      BY <2>1, SamePath DEF QuietInv
    <2>3. Halting' = Halting /\ Shifting' = Shifting
      BY <2>2 DEF Halting, Shifting
    <2>4. Roles' /\ Resumable'
      BY <2>1, <2>3, SameTables DEF QuietInv, Roles, Resumable, tables
    <2>5. MidPath'
      BY <2>1, <2>2, <2>3, SameTables DEF QuietInv, MidPath, Settled, Cur, tables
    <2> QED BY <2>1, <2>2, <2>4, <2>5, SameTables DEF QuietInv
  <1> QED BY <1>1, <1>2, <1>3, <1>4 DEF Next

(***************************************************************************)
(* The invariant holds in every reachable state of the quiet environment.  *)
(***************************************************************************)
THEOREM QuietInvariant == ASSUME Quiet PROVE Spec => [](TypeOK /\ QuietInv)
  <1>1. Init => QuietInv
    BY QuietInit
  <1>2. TypeOK /\ QuietInv /\ [Next]_vars => QuietInv'
    BY QuietNext
  <1> QED BY <1>1, <1>2, TypeCorrect, PTL DEF Spec

(***************************************************************************)
(* get_cur_pcb_addr finds the PCB of the process that made the call, and   *)
(* its page and kernel stack are the ones in use.                          *)
(***************************************************************************)
THEOREM CurrentIsRunning == ASSUME Quiet PROVE Spec => []RunningIsCurrent
  <1>1. TypeOK /\ QuietInv => RunningIsCurrent
    BY ShellIsRoot DEF RunningIsCurrent, Settled
  <1> QED BY <1>1, QuietInvariant, PTL

(***************************************************************************)
(* Whatever process pit_handler or terminal_shift took the CPU from, its   *)
(* PCB holds its own esp and ebp when another terminal runs.               *)
(***************************************************************************)
THEOREM SavedBeforeLeaving == ASSUME Quiet PROVE Spec => []DescheduledResumable
  <1>1. ASSUME TypeOK, QuietInv, InUser, NEW t \in Term \ {terminal_now},
               pcb_array[t] # NoProc
        PROVE  ctx[pcb_array[t]] = [flow |-> pcb_array[t], depth |-> 0]
    <2>1. t \in Occupied /\ terminal_now \in Occupied /\ Cur = cpu /\ t # terminal_now
      BY <1>1, ShellIsRoot DEF Occupied
    <2>2. pcb_array[t] # cpu
      BY <1>1, <2>1, OneTerminal DEF Cur
    <2> QED BY <1>1, <2>1, <2>2 DEF QuietInv, Resumable
  <1>2. TypeOK /\ QuietInv => DescheduledResumable
    BY <1>1 DEF DescheduledResumable
  <1> QED BY <1>2, QuietInvariant, PTL

(***************************************************************************)
(* A process that waits in execute is the caller of a child that is alive, *)
(* or of the one whose halt is under way.                                  *)
(***************************************************************************)
THEOREM NobodyWaitsInVain == ASSUME Quiet PROVE Spec => []WaitersHaveChild
  <1>1. ASSUME TypeOK, QuietInv, NEW p \in Id, at[p] = "waiting"
        PROVE  \E q \in Id :
                  /\ caller[q] = p /\ q # p
                  /\ \/ id_array[q] = 1
                     \/ \E i \in DOMAIN frames[q] : frames[q][i].kind \in {"halt", "fault"}
    <2>1. id_array[p] = 1
      BY <1>1 DEF QuietInv, Roles
    <2>2. PICK t \in Occupied : p \in {pcb_array[t], Root(t)}
      BY <1>1, <2>1 DEF QuietInv, NoLeak
    <2>3. CASE pcb_array[t] # Root(t)
      <3>1. p = Root(t)
        BY <1>1, <2>2, <2>3 DEF QuietInv, Roles
      <3>2. /\ pcb_array[t] \in Id /\ caller[pcb_array[t]] = p /\ pcb_array[t] # p
            /\ id_array[pcb_array[t]] = 1
        BY <1>1, <2>3, <3>1 DEF QuietInv, ShallowTrees
      <3> QED BY <3>2
    <2>4. CASE pcb_array[t] = Root(t)
      <3>1. p = pcb_array[t] /\ Halting /\ t = terminal_now
        BY <1>1, <2>2, <2>4 DEF QuietInv, Roles
      <3>2. cpu \in Id /\ caller[cpu] = p /\ cpu # p
        BY <1>1, <2>1, <3>1 DEF QuietInv, MidPath, OnePath, Cur
      <3>3. ~Idle(cpu) /\ Top(cpu).kind \in {"halt", "fault"}
        BY <3>1 DEF Halting, InKernel
      <3>4. 1 \in DOMAIN frames[cpu] /\ frames[cpu][1].kind \in {"halt", "fault"}
        BY <1>1, <3>2, <3>3, OneFrame DEF QuietInv, TypeOK
      <3> QED BY <3>2, <3>4
    <2> QED BY <2>3, <2>4
  <1>2. TypeOK /\ QuietInv => WaitersHaveChild
    BY <1>1 DEF WaitersHaveChild
  <1> QED BY <1>2, QuietInvariant, PTL

(***************************************************************************)
(* Without shells started from shells, halt gives the terminal back to the *)
(* process whose execute it returns into.                                  *)
(***************************************************************************)
THEOREM ParentWaits == ASSUME Quiet PROVE Spec => []ParentIsCaller
  <1>1. ASSUME TypeOK, QuietInv, NEW p \in Id, id_array[p] = 1, parent_id[p] # p
        PROVE  parent_id[p] = caller[p]
    <2>1. PICK t \in Occupied : p \in {pcb_array[t], Root(t)}
      BY <1>1 DEF QuietInv, NoLeak
    <2>2. p = pcb_array[t] /\ p # Root(t)
      BY <1>1, <2>1 DEF QuietInv, ShallowTrees
    <2> QED BY <1>1, <2>2 DEF QuietInv, ShallowTrees, Root
  <1>2. TypeOK /\ QuietInv => ParentIsCaller
    BY <1>1 DEF ParentIsCaller
  <1> QED BY <1>2, QuietInvariant, PTL

(* The ancestors of a current process are itself and the first shell. *)
LEMMA ChainIsPair ==
    ASSUME TypeOK, QuietInv, NEW t \in Occupied
    PROVE  Chain(t) = {pcb_array[t], Root(t)}
  <1> DEFINE C == {pcb_array[t], Root(t)}
  <1>1. /\ pcb_array[t] \in Id /\ Root(t) \in Id
        /\ parent_id[pcb_array[t]] = Root(t) /\ parent_id[Root(t)] = Root(t)
    BY DEF QuietInv, ShallowTrees, TypeOK, Root
  <1>2. C \in SUBSET Id /\ pcb_array[t] \in C /\ \A q \in C : parent_id[q] \in C
    BY <1>1
  <1>3. Chain(t) \subseteq C
    BY <1>2 DEF Chain
  <1>4. ASSUME NEW S \in SUBSET Id, pcb_array[t] \in S, \A q \in S : parent_id[q] \in S
        PROVE  pcb_array[t] \in S /\ Root(t) \in S
    BY <1>1, <1>4
  <1>5. C \subseteq Chain(t)
    BY <1>1, <1>4 DEF Chain
  <1> QED BY <1>3, <1>5

(***************************************************************************)
(* The ids taken are those of the current processes and of the shells that *)
(* wait for them; each belongs to one terminal.                            *)
(***************************************************************************)
THEOREM NoIdLost == ASSUME Quiet PROVE Spec => []IdsAccounted
  <1>1. ASSUME TypeOK, QuietInv, InUser
        PROVE  /\ {p \in Id : id_array[p] = 1} = UNION {Owned(t) : t \in Term}
               /\ \A t, u \in Term : t # u => Owned(t) \cap Owned(u) = {}
               /\ \A t \in Term : \A p \in Owned(t) \ {pcb_array[t]} : at[p] = "waiting"
    <2>1. \A t \in Occupied : t \in Term /\ Owned(t) = {pcb_array[t], Root(t)}
      BY <1>1, ChainIsPair DEF Owned, Occupied
    <2>2. \A t \in Term \ Occupied : Owned(t) = {}
      BY DEF Owned, Occupied
    <2>3. \A t \in Occupied : /\ pcb_array[t] \in Id /\ Root(t) \in Id
                             /\ id_array[pcb_array[t]] = 1 /\ id_array[Root(t)] = 1
      BY <1>1 DEF QuietInv, ShallowTrees, TypeOK, Root
    <2>4. \A p \in Id : id_array[p] = 1 <=> \E t \in Term : p \in Owned(t)
      BY <1>1, <2>1, <2>2, <2>3 DEF QuietInv, NoLeak
    <2>5. \A t \in Term : Owned(t) \subseteq Id
      BY <2>1, <2>2, <2>3
    <2>6. \A t, u \in Term : t # u => Owned(t) \cap Owned(u) = {}
      BY <1>1, <2>1, <2>2 DEF QuietInv, ShallowTrees
    <2>7. \A t \in Term : \A p \in Owned(t) \ {pcb_array[t]} : at[p] = "waiting"
      BY <1>1, <2>1, <2>2 DEF QuietInv, Roles
    <2> QED BY <2>4, <2>5, <2>6, <2>7
  <1>2. TypeOK /\ QuietInv => IdsAccounted
    BY <1>1 DEF IdsAccounted
  <1> QED BY <1>2, QuietInvariant, PTL

(***************************************************************************)
(* When a process ends, the CPU goes on in the execute that started it, on *)
(* the page and the kernel stack of its caller, which is the terminal's    *)
(* current process again.                                                  *)
(***************************************************************************)
THEOREM HaltReturnsToCaller == ASSUME Quiet PROVE Spec => ReturnsToCaller
  <1> DEFINE Step == \A p \in Id : at[p] # "none" /\ at'[p] = "none" =>
                /\ pcb_array[terminal_now] = cpu' /\ user_page' = cpu' /\ esp0' = cpu'
                /\ cpu' = caller[p] /\ at[cpu'] = "waiting"
  <1>1. ASSUME TypeOK, QuietInv, [Next]_vars, NEW p \in Id, at[p] # "none", at'[p] = "none"
        PROVE  HaltReturn
    <2>1. \A c \in Commands : ~Execute(c) /\ ~ExecuteFails(c)
      <3>1. ASSUME NEW c \in Commands, ExecuteFails(c) PROVE FALSE
        BY <1>1, <3>1 DEF ExecuteFails, AfterError, TypeOK
      <3>2. ASSUME NEW c \in Commands, Execute(c) PROVE FALSE
        <4>1. PICK n \in Id : at' = [at EXCEPT ![cpu] = "waiting",
                                  ![n] = IF c = "shell" THEN "prompt" ELSE "program"]
          BY <3>2 DEF Execute
        <4> QED BY <1>1, <4>1 DEF TypeOK
      <3> QED BY <3>1, <3>2
    <2>2. ~ReadLine /\ ~HaltRoot /\ \A k \in {"halt", "fault"} : ~HaltChild(k)
      BY <1>1 DEF ReadLine, HaltRoot, HaltChild, TypeOK
    <2>3. ~Iret /\ ~PitSwitch /\ ~ShiftName /\ ~ShiftLoad /\ ~ShiftOpen /\ ~ShiftRevert
      BY <1>1 DEF Iret, PitSwitch, ShiftName, ShiftLoad, ShiftOpen, ShiftRevert
    <2>4. ~ShiftLaunch
      <3>1. ASSUME ShiftLaunch PROVE FALSE
        <4>1. PICK n \in Id : at' = [at EXCEPT ![n] = "prompt"]
          BY <3>1 DEF ShiftLaunch
        <4> QED BY <1>1, <4>1 DEF TypeOK
      <3> QED BY <3>1
    <2>5. ~PitSame /\ ~PitSelect /\ \A t \in Term : ~ShiftStore(t)
      BY <1>1 DEF PitSame, PitSelect, ShiftStore
    <2>6. ~UNCHANGED vars
      BY <1>1 DEF vars
    <2> QED BY <1>1, <2>1, <2>2, <2>3, <2>4, <2>5, <2>6
            DEF Next, UserStep, KernelStep, Interrupt, Pit
  <1>2. ASSUME TypeOK, QuietInv, HaltReturn, NEW p \in Id, at[p] # "none", at'[p] = "none"
        PROVE  /\ pcb_array[terminal_now] = cpu' /\ user_page' = cpu' /\ esp0' = cpu'
               /\ cpu' = caller[p] /\ at[cpu'] = "waiting"
    <2>1. Halting /\ cpu \in Id
      BY <1>2 DEF HaltReturn, Halting, QuietInv, OnePath
    <2>2. /\ Top(cpu).cur = cpu /\ Top(cpu).next = Cur /\ Cur = caller[cpu] /\ Cur \in Id
          /\ parent_id[Cur] = Cur
      BY <1>2, <2>1 DEF QuietInv, MidPath
    <2>3. /\ cpu' = Cur /\ user_page' = Cur /\ esp0' = Cur
          /\ at' = [q \in Id |-> IF q = Cur THEN "prompt" ELSE IF q = cpu THEN "none" ELSE at[q]]
      BY <1>2, <2>2 DEF HaltReturn, PageAfterHalt, CallerAfterHalt
    <2>4. p = cpu
      BY <1>2, <2>3
    <2>5. terminal_now \in Occupied /\ pcb_array[terminal_now] = Root(terminal_now)
      BY <1>2, <2>2 DEF Occupied, Cur, Root, TypeOK, Id, NoProc
    <2>6. at[Cur] = "waiting"
      BY <1>2, <2>1, <2>5 DEF QuietInv, Roles, Cur
    <2> QED BY <2>2, <2>3, <2>4, <2>6 DEF Cur
  <1>3. TypeOK /\ QuietInv /\ [Next]_vars => [Step]_vars
    BY <1>1, <1>2
  <1> HIDE DEF Step
  <1>4. Spec => [][Step]_vars
    BY <1>3, QuietInvariant, PTL DEF Spec
  <1> QED BY <1>4 DEF ReturnsToCaller, Step

-----------------------------------------------------------------------------
(***************************************************************************)
(* Process implements Terminals, in the environment of ProcessInv: execute *)
(* on a terminal with a shell is Start, on a new one Open; a halt is       *)
(* Finish when it gives back the tables, not when it returns; the choice   *)
(* of pit_handler is Schedule; all other steps change no stack and not who *)
(* is running.                                                             *)
(***************************************************************************)
(* The values of the variables of Terminals. *)
Stacks == [t \in Term |-> StackOf(t)]
Scheduled == IF InKernel("open") THEN Top(cpu).last ELSE terminal_now

(* Stacks of one and of two. *)
LEMMA OneAppended ==
    ASSUME NEW a
    PROVE  Append(<<>>, a) = <<a>>
  <1> DEFINE one == <<a>>
             appended == Append(<<>>, a)
  <1>1. one \in Seq({a}) /\ Len(one) = 1 /\ one[1] = a
    OBVIOUS
  <1>2. appended \in Seq({a}) /\ Len(appended) = 1 /\ appended[1] = a
    <2>1. <<>> \in Seq({a}) /\ Len(<<>>) = 0 /\ a \in {a}
      OBVIOUS
    <2> QED BY <2>1, AppendProperties
  <1> HIDE DEF one, appended
  <1>3. \A i \in 1 .. Len(appended) : appended[i] = one[i]
    BY <1>1, <1>2
  <1>4. appended = one
    BY <1>1, <1>2, <1>3, SeqEqual
  <1> QED BY <1>4 DEF one, appended

LEMMA PairAppended ==
    ASSUME NEW a, NEW b
    PROVE  Append(<<a>>, b) = <<a, b>> /\ SubSeq(<<a, b>>, 1, 1) = <<a>>
  <1> DEFINE S == {a, b}
             both == <<a, b>>
             appended == Append(<<a>>, b)
             cut == SubSeq(both, 1, 1)
  <1>1. /\ <<a>> \in Seq(S) /\ Len(<<a>>) = 1 /\ <<a>>[1] = a /\ b \in S
        /\ both \in Seq(S) /\ Len(both) = 2 /\ both[1] = a /\ both[2] = b
    OBVIOUS
  <1>2. appended \in Seq(S) /\ Len(appended) = 2 /\ appended[1] = a /\ appended[2] = b
    BY <1>1, AppendProperties
  <1>3. cut \in Seq(S) /\ Len(cut) = 1 /\ cut[1] = a
    <2>1. \A i \in 1 .. 1 : both[i] \in S
      BY <1>1
    <2> QED BY <1>1, <2>1, SubSeqProperties
  <1> HIDE DEF both, appended, cut
  <1>4. appended = both
    <2>1. \A i \in 1 .. Len(appended) : appended[i] = both[i]
      BY <1>1, <1>2
    <2> QED BY <1>1, <1>2, <2>1, SeqEqual
  <1>5. cut = <<a>>
    <2>1. \A i \in 1 .. Len(cut) : cut[i] = <<a>>[i]
      BY <1>1, <1>3
    <2> QED BY <1>1, <1>3, <2>1, SeqEqual
  <1> QED BY <1>4, <1>5 DEF both, appended, cut

(* Who is on a stack is the current process of a terminal or its parent. *)
LEMMA OnStack ==
    ASSUME QuietInv
    PROVE  Abstract!Live = UNION {{pcb_array[t], Root(t)} : t \in Occupied}
  <1>1. \A t \in Term : Abstract!ToSet(StackOf(t)) = IF t \in Occupied THEN {pcb_array[t], Root(t)} ELSE {}
    BY DEF StackOf, Root, Occupied, Abstract!ToSet
  <1> QED BY <1>1 DEF Abstract!Live, Occupied

(* A process whose id is free is on no stack. *)
LEMMA FreshProcess ==
    ASSUME QuietInv, NEW n \in Id, IsFirstFree(n)
    PROVE  n \notin Abstract!Live
  BY OnStack DEF QuietInv, ShallowTrees, IsFirstFree

(* Steps that leave the tables alone. *)
LEMMA SameStacks ==
    ASSUME UNCHANGED <<pcb_array, parent_id>>
    PROVE  Stacks' = Stacks
  BY DEF Stacks, StackOf

(* Steps that change neither the tables nor who is scheduled. *)
LEMMA Stutter ==
    ASSUME UNCHANGED <<pcb_array, parent_id>>, Scheduled' = Scheduled
    PROVE  UNCHANGED Abstract!vars
  BY SameStacks DEF Abstract!vars, Stacks, Scheduled

(* execute on a terminal: the new process is on top of what was there. *)
LEMMA Loaded ==
    ASSUME TypeOK, QuietInv, NEW n \in Id, IsFirstFree(n), Load(n),
           terminal_now = cur_display, terminal_now' = terminal_now,
           Cur = NoProc \/ (terminal_now \in Occupied /\ Cur = cpu /\ parent_id[cpu] = cpu)
    PROVE  /\ Stacks[terminal_now] = IF Cur = NoProc THEN <<>> ELSE <<cpu>>
           /\ Stacks' = [Stacks EXCEPT ![terminal_now] =
                            IF Cur = NoProc THEN <<n>> ELSE <<cpu, n>>]
  <1>1. terminal_now \in Term
    BY DEF TypeOK
  <1>2. /\ pcb_array'[terminal_now] = n
        /\ parent_id'[n] = IF Cur = NoProc THEN n ELSE cpu
        /\ \A t \in Occupied \ {terminal_now} :
              /\ pcb_array'[t] = pcb_array[t] /\ parent_id'[pcb_array[t]] = Root(t)
        /\ \A t \in Occupied : pcb_array[t] # n /\ Root(t) # n
        /\ Occupied' = Occupied \cup {terminal_now}
    BY LoadTables
  <1>3. n # NoProc /\ (Cur # NoProc => cpu # n)
    BY <1>2 DEF Id, NoProc, Cur
  <1>4. StackOf(terminal_now) = IF Cur = NoProc THEN <<>> ELSE <<cpu>>
    BY DEF StackOf, Cur
  <1>5. StackOf(terminal_now)' = IF Cur = NoProc THEN <<n>> ELSE <<cpu, n>>
    BY <1>2, <1>3 DEF StackOf
  <1>6. \A t \in Term \ {terminal_now} : StackOf(t)' = StackOf(t)
    <2> TAKE t \in Term \ {terminal_now}
    <2>1. CASE t \in Occupied
      BY <2>1, <1>2 DEF StackOf, Root, Occupied
    <2>2. CASE t \notin Occupied
      BY <2>2, <1>2 DEF StackOf, Occupied
    <2> QED BY <2>1, <2>2
  <1> QED BY <1>1, <1>4, <1>5, <1>6 DEF Stacks

LEMMA NotOpening ==
    ASSUME frames'[cpu'] = <<Launch>>
    PROVE  ~InKernel("open")'
  <1>1. Len(<<Launch>>) = 1 /\ <<Launch>>[1] = Launch
    OBVIOUS
  <1>2. Top(cpu)' = Launch
    BY <1>1 DEF Top
  <1>3. Launch.kind = "launch"
    BY DEF Launch, PcbFrame
  <1> QED BY <1>2, <1>3 DEF InKernel

LEMMA ExecuteStarts ==
    ASSUME TypeOK, QuietInv, Quiet, NEW c \in Commands, Execute(c)
    PROVE  Abstract!Next
  <1>1. InUser /\ at[cpu] = "command" /\ UNCHANGED <<terminal_now, cur_display>>
    BY DEF Execute
  <1>2. PICK n \in Id : /\ IsFirstFree(n) /\ Load(n)
                        /\ frames' = [frames EXCEPT ![n] = <<Launch>>]
    BY DEF Execute
  <1>3. /\ cpu = Cur /\ terminal_now \in Occupied /\ parent_id[cpu] = cpu /\ Cur # NoProc
        /\ terminal_now = cur_display
    BY <1>1, ShellIsRoot DEF Id, NoProc
  <1>4. Stacks[terminal_now] = <<cpu>> /\ Stacks' = [Stacks EXCEPT ![terminal_now] = <<cpu, n>>]
    BY <1>1, <1>2, <1>3, Loaded
  <1>5. Scheduled = terminal_now
    BY <1>1 DEF Scheduled, InUser, InKernel
  <1>6. Scheduled' = terminal_now
    <2>1. frames'[n] = <<Launch>> /\ cpu' = n
      BY <1>2 DEF TypeOK, Load
    <2> QED BY <2>1, <1>1, NotOpening DEF Scheduled
  <1>7. Append(<<cpu>>, n) = <<cpu, n>>
    BY <1>3, PairAppended DEF Cur
  <1>8. n \notin Abstract!Live
    BY <1>2, FreshProcess
  <1>9. Abstract!Start(n)
    BY <1>4, <1>5, <1>6, <1>7, <1>8 DEF Abstract!Start, Stacks, Scheduled
  <1> QED BY <1>9 DEF Abstract!Next

LEMMA ShiftLaunchOpens ==
    ASSUME TypeOK, QuietInv, ShiftLaunch
    PROVE  Abstract!Next
  <1>1. InKernel("open") /\ UNCHANGED <<terminal_now, cur_display>>
    BY DEF ShiftLaunch
  <1>2. PICK n \in Id : /\ IsFirstFree(n) /\ Load(n)
                        /\ frames' = [frames EXCEPT ![cpu] = Under(@), ![n] = <<Launch>>]
    BY DEF ShiftLaunch
  <1>3. terminal_now = cur_display /\ Cur = NoProc /\ terminal_now \in Term
    BY <1>1 DEF QuietInv, MidPath, TypeOK
  <1>4. Stacks[terminal_now] = <<>> /\ Stacks' = [Stacks EXCEPT ![terminal_now] = <<n>>]
    BY <1>1, <1>2, <1>3, Loaded
  <1>5. Scheduled' = terminal_now
    <2>1. frames'[n] = <<Launch>> /\ cpu' = n
      BY <1>2 DEF TypeOK, Load
    <2> QED BY <2>1, <1>1, NotOpening DEF Scheduled
  <1>6. n \notin Abstract!Live
    BY <1>2, FreshProcess
  <1>7. Abstract!Open(terminal_now, n)
    BY <1>4, <1>5, <1>6 DEF Abstract!Open, Stacks, Scheduled
  <1> QED BY <1>3, <1>7 DEF Abstract!Next

LEMMA HaltFinishes ==
    ASSUME TypeOK, QuietInv, NEW k \in {"halt", "fault"}, HaltChild(k)
    PROVE  Abstract!Next
  <1> DEFINE par == parent_id[Cur]
  <1>1. /\ InUser /\ Cur # NoProc /\ par # Cur
        /\ pcb_array' = [pcb_array EXCEPT ![terminal_now] = par]
        /\ Push(PcbFrame(k, Cur, par))
        /\ UNCHANGED <<parent_id, terminal_now, cpu>>
    BY DEF HaltChild, CanHalt
  <1>2. cpu = Cur /\ cpu \in Id /\ terminal_now \in Occupied /\ terminal_now \in Term
    BY <1>1, ShellIsRoot DEF Occupied
  <1>3. parent_id[par] = par /\ par \in Id /\ par # NoProc
    BY <1>2 DEF QuietInv, ShallowTrees, Root, Cur, TypeOK, Id, NoProc
  <1>4. StackOf(terminal_now) = <<par, Cur>>
    BY <1>1 DEF StackOf, Cur
  <1>5. \A t \in Term : StackOf(t)' = IF t = terminal_now THEN <<par>> ELSE StackOf(t)
    BY <1>1, <1>2, <1>3 DEF StackOf, TypeOK
  <1>6. Stacks[terminal_now] = <<par, Cur>> /\ Stacks' = [Stacks EXCEPT ![terminal_now] = <<par>>]
    BY <1>2, <1>4, <1>5 DEF Stacks
  <1>7. Scheduled = terminal_now
    BY <1>1 DEF Scheduled, InUser, InKernel
  <1>8. Scheduled' = terminal_now
    <2>1. frames'[cpu] = Append(frames[cpu], PcbFrame(k, Cur, par)) /\ frames[cpu] = <<>>
      BY <1>1, <1>2 DEF Push, TypeOK, InUser, Idle
    <2>2. ~InKernel("open")'
      BY <1>1, <2>1 DEF InKernel, Top, PcbFrame
    <2> QED BY <1>1, <2>2 DEF Scheduled
  <1>9. Abstract!Front(<<par, Cur>>) = <<par>> /\ Len(<<par, Cur>>) > 1
    <2>1. Len(<<par, Cur>>) = 2
      OBVIOUS
    <2>2. Abstract!Front(<<par, Cur>>) = SubSeq(<<par, Cur>>, 1, 1)
      BY <2>1 DEF Abstract!Front
    <2>3. SubSeq(<<par, Cur>>, 1, 1) = <<par>>
      BY PairAppended
    <2> QED BY <2>1, <2>2, <2>3
  <1>10. Abstract!Finish
    BY <1>6, <1>7, <1>8, <1>9 DEF Abstract!Finish, Stacks, Scheduled
  <1> QED BY <1>10 DEF Abstract!Next

(* pit_handler moves terminal_now to a terminal with a process. *)
LEMMA PitSchedules ==
    ASSUME TypeOK, QuietInv, Quiet, Pit
    PROVE  Abstract!Next
  <1>1. PICK t \in Term : pcb_array[t] # NoProc /\ terminal_now' = t
    BY DEF Pit, PitSame, PitSelect, IsNext
  <1>2. Interruptible /\ UNCHANGED <<pcb_array, parent_id>>
    BY DEF Pit, PitSame, PitSelect, tables
  <1>3. /\ Idle(cpu) /\ cpu \in Id /\ cpu' = cpu
        /\ frames' = frames \/ frames' = [frames EXCEPT ![cpu] = <<PcbFrame("switch", Cur, pcb_array[t])>>]
    <2>1. Idle(cpu) /\ cpu \in Id
      BY <1>2, WhenInterrupted
    <2> QED BY <1>1, <2>1 DEF Pit, PitSame, PitSelect, Push, Idle
  <1>4. Scheduled' = t
    <2>1. Idle(cpu)' \/ frames'[cpu] = <<PcbFrame("switch", Cur, pcb_array[t])>>
      BY <1>3 DEF Idle, TypeOK
    <2>2. ~InKernel("open")'
      BY <1>3, <2>1 DEF InKernel, Idle, Top, PcbFrame
    <2> QED BY <1>1, <2>2 DEF Scheduled
  <1>5. Stacks[t] # <<>> /\ Stacks' = Stacks
    BY <1>1, <1>2, SameStacks DEF Stacks, StackOf
  <1>6. Abstract!Schedule(t)
    BY <1>4, <1>5 DEF Abstract!Schedule, Stacks, Scheduled
  <1> QED BY <1>6 DEF Abstract!Next

(* Opening a terminal moves terminal_now before there is a stack on it. *)
LEMMA ShiftStutters ==
    ASSUME TypeOK, QuietInv, ShiftOpen \/ ShiftRevert
    PROVE  UNCHANGED <<pcb_array, parent_id>> /\ Scheduled' = Scheduled
  <1>1. CASE ShiftOpen
    <2>1. /\ InKernel("named") /\ UNCHANGED <<pcb_array, parent_id>> /\ cpu' = cpu
          /\ Replace([Top(cpu) EXCEPT !.kind = "open"])
      BY <1>1 DEF ShiftOpen, tables
    <2>2. ~Idle(cpu) /\ cpu \in Id /\ cpu # NoProc
      BY <2>1 DEF InKernel, QuietInv, OnePath, Id, NoProc
    <2>3. Under(frames[cpu]) = <<>> /\ Top(cpu) \in Frame /\ Top(cpu).last = terminal_now
      BY <2>1, <2>2, OneFrame DEF QuietInv, MidPath
    <2> DEFINE f == [Top(cpu) EXCEPT !.kind = "open"]
    <2>4. f.kind = "open" /\ f.last = terminal_now
      BY <2>3 DEF Frame, AnyFrame
    <2>5. frames'[cpu] = <<f>>
      BY <2>1, <2>2, <2>3, OneAppended DEF Replace, TypeOK
    <2> HIDE DEF f
    <2>6. Top(cpu)' = f /\ ~Idle(cpu)'
      <3>1. Len(<<f>>) = 1 /\ <<f>>[1] = f /\ <<f>> # <<>>
        OBVIOUS
      <3> QED BY <2>1, <2>5, <3>1 DEF Top, Idle
    <2>7. Scheduled' = terminal_now
      BY <2>1, <2>2, <2>4, <2>6 DEF Scheduled, InKernel, Running
    <2>8. Scheduled = terminal_now
      BY <2>1 DEF Scheduled, InKernel
    <2> QED BY <2>1, <2>7, <2>8
  <1>2. CASE ShiftRevert
    <2>1. /\ InKernel("open") /\ UNCHANGED <<pcb_array, parent_id>> /\ cpu' = cpu
          /\ Pop /\ terminal_now' = Top(cpu).last
      BY <1>2 DEF ShiftRevert, tables
    <2>2. ~Idle(cpu)
      BY <2>1 DEF InKernel
    <2>3. \A k : ~InKernel(k)'
      BY <2>1, <2>2, PathEnds DEF Pop, QuietInv, OnePath
    <2> QED BY <2>1, <2>3 DEF Scheduled
  <1> QED BY <1>1, <1>2

(* The steps that change neither table and stay where they are: they are    *)
(* taken while the running terminal has a process, and not in between.      *)
LEMMA OthersStutter ==
    ASSUME TypeOK, QuietInv, Quiet, [Next]_vars,
           \/ \E c \in Commands : ExecuteFails(c)
           \/ ReadLine \/ HaltRoot \/ Iret \/ HaltReturn \/ PitSwitch
           \/ ShiftName \/ ShiftLoad
           \/ \E t \in Term : ShiftStore(t)
    PROVE  UNCHANGED <<pcb_array, parent_id>> /\ Scheduled' = Scheduled
  <1>1. UNCHANGED <<pcb_array, parent_id, terminal_now>>
    BY DEF ExecuteFails, ReadLine, HaltRoot, Iret, HaltReturn, PitSwitch, ShiftName,
           ShiftLoad, ShiftStore, tables
  <1>2. Cur # NoProc
    <2>1. CASE InUser
      BY <2>1, ShellIsRoot DEF Id, NoProc
    <2>2. CASE Interruptible
      BY <2>2, WhenInterrupted DEF Id, NoProc
    <2>3. CASE Iret \/ ShiftName \/ ShiftLoad
      BY <2>3 DEF Iret, ShiftName, ShiftLoad, QuietInv, OnePath, MidPath, Settled, Id, NoProc
    <2>4. CASE HaltReturn \/ PitSwitch
      <3>1. Halting \/ InKernel("switch")
        BY <2>4 DEF HaltReturn, PitSwitch, Halting
      <3>2. Cur \in Id
        BY <3>1 DEF QuietInv, MidPath
      <3> QED BY <3>2 DEF Id, NoProc
    <2> QED BY <2>1, <2>2, <2>3, <2>4 DEF ExecuteFails, ReadLine, HaltRoot, CanHalt, ShiftStore
  <1>3. QuietInv' /\ Cur' # NoProc
    BY <1>1, <1>2, QuietNext DEF Cur
  <1>4. ~InKernel("open") /\ ~InKernel("open")'
    BY <1>2, <1>3 DEF QuietInv, MidPath
  <1> QED BY <1>1, <1>4 DEF Scheduled

LEMMA AbstractInit == Init => Abstract!Init
  <1> SUFFICES ASSUME Init PROVE Abstract!Init
    OBVIOUS
  <1>1. ~InKernel("open")
    BY SizeAssumption DEF Init, InKernel, Idle, Id
  <1>2. \A t \in Term : StackOf(t) = IF t = 0 THEN <<0>> ELSE <<>>
    BY SizeAssumption DEF Init, StackOf, Id, NoProc
  <1> QED BY <1>1, <1>2 DEF Init, Abstract!Init

LEMMA AbstractNext ==
    TypeOK /\ QuietInv /\ Quiet /\ [Next]_vars => [Abstract!Next]_(Abstract!vars)
  <1> SUFFICES ASSUME TypeOK, QuietInv, Quiet, [Next]_vars
               PROVE  Abstract!Next \/ UNCHANGED Abstract!vars
    OBVIOUS
  <1>1. ASSUME NEW c \in Commands, Execute(c) PROVE Abstract!Next
    BY <1>1, ExecuteStarts
  <1>2. ASSUME NEW k \in {"halt", "fault"}, HaltChild(k) PROVE Abstract!Next
    BY <1>2, HaltFinishes
  <1>3. CASE ShiftLaunch
    BY <1>3, ShiftLaunchOpens
  <1>4. CASE Pit
    BY <1>4, PitSchedules
  <1>5. CASE ShiftOpen \/ ShiftRevert
    BY <1>5, ShiftStutters, Stutter
  <1>6. CASE \/ \E c \in Commands : ExecuteFails(c)
             \/ ReadLine \/ HaltRoot \/ Iret \/ HaltReturn \/ PitSwitch
           \/ ShiftName \/ ShiftLoad
             \/ \E t \in Term : ShiftStore(t)
    BY <1>6, OthersStutter, Stutter
  <1>7. CASE UNCHANGED vars
    <2>1. UNCHANGED <<pcb_array, parent_id>> /\ Scheduled' = Scheduled
      BY <1>7 DEF vars, tables, Scheduled, InKernel, Running, Idle, Top
    <2> QED BY <2>1, Stutter
  <1> QED BY <1>1, <1>2, <1>3, <1>4, <1>5, <1>6, <1>7 DEF Next, UserStep, KernelStep, Interrupt

(***************************************************************************)
(* execute, halt, pit_handler and terminal_shift together keep one stack   *)
(* of processes for each terminal and a rotation between them.             *)
(***************************************************************************)
THEOREM ProcessesImplementTerminals == ASSUME Quiet PROVE Spec => ImplementsTerminals
  <1>1. Init => Abstract!Init
    BY AbstractInit
  <1>2. TypeOK /\ QuietInv /\ [Next]_vars => [Abstract!Next]_(Abstract!vars)
    BY AbstractNext
  <1> QED BY <1>1, <1>2, QuietInvariant, PTL DEF Spec, ImplementsTerminals, Abstract!Spec

=============================================================================
