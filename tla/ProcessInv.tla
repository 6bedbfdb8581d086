----------------------------- MODULE ProcessInv -----------------------------
(***************************************************************************)
(* The inductive invariant behind the safety properties of Process, in the *)
(* environment they hold in: no interrupt while a kernel path is under     *)
(* way, no Alt+Fn between Enter and the start of the command, and no shell *)
(* started from a shell.                                                   *)
(***************************************************************************)
EXTENDS Process

Quiet == Windows = {} /\ PatientUser /\ Commands \subseteq {"program", "bad"}

Occupied == {t \in Term : pcb_array[t] # NoProc}
Root(t) == parent_id[pcb_array[t]]
Halting == InKernel("halt") \/ InKernel("fault")
Shifting == InKernel("shift") \/ InKernel("named") \/ InKernel("open")

(* At most one kernel path is under way, on the stack of the running process. *)
OnePath ==
    /\ cpu \in Id
    /\ \A p \in Id \ {cpu} : Idle(p)
    /\ ~Idle(cpu) => Len(frames[cpu]) = 1

(* Every terminal has a first shell and at most one child of it. *)
ShallowTrees ==
    /\ parent_array = pcb_array
    /\ \A t \in Occupied :
        /\ pcb_array[t] \in Id /\ parent_id[Root(t)] = Root(t)
        /\ id_array[pcb_array[t]] = 1 /\ id_array[Root(t)] = 1
        /\ pcb_array[t] # Root(t) => caller[pcb_array[t]] = Root(t)
    /\ \A t, u \in Occupied :
        t # u => {pcb_array[t], Root(t)} \cap {pcb_array[u], Root(u)} = {}

(* No id is taken but by these. *)
NoLeak ==
    \A p \in Id : id_array[p] = 1 => \E t \in Occupied : p \in {pcb_array[t], Root(t)}

(* First shells type and wait, children run; only the shown shell has a line. *)
Roles ==
    /\ \A t \in Occupied :
        /\ pcb_array[t] # Root(t) => at[pcb_array[t]] = "program" /\ at[Root(t)] = "waiting"
        /\ pcb_array[t] = Root(t) =>
              IF Halting /\ t = terminal_now THEN at[pcb_array[t]] = "waiting"
              ELSE at[pcb_array[t]] \in {"prompt", "command"}
        /\ at[pcb_array[t]] = "command" => cur_display = t /\ ~Shifting
    /\ \A p \in Id : at[p] = "waiting" => id_array[p] = 1

(* The current processes that do not run can be resumed. *)
Resumable ==
    \A t \in Occupied :
        pcb_array[t] # cpu /\ ~(Halting /\ t = terminal_now) =>
            ctx[pcb_array[t]] = [flow |-> pcb_array[t], depth |-> 0]

(* What is known in the middle of each kernel path. *)
Settled == cpu = Cur /\ user_page = cpu /\ esp0 = cpu
MidPath ==
    /\ Idle(cpu) \/ InKernel("launch") \/ InKernel("shift") \/ InKernel("named") => Settled
    /\ InKernel("switch") =>
        /\ Top(cpu).cur = cpu /\ cpu \in {pcb_array[t] : t \in Occupied}
        /\ Cur \in Id /\ Cur # cpu /\ Top(cpu).next = Cur /\ user_page = Cur /\ esp0 = Cur
    /\ InKernel("shift") \/ InKernel("named") => Top(cpu).last = terminal_now
    /\ InKernel("open") =>
        /\ terminal_now = cur_display /\ Cur = NoProc
        /\ pcb_array[Top(cpu).last] = cpu /\ user_page = cpu /\ esp0 = cpu
        /\ ctx[cpu] = [flow |-> cpu, depth |-> 0]
    /\ Halting =>
        /\ Top(cpu).cur = cpu /\ Top(cpu).next = Cur /\ Cur = caller[cpu] /\ Cur \in Id
        /\ parent_id[Cur] = Cur /\ id_array[cpu] = 0

QuietInv ==
    /\ OnePath
    /\ ShallowTrees
    /\ NoLeak
    /\ Roles
    /\ Resumable
    /\ MidPath
=============================================================================
