----------------------------- MODULE MCFileSys -----------------------------
(* Instances of FileSys for TLC. *)
EXTENDS FileSys, TLC

CONSTANTS p1, p2, fa, fb, fc

Symmetry == Permutations(Proc)
Old == <<fa>>

(* What the processes call. *)
Everything == {"open", "close", "read", "write", "remove", "restart"}
AnyCall == [p \in Proc |-> Everything]
ListAndCreate == [p \in Proc |->
    IF p = p1 THEN {"open", "close", "write"} ELSE {"open", "close", "read"}]
=============================================================================
