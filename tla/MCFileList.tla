----------------------------- MODULE MCFileList -----------------------------
(***************************************************************************)
(* Calls that overlap: one process lists the directory and reads files     *)
(* while another creates and writes them, until the disk is full.          *)
(***************************************************************************)
EXTENDS MCFileSys

(***************************************************************************)
(* What a process that lists the directory has seen since it last read the *)
(* first entry, and what it should see: the names there were then.         *)
(***************************************************************************)
VARIABLES seen, due
listVars == <<vars, seen, due>>

Present == {dentry_array[s].name : s \in {r \in 0 .. Num_Dentry - 1 : ~Copying(r)}}
AtFirst(p) == call[p].pc = "list" /\ call[p].off = 0
Seeing(p) == call[p].pc = "list name" /\ call'[p].pc = "user"

ListInit == Init /\ seen = [p \in Proc |-> {}] /\ due = [p \in Proc |-> {}]
ListNext ==
    /\ Next
    /\ seen' = [p \in Proc |->
           IF AtFirst(p) THEN {}
           ELSE IF Seeing(p) THEN seen[p] \cup {dentry_array[call[p].off].name} ELSE seen[p]]
    /\ due' = [p \in Proc |-> IF AtFirst(p) THEN Present ELSE due[p]]

(* A process inside a call goes on when its terminal is scheduled again. *)
FairListSpec ==
    ListInit /\ [][ListNext]_listVars /\ \A p \in Proc : WF_listVars(Inside(p) /\ ListNext)

(***************************************************************************)
(* A listing of the directory that reaches the end has returned every file *)
(* there was when it began, also while another process creates files; it   *)
(* may miss one when files are removed meanwhile.                          *)
(***************************************************************************)
ListingComplete ==
    [][\A p \in Proc :
        call[p].pc = "list" /\ call[p].off = Num_Dentry /\ call'[p].pc = "user" =>
            due[p] \subseteq seen[p]]_listVars
=============================================================================
