------------------------------ MODULE FileSys ------------------------------
(***************************************************************************)
(* The file system (filesys.c) and the descriptors of the processes that   *)
(* use it (open, close, read, write and remove of systemcall.c).           *)
(*                                                                         *)
(* open, close and remove run with interrupts off and are one step.  read  *)
(* and write execute sti first, so that the processes of the terminals     *)
(* interleave inside them: `call' holds where each process is, what it     *)
(* has loaded in registers, and its local variables.  Counters are read    *)
(* and written back in two steps, as the compiled code does.  A read takes *)
(* byte by byte, a write fills a block at once: in the runs one process at *)
(* a time writes, and nothing is promised to who reads a file meanwhile.   *)
(*                                                                         *)
(* A name is a model value; a byte is who wrote it and its place in the     *)
(* buffer.  The file "rtc" is the subject of the module Rtc.             *)
(***************************************************************************)
EXTENDS Integers, Sequences, FiniteSets

CONSTANTS
    Proc,       \* processes that use the file system, one per terminal
    Name,       \* names of regular files
    OldFiles,   \* sequence of the files on the image
    Lengths,    \* nbytes of the calls
    NumInode,   \* Num_Inodes
    NumBlock,   \* Num_Data_Blocks
    BlkSize,    \* BLK_SIZE
    MaxBlk,     \* MAX_NUM_DATA_BLK
    MaxDentry,  \* MAX_NUM_DENTRY
    Fd,         \* descriptors from FIRST_FILE_FD on
    Word,       \* 2^32: file_pos is taken modulo it
    MaxShort,   \* bound: failed allocations
    MaxPos,     \* bound: position up to which a descriptor is used

    Serial,     \* one call of read, write or remove at a time
    Ample,      \* no write is started that there is no room for
    May         \* the calls that each process makes

Inode == 0 .. NumInode - 1
Block == 0 .. NumBlock - 1
NoInode == -1
NoName == "no name"
DirName == "."
Blank == <<"blank", 0>>
BlankBlock == [k \in 0 .. BlkSize - 1 |-> Blank]

CeilDiv(a, b) == (a + b - 1) \div b

(***************************************************************************)
(* The image has room for its files, and an inode for every write: the     *)
(* code does not test whether data_block_idx has a place for each block.   *)
(***************************************************************************)
ASSUME Assumption ==
    /\ NumInode \in Nat /\ {NumBlock, BlkSize, MaxBlk, Word} \subseteq Nat \ {0}
    /\ OldFiles \in Seq(Name) /\ {NoName, DirName} \cap Name = {}
    /\ Len(OldFiles) < NumInode /\ Len(OldFiles) <= NumBlock
    /\ MaxDentry \in Nat /\ Len(OldFiles) < MaxDentry
    /\ IsFiniteSet(Proc) /\ Fd \subseteq Nat
    /\ MaxPos \in Nat /\ MaxPos < Word
    /\ Lengths \subseteq Nat /\ \A n \in Lengths : CeilDiv(n, BlkSize) <= MaxBlk
    /\ May \in [Proc -> SUBSET {"open", "close", "read", "write", "remove", "restart"}]

VARIABLES
    dentry_array,        \* the slots of the boot block and those behind it
    Num_Dentry,
    length,              \* inode -> length
    data_block_idx,      \* inode -> index -> block
    data,                \* block -> bytes
    Free_list_len, Free_inode_list_len,
    file_array,          \* process -> descriptor -> entry
    call                 \* process -> the call it is in

disk == <<length, data_block_idx, data>>
counters == <<Free_list_len, Free_inode_list_len>>
directory == <<dentry_array, Num_Dentry>>
vars == <<directory, disk, counters, file_array, call>>

Slot == 0 .. MaxDentry + Cardinality(Proc)
Dentry == [name : Name \cup {NoName, DirName}, inode : Inode]
Entry == [busy : BOOLEAN, kind : {"none", "file", "dir"},
          inode : Inode \cup {NoInode}, pos : 0 .. Word - 1, name : Name \cup {NoName}]
FreeEntry == [busy |-> FALSE, kind |-> "none", inode |-> 0, pos |-> 0, name |-> NoName]

InUser == [pc |-> "user", fd |-> 0, buf |-> <<>>, n |-> 0, inode |-> NoInode, off |-> 0,
           i |-> 0, cnt |-> 0, reg |-> 0, got |-> <<>>]

Signed(x) == x                                                    \* mutant
Unsigned(x) == x % Word

-----------------------------------------------------------------------------
(***************************************************************************)
(* The image: the directory and the old files, of one byte each; file k    *)
(* has inode k and a block at the end of the disk.                         *)
(***************************************************************************)
OldInode == 1 .. Len(OldFiles)
OldLength(i) == IF i \in OldInode THEN 1 ELSE 0
OldBlock(i) == NumBlock - i
Busy == {OldBlock(i) : i \in OldInode}

Init ==
    /\ dentry_array = [s \in Slot |->
           IF s = 0 THEN [name |-> DirName, inode |-> 0]
           ELSE IF s \in OldInode THEN [name |-> OldFiles[s], inode |-> s]
           ELSE [name |-> NoName, inode |-> 0]]
    /\ Num_Dentry = Len(OldFiles) + 1
    /\ length = [i \in Inode |-> OldLength(i)]
    /\ data_block_idx = [i \in Inode |-> [k \in 0 .. MaxBlk - 1 |->
           IF i \in OldInode /\ k = 0 THEN OldBlock(i) ELSE 0]]
    /\ data = [b \in Block |-> IF \E i \in OldInode : b = OldBlock(i)
                               THEN [BlankBlock EXCEPT ![0] = <<"old", b>>] ELSE BlankBlock]
    /\ Free_list_len = Cardinality(Block \ Busy)
    /\ Free_inode_list_len = Cardinality({i \in Inode : OldLength(i) = 0})
    /\ file_array = [p \in Proc |-> [fd \in Fd |-> FreeEntry]]
    /\ call = [p \in Proc |-> InUser]

(***************************************************************************)
(* free_list_init: the free lists are filled once, in ascending order, and *)
(* popped from the end; only their lengths change.                         *)
(***************************************************************************)
Ascending(S) == [k \in 0 .. Cardinality(S) - 1 |->
                    CHOOSE x \in S : Cardinality({y \in S : y < x}) = k]
Free_list == Ascending(Block \ Busy)
Free_inode_list == Ascending({i \in Inode : OldLength(i) = 0})

-----------------------------------------------------------------------------
(* open, close, remove and the end of a process: interrupts are off. *)

Idle(p) == call[p].pc = "user"
Calls(p, op) == Idle(p) /\ op \in May[p]
Alone == Serial => \A q \in Proc : Idle(q)

(* read_dentry_by_name *)
FindsAt(name, s) ==
    /\ s < Num_Dentry /\ dentry_array[s].name = name
    /\ \A r \in 0 .. s - 1 : dentry_array[r].name # name
NotFound(name) == \A s \in 0 .. Num_Dentry - 1 : dentry_array[s].name # name

FirstFree(p, fd) == ~file_array[p][fd].busy /\ \A g \in Fd : g < fd => file_array[p][g].busy

Opened(name) ==
    IF NotFound(name)
    THEN [busy |-> TRUE, kind |-> "file", inode |-> NoInode, pos |-> 0, name |-> name]
    ELSE LET s == CHOOSE s \in 0 .. Num_Dentry - 1 : FindsAt(name, s) IN
         [busy |-> TRUE, kind |-> IF name = DirName THEN "dir" ELSE "file",
          inode |-> dentry_array[s].inode, pos |-> 0, name |-> NoName]

Open(p, name) ==
    /\ Calls(p, "open")
    /\ \E fd \in Fd :
       /\ FirstFree(p, fd)
       /\ file_array' = [file_array EXCEPT ![p][fd] = Opened(name)]
       /\ call' = [call EXCEPT ![p] = InUser]
    /\ UNCHANGED <<directory, disk, counters>>

OpenFails(p) ==
    /\ Calls(p, "open") /\ \A fd \in Fd : file_array[p][fd].busy
    /\ call' = [call EXCEPT ![p] = InUser]
    /\ UNCHANGED <<directory, disk, counters, file_array>>

Close(p, fd) ==
    /\ Calls(p, "close") /\ file_array[p][fd].busy
    /\ file_array' = [file_array EXCEPT ![p][fd] =
           [@ EXCEPT !.busy = FALSE, !.pos = 0, !.inode = 0]]
    /\ call' = [call EXCEPT ![p] = InUser]
    /\ UNCHANGED <<directory, disk, counters>>

(* Slots behind the removed one move up; the last one keeps a copy. *)
ShiftedFrom(s) == [r \in Slot |-> IF r \in s .. Num_Dentry - 2 THEN dentry_array[r + 1]
                                  ELSE dentry_array[r]]
Remove(p, name) ==
    /\ Calls(p, "remove") /\ Alone
    /\ \E s \in 0 .. Num_Dentry - 1 : FindsAt(name, s) /\ dentry_array' = ShiftedFrom(s)
    /\ Num_Dentry' = Num_Dentry - 1
    /\ call' = [call EXCEPT ![p] = InUser]
    /\ UNCHANGED <<disk, counters, file_array>>

(* halt, and pcb_initialize of the next process of the terminal. *)
Restart(p) ==
    /\ Calls(p, "restart")
    /\ file_array' = [file_array EXCEPT ![p] = [fd \in Fd |-> FreeEntry]]
    /\ call' = [call EXCEPT ![p] = InUser]
    /\ UNCHANGED <<directory, disk, counters>>

-----------------------------------------------------------------------------
(* write: file_create if the file is new, then write_data *)

Go(p, pc) == call' = [call EXCEPT ![p].pc = pc]
At(p, pc) == call[p].pc = pc
Mine(p) == file_array[p][call[p].fd]

Room(n) == CeilDiv(n, BlkSize) <= Free_list_len
Entered(pc, fd, buf, e) ==
    [InUser EXCEPT !.pc = pc, !.fd = fd, !.buf = buf, !.n = Len(buf),
                              !.inode = e.inode, !.off = e.pos]

Write(p, fd, n) ==
    /\ Calls(p, "write") /\ Alone
    /\ Ample => Room(n)
    /\ Free_list_len > -MaxShort /\ Free_inode_list_len > -MaxShort
    /\ LET e == file_array[p][fd]
           buf == [k \in 1 .. n |-> <<p, k>>]
           fails == e.inode # NoInode /\ (~e.busy \/ e.kind = "dir")
           next == IF e.inode = NoInode THEN "create" ELSE "write"
       IN
       /\ e.pos <= MaxPos \/ e.inode = NoInode
       /\ call' = [call EXCEPT ![p] = IF fails THEN InUser
                                      ELSE Entered(next, fd, buf, e)]
    /\ UNCHANGED <<directory, disk, counters, file_array>>

(* The result of file_create becomes the inode of the descriptor. *)
Created(p, i) ==
    /\ file_array' = [file_array EXCEPT ![p][call[p].fd].inode = i]
    /\ call' = [call EXCEPT ![p].inode = i, ![p].pc = "write"]

DirectoryFull == Num_Dentry >= MaxDentry

CreateCheck(p) ==
    /\ At(p, "create")
    /\ IF DirectoryFull THEN Created(p, NoInode)
       ELSE Go(p, "load inode") /\ UNCHANGED file_array
    /\ UNCHANGED <<directory, disk, counters>>

(* Free_list_len-- and Free_inode_list_len--: load, then store. *)
LoadInodeLen(p) ==
    /\ At(p, "load inode")
    /\ call' = [call EXCEPT ![p].reg = Free_inode_list_len, ![p].pc = "store inode"]
    /\ UNCHANGED <<directory, disk, counters, file_array>>

StoreInodeLen(p) ==
    /\ At(p, "store inode")
    /\ Free_inode_list_len' = call[p].reg - 1
    /\ Go(p, "take inode")
    /\ UNCHANGED <<directory, disk, Free_list_len, file_array>>

Bottom(list, len) == list[0]                                      \* mutant
Popped(list, len) == list[len]

(* The rest of get_free_inode_index indexes with the length in memory. *)
TakeInode(p) ==
    /\ At(p, "take inode")
    /\ IF Free_inode_list_len < 0 THEN Created(p, NoInode)
       ELSE /\ call' = [call EXCEPT ![p].inode = Popped(Free_inode_list, Free_inode_list_len),
                                    ![p].pc = "load dentry"]
            /\ UNCHANGED file_array
    /\ UNCHANGED <<directory, disk, counters>>

(* dentry_array[Num_Dentry++] = dentry: the count first, then the entry. *)
LoadNumDentry(p) ==
    /\ At(p, "load dentry")
    /\ call' = [call EXCEPT ![p].reg = Num_Dentry, ![p].pc = "store dentry"]
    /\ UNCHANGED <<directory, disk, counters, file_array>>

StoreNumDentry(p) ==
    /\ At(p, "store dentry")
    /\ Num_Dentry' = call[p].reg + 1
    /\ Go(p, "copy dentry")
    /\ UNCHANGED <<dentry_array, disk, counters, file_array>>

CopyDentry(p) ==
    /\ At(p, "copy dentry")
    /\ dentry_array' = [dentry_array EXCEPT ![call[p].reg] =
           [name |-> Mine(p).name, inode |-> call[p].inode]]
    /\ Created(p, call[p].inode)
    /\ UNCHANGED <<Num_Dentry, disk, counters>>

(***************************************************************************)
(* write_data: the inode gets the length of this write, whatever the       *)
(* offset, and new blocks from the first one that starts at or behind it.  *)
(* The test of the offset and the store of the length are one step: no      *)
(* other process does more to a length than store it.                      *)
(***************************************************************************)
StartBlk(c) == CeilDiv(c.off, BlkSize)
BlkNum(c) == CeilDiv(c.n, BlkSize)

WriteHead(p) ==
    /\ At(p, "write")
    /\ LET c == call[p] IN
       IF c.inode = NoInode \/ c.off > length[c.inode]
       THEN /\ call' = [call EXCEPT ![p].cnt = IF c.inode = NoInode THEN -1 ELSE 0,
                                    ![p].pc = "written"]
            /\ UNCHANGED length
       ELSE /\ length' = [length EXCEPT ![c.inode] = c.n]
            /\ call' = [call EXCEPT ![p].i = StartBlk(c),
                           ![p].pc = IF StartBlk(c) < BlkNum(c) THEN "load block" ELSE "written"]
    /\ UNCHANGED <<directory, data_block_idx, data, counters, file_array>>

LoadLen(p) ==
    /\ At(p, "load block")
    /\ call' = [call EXCEPT ![p].reg = Free_list_len, ![p].pc = "store block"]
    /\ UNCHANGED <<directory, disk, counters, file_array>>

StoreLen(p) ==
    /\ At(p, "store block")
    /\ Free_list_len' = call[p].reg - 1
    /\ Go(p, "take block")
    /\ UNCHANGED <<directory, disk, Free_inode_list_len, file_array>>

RetryWhenFull == "take block"                                     \* mutant
WhenFull == "written"

TakeBlock(p) ==
    /\ At(p, "take block")
    /\ IF Free_list_len < 0 THEN Go(p, WhenFull) /\ UNCHANGED data_block_idx
       ELSE /\ data_block_idx' = [data_block_idx EXCEPT ![call[p].inode][call[p].i] =
                                     Popped(Free_list, Free_list_len)]
            /\ call' = [call EXCEPT ![p].reg = Popped(Free_list, Free_list_len), ![p].pc = "fill"]
    /\ UNCHANGED <<directory, length, data, counters, file_array>>

Fits(c, start) == IF c.n - c.cnt < BlkSize - start THEN c.n - c.cnt ELSE BlkSize - start

FromBufStart(c, k) == c.buf[k + 1]                                \* mutant
FromBuf(c, k) == c.buf[c.cnt + k + 1]

Fill(p) ==
    /\ At(p, "fill")
    /\ LET c == call[p]
           start == IF c.i = StartBlk(c) THEN c.off % BlkSize ELSE 0
           m == Fits(c, start)
       IN
       /\ data' = [data EXCEPT ![c.reg] =
              [j \in 0 .. BlkSize - 1 |->
                  IF j \in start .. start + m - 1 THEN FromBuf(c, j - start) ELSE @[j]]]
       /\ call' = [call EXCEPT ![p].cnt = c.cnt + m, ![p].i = c.i + 1,
                      ![p].pc = IF c.cnt + m = c.n \/ c.i + 1 = BlkNum(c)
                                THEN "written" ELSE "load block"]
    /\ UNCHANGED <<directory, length, data_block_idx, counters, file_array>>

(* file_write adds the result to file_pos, and write adds it again. *)
WriteReturn(p) ==
    /\ At(p, "written")
    /\ LET r == call[p].cnt
           step == IF r = -1 THEN -1 ELSE 2 * r IN
       /\ file_array' = [file_array EXCEPT ![p][call[p].fd].pos = Unsigned(@ + step)]
       /\ call' = [call EXCEPT ![p] = InUser]
    /\ UNCHANGED <<directory, disk, counters>>

-----------------------------------------------------------------------------
(* read: read_data for a file, dir_read for the directory *)

Read(p, fd, n) ==
    /\ Calls(p, "read") /\ Alone
    /\ LET e == file_array[p][fd]
           close == e.inode = NoInode
           fails == close \/ ~e.busy
       IN
       /\ e.pos <= MaxPos \/ fails
       /\ file_array' = IF close /\ e.busy
              THEN [file_array EXCEPT ![p][fd] =
                       [@ EXCEPT !.busy = FALSE, !.pos = 0, !.inode = 0]]
              ELSE file_array
       /\ call' = [call EXCEPT ![p] =
              IF fails THEN InUser
              ELSE [Entered(IF e.kind = "dir" THEN "list" ELSE "read", fd, <<>>, e)
                       EXCEPT !.n = n]]
    /\ UNCHANGED <<directory, disk, counters>>

(***************************************************************************)
(* c.cnt is the index in the inode, c.reg the block found there.  At the   *)
(* end of an inode with all its blocks in use, what is loaded from behind  *)
(* data_block_idx is not used.                                             *)
(***************************************************************************)
ReadHead(p) ==
    /\ At(p, "read")
    /\ LET c == call[p]
           k == c.off \div BlkSize
       IN
       call' = IF c.off > length[c.inode] THEN [call EXCEPT ![p].pc = "got"]
               ELSE [call EXCEPT ![p].cnt = k,
                        ![p].reg = IF k < MaxBlk THEN data_block_idx[c.inode][k] ELSE 0,
                        ![p].i = c.off % BlkSize, ![p].pc = "read byte"]
    /\ UNCHANGED <<directory, disk, counters, file_array>>

PastEnd(c) == c.off + Len(c.got) > length[c.inode]                \* mutant
AtEnd(c) == c.off + Len(c.got) >= length[c.inode]

(* One turn of the loop; a new block is looked up when the last is done. *)
ReadByte(p) ==
    /\ At(p, "read byte")
    /\ LET c == call[p]
           next == c.i = BlkSize
           k == IF next THEN c.cnt + 1 ELSE c.cnt
           blk == IF next THEN data_block_idx[c.inode][k] ELSE c.reg
           j == IF next THEN 0 ELSE c.i
       IN
       IF Len(c.got) = c.n \/ AtEnd(c) \/ k >= MaxBlk THEN Go(p, "got")
       ELSE call' = [call EXCEPT ![p].cnt = k, ![p].reg = blk, ![p].i = j + 1,
                        ![p].got = Append(@, data[blk][j])]
    /\ UNCHANGED <<directory, disk, counters, file_array>>

ReadReturn(p) ==
    /\ At(p, "got")
    /\ LET r == Len(call[p].got) IN
       /\ file_array' = [file_array EXCEPT ![p][call[p].fd].pos = Unsigned(@ + r)]
       /\ call' = [call EXCEPT ![p] = InUser]
    /\ UNCHANGED <<directory, disk, counters>>

(* dir_read: the name at file_pos; 0 behind the last and -1 further on,     *)
(* which whoever lists takes for the end alike.                            *)
ListCheck(p) ==
    /\ At(p, "list")
    /\ call' = [call EXCEPT ![p] =
           IF call[p].off >= Num_Dentry
           THEN InUser
           ELSE [@ EXCEPT !.pc = "list name"]]
    /\ UNCHANGED <<directory, disk, counters, file_array>>

SkipTwo == 2                                                      \* mutant
ListStep == 1

ListName(p) ==
    /\ At(p, "list name")
    /\ call' = [call EXCEPT ![p] = InUser]
    /\ file_array' = [file_array EXCEPT ![p][call[p].fd].pos = Unsigned(@ + ListStep)]
    /\ UNCHANGED <<directory, disk, counters>>

-----------------------------------------------------------------------------
Enter(p) ==
    \/ \E name \in Name \cup {DirName} : Open(p, name)
    \/ OpenFails(p)
    \/ \E fd \in Fd : Close(p, fd)
    \/ \E name \in Name : Remove(p, name)
    \/ Restart(p)
    \/ \E fd \in Fd, n \in Lengths : Write(p, fd, n) \/ Read(p, fd, n)
Create(p) ==
    \/ CreateCheck(p) \/ LoadInodeLen(p) \/ StoreInodeLen(p) \/ TakeInode(p)
    \/ LoadNumDentry(p) \/ StoreNumDentry(p) \/ CopyDentry(p)
WriteData(p) ==
    WriteHead(p) \/ LoadLen(p) \/ StoreLen(p) \/ TakeBlock(p) \/ Fill(p) \/ WriteReturn(p)
ReadData(p) ==
    ReadHead(p) \/ ReadByte(p) \/ ReadReturn(p) \/ ListCheck(p) \/ ListName(p)
Inside(p) == Create(p) \/ WriteData(p) \/ ReadData(p)

Next == \E p \in Proc : Enter(p) \/ Inside(p)

Spec == Init /\ [][Next]_vars
(* The scheduler runs every terminal again and again. *)
FairSpec == Spec /\ \A p \in Proc : WF_vars(Inside(p))

-----------------------------------------------------------------------------
(***************************************************************************)
(* Properties.                                                             *)
(***************************************************************************)
Pc == {"user", "create", "load inode", "store inode", "take inode", "load dentry",
       "store dentry", "copy dentry", "write", "load block", "store block", "take block",
       "fill", "written", "read", "read byte", "got", "list", "list name"}

(***************************************************************************)
(* Every variable keeps to its range.  The directory does not outgrow its  *)
(* places if creations do not overlap: one that overlaps others may add    *)
(* one entry for each of them, behind the boot block.                      *)
(***************************************************************************)
TypeOK ==
    /\ dentry_array \in [Slot -> Dentry] /\ Num_Dentry \in Slot
    /\ Serial => Num_Dentry <= MaxDentry
    /\ length \in [Inode -> Nat]
    /\ data_block_idx \in [Inode -> [0 .. MaxBlk - 1 -> Block]]
    /\ \A b \in Block : DOMAIN data[b] = 0 .. BlkSize - 1
    /\ Free_list_len <= NumBlock /\ Free_inode_list_len <= NumInode
    /\ file_array \in [Proc -> [Fd -> Entry]]
    /\ \A p \in Proc : call[p].pc \in Pc /\ call[p].inode \in Inode \cup {NoInode}

WritePc == {"write", "load block", "store block", "take block", "fill", "written"}
WritesTo(p, i) == call[p].pc \in WritePc /\ call[p].inode = i
Contents(i) ==
    [k \in 1 .. length[i] |->
        data[data_block_idx[i][(k - 1) \div BlkSize]][(k - 1) % BlkSize]]
Blocks(i) == {data_block_idx[i][k] : k \in 0 .. CeilDiv(length[i], BlkSize) - 1}
Copying(s) == \E p \in Proc : call[p].pc = "copy dentry" /\ call[p].reg = s
Files == {s \in 0 .. Num_Dentry - 1 : dentry_array[s].name \in Name /\ ~Copying(s)}
Quiescent == \A p \in Proc : call[p].pc \notin WritePc
Ended(p) == call[p].pc # "user" /\ call[p].pc' = "user"

(***************************************************************************)
(* While nobody writes, no block belongs to two files or twice to one, and *)
(* none of them is in the part of Free_list that is still to be given out; *)
(* different files of the directory have different inodes.                 *)
(***************************************************************************)
NoAliasing ==
    /\ \A s, r \in Files : s # r => dentry_array[s].inode # dentry_array[r].inode
    /\ Quiescent =>
        /\ \A i, j \in Inode : i # j => Blocks(i) \cap Blocks(j) = {}
        /\ \A i \in Inode : Cardinality(Blocks(i)) = CeilDiv(length[i], BlkSize)
        /\ \A i \in Inode, k \in 0 .. Free_list_len - 1 : Free_list[k] \notin Blocks(i)

(* What a file holds changes by a write to this file only. *)
Isolation ==
    [][\A i \in Inode : Contents(i)' # Contents(i) => \E p \in Proc : WritesTo(p, i)]_vars

(* A file written from its start holds what was written, and nothing else. *)
WriteStores ==
    [][\A p \in Proc : At(p, "written") /\ Ended(p) /\ call[p].inode # NoInode
            /\ call[p].off = 0 => Contents(call[p].inode) = call[p].buf]_vars

(***************************************************************************)
(* The number that a write from the start returns, also on a full disk, is *)
(* that of the bytes of the buffer that the file now begins with, although *)
(* the length may count more.                                              *)
(***************************************************************************)
CountIsStored ==
    [][\A p \in Proc : At(p, "written") /\ Ended(p) /\ call[p].cnt >= 0 /\ call[p].off = 0 =>
            LET c == call[p]
                byte(k) == data[data_block_idx[c.inode][k \div BlkSize]][k % BlkSize]
            IN \A k \in 0 .. c.cnt - 1 : byte(k) = c.buf[k + 1]]_vars

(* read returns the bytes from file_pos on: nbytes of them, or up to the end. *)
Least(a, b) == IF a < b THEN a ELSE b
ReadsFile ==
    [][\A p \in Proc : At(p, "got") /\ Ended(p) =>
            LET c == call[p] IN
            c.got = SubSeq(Contents(c.inode), c.off + 1, Least(c.off + c.n, length[c.inode]))]_vars

(* A call of read or write comes back. *)
CallsReturn == \A p \in Proc : call[p].pc # "user" ~> call[p].pc = "user"

(* open of a file that is not there fails. *)
OpenFindsFile ==
    [][\A p \in Proc, fd \in Fd : ~file_array[p][fd].busy /\ file_array'[p][fd].busy =>
            file_array'[p][fd].inode \in Inode]_vars

(* A write moves the position of its descriptor by what it returns. *)
PositionFollows ==
    [][\A p \in Proc : At(p, "written") /\ Ended(p) /\ call[p].cnt >= 0 =>
            LET fd == call[p].fd IN
            file_array'[p][fd].pos = Unsigned(file_array[p][fd].pos + call[p].cnt)]_vars

(* After a write from the start the length is the number of bytes written. *)
LengthIsWritten ==
    [][\A p \in Proc : At(p, "written") /\ Ended(p) /\ call[p].cnt >= 0 /\ call[p].off = 0 =>
            length[call[p].inode] = call[p].cnt]_vars

(* A dentry that has been filled in is one of the directory. *)
CreatedIsListed ==
    [][\A p \in Proc : CopyDentry(p) => call[p].reg < Num_Dentry']_vars

(* A file is created only if the directory does not have it yet. *)
NamesDistinct ==
    \A s, r \in Files : s # r => dentry_array[s].name # dentry_array[r].name
=============================================================================
