--------------------------- MODULE FileSysProofs ---------------------------
(***************************************************************************)
(* Proofs about FileSys, for any number of processes, files, inodes and    *)
(* blocks and blocks of any size.                                          *)
(***************************************************************************)
EXTENDS MCFileList, FiniteSetTheorems, SequenceTheorems, TLAPS

-----------------------------------------------------------------------------
(* A non-empty set of numbers has a least element. *)
LEMMA LeastNumber ==
    ASSUME NEW S \in SUBSET Nat, S # {}
    PROVE  \E x \in S : \A y \in S : x <= y
  <1> DEFINE UpTo(n) == {y \in S : y <= n}
             T == {UpTo(n) : n \in S}
  <1>1. T \subseteq FiniteSubsetsOf(Nat)
    <2>1. \A n \in S : UpTo(n) \in SUBSET Nat /\ \A y \in UpTo(n) : y <= n
      OBVIOUS
    <2>2. \A n \in S : IsFiniteSet(UpTo(n))
      BY <2>1, FS_BoundedSetOfNaturals
    <2> QED BY <2>1, <2>2 DEF FiniteSubsetsOf
  <1>2. T # {}
    OBVIOUS
  <1>3. \E X \in T : \A Y \in T : ~(<<Y, X>> \in StrictSubsetOrdering(Nat))
    <2> HIDE DEF T
    <2> QED BY <1>1, <1>2, FS_StrictSubsetOrderingWellFounded, WFMin
  <1>4. PICK n \in S : \A y \in S : ~(<<UpTo(y), UpTo(n)>> \in StrictSubsetOrdering(Nat))
    BY <1>3
  <1>5. \A y \in S : n <= y
    <2> SUFFICES ASSUME NEW y \in S, y < n PROVE FALSE
      OBVIOUS
    <2>1. UpTo(y) \subseteq UpTo(n) /\ n \in UpTo(n) /\ n \notin UpTo(y)
      <3>1. y \in Nat /\ n \in Nat /\ \A z \in S : z \in Nat
        OBVIOUS
      <3>2. \A z \in S : z <= y => z <= n
        BY <3>1
      <3>3. UpTo(y) \subseteq UpTo(n)
        BY <3>2
      <3>4. n \in UpTo(n) /\ n \notin UpTo(y)
        BY <3>1
      <3> QED BY <3>3, <3>4
    <2>2. UpTo(y) \in SUBSET Nat /\ UpTo(n) \in SUBSET Nat
      OBVIOUS
    <2> HIDE DEF UpTo
    <2>3. <<UpTo(y), UpTo(n)>> \in StrictSubsetOrdering(Nat)
      BY <2>1, <2>2 DEF StrictSubsetOrdering
    <2> QED BY <1>4, <2>3
  <1> QED BY <1>5

(* Ascending lists a finite set of numbers, each of them once. *)
LEMMA AscendingLists ==
    ASSUME NEW S \in SUBSET Nat, IsFiniteSet(S)
    PROVE  /\ Cardinality(S) \in Nat
           /\ Ascending(S) \in [0 .. Cardinality(S) - 1 -> S]
           /\ \A j, k \in 0 .. Cardinality(S) - 1 : j # k => Ascending(S)[j] # Ascending(S)[k]
  <1> DEFINE n == Cardinality(S)
             Below(x) == {y \in S : y < x}
             rank == [x \in S |-> Cardinality(Below(x))]
  <1>1. n \in Nat
    BY FS_CardinalityType
  <1>2. \A x \in S : IsFiniteSet(Below(x)) /\ Cardinality(Below(x)) \in 0 .. n - 1
    <2> TAKE x \in S
    <2>1. Below(x) \in SUBSET S /\ x \notin Below(x) /\ Below(x) # S
      OBVIOUS
    <2>2. /\ IsFiniteSet(Below(x)) /\ Cardinality(Below(x)) <= n
          /\ Cardinality(S) = Cardinality(Below(x)) => S = Below(x)
      BY <2>1, FS_Subset
    <2>3. Cardinality(Below(x)) \in Nat
      BY <2>2, FS_CardinalityType
    <2> QED BY <1>1, <2>1, <2>2, <2>3
  <1>3. \A x, y \in S : x < y => Cardinality(Below(x)) < Cardinality(Below(y))
    <2> TAKE x, y \in S
    <2> HAVE x < y
    <2>1. Below(x) \in SUBSET Below(y) /\ x \in Below(y) /\ x \notin Below(x)
      <3>1. x \in Nat /\ y \in Nat /\ \A z \in S : z \in Nat
        OBVIOUS
      <3>2. \A z \in S : z < x => z < y
        BY <3>1
      <3>3. Below(x) \in SUBSET Below(y)
        BY <3>2
      <3>4. x \in Below(y) /\ x \notin Below(x)
        BY <3>1
      <3> QED BY <3>3, <3>4
    <2> HIDE DEF Below
    <2>2. /\ Cardinality(Below(x)) <= Cardinality(Below(y))
          /\ Cardinality(Below(y)) = Cardinality(Below(x)) => Below(y) = Below(x)
      BY <2>1, <1>2, FS_Subset
    <2> QED BY <1>2, <2>1, <2>2
  <1>4. rank \in Injection(S, 0 .. n - 1)
    <2>1. rank \in [S -> 0 .. n - 1]
      BY <1>2
    <2>2. \A x, y \in S : rank[x] = rank[y] => x = y
      BY <1>2, <1>3
    <2> HIDE DEF rank
    <2> QED BY <2>1, <2>2 DEF Injection, IsInjective
  <1>5. rank \in Surjection(S, 0 .. n - 1)
    <2> HIDE DEF rank
    <2> HIDE DEF n
    <2>1. IsFiniteSet(0 .. n - 1) /\ Cardinality(0 .. n - 1) = n
      BY <1>1, FS_Interval
    <2>2. Cardinality(S) = n
      BY DEF n
    <2> QED BY <1>4, <2>1, <2>2, FS_Injection
  <1>6. \A k \in 0 .. n - 1 : \E x \in S : Cardinality(Below(x)) = k
    BY <1>5 DEF Surjection
  <1>7. \A k \in 0 .. n - 1 : Ascending(S)[k] \in S /\ Cardinality(Below(Ascending(S)[k])) = k
    <2> TAKE k \in 0 .. n - 1
    <2>1. Ascending(S)[k] = CHOOSE x \in S : Cardinality(Below(x)) = k
      BY DEF Ascending
    <2> QED BY <1>6, <2>1
  <1>8. Ascending(S) \in [0 .. n - 1 -> S]
    BY <1>7 DEF Ascending
  <1> QED BY <1>1, <1>7, <1>8

(* The cardinality of what a function that repeats no value takes. *)
LEMMA ImageSize ==
    ASSUME NEW n \in Nat, NEW f,
           \A j, k \in 0 .. n - 1 : j # k => f[j] # f[k]
    PROVE  Cardinality({f[k] : k \in 0 .. n - 1}) = n
  <1> DEFINE D == 0 .. n - 1
             T == {f[k] : k \in D}
             g == [k \in D |-> f[k]]
  <1>1. IsFiniteSet(D) /\ Cardinality(D) = n
    BY FS_Interval
  <1>2. g \in Bijection(D, T)
    BY DEF Bijection, Injection, IsInjective, Surjection
  <1>3. ExistsBijection(D, T)
    BY <1>2 DEF ExistsBijection
  <1> HIDE DEF D, T
  <1>4. Cardinality(T) = n
    BY <1>1, <1>3, FS_Bijection
  <1> QED BY <1>4 DEF D, T

(* Division by the size of a block. *)
LEMMA Sizes ==
    /\ BlkSize \in Nat /\ BlkSize > 0 /\ MaxBlk \in Nat /\ MaxBlk > 0 /\ Word \in Nat /\ Word > 0
    /\ NumInode \in Nat /\ NumBlock \in Nat /\ NumBlock > 0 /\ MaxDentry \in Nat /\ MaxPos \in Nat
    /\ \A n \in Lengths : n \in Nat /\ CeilDiv(n, BlkSize) <= MaxBlk
    /\ \A f \in Fd : f \in Nat
  BY Assumption

LEMMA BlockAndByte ==
    ASSUME NEW q \in Nat, NEW r \in 0 .. BlkSize - 1
    PROVE  (BlkSize * q + r) \div BlkSize = q /\ (BlkSize * q + r) % BlkSize = r
  BY Sizes

LEMMA Divided ==
    ASSUME NEW a \in Nat
    PROVE  /\ a \div BlkSize \in Nat /\ (a % BlkSize) \in 0 .. BlkSize - 1
           /\ a = BlkSize * (a \div BlkSize) + (a % BlkSize)
  BY Sizes

LEMMA BlocksOf ==
    ASSUME NEW a \in Nat
    PROVE  /\ CeilDiv(a, BlkSize) \in Nat
           /\ \A k \in Nat : k < CeilDiv(a, BlkSize) <=> BlkSize * k < a
           /\ \A k \in Nat : k < a => k \div BlkSize < CeilDiv(a, BlkSize)
  BY Sizes DEF CeilDiv

-----------------------------------------------------------------------------
(***************************************************************************)
(* The environment of the proofs: calls do not overlap, or one process at  *)
(* most writes, and no other removes.                                      *)
(***************************************************************************)
Orderly ==
    Serial \/ \A p, q \in Proc : p # q /\ "write" \in May[p] => {"write", "remove"} \cap May[q] = {}

Byte == (Proc \cup {"old", "blank"}) \X Int
Call == [pc : Pc, fd : Nat, buf : Seq(Byte), n : Nat, inode : Inode \cup {NoInode}, off : Nat,
         i : Nat, cnt : Int, reg : Int, got : Seq(Byte)]
FreeBlocks == Cardinality(Block \ Busy)
EmptyInodes == {i \in Inode : OldLength(i) = 0}
FreeInodes == Cardinality(EmptyInodes)

CreatePc == {"create", "load inode", "store inode", "take inode", "load dentry",
             "store dentry", "copy dentry"}
BlockPc == {"load block", "store block", "take block", "fill"}
ReadPc == {"read", "read byte", "got"}
Writing(p) == call[p].pc \in CreatePc \cup WritePc

Types ==
    /\ dentry_array \in [Slot -> Dentry] /\ dentry_array[0].name = DirName
    /\ Num_Dentry \in 1 .. MaxDentry
    /\ length \in [Inode -> Nat] /\ \A i \in Inode : CeilDiv(length[i], BlkSize) <= MaxBlk
    /\ data_block_idx \in [Inode -> [0 .. MaxBlk - 1 -> Block]]
    /\ data \in [Block -> [0 .. BlkSize - 1 -> Byte]]
    /\ Free_list_len \in Int /\ Free_list_len <= FreeBlocks
    /\ Free_inode_list_len \in Int /\ Free_inode_list_len <= FreeInodes
    /\ file_array \in [Proc -> [Fd -> Entry]]
    /\ call \in [Proc -> Call]

(* One process at most is inside a write, and alone if calls are serial. *)
Exclusive ==
    /\ \A p \in Proc : Writing(p) => "write" \in May[p]
    /\ \A p, q \in Proc : Writing(p) /\ Writing(q) => p = q
    /\ Serial => \A p, q \in Proc : ~Idle(p) /\ ~Idle(q) => p = q

(* What a process knows by itself. *)
Private(p) ==
    LET c == call[p] IN
    /\ \A fd \in Fd : file_array[p][fd].inode = NoInode => file_array[p][fd].name \in Name
    /\ c.pc # "user" => c.fd \in Fd
    /\ Writing(p) => c.n \in Lengths /\ Len(c.buf) = c.n
    /\ c.pc \in CreatePc => c.cnt = 0 /\ Mine(p).inode = NoInode
    /\ c.pc = "write" => c.cnt = 0
    /\ c.pc \in {"load dentry", "store dentry", "copy dentry"} \cup BlockPc \cup ReadPc => c.inode \in Inode
    /\ c.pc = "read byte" => c.cnt \in Nat /\ c.i <= BlkSize /\ (c.cnt < MaxBlk => c.reg \in Block)

(* What a process that writes has to do with the tables. *)
Working(p) ==
    LET c == call[p] IN
    /\ c.pc \in {"load inode", "store inode", "take inode", "load dentry", "store dentry"}
          => Num_Dentry < MaxDentry
    /\ c.pc = "store inode" => c.reg = Free_inode_list_len
    /\ c.pc = "take inode" => Free_inode_list_len < FreeInodes
    /\ c.pc = "store dentry" => c.reg = Num_Dentry
    /\ c.pc = "copy dentry" => c.reg = Num_Dentry - 1 /\ c.reg > 0
    /\ c.pc = "store block" => c.reg = Free_list_len
    /\ c.pc = "take block" => Free_list_len < FreeBlocks
    /\ c.pc \in BlockPc =>
          /\ StartBlk(c) <= c.i /\ c.i < BlkNum(c) /\ length[c.inode] = c.n
          /\ 0 <= c.cnt /\ c.cnt < c.n /\ c.cnt <= BlkSize * c.i
          /\ c.off = 0 => c.cnt = BlkSize * c.i
    /\ c.pc = "fill" => c.reg = data_block_idx[c.inode][c.i] /\ c.reg \in Block

Basics == Types /\ Exclusive /\ \A p \in Proc : Private(p) /\ Working(p)

-----------------------------------------------------------------------------
(* What the image gives the proofs. *)
LEMMA Lists ==
    /\ FreeBlocks \in Nat /\ Free_list \in [0 .. FreeBlocks - 1 -> Block \ Busy]
    /\ \A j, k \in 0 .. FreeBlocks - 1 : j # k => Free_list[j] # Free_list[k]
    /\ FreeInodes \in Nat /\ Free_inode_list \in [0 .. FreeInodes - 1 -> EmptyInodes]
    /\ \A j, k \in 0 .. FreeInodes - 1 : j # k => Free_inode_list[j] # Free_inode_list[k]
  <1>1. ASSUME NEW n \in Nat, NEW S \in SUBSET (0 .. n - 1)
        PROVE  S \in SUBSET Nat /\ IsFiniteSet(S)
    <2>1. IsFiniteSet(0 .. n - 1)
      BY FS_Interval
    <2>2. IsFiniteSet(S)
      BY <2>1, FS_Subset
    <2>3. S \in SUBSET Nat
      OBVIOUS
    <2> QED BY <2>2, <2>3
  <1>2. Block \ Busy \in SUBSET Nat /\ IsFiniteSet(Block \ Busy)
    BY <1>1, Sizes DEF Block
  <1>3. EmptyInodes \in SUBSET Nat /\ IsFiniteSet(EmptyInodes)
    <2>1. EmptyInodes \in SUBSET (0 .. NumInode - 1)
      BY DEF EmptyInodes, Inode
    <2> QED BY <1>1, <2>1, Sizes
  <1> QED BY <1>2, <1>3, AscendingLists DEF Free_list, Free_inode_list, FreeBlocks, FreeInodes, EmptyInodes

LEMMA Places ==
    /\ Cardinality(Proc) \in Nat /\ 0 .. MaxDentry \subseteq Slot /\ 0 \in Slot
    /\ NoInode \notin Inode /\ NoInode \in Int /\ \A i \in Inode : i \in Nat
    /\ NoName \notin Name /\ DirName \notin Name
    /\ Len(OldFiles) \in Nat /\ 0 \in Inode
  <1>1. Cardinality(Proc) \in Nat
    BY Assumption, FS_CardinalityType
  <1> QED BY <1>1, Sizes, Assumption DEF Slot, NoInode, Inode

(* open finds the first entry of a name. *)
LEMMA FirstFound ==
    ASSUME Types, NEW name, ~NotFound(name)
    PROVE  \E s \in 0 .. Num_Dentry - 1 : FindsAt(name, s)
  <1> DEFINE S == {s \in 0 .. Num_Dentry - 1 : dentry_array[s].name = name}
  <1>1. Num_Dentry \in Nat
    BY DEF Types
  <1>2. S \in SUBSET Nat /\ S # {}
    BY <1>1 DEF NotFound
  <1>3. PICK s \in S : \A r \in S : s <= r
    <2> HIDE DEF S
    <2> QED BY <1>2, LeastNumber
  <1>4. \A r \in 0 .. s - 1 : dentry_array[r].name # name
    BY <1>1, <1>3
  <1> QED BY <1>1, <1>3, <1>4 DEF FindsAt

LEMMA OpenedType ==
    ASSUME Types, NEW name \in Name \cup {DirName}
    PROVE  /\ Opened(name) \in Entry
           /\ Opened(name).inode = NoInode => Opened(name).name \in Name
  <1>1. 0 \in 0 .. Word - 1
    BY Sizes
  <1>2. CASE NotFound(name)
    <2>1. name # DirName
      <3>1. 0 \in 0 .. Num_Dentry - 1 /\ dentry_array[0].name = DirName
        BY DEF Types
      <3> QED BY <1>2, <3>1 DEF NotFound
    <2> QED BY <1>1, <1>2, <2>1 DEF Opened, Entry, NoInode
  <1>3. CASE ~NotFound(name)
    <2> DEFINE s == CHOOSE s \in 0 .. Num_Dentry - 1 : FindsAt(name, s)
    <2>1. s \in 0 .. Num_Dentry - 1
      BY <1>3, FirstFound
    <2>2. dentry_array[s].inode \in Inode
      <3>1. s \in Slot
        BY <2>1, Places, Sizes DEF Types
      <3> QED BY <3>1 DEF Types, Dentry
    <2>3. Opened(name) = [busy |-> TRUE, kind |-> IF name = DirName THEN "dir" ELSE "file",
                          inode |-> dentry_array[s].inode, pos |-> 0, name |-> NoName]
      BY <1>3 DEF Opened
    <2> HIDE DEF s
    <2> QED BY <1>1, <2>2, <2>3, Places DEF Entry
  <1> QED BY <1>2, <1>3

-----------------------------------------------------------------------------
(* One turn of the loop of read_data. *)
NextIndex(c) == IF c.i = BlkSize THEN c.cnt + 1 ELSE c.cnt
BlockThere(c) == IF c.i = BlkSize THEN data_block_idx[c.inode][NextIndex(c)] ELSE c.reg
ByteThere(c) == IF c.i = BlkSize THEN 0 ELSE c.i
Finished(c) == Len(c.got) = c.n \/ AtEnd(c) \/ NextIndex(c) >= MaxBlk

LEMMA ByteRead ==
    ASSUME call \in [Proc -> Call], NEW p \in Proc, ReadByte(p)
    PROVE  LET c == call[p]
               d == call'[p]
           IN
           /\ c.pc = "read byte"
           /\ d.fd = c.fd /\ d.buf = c.buf /\ d.n = c.n /\ d.inode = c.inode /\ d.off = c.off
           /\ \/ /\ Finished(c) /\ d.pc = "got"
                 /\ d.i = c.i /\ d.cnt = c.cnt /\ d.reg = c.reg /\ d.got = c.got
              \/ /\ ~Finished(c) /\ d.pc = c.pc
                 /\ d.cnt = NextIndex(c) /\ d.reg = BlockThere(c) /\ d.i = ByteThere(c) + 1
                 /\ d.got = Append(c.got, data[BlockThere(c)][ByteThere(c)])
           /\ d = [pc |-> d.pc, fd |-> d.fd, buf |-> d.buf, n |-> d.n, inode |-> d.inode,
                   off |-> d.off, i |-> d.i, cnt |-> d.cnt, reg |-> d.reg, got |-> d.got]
  <1> DEFINE c == call[p]
  <1>1. c \in Call
    OBVIOUS
  <1>2. c.pc = "read byte"
    BY DEF ReadByte, At
  <1>3. call' = IF Finished(c) THEN [call EXCEPT ![p].pc = "got"]
                ELSE [call EXCEPT ![p] = [@ EXCEPT !.cnt = NextIndex(c), !.reg = BlockThere(c),
                         !.i = ByteThere(c) + 1,
                         !.got = Append(c.got, data[BlockThere(c)][ByteThere(c)])]]
    BY DEF ReadByte, Finished, NextIndex, BlockThere, ByteThere, Go
  <1>4. call'[p] = IF Finished(c) THEN [c EXCEPT !.pc = "got"]
                   ELSE [c EXCEPT !.cnt = NextIndex(c), !.reg = BlockThere(c),
                         !.i = ByteThere(c) + 1,
                         !.got = Append(c.got, data[BlockThere(c)][ByteThere(c)])]
    BY <1>3
  <1> HIDE DEF c
  <1> QED BY <1>1, <1>2, <1>4 DEF Call, c

(* A step of one process: what it leaves to the others. *)
LEMMA OthersKept ==
    ASSUME Types, Exclusive, Orderly, NEW p \in Proc, Enter(p) \/ Inside(p), NEW q \in Proc, q # p
    PROVE  /\ call'[q] = call[q] /\ file_array'[q] = file_array[q]
           /\ Writing(q) => UNCHANGED <<directory, disk, counters>>
  <1>1. call'[q] = call[q] /\ file_array'[q] = file_array[q]
    <2> USE DEF Types
    <2>1. CASE Enter(p)
      BY <2>1 DEF Enter, Open, OpenFails, Close, Remove, Restart, Write, Read
    <2>2. CASE Create(p)
      BY <2>2 DEF Create, CreateCheck, LoadInodeLen, StoreInodeLen, TakeInode, LoadNumDentry,
                  StoreNumDentry, CopyDentry, Created, Go
    <2>3. CASE WriteData(p)
      BY <2>3 DEF WriteData, WriteHead, LoadLen, StoreLen, TakeBlock, Fill, WriteReturn, Go
    <2>4. CASE ReadData(p)
      BY <2>4 DEF ReadData, ReadHead, ReadByte, ReadReturn, ListCheck, ListName, Go
    <2> QED BY <2>1, <2>2, <2>3, <2>4 DEF Inside
  <1>2. ASSUME Writing(q) PROVE UNCHANGED <<directory, disk, counters>>
    <2>1. ~Idle(q)
      BY <1>2 DEF Writing, Idle, CreatePc, WritePc
    <2>2. CASE \E name \in Name : Remove(p, name)
      <3>1. PICK name \in Name : Remove(p, name)
        BY <2>2
      <3>2. ~Serial /\ "remove" \in May[p]
        BY <2>1, <3>1 DEF Remove, Alone, Calls
      <3>3. "write" \in May[q]
        BY <1>2 DEF Exclusive
      <3> QED BY <3>2, <3>3 DEF Orderly
    <2>3. CASE Enter(p) /\ ~(\E name \in Name : Remove(p, name))
      BY <2>3 DEF Enter, Open, OpenFails, Close, Restart, Write, Read
    <2>4. CASE Create(p) \/ WriteData(p)
      <3>1. Writing(p)
        BY <2>4 DEF Create, CreateCheck, LoadInodeLen, StoreInodeLen, TakeInode, LoadNumDentry,
                    StoreNumDentry, CopyDentry, WriteData, WriteHead, LoadLen, StoreLen, TakeBlock,
                    Fill, WriteReturn, At, Writing, CreatePc, WritePc
      <3> QED BY <1>2, <3>1 DEF Exclusive
    <2>5. CASE ReadData(p)
      BY <2>5 DEF ReadData, ReadHead, ReadByte, ReadReturn, ListCheck, ListName, Go
    <2> QED BY <2>2, <2>3, <2>4, <2>5 DEF Inside
  <1> QED BY <1>1, <1>2

LEMMA ExclusiveKept ==
    ASSUME Types, Exclusive, Orderly, NEW p \in Proc, Enter(p) \/ Inside(p)
    PROVE  Exclusive'
  <1>1. \A q \in Proc : q # p => call'[q] = call[q]
    BY OthersKept
  <1>2. \A q \in Proc : q # p => (Writing(q)' <=> Writing(q)) /\ (Idle(q)' <=> Idle(q))
    BY <1>1 DEF Writing, Idle
  <1>3. CASE \E fd \in Fd, n \in Lengths : Write(p, fd, n) \/ Read(p, fd, n)
    <2>1. Serial => \A q \in Proc : Idle(q)
      BY <1>3 DEF Write, Read, Alone
    <2>2. Writing(p)' => "write" \in May[p]
      <3>1. CASE \E fd \in Fd, n \in Lengths : Write(p, fd, n)
        BY <3>1 DEF Write, Calls
      <3>2. CASE \E fd \in Fd, n \in Lengths : Read(p, fd, n)
        BY <3>2 DEF Types, Read, Writing, CreatePc, WritePc, Entered, InUser
      <3> QED BY <1>3, <3>1, <3>2
    <2>3. \A q \in Proc : q # p /\ Writing(q) => ~Writing(p)'
      <3>1. ~Serial /\ Orderly => \A q \in Proc : q # p /\ "write" \in May[q] => "write" \notin May[p]
        BY DEF Orderly
      <3>2. \A q \in Proc : Writing(q) => ~Idle(q)
        BY DEF Writing, Idle, CreatePc, WritePc
      <3> QED BY <2>1, <2>2, <3>1, <3>2 DEF Exclusive
    <2> QED BY <1>2, <2>1, <2>2, <2>3 DEF Exclusive
  <1>4. CASE ~(\E fd \in Fd, n \in Lengths : Write(p, fd, n) \/ Read(p, fd, n))
    <2>1. (Writing(p)' => Writing(p)) /\ (Idle(p) => Idle(p)')
      <3> USE DEF Types, Writing, Idle
      <3>1. CASE Enter(p)
        <4>1. call' = [call EXCEPT ![p] = InUser]
          BY <1>4, <3>1 DEF Enter, Open, OpenFails, Close, Remove, Restart
        <4> QED BY <4>1 DEF InUser, CreatePc, WritePc
      <3>2. CASE Create(p)
        BY <3>2 DEF Create, CreateCheck, LoadInodeLen, StoreInodeLen, TakeInode, LoadNumDentry,
                    StoreNumDentry, CopyDentry, Created, Go, At, CreatePc, WritePc
      <3>3. CASE WriteData(p)
        BY <3>3 DEF WriteData, WriteHead, LoadLen, StoreLen, TakeBlock, Fill, WriteReturn, Go, At,
                    CreatePc, WritePc, InUser
      <3>4. CASE ReadData(p)
        <4>1. CASE ReadHead(p)
          <5>1. call[p].pc = "read"
            BY <4>1 DEF ReadHead, At
          <5>2. call[p] \in Call /\ call \in [Proc -> Call]
            OBVIOUS
          <5>3. call'[p].pc \in {"got", "read byte"}
            BY <4>1, <5>2 DEF ReadHead, Call
          <5> QED BY <5>1, <5>3 DEF CreatePc, WritePc
        <4>2. CASE ReadByte(p)
          BY <4>2, ByteRead DEF CreatePc, WritePc
        <4>3. CASE ReadReturn(p) \/ ListName(p)
          <5>1. call' = [call EXCEPT ![p] = InUser]
            BY <4>3 DEF ReadReturn, ListName
          <5> QED BY <5>1 DEF CreatePc, WritePc, InUser
        <4>4. CASE ListCheck(p)
          <5>1. call'[p] = InUser \/ call'[p] = [call[p] EXCEPT !.pc = "list name"]
            BY <4>4 DEF ListCheck
          <5> QED BY <4>4, <5>1 DEF ListCheck, At, CreatePc, WritePc, InUser, Call
        <4> QED BY <3>4, <4>1, <4>2, <4>3, <4>4 DEF ReadData
      <3> QED BY <3>1, <3>2, <3>3, <3>4 DEF Inside
    <2> QED BY <1>2, <2>1 DEF Exclusive
  <1> QED BY <1>3, <1>4

(* What one process knows is not disturbed by a step of another. *)
LEMMA LocalKept ==
    ASSUME Types, Exclusive, Orderly, NEW p \in Proc, Enter(p) \/ Inside(p),
           NEW q \in Proc, q # p, Private(q), Working(q)
    PROVE  Private(q)' /\ Working(q)'
  <1>1. call'[q] = call[q] /\ file_array'[q] = file_array[q]
    BY OthersKept
  <1>2. Private(q)'
    BY <1>1 DEF Private, Mine, Writing
  <1>3. CASE Writing(q)
    <2>1. UNCHANGED <<directory, disk, counters>>
      BY <1>3, OthersKept
    <2> QED BY <1>1, <1>2, <2>1 DEF Working, directory, disk, counters
  <1>4. CASE ~Writing(q)
    <2>1. Working(q)'
      BY <1>1, <1>4 DEF Working, Writing, CreatePc, WritePc, BlockPc
    <2> QED BY <1>2, <2>1
  <1> QED BY <1>3, <1>4

(* Back in the program nothing is known but what the descriptors hold. *)
LEMMA UserKnows ==
    ASSUME NEW p \in Proc, call'[p] = InUser,
           \A fd \in Fd : file_array'[p][fd].inode = NoInode => file_array'[p][fd].name \in Name
    PROVE  Private(p)' /\ Working(p)'
  <1>1. call'[p].pc = "user"
    BY DEF InUser
  <1> QED BY <1>1 DEF Private, Working, Writing, CreatePc, WritePc, BlockPc, ReadPc

LEMMA InUserType == InUser \in Call
  <1>1. <<>> \in Seq(Byte)
    OBVIOUS
  <1> QED BY <1>1 DEF InUser, Call, Pc

LEMMA UnsignedType == ASSUME NEW x \in Int PROVE Unsigned(x) \in 0 .. Word - 1
  BY Sizes DEF Unsigned

(* A write begins with the bytes of its buffer. *)
LEMMA BufferType ==
    ASSUME NEW p \in Proc, NEW n \in Nat
    PROVE  [k \in 1 .. n |-> <<p, k>>] \in Seq(Byte) /\ Len([k \in 1 .. n |-> <<p, k>>]) = n
  <1> DEFINE buf == [k \in 1 .. n |-> <<p, k>>]
  <1>1. buf \in [1 .. n -> Byte]
    BY DEF Byte
  <1> HIDE DEF buf
  <1>2. buf \in Seq(Byte) /\ Len(buf) = n
    BY <1>1
  <1> QED BY <1>2 DEF buf

LEMMA EnteredType ==
    ASSUME NEW pc \in Pc, NEW fd \in Nat, NEW buf \in Seq(Byte), NEW e \in Entry
    PROVE  LET d == Entered(pc, fd, buf, e) IN
           /\ d \in Call /\ d.pc = pc /\ d.fd = fd /\ d.buf = buf /\ d.n = Len(buf)
           /\ d.inode = e.inode /\ d.off = e.pos /\ d.i = 0 /\ d.cnt = 0 /\ d.reg = 0 /\ d.got = <<>>
  <1> DEFINE n == Len(buf)
             inode == e.inode
             pos == e.pos
  <1>1. n \in Nat /\ inode \in Inode \cup {NoInode} /\ pos \in Nat
    BY Sizes DEF Entry
  <1>2. Entered(pc, fd, buf, e) = [InUser EXCEPT !.pc = pc, !.fd = fd, !.buf = buf, !.n = n,
                                                 !.inode = inode, !.off = pos]
    BY DEF Entered
  <1> HIDE DEF n, inode, pos
  <1>3. Entered(pc, fd, buf, e) \in Call
    BY <1>1, <1>2, InUserType DEF Call
  <1>4. LET d == Entered(pc, fd, buf, e) IN
        /\ d.pc = pc /\ d.fd = fd /\ d.buf = buf /\ d.n = n
        /\ d.inode = inode /\ d.off = pos /\ d.i = 0 /\ d.cnt = 0 /\ d.reg = 0 /\ d.got = <<>>
    BY <1>2 DEF InUser
  <1> QED BY <1>3, <1>4 DEF n, inode, pos

(* A descriptor that is closed. *)
LEMMA ClosedType ==
    ASSUME NEW e \in Entry
    PROVE  LET d == [e EXCEPT !.busy = FALSE, !.pos = 0, !.inode = 0] IN
           d \in Entry /\ d.inode # NoInode
  <1>1. 0 \in 0 .. Word - 1 /\ 0 \in Inode \cup {NoInode} /\ 0 # NoInode
    BY Places, Sizes DEF NoInode
  <1> DEFINE pos == 0
             inode == 0
  <1>2. pos \in 0 .. Word - 1 /\ inode \in Inode \cup {NoInode} /\ inode # NoInode
    BY <1>1
  <1> HIDE DEF pos, inode
  <1>3. LET d == [e EXCEPT !.busy = FALSE, !.pos = pos, !.inode = inode] IN
        d \in Entry /\ d.inode # NoInode
    BY <1>2 DEF Entry
  <1> QED BY <1>3 DEF pos, inode

LEMMA EnterKeeps ==
    ASSUME Basics, Orderly, NEW p \in Proc, Enter(p)
    PROVE  Types' /\ Private(p)' /\ Working(p)'
  <1> DEFINE names == \A fd \in Fd : file_array'[p][fd].inode = NoInode => file_array'[p][fd].name \in Name
  <1>1. /\ Types /\ Private(p) /\ InUser \in Call /\ \A fd \in Fd : file_array[p][fd] \in Entry
        /\ \A fd \in Fd : file_array[p][fd].inode = NoInode => file_array[p][fd].name \in Name
    BY InUserType DEF Basics, Private, Types
  <1>2. ASSUME NEW name \in Name \cup {DirName}, Open(p, name)
        PROVE  Types' /\ Private(p)' /\ Working(p)'
    <2>1. PICK fd \in Fd : /\ file_array' = [file_array EXCEPT ![p][fd] = Opened(name)]
                           /\ call' = [call EXCEPT ![p] = InUser]
      BY <1>2 DEF Open
    <2>2. UNCHANGED <<directory, disk, counters>>
      BY <1>2 DEF Open
    <2>3. Opened(name) \in Entry /\ (Opened(name).inode = NoInode => Opened(name).name \in Name)
      BY <1>1, OpenedType
    <2>4. Types'
      BY <1>1, <2>1, <2>2, <2>3 DEF Types, directory, disk, counters
    <2>5. names
      BY <1>1, <2>1, <2>3 DEF Types
    <2>6. call'[p] = InUser
      BY <1>1, <2>1 DEF Types
    <2> QED BY <2>4, <2>5, <2>6, UserKnows
  <1>3. ASSUME OpenFails(p) PROVE Types' /\ Private(p)' /\ Working(p)'
    <2>1. Types' /\ call'[p] = InUser /\ names
      BY <1>1, <1>3 DEF OpenFails, Types, directory, disk, counters
    <2> QED BY <2>1, UserKnows
  <1>4. ASSUME NEW fd \in Fd, Close(p, fd) PROVE Types' /\ Private(p)' /\ Working(p)'
    <2> DEFINE e == [file_array[p][fd] EXCEPT !.busy = FALSE, !.pos = 0, !.inode = 0]
    <2>1. e \in Entry /\ e.inode # NoInode
      BY <1>1, ClosedType
    <2>2. /\ file_array' = [file_array EXCEPT ![p][fd] = e] /\ call' = [call EXCEPT ![p] = InUser]
          /\ UNCHANGED <<directory, disk, counters>>
      BY <1>4 DEF Close
    <2> HIDE DEF e
    <2>3. Types'
      BY <1>1, <2>1, <2>2 DEF Types, directory, disk, counters
    <2>4. names /\ call'[p] = InUser
      BY <1>1, <2>1, <2>2 DEF Types
    <2> QED BY <2>3, <2>4, UserKnows
  <1>5. ASSUME NEW name \in Name, Remove(p, name) PROVE Types' /\ Private(p)' /\ Working(p)'
    <2>1. PICK s \in 0 .. Num_Dentry - 1 : FindsAt(name, s) /\ dentry_array' = ShiftedFrom(s)
      BY <1>5 DEF Remove
    <2>2. /\ Num_Dentry' = Num_Dentry - 1 /\ UNCHANGED <<disk, counters, file_array>>
          /\ call' = [call EXCEPT ![p] = InUser]
      BY <1>5 DEF Remove
    <2>3. s > 0 /\ Num_Dentry > 1 /\ Num_Dentry \in Nat
      <3>1. s # 0
        BY <1>1, <2>1, Places DEF FindsAt, Types
      <3> QED BY <1>1, <2>1, <3>1 DEF Types
    <2>4. dentry_array' \in [Slot -> Dentry] /\ dentry_array'[0] = dentry_array[0]
      <3>1. \A r \in s .. Num_Dentry - 2 : r + 1 \in Slot
        BY <1>1, <2>1, Places, Sizes DEF Types
      <3>2. 0 \notin s .. Num_Dentry - 2
        BY <2>3
      <3> QED BY <1>1, <2>1, <3>1, <3>2, Places DEF ShiftedFrom, Types
    <2>5. Types'
      BY <1>1, <2>2, <2>3, <2>4, Sizes DEF Types, disk, counters
    <2>6. call'[p] = InUser /\ names
      BY <1>1, <2>2 DEF Types
    <2> QED BY <2>5, <2>6, UserKnows
  <1>6. ASSUME Restart(p) PROVE Types' /\ Private(p)' /\ Working(p)'
    <2>1. FreeEntry \in Entry /\ FreeEntry.inode # NoInode
      BY Places, Sizes DEF FreeEntry, Entry
    <2>2. Types'
      BY <1>1, <1>6, <2>1 DEF Restart, Types, directory, disk, counters
    <2>3. call'[p] = InUser /\ names
      BY <1>1, <1>6, <2>1 DEF Restart, Types
    <2> QED BY <2>2, <2>3, UserKnows
  <1> QED
    <2>1. ASSUME NEW fd \in Fd, NEW n \in Lengths, Write(p, fd, n)
          PROVE  Types' /\ Private(p)' /\ Working(p)'
      <3> DEFINE e == file_array[p][fd]
                 buf == [k \in 1 .. n |-> <<p, k>>]
                 pc == IF e.inode = NoInode THEN "create" ELSE "write"
                 d == Entered(pc, fd, buf, e)
      <3>1. /\ call' = [call EXCEPT ![p] = IF e.inode # NoInode /\ (~e.busy \/ e.kind = "dir")
                                           THEN InUser ELSE d]
            /\ UNCHANGED <<directory, disk, counters, file_array>>
        BY <2>1 DEF Write
      <3>2. e \in Entry /\ e.inode \in Inode \cup {NoInode} /\ e.pos \in Nat
        BY <1>1, Sizes DEF Entry
      <3>3. buf \in Seq(Byte) /\ Len(buf) = n /\ n \in Nat
        BY BufferType, Sizes
      <3> HIDE DEF buf, e
      <3>4. pc \in Pc /\ fd \in Nat
        BY Sizes DEF Pc
      <3>5. d \in Call
        BY <3>2, <3>3, <3>4, EnteredType
      <3>6. CASE call'[p] = InUser
        <4>1. Types'
          BY <1>1, <3>1, <3>5 DEF Types, directory, disk, counters
        <4>2. names
          BY <1>1, <3>1
        <4> QED BY <3>6, <4>1, <4>2, UserKnows
      <3>7. CASE call'[p] = d
        <4>1. Types'
          BY <1>1, <3>1, <3>5 DEF Types, directory, disk, counters
        <4>2. "write" \in May[p] /\ file_array' = file_array
          BY <2>1, <3>1 DEF Write, Calls
        <4>3. d.pc = pc /\ d.fd = fd /\ d.n = n /\ Len(d.buf) = n /\ d.cnt = 0
          BY <3>2, <3>3, <3>4, EnteredType
        <4> HIDE DEF d
        <4>4. Private(p)'
          BY <1>1, <3>7, <4>2, <4>3 DEF Private, Mine, BlockPc, ReadPc, CreatePc, e
        <4>5. Working(p)'
          BY <3>7, <4>3 DEF Working, BlockPc
        <4> QED BY <4>1, <4>4, <4>5
      <3> QED BY <1>1, <3>1, <3>6, <3>7 DEF Types
    <2>2. ASSUME NEW fd \in Fd, NEW n \in Lengths, Read(p, fd, n)
          PROVE  Types' /\ Private(p)' /\ Working(p)'
      <3> DEFINE e == file_array[p][fd]
                 pc == IF e.kind = "dir" THEN "list" ELSE "read"
                 d == [Entered(pc, fd, <<>>, e) EXCEPT !.n = n]
                 closed == [e EXCEPT !.busy = FALSE, !.pos = 0, !.inode = 0]
      <3>1. /\ call' = [call EXCEPT ![p] = IF e.inode = NoInode \/ ~e.busy THEN InUser ELSE d]
            /\ file_array' = IF e.inode = NoInode /\ e.busy
                             THEN [file_array EXCEPT ![p][fd] = closed] ELSE file_array
            /\ UNCHANGED <<directory, disk, counters>>
        BY <2>2 DEF Read
      <3>2. e \in Entry /\ e.inode \in Inode \cup {NoInode} /\ e.pos \in Nat
        BY <1>1, Sizes DEF Entry
      <3>3. closed \in Entry /\ closed.inode # NoInode
        BY <3>2, ClosedType
      <3> HIDE DEF e, closed
      <3>4. pc \in Pc /\ fd \in Nat /\ n \in Nat /\ <<>> \in Seq(Byte)
        BY Sizes DEF Pc
      <3>5. d \in Call /\ d.pc = pc /\ d.fd = fd /\ d.inode = e.inode
        <4> DEFINE entered == Entered(pc, fd, <<>>, e)
        <4>1. entered \in Call /\ entered.pc = pc /\ entered.fd = fd /\ entered.inode = e.inode
          <5> DEFINE none == <<>>
          <5>1. pc \in Pc /\ none \in Seq(Byte)
            BY <3>4
          <5> HIDE DEF pc, none
          <5>2. LET x == Entered(pc, fd, none, e) IN
                x \in Call /\ x.pc = pc /\ x.fd = fd /\ x.inode = e.inode
            BY <3>2, <3>4, <5>1, EnteredType
          <5> QED BY <5>2 DEF none
        <4> HIDE DEF entered, pc
        <4>2. [entered EXCEPT !.n = n] \in Call
          BY <3>4, <4>1 DEF Call
        <4>3. LET x == [entered EXCEPT !.n = n] IN x.pc = pc /\ x.fd = fd /\ x.inode = e.inode
          BY <4>1 DEF Call
        <4> QED BY <4>2, <4>3 DEF entered
      <3> HIDE DEF d
      <3>6. Types'
        BY <1>1, <3>1, <3>3, <3>5 DEF Types, directory, disk, counters
      <3>7. names
        BY <1>1, <3>1, <3>3 DEF Types
      <3>8. CASE e.inode = NoInode \/ ~e.busy
        <4>1. call'[p] = InUser
          BY <1>1, <3>1, <3>8 DEF Types
        <4> QED BY <3>6, <3>7, <4>1, UserKnows
      <3>9. CASE ~(e.inode = NoInode \/ ~e.busy)
        <4>1. call'[p] = d /\ d.pc \in {"list", "read"} /\ d.fd = fd /\ d.inode \in Inode
          BY <1>1, <3>1, <3>2, <3>5, <3>9 DEF Types
        <4>2. Private(p)'
          BY <3>7, <4>1 DEF Private, BlockPc, ReadPc, CreatePc, Writing, WritePc
        <4>3. Working(p)'
          BY <4>1 DEF Working, BlockPc
        <4> QED BY <3>6, <4>2, <4>3
      <3> QED BY <3>8, <3>9
    <2> QED BY <1>2, <1>3, <1>4, <1>5, <1>6, <2>1, <2>2 DEF Enter

(* A step that only goes to another place of the same call. *)
LEMMA Gone ==
    ASSUME call \in [Proc -> Call], NEW p \in Proc, NEW pc \in Pc, Go(p, pc)
    PROVE  /\ call' \in [Proc -> Call] /\ call'[p] = [call[p] EXCEPT !.pc = pc]
           /\ LET c == call[p]
                  d == call'[p]
              IN /\ d.pc = pc /\ d.fd = c.fd /\ d.buf = c.buf /\ d.n = c.n /\ d.inode = c.inode
                 /\ d.off = c.off /\ d.i = c.i /\ d.cnt = c.cnt /\ d.reg = c.reg /\ d.got = c.got
  <1>1. call' = [call EXCEPT ![p] = [call[p] EXCEPT !.pc = pc]] /\ call[p] \in Call
    BY DEF Go
  <1>2. [call[p] EXCEPT !.pc = pc] \in Call
    BY <1>1 DEF Call
  <1>3. call'[p] = [call[p] EXCEPT !.pc = pc] /\ call' \in [Proc -> Call]
    BY <1>1, <1>2
  <1> QED BY <1>1, <1>3 DEF Call

LEMMA CreatedKeeps ==
    ASSUME Basics, NEW p \in Proc, call[p].pc \in CreatePc, NEW i \in Inode \cup {NoInode}, Created(p, i)
    PROVE  /\ file_array' \in [Proc -> [Fd -> Entry]] /\ call' \in [Proc -> Call]
           /\ call'[p].pc = "write" /\ call'[p].inode = i /\ call'[p].fd = call[p].fd
           /\ Private(p)' /\ Working(p)'
  <1> DEFINE c == call[p]
             d == [c EXCEPT !.inode = i, !.pc = "write"]
             e == [file_array[p][c.fd] EXCEPT !.inode = i]
  <1>1. /\ call' = [call EXCEPT ![p] = d]
        /\ file_array' = [file_array EXCEPT ![p] = [file_array[p] EXCEPT ![c.fd] = e]]
    BY DEF Created
  <1>2. /\ file_array \in [Proc -> [Fd -> Entry]] /\ call \in [Proc -> Call]
        /\ Private(p) /\ Exclusive /\ Writing(p)
    BY DEF Basics, Types, Writing
  <1>3. /\ c.fd \in Fd /\ c.n \in Lengths /\ Len(c.buf) = c.n /\ c.cnt = 0 /\ file_array[p][c.fd].inode = NoInode
        /\ \A fd \in Fd : file_array[p][fd].inode = NoInode => file_array[p][fd].name \in Name
    BY <1>2 DEF Private, Mine, CreatePc
  <1>4. d \in Call /\ d.pc = "write" /\ d.inode = i /\ d.fd = c.fd /\ d.n = c.n /\ d.buf = c.buf /\ d.cnt = c.cnt
    <2>1. c \in Call
      BY <1>2
    <2> HIDE DEF c
    <2> QED BY <2>1 DEF Call, Pc
  <1>5. e \in Entry /\ e.name = file_array[p][c.fd].name /\ file_array[p] \in [Fd -> Entry]
    <2> DEFINE o == file_array[p][c.fd]
    <2>1. o \in Entry /\ file_array[p] \in [Fd -> Entry]
      BY <1>2, <1>3
    <2> HIDE DEF o
    <2>2. [o EXCEPT !.inode = i] \in Entry /\ [o EXCEPT !.inode = i].name = o.name
      BY <2>1 DEF Entry
    <2> QED BY <2>1, <2>2 DEF o
  <1> HIDE DEF d, e
  <1>6. call' \in [Proc -> Call] /\ call'[p] = d
    BY <1>1, <1>2, <1>4
  <1>7. /\ file_array' \in [Proc -> [Fd -> Entry]]
        /\ \A fd \in Fd : file_array'[p][fd] = IF fd = c.fd THEN e ELSE file_array[p][fd]
    BY <1>1, <1>2, <1>5
  <1>8. \A fd \in Fd : file_array'[p][fd].inode = NoInode => file_array'[p][fd].name \in Name
    BY <1>3, <1>5, <1>7
  <1>9. Private(p)'
    BY <1>3, <1>4, <1>6, <1>8 DEF Private, CreatePc, BlockPc, ReadPc
  <1>10. Working(p)'
    BY <1>4, <1>6 DEF Working, BlockPc
  <1> QED BY <1>4, <1>6, <1>7, <1>9, <1>10

LEMMA CreateKeeps ==
    ASSUME Basics, NEW p \in Proc, Create(p)
    PROVE  Types' /\ Private(p)' /\ Working(p)'
  <1> DEFINE c == call[p]
             d == call'[p]
  <1>1. /\ Types /\ Private(p) /\ Working(p) /\ call \in [Proc -> Call] /\ c \in Call
    BY DEF Basics, Types
  <1>2. c.pc \in CreatePc /\ Writing(p)
    BY DEF Create, CreateCheck, LoadInodeLen, StoreInodeLen, TakeInode, LoadNumDentry,
           StoreNumDentry, CopyDentry, At, CreatePc, Writing
  <1>3. /\ c.fd \in Fd /\ c.n \in Lengths /\ Len(c.buf) = c.n /\ c.cnt = 0 /\ Mine(p).inode = NoInode
        /\ \A fd \in Fd : file_array[p][fd].inode = NoInode => file_array[p][fd].name \in Name
    BY <1>1, <1>2 DEF Private, CreatePc
  <1>4. ASSUME call' \in [Proc -> Call], UNCHANGED <<file_array, dentry_array, disk>>,
               Num_Dentry' \in 1 .. MaxDentry, Free_list_len' = Free_list_len,
               Free_inode_list_len' \in Int, Free_inode_list_len' <= FreeInodes
        PROVE  Types'
    BY <1>1, <1>4 DEF Types, disk
  <1>5. ASSUME UNCHANGED file_array, d.pc \in CreatePc, d.fd = c.fd, d.n = c.n, d.buf = c.buf, d.cnt = c.cnt,
               d.pc \in {"load dentry", "store dentry", "copy dentry"} => d.inode \in Inode
        PROVE  Private(p)'
    <2>1. d.pc \notin BlockPc \cup ReadPc \cup {"write", "read byte"}
      BY <1>5 DEF CreatePc, BlockPc, ReadPc
    <2> QED BY <1>3, <1>5, <2>1 DEF Private, Mine
  <1>0. /\ Num_Dentry \in 1 .. MaxDentry /\ MaxDentry \in Nat /\ FreeInodes \in Nat
        /\ Free_inode_list_len \in Int /\ Free_inode_list_len <= FreeInodes
    BY <1>1, Sizes, Lists DEF Types
  <1>6. CASE CreateCheck(p)
    <2>1. UNCHANGED <<directory, disk, counters>> /\ c.pc = "create"
      BY <1>6 DEF CreateCheck, At
    <2>2. CASE Created(p, NoInode)
      <3>1. /\ file_array' \in [Proc -> [Fd -> Entry]] /\ call' \in [Proc -> Call]
            /\ Private(p)' /\ Working(p)'
        BY <1>2, <2>2, CreatedKeeps
      <3> QED BY <1>1, <2>1, <3>1 DEF Types, directory, disk, counters
    <2>3. CASE ~DirectoryFull /\ Go(p, "load inode") /\ UNCHANGED file_array
      <3>1. /\ call' \in [Proc -> Call] /\ d.pc = "load inode"
            /\ d.fd = c.fd /\ d.n = c.n /\ d.buf = c.buf /\ d.cnt = c.cnt
        <4>1. "load inode" \in Pc
          BY DEF Pc
        <4> QED BY <1>1, <2>3, <4>1, Gone
      <3>2. Types'
        BY <1>1, <1>4, <2>1, <2>3, <3>1 DEF Types, directory, counters
      <3>3. Private(p)'
        BY <1>5, <2>3, <3>1 DEF CreatePc
      <3>4. Working(p)'
        <4>1. Num_Dentry' < MaxDentry
          <5>1. Num_Dentry' = Num_Dentry /\ ~(Num_Dentry >= MaxDentry)
            BY <2>1, <2>3 DEF DirectoryFull, directory
          <5> QED BY <1>0, <5>1
        <4> QED BY <3>1, <4>1 DEF Working, BlockPc
      <3> QED BY <3>2, <3>3, <3>4
    <2> QED BY <1>6, <2>2, <2>3 DEF CreateCheck
  <1>7. CASE LoadInodeLen(p)
    <2> DEFINE x == Free_inode_list_len
    <2>1. /\ c.pc = "load inode" /\ call' = [call EXCEPT ![p] = [c EXCEPT !.reg = x, !.pc = "store inode"]]
          /\ UNCHANGED <<directory, disk, counters, file_array>> /\ x \in Int
      BY <1>1, <1>7 DEF LoadInodeLen, At, Types
    <2> HIDE DEF x, c
    <2>2. LET y == [c EXCEPT !.reg = x, !.pc = "store inode"] IN
          /\ y \in Call /\ y.pc = "store inode" /\ y.reg = x
          /\ y.fd = c.fd /\ y.n = c.n /\ y.buf = c.buf /\ y.cnt = c.cnt
      BY <1>1, <2>1 DEF Call, Pc
    <2>3. /\ call' \in [Proc -> Call] /\ d.pc = "store inode" /\ d.reg = x
          /\ d.fd = c.fd /\ d.n = c.n /\ d.buf = c.buf /\ d.cnt = c.cnt
      BY <1>1, <2>1, <2>2
    <2>4. Types'
      BY <1>1, <1>4, <2>1, <2>3 DEF Types, directory, counters
    <2>5. Private(p)'
      BY <1>5, <2>1, <2>3 DEF CreatePc
    <2>6. Working(p)'
      <3>1. Num_Dentry' < MaxDentry /\ x = Free_inode_list_len'
        BY <1>1, <2>1 DEF Working, directory, counters, x, c
      <3> QED BY <2>3, <3>1 DEF Working, BlockPc
    <2> QED BY <2>4, <2>5, <2>6
  <1>8. CASE StoreInodeLen(p)
    <2>1. /\ c.pc = "store inode" /\ Go(p, "take inode") /\ Free_inode_list_len' = Free_inode_list_len - 1
          /\ UNCHANGED <<directory, disk, Free_list_len, file_array>> /\ Num_Dentry < MaxDentry
      BY <1>1, <1>8 DEF StoreInodeLen, At, Working
    <2>2. /\ call' \in [Proc -> Call] /\ d.pc = "take inode"
          /\ d.fd = c.fd /\ d.n = c.n /\ d.buf = c.buf /\ d.cnt = c.cnt
      <3>1. "take inode" \in Pc
        BY DEF Pc
      <3> QED BY <1>1, <2>1, <3>1, Gone
    <2>3. Free_inode_list_len' \in Int /\ Free_inode_list_len' < FreeInodes
      <3>1. Free_inode_list_len' = Free_inode_list_len - 1
        BY <2>1
      <3> QED BY <1>0, <3>1
    <2>4. Types'
      <3>1. /\ UNCHANGED <<file_array, dentry_array, disk>> /\ Free_list_len' = Free_list_len
            /\ Num_Dentry' = Num_Dentry
        BY <2>1 DEF directory
      <3>2. Free_inode_list_len' <= FreeInodes
        BY <1>0, <2>3
      <3> QED BY <1>0, <1>4, <2>2, <2>3, <3>1, <3>2
    <2>5. Private(p)'
      BY <1>5, <2>1, <2>2 DEF CreatePc
    <2>6. Working(p)'
      BY <2>1, <2>2, <2>3 DEF Working, BlockPc, directory
    <2> QED BY <2>4, <2>5, <2>6
  <1>9. CASE TakeInode(p)
    <2>1. UNCHANGED <<directory, disk, counters>> /\ c.pc = "take inode"
      BY <1>9 DEF TakeInode, At
    <2>2. CASE Created(p, NoInode)
      <3>1. /\ file_array' \in [Proc -> [Fd -> Entry]] /\ call' \in [Proc -> Call]
            /\ Private(p)' /\ Working(p)'
        BY <1>2, <2>2, CreatedKeeps
      <3> QED BY <1>1, <2>1, <3>1 DEF Types, directory, disk, counters
    <2>3. CASE ~(Free_inode_list_len < 0)
      <3> DEFINE x == Free_inode_list[Free_inode_list_len]
      <3>1. call' = [call EXCEPT ![p] = [c EXCEPT !.inode = x, !.pc = "load dentry"]] /\ UNCHANGED file_array
        BY <1>9, <2>3 DEF TakeInode, Popped
      <3>2. x \in Inode /\ Num_Dentry < MaxDentry
        <4>1. Free_inode_list_len \in 0 .. FreeInodes - 1 /\ Num_Dentry < MaxDentry
          <5>1. Free_inode_list_len < FreeInodes /\ Num_Dentry < MaxDentry
            BY <1>1, <2>1 DEF Working
          <5> QED BY <1>0, <2>3, <5>1
        <4> QED BY <4>1, Lists DEF EmptyInodes
      <3> HIDE DEF x, c
      <3>3. LET y == [c EXCEPT !.inode = x, !.pc = "load dentry"] IN
            /\ y \in Call /\ y.pc = "load dentry" /\ y.inode = x
            /\ y.fd = c.fd /\ y.n = c.n /\ y.buf = c.buf /\ y.cnt = c.cnt
        BY <1>1, <3>2 DEF Call, Pc
      <3>4. /\ call' \in [Proc -> Call] /\ d.pc = "load dentry" /\ d.inode = x
            /\ d.fd = c.fd /\ d.n = c.n /\ d.buf = c.buf /\ d.cnt = c.cnt
        BY <1>1, <3>1, <3>3
      <3>5. Types'
        BY <1>1, <1>4, <2>1, <3>1, <3>4 DEF Types, directory, counters
      <3>6. Private(p)'
        BY <1>5, <3>1, <3>2, <3>4 DEF CreatePc
      <3>7. Working(p)'
        BY <2>1, <3>2, <3>4 DEF Working, BlockPc, directory
      <3> QED BY <3>5, <3>6, <3>7
    <2> QED BY <1>9, <2>2, <2>3 DEF TakeInode
  <1>10. CASE LoadNumDentry(p)
    <2> DEFINE x == Num_Dentry
    <2>1. /\ c.pc = "load dentry" /\ call' = [call EXCEPT ![p] = [c EXCEPT !.reg = x, !.pc = "store dentry"]]
          /\ UNCHANGED <<directory, disk, counters, file_array>> /\ x \in Int /\ c.inode \in Inode
      <3>1. x \in Int
        BY <1>0
      <3>2. c.inode \in Inode /\ c.pc = "load dentry"
        BY <1>1, <1>10 DEF Private, LoadNumDentry, At
      <3> QED BY <1>10, <3>1, <3>2 DEF LoadNumDentry
    <2> HIDE DEF x, c
    <2>2. LET y == [c EXCEPT !.reg = x, !.pc = "store dentry"] IN
          /\ y \in Call /\ y.pc = "store dentry" /\ y.reg = x /\ y.inode = c.inode
          /\ y.fd = c.fd /\ y.n = c.n /\ y.buf = c.buf /\ y.cnt = c.cnt
      BY <1>1, <2>1 DEF Call, Pc
    <2>3. /\ call' \in [Proc -> Call] /\ d.pc = "store dentry" /\ d.reg = x /\ d.inode \in Inode
          /\ d.fd = c.fd /\ d.n = c.n /\ d.buf = c.buf /\ d.cnt = c.cnt
      BY <1>1, <2>1, <2>2
    <2>4. Types'
      BY <1>1, <1>4, <2>1, <2>3 DEF Types, directory, counters
    <2>5. Private(p)'
      BY <1>5, <2>1, <2>3 DEF CreatePc
    <2>6. Working(p)'
      <3>1. Num_Dentry' < MaxDentry /\ x = Num_Dentry'
        BY <1>1, <2>1 DEF Working, directory, counters, x, c
      <3> QED BY <2>3, <3>1 DEF Working, BlockPc
    <2> QED BY <2>4, <2>5, <2>6
  <1>11. CASE StoreNumDentry(p)
    <2>1. /\ c.pc = "store dentry" /\ Go(p, "copy dentry") /\ Num_Dentry' = Num_Dentry + 1
          /\ UNCHANGED <<dentry_array, disk, counters, file_array>> /\ Num_Dentry < MaxDentry
          /\ c.inode \in Inode /\ c.reg = Num_Dentry
      BY <1>1, <1>11 DEF StoreNumDentry, At, Working, Private
    <2>2. /\ call' \in [Proc -> Call] /\ d.pc = "copy dentry" /\ d.inode = c.inode /\ d.reg = c.reg
          /\ d.fd = c.fd /\ d.n = c.n /\ d.buf = c.buf /\ d.cnt = c.cnt
      <3>1. "copy dentry" \in Pc
        BY DEF Pc
      <3> QED BY <1>1, <2>1, <3>1, Gone
    <2>3. Num_Dentry' \in 1 .. MaxDentry /\ d.reg = Num_Dentry' - 1 /\ d.reg > 0
      <3>1. Num_Dentry' = Num_Dentry + 1 /\ Num_Dentry < MaxDentry /\ d.reg = Num_Dentry
        BY <2>1, <2>2
      <3> HIDE DEF d
      <3> QED BY <1>0, <3>1
    <2>4. Types'
      BY <1>1, <1>4, <2>1, <2>2, <2>3 DEF Types, counters
    <2>5. Private(p)'
      BY <1>5, <2>1, <2>2 DEF CreatePc
    <2>6. Working(p)'
      BY <2>2, <2>3 DEF Working, BlockPc
    <2> QED BY <2>4, <2>5, <2>6
  <1>12. CASE CopyDentry(p)
    <2> DEFINE e == [name |-> Mine(p).name, inode |-> c.inode]
    <2>1. /\ c.pc = "copy dentry" /\ Created(p, c.inode) /\ UNCHANGED <<Num_Dentry, disk, counters>>
          /\ dentry_array' = [dentry_array EXCEPT ![c.reg] = e]
          /\ c.inode \in Inode /\ c.reg = Num_Dentry - 1 /\ c.reg > 0
      BY <1>1, <1>12 DEF CopyDentry, At, Working, Private
    <2>2. /\ file_array' \in [Proc -> [Fd -> Entry]] /\ call' \in [Proc -> Call]
          /\ Private(p)' /\ Working(p)'
      BY <1>2, <2>1, CreatedKeeps
    <2>3. e \in Dentry
      BY <1>3, <2>1 DEF Dentry, Mine
    <2>4. dentry_array' \in [Slot -> Dentry] /\ dentry_array'[0].name = DirName
      <3>1. dentry_array \in [Slot -> Dentry] /\ dentry_array[0].name = DirName
        BY <1>1 DEF Types
      <3>2. c.reg # 0 /\ 0 \in Slot
        <4>1. c.reg = Num_Dentry - 1 /\ c.reg > 0
          BY <2>1
        <4> HIDE DEF c
        <4> QED BY <1>0, <4>1, Places
      <3> HIDE DEF e, c
      <3> QED BY <2>1, <2>3, <3>1, <3>2
    <2>5. Types'
      BY <1>1, <2>1, <2>2, <2>4 DEF Types, disk, counters
    <2> QED BY <2>2, <2>5
  <1> QED BY <1>6, <1>7, <1>8, <1>9, <1>10, <1>11, <1>12 DEF Create

(***************************************************************************)
(* The part of a block that is filled: from where the write starts in the  *)
(* first block, and from the beginning in the others.                      *)
(***************************************************************************)
FillStart(c) == IF c.i = StartBlk(c) THEN c.off % BlkSize ELSE 0
Filled(c) == Fits(c, FillStart(c))

LEMMA FillRoom ==
    ASSUME NEW c \in Call, 0 <= c.cnt, c.cnt < c.n, c.cnt <= BlkSize * c.i,
           c.off = 0 => c.cnt = BlkSize * c.i
    PROVE  LET start == FillStart(c)
               m == Filled(c)
           IN
           /\ start \in Nat /\ m \in Nat /\ m > 0 /\ start + m <= BlkSize /\ c.cnt + m <= c.n
           /\ c.cnt + m <= BlkSize * (c.i + 1)
           /\ c.off = 0 => start = 0 /\ (c.cnt + m # c.n => m = BlkSize)
           /\ c.cnt + m # c.n => start + m = BlkSize
  <1> DEFINE start == FillStart(c)
             m == Filled(c)
             n == c.n
             cnt == c.cnt
             off == c.off
             i == c.i
  <1>1. n \in Nat /\ cnt \in Int /\ off \in Nat /\ i \in Nat
    BY DEF Call
  <1>2. BlkSize \in Nat /\ BlkSize > 0 /\ 0 % BlkSize = 0
    BY Sizes
  <1>3. start \in 0 .. BlkSize - 1 /\ (off = 0 => start = 0)
    <2>1. (off % BlkSize) \in 0 .. BlkSize - 1
      BY <1>1, Divided
    <2>2. start = off % BlkSize \/ start = 0
      BY DEF FillStart
    <2> QED BY <1>2, <2>1, <2>2
  <1>4. m = IF n - cnt < BlkSize - start THEN n - cnt ELSE BlkSize - start
    BY DEF Filled, Fits
  <1>5. 0 <= cnt /\ cnt < n /\ cnt <= BlkSize * i
    OBVIOUS
  <1> HIDE DEF start, m, n, cnt, off, i
  <1>6. /\ start \in Nat /\ m \in Nat /\ m > 0 /\ start + m <= BlkSize /\ cnt + m <= n
        /\ off = 0 => start = 0 /\ (cnt + m # n => m = BlkSize)
        /\ cnt + m # n => start + m = BlkSize
    BY <1>1, <1>2, <1>3, <1>4, <1>5
  <1>7. cnt + m <= BlkSize * (i + 1)
    <2>1. BlkSize * (i + 1) = BlkSize * i + BlkSize
      BY <1>1, <1>2
    <2> QED BY <1>1, <1>2, <1>5, <1>6, <2>1
  <1> QED BY <1>6, <1>7 DEF start, m, n, cnt, off, i

(* What Fill does. *)
LEMMA Filling ==
    ASSUME Basics, NEW p \in Proc, Fill(p)
    PROVE  LET c == call[p]
               d == call'[p]
               start == FillStart(c)
               m == Filled(c)
           IN
           /\ c.pc = "fill" /\ c.inode \in Inode /\ c.reg \in Block
           /\ UNCHANGED <<directory, length, data_block_idx, counters, file_array>>
           /\ data' \in [Block -> [0 .. BlkSize - 1 -> Byte]]
           /\ \A b \in Block : b # c.reg => data'[b] = data[b]
           /\ \A j \in 0 .. BlkSize - 1 :
                 data'[c.reg][j] = IF j \in start .. start + m - 1 THEN c.buf[c.cnt + (j - start) + 1]
                                   ELSE data[c.reg][j]
           /\ call' \in [Proc -> Call] /\ d.cnt = c.cnt + m /\ d.i = c.i + 1
           /\ d.fd = c.fd /\ d.buf = c.buf /\ d.n = c.n /\ d.inode = c.inode /\ d.off = c.off
           /\ d.pc = IF c.cnt + m = c.n \/ c.i + 1 = BlkNum(c) THEN "written" ELSE "load block"
  <1> DEFINE c == call[p]
             start == FillStart(c)
             m == Filled(c)
             cnt == c.cnt + m
             i == c.i + 1
             pc == IF c.cnt + m = c.n \/ c.i + 1 = BlkNum(c) THEN "written" ELSE "load block"
             bytes == [j \in 0 .. BlkSize - 1 |->
                          IF j \in start .. start + m - 1 THEN c.buf[c.cnt + (j - start) + 1] ELSE data[c.reg][j]]
  <1>1. /\ c.pc = "fill" /\ UNCHANGED <<directory, length, data_block_idx, counters, file_array>>
        /\ data' = [data EXCEPT ![c.reg] = bytes]
        /\ call' = [call EXCEPT ![p] = [c EXCEPT !.cnt = cnt, !.i = i, !.pc = pc]]
    BY DEF Fill, At, FillStart, Filled, FromBuf
  <1>2. /\ c \in Call /\ Private(p) /\ Working(p) /\ Types /\ call \in [Proc -> Call]
        /\ data \in [Block -> [0 .. BlkSize - 1 -> Byte]]
    BY DEF Basics, Types
  <1>3. /\ c.inode \in Inode /\ c.reg \in Block /\ Len(c.buf) = c.n
        /\ 0 <= c.cnt /\ c.cnt < c.n /\ c.cnt <= BlkSize * c.i
        /\ c.off = 0 => c.cnt = BlkSize * c.i
    BY <1>1, <1>2 DEF Private, Working, BlockPc, WritePc, Writing
  <1>4. start \in Nat /\ m \in Nat /\ start + m <= BlkSize /\ c.cnt + m <= c.n
    <2> HIDE DEF c
    <2> QED BY <1>2, <1>3, FillRoom
  <1>5. bytes \in [0 .. BlkSize - 1 -> Byte]
    <2>1. ASSUME NEW j \in 0 .. BlkSize - 1, j \in start .. start + m - 1
          PROVE  c.buf[c.cnt + (j - start) + 1] \in Byte
      <3>1. c.cnt \in Int /\ c.n \in Nat /\ c.buf \in Seq(Byte)
        BY <1>2 DEF Call
      <3>2. c.cnt + (j - start) + 1 \in 1 .. Len(c.buf)
        <4> DEFINE k == c.cnt
                   n == c.n
        <4>1. k \in Int /\ n \in Nat /\ 0 <= k /\ k + m <= n /\ Len(c.buf) = n
          <5> HIDE DEF m, start
          <5> QED BY <1>3, <1>4, <3>1
        <4> HIDE DEF k, n, start, m, c
        <4>2. k + (j - start) + 1 \in 1 .. n
          BY <1>4, <2>1, <4>1, Sizes
        <4> QED BY <4>1, <4>2 DEF k
      <3> HIDE DEF c
      <3> QED BY <3>1, <3>2
    <2>2. ASSUME NEW j \in 0 .. BlkSize - 1
          PROVE  data[c.reg][j] \in Byte
      BY <1>2, <1>3
    <2> HIDE DEF c, start, m
    <2> QED BY <2>1, <2>2
  <1>6. cnt \in Int /\ i \in Nat /\ pc \in Pc
    <2>1. c.cnt \in Int /\ c.i \in Nat
      BY <1>2 DEF Call
    <2> HIDE DEF c, m
    <2> QED BY <1>4, <2>1 DEF Pc
  <1>7. data' \in [Block -> [0 .. BlkSize - 1 -> Byte]]
    <2> HIDE DEF bytes, c
    <2> QED BY <1>1, <1>2, <1>3, <1>5
  <1>8. /\ \A b \in Block : b # c.reg => data'[b] = data[b]
        /\ data'[c.reg] = bytes
    <2> HIDE DEF bytes, c
    <2> QED BY <1>1, <1>2, <1>3
  <1>9. LET y == [c EXCEPT !.cnt = cnt, !.i = i, !.pc = pc] IN
        /\ y \in Call /\ y.cnt = cnt /\ y.i = i /\ y.pc = pc
        /\ y.fd = c.fd /\ y.buf = c.buf /\ y.n = c.n /\ y.inode = c.inode /\ y.off = c.off
    <2> HIDE DEF c, cnt, i, pc
    <2> QED BY <1>2, <1>6 DEF Call
  <1>10. call' \in [Proc -> Call] /\ call'[p] = [c EXCEPT !.cnt = cnt, !.i = i, !.pc = pc]
    <2> HIDE DEF c, cnt, i, pc
    <2> QED BY <1>1, <1>2, <1>9
  <1> QED BY <1>1, <1>3, <1>7, <1>8, <1>9, <1>10

(* What the other steps of write_data do. *)
LEMMA HeadWritten ==
    ASSUME Basics, NEW p \in Proc, WriteHead(p)
    PROVE  LET c == call[p]
               d == call'[p]
           IN
           /\ c.pc = "write" /\ c.cnt = 0
           /\ UNCHANGED <<directory, data_block_idx, data, counters, file_array>>
           /\ call' \in [Proc -> Call]
           /\ d.fd = c.fd /\ d.buf = c.buf /\ d.n = c.n /\ d.inode = c.inode /\ d.off = c.off
           /\ \/ /\ c.inode = NoInode /\ d.cnt = -1 /\ d.pc = "written" /\ length' = length
              \/ /\ c.inode \in Inode /\ c.off > length[c.inode]
                 /\ d.cnt = 0 /\ d.pc = "written" /\ length' = length
              \/ /\ c.inode \in Inode /\ c.off <= length[c.inode]
                 /\ length' = [length EXCEPT ![c.inode] = c.n]
                 /\ d.i = StartBlk(c) /\ d.cnt = 0
                 /\ d.pc = IF StartBlk(c) < BlkNum(c) THEN "load block" ELSE "written"
  <1> DEFINE c == call[p]
             d == call'[p]
             pc == IF StartBlk(c) < BlkNum(c) THEN "load block" ELSE "written"
             i == StartBlk(c)
             cnt == IF c.inode = NoInode THEN -1 ELSE 0
  <1>1. c \in Call /\ call \in [Proc -> Call] /\ length \in [Inode -> Nat] /\ Private(p)
    BY DEF Basics, Types
  <1>2. c.pc = "write" /\ UNCHANGED <<directory, data_block_idx, data, counters, file_array>> /\ c.cnt = 0
    BY <1>1 DEF WriteHead, At, Private
  <1>3. CASE c.inode = NoInode \/ c.off > length[c.inode]
    <2>1. call' = [call EXCEPT ![p] = [c EXCEPT !.cnt = cnt, !.pc = "written"]] /\ length' = length
      BY <1>3 DEF WriteHead
    <2>2. cnt \in Int
      OBVIOUS
    <2>3. LET y == [c EXCEPT !.cnt = cnt, !.pc = "written"] IN
          /\ y \in Call /\ y.cnt = cnt /\ y.pc = "written" /\ y.i = c.i
          /\ y.fd = c.fd /\ y.buf = c.buf /\ y.n = c.n /\ y.inode = c.inode /\ y.off = c.off
      <3> HIDE DEF c, cnt
      <3> QED BY <1>1, <2>2 DEF Call, Pc
    <2>4. call' \in [Proc -> Call] /\ d = [c EXCEPT !.cnt = cnt, !.pc = "written"]
      <3> HIDE DEF c, cnt
      <3> QED BY <1>1, <2>1, <2>3
    <2>5. c.inode \in Inode \/ c.inode = NoInode
      BY <1>1 DEF Call
    <2>6. /\ c.inode = NoInode => cnt = -1
          /\ c.inode # NoInode => cnt = 0
      OBVIOUS
    <2>7. /\ call' \in [Proc -> Call] /\ d.cnt = cnt /\ d.pc = "written"
          /\ d.fd = c.fd /\ d.buf = c.buf /\ d.n = c.n /\ d.inode = c.inode /\ d.off = c.off
      BY <2>3, <2>4
    <2> HIDE DEF c, d, cnt
    <2>8. /\ c.pc = "write" /\ c.cnt = 0
          /\ UNCHANGED <<directory, data_block_idx, data, counters, file_array>>
          /\ call' \in [Proc -> Call]
          /\ d.fd = c.fd /\ d.buf = c.buf /\ d.n = c.n /\ d.inode = c.inode /\ d.off = c.off
          /\ \/ /\ c.inode = NoInode /\ d.cnt = -1 /\ d.pc = "written" /\ length' = length
             \/ /\ c.inode \in Inode /\ c.off > length[c.inode]
                /\ d.cnt = 0 /\ d.pc = "written" /\ length' = length
      BY <1>2, <1>3, <2>1, <2>5, <2>6, <2>7
    <2> QED BY <2>8 DEF c, d
  <1>4. CASE ~(c.inode = NoInode \/ c.off > length[c.inode])
    <2>1. /\ call' = [call EXCEPT ![p] = [c EXCEPT !.i = i, !.pc = pc]]
          /\ length' = [length EXCEPT ![c.inode] = c.n]
      BY <1>4 DEF WriteHead
    <2>2. i \in Nat /\ pc \in Pc
      <3>1. c.off \in Nat
        BY <1>1 DEF Call
      <3> HIDE DEF c
      <3> QED BY <3>1, BlocksOf DEF StartBlk, Pc
    <2>3. LET y == [c EXCEPT !.i = i, !.pc = pc] IN
          /\ y \in Call /\ y.i = i /\ y.pc = pc /\ y.cnt = c.cnt
          /\ y.fd = c.fd /\ y.buf = c.buf /\ y.n = c.n /\ y.inode = c.inode /\ y.off = c.off
      <3> HIDE DEF c, i, pc
      <3> QED BY <1>1, <2>2 DEF Call
    <2>4. call' \in [Proc -> Call] /\ d = [c EXCEPT !.i = i, !.pc = pc]
      <3> HIDE DEF c, i, pc
      <3> QED BY <1>1, <2>1, <2>3
    <2>5. c.inode \in Inode /\ c.off <= length[c.inode]
      <3>1. c.inode \in Inode /\ c.off \in Nat
        BY <1>1, <1>4 DEF Call
      <3>2. length[c.inode] \in Nat /\ ~(c.off > length[c.inode])
        BY <1>1, <1>4, <3>1
      <3> HIDE DEF c
      <3> QED BY <3>1, <3>2
    <2> QED BY <1>2, <2>1, <2>3, <2>4, <2>5
  <1> QED BY <1>3, <1>4

LEMMA LenLoaded ==
    ASSUME Basics, NEW p \in Proc, LoadLen(p)
    PROVE  LET c == call[p]
               d == call'[p]
           IN
           /\ c.pc = "load block" /\ d.pc = "store block" /\ d.reg = Free_list_len
           /\ UNCHANGED <<directory, disk, counters, file_array>> /\ call' \in [Proc -> Call]
           /\ d.fd = c.fd /\ d.buf = c.buf /\ d.n = c.n /\ d.inode = c.inode /\ d.off = c.off
           /\ d.i = c.i /\ d.cnt = c.cnt
  <1> DEFINE c == call[p]
             x == Free_list_len
             y == [c EXCEPT !.reg = x, !.pc = "store block"]
  <1>1. c \in Call /\ call \in [Proc -> Call] /\ x \in Int
    BY DEF Basics, Types
  <1>2. /\ c.pc = "load block" /\ UNCHANGED <<directory, disk, counters, file_array>>
        /\ call' = [call EXCEPT ![p] = y]
    BY DEF LoadLen, At
  <1>3. /\ y \in Call /\ y.pc = "store block" /\ y.reg = x
        /\ y.fd = c.fd /\ y.buf = c.buf /\ y.n = c.n /\ y.inode = c.inode /\ y.off = c.off
        /\ y.i = c.i /\ y.cnt = c.cnt
    <2> HIDE DEF c, x
    <2> QED BY <1>1 DEF Call, Pc
  <1>4. call' \in [Proc -> Call] /\ call'[p] = y
    <2> HIDE DEF c, y
    <2> QED BY <1>1, <1>2, <1>3
  <1> QED BY <1>2, <1>3, <1>4

LEMMA BlockTaken ==
    ASSUME Basics, NEW p \in Proc, TakeBlock(p)
    PROVE  LET c == call[p]
               d == call'[p]
               x == Free_list[Free_list_len]
           IN
           /\ c.pc = "take block" /\ c.inode \in Inode /\ c.i \in 0 .. MaxBlk - 1
           /\ UNCHANGED <<directory, length, data, counters, file_array>> /\ call' \in [Proc -> Call]
           /\ d.fd = c.fd /\ d.buf = c.buf /\ d.n = c.n /\ d.inode = c.inode /\ d.off = c.off
           /\ d.i = c.i /\ d.cnt = c.cnt
           /\ \/ Free_list_len < 0 /\ d.pc = "written" /\ data_block_idx' = data_block_idx
              \/ /\ Free_list_len \in 0 .. FreeBlocks - 1 /\ d.pc = "fill" /\ d.reg = x /\ x \in Block \ Busy
                 /\ data_block_idx' \in [Inode -> [0 .. MaxBlk - 1 -> Block]]
                 /\ \A i \in Inode, k \in 0 .. MaxBlk - 1 :
                       data_block_idx'[i][k] = IF i = c.inode /\ k = c.i THEN x ELSE data_block_idx[i][k]
  <1> DEFINE c == call[p]
             d == call'[p]
             x == Free_list[Free_list_len]
             y == [c EXCEPT !.reg = x, !.pc = "fill"]
  <1>1. /\ c \in Call /\ call \in [Proc -> Call] /\ Private(p) /\ Working(p)
        /\ data_block_idx \in [Inode -> [0 .. MaxBlk - 1 -> Block]] /\ Free_list_len \in Int
    BY DEF Basics, Types
  <1>2. c.pc = "take block" /\ UNCHANGED <<directory, length, data, counters, file_array>>
    BY DEF TakeBlock, At
  <1>3. /\ c.inode \in Inode /\ StartBlk(c) <= c.i /\ c.i < BlkNum(c) /\ c.n \in Lengths
        /\ Free_list_len < FreeBlocks
    BY <1>1, <1>2 DEF Private, Working, BlockPc, WritePc, Writing
  <1>4. c.i \in 0 .. MaxBlk - 1
    <2>1. c.i \in Nat /\ c.n \in Nat /\ CeilDiv(c.n, BlkSize) <= MaxBlk /\ c.i < CeilDiv(c.n, BlkSize)
      BY <1>1, <1>3, Sizes DEF Call, BlkNum
    <2> HIDE DEF c
    <2>2. CeilDiv(c.n, BlkSize) \in Nat
      BY <2>1, BlocksOf
    <2> QED BY <2>1, <2>2, Sizes
  <1>5. CASE Free_list_len < 0
    <2>1. Go(p, "written") /\ data_block_idx' = data_block_idx
      BY <1>5 DEF TakeBlock, WhenFull
    <2>2. "written" \in Pc
      BY DEF Pc
    <2> QED BY <1>1, <1>2, <1>3, <1>4, <1>5, <2>1, <2>2, Gone
  <1>6. CASE ~(Free_list_len < 0)
    <2>1. /\ call' = [call EXCEPT ![p] = y]
          /\ data_block_idx' = [data_block_idx EXCEPT ![c.inode] = [data_block_idx[c.inode] EXCEPT ![c.i] = x]]
      BY <1>6 DEF TakeBlock, Popped
    <2>2. Free_list_len \in 0 .. FreeBlocks - 1
      BY <1>1, <1>3, <1>6, Lists
    <2>3. x \in Block \ Busy /\ x \in Int
      BY <2>2, Lists DEF Block
    <2>4. /\ y \in Call /\ y.pc = "fill" /\ y.reg = x
          /\ y.fd = c.fd /\ y.buf = c.buf /\ y.n = c.n /\ y.inode = c.inode /\ y.off = c.off
          /\ y.i = c.i /\ y.cnt = c.cnt
      <3> HIDE DEF c, x
      <3> QED BY <1>1, <2>3 DEF Call, Pc
    <2>5. call' \in [Proc -> Call] /\ d = y
      <3> HIDE DEF c, y
      <3> QED BY <1>1, <2>1, <2>4
    <2>6. /\ data_block_idx' \in [Inode -> [0 .. MaxBlk - 1 -> Block]]
          /\ \A i \in Inode, k \in 0 .. MaxBlk - 1 :
                 data_block_idx'[i][k] = IF i = c.inode /\ k = c.i THEN x ELSE data_block_idx[i][k]
      <3> HIDE DEF c, x
      <3> QED BY <1>1, <1>3, <1>4, <2>1, <2>3
    <2> QED BY <1>2, <1>3, <1>4, <2>2, <2>3, <2>4, <2>5, <2>6
  <1> QED BY <1>5, <1>6

(* Every place of a write but those of write_data's loop. *)
LEMMA WrittenKeeps ==
    ASSUME NEW p \in Proc, Private(p), Writing(p), call'[p].pc = "written", UNCHANGED file_array,
           call'[p].fd = call[p].fd, call'[p].n = call[p].n, call'[p].buf = call[p].buf
    PROVE  Private(p)' /\ Working(p)'
  <1>1. call'[p].pc \notin BlockPc \cup CreatePc \cup ReadPc /\ call[p].pc # "user"
    BY DEF BlockPc, CreatePc, ReadPc, Writing, WritePc
  <1> QED BY <1>1 DEF Private, Working

(* A place of the loop. *)
LEMMA LoopKeeps ==
    ASSUME NEW p \in Proc, Private(p), Writing(p), call'[p].pc \in BlockPc, UNCHANGED file_array,
           call'[p].fd = call[p].fd, call'[p].n = call[p].n, call'[p].buf = call[p].buf,
           call'[p].inode \in Inode
    PROVE  Private(p)'
  <1>1. call'[p].pc \notin CreatePc \cup {"write", "read byte"} /\ call[p].pc # "user" /\ call'[p].pc # "user"
    BY DEF BlockPc, CreatePc, ReadPc, Writing, WritePc
  <1> QED BY <1>1 DEF Private

LEMMA WriteDataKeeps ==
    ASSUME Basics, NEW p \in Proc, WriteData(p)
    PROVE  Types' /\ Private(p)' /\ Working(p)'
  <1> DEFINE c == call[p]
             d == call'[p]
  <1>1. /\ Types /\ Private(p) /\ Working(p) /\ c \in Call /\ call \in [Proc -> Call]
        /\ length \in [Inode -> Nat] /\ Free_list_len \in Int /\ Free_list_len <= FreeBlocks
    BY DEF Basics, Types
  <1>2. Writing(p) /\ c.pc # "user" /\ c.pc \in WritePc
    BY DEF WriteData, WriteHead, LoadLen, StoreLen, TakeBlock, Fill, WriteReturn, At, WritePc, Writing
  <1>3. c.fd \in Fd /\ c.n \in Lengths /\ Len(c.buf) = c.n
    BY <1>1, <1>2 DEF Private
  <1>4. c.n \in Nat /\ c.off \in Nat /\ c.i \in Nat /\ c.cnt \in Int
    BY <1>1 DEF Call
  <1>5. CeilDiv(c.n, BlkSize) \in Nat /\ CeilDiv(c.n, BlkSize) <= MaxBlk
    BY <1>3, <1>4, BlocksOf, Sizes
  <1>6. CASE WriteHead(p)
    <2>1. /\ c.pc = "write" /\ c.cnt = 0 /\ call' \in [Proc -> Call]
          /\ UNCHANGED <<directory, data_block_idx, data, counters, file_array>>
          /\ d.fd = c.fd /\ d.buf = c.buf /\ d.n = c.n /\ d.inode = c.inode /\ d.off = c.off
      BY <1>6, HeadWritten
    <2>2. CASE d.pc = "written" /\ length' = length
      <3>1. Types'
        BY <1>1, <2>1, <2>2 DEF Types, directory, counters
      <3>2. Private(p)' /\ Working(p)'
        BY <1>1, <1>2, <2>1, <2>2, WrittenKeeps
      <3> QED BY <3>1, <3>2
    <2>3. CASE /\ c.inode \in Inode /\ length' = [length EXCEPT ![c.inode] = c.n]
               /\ d.i = StartBlk(c) /\ d.cnt = 0
               /\ d.pc = IF StartBlk(c) < BlkNum(c) THEN "load block" ELSE "written"
      <3>1. /\ length' \in [Inode -> Nat] /\ length'[c.inode] = c.n
            /\ \A i \in Inode : CeilDiv(length'[i], BlkSize) <= MaxBlk
        <4>1. \A i \in Inode : length'[i] = IF i = c.inode THEN c.n ELSE length[i]
          <5> HIDE DEF c
          <5> QED BY <1>1, <2>3
        <4>2. \A i \in Inode : CeilDiv(length[i], BlkSize) <= MaxBlk
          BY <1>1 DEF Types
        <4>3. length' \in [Inode -> Nat]
          <5> HIDE DEF c
          <5> QED BY <1>1, <1>4, <2>3
        <4> HIDE DEF c
        <4> QED BY <1>5, <2>3, <4>1, <4>2, <4>3
      <3>2. Types'
        BY <1>1, <2>1, <3>1 DEF Types, directory, counters
      <3>3. CASE d.pc = "written"
        BY <1>1, <1>2, <2>1, <3>2, <3>3, WrittenKeeps
      <3>4. CASE StartBlk(c) < BlkNum(c) /\ d.pc = "load block"
        <4>1. d.pc \in BlockPc /\ d.inode \in Inode
          BY <2>1, <2>3, <3>4 DEF BlockPc
        <4>2. Private(p)'
          BY <1>1, <1>2, <2>1, <4>1, LoopKeeps
        <4>3. StartBlk(d) = StartBlk(c) /\ BlkNum(d) = BlkNum(c)
          BY <2>1 DEF StartBlk, BlkNum
        <4>4. StartBlk(c) \in Nat /\ (c.off = 0 => StartBlk(c) = 0)
          <5>1. CeilDiv(0, BlkSize) = 0
            BY Sizes DEF CeilDiv
          <5> HIDE DEF c
          <5> QED BY <1>4, <5>1, BlocksOf DEF StartBlk
        <4>5. 0 < c.n
          <5> DEFINE n == c.n
          <5>1. n \in Nat /\ StartBlk(c) < CeilDiv(n, BlkSize)
            BY <1>4, <3>4 DEF BlkNum
          <5> HIDE DEF n, c
          <5>2. 0 < CeilDiv(n, BlkSize)
            BY <4>4, <5>1, BlocksOf
          <5>3. BlkSize * 0 < n
            BY <5>1, <5>2, BlocksOf
          <5> QED BY <5>1, <5>3, Sizes DEF n
        <4>6. 0 <= BlkSize * StartBlk(c) /\ BlkSize * 0 = 0
          BY <4>4, Sizes
        <4>7. /\ StartBlk(d) <= d.i /\ d.i < BlkNum(d) /\ length'[d.inode] = d.n
              /\ 0 <= d.cnt /\ d.cnt < d.n /\ d.cnt <= BlkSize * d.i
              /\ d.off = 0 => d.cnt = BlkSize * d.i
          <5>1. /\ d.i = StartBlk(c) /\ d.cnt = 0 /\ d.n = c.n /\ d.off = c.off /\ d.inode = c.inode
            BY <2>1, <2>3
          <5>2. length'[d.inode] = d.n
            BY <3>1, <5>1
          <5> HIDE DEF c, d
          <5>3. StartBlk(d) <= d.i /\ d.i < BlkNum(d)
            <6>1. StartBlk(c) <= StartBlk(c)
              BY <4>4
            <6>2. StartBlk(d) <= d.i
              BY <4>3, <5>1, <6>1
            <6>3. d.i < BlkNum(d)
              BY <3>4, <4>3, <5>1
            <6> QED BY <6>2, <6>3
          <5>4. 0 <= d.cnt /\ d.cnt < d.n /\ d.cnt <= BlkSize * d.i
            BY <4>5, <4>6, <5>1
          <5>5. d.off = 0 => d.cnt = BlkSize * d.i
            BY <4>4, <4>6, <5>1
          <5> QED BY <5>2, <5>3, <5>4, <5>5
        <4>8. Working(p)'
          BY <3>4, <4>7 DEF Working, StartBlk, BlkNum
        <4> QED BY <3>2, <4>2, <4>8
      <3> QED BY <2>3, <3>3, <3>4
    <2> QED BY <1>6, HeadWritten, <2>2, <2>3
  <1>7. ASSUME c.pc \in BlockPc, d.pc \in BlockPc, UNCHANGED <<length, file_array>>,
               d.fd = c.fd, d.buf = c.buf, d.n = c.n, d.inode = c.inode, d.off = c.off, d.i = c.i, d.cnt = c.cnt
        PROVE  /\ Private(p)'
               /\ StartBlk(d) <= d.i /\ d.i < BlkNum(d) /\ length'[d.inode] = d.n
               /\ 0 <= d.cnt /\ d.cnt < d.n /\ d.cnt <= BlkSize * d.i
               /\ d.off = 0 => d.cnt = BlkSize * d.i
    <2>1. c.inode \in Inode
      BY <1>1, <1>7 DEF Private
    <2>2. Private(p)'
      BY <1>1, <1>2, <1>7, <2>1, LoopKeeps
    <2>3. StartBlk(d) = StartBlk(c) /\ BlkNum(d) = BlkNum(c)
      BY <1>7 DEF StartBlk, BlkNum
    <2>4. /\ StartBlk(c) <= c.i /\ c.i < BlkNum(c) /\ length[c.inode] = c.n
          /\ 0 <= c.cnt /\ c.cnt < c.n /\ c.cnt <= BlkSize * c.i
          /\ c.off = 0 => c.cnt = BlkSize * c.i
      BY <1>1, <1>7 DEF Working
    <2> HIDE DEF c, d
    <2> QED BY <1>7, <2>2, <2>3, <2>4
  <1>8. CASE LoadLen(p)
    <2>1. /\ c.pc = "load block" /\ d.pc = "store block" /\ d.reg = Free_list_len
          /\ UNCHANGED <<directory, disk, counters, file_array>> /\ call' \in [Proc -> Call]
          /\ d.fd = c.fd /\ d.buf = c.buf /\ d.n = c.n /\ d.inode = c.inode /\ d.off = c.off
          /\ d.i = c.i /\ d.cnt = c.cnt
      BY <1>8, LenLoaded
    <2>2. Types'
      BY <1>1, <2>1 DEF Types, directory, disk, counters
    <2>3. c.pc \in BlockPc /\ d.pc \in BlockPc /\ length' = length /\ Free_list_len' = Free_list_len
      BY <2>1 DEF BlockPc, disk, counters
    <2>4. Private(p)' /\ Working(p)'
      BY <1>7, <2>1, <2>3 DEF Working, StartBlk, BlkNum
    <2> QED BY <2>2, <2>4
  <1>9. CASE StoreLen(p)
    <2>1. /\ c.pc = "store block" /\ Free_list_len' = c.reg - 1 /\ Go(p, "take block")
          /\ UNCHANGED <<directory, disk, Free_inode_list_len, file_array>> /\ c.reg = Free_list_len
      BY <1>1, <1>9 DEF StoreLen, At, Working
    <2>2. /\ call' \in [Proc -> Call] /\ d.pc = "take block"
          /\ d.fd = c.fd /\ d.buf = c.buf /\ d.n = c.n /\ d.inode = c.inode /\ d.off = c.off
          /\ d.i = c.i /\ d.cnt = c.cnt
      <3>1. "take block" \in Pc
        BY DEF Pc
      <3> QED BY <1>1, <2>1, <3>1, Gone
    <2>3. Free_list_len' \in Int /\ Free_list_len' < FreeBlocks /\ Free_list_len' <= FreeBlocks
      <3>1. Free_list_len' = Free_list_len - 1
        BY <2>1
      <3> QED BY <1>1, <3>1, Lists
    <2>4. Types'
      <3>1. UNCHANGED <<dentry_array, Num_Dentry, length, data_block_idx, data, Free_inode_list_len, file_array>>
        BY <2>1 DEF directory, disk
      <3> QED BY <1>1, <2>2, <2>3, <3>1 DEF Types
    <2>5. c.pc \in BlockPc /\ d.pc \in BlockPc /\ length' = length /\ file_array' = file_array
      BY <2>1, <2>2 DEF BlockPc, disk
    <2>6. Private(p)' /\ Working(p)'
      BY <1>7, <2>2, <2>3, <2>5 DEF Working, StartBlk, BlkNum
    <2> QED BY <2>4, <2>6
  <1>10. CASE TakeBlock(p)
    <2> DEFINE x == Free_list[Free_list_len]
    <2>1. /\ c.pc = "take block" /\ c.inode \in Inode /\ c.i \in 0 .. MaxBlk - 1
          /\ UNCHANGED <<directory, length, data, counters, file_array>> /\ call' \in [Proc -> Call]
          /\ d.fd = c.fd /\ d.buf = c.buf /\ d.n = c.n /\ d.inode = c.inode /\ d.off = c.off
          /\ d.i = c.i /\ d.cnt = c.cnt
      BY <1>10, BlockTaken
    <2>2. CASE d.pc = "written" /\ data_block_idx' = data_block_idx
      <3>1. Types'
        BY <1>1, <2>1, <2>2 DEF Types, directory, counters
      <3> QED BY <1>1, <1>2, <2>1, <2>2, <3>1, WrittenKeeps
    <2>3. CASE /\ d.pc = "fill" /\ d.reg = x /\ x \in Block \ Busy
               /\ data_block_idx' \in [Inode -> [0 .. MaxBlk - 1 -> Block]]
               /\ \A i \in Inode, k \in 0 .. MaxBlk - 1 :
                     data_block_idx'[i][k] = IF i = c.inode /\ k = c.i THEN x ELSE data_block_idx[i][k]
      <3>1. Types'
        BY <1>1, <2>1, <2>3 DEF Types, directory, counters
      <3>2. c.pc \in BlockPc /\ d.pc \in BlockPc /\ length' = length
        BY <2>1, <2>3 DEF BlockPc
      <3>3. d.reg = data_block_idx'[d.inode][d.i] /\ d.reg \in Block
        <4> HIDE DEF x, c, d
        <4> QED BY <2>1, <2>3
      <3>4. Private(p)' /\ Working(p)'
        BY <1>7, <2>1, <2>3, <3>2, <3>3 DEF Working, StartBlk, BlkNum
      <3> QED BY <3>1, <3>4
    <2> QED BY <1>10, BlockTaken, <2>2, <2>3
  <1>11. CASE Fill(p)
    <2> DEFINE m == Filled(c)
    <2>1. /\ c.pc = "fill" /\ c.inode \in Inode /\ c.reg \in Block
          /\ UNCHANGED <<directory, length, data_block_idx, counters, file_array>>
          /\ data' \in [Block -> [0 .. BlkSize - 1 -> Byte]]
          /\ call' \in [Proc -> Call] /\ d.cnt = c.cnt + m /\ d.i = c.i + 1
          /\ d.fd = c.fd /\ d.buf = c.buf /\ d.n = c.n /\ d.inode = c.inode /\ d.off = c.off
          /\ d.pc = IF c.cnt + m = c.n \/ c.i + 1 = BlkNum(c) THEN "written" ELSE "load block"
      BY <1>11, Filling
    <2>2. Types'
      BY <1>1, <2>1 DEF Types, directory, counters
    <2>3. /\ StartBlk(c) <= c.i /\ c.i < BlkNum(c) /\ length[c.inode] = c.n
          /\ 0 <= c.cnt /\ c.cnt < c.n /\ c.cnt <= BlkSize * c.i
          /\ c.off = 0 => c.cnt = BlkSize * c.i
      BY <1>1, <2>1 DEF Working, BlockPc
    <2>4. /\ m \in Nat /\ m > 0 /\ c.cnt + m <= c.n /\ c.cnt + m <= BlkSize * (c.i + 1)
          /\ c.off = 0 /\ c.cnt + m # c.n => m = BlkSize
      <3> HIDE DEF c
      <3> QED BY <1>1, <2>3, FillRoom
    <2>5. CASE d.pc = "written"
      BY <1>1, <1>2, <2>1, <2>2, <2>5, WrittenKeeps
    <2>6. CASE d.pc = "load block" /\ c.cnt + m # c.n /\ c.i + 1 # BlkNum(c)
      <3>1. d.pc \in BlockPc /\ d.inode \in Inode
        BY <2>1, <2>6 DEF BlockPc
      <3>2. Private(p)'
        BY <1>1, <1>2, <2>1, <3>1, LoopKeeps
      <3>3. StartBlk(d) = StartBlk(c) /\ BlkNum(d) = BlkNum(c) /\ StartBlk(c) \in Nat /\ BlkNum(c) \in Nat
        <4>1. StartBlk(d) = StartBlk(c) /\ BlkNum(d) = BlkNum(c)
          BY <2>1 DEF StartBlk, BlkNum
        <4> HIDE DEF c, d
        <4> QED BY <1>4, <4>1, BlocksOf DEF StartBlk, BlkNum
      <3>4. length'[d.inode] = length[c.inode]
        BY <2>1
      <3>5. BlkSize * (c.i + 1) = BlkSize * c.i + BlkSize
        <4> HIDE DEF c
        <4> QED BY <1>4, Sizes
      <3>6. d.n = c.n /\ d.off = c.off /\ d.i = c.i + 1 /\ d.cnt = c.cnt + m
        BY <2>1
      <3>7. /\ StartBlk(d) <= d.i /\ d.i < BlkNum(d) /\ length'[d.inode] = d.n
            /\ 0 <= d.cnt /\ d.cnt < d.n /\ d.cnt <= BlkSize * d.i
            /\ d.off = 0 => d.cnt = BlkSize * d.i
        <4> HIDE DEF c, d, m
        <4>1. StartBlk(d) <= d.i /\ d.i < BlkNum(d)
          <5> DEFINE first == StartBlk(c)
                     last == BlkNum(c)
                     i == c.i
          <5>1. first \in Nat /\ last \in Nat /\ i \in Nat /\ first <= i /\ i < last /\ i + 1 # last
            BY <1>4, <2>3, <2>6, <3>3
          <5>2. StartBlk(d) = first /\ BlkNum(d) = last /\ d.i = i + 1
            BY <3>3, <3>6
          <5> HIDE DEF first, last, i
          <5>3. first <= i + 1 /\ i + 1 < last
            BY <5>1
          <5> QED BY <5>2, <5>3
        <4>2. length'[d.inode] = d.n
          BY <2>3, <3>4, <3>6
        <4>3. 0 <= d.cnt /\ d.cnt < d.n /\ d.cnt <= BlkSize * d.i
          <5> DEFINE cnt == c.cnt
                     n == c.n
          <5>1. cnt \in Int /\ n \in Nat /\ m \in Nat /\ 0 <= cnt /\ cnt + m <= n /\ cnt + m # n
            BY <1>4, <2>3, <2>4, <2>6
          <5>2. d.cnt = cnt + m /\ d.n = n /\ cnt + m <= BlkSize * d.i
            BY <2>4, <3>6
          <5> HIDE DEF cnt, n
          <5>3. 0 <= cnt + m /\ cnt + m < n
            BY <5>1
          <5> QED BY <5>2, <5>3
        <4>4. d.off = 0 => d.cnt = BlkSize * d.i
          <5>1. c.off = 0 => c.cnt = BlkSize * c.i /\ m = BlkSize
            BY <2>3, <2>4, <2>6
          <5> QED BY <3>5, <3>6, <5>1
        <4> QED BY <4>1, <4>2, <4>3, <4>4
      <3>8. Working(p)'
        BY <2>6, <3>7 DEF Working, StartBlk, BlkNum
      <3> QED BY <2>2, <3>2, <3>8
    <2> QED BY <2>1, <2>5, <2>6
  <1>12. CASE WriteReturn(p)
    <2> DEFINE o == file_array[p][c.fd]
               step == IF c.cnt = -1 THEN -1 ELSE 2 * c.cnt
               pos == Unsigned(o.pos + step)
               e == [o EXCEPT !.pos = pos]
    <2>1. /\ file_array' = [file_array EXCEPT ![p] = [file_array[p] EXCEPT ![c.fd] = e]]
          /\ call' = [call EXCEPT ![p] = InUser] /\ UNCHANGED <<directory, disk, counters>>
      BY <1>12 DEF WriteReturn
    <2>2. o \in Entry /\ file_array \in [Proc -> [Fd -> Entry]]
      BY <1>1, <1>3 DEF Types
    <2>3. pos \in 0 .. Word - 1
      <3>1. o.pos \in Int /\ step \in Int
        BY <1>4, <2>2 DEF Entry
      <3>2. o.pos + step \in Int
        <4> HIDE DEF o, step
        <4> QED BY <3>1
      <3> HIDE DEF o, step
      <3> QED BY <3>2, UnsignedType
    <2>4. e \in Entry /\ e.inode = o.inode /\ e.name = o.name
      <3> HIDE DEF o, pos
      <3> QED BY <2>2, <2>3 DEF Entry
    <2> HIDE DEF e
    <2>5. /\ file_array' \in [Proc -> [Fd -> Entry]]
          /\ \A fd \in Fd : file_array'[p][fd] = IF fd = c.fd THEN e ELSE file_array[p][fd]
      BY <1>3, <2>1, <2>2, <2>4
    <2>6. \A fd \in Fd : file_array'[p][fd].inode = NoInode => file_array'[p][fd].name \in Name
      BY <1>1, <2>4, <2>5 DEF Private
    <2>7. call' \in [Proc -> Call] /\ call'[p] = InUser
      BY <1>1, <2>1, InUserType
    <2>8. Types'
      BY <1>1, <2>1, <2>5, <2>7 DEF Types, directory, disk, counters
    <2> QED BY <2>6, <2>7, <2>8, UserKnows
  <1> QED BY <1>6, <1>8, <1>9, <1>10, <1>11, <1>12 DEF WriteData

(* What read_data does before its loop. *)
LEMMA HeadRead ==
    ASSUME Basics, NEW p \in Proc, ReadHead(p)
    PROVE  LET c == call[p]
               d == call'[p]
               k == c.off \div BlkSize
           IN
           /\ c.pc = "read" /\ c.inode \in Inode /\ UNCHANGED <<directory, disk, counters, file_array>>
           /\ call' \in [Proc -> Call]
           /\ d.fd = c.fd /\ d.n = c.n /\ d.inode = c.inode /\ d.off = c.off /\ d.got = c.got
           /\ \/ c.off > length[c.inode] /\ d.pc = "got"
              \/ /\ c.off <= length[c.inode] /\ d.pc = "read byte" /\ d.cnt = k /\ k \in Nat
                 /\ d.i = c.off % BlkSize /\ d.i < BlkSize
                 /\ k < MaxBlk => d.reg = data_block_idx[c.inode][k] /\ d.reg \in Block
  <1> DEFINE c == call[p]
             d == call'[p]
             k == c.off \div BlkSize
             i == c.off % BlkSize
             reg == IF k < MaxBlk THEN data_block_idx[c.inode][k] ELSE 0
             y == [c EXCEPT !.cnt = k, !.reg = reg, !.i = i, !.pc = "read byte"]
  <1>1. /\ c \in Call /\ call \in [Proc -> Call] /\ Private(p) /\ length \in [Inode -> Nat]
        /\ data_block_idx \in [Inode -> [0 .. MaxBlk - 1 -> Block]]
    BY DEF Basics, Types
  <1>2. c.pc = "read" /\ c.inode \in Inode /\ UNCHANGED <<directory, disk, counters, file_array>>
    BY <1>1 DEF ReadHead, At, Private, ReadPc
  <1>3. k \in Nat /\ i \in Nat /\ i < BlkSize /\ c.off \in Nat
    <2>1. c.off \in Nat
      BY <1>1 DEF Call
    <2>2. i \in 0 .. BlkSize - 1 /\ k \in Nat
      BY <2>1, Divided
    <2> HIDE DEF i, k
    <2> QED BY <2>1, <2>2, Sizes
  <1>4. CASE c.off > length[c.inode]
    <2>1. Go(p, "got")
      BY <1>4 DEF ReadHead, Go
    <2>2. "got" \in Pc
      BY DEF Pc
    <2> QED BY <1>1, <1>2, <1>4, <2>1, <2>2, Gone
  <1>5. CASE ~(c.off > length[c.inode])
    <2>1. call' = [call EXCEPT ![p] = y]
      BY <1>5 DEF ReadHead
    <2>2. reg \in Int /\ (k < MaxBlk => reg = data_block_idx[c.inode][k] /\ reg \in Block)
      <3> HIDE DEF c
      <3>1. CASE k < MaxBlk
        <4>1. k \in 0 .. MaxBlk - 1
          <5> HIDE DEF k
          <5> QED BY <1>3, <3>1, Sizes
        <4>2. reg = data_block_idx[c.inode][k]
          BY <3>1
        <4> HIDE DEF k, reg
        <4>3. data_block_idx[c.inode] \in [0 .. MaxBlk - 1 -> Block]
          BY <1>1, <1>2
        <4>4. data_block_idx[c.inode][k] \in Block
          BY <4>1, <4>3
        <4>5. \A b \in Block : b \in Int
          BY Sizes DEF Block
        <4> QED BY <4>2, <4>4, <4>5
      <3>2. CASE ~(k < MaxBlk)
        BY <3>2
      <3> QED BY <3>1, <3>2
    <2>3. /\ y \in Call /\ y.cnt = k /\ y.reg = reg /\ y.i = i /\ y.pc = "read byte"
          /\ y.fd = c.fd /\ y.n = c.n /\ y.inode = c.inode /\ y.off = c.off /\ y.got = c.got
      <3>1. reg \in Int
        BY <2>2
      <3>2. c \in Call /\ k \in Int /\ i \in Nat
        BY <1>1, <1>3
      <3> HIDE DEF c, k, reg, i
      <3>3. y \in Call
        BY <3>1, <3>2 DEF Call, Pc
      <3>4. y.cnt = k /\ y.reg = reg /\ y.i = i /\ y.pc = "read byte"
        BY <3>2 DEF Call
      <3>5. y.fd = c.fd /\ y.n = c.n /\ y.inode = c.inode /\ y.off = c.off /\ y.got = c.got
        BY <3>2 DEF Call
      <3> QED BY <3>3, <3>4, <3>5
    <2>4. call' \in [Proc -> Call] /\ d = y
      <3> HIDE DEF c, y
      <3> QED BY <1>1, <2>1, <2>3
    <2>5. c.off <= length[c.inode]
      <3> DEFINE len == length[c.inode]
                 off == c.off
      <3>1. len \in Nat /\ off \in Nat /\ ~(off > len)
        BY <1>1, <1>2, <1>3, <1>5
      <3> HIDE DEF len, off
      <3>2. off <= len
        BY <3>1
      <3> QED BY <3>2 DEF len, off
    <2> HIDE DEF k, i, reg
    <2>6. /\ d.pc = "read byte" /\ d.cnt = k /\ k \in Nat /\ d.i = i /\ d.i < BlkSize
          /\ k < MaxBlk => d.reg = data_block_idx[c.inode][k] /\ d.reg \in Block
      BY <1>3, <2>2, <2>3, <2>4
    <2> HIDE DEF y
    <2> QED BY <1>2, <2>3, <2>4, <2>5, <2>6 DEF k, i
  <1> QED BY <1>4, <1>5

(* What the next byte is read from. *)
LEMMA TurnPlaces ==
    ASSUME Basics, NEW p \in Proc, ReadByte(p)
    PROVE  LET c == call[p] IN
           /\ c.inode \in Inode /\ NextIndex(c) \in Nat
           /\ ByteThere(c) \in 0 .. BlkSize - 1
           /\ NextIndex(c) < MaxBlk => BlockThere(c) \in Block
  <1> DEFINE c == call[p]
  <1>1. /\ c \in Call /\ Private(p) /\ data_block_idx \in [Inode -> [0 .. MaxBlk - 1 -> Block]]
        /\ c.pc = "read byte"
    BY DEF Basics, Types, ReadByte, At
  <1>2. c.inode \in Inode /\ c.cnt \in Nat /\ c.i <= BlkSize /\ (c.cnt < MaxBlk => c.reg \in Block)
    BY <1>1 DEF Private, ReadPc
  <1>3. c.i \in Nat
    BY <1>1 DEF Call
  <1> HIDE DEF c
  <1>4. NextIndex(c) \in Nat
    BY <1>2 DEF NextIndex
  <1>5. ByteThere(c) \in 0 .. BlkSize - 1
    BY <1>2, <1>3, Sizes DEF ByteThere
  <1>6. ASSUME NextIndex(c) < MaxBlk PROVE BlockThere(c) \in Block
    <2>1. CASE c.i = BlkSize
      <3>1. NextIndex(c) \in 0 .. MaxBlk - 1
        BY <1>4, <1>6, Sizes
      <3>2. BlockThere(c) = data_block_idx[c.inode][NextIndex(c)]
        BY <2>1 DEF BlockThere
      <3>3. data_block_idx[c.inode] \in [0 .. MaxBlk - 1 -> Block]
        BY <1>1, <1>2
      <3> QED BY <3>1, <3>2, <3>3
    <2>2. CASE c.i # BlkSize
      BY <1>2, <1>6, <2>2 DEF BlockThere, NextIndex
    <2> QED BY <2>1, <2>2
  <1> QED BY <1>2, <1>4, <1>5, <1>6 DEF c

LEMMA TurnTypes ==
    ASSUME Basics, NEW p \in Proc, ReadByte(p)
    PROVE  call' \in [Proc -> Call] /\ Private(p)' /\ Working(p)'
  <1> DEFINE c == call[p]
             d == call'[p]
             byte == data[BlockThere(c)][ByteThere(c)]
  <1>1. c \in Call /\ call \in [Proc -> Call] /\ Private(p) /\ data \in [Block -> [0 .. BlkSize - 1 -> Byte]]
    BY DEF Basics, Types
  <1>2. /\ c.pc = "read byte" /\ file_array' = file_array
        /\ d.fd = c.fd /\ d.buf = c.buf /\ d.n = c.n /\ d.inode = c.inode /\ d.off = c.off
        /\ d = [pc |-> d.pc, fd |-> d.fd, buf |-> d.buf, n |-> d.n, inode |-> d.inode,
                off |-> d.off, i |-> d.i, cnt |-> d.cnt, reg |-> d.reg, got |-> d.got]
        /\ \/ /\ Finished(c) /\ d.pc = "got"
              /\ d.i = c.i /\ d.cnt = c.cnt /\ d.reg = c.reg /\ d.got = c.got
           \/ /\ ~Finished(c) /\ d.pc = c.pc
              /\ d.cnt = NextIndex(c) /\ d.reg = BlockThere(c) /\ d.i = ByteThere(c) + 1
              /\ d.got = Append(c.got, byte)
    BY <1>1, ByteRead DEF ReadByte
  <1>3. /\ c.inode \in Inode /\ NextIndex(c) \in Nat /\ ByteThere(c) \in 0 .. BlkSize - 1
        /\ NextIndex(c) < MaxBlk => BlockThere(c) \in Block
        /\ c.fd \in Fd
    BY <1>1, <1>2, TurnPlaces DEF Private
  <1>4. d.i \in Nat /\ d.cnt \in Int /\ d.reg \in Int /\ d.got \in Seq(Byte) /\ d.pc \in {"got", "read byte"}
    <2>1. c.i \in Nat /\ c.cnt \in Int /\ c.reg \in Int /\ c.got \in Seq(Byte)
      BY <1>1 DEF Call
    <2>2. CASE Finished(c)
      BY <1>2, <2>1, <2>2
    <2>3. CASE ~Finished(c)
      <3>1. NextIndex(c) < MaxBlk
        BY <1>3, <2>3, Sizes DEF Finished
      <3>2. BlockThere(c) \in Block /\ BlockThere(c) \in Int
        BY <1>3, <3>1, Sizes DEF Block
      <3>3. byte \in Byte
        BY <1>1, <1>3, <3>2
      <3> HIDE DEF byte
      <3>4. Append(c.got, byte) \in Seq(Byte)
        BY <2>1, <3>3
      <3>5. ByteThere(c) + 1 \in Nat
        BY <1>3, Sizes
      <3>6. /\ d.pc = c.pc /\ d.cnt = NextIndex(c) /\ d.reg = BlockThere(c) /\ d.i = ByteThere(c) + 1
            /\ d.got = Append(c.got, byte)
        BY <1>2, <2>3
      <3>7. NextIndex(c) \in Int
        BY <1>3
      <3> HIDE DEF d, c, byte
      <3> QED BY <1>2, <3>2, <3>4, <3>5, <3>6, <3>7
    <2> QED BY <2>2, <2>3
  <1>5. d \in Call
    <2>1. /\ d.fd \in Nat /\ d.buf \in Seq(Byte) /\ d.n \in Nat /\ d.inode \in Inode \cup {NoInode}
          /\ d.off \in Nat /\ d.pc \in Pc
      BY <1>1, <1>2, <1>4 DEF Call, Pc
    <2>2. d = [pc |-> d.pc, fd |-> d.fd, buf |-> d.buf, n |-> d.n, inode |-> d.inode,
                off |-> d.off, i |-> d.i, cnt |-> d.cnt, reg |-> d.reg, got |-> d.got]
      BY <1>2
    <2> HIDE DEF d
    <2> QED BY <1>4, <2>1, <2>2 DEF Call
  <1>6. call' \in [Proc -> Call]
    <2>1. \A q \in Proc : q # p => call'[q] = call[q]
      BY <1>1 DEF ReadByte, Go
    <2>2. call' = [q \in Proc |-> call'[q]]
      BY <1>1 DEF ReadByte, Go
    <2> QED BY <1>1, <1>5, <2>1, <2>2
  <1>7. Private(p)'
    <2>1. \A fd \in Fd : file_array[p][fd].inode = NoInode => file_array[p][fd].name \in Name
      BY <1>1 DEF Private
    <2>2. d.pc \notin CreatePc \cup WritePc \cup BlockPc
      BY <1>4 DEF CreatePc, WritePc, BlockPc
    <2>3. d.pc = "read byte" => d.cnt \in Nat /\ d.i <= BlkSize /\ (d.cnt < MaxBlk => d.reg \in Block)
      <3>1. ByteThere(c) + 1 <= BlkSize
        BY <1>3, Sizes
      <3> QED BY <1>2, <1>3, <3>1
    <2>4. d.fd \in Fd /\ d.inode \in Inode
      BY <1>2, <1>3
    <2> QED BY <1>2, <2>1, <2>2, <2>3, <2>4 DEF Private, Writing, WritePc, CreatePc
  <1>8. Working(p)'
    BY <1>4 DEF Working, BlockPc
  <1> QED BY <1>6, <1>7, <1>8

LEMMA ReadDataKeeps ==
    ASSUME Basics, NEW p \in Proc, ReadData(p)
    PROVE  Types' /\ Private(p)' /\ Working(p)'
  <1> DEFINE c == call[p]
             d == call'[p]
  <1>1. /\ c \in Call /\ call \in [Proc -> Call] /\ Private(p) /\ Types
        /\ \A fd \in Fd : file_array[p][fd].inode = NoInode => file_array[p][fd].name \in Name
    BY DEF Basics, Types, Private
  <1>2. UNCHANGED <<directory, disk, counters>>
    BY DEF ReadData, ReadHead, ReadByte, ReadReturn, ListCheck, ListName
  <1>3. ASSUME call' \in [Proc -> Call], file_array' \in [Proc -> [Fd -> Entry]] PROVE Types'
    BY <1>1, <1>2, <1>3 DEF Types, directory, disk, counters
  <1>4. ASSUME NEW r \in Nat, c.pc # "user", call' = [call EXCEPT ![p] = InUser],
               file_array' = [file_array EXCEPT ![p][c.fd].pos = Unsigned(@ + r)]
        PROVE  Types' /\ Private(p)' /\ Working(p)'
    <2> DEFINE o == file_array[p][c.fd]
               pos == Unsigned(o.pos + r)
               e == [o EXCEPT !.pos = pos]
    <2>1. file_array' = [file_array EXCEPT ![p] = [file_array[p] EXCEPT ![c.fd] = e]]
      BY <1>4
    <2>2. o \in Entry /\ file_array \in [Proc -> [Fd -> Entry]] /\ c.fd \in Fd
      BY <1>1, <1>4 DEF Types, Private
    <2>3. pos \in 0 .. Word - 1
      <3>1. o.pos \in Int
        BY <2>2 DEF Entry
      <3>2. o.pos + r \in Int
        <4> HIDE DEF o
        <4> QED BY <3>1
      <3> HIDE DEF o
      <3> QED BY <3>2, UnsignedType
    <2>4. e \in Entry /\ e.inode = o.inode /\ e.name = o.name
      <3> HIDE DEF o, pos
      <3> QED BY <2>2, <2>3 DEF Entry
    <2> HIDE DEF e
    <2>5. /\ file_array' \in [Proc -> [Fd -> Entry]]
          /\ \A fd \in Fd : file_array'[p][fd] = IF fd = c.fd THEN e ELSE file_array[p][fd]
      BY <2>1, <2>2, <2>4
    <2>6. \A fd \in Fd : file_array'[p][fd].inode = NoInode => file_array'[p][fd].name \in Name
      BY <1>1, <2>4, <2>5
    <2>7. call' \in [Proc -> Call] /\ call'[p] = InUser
      BY <1>1, <1>4, InUserType
    <2> QED BY <1>3, <2>5, <2>6, <2>7, UserKnows
  <1>5. CASE ReadHead(p)
    <2>1. /\ c.pc = "read" /\ c.inode \in Inode /\ call' \in [Proc -> Call] /\ file_array' = file_array
          /\ d.fd = c.fd /\ d.n = c.n /\ d.inode = c.inode /\ d.off = c.off
          /\ \/ d.pc = "got"
             \/ /\ d.pc = "read byte" /\ d.cnt \in Nat /\ d.i < BlkSize
                /\ d.cnt < MaxBlk => d.reg \in Block
      BY <1>5, HeadRead
    <2>2. d.pc \notin CreatePc \cup WritePc \cup BlockPc
      BY <2>1 DEF CreatePc, WritePc, BlockPc
    <2>3. d.pc = "read byte" => d.cnt \in Nat /\ d.i <= BlkSize /\ (d.cnt < MaxBlk => d.reg \in Block)
      <3>1. d.i \in Nat
        BY <2>1 DEF Call
      <3> HIDE DEF c, d
      <3>2. d.i < BlkSize => d.i <= BlkSize
        BY <3>1, Sizes
      <3> QED BY <2>1, <3>2
    <2>4. Private(p)'
      BY <1>1, <2>1, <2>2, <2>3 DEF Private, Writing, WritePc, CreatePc
    <2>5. Working(p)'
      BY <2>2 DEF Working, WritePc, CreatePc
    <2>6. Types'
      BY <1>1, <1>3, <2>1 DEF Types
    <2> QED BY <2>4, <2>5, <2>6
  <1>6. CASE ReadByte(p)
    <2>1. call' \in [Proc -> Call] /\ Private(p)' /\ Working(p)' /\ file_array' = file_array
      BY <1>6, TurnTypes DEF ReadByte
    <2> QED BY <1>1, <1>3, <2>1 DEF Types
  <1>7. CASE ReadReturn(p)
    <2>1. Len(c.got) \in Nat /\ c.pc # "user"
      BY <1>1, <1>7 DEF Call, ReadReturn, At
    <2> QED BY <1>4, <1>7, <2>1 DEF ReadReturn
  <1>8. CASE ListCheck(p)
    <2>1. file_array' = file_array
      BY <1>8 DEF ListCheck
    <2>2. CASE call' = [call EXCEPT ![p] = InUser]
      <3>1. call' \in [Proc -> Call] /\ call'[p] = InUser
        BY <1>1, <2>2, InUserType
      <3> QED BY <1>1, <1>3, <2>1, <3>1, UserKnows DEF Types
    <2>3. CASE call' = [call EXCEPT ![p] = [@ EXCEPT !.pc = "list name"]]
      <3>1. Go(p, "list name") /\ "list name" \in Pc /\ c.pc = "list"
        BY <1>8, <2>3 DEF Go, Pc, ListCheck, At
      <3>2. call' \in [Proc -> Call] /\ d.pc = "list name" /\ d.fd = c.fd /\ d.inode = c.inode
        BY <1>1, <3>1, Gone
      <3>3. c.fd \in Fd
        BY <1>1, <3>1 DEF Private
      <3>4. Private(p)'
        BY <1>1, <2>1, <3>2, <3>3 DEF Private, Writing, WritePc, CreatePc, BlockPc, ReadPc
      <3>5. Working(p)'
        BY <3>2 DEF Working, BlockPc
      <3> QED BY <1>1, <1>3, <2>1, <3>2, <3>4, <3>5 DEF Types
    <2> QED BY <1>8, <2>2, <2>3 DEF ListCheck
  <1>9. CASE ListName(p)
    <2>1. c.pc # "user" /\ ListStep \in Nat
      BY <1>9 DEF ListName, At, ListStep
    <2> QED BY <1>4, <1>9, <2>1 DEF ListName
  <1> QED BY <1>5, <1>6, <1>7, <1>8, <1>9 DEF ReadData

-----------------------------------------------------------------------------
(* The invariant that types need. *)
LEMMA BasicsNext == ASSUME Basics, Orderly, Next PROVE Basics'
  <1>1. PICK p \in Proc : Enter(p) \/ Inside(p)
    BY DEF Next
  <1>2. Types' /\ Private(p)' /\ Working(p)'
    BY <1>1, EnterKeeps, CreateKeeps, WriteDataKeeps, ReadDataKeeps DEF Inside
  <1>3. Types /\ Exclusive
    BY DEF Basics
  <1>4. \A q \in Proc : q # p => Private(q)' /\ Working(q)'
    <2> TAKE q \in Proc
    <2>1. Private(q) /\ Working(q)
      BY DEF Basics
    <2> QED BY <1>1, <1>3, <2>1, LocalKept
  <1>5. Exclusive'
    BY <1>1, <1>3, ExclusiveKept
  <1> QED BY <1>2, <1>4, <1>5 DEF Basics

LEMMA BasicsStutter == ASSUME Basics, UNCHANGED vars PROVE Basics'
  <1>1. /\ UNCHANGED <<dentry_array, Num_Dentry, length, data_block_idx, data>>
        /\ UNCHANGED <<Free_list_len, Free_inode_list_len, file_array, call>>
    BY DEF vars, directory, disk, counters
  <1>2. Types'
    BY <1>1 DEF Basics, Types
  <1>3. Exclusive'
    BY <1>1 DEF Basics, Exclusive, Writing, Idle
  <1>4. \A p \in Proc : Private(p)' /\ Working(p)'
    <2>1. \A p \in Proc : Private(p)'
      BY <1>1 DEF Basics, Private, Writing, Mine
    <2>2. \A p \in Proc : Working(p)'
      BY <1>1 DEF Basics, Working
    <2> QED BY <2>1, <2>2
  <1> QED BY <1>2, <1>3, <1>4 DEF Basics

LEMMA OldPlaces ==
    /\ \A i \in OldInode : i \in Inode /\ i \in Slot /\ i # 0 /\ OldFiles[i] \in Name /\ OldBlock(i) \in Block
    /\ \A i, j \in OldInode : i # j => OldBlock(i) # OldBlock(j)
    /\ 0 \in Inode /\ 0 \in Block /\ Len(OldFiles) + 1 \in 1 .. MaxDentry
  <1>1. /\ NumInode \in Nat /\ NumBlock \in Nat /\ NumBlock > 0 /\ MaxDentry \in Nat
        /\ OldFiles \in Seq(Name) /\ Len(OldFiles) < NumInode /\ Len(OldFiles) <= NumBlock /\ Len(OldFiles) < MaxDentry
    BY Assumption
  <1>2. Len(OldFiles) \in Nat /\ \A i \in 1 .. Len(OldFiles) : OldFiles[i] \in Name
    BY <1>1
  <1>3. \A i \in OldInode : i \in 0 .. MaxDentry
    BY <1>1, <1>2 DEF OldInode
  <1> QED BY <1>1, <1>2, <1>3, Places DEF OldInode, Inode, Block, OldBlock

LEMMA BasicsInit == ASSUME Init PROVE Basics
  <1>1. dentry_array \in [Slot -> Dentry] /\ dentry_array[0].name = DirName
    <2>1. [name |-> DirName, inode |-> 0] \in Dentry /\ [name |-> NoName, inode |-> 0] \in Dentry
      BY OldPlaces DEF Dentry
    <2>2. \A s \in OldInode : [name |-> OldFiles[s], inode |-> s] \in Dentry
      BY OldPlaces DEF Dentry
    <2> QED BY <2>1, <2>2, Places DEF Init
  <1>2. Num_Dentry \in 1 .. MaxDentry
    BY OldPlaces DEF Init
  <1>3. length \in [Inode -> Nat] /\ \A i \in Inode : CeilDiv(length[i], BlkSize) <= MaxBlk
    <2>1. CeilDiv(0, BlkSize) <= MaxBlk /\ CeilDiv(1, BlkSize) <= MaxBlk
      BY Sizes DEF CeilDiv
    <2>2. length = [i \in Inode |-> IF i \in OldInode THEN 1 ELSE 0]
      BY DEF Init, OldLength
    <2> QED BY <2>1, <2>2
  <1>4. data_block_idx \in [Inode -> [0 .. MaxBlk - 1 -> Block]]
    BY OldPlaces DEF Init
  <1>5. data \in [Block -> [0 .. BlkSize - 1 -> Byte]]
    <2>1. BlankBlock \in [0 .. BlkSize - 1 -> Byte]
      BY DEF BlankBlock, Blank, Byte
    <2>2. \A b \in Block : <<"old", b>> \in Byte
      BY DEF Block, Byte
    <2>3. \A b \in Block : [BlankBlock EXCEPT ![0] = <<"old", b>>] \in [0 .. BlkSize - 1 -> Byte]
      <3> HIDE DEF Byte
      <3> QED BY <2>1, <2>2
    <2> QED BY <2>1, <2>3 DEF Init
  <1>6. /\ Free_list_len \in Int /\ Free_list_len <= FreeBlocks
        /\ Free_inode_list_len \in Int /\ Free_inode_list_len <= FreeInodes
    BY Lists DEF Init, FreeBlocks, FreeInodes, EmptyInodes
  <1>7. file_array \in [Proc -> [Fd -> Entry]] /\ call \in [Proc -> Call]
    <2>1. FreeEntry \in Entry
      BY Places, Sizes DEF FreeEntry, Entry
    <2> QED BY <2>1, InUserType DEF Init
  <1>8. Types
    BY <1>1, <1>2, <1>3, <1>4, <1>5, <1>6, <1>7 DEF Types
  <1>9. \A p \in Proc : call[p].pc = "user"
    BY DEF Init, InUser
  <1>10. Exclusive
    BY <1>9 DEF Exclusive, Writing, Idle, CreatePc, WritePc
  <1>11. \A p \in Proc : Private(p) /\ Working(p)
    <2>1. \A p \in Proc, fd \in Fd : file_array[p][fd].inode = 0
      BY DEF Init, FreeEntry
    <2> QED BY <1>9, <2>1, Places DEF Private, Working, Writing, WritePc, CreatePc, BlockPc, ReadPc, NoInode
  <1> QED BY <1>8, <1>10, <1>11 DEF Basics

LEMMA Bounds == Basics => TypeOK
  <1> SUFFICES ASSUME Basics PROVE TypeOK
    OBVIOUS
  <1>1. Types
    BY DEF Basics
  <1>2. FreeBlocks <= NumBlock /\ FreeInodes <= NumInode
    <2>1. ASSUME NEW n \in Nat, NEW S \in SUBSET (0 .. n - 1) PROVE Cardinality(S) <= n
      <3>1. IsFiniteSet(0 .. n - 1) /\ Cardinality(0 .. n - 1) = n
        BY FS_Interval
      <3> DEFINE T == 0 .. n - 1
      <3> HIDE DEF T
      <3>2. ASSUME IsFiniteSet(T), Cardinality(T) = n, S \in SUBSET T PROVE Cardinality(S) <= n
        BY <3>2, FS_Subset
      <3> QED BY <3>1, <3>2 DEF T
    <2>2. Block \ Busy \in SUBSET (0 .. NumBlock - 1) /\ EmptyInodes \in SUBSET (0 .. NumInode - 1)
      BY DEF Block, EmptyInodes, Inode
    <2> QED BY <2>1, <2>2, Sizes DEF FreeBlocks, FreeInodes
  <1>3. Free_list_len <= NumBlock /\ Free_inode_list_len <= NumInode
    BY <1>1, <1>2, Lists, Sizes DEF Types
  <1>4. Num_Dentry \in Slot /\ Num_Dentry <= MaxDentry
    BY <1>1, Places, Sizes DEF Types
  <1>5. \A b \in Block : DOMAIN data[b] = 0 .. BlkSize - 1
    BY <1>1 DEF Types
  <1>6. \A p \in Proc : call[p].pc \in Pc /\ call[p].inode \in Inode \cup {NoInode}
    BY <1>1 DEF Types, Call
  <1> QED BY <1>1, <1>3, <1>4, <1>5, <1>6 DEF TypeOK, Types

LEMMA AlwaysBasics == ASSUME Orderly PROVE Spec => []Basics
  <1>1. Init => Basics
    BY BasicsInit
  <1>2. Basics /\ [Next]_vars => Basics'
    BY BasicsNext, BasicsStutter
  <1> QED BY <1>1, <1>2, PTL DEF Spec

(***************************************************************************)
(* Every variable keeps to its range (filesys.c, systemcall.c), for any    *)
(* image and number of processes, if writes do not overlap.                *)
(***************************************************************************)
THEOREM TablesTyped == ASSUME Orderly PROVE Spec => []TypeOK
  BY AlwaysBasics, Bounds, PTL

-----------------------------------------------------------------------------
(***************************************************************************)
(* Blocks.  A writer has passed the indices before its next one; an inode  *)
(* holds the blocks that its length counts, as far as they are passed.     *)
(***************************************************************************)
Passed(c) == IF c.pc = "fill" THEN c.i + 1 ELSE c.i
Holds(i, k) ==
    /\ k < CeilDiv(length[i], BlkSize)
    /\ \A p \in Proc : call[p].pc \in BlockPc /\ call[p].inode = i => k < Passed(call[p])
ByteOf(i, k) == data[data_block_idx[i][k \div BlkSize]][k % BlkSize]

(* A block that can still be given out, or is being taken. *)
Taking == \E p \in Proc : call[p].pc = "take block"
Free(b) ==
    \/ \E k \in 0 .. Free_list_len - 1 : Free_list[k] = b
    \/ Taking /\ Free_list_len >= 0 /\ Free_list[Free_list_len] = b

(* A write from the start: its blocks are new, and hold what it has copied. *)
Fresh(p) ==
    LET c == call[p] IN
    /\ c.pc \in BlockPc /\ c.off = 0 => \A k \in 0 .. Passed(c) - 1 :
          /\ ~Free(data_block_idx[c.inode][k])
          /\ \A l \in 0 .. Passed(c) - 1 : k # l => data_block_idx[c.inode][k] # data_block_idx[c.inode][l]
    /\ c.pc \in BlockPc \cup {"written"} /\ c.off = 0 =>
          \A k \in 0 .. c.cnt - 1 : ByteOf(c.inode, k) = c.buf[k + 1]

(* No block has two places in the inodes, and none of them is free. *)
Apart ==
    \A i \in Inode, k \in 0 .. MaxBlk - 1 : Holds(i, k) =>
        /\ ~Free(data_block_idx[i][k])
        /\ \A j \in Inode, l \in 0 .. MaxBlk - 1 :
              Holds(j, l) /\ data_block_idx[i][k] = data_block_idx[j][l] => i = j /\ k = l

(* There are blocks for the rest of the write, and it is not cut short. *)
RoomLeft(p) ==
    LET c == call[p] IN
    /\ c.pc \in CreatePc \cup {"write"} => BlkNum(c) <= Free_list_len
    /\ c.pc \in {"load block", "store block"} => BlkNum(c) - c.i <= Free_list_len
    /\ c.pc = "take block" => BlkNum(c) - c.i <= Free_list_len + 1
    /\ c.pc = "fill" => BlkNum(c) - c.i - 1 <= Free_list_len
    /\ c.pc = "written" /\ c.inode # NoInode /\ c.off = 0 => c.cnt = c.n /\ length[c.inode] = c.n

LEMMA CreatePlaces ==
    ASSUME Basics, NEW p \in Proc, Create(p)
    PROVE  LET c == call[p]
               d == call'[p]
           IN
           /\ UNCHANGED <<disk, Free_list_len>> /\ c.pc \in CreatePc
           /\ d.pc \in CreatePc \cup {"write"} /\ d.n = c.n /\ d.fd = c.fd
  <1> DEFINE c == call[p]
             d == call'[p]
  <1> SUFFICES /\ UNCHANGED <<disk, Free_list_len>> /\ c.pc \in CreatePc
               /\ d.pc \in CreatePc \cup {"write"} /\ d.n = c.n /\ d.fd = c.fd
    OBVIOUS
  <1>0. c \in Call /\ call \in [Proc -> Call]
    BY DEF Basics, Types
  <1> USE <1>0
  <1>1. CASE CreateCheck(p)
    <2>1. \/ d = [c EXCEPT !.inode = NoInode, !.pc = "write"]
          \/ d = [c EXCEPT !.pc = "load inode"]
      BY <1>1 DEF CreateCheck, Created, Go
    <2>2. UNCHANGED <<disk, Free_list_len>> /\ c.pc = "create"
      BY <1>1 DEF CreateCheck, At, counters
    <2> HIDE DEF c, d
    <2> QED BY <2>1, <2>2 DEF CreatePc, Call
  <1>2. CASE LoadInodeLen(p)
    <2>1. call' = [call EXCEPT ![p] = [c EXCEPT !.reg = Free_inode_list_len, !.pc = "store inode"]]
      BY <1>2 DEF LoadInodeLen
    <2>2. d = [c EXCEPT !.reg = Free_inode_list_len, !.pc = "store inode"]
      BY <2>1
    <2>3. UNCHANGED <<disk, Free_list_len>> /\ c.pc = "load inode"
      BY <1>2 DEF LoadInodeLen, At, counters
    <2> HIDE DEF c, d
    <2> QED BY <2>2, <2>3 DEF CreatePc, Call
  <1>3. CASE StoreInodeLen(p)
    BY <1>3 DEF StoreInodeLen, Go, At, CreatePc, Call
  <1>4. CASE TakeInode(p)
    <2>1. \/ d = [c EXCEPT !.inode = NoInode, !.pc = "write"]
          \/ d = [c EXCEPT !.inode = Popped(Free_inode_list, Free_inode_list_len), !.pc = "load dentry"]
      BY <1>4 DEF TakeInode, Created
    <2>2. UNCHANGED <<disk, Free_list_len>> /\ c.pc = "take inode"
      BY <1>4 DEF TakeInode, At, counters
    <2> HIDE DEF c, d
    <2> QED BY <2>1, <2>2 DEF CreatePc, Call
  <1>5. CASE LoadNumDentry(p)
    <2>1. call' = [call EXCEPT ![p] = [c EXCEPT !.reg = Num_Dentry, !.pc = "store dentry"]]
      BY <1>5 DEF LoadNumDentry
    <2>2. d = [c EXCEPT !.reg = Num_Dentry, !.pc = "store dentry"]
      BY <2>1
    <2>3. UNCHANGED <<disk, Free_list_len>> /\ c.pc = "load dentry"
      BY <1>5 DEF LoadNumDentry, At, counters
    <2> HIDE DEF c, d
    <2> QED BY <2>2, <2>3 DEF CreatePc, Call
  <1>6. CASE StoreNumDentry(p)
    BY <1>6 DEF StoreNumDentry, Go, At, CreatePc, counters, Call
  <1>7. CASE CopyDentry(p)
    BY <1>7 DEF CopyDentry, Created, At, CreatePc, counters, Call
  <1> QED BY <1>1, <1>2, <1>3, <1>4, <1>5, <1>6, <1>7 DEF Create

(* Every step but those of the loop of write_data. *)
LEMMA QuietStep ==
    ASSUME Basics, NEW p \in Proc, Enter(p) \/ Inside(p),
           ~(WriteHead(p) \/ LoadLen(p) \/ StoreLen(p) \/ TakeBlock(p) \/ Fill(p))
    PROVE  LET c == call[p]
               d == call'[p]
           IN
           /\ UNCHANGED <<disk, Free_list_len>>
           /\ c.pc \notin BlockPc /\ d.pc \notin BlockPc \cup {"written"}
           /\ d.pc \in CreatePc \cup {"write"} =>
                 (c.pc \in CreatePc /\ d.n = c.n) \/ (Ample => BlkNum(d) <= Free_list_len)
  <1> DEFINE c == call[p]
             d == call'[p]
             quiet == /\ UNCHANGED <<disk, Free_list_len>>
                      /\ c.pc \notin BlockPc /\ d.pc \notin BlockPc \cup {"written"}
                      /\ d.pc \in CreatePc \cup {"write"} =>
                            (c.pc \in CreatePc /\ d.n = c.n) \/ (Ample => BlkNum(d) <= Free_list_len)
  <1>1. c \in Call /\ call \in [Proc -> Call] /\ file_array \in [Proc -> [Fd -> Entry]]
    BY DEF Basics, Types
  <1>2. ASSUME call' = [call EXCEPT ![p] = InUser], UNCHANGED <<disk, counters>>, c.pc \notin BlockPc
        PROVE  quiet
    <2>1. d.pc = "user"
      BY <1>1, <1>2 DEF InUser
    <2> QED BY <1>2, <2>1 DEF BlockPc, CreatePc, counters
  <1>3. ASSUME d.pc \notin BlockPc \cup CreatePc \cup {"write", "written"}, UNCHANGED <<disk, counters>>,
               c.pc \notin BlockPc
        PROVE  quiet
    BY <1>3 DEF counters
  <1>4. CASE Enter(p)
    <2>1. CASE \/ \E name \in Name \cup {DirName} : Open(p, name)
               \/ OpenFails(p)
               \/ \E fd \in Fd : Close(p, fd)
               \/ \E name \in Name : Remove(p, name)
               \/ Restart(p)
      <3>1. call' = [call EXCEPT ![p] = InUser] /\ UNCHANGED <<disk, counters>> /\ c.pc = "user"
        BY <2>1 DEF Open, OpenFails, Close, Remove, Restart, Calls, Idle
      <3> QED BY <1>2, <3>1 DEF BlockPc
    <2>2. ASSUME NEW fd \in Fd, NEW n \in Lengths, Write(p, fd, n) PROVE quiet
      <3> DEFINE e == file_array[p][fd]
                 buf == [k \in 1 .. n |-> <<p, k>>]
                 pc == IF e.inode = NoInode THEN "create" ELSE "write"
                 f == Entered(pc, fd, buf, e)
      <3>1. /\ call' = [call EXCEPT ![p] = IF e.inode # NoInode /\ (~e.busy \/ e.kind = "dir")
                                           THEN InUser ELSE f]
            /\ UNCHANGED <<disk, counters>> /\ c.pc = "user" /\ (Ample => Room(n))
        BY <2>2 DEF Write, Calls, Idle
      <3>2. e \in Entry /\ pc \in Pc /\ fd \in Nat
        BY <1>1, Sizes DEF Pc
      <3>3. buf \in Seq(Byte) /\ Len(buf) = n /\ n \in Nat
        BY BufferType, Sizes
      <3> HIDE DEF buf, e
      <3>4. f.pc = pc /\ f.n = n
        BY <3>2, <3>3, EnteredType
      <3> HIDE DEF f
      <3>5. CASE d = InUser
        <4>1. d.pc = "user"
          BY <3>5 DEF InUser
        <4> QED BY <1>3, <3>1, <4>1 DEF BlockPc, CreatePc
      <3>6. CASE d = f
        <4>1. BlkNum(d) = CeilDiv(n, BlkSize)
          BY <3>4, <3>6 DEF BlkNum
        <4>2. Ample => BlkNum(d) <= Free_list_len
          BY <3>1, <4>1 DEF Room
        <4>3. d.pc \notin BlockPc \cup {"written"} /\ c.pc \notin BlockPc
          BY <3>1, <3>4, <3>6 DEF BlockPc
        <4> QED BY <3>1, <4>2, <4>3 DEF counters
      <3> QED BY <1>1, <3>1, <3>5, <3>6
    <2>3. ASSUME NEW fd \in Fd, NEW n \in Lengths, Read(p, fd, n) PROVE quiet
      <3> DEFINE e == file_array[p][fd]
                 pc == IF e.kind = "dir" THEN "list" ELSE "read"
                 f == [Entered(pc, fd, <<>>, e) EXCEPT !.n = n]
      <3>1. d = InUser \/ d = f
        BY <1>1, <2>3 DEF Read
      <3>2. f.pc = pc
        BY DEF Entered, InUser
      <3>3. d.pc \in {"user", "list", "read"}
        <4>1. pc \in {"list", "read"}
          OBVIOUS
        <4> HIDE DEF f, pc
        <4> QED BY <3>1, <3>2, <4>1 DEF InUser
      <3>4. UNCHANGED <<disk, counters>> /\ c.pc = "user"
        BY <2>3 DEF Read, Calls, Idle
      <3> QED BY <1>3, <3>3, <3>4 DEF BlockPc, CreatePc
    <2> QED BY <1>4, <2>1, <2>2, <2>3 DEF Enter
  <1>5. CASE Create(p)
    <2>1. /\ UNCHANGED <<disk, Free_list_len>> /\ c.pc \in CreatePc
          /\ d.pc \in CreatePc \cup {"write"} /\ d.n = c.n
      BY <1>5, CreatePlaces
    <2> QED BY <2>1 DEF CreatePc, BlockPc
  <1>6. CASE WriteReturn(p)
    BY <1>2, <1>6 DEF WriteReturn, At, BlockPc
  <1>7. CASE ReadData(p)
    <2>1. UNCHANGED <<disk, counters>>
      BY <1>7 DEF ReadData, ReadHead, ReadByte, ReadReturn, ListCheck, ListName
    <2>2. CASE ReadHead(p)
      BY <1>3, <2>1, <2>2, HeadRead DEF BlockPc, CreatePc
    <2>3. CASE ReadByte(p)
      BY <1>1, <1>3, <2>1, <2>3, ByteRead DEF BlockPc, CreatePc
    <2>4. CASE ReadReturn(p) \/ ListName(p)
      <3>1. call' = [call EXCEPT ![p] = InUser] /\ c.pc \in {"got", "list name"}
        BY <2>4 DEF ReadReturn, ListName, At
      <3> QED BY <1>2, <2>1, <3>1 DEF BlockPc
    <2>5. CASE ListCheck(p)
      <3>1. d = InUser \/ d = [c EXCEPT !.pc = "list name"]
        BY <1>1, <2>5 DEF ListCheck
      <3>2. d.pc \in {"user", "list name"} /\ c.pc = "list"
        BY <1>1, <2>5, <3>1 DEF ListCheck, At, InUser, Call
      <3> QED BY <1>3, <2>1, <3>2 DEF BlockPc, CreatePc
    <2> QED BY <1>7, <2>2, <2>3, <2>4, <2>5 DEF ReadData
  <1> QED BY <1>4, <1>5, <1>6, <1>7 DEF Inside, WriteData

(* Blocks are never given back. *)
LEMMA FreeKept ==
    ASSUME Basics, Orderly, NEW p \in Proc, Enter(p) \/ Inside(p)
    PROVE  \A b : Free(b)' => Free(b)
  <1>1. \A q \in Proc : q # p => call'[q] = call[q]
    BY OthersKept DEF Basics
  <1>2. Free_list_len \in Int
    BY DEF Basics, Types
  <1>3. ASSUME Free_list_len' = Free_list_len, call'[p].pc # "take block" \/ call[p].pc = "take block"
        PROVE  \A b : Free(b)' => Free(b)
    <2>1. Taking' => Taking
      BY <1>1, <1>3 DEF Taking
    <2> QED BY <1>3, <2>1 DEF Free
  <1>4. CASE StoreLen(p)
    <2>1. Free_list_len' = Free_list_len - 1
      BY <1>4 DEF StoreLen, At, Working, Basics
    <2>2. \A k \in 0 .. Free_list_len' - 1 : k \in 0 .. Free_list_len - 1
      BY <1>2, <2>1
    <2>3. Free_list_len' >= 0 => Free_list_len' \in 0 .. Free_list_len - 1
      BY <1>2, <2>1
    <2> QED BY <2>2, <2>3 DEF Free
  <1>5. CASE WriteHead(p)
    BY <1>3, <1>5, HeadWritten DEF counters
  <1>6. CASE LoadLen(p)
    BY <1>3, <1>6, LenLoaded DEF counters
  <1>7. CASE TakeBlock(p)
    BY <1>3, <1>7, BlockTaken DEF counters
  <1>8. CASE Fill(p)
    BY <1>3, <1>8, Filling DEF counters
  <1>9. CASE ~(WriteHead(p) \/ LoadLen(p) \/ StoreLen(p) \/ TakeBlock(p) \/ Fill(p))
    BY <1>3, <1>9, QuietStep DEF BlockPc
  <1> QED BY <1>4, <1>5, <1>6, <1>7, <1>8, <1>9

(* What is taken is not free any more. *)
LEMMA TakenNotFree ==
    ASSUME Basics, Orderly, NEW p \in Proc, TakeBlock(p), Free_list_len >= 0
    PROVE  LET x == Free_list[Free_list_len] IN Free(x) /\ ~Free(x)'
  <1> DEFINE x == Free_list[Free_list_len]
  <1>1. /\ call[p].pc = "take block" /\ Free_list_len \in Int
        /\ \A q \in Proc : Writing(q) => q = p
    BY DEF TakeBlock, At, Basics, Types, Exclusive, Writing, WritePc
  <1>2. Taking
    BY <1>1 DEF Taking
  <1>3. Free_list_len \in 0 .. FreeBlocks - 1 /\ call'[p].pc = "fill" /\ Free_list_len' = Free_list_len
    <2>1. ~(Free_list_len < 0)
      <3>1. Free_list_len \in Int /\ Free_list_len >= 0
        BY <1>1
      <3> QED BY <3>1
    <2> QED BY <2>1, BlockTaken DEF counters
  <1>4. ~Taking'
    <2>1. \A q \in Proc : q # p => call'[q] = call[q]
      BY OthersKept DEF Basics, Inside, WriteData
    <2>2. \A q \in Proc : call[q].pc = "take block" => q = p
      BY <1>1 DEF Writing, WritePc
    <2> QED BY <1>3, <2>1, <2>2 DEF Taking
  <1>5. \A k \in 0 .. Free_list_len - 1 : Free_list[k] # x
    <2>1. \A k \in 0 .. Free_list_len - 1 : k \in 0 .. FreeBlocks - 1 /\ k # Free_list_len
      BY <1>3, Lists
    <2> QED BY <1>3, <2>1, Lists
  <1> QED BY <1>2, <1>3, <1>4, <1>5 DEF Free

LEMMA FreshOthers ==
    ASSUME Basics, Orderly, NEW p \in Proc, Enter(p) \/ Inside(p),
           NEW q \in Proc, q # p, Fresh(q)
    PROVE  Fresh(q)'
  <1>1. call'[q] = call[q] /\ (Writing(q) => UNCHANGED <<directory, disk, counters>>)
    BY OthersKept DEF Basics
  <1>2. CASE Writing(q)
    <2>1. UNCHANGED <<data_block_idx, data>>
      BY <1>1, <1>2 DEF disk
    <2>2. \A i, k : ByteOf(i, k)' = ByteOf(i, k)
      BY <2>1 DEF ByteOf
    <2>3. \A b : Free(b)' => Free(b)
      BY FreeKept
    <2> QED BY <1>1, <2>1, <2>2, <2>3 DEF Fresh, Passed
  <1>3. CASE ~Writing(q)
    <2>1. call'[q].pc \notin BlockPc \cup {"written"}
      BY <1>1, <1>3 DEF Writing, WritePc, BlockPc
    <2> QED BY <2>1 DEF Fresh
  <1> QED BY <1>2, <1>3

(* A step of the writer that leaves its blocks and its place alone. *)
LEMMA FreshSame ==
    ASSUME Basics, Orderly, NEW p \in Proc, Enter(p) \/ Inside(p), Fresh(p),
           call[p].pc \in BlockPc, UNCHANGED <<data_block_idx, data>>,
           call'[p].pc \in BlockPc => Passed(call'[p]) = Passed(call[p]),
           call'[p].cnt = call[p].cnt, call'[p].off = call[p].off, call'[p].buf = call[p].buf,
           call'[p].inode = call[p].inode
    PROVE  Fresh(p)'
  <1>1. \A i, k : ByteOf(i, k)' = ByteOf(i, k)
    BY DEF ByteOf
  <1>2. \A b : Free(b)' => Free(b)
    BY FreeKept
  <1> QED BY <1>1, <1>2 DEF Fresh, Passed

LEMMA FreshTaken ==
    ASSUME Basics, Orderly, NEW p \in Proc, TakeBlock(p), Fresh(p)
    PROVE  Fresh(p)'
  <1> DEFINE c == call[p]
             d == call'[p]
             idx == data_block_idx
  <1>1. Enter(p) \/ Inside(p)
    BY DEF Inside, WriteData
  <1>2. c.inode \in Inode /\ c.i \in 0 .. MaxBlk - 1 /\ c.pc = "take block" /\ c.cnt \in Int
    BY BlockTaken DEF Basics, Types, Call
  <1>a. PICK x : x = Free_list[Free_list_len]
    OBVIOUS
  <1>b. PICK f \in Inode, n \in 0 .. MaxBlk - 1, cnt \in Int : f = c.inode /\ n = c.i /\ cnt = c.cnt
    BY <1>2
  <1>3. f = c.inode /\ n = c.i /\ x = Free_list[Free_list_len] /\ cnt = c.cnt
    BY <1>a, <1>b
  <1>4. /\ data' = data /\ d.buf = c.buf /\ d.inode = f /\ d.off = c.off /\ d.i = n /\ d.cnt = cnt
        /\ \/ Free_list_len < 0 /\ d.pc = "written" /\ idx' = idx
           \/ /\ Free_list_len \in 0 .. FreeBlocks - 1 /\ d.pc = "fill"
              /\ \A i \in Inode, k \in 0 .. MaxBlk - 1 :
                    idx'[i][k] = IF i = f /\ k = n THEN x ELSE idx[i][k]
    <2>1. /\ data' = data /\ d.buf = c.buf /\ d.inode = c.inode /\ d.off = c.off /\ d.i = c.i /\ d.cnt = c.cnt
          /\ \/ Free_list_len < 0 /\ d.pc = "written" /\ idx' = idx
             \/ /\ Free_list_len \in 0 .. FreeBlocks - 1 /\ d.pc = "fill"
                /\ \A i \in Inode, k \in 0 .. MaxBlk - 1 :
                      idx'[i][k] = IF i = c.inode /\ k = c.i THEN Free_list[Free_list_len] ELSE idx[i][k]
      BY BlockTaken
    <2> HIDE DEF c, d, idx
    <2> QED BY <1>3, <2>1
  <1>5. CASE idx' = idx /\ d.pc = "written"
    BY <1>1, <1>2, <1>3, <1>4, <1>5, FreshSame DEF BlockPc
  <1>6. CASE /\ Free_list_len \in 0 .. FreeBlocks - 1 /\ d.pc = "fill"
             /\ \A i \in Inode, k \in 0 .. MaxBlk - 1 :
                    idx'[i][k] = IF i = f /\ k = n THEN x ELSE idx[i][k]
    <2> SUFFICES ASSUME c.off = 0 PROVE Fresh(p)'
      BY <1>4 DEF Fresh
    <2>1. Free(x) /\ \A b : b = x => ~Free(b)'
      <3>1. Free_list_len >= 0 /\ Free_list_len' = Free_list_len
        <4>1. Free_list_len' = Free_list_len
          BY BlockTaken DEF counters
        <4>2. Free_list_len >= 0
          BY <1>6
        <4> QED BY <4>1, <4>2
      <3>2. Free(Free_list[Free_list_len]) /\ ~Free(Free_list[Free_list_len])'
        BY <3>1, TakenNotFree
      <3>3. x = Free_list[Free_list_len] /\ x = Free_list[Free_list_len']
        BY <1>3, <3>1
      <3> QED BY <3>2, <3>3 DEF Free
    <2>2. \A k \in 0 .. n - 1 : ~Free(idx[f][k]) /\ \A l \in 0 .. n - 1 : k # l => idx[f][k] # idx[f][l]
      <3>1. Passed(c) = n /\ c.pc \in BlockPc
        BY <1>2, <1>3 DEF Passed, BlockPc
      <3> QED BY <1>3, <3>1 DEF Fresh
    <2>3. \A b : Free(b)' => Free(b)
      BY <1>1, FreeKept
    <2>4. Passed(d) = n + 1 /\ n \in Nat /\ MaxBlk \in Nat
      BY <1>3, <1>4, <1>6, Sizes DEF Passed
    <2> HIDE DEF c, d, idx
    <2>5. /\ \A k \in 0 .. n - 1 : k \in 0 .. MaxBlk - 1 /\ k # n
          /\ \A k \in 0 .. Passed(d) - 1 : k = n \/ k \in 0 .. n - 1
      BY <2>4
    <2>6. idx'[f][n] = x /\ \A k \in 0 .. n - 1 : idx'[f][k] = idx[f][k]
      BY <1>6, <2>5
    <2>7. \A k \in 0 .. Passed(d) - 1 : /\ \A b : b = idx'[f][k] => ~Free(b)'
                                        /\ \A l \in 0 .. Passed(d) - 1 : k # l => idx'[f][k] # idx'[f][l]
      <3> TAKE k \in 0 .. Passed(d) - 1
      <3>1. \A b : b = idx'[f][k] => ~Free(b)'
        <4>1. CASE k = n
          BY <2>1, <2>6, <4>1
        <4>2. CASE k \in 0 .. n - 1
          BY <2>2, <2>3, <2>6, <4>2
        <4> QED BY <2>5, <4>1, <4>2
      <3>2. ASSUME NEW l \in 0 .. Passed(d) - 1, k # l PROVE idx'[f][k] # idx'[f][l]
        <4>1. \A j \in 0 .. n - 1 : idx[f][j] # x
          BY <2>1, <2>2
        <4> QED BY <2>2, <2>5, <2>6, <3>2, <4>1
      <3> QED BY <3>1, <3>2
    <2>8. \A k \in 0 .. cnt - 1 : ByteOf(f, k)' = d.buf[k + 1]
      <3>1. cnt = BlkSize * n /\ \A k \in 0 .. cnt - 1 : ByteOf(f, k) = c.buf[k + 1]
        BY <1>2, <1>3 DEF Basics, Working, Fresh, BlockPc, c
      <3>2. \A k \in 0 .. cnt - 1 : k \div BlkSize \in 0 .. n - 1
        BY <2>4, <3>1, Sizes
      <3>3. \A k \in 0 .. cnt - 1 : ByteOf(f, k)' = ByteOf(f, k)
        BY <1>4, <2>6, <3>2 DEF ByteOf, idx
      <3> QED BY <1>4, <3>1, <3>3
    <2> QED BY <1>4, <2>7, <2>8 DEF Fresh, d, idx
  <1> QED BY <1>4, <1>5, <1>6

LEMMA FreshFilled ==
    ASSUME Basics, Orderly, NEW p \in Proc, Fill(p), Fresh(p)
    PROVE  Fresh(p)'
  <1> DEFINE c == call[p]
             d == call'[p]
             idx == data_block_idx
  <1>1. Enter(p) \/ Inside(p)
    BY DEF Inside, WriteData
  <1>2. /\ c \in Call /\ c.pc = "fill" /\ c.inode \in Inode /\ idx' = idx /\ c.pc \in BlockPc
        /\ Working(p) /\ data \in [Block -> [0 .. BlkSize - 1 -> Byte]]
        /\ idx \in [Inode -> [0 .. MaxBlk - 1 -> Block]] /\ Private(p)
    BY Filling DEF BlockPc, Basics, Types
  <1>3. c.i \in Nat /\ c.cnt \in Int /\ c.n \in Nat /\ Filled(c) \in Nat /\ Filled(c) <= BlkSize
    <2>1. /\ 0 <= c.cnt /\ c.cnt < c.n /\ c.cnt <= BlkSize * c.i
          /\ c.off = 0 => c.cnt = BlkSize * c.i
      BY <1>2 DEF Working
    <2> HIDE DEF c
    <2>2. FillStart(c) \in Nat /\ Filled(c) \in Nat /\ FillStart(c) + Filled(c) <= BlkSize
      BY <1>2, <2>1, FillRoom
    <2>3. Filled(c) <= BlkSize
      <3> DEFINE m == Filled(c)
                 start == FillStart(c)
      <3>1. m \in Nat /\ start \in Nat /\ start + m <= BlkSize
        BY <2>2
      <3> HIDE DEF m, start
      <3>2. m <= BlkSize
        BY <3>1, Sizes
      <3> QED BY <3>2 DEF m
    <2> QED BY <1>2, <2>2, <2>3 DEF Call
  <1>4. PICK f \in Inode, n \in Nat, cnt \in Int, m \in Nat, r \in Block :
           f = c.inode /\ n = c.i /\ cnt = c.cnt /\ m = Filled(c) /\ r = c.reg
    BY <1>2, <1>3 DEF Working
  <1>5. /\ d.pc \in {"written", "load block"} /\ d.off = c.off /\ d.inode = f /\ d.buf = c.buf
        /\ d.cnt = cnt + m /\ d.i = n + 1
        /\ \A b \in Block : b # r => data'[b] = data[b]
    <2>1. /\ d.pc \in {"written", "load block"} /\ d.off = c.off /\ d.inode = c.inode /\ d.buf = c.buf
          /\ d.cnt = c.cnt + Filled(c) /\ d.i = c.i + 1
          /\ \A b \in Block : b # c.reg => data'[b] = data[b]
      BY Filling
    <2> HIDE DEF c, d
    <2> QED BY <1>4, <2>1
  <1> SUFFICES ASSUME c.off = 0 PROVE Fresh(p)'
    BY <1>5 DEF Fresh
  <1>6. /\ cnt = BlkSize * n /\ m <= BlkSize /\ r = idx[f][n] /\ FillStart(c) = 0
    <2>1. /\ 0 <= c.cnt /\ c.cnt < c.n /\ c.cnt <= BlkSize * c.i
          /\ c.off = 0 => c.cnt = BlkSize * c.i
      BY <1>2 DEF Working
    <2>2. c.reg = idx[c.inode][c.i]
      BY <1>2 DEF Working
    <2> HIDE DEF c
    <2>3. FillStart(c) = 0
      BY <1>2, <2>1, FillRoom
    <2> QED BY <1>3, <1>4, <2>1, <2>2, <2>3
  <1>7. \A j \in 0 .. m - 1 : data'[r][j] = c.buf[cnt + j + 1]
    <2>1. \A j \in 0 .. BlkSize - 1 :
             data'[r][j] = IF j \in 0 .. 0 + Filled(c) - 1 THEN c.buf[c.cnt + (j - 0) + 1] ELSE data[c.reg][j]
      <3>1. \A j \in 0 .. BlkSize - 1 :
               data'[c.reg][j] = IF j \in FillStart(c) .. FillStart(c) + Filled(c) - 1
                                 THEN c.buf[c.cnt + (j - FillStart(c)) + 1] ELSE data[c.reg][j]
        BY Filling
      <3> HIDE DEF c
      <3> QED BY <1>4, <1>6, <3>1
    <2> HIDE DEF c
    <2>2. \A j \in 0 .. m - 1 : j \in 0 .. BlkSize - 1 /\ j \in 0 .. 0 + m - 1 /\ j - 0 = j
      BY <1>6, Sizes
    <2> QED BY <1>4, <2>1, <2>2
  <1>8. /\ \A k \in 0 .. n : ~Free(idx[f][k]) /\ \A l \in 0 .. n : k # l => idx[f][k] # idx[f][l]
        /\ \A k \in 0 .. cnt - 1 : ByteOf(f, k) = c.buf[k + 1]
    <2>1. Passed(c) - 1 = n /\ c.pc \in BlockPc
      <3>1. Passed(c) = n + 1
        BY <1>2, <1>4 DEF Passed
      <3> QED BY <1>2, <3>1
    <2> QED BY <1>4, <2>1 DEF Fresh
  <1>9. d.pc \in BlockPc => Passed(d) = n + 1
    BY <1>5 DEF Passed
  <1>10. \A b : Free(b)' => Free(b)
    BY <1>1, FreeKept
  <1>11. \A k \in 0 .. d.cnt - 1 : ByteOf(f, k)' = c.buf[k + 1]
    <2> TAKE k \in 0 .. d.cnt - 1
    <2> HIDE DEF c
    <2>1. n < MaxBlk
      <3>1. c.n \in Lengths /\ c.i < CeilDiv(c.n, BlkSize)
        BY <1>2 DEF Working, Private, Writing, WritePc, BlkNum, c
      <3>2. CeilDiv(c.n, BlkSize) <= MaxBlk /\ CeilDiv(c.n, BlkSize) \in Nat
        BY <1>3, <3>1, Sizes, BlocksOf
      <3> QED BY <1>4, <3>1, <3>2, Sizes
    <2>2. CASE k \in 0 .. cnt - 1
      <3>1. k \div BlkSize \in 0 .. n - 1 /\ (k % BlkSize) \in 0 .. BlkSize - 1
        BY <1>6, <2>2, Sizes
      <3>2. k \div BlkSize \in 0 .. n /\ n \in 0 .. n /\ k \div BlkSize # n /\ k \div BlkSize \in 0 .. MaxBlk - 1
        BY <2>1, <3>1, Sizes
      <3>3. idx[f][k \div BlkSize] # r /\ idx[f][k \div BlkSize] \in Block
        BY <1>2, <1>6, <1>8, <3>2
      <3>4. ByteOf(f, k)' = ByteOf(f, k)
        BY <1>2, <1>5, <3>3 DEF ByteOf
      <3> QED BY <1>8, <2>2, <3>4
    <2>3. CASE k \notin 0 .. cnt - 1
      <3> DEFINE j == k - BlkSize * n
      <3>1. k \in Nat /\ k < cnt + m /\ k >= cnt
        <4>1. d.cnt = cnt + m
          BY <1>5
        <4> HIDE DEF d
        <4> QED BY <2>3, <4>1
      <3>2. j \in 0 .. m - 1 /\ j \in 0 .. BlkSize - 1 /\ k = BlkSize * n + j /\ k = cnt + j
        BY <1>6, <3>1, Sizes
      <3> HIDE DEF j
      <3>3. k \div BlkSize = n /\ k % BlkSize = j
        BY <3>2, BlockAndByte
      <3>4. ByteOf(f, k)' = data'[r][j]
        BY <1>2, <1>6, <3>3 DEF ByteOf
      <3> QED BY <1>7, <3>2, <3>4
    <2> QED BY <2>2, <2>3
  <1>12. CASE d.pc = "written"
    <2>1. d.pc \notin BlockPc
      BY <1>12 DEF BlockPc
    <2>2. d.inode = f /\ \A k \in 0 .. d.cnt - 1 : ByteOf(f, k)' = d.buf[k + 1]
      BY <1>5, <1>11
    <2> QED BY <2>1, <2>2 DEF Fresh
  <1>13. CASE d.pc = "load block"
    <2>0. d.pc \in BlockPc
      BY <1>13 DEF BlockPc
    <2>1. Passed(d) - 1 = n
      <3>1. Passed(d) = n + 1
        BY <1>9, <2>0
      <3> HIDE DEF d
      <3> QED BY <3>1
    <2>2. \A k \in 0 .. n : /\ \A b : b = idx'[f][k] => ~Free(b)'
                            /\ \A l \in 0 .. n : k # l => idx'[f][k] # idx'[f][l]
      BY <1>2, <1>8, <1>10
    <2>3. d.inode = f /\ \A k \in 0 .. d.cnt - 1 : ByteOf(f, k)' = d.buf[k + 1]
      BY <1>5, <1>11
    <2>4. \A k \in 0 .. Passed(d) - 1 : /\ \A b : b = idx'[f][k] => ~Free(b)'
                            /\ \A l \in 0 .. Passed(d) - 1 : k # l => idx'[f][k] # idx'[f][l]
      BY <2>1, <2>2
    <2> QED BY <2>3, <2>4 DEF Fresh
  <1> QED BY <1>5, <1>12, <1>13

LEMMA FreshNext ==
    ASSUME Basics, Orderly, Next, \A p \in Proc : Fresh(p)
    PROVE  \A p \in Proc : Fresh(p)'
  <1>1. PICK p \in Proc : Enter(p) \/ Inside(p)
    BY DEF Next
  <1>2. \A q \in Proc : q # p => Fresh(q)'
    BY <1>1, FreshOthers
  <1> DEFINE c == call[p]
             d == call'[p]
  <1>3. CASE WriteHead(p)
    <2>1. c.off \in Nat
      BY DEF Basics, Types, Call
    <2>2. /\ d.off = c.off /\ d.cnt \in {-1, 0}
          /\ d.pc \in BlockPc => d.pc = "load block" /\ d.i = StartBlk(c)
      BY <1>3, HeadWritten DEF BlockPc
    <2>3. \A k \in 0 .. d.cnt - 1 : FALSE
      <3>1. d.cnt = -1 \/ d.cnt = 0
        BY <2>2
      <3> HIDE DEF d
      <3>2. CASE d.cnt = -1
        BY <3>2
      <3>3. CASE d.cnt = 0
        BY <3>3
      <3> QED BY <3>1, <3>2, <3>3
    <2>4. ASSUME d.pc \in BlockPc, d.off = 0 PROVE \A k \in 0 .. Passed(d) - 1 : FALSE
      <3>1. StartBlk(c) = 0
        <4>1. CeilDiv(0, BlkSize) = 0
          BY Sizes DEF CeilDiv
        <4> QED BY <2>2, <2>4, <4>1 DEF StartBlk
      <3>2. Passed(d) = 0
        BY <2>2, <2>4, <3>1 DEF Passed
      <3> QED BY <3>2
    <2>5. Fresh(p)'
      BY <2>3, <2>4 DEF Fresh
    <2> QED BY <1>2, <2>5
  <1>4. CASE LoadLen(p)
    <2>1. Passed(d) = Passed(c) /\ c.pc \in BlockPc
      BY <1>4, LenLoaded DEF Passed, BlockPc
    <2>2. Fresh(p)'
      BY <1>1, <1>4, <2>1, LenLoaded, FreshSame DEF disk
    <2> QED BY <1>2, <2>2
  <1>5. CASE StoreLen(p)
    <2>1. c.pc = "store block" /\ Go(p, "take block") /\ UNCHANGED disk
      BY <1>5 DEF StoreLen, At
    <2>2. "take block" \in Pc /\ call \in [Proc -> Call]
      BY DEF Pc, Basics, Types
    <2>3. /\ d.pc = "take block" /\ d.inode = c.inode /\ d.off = c.off /\ d.buf = c.buf
          /\ d.i = c.i /\ d.cnt = c.cnt
      BY <2>1, <2>2, Gone
    <2>4. Passed(d) = Passed(c) /\ c.pc \in BlockPc
      BY <2>1, <2>3 DEF Passed, BlockPc
    <2>5. Fresh(p)'
      BY <1>1, <2>1, <2>3, <2>4, FreshSame DEF disk
    <2> QED BY <1>2, <2>5
  <1>6. CASE TakeBlock(p) \/ Fill(p)
    BY <1>2, <1>6, FreshTaken, FreshFilled
  <1>7. CASE ~(WriteHead(p) \/ LoadLen(p) \/ StoreLen(p) \/ TakeBlock(p) \/ Fill(p))
    <2>1. d.pc \notin BlockPc \cup {"written"}
      BY <1>1, <1>7, QuietStep
    <2>2. Fresh(p)'
      BY <2>1 DEF Fresh
    <2> QED BY <1>2, <2>2
  <1> QED BY <1>3, <1>4, <1>5, <1>6, <1>7

LEMMA FreshStutter ==
    ASSUME UNCHANGED vars, \A p \in Proc : Fresh(p) PROVE \A p \in Proc : Fresh(p)'
  <1>1. UNCHANGED <<length, data_block_idx, data, Free_list_len, call>>
    BY DEF vars, disk, counters
  <1>2. \A b : Free(b)' => Free(b)
    BY <1>1 DEF Free, Taking
  <1>3. \A i, k : ByteOf(i, k)' = ByteOf(i, k)
    BY <1>1 DEF ByteOf
  <1> QED BY <1>1, <1>2, <1>3 DEF Fresh, Passed

LEMMA AlwaysFresh == ASSUME Orderly PROVE Spec => [](\A p \in Proc : Fresh(p))
  <1> DEFINE AllFresh == \A p \in Proc : Fresh(p)
  <1>1. Init => AllFresh
    <2> SUFFICES ASSUME Init, NEW p \in Proc PROVE Fresh(p)
      OBVIOUS
    <2>1. call[p].pc = "user"
      BY DEF Init, InUser
    <2> QED BY <2>1 DEF Fresh, BlockPc
  <1>2. Basics /\ AllFresh /\ [Next]_vars => AllFresh'
    BY FreshNext, FreshStutter
  <1> HIDE DEF AllFresh
  <1>3. Spec => []AllFresh
    BY <1>1, <1>2, AlwaysBasics, PTL DEF Spec
  <1> QED BY <1>3 DEF AllFresh

(***************************************************************************)
(* What write returns for a write from the start is stored (write_data of  *)
(* filesys.c), also on a full disk: by the blocks of the write being new,  *)
(* which keeps what it has copied from being overwritten by the rest.      *)
(***************************************************************************)
THEOREM WhatWriteReturnsIsStored == ASSUME Orderly PROVE Spec => CountIsStored
  <1> DEFINE A == \A p \in Proc : At(p, "written") /\ Ended(p) /\ call[p].cnt >= 0 /\ call[p].off = 0 =>
                     LET c == call[p]
                         byte(k) == data[data_block_idx[c.inode][k \div BlkSize]][k % BlkSize]
                     IN \A k \in 0 .. c.cnt - 1 : byte(k) = c.buf[k + 1]
             AllFresh == \A p \in Proc : Fresh(p)
  <1>1. AllFresh => [A]_vars
    BY DEF Fresh, ByteOf, At
  <1>2. Spec => []AllFresh
    BY AlwaysFresh
  <1> HIDE DEF AllFresh, A
  <1>3. Spec => [][A]_vars
    BY <1>1, <1>2, PTL
  <1> QED BY <1>3 DEF A, CountIsStored

-----------------------------------------------------------------------------
(* With room for what is written. *)
LEMMA RoomOthers ==
    ASSUME Basics, Orderly, NEW p \in Proc, Enter(p) \/ Inside(p),
           NEW q \in Proc, q # p, RoomLeft(q)
    PROVE  RoomLeft(q)'
  <1>1. call'[q] = call[q] /\ (Writing(q) => UNCHANGED <<directory, disk, counters>>)
    BY OthersKept DEF Basics
  <1>2. CASE Writing(q)
    BY <1>1, <1>2 DEF RoomLeft, BlkNum, disk, counters
  <1>3. CASE ~Writing(q)
    <2>1. call'[q].pc \notin CreatePc \cup WritePc
      BY <1>1, <1>3 DEF Writing
    <2> QED BY <2>1 DEF RoomLeft, WritePc
  <1> QED BY <1>2, <1>3

(* A write from the start that has copied its last block has copied all. *)
LEMMA LastFill ==
    ASSUME NEW c \in Call, c.i < BlkNum(c), 0 <= c.cnt, c.cnt < c.n, c.cnt <= BlkSize * c.i,
           c.off = 0 => c.cnt = BlkSize * c.i
    PROVE  /\ c.off = 0 /\ c.i + 1 = BlkNum(c) => c.cnt + Filled(c) = c.n
           /\ c.cnt + Filled(c) = c.n => c.i + 1 = BlkNum(c)
  <1> DEFINE n == c.n
             cnt == c.cnt
             i == c.i
             m == Filled(c)
             b == BlkNum(c)
  <1>1. n \in Nat /\ cnt \in Int /\ i \in Nat /\ i < b /\ 0 <= cnt
    BY DEF Call
  <1>2. /\ m \in Nat /\ cnt + m <= n /\ cnt + m <= BlkSize * (i + 1)
        /\ c.off = 0 => (cnt + m # n => m = BlkSize)
    BY FillRoom
  <1>3. b \in Nat /\ \A k \in Nat : k < b <=> BlkSize * k < n
    BY <1>1, BlocksOf DEF BlkNum
  <1>4. c.off = 0 => cnt = BlkSize * i
    OBVIOUS
  <1> HIDE DEF n, cnt, i, m, b
  <1>5. BlkSize * (i + 1) = BlkSize * i + BlkSize /\ BlkSize * (i + 1) \in Nat /\ i + 1 \in Nat
    BY <1>1, Sizes
  <1>6. ASSUME c.off = 0, i + 1 = b PROVE cnt + m = n
    <2>1. ~(BlkSize * (i + 1) < n)
      BY <1>3, <1>6
    <2> QED BY <1>1, <1>2, <1>4, <1>5, <1>6, <2>1
  <1>7. ASSUME cnt + m = n PROVE i + 1 = b
    <2>1. ~(BlkSize * (i + 1) < n)
      BY <1>1, <1>2, <1>5, <1>7
    <2>2. ~(i + 1 < b)
      BY <1>3, <1>5, <2>1
    <2> QED BY <1>1, <1>3, <2>2
  <1> QED BY <1>6, <1>7 DEF n, cnt, i, m, b

LEMMA RoomNext ==
    ASSUME Basics, Orderly, Ample, Next, \A p \in Proc : RoomLeft(p)
    PROVE  \A p \in Proc : RoomLeft(p)'
  <1>1. PICK p \in Proc : Enter(p) \/ Inside(p)
    BY DEF Next
  <1>2. \A q \in Proc : q # p => RoomLeft(q)'
    BY <1>1, RoomOthers
  <1> DEFINE c == call[p]
             d == call'[p]
             len == Free_list_len
  <1>3. c \in Call /\ len \in Int /\ RoomLeft(p) /\ Private(p) /\ Working(p) /\ call \in [Proc -> Call]
    BY DEF Basics, Types
  <1>4. c.n \in Nat /\ c.i \in Nat /\ c.cnt \in Int /\ c.off \in Nat /\ BlkNum(c) \in Nat /\ StartBlk(c) \in Nat
    <2>1. c.n \in Nat /\ c.i \in Nat /\ c.cnt \in Int /\ c.off \in Nat
      BY <1>3 DEF Call
    <2> HIDE DEF c
    <2> QED BY <2>1, BlocksOf DEF BlkNum, StartBlk
  <1>5. SUFFICES RoomLeft(p)'
    BY <1>2
  <1>6. CASE WriteHead(p)
    <2>1. /\ BlkNum(c) <= len /\ len' = len /\ d.n = c.n /\ d.off = c.off /\ d.inode = c.inode
          /\ d.pc \in {"load block", "written"}
      BY <1>3, <1>6, HeadWritten DEF RoomLeft, counters
    <2>2. CASE d.pc = "load block"
      <3>1. d.i = StartBlk(c) /\ BlkNum(d) = BlkNum(c)
        BY <1>6, <2>1, <2>2, HeadWritten DEF BlkNum
      <3>2. BlkNum(d) - d.i <= len'
        <4> DEFINE b == BlkNum(c)
                   s == StartBlk(c)
        <4>1. b \in Nat /\ s \in Nat /\ b <= len
          BY <1>4, <2>1
        <4> HIDE DEF b, s, d
        <4>2. b - s <= len
          BY <1>3, <4>1
        <4> QED BY <2>1, <3>1, <4>2 DEF b, s
      <3> QED BY <2>2, <3>2 DEF RoomLeft, CreatePc, BlkNum
    <2>3. CASE d.pc = "written"
      <3> SUFFICES ASSUME d.inode # NoInode, d.off = 0 PROVE d.cnt = d.n /\ length'[d.inode] = d.n
        BY <2>3 DEF RoomLeft, CreatePc
      <3>1. c.inode \in Inode /\ c.off = 0 /\ ~(c.off > length[c.inode])
        <4>1. c.inode \in Inode /\ c.off = 0
          BY <1>3, <2>1 DEF Call
        <4>2. length[c.inode] \in Nat
          BY <4>1 DEF Basics, Types
        <4> HIDE DEF c
        <4> QED BY <4>1, <4>2
      <3>2. /\ length' = [length EXCEPT ![c.inode] = c.n] /\ d.cnt = 0
            /\ d.pc = IF StartBlk(c) < BlkNum(c) THEN "load block" ELSE "written"
        BY <1>6, <3>1, HeadWritten DEF NoInode, Inode
      <3>3. StartBlk(c) = 0
        <4>1. CeilDiv(0, BlkSize) = 0
          BY Sizes DEF CeilDiv
        <4> QED BY <3>1, <4>1 DEF StartBlk
      <3>4. ~(0 < BlkNum(c))
        BY <2>3, <3>2, <3>3
      <3>5. c.n = 0
        <4> DEFINE n == c.n
        <4>1. n \in Nat /\ ~(0 < CeilDiv(n, BlkSize))
          BY <1>4, <3>4 DEF BlkNum
        <4> HIDE DEF n
        <4>2. ~(BlkSize * 0 < n)
          BY <4>1, BlocksOf
        <4>3. n = 0
          BY <4>1, <4>2, Sizes
        <4> QED BY <4>3 DEF n
      <3>6. length'[c.inode] = c.n
        <4>1. length \in [Inode -> Nat]
          BY DEF Basics, Types
        <4> HIDE DEF c
        <4> QED BY <3>1, <3>2, <4>1
      <3> QED BY <2>1, <3>2, <3>5, <3>6
    <2> QED BY <2>1, <2>2, <2>3
  <1>7. CASE LoadLen(p)
    <2>1. /\ d.pc = "store block" /\ len' = len /\ d.n = c.n /\ d.i = c.i /\ c.pc = "load block"
      BY <1>7, LenLoaded DEF counters
    <2>2. BlkNum(d) - d.i <= len'
      BY <1>3, <2>1 DEF RoomLeft, BlkNum
    <2> QED BY <2>1, <2>2 DEF RoomLeft, CreatePc, BlkNum
  <1>8. CASE StoreLen(p)
    <2>1. /\ c.pc = "store block" /\ len' = c.reg - 1 /\ Go(p, "take block") /\ c.reg = len
      BY <1>3, <1>8 DEF StoreLen, At, Working
    <2>2. d.pc = "take block" /\ d.n = c.n /\ d.i = c.i
      <3>1. "take block" \in Pc
        BY DEF Pc
      <3> QED BY <1>3, <2>1, <3>1, Gone
    <2>3. BlkNum(d) - d.i <= len' + 1
      <3>1. BlkNum(c) - c.i <= len /\ len' = len - 1
        BY <1>3, <2>1 DEF RoomLeft
      <3>2. len' + 1 = len
        BY <1>3, <3>1
      <3> QED BY <2>2, <3>1, <3>2 DEF BlkNum
    <2> QED BY <2>2, <2>3 DEF RoomLeft, CreatePc, BlkNum
  <1>9. CASE TakeBlock(p)
    <2>1. /\ c.pc = "take block" /\ d.n = c.n /\ d.i = c.i /\ len' = len
          /\ len < 0 \/ d.pc = "fill"
      BY <1>9, BlockTaken DEF counters
    <2>2. BlkNum(c) - c.i <= len + 1 /\ c.i < BlkNum(c)
      BY <1>3, <2>1 DEF RoomLeft, Working, BlockPc
    <2>3. len >= 0 /\ BlkNum(c) - c.i - 1 <= len
      <3> DEFINE b == BlkNum(c)
                 i == c.i
      <3>1. b \in Nat /\ i \in Nat /\ b - i <= len + 1 /\ i < b
        BY <1>4, <2>2
      <3> HIDE DEF b, i, len
      <3>2. len >= 0 /\ b - i - 1 <= len
        BY <1>3, <3>1
      <3> QED BY <3>2 DEF b, i
    <2>4. d.pc = "fill"
      <3>1. len \in Int /\ len >= 0
        BY <1>3, <2>3
      <3>2. ~(len < 0)
        BY <3>1
      <3> QED BY <2>1, <3>2
    <2>5. BlkNum(d) - d.i - 1 <= len'
      BY <2>1, <2>3 DEF BlkNum
    <2> QED BY <2>4, <2>5 DEF RoomLeft, CreatePc, BlkNum
  <1>10. CASE Fill(p)
    <2> DEFINE m == Filled(c)
    <2>1. /\ c.pc = "fill" /\ d.n = c.n /\ d.i = c.i + 1 /\ d.cnt = c.cnt + m /\ len' = len
          /\ length' = length /\ d.inode = c.inode /\ d.off = c.off
          /\ d.pc = IF c.cnt + m = c.n \/ c.i + 1 = BlkNum(c) THEN "written" ELSE "load block"
      BY <1>10, Filling DEF counters
    <2>2. /\ c.i < BlkNum(c) /\ 0 <= c.cnt /\ c.cnt < c.n /\ c.cnt <= BlkSize * c.i
          /\ c.off = 0 => c.cnt = BlkSize * c.i
      BY <1>3, <2>1 DEF Working, BlockPc
    <2>3. length[c.inode] = c.n /\ BlkNum(c) - c.i - 1 <= len
      BY <1>3, <2>1 DEF Working, BlockPc, RoomLeft
    <2>4. c.off = 0 /\ c.i + 1 = BlkNum(c) => c.cnt + m = c.n
      <3> HIDE DEF c
      <3> QED BY <1>3, <2>2, LastFill
    <2>5. BlkNum(d) - d.i <= len'
      <3> DEFINE b == BlkNum(c)
                 i == c.i
      <3>1. b \in Nat /\ i \in Nat /\ b - i - 1 <= len
        BY <1>4, <2>3
      <3>2. BlkNum(d) = b /\ d.i = i + 1 /\ len' = len
        BY <2>1 DEF BlkNum
      <3> HIDE DEF b, i, len, d
      <3>3. b - (i + 1) <= len
        BY <1>3, <3>1
      <3> QED BY <3>2, <3>3
    <2>6. d.pc = "written" /\ d.off = 0 => d.cnt = d.n /\ length'[d.inode] = d.n
      BY <2>1, <2>3, <2>4
    <2>7. d.pc \in {"written", "load block"}
      BY <2>1
    <2> QED BY <2>5, <2>6, <2>7 DEF RoomLeft, CreatePc, BlkNum
  <1>11. CASE ~(WriteHead(p) \/ LoadLen(p) \/ StoreLen(p) \/ TakeBlock(p) \/ Fill(p))
    <2>1. /\ len' = len /\ d.pc \notin BlockPc \cup {"written"}
          /\ d.pc \in CreatePc \cup {"write"} => (c.pc \in CreatePc /\ d.n = c.n) \/ BlkNum(d) <= len
      BY <1>1, <1>11, QuietStep
    <2>2. d.pc \in CreatePc \cup {"write"} => BlkNum(d) <= len'
      BY <1>3, <2>1 DEF RoomLeft, BlkNum
    <2> QED BY <2>1, <2>2 DEF RoomLeft, BlkNum, BlockPc
  <1> QED BY <1>6, <1>7, <1>8, <1>9, <1>10, <1>11

(* An inode comes to hold a block only when one is taken for it. *)
LEMMA HoldsKept ==
    ASSUME Basics, Orderly, NEW p \in Proc, Enter(p) \/ Inside(p), ~TakeBlock(p),
           NEW i \in Inode, NEW k \in Nat, Holds(i, k)'
    PROVE  Holds(i, k)
  <1> DEFINE c == call[p]
             d == call'[p]
  <1>1. \A q \in Proc : q # p => call'[q] = call[q]
    BY OthersKept DEF Basics
  <1>2. /\ c \in Call /\ call \in [Proc -> Call] /\ length \in [Inode -> Nat] /\ Private(p) /\ Working(p) /\ Exclusive
    BY DEF Basics, Types
  <1>3. /\ k < CeilDiv(length'[i], BlkSize)
        /\ \A q \in Proc : call'[q].pc \in BlockPc /\ call'[q].inode = i => k < Passed(call'[q])
    BY DEF Holds, Passed
  <1>4. ASSUME length' = length, c.pc \in BlockPc /\ c.inode = i => k < Passed(c)
        PROVE  Holds(i, k)
    BY <1>1, <1>3, <1>4 DEF Holds
  <1>5. CASE WriteHead(p)
    <2>1. c.pc = "write" /\ d.inode = c.inode /\ d.off = c.off /\ d.n = c.n
      BY <1>5, HeadWritten
    <2>2. \A q \in Proc : call[q].pc \notin BlockPc
      BY <1>2, <2>1 DEF Exclusive, Writing, BlockPc, WritePc
    <2>3. SUFFICES k < CeilDiv(length[i], BlkSize)
      BY <2>2 DEF Holds
    <2>4. CASE length'[i] = length[i]
      BY <1>3, <2>4
    <2>5. CASE /\ c.inode \in Inode /\ c.off <= length[c.inode]
               /\ length' = [length EXCEPT ![c.inode] = c.n]
               /\ d.i = StartBlk(c)
               /\ d.pc = IF StartBlk(c) < BlkNum(c) THEN "load block" ELSE "written"
      <3>1. CASE i # c.inode
        BY <1>2, <2>4, <2>5, <3>1
      <3>2. CASE i = c.inode
        <4>1. length'[i] = c.n
          <5> HIDE DEF c
          <5> QED BY <1>2, <2>5, <3>2
        <4>2. k < BlkNum(c)
          BY <1>3, <4>1 DEF BlkNum
        <4>3. c.off \in Nat /\ c.n \in Nat /\ length[i] \in Nat
          BY <1>2 DEF Call
        <4>4. StartBlk(c) \in Nat /\ BlkNum(c) \in Nat
          <5> HIDE DEF c
          <5> QED BY <4>3, BlocksOf DEF StartBlk, BlkNum
        <4>5. k < StartBlk(c)
          <5>1. CASE StartBlk(c) < BlkNum(c)
            <6>1. d.pc \in BlockPc /\ Passed(d) = StartBlk(c)
              BY <2>5, <5>1 DEF BlockPc, Passed
            <6> QED BY <1>3, <2>1, <3>2, <6>1
          <5>2. CASE ~(StartBlk(c) < BlkNum(c))
            <6> DEFINE s == StartBlk(c)
                       b == BlkNum(c)
            <6>1. s \in Nat /\ b \in Nat /\ ~(s < b) /\ k < b
              BY <4>2, <4>4, <5>2
            <6> HIDE DEF s, b
            <6>2. k < s
              BY <6>1
            <6> QED BY <6>2 DEF s
          <5> QED BY <5>1, <5>2
        <4>6. BlkSize * k < c.off
          <5> DEFINE off == c.off
          <5>1. off \in Nat /\ k < CeilDiv(off, BlkSize)
            BY <4>3, <4>5 DEF StartBlk
          <5> HIDE DEF off
          <5>2. BlkSize * k < off
            BY <5>1, BlocksOf
          <5> QED BY <5>2 DEF off
        <4>7. BlkSize * k < length[i]
          <5> DEFINE off == c.off
                     len == length[i]
          <5>a. off <= len
            BY <2>5, <3>2
          <5>b. BlkSize * k \in Nat
            BY Sizes
          <5>1. off \in Nat /\ len \in Nat /\ off <= len /\ BlkSize * k < off /\ BlkSize * k \in Nat
            BY <4>3, <4>6, <5>a, <5>b
          <5> HIDE DEF off, len
          <5>2. BlkSize * k < len
            BY <5>1
          <5> QED BY <5>2 DEF len
        <4> QED BY <4>3, <4>7, BlocksOf
      <3> QED BY <3>1, <3>2
    <2> QED BY <1>5, <2>4, <2>5, HeadWritten
  <1>6. CASE LoadLen(p)
    <2>1. length' = length /\ d.inode = c.inode /\ Passed(d) = Passed(c) /\ d.pc \in BlockPc
      BY <1>6, LenLoaded DEF disk, Passed, BlockPc
    <2> QED BY <1>3, <1>4, <2>1
  <1>7. CASE StoreLen(p)
    <2>1. c.pc = "store block" /\ Go(p, "take block") /\ UNCHANGED disk
      BY <1>7 DEF StoreLen, At
    <2>2. "take block" \in Pc
      BY DEF Pc
    <2>3. d.pc = "take block" /\ d.inode = c.inode /\ d.i = c.i
      BY <1>2, <2>1, <2>2, Gone
    <2>4. length' = length /\ d.inode = c.inode /\ Passed(d) = Passed(c) /\ d.pc \in BlockPc
      BY <2>1, <2>3 DEF disk, Passed, BlockPc
    <2> QED BY <1>3, <1>4, <2>4
  <1>8. CASE Fill(p)
    <2>1. /\ c.pc = "fill" /\ length' = length /\ d.inode = c.inode /\ d.i = c.i + 1
          /\ d.pc = IF c.cnt + Filled(c) = c.n \/ c.i + 1 = BlkNum(c) THEN "written" ELSE "load block"
      BY <1>8, Filling
    <2>2. Passed(c) = c.i + 1
      BY <2>1 DEF Passed
    <2>3. ASSUME c.inode = i PROVE k < Passed(c)
      <3>1. CASE d.pc = "load block"
        <4>1. d.pc \in BlockPc /\ Passed(d) = Passed(c)
          BY <2>1, <2>2, <3>1 DEF BlockPc, Passed
        <4> QED BY <1>3, <2>1, <2>3, <4>1
      <3>2. CASE d.pc = "written"
        <4>1. /\ c.i < BlkNum(c) /\ 0 <= c.cnt /\ c.cnt < c.n /\ c.cnt <= BlkSize * c.i
              /\ c.off = 0 => c.cnt = BlkSize * c.i
              /\ length[c.inode] = c.n
          BY <1>2, <2>1 DEF Working, BlockPc
        <4>2. c.i + 1 = BlkNum(c)
          <5>1. c.cnt + Filled(c) = c.n => c.i + 1 = BlkNum(c)
            <6> HIDE DEF c
            <6> QED BY <1>2, <4>1, LastFill
          <5> QED BY <2>1, <3>2, <5>1
        <4>3. k < BlkNum(c)
          BY <1>3, <2>1, <2>3, <4>1 DEF BlkNum
        <4> QED BY <2>2, <4>2, <4>3
      <3> QED BY <2>1, <3>1, <3>2
    <2> QED BY <1>4, <2>1, <2>3
  <1>9. CASE ~(WriteHead(p) \/ LoadLen(p) \/ StoreLen(p) \/ TakeBlock(p) \/ Fill(p))
    BY <1>4, <1>9, QuietStep DEF disk
  <1> QED BY <1>5, <1>6, <1>7, <1>8, <1>9

LEMMA ApartKept ==
    ASSUME Basics, Orderly, Apart, NEW p \in Proc, Enter(p) \/ Inside(p), ~TakeBlock(p)
    PROVE  Apart'
  <1>1. data_block_idx' = data_block_idx
    <2>1. CASE WriteHead(p)
      BY <2>1, HeadWritten
    <2>2. CASE LoadLen(p) \/ StoreLen(p) \/ Fill(p)
      BY <2>2 DEF LoadLen, StoreLen, Fill, disk
    <2>3. CASE ~(WriteHead(p) \/ LoadLen(p) \/ StoreLen(p) \/ TakeBlock(p) \/ Fill(p))
      BY <2>3, QuietStep DEF disk
    <2> QED BY <2>1, <2>2, <2>3
  <1>2. \A b : Free(b)' => Free(b)
    BY FreeKept
  <1>3. \A i \in Inode, k \in 0 .. MaxBlk - 1 : Holds(i, k)' => Holds(i, k)
    <2>1. \A k \in 0 .. MaxBlk - 1 : k \in Nat
      BY Sizes
    <2> QED BY <2>1, HoldsKept
  <1> QED BY <1>1, <1>2, <1>3 DEF Apart

LEMMA ApartTaken ==
    ASSUME Basics, Orderly, Apart, NEW p \in Proc, TakeBlock(p), RoomLeft(p)
    PROVE  Apart'
  <1> DEFINE c == call[p]
             d == call'[p]
             idx == data_block_idx
  <1>1. Enter(p) \/ Inside(p)
    BY DEF Inside, WriteData
  <1>2. /\ c.inode \in Inode /\ c.i \in 0 .. MaxBlk - 1 /\ c.pc = "take block" /\ length' = length
        /\ d.inode = c.inode /\ d.i = c.i /\ Free_list_len' = Free_list_len
    BY BlockTaken DEF counters
  <1>a. PICK x : x = Free_list[Free_list_len]
    OBVIOUS
  <1>b. PICK f \in Inode, n \in 0 .. MaxBlk - 1 : f = c.inode /\ n = c.i
    BY <1>2
  <1>3. Free_list_len \in Int /\ Free_list_len >= 0
    <2>1. BlkNum(c) - c.i <= Free_list_len + 1 /\ c.i < BlkNum(c)
      BY <1>2 DEF RoomLeft, Basics, Working, BlockPc
    <2>2. Free_list_len \in Int /\ c \in Call /\ c.i \in Nat /\ c.n \in Nat
      BY DEF Basics, Types, Call
    <2>3. BlkNum(c) \in Nat
      <3> HIDE DEF c
      <3> QED BY <2>2, BlocksOf DEF BlkNum
    <2> DEFINE b == BlkNum(c)
               i == c.i
               len == Free_list_len
    <2>4. b \in Nat /\ i \in Nat /\ len \in Int /\ b - i <= len + 1 /\ i < b
      BY <2>1, <2>2, <2>3
    <2> HIDE DEF b, i, len
    <2>5. len >= 0
      BY <2>4
    <2> QED BY <2>2, <2>5 DEF len
  <1>4. /\ d.pc = "fill"
        /\ \A i \in Inode, k \in 0 .. MaxBlk - 1 : idx'[i][k] = IF i = f /\ k = n THEN x ELSE idx[i][k]
    <2>1. ~(Free_list_len < 0)
      BY <1>3
    <2>2. /\ d.pc = "fill"
          /\ \A i \in Inode, k \in 0 .. MaxBlk - 1 :
                idx'[i][k] = IF i = c.inode /\ k = c.i THEN Free_list[Free_list_len] ELSE idx[i][k]
      BY <2>1, BlockTaken
    <2> HIDE DEF c, d, idx
    <2> QED BY <1>a, <1>b, <2>2
  <1>5. Free(x) /\ \A b : b = x => ~Free(b)'
    <2>1. Free(Free_list[Free_list_len]) /\ ~Free(Free_list[Free_list_len])'
      BY <1>3, TakenNotFree
    <2>2. x = Free_list[Free_list_len] /\ x = Free_list[Free_list_len']
      BY <1>2, <1>a
    <2> QED BY <2>1, <2>2 DEF Free
  <1>6. \A b : Free(b)' => Free(b)
    BY <1>1, FreeKept
  <1>7. \A i \in Inode, k \in 0 .. MaxBlk - 1 : Holds(i, k)' => Holds(i, k) \/ (i = f /\ k = n)
    <2> SUFFICES ASSUME NEW i \in Inode, NEW k \in 0 .. MaxBlk - 1, Holds(i, k)', ~(i = f /\ k = n)
                 PROVE  Holds(i, k)
      OBVIOUS
    <2>1. \A q \in Proc : q # p => call'[q] = call[q]
      BY <1>1, OthersKept DEF Basics
    <2>2. c.inode = i => k < Passed(c)
      <3> SUFFICES ASSUME c.inode = i PROVE k < Passed(c)
        OBVIOUS
      <3>1. d.pc \in BlockPc /\ d.inode = i /\ Passed(d) = n + 1
        BY <1>2, <1>b, <1>4 DEF BlockPc, Passed
      <3>2. k < n + 1
        BY <3>1 DEF Holds, Passed
      <3>3. k # n
        BY <1>b
      <3>4. k < n
        BY <3>2, <3>3, Sizes
      <3> QED BY <1>2, <1>b, <3>4 DEF Passed
    <2> QED BY <1>2, <2>1, <2>2 DEF Holds, Passed
  <1>8. n \in 0 .. MaxBlk - 1 /\ f \in Inode
    OBVIOUS
  <1> HIDE DEF idx
  <1>9. ASSUME NEW i \in Inode, NEW k \in 0 .. MaxBlk - 1, Holds(i, k)'
        PROVE  /\ \A b : b = idx'[i][k] => ~Free(b)'
               /\ \A j \in Inode, l \in 0 .. MaxBlk - 1 :
                     Holds(j, l)' /\ idx'[i][k] = idx'[j][l] => i = j /\ k = l
    <2>1. CASE i = f /\ k = n
      <3>1. idx'[i][k] = x
        BY <1>4, <2>1
      <3>2. ASSUME NEW j \in Inode, NEW l \in 0 .. MaxBlk - 1, Holds(j, l)', ~(j = f /\ l = n)
            PROVE  idx'[j][l] # x
        <4>1. Holds(j, l) /\ idx'[j][l] = idx[j][l]
          BY <1>4, <1>7, <3>2
        <4> QED BY <1>5, <4>1 DEF Apart, idx
      <3> QED BY <1>5, <2>1, <3>1, <3>2
    <2>2. CASE ~(i = f /\ k = n)
      <3>1. Holds(i, k) /\ idx'[i][k] = idx[i][k]
        BY <1>4, <1>7, <1>9, <2>2
      <3>2. ~Free(idx[i][k]) /\ \A j \in Inode, l \in 0 .. MaxBlk - 1 :
                                   Holds(j, l) /\ idx[i][k] = idx[j][l] => i = j /\ k = l
        BY <3>1 DEF Apart, idx
      <3>3. ASSUME NEW j \in Inode, NEW l \in 0 .. MaxBlk - 1, Holds(j, l)', idx'[i][k] = idx'[j][l]
            PROVE  i = j /\ k = l
        <4>1. CASE j = f /\ l = n
          BY <1>4, <1>5, <3>1, <3>2, <3>3, <4>1
        <4>2. CASE ~(j = f /\ l = n)
          BY <1>4, <1>7, <3>1, <3>2, <3>3, <4>2
        <4> QED BY <4>1, <4>2
      <3> QED BY <1>6, <3>1, <3>2, <3>3
    <2> QED BY <2>1, <2>2
  <1> QED BY <1>9 DEF Apart, idx

LEMMA ApartNext ==
    ASSUME Basics, Orderly, Next, Apart, \A p \in Proc : RoomLeft(p) PROVE Apart'
  <1>1. PICK p \in Proc : Enter(p) \/ Inside(p)
    BY DEF Next
  <1> QED BY <1>1, ApartKept, ApartTaken

LEMMA RoomStutter ==
    ASSUME UNCHANGED vars, Apart, \A p \in Proc : RoomLeft(p)
    PROVE  Apart' /\ \A p \in Proc : RoomLeft(p)'
  <1>1. UNCHANGED <<length, data_block_idx, data, Free_list_len, call>>
    BY DEF vars, disk, counters
  <1>2. \A b : Free(b)' <=> Free(b)
    BY <1>1 DEF Free, Taking
  <1>3. \A i, k : Holds(i, k)' <=> Holds(i, k)
    BY <1>1 DEF Holds, Passed
  <1>4. Apart'
    BY <1>1, <1>2, <1>3 DEF Apart
  <1>5. \A p \in Proc : RoomLeft(p)'
    BY <1>1 DEF RoomLeft, BlkNum
  <1> QED BY <1>4, <1>5

LEMMA ApartInit == ASSUME Init PROVE Apart /\ \A p \in Proc : RoomLeft(p)
  <1>1. \A p \in Proc : call[p].pc = "user"
    BY DEF Init, InUser
  <1>2. ~Taking
    BY <1>1 DEF Taking
  <1>3. Free_list_len = FreeBlocks
    BY DEF Init, FreeBlocks
  <1>4. \A i \in OldInode : OldBlock(i) \in Busy /\ ~Free(OldBlock(i))
    BY <1>2, <1>3, Lists DEF Free, Busy
  <1>5. ASSUME NEW i \in Inode, NEW k \in 0 .. MaxBlk - 1, Holds(i, k)
        PROVE  k = 0 /\ i \in OldInode /\ data_block_idx[i][k] = OldBlock(i)
    <2>1. k < CeilDiv(OldLength(i), BlkSize) /\ k \in Nat
      BY <1>5, Sizes DEF Init, Holds
    <2>2. CASE i \in OldInode
      <3>1. k < CeilDiv(1, BlkSize)
        BY <2>1, <2>2 DEF OldLength
      <3>2. CeilDiv(1, BlkSize) = 1
        BY Sizes DEF CeilDiv
      <3>3. k = 0
        BY <2>1, <3>1, <3>2
      <3> QED BY <2>2, <3>3 DEF Init
    <2>3. CASE i \notin OldInode
      <3>1. k < CeilDiv(0, BlkSize)
        BY <2>1, <2>3 DEF OldLength
      <3>2. CeilDiv(0, BlkSize) = 0
        BY Sizes DEF CeilDiv
      <3> QED BY <2>1, <3>1, <3>2
    <2> QED BY <2>2, <2>3
  <1>6. Apart
    BY <1>4, <1>5, OldPlaces DEF Apart
  <1>7. \A p \in Proc : RoomLeft(p)
    BY <1>1 DEF RoomLeft, CreatePc
  <1> QED BY <1>6, <1>7

LEMMA AlwaysApart ==
    ASSUME Orderly, Ample PROVE Spec => [](Apart /\ \A p \in Proc : RoomLeft(p))
  <1> DEFINE AllRoom == \A p \in Proc : RoomLeft(p)
  <1>1. Init => Apart /\ AllRoom
    BY ApartInit
  <1>2. Basics /\ Apart /\ AllRoom /\ [Next]_vars => (Apart /\ AllRoom)'
    <2> SUFFICES ASSUME Basics, Apart, AllRoom, [Next]_vars PROVE Apart' /\ AllRoom'
      OBVIOUS
    <2>1. CASE Next
      BY <2>1, ApartNext, RoomNext
    <2>2. CASE UNCHANGED vars
      BY <2>2, RoomStutter
    <2> QED BY <2>1, <2>2
  <1> HIDE DEF AllRoom
  <1>3. Spec => [](Apart /\ AllRoom)
    BY <1>1, <1>2, AlwaysBasics, PTL DEF Spec
  <1> QED BY <1>3 DEF AllRoom

-----------------------------------------------------------------------------
LEMMA IndexType ==
    ASSUME Types PROVE \A i \in Inode, m \in 0 .. MaxBlk - 1 : data_block_idx[i][m] \in Block
  <1>1. data_block_idx \in [Inode -> [0 .. MaxBlk - 1 -> Block]]
    BY DEF Types
  <1> HIDE DEF Block
  <1> QED BY <1>1

(* What a file holds is in the blocks that its length counts. *)
LEMMA Within ==
    ASSUME Types, NEW i \in Inode, NEW k \in Nat, k < length[i]
    PROVE  /\ k \div BlkSize \in 0 .. MaxBlk - 1 /\ k \div BlkSize < CeilDiv(length[i], BlkSize)
           /\ (k % BlkSize) \in 0 .. BlkSize - 1
           /\ data_block_idx[i][k \div BlkSize] \in Block
  <1>1. length[i] \in Nat /\ CeilDiv(length[i], BlkSize) <= MaxBlk
    BY DEF Types
  <1>2. k \div BlkSize \in Nat /\ (k % BlkSize) \in 0 .. BlkSize - 1
    BY Divided
  <1>3. k \div BlkSize < CeilDiv(length[i], BlkSize) /\ CeilDiv(length[i], BlkSize) \in Nat
    BY <1>1, BlocksOf
  <1>4. k \div BlkSize \in 0 .. MaxBlk - 1
    <2> DEFINE q == k \div BlkSize
               n == CeilDiv(length[i], BlkSize)
    <2>1. q \in Nat /\ n \in Nat /\ q < n /\ n <= MaxBlk /\ MaxBlk \in Nat
      BY <1>1, <1>2, <1>3, Sizes
    <2> HIDE DEF q, n
    <2>2. q \in 0 .. MaxBlk - 1
      BY <2>1
    <2> QED BY <2>2 DEF q
  <1>5. data_block_idx[i][k \div BlkSize] \in Block
    BY <1>4, IndexType
  <1> QED BY <1>2, <1>3, <1>4, <1>5

LEMMA ContentsSame ==
    ASSUME Types, NEW i \in Inode, length'[i] = length[i],
           \A m \in 0 .. MaxBlk - 1 : m < CeilDiv(length[i], BlkSize) =>
               data_block_idx'[i][m] = data_block_idx[i][m]
               /\ data'[data_block_idx[i][m]] = data[data_block_idx[i][m]]
    PROVE  Contents(i)' = Contents(i)
  <1>1. length[i] \in Nat
    BY DEF Types
  <1>2. ASSUME NEW k \in 1 .. length[i]
        PROVE  data'[data_block_idx'[i][(k - 1) \div BlkSize]][(k - 1) % BlkSize]
                 = data[data_block_idx[i][(k - 1) \div BlkSize]][(k - 1) % BlkSize]
    <2>1. k - 1 \in Nat /\ k - 1 < length[i]
      BY <1>1
    <2>2. (k - 1) \div BlkSize \in 0 .. MaxBlk - 1 /\ (k - 1) \div BlkSize < CeilDiv(length[i], BlkSize)
      BY <2>1, Within
    <2> QED BY <2>2
  <1> QED BY <1>2 DEF Contents

LEMMA BlockHeld ==
    ASSUME Basics, NEW p \in Proc, call[p].pc = "fill"
    PROVE  LET c == call[p] IN
           /\ c.inode \in Inode /\ c.i \in 0 .. MaxBlk - 1 /\ Holds(c.inode, c.i)
           /\ c.reg = data_block_idx[c.inode][c.i]
           /\ \A q \in Proc : call[q].pc \in BlockPc => q = p
  <1> DEFINE c == call[p]
  <1>1. c.inode \in Inode /\ c.reg = data_block_idx[c.inode][c.i] /\ c.i < BlkNum(c) /\ length[c.inode] = c.n
    BY DEF Basics, Private, Working, BlockPc
  <1>2. \A q \in Proc : call[q].pc \in BlockPc => q = p
    BY DEF Basics, Exclusive, Writing, BlockPc, WritePc
  <1>3. c.i \in Nat /\ c.n \in Nat /\ c.i < CeilDiv(c.n, BlkSize) /\ CeilDiv(c.n, BlkSize) <= MaxBlk
    BY <1>1 DEF Basics, Types, Call, BlkNum
  <1>4. c.i \in 0 .. MaxBlk - 1
    <2> DEFINE i == c.i
               b == CeilDiv(c.n, BlkSize)
    <2>1. i \in Nat /\ i < b /\ b \in Nat /\ b <= MaxBlk /\ MaxBlk \in Nat
      BY <1>3, BlocksOf, Sizes
    <2> HIDE DEF i, b
    <2>2. i \in 0 .. MaxBlk - 1
      BY <2>1
    <2> QED BY <2>2 DEF i
  <1>5. Passed(c) = c.i + 1 /\ c.i < c.i + 1
    BY <1>3 DEF Passed
  <1>6. Holds(c.inode, c.i)
    BY <1>1, <1>2, <1>3, <1>5 DEF Holds
  <1> QED BY <1>1, <1>2, <1>4, <1>6

(* A step changes only the contents of the file that is being written. *)
LEMMA OnlyWritten ==
    ASSUME Basics, Apart, NEW p \in Proc, Enter(p) \/ Inside(p), NEW i \in Inode, ~WritesTo(p, i)
    PROVE  Contents(i)' = Contents(i)
  <1> DEFINE c == call[p]
  <1>1. Types
    BY DEF Basics
  <1>2. CASE UNCHANGED disk
    BY <1>1, <1>2, ContentsSame DEF disk
  <1>3. CASE WriteHead(p)
    <2>1. c.inode # i
      BY <1>3, HeadWritten DEF WritesTo, WritePc
    <2>2. length'[i] = length[i]
      BY <1>1, <1>3, <2>1, HeadWritten DEF Types
    <2>3. data_block_idx' = data_block_idx /\ data' = data
      BY <1>3, HeadWritten
    <2> QED BY <1>1, <2>2, <2>3, ContentsSame
  <1>4. CASE TakeBlock(p)
    <2>1. c.inode # i
      BY <1>4, BlockTaken DEF WritesTo, WritePc
    <2>2. length' = length /\ data' = data
      BY <1>4, BlockTaken
    <2>3. \A k \in 0 .. MaxBlk - 1 : data_block_idx'[i][k] = data_block_idx[i][k]
      <3>1. CASE data_block_idx' = data_block_idx
        BY <3>1
      <3>2. CASE \A j \in Inode, k \in 0 .. MaxBlk - 1 : data_block_idx'[j][k] =
                    IF j = c.inode /\ k = c.i THEN Free_list[Free_list_len] ELSE data_block_idx[j][k]
        BY <2>1, <3>2
      <3> QED BY <1>4, <3>1, <3>2, BlockTaken
    <2> QED BY <1>1, <2>2, <2>3, ContentsSame
  <1>5. CASE Fill(p)
    <2>1. c.pc = "fill" /\ c.inode # i
      BY <1>5, Filling DEF WritesTo, WritePc
    <2>2. length' = length /\ data_block_idx' = data_block_idx /\ \A b \in Block : b # c.reg => data'[b] = data[b]
      BY <1>5, Filling
    <2>3. ASSUME NEW m \in 0 .. MaxBlk - 1, m < CeilDiv(length[i], BlkSize)
          PROVE  data'[data_block_idx[i][m]] = data[data_block_idx[i][m]]
      <3>1. Holds(i, m)
        BY <2>1, <2>3, BlockHeld DEF Holds
      <3>2. data_block_idx[i][m] # c.reg
        BY <2>1, <3>1, BlockHeld DEF Apart
      <3>3. data_block_idx[i][m] \in Block
        BY <1>1, IndexType
      <3> QED BY <2>2, <3>2, <3>3
    <2> QED BY <1>1, <2>2, <2>3, ContentsSame
  <1>6. CASE LoadLen(p) \/ StoreLen(p)
    BY <1>2, <1>6 DEF LoadLen, StoreLen
  <1>7. CASE ~(WriteHead(p) \/ LoadLen(p) \/ StoreLen(p) \/ TakeBlock(p) \/ Fill(p))
    BY <1>2, <1>7, QuietStep
  <1> QED BY <1>3, <1>4, <1>5, <1>6, <1>7

(***************************************************************************)
(* What a file holds changes by a write to this file only (write_data of   *)
(* filesys.c): the block that a write fills is held by its own inode, and  *)
(* no block is held twice.  It needs room for every write, as a write that *)
(* is cut short leaves a length that counts blocks of other files.         *)
(***************************************************************************)
THEOREM WritesKeepApart == ASSUME Orderly, Ample PROVE Spec => Isolation
  <1> DEFINE A == \A i \in Inode : Contents(i)' # Contents(i) => \E p \in Proc : WritesTo(p, i)
             AllRoom == \A p \in Proc : RoomLeft(p)
  <1>1. Basics /\ Apart /\ [Next]_vars => [A]_vars
    <2> SUFFICES ASSUME Basics, Apart, Next PROVE A
      OBVIOUS
    <2>1. PICK p \in Proc : Enter(p) \/ Inside(p)
      BY DEF Next
    <2> QED BY <2>1, OnlyWritten
  <1>2. Spec => [](Apart /\ AllRoom)
    BY AlwaysApart
  <1> HIDE DEF A, AllRoom
  <1>3. Spec => [][A]_vars
    BY <1>1, <1>2, AlwaysBasics, PTL DEF Spec
  <1> QED BY <1>3 DEF A, Isolation

(***************************************************************************)
(* A file written from its start holds what was written (write_data of     *)
(* filesys.c): what was copied is still there and, with room for it, all   *)
(* of the buffer was copied.                                               *)
(***************************************************************************)
THEOREM WholeWriteIsStored == ASSUME Orderly, Ample PROVE Spec => WriteStores
  <1> DEFINE A == \A p \in Proc : At(p, "written") /\ Ended(p) /\ call[p].inode # NoInode
                     /\ call[p].off = 0 => Contents(call[p].inode) = call[p].buf
             AllRoom == \A p \in Proc : RoomLeft(p)
             AllFresh == \A p \in Proc : Fresh(p)
  <1>1. Basics /\ AllRoom /\ AllFresh => A
    <2> SUFFICES ASSUME Basics, NEW p \in Proc, RoomLeft(p), Fresh(p), At(p, "written"),
                        call[p].inode # NoInode, call[p].off = 0
                 PROVE  Contents(call[p].inode) = call[p].buf
      OBVIOUS
    <2> DEFINE c == call[p]
               buf == c.buf
               n == c.n
               byte(k) == ByteOf(c.inode, k)
    <2>1. buf \in Seq(Byte) /\ n \in Nat /\ Len(buf) = n
      BY DEF Basics, Types, Private, Writing, Call, At, WritePc
    <2>2. c.cnt = n /\ length[c.inode] = n
      BY DEF RoomLeft, At
    <2>3. \A k \in 0 .. n - 1 : byte(k) = buf[k + 1]
      BY <2>2 DEF Fresh, At
    <2>4. Contents(c.inode) = [k \in 1 .. n |-> byte(k - 1)]
      BY <2>2 DEF Contents, ByteOf
    <2> HIDE DEF c, buf, n, byte
    <2>5. [k \in 1 .. n |-> byte(k - 1)] = [k \in 1 .. n |-> buf[k]]
      <3>1. \A k \in 1 .. n : k - 1 \in 0 .. n - 1 /\ (k - 1) + 1 = k
        BY <2>1
      <3> QED BY <2>3, <3>1
    <2>6. buf = [k \in 1 .. n |-> buf[k]]
      BY <2>1
    <2>7. Contents(c.inode) = buf
      BY <2>4, <2>5, <2>6
    <2> QED BY <2>7 DEF c, buf
  <1>2. Spec => [](Apart /\ AllRoom)
    BY AlwaysApart
  <1>3. Spec => []AllFresh
    BY AlwaysFresh
  <1> HIDE DEF A, AllRoom, AllFresh
  <1>4. Basics /\ AllRoom /\ AllFresh => [A]_vars
    BY <1>1
  <1>5. Spec => [][A]_vars
    BY <1>2, <1>3, <1>4, AlwaysBasics, PTL
  <1> QED BY <1>5 DEF A, WriteStores

-----------------------------------------------------------------------------
(***************************************************************************)
(* Inodes.  Those of the files are used up, and no two files have the same;*)
(* nor has the file that is being created.                                 *)
(***************************************************************************)
TakingInode == \E p \in Proc : call[p].pc = "take inode"
FreeInode(i) ==
    \/ \E k \in 0 .. Free_inode_list_len - 1 : Free_inode_list[k] = i
    \/ TakingInode /\ Free_inode_list_len >= 0 /\ Free_inode_list[Free_inode_list_len] = i
Pending(p) == call[p].pc \in {"load dentry", "store dentry", "copy dentry"}
InodesApart ==
    /\ \A s, r \in Files : dentry_array[s].inode = dentry_array[r].inode => s = r
    /\ \A s \in Files : ~FreeInode(dentry_array[s].inode)
    /\ \A p \in Proc : Pending(p) =>
          ~FreeInode(call[p].inode) /\ \A s \in Files : dentry_array[s].inode # call[p].inode

LEMMA ListedSlots == ASSUME Types PROVE 0 .. Num_Dentry - 1 \subseteq Slot
  <1>1. Num_Dentry \in Nat /\ Num_Dentry <= MaxDentry
    BY Sizes DEF Types
  <1> QED BY <1>1, Places, Sizes

LEMMA PendingWrites ==
    ASSUME Exclusive, NEW p \in Proc, Writing(p)
    PROVE  /\ \A q \in Proc : Pending(q) => q = p
           /\ \A q \in Proc : call[q].pc = "take inode" => q = p
           /\ \A s : Copying(s) <=> call[p].pc = "copy dentry" /\ call[p].reg = s
  <1>1. \A q \in Proc : Writing(q) => q = p
    BY DEF Exclusive
  <1> QED BY <1>1 DEF Pending, Copying, Writing, CreatePc

(* A step of one process that is not about inodes. *)
LEMMA InodesSame ==
    ASSUME InodesApart, NEW p \in Proc, \A q \in Proc : q # p => call'[q] = call[q],
           UNCHANGED <<directory, Free_inode_list_len>>,
           \A s : (Copying(s) => Copying(s)'),
           call'[p].pc # "take inode" \/ call[p].pc = "take inode",
           Pending(p)' => Pending(p) /\ call'[p].inode = call[p].inode
    PROVE  InodesApart'
  <1>1. Files' \subseteq Files /\ dentry_array' = dentry_array
    BY DEF Files, directory
  <1>2. \A i : FreeInode(i)' => FreeInode(i)
    BY DEF FreeInode, TakingInode
  <1>3. \A q \in Proc : Pending(q)' => Pending(q) /\ call'[q].inode = call[q].inode
    BY DEF Pending
  <1> QED BY <1>1, <1>2, <1>3 DEF InodesApart

(* Where a step of a process may take it. *)
LEMMA EnterPlaces ==
    ASSUME Basics, NEW p \in Proc, Enter(p)
    PROVE  call[p].pc = "user" /\ call'[p].pc \in {"user", "create", "write", "read", "list"}
  <1> DEFINE d == call'[p]
  <1>1. call \in [Proc -> Call] /\ file_array \in [Proc -> [Fd -> Entry]]
    BY DEF Basics, Types
  <1>2. call[p].pc = "user"
    BY DEF Enter, Open, OpenFails, Close, Remove, Restart, Write, Read, Calls, Idle
  <1>3. ASSUME d = InUser PROVE d.pc = "user"
    BY <1>3 DEF InUser
  <1>4. CASE \/ \E name \in Name \cup {DirName} : Open(p, name)
             \/ OpenFails(p) \/ \E fd \in Fd : Close(p, fd)
             \/ \E name \in Name : Remove(p, name)
             \/ Restart(p)
    BY <1>1, <1>2, <1>3, <1>4 DEF Open, OpenFails, Close, Remove, Restart
  <1>5. ASSUME NEW fd \in Fd, NEW n \in Lengths, Write(p, fd, n) PROVE d.pc \in {"user", "create", "write"}
    <2> DEFINE e == file_array[p][fd]
               buf == [k \in 1 .. n |-> <<p, k>>]
               pc == IF e.inode = NoInode THEN "create" ELSE "write"
               f == Entered(pc, fd, buf, e)
    <2>1. d = InUser \/ d = f
      BY <1>1, <1>5 DEF Write
    <2>2. f.pc = pc
      BY DEF Entered, InUser
    <2>3. pc \in {"create", "write"}
      OBVIOUS
    <2> HIDE DEF f, pc, d
    <2> QED BY <1>3, <2>1, <2>2, <2>3 DEF d
  <1>6. ASSUME NEW fd \in Fd, NEW n \in Lengths, Read(p, fd, n) PROVE d.pc \in {"user", "list", "read"}
    <2> DEFINE e == file_array[p][fd]
               pc == IF e.kind = "dir" THEN "list" ELSE "read"
               f == [Entered(pc, fd, <<>>, e) EXCEPT !.n = n]
    <2>1. d = InUser \/ d = f
      BY <1>1, <1>6 DEF Read
    <2>2. f.pc = pc
      BY DEF Entered, InUser
    <2>3. pc \in {"list", "read"}
      OBVIOUS
    <2> HIDE DEF f, pc, d
    <2> QED BY <1>3, <2>1, <2>2, <2>3 DEF d
  <1> QED BY <1>2, <1>4, <1>5, <1>6 DEF Enter

LEMMA WritePlaces ==
    ASSUME Basics, NEW p \in Proc, WriteData(p)
    PROVE  call[p].pc \in WritePc /\ call'[p].pc \in WritePc \cup {"user"}
  <1>1. call \in [Proc -> Call]
    BY DEF Basics, Types
  <1>2. CASE WriteHead(p) \/ LoadLen(p) \/ TakeBlock(p) \/ Fill(p)
    BY <1>2, HeadWritten, LenLoaded, BlockTaken, Filling DEF WritePc
  <1>3. CASE StoreLen(p)
    <2>1. "take block" \in Pc /\ Go(p, "take block") /\ call[p].pc = "store block"
      BY <1>3 DEF Pc, StoreLen, At
    <2>2. call'[p].pc = "take block"
      BY <1>1, <2>1, Gone
    <2> QED BY <2>1, <2>2 DEF WritePc
  <1>4. CASE WriteReturn(p)
    <2>1. call'[p] = InUser /\ call[p].pc = "written"
      BY <1>1, <1>4 DEF WriteReturn, At
    <2> QED BY <2>1 DEF InUser, WritePc
  <1> QED BY <1>2, <1>3, <1>4 DEF WriteData

LEMMA ReadPlaces ==
    ASSUME Basics, NEW p \in Proc, ReadData(p)
    PROVE  /\ call[p].pc \in ReadPc \cup {"list", "list name"}
           /\ call'[p].pc \in {"read byte", "got", "list name", "user"}
           /\ UNCHANGED <<directory, disk, counters>>
  <1>1. call \in [Proc -> Call] /\ UNCHANGED <<directory, disk, counters>>
    BY DEF Basics, Types, ReadData, ReadHead, ReadByte, ReadReturn, ListCheck, ListName
  <1>2. CASE ReadHead(p)
    BY <1>1, <1>2, HeadRead DEF ReadPc
  <1>3. CASE ReadByte(p)
    <2>1. call[p].pc = "read byte" /\ (call'[p].pc = "got" \/ call'[p].pc = call[p].pc)
      BY <1>1, <1>3, ByteRead
    <2> QED BY <1>1, <2>1 DEF ReadPc
  <1>4. CASE ReadReturn(p) \/ ListName(p)
    <2>1. call'[p] = InUser /\ call[p].pc \in {"got", "list name"}
      BY <1>1, <1>4 DEF ReadReturn, ListName, At
    <2>2. InUser.pc = "user"
      BY DEF InUser
    <2> QED BY <1>1, <2>1, <2>2 DEF ReadPc
  <1>5. CASE ListCheck(p)
    <2>1. call[p] \in Call /\ call[p].pc = "list"
      BY <1>1, <1>5 DEF ListCheck, At
    <2> DEFINE c == call[p]
               d == call'[p]
    <2>2. d = InUser \/ d = [c EXCEPT !.pc = "list name"]
      BY <1>1, <1>5 DEF ListCheck
    <2>3. d.pc \in {"user", "list name"}
      <3> HIDE DEF c, d
      <3>1. CASE d = InUser
        BY <3>1 DEF InUser
      <3>2. CASE d = [c EXCEPT !.pc = "list name"]
        BY <2>1, <3>2 DEF Call, c
      <3> QED BY <2>2, <3>1, <3>2
    <2> QED BY <1>1, <2>1, <2>3
  <1> QED BY <1>2, <1>3, <1>4, <1>5 DEF ReadData

(* A step that leaves the list of inodes and the directory alone. *)
LEMMA InodesQuiet ==
    ASSUME Basics, Orderly, InodesApart, NEW p \in Proc, Enter(p) \/ Inside(p),
           ~(\E name \in Name : Remove(p, name)),
           ~(StoreInodeLen(p) \/ TakeInode(p) \/ StoreNumDentry(p) \/ CopyDentry(p))
    PROVE  InodesApart'
  <1> DEFINE c == call[p]
             d == call'[p]
  <1>1. \A q \in Proc : q # p => call'[q] = call[q]
    BY OthersKept DEF Basics
  <1>2. /\ UNCHANGED <<directory, Free_inode_list_len>>
        /\ c.pc # "copy dentry" /\ d.pc # "take inode"
        /\ Pending(p)' => Pending(p) /\ d.inode = c.inode
    <2>1. CASE Enter(p)
      <3>1. UNCHANGED <<directory, Free_inode_list_len>>
        BY <2>1 DEF Enter, Open, OpenFails, Close, Restart, Write, Read, counters
      <3> QED BY <2>1, <3>1, EnterPlaces DEF Pending
    <2>2. CASE WriteData(p)
      <3>1. UNCHANGED <<directory, Free_inode_list_len>>
        BY <2>2 DEF WriteData, WriteHead, LoadLen, StoreLen, TakeBlock, Fill, WriteReturn, counters
      <3> QED BY <2>2, <3>1, WritePlaces DEF Pending, WritePc
    <2>3. CASE ReadData(p)
      BY <2>3, ReadPlaces DEF Pending, ReadPc, counters
    <2>4. CASE CreateCheck(p)
      <3>1. UNCHANGED <<directory, Free_inode_list_len>> /\ c \in Call /\ c.pc = "create" /\ call \in [Proc -> Call]
        BY <2>4 DEF CreateCheck, At, Basics, Types, counters
      <3>2. \/ d = [c EXCEPT !.inode = NoInode, !.pc = "write"]
            \/ d = [c EXCEPT !.pc = "load inode"]
        BY <2>4, <3>1 DEF CreateCheck, Created, Go
      <3>3. d.pc \in {"write", "load inode"}
        <4> HIDE DEF c, d
        <4> QED BY <3>1, <3>2 DEF Call
      <3> QED BY <3>1, <3>3 DEF Pending
    <2>5. CASE LoadInodeLen(p)
      <3>1. UNCHANGED <<directory, Free_inode_list_len>> /\ c \in Call /\ c.pc = "load inode" /\ call \in [Proc -> Call]
        BY <2>5 DEF LoadInodeLen, At, Basics, Types, counters
      <3>2. d = [c EXCEPT !.reg = Free_inode_list_len, !.pc = "store inode"]
        BY <2>5, <3>1 DEF LoadInodeLen
      <3>3. d.pc = "store inode"
        <4> HIDE DEF c, d
        <4> QED BY <3>1, <3>2 DEF Call
      <3> QED BY <3>1, <3>3 DEF Pending
    <2>6. CASE LoadNumDentry(p)
      <3>1. UNCHANGED <<directory, Free_inode_list_len>> /\ c \in Call /\ c.pc = "load dentry" /\ call \in [Proc -> Call]
        BY <2>6 DEF LoadNumDentry, At, Basics, Types, counters
      <3>2. d = [c EXCEPT !.reg = Num_Dentry, !.pc = "store dentry"]
        BY <2>6, <3>1 DEF LoadNumDentry
      <3>3. d.pc = "store dentry" /\ d.inode = c.inode
        <4> HIDE DEF c, d
        <4> QED BY <3>1, <3>2 DEF Call
      <3> QED BY <3>1, <3>3 DEF Pending
    <2> QED BY <2>1, <2>2, <2>3, <2>4, <2>5, <2>6 DEF Inside, Create
  <1>3. \A s : Copying(s) => Copying(s)'
    BY <1>1, <1>2 DEF Copying
  <1> QED BY <1>1, <1>2, <1>3, InodesSame

LEMMA InodesShorter ==
    ASSUME Basics, Orderly, InodesApart, NEW p \in Proc, StoreInodeLen(p)
    PROVE  InodesApart'
  <1> DEFINE len == Free_inode_list_len
  <1>1. \A q \in Proc : q # p => call'[q] = call[q]
    BY OthersKept DEF Basics, Inside, Create
  <1>2. /\ call[p].pc = "store inode" /\ call[p].reg = len /\ len \in Int /\ len' = len - 1
        /\ UNCHANGED directory /\ Go(p, "take inode") /\ call \in [Proc -> Call]
    BY DEF StoreInodeLen, At, Basics, Types, Working
  <1>3. call'[p].pc = "take inode"
    BY <1>2, Gone DEF Pc
  <1>4. Files' \subseteq Files /\ dentry_array' = dentry_array
    BY <1>1, <1>2, <1>3 DEF Files, directory, Copying
  <1>5. \A i : FreeInode(i)' => FreeInode(i)
    <2>1. len \in Int /\ len' = len - 1
      BY <1>2
    <2>2. (\A k \in 0 .. len' - 1 : k \in 0 .. len - 1) /\ (len' >= 0 => len' \in 0 .. len - 1)
      BY <2>1
    <2> QED BY <2>2 DEF FreeInode
  <1>6. \A q \in Proc : Pending(q)' => Pending(q) /\ call'[q].inode = call[q].inode
    BY <1>1, <1>3 DEF Pending
  <1> QED BY <1>4, <1>5, <1>6 DEF InodesApart

LEMMA InodeTaken ==
    ASSUME Basics, Orderly, InodesApart, NEW p \in Proc, TakeInode(p)
    PROVE  InodesApart'
  <1> DEFINE len == Free_inode_list_len
             c == call[p]
             d == call'[p]
  <1>1. \A q \in Proc : q # p => call'[q] = call[q]
    BY OthersKept DEF Basics, Inside, Create
  <1>2. /\ c.pc = "take inode" /\ len \in Int /\ len < FreeInodes /\ UNCHANGED <<directory, counters>>
        /\ c \in Call /\ call \in [Proc -> Call] /\ Writing(p) /\ Exclusive
    BY DEF TakeInode, At, Basics, Types, Working, Writing, CreatePc
  <1>3. /\ \A q \in Proc : Pending(q) => q = p
        /\ \A q \in Proc : call[q].pc = "take inode" => q = p
        /\ \A s : ~Copying(s)
    BY <1>2, PendingWrites
  <1>4. /\ d.pc \in {"write", "load dentry"}
        /\ d.pc = "load dentry" => len >= 0 /\ d.inode = Free_inode_list[len]
    <2>1. CASE len < 0
      <3>1. d = [c EXCEPT !.inode = NoInode, !.pc = "write"]
        BY <1>2, <2>1 DEF TakeInode, Created
      <3> HIDE DEF c, d
      <3> QED BY <1>2, <3>1 DEF Call
    <2>2. CASE ~(len < 0)
      <3> DEFINE x == Free_inode_list[len]
      <3>1. d = [c EXCEPT !.inode = x, !.pc = "load dentry"]
        BY <1>2, <2>2 DEF TakeInode, Popped
      <3>2. d.pc = "load dentry" /\ d.inode = x
        <4> HIDE DEF c, d, x
        <4> QED BY <1>2, <3>1 DEF Call
      <3>3. len \in Int
        BY <1>2
      <3>4. len >= 0
        BY <2>2, <3>3
      <3> QED BY <3>2, <3>4
    <2> QED BY <2>1, <2>2
  <1>5. dentry_array' = dentry_array /\ len' = len /\ Files' \subseteq Files
    BY <1>2, <1>3 DEF Files, directory, counters
  <1>6. ~TakingInode'
    BY <1>1, <1>3, <1>4 DEF TakingInode
  <1>7. \A i : FreeInode(i)' => FreeInode(i)
    BY <1>5, <1>6 DEF FreeInode
  <1>8. \A q \in Proc : Pending(q)' => q = p /\ d.pc = "load dentry"
    BY <1>1, <1>3, <1>4 DEF Pending
  <1>9. ASSUME d.pc = "load dentry", NEW x, x = Free_inode_list[len]
        PROVE  FreeInode(x) /\ ~FreeInode(x)'
    <2>1. FreeInode(x)
      BY <1>2, <1>4, <1>9 DEF FreeInode, TakingInode
    <2>2. \A k \in 0 .. len - 1 : Free_inode_list[k] # x
      <3>a. len \in Int /\ len < FreeInodes /\ len >= 0 /\ FreeInodes \in Nat
        BY <1>2, <1>4, <1>9, Lists
      <3>1. len \in 0 .. FreeInodes - 1
        BY <3>a
      <3>2. \A k \in 0 .. len - 1 : k \in 0 .. FreeInodes - 1 /\ k # len
        BY <3>1, Lists
      <3> QED BY <1>9, <3>1, <3>2, Lists
    <2> QED BY <1>5, <1>6, <2>1, <2>2 DEF FreeInode
  <1>10. ASSUME NEW q \in Proc, Pending(q)'
         PROVE  /\ \A x : x = call'[q].inode => ~FreeInode(x)'
                /\ \A s \in Files' : dentry_array'[s].inode # call'[q].inode
    <2>1. q = p /\ d.pc = "load dentry" /\ d.inode = Free_inode_list[len]
      BY <1>4, <1>8, <1>10
    <2>2. \A x : x = d.inode => FreeInode(x) /\ ~FreeInode(x)'
      BY <1>9, <2>1
    <2> QED BY <1>5, <2>1, <2>2 DEF InodesApart
  <1>11. /\ \A s, r \in Files' : dentry_array'[s].inode = dentry_array'[r].inode => s = r
         /\ \A s \in Files' : \A x : x = dentry_array'[s].inode => ~FreeInode(x)'
    BY <1>5, <1>7 DEF InodesApart
  <1> QED BY <1>10, <1>11 DEF InodesApart

LEMMA EntryAdded ==
    ASSUME Basics, Orderly, InodesApart, NEW p \in Proc, StoreNumDentry(p)
    PROVE  InodesApart'
  <1> DEFINE c == call[p]
             d == call'[p]
             n == Num_Dentry
  <1>1. \A q \in Proc : q # p => call'[q] = call[q]
    BY OthersKept DEF Basics, Inside, Create
  <1>a. n \in Nat
    BY DEF Basics, Types
  <1>b. c.pc = "store dentry" /\ c.reg = n
    BY DEF StoreNumDentry, At, Basics, Working
  <1>2. /\ c.pc = "store dentry" /\ c.reg = n /\ n \in Nat /\ n' = n + 1
        /\ UNCHANGED <<dentry_array, counters>> /\ Go(p, "copy dentry") /\ call \in [Proc -> Call]
        /\ Writing(p) /\ Exclusive
    BY <1>a, <1>b DEF StoreNumDentry, Basics, Types, Writing, CreatePc, counters
  <1>3. d.pc = "copy dentry" /\ d.reg = c.reg /\ d.inode = c.inode
    BY <1>2, Gone DEF Pc
  <1>4. \A s : ~Copying(s)
    <2>1. c.pc # "copy dentry"
      BY <1>2
    <2> QED BY <1>2, <2>1, PendingWrites
  <1>5. \A s \in Files' : s # n
    BY <1>2, <1>3 DEF Files, Copying
  <1>6. Files' \subseteq Files
    <2>a. n \in Nat /\ n' = n + 1
      BY <1>2
    <2>1. \A s \in 0 .. n' - 1 : s # n => s \in 0 .. n - 1
      BY <2>a
    <2>2. \A s \in Files' : s \in 0 .. n' - 1 /\ dentry_array[s].name \in Name
      BY <1>2 DEF Files
    <2> QED BY <1>4, <1>5, <2>1, <2>2 DEF Files
  <1>7. \A i : FreeInode(i)' => FreeInode(i)
    BY <1>1, <1>2, <1>3 DEF FreeInode, TakingInode, counters
  <1>8. \A q \in Proc : Pending(q)' => Pending(q) /\ call'[q].inode = call[q].inode
    BY <1>1, <1>2, <1>3 DEF Pending
  <1> QED BY <1>2, <1>6, <1>7, <1>8 DEF InodesApart

LEMMA EntryCopied ==
    ASSUME Basics, Orderly, InodesApart, NEW p \in Proc, CopyDentry(p)
    PROVE  InodesApart'
  <1> DEFINE c == call[p]
             d == call'[p]
             n == Num_Dentry
  <1>1. \A q \in Proc : q # p => call'[q] = call[q]
    BY OthersKept DEF Basics, Inside, Create
  <1>a. n \in Nat
    BY DEF Basics, Types
  <1>b. c.pc = "copy dentry" /\ c.reg = n - 1 /\ c.inode \in Inode
    BY DEF CopyDentry, At, Basics, Working, Private
  <1>2. /\ c.pc = "copy dentry" /\ c.reg = n - 1 /\ n \in Nat /\ n' = n /\ c \in Call
        /\ UNCHANGED counters /\ call \in [Proc -> Call] /\ Writing(p) /\ Exclusive
        /\ dentry_array \in [Slot -> Dentry] /\ c.inode \in Inode
    BY <1>a, <1>b DEF CopyDentry, Basics, Types, Writing, CreatePc
  <1>3. d.pc = "write"
    <2>1. d = [c EXCEPT !.inode = c.inode, !.pc = "write"]
      BY <1>2 DEF CopyDentry, Created
    <2> HIDE DEF c, d
    <2> QED BY <1>2, <2>1 DEF Call
  <1>4. \A s \in Slot : s # c.reg => dentry_array'[s] = dentry_array[s]
    BY <1>2 DEF CopyDentry
  <1>5. \A s : s = c.reg /\ s \in Slot => dentry_array'[s].inode = c.inode
    BY <1>2 DEF CopyDentry
  <1>6. \A s : Copying(s) => s = c.reg
    BY <1>2, PendingWrites
  <1>7. \A s \in Files' : s \in Slot /\ (s # c.reg => s \in Files)
    <2>1. \A s \in Files' : s \in 0 .. n - 1 /\ dentry_array'[s].name \in Name
      BY <1>2 DEF Files
    <2>2. 0 .. n - 1 \subseteq Slot
      BY ListedSlots DEF Basics
    <2> QED BY <1>4, <1>6, <2>1, <2>2 DEF Files
  <1>8. \A q \in Proc : ~Pending(q)'
    BY <1>1, <1>2, <1>3, PendingWrites DEF Pending
  <1>9. \A i : FreeInode(i)' => FreeInode(i)
    BY <1>1, <1>2, <1>3 DEF FreeInode, TakingInode, counters
  <1>10. ~FreeInode(c.inode) /\ \A s \in Files : dentry_array[s].inode # c.inode
    BY <1>2 DEF InodesApart, Pending
  <1>11. \A s \in Files' : dentry_array'[s].inode = IF s = c.reg THEN c.inode ELSE dentry_array[s].inode
    BY <1>4, <1>5, <1>7
  <1>12. \A s, r \in Files' : dentry_array'[s].inode = dentry_array'[r].inode => s = r
    <2> SUFFICES ASSUME NEW s \in Files', NEW r \in Files', dentry_array'[s].inode = dentry_array'[r].inode
                 PROVE  s = r
      OBVIOUS
    <2>1. CASE s = c.reg \/ r = c.reg
      BY <1>7, <1>10, <1>11, <2>1
    <2>2. CASE s # c.reg /\ r # c.reg
      BY <1>7, <1>11, <2>2 DEF InodesApart
    <2> QED BY <2>1, <2>2
  <1>13. \A s \in Files' : \A x : x = dentry_array'[s].inode => ~FreeInode(x)'
    <2> SUFFICES ASSUME NEW s \in Files', NEW x, x = dentry_array'[s].inode PROVE ~FreeInode(x)'
      OBVIOUS
    <2>1. CASE s = c.reg
      BY <1>9, <1>10, <1>11, <2>1
    <2>2. CASE s # c.reg
      BY <1>7, <1>9, <1>11, <2>2 DEF InodesApart
    <2> QED BY <2>1, <2>2
  <1> QED BY <1>8, <1>12, <1>13 DEF InodesApart

LEMMA RemovedAlone ==
    ASSUME Basics, Orderly, NEW p \in Proc, NEW name, Remove(p, name)
    PROVE  \A q \in Proc : ~Writing(q)
  <1> SUFFICES ASSUME NEW q \in Proc, Writing(q) PROVE FALSE
    OBVIOUS
  <1>1. ~Idle(q) /\ "write" \in May[q]
    BY DEF Writing, Idle, CreatePc, WritePc, Basics, Exclusive
  <1>2. Idle(p) /\ "remove" \in May[p] /\ ~Serial
    BY <1>1 DEF Remove, Calls, Alone
  <1> QED BY <1>1, <1>2 DEF Orderly

LEMMA EntryRemoved ==
    ASSUME Basics, Orderly, InodesApart, NEW p \in Proc, NEW name \in Name, Remove(p, name)
    PROVE  InodesApart'
  <1> DEFINE n == Num_Dentry
  <1>1. /\ \A q \in Proc : q # p => call'[q] = call[q]
        /\ call'[p] = InUser /\ call[p].pc = "user" /\ n \in Nat /\ n' = n - 1 /\ UNCHANGED counters
    <2>1. Enter(p)
      BY DEF Enter
    <2>2. call \in [Proc -> Call] /\ n \in Nat
      BY DEF Basics, Types
    <2> QED BY <2>1, <2>2, OthersKept DEF Basics, Remove, Calls, Idle
  <1>2. \A q \in Proc : ~Writing(q)
    BY RemovedAlone
  <1>3. \A q \in Proc : ~Writing(q)'
    <2>1. InUser.pc = "user"
      BY DEF InUser
    <2> QED BY <1>1, <1>2, <2>1 DEF Writing, CreatePc, WritePc
  <1>4. (\A s : ~Copying(s)) /\ \A q \in Proc : ~Pending(q)
    BY <1>2 DEF Copying, Pending, Writing, CreatePc
  <1>5. (\A s : ~Copying(s)') /\ (\A q \in Proc : ~Pending(q)') /\ ~TakingInode'
    BY <1>3 DEF Copying, Pending, Writing, CreatePc, TakingInode
  <1>6. \A i : FreeInode(i)' => FreeInode(i)
    BY <1>1, <1>5 DEF FreeInode, counters
  <1>7. PICK t \in 0 .. n - 1 : dentry_array' = ShiftedFrom(t)
    BY DEF Remove
  <1> DEFINE Was(s) == IF s \in t .. n - 2 THEN s + 1 ELSE s
  <1>8. \A s \in 0 .. n' - 1 : dentry_array'[s] = dentry_array[Was(s)]
    <2>1. 0 .. n - 1 \subseteq Slot
      BY ListedSlots DEF Basics
    <2>2. \A s \in 0 .. n' - 1 : s \in 0 .. n - 1
      BY <1>1
    <2> QED BY <1>7, <2>1, <2>2 DEF ShiftedFrom
  <1>9. \A s \in 0 .. n' - 1 : Was(s) \in 0 .. n - 1
    BY <1>1
  <1>10. \A s, r \in 0 .. n' - 1 : Was(s) = Was(r) => s = r
    BY <1>1
  <1> HIDE DEF Was
  <1>11. \A s \in Files' : s \in 0 .. n' - 1 /\ Was(s) \in Files /\ dentry_array'[s].inode = dentry_array[Was(s)].inode
    BY <1>4, <1>8, <1>9 DEF Files
  <1>12. \A s, r \in Files' : dentry_array'[s].inode = dentry_array'[r].inode => s = r
    BY <1>10, <1>11 DEF InodesApart
  <1>13. \A s \in Files' : \A x : x = dentry_array'[s].inode => ~FreeInode(x)'
    BY <1>6, <1>11 DEF InodesApart
  <1> QED BY <1>5, <1>12, <1>13 DEF InodesApart

LEMMA InodesNext == ASSUME Basics, Orderly, Next, InodesApart PROVE InodesApart'
  <1>1. PICK p \in Proc : Enter(p) \/ Inside(p)
    BY DEF Next
  <1> QED BY <1>1, InodesQuiet, InodesShorter, InodeTaken, EntryAdded, EntryCopied, EntryRemoved

LEMMA InodesStutter == ASSUME UNCHANGED vars, InodesApart PROVE InodesApart'
  <1>1. UNCHANGED <<dentry_array, Num_Dentry, Free_inode_list_len, call>>
    BY DEF vars, directory, counters
  <1>2. \A i : FreeInode(i)' <=> FreeInode(i)
    BY <1>1 DEF FreeInode, TakingInode
  <1>3. Files' = Files /\ \A p \in Proc : Pending(p)' <=> Pending(p)
    BY <1>1 DEF Files, Copying, Pending
  <1> QED BY <1>1, <1>2, <1>3 DEF InodesApart

LEMMA InodesInit == ASSUME Init PROVE InodesApart
  <1>1. \A p \in Proc : call[p].pc = "user"
    BY DEF Init, InUser
  <1>2. ~TakingInode /\ \A p \in Proc : ~Pending(p)
    BY <1>1 DEF TakingInode, Pending
  <1>3. Free_inode_list_len = FreeInodes
    BY DEF Init, FreeInodes, EmptyInodes
  <1>4. \A i \in OldInode : ~FreeInode(i)
    <2>1. \A i \in OldInode : i \notin EmptyInodes
      BY DEF EmptyInodes, OldLength
    <2> QED BY <1>2, <1>3, <2>1, Lists DEF FreeInode
  <1>5. \A s \in Files : s \in OldInode /\ dentry_array[s].inode = s
    <2>1. \A s \in Files : s \in Slot /\ dentry_array[s].name \in Name
      <3>1. Types
        BY BasicsInit DEF Basics
      <3> QED BY <3>1, ListedSlots DEF Files
    <2> QED BY <2>1, Places DEF Init
  <1> QED BY <1>2, <1>4, <1>5 DEF InodesApart

LEMMA AlwaysInodesApart == ASSUME Orderly PROVE Spec => []InodesApart
  <1>1. Init => InodesApart
    BY InodesInit
  <1>2. Basics /\ InodesApart /\ [Next]_vars => InodesApart'
    BY InodesNext, InodesStutter
  <1> QED BY <1>1, <1>2, AlwaysBasics, PTL DEF Spec

(***************************************************************************)
(* While nobody writes, no block belongs to two files or twice to one, and *)
(* none can still be given out (get_free_block_index and write_data of     *)
(* filesys.c), for any number and size of blocks, if there is room for     *)
(* every write that starts; different files have different inodes.         *)
(***************************************************************************)
THEOREM NoSharing == ASSUME Orderly, Ample PROVE Spec => []NoAliasing
  <1> DEFINE AllRoom == \A p \in Proc : RoomLeft(p)
  <1>1. Basics /\ Apart /\ InodesApart => NoAliasing
    <2> SUFFICES ASSUME Basics, Apart, InodesApart PROVE NoAliasing
      OBVIOUS
    <2>1. \A s, r \in Files : s # r => dentry_array[s].inode # dentry_array[r].inode
      BY DEF InodesApart
    <2> SUFFICES ASSUME Quiescent
                 PROVE  /\ \A i, j \in Inode : i # j => Blocks(i) \cap Blocks(j) = {}
                        /\ \A i \in Inode : Cardinality(Blocks(i)) = CeilDiv(length[i], BlkSize)
                        /\ \A i \in Inode, k \in 0 .. Free_list_len - 1 : Free_list[k] \notin Blocks(i)
      BY <2>1 DEF NoAliasing
    <2> DEFINE n(i) == CeilDiv(length[i], BlkSize)
    <2>2. ASSUME NEW i \in Inode, NEW k \in 0 .. n(i) - 1
          PROVE  n(i) \in Nat /\ k \in 0 .. MaxBlk - 1 /\ Holds(i, k)
      <3>1. length[i] \in Nat /\ n(i) <= MaxBlk
        BY DEF Basics, Types
      <3>2. n(i) \in Nat
        BY <3>1, BlocksOf
      <3>3. k \in 0 .. MaxBlk - 1 /\ k < n(i)
        <4> DEFINE m == n(i)
        <4>1. m \in Nat /\ m <= MaxBlk /\ k \in 0 .. m - 1
          BY <3>1, <3>2
        <4> HIDE DEF m
        <4>2. k \in 0 .. MaxBlk - 1 /\ k < m
          BY <4>1, Sizes
        <4> QED BY <4>2 DEF m
      <3>4. \A p \in Proc : call[p].pc \notin BlockPc
        BY DEF Quiescent, WritePc, BlockPc
      <3> QED BY <3>2, <3>3, <3>4 DEF Holds
    <2>3. \A i \in Inode : n(i) \in Nat
      <3>1. \A i \in Inode : length[i] \in Nat
        BY DEF Basics, Types
      <3> QED BY <3>1, BlocksOf
    <2>4. \A i, j \in Inode : i # j => Blocks(i) \cap Blocks(j) = {}
      BY <2>2 DEF Apart, Blocks
    <2>5. \A i \in Inode, k \in 0 .. Free_list_len - 1 : Free_list[k] \notin Blocks(i)
      BY <2>2 DEF Apart, Blocks, Free
    <2>6. ASSUME NEW i \in Inode PROVE Cardinality(Blocks(i)) = n(i)
      <3> DEFINE f == data_block_idx[i]
                 m == n(i)
      <3>1. m \in Nat /\ \A k, l \in 0 .. m - 1 : k # l => f[k] # f[l]
        BY <2>2, <2>3 DEF Apart
      <3>2. PICK g : g = f
        OBVIOUS
      <3>3. PICK a : a = m
        OBVIOUS
      <3>4. a \in Nat /\ \A k, l \in 0 .. a - 1 : k # l => g[k] # g[l]
        BY <3>1, <3>2, <3>3
      <3>5. Blocks(i) = {g[k] : k \in 0 .. a - 1}
        BY <3>2, <3>3 DEF Blocks
      <3> HIDE DEF f, m
      <3>6. Cardinality({g[k] : k \in 0 .. a - 1}) = a
        BY <3>4, ImageSize
      <3> QED BY <3>3, <3>5, <3>6 DEF m
    <2> QED BY <2>4, <2>5, <2>6
  <1>2. Spec => [](Apart /\ AllRoom)
    BY AlwaysApart
  <1> HIDE DEF AllRoom
  <1> QED BY <1>1, <1>2, AlwaysBasics, AlwaysInodesApart, PTL

-----------------------------------------------------------------------------
(***************************************************************************)
(* Reading, when calls do not overlap.  The bytes got are those of the     *)
(* inode from the position on, and the loop is at the next one.            *)
(***************************************************************************)
Reading(p) ==
    LET c == call[p]
        at == c.off + Len(c.got)
    IN
    /\ c.pc = "read" => c.got = <<>>
    /\ c.pc \in {"read byte", "got"} => Len(c.got) <= c.n
          /\ \A t \in 1 .. Len(c.got) : c.got[t] = ByteOf(c.inode, c.off + t - 1)
    /\ c.pc = "read byte" => at <= length[c.inode] /\ at = BlkSize * c.cnt + c.i
    /\ c.pc = "read byte" /\ c.cnt < MaxBlk => c.reg = data_block_idx[c.inode][c.cnt]
    /\ c.pc = "got" => \/ c.off > length[c.inode] /\ c.got = <<>>
                       \/ at <= length[c.inode] /\ (Len(c.got) = c.n \/ at = length[c.inode])

(* Nobody else changes the disk while a process is in a call. *)
LEMMA ReadingOthers ==
    ASSUME Basics, Orderly, Serial, NEW p \in Proc, Enter(p) \/ Inside(p),
           NEW q \in Proc, q # p, Reading(q)
    PROVE  Reading(q)'
  <1>1. call'[q] = call[q]
    BY OthersKept DEF Basics
  <1>2. CASE Idle(q)
    BY <1>1, <1>2 DEF Idle, Reading
  <1>3. CASE ~Idle(q)
    <2>1. Idle(p)
      BY <1>3 DEF Basics, Exclusive
    <2>2. ~Inside(p)
      BY <2>1, CreatePlaces, WritePlaces, ReadPlaces DEF Inside, Idle, CreatePc, WritePc, ReadPc
    <2>3. UNCHANGED disk
      <3>1. ~Alone
        BY <1>3 DEF Alone
      <3> QED BY <2>2, <3>1 DEF Enter, Open, OpenFails, Close, Remove, Restart, Write, Read
    <2>4. \A i, k : ByteOf(i, k)' = ByteOf(i, k)
      BY <2>3 DEF ByteOf, disk
    <2> QED BY <1>1, <2>3, <2>4 DEF Reading, disk
  <1> QED BY <1>2, <1>3

LEMMA ReadingEntered ==
    ASSUME Basics, NEW p \in Proc, Enter(p) PROVE Reading(p)'
  <1> DEFINE d == call'[p]
  <1>1. call \in [Proc -> Call] /\ file_array \in [Proc -> [Fd -> Entry]]
    BY DEF Basics, Types
  <1>2. d.pc \in {"user", "create", "write", "read", "list"}
    BY EnterPlaces
  <1>3. ASSUME d.pc = "read" PROVE d.got = <<>>
    <2>1. InUser.pc = "user"
      BY DEF InUser
    <2>2. d # InUser
      BY <1>3, <2>1
    <2>3. CASE \E fd \in Fd, n \in Lengths : Write(p, fd, n)
      <3>1. PICK fd \in Fd, n \in Lengths : Write(p, fd, n)
        BY <2>3
      <3> DEFINE e == file_array[p][fd]
                 buf == [k \in 1 .. n |-> <<p, k>>]
                 pc == IF e.inode = NoInode THEN "create" ELSE "write"
                 f == Entered(pc, fd, buf, e)
      <3>2. d = InUser \/ d = f
        BY <1>1, <3>1 DEF Write
      <3>3. f.pc = pc
        BY DEF Entered, InUser
      <3>4. pc # "read"
        OBVIOUS
      <3> HIDE DEF f, pc, d
      <3> QED BY <1>3, <2>2, <3>2, <3>3, <3>4 DEF d
    <2>4. CASE \E fd \in Fd, n \in Lengths : Read(p, fd, n)
      <3>1. PICK fd \in Fd, n \in Lengths : Read(p, fd, n)
        BY <2>4
      <3> DEFINE e == file_array[p][fd]
                 pc == IF e.kind = "dir" THEN "list" ELSE "read"
                 f == [Entered(pc, fd, <<>>, e) EXCEPT !.n = n]
      <3>2. d = InUser \/ d = f
        BY <1>1, <3>1 DEF Read
      <3>3. f.got = <<>>
        BY DEF Entered, InUser
      <3> QED BY <2>2, <3>2, <3>3
    <2>5. CASE ~(\E fd \in Fd, n \in Lengths : Write(p, fd, n) \/ Read(p, fd, n))
      <3>1. d = InUser
        BY <1>1, <2>5 DEF Enter, Open, OpenFails, Close, Remove, Restart
      <3> QED BY <2>2, <3>1
    <2> QED BY <2>3, <2>4, <2>5
  <1> QED BY <1>2, <1>3 DEF Reading

LEMMA ReadingHead ==
    ASSUME Basics, NEW p \in Proc, ReadHead(p), Reading(p) PROVE Reading(p)'
  <1> DEFINE c == call[p]
             d == call'[p]
             off == c.off
             k == off \div BlkSize
  <1>1. c \in Call /\ off \in Nat /\ c.n \in Nat
    BY DEF Basics, Types, Call
  <1>2. /\ c.pc = "read" /\ UNCHANGED disk /\ d.n = c.n /\ d.inode = c.inode /\ d.off = off /\ d.got = c.got
        /\ \/ off > length[c.inode] /\ d.pc = "got"
           \/ /\ off <= length[c.inode] /\ d.pc = "read byte" /\ d.cnt = k /\ d.i = (off % BlkSize)
              /\ k < MaxBlk => d.reg = data_block_idx[c.inode][k]
    BY HeadRead
  <1>3. d.got = <<>> /\ Len(d.got) = 0
    <2>1. c.got = <<>>
      BY <1>2 DEF Reading
    <2>2. Len(<<>>) = 0
      OBVIOUS
    <2> QED BY <1>2, <2>1, <2>2
  <1>4. off = BlkSize * k + (off % BlkSize)
    BY <1>1, Divided
  <1>a. d.n \in Nat /\ d.off \in Nat
    BY <1>1, <1>2
  <1>5. Len(d.got) <= d.n /\ d.off + Len(d.got) = d.off /\ \A t \in 1 .. Len(d.got) : FALSE
    <2> DEFINE m == Len(d.got)
    <2>1. m = 0
      BY <1>3
    <2> HIDE DEF m, d
    <2> QED BY <1>a, <2>1 DEF m
  <1>6. d.off + Len(d.got) = off
    BY <1>2, <1>5
  <1>7. length' = length /\ data_block_idx' = data_block_idx
    BY <1>2 DEF disk
  <1>8. CASE off > length[c.inode] /\ d.pc = "got"
    BY <1>2, <1>3, <1>5, <1>7, <1>8 DEF Reading
  <1>9. CASE /\ off <= length[c.inode] /\ d.pc = "read byte" /\ d.cnt = k /\ d.i = (off % BlkSize)
             /\ k < MaxBlk => d.reg = data_block_idx[c.inode][k]
    <2>1. d.off + Len(d.got) = BlkSize * d.cnt + d.i
      BY <1>4, <1>6, <1>9
    <2>2. d.off + Len(d.got) <= length[d.inode]
      BY <1>2, <1>6, <1>9
    <2> HIDE DEF d
    <2> QED BY <1>2, <1>5, <1>7, <1>9, <2>1, <2>2 DEF Reading, d
  <1> QED BY <1>2, <1>8, <1>9

LEMMA ReadingTurn ==
    ASSUME Basics, NEW p \in Proc, ReadByte(p), Reading(p) PROVE Reading(p)'
  <1> DEFINE c == call[p]
             d == call'[p]
             len == Len(c.got)
             at == c.off + len
             q == NextIndex(c)
             j == ByteThere(c)
             x == data[BlockThere(c)][j]
             size == length[c.inode]
  <1>1. c \in Call /\ c.pc = "read byte" /\ c.inode \in Inode /\ UNCHANGED disk
    BY DEF Basics, Types, ReadByte, At, Private, ReadPc
  <1>2. c.off \in Nat /\ c.n \in Nat /\ c.got \in Seq(Byte) /\ len \in Nat /\ size \in Nat
    <2>1. c.off \in Nat /\ c.n \in Nat /\ c.got \in Seq(Byte)
      BY <1>1 DEF Call
    <2>2. len \in Nat
      BY <2>1
    <2>3. size \in Nat
      BY <1>1 DEF Basics, Types
    <2> QED BY <2>1, <2>2, <2>3
  <1>3. q \in Nat /\ j \in 0 .. BlkSize - 1
    BY TurnPlaces
  <1>4. len <= c.n /\ at <= size /\ at = BlkSize * c.cnt + c.i /\ (c.cnt < MaxBlk => c.reg = data_block_idx[c.inode][c.cnt])
    BY <1>1 DEF Reading
  <1>5. c.cnt \in Nat /\ c.i \in Nat
    BY <1>1 DEF Basics, Private, Call
  <1>6. at = BlkSize * q + j
    <2> DEFINE k == c.cnt
               i == c.i
    <2>1. k \in Nat /\ i \in Nat /\ at = BlkSize * k + i
      BY <1>4, <1>5
    <2>2. \/ i = BlkSize /\ q = k + 1 /\ j = 0
          \/ q = k /\ j = i
      BY DEF NextIndex, ByteThere
    <2> HIDE DEF k, i, q, j, at
    <2>3. CASE i = BlkSize /\ q = k + 1 /\ j = 0
      <3>1. BlkSize * (k + 1) = BlkSize * k + BlkSize
        BY <2>1, Sizes
      <3> QED BY <2>1, <2>3, <3>1, Sizes
    <2> QED BY <2>1, <2>2, <2>3
  <1>7. at \div BlkSize = q /\ (at % BlkSize) = j
    <2> HIDE DEF q, j, at
    <2> QED BY <1>3, <1>6, BlockAndByte
  <1>8. q < MaxBlk => x = ByteOf(c.inode, at)
    <2>1. q < MaxBlk => BlockThere(c) = data_block_idx[c.inode][q]
      BY <1>4 DEF BlockThere, NextIndex
    <2> HIDE DEF q, j, at
    <2> QED BY <1>7, <2>1 DEF ByteOf
  <1>9. length' = length /\ data_block_idx' = data_block_idx /\ data' = data
    BY <1>1 DEF disk
  <1>10. /\ d.n = c.n /\ d.inode = c.inode /\ d.off = c.off
         /\ \/ Finished(c) /\ d.pc = "got" /\ d.got = c.got
            \/ /\ ~Finished(c) /\ d.pc = "read byte" /\ d.cnt = q /\ d.reg = BlockThere(c) /\ d.i = j + 1
               /\ d.got = Append(c.got, x)
    BY ByteRead DEF Basics, Types
  <1>11. \A t \in 1 .. len : c.got[t] = ByteOf(c.inode, c.off + t - 1)
    BY <1>1 DEF Reading
  <1>12. CASE Finished(c) /\ d.pc = "got" /\ d.got = c.got
    <2>1. len = c.n \/ at = size
      <3>1. len = c.n \/ at >= size \/ q >= MaxBlk
        BY <1>12 DEF Finished, AtEnd
      <3>2. q >= MaxBlk => ~(at < size)
        <4>1. CeilDiv(size, BlkSize) <= MaxBlk /\ CeilDiv(size, BlkSize) \in Nat
          <5>1. CeilDiv(size, BlkSize) <= MaxBlk
            BY <1>1 DEF Basics, Types
          <5> HIDE DEF size
          <5> QED BY <1>2, <5>1, BlocksOf
        <4> DEFINE b == CeilDiv(size, BlkSize)
        <4>2. at \in Nat
          BY <1>2
        <4> HIDE DEF q, at, size, j
        <4>3. at < size => q < CeilDiv(size, BlkSize)
          BY <1>2, <1>7, <4>2, BlocksOf
        <4> HIDE DEF b
        <4> QED BY <1>3, <4>1, <4>3, Sizes
      <3>3. at \in Nat
        BY <1>2
      <3> HIDE DEF at, size, q
      <3> QED BY <1>2, <1>4, <3>1, <3>2, <3>3
    <2> HIDE DEF c, d
    <2> QED BY <1>4, <1>9, <1>10, <1>11, <1>12, <2>1 DEF Reading, c, d, ByteOf
  <1>13. CASE /\ ~Finished(c) /\ d.pc = "read byte" /\ d.cnt = q /\ d.reg = BlockThere(c) /\ d.i = j + 1
              /\ d.got = Append(c.got, x)
    <2>1. len # c.n /\ ~(at >= size) /\ ~(q >= MaxBlk)
      BY <1>13 DEF Finished, AtEnd
    <2>2. Len(d.got) = len + 1 /\ d.got[len + 1] = x /\ \A t \in 1 .. len : d.got[t] = c.got[t]
      <3> DEFINE g == c.got
      <3>1. g \in Seq(Byte)
        BY <1>2
      <3> HIDE DEF g, x
      <3>2. Len(Append(g, x)) = Len(g) + 1 /\ Append(g, x)[Len(g) + 1] = x
            /\ \A t \in 1 .. Len(g) : Append(g, x)[t] = g[t]
        BY <3>1
      <3> QED BY <1>13, <3>2 DEF g
    <2>3. at \in Nat /\ q < MaxBlk /\ len + 1 <= c.n /\ at + 1 <= size
      <3> DEFINE n == c.n
      <3>1. at \in Nat /\ n \in Nat /\ len <= n /\ len # n
        BY <1>2, <1>4, <2>1
      <3> HIDE DEF n, at, len, size, q
      <3> QED BY <1>2, <1>3, <2>1, <3>1, Sizes DEF n
    <2>4. ASSUME NEW t \in 1 .. len + 1 PROVE d.got[t] = ByteOf(c.inode, c.off + t - 1)
      <3>1. CASE t \in 1 .. len
        BY <1>11, <2>2, <3>1
      <3>2. CASE t = len + 1
        <4>1. c.off + t - 1 = at
          BY <1>2, <3>2
        <4> QED BY <1>8, <2>2, <2>3, <3>2, <4>1
      <3>3. t \in 1 .. len \/ t = len + 1
        BY <1>2
      <3> QED BY <3>1, <3>2, <3>3
    <2>5. d.off + Len(d.got) = at + 1 /\ at + 1 = BlkSize * d.cnt + d.i
      <3>1. d.off + Len(d.got) = at + 1
        <4> DEFINE off == c.off
        <4>1. d.off = off /\ Len(d.got) = len + 1 /\ off \in Nat
          BY <1>2, <1>10, <2>2
        <4> HIDE DEF d, off, len
        <4>2. d.off + Len(d.got) = (off + len) + 1
          BY <1>2, <4>1
        <4> QED BY <4>2 DEF off, len
      <3>2. at + 1 = BlkSize * q + (j + 1)
        <4> HIDE DEF at, q, j
        <4> QED BY <1>3, <1>6, Sizes
      <3> QED BY <1>13, <3>1, <3>2
    <2>6. d.reg = data_block_idx[c.inode][q]
      BY <1>4, <1>13, <2>3 DEF BlockThere, NextIndex
    <2>7. \A i, k : ByteOf(i, k)' = ByteOf(i, k)
      BY <1>9 DEF ByteOf
    <2>8. \A t \in 1 .. Len(d.got) : d.got[t] = ByteOf(d.inode, d.off + t - 1)
      BY <1>10, <2>2, <2>4
    <2>9. Len(d.got) <= d.n /\ d.off + Len(d.got) <= length'[d.inode]
      BY <1>9, <1>10, <2>2, <2>3, <2>5
    <2>10. d.reg = data_block_idx'[d.inode][d.cnt]
      BY <1>9, <1>10, <1>13, <2>6
    <2> HIDE DEF c, d
    <2> QED BY <1>13, <2>5, <2>7, <2>8, <2>9, <2>10 DEF Reading, d
  <1> QED BY <1>10, <1>12, <1>13

LEMMA ReadingNext ==
    ASSUME Basics, Orderly, Serial, Next, \A p \in Proc : Reading(p)
    PROVE  \A p \in Proc : Reading(p)'
  <1>1. PICK p \in Proc : Enter(p) \/ Inside(p)
    BY DEF Next
  <1>2. \A q \in Proc : q # p => Reading(q)'
    BY <1>1, ReadingOthers
  <1>3. ASSUME call'[p].pc \notin ReadPc PROVE Reading(p)'
    BY <1>3 DEF Reading, ReadPc
  <1>4. CASE Enter(p)
    BY <1>2, <1>4, ReadingEntered
  <1>5. CASE Create(p) \/ WriteData(p)
    <2>1. call'[p].pc \in CreatePc \cup WritePc \cup {"user"}
      BY <1>5, CreatePlaces, WritePlaces DEF WritePc
    <2>2. call'[p].pc \notin ReadPc
      BY <2>1 DEF CreatePc, WritePc, ReadPc
    <2> QED BY <1>2, <1>3, <2>2
  <1>6. CASE ReadHead(p) \/ ReadByte(p)
    BY <1>2, <1>6, ReadingHead, ReadingTurn
  <1>7. CASE ReadReturn(p) \/ ListCheck(p) \/ ListName(p)
    <2>1. call'[p].pc \in {"user", "list name"}
      <3>1. call \in [Proc -> Call] /\ InUser.pc = "user"
        BY DEF Basics, Types, InUser
      <3>2. CASE ReadReturn(p) \/ ListName(p)
        BY <3>1, <3>2 DEF ReadReturn, ListName
      <3>3. CASE ListCheck(p)
        <4> DEFINE c == call[p]
                   d == call'[p]
        <4>1. c \in Call /\ (d = InUser \/ d = [c EXCEPT !.pc = "list name"])
          BY <3>1, <3>3 DEF ListCheck
        <4>2. d = [c EXCEPT !.pc = "list name"] => d.pc = "list name"
          <5> HIDE DEF d, c
          <5> QED BY <4>1 DEF Call
        <4> QED BY <3>1, <4>1, <4>2
      <3> QED BY <1>7, <3>2, <3>3
    <2> QED BY <1>2, <1>3, <2>1 DEF ReadPc
  <1> QED BY <1>1, <1>4, <1>5, <1>6, <1>7 DEF Inside, ReadData

LEMMA ReadingStutter ==
    ASSUME UNCHANGED vars, \A p \in Proc : Reading(p) PROVE \A p \in Proc : Reading(p)'
  <1>1. UNCHANGED <<length, data_block_idx, data, call>>
    BY DEF vars, disk
  <1>2. \A i, k : ByteOf(i, k)' = ByteOf(i, k)
    BY <1>1 DEF ByteOf
  <1> QED BY <1>1, <1>2 DEF Reading

(* The bytes got are a part of the file. *)
LEMMA PartOfFile ==
    ASSUME Types, NEW i \in Inode, NEW off \in Nat, NEW n \in Nat, NEW got \in Seq(Byte),
           Len(got) <= n, \A t \in 1 .. Len(got) : got[t] = ByteOf(i, off + t - 1),
           \/ off > length[i] /\ got = <<>>
           \/ off + Len(got) <= length[i] /\ (Len(got) = n \/ off + Len(got) = length[i])
    PROVE  got = SubSeq(Contents(i), off + 1, Least(off + n, length[i]))
  <1> DEFINE size == length[i]
             len == Len(got)
             m == Least(off + n, size)
             s == Contents(i)
             sub == SubSeq(s, off + 1, m)
  <1>1. size \in Nat /\ len \in Nat
    BY DEF Types
  <1>2. m \in Nat /\ m <= size
    BY <1>1 DEF Least
  <1>3. CASE off > size /\ got = <<>>
    <2> HIDE DEF m, size, s
    <2>1. m < off + 1 /\ off + 1 \in Int /\ m \in Int
      BY <1>1, <1>2, <1>3
    <2>2. SubSeq(s, off + 1, m) = <<>>
      BY <2>1, SubSeqEmpty
    <2> QED BY <1>3, <2>2 DEF m, s, size
  <1>4. CASE off + len <= size /\ (len = n \/ off + len = size)
    <2>1. m = off + len
      <3> HIDE DEF len, size
      <3>1. CASE len = n
        BY <1>1, <1>4, <3>1 DEF Least
      <3>2. CASE off + len = size /\ len < n
        BY <1>1, <1>4, <3>2 DEF Least
      <3>3. len <= n
        BY DEF len
      <3> QED BY <1>1, <1>4, <3>1, <3>2, <3>3
    <2>2. \A k \in off + 1 .. m : k \in 1 .. size /\ s[k] = ByteOf(i, k - 1)
      <3>1. \A k \in off + 1 .. m : k \in 1 .. size
        <4> HIDE DEF m, size
        <4> QED BY <1>1, <1>2
      <3>2. \A k \in 1 .. size : s[k] = ByteOf(i, k - 1)
        BY DEF Contents, ByteOf
      <3> HIDE DEF m, size, s
      <3> QED BY <3>1, <3>2
    <2>3. \A k \in 1 .. size : ByteOf(i, k - 1) \in Byte
      <3> SUFFICES ASSUME NEW k \in 1 .. size PROVE ByteOf(i, k - 1) \in Byte
        OBVIOUS
      <3>1. k - 1 \in Nat /\ k - 1 < size
        BY <1>1
      <3>2. data_block_idx[i][(k - 1) \div BlkSize] \in Block /\ ((k - 1) % BlkSize) \in 0 .. BlkSize - 1
        BY <3>1, Within
      <3>3. data \in [Block -> [0 .. BlkSize - 1 -> Byte]]
        BY DEF Types
      <3> HIDE DEF Byte, Block
      <3> QED BY <3>2, <3>3 DEF ByteOf
    <2>4. \A k \in off + 1 .. m : s[k] \in Byte
      <3> HIDE DEF m, size, s, Byte
      <3> QED BY <2>2, <2>3
    <2>5. off + 1 \in Int /\ m \in Int
      BY <1>2
    <2>6. /\ sub \in Seq(Byte)
          /\ Len(sub) = IF off + 1 <= m THEN m - (off + 1) + 1 ELSE 0
          /\ \A t \in 1 .. m - (off + 1) + 1 : sub[t] = s[off + 1 + t - 1]
      <3> HIDE DEF m, s, Byte
      <3> QED BY <2>4, <2>5, SubSeqProperties
    <2> HIDE DEF m, s, sub, Byte, size
    <2>7. Len(sub) = len
      <3> HIDE DEF len
      <3> QED BY <1>1, <2>1, <2>6
    <2>8. ASSUME NEW t \in 1 .. len PROVE sub[t] = got[t]
      <3>1. t \in 1 .. m - (off + 1) + 1 /\ off + t \in off + 1 .. m /\ off + 1 + t - 1 = off + t
        <4> HIDE DEF len
        <4> QED BY <1>1, <2>1
      <3>2. sub[t] = s[off + t]
        BY <2>6, <3>1
      <3>3. s[off + t] = ByteOf(i, off + t - 1)
        BY <2>2, <3>1
      <3> QED BY <3>2, <3>3
    <2>9. sub = got
      BY <2>6, <2>7, <2>8, SeqEqual
    <2> QED BY <2>9 DEF sub, m, s, size
  <1> QED BY <1>3, <1>4

(***************************************************************************)
(* read returns the bytes of the file from file_pos on, nbytes of them or  *)
(* those up to its end (read_data of filesys.c), for blocks of any size,   *)
(* when no other call changes the file meanwhile.                          *)
(***************************************************************************)
THEOREM ReadReturnsTheFile == ASSUME Serial PROVE Spec => ReadsFile
  <1> DEFINE A == \A p \in Proc : At(p, "got") /\ Ended(p) =>
                     LET c == call[p] IN
                     c.got = SubSeq(Contents(c.inode), c.off + 1, Least(c.off + c.n, length[c.inode]))
             All == \A p \in Proc : Reading(p)
  <1>0. Orderly
    BY DEF Orderly
  <1>1. Init => All
    <2> SUFFICES ASSUME Init, NEW p \in Proc PROVE Reading(p)
      OBVIOUS
    <2>1. call[p].pc = "user"
      BY DEF Init, InUser
    <2> QED BY <2>1 DEF Reading
  <1>2. Basics /\ All /\ [Next]_vars => All'
    BY <1>0, ReadingNext, ReadingStutter
  <1>3. Basics /\ All => [A]_vars
    <2> SUFFICES ASSUME Basics, NEW p \in Proc, Reading(p), call[p].pc = "got"
                 PROVE  LET c == call[p] IN
                        c.got = SubSeq(Contents(c.inode), c.off + 1, Least(c.off + c.n, length[c.inode]))
      BY DEF At
    <2> DEFINE c == call[p]
    <2>1. /\ c \in Call /\ c.inode \in Inode /\ Types
          /\ Len(c.got) <= c.n
          /\ \A t \in 1 .. Len(c.got) : c.got[t] = ByteOf(c.inode, c.off + t - 1)
          /\ \/ c.off > length[c.inode] /\ c.got = <<>>
             \/ c.off + Len(c.got) <= length[c.inode]
                /\ (Len(c.got) = c.n \/ c.off + Len(c.got) = length[c.inode])
      BY DEF Basics, Types, Private, ReadPc, Reading
    <2>2. c.off \in Nat /\ c.n \in Nat /\ c.got \in Seq(Byte)
      BY <2>1 DEF Call
    <2> HIDE DEF c
    <2> QED BY <2>1, <2>2, PartOfFile DEF c
  <1> HIDE DEF A, All
  <1>4. Spec => []All
    BY <1>0, <1>1, <1>2, AlwaysBasics, PTL DEF Spec
  <1>5. Spec => [][A]_vars
    BY <1>0, <1>3, <1>4, AlwaysBasics, PTL
  <1> QED BY <1>5 DEF A, ReadsFile

-----------------------------------------------------------------------------
(***************************************************************************)
(* Listing the directory.  What a step makes of a descriptor, and which    *)
(* kinds of descriptors the calls are about.                               *)
(***************************************************************************)
ListPc == {"list", "list name"}
Kinds(p) ==
    LET c == call[p] IN
    /\ \A fd \in Fd : file_array[p][fd].inode = NoInode => file_array[p][fd].kind # "dir"
    /\ c.pc \in ListPc => Mine(p).kind = "dir" /\ Mine(p).pos = c.off
    /\ c.pc \notin ListPc \cup {"user"} => Mine(p).kind # "dir"

(* The names of the directory from slot k on. *)
NamesFrom(k) ==
    {dentry_array[s].name : s \in {r \in 0 .. Num_Dentry - 1 : r >= k /\ ~Copying(r)}}
Listed(p, k) == due[p] \subseteq seen[p] \cup NamesFrom(k)

(* What a listing has not seen is still before it. *)
Listing(p) ==
    /\ call[p].pc = "list name" => Listed(p, call[p].off)
    /\ \A fd \in Fd : LET e == file_array[p][fd] IN e.kind = "dir" /\ e.pos > 0 => Listed(p, e.pos)

(* Nobody removes files, and the processes list with one descriptor. *)
OnlyCreates == (\A p \in Proc : "remove" \notin May[p]) /\ \A f, g \in Fd : f = g

(* What a step of a process makes of one of its descriptors. *)
LEMMA EntryStep ==
    ASSUME Basics, NEW p \in Proc, Enter(p) \/ Inside(p), NEW fd \in Fd
    PROVE  LET c == call[p]
               e == file_array[p][fd]
               f == file_array'[p][fd]
           IN
           \/ f = e
           \/ f.pos = 0 /\ (f.inode = NoInode => f.kind # "dir")
           \/ fd = c.fd /\ c.pc \in CreatePc /\ f.kind = e.kind /\ f.pos = e.pos
           \/ /\ fd = c.fd /\ c.pc \in {"written", "got", "list name"}
              /\ f.kind = e.kind /\ f.inode = e.inode
              /\ c.pc = "list name" => f.pos = Unsigned(e.pos + 1)
  <1> DEFINE c == call[p]
             e == file_array[p][fd]
             f == file_array'[p][fd]
  <1>1. file_array \in [Proc -> [Fd -> Entry]] /\ e \in Entry /\ (c.pc # "user" => c.fd \in Fd)
    BY DEF Basics, Types, Private
  <1>2. CASE file_array' = file_array
    BY <1>2
  <1>3. ASSUME NEW name \in Name \cup {DirName}, Open(p, name)
        PROVE  f = e \/ (f.pos = 0 /\ (f.inode = NoInode => f.kind # "dir"))
    <2>1. PICK g \in Fd : file_array' = [file_array EXCEPT ![p][g] = Opened(name)]
      BY <1>3 DEF Open
    <2>2. f = e \/ f = Opened(name)
      BY <1>1, <2>1
    <2>3. Opened(name).pos = 0 /\ (Opened(name).inode = NoInode => Opened(name).kind # "dir")
      <3>1. CASE NotFound(name)
        BY <3>1 DEF Opened
      <3>2. CASE ~NotFound(name)
        <4> DEFINE s == CHOOSE s \in 0 .. Num_Dentry - 1 : FindsAt(name, s)
                   i == dentry_array[s].inode
        <4>1. s \in 0 .. Num_Dentry - 1
          BY <3>2, FirstFound DEF Basics
        <4>2. s \in Slot
          BY <4>1, ListedSlots DEF Basics
        <4>3. i \in Inode
          BY <4>2 DEF Basics, Types, Dentry
        <4>4. Opened(name) = [busy |-> TRUE, kind |-> IF name = DirName THEN "dir" ELSE "file",
                              inode |-> i, pos |-> 0, name |-> NoName]
          BY <3>2 DEF Opened
        <4> HIDE DEF i
        <4> QED BY <4>3, <4>4, Places
      <3> QED BY <3>1, <3>2
    <2> HIDE DEF e, f
    <2> QED BY <2>2, <2>3
  <1>4. ASSUME NEW g \in Fd,
               file_array' = [file_array EXCEPT ![p][g] = [@ EXCEPT !.busy = FALSE, !.pos = 0, !.inode = 0]]
        PROVE  f = e \/ (f.pos = 0 /\ (f.inode = NoInode => f.kind # "dir"))
    <2>1. f = e \/ f = [e EXCEPT !.busy = FALSE, !.pos = 0, !.inode = 0]
      BY <1>1, <1>4
    <2> DEFINE h == [e EXCEPT !.busy = FALSE, !.pos = 0, !.inode = 0]
    <2>2. h.pos = 0 /\ h.inode = 0 /\ 0 # NoInode
      <3> HIDE DEF e
      <3> QED BY <1>1 DEF Entry, NoInode
    <2> HIDE DEF e, f, h
    <2>3. CASE f = h
      BY <2>2, <2>3
    <2> QED BY <2>1, <2>3 DEF h
  <1>5. CASE Restart(p)
    <2>1. f = FreeEntry
      BY <1>1, <1>5 DEF Restart
    <2>2. FreeEntry.pos = 0 /\ FreeEntry.inode = 0 /\ 0 # NoInode
      BY DEF FreeEntry, NoInode
    <2>3. f.pos = 0 /\ (f.inode = NoInode => f.kind # "dir")
      BY <2>1, <2>2
    <2> QED BY <2>3
  <1>6. ASSUME NEW x, c.pc \in CreatePc, file_array' = [file_array EXCEPT ![p][c.fd].inode = x]
        PROVE  f = e \/ (fd = c.fd /\ f.kind = e.kind /\ f.pos = e.pos)
    <2>1. c.fd \in Fd
      BY <1>1, <1>6 DEF CreatePc
    <2>2. fd # c.fd => f = e
      BY <1>1, <1>6
    <2>3. fd = c.fd => f = [e EXCEPT !.inode = x]
      BY <1>1, <1>6, <2>1
    <2> HIDE DEF e, f
    <2> QED BY <1>1, <2>2, <2>3 DEF Entry
  <1>7. ASSUME NEW x, c.pc # "user", file_array' = [file_array EXCEPT ![p][c.fd].pos = x]
        PROVE  f = e \/ (fd = c.fd /\ f.kind = e.kind /\ f.inode = e.inode /\ f.pos = x)
    <2>1. c.fd \in Fd
      BY <1>1, <1>7
    <2>2. fd # c.fd => f = e
      BY <1>1, <1>7
    <2>3. fd = c.fd => f = [e EXCEPT !.pos = x]
      BY <1>1, <1>7, <2>1
    <2> HIDE DEF e, f
    <2> QED BY <1>1, <2>2, <2>3 DEF Entry
  <1>8. CASE Enter(p)
    <2>1. ASSUME NEW g \in Fd, NEW n \in Lengths, Read(p, g, n)
          PROVE  \/ file_array' = file_array
                 \/ file_array' = [file_array EXCEPT ![p][g] = [@ EXCEPT !.busy = FALSE, !.pos = 0, !.inode = 0]]
      BY <2>1 DEF Read
    <2> HIDE DEF e, f
    <2> QED BY <1>2, <1>3, <1>4, <1>5, <1>8, <2>1 DEF Enter, OpenFails, Close, Remove, Write, e, f
  <1>9. CASE Create(p)
    <2>1. \/ file_array' = file_array
          \/ \E x : file_array' = [file_array EXCEPT ![p][c.fd].inode = x]
      BY <1>9 DEF Create, CreateCheck, LoadInodeLen, StoreInodeLen, TakeInode, LoadNumDentry,
                  StoreNumDentry, CopyDentry, Created
    <2> HIDE DEF e, f
    <2> QED BY <1>2, <1>6, <1>9, <2>1, CreatePlaces DEF e, f
  <1>10. CASE WriteData(p) \/ ReadData(p)
    <2>1. CASE WriteReturn(p)
      <3>1. c.pc = "written" /\ \E x : file_array' = [file_array EXCEPT ![p][c.fd].pos = x]
        BY <2>1 DEF WriteReturn, At
      <3> HIDE DEF e, f
      <3> QED BY <1>7, <3>1 DEF e, f
    <2>2. CASE ReadReturn(p)
      <3>1. c.pc = "got" /\ \E x : file_array' = [file_array EXCEPT ![p][c.fd].pos = x]
        BY <2>2 DEF ReadReturn, At
      <3> HIDE DEF e, f
      <3> QED BY <1>7, <3>1 DEF e, f
    <2>3. CASE ListName(p)
      <3> DEFINE x == Unsigned(file_array[p][c.fd].pos + 1)
      <3>1. c.pc = "list name" /\ file_array' = [file_array EXCEPT ![p][c.fd].pos = x]
        BY <1>1, <2>3 DEF ListName, At, ListStep
      <3> HIDE DEF x
      <3>2. f = e \/ (fd = c.fd /\ f.kind = e.kind /\ f.inode = e.inode /\ f.pos = x)
        BY <1>7, <3>1
      <3> HIDE DEF f
      <3> QED BY <3>1, <3>2 DEF x, f
    <2>4. CASE ~(WriteReturn(p) \/ ReadReturn(p) \/ ListName(p))
      <3>1. file_array' = file_array
        BY <1>10, <2>4 DEF WriteData, WriteHead, LoadLen, StoreLen, TakeBlock, Fill, ReadData,
                           ReadHead, ReadByte, ListCheck
      <3> QED BY <3>1
    <2> QED BY <2>1, <2>2, <2>3, <2>4
  <1> QED BY <1>8, <1>9, <1>10 DEF Inside

(* The descriptor of a call. *)
LEMMA CallStep ==
    ASSUME Basics, NEW p \in Proc, Inside(p), call'[p].pc # "user"
    PROVE  LET c == call[p]
               d == call'[p]
           IN
           /\ c.pc # "user" /\ d.fd = c.fd /\ c.pc \notin {"written", "got", "list name"}
           /\ c.pc \in ListPc \/ d.pc \in ListPc => c.pc = "list" /\ d.pc = "list name" /\ d.off = c.off
  <1> DEFINE c == call[p]
             d == call'[p]
  <1>1. c \in Call /\ call \in [Proc -> Call] /\ InUser.pc = "user"
    BY DEF Basics, Types, InUser
  <1>2. CASE Create(p)
    BY <1>2, CreatePlaces DEF CreatePc, ListPc
  <1>3. CASE WriteData(p)
    <2>1. c.pc \in WritePc /\ d.pc \in WritePc
      BY <1>3, WritePlaces
    <2>2. d.fd = c.fd /\ c.pc # "written"
      <3>1. CASE StoreLen(p)
        <4>1. "take block" \in Pc /\ Go(p, "take block") /\ c.pc = "store block"
          BY <3>1 DEF Pc, StoreLen, At
        <4> QED BY <1>1, <4>1, Gone
      <3>2. CASE WriteReturn(p)
        BY <1>1, <3>2 DEF WriteReturn
      <3>3. CASE WriteHead(p)
        BY <3>3, HeadWritten
      <3>4. CASE LoadLen(p)
        BY <3>4, LenLoaded
      <3>5. CASE TakeBlock(p)
        BY <3>5, BlockTaken
      <3>6. CASE Fill(p)
        BY <3>6, Filling
      <3> QED BY <1>3, <3>1, <3>2, <3>3, <3>4, <3>5, <3>6 DEF WriteData
    <2> QED BY <2>1, <2>2 DEF WritePc, ListPc
  <1>4. CASE ReadHead(p)
    <2>1. d.fd = c.fd /\ c.pc = "read" /\ d.pc \in {"got", "read byte"}
      BY <1>4, HeadRead
    <2> QED BY <2>1 DEF ListPc
  <1>5. CASE ReadByte(p)
    <2>1. d.fd = c.fd /\ c.pc = "read byte" /\ (d.pc = "got" \/ d.pc = c.pc)
      BY <1>1, <1>5, ByteRead
    <2> QED BY <2>1 DEF ListPc
  <1>6. CASE ReadReturn(p) \/ ListName(p)
    BY <1>1, <1>6 DEF ReadReturn, ListName
  <1>7. CASE ListCheck(p)
    <2>1. c.pc = "list" /\ (d = InUser \/ d = [c EXCEPT !.pc = "list name"])
      BY <1>1, <1>7 DEF ListCheck, At
    <2>2. d # InUser
      BY <1>1
    <2>3. d.pc = "list name" /\ d.fd = c.fd /\ d.off = c.off
      <3> HIDE DEF c, d
      <3> QED BY <1>1, <2>1, <2>2 DEF Call
    <2> QED BY <2>1, <2>3
  <1> QED BY <1>2, <1>3, <1>4, <1>5, <1>6, <1>7 DEF Inside, ReadData

LEMMA CallEntered ==
    ASSUME Basics, NEW p \in Proc, Enter(p), call'[p].pc # "user"
    PROVE  LET d == call'[p]
               e == file_array[p][d.fd]
           IN
           /\ d.fd \in Fd /\ file_array' = file_array
           /\ d.pc \in {"create", "write", "read", "list"}
           /\ d.pc = "list" => e.kind = "dir" /\ d.off = e.pos
           /\ d.pc # "list" => e.inode = NoInode \/ e.kind # "dir"
  <1> DEFINE d == call'[p]
  <1>1. /\ call \in [Proc -> Call] /\ InUser.pc = "user" /\ \A fd \in Fd : file_array[p][fd] \in Entry
        /\ \A fd \in Fd : fd \in Nat
    BY Sizes DEF Basics, Types, InUser
  <1>2. d # InUser
    BY <1>1
  <1>3. \E fd \in Fd, n \in Lengths : Write(p, fd, n) \/ Read(p, fd, n)
    BY <1>1, <1>2 DEF Enter, Open, OpenFails, Close, Remove, Restart
  <1>4. PICK fd \in Fd, n \in Lengths : Write(p, fd, n) \/ Read(p, fd, n)
    BY <1>3
  <1> DEFINE e == file_array[p][fd]
  <1>5. n \in Nat /\ e \in Entry /\ fd \in Nat
    BY <1>1, Sizes
  <1>6. CASE Write(p, fd, n)
    <2> DEFINE buf == [k \in 1 .. n |-> <<p, k>>]
               pc == IF e.inode = NoInode THEN "create" ELSE "write"
               f == Entered(pc, fd, buf, e)
    <2>1. /\ file_array' = file_array
          /\ d = IF e.inode # NoInode /\ (~e.busy \/ e.kind = "dir") THEN InUser ELSE f
      BY <1>1, <1>6 DEF Write
    <2>2. pc \in Pc /\ pc \in {"create", "write"} /\ buf \in Seq(Byte)
      BY <1>5, BufferType DEF Pc
    <2>3. e.inode = NoInode \/ e.kind # "dir"
      BY <1>2, <2>1
    <2> HIDE DEF pc, buf, e
    <2>4. f.pc = pc /\ f.fd = fd
      BY <1>5, <2>2, EnteredType
    <2>5. d = f
      BY <1>2, <2>1
    <2> HIDE DEF f, d
    <2>6. d.pc \in {"create", "write"} /\ d.fd = fd
      BY <2>2, <2>4, <2>5
    <2> QED BY <2>1, <2>3, <2>6 DEF d, e
  <1>7. CASE Read(p, fd, n)
    <2> DEFINE pc == IF e.kind = "dir" THEN "list" ELSE "read"
               none == <<>>
               g == Entered(pc, fd, none, e)
               f == [g EXCEPT !.n = n]
    <2>1. ~(e.inode = NoInode \/ ~e.busy)
      BY <1>1, <1>2, <1>7 DEF Read
    <2>2. d = f /\ file_array' = file_array
      BY <1>1, <1>7, <2>1 DEF Read
    <2>3. pc \in Pc /\ none \in Seq(Byte) /\ (IF e.kind = "dir" THEN pc = "list" ELSE pc = "read")
      BY DEF Pc
    <2> HIDE DEF pc, e, none
    <2>a. none \in Seq(Byte) /\ pc \in Pc /\ fd \in Nat /\ e \in Entry
      BY <1>5, <2>3
    <2>b. \A x \in Pc, b \in Seq(Byte) : LET h == Entered(x, fd, b, e) IN
             h \in Call /\ h.pc = x /\ h.fd = fd /\ h.off = e.pos
      BY <2>a, EnteredType
    <2>4. g \in Call /\ g.pc = pc /\ g.fd = fd /\ g.off = e.pos
      BY <2>a, <2>b
    <2> HIDE DEF g, d
    <2>5. d.pc = pc /\ d.fd = fd /\ d.off = e.pos
      BY <2>2, <2>4 DEF Call
    <2> QED BY <2>2, <2>3, <2>5 DEF d, e
  <1> QED BY <1>4, <1>6, <1>7

LEMMA KindsNext ==
    ASSUME Basics, Orderly, Next, \A p \in Proc : Kinds(p)
    PROVE  \A p \in Proc : Kinds(p)'
  <1>1. PICK p \in Proc : Enter(p) \/ Inside(p)
    BY DEF Next
  <1>2. \A q \in Proc : q # p => Kinds(q)'
    <2> SUFFICES ASSUME NEW q \in Proc, q # p PROVE Kinds(q)'
      OBVIOUS
    <2>1. call'[q] = call[q] /\ file_array'[q] = file_array[q]
      BY <1>1, OthersKept DEF Basics
    <2> QED BY <2>1 DEF Kinds, Mine
  <1> DEFINE c == call[p]
             d == call'[p]
             old(fd) == file_array[p][fd]
             new(fd) == file_array'[p][fd]
  <1>3. /\ \A fd \in Fd : old(fd).inode = NoInode => old(fd).kind # "dir"
        /\ c.pc \in ListPc => old(c.fd).kind = "dir" /\ old(c.fd).pos = c.off
        /\ c.pc \notin ListPc \cup {"user"} => old(c.fd).kind # "dir"
    BY DEF Kinds, Mine
  <1>4. ASSUME NEW fd \in Fd
        PROVE  \/ new(fd) = old(fd)
               \/ new(fd).pos = 0 /\ (new(fd).inode = NoInode => new(fd).kind # "dir")
               \/ fd = c.fd /\ c.pc \in CreatePc /\ new(fd).kind = old(fd).kind /\ new(fd).pos = old(fd).pos
               \/ fd = c.fd /\ c.pc \in {"written", "got", "list name"}
                  /\ new(fd).kind = old(fd).kind /\ new(fd).inode = old(fd).inode
    BY <1>1, EntryStep
  <1>5. c.pc # "user" => c.fd \in Fd
    BY DEF Basics, Private
  <1> HIDE DEF c, d, old, new
  <1>6. ASSUME NEW fd \in Fd PROVE new(fd).inode = NoInode => new(fd).kind # "dir"
    <2>1. CASE fd = c.fd /\ c.pc \in CreatePc /\ new(fd).kind = old(fd).kind
      BY <1>3, <2>1 DEF CreatePc, ListPc
    <2> QED BY <1>3, <1>4, <2>1
  <1>7. /\ d.pc \in ListPc => new(d.fd).kind = "dir" /\ new(d.fd).pos = d.off
        /\ d.pc \notin ListPc \cup {"user"} => new(d.fd).kind # "dir"
    <2>1. CASE d.pc = "user"
      BY <2>1 DEF ListPc
    <2>2. CASE Enter(p) /\ d.pc # "user"
      <3>1. /\ d.fd \in Fd /\ new(d.fd) = old(d.fd)
            /\ d.pc \in {"create", "write", "read", "list"}
            /\ d.pc = "list" => old(d.fd).kind = "dir" /\ d.off = old(d.fd).pos
            /\ d.pc # "list" => old(d.fd).inode = NoInode \/ old(d.fd).kind # "dir"
        BY <2>2, CallEntered DEF d, old, new
      <3> QED BY <1>3, <3>1 DEF ListPc
    <2>3. CASE Inside(p) /\ d.pc # "user"
      <3>1. /\ c.pc # "user" /\ d.fd = c.fd /\ c.pc \notin {"written", "got", "list name"}
            /\ c.pc \in ListPc \/ d.pc \in ListPc => c.pc = "list" /\ d.pc = "list name" /\ d.off = c.off
        BY <2>3, CallStep DEF c, d
      <3>2. c.fd \in Fd
        BY <1>5, <3>1
      <3>3. CASE c.pc \in ListPc
        <4>1. ListCheck(p)
          <5>1. c.pc = "list"
            BY <3>1, <3>3
          <5>2. ~Create(p) /\ ~WriteData(p) /\ ~ReadHead(p) /\ ~ReadByte(p) /\ ~ReadReturn(p) /\ ~ListName(p)
            BY <5>1, CreatePlaces, WritePlaces
               DEF CreatePc, WritePc, ReadHead, ReadByte, ReadReturn, ListName, At, c
          <5> QED BY <2>3, <5>2 DEF Inside, ReadData
        <4>2. new(c.fd) = old(c.fd)
          BY <4>1 DEF ListCheck, old, new
        <4> QED BY <1>3, <3>1, <3>3, <4>2 DEF ListPc
      <3>4. CASE c.pc \notin ListPc
        <4>1. d.pc \notin ListPc /\ old(c.fd).kind # "dir"
          BY <1>3, <3>1, <3>4 DEF ListPc
        <4>2. new(c.fd).kind # "dir"
          <5>1. CASE Create(p)
            <6>1. c.pc \in CreatePc
              BY <5>1, CreatePlaces DEF c
            <6>2. \/ UNCHANGED file_array
                  \/ \E i : Created(p, i)
              BY <5>1 DEF Create, CreateCheck, LoadInodeLen, StoreInodeLen, TakeInode, LoadNumDentry,
                          StoreNumDentry, CopyDentry
            <6>3. CASE UNCHANGED file_array
              BY <4>1, <6>3 DEF old, new
            <6>4. CASE \E i : Created(p, i)
              <7>1. PICK i : file_array' = [file_array EXCEPT ![p][c.fd].inode = i]
                BY <6>4 DEF Created, c
              <7>2. file_array \in [Proc -> [Fd -> Entry]]
                BY DEF Basics, Types
              <7>3. new(c.fd) = [old(c.fd) EXCEPT !.inode = i] /\ old(c.fd) \in Entry
                BY <3>2, <7>1, <7>2 DEF old, new
              <7>4. new(c.fd).kind = old(c.fd).kind
                BY <7>3 DEF Entry
              <7> QED BY <4>1, <7>4
            <6> QED BY <6>2, <6>3, <6>4
          <5>2. CASE WriteReturn(p) \/ ReadReturn(p) \/ ListName(p)
            BY <3>1, <5>2 DEF WriteReturn, ReadReturn, ListName, At, c
          <5>3. CASE (WriteData(p) \/ ReadData(p)) /\ ~(WriteReturn(p) \/ ReadReturn(p) \/ ListName(p))
            <6>1. file_array' = file_array
              BY <5>3 DEF WriteData, WriteHead, LoadLen, StoreLen, TakeBlock, Fill, ReadData,
                          ReadHead, ReadByte, ListCheck
            <6> QED BY <4>1, <6>1 DEF old, new
          <5> QED BY <2>3, <5>1, <5>2, <5>3 DEF Inside
        <4> QED BY <3>1, <4>1, <4>2
      <3> QED BY <3>3, <3>4
    <2> QED BY <1>1, <2>1, <2>2, <2>3
  <1>8. Kinds(p)'
    BY <1>6, <1>7 DEF Kinds, Mine, d, new
  <1> QED BY <1>2, <1>8

LEMMA AlwaysKinds == ASSUME Orderly PROVE Spec => [](\A p \in Proc : Kinds(p))
  <1> DEFINE All == \A p \in Proc : Kinds(p)
  <1>1. Init => All
    <2> SUFFICES ASSUME Init, NEW p \in Proc PROVE Kinds(p)
      OBVIOUS
    <2>1. call[p].pc = "user" /\ \A fd \in Fd : file_array[p][fd].kind = "none"
      BY DEF Init, InUser, FreeEntry
    <2> QED BY <2>1 DEF Kinds, ListPc
  <1>2. Basics /\ All /\ [Next]_vars => All'
    <2> SUFFICES ASSUME Basics, All, [Next]_vars PROVE All'
      OBVIOUS
    <2>1. CASE Next
      BY <2>1, KindsNext
    <2>2. CASE UNCHANGED vars
      BY <2>2 DEF vars, Kinds, Mine
    <2> QED BY <2>1, <2>2
  <1> HIDE DEF All
  <1>3. Spec => []All
    BY <1>1, <1>2, AlwaysBasics, PTL DEF Spec
  <1> QED BY <1>3 DEF All

(* Creating a file takes no name away from those ahead of a listing. *)
LEMMA NamesKept ==
    ASSUME Basics, Orderly, NEW p \in Proc, Enter(p) \/ Inside(p),
           ~(\E name \in Name : Remove(p, name)), NEW k
    PROVE  NamesFrom(k) \subseteq NamesFrom(k)'
  <1> DEFINE c == call[p]
             n == Num_Dentry
  <1>1. \A q \in Proc : q # p => call'[q] = call[q]
    BY OthersKept DEF Basics
  <1>2. n \in Nat /\ call \in [Proc -> Call] /\ c \in Call /\ Exclusive /\ dentry_array \in [Slot -> Dentry]
    BY DEF Basics, Types
  <1>3. ASSUME UNCHANGED directory, call'[p].pc # "copy dentry" \/ call'[p] = c
        PROVE  NamesFrom(k) \subseteq NamesFrom(k)'
    <2>1. \A s : Copying(s)' => Copying(s)
      BY <1>1, <1>3 DEF Copying
    <2> QED BY <1>3, <2>1 DEF NamesFrom, directory
  <1>4. CASE StoreNumDentry(p)
    <2>1. c.pc = "store dentry" /\ c.reg = n /\ Go(p, "copy dentry") /\ dentry_array' = dentry_array /\ Writing(p)
      BY <1>4 DEF StoreNumDentry, At, Working, Basics, Writing, CreatePc
    <2>2. n' = n + 1
      BY <1>4, <2>1 DEF StoreNumDentry
    <2>3. call'[p].pc = "copy dentry" /\ call'[p].reg = n
      BY <1>2, <2>1, Gone DEF Pc
    <2>4. \A s : Copying(s)' => s = n
      <3>1. \A q \in Proc : Writing(q) => q = p
        BY <1>2, <2>1 DEF Exclusive
      <3>2. \A q \in Proc : call'[q].pc = "copy dentry" => q = p
        BY <1>1, <3>1 DEF Writing, CreatePc
      <3> QED BY <2>3, <3>2 DEF Copying
    <2>5. \A r \in 0 .. n - 1 : r \in 0 .. n' - 1 /\ r # n
      <3>1. n \in Nat /\ n' = n + 1
        BY <1>2, <2>2
      <3> QED BY <3>1
    <2> QED BY <2>1, <2>4, <2>5 DEF NamesFrom
  <1>5. CASE CopyDentry(p)
    <2>1. c.pc = "copy dentry" /\ n' = n /\ Writing(p)
      BY <1>5 DEF CopyDentry, At, Writing, CreatePc
    <2>2. \A s \in Slot : s # c.reg => dentry_array'[s] = dentry_array[s]
      BY <1>2, <1>5 DEF CopyDentry
    <2>3. Copying(c.reg)
      BY <2>1 DEF Copying
    <2>4. call'[p].pc = "write"
      <3> DEFINE d == call'[p]
                 i == c.inode
      <3>1. d = [c EXCEPT !.inode = i, !.pc = "write"]
        BY <1>2, <1>5 DEF CopyDentry, Created
      <3> HIDE DEF c, d, i
      <3>2. d.pc = "write"
        BY <1>2, <3>1 DEF Call
      <3> QED BY <3>2 DEF d
    <2>5. \A s : Copying(s)' => Copying(s)
      BY <1>1, <2>4 DEF Copying
    <2>6. \A r \in 0 .. n - 1 : r \in Slot
      BY ListedSlots DEF Basics
    <2>7. \A r \in 0 .. n - 1 : ~Copying(r) => dentry_array'[r] = dentry_array[r] /\ ~Copying(r)'
      BY <2>2, <2>3, <2>5, <2>6
    <2> QED BY <2>1, <2>7 DEF NamesFrom
  <1>6. CASE ~(StoreNumDentry(p) \/ CopyDentry(p))
    <2>1. UNCHANGED directory /\ call'[p].pc # "copy dentry"
      <3>1. CASE Enter(p)
        BY <3>1, EnterPlaces DEF Enter, Open, OpenFails, Close, Restart, Write, Read
      <3>2. CASE WriteData(p)
        <4>1. UNCHANGED directory
          BY <3>2 DEF WriteData, WriteHead, LoadLen, StoreLen, TakeBlock, Fill, WriteReturn
        <4> QED BY <3>2, <4>1, WritePlaces DEF WritePc
      <3>3. CASE ReadData(p)
        BY <3>3, ReadPlaces
      <3>4. CASE CreateCheck(p) \/ TakeInode(p)
        <4> DEFINE d == call'[p]
                   i == Popped(Free_inode_list, Free_inode_list_len)
        <4>1. UNCHANGED directory
          BY <3>4 DEF CreateCheck, TakeInode
        <4>2. \/ d = [c EXCEPT !.inode = NoInode, !.pc = "write"]
              \/ d = [c EXCEPT !.pc = "load inode"]
              \/ d = [c EXCEPT !.inode = i, !.pc = "load dentry"]
          BY <1>2, <3>4 DEF CreateCheck, TakeInode, Created, Go
        <4> HIDE DEF c, d, i
        <4>3. d.pc \in {"write", "load inode", "load dentry"}
          BY <1>2, <4>2 DEF Call
        <4> QED BY <4>1, <4>3 DEF d
      <3>5. CASE LoadInodeLen(p)
        <4> DEFINE d == call'[p]
        <4>1. UNCHANGED directory /\ d = [c EXCEPT !.reg = Free_inode_list_len, !.pc = "store inode"]
          BY <1>2, <3>5 DEF LoadInodeLen
        <4> HIDE DEF c, d
        <4>2. d.pc = "store inode"
          BY <1>2, <4>1 DEF Call
        <4> QED BY <4>1, <4>2 DEF d
      <3>6. CASE StoreInodeLen(p)
        BY <1>2, <3>6, Gone DEF StoreInodeLen, Pc
      <3>7. CASE LoadNumDentry(p)
        <4> DEFINE d == call'[p]
        <4>1. UNCHANGED directory /\ d = [c EXCEPT !.reg = Num_Dentry, !.pc = "store dentry"]
          BY <1>2, <3>7 DEF LoadNumDentry
        <4> HIDE DEF c, d
        <4>2. d.pc = "store dentry"
          BY <1>2, <4>1 DEF Call
        <4> QED BY <4>1, <4>2 DEF d
      <3> QED BY <1>6, <3>1, <3>2, <3>3, <3>4, <3>5, <3>6, <3>7 DEF Inside, Create
    <2> QED BY <1>3, <2>1
  <1> QED BY <1>4, <1>5, <1>6

LEMMA ListingNext ==
    ASSUME Basics, Orderly, OnlyCreates, \A p \in Proc : Kinds(p), ListNext, \A p \in Proc : Listing(p)
    PROVE  \A p \in Proc : Listing(p)'
  <1>1. PICK p \in Proc : Enter(p) \/ Inside(p)
    BY DEF ListNext, Next
  <1>2. ~(\E name \in Name : Remove(p, name))
    BY DEF OnlyCreates, Remove, Calls
  <1>3. \A k : NamesFrom(k) \subseteq NamesFrom(k)'
    BY <1>1, <1>2, NamesKept
  <1>4. \A q \in Proc :
           /\ AtFirst(q) => due'[q] = Present
           /\ ~AtFirst(q) => due'[q] = due[q] /\ seen[q] \subseteq seen'[q]
           /\ ~AtFirst(q) /\ Seeing(q) => seen'[q] = seen[q] \cup {dentry_array[call[q].off].name}
    BY DEF ListNext
  <1>5. \A q \in Proc : ~AtFirst(q) => \A k : Listed(q, k) => Listed(q, k)'
    BY <1>3, <1>4 DEF Listed
  <1>6. \A q \in Proc : AtFirst(q) => \A fd \in Fd : file_array[q][fd].pos = 0
    <2> SUFFICES ASSUME NEW q \in Proc, AtFirst(q), NEW fd \in Fd PROVE file_array[q][fd].pos = 0
      OBVIOUS
    <2>1. call[q].fd \in Fd
      BY DEF AtFirst, Basics, Private
    <2>2. call[q].fd = fd
      BY <2>1 DEF OnlyCreates
    <2> QED BY <2>2 DEF AtFirst, Kinds, ListPc, Mine
  <1>7. \A q \in Proc : q # p => Listing(q)'
    <2> SUFFICES ASSUME NEW q \in Proc, q # p PROVE Listing(q)'
      OBVIOUS
    <2>1. call'[q] = call[q] /\ file_array'[q] = file_array[q]
      BY <1>1, OthersKept DEF Basics
    <2>2. CASE AtFirst(q)
      <3>1. \A fd \in Fd : file_array'[q][fd].pos = 0
        BY <1>6, <2>1, <2>2
      <3>2. call'[q].pc # "list name"
        BY <2>1, <2>2 DEF AtFirst
      <3>3. \A fd \in Fd : ~(file_array'[q][fd].pos > 0)
        BY <3>1
      <3> QED BY <3>2, <3>3 DEF Listing
    <2>3. CASE ~AtFirst(q)
      BY <1>5, <2>1, <2>3 DEF Listing
    <2> QED BY <2>2, <2>3
  <1> DEFINE c == call[p]
             d == call'[p]
  <1>8. d.pc = "list name" => c.pc = "list" /\ d.off = c.off
    <2>1. CASE Enter(p)
      BY <2>1, EnterPlaces
    <2>2. CASE Inside(p)
      <3> HAVE d.pc = "list name"
      <3> QED BY <2>2, CallStep DEF ListPc
    <2> QED BY <1>1, <2>1, <2>2
  <1>9. ASSUME AtFirst(p) PROVE Listing(p)'
    <2>1. c.pc = "list" /\ c.off = 0
      BY <1>9 DEF AtFirst
    <2>2. \A fd \in Fd : file_array'[p][fd].pos = 0
      <3> SUFFICES ASSUME NEW fd \in Fd PROVE file_array'[p][fd].pos = 0
        OBVIOUS
      <3>1. file_array'[p][fd] = file_array[p][fd] \/ file_array'[p][fd].pos = 0
        BY <1>1, <2>1, EntryStep DEF CreatePc
      <3> QED BY <1>6, <1>9, <3>1
    <2>3. Present = NamesFrom(0)
      <3>1. \A r \in 0 .. Num_Dentry - 1 : r >= 0
        BY DEF Basics, Types
      <3> QED BY <3>1 DEF Present, NamesFrom
    <2>4. Listed(p, 0)'
      BY <1>3, <1>4, <1>9, <2>3 DEF Listed
    <2> QED BY <1>8, <2>1, <2>2, <2>4 DEF Listing
  <1>10. ASSUME ~AtFirst(p) PROVE Listing(p)'
    <2>1. \A k : Listed(p, k) => Listed(p, k)'
      BY <1>5, <1>10
    <2>2. ASSUME d.pc = "list name", NEW k, k = d.off PROVE Listed(p, k)'
      <3>1. c.pc = "list" /\ d.off = c.off /\ c.off \in Nat /\ c.fd \in Fd
        BY <1>8, <2>2 DEF Basics, Types, Call, Private
      <3>2. c.off > 0
        <4>1. c.off # 0
          BY <1>10, <3>1 DEF AtFirst
        <4> HIDE DEF c
        <4> QED BY <3>1, <4>1
      <3>3. Mine(p).kind = "dir" /\ Mine(p).pos = c.off
        BY <3>1 DEF Kinds, ListPc
      <3>4. Listed(p, c.off)
        BY <3>1, <3>2, <3>3 DEF Listing, Mine
      <3> QED BY <2>1, <2>2, <3>1, <3>4
    <2>3. ASSUME NEW fd \in Fd, file_array'[p][fd].kind = "dir", file_array'[p][fd].pos > 0,
                 NEW n, n = file_array'[p][fd].pos
          PROVE  Listed(p, n)'
      <3> DEFINE e == file_array[p][fd]
                 f == file_array'[p][fd]
      <3>1. e.kind = "dir" /\ e.pos > 0 => Listed(p, e.pos)
        BY DEF Listing
      <3>2. \/ f = e
            \/ f.pos = 0
            \/ f.kind = e.kind /\ f.pos = e.pos
            \/ /\ fd = c.fd /\ c.pc \in {"written", "got", "list name"}
               /\ f.kind = e.kind
               /\ c.pc = "list name" => f.pos = Unsigned(e.pos + 1)
        BY <1>1, EntryStep
      <3>3. CASE f.kind = e.kind /\ f.pos = e.pos
        <4>1. e.kind = "dir" /\ e.pos > 0 /\ n = e.pos
          BY <2>3, <3>3
        <4>2. Listed(p, n)
          BY <3>1, <4>1
        <4> QED BY <2>1, <4>2
      <3>4. CASE fd = c.fd /\ c.pc \in {"written", "got"} /\ f.kind = e.kind
        BY <2>3, <3>4 DEF Kinds, ListPc, Mine
      <3>5. CASE fd = c.fd /\ c.pc = "list name" /\ f.pos = Unsigned(e.pos + 1)
        <4> PICK k : k = c.off
          OBVIOUS
        <4>1. e.pos = k /\ Listed(p, k) /\ k \in 0 .. Word - 1
          <5>1. e.pos = c.off
            BY <3>5 DEF Kinds, ListPc, Mine
          <5>2. e.pos \in 0 .. Word - 1
            BY DEF Basics, Types, Entry
          <5> QED BY <3>5, <5>1, <5>2 DEF Listing
        <4>2. f.pos = k + 1
          <5> DEFINE y == f.pos
          <5>1. y = (k + 1) % Word /\ y > 0 /\ k \in 0 .. Word - 1
            BY <2>3, <3>5, <4>1 DEF Unsigned
          <5> HIDE DEF y
          <5>2. y = k + 1
            BY <5>1, Sizes
          <5> QED BY <5>2 DEF y
        <4>3. ListName(p)
          <5>1. ~Enter(p) /\ ~Create(p) /\ ~WriteData(p)
            BY <3>5, EnterPlaces, CreatePlaces, WritePlaces DEF CreatePc, WritePc
          <5> QED BY <1>1, <3>5, <5>1 DEF Inside, ReadData, ReadHead, ReadByte, ReadReturn, ListCheck, At
        <4>4. d.pc = "user"
          <5>1. d = InUser
            BY <4>3 DEF ListName, Basics, Types
          <5> QED BY <5>1 DEF InUser
        <4>5. seen'[p] = seen[p] \cup {dentry_array[k].name}
          BY <1>4, <1>10, <3>5, <4>4 DEF Seeing
        <4>6. NamesFrom(k) \subseteq {dentry_array[k].name} \cup NamesFrom(k + 1)
          <5>1. k \in Nat /\ Num_Dentry \in Nat
            BY <4>1, Sizes DEF Basics, Types
          <5>2. \A r \in 0 .. Num_Dentry - 1 : r >= k => r = k \/ r >= k + 1
            BY <5>1
          <5> QED BY <5>2 DEF NamesFrom
        <4>7. due'[p] = due[p] /\ NamesFrom(k + 1) \subseteq NamesFrom(k + 1)'
          BY <1>3, <1>4, <1>10
        <4>8. Listed(p, k + 1)'
          BY <4>1, <4>5, <4>6, <4>7 DEF Listed
        <4> QED BY <2>3, <4>2, <4>8
      <3>6. CASE f.pos = 0
        BY <2>3, <3>6
      <3> QED BY <3>2, <3>3, <3>4, <3>5, <3>6
    <2> QED BY <2>2, <2>3 DEF Listing
  <1>11. Listing(p)'
    BY <1>9, <1>10
  <1> QED BY <1>7, <1>11

(***************************************************************************)
(* dir_read of filesys.c returns the name at file_pos and read moves on by *)
(* one: a process that reads on until nothing comes has seen every file    *)
(* there was when it began, also while another creates files, for any      *)
(* number of processes and entries, if nobody removes a file meanwhile.    *)
(***************************************************************************)
THEOREM ListingIsComplete == ASSUME Orderly, OnlyCreates PROVE FairListSpec => ListingComplete
  <1> DEFINE A == \A p \in Proc :
                 call[p].pc = "list" /\ call[p].off = Num_Dentry /\ call'[p].pc = "user" =>
                     due[p] \subseteq seen[p]
             AllKinds == \A p \in Proc : Kinds(p)
             AllListing == \A p \in Proc : Listing(p)
  <1>1. ListInit => Init
    BY DEF ListInit
  <1>2. [ListNext]_listVars => [Next]_vars
    BY DEF ListNext, listVars
  <1>3. ListInit => AllListing
    <2> SUFFICES ASSUME ListInit, NEW p \in Proc PROVE Listing(p)
      OBVIOUS
    <2>1. call[p].pc = "user" /\ \A fd \in Fd : file_array[p][fd].kind = "none"
      BY DEF ListInit, Init, InUser, FreeEntry
    <2> QED BY <2>1 DEF Listing
  <1>4. Basics /\ AllKinds /\ AllListing /\ [ListNext]_listVars => AllListing'
    <2> SUFFICES ASSUME Basics, AllKinds, AllListing, [ListNext]_listVars PROVE AllListing'
      OBVIOUS
    <2>1. CASE ListNext
      BY <2>1, ListingNext
    <2>2. CASE UNCHANGED listVars
      <3>1. /\ call' = call /\ file_array' = file_array /\ seen' = seen /\ due' = due
            /\ dentry_array' = dentry_array /\ Num_Dentry' = Num_Dentry
        BY <2>2 DEF listVars, vars, directory
      <3>2. \A k : NamesFrom(k)' = NamesFrom(k)
        BY <3>1 DEF NamesFrom, Copying
      <3>3. \A p \in Proc : Listing(p)'
        BY <3>1, <3>2 DEF Listing, Listed
      <3> QED BY <3>3
    <2> QED BY <2>1, <2>2
  <1>5. Basics /\ AllKinds /\ AllListing => [A]_listVars
    <2> SUFFICES ASSUME Basics, AllKinds, AllListing, NEW p \in Proc,
                        call[p].pc = "list", call[p].off = Num_Dentry
                 PROVE  due[p] \subseteq seen[p]
      OBVIOUS
    <2>1. Num_Dentry \in Nat /\ Num_Dentry > 0 /\ call[p].fd \in Fd
      <3>1. Num_Dentry \in 1 .. MaxDentry
        BY DEF Basics, Types
      <3>2. call[p].fd \in Fd
        BY DEF Basics, Private
      <3> QED BY <3>1, <3>2, Sizes
    <2>2. Mine(p).kind = "dir" /\ Mine(p).pos = Num_Dentry
      BY DEF Kinds, ListPc
    <2>3. Listed(p, Num_Dentry)
      BY <2>1, <2>2 DEF Listing, Mine
    <2>4. NamesFrom(Num_Dentry) = {}
      <3>1. \A r \in 0 .. Num_Dentry - 1 : ~(r >= Num_Dentry)
        BY <2>1
      <3> QED BY <3>1 DEF NamesFrom
    <2> QED BY <2>3, <2>4 DEF Listed
  <1> HIDE DEF A, AllKinds, AllListing
  <1>6. Spec => []Basics /\ []AllKinds
    <2>1. Spec => []AllKinds
      BY AlwaysKinds DEF AllKinds
    <2> QED BY <2>1, AlwaysBasics, PTL
  <1>7. FairListSpec => Spec
    BY <1>1, <1>2, PTL DEF FairListSpec, Spec
  <1>8. FairListSpec => []AllListing
    BY <1>3, <1>4, <1>6, <1>7, PTL DEF FairListSpec
  <1>9. FairListSpec => [][A]_listVars
    BY <1>5, <1>6, <1>7, <1>8, PTL
  <1> QED BY <1>9 DEF A, ListingComplete

=============================================================================
