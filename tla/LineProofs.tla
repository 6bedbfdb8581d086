----------------------------- MODULE LineProofs -----------------------------
(***************************************************************************)
(* Proofs about Line, for any number of terminals, letters and lines and   *)
(* buffers of any size.                                                    *)
(***************************************************************************)
EXTENDS MCLine, FiniteSetTheorems, SequenceTheorems, TLAPS

-----------------------------------------------------------------------------
(***************************************************************************)
(* The environment of the proofs: nothing is typed while a line waits, no  *)
(* interrupt comes inside the handler, and a line is either recalled from  *)
(* the history or edited in a way that leaves letters behind its end.      *)
(***************************************************************************)
Tidy == {"backspace", "ctrl_l", "switch"} \cap Keys = {}
NoRecall == {"up", "down"} \cap Keys = {}
Orderly == Patient /\ Calm /\ (NoRecall \/ Tidy)

Buffer == [Cell -> Char]
Tab == [pc : {"tab"}, on : Terminal, k : Nat, word : Seq(Letters)]
Switch == [pc : {"stored", "named"}, on : Terminal, to : Terminal]
Switching == handler.pc \in {"stored", "named"}
Sent == {line \in Seq(Char) :
            /\ Len(line) > 0 /\ line[Len(line)] = NL
            /\ \A i \in 1 .. Len(line) - 1 : line[i] \in Letters}

(* The buffer `mem' holds `line' up to the index. *)
Edits(mem, idx, line) ==
    /\ mem \in Buffer /\ idx \in Cell /\ line \in Seq(Letters) /\ Len(line) = idx
    /\ \A i \in 1 .. idx : mem[i - 1] = line[i]

(* Nothing waits in it, and nothing is left from what was typed before. *)
Clear(mem, idx) ==
    /\ \A c \in Cell : mem[c] # NL
    /\ Tidy => \A c \in Cell : c >= idx => mem[c] = NUL

(* A line waits in it. *)
Holds(mem, idx, line) ==
    /\ idx = 0 /\ Len(line) <= BufSize
    /\ \A i \in 1 .. Len(line) : mem[i - 1] = line[i]
    /\ Tidy => \A c \in Cell : c >= Len(line) => mem[c] = NUL

Good(t, mem, idx) ==
    /\ Edits(mem, idx, typed[t])
    /\ IF Waiting(t) THEN Holds(mem, idx, sent[t][Len(sent[t])]) ELSE Clear(mem, idx)

Types ==
    /\ keyboard_buffer \in Buffer /\ kb_buf_idx \in Cell
    /\ saved \in [Terminal -> [buf : Buffer, idx : Cell]]
    /\ display \in Terminal /\ terminal_now \in Terminal /\ started \in SUBSET Terminal
    /\ terminal_now \in started /\ (handler.pc # "named" => display \in started)
    /\ reading \in [Terminal -> Sizes \cup {-1}]
    /\ command_list \in [HistCell -> Char]
    /\ command_total \in [Terminal -> Nat] /\ command_count \in [Terminal -> Nat]
    /\ \A t \in Terminal : command_count[t] <= command_total[t]
    /\ fds \in [Terminal -> 0 .. NumFd]
    /\ handler \in {Idle} \cup Tab \cup Switch
    /\ typed \in [Terminal -> Seq(Letters)]
    /\ sent \in [Terminal -> Seq(Sent)]
    /\ got \in [Terminal -> Seq([num : Sizes, bytes : Seq(Char)])]

(* A handler under way is a completion or a switch, by its place. *)
LEMMA HandlerKinds ==
    ASSUME Types
    PROVE  /\ handler.pc = "tab" => handler \in Tab
           /\ Switching => handler \in Switch
  <1>1. CASE handler = Idle
    BY <1>1 DEF Idle, Switching
  <1>2. CASE handler \in Tab
    BY <1>2 DEF Tab, Switching
  <1>3. CASE handler \in Switch
    BY <1>3 DEF Switch
  <1> QED BY <1>1, <1>2, <1>3 DEF Types

(* The lines of a terminal. *)
Account(t) ==
    /\ Len(got[t]) <= Len(sent[t]) /\ Len(sent[t]) <= Len(got[t]) + 1
    /\ command_total[t] = Len(got[t])
    /\ t \notin started => typed[t] = <<>> /\ sent[t] = <<>> /\ got[t] = <<>> /\ reading[t] = -1

(* A completion begins where no line waits, and so does a switch to a        *)
(* terminal without a process.                                             *)
Handled ==
    /\ handler.pc = "tab" => /\ handler.k <= kb_buf_idx /\ handler.word = WordOf(handler.k)
                             /\ ~Waiting(display) /\ fds[handler.on] > 0 /\ "tab" \in Keys
    /\ Switching /\ handler.to \notin started => Clear(keyboard_buffer, 0)
    /\ handler.pc = "named" => display = handler.to

Sound ==
    /\ Types /\ Handled
    /\ \A t \in Terminal : Account(t)
    /\ ~Switching => Good(display, keyboard_buffer, kb_buf_idx)
    /\ \A t \in started : Switching \/ t # display => Good(t, saved[t].buf, saved[t].idx)
    /\ Tidy => \A c \in HistCell : command_list[c] # NL

(* The rows of the history, and the first row while it is not yet one. *)
Rows ==
    \A t \in Terminal :
        /\ \A n \in DOMAIN got[t] :
              /\ \A i \in 1 .. Len(sent[t][n]) - 1 : command_list[Row(t, n - 1) + i - 1] = sent[t][n][i]
              /\ command_list[Row(t, n - 1) + Len(sent[t][n]) - 1] = NUL
        /\ got[t] = <<>> => command_list[Row(t, 0)] = NUL

(* Each line has a row of its own. *)
RowEach == Tidy /\ MaxEntered < Width /\ MaxLines <= MaxHist
-----------------------------------------------------------------------------
LEMMA Parts ==
    /\ BufSize \in Nat /\ BufSize > 1 /\ Cell = 0 .. BufSize - 1 /\ 0 \in Cell /\ 1 \in Cell
    /\ Cell \in SUBSET Int /\ HistCell \in SUBSET Int
    /\ NL \notin Letters /\ NUL \notin Letters /\ NL # NUL
    /\ Letters \subseteq Char /\ NUL \in Char /\ NL \in Char /\ Ell \in Letters
    /\ NumTerm \in Nat /\ NumTerm > 0 /\ Width \in Nat /\ Width > 0 /\ MaxHist \in Nat /\ MaxHist > 0
    /\ NumFd \in Nat /\ MaxLines \in Nat /\ MaxEntered \in Nat /\ Sizes \subseteq Nat
    /\ Names \subseteq Seq(Letters) /\ Terminal \subseteq Nat
  <1>1. NL # NUL
    BY DEF NL, NUL
  <1>2. NL \notin Letters /\ NUL \notin Letters /\ Ell \in Letters
    BY LineAssumption
  <1>3. /\ BufSize \in Nat /\ BufSize > 1
        /\ NumTerm \in Nat /\ NumTerm > 0 /\ Width \in Nat /\ Width > 0 /\ MaxHist \in Nat /\ MaxHist > 0
        /\ NumFd \in Nat /\ MaxLines \in Nat /\ MaxEntered \in Nat /\ Sizes \subseteq Nat
        /\ Names \subseteq Seq(Letters)
    BY LineAssumption
  <1>4. Cell = 0 .. BufSize - 1 /\ 0 \in Cell /\ 1 \in Cell /\ Cell \in SUBSET Int /\ HistCell \in SUBSET Int
    BY <1>3 DEF Cell, HistCell
  <1>5. Terminal \subseteq Nat
    BY <1>3 DEF Terminal
  <1> QED BY <1>1, <1>2, <1>3, <1>4, <1>5 DEF Char

(* What Put makes of an array. *)
LEMMA PutStores ==
    ASSUME NEW D \in SUBSET Int, NEW mem \in [D -> Char], NEW at \in Nat, NEW s \in Seq(Char)
    PROVE  LET m == Put(mem, at, s) IN
           /\ m \in [D -> Char]
           /\ \A c \in D : c < at => m[c] = mem[c]
           /\ \A c \in D : c >= at + Len(s) => m[c] = mem[c]
           /\ \A i \in 1 .. Len(s) : at + i - 1 \in D => m[at + i - 1] = s[i]
           /\ \A c \in D : m[c] = mem[c] \/ \E i \in 1 .. Len(s) : m[c] = s[i]
  <1> DEFINE m == Put(mem, at, s)
             n == Len(s)
  <1>1. DOMAIN s = 1 .. n /\ n \in Nat /\ DOMAIN mem = D
    OBVIOUS
  <1>2. m = [c \in D |-> IF c - at + 1 \in 1 .. n THEN s[c - at + 1] ELSE mem[c]]
    BY <1>1 DEF Put
  <1>3. \A i \in 1 .. n : s[i] \in Char
    BY <1>1
  <1> HIDE DEF n, m
  <1>4. \A c \in D : m[c] = IF c - at + 1 \in 1 .. n THEN s[c - at + 1] ELSE mem[c]
    BY <1>2
  <1>5. m \in [D -> Char]
    <2>1. \A c \in D : (IF c - at + 1 \in 1 .. n THEN s[c - at + 1] ELSE mem[c]) \in Char
      BY <1>3
    <2> QED BY <1>2, <2>1
  <1>6. \A c \in D : c < at \/ c >= at + n => c - at + 1 \notin 1 .. n
    BY <1>1
  <1>7. \A i \in 1 .. n : at + i - 1 \in D => (at + i - 1) - at + 1 = i
    BY <1>1
  <1>8. \A i \in 1 .. n : at + i - 1 \in D => m[at + i - 1] = s[i]
    BY <1>4, <1>7
  <1> QED BY <1>4, <1>5, <1>6, <1>8 DEF m, n

LEMMA OneStored ==
    ASSUME NEW mem \in Buffer, NEW at \in Cell, NEW x \in Char
    PROVE  LET m == Put(mem, at, <<x>>) IN
           m \in Buffer /\ m[at] = x /\ \A c \in Cell : c # at => m[c] = mem[c]
  <1> DEFINE s == <<x>>
             m == Put(mem, at, s)
  <1>1. s \in Seq(Char) /\ Len(s) = 1 /\ s[1] = x
    OBVIOUS
  <1>2. at \in Nat /\ Cell \in SUBSET Int
    BY Parts
  <1> HIDE DEF s
  <1>a. mem \in [Cell -> Char]
    BY DEF Buffer
  <1>b. /\ m \in [Cell -> Char]
        /\ \A c \in Cell : c < at => m[c] = mem[c]
        /\ \A c \in Cell : c >= at + Len(s) => m[c] = mem[c]
        /\ \A i \in 1 .. Len(s) : at + i - 1 \in Cell => m[at + i - 1] = s[i]
    BY <1>1, <1>2, <1>a, PutStores
  <1>3. /\ m \in [Cell -> Char]
        /\ \A c \in Cell : c < at => m[c] = mem[c]
        /\ \A c \in Cell : c >= at + 1 => m[c] = mem[c]
        /\ \A i \in 1 .. 1 : at + i - 1 \in Cell => m[at + i - 1] = s[i]
    BY <1>1, <1>b
  <1>4. \A c \in Cell : c # at => c < at \/ c >= at + 1
    BY <1>2
  <1>5. at + 1 - 1 = at /\ 1 \in 1 .. 1
    BY <1>2
  <1>6. m[at] = x
    BY <1>1, <1>3, <1>5
  <1> HIDE DEF m
  <1> QED BY <1>3, <1>4, <1>6 DEF Buffer, m, s

-----------------------------------------------------------------------------
(***************************************************************************)
(* What the keys make of a buffer in which no line waits.                  *)
(***************************************************************************)
LEMMA TypedOne ==
    ASSUME NEW mem, NEW idx, NEW line, Edits(mem, idx, line), Clear(mem, idx),
           idx < BufSize - 1, NEW c \in Letters
    PROVE  LET m == Put(mem, idx, <<c>>) IN
           Edits(m, idx + 1, Append(line, c)) /\ Clear(m, idx + 1)
  <1> DEFINE m == Put(mem, idx, <<c>>)
             new == Append(line, c)
  <1>1. mem \in Buffer /\ idx \in Cell /\ c \in Char /\ idx \in Nat /\ idx + 1 \in Cell
    BY Parts DEF Edits
  <1>2. m \in Buffer /\ m[idx] = c /\ \A d \in Cell : d # idx => m[d] = mem[d]
    BY <1>1, OneStored
  <1>3. /\ new \in Seq(Letters) /\ Len(new) = idx + 1 /\ new[idx + 1] = c
        /\ \A i \in 1 .. idx : new[i] = line[i]
    BY <1>1, AppendProperties DEF Edits
  <1> HIDE DEF m, new
  <1>4. \A i \in 1 .. idx + 1 : m[i - 1] = new[i]
    <2> TAKE i \in 1 .. idx + 1
    <2>1. CASE i = idx + 1
      BY <1>1, <1>2, <1>3, <2>1
    <2>2. CASE i # idx + 1
      <3>1. i \in 1 .. idx /\ i - 1 \in Cell /\ i - 1 # idx
        BY <1>1, <2>2, Parts
      <3> QED BY <1>2, <1>3, <3>1 DEF Edits
    <2> QED BY <2>1, <2>2
  <1>5. Clear(m, idx + 1)
    <2>1. c # NL
      BY Parts
    <2>2. \A d \in Cell : d >= idx + 1 => d # idx /\ d >= idx
      BY <1>1, Parts
    <2> QED BY <1>2, <2>1, <2>2 DEF Clear
  <1> QED BY <1>1, <1>2, <1>3, <1>4, <1>5 DEF Edits, m, new

LEMMA ErasedOne ==
    ASSUME NEW mem, NEW idx, NEW line, Edits(mem, idx, line), idx > 0
    PROVE  Edits(mem, idx - 1, SubSeq(line, 1, Len(line) - 1))
  <1> DEFINE new == SubSeq(line, 1, Len(line) - 1)
  <1>1. /\ mem \in Buffer /\ idx \in Nat /\ idx - 1 \in Cell /\ line \in Seq(Letters) /\ Len(line) = idx
        /\ idx - 1 \in Nat /\ \A i \in 1 .. idx - 1 : i \in 1 .. idx
    BY Parts DEF Edits
  <1>2. new \in Seq(Letters) /\ Len(new) = idx - 1 /\ \A i \in 1 .. idx - 1 : new[i] = line[i]
    <2>1. \A i \in 1 .. idx - 1 : line[i] \in Letters
      BY <1>1
    <2> QED BY <1>1, <2>1, SubSeqProperties
  <1> HIDE DEF new
  <1> QED BY <1>1, <1>2 DEF Edits, new

LEMMA SentOne ==
    ASSUME NEW mem, NEW idx, NEW line, Edits(mem, idx, line), Clear(mem, idx)
    PROVE  LET m == Put(mem, idx, <<NL>>) IN
           /\ Edits(m, 0, <<>>) /\ Holds(m, 0, Append(line, NL)) /\ Append(line, NL) \in Sent
  <1> DEFINE m == Put(mem, idx, <<NL>>)
             new == Append(line, NL)
  <1>1. /\ mem \in Buffer /\ idx \in Cell /\ NL \in Char /\ idx \in Nat /\ idx + 1 <= BufSize
        /\ line \in Seq(Letters) /\ Len(line) = idx
    BY Parts DEF Edits
  <1>2. m \in Buffer /\ m[idx] = NL /\ \A d \in Cell : d # idx => m[d] = mem[d]
    BY <1>1, OneStored
  <1>3. /\ new \in Seq(Char) /\ Len(new) = idx + 1 /\ new[idx + 1] = NL
        /\ \A i \in 1 .. idx : new[i] = line[i] /\ new[i] \in Letters
    <2>1. line \in Seq(Char) /\ \A i \in 1 .. idx : line[i] \in Letters
      BY <1>1, Parts
    <2> QED BY <1>1, <2>1, AppendProperties
  <1> HIDE DEF m, new
  <1>4. \A i \in 1 .. idx + 1 : m[i - 1] = new[i]
    <2> TAKE i \in 1 .. idx + 1
    <2>1. CASE i = idx + 1
      BY <1>1, <1>2, <1>3, <2>1
    <2>2. CASE i # idx + 1
      <3>1. i \in 1 .. idx /\ i - 1 \in Cell /\ i - 1 # idx
        BY <1>1, <2>2, Parts
      <3> QED BY <1>2, <1>3, <3>1 DEF Edits
    <2> QED BY <2>1, <2>2
  <1>5. \A d \in Cell : d >= idx + 1 => d # idx /\ d >= idx
    BY <1>1, Parts
  <1>6. Holds(m, 0, new)
    BY <1>1, <1>2, <1>3, <1>4, <1>5 DEF Holds, Clear
  <1>7. Edits(m, 0, <<>>)
    BY <1>2, Parts DEF Edits
  <1>8. new \in Sent
    <2>1. idx + 1 - 1 = idx /\ idx + 1 > 0
      BY <1>1
    <2>2. Len(new) > 0 /\ new[Len(new)] = NL
      BY <1>3, <2>1
    <2>3. \A i \in 1 .. Len(new) - 1 : new[i] \in Letters
      <3>1. Len(new) - 1 = idx
        BY <1>1, <1>3
      <3> QED BY <1>3, <3>1
    <2> QED BY <1>3, <2>2, <2>3 DEF Sent
  <1> QED BY <1>6, <1>7, <1>8 DEF m, new

LEMMA Emptied ==
    ASSUME NEW mem \in Buffer, Clear(mem, 0)
    PROVE  LET m == Put(mem, 0, <<NUL>>) IN Edits(m, 0, <<>>) /\ Clear(m, 0)
  <1> DEFINE m == Put(mem, 0, <<NUL>>)
  <1>a. 0 \in Cell /\ NUL \in Char
    BY Parts
  <1>1. m \in Buffer /\ m[0] = NUL /\ \A d \in Cell : d # 0 => m[d] = mem[d]
    BY <1>a, OneStored
  <1> HIDE DEF m
  <1>2. Edits(m, 0, <<>>)
    BY <1>1, Parts DEF Edits
  <1>3. Clear(m, 0)
    BY <1>1, Parts DEF Clear
  <1> QED BY <1>2, <1>3 DEF m

LEMMA OnlyEll ==
    ASSUME NEW mem \in Buffer, \A c \in Cell : mem[c] # NL, ~Tidy
    PROVE  LET m == Put(mem, 0, <<Ell>>) IN Edits(m, 1, <<Ell>>) /\ Clear(m, 1)
  <1> DEFINE m == Put(mem, 0, <<Ell>>)
             new == <<Ell>>
  <1>a. 0 \in Cell /\ Ell \in Char
    BY Parts
  <1>1. m \in Buffer /\ m[0] = Ell /\ \A d \in Cell : d # 0 => m[d] = mem[d]
    BY <1>a, OneStored
  <1>2. new \in Seq(Letters) /\ Len(new) = 1 /\ new[1] = Ell
    BY Parts
  <1> HIDE DEF m, new
  <1>3. \A i \in 1 .. 1 : i - 1 = 0 /\ i = 1
    OBVIOUS
  <1>4. Edits(m, 1, new)
    BY <1>1, <1>2, <1>3, Parts DEF Edits
  <1>5. Clear(m, 1)
    BY <1>1, Parts DEF Clear
  <1> QED BY <1>4, <1>5 DEF m, new

LEMMA Recalled ==
    ASSUME NEW mem \in Buffer, \A c \in Cell : mem[c] = NUL,
           NEW line \in Seq(Letters), Len(line) < BufSize
    PROVE  LET m == Put(mem, 0, Append(line, NUL)) IN Edits(m, Len(line), line) /\ Clear(m, Len(line))
  <1> DEFINE m == Put(mem, 0, Append(line, NUL))
             s == Append(line, NUL)
             n == Len(line)
  <1>1. n \in Nat /\ n \in Cell /\ line \in Seq(Char) /\ \A i \in 1 .. n : line[i] \in Letters
    BY Parts
  <1>2. s \in Seq(Char) /\ Len(s) = n + 1 /\ s[n + 1] = NUL /\ \A i \in 1 .. n : s[i] = line[i]
    BY <1>1, Parts, AppendProperties
  <1>3. mem \in [Cell -> Char] /\ 0 \in Nat /\ Cell \in SUBSET Int
    BY Parts DEF Buffer
  <1> HIDE DEF s, n
  <1>4. /\ m \in [Cell -> Char]
        /\ \A c \in Cell : c >= 0 + Len(s) => m[c] = mem[c]
        /\ \A i \in 1 .. Len(s) : 0 + i - 1 \in Cell => m[0 + i - 1] = s[i]
        /\ \A c \in Cell : m[c] = mem[c] \/ \E i \in 1 .. Len(s) : m[c] = s[i]
    BY <1>2, <1>3, PutStores DEF s
  <1> HIDE DEF m
  <1>5. \A i \in 1 .. n + 1 : 0 + i - 1 = i - 1 /\ i - 1 \in Cell
    BY <1>1, Parts
  <1>6. \A i \in 1 .. n + 1 : m[i - 1] = s[i]
    BY <1>2, <1>4, <1>5
  <1>7. \A i \in 1 .. n : m[i - 1] = line[i]
    <2>1. \A i \in 1 .. n : i \in 1 .. n + 1
      BY <1>1
    <2> QED BY <1>2, <1>6, <2>1
  <1>8. m[n] = NUL
    <2>1. PICK j \in 1 .. n + 1 : j = n + 1 /\ j - 1 = n
      BY <1>1
    <2>2. m[j - 1] = s[j] /\ s[j] = NUL
      BY <1>2, <1>6, <2>1
    <2> QED BY <2>1, <2>2
  <1>9. \A c \in Cell : c >= n => m[c] = NUL
    <2>1. \A c \in Cell : c >= n => c = n \/ c >= 0 + (n + 1)
      BY <1>1, Parts
    <2> QED BY <1>2, <1>4, <1>8, <2>1
  <1>10. \A c \in Cell : m[c] # NL
    <2>1. \A i \in 1 .. n + 1 : s[i] # NL
      <3>1. \A i \in 1 .. n + 1 : i \in 1 .. n \/ i = n + 1
        BY <1>1
      <3> QED BY <1>1, <1>2, <3>1, Parts
    <2> QED BY <1>2, <1>4, <2>1, Parts
  <1>11. Edits(m, n, line)
    BY <1>1, <1>4, <1>7 DEF Edits, Buffer, n
  <1>12. Clear(m, n)
    BY <1>9, <1>10 DEF Clear
  <1> QED BY <1>11, <1>12 DEF m, s, n

LEMMA Completed ==
    ASSUME NEW mem, NEW idx, NEW line, Edits(mem, idx, line), Clear(mem, idx),
           NEW k \in Nat, k <= idx, NEW name \in Seq(Letters), k + Len(name) < BufSize,
           Tidy => Len(name) >= idx - k
    PROVE  LET m == Put(mem, k, name)
               new == SubSeq(line, 1, Len(line) - (idx - k)) \o name
           IN  Edits(m, k + Len(name), new) /\ Clear(m, k + Len(name))
  <1> DEFINE m == Put(mem, k, name)
             head == SubSeq(line, 1, Len(line) - (idx - k))
             new == head \o name
             n == Len(name)
  <1>1. /\ mem \in Buffer /\ idx \in Nat /\ line \in Seq(Letters) /\ Len(line) = idx
        /\ n \in Nat /\ k + n \in Cell /\ name \in Seq(Char) /\ \A i \in 1 .. n : name[i] \in Letters
        /\ Len(line) - (idx - k) = k
    BY Parts DEF Edits
  <1>2. head \in Seq(Letters) /\ Len(head) = k /\ \A i \in 1 .. k : head[i] = line[i]
    <2>1. \A i \in 1 .. k : line[i] \in Letters
      BY <1>1
    <2> QED BY <1>1, <2>1, SubSeqProperties
  <1> HIDE DEF head
  <1>3. /\ new \in Seq(Letters) /\ Len(new) = k + n
        /\ \A i \in 1 .. k + n : new[i] = IF i <= k THEN head[i] ELSE name[i - k]
    <2>1. head \in Seq(Letters) /\ name \in Seq(Letters)
      BY <1>2
    <2>2. /\ new \in Seq(Letters) /\ Len(new) = Len(head) + n
          /\ \A i \in 1 .. Len(head) + n : new[i] = IF i <= Len(head) THEN head[i] ELSE name[i - Len(head)]
      BY <2>1, ConcatProperties
    <2> HIDE DEF new
    <2> QED BY <1>2, <2>2
  <1>4. mem \in [Cell -> Char] /\ Cell \in SUBSET Int /\ name \in Seq(Char)
    BY <1>1, Parts DEF Buffer
  <1>5. /\ m \in [Cell -> Char]
        /\ \A c \in Cell : c < k => m[c] = mem[c]
        /\ \A c \in Cell : c >= k + n => m[c] = mem[c]
        /\ \A i \in 1 .. n : k + i - 1 \in Cell => m[k + i - 1] = name[i]
        /\ \A c \in Cell : m[c] = mem[c] \/ \E i \in 1 .. n : m[c] = name[i]
    BY <1>4, PutStores
  <1> HIDE DEF m, new, n
  <1>6. \A i \in 1 .. k + n : m[i - 1] = new[i]
    <2> TAKE i \in 1 .. k + n
    <2>1. i - 1 \in Cell
      BY <1>1, Parts
    <2>2. CASE i <= k
      <3>1. i \in 1 .. k /\ i \in 1 .. idx /\ i - 1 < k
        BY <1>1, <2>2
      <3> QED BY <1>2, <1>3, <1>5, <2>1, <2>2, <3>1 DEF Edits
    <2>3. CASE ~(i <= k)
      <3>1. i - k \in 1 .. n /\ k + (i - k) - 1 = i - 1
        BY <1>1, <2>3
      <3>2. m[i - 1] = name[i - k]
        BY <1>5, <2>1, <3>1
      <3> QED BY <1>3, <2>3, <3>2
    <2> QED BY <2>2, <2>3
  <1>7. Clear(m, k + n)
    <2>1. \A c \in Cell : m[c] # NL
      BY <1>1, <1>5, Parts DEF Clear
    <2>2. ASSUME Tidy, NEW c \in Cell, c >= k + n PROVE m[c] = NUL
      <3>1. c >= idx
        <4>1. n >= idx - k /\ c \in Int
          BY <2>2, <1>4 DEF n
        <4> QED BY <1>1, <2>2, <4>1
      <3> QED BY <1>5, <2>2, <3>1 DEF Clear
    <2> QED BY <2>1, <2>2 DEF Clear
  <1> QED BY <1>1, <1>3, <1>5, <1>6, <1>7 DEF Edits, Buffer, m, new, head, n

-----------------------------------------------------------------------------
(***************************************************************************)
(* Strings, and the newline of a line that waits.                          *)
(***************************************************************************)
LEMMA FirstOf ==
    ASSUME NEW S \in SUBSET Nat, S # {}
    PROVE  \E x \in S : \A y \in S : x <= y
  <1> DEFINE UpTo(n) == {y \in S : y <= n}
             T == {UpTo(n) : n \in S}
  <1>1. T \subseteq FiniteSubsetsOf(Nat)
    <2>1. \A n \in S : UpTo(n) \in SUBSET Nat /\ \A y \in UpTo(n) : y <= n
      OBVIOUS
    <2>2. \A n \in S : IsFiniteSet(UpTo(n))
      BY <2>1, FS_BoundedSetOfNaturals
    <2> QED BY <2>1, <2>2 DEF FiniteSubsetsOf
  <1>2. T # {}
    OBVIOUS
  <1>3. \E X \in T : \A Y \in T : ~(<<Y, X>> \in StrictSubsetOrdering(Nat))
    <2> HIDE DEF T
    <2> QED BY <1>1, <1>2, FS_StrictSubsetOrderingWellFounded, WFMin
  <1>4. PICK n \in S : \A y \in S : ~(<<UpTo(y), UpTo(n)>> \in StrictSubsetOrdering(Nat))
    BY <1>3
  <1>5. ASSUME NEW y \in S, y < n PROVE FALSE
    <2>1. \A z \in S : z \in Nat
      OBVIOUS
    <2>2. UpTo(y) \subseteq UpTo(n) /\ n \in UpTo(n) /\ n \notin UpTo(y)
      <3>1. \A z \in S : z <= y => z <= n
        BY <1>5, <2>1
      <3>2. n <= n /\ ~(n <= y)
        BY <1>5, <2>1
      <3> QED BY <3>1, <3>2
    <2>3. UpTo(y) \in SUBSET Nat /\ UpTo(n) \in SUBSET Nat
      OBVIOUS
    <2> HIDE DEF UpTo
    <2>4. <<UpTo(y), UpTo(n)>> \in StrictSubsetOrdering(Nat)
      BY <2>2, <2>3 DEF StrictSubsetOrdering
    <2> QED BY <1>4, <2>4
  <1>6. \A y \in S : n <= y
    BY <1>5
  <1> QED BY <1>6

Slice(mem, at, n) == [i \in 1 .. n |-> mem[at + i - 1]]

LEMMA StringIs ==
    ASSUME NEW mem, NEW at \in Nat, NEW size \in Nat, NEW n \in Nat, at + n < size,
           \A i \in 1 .. n : mem[at + i - 1] # NUL, mem[at + n] = NUL
    PROVE  ~Unterminated(mem, at, size) /\ Str(mem, at, size) = Slice(mem, at, n)
  <1> DEFINE E == Ends(mem, at, size)
             end == CHOOSE i \in E : \A j \in E : i <= j
  <1>1. at + n \in E
    BY DEF Ends
  <1>2. \A j \in E : at + n <= j
    <2> SUFFICES ASSUME NEW j \in E, j < at + n PROVE FALSE
      BY DEF Ends
    <2>1. j \in Nat /\ j >= at /\ mem[j] = NUL
      BY DEF Ends
    <2>2. PICK i : i = j - at + 1
      OBVIOUS
    <2>3. i \in 1 .. n /\ at + i - 1 = j
      BY <2>1, <2>2
    <2> QED BY <2>1, <2>3
  <1>3. \A j \in E : j \in Nat
    BY DEF Ends
  <1> HIDE DEF E
  <1>4. end = at + n
    <2>1. \E i \in E : \A j \in E : i <= j
      BY <1>1, <1>2
    <2>2. end \in E /\ \A j \in E : end <= j
      BY <2>1
    <2> HIDE DEF end
    <2>3. end <= at + n /\ at + n <= end /\ end \in Nat
      BY <1>1, <1>2, <1>3, <2>2
    <2> QED BY <2>3
  <1>5. Str(mem, at, size) = [i \in 1 .. end - at |-> mem[at + i - 1]]
    BY DEF Str, E
  <1> HIDE DEF end
  <1>6. end - at = n
    BY <1>4
  <1> QED BY <1>1, <1>5, <1>6 DEF Unterminated, Slice, E

LEMMA StringEnds ==
    ASSUME NEW mem, NEW at \in Nat, NEW size \in Nat, ~Unterminated(mem, at, size)
    PROVE  \E n \in Nat :
              /\ at + n < size /\ mem[at + n] = NUL
              /\ \A i \in 1 .. n : mem[at + i - 1] # NUL
              /\ Str(mem, at, size) = Slice(mem, at, n)
  <1> DEFINE E == Ends(mem, at, size)
  <1>1. E \in SUBSET Nat /\ E # {}
    BY DEF Ends, Unterminated
  <1>2. PICK e \in E : \A j \in E : e <= j
    <2> HIDE DEF E
    <2> QED BY <1>1, FirstOf
  <1>3. e \in Nat /\ at <= e /\ e < size /\ mem[e] = NUL
    BY DEF Ends
  <1>4. PICK n : n = e - at
    OBVIOUS
  <1>5. n \in Nat /\ at + n = e
    BY <1>3, <1>4
  <1>6. \A i \in 1 .. n : mem[at + i - 1] # NUL
    <2> SUFFICES ASSUME NEW i \in 1 .. n, mem[at + i - 1] = NUL PROVE FALSE
      OBVIOUS
    <2>1. PICK j : j = at + i - 1
      OBVIOUS
    <2>2. j \in at .. size - 1 /\ j < e
      BY <1>3, <1>5, <2>1
    <2>3. j \in E
      BY <2>1, <2>2 DEF Ends
    <2>4. e <= j
      BY <1>2, <2>3
    <2> QED BY <1>3, <2>2, <2>4
  <1>7. Str(mem, at, size) = Slice(mem, at, n)
    <2> DEFINE end == CHOOSE i \in E : \A j \in E : i <= j
    <2>1. Str(mem, at, size) = [i \in 1 .. end - at |-> mem[at + i - 1]]
      BY DEF Str
    <2> HIDE DEF E
    <2>2. end \in E /\ \A j \in E : end <= j
      BY <1>2
    <2> HIDE DEF end
    <2>3. end <= e /\ e <= end /\ end \in Nat
      BY <1>1, <1>2, <2>2
    <2>4. end - at = n
      BY <1>3, <1>4, <2>3
    <2> QED BY <2>1, <2>4 DEF Slice
  <1> QED BY <1>3, <1>5, <1>6, <1>7

(* The first newline of a buffer that holds a line is the end of the line. *)
NewlinesIn(mem) == {i \in Cell : mem[i] = NL}
FirstIn(mem) == CHOOSE i \in NewlinesIn(mem) : \A j \in NewlinesIn(mem) : i <= j

LEMMA NewlineFound ==
    ASSUME NEW mem \in Buffer, NEW line \in Sent, Holds(mem, 0, line)
    PROVE  NewlinesIn(mem) # {} /\ FirstIn(mem) = Len(line) - 1
  <1> DEFINE n == Len(line)
             p == n - 1
  <1>1. /\ n \in Nat /\ n > 0 /\ n <= BufSize /\ line[n] = NL
        /\ \A i \in 1 .. n - 1 : line[i] # NL
        /\ \A i \in 1 .. n : mem[i - 1] = line[i]
    BY Parts DEF Sent, Holds
  <1> HIDE DEF n
  <1>2. p \in NewlinesIn(mem)
    <2>1. p \in Cell
      BY <1>1, Parts
    <2>2. mem[p] = line[n]
      BY <1>1
    <2> QED BY <1>1, <2>1, <2>2 DEF NewlinesIn
  <1>3. \A j \in NewlinesIn(mem) : p <= j
    <2> SUFFICES ASSUME NEW j \in NewlinesIn(mem), j < p PROVE FALSE
      BY <1>1, Parts DEF NewlinesIn
    <2>1. j \in Nat /\ mem[j] = NL
      BY Parts DEF NewlinesIn
    <2>2. PICK i : i = j + 1
      OBVIOUS
    <2>3. i \in 1 .. n - 1 /\ i \in 1 .. n /\ i - 1 = j
      BY <1>1, <2>1, <2>2
    <2>4. mem[i - 1] = line[i] /\ line[i] # NL
      BY <1>1, <2>3
    <2> QED BY <2>1, <2>3, <2>4
  <1>4. \A j \in NewlinesIn(mem) : j \in Nat
    BY Parts DEF NewlinesIn
  <1>5. PICK e : e = FirstIn(mem)
    OBVIOUS
  <1>6. e \in NewlinesIn(mem) /\ \A j \in NewlinesIn(mem) : e <= j
    BY <1>2, <1>3, <1>5 DEF FirstIn
  <1>7. e <= p /\ p <= e /\ e \in Nat /\ p \in Nat
    BY <1>1, <1>2, <1>3, <1>4, <1>6
  <1>8. e = p
    BY <1>7
  <1> QED BY <1>2, <1>5, <1>8 DEF n

(* detect_enter_signal finds the end of the line. *)
LEMMA EnterFound ==
    ASSUME keyboard_buffer \in Buffer, NEW line \in Sent, Holds(keyboard_buffer, 0, line)
    PROVE  EnterPosition = Len(line) - 1
  <1>1. FirstIn(keyboard_buffer) = Len(line) - 1
    BY NewlineFound
  <1> QED BY <1>1 DEF EnterPosition, Newlines, FirstIn, NewlinesIn

LEMMA NextScheduled ==
    ASSUME started \in SUBSET Terminal, NEW t \in started
    PROVE  Successor(t) \in started
  <1> DEFINE after(n) == (t + n) % NumTerm
             S == {n \in 1 .. NumTerm : after(n) \in started}
             next == CHOOSE n \in 1 .. NumTerm : /\ after(n) \in started
                                                 /\ \A m \in 1 .. n - 1 : after(m) \notin started
  <1>1. t \in Nat /\ t < NumTerm /\ NumTerm \in Nat /\ NumTerm > 0
    BY Parts DEF Terminal
  <1>2. after(NumTerm) = t
    BY <1>1
  <1>3. NumTerm \in S /\ S \in SUBSET Nat
    BY <1>1, <1>2
  <1>4. PICK n \in S : \A m \in S : n <= m
    <2> HIDE DEF S
    <2> QED BY <1>3, FirstOf
  <1>5. n \in 1 .. NumTerm /\ after(n) \in started
    OBVIOUS
  <1> HIDE DEF after
  <1>6. \A m \in 1 .. n - 1 : after(m) \notin started
    <2> SUFFICES ASSUME NEW m \in 1 .. n - 1, after(m) \in started PROVE FALSE
      OBVIOUS
    <2>1. m \in 1 .. NumTerm /\ m < n
      BY <1>1, <1>5
    <2>2. m \in S
      BY <2>1
    <2>3. n <= m
      BY <1>4, <2>2
    <2> QED BY <1>5, <2>1, <2>3
  <1>7. after(next) \in started
    BY <1>5, <1>6
  <1> QED BY <1>7 DEF Successor, after

-----------------------------------------------------------------------------
(***************************************************************************)
(* The invariant.  A handler that changes the buffer without an interrupt. *)
(***************************************************************************)
LEMMA GoodElsewhere ==
    ASSUME NEW t, NEW mem, NEW idx, Good(t, mem, idx),
           typed'[t] = typed[t], sent'[t] = sent[t], got'[t] = got[t]
    PROVE  Good(t, mem, idx)'
  BY DEF Good, Waiting

LEMMA Edited ==
    ASSUME Sound, handler.pc \in {"idle", "tab"}, ~Waiting(display),
           NEW x, typed' = [typed EXCEPT ![display] = x], Edits(keyboard_buffer', kb_buf_idx', x),
           \/ sent' = sent /\ Clear(keyboard_buffer', kb_buf_idx')
           \/ \E line \in Sent : /\ sent' = [sent EXCEPT ![display] = Append(@, line)]
                                 /\ Holds(keyboard_buffer', kb_buf_idx', line),
           handler' = Idle, UNCHANGED <<terminals, reading, command_list, command_total, got>>,
           command_count' \in [Terminal -> Nat],
           \A t \in Terminal : command_count'[t] <= command_total[t],
           fds' \in [Terminal -> 0 .. NumFd]
    PROVE  Sound'
  <1>1. /\ Types /\ \A t \in Terminal : Account(t)
        /\ Idle.pc = "idle" /\ display \in Terminal /\ display \in started
    BY DEF Sound, Types, Idle
  <1>2. /\ saved' = saved /\ display' = display /\ terminal_now' = terminal_now /\ started' = started
        /\ reading' = reading /\ command_list' = command_list /\ command_total' = command_total
        /\ got' = got
    BY DEF terminals
  <1>3. \A t \in Terminal : t # display => typed'[t] = typed[t] /\ sent'[t] = sent[t]
    BY <1>1 DEF Types
  <1>4. typed'[display] = x /\ x \in Seq(Letters) /\ typed' \in [Terminal -> Seq(Letters)]
    BY <1>1 DEF Types, Edits
  <1>5. Len(sent[display]) = Len(got[display]) /\ sent[display] \in Seq(Sent) /\ Len(got[display]) \in Nat
    <2>1. sent[display] \in Seq(Sent) /\ got[display] \in Seq([num : Sizes, bytes : Seq(Char)])
      BY <1>1 DEF Types
    <2>2. Len(sent[display]) \in Nat /\ Len(got[display]) \in Nat
      BY <2>1, LenProperties
    <2> QED BY <1>1, <2>1, <2>2 DEF Account, Waiting
  <1>6. /\ sent' \in [Terminal -> Seq(Sent)]
        /\ \/ sent'[display] = sent[display] /\ Clear(keyboard_buffer', kb_buf_idx')
           \/ /\ Len(sent'[display]) = Len(got[display]) + 1
              /\ Holds(keyboard_buffer', kb_buf_idx', sent'[display][Len(sent'[display])])
    <2>1. CASE sent' = sent /\ Clear(keyboard_buffer', kb_buf_idx')
      BY <1>1, <2>1 DEF Types
    <2>2. ASSUME NEW line \in Sent, sent' = [sent EXCEPT ![display] = Append(@, line)],
                 Holds(keyboard_buffer', kb_buf_idx', line)
          PROVE  /\ sent' \in [Terminal -> Seq(Sent)]
                 /\ Len(sent'[display]) = Len(got[display]) + 1
                 /\ Holds(keyboard_buffer', kb_buf_idx', sent'[display][Len(sent'[display])])
      <3> DEFINE new == Append(sent[display], line)
      <3>1. /\ new \in Seq(Sent) /\ Len(new) = Len(got[display]) + 1 /\ new[Len(new)] = line
        BY <1>5, AppendProperties
      <3>2. sent' = [sent EXCEPT ![display] = new] /\ sent \in [Terminal -> Seq(Sent)]
        BY <1>1, <2>2 DEF Types
      <3> HIDE DEF new
      <3>3. sent'[display] = new /\ sent' \in [Terminal -> Seq(Sent)]
        BY <1>1, <3>1, <3>2
      <3> QED BY <2>2, <3>1, <3>3
    <2> QED BY <2>1, <2>2
  <1>7. Types'
    BY <1>1, <1>2, <1>4, <1>6 DEF Types, Edits
  <1>8. Handled' /\ ~Switching'
    BY <1>1 DEF Handled, Switching
  <1>9. \A t \in Terminal : Account(t)'
    <2> SUFFICES ASSUME NEW t \in Terminal PROVE Account(t)'
      OBVIOUS
    <2>1. CASE t # display
      BY <1>1, <1>2, <1>3, <2>1 DEF Account
    <2>2. CASE t = display
      BY <1>1, <1>2, <1>5, <1>6, <2>2 DEF Account
    <2> QED BY <2>1, <2>2
  <1>10. Good(display, keyboard_buffer, kb_buf_idx)'
    BY <1>2, <1>4, <1>5, <1>6 DEF Good, Waiting
  <1>11. \A t \in started : t # display => Good(t, saved[t].buf, saved[t].idx)'
    <2> SUFFICES ASSUME NEW t \in started, t # display PROVE Good(t, saved[t].buf, saved[t].idx)'
      OBVIOUS
    <2>1. t \in Terminal
      BY <1>1 DEF Types
    <2>2. \A mem, idx : Good(t, mem, idx) => Good(t, mem, idx)'
      BY <1>2, <1>3, <2>1, GoodElsewhere
    <2>3. Good(t, saved[t].buf, saved[t].idx)
      BY DEF Sound
    <2> QED BY <1>2, <2>2, <2>3
  <1>12. Tidy => \A c \in HistCell : command_list'[c] # NL
    BY <1>2 DEF Sound
  <1> QED BY <1>2, <1>7, <1>8, <1>9, <1>10, <1>11, <1>12 DEF Sound

(* The keys of a handler that is not interrupted. *)
LEMMA Pressed ==
    ASSUME Orderly, Sound, NEW k, Key(k)
    PROVE  /\ handler = Idle /\ handler.pc = "idle" /\ ~Waiting(display) /\ k \in Keys /\ ~wild
           /\ Edits(keyboard_buffer, kb_buf_idx, typed[display]) /\ Clear(keyboard_buffer, kb_buf_idx)
           /\ command_count \in [Terminal -> Nat] /\ fds \in [Terminal -> 0 .. NumFd]
           /\ \A t \in Terminal : command_count[t] <= command_total[t]
  <1>1. handler = Idle /\ ~Waiting(display) /\ k \in Keys /\ ~wild
    BY DEF Orderly, Key, AltKey, Goes
  <1>2. handler.pc = "idle" /\ ~Switching
    BY <1>1 DEF Idle, Switching
  <1>3. Good(display, keyboard_buffer, kb_buf_idx)
    BY <1>2 DEF Sound
  <1> QED BY <1>1, <1>2, <1>3 DEF Good, Sound, Types

LEMMA LetterSound == ASSUME Orderly, Sound, NEW c \in Letters, Letter(c) PROVE Sound'
  <1>1. Key("letter")
    BY DEF Letter
  <1>2. kb_buf_idx < BufSize - 1
    BY DEF Letter, Room, Fits
  <1> DEFINE x == Append(typed[display], c)
  <1>3. Edits(keyboard_buffer', kb_buf_idx', x) /\ Clear(keyboard_buffer', kb_buf_idx')
    BY <1>1, <1>2, Pressed, TypedOne DEF Letter
  <1>4. /\ typed' = [typed EXCEPT ![display] = x] /\ sent' = sent /\ handler' = handler
        /\ UNCHANGED <<terminals, reading, command_list, command_total, command_count, fds, got>>
    BY DEF Letter, past
  <1> HIDE DEF x
  <1> QED BY <1>1, <1>3, <1>4, Pressed, Edited

LEMMA BackspaceSound == ASSUME Orderly, Sound, Backspace PROVE Sound'
  <1>1. Key("backspace") /\ kb_buf_idx > 0
    BY DEF Backspace
  <1> DEFINE x == SubSeq(typed[display], 1, Len(typed[display]) - 1)
  <1>2. /\ typed' = [typed EXCEPT ![display] = x] /\ sent' = sent /\ handler' = handler
        /\ keyboard_buffer' = keyboard_buffer /\ kb_buf_idx' = kb_buf_idx - 1
        /\ UNCHANGED <<terminals, reading, command_list, command_total, command_count, fds, got>>
    BY DEF Backspace, past
  <1>3. Edits(keyboard_buffer', kb_buf_idx', x)
    BY <1>1, <1>2, Pressed, ErasedOne
  <1>4. ~Tidy
    BY <1>1, Pressed DEF Tidy
  <1>5. Clear(keyboard_buffer', kb_buf_idx')
    BY <1>1, <1>2, <1>4, Pressed DEF Clear
  <1> HIDE DEF x
  <1> QED BY <1>1, <1>2, <1>3, <1>5, Pressed, Edited

LEMMA EnterSound == ASSUME Orderly, Sound, Enter, ~wild' PROVE Sound'
  <1>1. Key("enter")
    BY DEF Enter
  <1> DEFINE x == <<>>
             line == Append(typed[display], NL)
  <1>2. /\ typed' = [typed EXCEPT ![display] = x] /\ sent' = [sent EXCEPT ![display] = Append(@, line)]
        /\ handler' = handler
        /\ keyboard_buffer' = Put(keyboard_buffer, kb_buf_idx, <<NL>>) /\ kb_buf_idx' = 0
        /\ UNCHANGED <<terminals, reading, command_list, command_total, command_count, fds, got>>
    BY DEF Enter, past
  <1>3. Edits(keyboard_buffer', kb_buf_idx', x) /\ Holds(keyboard_buffer', kb_buf_idx', line) /\ line \in Sent
    BY <1>1, <1>2, Pressed, SentOne
  <1> HIDE DEF x, line
  <1>4. \E l \in Sent : /\ sent' = [sent EXCEPT ![display] = Append(@, l)]
                        /\ Holds(keyboard_buffer', kb_buf_idx', l)
    BY <1>2, <1>3
  <1> QED BY <1>1, <1>2, <1>3, <1>4, Pressed, Edited

LEMMA ControlLSound == ASSUME Orderly, Sound, NEW alt \in BOOLEAN, ControlL(alt) PROVE Sound'
  <1>1. Key("ctrl_l")
    BY DEF ControlL
  <1>2. ~Tidy
    BY <1>1, Pressed DEF Tidy
  <1>3. /\ keyboard_buffer \in Buffer /\ \A c \in Cell : keyboard_buffer[c] # NL
    BY <1>1, Pressed DEF Edits, Clear
  <1>4. /\ sent' = sent /\ handler' = handler
        /\ UNCHANGED <<terminals, reading, command_list, command_total, command_count, fds, got>>
    BY DEF ControlL, past
  <1>5. ASSUME NEW x, typed' = [typed EXCEPT ![display] = x],
               Edits(keyboard_buffer', kb_buf_idx', x), Clear(keyboard_buffer', kb_buf_idx')
        PROVE  Sound'
    BY <1>1, <1>4, <1>5, Pressed, Edited
  <1>6. CASE alt
    <2>1. kb_buf_idx' = 0 /\ keyboard_buffer' = keyboard_buffer
          /\ typed' = [typed EXCEPT ![display] = <<>>]
      BY <1>6 DEF ControlL
    <2>2. Edits(keyboard_buffer', kb_buf_idx', <<>>)
      BY <1>3, <2>1, Parts DEF Edits
    <2>3. Clear(keyboard_buffer', kb_buf_idx')
      BY <1>2, <1>3, <2>1 DEF Clear
    <2> QED BY <1>5, <2>1, <2>2, <2>3
  <1>7. CASE ~alt
    <2>1. keyboard_buffer' = Put(keyboard_buffer, 0, <<Ell>>) /\ kb_buf_idx' = 1
          /\ typed' = [typed EXCEPT ![display] = <<Ell>>]
      BY <1>7 DEF ControlL
    <2>2. Edits(keyboard_buffer', kb_buf_idx', <<Ell>>) /\ Clear(keyboard_buffer', kb_buf_idx')
      BY <1>2, <1>3, <2>1, OnlyEll
    <2> QED BY <1>5, <2>1, <2>2
  <1> QED BY <1>6, <1>7

LEMMA RowNat == ASSUME NEW t \in Terminal, NEW n \in Nat PROVE Row(t, n) \in Nat /\ HistSize \in Nat
  <1>1. t \in Nat /\ MaxHist \in Nat /\ Width \in Nat /\ NumTerm \in Nat
    BY Parts
  <1>2. t * MaxHist \in Nat /\ NumTerm * MaxHist \in Nat
    BY <1>1
  <1>3. t * MaxHist + n \in Nat
    BY <1>2
  <1>4. (t * MaxHist + n) * Width \in Nat /\ (NumTerm * MaxHist) * Width \in Nat
    BY <1>1, <1>2, <1>3
  <1> QED BY <1>4 DEF Row, HistSize

(* A row of a history without newlines is a line of letters. *)
LEMMA HistoryLine ==
    ASSUME command_list \in [HistCell -> Char], \A c \in HistCell : command_list[c] # NL,
           NEW t \in Terminal, NEW m \in Nat, ~Unterminated(command_list, Row(t, m), HistSize)
    PROVE  Str(command_list, Row(t, m), HistSize) \in Seq(Letters)
  <1> DEFINE line == Str(command_list, Row(t, m), HistSize)
  <1>1. PICK at \in Nat : at = Row(t, m)
    BY RowNat
  <1>2. PICK size \in Nat : size = HistSize /\ HistCell = 0 .. size - 1
    BY RowNat DEF HistCell, HistSize
  <1>0. ~Unterminated(command_list, at, size) /\ line = Str(command_list, at, size)
    BY <1>1, <1>2
  <1>3. PICK n \in Nat :
            /\ at + n < size
            /\ \A i \in 1 .. n : command_list[at + i - 1] # NUL
            /\ line = Slice(command_list, at, n)
    <2> HIDE DEF line
    <2> QED BY <1>0, StringEnds
  <1>4. \A i \in 1 .. n : at + i - 1 \in HistCell
    BY <1>2, <1>3
  <1>5. \A i \in 1 .. n : command_list[at + i - 1] \in Letters
    BY <1>3, <1>4 DEF Char
  <1> HIDE DEF line
  <1>6. line \in [1 .. n -> Letters]
    BY <1>3, <1>5 DEF Slice
  <1> QED BY <1>6 DEF line

LEMMA RecallSound ==
    ASSUME Orderly, Sound, NEW k \in {"up", "down"}, Key(k), NEW n \in Nat, Recall(n), ~wild',
           handler' = handler, sent' = sent, fds' = fds,
           UNCHANGED <<terminals, reading, command_list, command_total, got>>,
           command_count' \in [Terminal -> Nat],
           \A t \in Terminal : command_count'[t] <= command_total[t]
    PROVE  Sound'
  <1> DEFINE line == Str(command_list, Row(display, n), HistSize)
  <1>1. Tidy
    BY Pressed DEF Orderly, NoRecall
  <1>2. /\ ~Unterminated(command_list, Row(display, n), HistSize) /\ Len(line) < BufSize
        /\ keyboard_buffer' = Put(Erased, 0, Append(line, NUL)) /\ kb_buf_idx' = Len(line)
        /\ typed' = [typed EXCEPT ![display] = line]
    <2>1. ~(Unterminated(command_list, Row(display, n), HistSize) \/ Len(line) >= BufSize)
      BY DEF Recall
    <2>2. /\ keyboard_buffer' = Put(Erased, 0, Append(line, NUL)) /\ kb_buf_idx' = Len(line)
          /\ typed' = [typed EXCEPT ![display] = line]
      BY <2>1 DEF Recall
    <2>3. line \in Seq(Letters)
      BY <1>1, <2>1, HistoryLine DEF Sound, Types
    <2>4. Len(line) < BufSize
      <3> HIDE DEF line
      <3> QED BY <2>1, <2>3, LenProperties, Parts
    <2> QED BY <2>1, <2>2, <2>4
  <1>3. line \in Seq(Letters)
    BY <1>1, <1>2, HistoryLine DEF Sound, Types
  <1> HIDE DEF line
  <1>4. Erased \in Buffer /\ \A c \in Cell : Erased[c] = NUL
    <2>1. /\ keyboard_buffer \in Buffer /\ \A c \in Cell : c >= kb_buf_idx => keyboard_buffer[c] = NUL
          /\ kb_buf_idx \in Int
      BY <1>1, Pressed, Parts DEF Edits, Clear
    <2>2. \A c \in Cell : (IF c < kb_buf_idx THEN NUL ELSE keyboard_buffer[c]) = NUL
      BY <2>1, Parts
    <2> QED BY <2>2, Parts DEF Erased, Buffer
  <1>5. Edits(keyboard_buffer', kb_buf_idx', line) /\ Clear(keyboard_buffer', kb_buf_idx')
    <2>1. PICK mem \in Buffer : mem = Erased /\ \A c \in Cell : mem[c] = NUL
      BY <1>4
    <2> QED BY <1>2, <1>3, <2>1, Recalled
  <1>6. handler' = Idle /\ fds' \in [Terminal -> 0 .. NumFd]
    BY Pressed
  <1> QED BY <1>2, <1>5, <1>6, Pressed, Edited

LEMMA UpSound == ASSUME Orderly, Sound, Up, ~wild' PROVE Sound'
  <1>1. Key("up") /\ Recall(Previous)
    BY DEF Up
  <1>2. /\ sent' = sent /\ handler' = handler /\ fds' = fds
        /\ command_count' = [command_count EXCEPT ![display] = Previous]
        /\ UNCHANGED <<terminals, reading, command_list, command_total, got>>
    BY DEF Up
  <1>3. /\ display \in Terminal /\ command_count \in [Terminal -> Nat] /\ command_total \in [Terminal -> Nat]
        /\ \A t \in Terminal : command_count[t] <= command_total[t]
    BY DEF Sound, Types
  <1>4. PICK n \in Nat : n = Previous /\ n <= command_count[display]
    BY <1>3 DEF Previous
  <1>5. command_count' \in [Terminal -> Nat] /\ \A t \in Terminal : command_count'[t] <= command_total[t]
    BY <1>2, <1>3, <1>4
  <1> QED BY <1>1, <1>2, <1>4, <1>5, RecallSound

LEMMA DownSound == ASSUME Orderly, Sound, Down, ~wild' PROVE Sound'
  <1>1. Key("down")
    BY DEF Down
  <1>2. /\ sent' = sent /\ handler' = handler /\ fds' = fds
        /\ UNCHANGED <<terminals, reading, command_list, command_total, got>>
    BY DEF Down
  <1>3. /\ display \in Terminal /\ command_count \in [Terminal -> Nat] /\ command_total \in [Terminal -> Nat]
        /\ \A t \in Terminal : command_count[t] <= command_total[t]
    BY DEF Sound, Types
  <1>4. PICK n \in Nat : n = command_count[display] + 1
    BY <1>3
  <1>5. CASE n >= command_total[display]
    <2>1. /\ command_count' = [command_count EXCEPT ![display] = command_total[display]]
          /\ keyboard_buffer' = Put(Erased, 0, <<NUL>>) /\ kb_buf_idx' = 0
          /\ typed' = [typed EXCEPT ![display] = <<>>]
      BY <1>4, <1>5 DEF Down
    <2>2. command_count' \in [Terminal -> Nat] /\ \A t \in Terminal : command_count'[t] <= command_total[t]
      BY <1>3, <2>1
    <2>3. Tidy
      BY <1>1, Pressed DEF Orderly, NoRecall
    <2>4. Erased \in Buffer /\ Clear(Erased, 0)
      <3>1. /\ keyboard_buffer \in Buffer /\ \A c \in Cell : c >= kb_buf_idx => keyboard_buffer[c] = NUL
            /\ kb_buf_idx \in Int
        BY <1>1, <2>3, Pressed, Parts DEF Edits, Clear
      <3>2. \A c \in Cell : (IF c < kb_buf_idx THEN NUL ELSE keyboard_buffer[c]) = NUL
        BY <3>1, Parts
      <3>3. Erased \in Buffer /\ \A c \in Cell : Erased[c] = NUL
        BY <3>2, Parts DEF Erased, Buffer
      <3> QED BY <3>3, Parts DEF Clear
    <2>5. Edits(keyboard_buffer', kb_buf_idx', <<>>) /\ Clear(keyboard_buffer', kb_buf_idx')
      <3>1. PICK mem \in Buffer : mem = Erased /\ Clear(mem, 0)
        BY <2>4
      <3> QED BY <2>1, <3>1, Emptied
    <2> DEFINE x == <<>>
    <2>6. typed' = [typed EXCEPT ![display] = x] /\ Edits(keyboard_buffer', kb_buf_idx', x)
      BY <2>1, <2>5
    <2>7. handler' = Idle /\ fds' \in [Terminal -> 0 .. NumFd]
      BY <1>1, <1>2, Pressed
    <2> HIDE DEF x
    <2> QED BY <1>1, <1>2, <2>2, <2>5, <2>6, <2>7, Pressed, Edited
  <1>6. CASE ~(n >= command_total[display])
    <2>1. command_count' = [command_count EXCEPT ![display] = n] /\ Recall(n)
      BY <1>4, <1>6 DEF Down
    <2>2. command_count' \in [Terminal -> Nat] /\ \A t \in Terminal : command_count'[t] <= command_total[t]
      BY <1>3, <1>6, <2>1
    <2> QED BY <1>1, <1>2, <2>1, <2>2, RecallSound
  <1> QED BY <1>5, <1>6

-----------------------------------------------------------------------------
(***************************************************************************)
(* The completion.                                                         *)
(***************************************************************************)
LEMMA WordIs ==
    ASSUME NEW line, Edits(keyboard_buffer, kb_buf_idx, line)
    PROVE  /\ WordStart \in Nat /\ WordStart <= kb_buf_idx
           /\ \A k \in Nat : k <= kb_buf_idx => /\ WordOf(k) \in Seq(Letters)
                                                /\ Len(WordOf(k)) = kb_buf_idx - k
  <1>1. kb_buf_idx \in Nat
    BY Parts DEF Edits
  <1>2. WordStart \in Nat /\ WordStart <= kb_buf_idx
    <2> DEFINE blanks == {i \in 0 .. kb_buf_idx - 1 : keyboard_buffer[i] = Blank}
               behind == {i \in 0 .. kb_buf_idx - 1 : /\ keyboard_buffer[i] # Blank
                                                      /\ \E b \in blanks : b < i}
               first == CHOOSE i \in behind : \A j \in behind : i <= j
    <2>1. \A i \in behind : i \in Nat /\ i <= kb_buf_idx
      BY <1>1
    <2>2. behind \in SUBSET Nat
      BY <2>1
    <2>3. WordStart = IF behind = {} THEN 0 ELSE first
      BY DEF WordStart
    <2> HIDE DEF behind
    <2>4. behind # {} => first \in behind
      BY <2>2, FirstOf
    <2> HIDE DEF first
    <2> QED BY <1>1, <2>1, <2>3, <2>4
  <1>3. ASSUME NEW k \in Nat, k <= kb_buf_idx
        PROVE  WordOf(k) \in Seq(Letters) /\ Len(WordOf(k)) = kb_buf_idx - k
    <2>1. \A i \in 1 .. kb_buf_idx - k : keyboard_buffer[k + i - 1] \in Letters
      <3> TAKE i \in 1 .. kb_buf_idx - k
      <3>1. PICK j : j = k + i
        OBVIOUS
      <3>2. j \in 1 .. kb_buf_idx /\ j - 1 = k + i - 1
        BY <1>1, <1>3, <3>1
      <3>3. keyboard_buffer[j - 1] = line[j] /\ line[j] \in Letters
        BY <3>2 DEF Edits
      <3> QED BY <3>2, <3>3
    <2>2. PICK n \in Nat : n = kb_buf_idx - k
      BY <1>1, <1>3
    <2>3. WordOf(k) \in [1 .. n -> Letters]
      BY <2>1, <2>2 DEF WordOf
    <2>4. WordOf(k) \in Seq(Letters) /\ Len(WordOf(k)) = n
      BY <2>3
    <2> QED BY <2>2, <2>4
  <1> QED BY <1>2, <1>3

(* The name that completes a word is no shorter than it. *)
LEMMA MatchIsLonger ==
    ASSUME NEW word \in Seq(Letters), NEW name, Matches(word, name)
    PROVE  Len(name) >= Len(word)
  <1>1. \A i \in DOMAIN word : word[i] \in Letters
    OBVIOUS
  <1>2. ~\E i \in DOMAIN word : word[i] = NUL
    BY <1>1, Parts
  <1> QED BY <1>2 DEF Matches

LEMMA TabBeginSound == ASSUME Orderly, Sound, TabBegin, ~wild' PROVE Sound'
  <1>1. Key("tab") /\ fds[terminal_now] < NumFd /\ ~Switching
    BY DEF TabBegin, Switching, Idle
  <1>2. /\ handler' = [pc |-> "tab", on |-> terminal_now, k |-> WordStart, word |-> WordOf(WordStart)]
        /\ fds' = [fds EXCEPT ![terminal_now] = @ + 1]
        /\ keyboard_buffer' = keyboard_buffer /\ kb_buf_idx' = kb_buf_idx
        /\ saved' = saved /\ display' = display /\ terminal_now' = terminal_now /\ started' = started
        /\ reading' = reading /\ command_list' = command_list /\ command_total' = command_total
        /\ command_count' = command_count /\ typed' = typed /\ sent' = sent /\ got' = got
    BY DEF TabBegin, kb, terminals, past, ghost
  <1>3. Edits(keyboard_buffer, kb_buf_idx, typed[display]) /\ ~Waiting(display) /\ "tab" \in Keys
    BY <1>1, Pressed
  <1>4. PICK k \in Nat, word \in Seq(Letters) :
            /\ k = WordStart /\ k <= kb_buf_idx /\ word = WordOf(k)
            /\ handler' = [pc |-> "tab", on |-> terminal_now, k |-> k, word |-> word]
    BY <1>2, <1>3, WordIs
  <1>5. Types /\ terminal_now \in Terminal
    BY DEF Sound, Types
  <1>6. handler' \in Tab /\ handler'.pc = "tab" /\ handler'.k = k /\ handler'.word = word
        /\ handler'.on = terminal_now
    BY <1>4, <1>5 DEF Tab
  <1>7. fds' \in [Terminal -> 0 .. NumFd] /\ fds'[terminal_now] > 0
    <2>1. fds \in [Terminal -> 0 .. NumFd] /\ NumFd \in Nat
      BY <1>5, Parts DEF Types
    <2>2. PICK f \in Nat : f = fds[terminal_now] + 1 /\ f <= NumFd /\ f > 0
      BY <1>1, <1>5, <2>1
    <2> QED BY <1>2, <1>5, <2>1, <2>2
  <1>8. display \in started
    BY <1>1 DEF Switching, Sound, Types
  <1>9. Types'
    BY <1>2, <1>5, <1>6, <1>7, <1>8 DEF Types
  <1>10. Handled' /\ ~Switching'
    BY <1>2, <1>3, <1>4, <1>6, <1>7 DEF Handled, Switching, Waiting, WordOf
  <1>11. \A t \in Terminal : Account(t)'
    BY <1>2 DEF Account, Sound
  <1>12. Good(display, keyboard_buffer, kb_buf_idx)'
    BY <1>1, <1>2 DEF Good, Waiting, Sound
  <1>13. \A t \in started : t # display => Good(t, saved[t].buf, saved[t].idx)'
    BY <1>1, <1>2 DEF Good, Waiting, Sound
  <1> QED BY <1>1, <1>2, <1>9, <1>10, <1>11, <1>12, <1>13 DEF Sound

LEMMA TabEndSound == ASSUME Orderly, Sound, TabEnd, ~wild' PROVE Sound'
  <1> DEFINE matching == {name \in Names : Matches(handler.word, name)}
  <1>1. handler.pc = "tab" /\ terminal_now = handler.on
    BY DEF TabEnd
  <1>2. /\ handler \in Tab /\ terminal_now \in Terminal /\ display \in Terminal
        /\ typed[display] \in Seq(Letters)
    <2>1. Types
      BY DEF Sound
    <2>2. /\ terminal_now \in Terminal /\ display \in Terminal
          /\ typed \in [Terminal -> Seq(Letters)]
      BY <2>1 DEF Types
    <2> QED BY <1>1, <2>1, <2>2, HandlerKinds
  <1>3. PICK k \in Nat, word \in Seq(Letters) : k = handler.k /\ word = handler.word
    BY <1>2 DEF Tab
  <1>4. k <= kb_buf_idx /\ word = WordOf(k) /\ ~Waiting(display) /\ fds[terminal_now] > 0
    BY <1>1, <1>3 DEF Sound, Handled
  <1>5. Edits(keyboard_buffer, kb_buf_idx, typed[display]) /\ Clear(keyboard_buffer, kb_buf_idx)
    BY <1>1, <1>4 DEF Sound, Good, Switching
  <1>6. Len(word) = kb_buf_idx - k /\ kb_buf_idx \in Nat
    <2>1. kb_buf_idx \in Nat
      BY <1>5, Parts DEF Edits
    <2>2. Len(WordOf(k)) = kb_buf_idx - k
      BY <1>4, <1>5, WordIs
    <2> QED BY <1>4, <2>1, <2>2
  <1>7. /\ handler' = Idle /\ sent' = sent /\ command_count' = command_count
        /\ UNCHANGED <<terminals, reading, command_list, command_total, got>>
    BY DEF TabEnd, past
  <1>8. fds' \in [Terminal -> 0 .. NumFd]
    <2>1. fds' = fds \/ fds' = [fds EXCEPT ![terminal_now] = @ - 1]
      BY DEF TabEnd
    <2>2. fds \in [Terminal -> 0 .. NumFd] /\ NumFd \in Nat
      BY Parts DEF Sound, Types
    <2>3. PICK f \in 0 .. NumFd : f = fds[terminal_now] - 1
      BY <1>2, <1>4, <2>2
    <2> QED BY <1>2, <2>1, <2>2, <2>3
  <1>9. command_count' \in [Terminal -> Nat] /\ \A t \in Terminal : command_count'[t] <= command_total[t]
    BY <1>7 DEF Sound, Types
  <1>10. ASSUME NEW x, typed' = [typed EXCEPT ![display] = x],
                Edits(keyboard_buffer', kb_buf_idx', x), Clear(keyboard_buffer', kb_buf_idx')
         PROVE  Sound'
    BY <1>1, <1>4, <1>7, <1>8, <1>9, <1>10, Edited
  <1>11. CASE \E n \in matching : matching = {n}
    <2>1. PICK name : /\ name \in matching
                      /\ keyboard_buffer' = Put(keyboard_buffer, handler.k, name)
                      /\ kb_buf_idx' = handler.k + Len(name)
                      /\ wild' = (~NamesFit \/ handler.k + Len(name) > BufSize - 1)
                      /\ typed' = [typed EXCEPT ![display] =
                                     SubSeq(@, 1, Len(@) - Len(handler.word)) \o name]
      <3>1. PICK name : name = CHOOSE n \in matching : TRUE
        OBVIOUS
      <3>2. name \in matching
        <4> HIDE DEF matching
        <4> QED BY <1>11, <3>1
      <3> QED BY <1>11, <3>1, <3>2 DEF TabEnd
    <2>2. name \in Seq(Letters) /\ Len(name) \in Nat /\ Len(name) >= Len(word)
      BY <1>3, <2>1, MatchIsLonger, Parts
    <2>3. k + Len(name) < BufSize
      <3>1. ~(handler.k + Len(name) > BufSize - 1)
        BY <2>1, Zenon
      <3> QED BY <1>3, <2>2, <3>1, Parts
    <2> DEFINE x == SubSeq(typed[display], 1, Len(typed[display]) - (kb_buf_idx - k)) \o name
    <2>4. Edits(keyboard_buffer', kb_buf_idx', x) /\ Clear(keyboard_buffer', kb_buf_idx')
      <3>1. Len(name) >= kb_buf_idx - k
        BY <1>6, <2>2
      <3>2. /\ Edits(Put(keyboard_buffer, k, name), k + Len(name), x)
            /\ Clear(Put(keyboard_buffer, k, name), k + Len(name))
        BY <1>4, <1>5, <2>2, <2>3, <3>1, Completed
      <3> QED BY <1>3, <2>1, <3>2
    <2>5. typed' = [typed EXCEPT ![display] = x]
      BY <1>3, <1>6, <2>1
    <2> HIDE DEF x
    <2> QED BY <1>10, <2>4, <2>5
  <1>12. CASE ~\E n \in matching : matching = {n}
    <2>1. keyboard_buffer' = keyboard_buffer /\ kb_buf_idx' = kb_buf_idx /\ typed' = typed
      BY <1>12 DEF TabEnd, kb
    <2>2. typed' = [typed EXCEPT ![display] = typed[display]]
      BY <1>2, <2>1 DEF Sound, Types
    <2> QED BY <1>5, <1>10, <2>1, <2>2
  <1> QED BY <1>11, <1>12

-----------------------------------------------------------------------------
(***************************************************************************)
(* The switch, and the steps that leave the buffers alone.                 *)
(***************************************************************************)
LEMMA ShiftBeginSound == ASSUME Orderly, Sound, NEW t \in Terminal, ShiftBegin(t) PROVE Sound'
  <1>1. PICK k \in {"switch", "clean_switch"} : AltKey(k) /\ (k = "clean_switch" => typed[display] = <<>>)
    BY DEF ShiftBegin
  <1>a. /\ k \in Keys /\ handler = Idle /\ handler.pc = "idle"
        /\ t \in started \/ ~Waiting(display)
    BY <1>1 DEF AltKey, ShiftBegin, Orderly, Idle
  <1>b. Good(display, keyboard_buffer, kb_buf_idx)
    BY <1>a DEF Sound, Switching
  <1>2. /\ Edits(keyboard_buffer, kb_buf_idx, typed[display]) /\ k \in Keys
        /\ handler = Idle /\ handler.pc = "idle"
        /\ t \notin started => Clear(keyboard_buffer, kb_buf_idx)
    BY <1>a, <1>b DEF Good
  <1>3. /\ saved' = Stored /\ handler' = [pc |-> "stored", on |-> terminal_now, to |-> t]
        /\ keyboard_buffer' = keyboard_buffer /\ kb_buf_idx' = kb_buf_idx
        /\ display' = display /\ terminal_now' = terminal_now /\ started' = started
        /\ reading' = reading /\ command_list' = command_list /\ command_total' = command_total
        /\ command_count' = command_count /\ typed' = typed /\ sent' = sent /\ got' = got /\ fds' = fds
    BY DEF ShiftBegin, Store, kb, past, ghost
  <1>4. Types /\ terminal_now \in Terminal /\ display \in started /\ display \in Terminal
    BY <1>2 DEF Sound, Types
  <1>5. handler' \in Switch /\ handler'.pc = "stored" /\ handler'.to = t
    BY <1>3, <1>4 DEF Switch
  <1>6. saved' \in [Terminal -> [buf : Buffer, idx : Cell]]
    BY <1>3, <1>4 DEF Types, Stored
  <1>7. Types'
    BY <1>3, <1>4, <1>5, <1>6 DEF Types
  <1>8. ASSUME t \notin started PROVE Clear(keyboard_buffer, 0)
    <2>1. CASE k = "clean_switch"
      <3>1. kb_buf_idx = 0
        BY <1>1, <1>2, <2>1 DEF Edits
      <3> QED BY <1>2, <1>8, <3>1
    <2>2. CASE k = "switch"
      <3>1. ~Tidy
        BY <1>2, <2>2 DEF Tidy
      <3> QED BY <1>2, <1>8, <3>1 DEF Clear
    <2> QED BY <2>1, <2>2
  <1>9. Handled' /\ Switching'
    BY <1>3, <1>5, <1>8 DEF Handled, Switching
  <1>10. \A u \in Terminal : Account(u)'
    BY <1>3 DEF Account, Sound
  <1>11. \A u \in started : Good(u, saved'[u].buf, saved'[u].idx)
    <2> SUFFICES ASSUME NEW u \in started PROVE Good(u, saved'[u].buf, saved'[u].idx)
      OBVIOUS
    <2>1. u \in Terminal /\ saved \in [Terminal -> [buf : Buffer, idx : Cell]]
      BY <1>4 DEF Types
    <2>2. CASE u = display
      <3>1. saved'[u].buf = keyboard_buffer /\ saved'[u].idx = kb_buf_idx
        BY <1>3, <2>1, <2>2 DEF Stored
      <3> QED BY <1>b, <2>2, <3>1
    <2>3. CASE u # display
      <3>1. saved'[u] = saved[u]
        BY <1>3, <2>1, <2>3 DEF Stored
      <3> QED BY <2>3, <3>1 DEF Sound
    <2> QED BY <2>2, <2>3
  <1>12. \A u \in started : Good(u, saved[u].buf, saved[u].idx)'
    BY <1>3, <1>11 DEF Good, Waiting
  <1> QED BY <1>3, <1>7, <1>9, <1>10, <1>12 DEF Sound

LEMMA ShiftNameSound == ASSUME Sound, ShiftName PROVE Sound'
  <1>1. /\ display' = handler.to /\ handler' = [handler EXCEPT !.pc = "named"] /\ handler.pc = "stored"
        /\ keyboard_buffer' = keyboard_buffer /\ kb_buf_idx' = kb_buf_idx
        /\ saved' = saved /\ terminal_now' = terminal_now /\ started' = started
        /\ reading' = reading /\ command_list' = command_list /\ command_total' = command_total
        /\ command_count' = command_count /\ typed' = typed /\ sent' = sent /\ got' = got /\ fds' = fds
    BY DEF ShiftName, kb, past, ghost
  <1>2. Types /\ Switching
    BY <1>1 DEF Sound, Switching
  <1>3. handler \in Switch /\ handler.to \in Terminal
    BY <1>2, HandlerKinds DEF Switch
  <1>4. handler' \in Switch /\ handler'.pc = "named" /\ handler'.to = handler.to
    BY <1>1, <1>3 DEF Switch
  <1>5. Types'
    BY <1>1, <1>2, <1>3, <1>4 DEF Types
  <1>6. Handled' /\ Switching'
    BY <1>1, <1>2, <1>4 DEF Handled, Switching, Sound
  <1>7. \A t \in Terminal : Account(t)'
    BY <1>1 DEF Account, Sound
  <1>8. \A t \in started : Good(t, saved[t].buf, saved[t].idx)'
    BY <1>1, <1>2 DEF Good, Waiting, Sound
  <1> QED BY <1>1, <1>5, <1>6, <1>7, <1>8 DEF Sound

LEMMA ShiftLoadSound == ASSUME Sound, ShiftLoad PROVE Sound'
  <1>1. /\ keyboard_buffer' = saved[display].buf /\ kb_buf_idx' = saved[display].idx
        /\ handler' = Idle /\ handler.pc = "named" /\ display \in started
        /\ saved' = saved /\ display' = display /\ terminal_now' = terminal_now /\ started' = started
        /\ reading' = reading /\ command_list' = command_list /\ command_total' = command_total
        /\ command_count' = command_count /\ typed' = typed /\ sent' = sent /\ got' = got /\ fds' = fds
    BY DEF ShiftLoad, terminals, past, ghost
  <1>2. Types /\ Switching
    BY <1>1 DEF Sound, Switching
  <1>3. display \in Terminal /\ saved[display].buf \in Buffer /\ saved[display].idx \in Cell
    BY <1>2 DEF Types
  <1>4. Types'
    BY <1>1, <1>2, <1>3 DEF Types
  <1>5. Handled' /\ ~Switching'
    BY <1>1 DEF Handled, Switching, Idle
  <1>6. \A t \in Terminal : Account(t)'
    BY <1>1 DEF Account, Sound
  <1>7. \A t \in started : Good(t, saved[t].buf, saved[t].idx)'
    BY <1>1, <1>2 DEF Good, Waiting, Sound
  <1>8. Good(display, keyboard_buffer, kb_buf_idx)'
    BY <1>1, <1>7
  <1> QED BY <1>1, <1>4, <1>5, <1>6, <1>7, <1>8 DEF Sound

LEMMA ShiftStartSound == ASSUME Sound, ShiftStart PROVE Sound'
  <1>1. /\ keyboard_buffer' = Put(keyboard_buffer, 0, <<NUL>>) /\ kb_buf_idx' = 0
        /\ handler' = Idle /\ handler.pc = "named" /\ display \notin started
        /\ saved' = saved /\ display' = display /\ terminal_now' = display
        /\ started' = started \cup {display}
        /\ reading' = reading /\ command_list' = command_list /\ command_total' = command_total
        /\ command_count' = command_count /\ typed' = typed /\ sent' = sent /\ got' = got /\ fds' = fds
    BY DEF ShiftStart, FreshIndex, past, ghost
  <1>2. /\ Types /\ Switching /\ handler.to = display
        /\ Clear(keyboard_buffer, 0) /\ display \in Terminal /\ keyboard_buffer \in Buffer
    BY <1>1 DEF Sound, Switching, Handled, Types
  <1>3. Edits(keyboard_buffer', kb_buf_idx', <<>>) /\ Clear(keyboard_buffer', kb_buf_idx')
    BY <1>1, <1>2, Emptied
  <1>4. Types'
    BY <1>1, <1>2, <1>3 DEF Types, Edits
  <1>5. Handled' /\ ~Switching'
    BY <1>1 DEF Handled, Switching, Idle
  <1>6. \A t \in Terminal : Account(t)'
    BY <1>1 DEF Account, Sound
  <1>7. \A t \in started : Good(t, saved[t].buf, saved[t].idx)'
    BY <1>1, <1>2 DEF Good, Waiting, Sound
  <1>8. Good(display, keyboard_buffer, kb_buf_idx)'
    <2>1. typed[display] = <<>> /\ sent[display] = <<>> /\ got[display] = <<>>
      BY <1>1, <1>2 DEF Sound, Account
    <2>2. ~Waiting(display)'
      BY <1>1, <2>1 DEF Waiting
    <2> QED BY <1>1, <1>3, <2>1, <2>2 DEF Good
  <1> QED BY <1>1, <1>4, <1>5, <1>6, <1>7, <1>8 DEF Sound

LEMMA ReadBeginSound ==
    ASSUME Sound, NEW t \in Terminal, NEW num \in Sizes, ReadBegin(t, num)
    PROVE  Sound'
  <1>1. /\ reading' = [reading EXCEPT ![t] = num] /\ terminal_now = t
        /\ keyboard_buffer' = keyboard_buffer /\ kb_buf_idx' = kb_buf_idx /\ handler' = handler
        /\ saved' = saved /\ display' = display /\ terminal_now' = terminal_now /\ started' = started
        /\ command_list' = command_list /\ command_total' = command_total
        /\ command_count' = command_count /\ typed' = typed /\ sent' = sent /\ got' = got /\ fds' = fds
    BY DEF ReadBegin, Runs, kb, terminals, past, ghost
  <1>2. Types /\ t \in started
    BY <1>1 DEF Sound, Types
  <1>3. Types'
    BY <1>1, <1>2 DEF Types
  <1>4. \A u \in Terminal : Account(u)'
    BY <1>1, <1>2 DEF Account, Sound, Types
  <1>5. /\ Handled' /\ Switching' = Switching
        /\ ~Switching => Good(display, keyboard_buffer, kb_buf_idx)'
        /\ \A u \in started : Switching \/ u # display => Good(u, saved[u].buf, saved[u].idx)'
    BY <1>1 DEF Good, Waiting, Switching, Handled, Sound, WordOf
  <1> QED BY <1>1, <1>3, <1>4, <1>5 DEF Sound

LEMMA RotateSound == ASSUME Sound, Rotate PROVE Sound'
  <1>1. /\ terminal_now' = Successor(terminal_now)
        /\ keyboard_buffer' = keyboard_buffer /\ kb_buf_idx' = kb_buf_idx /\ handler' = handler
        /\ saved' = saved /\ display' = display /\ started' = started
        /\ reading' = reading /\ command_list' = command_list /\ command_total' = command_total
        /\ command_count' = command_count /\ typed' = typed /\ sent' = sent /\ got' = got /\ fds' = fds
    BY DEF Rotate, kb, past, ghost
  <1>2. Types
    BY DEF Sound
  <1>3. terminal_now' \in started /\ started \in SUBSET Terminal
    BY <1>1, <1>2, NextScheduled DEF Types
  <1>4. Types'
    BY <1>1, <1>2, <1>3 DEF Types
  <1>5. \A u \in Terminal : Account(u)'
    BY <1>1 DEF Account, Sound
  <1>6. /\ Handled' /\ Switching' = Switching
        /\ ~Switching => Good(display, keyboard_buffer, kb_buf_idx)'
        /\ \A u \in started : Switching \/ u # display => Good(u, saved[u].buf, saved[u].idx)'
    BY <1>1 DEF Good, Waiting, Switching, Handled, Sound, WordOf
  <1> QED BY <1>1, <1>4, <1>5, <1>6 DEF Sound

-----------------------------------------------------------------------------
(***************************************************************************)
(* The read of a line.                                                     *)
(***************************************************************************)
(* The string that terminal_read copies into the history is the line, when  *)
(* nothing of an earlier one is left behind it.                            *)
LEMMA HeldString ==
    ASSUME keyboard_buffer \in Buffer, NEW line \in Sent, Holds(keyboard_buffer, 0, line),
           ~Unterminated(keyboard_buffer, 0, BufSize), keyboard_buffer[0] # NUL
    PROVE  LET str == Str(keyboard_buffer, 0, BufSize) IN
           /\ str \in Seq(Char) /\ Len(str) > 0 /\ Len(str) < BufSize
           /\ Tidy => str = line
  <1> DEFINE str == Str(keyboard_buffer, 0, BufSize)
  <1>2. PICK n \in Nat :
            /\ 0 + n < BufSize /\ keyboard_buffer[0 + n] = NUL
            /\ \A i \in 1 .. n : keyboard_buffer[0 + i - 1] # NUL
            /\ str = Slice(keyboard_buffer, 0, n)
    <2>1. BufSize \in Nat /\ 0 \in Nat
      BY Parts
    <2> QED BY <2>1, StringEnds
  <1> HIDE DEF str
  <1>3. \A i \in 1 .. n : 0 + i - 1 = i - 1 /\ i - 1 \in Cell
    BY <1>2, Parts
  <1>4. str \in [1 .. n -> Char] /\ \A i \in 1 .. n : str[i] = keyboard_buffer[i - 1]
    <2>1. \A i \in 1 .. n : keyboard_buffer[i - 1] \in Char
      BY <1>3 DEF Buffer
    <2> QED BY <1>2, <1>3, <2>1 DEF Slice
  <1>5. str \in Seq(Char) /\ Len(str) = n
    BY <1>2, <1>4
  <1>6. n > 0 /\ n < BufSize
    BY <1>2, Parts
  <1>7. ASSUME Tidy PROVE str = line
    <2>1. /\ line \in Seq(Char) /\ Len(line) \in Nat /\ Len(line) <= BufSize
          /\ \A i \in 1 .. Len(line) : line[i] # NUL /\ keyboard_buffer[i - 1] = line[i]
      <3>1. line \in Seq(Char) /\ line[Len(line)] # NUL /\ \A i \in 1 .. Len(line) - 1 : line[i] # NUL
        BY Parts DEF Sent
      <3>2. \A i \in 1 .. Len(line) : i = Len(line) \/ i \in 1 .. Len(line) - 1
        BY <3>1
      <3> QED BY <3>1, <3>2 DEF Holds
    <2>2. ~(n < Len(line))
      <3> SUFFICES ASSUME n < Len(line) PROVE FALSE
        OBVIOUS
      <3>1. PICK i : i = n + 1
        OBVIOUS
      <3>2. i \in 1 .. Len(line) /\ i - 1 = 0 + n
        BY <1>2, <2>1, <3>1
      <3> QED BY <1>2, <2>1, <3>2
    <2>3. ~(n > Len(line))
      <3> SUFFICES ASSUME n > Len(line) PROVE FALSE
        OBVIOUS
      <3>1. PICK i : i = Len(line) + 1
        OBVIOUS
      <3>2. i \in 1 .. n /\ i - 1 >= Len(line)
        BY <1>2, <2>1, <3>1
      <3>3. keyboard_buffer[i - 1] = NUL /\ keyboard_buffer[i - 1] # NUL
        BY <1>2, <1>3, <1>7, <3>2 DEF Holds
      <3> QED BY <3>3
    <2>4. Len(line) = n
      BY <1>2, <2>1, <2>2, <2>3
    <2>5. \A i \in 1 .. n : str[i] = line[i]
      BY <1>4, <2>1, <2>4
    <2> QED BY <1>5, <2>1, <2>4, <2>5, SeqEqual
  <1> QED BY <1>5, <1>6, <1>7 DEF str

(* What terminal_read returns is the line, up to the size it was asked for. *)
Upto(line, num) == SubSeq(line, 1, IF num < Len(line) THEN num ELSE Len(line))

LEMMA LineReturned ==
    ASSUME keyboard_buffer \in Buffer, NEW line \in Sent, Holds(keyboard_buffer, 0, line),
           NEW t, reading[t] \in Nat
    PROVE  /\ Line(RealReadNumber(t)) = Upto(line, reading[t])
           /\ Line(RealReadNumber(t)) \in Seq(Char)
  <1>1. /\ line \in Seq(Char) /\ Len(line) \in Nat /\ Len(line) > 0
        /\ \A i \in 1 .. Len(line) : keyboard_buffer[i - 1] = line[i] /\ line[i] \in Char
    BY DEF Sent, Holds
  <1>2. PICK n \in Nat : n = RealReadNumber(t)
                         /\ n = IF reading[t] < Len(line) THEN reading[t] ELSE Len(line)
    <2>1. EnterPosition = Len(line) - 1
      BY EnterFound
    <2> QED BY <1>1, <2>1 DEF RealReadNumber
  <1>3. n <= Len(line) /\ \A i \in 1 .. n : i \in 1 .. Len(line)
    BY <1>1, <1>2
  <1>4. Line(n) = [i \in 1 .. n |-> keyboard_buffer[i - 1]]
    BY DEF Line
  <1>5. Line(n) \in [1 .. n -> Char] /\ \A i \in 1 .. n : Line(n)[i] = line[i]
    BY <1>1, <1>3, <1>4
  <1>6. Line(n) \in Seq(Char) /\ Len(Line(n)) = n
    BY <1>5
  <1>7. SubSeq(line, 1, n) \in Seq(Char) /\ Len(SubSeq(line, 1, n)) = n
        /\ \A i \in 1 .. n : SubSeq(line, 1, n)[i] = line[i]
    <2>1. \A i \in 1 .. n : line[i] \in Char
      BY <1>1, <1>3
    <2> QED BY <1>1, <1>3, <2>1, SubSeqProperties
  <1>8. Line(n) = SubSeq(line, 1, n)
    BY <1>5, <1>6, <1>7, SeqEqual
  <1> QED BY <1>2, <1>6, <1>8 DEF Upto

LEMMA Delivery ==
    ASSUME Orderly, Sound, NEW t \in Terminal, ReadEnd(t)
    PROVE  /\ display = t /\ handler = Idle /\ ~Switching /\ reading[t] \in Sizes
           /\ keyboard_buffer \in Buffer /\ kb_buf_idx = 0 /\ typed[t] = <<>>
           /\ Len(got[t]) \in Nat /\ Len(sent[t]) = Len(got[t]) + 1 /\ command_total[t] = Len(got[t])
           /\ sent[t][Len(sent[t])] \in Sent /\ Holds(keyboard_buffer, 0, sent[t][Len(sent[t])])
  <1>1. handler = Idle /\ display = t /\ reading[t] # -1 /\ Newlines # {}
    BY DEF Orderly, ReadEnd, Runs, Goes, LineFor, Displayed
  <1>2. Types /\ ~Switching /\ Good(t, keyboard_buffer, kb_buf_idx) /\ Account(t)
    BY <1>1 DEF Sound, Switching, Idle
  <1>3. Waiting(t)
    BY <1>1, <1>2 DEF Good, Clear, Newlines
  <1>4. sent[t] \in Seq(Sent) /\ got[t] \in Seq([num : Sizes, bytes : Seq(Char)]) /\ reading[t] \in Sizes
    BY <1>1, <1>2 DEF Types
  <1>5. Len(sent[t]) \in Nat /\ Len(got[t]) \in Nat
    BY <1>4, LenProperties
  <1>6. Len(sent[t]) = Len(got[t]) + 1 /\ command_total[t] = Len(got[t])
    BY <1>2, <1>3, <1>5 DEF Account, Waiting
  <1>7. sent[t][Len(sent[t])] \in Sent
    BY <1>4, <1>5, <1>6
  <1>8. /\ keyboard_buffer \in Buffer /\ kb_buf_idx = 0 /\ typed[t] = <<>>
        /\ Holds(keyboard_buffer, 0, sent[t][Len(sent[t])])
    <2>1. /\ Edits(keyboard_buffer, kb_buf_idx, typed[t])
          /\ Holds(keyboard_buffer, kb_buf_idx, sent[t][Len(sent[t])])
      BY <1>2, <1>3 DEF Good
    <2>2. kb_buf_idx = 0
      BY <2>1 DEF Holds
    <2>3. typed[t] \in Seq(Letters) /\ Len(typed[t]) = 0
      BY <2>1, <2>2 DEF Edits
    <2>4. typed[t] = <<>>
      BY <2>3, EmptySeq
    <2> QED BY <2>1, <2>2, <2>4 DEF Edits
  <1> QED BY <1>1, <1>2, <1>4, <1>5, <1>6, <1>7, <1>8

LEMMA ReadEndSteps ==
    ASSUME NEW t, ReadEnd(t), ~Overruns(t)
    PROVE  /\ command_list' = Put(command_list, Row(t, command_total[t]),
                                  WithoutNewline(Str(keyboard_buffer, 0, BufSize)))
           /\ command_total' = [command_total EXCEPT ![t] = @ + 1]
           /\ command_count' = [command_count EXCEPT ![t] = command_total[t] + 1]
           /\ keyboard_buffer' = Zeroed /\ kb_buf_idx' = kb_buf_idx
           /\ got' = [got EXCEPT ![t] = Append(@, [num |-> reading[t], bytes |-> Line(RealReadNumber(t))])]
           /\ reading' = [reading EXCEPT ![t] = -1]
           /\ saved' = saved /\ display' = display /\ terminal_now' = terminal_now /\ started' = started
           /\ fds' = fds /\ handler' = handler /\ typed' = typed /\ sent' = sent
  BY DEF ReadEnd, terminals

(* The row of the history is the line without its newline. *)
LEMMA RowStored ==
    ASSUME NEW str \in Seq(Char), Len(str) > 0
    PROVE  LET row == WithoutNewline(str) IN
           /\ row \in Seq(Char) /\ Len(row) = Len(str) /\ row[Len(str)] = NUL
           /\ \A i \in 1 .. Len(str) - 1 : row[i] = str[i]
  <1> DEFINE front == SubSeq(str, 1, Len(str) - 1)
             row == WithoutNewline(str)
  <1>1. Len(str) \in Nat /\ Len(str) - 1 \in Nat /\ NUL \in Char
    BY Parts
  <1>2. \A i \in 1 .. Len(str) - 1 : str[i] \in Char
    BY <1>1
  <1>3. /\ front \in Seq(Char) /\ Len(front) = Len(str) - 1
        /\ \A i \in 1 .. Len(str) - 1 : front[i] = str[i]
    <2>1. PICK m \in Nat : m = Len(str) - 1
      BY <1>1
    <2>2. \A i \in 1 .. m : i \in 1 .. Len(str)
      BY <1>1, <2>1
    <2>3. m <= Len(str) /\ \A i \in 1 .. m : str[i] \in Char
      BY <1>1, <1>2, <2>1
    <2> QED BY <2>1, <2>2, <2>3, SubSeqProperties
  <1>4. row = Append(front, NUL)
    BY DEF WithoutNewline
  <1> HIDE DEF front, row
  <1>5. /\ row \in Seq(Char) /\ Len(row) = Len(front) + 1 /\ row[Len(front) + 1] = NUL
        /\ \A i \in 1 .. Len(front) : row[i] = front[i]
    BY <1>1, <1>3, <1>4, AppendProperties
  <1>6. Len(front) + 1 = Len(str)
    BY <1>1, <1>3
  <1> QED BY <1>3, <1>5, <1>6 DEF row

LEMMA ReadEndSound ==
    ASSUME Orderly, Sound, NEW t \in Terminal, ReadEnd(t), ~wild'
    PROVE  Sound'
  <1> DEFINE str == Str(keyboard_buffer, 0, BufSize)
             bytes == Line(RealReadNumber(t))
             rec == [num |-> reading[t], bytes |-> bytes]
  <1>1. /\ display = t /\ handler = Idle /\ ~Switching /\ reading[t] \in Sizes /\ ~Overruns(t)
        /\ keyboard_buffer \in Buffer /\ kb_buf_idx = 0 /\ typed[t] = <<>>
        /\ Len(got[t]) \in Nat /\ Len(sent[t]) = Len(got[t]) + 1 /\ command_total[t] = Len(got[t])
    BY Delivery DEF ReadEnd
  <1>2. PICK line \in Sent : line = sent[t][Len(sent[t])] /\ Holds(keyboard_buffer, 0, line)
    BY Delivery
  <1>3. /\ command_list' = Put(command_list, Row(t, command_total[t]), WithoutNewline(str))
        /\ command_total' = [command_total EXCEPT ![t] = @ + 1]
        /\ command_count' = [command_count EXCEPT ![t] = command_total[t] + 1]
        /\ keyboard_buffer' = Zeroed /\ kb_buf_idx' = kb_buf_idx
        /\ got' = [got EXCEPT ![t] = Append(@, rec)]
        /\ reading' = [reading EXCEPT ![t] = -1]
        /\ saved' = saved /\ display' = display /\ terminal_now' = terminal_now /\ started' = started
        /\ fds' = fds /\ handler' = handler /\ typed' = typed /\ sent' = sent
    BY <1>1, ReadEndSteps
  <1>4. Types /\ t \in started /\ \A u \in Terminal : Account(u)
    BY <1>1 DEF Sound, Types, Idle
  <1>5. str \in Seq(Char) /\ Len(str) > 0 /\ (Tidy => str = line)
    <2>1. ~Unterminated(keyboard_buffer, 0, BufSize) /\ keyboard_buffer[0] # NUL
      BY <1>1 DEF Overruns, Unterminated
    <2> QED BY <1>1, <1>2, <2>1, HeldString
  <1>6. bytes \in Seq(Char)
    BY <1>1, <1>2, LineReturned, Parts
  <1> HIDE DEF str, bytes
  <1>7. PICK row \in Seq(Char) :
            /\ row = WithoutNewline(str) /\ Len(row) = Len(str) /\ row[Len(str)] = NUL
            /\ \A i \in 1 .. Len(str) - 1 : row[i] = str[i]
    BY <1>5, RowStored
  <1>8. PICK at \in Nat : at = Row(t, command_total[t])
    BY <1>1, RowNat
  <1>9. /\ command_list' \in [HistCell -> Char]
        /\ \A c \in HistCell : command_list'[c] = command_list[c]
                               \/ \E i \in 1 .. Len(row) : command_list'[c] = row[i]
    <2>1. command_list \in [HistCell -> Char] /\ HistCell \in SUBSET Int
      BY <1>4, Parts DEF Types
    <2> DEFINE new == Put(command_list, at, row)
    <2>2. command_list' = new
      BY <1>3, <1>7, <1>8
    <2>3. /\ new \in [HistCell -> Char]
          /\ \A c \in HistCell : new[c] = command_list[c] \/ \E i \in 1 .. Len(row) : new[c] = row[i]
      BY <2>1, PutStores
    <2> HIDE DEF new
    <2> QED BY <2>2, <2>3
  <1>10. ASSUME Tidy PROVE \A c \in HistCell : command_list'[c] # NL
    <2>1. \A i \in 1 .. Len(row) : row[i] # NL
      <3> TAKE i \in 1 .. Len(row)
      <3>1. str = line /\ \A j \in 1 .. Len(line) - 1 : line[j] # NL
        BY <1>5, <1>10, Parts DEF Sent
      <3>2. i = Len(str) \/ i \in 1 .. Len(str) - 1
        BY <1>5, <1>7
      <3> QED BY <1>7, <3>1, <3>2, Parts
    <2> QED BY <1>9, <1>10, <2>1 DEF Sound
  <1>11. /\ command_total' \in [Terminal -> Nat] /\ command_count' \in [Terminal -> Nat]
         /\ \A u \in Terminal : command_count'[u] <= command_total'[u]
    <2>1. /\ command_total \in [Terminal -> Nat] /\ command_count \in [Terminal -> Nat]
          /\ \A u \in Terminal : command_count[u] <= command_total[u]
      BY <1>4 DEF Types
    <2>2. PICK n \in Nat : n = command_total[t] + 1
      BY <2>1
    <2>3. command_total' = [command_total EXCEPT ![t] = n] /\ command_count' = [command_count EXCEPT ![t] = n]
      BY <1>3, <2>2
    <2>4. \A u \in Terminal : command_count'[u] <= command_total'[u]
      <3> SUFFICES ASSUME NEW u \in Terminal PROVE command_count'[u] <= command_total'[u]
        OBVIOUS
      <3>1. CASE u = t
        BY <2>1, <2>2, <2>3, <3>1
      <3>2. CASE u # t
        BY <2>1, <2>3, <3>2
      <3> QED BY <3>1, <3>2
    <2> QED BY <2>1, <2>2, <2>3, <2>4
  <1>12. /\ got' \in [Terminal -> Seq([num : Sizes, bytes : Seq(Char)])]
         /\ Len(got'[t]) = Len(got[t]) + 1 /\ \A u \in Terminal : u # t => got'[u] = got[u]
    <2> DEFINE R == [num : Sizes, bytes : Seq(Char)]
               new == Append(got[t], rec)
    <2>1. rec \in R
      BY <1>1, <1>6
    <2>2. got \in [Terminal -> Seq(R)]
      BY <1>4 DEF Types
    <2> HIDE DEF R, rec
    <2>3. new \in Seq(R) /\ Len(new) = Len(got[t]) + 1
      BY <2>1, <2>2, AppendProperties
    <2>4. got' = [got EXCEPT ![t] = new]
      BY <1>3
    <2> HIDE DEF new
    <2>5. got' \in [Terminal -> Seq(R)] /\ got'[t] = new /\ \A u \in Terminal : u # t => got'[u] = got[u]
      BY <2>2, <2>3, <2>4
    <2> QED BY <2>3, <2>5 DEF R
  <1>13. Edits(Zeroed, 0, <<>>) /\ Clear(Zeroed, 0)
    <2>1. Zeroed \in Buffer /\ \A c \in Cell : Zeroed[c] = NUL
      BY Parts DEF Zeroed, Buffer
    <2> QED BY <2>1, Parts DEF Edits, Clear
  <1>14. reading' \in [Terminal -> Sizes \cup {-1}]
    BY <1>3, <1>4 DEF Types
  <1>15. Types'
    BY <1>1, <1>3, <1>4, <1>9, <1>11, <1>12, <1>13, <1>14 DEF Types, Edits
  <1>16. Handled' /\ ~Switching'
    BY <1>1, <1>3 DEF Handled, Switching, Idle
  <1>17. \A u \in Terminal : Account(u)'
    <2> SUFFICES ASSUME NEW u \in Terminal PROVE Account(u)'
      OBVIOUS
    <2>1. CASE u = t
      BY <1>1, <1>3, <1>4, <1>12, <2>1 DEF Account, Types
    <2>2. CASE u # t
      <3>1. /\ command_total'[u] = command_total[u] /\ reading'[u] = reading[u]
            /\ got'[u] = got[u] /\ sent'[u] = sent[u] /\ typed'[u] = typed[u]
        BY <1>3, <1>4, <1>12, <2>2 DEF Types
      <3> QED BY <1>3, <1>4, <3>1 DEF Account
    <2> QED BY <2>1, <2>2
  <1>18. Good(display, keyboard_buffer, kb_buf_idx)'
    <2>1. ~(Len(sent'[t]) > Len(got'[t]))
      BY <1>1, <1>3, <1>12
    <2> QED BY <1>1, <1>3, <1>13, <2>1 DEF Good, Waiting
  <1>19. \A u \in started : u # display => Good(u, saved[u].buf, saved[u].idx)'
    <2> SUFFICES ASSUME NEW u \in started, u # display PROVE Good(u, saved[u].buf, saved[u].idx)'
      OBVIOUS
    <2>1. u \in Terminal /\ u # t
      BY <1>1, <1>4 DEF Types
    <2>2. typed'[u] = typed[u] /\ sent'[u] = sent[u] /\ got'[u] = got[u]
      BY <1>3, <1>12, <2>1
    <2>3. \A mem, idx : Good(u, mem, idx) => Good(u, mem, idx)'
      BY <2>2, GoodElsewhere
    <2>4. Good(u, saved[u].buf, saved[u].idx)
      BY DEF Sound
    <2> QED BY <1>3, <2>3, <2>4
  <1> QED BY <1>3, <1>10, <1>15, <1>16, <1>17, <1>18, <1>19 DEF Sound

-----------------------------------------------------------------------------
(***************************************************************************)
(* Every step.                                                             *)
(***************************************************************************)
LEMMA SoundInit == Init => Sound
  <1> SUFFICES ASSUME Init PROVE Sound
    OBVIOUS
  <1>1. Edits(Zeroed, 0, <<>>) /\ Clear(Zeroed, 0) /\ Zeroed \in Buffer /\ 0 \in Cell
    <2>1. Zeroed \in Buffer /\ \A c \in Cell : Zeroed[c] = NUL
      BY Parts DEF Zeroed, Buffer
    <2> QED BY <2>1, Parts DEF Edits, Clear
  <1>2. 0 \in Terminal
    BY Parts DEF Terminal
  <1>3. \A t \in Terminal : typed[t] = <<>> /\ sent[t] = <<>> /\ got[t] = <<>>
    BY DEF Init
  <1>4. Types
    <2>1. /\ saved \in [Terminal -> [buf : Buffer, idx : Cell]]
          /\ command_list \in [HistCell -> Char]
          /\ fds \in [Terminal -> 0 .. NumFd]
      BY <1>1, Parts DEF Init
    <2> QED BY <1>1, <1>2, <2>1 DEF Init, Types, Idle
  <1>5. Handled /\ ~Switching
    BY DEF Init, Handled, Switching, Idle
  <1>6. \A t \in Terminal : Account(t)
    BY <1>3 DEF Init, Account
  <1>7. Good(display, keyboard_buffer, kb_buf_idx)
    BY <1>1, <1>2, <1>3 DEF Init, Good, Waiting
  <1>8. \A t \in started : t = display
    BY DEF Init
  <1>9. \A c \in HistCell : command_list[c] # NL
    BY Parts DEF Init
  <1> QED BY <1>4, <1>5, <1>6, <1>7, <1>8, <1>9 DEF Sound

LEMMA SoundNext == ASSUME Orderly, Sound, Next, ~wild' PROVE Sound'
  <1>1. CASE Backspace
    BY <1>1, BackspaceSound
  <1>2. CASE Enter
    BY <1>2, EnterSound
  <1>3. CASE Up
    BY <1>3, UpSound
  <1>4. CASE Down
    BY <1>4, DownSound
  <1>5. CASE TabBegin
    BY <1>5, TabBeginSound
  <1>6. CASE \E c \in Letters : Letter(c)
    BY <1>6, LetterSound
  <1>7. CASE \E alt \in BOOLEAN : ControlL(alt)
    BY <1>7, ControlLSound
  <1>8. CASE \E t \in Terminal : ShiftBegin(t)
    BY <1>8, ShiftBeginSound
  <1>9. CASE TabEnd
    BY <1>9, TabEndSound
  <1>10. CASE ShiftName \/ ShiftLoad \/ ShiftStart
    BY <1>10, ShiftNameSound, ShiftLoadSound, ShiftStartSound
  <1>11. CASE Rotate
    BY <1>11, RotateSound
  <1>12. ASSUME NEW t \in Terminal, ReadStep(t) PROVE Sound'
    <2>1. CASE ReadEnd(t)
      BY <2>1, ReadEndSound
    <2>2. CASE \E num \in Sizes : ReadBegin(t, num)
      BY <2>2, ReadBeginSound
    <2> QED BY <1>12, <2>1, <2>2 DEF ReadStep
  <1> QED BY <1>1, <1>2, <1>3, <1>4, <1>5, <1>6, <1>7, <1>8, <1>9, <1>10, <1>11, <1>12
          DEF Next, KeyPress, HandlerStep

(* Once an array is left, nothing is known and nothing moves. *)
LEMMA OnlyWhenTame == Next => ~wild
  BY DEF Next, KeyPress, HandlerStep, ReadStep, Backspace, Enter, Up, Down, TabBegin, Letter, ControlL,
         ShiftBegin, TabEnd, ShiftName, ShiftLoad, ShiftStart, Rotate, ReadEnd, ReadBegin, Runs, Key, AltKey, Goes

LEMMA SoundStutters == Sound /\ UNCHANGED vars => Sound'
  <1> SUFFICES ASSUME Sound, UNCHANGED vars PROVE Sound'
    OBVIOUS
  <1>1. /\ keyboard_buffer' = keyboard_buffer /\ kb_buf_idx' = kb_buf_idx /\ handler' = handler
        /\ saved' = saved /\ display' = display /\ terminal_now' = terminal_now /\ started' = started
        /\ reading' = reading /\ command_list' = command_list /\ command_total' = command_total
        /\ command_count' = command_count /\ typed' = typed /\ sent' = sent /\ got' = got /\ fds' = fds
    BY DEF vars, kb, terminals, past, ghost
  <1>2. Types'
    BY <1>1 DEF Sound, Types
  <1>3. \A t \in Terminal : Account(t)'
    BY <1>1 DEF Sound, Account
  <1>4. /\ Handled' /\ Switching' = Switching
        /\ ~Switching => Good(display, keyboard_buffer, kb_buf_idx)'
        /\ \A t \in started : Switching \/ t # display => Good(t, saved[t].buf, saved[t].idx)'
    BY <1>1 DEF Good, Waiting, Switching, Handled, Sound, WordOf
  <1> QED BY <1>1, <1>2, <1>3, <1>4 DEF Sound

(* The invariant of every state in which no array has been left. *)
SoundUnlessWild == ~wild => Sound

LEMMA SoundAlways == ASSUME Orderly PROVE Spec => []SoundUnlessWild
  <1>1. Init => SoundUnlessWild
    BY SoundInit DEF SoundUnlessWild
  <1>2. SoundUnlessWild /\ [Next]_vars => SoundUnlessWild'
    <2> SUFFICES ASSUME SoundUnlessWild, [Next]_vars, ~wild' PROVE Sound'
      BY DEF SoundUnlessWild
    <2>1. CASE Next
      BY <2>1, SoundNext, OnlyWhenTame DEF SoundUnlessWild
    <2>2. CASE UNCHANGED vars
      <3>1. ~wild
        BY <2>2 DEF vars
      <3> QED BY <2>2, <3>1, SoundStutters DEF SoundUnlessWild
    <2> QED BY <2>1, <2>2
  <1> QED BY <1>1, <1>2, PTL DEF Spec

-----------------------------------------------------------------------------
(***************************************************************************)
(* No line is lost, mixed with another or returned twice.                  *)
(***************************************************************************)
Delivered(t) ==
    \A i \in DOMAIN got[t] :
        i \in DOMAIN sent[t] /\ got[t][i].bytes = Upto(sent[t][i], got[t][i].num)

(* Enter and the read alone change the lines entered and read, and the history. *)
LEMMA WhoReads ==
    ASSUME [Next]_vars
    PROVE  \/ got' = got /\ sent' = sent /\ command_list' = command_list
           \/ got' = got /\ command_list' = command_list /\ Enter
           \/ \E t \in Terminal : ReadEnd(t)
  <1>1. CASE UNCHANGED vars
    BY <1>1 DEF vars, past, ghost
  <1>2. CASE Backspace \/ Up \/ Down \/ \E c \in Letters : Letter(c)
    BY <1>2 DEF Backspace, Up, Down, Letter, past
  <1>3. CASE Enter
    BY <1>3 DEF Enter, past
  <1>4. CASE TabBegin \/ TabEnd \/ \E alt \in BOOLEAN : ControlL(alt)
    BY <1>4 DEF TabBegin, TabEnd, ControlL, past, ghost
  <1>5. CASE (\E t \in Terminal : ShiftBegin(t)) \/ ShiftName \/ ShiftLoad \/ ShiftStart
    BY <1>5 DEF ShiftBegin, ShiftName, ShiftLoad, ShiftStart, past, ghost
  <1>6. CASE Rotate \/ \E t \in Terminal, num \in Sizes : ReadBegin(t, num)
    BY <1>6 DEF Rotate, ReadBegin, past, ghost
  <1> QED BY <1>1, <1>2, <1>3, <1>4, <1>5, <1>6 DEF Next, KeyPress, HandlerStep, ReadStep

SentGrows ==
    \A t \in Terminal : \A i \in DOMAIN sent[t] : i \in DOMAIN sent'[t] /\ sent'[t][i] = sent[t][i]

LEMMA EnterGrows == ASSUME Types, Enter PROVE SentGrows
  <1> SUFFICES ASSUME NEW t \in Terminal, NEW i \in DOMAIN sent[t]
               PROVE  i \in DOMAIN sent'[t] /\ sent'[t][i] = sent[t][i]
    BY DEF SentGrows
  <1>1. sent[t] \in Seq(Sent) /\ sent \in [Terminal -> Seq(Sent)]
    BY DEF Types
  <1>2. CASE t # display
    BY <1>1, <1>2 DEF Enter
  <1>3. CASE t = display
    <2>1. PICK line : sent'[t] = Append(sent[t], line)
      BY <1>1, <1>3 DEF Enter
    <2>2. Len(sent[t]) \in Nat /\ i \in 1 .. Len(sent[t])
      BY <1>1
    <2> QED BY <1>1, <2>1, <2>2
  <1> QED BY <1>2, <1>3

LEMMA DeliveredNext ==
    ASSUME Orderly, SoundUnlessWild, \A t \in Terminal : Delivered(t), [Next]_vars
    PROVE  \A t \in Terminal : Delivered(t)'
  <1>1. CASE got' = got /\ sent' = sent
    BY <1>1 DEF Delivered
  <1>2. CASE got' = got /\ Enter
    <2>1. Sound /\ Types
      BY <1>2, OnlyWhenTame DEF SoundUnlessWild, Next, KeyPress, Sound
    <2>2. SentGrows
      BY <1>2, <2>1, EnterGrows
    <2> QED BY <1>2, <2>2 DEF Delivered, SentGrows
  <1>3. ASSUME NEW t \in Terminal, ReadEnd(t) PROVE \A u \in Terminal : Delivered(u)'
    <2>1. CASE Overruns(t)
      <3>1. got' = got /\ sent' = sent
        BY <1>3, <2>1 DEF ReadEnd
      <3> QED BY <3>1 DEF Delivered
    <2>2. CASE ~Overruns(t)
      <3> DEFINE bytes == Line(RealReadNumber(t))
                 rec == [num |-> reading[t], bytes |-> bytes]
      <3>1. ~wild /\ ~wild'
        BY <1>3, <2>2 DEF ReadEnd, Runs, Goes
      <3>2. /\ reading[t] \in Sizes /\ keyboard_buffer \in Buffer
            /\ Len(got[t]) \in Nat /\ Len(sent[t]) = Len(got[t]) + 1
        BY <1>3, <3>1, Delivery DEF SoundUnlessWild
      <3>3. PICK line \in Sent : line = sent[t][Len(sent[t])] /\ Holds(keyboard_buffer, 0, line)
        BY <1>3, <3>1, Delivery DEF SoundUnlessWild
      <3>4. bytes = Upto(line, reading[t])
        BY <3>2, <3>3, LineReturned, Parts
      <3>5. /\ got' = [got EXCEPT ![t] = Append(@, rec)] /\ sent' = sent
        BY <1>3, <2>2, ReadEndSteps
      <3>6. /\ got \in [Terminal -> Seq([num : Sizes, bytes : Seq(Char)])]
            /\ sent[t] \in Seq(Sent)
        BY <1>3, <3>1 DEF SoundUnlessWild, Sound, Types
      <3>7. SUFFICES ASSUME NEW u \in Terminal PROVE Delivered(u)'
        OBVIOUS
      <3>8. CASE u # t
        BY <3>5, <3>6, <3>8 DEF Delivered
      <3>9. CASE u = t
        <4> DEFINE n == Len(got[t])
        <4>1. rec.num = reading[t] /\ rec.bytes = Upto(line, reading[t])
          BY <3>4
        <4> HIDE DEF rec, bytes
        <4>2. got[t] \in Seq([num : Sizes, bytes : Seq(Char)])
          BY <1>3, <3>6
        <4>3. /\ DOMAIN got'[t] = 1 .. n + 1 /\ got'[t][n + 1] = rec
              /\ \A i \in 1 .. n : got'[t][i] = got[t][i]
          <5>1. got'[t] = Append(got[t], rec)
            BY <1>3, <3>5, <3>6
          <5> QED BY <4>2, <5>1
        <4>4. DOMAIN sent'[t] = 1 .. n + 1 /\ sent'[t][n + 1] = line
          BY <3>2, <3>3, <3>5, <3>6
        <4>5. DOMAIN got[t] = 1 .. n
          BY <4>2
        <4>6. Delivered(t)
          BY <1>3
        <4>7. \A i \in 1 .. n + 1 : sent'[t][i] = sent[t][i]
          BY <3>5
        <4> SUFFICES ASSUME NEW i \in 1 .. n + 1
                     PROVE  got'[t][i].bytes = Upto(sent'[t][i], got'[t][i].num)
          BY <3>9, <4>3, <4>4 DEF Delivered, Upto
        <4>8. CASE i = n + 1
          BY <4>1, <4>3, <4>4, <4>8
        <4>9. CASE i # n + 1
          <5>1. i \in 1 .. n
            BY <3>2, <4>9
          <5> HIDE DEF n
          <5>2. got'[t][i] = got[t][i] /\ got[t][i].bytes = Upto(sent[t][i], got[t][i].num)
            BY <4>3, <4>5, <4>6, <5>1 DEF Delivered
          <5> QED BY <4>7, <5>2
        <4> QED BY <4>8, <4>9
      <3> QED BY <3>8, <3>9
    <2> QED BY <2>1, <2>2
  <1> QED BY <1>1, <1>2, <1>3, WhoReads

(* A read of a line returns the line that was entered at its terminal, up   *)
(* to the size asked for: terminal_read copies the bytes before the newline *)
(* that detect_enter_signal has found, from the one buffer that the         *)
(* keyboard handler fills and terminal_shift exchanges.                    *)
THEOREM EveryLineIsDelivered ==
    ASSUME Orderly
    PROVE  Spec => []LineDelivered
  <1> DEFINE All == \A t \in Terminal : Delivered(t)
  <1>1. Init => All
    BY DEF Init, Delivered
  <1>2. SoundUnlessWild /\ All /\ [Next]_vars => All'
    BY DeliveredNext
  <1>3. All => LineDelivered
    BY DEF Delivered, Upto, LineDelivered
  <1> HIDE DEF All
  <1> QED BY <1>1, <1>2, <1>3, SoundAlways, PTL DEF Spec

-----------------------------------------------------------------------------
(***************************************************************************)
(* The line that is edited.                                                *)
(***************************************************************************)
LEMMA EditsShown ==
    ASSUME NEW mem, NEW idx, NEW line, Edits(mem, idx, line)
    PROVE  line = [i \in 1 .. idx |-> mem[i - 1]]
  <1>1. line \in Seq(Letters) /\ Len(line) = idx /\ \A i \in 1 .. idx : mem[i - 1] = line[i]
    BY DEF Edits
  <1>2. line = [i \in 1 .. idx |-> line[i]]
    BY <1>1
  <1> QED BY <1>1, <1>2

LEMMA SoundShows == Sound => EditLine
  <1> SUFFICES ASSUME Sound, handler = Idle
               PROVE  /\ typed[display] = Line(kb_buf_idx)
                      /\ \A t \in started \ {display} :
                            typed[t] = [i \in 1 .. saved[t].idx |-> saved[t].buf[i - 1]]
    BY DEF EditLine
  <1>1. ~Switching
    BY DEF Switching, Idle
  <1>2. typed[display] = Line(kb_buf_idx)
    <2>1. Edits(keyboard_buffer, kb_buf_idx, typed[display])
      BY <1>1 DEF Sound, Good
    <2> QED BY <2>1, EditsShown DEF Line
  <1>3. ASSUME NEW t \in started \ {display}
        PROVE  typed[t] = [i \in 1 .. saved[t].idx |-> saved[t].buf[i - 1]]
    <2>1. Edits(saved[t].buf, saved[t].idx, typed[t])
      BY DEF Sound, Good
    <2> QED BY <2>1, EditsShown
  <1> QED BY <1>2, <1>3

(* The steps that may leave an array.                                       *)
LEMMA WhoGoesWild ==
    ASSUME Sound, Next, wild'
    PROVE  \/ Up \/ Down \/ TabBegin \/ TabEnd
           \/ \E t \in Terminal : ReadEnd(t) /\ Overruns(t)
  <1>1. ~wild
    BY OnlyWhenTame
  <1>2. BufSize \in Nat /\ kb_buf_idx \in Nat /\ kb_buf_idx < BufSize
    BY Parts DEF Sound, Types
  <1>3. ~Backspace
    BY <1>1 DEF Backspace
  <1>4. ~Enter
    <2> SUFFICES ASSUME Enter PROVE FALSE
      OBVIOUS
    <2>1. ~(kb_buf_idx >= BufSize)
      BY <1>2
    <2>2. wild' = wild
      BY <2>1 DEF Enter
    <2> QED BY <1>1, <2>2
  <1>5. ASSUME NEW c \in Letters, Letter(c) PROVE FALSE
    <2>1. ~(kb_buf_idx + 1 > BufSize - 1)
      BY <1>2, <1>5 DEF Letter, Room, Fits
    <2>2. wild' = (kb_buf_idx + 1 > BufSize - 1)
      BY <1>5 DEF Letter
    <2> QED BY <2>1, <2>2, Zenon
  <1>6. ASSUME NEW alt \in BOOLEAN, ControlL(alt) PROVE FALSE
    BY <1>1, <1>6 DEF ControlL
  <1>7. ASSUME NEW t \in Terminal, ShiftBegin(t) PROVE FALSE
    BY <1>1, <1>7 DEF ShiftBegin
  <1>8. ~ShiftName /\ ~ShiftLoad /\ ~ShiftStart /\ ~Rotate
    BY <1>1 DEF ShiftName, ShiftLoad, ShiftStart, Rotate
  <1>9. ASSUME NEW t \in Terminal, ReadStep(t) PROVE ReadEnd(t) /\ Overruns(t)
    <2>1. CASE ReadEnd(t)
      BY <1>1, <2>1 DEF ReadEnd
    <2>2. CASE \E num \in Sizes : ReadBegin(t, num)
      BY <1>1, <2>2 DEF ReadBegin
    <2> QED BY <1>9, <2>1, <2>2 DEF ReadStep
  <1> QED BY <1>3, <1>4, <1>5, <1>6, <1>7, <1>8, <1>9 DEF Next, KeyPress, HandlerStep

LEMMA EditLineKept ==
    ASSUME EditLine, UNCHANGED <<keyboard_buffer, kb_buf_idx, typed, handler, saved, display, started>>
    PROVE  EditLine'
  <1>1. /\ keyboard_buffer' = keyboard_buffer /\ kb_buf_idx' = kb_buf_idx /\ typed' = typed
        /\ handler' = handler /\ saved' = saved /\ display' = display /\ started' = started
    OBVIOUS
  <1>2. Line(kb_buf_idx)' = Line(kb_buf_idx)
    BY <1>1 DEF Line
  <1> QED BY <1>1, <1>2 DEF EditLine

(* Without a completion, the step that leaves an array leaves the line.     *)
LEMMA WildLeavesTheLine ==
    ASSUME Sound, EditLine, Next, wild', "tab" \notin Keys
    PROVE  EditLine'
  <1>1. ~wild
    BY OnlyWhenTame
  <1>2. CASE Up \/ Down
    <2>1. /\ keyboard_buffer' = keyboard_buffer /\ kb_buf_idx' = kb_buf_idx /\ typed' = typed
          /\ handler' = handler /\ saved' = saved /\ display' = display /\ started' = started
      BY <1>1, <1>2 DEF Up, Down, Recall, kb, terminals
    <2> QED BY <2>1, EditLineKept
  <1>3. ~TabEnd /\ ~TabBegin
    BY DEF TabEnd, TabBegin, Key, AltKey, Sound, Handled
  <1>4. ASSUME NEW t \in Terminal, ReadEnd(t), Overruns(t) PROVE EditLine'
    <2>1. /\ keyboard_buffer' = keyboard_buffer /\ kb_buf_idx' = kb_buf_idx /\ typed' = typed
          /\ handler' = handler /\ saved' = saved /\ display' = display /\ started' = started
      BY <1>4 DEF ReadEnd, kb, terminals
    <2> QED BY <2>1, EditLineKept
  <1> QED BY <1>2, <1>3, <1>4, WhoGoesWild

(* What is in the buffer up to the index is what the screen shows of the     *)
(* line: after a letter, a backspace, a line that is entered or recalled,    *)
(* Control and l, and after any number of switches, for which terminal_shift *)
(* saves the buffer and its index.  Only the completion, which does not      *)
(* compare the name it copies with KB_BUF_SIZE, could make it false.         *)
THEOREM TheLineIsShown ==
    ASSUME Orderly, "tab" \notin Keys
    PROVE  Spec => []EditLine
  <1>1. Init => EditLine
    BY SoundInit, SoundShows
  <1>2. SoundUnlessWild /\ EditLine /\ [Next]_vars => (~wild)' \/ EditLine'
    <2> SUFFICES ASSUME SoundUnlessWild, EditLine, [Next]_vars, wild' PROVE EditLine'
      OBVIOUS
    <2>1. CASE UNCHANGED vars
      <3>1. UNCHANGED <<keyboard_buffer, kb_buf_idx, typed, handler, saved, display, started>>
        BY <2>1 DEF vars, kb, terminals, ghost
      <3> QED BY <3>1, EditLineKept
    <2>2. CASE Next
      <3>1. Sound
        BY <2>2, OnlyWhenTame DEF SoundUnlessWild
      <3> QED BY <2>2, <3>1, WildLeavesTheLine
    <2> QED BY <2>1, <2>2
  <1>3. SoundUnlessWild /\ ~wild => EditLine
    BY SoundShows DEF SoundUnlessWild
  <1> QED BY <1>1, <1>2, <1>3, SoundAlways, PTL DEF Spec

(* With the completion, it holds as long as no array has been left.         *)
THEOREM TheLineIsShownUnlessWild ==
    ASSUME Orderly
    PROVE  Spec => [](~wild => EditLine)
  <1>1. SoundUnlessWild => (~wild => EditLine)
    BY SoundShows DEF SoundUnlessWild
  <1> QED BY <1>1, SoundAlways, PTL

-----------------------------------------------------------------------------
(***************************************************************************)
(* How many lines there are, and how long they are.                        *)
(***************************************************************************)
LEMMA RoomForOneMore ==
    ASSUME Types, NEW d \in Terminal, Cardinality(Entered) < MaxLines
    PROVE  Len(sent[d]) < MaxLines
  <1>1. MaxLines \in Nat /\ Len(sent[d]) \in Nat
    <2>1. sent[d] \in Seq(Sent)
      BY DEF Types
    <2> QED BY <2>1, LenProperties, Parts
  <1> SUFFICES ASSUME Len(sent[d]) >= MaxLines PROVE FALSE
    BY <1>1
  <1> DEFINE I == 1 .. MaxLines
             S == {d} \X I
  <1>2. IsFiniteSet(I) /\ Cardinality(I) = MaxLines
    BY <1>1, FS_Interval
  <1>3. IsFiniteSet({d}) /\ Cardinality({d}) = 1
    BY FS_Singleton
  <1>4. IsFiniteSet(Terminal)
    <2>1. 0 \in Int /\ NumTerm - 1 \in Int
      BY Parts
    <2> QED BY <2>1, FS_Interval DEF Terminal
  <1>5. Cardinality(S) = 1 * MaxLines
    <2>1. Cardinality(S) = Cardinality({d}) * Cardinality(I)
      <3> HIDE DEF I
      <3> QED BY <1>2, <1>3, FS_Product
    <2> QED BY <1>2, <1>3, <2>1
  <1>6. IsFiniteSet(Terminal \X I)
    BY <1>2, <1>4, FS_Product
  <1>7. Entered \subseteq Terminal \X I
    BY DEF Entered
  <1>8. S \subseteq Entered
    BY <1>1 DEF Entered
  <1> HIDE DEF S, I
  <1>9. Cardinality(S) <= Cardinality(Entered) /\ Cardinality(Entered) \in Nat /\ Cardinality(S) \in Nat
    BY <1>6, <1>7, <1>8, FS_Subset, FS_CardinalityType
  <1> QED BY <1>1, <1>5, <1>9

Lines ==
    \A t \in Terminal : /\ Len(sent[t]) <= MaxLines
                        /\ \A i \in DOMAIN sent[t] : Len(sent[t][i]) <= MaxEntered + 1

LEMMA LinesAlways == ASSUME Orderly PROVE Spec => []Lines
  <1>1. Init => Lines
    BY Parts DEF Init, Lines
  <1>2. SoundUnlessWild /\ Lines /\ [Next]_vars => Lines'
    <2> SUFFICES ASSUME SoundUnlessWild, Lines, [Next]_vars PROVE Lines'
      OBVIOUS
    <2>1. CASE sent' = sent
      BY <2>1 DEF Lines
    <2>2. CASE Enter
      <3>1. Types /\ display \in Terminal
        BY <2>2, OnlyWhenTame DEF SoundUnlessWild, Next, KeyPress, Sound, Types
      <3>2. /\ sent \in [Terminal -> Seq(Sent)] /\ typed[display] \in Seq(Letters)
            /\ MaxLines \in Nat /\ MaxEntered \in Nat
        BY <3>1, Parts DEF Types
      <3>3. Len(sent[display]) < MaxLines /\ Len(typed[display]) <= MaxEntered
        BY <2>2, <3>1, RoomForOneMore DEF Enter
      <3>4. PICK line : line = Append(typed[display], NL) /\ Len(line) <= MaxEntered + 1
        <4>1. Len(Append(typed[display], NL)) = Len(typed[display]) + 1 /\ Len(typed[display]) \in Nat
          <5>1. typed[display] \in Seq(Char) /\ NL \in Char
            BY <3>2, Parts
          <5> QED BY <5>1, AppendProperties, LenProperties
        <4>2. PICK m \in Nat : m = Len(typed[display]) /\ m <= MaxEntered
          BY <3>3, <4>1
        <4>3. PICK line : line = Append(typed[display], NL)
          OBVIOUS
        <4>4. Len(line) = m + 1
          BY <4>1, <4>2, <4>3
        <4> QED BY <3>2, <4>2, <4>3, <4>4
      <3>5. sent' = [sent EXCEPT ![display] = Append(@, line)]
        BY <2>2, <3>4 DEF Enter
      <3>6. SUFFICES ASSUME NEW t \in Terminal
                     PROVE  /\ Len(sent'[t]) <= MaxLines
                            /\ \A i \in DOMAIN sent'[t] : Len(sent'[t][i]) <= MaxEntered + 1
        BY DEF Lines
      <3>7. CASE t # display
        BY <3>2, <3>5, <3>7 DEF Lines
      <3>8. CASE t = display
        <4>1. sent'[t] = Append(sent[t], line) /\ sent[t] \in Seq(Sent)
          BY <3>2, <3>5, <3>8
        <4>2. /\ Len(sent'[t]) = Len(sent[t]) + 1 /\ Len(sent[t]) \in Nat
              /\ DOMAIN sent'[t] = 1 .. Len(sent[t]) + 1
              /\ sent'[t][Len(sent[t]) + 1] = line
              /\ \A i \in 1 .. Len(sent[t]) : sent'[t][i] = sent[t][i]
          BY <4>1
        <4>3. \A i \in 1 .. Len(sent[t]) : Len(sent[t][i]) <= MaxEntered + 1
          BY <4>1 DEF Lines
        <4>4. \A i \in 1 .. Len(sent[t]) + 1 : i \in 1 .. Len(sent[t]) \/ i = Len(sent[t]) + 1
          BY <4>2
        <4>5. \A i \in DOMAIN sent'[t] : Len(sent'[t][i]) <= MaxEntered + 1
          BY <3>4, <4>2, <4>3, <4>4
        <4> QED BY <3>2, <3>3, <3>8, <4>2, <4>5
      <3> QED BY <3>7, <3>8
    <2>3. CASE \E t \in Terminal : ReadEnd(t)
      <3>1. sent' = sent
        BY <2>3 DEF ReadEnd
      <3> QED BY <3>1 DEF Lines
    <2> QED BY <2>1, <2>2, <2>3, WhoReads
  <1> QED BY <1>1, <1>2, SoundAlways, PTL DEF Spec

-----------------------------------------------------------------------------
(***************************************************************************)
(* The history.                                                            *)
(***************************************************************************)
LEMMA Multiples ==
    ASSUME NEW a \in Nat, NEW b \in Nat, NEW w \in Nat, a < b
    PROVE  a * w + w <= b * w
  <1>1. PICK k \in Nat : b = a + 1 + k
    <2>1. b - a - 1 \in Nat /\ b = a + 1 + (b - a - 1)
      OBVIOUS
    <2> QED BY <2>1
  <1>2. (a + 1 + k) * w = a * w + w + k * w
    OBVIOUS
  <1>3. k * w \in Nat /\ a * w \in Nat
    OBVIOUS
  <1> QED BY <1>1, <1>2, <1>3

LEMMA RowsApart ==
    ASSUME NEW t \in Terminal, NEW m \in Nat, m < MaxHist
    PROVE  /\ Row(t, m) \in Nat /\ Row(t, m) + Width <= HistSize /\ HistSize \in Nat
           /\ \A u \in Terminal, n \in Nat :
                 n < MaxHist /\ <<t, m>> # <<u, n>> => \/ Row(t, m) + Width <= Row(u, n)
                                                       \/ Row(u, n) + Width <= Row(t, m)
  <1>1. /\ t \in Nat /\ t < NumTerm /\ NumTerm \in Nat /\ MaxHist \in Nat /\ Width \in Nat
        /\ \A u \in Terminal : u \in Nat
    BY Parts DEF Terminal
  <1> DEFINE line(u, n) == u * MaxHist + n
  <1>2. \A u \in Terminal, n \in Nat : line(u, n) \in Nat
    <2> SUFFICES ASSUME NEW u \in Terminal, NEW n \in Nat PROVE line(u, n) \in Nat
      OBVIOUS
    <2>1. u * MaxHist \in Nat
      BY <1>1
    <2> QED BY <2>1
  <1>3. \A u \in Terminal, n \in Nat : Row(u, n) = line(u, n) * Width
    BY DEF Row
  <1>4. line(t, m) < NumTerm * MaxHist /\ NumTerm * MaxHist \in Nat
    <2>1. t * MaxHist + MaxHist <= NumTerm * MaxHist
      BY <1>1, Multiples
    <2>2. t * MaxHist \in Nat /\ NumTerm * MaxHist \in Nat
      BY <1>1
    <2> QED BY <1>1, <2>1, <2>2
  <1>5. ASSUME NEW u \in Terminal, NEW n \in Nat, n < MaxHist, <<t, m>> # <<u, n>>
        PROVE  line(t, m) < line(u, n) \/ line(u, n) < line(t, m)
    <2>1. t * MaxHist \in Nat /\ u * MaxHist \in Nat /\ u \in Nat
      BY <1>1
    <2>2. CASE t = u
      BY <1>5, <2>1, <2>2
    <2>3. CASE t < u
      <3>1. t * MaxHist + MaxHist <= u * MaxHist
        BY <1>1, <2>1, <2>3, Multiples
      <3> QED BY <1>1, <2>1, <3>1
    <2>4. CASE u < t
      <3>1. u * MaxHist + MaxHist <= t * MaxHist
        BY <1>1, <2>1, <2>4, Multiples
      <3> QED BY <1>1, <1>5, <2>1, <3>1
    <2> QED BY <1>1, <2>1, <2>2, <2>3, <2>4
  <1> HIDE DEF line
  <1>6. line(t, m) * Width + Width <= (NumTerm * MaxHist) * Width
    BY <1>1, <1>2, <1>4, Multiples
  <1>7. Row(t, m) \in Nat /\ HistSize \in Nat
    BY RowNat
  <1>8. ASSUME NEW u \in Terminal, NEW n \in Nat, n < MaxHist, <<t, m>> # <<u, n>>
        PROVE  Row(t, m) + Width <= Row(u, n) \/ Row(u, n) + Width <= Row(t, m)
    <2>1. CASE line(t, m) < line(u, n)
      BY <1>1, <1>2, <1>3, <2>1, Multiples
    <2>2. CASE line(u, n) < line(t, m)
      BY <1>1, <1>2, <1>3, <2>2, Multiples
    <2> QED BY <1>5, <1>8, <2>1, <2>2
  <1> QED BY <1>3, <1>6, <1>7, <1>8 DEF HistSize

(* What a new row leaves of the others, and what it holds. *)
LEMMA RowWritten ==
    ASSUME command_list \in [HistCell -> Char], NEW t \in Terminal, NEW n \in Nat, n < MaxHist,
           NEW row \in Seq(Char), Len(row) <= Width, NEW new, new = Put(command_list, Row(t, n), row)
    PROVE  /\ \A i \in 1 .. Len(row) : new[Row(t, n) + i - 1] = row[i]
           /\ \A u \in Terminal, m \in Nat, i \in 1 .. Width :
                 m < MaxHist /\ <<t, n>> # <<u, m>> =>
                    new[Row(u, m) + i - 1] = command_list[Row(u, m) + i - 1]
  <1>1. PICK size \in Nat : size = HistSize /\ HistCell = 0 .. size - 1 /\ HistCell \in SUBSET Int
    BY RowNat, Parts DEF HistCell, HistSize
  <1>2. PICK at \in Nat : at = Row(t, n) /\ at + Width <= size
    BY <1>1, RowsApart
  <1>3. PICK len \in Nat : len = Len(row) /\ len <= Width /\ Width \in Nat
    BY Parts
  <1>4. new = Put(command_list, at, row)
    BY <1>2
  <1>5. /\ \A c \in HistCell : c < at => new[c] = command_list[c]
        /\ \A c \in HistCell : c >= at + Len(row) => new[c] = command_list[c]
        /\ \A i \in 1 .. Len(row) : at + i - 1 \in HistCell => new[at + i - 1] = row[i]
    BY <1>1, <1>4, PutStores
  <1>6. \A i \in 1 .. len : at + i - 1 \in HistCell
    BY <1>1, <1>2, <1>3
  <1>7. \A i \in 1 .. Len(row) : new[at + i - 1] = row[i]
    BY <1>3, <1>5, <1>6
  <1>8. ASSUME NEW u \in Terminal, NEW m \in Nat, NEW i \in 1 .. Width, m < MaxHist, <<t, n>> # <<u, m>>
        PROVE  new[Row(u, m) + i - 1] = command_list[Row(u, m) + i - 1]
    <2>1. PICK r \in Nat : r = Row(u, m) /\ r + Width <= size
      BY <1>1, <1>8, RowsApart
    <2>2. at + Width <= r \/ r + Width <= at
      BY <1>2, <1>8, <2>1, RowsApart
    <2>3. PICK c : c = r + i - 1
      OBVIOUS
    <2>4. c \in HistCell /\ (c < at \/ c >= at + len)
      <3>1. PICK w \in Nat : w = Width
        BY <1>3
      <3>2. c \in Nat /\ r <= c /\ c < r + w
        BY <2>3, <3>1
      <3>3. c \in HistCell
        BY <1>1, <2>1, <3>1, <3>2
      <3>4. c < at \/ c >= at + w
        BY <2>2, <3>1, <3>2
      <3> QED BY <1>3, <3>1, <3>2, <3>3, <3>4
    <2> QED BY <1>3, <1>5, <2>1, <2>3, <2>4
  <1> QED BY <1>2, <1>7, <1>8

LEMMA RowsNext ==
    ASSUME Orderly, RowEach, SoundUnlessWild, Lines, Rows, [Next]_vars
    PROVE  Rows'
  <1>1. CASE got' = got /\ sent' = sent /\ command_list' = command_list
    BY <1>1 DEF Rows
  <1>2. CASE got' = got /\ command_list' = command_list /\ Enter
    <2>1. Sound /\ Types
      BY <1>2, OnlyWhenTame DEF SoundUnlessWild, Next, KeyPress, Sound
    <2>2. \A t \in Terminal : \A n \in DOMAIN got[t] : n \in DOMAIN sent[t] /\ sent'[t][n] = sent[t][n]
      <3> SUFFICES ASSUME NEW t \in Terminal, NEW n \in DOMAIN got[t]
                   PROVE  n \in DOMAIN sent[t] /\ sent'[t][n] = sent[t][n]
        OBVIOUS
      <3>1. got[t] \in Seq([num : Sizes, bytes : Seq(Char)]) /\ sent[t] \in Seq(Sent)
        BY <2>1 DEF Types
      <3>2. Len(got[t]) <= Len(sent[t])
        BY <2>1 DEF Sound, Account
      <3>3. n \in DOMAIN sent[t]
        <4>1. n \in 1 .. Len(got[t]) /\ Len(got[t]) \in Nat /\ Len(sent[t]) \in Nat
          BY <3>1
        <4>2. n \in 1 .. Len(sent[t])
          BY <3>2, <4>1
        <4> QED BY <3>1, <4>2
      <3> QED BY <1>2, <2>1, <3>3, EnterGrows DEF SentGrows
    <2> QED BY <1>2, <2>2 DEF Rows
  <1>3. ASSUME NEW t \in Terminal, ReadEnd(t) PROVE Rows'
    <2>1. CASE Overruns(t)
      <3>1. got' = got /\ sent' = sent /\ command_list' = command_list
        BY <1>3, <2>1 DEF ReadEnd, past
      <3> QED BY <3>1 DEF Rows
    <2>2. CASE ~Overruns(t)
      <3>1. Sound /\ ~wild'
        BY <1>3, <2>2 DEF SoundUnlessWild, ReadEnd, Runs, Goes
      <3>2. PICK n \in Nat : n = Len(got[t]) /\ n = command_total[t] /\ Len(sent[t]) = n + 1
        BY <1>3, <3>1, Delivery
      <3>3. PICK line \in Sent : line = sent[t][n + 1] /\ Holds(keyboard_buffer, 0, line)
        BY <1>3, <3>1, <3>2, Delivery
      <3>4. Types /\ \A u \in Terminal : Account(u)
        BY <3>1 DEF Sound
      <3>5. \A u \in Terminal :
               /\ got[u] \in Seq([num : Sizes, bytes : Seq(Char)]) /\ DOMAIN got[u] = 1 .. Len(got[u])
               /\ Len(got[u]) \in Nat /\ Len(got[u]) <= Len(sent[u]) /\ Len(sent[u]) <= MaxLines
               /\ Len(sent[u]) \in Nat /\ DOMAIN sent[u] = 1 .. Len(sent[u])
        <4> TAKE u \in Terminal
        <4>1. got[u] \in Seq([num : Sizes, bytes : Seq(Char)]) /\ sent[u] \in Seq(Sent)
          BY <3>4 DEF Types
        <4> QED BY <3>4, <4>1 DEF Account, Lines
      <3>6. n < MaxHist /\ MaxLines <= MaxHist /\ MaxLines \in Nat /\ MaxHist \in Nat
        BY <3>2, <3>5, Parts DEF RowEach
      <3>7. \A u \in Terminal : \A m \in DOMAIN sent[u] : Len(sent[u][m]) <= Width /\ Len(sent[u][m]) \in Nat
                                                          /\ Len(sent[u][m]) > 0
        <4> SUFFICES ASSUME NEW u \in Terminal, NEW m \in DOMAIN sent[u]
                     PROVE  Len(sent[u][m]) <= Width /\ Len(sent[u][m]) \in Nat /\ Len(sent[u][m]) > 0
          OBVIOUS
        <4>1. sent[u] \in Seq(Sent)
          BY <3>4 DEF Types
        <4>2. sent[u][m] \in Sent
          BY <4>1
        <4>3. PICK len \in Nat : len = Len(sent[u][m]) /\ len > 0
          BY <4>2 DEF Sent
        <4>4. len <= MaxEntered + 1
          BY <4>3 DEF Lines
        <4> QED BY <4>3, <4>4, Parts DEF RowEach
      <3> DEFINE str == Str(keyboard_buffer, 0, BufSize)
                 rec == [num |-> reading[t], bytes |-> Line(RealReadNumber(t))]
      <3>8. str = line /\ line \in Seq(Char) /\ Len(line) > 0
        <4>1. keyboard_buffer \in Buffer /\ Tidy
          BY <3>4 DEF Types, RowEach
        <4>2. ~Unterminated(keyboard_buffer, 0, BufSize) /\ keyboard_buffer[0] # NUL
          BY <2>2 DEF Overruns, Unterminated
        <4> QED BY <3>3, <4>1, <4>2, HeldString DEF Sent
      <3>9. /\ command_list' = Put(command_list, Row(t, n), WithoutNewline(line))
            /\ got' = [got EXCEPT ![t] = Append(@, rec)] /\ sent' = sent
        BY <1>3, <2>2, <3>2, <3>8, ReadEndSteps
      <3> HIDE DEF str, rec
      <3>10. PICK row \in Seq(Char) :
                /\ row = WithoutNewline(line) /\ Len(row) = Len(line) /\ row[Len(line)] = NUL
                /\ \A i \in 1 .. Len(line) - 1 : row[i] = line[i]
        BY <3>8, RowStored
      <3>11. Len(line) <= Width /\ Len(line) \in Nat
        <4>1. n + 1 \in DOMAIN sent[t]
          BY <1>3, <3>2, <3>5
        <4> QED BY <1>3, <3>3, <3>7, <4>1
      <3>12. PICK new : new = command_list' /\ new = Put(command_list, Row(t, n), row)
        BY <3>9, <3>10
      <3>13. command_list \in [HistCell -> Char]
        BY <3>4 DEF Types
      <3>14. /\ \A i \in 1 .. Len(row) : new[Row(t, n) + i - 1] = row[i]
             /\ \A u \in Terminal, m \in Nat, i \in 1 .. Width :
                   m < MaxHist /\ <<t, n>> # <<u, m>> =>
                      new[Row(u, m) + i - 1] = command_list[Row(u, m) + i - 1]
        <4>1. Len(row) <= Width
          BY <3>10, <3>11
        <4> QED BY <3>6, <3>12, <3>13, <4>1, RowWritten
      <3>15. /\ DOMAIN got'[t] = 1 .. n + 1
             /\ \A u \in Terminal : u # t => got'[u] = got[u]
        <4>1. got \in [Terminal -> Seq([num : Sizes, bytes : Seq(Char)])]
          BY <3>4 DEF Types
        <4>2. got'[t] = Append(got[t], rec) /\ \A u \in Terminal : u # t => got'[u] = got[u]
          BY <1>3, <3>9, <4>1
        <4>3. got[t] \in Seq([num : Sizes, bytes : Seq(Char)]) /\ Len(got[t]) = n
          BY <3>2, <3>5
        <4>4. DOMAIN got'[t] = 1 .. n + 1
          BY <4>2, <4>3
        <4> QED BY <4>2, <4>4
      <3>16. ASSUME NEW u \in Terminal, NEW m \in DOMAIN got[u]
             PROVE  /\ \A i \in 1 .. Len(sent[u][m]) - 1 : new[Row(u, m - 1) + i - 1] = sent[u][m][i]
                    /\ new[Row(u, m - 1) + Len(sent[u][m]) - 1] = NUL
        <4>0. PICK g \in Nat, s \in Nat : /\ g = Len(got[u]) /\ s = Len(sent[u])
                                          /\ g <= s /\ s <= MaxLines
                                          /\ m \in 1 .. g /\ DOMAIN sent[u] = 1 .. s
          BY <3>5
        <4>1. m \in Nat /\ m - 1 \in Nat /\ m - 1 < MaxHist /\ m \in DOMAIN sent[u]
          BY <3>6, <4>0
        <4>2. <<t, n>> # <<u, m - 1>>
          <5>1. m \in 1 .. Len(got[u])
            BY <3>5
          <5>2. u = t => m - 1 # n
            <6> SUFFICES ASSUME u = t PROVE m - 1 # n
              OBVIOUS
            <6>1. m \in 1 .. n
              BY <3>2, <5>1
            <6> QED BY <3>2, <6>1
          <5> QED BY <5>2
        <4>3. PICK len \in Nat : len = Len(sent[u][m]) /\ len <= Width /\ len > 0
          BY <3>7, <4>1
        <4>4. \A i \in 1 .. len : i \in 1 .. Width
          BY <4>3, Parts
        <4>5. \A i \in 1 .. len : new[Row(u, m - 1) + i - 1] = command_list[Row(u, m - 1) + i - 1]
          BY <3>14, <4>1, <4>2, <4>4
        <4>6. len \in 1 .. len /\ \A i \in 1 .. len - 1 : i \in 1 .. len
          BY <4>3
        <4>7. /\ \A i \in 1 .. len - 1 : command_list[Row(u, m - 1) + i - 1] = sent[u][m][i]
              /\ command_list[Row(u, m - 1) + len - 1] = NUL
          BY <4>3 DEF Rows
        <4> QED BY <4>3, <4>5, <4>6, <4>7
      <3>17. /\ \A i \in 1 .. Len(line) - 1 : new[Row(t, n) + i - 1] = line[i]
             /\ new[Row(t, n) + Len(line) - 1] = NUL
        <4>1. Len(line) \in 1 .. Len(row) /\ \A i \in 1 .. Len(line) - 1 : i \in 1 .. Len(row)
          BY <3>8, <3>10, <3>11
        <4> QED BY <3>10, <3>14, <4>1
      <3>18. ASSUME NEW u \in Terminal
             PROVE  /\ \A m \in DOMAIN got'[u] :
                          /\ \A i \in 1 .. Len(sent[u][m]) - 1 : new[Row(u, m - 1) + i - 1] = sent[u][m][i]
                          /\ new[Row(u, m - 1) + Len(sent[u][m]) - 1] = NUL
                    /\ got'[u] = <<>> => new[Row(u, 0)] = NUL
        <4>1. CASE u = t
          <5>1. ASSUME NEW m \in 1 .. n + 1
                PROVE  /\ \A i \in 1 .. Len(sent[u][m]) - 1 : new[Row(u, m - 1) + i - 1] = sent[u][m][i]
                       /\ new[Row(u, m - 1) + Len(sent[u][m]) - 1] = NUL
            <6>1. CASE m = n + 1
              <7>1. m - 1 = n /\ sent[u][m] = line
                BY <3>2, <3>3, <4>1, <6>1
              <7> QED BY <3>17, <4>1, <7>1
            <6>2. CASE m # n + 1
              <7>1. m \in DOMAIN got[u]
                <8>1. DOMAIN got[t] = 1 .. n
                  BY <3>2, <3>5
                <8>2. m \in 1 .. n
                  BY <5>1, <6>2
                <8> QED BY <4>1, <8>1, <8>2
              <7> QED BY <3>16, <7>1
            <6> QED BY <6>1, <6>2
          <5>2. got'[u] # <<>>
            <6>1. 1 \in DOMAIN got'[u]
              BY <3>2, <3>15, <4>1
            <6> QED BY <6>1
          <5> QED BY <3>15, <4>1, <5>1, <5>2
        <4>2. CASE u # t
          <5>1. got'[u] = got[u]
            BY <3>15, <4>2
          <5>2. got[u] = <<>> => new[Row(u, 0)] = NUL
            <6>1. 1 \in 1 .. Width /\ 0 < MaxHist /\ 0 \in Nat /\ <<t, n>> # <<u, 0>>
              BY <4>2, Parts
            <6>2. Row(u, 0) + 1 - 1 = Row(u, 0)
              BY RowNat
            <6>3. new[Row(u, 0) + 1 - 1] = command_list[Row(u, 0) + 1 - 1]
              BY <3>14, <6>1
            <6>4. new[Row(u, 0)] = command_list[Row(u, 0)]
              BY <6>2, <6>3
            <6> QED BY <6>4 DEF Rows
          <5> QED BY <3>16, <5>1, <5>2
        <4> QED BY <4>1, <4>2
      <3> QED BY <3>9, <3>12, <3>18 DEF Rows
    <2> QED BY <2>1, <2>2
  <1> QED BY <1>1, <1>2, <1>3, WhoReads

LEMMA RowsInit == Init => Rows
  <1> SUFFICES ASSUME Init PROVE Rows
    OBVIOUS
  <1>1. \A t \in Terminal : Row(t, 0) \in HistCell
    <2> SUFFICES ASSUME NEW t \in Terminal PROVE Row(t, 0) \in HistCell
      OBVIOUS
    <2>1. Row(t, 0) \in Nat /\ Row(t, 0) + Width <= HistSize /\ HistSize \in Nat /\ Width \in Nat /\ Width > 0
      BY RowsApart, Parts
    <2> QED BY <2>1 DEF HistCell, HistSize
  <1>2. \A t \in Terminal : DOMAIN got[t] = {}
    BY DEF Init
  <1> QED BY <1>1, <1>2 DEF Init, Rows

LEMMA RowsAlways == ASSUME Orderly, RowEach PROVE Spec => []Rows
  <1>1. SoundUnlessWild /\ Lines /\ Rows /\ [Next]_vars => Rows'
    BY RowsNext
  <1> QED BY <1>1, RowsInit, SoundAlways, LinesAlways, PTL DEF Spec

(* A row is the string of its line. *)
LEMMA RowString ==
    ASSUME Sound, Lines, Rows, RowEach, NEW t \in Terminal, NEW n \in DOMAIN got[t]
    PROVE  /\ n \in DOMAIN sent[t] /\ sent[t][n] \in Sent /\ Len(sent[t][n]) <= Width
           /\ ~Unterminated(command_list, Row(t, n - 1), HistSize)
           /\ Str(command_list, Row(t, n - 1), HistSize) = SubSeq(sent[t][n], 1, Len(sent[t][n]) - 1)
  <1> DEFINE line == sent[t][n]
  <1>1. /\ got[t] \in Seq([num : Sizes, bytes : Seq(Char)]) /\ sent[t] \in Seq(Sent)
        /\ Len(got[t]) <= Len(sent[t]) /\ Len(sent[t]) <= MaxLines
    BY DEF Sound, Types, Account, Lines
  <1>2. n \in 1 .. Len(got[t]) /\ Len(got[t]) \in Nat /\ Len(sent[t]) \in Nat
    BY <1>1
  <1>3. n \in DOMAIN sent[t] /\ n - 1 \in Nat /\ n - 1 < MaxHist
    <2>1. MaxLines \in Nat /\ MaxHist \in Nat /\ MaxLines <= MaxHist
      BY Parts DEF RowEach
    <2>2. n \in 1 .. Len(sent[t]) /\ n - 1 \in Nat /\ n - 1 < MaxHist
      BY <1>1, <1>2, <2>1
    <2> QED BY <1>1, <2>2
  <1>4. line \in Sent
    BY <1>1, <1>3
  <1>5. PICK m \in Nat : Len(line) = m + 1 /\ m + 1 <= Width /\ m = Len(line) - 1
    <2>1. PICK len \in Nat : len = Len(line) /\ len > 0
      BY <1>4 DEF Sent
    <2>2. len <= MaxEntered + 1
      BY <1>3, <2>1 DEF Lines
    <2>3. len - 1 \in Nat /\ len = (len - 1) + 1 /\ len <= Width
      BY <2>1, <2>2, Parts DEF RowEach
    <2> QED BY <2>1, <2>3
  <1>6. line \in Seq(Char) /\ \A i \in 1 .. m : line[i] # NUL
    <2>1. \A i \in 1 .. Len(line) - 1 : line[i] \in Letters
      BY <1>4 DEF Sent
    <2> QED BY <1>4, <1>5, <2>1, Parts DEF Sent
  <1>7. PICK size \in Nat : size = HistSize
    BY RowNat
  <1>8. PICK at \in Nat : at = Row(t, n - 1) /\ at + Width <= size
    BY <1>3, <1>7, RowsApart
  <1>9. at + m < size
    BY <1>5, <1>8, Parts
  <1>10. (\A i \in 1 .. m : command_list[at + i - 1] = line[i]) /\ command_list[at + m] = NUL
    <2>1. /\ \A i \in 1 .. Len(line) - 1 : command_list[Row(t, n - 1) + i - 1] = line[i]
          /\ command_list[Row(t, n - 1) + Len(line) - 1] = NUL
      BY DEF Rows
    <2>2. at + Len(line) - 1 = at + m
      BY <1>5
    <2> QED BY <1>5, <1>8, <2>1, <2>2
  <1> HIDE DEF line
  <1>11. \A i \in 1 .. m : command_list[at + i - 1] # NUL
    BY <1>6, <1>10
  <1>12. ~Unterminated(command_list, at, size) /\ Str(command_list, at, size) = Slice(command_list, at, m)
    BY <1>9, <1>10, <1>11, StringIs
  <1>13. Slice(command_list, at, m) = SubSeq(line, 1, m)
    <2>1. SubSeq(line, 1, m) \in Seq(Char) /\ Len(SubSeq(line, 1, m)) = m
          /\ \A i \in 1 .. m : SubSeq(line, 1, m)[i] = line[i] /\ line[i] \in Char
      <3>1. \A i \in 1 .. m : line[i] \in Char
        BY <1>5, <1>6
      <3> QED BY <1>5, <1>6, <3>1, SubSeqProperties
    <2>2. Slice(command_list, at, m) = [i \in 1 .. m |-> line[i]]
      BY <1>10 DEF Slice
    <2>3. Slice(command_list, at, m) \in [1 .. m -> Char]
          /\ \A i \in 1 .. m : Slice(command_list, at, m)[i] = line[i]
      BY <2>1, <2>2
    <2>4. Slice(command_list, at, m) \in Seq(Char) /\ Len(Slice(command_list, at, m)) = m
      BY <2>3
    <2> QED BY <2>1, <2>3, <2>4, SeqEqual
  <1> QED BY <1>3, <1>4, <1>5, <1>7, <1>8, <1>12, <1>13 DEF line

(* The step that leaves an array leaves the history. *)
LEMMA WildLeavesTheHistory ==
    ASSUME Sound, Next, wild'
    PROVE  UNCHANGED <<got, sent, command_list>>
  <1>1. CASE Up \/ Down
    BY <1>1 DEF Up, Down
  <1>2. CASE TabBegin \/ TabEnd
    BY <1>2 DEF TabBegin, TabEnd, past, ghost
  <1>3. CASE \E t \in Terminal : ReadEnd(t) /\ Overruns(t)
    BY <1>3 DEF ReadEnd, past
  <1> QED BY <1>1, <1>2, <1>3, WhoGoesWild

(* Every row of the history of a terminal is the line that its process has   *)
(* read, without the newline: terminal_read strips it and writes the row of  *)
(* this terminal and this line, and later lines, of this and of other        *)
(* terminals, leave it.  The rows keep the lines apart while a line is       *)
(* shorter than a row and there are no more of them than rows.               *)
THEOREM TheHistoryIsKept ==
    ASSUME Orderly, RowEach
    PROVE  Spec => []HistoryKept
  <1>1. Init => HistoryKept
    BY DEF Init, HistoryKept
  <1>2. SoundUnlessWild /\ Lines /\ Rows /\ ~wild => HistoryKept
    BY RowString DEF SoundUnlessWild, HistoryKept
  <1>3. SoundUnlessWild /\ HistoryKept /\ [Next]_vars => (~wild)' \/ HistoryKept'
    <2> SUFFICES ASSUME SoundUnlessWild, HistoryKept, [Next]_vars, wild' PROVE HistoryKept'
      OBVIOUS
    <2>1. UNCHANGED <<got, sent, command_list>>
      <3>1. CASE Next
        BY <3>1, OnlyWhenTame, WildLeavesTheHistory DEF SoundUnlessWild
      <3>2. CASE UNCHANGED vars
        BY <3>2 DEF vars, past, ghost
      <3> QED BY <3>1, <3>2
    <2> QED BY <2>1 DEF HistoryKept
  <1> QED BY <1>1, <1>2, <1>3, SoundAlways, LinesAlways, RowsAlways, PTL DEF Spec

-----------------------------------------------------------------------------
(***************************************************************************)
(* No array is left.                                                       *)
(***************************************************************************)
(* Lines end before the last cell, and the history has the room for any     *)
(* buffer that is stored behind the lines before it.                       *)
ShortLines == MaxEntered + 1 < BufSize
RoomBehind == NoRecall /\ (MaxLines - 1) * Width + BufSize <= MaxHist * Width + 1
Bounded == Orderly /\ "tab" \notin Keys /\ ShortLines /\ (RowEach \/ RoomBehind)

Last == BufSize - 1
Ended == keyboard_buffer[Last] = NUL /\ \A t \in Terminal : saved[t].buf[Last] = NUL

LEMMA EndedNext ==
    ASSUME Bounded, NoRecall, Sound, Ended, [Next]_vars
    PROVE  Ended'
  <1>1. /\ Types /\ keyboard_buffer \in Buffer /\ kb_buf_idx \in Cell /\ kb_buf_idx \in Nat
        /\ BufSize \in Nat /\ BufSize > 1 /\ Last \in Cell /\ Last = BufSize - 1 /\ Last # 0
        /\ 0 \in Cell /\ NUL \in Char /\ NL \in Char /\ Ell \in Char
    <2>1. Types /\ keyboard_buffer \in Buffer /\ kb_buf_idx \in Cell
      BY DEF Sound, Types
    <2>2. BufSize \in Nat /\ BufSize > 1 /\ Last \in Cell /\ Last = BufSize - 1 /\ Last # 0
      BY Parts DEF Last
    <2> QED BY <2>1, <2>2, Parts
  <1>2. ASSUME NEW at \in Cell, at # Last, NEW x \in Char
        PROVE  Put(keyboard_buffer, at, <<x>>)[Last] = NUL
    BY <1>1, <1>2, OneStored DEF Ended
  <1>3. CASE UNCHANGED vars
    BY <1>3 DEF vars, kb, terminals, Ended
  <1>4. CASE Backspace
    BY <1>4 DEF Backspace, terminals, Ended
  <1>5. ASSUME NEW c \in Letters, Letter(c) PROVE Ended'
    <2>1. c \in Char /\ kb_buf_idx # Last
      BY <1>1, <1>5, Parts DEF Letter, Room, Fits
    <2> QED BY <1>1, <1>2, <1>5, <2>1 DEF Letter, terminals, Ended
  <1>6. CASE Enter
    <2>1. Len(typed[display]) <= MaxEntered /\ Key("enter") /\ Orderly
      BY <1>6 DEF Enter, Bounded
    <2>2. Len(typed[display]) = kb_buf_idx
      BY <2>1, Pressed DEF Edits
    <2>3. kb_buf_idx # Last
      BY <1>1, <2>1, <2>2, Parts DEF Bounded, ShortLines
    <2>4. ~(kb_buf_idx >= BufSize)
      BY <1>1 DEF Cell
    <2> QED BY <1>1, <1>2, <1>6, <2>3, <2>4 DEF Enter, terminals, Ended
  <1>7. ASSUME NEW alt \in BOOLEAN, ControlL(alt) PROVE Ended'
    <2>1. keyboard_buffer' = keyboard_buffer \/ keyboard_buffer' = Put(keyboard_buffer, 0, <<Ell>>)
      BY <1>7 DEF ControlL
    <2>2. keyboard_buffer'[Last] = NUL
      BY <1>1, <1>2, <2>1 DEF Ended
    <2> QED BY <1>7, <2>2 DEF ControlL, terminals, Ended
  <1>8. ~Up /\ ~Down /\ ~TabBegin /\ ~TabEnd
    BY DEF Up, Down, TabBegin, TabEnd, Key, AltKey, NoRecall, Bounded, Sound, Handled
  <1>9. ASSUME NEW t \in Terminal, ShiftBegin(t) PROVE Ended'
    <2>1. /\ saved' = [saved EXCEPT ![display] = [buf |-> keyboard_buffer, idx |-> kb_buf_idx]]
          /\ keyboard_buffer' = keyboard_buffer /\ started' = started
      BY <1>9 DEF ShiftBegin, Store, Stored, kb
    <2>2. saved \in [Terminal -> [buf : Buffer, idx : Cell]]
      BY <1>1 DEF Types
    <2>3. \A u \in Terminal : saved'[u].buf = keyboard_buffer \/ saved'[u] = saved[u]
      BY <2>1, <2>2
    <2> QED BY <2>1, <2>3 DEF Ended
  <1>10. CASE ShiftName
    BY <1>10 DEF ShiftName, kb, Ended
  <1>11. CASE ShiftLoad
    BY <1>1, <1>11 DEF ShiftLoad, terminals, Ended, Types
  <1>12. CASE ShiftStart
    <2>1. keyboard_buffer' = Put(keyboard_buffer, 0, <<NUL>>) /\ saved' = saved
      BY <1>12 DEF ShiftStart
    <2>2. keyboard_buffer'[Last] = NUL
      BY <1>1, <1>2, <2>1
    <2> QED BY <2>1, <2>2 DEF Ended
  <1>13. CASE Rotate
    BY <1>13 DEF Rotate, kb, Ended
  <1>14. ASSUME NEW t \in Terminal, ReadStep(t) PROVE Ended'
    <2>1. CASE ReadEnd(t)
      <3>1. keyboard_buffer' = keyboard_buffer \/ keyboard_buffer' = Zeroed
        BY <2>1 DEF ReadEnd, kb
      <3>2. Zeroed[Last] = NUL
        BY <1>1 DEF Zeroed
      <3>3. keyboard_buffer'[Last] = NUL
        BY <3>1, <3>2 DEF Ended
      <3> QED BY <2>1, <3>3 DEF ReadEnd, terminals, Ended
    <2>2. CASE \E num \in Sizes : ReadBegin(t, num)
      BY <2>2 DEF ReadBegin, kb, terminals, Ended
    <2> QED BY <1>14, <2>1, <2>2 DEF ReadStep
  <1> QED BY <1>3, <1>4, <1>5, <1>6, <1>7, <1>8, <1>9, <1>10, <1>11, <1>12, <1>13, <1>14
          DEF Next, KeyPress, HandlerStep

LEMMA LastCellFree ==
    ASSUME Bounded, Sound, Lines, NEW t \in Terminal, ReadEnd(t), NoRecall => Ended
    PROVE  keyboard_buffer[BufSize - 1] = NUL
  <1>1. CASE NoRecall
    BY <1>1 DEF Ended, Last
  <1>2. CASE ~NoRecall
    <2>1. Tidy /\ Orderly
      BY <1>2 DEF Bounded, Orderly
    <2>2. /\ Len(got[t]) \in Nat /\ Len(sent[t]) = Len(got[t]) + 1
          /\ sent[t][Len(sent[t])] \in Sent /\ Holds(keyboard_buffer, 0, sent[t][Len(sent[t])])
      BY <2>1, Delivery
    <2>3. sent[t] \in Seq(Sent)
      BY DEF Sound, Types
    <2>4. Len(sent[t]) \in DOMAIN sent[t]
      BY <2>2, <2>3
    <2>5. PICK len \in Nat : len = Len(sent[t][Len(sent[t])]) /\ len <= MaxEntered + 1
      <3>1. Len(sent[t][Len(sent[t])]) \in Nat
        BY <2>2 DEF Sent
      <3> QED BY <2>4, <3>1 DEF Lines
    <2>6. BufSize - 1 >= len /\ BufSize - 1 \in Cell
      BY <2>5, Parts DEF Bounded, ShortLines
    <2> QED BY <2>1, <2>2, <2>5, <2>6 DEF Holds
  <1> QED BY <1>1, <1>2

LEMMA RoomForARow ==
    ASSUME NEW t \in Terminal, NEW n \in Nat, n < MaxLines,
           (MaxLines - 1) * Width + BufSize <= MaxHist * Width + 1
    PROVE  Row(t, n) + BufSize - 1 <= HistSize
  <1>1. /\ t \in Nat /\ t + 1 <= NumTerm /\ NumTerm \in Nat /\ MaxHist \in Nat /\ Width \in Nat
        /\ MaxLines \in Nat /\ BufSize \in Nat
    BY Parts DEF Terminal
  <1>2. PICK h \in Nat : h = MaxHist * Width
    BY <1>1
  <1>3. Row(t, n) = t * h + n * Width
    <2>1. (t * MaxHist + n) * Width = t * (MaxHist * Width) + n * Width
      BY <1>1
    <2> QED BY <1>2, <2>1 DEF Row
  <1>4. HistSize = NumTerm * h
    <2>1. (NumTerm * MaxHist) * Width = NumTerm * (MaxHist * Width)
      BY <1>1
    <2> QED BY <1>2, <2>1 DEF HistSize
  <1>5. t * h + h <= NumTerm * h
    BY <1>1, <1>2, Multiples
  <1>6. n * Width <= (MaxLines - 1) * Width
    <2>1. PICK m \in Nat : m = MaxLines - 1 /\ n <= m
      BY <1>1
    <2>2. CASE n = m
      BY <1>1, <2>1, <2>2
    <2>3. CASE n # m
      <3>1. n * Width + Width <= m * Width
        BY <1>1, <2>1, <2>3, Multiples
      <3>2. n * Width \in Nat /\ m * Width \in Nat
        BY <1>1, <2>1
      <3> QED BY <1>1, <2>1, <3>1, <3>2
    <2> QED BY <2>2, <2>3
  <1>7. PICK a \in Nat, b \in Nat, c \in Int, d \in Nat :
            a = t * h /\ b = n * Width /\ c = (MaxLines - 1) * Width /\ d = NumTerm * h
    BY <1>1, <1>2
  <1>8. c + BufSize <= h + 1
    BY <1>2, <1>7
  <1>9. a + h <= d /\ b <= c
    BY <1>5, <1>6, <1>7
  <1> QED BY <1>1, <1>2, <1>3, <1>4, <1>7, <1>8, <1>9

(* The read stays in the buffer and in the history. *)
LEMMA ReadIsTame ==
    ASSUME Bounded, Sound, Lines, NEW t \in Terminal, ReadEnd(t), NoRecall => Ended
    PROVE  ~Overruns(t)
  <1>1. /\ Orderly /\ keyboard_buffer \in Buffer
        /\ keyboard_buffer[BufSize - 1] = NUL /\ BufSize - 1 \in 0 .. BufSize - 1
    <2>1. Orderly /\ keyboard_buffer \in Buffer
      BY DEF Bounded, Sound, Types
    <2>2. keyboard_buffer[BufSize - 1] = NUL
      BY LastCellFree
    <2>3. BufSize - 1 \in 0 .. BufSize - 1
      BY Parts
    <2> QED BY <2>1, <2>2, <2>3
  <1>2. BufSize - 1 \in Ends(keyboard_buffer, 0, BufSize)
    BY <1>1 DEF Ends
  <1>3. ~Unterminated(keyboard_buffer, 0, BufSize)
    BY <1>2 DEF Unterminated
  <1>4. PICK n \in Nat : n = Len(got[t]) /\ n = command_total[t] /\ Len(sent[t]) = n + 1
    BY <1>1, Delivery
  <1>5. PICK line \in Sent : line = sent[t][n + 1] /\ Holds(keyboard_buffer, 0, line)
    BY <1>1, <1>4, Delivery
  <1>6. n < MaxLines /\ n + 1 \in DOMAIN sent[t]
    <2>1. sent[t] \in Seq(Sent) /\ Len(sent[t]) <= MaxLines
      BY DEF Sound, Types, Lines
    <2> QED BY <1>4, <2>1, Parts
  <1>7. PICK len \in Nat : len = Len(line) /\ len > 0 /\ len <= MaxEntered + 1
    <2>1. Len(line) \in Nat /\ Len(line) > 0
      BY DEF Sent
    <2> QED BY <1>5, <1>6, <2>1 DEF Lines
  <1>8. keyboard_buffer[0] # NUL
    <2>1. 1 \in 1 .. Len(line) /\ 1 - 1 = 0
      BY <1>7
    <2>2. keyboard_buffer[1 - 1] = line[1]
      BY <1>5, <2>1 DEF Holds
    <2>3. line[1] # NUL
      <3>1. line[Len(line)] = NL /\ \A i \in 1 .. Len(line) - 1 : line[i] \in Letters
        BY DEF Sent
      <3>2. 1 = Len(line) \/ 1 \in 1 .. Len(line) - 1
        BY <1>7
      <3> QED BY <3>1, <3>2, Parts
    <2> QED BY <2>1, <2>2, <2>3
  <1> DEFINE str == Str(keyboard_buffer, 0, BufSize)
  <1>9. PICK size \in Nat : size = Len(str) /\ size < BufSize /\ (Tidy => str = line)
    <2>1. str \in Seq(Char) /\ Len(str) < BufSize /\ (Tidy => str = line)
      BY <1>1, <1>3, <1>5, <1>8, HeldString
    <2> QED BY <2>1, LenProperties
  <1>10. PICK at \in Nat : at = Row(t, n)
    BY RowNat
  <1>11. at + size <= HistSize
    <2>1. CASE RowEach
      <3>1. n < MaxHist /\ size <= Width /\ Width \in Nat
        <4>1. size = len
          BY <1>7, <1>9, <2>1 DEF RowEach
        <4> QED BY <1>6, <1>7, <2>1, <4>1, Parts DEF RowEach
      <3>2. at + Width <= HistSize /\ HistSize \in Nat
        BY <1>10, <3>1, RowsApart
      <3> QED BY <3>1, <3>2
    <2>2. CASE RoomBehind
      <3>1. at + BufSize - 1 <= HistSize /\ HistSize \in Nat
        BY <1>6, <1>10, <2>2, RoomForARow, RowNat DEF RoomBehind
      <3> QED BY <1>9, <3>1, Parts
    <2> QED BY <2>1, <2>2 DEF Bounded
  <1>12. ~(Row(t, command_total[t]) + Len(str) > HistSize)
    <2>1. HistSize \in Nat
      BY RowNat
    <2>2. ~(at + size > HistSize)
      BY <1>11, <2>1
    <2> QED BY <1>4, <1>9, <1>10, <2>2
  <1> QED BY <1>3, <1>8, <1>12 DEF Overruns

(* A row that is recalled fits the buffer. *)
LEMMA RecallIsTame ==
    ASSUME Bounded, Sound, Lines, RowEach, Rows, NEW n \in Nat, n = 0 \/ n < command_total[display]
    PROVE  /\ ~Unterminated(command_list, Row(display, n), HistSize)
           /\ ~(Len(Str(command_list, Row(display, n), HistSize)) >= BufSize)
  <1> DEFINE t == display
  <1>1. t \in Terminal /\ got[t] \in Seq([num : Sizes, bytes : Seq(Char)]) /\ command_total[t] = Len(got[t])
    BY DEF Sound, Types, Account
  <1>2. CASE n < command_total[t]
    <2>1. n + 1 \in DOMAIN got[t] /\ (n + 1) - 1 = n
      BY <1>1, <1>2
    <2>2. PICK m \in DOMAIN got[t] : m = n + 1 /\ m - 1 = n
      BY <2>1
    <2>3. /\ sent[t][m] \in Sent /\ m \in DOMAIN sent[t]
          /\ ~Unterminated(command_list, Row(t, m - 1), HistSize)
          /\ Str(command_list, Row(t, m - 1), HistSize) = SubSeq(sent[t][m], 1, Len(sent[t][m]) - 1)
      BY <1>1, RowString
    <2>4. PICK len \in Nat : len = Len(sent[t][m]) /\ len > 0 /\ len <= MaxEntered + 1
      <3>1. Len(sent[t][m]) \in Nat /\ Len(sent[t][m]) > 0
        BY <2>3 DEF Sent
      <3> QED BY <1>1, <2>3, <3>1 DEF Lines
    <2>5. Len(SubSeq(sent[t][m], 1, len - 1)) = len - 1
      <3>1. sent[t][m] \in Seq(Char)
        BY <2>3 DEF Sent
      <3>2. \A i \in 1 .. len - 1 : sent[t][m][i] \in Char
        BY <2>4, <3>1
      <3> QED BY <2>4, <3>1, <3>2, SubSeqProperties
    <2>6. ~(len - 1 >= BufSize)
      BY <2>4, Parts DEF Bounded, ShortLines
    <2> QED BY <2>2, <2>3, <2>4, <2>5, <2>6
  <1>3. CASE ~(n < command_total[t])
    <2>1. n = 0 /\ got[t] = <<>>
      BY <1>1, <1>3
    <2>2. PICK at \in Nat : at = Row(t, 0)
      BY <1>1, RowNat
    <2>3. PICK size \in Nat : size = HistSize /\ at < size
      BY <1>1, <2>2, RowsApart, Parts
    <2>4. command_list[at] = NUL
      BY <1>1, <2>1, <2>2 DEF Rows
    <2>5. /\ ~Unterminated(command_list, at, size)
          /\ Str(command_list, at, size) = Slice(command_list, at, 0)
      <3>1. at + 0 < size /\ command_list[at + 0] = NUL /\ 0 \in Nat
        BY <2>3, <2>4
      <3>2. \A i \in 1 .. 0 : command_list[at + i - 1] # NUL
        OBVIOUS
      <3> QED BY <3>1, <3>2, StringIs
    <2>6. Len(Slice(command_list, at, 0)) = 0
      BY DEF Slice
    <2> QED BY <2>1, <2>2, <2>3, <2>5, <2>6, Parts
  <1> QED BY <1>2, <1>3

LEMMA TameNext ==
    ASSUME Bounded, Sound, Lines, RowEach => Rows, NoRecall => Ended, Next
    PROVE  ~wild'
  <1> SUFFICES ASSUME wild' PROVE FALSE
    OBVIOUS
  <1>1. ~TabBegin /\ ~TabEnd
    BY DEF TabBegin, TabEnd, Key, AltKey, Bounded, Sound, Handled
  <1>2. ~wild
    BY OnlyWhenTame
  <1>3. ASSUME Up \/ Down PROVE FALSE
    <2>1. RowEach /\ Rows
      BY <1>3 DEF Up, Down, Key, AltKey, NoRecall, Bounded, RoomBehind
    <2>2. /\ command_count \in [Terminal -> Nat] /\ command_total \in [Terminal -> Nat]
          /\ display \in Terminal /\ command_count[display] <= command_total[display]
      BY DEF Sound, Types
    <2>3. PICK c \in Nat, d \in Nat : c = command_count[display] /\ d = command_total[display] /\ c <= d
      BY <2>2
    <2>4. CASE Up
      <3>1. PICK n \in Nat : n = Previous /\ (n = 0 \/ n < d)
        BY <2>3 DEF Previous
      <3>2. /\ ~Unterminated(command_list, Row(display, n), HistSize)
            /\ ~(Len(Str(command_list, Row(display, n), HistSize)) >= BufSize)
        BY <2>1, <2>3, <3>1, RecallIsTame
      <3>3. Recall(n)
        BY <2>4, <3>1 DEF Up
      <3> QED BY <1>2, <3>2, <3>3 DEF Recall
    <2>5. CASE Down
      <3>1. PICK n \in Nat : n = command_count[display] + 1
        BY <2>3
      <3>2. CASE n >= command_total[display]
        BY <1>2, <2>5, <3>1, <3>2 DEF Down
      <3>3. CASE ~(n >= command_total[display])
        <4>1. Recall(n)
          BY <2>5, <3>1, <3>3 DEF Down
        <4>2. n < command_total[display]
          BY <2>3, <3>3
        <4>3. /\ ~Unterminated(command_list, Row(display, n), HistSize)
              /\ ~(Len(Str(command_list, Row(display, n), HistSize)) >= BufSize)
          BY <2>1, <4>2, RecallIsTame
        <4> QED BY <1>2, <4>1, <4>3 DEF Recall
      <3> QED BY <3>2, <3>3
    <2> QED BY <1>3, <2>4, <2>5
  <1> QED BY <1>1, <1>3, ReadIsTame, WhoGoesWild

LEMMA WildIsBoolean ==
    ASSUME Bounded, Sound, Next, wild \in BOOLEAN
    PROVE  wild' \in BOOLEAN
  <1>1. ~TabBegin /\ ~TabEnd
    BY DEF TabBegin, TabEnd, Key, AltKey, Bounded, Sound, Handled
  <1>2. CASE Backspace \/ Enter
    BY <1>2 DEF Backspace, Enter
  <1>3. CASE Up \/ Down
    BY <1>3 DEF Up, Down, Recall
  <1>4. CASE \E c \in Letters : Letter(c)
    BY <1>4 DEF Letter
  <1>5. CASE \E alt \in BOOLEAN : ControlL(alt)
    BY <1>5 DEF ControlL
  <1>6. CASE (\E t \in Terminal : ShiftBegin(t)) \/ ShiftName \/ ShiftLoad \/ ShiftStart
    BY <1>6 DEF ShiftBegin, ShiftName, ShiftLoad, ShiftStart
  <1>7. CASE Rotate \/ \E t \in Terminal : ReadStep(t)
    BY <1>7 DEF Rotate, ReadStep, ReadBegin, ReadEnd
  <1> QED BY <1>1, <1>2, <1>3, <1>4, <1>5, <1>6, <1>7 DEF Next, KeyPress, HandlerStep

LEMMA SoundTyped == Sound /\ ~wild /\ wild \in BOOLEAN => TypeOK
  <1> SUFFICES ASSUME Sound, ~wild, wild \in BOOLEAN PROVE TypeOK
    OBVIOUS
  <1>1. Types
    BY DEF Sound
  <1>2. \A t \in Terminal : saved[t].buf \in [Cell -> Char] /\ saved[t].idx \in Cell
    BY <1>1 DEF Types, Buffer
  <1>3. handler.pc \in {"idle", "tab", "stored", "named"}
    BY <1>1 DEF Types, Idle, Tab, Switch
  <1>4. /\ keyboard_buffer \in [Cell -> Char] /\ kb_buf_idx \in Cell
        /\ {display, terminal_now} \subseteq Terminal /\ started \subseteq Terminal
    BY <1>1 DEF Types, Buffer
  <1> QED BY <1>1, <1>2, <1>3, <1>4 DEF Types, TypeOK

(* No handler and no read leaves the keyboard buffer, the history or the     *)
(* arrays of the completion, when TAB is not pressed, a line is shorter than *)
(* the buffer, and the history has room: a row for every line when lines are *)
(* recalled from it, or else, as terminal_read copies what is left behind a  *)
(* line with it, the room of the buffer behind the last row.                 *)
THEOREM NoArrayIsLeft ==
    ASSUME Bounded
    PROVE  Spec => []TypeOK
  <1> DEFINE Tame == ~wild /\ wild \in BOOLEAN
             RowsIf == RowEach => Rows
             EndedIf == NoRecall => Ended
  <1>1. Orderly
    BY DEF Bounded
  <1>2. Init => Tame
    BY DEF Init
  <1>3. Init => EndedIf
    <2>1. BufSize - 1 \in Cell
      BY Parts
    <2> QED BY <2>1 DEF Init, Ended, Last, Zeroed
  <1>4. SoundUnlessWild /\ Lines /\ RowsIf /\ EndedIf /\ Tame /\ [Next]_vars => Tame'
    <2> SUFFICES ASSUME SoundUnlessWild, Lines, RowsIf, EndedIf, Tame, [Next]_vars PROVE Tame'
      OBVIOUS
    <2>1. CASE Next
      BY <2>1, TameNext, WildIsBoolean DEF SoundUnlessWild
    <2>2. CASE UNCHANGED vars
      BY <2>2 DEF vars
    <2> QED BY <2>1, <2>2
  <1>5. SoundUnlessWild /\ Tame /\ EndedIf /\ [Next]_vars => EndedIf'
    BY EndedNext DEF SoundUnlessWild
  <1>6. Spec => []RowsIf
    <2>1. CASE RowEach
      <3>1. Rows => RowsIf
        OBVIOUS
      <3> HIDE DEF RowsIf
      <3> QED BY <1>1, <2>1, <3>1, RowsAlways, PTL
    <2>2. CASE ~RowEach
      <3>1. RowsIf
        BY <2>2
      <3> HIDE DEF RowsIf
      <3> QED BY <3>1, PTL
    <2> QED BY <2>1, <2>2
  <1>7. SoundUnlessWild /\ Tame => TypeOK
    BY SoundTyped DEF SoundUnlessWild
  <1> HIDE DEF Tame, RowsIf, EndedIf
  <1> QED BY <1>1, <1>2, <1>3, <1>4, <1>5, <1>6, <1>7, SoundAlways, LinesAlways, PTL DEF Spec

-----------------------------------------------------------------------------
(***************************************************************************)
(* One buffer, and an editor for each terminal.                            *)
(***************************************************************************)
LineNow == [t \in Terminal |-> LineOf(t)]
EnteredNow == [t \in Terminal |-> EnteredAt(t)]
PastNow == [t \in Terminal |-> PastOf(t)]
Pending(t) == IF Waiting(t) THEN sent[t][Len(sent[t])] ELSE <<>>

(* What the buffers hold is what the screens show and what was entered.     *)
Mirror == LineNow = typed /\ EnteredNow = [t \in Terminal |-> Pending(t)]

LEMMA BufferShows ==
    ASSUME Sound, NEW t \in Terminal
    PROVE  LineOf(t) = typed[t] /\ EnteredAt(t) = Pending(t)
  <1>1. Types /\ Account(t)
    BY DEF Sound
  <1>2. CASE t \notin started
    <2>1. typed[t] = <<>> /\ sent[t] = <<>> /\ got[t] = <<>>
      BY <1>1, <1>2 DEF Account
    <2>2. ~Waiting(t)
      BY <2>1 DEF Waiting
    <2> QED BY <1>2, <2>1, <2>2 DEF LineOf, EnteredAt, Pending
  <1>3. CASE t \in started
    <2>1. PICK mem, idx : BufferOf(t).buf = mem /\ BufferOf(t).idx = idx /\ Good(t, mem, idx)
      <3>1. CASE t = display /\ ~Switching
        BY <3>1 DEF BufferOf, Switching, Sound
      <3>2. CASE ~(t = display /\ ~Switching)
        BY <1>3, <3>2 DEF BufferOf, Switching, Sound
      <3> QED BY <3>1, <3>2
    <2>2. Edits(mem, idx, typed[t]) /\ mem \in Buffer
      BY <2>1 DEF Good, Edits
    <2>3. LineOf(t) = typed[t]
      BY <1>3, <2>1, <2>2, EditsShown DEF LineOf
    <2>4. EnteredAt(t) = IF NewlinesIn(mem) # {} THEN [i \in 1 .. FirstIn(mem) + 1 |-> mem[i - 1]] ELSE <<>>
      BY <1>3, <2>1 DEF EnteredAt, NewlinesIn, FirstIn
    <2>5. CASE Waiting(t)
      <3>1. sent[t] \in Seq(Sent) /\ got[t] \in Seq([num : Sizes, bytes : Seq(Char)])
        BY <1>1 DEF Types
      <3>2. Len(sent[t]) \in 1 .. Len(sent[t])
        BY <2>5, <3>1 DEF Waiting
      <3>3. PICK line \in Sent : line = sent[t][Len(sent[t])]
        BY <3>1, <3>2
      <3>4. Holds(mem, 0, line)
        BY <2>1, <2>5, <3>3 DEF Good, Holds
      <3>5. NewlinesIn(mem) # {} /\ FirstIn(mem) = Len(line) - 1
        BY <2>2, <3>4, NewlineFound
      <3>6. PICK n \in Nat : n = Len(line) /\ n = FirstIn(mem) + 1
        BY <3>5 DEF Sent
      <3>7. line = [i \in 1 .. n |-> mem[i - 1]]
        <4>1. line \in Seq(Char)
          BY DEF Sent
        <4>2. Len(line) = n /\ \A i \in 1 .. n : mem[i - 1] = line[i]
          BY <3>4, <3>6 DEF Holds
        <4>3. line = [i \in 1 .. n |-> line[i]]
          BY <4>1, <4>2
        <4> QED BY <4>2, <4>3
      <3> QED BY <2>3, <2>4, <2>5, <3>3, <3>5, <3>6, <3>7 DEF Pending
    <2>6. CASE ~Waiting(t)
      <3>1. NewlinesIn(mem) = {}
        BY <2>1, <2>6 DEF Good, Clear, NewlinesIn
      <3> QED BY <2>3, <2>4, <2>6, <3>1 DEF Pending
    <2> QED BY <2>5, <2>6
  <1> QED BY <1>2, <1>3

LEMMA SoundMirrors == Sound => Mirror
  <1> SUFFICES ASSUME Sound PROVE Mirror
    OBVIOUS
  <1>1. typed = [t \in Terminal |-> typed[t]]
    BY DEF Sound, Types
  <1> QED BY <1>1, BufferShows DEF Mirror, LineNow, EnteredNow

(* The history holds what the lines entered were. *)
LEMMA PastIs ==
    ASSUME Sound, NEW t \in Terminal
    PROVE  /\ PastNow[t] = PastOf(t) /\ Len(PastOf(t)) = Len(got[t]) /\ Len(got[t]) \in Nat
           /\ DOMAIN PastOf(t) = 1 .. Len(got[t]) /\ DOMAIN got[t] = 1 .. Len(got[t])
           /\ \A n \in 1 .. Len(got[t]) : n \in DOMAIN sent[t]
           /\ \A n \in 1 .. Len(got[t]) : PastOf(t)[n] = SubSeq(sent[t][n], 1, Len(sent[t][n]) - 1)
  <1>1. /\ got[t] \in Seq([num : Sizes, bytes : Seq(Char)]) /\ sent[t] \in Seq(Sent)
        /\ Len(got[t]) <= Len(sent[t])
    BY DEF Sound, Types, Account
  <1>2. DOMAIN got[t] = 1 .. Len(got[t]) /\ Len(got[t]) \in Nat
    BY <1>1
  <1>3. \A n \in 1 .. Len(got[t]) : n \in DOMAIN sent[t]
    BY <1>1, <1>2
  <1>4. DOMAIN PastOf(t) = 1 .. Len(got[t])
        /\ \A n \in 1 .. Len(got[t]) : PastOf(t)[n] = SubSeq(sent[t][n], 1, Len(sent[t][n]) - 1)
    BY <1>2 DEF PastOf
  <1>5. Len(PastOf(t)) = Len(got[t])
    BY <1>2 DEF PastOf
  <1> QED BY <1>2, <1>3, <1>4, <1>5 DEF PastNow

LEMMA PastStays ==
    ASSUME Sound, SentGrows, got' = got
    PROVE  PastNow' = PastNow
  <1>1. ASSUME NEW t \in Terminal PROVE PastOf(t)' = PastOf(t)
    <2>1. \A n \in DOMAIN got[t] : sent'[t][n] = sent[t][n]
      BY PastIs DEF SentGrows
    <2> QED BY <2>1 DEF PastOf
  <1> QED BY <1>1 DEF PastNow

(* The steps between which an abstract one is looked for: both states are    *)
(* sound, and no array is left.                                             *)
Tame == Sound /\ Mirror /\ wild = FALSE
BothTame == Tame /\ Mirror' /\ wild' = FALSE

LEMMA LineStutters ==
    ASSUME BothTame, UNCHANGED <<typed, sent, got, display, command_count>>
    PROVE  UNCHANGED Abstract!vars
  <1>1. PastNow' = PastNow
    BY DEF PastNow, PastOf
  <1>2. LineNow' = LineNow /\ EnteredNow' = EnteredNow
    <2>1. \A t \in Terminal : Pending(t)' = Pending(t)
      BY DEF Pending, Waiting
    <2> QED BY <2>1 DEF BothTame, Tame, Mirror
  <1> QED BY <1>1, <1>2 DEF BothTame, Tame, Abstract!vars, LineNow, EnteredNow, PastNow

(* An edit of the line on the screen. *)
LEMMA LineEdited ==
    ASSUME BothTame, ~Waiting(display), NEW s, typed' = [typed EXCEPT ![display] = s],
           UNCHANGED <<sent, got, display>>
    PROVE  Abstract!Edit(s) /\ LineNow[display] = typed[display]
  <1>1. LineNow = typed /\ LineNow' = [LineNow EXCEPT ![display] = s]
    BY DEF BothTame, Tame, Mirror
  <1>2. EnteredNow' = EnteredNow
    <2>1. \A t \in Terminal : Pending(t)' = Pending(t)
      BY DEF Pending, Waiting
    <2> QED BY <2>1 DEF BothTame, Tame, Mirror
  <1>3. EnteredNow[display] = <<>>
    <2>1. display \in Terminal
      BY DEF BothTame, Tame, Sound, Types
    <2> QED BY <2>1 DEF BothTame, Tame, Mirror, Pending
  <1>4. PastNow' = PastNow
    BY DEF PastNow, PastOf
  <1> QED BY <1>1, <1>2, <1>3, <1>4 DEF BothTame, Tame, Abstract!Edit, LineNow, EnteredNow, PastNow

(* A step leaves an array or not. *)
LEMMA TameIsFalse ==
    ASSUME Next, wild = FALSE, ~wild'
    PROVE  wild' = FALSE
  <1>1. CASE TabBegin
    <2>1. wild' = ~CopyFits(WordStart)
      BY <1>1 DEF TabBegin
    <2> QED BY <2>1
  <1>2. CASE TabEnd
    <2> DEFINE matching == {name \in Names : Matches(handler.word, name)}
    <2>1. CASE \E n \in matching : matching = {n}
      <3>1. PICK name : name = CHOOSE n \in matching : TRUE
        OBVIOUS
      <3>2. wild' = (~NamesFit \/ handler.k + Len(name) > BufSize - 1)
        BY <1>2, <2>1, <3>1 DEF TabEnd
      <3> QED BY <3>2
    <2>2. CASE ~\E n \in matching : matching = {n}
      <3>1. wild' = ~NamesFit
        BY <1>2, <2>2 DEF TabEnd
      <3> QED BY <3>1
    <2> QED BY <2>1, <2>2
  <1>3. CASE Backspace \/ Enter \/ Up \/ Down
    BY <1>3 DEF Backspace, Enter, Up, Down, Recall
  <1>4. CASE \E c \in Letters : Letter(c)
    <2>1. wild' = (kb_buf_idx + 1 > BufSize - 1)
      BY <1>4 DEF Letter
    <2> QED BY <2>1
  <1>5. CASE \E alt \in BOOLEAN : ControlL(alt)
    BY <1>5 DEF ControlL
  <1>6. CASE (\E t \in Terminal : ShiftBegin(t)) \/ ShiftName \/ ShiftLoad \/ ShiftStart
    BY <1>6 DEF ShiftBegin, ShiftName, ShiftLoad, ShiftStart
  <1>7. CASE Rotate \/ \E t \in Terminal : ReadStep(t)
    BY <1>7 DEF Rotate, ReadStep, ReadBegin, ReadEnd
  <1> QED BY <1>1, <1>2, <1>3, <1>4, <1>5, <1>6, <1>7 DEF Next, KeyPress, HandlerStep

LEMMA LetterTypes ==
    ASSUME Orderly, BothTame, NEW c \in Letters, Letter(c)
    PROVE  Abstract!Next
  <1>1. Key("letter")
    BY DEF Letter
  <1> DEFINE s == Append(typed[display], c)
  <1>2. typed' = [typed EXCEPT ![display] = s] /\ UNCHANGED <<sent, got, display, command_count>>
    BY DEF Letter, terminals, past
  <1> HIDE DEF s
  <1>3. Abstract!Edit(s) /\ LineNow[display] = typed[display]
    BY <1>1, <1>2, Pressed, LineEdited DEF BothTame, Tame
  <1>4. Abstract!Type(c)
    BY <1>2, <1>3 DEF Abstract!Type, LineNow, s
  <1> QED BY <1>4 DEF Abstract!Next

LEMMA BackspaceErases ==
    ASSUME Orderly, BothTame, Backspace
    PROVE  Abstract!Next
  <1>1. Key("backspace") /\ kb_buf_idx > 0
    BY DEF Backspace
  <1> DEFINE s == SubSeq(typed[display], 1, Len(typed[display]) - 1)
  <1>2. typed' = [typed EXCEPT ![display] = s] /\ UNCHANGED <<sent, got, display, command_count>>
    BY DEF Backspace, terminals, past
  <1> HIDE DEF s
  <1>3. ~Waiting(display) /\ Edits(keyboard_buffer, kb_buf_idx, typed[display])
    BY <1>1, Pressed DEF BothTame, Tame
  <1>4. Abstract!Edit(s) /\ LineNow[display] = typed[display]
    BY <1>2, <1>3, LineEdited
  <1>5. typed[display] # <<>>
    <2>1. Len(typed[display]) = kb_buf_idx
      BY <1>3 DEF Edits
    <2> QED BY <1>1, <2>1
  <1>6. Abstract!Erase
    BY <1>2, <1>4, <1>5 DEF Abstract!Erase, Abstract!Front, LineNow, s
  <1> QED BY <1>6 DEF Abstract!Next

LEMMA ControlLClears ==
    ASSUME Orderly, BothTame, NEW alt \in BOOLEAN, ControlL(alt)
    PROVE  Abstract!Next
  <1>1. Key("ctrl_l")
    BY DEF ControlL
  <1>2. PICK s \in {<<>>, <<Ell>>} : typed' = [typed EXCEPT ![display] = s]
    BY DEF ControlL
  <1>3. UNCHANGED <<sent, got, display, command_count>>
    BY DEF ControlL, terminals, past
  <1>4. Abstract!Edit(s)
    BY <1>1, <1>2, <1>3, Pressed, LineEdited DEF BothTame, Tame
  <1>5. Abstract!Clear
    BY <1>2, <1>3, <1>4 DEF Abstract!Clear
  <1> QED BY <1>5 DEF Abstract!Next

LEMMA EnterSubmits ==
    ASSUME Orderly, BothTame, Enter
    PROVE  Abstract!Next
  <1>1. Key("enter")
    BY DEF Enter
  <1>2. Sound /\ Types /\ display \in Terminal /\ ~Waiting(display) /\ wild' = wild
    BY <1>1, Pressed DEF BothTame, Tame, Sound, Types
  <1> DEFINE line == Append(typed[display], NL)
             new == Append(sent[display], line)
  <1>3. /\ typed' = [typed EXCEPT ![display] = <<>>] /\ sent' = [sent EXCEPT ![display] = new]
        /\ UNCHANGED <<got, display, command_count>>
    BY DEF Enter, terminals, past
  <1>4. sent[display] \in Seq(Sent) /\ sent \in [Terminal -> Seq(Sent)]
        /\ got[display] \in Seq([num : Sizes, bytes : Seq(Char)])
    BY <1>2 DEF Types
  <1>5. Len(new) = Len(sent[display]) + 1 /\ new[Len(new)] = line /\ Len(sent[display]) \in Nat
    <2> HIDE DEF line
    <2> QED BY <1>4
  <1>6. Len(sent[display]) = Len(got[display])
    BY <1>2, <1>4 DEF Waiting, Sound, Account
  <1> HIDE DEF line, new
  <1>7. Pending(display)' = line
    <2>1. sent'[display] = new
      BY <1>2, <1>3, <1>4
    <2>2. Waiting(display)'
      BY <1>3, <1>5, <1>6, <2>1 DEF Waiting
    <2> QED BY <1>3, <1>5, <2>1, <2>2 DEF Pending
  <1>8. \A t \in Terminal : t # display => Pending(t)' = Pending(t)
    BY <1>2, <1>3, <1>4 DEF Pending, Waiting
  <1>9. EnteredNow[display] = <<>> /\ EnteredNow' = [EnteredNow EXCEPT ![display] = line]
    <2>1. EnteredNow = [t \in Terminal |-> Pending(t)] /\ EnteredNow' = [t \in Terminal |-> Pending(t)']
      BY DEF BothTame, Tame, Mirror
    <2>2. Pending(display) = <<>>
      BY <1>2 DEF Pending
    <2> QED BY <1>2, <1>3, <1>7, <1>8, <2>1, <2>2
  <1>10. LineNow = typed /\ LineNow' = [LineNow EXCEPT ![display] = <<>>]
    BY <1>3 DEF BothTame, Tame, Mirror
  <1>11. PastNow' = PastNow
    BY <1>2, <1>3, EnterGrows, PastStays
  <1>12. Abstract!Submit
    BY <1>2, <1>3, <1>9, <1>10, <1>11
       DEF BothTame, Tame, Abstract!Submit, LineNow, EnteredNow, PastNow, line
  <1> QED BY <1>12 DEF Abstract!Next

(* A row of the history is a line read, and the first one is empty while    *)
(* there is none.                                                           *)
RowOf(n) == Str(command_list, Row(display, n), HistSize)
LineRead(n) == IF n < Len(PastNow[display]) THEN PastNow[display][n + 1] ELSE <<>>

LEMMA RowIsRead ==
    ASSUME Sound, Lines, Rows, RowEach, NEW n \in Nat,
           n <= Len(got[display]), n = Len(got[display]) => n = 0
    PROVE  RowOf(n) = LineRead(n)
  <1>1. display \in Terminal /\ got[display] \in Seq([num : Sizes, bytes : Seq(Char)])
    BY DEF Sound, Types
  <1>2. /\ PastNow[display] = PastOf(display) /\ Len(PastOf(display)) = Len(got[display])
        /\ Len(got[display]) \in Nat /\ DOMAIN got[display] = 1 .. Len(got[display])
        /\ \A m \in 1 .. Len(got[display]) :
              PastOf(display)[m] = SubSeq(sent[display][m], 1, Len(sent[display][m]) - 1)
    BY <1>1, PastIs
  <1>3. CASE n < Len(got[display])
    <2>1. PICK m : m = n + 1 /\ m \in 1 .. Len(got[display]) /\ m - 1 = n
      BY <1>2, <1>3
    <2>2. Str(command_list, Row(display, m - 1), HistSize)
             = SubSeq(sent[display][m], 1, Len(sent[display][m]) - 1)
      BY <1>1, <1>2, <2>1, RowString
    <2> QED BY <1>2, <1>3, <2>1, <2>2 DEF RowOf, LineRead
  <1>4. CASE n = Len(got[display])
    <2>1. n = 0 /\ got[display] = <<>>
      BY <1>1, <1>4
    <2>2. command_list[Row(display, 0)] = NUL
      BY <1>1, <2>1 DEF Rows
    <2>3. PICK at \in Nat : at = Row(display, 0)
      BY <1>1, RowNat
    <2>4. PICK size \in Nat : size = HistSize /\ at < size
      <3>1. HistSize \in Nat /\ Row(display, 0) + Width <= HistSize /\ Width \in Nat /\ Width > 0
        BY <1>1, RowsApart, RowNat, Parts
      <3> QED BY <2>3, <3>1
    <2>5. Str(command_list, at, size) = Slice(command_list, at, 0)
      <3>1. at + 0 < size /\ command_list[at + 0] = NUL
        BY <2>2, <2>3, <2>4
      <3> QED BY <3>1, StringIs
    <2>6. Slice(command_list, at, 0) = <<>>
      BY DEF Slice
    <2> QED BY <1>2, <1>4, <2>1, <2>3, <2>4, <2>5, <2>6 DEF RowOf, LineRead
  <1> QED BY <1>2, <1>3, <1>4

LEMMA RowRecalled ==
    ASSUME Orderly, BothTame, Lines, Rows, RowEach, NEW k, Key(k), NEW n \in Nat,
           n <= Len(got[display]), n = Len(got[display]) => n = 0, Recall(n),
           command_count' = [command_count EXCEPT ![display] = n],
           UNCHANGED <<sent, got, display>>
    PROVE  Abstract!Recall(n)
  <1>1. Sound /\ ~wild' /\ ~Waiting(display)
    BY Pressed DEF BothTame, Tame
  <1>2. typed' = [typed EXCEPT ![display] = RowOf(n)]
    BY <1>1 DEF Recall, RowOf
  <1>3. RowOf(n) = LineRead(n)
    BY <1>1, RowIsRead
  <1>4. Abstract!Edit(LineRead(n))
    BY <1>1, <1>2, <1>3, LineEdited
  <1> QED BY <1>4 DEF Abstract!Recall, LineRead, PastNow

LEMMA UpRecalls ==
    ASSUME Orderly, BothTame, Lines, Rows, RowEach, Up
    PROVE  Abstract!Next
  <1>1. Key("up") /\ Recall(Previous) /\ command_count' = [command_count EXCEPT ![display] = Previous]
        /\ UNCHANGED <<sent, got, display>>
    BY DEF Up, terminals
  <1>2. display \in Terminal /\ command_count[display] \in Nat /\ command_count[display] <= Len(got[display])
        /\ Len(got[display]) \in Nat
    <2>1. Sound /\ Types /\ display \in Terminal
      BY DEF BothTame, Tame, Sound, Types
    <2>2. Account(display)
      BY <2>1 DEF Sound
    <2>3. got[display] \in Seq([num : Sizes, bytes : Seq(Char)])
      BY <2>1 DEF Types
    <2> QED BY <2>1, <2>2, <2>3 DEF Types, Account
  <1>3. PICK n \in Nat : n = Previous /\ n <= Len(got[display]) /\ (n = Len(got[display]) => n = 0)
    BY <1>2 DEF Previous
  <1>4. Abstract!Recall(n)
    BY <1>1, <1>3, RowRecalled
  <1>5. Abstract!Up
    BY <1>3, <1>4 DEF Abstract!Up, Previous
  <1> QED BY <1>5 DEF Abstract!Next

LEMMA DownRecalls ==
    ASSUME Orderly, BothTame, Lines, Rows, RowEach, Down
    PROVE  Abstract!Next
  <1>1. Key("down") /\ UNCHANGED <<sent, got, display>>
    BY DEF Down, terminals
  <1>2. Sound /\ Types /\ display \in Terminal /\ ~wild' /\ ~Waiting(display)
    BY <1>1, Pressed DEF BothTame, Tame, Sound, Types
  <1>3. /\ command_count[display] \in Nat /\ command_total[display] = Len(got[display])
        /\ Len(got[display]) \in Nat /\ Len(PastNow[display]) = Len(got[display])
    BY <1>2, PastIs DEF Types, Sound, Account
  <1>4. PICK n \in Nat : n = command_count[display] + 1
    BY <1>3
  <1>5. CASE n >= command_total[display]
    <2>1. /\ command_count' = [command_count EXCEPT ![display] = command_total[display]]
          /\ typed' = [typed EXCEPT ![display] = <<>>]
      BY <1>4, <1>5 DEF Down
    <2>2. Abstract!Edit(<<>>)
      BY <1>1, <1>2, <2>1, LineEdited
    <2>3. Abstract!Recall(Len(PastNow[display]))
      <3>1. ~(Len(PastNow[display]) < Len(PastNow[display]))
        BY <1>3
      <3> QED BY <1>3, <2>1, <2>2, <3>1 DEF Abstract!Recall, PastNow
    <2>4. ~(command_count[display] + 1 < Len(PastNow[display]))
      BY <1>3, <1>4, <1>5
    <2>5. Abstract!Down
      BY <2>3, <2>4 DEF Abstract!Down, PastNow
    <2> QED BY <2>5 DEF Abstract!Next
  <1>6. CASE ~(n >= command_total[display])
    <2>1. Recall(n) /\ command_count' = [command_count EXCEPT ![display] = n]
      BY <1>4, <1>6 DEF Down
    <2>2. Abstract!Recall(n)
      <3>1. n <= Len(got[display]) /\ (n = Len(got[display]) => n = 0)
        BY <1>3, <1>6
      <3> QED BY <1>1, <2>1, <3>1, RowRecalled
    <2>3. command_count[display] + 1 < Len(PastNow[display])
      BY <1>3, <1>4, <1>6
    <2>4. Abstract!Down
      BY <1>4, <2>2, <2>3 DEF Abstract!Down, PastNow
    <2> QED BY <2>4 DEF Abstract!Next
  <1> QED BY <1>5, <1>6

(* What a name completes is the end of the line. *)
LEMMA WordEnds ==
    ASSUME NEW line, Edits(keyboard_buffer, kb_buf_idx, line), NEW k \in Nat, k <= kb_buf_idx
    PROVE  WordOf(k) = SubSeq(line, k + 1, Len(line)) /\ Len(line) = kb_buf_idx /\ kb_buf_idx \in Nat
  <1>1. PICK n \in Nat : n = kb_buf_idx /\ n = Len(line) /\ line \in Seq(Letters) /\ k <= n
    BY Parts DEF Edits
  <1>2. PICK m \in Nat : n = k + m /\ m = n - k
    <2>1. n - k \in Nat /\ n = k + (n - k)
      BY <1>1
    <2> QED BY <2>1
  <1>3. WordOf(k) \in Seq(Letters) /\ Len(WordOf(k)) = m
    BY <1>1, <1>2, WordIs
  <1>4. SubSeq(line, k + 1, n) \in Seq(Letters) /\ Len(SubSeq(line, k + 1, n)) = m
        /\ \A i \in 1 .. m : SubSeq(line, k + 1, n)[i] = line[k + i]
    <2>1. PICK a \in Int : a = k + 1
      OBVIOUS
    <2>2. n \in Int /\ n - a + 1 = m /\ (a <= n \/ m = 0) /\ \A i \in a .. n : i \in 1 .. Len(line)
      BY <1>1, <1>2, <2>1
    <2>3. \A i \in a .. n : line[i] \in Letters
      BY <1>1, <2>2
    <2>4. /\ SubSeq(line, a, n) \in Seq(Letters)
          /\ Len(SubSeq(line, a, n)) = IF a <= n THEN n - a + 1 ELSE 0
          /\ \A i \in 1 .. n - a + 1 : SubSeq(line, a, n)[i] = line[a + i - 1]
      BY <2>2, <2>3, SubSeqProperties
    <2>5. Len(SubSeq(line, a, n)) = m
      BY <2>2, <2>4
    <2>6. \A i \in 1 .. m : SubSeq(line, a, n)[i] = line[k + i]
      <3> TAKE i \in 1 .. m
      <3>1. a + i - 1 = k + i
        BY <2>1
      <3> QED BY <2>2, <2>4, <3>1
    <2> QED BY <2>1, <2>4, <2>5, <2>6
  <1>5. \A i \in 1 .. m : WordOf(k)[i] = line[k + i]
    <2> TAKE i \in 1 .. m
    <2>1. WordOf(k)[i] = keyboard_buffer[k + i - 1]
      BY <1>1, <1>2 DEF WordOf
    <2>2. PICK j : j = k + i
      OBVIOUS
    <2>3. j \in 1 .. kb_buf_idx
      BY <1>1, <1>2, <2>2
    <2>4. keyboard_buffer[j - 1] = line[j]
      BY <2>3 DEF Edits
    <2> QED BY <2>1, <2>2, <2>4
  <1>6. WordOf(k) = SubSeq(line, k + 1, n)
    BY <1>3, <1>4, <1>5, SeqEqual
  <1> QED BY <1>1, <1>6

LEMMA MatchIsPrefix ==
    ASSUME NEW word \in Seq(Letters), NEW name \in Seq(Letters), Matches(word, name)
    PROVE  Abstract!IsPrefix(word, name)
  <1>1. ~\E i \in DOMAIN word : word[i] = NUL
    BY Parts
  <1>2. Len(name) >= Len(word) /\ SubSeq(name, 1, Len(word)) = word
    BY <1>1 DEF Matches
  <1>3. SubSeq(word, 1, Len(word)) = word
    OBVIOUS
  <1> QED BY <1>2, <1>3 DEF Abstract!IsPrefix

LEMMA TabCompletes ==
    ASSUME Orderly, BothTame, TabEnd
    PROVE  Abstract!Next \/ UNCHANGED Abstract!vars
  <1> DEFINE matching == {name \in Names : Matches(handler.word, name)}
  <1>1. handler.pc = "tab" /\ UNCHANGED <<sent, got, display, command_count>>
    BY DEF TabEnd, terminals, past
  <1>2. /\ Sound /\ handler \in Tab /\ display \in Terminal
        /\ typed \in [Terminal -> Seq(Letters)]
    <2>1. Sound /\ Types
      BY DEF BothTame, Tame, Sound
    <2>2. handler \in {Idle} \cup Tab \cup Switch
      BY <2>1 DEF Types
    <2>3. handler \in Tab
      BY <1>1, <2>2 DEF Switch, Idle
    <2> QED BY <2>1, <2>3 DEF Types
  <1>3. PICK k \in Nat, word \in Seq(Letters) : k = handler.k /\ word = handler.word
    BY <1>2 DEF Tab
  <1>4. k <= kb_buf_idx /\ word = WordOf(k) /\ ~Waiting(display)
    BY <1>1, <1>2, <1>3 DEF Sound, Handled
  <1>5. Edits(keyboard_buffer, kb_buf_idx, typed[display])
    BY <1>1, <1>2, <1>4 DEF Sound, Good, Switching
  <1>6. PICK line \in Seq(Letters) : line = typed[display]
    BY <1>2
  <1>7. PICK n \in Nat : n = Len(line) /\ k <= n /\ word = SubSeq(line, k + 1, n) /\ Len(word) = n - k
    <2>1. WordOf(k) = SubSeq(line, k + 1, Len(line)) /\ Len(line) = kb_buf_idx /\ kb_buf_idx \in Nat
      BY <1>4, <1>5, <1>6, WordEnds
    <2>2. Len(WordOf(k)) = kb_buf_idx - k
      BY <1>4, <1>5, WordIs
    <2> QED BY <1>4, <2>1, <2>2
  <1>8. CASE \E m \in matching : matching = {m}
    <2>1. PICK name : /\ name \in matching
                      /\ typed' = [typed EXCEPT ![display] =
                                     SubSeq(@, 1, Len(@) - Len(handler.word)) \o name]
      <3>1. PICK name : name = CHOOSE m \in matching : TRUE
        OBVIOUS
      <3>2. name \in matching
        <4> HIDE DEF matching
        <4> QED BY <1>8, <3>1
      <3> QED BY <1>8, <3>1, <3>2 DEF TabEnd
    <2> DEFINE s == SubSeq(line, 1, k) \o name
    <2>2. typed' = [typed EXCEPT ![display] = s]
      <3>1. Len(line) - Len(word) = k
        BY <1>7
      <3> QED BY <1>2, <1>3, <1>6, <2>1, <3>1
    <2>3. Abstract!IsPrefix(SubSeq(line, k + 1, Len(line)), name) /\ name \in Names
      <3>1. name \in Seq(Letters) /\ name \in Names /\ Matches(word, name)
        BY <1>3, <2>1, Parts
      <3> QED BY <1>7, <3>1, MatchIsPrefix
    <2> HIDE DEF s, matching
    <2>4. Abstract!Edit(s) /\ LineNow[display] = line
      BY <1>1, <1>4, <1>6, <2>2, LineEdited
    <2>5. Abstract!Complete(name, k)
      BY <1>1, <2>3, <2>4 DEF Abstract!Complete, LineNow, s
    <2>6. name \in Names /\ k \in 0 .. Len(LineNow[display])
      BY <1>7, <2>3, <2>4
    <2> QED BY <2>5, <2>6 DEF Abstract!Next, LineNow
  <1>9. CASE ~\E m \in matching : matching = {m}
    <2>1. typed' = typed
      BY <1>9 DEF TabEnd
    <2> QED BY <1>1, <2>1, LineStutters
  <1> QED BY <1>8, <1>9

(* A switch shows another terminal when it names it, and the rest of it     *)
(* cannot be seen.                                                          *)
LEMMA ShiftShows ==
    ASSUME BothTame, ShiftName
    PROVE  Abstract!Next
  <1>1. display' = handler.to /\ handler.pc = "stored" /\ UNCHANGED <<typed, sent, got, command_count>>
    BY DEF ShiftName, past, ghost
  <1>2. handler.to \in Terminal
    <2>1. Types /\ Switching
      BY <1>1 DEF BothTame, Tame, Sound, Switching
    <2> QED BY <2>1, HandlerKinds DEF Switch
  <1>3. PastNow' = PastNow
    BY <1>1 DEF PastNow, PastOf
  <1>4. LineNow' = LineNow /\ EnteredNow' = EnteredNow
    <2>1. \A t \in Terminal : Pending(t)' = Pending(t)
      BY <1>1 DEF Pending, Waiting
    <2> QED BY <1>1, <2>1 DEF BothTame, Tame, Mirror
  <1>5. Abstract!Show(handler.to)
    BY <1>1, <1>3, <1>4 DEF BothTame, Tame, Abstract!Show, LineNow, EnteredNow, PastNow
  <1> QED BY <1>2, <1>5 DEF Abstract!Next

LEMMA OthersStutter ==
    ASSUME \/ TabBegin \/ ShiftLoad \/ ShiftStart \/ Rotate
           \/ \E t \in Terminal : ShiftBegin(t) \/ \E num \in Sizes : ReadBegin(t, num)
    PROVE  UNCHANGED <<typed, sent, got, display, command_count>>
  <1>1. CASE TabBegin
    BY <1>1 DEF TabBegin, terminals, past, ghost
  <1>2. CASE ShiftLoad \/ ShiftStart
    BY <1>2 DEF ShiftLoad, ShiftStart, terminals, past, ghost
  <1>3. CASE Rotate
    BY <1>3 DEF Rotate, past, ghost
  <1>4. ASSUME NEW t \in Terminal, ShiftBegin(t) \/ \E num \in Sizes : ReadBegin(t, num)
        PROVE  UNCHANGED <<typed, sent, got, display, command_count>>
    BY <1>4 DEF ShiftBegin, ReadBegin, terminals, past, ghost
  <1> QED BY <1>1, <1>2, <1>3, <1>4

(* A read takes the line that was entered. *)
LEMMA ReadTakes ==
    ASSUME Orderly, BothTame, NEW t \in Terminal, ReadEnd(t)
    PROVE  Abstract!Next
  <1>1. Sound /\ Types /\ ~Overruns(t)
    BY DEF BothTame, Tame, Sound, ReadEnd
  <1> DEFINE n == Len(got[t])
             bytes == Line(RealReadNumber(t))
             rec == [num |-> reading[t], bytes |-> bytes]
  <1>2. /\ display = t /\ reading[t] \in Sizes /\ keyboard_buffer \in Buffer
        /\ n \in Nat /\ Len(sent[t]) = n + 1 /\ command_total[t] = n
    BY <1>1, Delivery
  <1>3. PICK line \in Sent : line = sent[t][Len(sent[t])] /\ Holds(keyboard_buffer, 0, line)
    BY <1>1, Delivery
  <1>4. bytes = Upto(line, reading[t])
    BY <1>2, <1>3, LineReturned, Parts
  <1>5. /\ got' = [got EXCEPT ![t] = Append(@, rec)]
        /\ command_count' = [command_count EXCEPT ![t] = n + 1]
        /\ UNCHANGED <<display, typed, sent>>
    BY <1>1, <1>2, ReadEndSteps
  <1>6. /\ got \in [Terminal -> Seq([num : Sizes, bytes : Seq(Char)])]
        /\ got[t] \in Seq([num : Sizes, bytes : Seq(Char)])
    BY <1>1 DEF Types
  <1>7. rec = [num |-> reading[t], bytes |-> Upto(line, reading[t])]
    BY <1>4
  <1> HIDE DEF rec, bytes
  <1>8. got'[t] = Append(got[t], rec) /\ DOMAIN got'[t] = 1 .. n + 1 /\ Len(got'[t]) = n + 1
    <2>1. got'[t] = Append(got[t], rec)
      BY <1>5, <1>6
    <2> QED BY <1>6, <2>1
  <1>9. /\ LineNow' = LineNow /\ EnteredNow[t] = line /\ line # <<>>
        /\ EnteredNow' = [EnteredNow EXCEPT ![t] = <<>>]
    <2>1. /\ LineNow = typed /\ LineNow' = typed'
          /\ EnteredNow = [u \in Terminal |-> Pending(u)] /\ EnteredNow' = [u \in Terminal |-> Pending(u)']
      BY DEF BothTame, Tame, Mirror
    <2>2. Pending(t) = line /\ Pending(t)' = <<>>
      <3>1. Waiting(t) /\ ~Waiting(t)'
        BY <1>2, <1>5, <1>8 DEF Waiting
      <3> QED BY <1>3, <3>1 DEF Pending
    <2>3. \A u \in Terminal : u # t => Pending(u)' = Pending(u)
      BY <1>5, <1>6 DEF Pending, Waiting
    <2>4. line # <<>>
      BY DEF Sent
    <2> QED BY <1>5, <2>1, <2>2, <2>3, <2>4
  <1> DEFINE front == SubSeq(line, 1, Len(line) - 1)
  <1>10. PastNow' = [PastNow EXCEPT ![t] = Append(@, front)] /\ Len(PastNow'[t]) = n + 1
    <2>1. \A u \in Terminal : u # t => PastOf(u)' = PastOf(u)
      BY <1>5, <1>6 DEF PastOf
    <2>2. PastOf(t)' = [m \in 1 .. n + 1 |-> SubSeq(sent[t][m], 1, Len(sent[t][m]) - 1)]
      BY <1>5, <1>8 DEF PastOf
    <2>3. PastOf(t) = [m \in 1 .. n |-> SubSeq(sent[t][m], 1, Len(sent[t][m]) - 1)]
      BY <1>6 DEF PastOf
    <2>4. sent[t][n + 1] = line
      BY <1>2, <1>3
    <2> HIDE DEF n
    <2>5. PastOf(t)' = Append(PastOf(t), front)
      BY <1>2, <2>2, <2>3, <2>4
    <2>6. Len(PastOf(t)') = n + 1
      BY <1>2, <2>2
    <2> QED BY <2>1, <2>5, <2>6 DEF PastNow
  <1>11. Abstract!Take(reading[t])
    <2>1. command_count' = [command_count EXCEPT ![t] = Len(PastNow'[t])]
      BY <1>5, <1>10
    <2>2. Abstract!Front(line) = front
      BY DEF Abstract!Front
    <2>3. got' = [got EXCEPT ![t] = Append(@, [num |-> reading[t], bytes |-> Upto(line, reading[t])])]
      BY <1>5, <1>7
    <2>4. wild = FALSE /\ wild' = FALSE
      BY DEF BothTame, Tame
    <2> HIDE DEF front
    <2> QED BY <1>2, <1>5, <1>9, <1>10, <2>1, <2>2, <2>3, <2>4
            DEF Abstract!Take, LineNow, EnteredNow, PastNow, Upto
  <1> QED BY <1>2, <1>11 DEF Abstract!Next

LEMMA AbstractStep ==
    ASSUME Orderly, NoRecall \/ RowEach, BothTame, Lines, RowEach => Rows, Next
    PROVE  Abstract!Next \/ UNCHANGED Abstract!vars
  <1>1. CASE Up \/ Down
    <2>1. "up" \in Keys \/ "down" \in Keys
      BY <1>1 DEF Up, Down, Key, AltKey
    <2>2. RowEach
      BY <2>1 DEF NoRecall
    <2> QED BY <1>1, <2>2, UpRecalls, DownRecalls
  <1>2. CASE Backspace \/ Enter
    BY <1>2, BackspaceErases, EnterSubmits
  <1>3. CASE \E c \in Letters : Letter(c)
    BY <1>3, LetterTypes
  <1>4. CASE \E alt \in BOOLEAN : ControlL(alt)
    BY <1>4, ControlLClears
  <1>5. CASE TabEnd
    BY <1>5, TabCompletes
  <1>6. CASE ShiftName
    BY <1>6, ShiftShows
  <1>7. CASE \E t \in Terminal : ReadEnd(t)
    BY <1>7, ReadTakes
  <1>8. CASE \/ TabBegin \/ ShiftLoad \/ ShiftStart \/ Rotate
             \/ \E t \in Terminal : ShiftBegin(t) \/ \E num \in Sizes : ReadBegin(t, num)
    BY <1>8, OthersStutter, LineStutters
  <1> QED BY <1>1, <1>2, <1>3, <1>4, <1>5, <1>6, <1>7, <1>8 DEF Next, KeyPress, HandlerStep, ReadStep

LEMMA AbstractKept == UNCHANGED vars => UNCHANGED Abstract!vars
  <1> SUFFICES ASSUME UNCHANGED vars PROVE UNCHANGED Abstract!vars
    OBVIOUS
  <1>1. UNCHANGED <<keyboard_buffer, kb_buf_idx, saved, display, started, command_count,
                    handler, wild, sent, got>>
    BY DEF vars, kb, terminals, past, ghost
  <1>2. \A t \in Terminal : BufferOf(t)' = BufferOf(t)
    BY <1>1 DEF BufferOf
  <1>3. \A t \in Terminal : LineOf(t)' = LineOf(t) /\ EnteredAt(t)' = EnteredAt(t)
    BY <1>1, <1>2 DEF LineOf, EnteredAt
  <1>4. \A t \in Terminal : PastOf(t)' = PastOf(t)
    BY <1>1 DEF PastOf
  <1> QED BY <1>1, <1>3, <1>4 DEF Abstract!vars

LEMMA EditorsInit == Init => Abstract!Init
  <1> SUFFICES ASSUME Init PROVE Abstract!Init
    OBVIOUS
  <1>1. Mirror
    BY SoundInit, SoundMirrors
  <1>2. LineNow = [t \in Terminal |-> <<>>] /\ EnteredNow = [t \in Terminal |-> <<>>]
    <2>1. \A t \in Terminal : Pending(t) = <<>>
      BY DEF Init, Pending, Waiting
    <2> QED BY <1>1, <2>1 DEF Mirror, Init
  <1>3. PastNow = [t \in Terminal |-> <<>>]
    <2>1. \A t \in Terminal : PastOf(t) = <<>>
      BY DEF Init, PastOf
    <2> QED BY <2>1 DEF PastNow
  <1> QED BY <1>2, <1>3 DEF Init, Abstract!Init, LineNow, EnteredNow, PastNow

(* The buffers hold the lines, in every state in which no array is left.    *)
TameUnlessWild == ~wild => Tame

(***************************************************************************)
(* The keyboard handler, terminal_shift and terminal_read, which have one  *)
(* buffer for all the terminals, give each of them a line editor of its    *)
(* own, whose lines, one at a time, its process reads, and a history of    *)
(* the lines read, until an array is left: with TAB, UP, DOWN and switches *)
(* in the middle of lines, as long as what UP and DOWN load is a row of a  *)
(* line.                                                                   *)
(***************************************************************************)
THEOREM LinesImplementEditors ==
    ASSUME Orderly, NoRecall \/ RowEach
    PROVE  Spec => ImplementsEditors
  <1> DEFINE RowsIf == RowEach => Rows
             False == wild \/ wild = FALSE
  <1>1. Spec => []RowsIf
    <2>1. CASE RowEach
      <3>1. Rows => RowsIf
        OBVIOUS
      <3> HIDE DEF RowsIf
      <3> QED BY <2>1, <3>1, RowsAlways, PTL
    <2>2. CASE ~RowEach
      <3>1. RowsIf
        BY <2>2
      <3> HIDE DEF RowsIf
      <3> QED BY <3>1, PTL
    <2> QED BY <2>1, <2>2
  <1>2. Spec => []False
    <2>1. Init => False
      BY DEF Init
    <2>2. False /\ [Next]_vars => False'
      <3> SUFFICES ASSUME False, [Next]_vars PROVE wild' \/ wild' = FALSE
        OBVIOUS
      <3>1. CASE Next
        BY <3>1, OnlyWhenTame, TameIsFalse
      <3>2. CASE UNCHANGED vars
        BY <3>2 DEF vars
      <3> QED BY <3>1, <3>2
    <2> HIDE DEF False
    <2> QED BY <2>1, <2>2, PTL DEF Spec
  <1>3. SoundUnlessWild /\ False => TameUnlessWild
    BY SoundMirrors DEF SoundUnlessWild, TameUnlessWild, Tame
  <1>4. TameUnlessWild /\ TameUnlessWild' /\ Lines /\ RowsIf /\ [Next]_vars
           => [Abstract!Next]_(Abstract!vars)
    <2> SUFFICES ASSUME TameUnlessWild, TameUnlessWild', Lines, RowsIf, [Next]_vars
                 PROVE  Abstract!Next \/ UNCHANGED Abstract!vars
      OBVIOUS
    <2>1. CASE UNCHANGED vars
      BY <2>1, AbstractKept
    <2>2. CASE Next /\ wild'
      <3>1. ~wild
        BY <2>2, OnlyWhenTame
      <3>2. Abstract!Lose
        BY <2>2, <3>1 DEF Abstract!Lose
      <3> QED BY <3>2 DEF Abstract!Next
    <2>3. CASE Next /\ ~wild'
      <3>1. BothTame
        BY <2>3, OnlyWhenTame DEF TameUnlessWild, BothTame, Tame
      <3> QED BY <2>3, <3>1, AbstractStep
    <2> QED BY <2>1, <2>2, <2>3
  <1> HIDE DEF RowsIf, False
  <1> QED BY <1>1, <1>2, <1>3, <1>4, EditorsInit, SoundAlways, LinesAlways, PTL
          DEF Spec, ImplementsEditors, Abstract!Spec

=============================================================================
