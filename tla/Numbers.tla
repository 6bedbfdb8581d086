------------------------------ MODULE Numbers ------------------------------
(***************************************************************************)
(* The numbers that printf prints: %d, %u, %x and %#x, with itoa and       *)
(* strrev (lib.c).  itoa takes the digits off the low end of the number    *)
(* and strrev turns them round in place; %#x has them written to the       *)
(* middle of its buffer and fills zeros in front.  One action is one       *)
(* iteration of a loop.  A character is the number of its digit.           *)
(***************************************************************************)
EXTENDS Integers, Sequences

CONSTANTS Width   \* bits of a word, a multiple of four (32 in the code)

Words == 0 .. 2 ^ Width - 1
Digits == Width \div 4      \* hexadecimal digits of a word (8 in the code)
Minus == -1
Nul == -2
Unwritten == -3              \* in a buffer nobody has written to

VARIABLES
    pc,       \* loop under way
    conv,     \* conversion and argument
    newval,   \* what itoa has not converted yet
    buf,      \* conv_buf
    start,    \* where in conv_buf itoa puts the number
    newbuf,   \* where itoa, strrev (end) or %#x (i) stand
    beg,      \* where strrev has come from the front
    out       \* what has been printed
vars == <<pc, conv, newval, buf, start, newbuf, beg, out>>

Fresh == [i \in 0 .. 3 * Digits + 1 |-> Unwritten]
NoConv == [spec |-> "none", value |-> 0]
Convs == [spec : {"d", "u", "x", "#x"}, value : Words]

Init ==
    /\ pc = "idle" /\ conv = NoConv
    /\ newval = 0 /\ buf = Fresh /\ start = 0 /\ newbuf = 0 /\ beg = 0 /\ out = <<>>

Negative(c) == c.spec = "d" /\ c.value >= 2 ^ (Width - 1)
Radix == IF conv.spec \in {"d", "u"} THEN 10 ELSE 16

(* printf meets a conversion and calls itoa; zero is a case of its own. *)
Printf(c) ==
    /\ conv' = c
    /\ newval' = IF Negative(c) THEN (2 ^ Width - c.value) % 2 ^ Width ELSE c.value
    /\ start' = IF Negative(c) THEN 1 ELSE IF c.spec = "#x" THEN Digits ELSE 0
    /\ buf' = IF Negative(c) THEN [buf EXCEPT ![0] = Minus]
              ELSE IF c.value = 0 THEN [buf EXCEPT ![start'] = 0, ![start' + 1] = Nul]
              ELSE buf
    /\ newbuf' = IF c.value = 0 THEN start' + 1 ELSE start'
    /\ pc' = IF c.value = 0 THEN "converted" ELSE "digits"
    /\ UNCHANGED <<beg, out>>

Digit ==
    /\ pc = "digits" /\ newval > 0
    /\ buf' = [buf EXCEPT ![newbuf] = newval % Radix]
    /\ newbuf' = newbuf + 1 /\ newval' = newval \div Radix
    /\ UNCHANGED <<pc, conv, start, beg, out>>

(* The zero behind the digits; strrev begins with its end on the last. *)
LastDigit ==
    /\ pc = "digits" /\ newval = 0
    /\ buf' = [buf EXCEPT ![newbuf] = Nul]
    /\ pc' = "reverse" /\ beg' = start /\ newbuf' = newbuf - 1
    /\ UNCHANGED <<conv, newval, start, out>>

NotToTheMiddle == beg + 1 < newbuf                                \* mutant
MoreToSwap == beg < newbuf

Swap ==
    /\ pc = "reverse" /\ MoreToSwap
    /\ buf' = [buf EXCEPT ![beg] = buf[newbuf], ![newbuf] = buf[beg]]
    /\ beg' = beg + 1 /\ newbuf' = newbuf - 1
    /\ UNCHANGED <<pc, conv, newval, start, out>>

Swapped ==
    /\ pc = "reverse" /\ ~MoreToSwap
    /\ pc' = "converted"
    /\ UNCHANGED <<conv, newval, buf, start, newbuf, beg, out>>

(* The length of the string from i on, and the characters puts prints. *)
Ends(i) == CHOOSE j \in i .. 3 * Digits + 1 : buf[j] = Nul /\ \A k \in i .. j - 1 : buf[k] # Nul
Text(i) == [k \in 1 .. Ends(i) - i |-> buf[i + k - 1]]

Puts ==
    /\ pc = "converted" /\ conv.spec # "#x"
    /\ out' = Text(0) /\ pc' = "printed"
    /\ UNCHANGED <<conv, newval, buf, start, newbuf, beg>>

(* %#x: starting_index is the length of the number, zeros go from there up. *)
Measure ==
    /\ pc = "converted" /\ conv.spec = "#x"
    /\ newbuf' = Ends(Digits) - Digits /\ beg' = newbuf'
    /\ pc' = "fill"
    /\ UNCHANGED <<conv, newval, buf, start, out>>
Fill ==
    /\ pc = "fill" /\ newbuf < Digits
    /\ buf' = [buf EXCEPT ![newbuf] = 0] /\ newbuf' = newbuf + 1
    /\ UNCHANGED <<pc, conv, newval, start, beg, out>>
PutsFilled ==
    /\ pc = "fill" /\ newbuf >= Digits
    /\ out' = Text(beg) /\ pc' = "printed"
    /\ UNCHANGED <<conv, newval, buf, start, newbuf, beg>>

(* The next conversion has a buffer of its own. *)
NextFormat ==
    /\ pc = "printed"
    /\ pc' = "idle" /\ conv' = NoConv
    /\ newval' = 0 /\ buf' = Fresh /\ start' = 0 /\ newbuf' = 0 /\ beg' = 0 /\ out' = <<>>

Next ==
    \/ pc = "idle" /\ \E c \in Convs : Printf(c)
    \/ Digit \/ LastDigit \/ Swap \/ Swapped
    \/ Puts \/ Measure \/ Fill \/ PutsFilled
    \/ NextFormat

Spec == Init /\ [][Next]_vars

-----------------------------------------------------------------------------
(* The number that a text of digits denotes. *)
Denotes(s, radix) ==
    LET upTo[i \in 0 .. Len(s)] == IF i = 0 THEN 0 ELSE radix * upTo[i - 1] + s[i]
    IN  upTo[Len(s)]

(* Digits only, and no zeros in front. *)
Plain(s, radix) ==
    /\ s # <<>> /\ \A i \in DOMAIN s : s[i] \in 0 .. radix - 1
    /\ Len(s) > 1 => s[1] # 0

(***************************************************************************)
(* The text of a number denotes it, the smallest integer included, without *)
(* zeros in front; %#x prints all hexadecimal digits of a word.            *)
(***************************************************************************)
NumberPrinted ==
    pc = "printed" =>
        IF conv.spec = "#x"
        THEN Len(out) = Digits /\ Denotes(out, 16) = conv.value
        ELSE IF Negative(conv)
        THEN /\ out[1] = Minus /\ Plain(Tail(out), 10)
             /\ Denotes(Tail(out), 10) = 2 ^ Width - conv.value
        ELSE Plain(out, Radix) /\ Denotes(out, Radix) = conv.value
=============================================================================
