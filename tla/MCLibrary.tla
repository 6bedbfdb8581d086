----------------------------- MODULE MCLibrary -----------------------------
(***************************************************************************)
(* An instance of Library for TLC.                                         *)
(***************************************************************************)
EXTENDS Library

(* Every byte of the memory holds its own address. *)
MCSize == 14
MCByte == 0 .. MCSize + 1
MCFills == {MCSize, MCSize + 1}
MCContents == {[a \in 0 .. MCSize - 1 |-> a]}

MCPrograms == {<<"a">>, <<"a", "b">>}
MCExitLine == <<"b", "b">>
MCAsked == 0 .. 3
=============================================================================
