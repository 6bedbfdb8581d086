------------------------------- MODULE MCRtc -------------------------------
(* Instances of Rtc for TLC. *)
EXTENDS Rtc

(* Valid rates, too high ones, ones with more than one bit, zero, negatives. *)
Rates == {0, 1, 2, 4, 8, 9, 6, 3, -1, -6}
AnyRate == -(2 ^ (Width - 1)) .. 2 ^ (Width - 1) - 1
=============================================================================
