----------------------------- MODULE MCInputWait -----------------------------
(* Bounded instances of InputWait for TLC.                                 *)
EXTENDS InputWait

CONSTANTS n1, n2, s1

TwoNet  == {n1, n2}
OneSig  == {s1}
=============================================================================
