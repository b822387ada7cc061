----------------------------- MODULE MCArpcSession -----------------------------
(***************************************************************************)
(* Instances of ArpcSession for TLC.  There are as many connections as the *)
(* goroutines can hold, and the one in use.                                *)
(***************************************************************************)
EXTENDS ArpcSession, TLC

ConnSymmetry == Permutations(Conns)
=============================================================================
