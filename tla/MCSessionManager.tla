---------------------------- MODULE MCSessionManager ----------------------------
(***************************************************************************)
(* Instances of SessionManager for TLC: a connection that ends and one     *)
(* that takes its place.  The name of a forgotten connection comes back,   *)
(* so that any number of them follow one another, two at a time.           *)
(***************************************************************************)
EXTENDS SessionManager
=============================================================================
