------------------------------- MODULE MCServer -------------------------------
(***************************************************************************)
(* Instances of Server for TLC: every setting negative, zero, in range or  *)
(* -- for the content window -- too large.                                 *)
(***************************************************************************)
EXTENDS Server

MCUsers == {"analyst"}
MCSettings == {-1, 0, 2, 5}
===============================================================================
