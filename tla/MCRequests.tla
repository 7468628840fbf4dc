------------------------------- MODULE MCRequests -------------------------------
(***************************************************************************)
(* Instances of Requests for TLC: the settings of MCServer, and statuses   *)
(* on both sides of every boundary that is looked at.                      *)
(***************************************************************************)
EXTENDS Requests

MCUsers == {"analyst"}
MCSettings == {-1, 0, 2, 5}
MCStatuses == {200, 298, 299, 304, 404}
=================================================================================
