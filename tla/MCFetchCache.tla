----------------------------- MODULE MCFetchCache -----------------------------
(***************************************************************************)
(* Instances of FetchCache for TLC.  Callers and queries are model values  *)
(* and interchangeable, so the safety runs use symmetry; the runs that     *)
(* check a temporal formula beyond [][A]_v do not.                         *)
(***************************************************************************)
EXTENDS FetchCache, TLC

CallersAndQueries == Permutations(Callers) \union Permutations(Queries)
===============================================================================
