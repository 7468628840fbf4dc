------------------------------ MODULE MCSqlTool ------------------------------
(***************************************************************************)
(* An instance of SqlTool for TLC: budgets of 2 to 6 bytes, windows below, *)
(* at, between and above them, texts from empty to longer than any budget. *)
(***************************************************************************)
EXTENDS SqlTool

MCWindows == {-1, 0, 1, 2, 3, 5, 6, 7}
MCLengths == {0, 1, 2, 3, 5, 8}
==============================================================================
