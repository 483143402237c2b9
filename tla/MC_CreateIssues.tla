---------------------------- MODULE MC_CreateIssues ----------------------------
(***************************************************************************)
(* A small instance of CreateIssues for TLC: a table of up to three rows,  *)
(* and --start/--end values that reach below 1, 0 and past the table, so  *)
(* that negative indices, a falsy --end and clamping all occur.            *)
(***************************************************************************)
EXTENDS CreateIssues

MCMaxIssues == 3
MCStartArgs == -2..4
MCEndArgs == -1..4
=============================================================================
