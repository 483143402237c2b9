------------------------- MODULE MC_CreateIssuesAuto -------------------------
(***************************************************************************)
(* A small instance of CreateIssuesAuto for TLC: drafts of up to three     *)
(* issues, and --start/--end values that cover every branch of Python's    *)
(* slice normalisation (negative, zero, inside, past the end).             *)
(***************************************************************************)
EXTENDS CreateIssuesAuto

MCMaxIssues == 3

MCStartArgs == -2..4

MCEndArgs == -1..4
=============================================================================
