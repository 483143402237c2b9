------------------------ MODULE MC_CreateIssuesNoLabels ------------------------
(***************************************************************************)
(* A small instance of CreateIssuesNoLabels for TLC: drafts of up to four  *)
(* issues, so that a failure or a crash can fall before, between and after *)
(* successful calls.                                                       *)
(***************************************************************************)
EXTENDS CreateIssuesNoLabels

MCMaxIssues == 4
=============================================================================
