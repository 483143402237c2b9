------------------------- MODULE MC_CreateIssuesRetry -------------------------
(* Drafts of up to three issues, first runs over a full, a partial and a   *)
(* wrapped-around range (--start 0 is the last issue, printed as 0), and   *)
(* up to two reruns: enough for two failures of one batch, or one issue    *)
(* failing twice.  --start stays >= 0: a negative start that the slice    *)
(* clamps prints indices that name no issue, or another one (see README). *)
EXTENDS CreateIssuesRetry

MCMaxIssues == 3
MCStartArgs == {0, 1, 2}
MCEndArgs == {0, 2}
=============================================================================
