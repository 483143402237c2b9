------------------------------ MODULE PySlice ------------------------------
(***************************************************************************)
(* Python's list slice s[a:b] with step 1, as the scripts use it to pick   *)
(* the issues of a run (ISSUES[start_idx:end_idx]).  CPython normalises    *)
(* each bound before it copies: a negative bound counts from the end of    *)
(* the list, and a bound that is still out of range is clamped to          *)
(* 0..len(s).  Bounds are 0-based and the upper bound is exclusive.        *)
(***************************************************************************)
EXTENDS Integers, Sequences

(* The bound k of a slice of a list of length len, after normalisation.    *)
ClampIndex(k, len) ==
  IF k < 0 THEN (IF k + len < 0 THEN 0 ELSE k + len)
           ELSE (IF k > len THEN len ELSE k)

(* s[a:b]: the elements at 0-based positions ClampIndex(a) .. ClampIndex(b)-1 *)
(* (SubSeq of an empty range is << >>).                                    *)
Slice(s, a, b) ==
  SubSeq(s, ClampIndex(a, Len(s)) + 1, ClampIndex(b, Len(s)))

(* The 1-based inclusive range lo..hi of s, read the way a user reads      *)
(* "--start lo --end hi (1-indexed)": positions outside 1..Len(s) are       *)
(* simply not there.                                                       *)
InclusiveRange(s, lo, hi) ==
  SubSeq(s, IF lo < 1 THEN 1 ELSE lo, IF hi > Len(s) THEN Len(s) ELSE hi)
=============================================================================
