----------------------------- MODULE DraftParser -----------------------------
(***************************************************************************)
(* parse_issues_from_draft of src/create_issues_auto.py (the same parser   *)
(* is in create_issues_no_labels.py), and extract_issue_body of            *)
(* src/create_issues.py, as operators over a draft given line by line.     *)
(*                                                                         *)
(* A draft is a sequence of line kinds and whether the file ends with a    *)
(* newline.  The kinds are the lines the regular expressions tell apart:   *)
(*   "heading"       ### Issue #n: Title                                   *)
(*   "inlineHeading" text ### Issue #n: Title   (the pattern is unanchored)*)
(*   "labelsA"       **Labels:** `a`            (one backtick token)       *)
(*   "labels0"       **Labels:** none           (no backtick token)        *)
(*   "labelsBare"    **Labels:**                (nothing after it)         *)
(*   "descHdr"       **Description:**                                      *)
(*   "blank"         the empty line                                        *)
(*   "sep"           ---                                                   *)
(*   "text0", "textB" other text, without / with the backtick token `b`   *)
(* A record's title is the index of its heading line and its body the      *)
(* indices of the draft lines it is made of; leading and trailing          *)
(* whitespace, which str.strip() removes, is not represented.              *)
(***************************************************************************)
EXTENDS Integers, Sequences, SequencesExt, PySlice

Kinds == {"heading", "inlineHeading", "labelsA", "labels0", "labelsBare",
          "descHdr", "blank", "sep", "text0", "textB"}

(* re.findall(r'`([^`]+)`', text): the backtick tokens of a line.          *)
Tokens(k) == CASE k = "labelsA" -> <<"a">>
               [] k = "textB"   -> <<"b">>
               [] OTHER         -> << >>

(* r'### Issue #\d+: (.+?)\n' matches at line j: a heading, anywhere in    *)
(* the line, with a non-empty title and a newline after it.                *)
HeadingMatch(d, nl, j) ==
  /\ d[j] \in {"heading", "inlineHeading"}
  /\ j < Len(d) \/ nl

(* The lines re.split cuts at, in order: one record per match.            *)
Headings(d, nl) ==
  SelectSeq([j \in 1..Len(d) |-> j], LAMBDA j : HeadingMatch(d, nl, j))

(* issue_sections[i + 1] for the k-th match: the lines after its heading   *)
(* up to the next match.  Before an inline heading the section ends with   *)
(* the text in front of the pattern ("prefix"), without a newline.  base   *)
(* turns a position in ks into a line of the draft.                        *)
Section(d, nl, k) ==
  LET H == Headings(d, nl)
      from == H[k] + 1
  IN  IF k = Len(H)
      THEN [base |-> H[k], ks |-> SubSeq(d, from, Len(d)), nl |-> nl]
      ELSE IF d[H[k + 1]] = "inlineHeading"
           THEN [base |-> H[k], ks |-> SubSeq(d, from, H[k + 1] - 1) \o <<"prefix">>,
                 nl |-> FALSE]
           ELSE [base |-> H[k], ks |-> SubSeq(d, from, H[k + 1] - 1), nl |-> TRUE]

(* Line j of section s is followed by a newline inside the section.        *)
EndsNL(s, j) == j < Len(s.ks) \/ s.nl

(* The first non-blank line after line j of s, 0 if there is none.         *)
NextNonBlank(s, j) ==
  SelectInSubSeq(s.ks, j + 1, Len(s.ks), LAMBDA x : x # "blank")

(* r'\*\*Labels:\*\*\s+(.+)' matches at line j: a labels line with text    *)
(* after the marker, or a bare marker whose \s+ runs over the newline and  *)
(* blank lines to the next non-blank line, whose text (.+) then is.        *)
LabelsMatchAt(s, j) ==
  /\ s.ks[j] \in {"labelsA", "labels0", "labelsBare"}
  /\ s.ks[j] = "labelsBare" => EndsNL(s, j) /\ NextNonBlank(s, j) # 0

(* labels: the tokens of the first match joined, or "enhancement".         *)
Labels(s) ==
  LET J == {j \in 1..Len(s.ks) : LabelsMatchAt(s, j)}
      j == Min(J)
  IN  IF J = {} THEN <<"enhancement">>
      ELSE IF s.ks[j] = "labelsBare" THEN Tokens(s.ks[NextNonBlank(s, j)])
      ELSE Tokens(s.ks[j])

(* r'\*\*Description:\*\*\s*\n\n(.+?)...' matches at header line j: the    *)
(* whitespace after the marker holds two newlines in a row, and one more  *)
(* character follows them.  With a non-blank line b after the header the  *)
(* run has b - j newlines; without one, every newline left in the section.*)
DescMatchAt(s, j) ==
  /\ s.ks[j] = "descHdr"
  /\ LET b == NextNonBlank(s, j)
     IN  IF b # 0 THEN b - j >= 2
         ELSE (Len(s.ks) - j) + (IF s.nl THEN 1 ELSE 0) >= 3

(* A lazy group that ran to the end of the section, past the separator.   *)
DescEndIgnoresSeparator(s, b) == Len(s.ks)

(* (.+?)(?:\n---\n|$) from line b: the lazy group stops before the first   *)
(* "---" line after b that has a newline after it, else at the end.        *)
DescEnd(s, b) ==
  LET E == {e \in (b + 1)..Len(s.ks) : s.ks[e] = "sep" /\ EndsNL(s, e)}
  IN  IF E = {} THEN Len(s.ks) ELSE Min(E) - 1

(* .strip() of lines lo..hi of s: the draft lines from the first to the    *)
(* last non-blank one.                                                     *)
StripRange(s, lo, hi) ==
  LET NB == {j \in lo..hi : s.ks[j] # "blank"}
  IN  IF NB = {} THEN << >>
      ELSE [t \in 1..(Max(NB) - Min(NB) + 1) |-> s.base + Min(NB) + t - 1]

(* body_section.split('\n\n', 2): "\n\n" is the newline ending line t and  *)
(* the one ending line t + 1 when line t + 1 is blank; the split takes the *)
(* first such pair, then the first one after it, and parts[2] is the text  *)
(* after the second; with fewer than two, the whole section, stripped.     *)
FallbackBody(s) ==
  LET M == IF s.ks = << >> THEN 0 ELSE Len(s.ks) - 1 + (IF s.nl THEN 1 ELSE 0)
      P == {t \in 1..(M - 1) : s.ks[t + 1] = "blank"}
      P2 == {t \in P : t >= Min(P) + 2}
  IN  IF P2 = {} THEN StripRange(s, 1, Len(s.ks))
      ELSE StripRange(s, Min(P2) + 2, Len(s.ks))

(* description: the first match of the Description pattern, stripped, or   *)
(* the fallback.                                                           *)
Description(s) ==
  LET J == {j \in 1..Len(s.ks) : DescMatchAt(s, j)}
      b == NextNonBlank(s, Min(J))
  IN  IF J = {} THEN FallbackBody(s)
      ELSE IF b = 0 THEN << >>
      ELSE StripRange(s, b, DescEnd(s, b))

(* parse_issues_from_draft(): one record per heading match, in order (the *)
(* loop's "i + 1 >= len" break never fires: re.split with one group always *)
(* returns an odd number of parts).                                        *)
ParseIssues(d, nl) ==
  [k \in 1..Len(Headings(d, nl)) |->
     [title  |-> Headings(d, nl)[k],
      labels |-> Labels(Section(d, nl, k)),
      body   |-> Description(Section(d, nl, k))]]
-----------------------------------------------------------------------------
(* extract_issue_body(start_line, end_line) of create_issues.py: the lines *)
(* lines[start_line-1:end_line], skipped up to and including the first one *)
(* that starts with **Description:**, without the "---" lines, stripped.   *)
ExtractIssueBodyKeepsSeparators(d, startLine, endLine) ==
  LET idx == Slice([j \in 1..Len(d) |-> j], startLine - 1, endLine)
      h == SelectInSeq(idx, LAMBDA j : d[j] = "descHdr")
      kept == IF h = 0 THEN << >> ELSE SubSeq(idx, h + 1, Len(idx))
      NB == {t \in 1..Len(kept) : d[kept[t]] # "blank"}
  IN  IF NB = {} THEN << >> ELSE SubSeq(kept, Min(NB), Max(NB))

ExtractIssueBody(d, startLine, endLine) ==
  LET idx == Slice([j \in 1..Len(d) |-> j], startLine - 1, endLine)
      h == SelectInSeq(idx, LAMBDA j : d[j] = "descHdr")
      kept == IF h = 0 THEN << >>
              ELSE SelectSeq(SubSeq(idx, h + 1, Len(idx)), LAMBDA j : d[j] # "sep")
      NB == {t \in 1..Len(kept) : d[kept[t]] # "blank"}
  IN  IF NB = {} THEN << >> ELSE SubSeq(kept, Min(NB), Max(NB))
=============================================================================
