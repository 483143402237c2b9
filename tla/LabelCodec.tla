------------------------------ MODULE LabelCodec ------------------------------
(***************************************************************************)
(* The way create_issues_auto.py carries labels from the draft to gh.      *)
(* parse_issues_from_draft joins the backtick tokens of the labels line    *)
(* with ',' into one string; create_issue splits that string at ',' again, *)
(* strips every piece and drops the empty ones, and passes each remaining  *)
(* piece as one --label argument.  A string is a sequence of characters    *)
(* drawn from Alphabet; a token is a non-empty string (the regex is        *)
(* `([^`]+)`, so a token holds no backtick but may hold ',' or ' ').       *)
(***************************************************************************)
EXTENDS Integers, Sequences, SequencesExt

CONSTANTS Alphabet,   \* the characters a token may hold
          MaxTokens,  \* the most tokens a labels line has
          MaxTokenLen \* the longest token

VARIABLE tokens       \* re.findall(r'`([^`]+)`', labels_text)

Token == UNION {[1..n -> Alphabet] : n \in 1..MaxTokenLen}

(* ','.join(labels)                                                        *)
JoinLabels(ts) ==
  IF ts = << >> THEN << >>
  ELSE FoldLeft(LAMBDA acc, t : acc \o <<",">> \o t, ts[1], Tail(ts))

(* labels.split(','): the pieces between consecutive commas, the text     *)
(* before the first and after the last included.                           *)
SplitComma(s) ==
  LET C == <<0>> \o SelectSeq([j \in 1..Len(s) |-> j], LAMBDA j : s[j] = ",")
           \o <<Len(s) + 1>>
  IN  [p \in 1..(Len(C) - 1) |-> SubSeq(s, C[p] + 1, C[p + 1] - 1)]

(* l.strip(): without leading and trailing spaces.                         *)
Strip(l) ==
  LET NB == {j \in 1..Len(l) : l[j] # " "}
  IN  IF NB = {} THEN << >> ELSE SubSeq(l, Min(NB), Max(NB))

(* A label list that kept the empty pieces, as create_issues.py's          *)
(* create_issue does.                                                      *)
LabelListUnfiltered(labels) ==
  [p \in 1..Len(SplitComma(labels)) |-> Strip(SplitComma(labels)[p])]

(* [l.strip() for l in labels.split(',') if l.strip()]                     *)
LabelList(labels) ==
  SelectSeq([p \in 1..Len(SplitComma(labels)) |-> Strip(SplitComma(labels)[p])],
            LAMBDA l : l # << >>)

Init == tokens \in UNION {[1..n -> Token] : n \in 0..MaxTokens}

Next == UNCHANGED tokens

Spec == Init /\ [][Next]_tokens
-----------------------------------------------------------------------------
TypeOK == tokens \in Seq(Token)

(* The --label arguments create_issue builds are the backtick tokens of    *)
(* the labels line, stripped, the blank ones left out, in order: spec "a   *)
(* record's label list equals the backtick-quoted tokens on its labels     *)
(* line".                                                                  *)
LabelsRoundTrip ==
  LabelList(JoinLabels(tokens))
    = SelectSeq([t \in 1..Len(tokens) |-> Strip(tokens[t])], LAMBDA l : l # << >>)
=============================================================================
