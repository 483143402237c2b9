----------------------------- MODULE DraftLayout -----------------------------
(***************************************************************************)
(* Drafts written in the block layout the parsers expect, and what each    *)
(* issue of such a draft is meant to become.  A block is                   *)
(*                                                                         *)
(*     ### Issue #n: Title                                                 *)
(*                                                                         *)
(*     **Labels:** ...                                                     *)
(*                                                                         *)
(*     **Description:**                                                    *)
(*     (one blank line, or none in the "tight" layout)                     *)
(*     paragraph [blank paragraph]                                         *)
(*     [blank --- blank]                                                   *)
(*                                                                         *)
(* and the draft is an optional preamble followed by the blocks.  The      *)
(* table ISSUES of create_issues.py gives each issue a line range; in this *)
(* module the range is the block's lines, moved by drift lines when the    *)
(* draft has been edited since the table was written.                      *)
(*                                                                         *)
(* The draft is the program's input and never changes: every state is one  *)
(* draft, and the properties are state predicates over it.                 *)
(***************************************************************************)
EXTENDS DraftParser

CONSTANTS MaxBlocks,    \* the most issues a draft has
          DescLayouts,  \* the layouts of the description header
          Drifts        \* by how many lines the table's ranges are off

VARIABLES blocks,    \* the issue blocks of the draft, in order
          preamble,  \* the draft starts with a line of text and a blank
          nl,        \* the file ends with a newline
          drift      \* the table's ranges start drift lines after the block

vars == <<blocks, preamble, nl, drift>>

Paragraphs == {<<t>> : t \in {"text0", "textB"}}
              \cup {<<t1, t2>> : t1, t2 \in {"text0", "textB"}}

Block == [lab : {"labelsA", "labels0"}, desc : DescLayouts,
          paras : Paragraphs, sep : BOOLEAN]

ParaLines(p) == IF Len(p) = 1 THEN p ELSE <<p[1], "blank", p[2]>>

(* The lines of a block, and of the whole draft.                           *)
BlockLines(b) ==
  <<"heading", "blank", b.lab, "blank", "descHdr">>
  \o (IF b.desc = "blank" THEN <<"blank">> ELSE << >>)
  \o ParaLines(b.paras)
  \o (IF b.sep THEN <<"blank", "sep", "blank">> ELSE << >>)

Preamble == IF preamble THEN <<"text0", "blank">> ELSE << >>

Draft == Preamble \o FlattenSeq([k \in 1..Len(blocks) |-> BlockLines(blocks[k])])

(* The line before block k.                                                *)
Offset(k) ==
  Len(Preamble) + FoldLeft(LAMBDA a, j : a + Len(BlockLines(blocks[j])), 0,
                           [j \in 1..(k - 1) |-> j])

(* The line numbers of block k's paragraphs, first to last.                *)
DescFirst(k) == Offset(k) + 6 + (IF blocks[k].desc = "blank" THEN 1 ELSE 0)
DescLast(k) == DescFirst(k) + Len(ParaLines(blocks[k].paras)) - 1

(* Issue k as its block describes it: its heading, the backtick tokens of *)
(* its labels line, and its paragraphs.                                    *)
Intended(k) ==
  [title  |-> Offset(k) + 1,
   labels |-> Tokens(blocks[k].lab),
   body   |-> [t \in 1..(DescLast(k) - DescFirst(k) + 1) |-> DescFirst(k) + t - 1]]

(* The table's range for issue k: start_line and end_line.                 *)
TableStart(k) == Offset(k) + 1 + drift
TableEnd(k) == Offset(k) + Len(BlockLines(blocks[k])) + drift

Init ==
  /\ blocks \in UNION {[1..n -> Block] : n \in 0..MaxBlocks}
  /\ preamble \in BOOLEAN
  /\ nl \in BOOLEAN
  /\ drift \in Drifts

Next == UNCHANGED vars

Spec == Init /\ [][Next]_vars
-----------------------------------------------------------------------------
TypeOK ==
  /\ blocks \in Seq(Block)
  /\ Draft \in Seq(Kinds)
  /\ drift \in Drifts

(* parse_issues_from_draft turns a draft in the block layout into one      *)
(* record per block, in order, with the block's title, the backtick tokens *)
(* of its labels line (spec: "a record's label list equals the backtick-   *)
(* quoted tokens on its labels line") and the whole description, as the   *)
(* code's comment says: "everything after **Description:** until next ---  *)
(* or end".                                                                *)
ParseFollowsLayout ==
  ParseIssues(Draft, nl) = [k \in 1..Len(blocks) |-> Intended(k)]

(* create_issues.py, which reads each body through the table's line range  *)
(* with extract_issue_body, posts the same body for every issue as         *)
(* create_issues_auto.py, which parses the draft.                          *)
ScriptsAgree ==
  \A k \in 1..Len(blocks) :
     ExtractIssueBody(Draft, TableStart(k), TableEnd(k)) = ParseIssues(Draft, nl)[k].body
=============================================================================
