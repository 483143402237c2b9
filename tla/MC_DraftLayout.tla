---------------------------- MODULE MC_DraftLayout ----------------------------
(* Drafts of up to two blocks, so that a block has a neighbour on each     *)
(* side whose lines a wrong boundary would take.                           *)
EXTENDS DraftLayout

MCMaxBlocks == 2
MCDescLayouts == {"blank"}
MCDescLayoutsAll == {"blank", "tight"}
MCDrifts == {0}
MCDriftsStale == {-1, 0, 1}
=============================================================================
