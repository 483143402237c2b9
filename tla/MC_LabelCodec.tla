---------------------------- MODULE MC_LabelCodec ----------------------------
(* Up to two tokens of up to two characters: a token can be blank, padded  *)
(* or, in the comma run, hold the separator.                               *)
EXTENDS LabelCodec

MCAlphabet == {"a", "b", " "}
MCAlphabetComma == {"a", ",", " "}
=============================================================================
