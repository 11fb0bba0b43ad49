---------------------------- MODULE MCAttributes ----------------------------
(***************************************************************************)
(* Attributes with all texts of at most two tokens, and an entity that was *)
(* encoded once more.                                                      *)
(***************************************************************************)
EXTENDS Attributes

Token   == {"x", "&", "<", "amp;", "lt;"}
MCTexts == UNION {[1..n -> Token] : n \in 0..2} \cup {<<"&", "amp;", "lt;">>, <<"&", "amp;", "amp;">>}
=============================================================================
