---------------------------- MODULE MCTextAttach ----------------------------
(***************************************************************************)
(* Every list of at most MaxKids children.                                 *)
(***************************************************************************)
EXTENDS TextAttach

CONSTANT MaxKids

MCBlank == " "

MCChild == {[kind |-> k, lines |-> <<>>] : k \in {"stmt", "other", "skip"}} \cup
           {[kind |-> "text", lines |-> l] : l \in {<<MCBlank>>, <<MCBlank, "a">>, <<"a", MCBlank>>}}

MCDocs == UNION {[1..n -> MCChild] : n \in 0..MaxKids}
=============================================================================
