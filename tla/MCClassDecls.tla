---------------------------- MODULE MCClassDecls ----------------------------
(***************************************************************************)
(* ClassDecls with two names, four elements and four scopes.               *)
(***************************************************************************)
EXTENDS ClassDecls, TLC

CONSTANTS A, B

MCName == {A, B}

\* Names are only compared.
Symmetry == Permutations(MCName)
=============================================================================
