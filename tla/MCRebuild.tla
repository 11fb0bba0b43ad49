----------------------------- MODULE MCRebuild -----------------------------
(***************************************************************************)
(* xmlrebuild on every kind of input, with two signals.                    *)
(***************************************************************************)
EXTENDS Rebuild

MCInputs  == [first: BOOLEAN, named: BOOLEAN, args: BOOLEAN]
MCSignals == {6, 11}
=============================================================================
