--------------------------- MODULE MCDecisionLog ---------------------------
(***************************************************************************)
(* DecisionLog for TLC: a ticker analysed on two days, another on one.     *)
(***************************************************************************)
EXTENDS DecisionLog, TLC

CONSTANTS A, B

MCKeys == {<<A, 1>>, <<A, 2>>, <<B, 1>>}

\* The drivers are interchangeable.
MCSymmetry == Permutations(Drivers)
=============================================================================
