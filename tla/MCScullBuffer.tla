--------------------------- MODULE MCScullBuffer ---------------------------
(***************************************************************************)
(* Instances of ScullBuffer for TLC.                                       *)
(***************************************************************************)
EXTENDS ScullBuffer, TLC

CONSTANTS p1, p2, c1

TwoProducers == {p1, p2}
OneConsumer  == {c1}

\* Producers only differ by name.
ProdSym == Permutations(TwoProducers)
=============================================================================
