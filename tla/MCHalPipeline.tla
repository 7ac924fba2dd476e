--------------------------- MODULE MCHalPipeline ---------------------------
(* HalPipeline on small instances. *)
EXTENDS HalPipeline, FiniteSets, TLC

CONSTANTS m1, m2

\* Modes are told apart only by equality.
ModeSymmetry == Permutations(Modes)

\* Bound: an attachment is followed up to the second kind of thing that goes wrong.
OneMishap == Cardinality(mishap) <= 1
=============================================================================
