-------------------------- MODULE MCMessageProjection --------------------------
(* MessageProjection for TLC: one or two store processes as model values. *)
EXTENDS MessageProjection, TLC

CONSTANTS p1, p2

MCSymmetry == Permutations(Process)
=============================================================================
