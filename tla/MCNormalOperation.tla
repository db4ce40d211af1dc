------------------------- MODULE MCNormalOperation -------------------------
(* Instances of NormalOperation for TLC. *)
EXTENDS NormalOperation, TLC

CONSTANTS a, b, noop

\* No definition tells one request from another, save the ones without a body.
RequestSymmetry == Permutations({a, b})
=============================================================================
