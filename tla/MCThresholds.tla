---------------------------- MODULE MCThresholds ----------------------------
(***************************************************************************)
(* Model-checking instances of Thresholds.                                 *)
(***************************************************************************)
EXTENDS Thresholds, TLC

Symmetry == Permutations(Severities)

\* A negative value, and values on and above targets.
MCValues == {-1, 2, 3}
=============================================================================
