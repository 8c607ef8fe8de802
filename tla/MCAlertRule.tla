----------------------------- MODULE MCAlertRule -----------------------------
(***************************************************************************)
(* Model-checking instances of AlertRule.                                  *)
(***************************************************************************)
EXTENDS AlertRule, TLC

Symmetry == Permutations(Series)
=============================================================================
