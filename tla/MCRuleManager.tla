---------------------------- MODULE MCRuleManager ----------------------------
(***************************************************************************)
(* Model-checking instances of RuleManager.                                *)
(***************************************************************************)
EXTENDS RuleManager, TLC

Symmetry == Permutations(Clients) \cup Permutations(RuleIds)
=============================================================================
