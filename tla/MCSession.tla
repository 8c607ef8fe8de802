------------------------------ MODULE MCSession ------------------------------
(* Two requests of one tab, which share their rotations, and a stream of     *)
(* another.                                                                  *)
EXTENDS Session, TLC
MCTabOf == ("r1" :> "t1") @@ ("r2" :> "t1") @@ ("s1" :> "t2")
=============================================================================
