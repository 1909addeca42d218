----------------------------- MODULE MCZkDelete -----------------------------
(* The instance of ZkDelete for TLC: a root with a child that has a child  *)
(* and one that has none.                                                  *)
EXTENDS ZkDelete, TLC

MCNodes == 0 .. 3
MCParent == (1 :> 0) @@ (2 :> 1) @@ (3 :> 0)
MCAbove == (0 :> {}) @@ (1 :> {0}) @@ (2 :> {0, 1}) @@ (3 :> {0})
=============================================================================
