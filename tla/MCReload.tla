------------------------------ MODULE MCReload ------------------------------
(* Small instances of Reload for TLC.                                       *)
EXTENDS Reload, TLC

(* Every version routes the first webhook to a target; the second one only  *)
(* deploys under odd versions, so a reload changes what becomes of it.      *)
OddDeploys ==
    [v \in 0..MaxVersion |-> IF v % 2 = 1 THEN Supported ELSE Supported \cap {"w1"}]
(* Requests of a kind are interchangeable.                                  *)
RequestSymmetry == Permutations(Hooks) \cup Permutations(Requests)
=============================================================================
