---------------------------- MODULE MCDelivery ----------------------------
(* Small instances of Delivery for TLC.                                     *)
EXTENDS DeliveryInv, TLC

(* Management requests are interchangeable.                                 *)
OperatorSymmetry == Permutations(Operators)

(* Deliveries to target IDs of one Compose resource.                        *)
OneDelivery == {1}
TwoDeliveries == {1, 2}
ThreeDeliveries == {1, 2, 3}
ComposeTargets == {"t1", "t2"}
PairTargetOf == (1 :> "t1") @@ (2 :> "t2")
TripleTargetOf == (1 :> "t1") @@ (2 :> "t2") @@ (3 :> "t2")
OneTargetOf == (1 :> "t1")
AllDokploy == [t \in ComposeTargets |-> "dokploy"]
OneCompose == [t \in ComposeTargets |-> "compose"]

(* One http delivery beside a Dokploy one.                                  *)
MixedKind == ("t1" :> "http") @@ ("t2" :> "dokploy")
MixedResource == ("t1" :> "endpoint") @@ ("t2" :> "compose")
=============================================================================
