----------------------------- MODULE MCHistory -----------------------------
(* A small instance of History for TLC.                                     *)
EXTENDS History, TLC

Push(d, r) ==
    [delivery |-> d, event |-> "push", repo |-> r, ref |-> "main", revision |-> "c1",
     external |-> NULL, trigger |-> "", status |-> "", targets |-> {}]
State(d, r, x, s, ts) ==
    [delivery |-> d, event |-> "pipeline", repo |-> r, ref |-> "main", revision |-> "c1",
     external |-> x, trigger |-> "push", status |-> s, targets |-> ts]

(* A push, the states of its pipeline, of which the last deploys, and a push *)
(* of the same commit to another repository.                                *)
SomeWebhooks ==
    {Push("p1", "r"), Push("p2", "s"),
     State("a1", "r", "A", "pending", {}), State("a2", "r", "A", "running", {}),
     State("a3", "r", "A", "success", {"t1"})}
TightLimits == "r" :> 1
=============================================================================
