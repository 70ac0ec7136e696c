--------------------------- MODULE MCConnections ---------------------------
(* A small instance of Connections for TLC: one configuration and its edits. *)
EXTENDS Connections, TLC

URL(v, private) == [value |-> v, private |-> private]
Rule(id, priority, opt, targets) ==
    [id |-> id, priority |-> priority,
     match |-> [source |-> "lab", repository |-> "r", event |-> "push", opt |-> opt],
     action |-> [type |-> "deploy", targets |-> targets]]

(* Pushes to main go through the jump host, others to a Dokploy of its own. *)
Base ==
    [sources |-> <<[id |-> "lab", provider |-> "gitlab", token |-> "x",
                    repositories |-> <<[id |-> "r", external |-> "1"]>>]>>,
     tunnels |-> <<[id |-> "jump", address |-> "a", user |-> "u", usable |-> TRUE]>>,
     connections |->
        <<[id |-> "api", kind |-> "http", url |-> URL("v", TRUE), tunnel |-> "jump", allow |-> TRUE],
          [id |-> "dok", kind |-> "dokploy", url |-> URL("d", FALSE), tunnel |-> NONE, allow |-> FALSE]>>,
     targets |->
        <<[id |-> "t1", type |-> "http", connection |-> "api", url |-> NONE, request |-> "go",
           tunnel |-> NONE, allow |-> FALSE],
          [id |-> "t2", type |-> "dokploy", connection |-> "dok", url |-> NONE, request |-> "compose",
           tunnel |-> NONE, allow |-> FALSE]>>,
     routes |-> <<Rule(1, 2, <<>>, <<"t2">>), Rule(2, 1, "ref" :> "main", <<"t1">>)>>]

Edited ==
    {Base,
     \* The jump host moves; its key file is lost; the tunnel is removed but still named.
     [Base EXCEPT !.tunnels[1].address = "b"],
     [Base EXCEPT !.tunnels[1].usable = FALSE],
     [Base EXCEPT !.tunnels = <<>>],
     \* The tunnel is taken twice, and the connection goes direct.
     [Base EXCEPT !.tunnels = @ \o @],
     [Base EXCEPT !.connections[1].tunnel = NONE],
     \* The endpoint is forwarded to, over the tunnel, with leave and without.
     [Base EXCEPT !.targets[1] =
        [@ EXCEPT !.type = "forward", !.connection = NONE, !.url = URL("v", TRUE), !.tunnel = "jump",
                  !.allow = TRUE]],
     [Base EXCEPT !.targets[1] =
        [@ EXCEPT !.type = "forward", !.connection = NONE, !.url = URL("v", TRUE), !.tunnel = "jump"]],
     \* The Dokploy connection is renamed and moves behind the tunnel.
     [Base EXCEPT !.connections[2].id = "kp", !.targets[2].connection = "kp"],
     [Base EXCEPT !.connections[2].tunnel = "jump"],
     \* Rules of one priority: they overlap, and they do not.
     [Base EXCEPT !.routes[1].priority = 1],
     [Base EXCEPT !.routes[1] = Rule(1, 1, "ref" :> "dev", <<"t2">>)],
     \* A connection and a target that do not fit.
     [Base EXCEPT !.connections[1].id = "dok"],
     [Base EXCEPT !.targets[1].connection = "dok"]}

Pushes ==
    {[source |-> "lab", repository |-> "r", event |-> "push", opt |-> "ref" :> ref] : ref \in {"main", "dev"}}

TwoProcesses == ("q1" :> 1) @@ ("q2" :> 2)
HostKeys == ("a" :> {"k1", "k2"}) @@ ("b" :> {"k3", "c1"})
=============================================================================
