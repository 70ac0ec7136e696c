---------------------------- MODULE Connections ----------------------------
(***************************************************************************)
(* From a stored delivery to a request on the wire: an event is routed by   *)
(* the current generation (module Targets), generations come and go, and a  *)
(* request resolves its stored target in the generation of the moment and   *)
(* goes out directly or through a tunnel (module Tunnels).                  *)
(***************************************************************************)
EXTENDS Targets, Tunnels

CONSTANTS
    Bundles,     \* the configurations on disk, valid or not
    Events,      \* normalized events
    MaxStored    \* bound: stored deliveries

(* Rules are a list; priorities are integers, and the order of identifiers  *)
(* is the order of the numbers that stand for them.                         *)
ASSUME RoutesAssumption ==
    \A b \in Bundles :
        /\ Len(b.routes) \in Nat /\ DOMAIN b.routes = 1..Len(b.routes)
        /\ \A i \in DOMAIN b.routes :
              b.routes[i].priority \in Int \cup {NONE} /\ b.routes[i].id \in Int

VARIABLES
    current,     \* the bundle of the current generation
    stored,      \* deliveries: target, snapshot, and where they were meant to go
    sending      \* what a request sends: the delivery and the client's route

vars == <<tunnelVars, current, stored, sending>>

(* Where the operator wanted the deliveries of target t to go.              *)
Meant(b, t) ==
    [url |-> URLOf(b, t), request |-> t.request,
     via |-> IF TunnelOf(b, t) = NONE THEN Direct ELSE Through(b, TunnelOf(b, t))]

NewDelivery(b, id) ==
    LET t == ById(b.targets, id) IN [target |-> id, snapshot |-> Snapshot(b, t), meant |-> Meant(b, t)]

ValidBundles == {b \in Bundles : Validates(b)}

Init ==
    /\ TunnelsInit
    /\ current \in ValidBundles
    /\ stored = {}
    /\ sending = [r \in Requests |-> NULL]

(* Reload, or a restart: an invalid bundle changes nothing.                 *)
Reload(b) ==
    /\ b \in ValidBundles \ {current}
    /\ current' = b
    /\ UNCHANGED <<tunnelVars, stored, sending>>

RouteEvent(e) ==
    /\ stored' = stored \cup {NewDelivery(current, id) : id \in RoutedTargets(current, e)}
    /\ stored' # stored
    /\ Cardinality(stored') <= MaxStored
    /\ UNCHANGED <<tunnelVars, current, sending>>

(* A delivery is sent by the client of the target that it resolves to.      *)
Send(r, d) ==
    /\ At(r, "idle") /\ sending[r] = NULL
    /\ BindingStatus(current, d.target, d.snapshot) = "compatible"
    /\ LET t == ById(current.targets, d.target)
           client == clientFor(current, t) IN
       /\ client # Unavailable
       /\ sending' = [sending EXCEPT ![r] =
              [delivery |-> d, reached |-> [url |-> URLOf(current, t), request |-> t.request, via |-> client]]]
       /\ IF client = Direct THEN UNCHANGED tunnelVars
          ELSE client.address \in Hosts /\ \E k \in Keys : Dial(r, client.address, k)
    /\ UNCHANGED <<current, stored>>

SentDirectly(r) ==
    /\ sending[r] # NULL /\ At(r, "idle")
    /\ sending' = [sending EXCEPT ![r] = NULL]
    /\ UNCHANGED <<tunnelVars, current, stored>>

(* A tunnel's step; a request whose tunnel has ended is over.               *)
Tunnel ==
    /\ TunnelStep
    /\ sending' = [r \in Requests |->
          IF ~At(r, "idle") /\ request'[r].pc = "idle" THEN NULL ELSE sending[r]]
    /\ UNCHANGED <<current, stored>>

Next ==
    \/ \E b \in Bundles : Reload(b)
    \/ \E e \in Events : RouteEvent(e)
    \/ \E r \in Requests, d \in stored : Send(r, d)
    \/ \E r \in Requests : SentDirectly(r)
    \/ Tunnel

Spec == Init /\ [][Next]_vars

-----------------------------------------------------------------------------
(* Which rule an event takes does not depend on the order of rules in the   *)
(* files: of the rules that match, one alone has the lowest priority number. *)
OneRuleWins ==
    \A e \in Events :
        LET rules == {i \in DOMAIN current.routes : routeMatches(current.routes[i].match, e)} IN
        rules # {} =>
            \E i \in rules :
                /\ RuleOf(current, e) = current.routes[i]
                /\ \A j \in rules \ {i} : current.routes[i].priority < current.routes[j].priority

(* Whatever was edited, reloaded or restarted since a delivery was stored,  *)
(* its request goes where it was meant to go when it was stored: to that    *)
(* URL, with that request, over that jump host and user, and never directly *)
(* if a tunnel was configured.                                              *)
DeliversWhereStored ==
    \A r \in Requests : sending[r] # NULL => sending[r].reached = sending[r].delivery.meant
=============================================================================
