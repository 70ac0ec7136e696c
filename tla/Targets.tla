------------------------------ MODULE Targets ------------------------------
(***************************************************************************)
(* A configuration bundle: when it is valid, which rule an event takes,     *)
(* what a delivery stores of its target, when a stored target is still the  *)
(* configured one, and over which connection its request goes.              *)
(* Source: internal/config/validate.go and ssh.go; internal/runtimecfg/     *)
(* generation.go, binding.go and ssh.go.                                    *)
(*                                                                         *)
(* A bundle's lists are sequences in the order of its files. Identifiers,   *)
(* URLs and requests are values; text that fails a syntax check is not      *)
(* represented. A URL is a record with its value and whether it is private. *)
(***************************************************************************)
EXTENDS Integers, Sequences, FiniteSets

CONSTANT NONE

CanonicalEvents == {"pipeline", "job", "push", "tag_push", "merge_request", "artifact_push"}

Unique(list) == \A i, j \in DOMAIN list : list[i].id = list[j].id => i = j
Ids(list) == {list[i].id : i \in DOMAIN list}
ById(list, id) == list[CHOOSE i \in DOMAIN list : list[i].id = id /\ \A j \in DOMAIN list : list[j].id = id => i <= j]

-----------------------------------------------------------------------------
(* Validation. *)

(* GitLab finds a source by its token; the others name it in the URL.       *)
validateSources(b) ==
    /\ Unique(b.sources)
    /\ \A i, j \in DOMAIN b.sources :
          /\ b.sources[i].provider = "gitlab" /\ b.sources[j].provider = "gitlab"
          /\ b.sources[i].token = b.sources[j].token
          => i = j
    /\ \A i \in DOMAIN b.sources :
          LET repos == b.sources[i].repositories IN
          /\ Unique(repos)
          /\ \A j, k \in DOMAIN repos : repos[j].external = repos[k].external => j = k

(* Dokploy and http connections share their names.                          *)
validateConnections(b) ==
    /\ Unique(b.connections)
    /\ \A i \in DOMAIN b.connections :
          LET c == b.connections[i] IN
          c.kind = "http" /\ c.url.private => c.allow \/ c.tunnel # NONE

validateTargets(b) ==
    /\ Unique(b.targets)
    /\ \A i \in DOMAIN b.targets :
          LET t == b.targets[i] IN
          CASE t.type \in {"dokploy", "http"} ->
                  /\ t.url = NONE /\ ~t.allow
                  /\ t.connection \in Ids(b.connections)
                  /\ ById(b.connections, t.connection).kind = t.type
            [] t.type = "forward" ->
                  /\ t.connection = NONE
                  /\ t.url.private => t.allow \/ t.tunnel # NONE

(* A tunnel that is not usable does not make a bundle invalid.              *)
validateSSHTunnels(b) ==
    \A i \in DOMAIN b.targets : b.targets[i].tunnel # NONE => b.targets[i].type = "forward"

(* match holds source, repository and event, and in opt the fields that it  *)
(* names of ref, status, revision, external_id and trigger.                 *)
SameStream(m, n) == m.source = n.source /\ m.repository = n.repository /\ m.event = n.event

(* Mutant: a field that one rule leaves open separates it from the other.   *)
OverlapIfSameFields(m, n) == SameStream(m, n) /\ m.opt = n.opt
routeMatchesOverlap(m, n) ==
    SameStream(m, n) /\ \A f \in DOMAIN m.opt \cap DOMAIN n.opt : m.opt[f] = n.opt[f]

validateRouteMatch(b, m) ==
    /\ m.source \in Ids(b.sources)
    /\ m.repository \in Ids(ById(b.sources, m.source).repositories)
    /\ m.event \in CanonicalEvents

validateAction(b, action) ==
    IF action.type = "record_only" THEN action.targets = <<>>
    ELSE /\ action.type = "deploy"
         /\ action.targets # <<>>
         /\ \A i, j \in DOMAIN action.targets : action.targets[i] = action.targets[j] => i = j
         /\ \A i \in DOMAIN action.targets : action.targets[i] \in Ids(b.targets)

validateRoutes(b) ==
    /\ Unique(b.routes)
    /\ \A i \in DOMAIN b.routes :
          /\ b.routes[i].priority # NONE
          /\ validateRouteMatch(b, b.routes[i].match)
          /\ validateAction(b, b.routes[i].action)
    /\ \A i, j \in DOMAIN b.routes :
          /\ b.routes[i].priority = b.routes[j].priority
          /\ routeMatchesOverlap(b.routes[i].match, b.routes[j].match)
          => i = j

Validates(b) ==
    /\ validateSSHTunnels(b) /\ validateSources(b) /\ validateConnections(b)
    /\ validateTargets(b) /\ validateRoutes(b)

-----------------------------------------------------------------------------
(* Routing. *)

Before(p, q) == p.priority < q.priority \/ (p.priority = q.priority /\ p.id < q.id)

(* canonicalize sorts the rules.                                            *)
CanonicalRoutes(b) ==
    [k \in DOMAIN b.routes |->
        b.routes[CHOOSE i \in DOMAIN b.routes :
            Cardinality({j \in DOMAIN b.routes : Before(b.routes[j], b.routes[i])}) = k - 1]]

routeMatches(m, e) == SameStream(m, e) /\ \A f \in DOMAIN m.opt : m.opt[f] = e.opt[f]

(* The rule that an event takes: the first that matches.                    *)
Matching(b, e) == {k \in DOMAIN b.routes : routeMatches(CanonicalRoutes(b)[k].match, e)}
RuleOf(b, e) ==
    IF Matching(b, e) = {} THEN NONE
    ELSE CanonicalRoutes(b)[CHOOSE k \in Matching(b, e) : \A j \in Matching(b, e) : k <= j]

RoutedTargets(b, e) ==
    IF RuleOf(b, e) = NONE THEN {}
    ELSE LET ids == RuleOf(b, e).action.targets IN {ids[i] : i \in DOMAIN ids}

-----------------------------------------------------------------------------
(* Compiled targets. *)

ConnectionOf(b, t) == ById(b.connections, t.connection)
TunnelOf(b, t) == IF t.type = "forward" THEN t.tunnel ELSE ConnectionOf(b, t).tunnel
URLOf(b, t) == IF t.type = "forward" THEN t.url.value ELSE ConnectionOf(b, t).url.value

(* Private networks are for Dokploy, or need leave even through a tunnel.   *)
Allowed(b, t) ==
    CASE t.type = "dokploy" -> TRUE
      [] t.type = "http" -> ConnectionOf(b, t).allow
      [] t.type = "forward" -> t.allow

(* Who a tunnel is: an undefined one is only a name, no tunnel is NONE.     *)
tunnelIdentity(b, id) ==
    IF id = NONE \/ id \notin Ids(b.tunnels) THEN [id |-> id, address |-> NONE, user |-> NONE]
    ELSE LET t == ById(b.tunnels, id) IN [id |-> id, address |-> t.address, user |-> t.user]

(* The tunnel's fields are valid, its name is not taken twice, and its key  *)
(* and trust file could be read.                                            *)
Usable(b, id) ==
    /\ \E i \in DOMAIN b.tunnels : b.tunnels[i].id = id /\ b.tunnels[i].usable
    /\ \A i, j \in DOMAIN b.tunnels : b.tunnels[i].id = id /\ b.tunnels[j].id = id => i = j

(* The transport of a target's requests.                                    *)
Via(kind, address, user) == [kind |-> kind, address |-> address, user |-> user]
Direct == Via("direct", NONE, NONE)
Unavailable == Via("unavailable", NONE, NONE)
Through(b, id) == LET who == tunnelIdentity(b, id) IN Via("tunnel", who.address, who.user)

(* Mutant: without a usable tunnel the request goes out directly.           *)
clientForDirect(b, t) ==
    LET id == TunnelOf(b, t) IN
    IF id = NONE \/ ~Usable(b, id) \/ ~Allowed(b, t) THEN Direct ELSE Through(b, id)
clientFor(b, t) ==
    LET id == TunnelOf(b, t) IN
    IF id = NONE THEN Direct
    ELSE IF ~Usable(b, id) \/ ~Allowed(b, t) THEN Unavailable
    ELSE Through(b, id)

(* What a delivery stores of its target.                                    *)
Snapshot(b, t) ==
    [id |-> t.id, type |-> t.type, connection |-> t.connection, url |-> URLOf(b, t),
     request |-> t.request, allow |-> t.allow, ssh |-> tunnelIdentity(b, TunnelOf(b, t))]

(* Two targets are the same if their fingerprints are: a Dokploy connection *)
(* may be renamed, secrets may change, and so may an http connection's      *)
(* leave to reach private networks.                                         *)
(* Mutant: the tunnel does not count.                                       *)
FingerprintDirect(s) ==
    <<s.type, IF s.type = "http" THEN s.connection ELSE NONE, s.url, s.request,
      s.type = "forward" /\ s.allow>>
Fingerprint(s) ==
    <<s.type, IF s.type = "http" THEN s.connection ELSE NONE, s.url, s.request,
      s.type = "forward" /\ s.allow, s.ssh>>

(* ResolveTarget. A snapshot from before bindings had a version is NONE.    *)
BindingStatus(b, id, s) ==
    IF id \notin Ids(b.targets) \/ s = NONE THEN "target_unavailable"
    ELSE LET t == ById(b.targets, id) IN
         IF s.id # id \/ s.type # t.type THEN "target_unavailable"
         ELSE IF Fingerprint(s) # Fingerprint(Snapshot(b, t)) THEN "target_changed"
         ELSE "compatible"
=============================================================================
