------------------------- MODULE ConnectionsProofs -------------------------
(***************************************************************************)
(* Proofs about Connections, for any bundles, events, requests, hosts and   *)
(* keys, any sequence of reloads and any number of failures.                *)
(***************************************************************************)
EXTENDS Connections, TunnelsProofs, FiniteSetTheorems, WellFoundedInduction

(* Where a snapshot says that its requests go.                              *)
MeantBy(s) ==
    [url |-> s.url, request |-> s.request,
     via |-> IF s.ssh.id = NONE THEN Direct ELSE Via("tunnel", s.ssh.address, s.ssh.user)]

(* A delivery's snapshot says where it was meant to go.                     *)
SnapshotTells == \A d \in stored : d.meant = MeantBy(d.snapshot)

SendInv ==
    /\ DOMAIN sending = Requests
    /\ SnapshotTells
    /\ DeliversWhereStored

-----------------------------------------------------------------------------
(* Two rules that an event matches overlap, so that a valid bundle gives    *)
(* them different priorities: the order of rules never decides.             *)
THEOREM RulesNeverTie ==
    ASSUME NEW b, Validates(b), NEW e,
           NEW i \in DOMAIN b.routes, NEW j \in DOMAIN b.routes,
           routeMatches(b.routes[i].match, e), routeMatches(b.routes[j].match, e),
           b.routes[i].priority = b.routes[j].priority
    PROVE  i = j
<1>1. SameStream(b.routes[i].match, b.routes[j].match)
  BY DEF routeMatches, SameStream
<1>2. \A f \in DOMAIN b.routes[i].match.opt \cap DOMAIN b.routes[j].match.opt :
          b.routes[i].match.opt[f] = b.routes[j].match.opt[f]
  BY DEF routeMatches
<1>3. routeMatchesOverlap(b.routes[i].match, b.routes[j].match)
  BY <1>1, <1>2 DEF routeMatchesOverlap
<1>. QED  BY <1>3 DEF Validates, validateRoutes

(* Every nonempty set of numbers has a least one.                           *)
LEMMA LeastNumber ==
    ASSUME NEW S \in SUBSET Nat, S # {}
    PROVE  \E k \in S : \A j \in S : k <= j
<1>1. PICK k \in S : \A j \in S : ~(<<j, k>> \in OpToRel(<, Nat))
  BY NatLessThanWellFounded, WFMin
<1>2. \A j \in S : ~(j < k)
  BY <1>1 DEF OpToRel
<1>. QED  BY <1>2

(* What canonicalize computes for the rules of a valid bundle: the rule at  *)
(* position k is the one with k - 1 rules before it.                        *)
Precedes(b, j, i) == Before(b.routes[j], b.routes[i])
Place(b, i) == Cardinality({j \in DOMAIN b.routes : Precedes(b, j, i)})

LEMMA RulesAreOrdered ==
    ASSUME NEW b \in ValidBundles,
           NEW i \in DOMAIN b.routes, NEW j \in DOMAIN b.routes, NEW k \in DOMAIN b.routes
    PROVE  /\ ~Precedes(b, i, i)
           /\ Precedes(b, i, j) /\ Precedes(b, j, k) => Precedes(b, i, k)
           /\ i = j \/ Precedes(b, i, j) \/ Precedes(b, j, i)
<1>1. \A l \in DOMAIN b.routes : b.routes[l].priority \in Int /\ b.routes[l].id \in Int
  BY RoutesAssumption DEF ValidBundles, Validates, validateRoutes
<1>2. b.routes[i].id = b.routes[j].id => i = j
  BY DEF ValidBundles, Validates, validateRoutes, Unique
<1>. QED  BY <1>1, <1>2 DEF Precedes, Before

LEMMA PlacesAscend ==
    ASSUME NEW b \in ValidBundles, NEW i \in DOMAIN b.routes, NEW j \in DOMAIN b.routes
    PROVE  /\ Place(b, i) \in 0..(Len(b.routes) - 1)
           /\ Precedes(b, i, j) => Place(b, i) < Place(b, j)
           /\ Place(b, i) = Place(b, j) => i = j
<1> DEFINE D == DOMAIN b.routes
           Lower(x) == {y \in D : Precedes(b, y, x)}
<1>1. D = 1..Len(b.routes) /\ Len(b.routes) \in Nat
  BY RoutesAssumption DEF ValidBundles
<1>2. IsFiniteSet(D) /\ Cardinality(D) = Len(b.routes)
  BY <1>1, FS_Interval
<1>3. \A x \in D : IsFiniteSet(Lower(x)) /\ Cardinality(Lower(x)) \in Nat
  BY <1>2, FS_Subset, FS_CardinalityType
<1>4. \A x \in D : x \notin Lower(x)
  BY RulesAreOrdered
<1>5. \A x \in D : Cardinality(Lower(x) \cup {x}) = Cardinality(Lower(x)) + 1
  BY <1>3, <1>4, FS_AddElement
<1>6. Cardinality(Lower(i)) + 1 <= Len(b.routes)
  <2>1. Lower(i) \cup {i} \in SUBSET D
    OBVIOUS
  <2>2. Cardinality(Lower(i) \cup {i}) <= Len(b.routes)
    BY <1>2, <2>1, FS_Subset
  <2>. QED  BY <1>5, <2>2
<1>7. ASSUME NEW x \in D, NEW y \in D, Precedes(b, x, y)
      PROVE  Cardinality(Lower(x)) + 1 <= Cardinality(Lower(y))
  <2>1. Lower(x) \cup {x} \in SUBSET Lower(y)
    BY <1>7, RulesAreOrdered
  <2>2. Cardinality(Lower(x) \cup {x}) <= Cardinality(Lower(y))
    <3>. HIDE DEF Lower
    <3>. QED  BY <1>3, <2>1, FS_Subset
  <2>. QED  BY <1>5, <2>2
<1>8. i = j \/ Precedes(b, i, j) \/ Precedes(b, j, i)
  BY RulesAreOrdered
<1>9. Place(b, i) = Cardinality(Lower(i)) /\ Place(b, j) = Cardinality(Lower(j))
  BY DEF Place
<1>. HIDE DEF Lower
<1>. QED  BY <1>1, <1>3, <1>6, <1>7, <1>8, <1>9

(* Every position holds the rule whose place it is.                         *)
LEMMA CanonicalPlaces ==
    ASSUME NEW b \in ValidBundles, NEW k \in DOMAIN b.routes
    PROVE  \E i \in DOMAIN b.routes : Place(b, i) = k - 1 /\ CanonicalRoutes(b)[k] = b.routes[i]
<1> DEFINE D == DOMAIN b.routes
           place == [i \in D |-> Place(b, i)]
<1>1. D = 1..Len(b.routes) /\ Len(b.routes) \in Nat
  BY RoutesAssumption DEF ValidBundles
<1>2. place \in Injection(D, 0..(Len(b.routes) - 1))
  BY PlacesAscend DEF Injection, IsInjective
<1>3. /\ IsFiniteSet(0..(Len(b.routes) - 1))
      /\ Cardinality(0..(Len(b.routes) - 1)) = Len(b.routes) /\ Cardinality(D) = Len(b.routes)
  <2>1. IsFiniteSet(D) /\ Cardinality(D) = Len(b.routes)
    BY <1>1, FS_Interval
  <2>2. 0 \in Int /\ Len(b.routes) - 1 \in Int
    BY <1>1
  <2>3. /\ IsFiniteSet(0..(Len(b.routes) - 1))
        /\ Cardinality(0..(Len(b.routes) - 1)) =
              IF 0 > Len(b.routes) - 1 THEN 0 ELSE Len(b.routes) - 1 - 0 + 1
    BY <2>2, FS_Interval
  <2>. QED  BY <1>1, <2>1, <2>3
<1>4. place \in Surjection(D, 0..(Len(b.routes) - 1))
  <2>. HIDE DEF place, D
  <2>. QED  BY <1>2, <1>3, FS_Injection
<1>5. k - 1 \in 0..(Len(b.routes) - 1)
  BY <1>1
<1>6. PICK i \in D : Place(b, i) = k - 1
  BY <1>4, <1>5 DEF Surjection
<1>7. (CHOOSE l \in D : Place(b, l) = k - 1) = i
  BY <1>6, PlacesAscend
<1>8. CanonicalRoutes(b)[k] = b.routes[CHOOSE l \in D : Place(b, l) = k - 1]
  BY DEF CanonicalRoutes, Place, Precedes
<1>. QED  BY <1>6, <1>7, <1>8

(* In a valid bundle the rule that an event takes is the one rule of lowest *)
(* priority number among those that match it.                               *)
LEMMA RuleWins ==
    ASSUME NEW b \in ValidBundles, NEW e,
           NEW m \in DOMAIN b.routes, routeMatches(b.routes[m].match, e)
    PROVE  \E i \in DOMAIN b.routes :
              /\ routeMatches(b.routes[i].match, e)
              /\ RuleOf(b, e) = b.routes[i]
              /\ \A j \in DOMAIN b.routes : routeMatches(b.routes[j].match, e) /\ j # i =>
                    b.routes[i].priority < b.routes[j].priority
<1> DEFINE D == DOMAIN b.routes
           Fits(i) == routeMatches(b.routes[i].match, e)
<1>1. D = 1..Len(b.routes) /\ Len(b.routes) \in Nat
  BY RoutesAssumption DEF ValidBundles
<1>2. \A i \in D : \E k \in D : k - 1 = Place(b, i) /\ CanonicalRoutes(b)[k] = b.routes[i]
  <2> SUFFICES ASSUME NEW i \in D
               PROVE  \E k \in D : k - 1 = Place(b, i) /\ CanonicalRoutes(b)[k] = b.routes[i]
    OBVIOUS
  <2>1. Place(b, i) \in 0..(Len(b.routes) - 1)
    BY PlacesAscend
  <2>2. Place(b, i) + 1 \in D /\ (Place(b, i) + 1) - 1 = Place(b, i)
    BY <1>1, <2>1
  <2>3. PICK j \in D : Place(b, j) = (Place(b, i) + 1) - 1
                       /\ CanonicalRoutes(b)[Place(b, i) + 1] = b.routes[j]
    BY <2>2, CanonicalPlaces
  <2>4. j = i
    BY <2>2, <2>3, PlacesAscend
  <2>. QED  BY <2>2, <2>3, <2>4
<1>3. Matching(b, e) # {} /\ Matching(b, e) \in SUBSET Nat /\ Matching(b, e) \subseteq D
  <2>1. PICK k \in D : CanonicalRoutes(b)[k] = b.routes[m]
    BY <1>2
  <2>2. k \in Matching(b, e)
    BY <2>1 DEF Matching
  <2>. QED  BY <1>1, <2>2 DEF Matching
<1>4. PICK k \in Matching(b, e) :
          /\ \A l \in Matching(b, e) : k <= l
          /\ RuleOf(b, e) = CanonicalRoutes(b)[k]
  <2>1. \E k \in Matching(b, e) : \A l \in Matching(b, e) : k <= l
    BY <1>3, LeastNumber
  <2>. QED  BY <1>3, <2>1 DEF RuleOf
<1>5. PICK i \in D : Place(b, i) = k - 1 /\ CanonicalRoutes(b)[k] = b.routes[i]
  BY <1>3, <1>4, CanonicalPlaces
<1>6. Fits(i)
  BY <1>4, <1>5 DEF Matching
<1>7. ASSUME NEW j \in D, Fits(j), j # i PROVE b.routes[i].priority < b.routes[j].priority
  <2>1. PICK l \in D : l - 1 = Place(b, j) /\ CanonicalRoutes(b)[l] = b.routes[j]
    BY <1>2
  <2>2. l \in Matching(b, e)
    BY <1>7, <2>1 DEF Matching
  <2>3. k <= l /\ k \in Int /\ l \in Int
    BY <1>1, <1>3, <1>4, <2>2
  <2>4. ~Precedes(b, j, i)
    BY <1>5, <2>1, <2>3, PlacesAscend
  <2>5. Precedes(b, i, j)
    BY <1>7, <2>4, RulesAreOrdered
  <2>6. b.routes[i].priority # b.routes[j].priority
    BY <1>6, <1>7, RulesNeverTie DEF ValidBundles
  <2>. QED  BY <2>5, <2>6 DEF Precedes, Before
<1>. QED  BY <1>4, <1>5, <1>6, <1>7

(* Which rule an event takes never depends on the order of the rules in the *)
(* files: of those that match, one alone has the lowest priority number.    *)
THEOREM OneRuleAlwaysWins == Spec => []OneRuleWins
<1>1. Init => current \in ValidBundles
  BY DEF Init
<1>2. current \in ValidBundles /\ [Next]_vars => (current \in ValidBundles)'
  BY DEF Next, vars, Reload, RouteEvent, Send, SentDirectly, Tunnel, ValidBundles
<1>3. current \in ValidBundles => OneRuleWins
  BY RuleWins DEF OneRuleWins
<1>. QED  BY <1>1, <1>2, <1>3, PTL DEF Spec

(* What is stored of a target tells where the operator meant it to go.      *)
LEMMA SnapshotMeant ==
    ASSUME NEW b, NEW t
    PROVE  MeantBy(Snapshot(b, t)) = Meant(b, t)
<1>1. tunnelIdentity(b, TunnelOf(b, t)).id = TunnelOf(b, t)
  BY DEF tunnelIdentity
<1>. QED  BY <1>1 DEF MeantBy, Snapshot, Meant, Through

(* Snapshots with one fingerprint are meant for one place.                  *)
LEMMA FingerprintMeant ==
    ASSUME NEW s, NEW u, Fingerprint(s) = Fingerprint(u)
    PROVE  MeantBy(s) = MeantBy(u)
<1>1. s.url = u.url /\ s.request = u.request /\ s.ssh = u.ssh
  BY DEF Fingerprint
<1>. QED  BY <1>1 DEF MeantBy

(* A client that can send goes the way that its target is meant to go.      *)
LEMMA ClientMeant ==
    ASSUME NEW b, NEW t, clientFor(b, t) # Unavailable
    PROVE  clientFor(b, t) = Meant(b, t).via
BY DEF clientFor, Meant

-----------------------------------------------------------------------------
LEMMA SendStep ==
    ASSUME SendInv, NEW r \in Requests, NEW d \in stored, Send(r, d)
    PROVE  SendInv'
<1> DEFINE t == ById(current.targets, d.target)
           reached == [url |-> URLOf(current, t), request |-> t.request, via |-> clientFor(current, t)]
<1>1. sending' = [sending EXCEPT ![r] = [delivery |-> d, reached |-> reached]] /\ UNCHANGED stored
  BY DEF Send
<1>2. clientFor(current, t) # Unavailable
  BY DEF Send
<1>3. Fingerprint(d.snapshot) = Fingerprint(Snapshot(current, t))
  BY DEF Send, BindingStatus
<1>4. reached = Meant(current, t)
  <2>. HIDE DEF t
  <2>. QED  BY <1>2, ClientMeant DEF Meant
<1>5. d.meant = Meant(current, t)
  <2>1. d.meant = MeantBy(d.snapshot)
    BY DEF SendInv, SnapshotTells
  <2>2. MeantBy(d.snapshot) = MeantBy(Snapshot(current, t))
    BY <1>3, FingerprintMeant
  <2>3. MeantBy(Snapshot(current, t)) = Meant(current, t)
    BY SnapshotMeant
  <2>. QED  BY <2>1, <2>2, <2>3
<1>. HIDE DEF t, reached
<1>6. SnapshotTells'
  BY <1>1 DEF SendInv, SnapshotTells
<1>7. DeliversWhereStored'
  BY <1>1, <1>4, <1>5 DEF SendInv, DeliversWhereStored
<1>. QED  BY <1>1, <1>6, <1>7 DEF SendInv

LEMMA RouteStep ==
    ASSUME SendInv, NEW e \in Events, RouteEvent(e)
    PROVE  SendInv'
<1>1. \A id : NewDelivery(current, id).meant = MeantBy(NewDelivery(current, id).snapshot)
  BY SnapshotMeant DEF NewDelivery
<1>2. SnapshotTells'
  BY <1>1 DEF RouteEvent, SendInv, SnapshotTells
<1>. QED  BY <1>2 DEF RouteEvent, SendInv, DeliversWhereStored

(* A request's delivery goes where it was meant to go when it was stored.   *)
THEOREM SendsWhereStored == Spec => []DeliversWhereStored
<1>1. Init => SendInv
  BY DEF Init, SendInv, SnapshotTells, DeliversWhereStored
<1>2. SendInv /\ [Next]_vars => SendInv'
  <2> SUFFICES ASSUME SendInv, [Next]_vars PROVE SendInv'
    OBVIOUS
  <2>1. CASE UNCHANGED vars
    BY <2>1 DEF vars, SendInv, SnapshotTells, DeliversWhereStored
  <2>2. ASSUME NEW b \in Bundles, Reload(b) PROVE SendInv'
    BY <2>2 DEF Reload, SendInv, SnapshotTells, DeliversWhereStored
  <2>3. ASSUME NEW e \in Events, RouteEvent(e) PROVE SendInv'
    BY <2>3, RouteStep
  <2>4. ASSUME NEW r \in Requests, NEW d \in stored, Send(r, d) PROVE SendInv'
    BY <2>4, SendStep
  <2>5. ASSUME NEW r \in Requests, SentDirectly(r) PROVE SendInv'
    BY <2>5 DEF SentDirectly, SendInv, SnapshotTells, DeliversWhereStored
  <2>6. CASE Tunnel
    BY <2>6 DEF Tunnel, SendInv, SnapshotTells, DeliversWhereStored
  <2>. QED  BY <2>1, <2>2, <2>3, <2>4, <2>5, <2>6 DEF Next
<1>3. SendInv => DeliversWhereStored
  BY DEF SendInv
<1>. QED  BY <1>1, <1>2, <1>3, PTL DEF Spec

-----------------------------------------------------------------------------
(* The requests of the composed system use the trust file as module Tunnels *)
(* says, so that what is proved of it holds of them: the composition        *)
(* implements the component.                                                *)
THEOREM ImplementsTunnels == Spec => TunnelsSpec
<1>1. Init => TunnelsInit
  BY DEF Init
<1>2. [Next]_vars => [TunnelsNext]_tunnelVars
  <2> SUFFICES ASSUME Next PROVE TunnelsNext \/ UNCHANGED tunnelVars
    BY DEF vars
  <2>1. ASSUME NEW b \in Bundles, Reload(b) PROVE UNCHANGED tunnelVars
    BY <2>1 DEF Reload
  <2>2. ASSUME NEW e \in Events, RouteEvent(e) PROVE UNCHANGED tunnelVars
    BY <2>2 DEF RouteEvent
  <2>3. ASSUME NEW r \in Requests, NEW d \in stored, Send(r, d)
        PROVE  TunnelsNext \/ UNCHANGED tunnelVars
    BY <2>3 DEF Send, TunnelsNext
  <2>4. ASSUME NEW r \in Requests, SentDirectly(r) PROVE UNCHANGED tunnelVars
    BY <2>4 DEF SentDirectly
  <2>5. CASE Tunnel
    BY <2>5 DEF Tunnel, TunnelsNext
  <2>. QED  BY <2>1, <2>2, <2>3, <2>4, <2>5 DEF Next
<1>. QED  BY <1>1, <1>2, PTL DEF Spec, TunnelsSpec

(* An accepted key stays in the trust file of the composed system.          *)
THEOREM AcceptedKeysStay == Spec => [](AcceptedIsRecorded /\ FirstKeyIsKept)
BY ImplementsTunnels, TrustIsDurable, TrustIsUnique, PTL
=============================================================================
