------------------------------ MODULE Routing ------------------------------
(***************************************************************************)
(* What the webhook side promises, whatever reloads and crashes do: every   *)
(* accepted event is routed once, and events are routed in the order in     *)
(* which they were accepted. An event may be forgotten only after it was    *)
(* routed; a redelivered webhook is then a new event.                       *)
(***************************************************************************)
EXTENDS Naturals, Sequences

CONSTANT Events

VARIABLES
    log,     \* accepted events, in acceptance order
    routed,  \* how many of them, from the first on, have been routed
    known    \* events the store remembers

vars == <<log, routed, known>>

Pending == {log[i] : i \in (routed + 1)..Len(log)}

Init == log = <<>> /\ routed = 0 /\ known = {}

(* A webhook is accepted and waits its turn.                                *)
Defer(e) ==
    /\ e \notin known
    /\ log' = Append(log, e)
    /\ known' = known \cup {e}
    /\ UNCHANGED routed

(* A webhook is accepted and routed at once: nobody waits before it.        *)
RouteNow(e) ==
    /\ e \notin known
    /\ routed = Len(log)
    /\ log' = Append(log, e)
    /\ known' = known \cup {e}
    /\ routed' = routed + 1

RouteNext ==
    /\ routed < Len(log)
    /\ routed' = routed + 1
    /\ UNCHANGED <<log, known>>

Forget(E) ==
    /\ E \subseteq known
    /\ E \cap Pending = {}
    /\ known' = known \ E
    /\ UNCHANGED <<log, routed>>

Next ==
    \/ \E e \in Events : Defer(e)
    \/ \E e \in Events : RouteNow(e)
    \/ RouteNext
    \/ \E E \in SUBSET Events : Forget(E)

Spec == Init /\ [][Next]_vars
=============================================================================
