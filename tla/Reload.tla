------------------------------- MODULE Reload -------------------------------
(***************************************************************************)
(* The reload lifecycle: one lifecycle gate (a readers-writer lock) between *)
(* webhooks, management requests, workers and configuration publication, a  *)
(* durable FIFO of the events that arrive while a reload waits or drains,   *)
(* and the startup that finds such a queue after a crash.                   *)
(*                                                                         *)
(* A configuration is the version number of the files on disk, which stands *)
(* for its digest. A writer of the gate is modelled by two steps: asking    *)
(* for the lock, and, when its turn comes and the last reader has left,     *)
(* everything it does under the lock. A reader that does one store          *)
(* transaction is one step; webhook handlers, management requests and the   *)
(* drainer hold the gate over several steps. Wake-up channels only make the *)
(* loops run sooner than their timers and are left out. What a delivery     *)
(* does while it is active is module Delivery; here it ends some time.      *)
(***************************************************************************)
EXTENDS Naturals, Sequences, FiniteSets

CONSTANTS
    Webhooks,     \* delivery identities of incoming webhooks
    Supported,    \* those whose event type the provider adapter supports
    Hooks,        \* concurrent webhook requests
    Operators,    \* concurrent management requests
    Requests,     \* concurrent reload requests
    Invalid,      \* configuration versions that do not validate
    Deploys,      \* Deploys[v]: webhooks that version v routes to a target
    NULL,
    MaxVersion,   \* bound: edits of the files on disk
    MaxAccepted,  \* bound: events accepted (a deleted one may come again)
    MaxCrashes    \* bound: crashes

ASSUME ReloadAssumption ==
    /\ Supported \subseteq Webhooks
    /\ MaxVersion \in Nat
    /\ MaxAccepted \in Nat
    /\ MaxCrashes \in Nat
    /\ Invalid \subseteq 1..MaxVersion
    /\ Deploys \in [0..MaxVersion -> SUBSET Supported]
    /\ NULL \notin Webhooks \cup Nat \cup Requests \cup {"manager", "drainer"}
    \* Requests are told apart, as goroutines are.
    /\ Requests \cap {"manager", "drainer"} = {}
    /\ Hooks \cap Operators = {} /\ "drainer" \notin Hooks \cup Operators

VARIABLES
    phase,      \* "up" or "down"
    disk,       \* version of the files on disk
    state,      \* Manager.state
    current,    \* Manager.current
    candidate,  \* Manager.candidate
    lockers,    \* writers that have asked for the gate (lifecycle.w)
    writer,     \* the one of them whose turn it is; new readers wait for it
    readers,    \* holders of the gate for reading
    reload,     \* reload requests
    hook,       \* webhook requests
    exec,       \* management requests
    drain,      \* Drainer.RunOnce
    event,      \* table events
    queue,      \* table routing_queue, by seq
    active,     \* active delivery of an event: the generation it runs on
    done,       \* events in the order in which they were routed (observation only)
    crashes

managerVars == <<state, current, candidate>>
lockVars == <<lockers, writer>>
gateVars == <<lockVars, readers>>
storeVars == <<event, queue, active, done>>
vars == <<phase, disk, crashes, managerVars, gateVars, reload, hook, exec, drain, storeVars>>

-----------------------------------------------------------------------------
Version == 0..MaxVersion
Writers == Requests \cup {"manager", "drainer"}
State == {"idle", "validating", "waiting", "draining"}

(* events row: how it was routed, its config_digest, and (observation only)  *)
(* the version its acceptance promised to route it with.                     *)
NoEvent == [routing |-> "none", digest |-> NULL, promised |-> NULL]
EventRow ==
    [routing : {"none", "deferred", "routed", "unsupported"},
     digest : Version \cup {NULL}, promised : Version \cup {NULL}]

HookIdle == [event |-> NULL, state |-> NULL, generation |-> NULL]
ReloadIdle == [pc |-> "none", loaded |-> NULL]
ExecuteIdle == [pc |-> "none", event |-> NULL]

Known(e) == event[e].routing # "none"
ActiveEvents == {e \in Webhooks : active[e] # NULL}

(* sync.RWMutex: writers queue; the first of them keeps new readers out,     *)
(* waits for the readers before it, and lets the waiting readers in when it  *)
(* leaves, before the next writer's turn.                                    *)
CanRead == phase = "up" /\ writer = NULL
CanWrite(w) == phase = "up" /\ writer = w /\ readers = {}
Ask(w) == lockers' = lockers \cup {w} /\ UNCHANGED writer
Leave(w) == lockers' = lockers \ {w} /\ writer' = NULL /\ UNCHANGED readers

Announce(w) ==
    /\ phase = "up" /\ writer = NULL
    /\ w \in lockers
    /\ writer' = w
    /\ UNCHANGED <<phase, disk, crashes, managerVars, lockers, readers, reload, hook, exec,
                   drain, storeVars>>

-----------------------------------------------------------------------------
(* Manager.Reload (internal/runtimecfg/manager.go).                          *)

ReloadOnly == UNCHANGED <<phase, disk, crashes, hook, exec, drain, storeVars>>

ReloadRequest(q) ==
    /\ phase = "up" /\ reload[q].pc = "none"
    /\ reload' = [reload EXCEPT ![q].pc = "begin"]
    /\ Ask(q)
    /\ UNCHANGED <<managerVars, readers>>
    /\ ReloadOnly

\* Mutant: a reload begins whatever goes on.
NoReloadUnderWayUnchecked == TRUE
NoReloadUnderWay == state = "idle"

(* The lifecycle compare-and-swap: one reload at a time.                     *)
ReloadBegin(q) ==
    /\ CanWrite(q) /\ reload[q].pc = "begin"
    /\ IF NoReloadUnderWay
       THEN /\ reload' = [reload EXCEPT ![q].pc = "load"]
            /\ state' = "validating"
            /\ candidate' = NULL
            /\ UNCHANGED current
       ELSE reload' = [reload EXCEPT ![q] = ReloadIdle] /\ UNCHANGED managerVars
    /\ Leave(q)
    /\ ReloadOnly

(* The candidate is read and compiled without the gate; the files may not be *)
(* readable.                                                                 *)
ReloadLoad(q) ==
    /\ phase = "up" /\ reload[q].pc = "load"
    /\ \/ /\ disk \notin Invalid
          /\ reload' = [reload EXCEPT ![q] = [pc |-> "decide", loaded |-> disk]]
       \/ reload' = [reload EXCEPT ![q].pc = "fail"]
    /\ Ask(q)
    /\ UNCHANGED <<managerVars, readers>>
    /\ ReloadOnly

(* failValidation, and a CountActive that fails.                             *)
ReloadFail(q) ==
    /\ CanWrite(q) /\ reload[q].pc \in {"fail", "decide"}
    /\ reload' = [reload EXCEPT ![q] = ReloadIdle]
    /\ state' = "idle"
    /\ candidate' = NULL
    /\ UNCHANGED current
    /\ Leave(q)
    /\ ReloadOnly

(* publishCandidateLocked: applying is left before the gate is.              *)
Publish(v) == state' = "draining" /\ current' = v /\ candidate' = NULL

\* Mutant: the active deliveries are not counted.
NothingActiveUnchecked == TRUE
NothingActive == ActiveEvents = {}

ReloadDecide(q) ==
    /\ CanWrite(q) /\ reload[q].pc = "decide"
    /\ IF NothingActive
       THEN Publish(reload[q].loaded)
       ELSE state' = "waiting" /\ candidate' = reload[q].loaded /\ UNCHANGED current
    /\ reload' = [reload EXCEPT ![q] = ReloadIdle]
    /\ Leave(q)
    /\ ReloadOnly

(* Manager.Run: a terminal commit or the retry timer.                        *)
ManagerWakes ==
    /\ phase = "up" /\ state = "waiting" /\ "manager" \notin lockers
    /\ Ask("manager")
    /\ UNCHANGED <<managerVars, readers, reload>>
    /\ ReloadOnly

\* Mutant: the drain begins and the candidate is lost.
DrainInstead == state' = "draining" /\ candidate' = NULL /\ UNCHANGED current
(* A startup that found a queue waits without a candidate.                   *)
PublishOrDrain ==
    IF candidate # NULL THEN Publish(candidate)
    ELSE state' = "draining" /\ UNCHANGED <<current, candidate>>

AdvanceWaiting ==
    /\ CanWrite("manager")
    /\ IF state = "waiting" /\ NothingActive THEN PublishOrDrain
       ELSE UNCHANGED managerVars
    /\ Leave("manager")
    /\ UNCHANGED reload
    /\ ReloadOnly

(* CountActive fails; the timer tries again.                                 *)
AdvanceFails ==
    /\ CanWrite("manager")
    /\ Leave("manager")
    /\ UNCHANGED <<managerVars, reload>>
    /\ ReloadOnly

-----------------------------------------------------------------------------
(* Webhooks (internal/publichook/handler.go).                                *)

HookOnly == UNCHANGED <<phase, disk, crashes, managerVars, lockVars, reload, exec, drain>>

Accepted == Len(done) + Len(queue) + Cardinality({h \in Hooks : hook[h] # HookIdle})

\* Mutant: the gate is given back before the event is stored.
HookViewOnly(h, e) ==
    /\ CanRead
    /\ hook[h] = HookIdle
    /\ Accepted < MaxAccepted
    /\ hook' = [hook EXCEPT ![h] = [event |-> e, state |-> state, generation |-> current]]
    /\ UNCHANGED <<storeVars, readers>>
    /\ HookOnly
HookBegin(h, e) ==
    /\ CanRead
    /\ hook[h] = HookIdle
    /\ Accepted < MaxAccepted
    /\ readers' = readers \cup {h}
    /\ hook' = [hook EXCEPT ![h] = [event |-> e, state |-> state, generation |-> current]]
    /\ UNCHANGED storeVars
    /\ HookOnly

(* 4xx, or a store that is not available.                                    *)
HookRefused(h) ==
    /\ phase = "up" /\ hook[h] # HookIdle
    /\ hook' = [hook EXCEPT ![h] = HookIdle]
    /\ readers' = readers \ {h}
    /\ UNCHANGED storeVars
    /\ HookOnly

\* Mutant: events that arrive while the queue drains are routed at once.
DefersWhileWaiting(s) == s = "waiting"
ReloadDefers(s) == s \in {"waiting", "draining"}

(* Generation.Route and the rows of the deliveries it makes.                 *)
Route(e, v) ==
    /\ event' = [event EXCEPT ![e].routing = "routed", ![e].digest = v]
    /\ active' = [active EXCEPT ![e] = IF e \in Deploys[v] THEN v ELSE NULL]
    /\ done' = Append(done, e)

(* Store.IngestDeferred.                                                     *)
Defer(e, v) ==
    /\ event' = [event EXCEPT ![e] =
          [routing |-> "deferred", digest |-> v,
           promised |-> IF candidate # NULL THEN candidate ELSE current]]
    /\ queue' = Append(queue, e)
    /\ UNCHANGED <<active, done>>

HookIngest(h) ==
    /\ phase = "up" /\ hook[h] # HookIdle
    /\ LET e == hook[h].event
           v == hook[h].generation
       IN IF Known(e) THEN UNCHANGED storeVars
          ELSE IF e \notin Supported
          THEN /\ event' = [event EXCEPT ![e].routing = "unsupported", ![e].digest = v]
               /\ UNCHANGED <<queue, active, done>>
          ELSE IF ReloadDefers(hook[h].state) THEN Defer(e, v)
          ELSE Route(e, v) /\ UNCHANGED queue
    /\ hook' = [hook EXCEPT ![h] = HookIdle]
    /\ readers' = readers \ {h}
    /\ HookOnly

-----------------------------------------------------------------------------
(* The drainer (internal/worker/drainer.go).                                 *)

DrainOnly == UNCHANGED <<phase, disk, crashes, reload, hook, exec>>

DrainPeek ==
    /\ CanRead /\ drain = NULL
    /\ state = "draining" /\ queue # <<>>
    /\ drain' = Head(queue)
    /\ readers' = readers \cup {"drainer"}
    /\ UNCHANGED <<managerVars, lockVars, storeVars>>
    /\ DrainOnly

(* Store.FinalizeDeferred: the queue head, if it is still the one peeked.    *)
DrainFinalize ==
    /\ phase = "up" /\ drain # NULL
    /\ IF queue # <<>> /\ Head(queue) = drain
       THEN Route(drain, current) /\ queue' = Tail(queue)
       ELSE UNCHANGED storeVars
    /\ drain' = NULL
    /\ readers' = readers \ {"drainer"}
    /\ UNCHANGED <<managerVars, lockVars>>
    /\ DrainOnly

(* The store is not available; the retry timer tries again.                  *)
DrainFails ==
    /\ phase = "up" /\ drain # NULL
    /\ drain' = NULL
    /\ readers' = readers \ {"drainer"}
    /\ UNCHANGED <<managerVars, lockVars, storeVars>>
    /\ DrainOnly

(* Nothing found: the gate is released and asked for as a writer.            *)
DrainFoundNothing ==
    /\ CanRead /\ drain = NULL
    /\ state = "draining" /\ queue = <<>>
    /\ Ask("drainer")
    /\ UNCHANGED <<managerVars, readers, drain, storeVars>>
    /\ DrainOnly

\* Mutant: the queue that was found empty before is not counted again.
QueueWasEmpty == TRUE
QueueEmpty == queue = <<>>

SetIdleIfQueueEmpty ==
    /\ CanWrite("drainer")
    /\ state' = IF state = "draining" /\ QueueEmpty THEN "idle" ELSE state
    /\ Leave("drainer")
    /\ UNCHANGED <<current, candidate, drain, storeVars>>
    /\ DrainOnly

(* CountQueued fails; the retry timer tries again.                           *)
SetIdleFails ==
    /\ CanWrite("drainer")
    /\ Leave("drainer")
    /\ UNCHANGED <<managerVars, drain, storeVars>>
    /\ DrainOnly

-----------------------------------------------------------------------------
(* Management requests, the workers' commits, retention.                     *)

ManageOnly == UNCHANGED <<phase, disk, crashes, managerVars, lockVars, reload, hook, drain>>

(* Attempts.Execute: refused unless idle; the gate is kept over the lookup.  *)
ExecuteStart(u, e) ==
    /\ CanRead /\ exec[u].pc = "none"
    /\ state = "idle"
    /\ event[e].routing = "routed" /\ active[e] = NULL /\ e \in Deploys[current]
    /\ exec' = [exec EXCEPT ![u] = [pc |-> "apply", event |-> e]]
    /\ readers' = readers \cup {u}
    /\ UNCHANGED storeVars
    /\ ManageOnly

(* A new attempt, or a correction to a deployment that still runs.           *)
ExecuteActivates(u) ==
    /\ phase = "up" /\ exec[u].pc = "apply"
    /\ LET e == exec[u].event IN
       active' = IF event[e].routing = "routed" /\ active[e] = NULL
                 THEN [active EXCEPT ![e] = current] ELSE active
    /\ exec' = [exec EXCEPT ![u] = ExecuteIdle]
    /\ readers' = readers \ {u}
    /\ UNCHANGED <<event, queue, done>>
    /\ ManageOnly

\* Mutant: the retention pass runs before the gate is released.
ExecuteKeepsGate(u) ==
    /\ phase = "up" /\ exec[u].pc = "apply"
    /\ exec' = [exec EXCEPT ![u].pc = "hook"]
    /\ UNCHANGED <<storeVars, readers>>
    /\ ManageOnly
(* A correction to a terminal status, or nothing; then the terminal hook.    *)
ExecuteTerminal(u) ==
    /\ phase = "up" /\ exec[u].pc = "apply"
    /\ exec' = [exec EXCEPT ![u].pc = "hook"]
    /\ readers' = readers \ {u}
    /\ UNCHANGED storeVars
    /\ ManageOnly

\* Mutant: a retention pass that also takes deferred events.
PrunableAny(e) == Known(e) /\ active[e] = NULL
(* Store.Prune takes routed events without an active delivery.               *)
Prunable(e) == event[e].routing \in {"routed", "unsupported"} /\ active[e] = NULL

Delete(E) ==
    /\ event' = [e \in Webhooks |-> IF e \in E THEN NoEvent ELSE event[e]]
    /\ UNCHANGED <<queue, active, done>>

(* Retention.RunOnce, from its own loop or as a worker's terminal hook.      *)
Prune(E) ==
    /\ CanRead
    /\ E # {} /\ \A e \in E : Prunable(e)
    /\ Delete(E)
    /\ UNCHANGED <<readers, exec>>
    /\ ManageOnly

ExecuteHook(u) ==
    /\ CanRead /\ exec[u].pc = "hook"
    /\ \E E \in SUBSET {e \in Webhooks : Prunable(e)} : Delete(E)
    /\ exec' = [exec EXCEPT ![u] = ExecuteIdle]
    /\ readers' = readers \ {u}
    /\ ManageOnly

(* Store.ClearHistory: without the gate, in one transaction.                 *)
ClearHistory ==
    /\ phase = "up" /\ ActiveEvents = {} /\ queue = <<>>
    /\ \E e \in Webhooks : Known(e)
    /\ Delete(Webhooks)
    /\ UNCHANGED <<readers, exec>>
    /\ ManageOnly

(* The dispatcher or the poller commits a terminal status.                   *)
Settle(e) ==
    /\ CanRead /\ active[e] # NULL
    /\ active' = [active EXCEPT ![e] = NULL]
    /\ UNCHANGED <<readers, exec, event, queue, done>>
    /\ ManageOnly

-----------------------------------------------------------------------------
(* Edits, crashes, startup.                                                  *)

Edit ==
    /\ disk < MaxVersion
    /\ disk' = disk + 1
    /\ UNCHANGED <<phase, crashes, managerVars, gateVars, reload, hook, exec, drain, storeVars>>

Crash ==
    /\ phase = "up" /\ crashes < MaxCrashes
    /\ phase' = "down" /\ crashes' = crashes + 1
    /\ lockers' = {} /\ writer' = NULL /\ readers' = {}
    /\ reload' = [q \in Requests |-> ReloadIdle] /\ drain' = NULL
    /\ hook' = [h \in Hooks |-> HookIdle]
    /\ exec' = [u \in Operators |-> ExecuteIdle]
    /\ UNCHANGED <<disk, managerVars, storeVars>>

\* Mutant: startup always begins idle.
InitialIdle(q, act) == "idle"
(* Manager.Initialize: the state that the queue and the deliveries call for. *)
InitialState(q, act) ==
    CASE q = <<>> -> "idle"
      [] q # <<>> /\ act # {} -> "waiting"
      [] q # <<>> /\ act = {} -> "draining"

(* App.Prepare with the configuration on disk: active deliveries that it no  *)
(* longer resolves are ended, the others run on it.                          *)
Boot ==
    /\ phase = "down" /\ disk \notin Invalid
    /\ phase' = "up"
    /\ current' = disk /\ candidate' = NULL
    /\ active' = [e \in Webhooks |-> IF active[e] # NULL /\ e \in Deploys[disk]
                                     THEN disk ELSE NULL]
    /\ state' = InitialState(queue, {e \in ActiveEvents : e \in Deploys[disk]})
    /\ UNCHANGED <<disk, crashes, gateVars, reload, hook, exec, drain, event, queue, done>>

-----------------------------------------------------------------------------
Init ==
    /\ phase = "up" /\ disk = 0 /\ crashes = 0
    /\ state = "idle" /\ current = 0 /\ candidate = NULL
    /\ lockers = {} /\ writer = NULL /\ readers = {}
    /\ reload = [q \in Requests |-> ReloadIdle] /\ drain = NULL
    /\ hook = [h \in Hooks |-> HookIdle]
    /\ exec = [u \in Operators |-> ExecuteIdle]
    /\ event = [e \in Webhooks |-> NoEvent]
    /\ queue = <<>>
    /\ active = [e \in Webhooks |-> NULL]
    /\ done = <<>>

ReloadProceeds(q) == ReloadBegin(q) \/ ReloadLoad(q) \/ ReloadFail(q) \/ ReloadDecide(q)
Reloading == \E q \in Requests : ReloadRequest(q) \/ ReloadProceeds(q)

Manager == ManagerWakes \/ AdvanceWaiting \/ AdvanceFails

Webhook ==
    \E h \in Hooks :
        \/ \E e \in Webhooks : HookBegin(h, e)
        \/ HookRefused(h)
        \/ HookIngest(h)

Drain ==
    \/ DrainPeek \/ DrainFinalize \/ DrainFails \/ DrainFoundNothing
    \/ SetIdleIfQueueEmpty \/ SetIdleFails

Manage ==
    \E u \in Operators :
        \/ \E e \in Webhooks : ExecuteStart(u, e)
        \/ ExecuteActivates(u)
        \/ ExecuteTerminal(u)
        \/ ExecuteHook(u)

Next ==
    \/ \E w \in Writers : Announce(w)
    \/ Reloading \/ Manager \/ Webhook \/ Drain \/ Manage
    \/ \E E \in SUBSET Webhooks : Prune(E)
    \/ ClearHistory
    \/ \E e \in Webhooks : Settle(e)
    \/ Edit \/ Crash \/ Boot

Spec == Init /\ [][Next]_vars

(* Requests end within their timeouts, loops run again when their timers     *)
(* expire, the container restarts, and a writer is served when the readers   *)
(* before it have left: weak fairness. Every writer gets its turn (sync.Mutex *)
(* hands over in order), readers that wait are let in between two writers     *)
(* (sync.RWMutex), the store does not fail forever, and an active delivery    *)
(* ends (Settles of module Delivery): strong fairness.                        *)
Fairness ==
    /\ \A w \in Writers : SF_vars(Announce(w))
    /\ \A q \in Requests : WF_vars(ReloadProceeds(q))
    /\ WF_vars(ManagerWakes) /\ SF_vars(AdvanceWaiting)
    /\ \A h \in Hooks : WF_vars(HookRefused(h) \/ HookIngest(h))
    /\ SF_vars(DrainPeek \/ DrainFoundNothing) /\ SF_vars(DrainFinalize)
    /\ SF_vars(SetIdleIfQueueEmpty)
    /\ \A u \in Operators :
        /\ WF_vars(ExecuteActivates(u) \/ ExecuteTerminal(u))
        /\ SF_vars(ExecuteHook(u))
    /\ SF_vars(\E e \in Webhooks : Settle(e))
    /\ WF_vars(Boot)

FairSpec == Spec /\ Fairness

-----------------------------------------------------------------------------
(* Correctness.                                                              *)

(* State is well formed; in particular "applying" is never seen without the  *)
(* gate, so no webhook has to wait for it.                                   *)
TypeOK ==
    /\ phase \in {"up", "down"}
    /\ disk \in Version /\ current \in Version /\ candidate \in Version \cup {NULL}
    /\ state \in State
    /\ lockers \subseteq Writers /\ writer \in lockers \cup {NULL}
    /\ readers \subseteq Hooks \cup Operators \cup {"drainer"}
    /\ reload \in [Requests -> [pc : {"none", "begin", "load", "decide", "fail"},
                                loaded : Version \cup {NULL}]]
    /\ hook \in [Hooks -> [event : Webhooks \cup {NULL}, state : State \cup {NULL},
                           generation : Version \cup {NULL}]]
    /\ exec \in [Operators -> [pc : {"none", "apply", "hook"}, event : Webhooks \cup {NULL}]]
    /\ drain \in Webhooks \cup {NULL}
    /\ event \in [Webhooks -> EventRow]
    /\ queue \in Seq(Webhooks) /\ done \in Seq(Webhooks)
    /\ active \in [Webhooks -> Version \cup {NULL}]

(* "SetIdleIfQueueEmpty atomically closes the drain/deferred-insert           *)
(* boundary": whenever webhooks are routed directly or a reload may begin,    *)
(* nothing is left in the queue, also after a restart.                        *)
IdleHasNoBacklog ==
    phase = "up" /\ state \in {"idle", "validating"} => queue = <<>>

(* One reload at a time: whoever has passed the lifecycle check finds the    *)
(* state it left when it takes the gate again, although it gave the gate up  *)
(* to load the files, so no candidate replaces another.                      *)
ReloadsExclusive ==
    /\ \A q \in Requests : reload[q].pc \in {"load", "decide", "fail"} => state = "validating"
    /\ \A p, q \in Requests :
          {reload[p].pc, reload[q].pc} \subseteq {"load", "decide", "fail"} => p = q

(* "existing deployments finish on the old generation": no publication        *)
(* happens under an active delivery, whoever made it active and whatever gate *)
(* it held meanwhile.                                                         *)
FinishesOnItsGeneration ==
    phase = "up" => \A e \in ActiveEvents : active[e] = current

(* The queue holds each deferred event once and nothing else: retention,      *)
(* history clearing and duplicate webhooks neither lose nor repeat one.       *)
QueueHoldsDeferred ==
    /\ {queue[i] : i \in DOMAIN queue} = {e \in Webhooks : event[e].routing = "deferred"}
    /\ \A i, j \in DOMAIN queue : queue[i] = queue[j] => i = j

(* "webhooks accepted while a successful reload waits or drains are durably   *)
(* deferred before FIFO routing against the new generation": never against    *)
(* one older than the candidate that was waiting, also when the process       *)
(* restarts in between.                                                       *)
RoutedByTheNew ==
    \A e \in Webhooks : event[e].routing = "routed" /\ event[e].promised # NULL =>
        event[e].digest >= event[e].promised

(* Events are routed once each and in the order of their acceptance.          *)
Abstract == INSTANCE Routing WITH
    Events <- Webhooks,
    log <- done \o queue,
    routed <- Len(done),
    known <- {e \in Webhooks : event[e].routing \in {"deferred", "routed"}}
RoutesInOrder == Abstract!Spec

(* A reload request is answered, also while management requests and their     *)
(* terminal hooks take the gate, and a reload, whatever it waits for, comes to *)
(* an end, and so does a drain.                                               *)
ReloadsEnd ==
    /\ \A q \in Requests : reload[q].pc # "none" ~> reload[q].pc = "none"
    /\ state # "idle" ~> state = "idle"

(* Every deferred event is routed, through restarts and store failures.        *)
DeferredIsRouted ==
    \A e \in Webhooks : event[e].routing = "deferred" ~> event[e].routing # "deferred"
=============================================================================
