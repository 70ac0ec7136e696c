---------------------------- MODULE ReloadProofs ----------------------------
(***************************************************************************)
(* Proofs about Reload for every value of its constants: its inductive      *)
(* invariant, the safety properties that follow from it, and that it        *)
(* implements Routing.                                                      *)
(***************************************************************************)
EXTENDS Reload, SequenceTheorems, TLAPS

(* What the gate protects: whoever holds it for reading finds the state and *)
(* the generation that it found when it took it.                            *)
HookHolds(h) ==
    hook[h] # HookIdle =>
        /\ h \in readers
        /\ hook[h].event \in Webhooks
        /\ hook[h].state = state
        /\ hook[h].generation = current
DrainHolds == drain # NULL => "drainer" \in readers /\ state = "draining"
ExecHolds(u) == exec[u].pc = "apply" => u \in readers /\ exec[u].event \in Webhooks
GateProtects ==
    /\ \A h \in Hooks : HookHolds(h)
    /\ DrainHolds
    /\ \A u \in Operators : ExecHolds(u)

(* A process that is down has no requests.                                  *)
DownIsQuiet ==
    phase = "down" =>
        /\ \A h \in Hooks : hook[h] = HookIdle
        /\ drain = NULL
        /\ \A u \in Operators : exec[u].pc = "none"
        /\ \A q \in Requests : reload[q].pc = "none"

(* Generations only get newer: the current one, the candidate that waits,   *)
(* what a reload has loaded, and what is on disk, in this order.            *)
GenerationsAscend ==
    /\ current <= disk
    /\ candidate # NULL =>
          state = "waiting" /\ current <= candidate /\ candidate <= disk
    /\ \A q \in Requests : reload[q].pc = "decide" =>
          reload[q].loaded # NULL /\ current <= reload[q].loaded /\ reload[q].loaded <= disk

(* What the acceptance of an event promised can still be kept.              *)
PromiseStands(e) ==
    /\ event[e].promised # NULL
    /\ event[e].promised <= disk
    /\ phase = "up" =>
          \/ event[e].promised <= current
          \/ candidate # NULL /\ event[e].promised <= candidate
PromisesStand ==
    \A e \in Webhooks :
        /\ event[e].routing = "none" => event[e] = NoEvent
        /\ event[e].routing = "deferred" => PromiseStands(e)
        /\ event[e].routing = "routed" => event[e].digest # NULL
        /\ event[e].routing = "routed" /\ event[e].promised # NULL =>
              event[e].digest >= event[e].promised

ReloadInv ==
    /\ TypeOK
    /\ GateProtects
    /\ DownIsQuiet
    /\ GenerationsAscend
    /\ ReloadsExclusive
    /\ IdleHasNoBacklog
    /\ FinishesOnItsGeneration
    /\ QueueHoldsDeferred
    /\ PromisesStand

-----------------------------------------------------------------------------
(* The gate.                                                                *)

(* While a writer has its turn nobody reads.                                *)
LEMMA WriterAlone ==
    ASSUME ReloadInv, NEW w, CanWrite(w)
    PROVE  /\ phase = "up"
           /\ \A h \in Hooks : hook[h] = HookIdle
           /\ drain = NULL
           /\ \A u \in Operators : exec[u].pc # "apply"
  BY DEF ReloadInv, CanWrite, GateProtects, HookHolds, DrainHolds, ExecHolds

(* A step that leaves the readers alone, and changes what they have seen    *)
(* only when there are none, keeps what the gate protects.                  *)
LEMMA GateKept ==
    ASSUME ReloadInv, UNCHANGED <<hook, drain, exec, readers>>,
           readers = {} \/ UNCHANGED <<state, current>>
    PROVE  GateProtects'
  BY DEF ReloadInv, GateProtects, HookHolds, DrainHolds, ExecHolds

(* Reloads that have passed the lifecycle check.                            *)
Begun(q) == reload[q].pc \in {"load", "decide", "fail"}

LEMMA ExclusiveMeans ==
    ReloadsExclusive <=>
        /\ \A q \in Requests : Begun(q) => state = "validating"
        /\ \A p, q \in Requests : Begun(p) /\ Begun(q) => p = q
  BY DEF ReloadsExclusive, Begun

LEMMA ExclusiveMeansPrime ==
    ReloadsExclusive' <=>
        /\ \A q \in Requests : Begun(q)' => state' = "validating"
        /\ \A p, q \in Requests : Begun(p)' /\ Begun(q)' => p = q
  BY DEF ReloadsExclusive, Begun

(* Nothing about promises changes when the rows stay and both the current   *)
(* generation and the one that is to come only get newer.                   *)
LEMMA PromisesKept ==
    ASSUME ReloadInv, TypeOK', UNCHANGED <<event, phase>>, disk <= disk',
           current <= current',
           candidate # NULL =>
               \/ candidate <= current'
               \/ candidate' # NULL /\ candidate <= candidate'
    PROVE  PromisesStand'
  <1> SUFFICES ASSUME NEW e \in Webhooks, event[e].routing = "deferred"
               PROVE  PromiseStands(e)'
    BY DEF ReloadInv, PromisesStand
  <1>1. PromiseStands(e)
    BY DEF ReloadInv, PromisesStand
  <1>2. event[e].promised \in Version \cup {NULL}
    BY DEF ReloadInv, TypeOK, EventRow
  <1>3. {disk, disk', current, current'} \subseteq Nat
    BY ReloadAssumption DEF ReloadInv, TypeOK, Version
  <1>4. {candidate, candidate'} \subseteq Nat \cup {NULL}
    BY ReloadAssumption DEF ReloadInv, TypeOK, Version
  <1> QED
    BY <1>1, <1>2, <1>3, <1>4, ReloadAssumption DEF PromiseStands, Version

-----------------------------------------------------------------------------
(* The manager.                                                             *)

(* A request's own step changes its row only.                               *)
ReloadRow == [pc : {"none", "begin", "load", "decide", "fail"}, loaded : Version \cup {NULL}]

LEMMA RowWritten ==
    ASSUME TypeOK, NEW q \in Requests, NEW row \in ReloadRow,
           reload' = [reload EXCEPT ![q] = row]
    PROVE  /\ reload' \in [Requests -> ReloadRow]
           /\ reload'[q] = row
           /\ \A p \in Requests \ {q} : reload'[p] = reload[p]
  BY DEF TypeOK, ReloadRow

LEMMA RowAdvanced ==
    ASSUME TypeOK, NEW q \in Requests, NEW pc \in {"begin", "load", "fail"},
           reload' = [reload EXCEPT ![q].pc = pc]
    PROVE  /\ reload' \in [Requests -> ReloadRow]
           /\ reload'[q].pc = pc
           /\ \A p \in Requests \ {q} : reload'[p] = reload[p]
  BY DEF TypeOK, ReloadRow

LEMMA AnnounceStep ==
    ASSUME ReloadInv, NEW w \in Writers, Announce(w)
    PROVE  ReloadInv'
  <1> USE DEF ReloadInv, Announce, managerVars, storeVars
  <1>1. TypeOK'
    BY DEF TypeOK
  <1>2. GateProtects'
    BY GateKept
  <1> QED
    BY <1>1, <1>2 DEF DownIsQuiet, GenerationsAscend, ReloadsExclusive, IdleHasNoBacklog,
        FinishesOnItsGeneration, ActiveEvents, QueueHoldsDeferred, PromisesStand, PromiseStands

LEMMA RequestStep ==
    ASSUME ReloadInv, NEW q \in Requests, ReloadRequest(q)
    PROVE  ReloadInv'
  <1> USE DEF ReloadInv, ReloadRequest, Ask, ReloadOnly, managerVars, storeVars
  <1>2. /\ reload' \in [Requests -> ReloadRow]
        /\ reload'[q].pc = "begin"
        /\ \A p \in Requests \ {q} : reload'[p] = reload[p]
    BY RowAdvanced
  <1>3. TypeOK'
    BY <1>2 DEF TypeOK, Writers, ReloadRow
  <1>4. GateProtects'
    BY GateKept
  <1>5. \A p \in Requests : reload'[p].pc # "begin" => reload'[p] = reload[p]
    BY <1>2
  <1>6. GenerationsAscend'
    BY <1>5 DEF GenerationsAscend
  <1>7. ReloadsExclusive'
    BY <1>5, ExclusiveMeans, ExclusiveMeansPrime DEF Begun
  <1> QED
    BY <1>3, <1>4, <1>6, <1>7 DEF DownIsQuiet, IdleHasNoBacklog,
        FinishesOnItsGeneration, ActiveEvents, QueueHoldsDeferred, PromisesStand, PromiseStands

LEMMA BeginStep ==
    ASSUME ReloadInv, NEW q \in Requests, ReloadBegin(q)
    PROVE  ReloadInv'
  <1> USE DEF ReloadInv, ReloadBegin, CanWrite, Leave, NoReloadUnderWay, ReloadOnly, managerVars, storeVars
  <1>1. ReloadIdle \in ReloadRow
    BY DEF TypeOK, ReloadRow, ReloadIdle
  <1>2. /\ reload' \in [Requests -> ReloadRow]
        /\ \A p \in Requests \ {q} : reload'[p] = reload[p]
    BY <1>1, RowWritten, RowAdvanced
  <1>3. \/ reload'[q].pc = "load" /\ state = "idle" /\ state' = "validating"
        \/ reload'[q].pc = "none" /\ UNCHANGED state
    BY <1>1, RowWritten, RowAdvanced DEF ReloadIdle
  <1>4. TypeOK'
    BY <1>2 DEF TypeOK, Writers, State, ReloadRow
  <1>5. GateProtects'
    BY GateKept
  <1>6. GenerationsAscend'
    BY <1>2, <1>3 DEF GenerationsAscend
  <1>7. ReloadsExclusive'
    BY <1>2, <1>3, ExclusiveMeans, ExclusiveMeansPrime DEF Begun
  <1>8. PromisesStand'
    <2>1. disk <= disk' /\ current <= current'
      BY ReloadAssumption DEF TypeOK, Version
    <2>2. candidate # NULL => candidate' # NULL /\ candidate <= candidate'
      BY ReloadAssumption DEF TypeOK, Version, GenerationsAscend
    <2> QED
      BY <1>4, <2>1, <2>2, PromisesKept
  <1> QED
    BY <1>4, <1>5, <1>6, <1>7, <1>8 DEF DownIsQuiet, IdleHasNoBacklog,
        FinishesOnItsGeneration, ActiveEvents, QueueHoldsDeferred

LEMMA LoadStep ==
    ASSUME ReloadInv, NEW q \in Requests, ReloadLoad(q)
    PROVE  ReloadInv'
  <1> USE DEF ReloadInv, ReloadLoad, Ask, ReloadOnly, managerVars, storeVars
  <1>1. [pc |-> "decide", loaded |-> disk] \in ReloadRow
    BY DEF TypeOK, ReloadRow
  <1>2. /\ reload' \in [Requests -> ReloadRow]
        /\ \A p \in Requests \ {q} : reload'[p] = reload[p]
    BY <1>1, RowWritten, RowAdvanced
  <1>3. \/ reload'[q].pc = "decide" /\ reload'[q].loaded = disk
        \/ reload'[q].pc = "fail"
    BY <1>1, RowWritten, RowAdvanced
  <1>4. TypeOK'
    BY <1>2 DEF TypeOK, Writers, ReloadRow
  <1>5. GateProtects'
    BY GateKept
  <1>6. GenerationsAscend'
    <2>1. disk \in Nat /\ disk # NULL /\ current <= disk
      BY ReloadAssumption DEF TypeOK, Version, GenerationsAscend
    <2>2. \A p \in Requests : reload'[p].pc = "decide" =>
              \/ reload'[p] = reload[p]
              \/ reload'[p].loaded = disk
      BY <1>2, <1>3
    <2> QED
      BY <2>1, <2>2 DEF GenerationsAscend
  <1>7. ReloadsExclusive'
    BY <1>2, <1>3, ExclusiveMeans, ExclusiveMeansPrime DEF Begun
  <1> QED
    BY <1>4, <1>5, <1>6, <1>7 DEF DownIsQuiet, IdleHasNoBacklog,
        FinishesOnItsGeneration, ActiveEvents, QueueHoldsDeferred, PromisesStand, PromiseStands

(* A reload that ends leaves no other one under way.                        *)
LEMMA EndedReload ==
    ASSUME ReloadInv, NEW q \in Requests, Begun(q), reload' = [reload EXCEPT ![q] = ReloadIdle]
    PROVE  /\ state = "validating" /\ candidate = NULL
           /\ \A p \in Requests : ~Begun(p)'
           /\ ReloadsExclusive'
           /\ \A p \in Requests : reload'[p].pc # "decide"
  <1>1. \A p \in Requests \ {q} : reload'[p] = reload[p] /\ ~Begun(p)
    BY ExclusiveMeans DEF ReloadInv, TypeOK
  <1>2. reload'[q].pc = "none"
    BY DEF ReloadInv, TypeOK, ReloadIdle
  <1>3. \A p \in Requests : ~Begun(p)'
    BY <1>1, <1>2 DEF Begun
  <1>4. state = "validating"
    BY ExclusiveMeans DEF ReloadInv
  <1> QED
    BY <1>3, <1>4, ExclusiveMeansPrime DEF Begun, ReloadInv, GenerationsAscend

LEMMA FailStep ==
    ASSUME ReloadInv, NEW q \in Requests, ReloadFail(q)
    PROVE  ReloadInv'
  <1> USE DEF ReloadInv, ReloadFail, CanWrite, Leave, ReloadOnly, managerVars, storeVars
  <1>1. /\ state = "validating" /\ candidate = NULL /\ ReloadsExclusive'
        /\ \A p \in Requests : reload'[p].pc # "decide"
    BY EndedReload DEF Begun
  <1>2. TypeOK'
    BY RowWritten DEF TypeOK, Writers, State, ReloadIdle, ReloadRow
  <1>3. GateProtects'
    BY GateKept
  <1>4. GenerationsAscend'
    BY <1>1 DEF GenerationsAscend
  <1>5. IdleHasNoBacklog'
    BY <1>1 DEF IdleHasNoBacklog
  <1> QED
    BY <1>1, <1>2, <1>3, <1>4, <1>5 DEF DownIsQuiet,
        FinishesOnItsGeneration, ActiveEvents, QueueHoldsDeferred, PromisesStand, PromiseStands

LEMMA DecideStep ==
    ASSUME ReloadInv, NEW q \in Requests, ReloadDecide(q)
    PROVE  ReloadInv'
  <1> USE DEF ReloadInv, ReloadDecide, CanWrite, Leave, NothingActive, Publish, ReloadOnly, managerVars, storeVars
  <1>1. /\ state = "validating" /\ candidate = NULL /\ ReloadsExclusive'
        /\ \A p \in Requests : reload'[p].pc # "decide"
    BY EndedReload DEF Begun
  <1>2. reload[q].loaded \in Version /\ current <= reload[q].loaded /\ reload[q].loaded <= disk
    BY DEF TypeOK, GenerationsAscend
  <1>3. TypeOK'
    BY <1>2, RowWritten DEF TypeOK, Writers, State, ReloadIdle, ReloadRow
  <1>4. GateProtects'
    BY GateKept
  <1>5. GenerationsAscend'
    BY <1>1, <1>2, ReloadAssumption DEF GenerationsAscend, TypeOK, Version
  <1>6. FinishesOnItsGeneration'
    BY DEF FinishesOnItsGeneration, ActiveEvents
  <1>7. PromisesStand'
    <2>1. disk <= disk' /\ current <= current'
      BY <1>2, ReloadAssumption DEF TypeOK, Version
    <2> QED
      BY <1>1, <1>3, <2>1, PromisesKept
  <1> QED
    BY <1>1, <1>3, <1>4, <1>5, <1>6, <1>7 DEF DownIsQuiet, IdleHasNoBacklog, QueueHoldsDeferred

LEMMA WakesStep ==
    ASSUME ReloadInv, ManagerWakes
    PROVE  ReloadInv'
  <1> USE DEF ReloadInv, ManagerWakes, Ask, ReloadOnly, managerVars, storeVars
  <1>1. TypeOK'
    BY DEF TypeOK, Writers
  <1>2. GateProtects'
    BY GateKept
  <1> QED
    BY <1>1, <1>2 DEF DownIsQuiet, GenerationsAscend, ReloadsExclusive, IdleHasNoBacklog,
        FinishesOnItsGeneration, ActiveEvents, QueueHoldsDeferred, PromisesStand, PromiseStands

LEMMA AdvanceStep ==
    ASSUME ReloadInv, AdvanceWaiting \/ AdvanceFails
    PROVE  ReloadInv'
  <1> USE DEF ReloadInv, AdvanceWaiting, AdvanceFails, CanWrite, Leave, NothingActive, PublishOrDrain,
          Publish, ReloadOnly, managerVars, storeVars
  <1>1. TypeOK'
    BY DEF TypeOK, Writers, State
  <1>2. GateProtects'
    BY GateKept
  <1>3. GenerationsAscend'
    <2>1. CASE UNCHANGED managerVars
      BY <2>1 DEF GenerationsAscend
    <2>2. CASE state = "waiting"
      <3>1. \A q \in Requests : reload[q].pc # "decide"
        BY <2>2, ExclusiveMeans DEF Begun
      <3> QED
        BY <2>2, <3>1, ReloadAssumption DEF GenerationsAscend, TypeOK, Version
    <2> QED
      BY <2>1, <2>2
  <1>4. ReloadsExclusive'
    BY DEF ReloadsExclusive
  <1>5. FinishesOnItsGeneration'
    BY DEF FinishesOnItsGeneration, ActiveEvents
  <1>6. PromisesStand'
    <2>1. disk <= disk' /\ current <= current'
      BY ReloadAssumption DEF TypeOK, Version, GenerationsAscend
    <2>2. candidate # NULL => candidate <= current' \/ (candidate' # NULL /\ candidate <= candidate')
      BY ReloadAssumption DEF TypeOK, Version, GenerationsAscend
    <2> QED
      BY <1>1, <2>1, <2>2, PromisesKept
  <1> QED
    BY <1>1, <1>2, <1>3, <1>4, <1>5, <1>6 DEF DownIsQuiet, IdleHasNoBacklog, QueueHoldsDeferred

-----------------------------------------------------------------------------
(* The store.                                                               *)

(* The queue is the deferred events, once each, in positions.               *)
LEMMA QueueMeans ==
    ASSUME queue \in Seq(Webhooks)
    PROVE  QueueHoldsDeferred <=>
             /\ \A i \in 1..Len(queue) : event[queue[i]].routing = "deferred"
             /\ \A e \in Webhooks : event[e].routing = "deferred" =>
                    \E i \in 1..Len(queue) : queue[i] = e
             /\ \A i, j \in 1..Len(queue) : queue[i] = queue[j] => i = j
  <1>1. DOMAIN queue = 1..Len(queue) /\ \A i \in 1..Len(queue) : queue[i] \in Webhooks
    OBVIOUS
  <1> QED
    BY <1>1 DEF QueueHoldsDeferred

LEMMA QueueMeansPrime ==
    ASSUME queue' \in Seq(Webhooks)
    PROVE  QueueHoldsDeferred' <=>
             /\ \A i \in 1..Len(queue') : event'[queue'[i]].routing = "deferred"
             /\ \A e \in Webhooks : event'[e].routing = "deferred" =>
                    \E i \in 1..Len(queue') : queue'[i] = e
             /\ \A i, j \in 1..Len(queue') : queue'[i] = queue'[j] => i = j
  <1>1. DOMAIN queue' = 1..Len(queue') /\ \A i \in 1..Len(queue') : queue'[i] \in Webhooks
    OBVIOUS
  <1> QED
    BY <1>1 DEF QueueHoldsDeferred

LEMMA QueueKept ==
    ASSUME ReloadInv, UNCHANGED queue,
           \A e \in Webhooks : event'[e].routing = "deferred" <=> event[e].routing = "deferred"
    PROVE  QueueHoldsDeferred'
  <1>1. queue \in Seq(Webhooks) /\ queue' \in Seq(Webhooks)
    BY DEF ReloadInv, TypeOK
  <1>2. \A i \in 1..Len(queue) : queue[i] \in Webhooks
    BY <1>1
  <1> QED
    BY <1>1, <1>2, QueueMeans, QueueMeansPrime DEF ReloadInv

(* The rows that Route writes.                                              *)
LEMMA RouteEffect ==
    ASSUME TypeOK, NEW e \in Webhooks, NEW v \in Version, Route(e, v)
    PROVE  /\ event' \in [Webhooks -> EventRow]
           /\ active' \in [Webhooks -> Version \cup {NULL}]
           /\ done' \in Seq(Webhooks)
           /\ event'[e].routing = "routed" /\ event'[e].digest = v
           /\ event'[e].promised = event[e].promised
           /\ \A f \in Webhooks \ {e} : event'[f] = event[f] /\ active'[f] = active[f]
           /\ active'[e] \in {v, NULL}
  <1>1. /\ event' \in [Webhooks -> EventRow]
        /\ event'[e].routing = "routed" /\ event'[e].digest = v
        /\ event'[e].promised = event[e].promised
        /\ \A f \in Webhooks \ {e} : event'[f] = event[f]
    BY DEF Route, TypeOK, EventRow
  <1>2. /\ active' \in [Webhooks -> Version \cup {NULL}]
        /\ \A f \in Webhooks \ {e} : active'[f] = active[f]
        /\ active'[e] \in {v, NULL}
    BY DEF Route, TypeOK
  <1>3. done' \in Seq(Webhooks)
    BY DEF Route, TypeOK
  <1> QED
    BY <1>1, <1>2, <1>3

(* Routing an event with the current generation keeps deliveries on it.     *)
LEMMA RouteFinishes ==
    ASSUME ReloadInv, NEW e \in Webhooks, Route(e, current), UNCHANGED <<phase, current>>
    PROVE  FinishesOnItsGeneration'
  <1>1. current \in Version
    BY DEF ReloadInv, TypeOK
  <1>2. /\ \A f \in Webhooks \ {e} : active'[f] = active[f]
        /\ active'[e] \in {current, NULL}
    BY <1>1, RouteEffect DEF ReloadInv
  <1> QED
    BY <1>2 DEF ReloadInv, FinishesOnItsGeneration, ActiveEvents

-----------------------------------------------------------------------------
(* Webhooks.                                                                *)

LEMMA HookBeginStep ==
    ASSUME ReloadInv, NEW h \in Hooks, NEW e \in Webhooks, HookBegin(h, e)
    PROVE  ReloadInv'
  <1> USE DEF ReloadInv, HookBegin, CanRead, HookOnly, managerVars, lockVars, storeVars
  <1>1. /\ hook' \in [Hooks -> [event : Webhooks \cup {NULL}, state : State \cup {NULL},
                                generation : Version \cup {NULL}]]
        /\ hook'[h] = [event |-> e, state |-> state, generation |-> current]
        /\ \A g \in Hooks \ {h} : hook'[g] = hook[g]
    BY DEF TypeOK
  <1>2. TypeOK'
    BY <1>1 DEF TypeOK
  <1>3. GateProtects'
    BY <1>1 DEF GateProtects, HookHolds, DrainHolds, ExecHolds
  <1> QED
    BY <1>2, <1>3 DEF DownIsQuiet, GenerationsAscend, ReloadsExclusive, IdleHasNoBacklog,
        FinishesOnItsGeneration, ActiveEvents, QueueHoldsDeferred, PromisesStand, PromiseStands

(* A webhook request that ends gives its gate back and nobody else's.       *)
LEMMA HookEnds ==
    ASSUME ReloadInv, NEW h \in Hooks, hook' = [hook EXCEPT ![h] = HookIdle],
           readers' = readers \ {h}, UNCHANGED <<state, current, drain, exec>>
    PROVE  /\ GateProtects'
           /\ hook' \in [Hooks -> [event : Webhooks \cup {NULL}, state : State \cup {NULL},
                                   generation : Version \cup {NULL}]]
           /\ \A g \in Hooks : hook[g] = HookIdle => hook'[g] = HookIdle
  <1>1. /\ hook' \in [Hooks -> [event : Webhooks \cup {NULL}, state : State \cup {NULL},
                                generation : Version \cup {NULL}]]
        /\ hook'[h] = HookIdle
        /\ \A g \in Hooks \ {h} : hook'[g] = hook[g]
    BY DEF ReloadInv, TypeOK, HookIdle
  <1>2. "drainer" # h /\ \A u \in Operators : u # h
    BY ReloadAssumption
  <1> QED
    BY <1>1, <1>2 DEF ReloadInv, GateProtects, HookHolds, DrainHolds, ExecHolds

LEMMA HookRefusedStep ==
    ASSUME ReloadInv, NEW h \in Hooks, HookRefused(h)
    PROVE  ReloadInv'
  <1> USE DEF ReloadInv, HookRefused, HookOnly, managerVars, lockVars, storeVars
  <1>1. GateProtects' /\ TypeOK'
    BY HookEnds DEF TypeOK
  <1> QED
    BY <1>1 DEF DownIsQuiet, GenerationsAscend, ReloadsExclusive, IdleHasNoBacklog,
        FinishesOnItsGeneration, ActiveEvents, QueueHoldsDeferred, PromisesStand, PromiseStands

LEMMA HookDefers ==
    ASSUME ReloadInv, NEW e \in Webhooks, ~Known(e), phase = "up",
           state \in {"waiting", "draining"}, Defer(e, current),
           UNCHANGED <<phase, disk, state, current, candidate>>
    PROVE  /\ event' \in [Webhooks -> EventRow]
           /\ queue' \in Seq(Webhooks)
           /\ IdleHasNoBacklog' /\ FinishesOnItsGeneration'
           /\ QueueHoldsDeferred' /\ PromisesStand'
  <1>1. current \in Version /\ candidate \in Version \cup {NULL} /\ disk \in Version
        /\ queue \in Seq(Webhooks) /\ event \in [Webhooks -> EventRow]
    BY DEF ReloadInv, TypeOK
  <1>2. /\ event'[e].routing = "deferred"
        /\ event'[e].promised = IF candidate # NULL THEN candidate ELSE current
        /\ \A f \in Webhooks \ {e} : event'[f] = event[f]
        /\ event' \in [Webhooks -> EventRow]
    BY <1>1 DEF Defer, EventRow
  <1>3. queue' = Append(queue, e) /\ queue' \in Seq(Webhooks)
    BY <1>1 DEF Defer
  <1>4. event[e].routing = "none"
    BY DEF Known
  <1>5. QueueHoldsDeferred'
    <2>1. /\ Len(queue') = Len(queue) + 1 /\ queue'[Len(queue) + 1] = e
          /\ \A i \in 1..Len(queue) : queue'[i] = queue[i] /\ queue[i] # e /\ queue[i] \in Webhooks
      BY <1>1, <1>3, <1>4, QueueMeans DEF ReloadInv
    <2>2. Len(queue) \in Nat
      BY <1>1
    <2>3. \A i \in 1..Len(queue') : event'[queue'[i]].routing = "deferred"
      BY <1>1, <1>2, <2>1, <2>2, QueueMeans DEF ReloadInv
    <2>4. ASSUME NEW f \in Webhooks, event'[f].routing = "deferred"
          PROVE  \E i \in 1..Len(queue') : queue'[i] = f
      <3>1. CASE f = e
        BY <3>1, <2>1, <2>2
      <3>2. CASE f # e
        <4>1. PICK i \in 1..Len(queue) : queue[i] = f
          BY <1>1, <1>2, <2>4, <3>2, QueueMeans DEF ReloadInv
        <4>2. i \in 1..Len(queue') /\ queue'[i] = f
          BY <4>1, <2>1, <2>2
        <4> QED
          BY <4>2
      <3> QED
        BY <3>1, <3>2
    <2>5. ASSUME NEW i \in 1..Len(queue'), NEW j \in 1..Len(queue'), queue'[i] = queue'[j]
          PROVE  i = j
      BY <1>1, <2>1, <2>2, <2>5, QueueMeans DEF ReloadInv
    <2> QED
      BY <1>3, <2>3, <2>4, <2>5, QueueMeansPrime
  <1>6. PromisesStand'
    <2>1. PromiseStands(e)'
      <3>1. /\ current \in Nat /\ disk \in Nat /\ current # NULL /\ current <= disk
            /\ candidate # NULL => candidate \in Nat /\ candidate <= disk
        BY <1>1, ReloadAssumption DEF Version, ReloadInv, GenerationsAscend
      <3> QED
        BY <1>2, <3>1 DEF PromiseStands
    <2>2. \A f \in Webhooks \ {e} : PromiseStands(f)' <=> PromiseStands(f)
      BY <1>2 DEF PromiseStands
    <2> QED
      BY <1>2, <2>1, <2>2 DEF ReloadInv, PromisesStand
  <1> QED
    BY <1>2, <1>3, <1>5, <1>6 DEF Defer, ReloadInv, IdleHasNoBacklog, FinishesOnItsGeneration,
        ActiveEvents

LEMMA HookRoutes ==
    ASSUME ReloadInv, NEW e \in Webhooks, ~Known(e), Route(e, current),
           UNCHANGED <<phase, disk, state, current, candidate, queue>>
    PROVE  /\ event' \in [Webhooks -> EventRow]
           /\ active' \in [Webhooks -> Version \cup {NULL}]
           /\ done' \in Seq(Webhooks)
           /\ FinishesOnItsGeneration' /\ QueueHoldsDeferred' /\ PromisesStand'
  <1>1. current \in Version
    BY DEF ReloadInv, TypeOK
  <1>2. /\ event' \in [Webhooks -> EventRow]
        /\ active' \in [Webhooks -> Version \cup {NULL}]
        /\ done' \in Seq(Webhooks)
        /\ event'[e].routing = "routed" /\ event'[e].digest = current
        /\ event'[e].promised = event[e].promised
        /\ \A f \in Webhooks \ {e} : event'[f] = event[f]
    BY <1>1, RouteEffect DEF ReloadInv
  <1>3. event[e] = NoEvent
    BY DEF ReloadInv, PromisesStand, Known
  <1>4. QueueHoldsDeferred'
    BY <1>2, <1>3, QueueKept DEF NoEvent
  <1>5. current # NULL
    BY <1>1, ReloadAssumption DEF Version
  <1>6. PromisesStand'
    BY <1>2, <1>3, <1>5 DEF ReloadInv, PromisesStand, PromiseStands, NoEvent
  <1> QED
    BY <1>2, <1>4, <1>6, RouteFinishes

LEMMA HookIngestStep ==
    ASSUME ReloadInv, NEW h \in Hooks, HookIngest(h)
    PROVE  ReloadInv'
  <1> DEFINE e == hook[h].event
  <1>1. /\ phase = "up" /\ e \in Webhooks
        /\ hook[h].state = state /\ hook[h].generation = current
    BY DEF ReloadInv, HookIngest, GateProtects, HookHolds
  <1>2. UNCHANGED <<phase, disk, state, current, candidate, lockers, writer, reload, exec, drain>>
    BY DEF HookIngest, HookOnly, managerVars, lockVars
  <1>3. /\ GateProtects'
        /\ hook' \in [Hooks -> [event : Webhooks \cup {NULL}, state : State \cup {NULL},
                                generation : Version \cup {NULL}]]
        /\ \A g \in Hooks : hook[g] = HookIdle => hook'[g] = HookIdle
    BY <1>2, HookEnds DEF HookIngest
  <1>4. /\ event' \in [Webhooks -> EventRow]
        /\ active' \in [Webhooks -> Version \cup {NULL}]
        /\ queue' \in Seq(Webhooks) /\ done' \in Seq(Webhooks)
        /\ IdleHasNoBacklog' /\ FinishesOnItsGeneration'
        /\ QueueHoldsDeferred' /\ PromisesStand'
    <2>1. CASE Known(e)
      BY <1>2, <2>1 DEF HookIngest, storeVars, ReloadInv, TypeOK, IdleHasNoBacklog,
          FinishesOnItsGeneration, ActiveEvents, QueueHoldsDeferred, PromisesStand, PromiseStands
    <2>2. CASE ~Known(e) /\ e \notin Supported
      <3>1. event' = [event EXCEPT ![e].routing = "unsupported", ![e].digest = current]
            /\ UNCHANGED <<queue, active, done>>
        BY <1>1, <2>2 DEF HookIngest
      <3>2. /\ event' \in [Webhooks -> EventRow]
            /\ event'[e].routing = "unsupported"
            /\ \A f \in Webhooks \ {e} : event'[f] = event[f]
        <4> HIDE DEF e
        <4>1. event \in [Webhooks -> EventRow] /\ current \in Version /\ e \in Webhooks
          BY <1>1 DEF ReloadInv, TypeOK
        <4> QED
          BY <4>1, <3>1 DEF EventRow
      <3>3. event[e].routing = "none"
        BY <2>2 DEF Known
      <3>4. QueueHoldsDeferred'
        BY <3>1, <3>2, <3>3, QueueKept
      <3> QED
        BY <1>2, <3>1, <3>2, <3>4 DEF ReloadInv, TypeOK, IdleHasNoBacklog,
          FinishesOnItsGeneration, ActiveEvents, PromisesStand, PromiseStands
    <2>3. CASE ~Known(e) /\ e \in Supported /\ state \in {"waiting", "draining"}
      <3>1. Defer(e, current)
        BY <1>1, <2>3 DEF HookIngest, ReloadDefers
      <3>2. UNCHANGED <<active, done>>
        BY <3>1 DEF Defer
      <3> QED
        BY <1>1, <1>2, <2>3, <3>1, <3>2, HookDefers DEF ReloadInv, TypeOK
    <2>4. CASE ~Known(e) /\ e \in Supported /\ state \notin {"waiting", "draining"}
      <3>1. Route(e, current) /\ UNCHANGED queue
        BY <1>1, <2>4 DEF HookIngest, ReloadDefers
      <3> QED
        BY <1>1, <1>2, <2>4, <3>1, HookRoutes DEF ReloadInv, TypeOK, IdleHasNoBacklog
    <2> QED
      BY <2>1, <2>2, <2>3, <2>4
  <1>5. TypeOK'
    BY <1>2, <1>3, <1>4 DEF ReloadInv, TypeOK, HookIngest
  <1> QED
    BY <1>1, <1>2, <1>3, <1>4, <1>5 DEF ReloadInv, DownIsQuiet, GenerationsAscend, ReloadsExclusive

-----------------------------------------------------------------------------
(* The drainer.                                                             *)

LEMMA DrainPeekStep ==
    ASSUME ReloadInv, DrainPeek
    PROVE  ReloadInv'
  <1> USE DEF ReloadInv, DrainPeek, CanRead, DrainOnly, managerVars, lockVars, storeVars
  <1>1. Head(queue) \in Webhooks
    BY DEF TypeOK
  <1>2. TypeOK'
    BY <1>1 DEF TypeOK
  <1>3. GateProtects'
    BY DEF GateProtects, HookHolds, DrainHolds, ExecHolds
  <1> QED
    BY <1>2, <1>3 DEF DownIsQuiet, GenerationsAscend, ReloadsExclusive, IdleHasNoBacklog,
        FinishesOnItsGeneration, ActiveEvents, QueueHoldsDeferred, PromisesStand, PromiseStands

(* The drainer gives its gate back and nobody else's.                       *)
LEMMA DrainEnds ==
    ASSUME ReloadInv, drain' = NULL, readers' = readers \ {"drainer"},
           UNCHANGED <<state, current, hook, exec>>
    PROVE  GateProtects'
  BY ReloadAssumption DEF ReloadInv, GateProtects, HookHolds, DrainHolds, ExecHolds

LEMMA DrainFinalizeStep ==
    ASSUME ReloadInv, DrainFinalize
    PROVE  ReloadInv'
  <1>1. /\ phase = "up" /\ drain \in Webhooks
        /\ state = "draining" /\ candidate = NULL /\ current \in Version
    BY DEF ReloadInv, TypeOK, DrainFinalize, GateProtects, DrainHolds, GenerationsAscend
  <1>2. UNCHANGED <<phase, disk, state, current, candidate, lockers, writer, reload, hook, exec>>
    BY DEF DrainFinalize, DrainOnly, managerVars, lockVars
  <1>3. GateProtects'
    BY <1>2, DrainEnds DEF DrainFinalize
  <1>4. /\ event' \in [Webhooks -> EventRow]
        /\ active' \in [Webhooks -> Version \cup {NULL}]
        /\ queue' \in Seq(Webhooks) /\ done' \in Seq(Webhooks)
        /\ FinishesOnItsGeneration' /\ QueueHoldsDeferred' /\ PromisesStand'
    <2>1. CASE ~(queue # <<>> /\ Head(queue) = drain)
      BY <1>2, <2>1 DEF DrainFinalize, storeVars, ReloadInv, TypeOK,
          FinishesOnItsGeneration, ActiveEvents, QueueHoldsDeferred, PromisesStand, PromiseStands
    <2>2. CASE queue # <<>> /\ Head(queue) = drain
      <3>1. Route(drain, current) /\ queue' = Tail(queue)
        BY <2>2 DEF DrainFinalize
      <3>2. /\ event' \in [Webhooks -> EventRow]
            /\ active' \in [Webhooks -> Version \cup {NULL}]
            /\ done' \in Seq(Webhooks)
            /\ event'[drain].routing = "routed" /\ event'[drain].digest = current
            /\ event'[drain].promised = event[drain].promised
            /\ \A f \in Webhooks \ {drain} : event'[f] = event[f]
        BY <1>1, <3>1, RouteEffect DEF ReloadInv
      <3>3. /\ queue \in Seq(Webhooks) /\ queue' \in Seq(Webhooks)
            /\ Len(queue) \in Nat \ {0} /\ Len(queue') = Len(queue) - 1
            /\ queue[1] = drain
            /\ \A i \in 1..Len(queue') : queue'[i] = queue[i + 1]
        BY <2>2, <3>1 DEF ReloadInv, TypeOK
      <3>4. /\ event[drain].routing = "deferred"
            /\ \A i \in 1..Len(queue') :
                   /\ queue'[i] # drain /\ queue'[i] \in Webhooks
                   /\ event[queue'[i]].routing = "deferred"
        <4>1. 1 \in 1..Len(queue) /\ \A i \in 1..Len(queue') : i + 1 \in 1..Len(queue) /\ i + 1 # 1
          BY <3>3
        <4>2. \A i \in 1..Len(queue) : queue[i] \in Webhooks /\ event[queue[i]].routing = "deferred"
          BY <3>3, QueueMeans DEF ReloadInv
        <4>3. \A i \in 1..Len(queue') : queue[i + 1] # queue[1]
          BY <3>3, <4>1, QueueMeans DEF ReloadInv
        <4> QED
          BY <3>3, <4>1, <4>2, <4>3
      <3>5. QueueHoldsDeferred'
        <4>1. \A i \in 1..Len(queue') : event'[queue'[i]].routing = "deferred"
          BY <3>2, <3>4
        <4>2. ASSUME NEW f \in Webhooks, event'[f].routing = "deferred"
              PROVE  \E i \in 1..Len(queue') : queue'[i] = f
          <5>1. f # drain /\ event[f].routing = "deferred"
            BY <3>2, <4>2
          <5>2. PICK i \in 1..Len(queue) : queue[i] = f
            BY <5>1, <3>3, QueueMeans DEF ReloadInv
          <5>3. i # 1 /\ i - 1 \in 1..Len(queue') /\ (i - 1) + 1 = i
            BY <5>1, <5>2, <3>3
          <5>4. queue'[i - 1] = f
            BY <5>2, <5>3, <3>3
          <5> QED
            BY <5>3, <5>4
        <4>3. ASSUME NEW i \in 1..Len(queue'), NEW j \in 1..Len(queue'), queue'[i] = queue'[j]
              PROVE  i = j
          <5>1. i + 1 \in 1..Len(queue) /\ j + 1 \in 1..Len(queue) /\ queue[i + 1] = queue[j + 1]
            BY <4>3, <3>3
          <5>2. i + 1 = j + 1
            BY <5>1, <3>3, QueueMeans DEF ReloadInv
          <5> QED
            BY <5>2
        <4> QED
          BY <3>3, <4>1, <4>2, <4>3, QueueMeansPrime
      <3>6. event'[drain].digest # NULL /\ event'[drain].digest >= event'[drain].promised
        <4>1. PromiseStands(drain)
          BY <1>1, <3>4 DEF ReloadInv, PromisesStand
        <4>2. event[drain].promised \in Version
          BY <1>1, <4>1 DEF ReloadInv, TypeOK, EventRow, PromiseStands
        <4> QED
          BY <1>1, <3>2, <4>1, <4>2, ReloadAssumption DEF PromiseStands, Version
      <3>7. PromisesStand'
        <4>1. \A f \in Webhooks \ {drain} : PromiseStands(f)' <=> PromiseStands(f)
          BY <1>2, <3>2 DEF PromiseStands
        <4> QED
          BY <3>2, <3>6, <4>1 DEF ReloadInv, PromisesStand
      <3>8. FinishesOnItsGeneration'
        BY <1>1, <1>2, <3>1, RouteFinishes
      <3> QED
        BY <3>2, <3>3, <3>5, <3>7, <3>8
    <2> QED
      BY <2>1, <2>2
  <1>5. TypeOK'
    BY <1>2, <1>4 DEF ReloadInv, TypeOK, DrainFinalize
  <1>6. IdleHasNoBacklog'
    BY <1>1, <1>2 DEF IdleHasNoBacklog
  <1> QED
    BY <1>1, <1>2, <1>3, <1>4, <1>5, <1>6
       DEF ReloadInv, DownIsQuiet, GenerationsAscend, ReloadsExclusive

LEMMA DrainFailsStep ==
    ASSUME ReloadInv, DrainFails
    PROVE  ReloadInv'
  <1> USE DEF ReloadInv, DrainFails, DrainOnly, managerVars, lockVars, storeVars
  <1>1. TypeOK' /\ GateProtects'
    BY DrainEnds DEF TypeOK
  <1> QED
    BY <1>1 DEF DownIsQuiet, GenerationsAscend, ReloadsExclusive, IdleHasNoBacklog,
        FinishesOnItsGeneration, ActiveEvents, QueueHoldsDeferred, PromisesStand, PromiseStands

LEMMA DrainFoundNothingStep ==
    ASSUME ReloadInv, DrainFoundNothing
    PROVE  ReloadInv'
  <1> USE DEF ReloadInv, DrainFoundNothing, CanRead, Ask, DrainOnly, managerVars, storeVars
  <1>1. TypeOK'
    BY DEF TypeOK, Writers
  <1>2. GateProtects'
    BY GateKept
  <1> QED
    BY <1>1, <1>2 DEF DownIsQuiet, GenerationsAscend, ReloadsExclusive, IdleHasNoBacklog,
        FinishesOnItsGeneration, ActiveEvents, QueueHoldsDeferred, PromisesStand, PromiseStands

LEMMA SetIdleStep ==
    ASSUME ReloadInv, SetIdleIfQueueEmpty \/ SetIdleFails
    PROVE  ReloadInv'
  <1> USE DEF ReloadInv, SetIdleIfQueueEmpty, SetIdleFails, CanWrite, Leave, QueueEmpty, DrainOnly,
          managerVars, storeVars
  <1>1. TypeOK'
    BY DEF TypeOK, Writers, State
  <1>2. GateProtects'
    BY GateKept
  <1>3. GenerationsAscend'
    BY DEF GenerationsAscend
  <1>4. ReloadsExclusive'
    BY DEF ReloadsExclusive
  <1>5. IdleHasNoBacklog'
    BY DEF IdleHasNoBacklog
  <1> QED
    BY <1>1, <1>2, <1>3, <1>4, <1>5 DEF DownIsQuiet,
        FinishesOnItsGeneration, ActiveEvents, QueueHoldsDeferred, PromisesStand, PromiseStands

-----------------------------------------------------------------------------
(* Management requests, retention and the workers' commits.                 *)

LEMMA ExecuteStartStep ==
    ASSUME ReloadInv, NEW u \in Operators, NEW e \in Webhooks, ExecuteStart(u, e)
    PROVE  ReloadInv'
  <1> USE DEF ReloadInv, ExecuteStart, CanRead, ManageOnly, managerVars, lockVars, storeVars
  <1>1. TypeOK'
    BY DEF TypeOK
  <1>2. GateProtects'
    BY DEF GateProtects, HookHolds, DrainHolds, ExecHolds, TypeOK
  <1> QED
    BY <1>1, <1>2 DEF DownIsQuiet, GenerationsAscend, ReloadsExclusive, IdleHasNoBacklog,
        FinishesOnItsGeneration, ActiveEvents, QueueHoldsDeferred, PromisesStand, PromiseStands

(* A management request gives its gate back and nobody else's.              *)
LEMMA ExecuteEnds ==
    ASSUME ReloadInv, NEW u \in Operators, readers' = readers \ {u},
           \/ exec' = [exec EXCEPT ![u] = ExecuteIdle]
           \/ exec' = [exec EXCEPT ![u].pc = "hook"],
           UNCHANGED <<state, current, hook, drain>>
    PROVE  /\ GateProtects'
           /\ exec' \in [Operators -> [pc : {"none", "apply", "hook"}, event : Webhooks \cup {NULL}]]
  <1>1. /\ exec' \in [Operators -> [pc : {"none", "apply", "hook"}, event : Webhooks \cup {NULL}]]
        /\ exec'[u].pc # "apply"
        /\ \A v \in Operators \ {u} : exec'[v] = exec[v]
    <2>1. CASE exec' = [exec EXCEPT ![u] = ExecuteIdle]
      BY <2>1 DEF ReloadInv, TypeOK, ExecuteIdle
    <2>2. CASE exec' = [exec EXCEPT ![u].pc = "hook"]
      <3>1. exec \in [Operators -> [pc : {"none", "apply", "hook"}, event : Webhooks \cup {NULL}]]
        BY DEF ReloadInv, TypeOK
      <3> QED
        BY <2>2, <3>1
    <2> QED
      BY <2>1, <2>2
  <1>2. u # "drainer" /\ \A h \in Hooks : h # u
    BY ReloadAssumption
  <1> QED
    BY <1>1, <1>2 DEF ReloadInv, GateProtects, HookHolds, DrainHolds, ExecHolds

LEMMA ExecuteActivatesStep ==
    ASSUME ReloadInv, NEW u \in Operators, ExecuteActivates(u)
    PROVE  ReloadInv'
  <1> USE DEF ReloadInv, ExecuteActivates, ManageOnly, managerVars, lockVars
  <1>1. GateProtects'
        /\ exec' \in [Operators -> [pc : {"none", "apply", "hook"}, event : Webhooks \cup {NULL}]]
    BY ExecuteEnds
  <1>2. exec[u].event \in Webhooks /\ current \in Version
    BY DEF GateProtects, ExecHolds, TypeOK
  <1>3. /\ active' \in [Webhooks -> Version \cup {NULL}]
        /\ \A e \in Webhooks : active'[e] \in {active[e], current}
    BY <1>2 DEF TypeOK
  <1>4. TypeOK'
    BY <1>1, <1>3 DEF TypeOK
  <1>5. FinishesOnItsGeneration'
    BY <1>3 DEF FinishesOnItsGeneration, ActiveEvents
  <1> QED
    BY <1>1, <1>4, <1>5 DEF DownIsQuiet, GenerationsAscend, ReloadsExclusive, IdleHasNoBacklog,
        QueueHoldsDeferred, PromisesStand, PromiseStands

LEMMA ExecuteTerminalStep ==
    ASSUME ReloadInv, NEW u \in Operators, ExecuteTerminal(u)
    PROVE  ReloadInv'
  <1> USE DEF ReloadInv, ExecuteTerminal, ManageOnly, managerVars, lockVars, storeVars
  <1>1. GateProtects' /\ TypeOK'
    BY ExecuteEnds DEF TypeOK
  <1> QED
    BY <1>1 DEF DownIsQuiet, GenerationsAscend, ReloadsExclusive, IdleHasNoBacklog,
        FinishesOnItsGeneration, ActiveEvents, QueueHoldsDeferred, PromisesStand, PromiseStands

(* A deletion that spares deferred events keeps what is known of the rest.  *)
LEMMA DeleteKeeps ==
    ASSUME ReloadInv, NEW E \in SUBSET Webhooks, Delete(E),
           \A e \in E : event[e].routing # "deferred",
           UNCHANGED <<phase, disk, state, current, candidate>>
    PROVE  /\ event' \in [Webhooks -> EventRow]
           /\ IdleHasNoBacklog' /\ FinishesOnItsGeneration' /\ QueueHoldsDeferred' /\ PromisesStand'
  <1>1. /\ UNCHANGED <<queue, active, done>>
        /\ \A e \in Webhooks : event'[e] = IF e \in E THEN NoEvent ELSE event[e]
        /\ event' \in [Webhooks -> EventRow]
    BY DEF Delete, ReloadInv, TypeOK, EventRow, NoEvent
  <1>2. QueueHoldsDeferred'
    BY <1>1, QueueKept DEF NoEvent
  <1>3. PromisesStand'
    BY <1>1 DEF ReloadInv, PromisesStand, PromiseStands, NoEvent
  <1> QED
    BY <1>1, <1>2, <1>3 DEF ReloadInv, IdleHasNoBacklog, FinishesOnItsGeneration, ActiveEvents

LEMMA PruneStep ==
    ASSUME ReloadInv, NEW E \in SUBSET Webhooks, Prune(E)
    PROVE  ReloadInv'
  <1> USE DEF ReloadInv, Prune, CanRead, ManageOnly, managerVars, lockVars
  <1>1. /\ event' \in [Webhooks -> EventRow]
        /\ IdleHasNoBacklog' /\ FinishesOnItsGeneration' /\ QueueHoldsDeferred' /\ PromisesStand'
    BY DeleteKeeps DEF Prunable
  <1>2. TypeOK'
    BY <1>1 DEF TypeOK, Delete
  <1>3. GateProtects'
    BY GateKept
  <1> QED
    BY <1>1, <1>2, <1>3 DEF DownIsQuiet, GenerationsAscend, ReloadsExclusive

LEMMA ExecuteHookStep ==
    ASSUME ReloadInv, NEW u \in Operators, ExecuteHook(u)
    PROVE  ReloadInv'
  <1> USE DEF ReloadInv, ExecuteHook, CanRead, ManageOnly, managerVars, lockVars
  <1>1. PICK E \in SUBSET {e \in Webhooks : Prunable(e)} : Delete(E)
    OBVIOUS
  <1>2. /\ event' \in [Webhooks -> EventRow]
        /\ IdleHasNoBacklog' /\ FinishesOnItsGeneration' /\ QueueHoldsDeferred' /\ PromisesStand'
    BY <1>1, DeleteKeeps DEF Prunable
  <1>3. GateProtects'
        /\ exec' \in [Operators -> [pc : {"none", "apply", "hook"}, event : Webhooks \cup {NULL}]]
    BY ExecuteEnds
  <1>4. TypeOK'
    BY <1>1, <1>2, <1>3 DEF TypeOK, Delete
  <1> QED
    BY <1>2, <1>3, <1>4 DEF DownIsQuiet, GenerationsAscend, ReloadsExclusive

LEMMA ClearHistoryStep ==
    ASSUME ReloadInv, ClearHistory
    PROVE  ReloadInv'
  <1> USE DEF ReloadInv, ClearHistory, ManageOnly, managerVars, lockVars
  <1>1. \A e \in Webhooks : event[e].routing # "deferred"
    BY DEF QueueHoldsDeferred
  <1>2. /\ event' \in [Webhooks -> EventRow]
        /\ IdleHasNoBacklog' /\ FinishesOnItsGeneration' /\ QueueHoldsDeferred' /\ PromisesStand'
    BY <1>1, DeleteKeeps
  <1>3. TypeOK'
    BY <1>2 DEF TypeOK, Delete
  <1>4. GateProtects'
    BY GateKept
  <1> QED
    BY <1>2, <1>3, <1>4 DEF DownIsQuiet, GenerationsAscend, ReloadsExclusive

LEMMA SettleStep ==
    ASSUME ReloadInv, NEW e \in Webhooks, Settle(e)
    PROVE  ReloadInv'
  <1> USE DEF ReloadInv, Settle, CanRead, ManageOnly, managerVars, lockVars
  <1>1. TypeOK'
    BY DEF TypeOK
  <1>2. GateProtects'
    BY GateKept
  <1>3. FinishesOnItsGeneration'
    BY DEF FinishesOnItsGeneration, ActiveEvents, TypeOK
  <1> QED
    BY <1>1, <1>2, <1>3 DEF DownIsQuiet, GenerationsAscend, ReloadsExclusive, IdleHasNoBacklog,
        QueueHoldsDeferred, PromisesStand, PromiseStands

-----------------------------------------------------------------------------
(* Edits, crashes, startup.                                                 *)

LEMMA EditStep ==
    ASSUME ReloadInv, Edit
    PROVE  ReloadInv'
  <1> USE DEF ReloadInv, Edit, managerVars, gateVars, lockVars, storeVars
  <1>1. disk \in Nat /\ disk' = disk + 1 /\ disk' \in Version
    BY ReloadAssumption DEF TypeOK, Version
  <1>2. TypeOK'
    BY <1>1 DEF TypeOK
  <1>3. GateProtects'
    BY GateKept
  <1>4. current \in Nat /\ (candidate # NULL => candidate \in Nat)
    BY ReloadAssumption DEF TypeOK, Version
  <1>5. GenerationsAscend'
    <2>1. \A q \in Requests : reload[q].loaded # NULL => reload[q].loaded \in Nat
      BY ReloadAssumption DEF TypeOK, Version
    <2> QED
      BY <1>1, <1>4, <2>1 DEF GenerationsAscend
  <1>6. PromisesStand'
    BY <1>1, <1>2, <1>4, PromisesKept
  <1> QED
    BY <1>2, <1>3, <1>5, <1>6 DEF DownIsQuiet, ReloadsExclusive, IdleHasNoBacklog,
        FinishesOnItsGeneration, ActiveEvents, QueueHoldsDeferred

LEMMA CrashStep ==
    ASSUME ReloadInv, Crash
    PROVE  ReloadInv'
  <1> USE DEF ReloadInv, Crash, managerVars, storeVars
  <1>1. TypeOK'
    BY DEF TypeOK, ReloadIdle, HookIdle, ExecuteIdle
  <1>2. /\ \A q \in Requests : reload'[q].pc = "none"
        /\ \A h \in Hooks : hook'[h] = HookIdle
        /\ \A u \in Operators : exec'[u].pc = "none"
    BY DEF ReloadIdle, ExecuteIdle
  <1>3. GateProtects' /\ DownIsQuiet'
    BY <1>2 DEF GateProtects, HookHolds, DrainHolds, ExecHolds, DownIsQuiet
  <1>4. GenerationsAscend' /\ ReloadsExclusive'
    BY <1>2, ExclusiveMeansPrime DEF GenerationsAscend, Begun
  <1> QED
    BY <1>1, <1>3, <1>4 DEF IdleHasNoBacklog, FinishesOnItsGeneration, ActiveEvents,
        QueueHoldsDeferred, PromisesStand, PromiseStands

LEMMA BootStep ==
    ASSUME ReloadInv, Boot
    PROVE  ReloadInv'
  <1> USE DEF ReloadInv, Boot, gateVars, lockVars
  <1>1. state' \in {"idle", "waiting", "draining"} /\ (state' = "idle" => queue = <<>>)
    <2>1. CASE queue = <<>>
      BY <2>1 DEF InitialState
    <2>2. CASE queue # <<>> /\ {e \in ActiveEvents : e \in Deploys[disk]} # {}
      BY <2>2 DEF InitialState
    <2>3. CASE queue # <<>> /\ {e \in ActiveEvents : e \in Deploys[disk]} = {}
      BY <2>3 DEF InitialState
    <2> QED
      BY <2>1, <2>2, <2>3
  <1>2. TypeOK'
    BY <1>1 DEF TypeOK, State
  <1>3. GateProtects' /\ DownIsQuiet'
    BY DEF DownIsQuiet, GateProtects, HookHolds, DrainHolds, ExecHolds
  <1>4. GenerationsAscend'
    BY ReloadAssumption DEF DownIsQuiet, GenerationsAscend, TypeOK, Version
  <1>5. ReloadsExclusive'
    BY ExclusiveMeansPrime DEF DownIsQuiet, Begun
  <1>6. IdleHasNoBacklog'
    BY <1>1 DEF IdleHasNoBacklog
  <1>7. FinishesOnItsGeneration'
    BY DEF FinishesOnItsGeneration, ActiveEvents
  <1>8. PromisesStand'
    BY DEF PromisesStand, PromiseStands
  <1> QED
    BY <1>2, <1>3, <1>4, <1>5, <1>6, <1>7, <1>8 DEF QueueHoldsDeferred

-----------------------------------------------------------------------------
(* The inductive invariant.                                                 *)

LEMMA InitInv == Init => ReloadInv
  <1> SUFFICES ASSUME Init PROVE ReloadInv
    OBVIOUS
  <1> USE DEF Init
  <1>1. TypeOK
    BY ReloadAssumption DEF TypeOK, Version, State, ReloadIdle, HookIdle, ExecuteIdle, NoEvent, EventRow
  <1>2. GateProtects /\ DownIsQuiet
    BY DEF GateProtects, HookHolds, DrainHolds, ExecHolds, DownIsQuiet, ExecuteIdle
  <1>3. GenerationsAscend /\ ReloadsExclusive
    BY ExclusiveMeans DEF GenerationsAscend, Begun, ReloadIdle
  <1>4. QueueHoldsDeferred
    BY DEF QueueHoldsDeferred, NoEvent
  <1>5. PromisesStand
    BY DEF PromisesStand, NoEvent
  <1> QED
    BY <1>1, <1>2, <1>3, <1>4, <1>5
       DEF ReloadInv, IdleHasNoBacklog, FinishesOnItsGeneration, ActiveEvents

LEMMA NextInv == ReloadInv /\ [Next]_vars => ReloadInv'
  <1> SUFFICES ASSUME ReloadInv, [Next]_vars PROVE ReloadInv'
    OBVIOUS
  <1>1. CASE UNCHANGED vars
    BY <1>1 DEF vars, managerVars, gateVars, lockVars, storeVars, ReloadInv, TypeOK, GateProtects,
        HookHolds, DrainHolds, ExecHolds, DownIsQuiet, GenerationsAscend, ReloadsExclusive,
        IdleHasNoBacklog, FinishesOnItsGeneration, ActiveEvents, QueueHoldsDeferred,
        PromisesStand, PromiseStands
  <1>2. CASE \E w \in Writers : Announce(w)
    BY <1>2, AnnounceStep
  <1>3. CASE Reloading
    BY <1>3, RequestStep, BeginStep, LoadStep, FailStep, DecideStep DEF Reloading, ReloadProceeds
  <1>4. CASE Manager
    BY <1>4, WakesStep, AdvanceStep DEF Manager
  <1>5. CASE Webhook
    BY <1>5, HookBeginStep, HookRefusedStep, HookIngestStep DEF Webhook
  <1>6. CASE Drain
    BY <1>6, DrainPeekStep, DrainFinalizeStep, DrainFailsStep, DrainFoundNothingStep, SetIdleStep
       DEF Drain
  <1>7. CASE Manage
    BY <1>7, ExecuteStartStep, ExecuteActivatesStep, ExecuteTerminalStep, ExecuteHookStep DEF Manage
  <1>8. CASE \E E \in SUBSET Webhooks : Prune(E)
    BY <1>8, PruneStep
  <1>9. CASE ClearHistory \/ \E e \in Webhooks : Settle(e)
    BY <1>9, ClearHistoryStep, SettleStep
  <1>10. CASE Edit \/ Crash \/ Boot
    BY <1>10, EditStep, CrashStep, BootStep
  <1> QED
    BY <1>1, <1>2, <1>3, <1>4, <1>5, <1>6, <1>7, <1>8, <1>9, <1>10 DEF Next

(* The inductive invariant of the reload lifecycle: what the gate protects, *)
(* the order of the generations, the queue and the promises made to events. *)
THEOREM ReloadInductive == Spec => []ReloadInv
  BY InitInv, NextInv, PTL DEF Spec

(* Manager, requests, drainer and tables stay well formed, and "applying" is *)
(* never seen by anyone who takes the gate.                                 *)
THEOREM ReloadTypeCorrect == Spec => []TypeOK
  <1>1. ReloadInv => TypeOK
    BY DEF ReloadInv
  <1> QED
    BY <1>1, ReloadInductive, PTL

(* SetIdleIfQueueEmpty closes the boundary between draining and deferring:  *)
(* webhooks are routed directly, or a reload begins, only over an empty     *)
(* queue, for any number of requests, crashes and store failures.           *)
THEOREM NoBacklogWhenIdle == Spec => []IdleHasNoBacklog
  <1>1. ReloadInv => IdleHasNoBacklog
    BY DEF ReloadInv
  <1> QED
    BY <1>1, ReloadInductive, PTL

(* One reload at a time, although the gate is given up while the files load. *)
THEOREM OneReloadAtATime == Spec => []ReloadsExclusive
  <1>1. ReloadInv => ReloadsExclusive
    BY DEF ReloadInv
  <1> QED
    BY <1>1, ReloadInductive, PTL

(* No generation is published under an active delivery.                     *)
THEOREM DeliveriesFinishFirst == Spec => []FinishesOnItsGeneration
  <1>1. ReloadInv => FinishesOnItsGeneration
    BY DEF ReloadInv
  <1> QED
    BY <1>1, ReloadInductive, PTL

(* Retention, history clearing, duplicates and crashes neither lose a       *)
(* deferred event nor repeat one.                                           *)
THEOREM QueueIsExact == Spec => []QueueHoldsDeferred
  <1>1. ReloadInv => QueueHoldsDeferred
    BY DEF ReloadInv
  <1> QED
    BY <1>1, ReloadInductive, PTL

(* A webhook deferred by a reload is never routed by a generation older     *)
(* than the one it was deferred for, through restarts too.                  *)
THEOREM DeferredMeetsTheNew == Spec => []RoutedByTheNew
  <1>1. ReloadInv => RoutedByTheNew
    BY DEF ReloadInv, PromisesStand, RoutedByTheNew
  <1> QED
    BY <1>1, ReloadInductive, PTL

-----------------------------------------------------------------------------
(* Reload implements Routing.                                               *)

KnownEvents == {e \in Webhooks : event[e].routing \in {"deferred", "routed"}}

LEMMA AppendBehind ==
    ASSUME NEW S, NEW s \in Seq(S), NEW t \in Seq(S), NEW e \in S
    PROVE  s \o Append(t, e) = Append(s \o t, e)
  <1> DEFINE l == s \o Append(t, e)
             r == Append(s \o t, e)
  <1>1. l \in Seq(S) /\ r \in Seq(S) /\ Len(l) = Len(r)
    OBVIOUS
  <1>2. \A i \in 1..Len(l) : l[i] = r[i]
    OBVIOUS
  <1> QED
    BY <1>1, <1>2, SeqEqual

(* The head of a queue moves to the end of what is before it.               *)
LEMMA MoveHead ==
    ASSUME NEW S, NEW s \in Seq(S), NEW t \in Seq(S), t # <<>>
    PROVE  Append(s, Head(t)) \o Tail(t) = s \o t
  <1> DEFINE l == Append(s, Head(t)) \o Tail(t)
             r == s \o t
  <1>1. /\ Append(s, Head(t)) \in Seq(S) /\ Tail(t) \in Seq(S) /\ Len(t) \in Nat \ {0}
        /\ Len(Append(s, Head(t))) = Len(s) + 1 /\ Len(Tail(t)) = Len(t) - 1
    OBVIOUS
  <1>2. l \in Seq(S) /\ r \in Seq(S) /\ Len(l) = Len(s) + Len(t) /\ Len(r) = Len(s) + Len(t)
    BY <1>1
  <1>3. ASSUME NEW i \in 1..(Len(s) + Len(t)) PROVE l[i] = r[i]
    <2>1. CASE i <= Len(s)
      BY <1>1, <2>1
    <2>2. CASE i = Len(s) + 1
      BY <1>1, <2>2
    <2>3. CASE i > Len(s) + 1
      <3>1. l[i] = Tail(t)[i - (Len(s) + 1)]
        BY <1>1, <2>3, ConcatProperties
      <3>2. Tail(t)[i - (Len(s) + 1)] = t[(i - (Len(s) + 1)) + 1]
        BY <1>1, <2>3, HeadTailProperties
      <3>3. r[i] = t[i - Len(s)]
        BY <2>3, ConcatProperties
      <3> QED
        BY <3>1, <3>2, <3>3
    <2> QED
      BY <2>1, <2>2, <2>3
  <1> QED
    BY <1>2, <1>3, SeqEqual

LEMMA ImplementsInit == Init => Abstract!Init
  BY DEF Init, Abstract!Init, NoEvent

LEMMA DeferImplements ==
    ASSUME ReloadInv, NEW e \in Webhooks, ~Known(e), Defer(e, current), current \in Version
    PROVE  Abstract!Defer(e)
  <1>1. queue \in Seq(Webhooks) /\ done \in Seq(Webhooks) /\ event \in [Webhooks -> EventRow]
    BY DEF ReloadInv, TypeOK
  <1>2. queue' = Append(queue, e) /\ done' = done
    BY DEF Defer
  <1>3. done' \o queue' = Append(done \o queue, e)
    BY <1>1, <1>2, AppendBehind
  <1>4. e \notin KnownEvents
    BY DEF Known, KnownEvents
  <1>5. event'[e].routing = "deferred" /\ \A f \in Webhooks \ {e} : event'[f] = event[f]
    BY <1>1 DEF Defer
  <1>6. KnownEvents' = KnownEvents \cup {e}
    BY <1>5 DEF KnownEvents
  <1> QED
    BY <1>2, <1>3, <1>4, <1>6 DEF Abstract!Defer, KnownEvents

LEMMA RouteImplements ==
    ASSUME ReloadInv, NEW e \in Webhooks, ~Known(e), Route(e, current), UNCHANGED queue,
           queue = <<>>
    PROVE  Abstract!RouteNow(e)
  <1>1. done \in Seq(Webhooks) /\ current \in Version
    BY DEF ReloadInv, TypeOK
  <1>2. done' = Append(done, e) /\ done' \in Seq(Webhooks)
    BY <1>1 DEF Route
  <1>3. done \o queue = done /\ done' \o queue' = done'
    BY <1>1, <1>2, ConcatEmptySeq
  <1>4. Len(done') = Len(done) + 1
    BY <1>1, <1>2
  <1>5. event'[e].routing = "routed" /\ \A f \in Webhooks \ {e} : event'[f] = event[f]
    BY <1>1, RouteEffect DEF ReloadInv
  <1>6. e \notin KnownEvents /\ KnownEvents' = KnownEvents \cup {e}
    BY <1>5 DEF KnownEvents, Known
  <1> QED
    BY <1>2, <1>3, <1>4, <1>6 DEF Abstract!RouteNow, KnownEvents

LEMMA FinalizeImplements ==
    ASSUME ReloadInv, queue # <<>>, Route(Head(queue), current), queue' = Tail(queue)
    PROVE  Abstract!RouteNext
  <1>1. /\ done \in Seq(Webhooks) /\ queue \in Seq(Webhooks) /\ current \in Version
        /\ Head(queue) \in Webhooks
    BY DEF ReloadInv, TypeOK
  <1>2. done' = Append(done, Head(queue)) /\ Len(done') = Len(done) + 1
    BY <1>1 DEF Route
  <1>3. done' \o queue' = done \o queue
    BY <1>1, <1>2, MoveHead
  <1>4. Len(done) < Len(done \o queue)
    <2>1. Len(queue) \in Nat \ {0} /\ Len(done) \in Nat
      BY <1>1, EmptySeq, LenProperties
    <2>2. Len(done \o queue) = Len(done) + Len(queue)
      BY <1>1, ConcatProperties
    <2> QED
      BY <2>1, <2>2
  <1>5. event[Head(queue)].routing = "deferred"
    BY <1>1, QueueMeans DEF ReloadInv
  <1>6. /\ event'[Head(queue)].routing = "routed"
        /\ \A f \in Webhooks \ {Head(queue)} : event'[f] = event[f]
    BY <1>1, RouteEffect DEF ReloadInv
  <1>7. KnownEvents' = KnownEvents
    BY <1>5, <1>6 DEF KnownEvents
  <1> QED
    BY <1>2, <1>3, <1>4, <1>7 DEF Abstract!RouteNext, KnownEvents

LEMMA DeleteImplements ==
    ASSUME ReloadInv, NEW E \in SUBSET Webhooks, Delete(E),
           \A e \in E : event[e].routing # "deferred"
    PROVE  Abstract!Forget(E \cap KnownEvents)
  <1>1. /\ UNCHANGED <<queue, done>>
        /\ \A e \in Webhooks : event'[e] = IF e \in E THEN NoEvent ELSE event[e]
    BY DEF Delete
  <1>2. KnownEvents' = KnownEvents \ (E \cap KnownEvents)
    BY <1>1 DEF KnownEvents, NoEvent
  <1>3. Abstract!Pending \cap E = {}
    <2>1. /\ done \in Seq(Webhooks) /\ queue \in Seq(Webhooks)
          /\ Len(done) \in Nat /\ Len(queue) \in Nat
      BY DEF ReloadInv, TypeOK
    <2> SUFFICES ASSUME NEW i \in (Len(done) + 1)..Len(done \o queue),
                        (done \o queue)[i] \in E
                 PROVE  FALSE
      BY DEF Abstract!Pending
    <2>2. Len(done \o queue) = Len(done) + Len(queue)
      BY <2>1, ConcatProperties
    <2>3. (done \o queue)[i] = queue[i - Len(done)] /\ i - Len(done) \in 1..Len(queue)
      BY <2>1, <2>2, ConcatProperties
    <2>4. event[queue[i - Len(done)]].routing = "deferred"
      BY <2>1, <2>3, QueueMeans DEF ReloadInv
    <2> QED
      BY <2>3, <2>4
  <1> QED
    BY <1>1, <1>2, <1>3 DEF Abstract!Forget, KnownEvents

(* Steps that neither accept, route nor forget an event.                    *)
LEMMA StoreUnchanged ==
    ASSUME UNCHANGED <<event, queue, done>>
    PROVE  UNCHANGED Abstract!vars
  BY DEF Abstract!vars

LEMMA ImplementsNext == ReloadInv /\ [Next]_vars => [Abstract!Next]_(Abstract!vars)
  <1> SUFFICES ASSUME ReloadInv, [Next]_vars
               PROVE  Abstract!Next \/ UNCHANGED Abstract!vars
    OBVIOUS
  <1>1. CASE UNCHANGED vars \/ (\E w \in Writers : Announce(w))
    BY <1>1, StoreUnchanged DEF vars, storeVars, Announce
  <1>2. CASE Reloading \/ Manager
    <2>1. ReloadOnly
      BY <1>2 DEF Reloading, ReloadProceeds, ReloadRequest, ReloadBegin, ReloadLoad, ReloadFail,
          ReloadDecide, Manager, ManagerWakes, AdvanceWaiting, AdvanceFails
    <2> QED
      BY <2>1, StoreUnchanged DEF ReloadOnly, storeVars
  <1>3. CASE Webhook
    <2>1. PICK h \in Hooks : (\E e \in Webhooks : HookBegin(h, e)) \/ HookRefused(h) \/ HookIngest(h)
      BY <1>3 DEF Webhook
    <2>2. CASE (\E e \in Webhooks : HookBegin(h, e)) \/ HookRefused(h)
      BY <2>2, StoreUnchanged DEF HookBegin, HookRefused, storeVars
    <2>3. CASE HookIngest(h)
      <3> DEFINE e == hook[h].event
      <3>1. /\ phase = "up" /\ e \in Webhooks /\ current \in Version /\ state \in State
            /\ hook[h].state = state /\ hook[h].generation = current
        BY <2>3 DEF ReloadInv, TypeOK, HookIngest, GateProtects, HookHolds
      <3>2. CASE Known(e)
        BY <2>3, <3>2, StoreUnchanged DEF HookIngest, storeVars
      <3>3. CASE ~Known(e) /\ e \notin Supported
        <4>1. event' = [event EXCEPT ![e].routing = "unsupported", ![e].digest = current]
              /\ UNCHANGED <<queue, done>>
          BY <2>3, <3>1, <3>3 DEF HookIngest
        <4>2. event[e].routing = "none"
          BY <3>3 DEF Known
        <4> HIDE DEF e
        <4>3. KnownEvents' = KnownEvents
          <5>1. event \in [Webhooks -> EventRow]
            BY DEF ReloadInv, TypeOK
          <5>2. event'[e].routing = "unsupported" /\ \A f \in Webhooks \ {e} : event'[f] = event[f]
            BY <5>1, <3>1, <4>1 DEF EventRow
          <5> QED
            BY <5>2, <4>2 DEF KnownEvents
        <4> QED
          BY <4>1, <4>3 DEF Abstract!vars, KnownEvents
      <3>4. CASE ~Known(e) /\ e \in Supported /\ state \in {"waiting", "draining"}
        <4>1. Defer(e, current)
          BY <2>3, <3>1, <3>4 DEF HookIngest, ReloadDefers
        <4> QED
          BY <3>1, <3>4, <4>1, DeferImplements DEF Abstract!Next
      <3>5. CASE ~Known(e) /\ e \in Supported /\ state \notin {"waiting", "draining"}
        <4>1. Route(e, current) /\ UNCHANGED queue
          BY <2>3, <3>1, <3>5 DEF HookIngest, ReloadDefers
        <4>2. queue = <<>>
          BY <3>1, <3>5 DEF ReloadInv, IdleHasNoBacklog, State
        <4> QED
          BY <3>1, <3>5, <4>1, <4>2, RouteImplements DEF Abstract!Next
      <3> QED
        BY <3>2, <3>3, <3>4, <3>5
    <2> QED
      BY <2>1, <2>2, <2>3
  <1>4. CASE DrainFinalize
    BY <1>4, FinalizeImplements, StoreUnchanged DEF DrainFinalize, storeVars, Abstract!Next
  <1>5. CASE Drain /\ ~DrainFinalize
    BY <1>5, StoreUnchanged DEF Drain, DrainPeek, DrainFails, DrainFoundNothing,
        SetIdleIfQueueEmpty, SetIdleFails, storeVars
  <1>6. ASSUME NEW E \in SUBSET Webhooks, Delete(E), \A e \in E : event[e].routing # "deferred"
        PROVE  Abstract!Next
    <2>1. Abstract!Forget(E \cap KnownEvents)
      BY <1>6, DeleteImplements
    <2>2. \E F \in SUBSET Webhooks : Abstract!Forget(F)
      <3>1. E \cap KnownEvents \in SUBSET Webhooks
        OBVIOUS
      <3> QED
        BY <2>1, <3>1 DEF Abstract!Forget
    <2> QED
      BY <2>2 DEF Abstract!Next
  <1>7. CASE Manage
    <2>1. PICK u \in Operators : \/ \E e \in Webhooks : ExecuteStart(u, e)
                                 \/ ExecuteActivates(u) \/ ExecuteTerminal(u) \/ ExecuteHook(u)
      BY <1>7 DEF Manage
    <2>2. CASE ExecuteHook(u)
      <3>1. PICK E \in SUBSET {e \in Webhooks : Prunable(e)} : Delete(E)
        BY <2>2 DEF ExecuteHook
      <3> QED
        BY <3>1, <1>6 DEF Prunable
    <2> QED
      BY <2>1, <2>2, StoreUnchanged DEF ExecuteStart, ExecuteActivates, ExecuteTerminal, storeVars
  <1>8. CASE \E E \in SUBSET Webhooks : Prune(E)
    BY <1>8, <1>6 DEF Prune, Prunable
  <1>9. CASE ClearHistory
    <2>1. \A e \in Webhooks : event[e].routing # "deferred"
      BY <1>9 DEF ClearHistory, ReloadInv, QueueHoldsDeferred
    <2> QED
      BY <1>9, <2>1, <1>6 DEF ClearHistory
  <1>10. CASE (\E e \in Webhooks : Settle(e)) \/ Edit \/ Crash \/ Boot
    BY <1>10, StoreUnchanged DEF Settle, Edit, Crash, Boot, storeVars
  <1> QED
    BY <1>1, <1>2, <1>3, <1>4, <1>5, <1>7, <1>8, <1>9, <1>10 DEF Next

(* The reload lifecycle implements Routing: whatever reloads, crashes,      *)
(* retention and store failures do, every accepted event is routed once and *)
(* in the order of acceptance.                                              *)
THEOREM ImplementsRouting == Spec => RoutesInOrder
  <1>1. Spec => Abstract!Init /\ [][Abstract!Next]_(Abstract!vars)
    BY ImplementsInit, ImplementsNext, ReloadInductive, PTL DEF Spec
  <1> QED
    BY <1>1 DEF RoutesInOrder, Abstract!Spec

=============================================================================
