--------------------------- MODULE DeliveryProofs ---------------------------
(***************************************************************************)
(* Proofs about Delivery for every value of its constants.                  *)
(***************************************************************************)
EXTENDS DeliveryInv, TLAPS

TypeInv == TypeOK /\ LocalOK

-----------------------------------------------------------------------------
(* Rows.                                                                    *)

(* A write of the current attempt and of the statuses its delivery mirrors   *)
(* changes one row of each table and keeps both tables well formed.          *)
LEMMA WriteCurrentEffect ==
    ASSUME delivery \in [Deliveries -> DeliveryRow],
           attempt \in [Attempts -> AttemptRow],
           NEW a \in Attempts, NEW row \in AttemptRow,
           WriteCurrent(a, row)
    PROVE  /\ attempt' \in [Attempts -> AttemptRow]
           /\ delivery' \in [Deliveries -> DeliveryRow]
           /\ a[1] \in Deliveries
           /\ attempt'[a] = row
           /\ \A b \in Attempts : b # a => attempt'[b] = attempt[b]
           /\ delivery'[a[1]].cur = delivery[a[1]].cur
           /\ delivery'[a[1]].transport = row.transport
           /\ delivery'[a[1]].deployment = row.deployment
           /\ \A d \in Deliveries : d # a[1] => delivery'[d] = delivery[d]
  <1>1. a[1] \in Deliveries
    BY DEF Attempts
  <1>2. row.transport \in TransportStatus /\ row.deployment \in DeploymentStatus
    BY DEF AttemptRow
  <1> QED
    BY <1>1, <1>2 DEF WriteCurrent, DeliveryRow

LEMMA NewAttemptType == NewAttempt \in AttemptRow
  BY DeliveryAssumption
     DEF NewAttempt, AttemptRow, TransportStatus, DeploymentStatus, DeploymentIDs, Time

LEMMA CurrentType ==
    ASSUME delivery \in [Deliveries -> DeliveryRow], NEW d \in Deliveries, Exists(d)
    PROVE  Current(d) \in Attempts /\ Current(d)[1] = d /\ Current(d)[2] = delivery[d].cur
  <1>1. delivery[d].cur \in 0..MaxAttempts /\ delivery[d].cur # 0
    BY DEF DeliveryRow, Exists
  <1> QED
    BY <1>1, DeliveryAssumption DEF Current, Attempts

-----------------------------------------------------------------------------
(* The initial state.                                                       *)

LEMMA InitType == Init => TypeInv
  <1> SUFFICES ASSUME Init PROVE TypeInv
    OBVIOUS
  <1>1. now \in Nat /\ phase \in {"up", "down", "binding"} /\ crashes \in Nat
    BY DEF Init
  <1>2. ingested \subseteq Deliveries /\ compatible \subseteq ingested
    BY DEF Init
  <1>3. delivery \in [Deliveries -> DeliveryRow]
    BY DeliveryAssumption DEF Init, DeliveryRow, NoDelivery, TransportStatus, DeploymentStatus
  <1>4. attempt \in [Attempts -> AttemptRow]
    BY NewAttemptType DEF Init
  <1>5. disp \in DispatcherState
    BY DEF Init, DispatcherState, DispatcherIdle
  <1>6. poll \in PollerState
    BY DEF Init, PollerState, PollerIdle, Time
  <1>7. exec \in [Operators -> ExecuteState]
    BY DEF Init, ExecuteState, ExecuteIdle
  <1>8. history \in [Resources -> Seq(Record)]
    BY DEF Init
  <1>9. trimmed \in [Resources -> Nat] /\ inbox \subseteq Attempts /\ posts \in [Attempts -> Nat]
    BY DEF Init
  <1>10. LocalOK
    BY DEF Init, LocalOK, DispatcherIdle, PollerIdle, ExecuteIdle
  <1> QED
    BY <1>1, <1>2, <1>3, <1>4, <1>5, <1>6, <1>7, <1>8, <1>9, <1>10 DEF TypeInv, TypeOK

-----------------------------------------------------------------------------
(* Type correctness of the dispatcher's steps.                              *)

LEMMA ScheduledType ==
    ASSUME NEW row \in AttemptRow, NEW t \in Nat
    PROVE  Scheduled(row, t) \in AttemptRow
  <1>1. t + Interval \in Time /\ t + Timeout \in Time
    BY DeliveryAssumption DEF Time
  <1> QED
    BY <1>1 DEF Scheduled, AttemptRow

LEMMA OutcomeType ==
    ASSUME NEW row \in AttemptRow, now \in Nat, NEW kind \in {"dokploy", "http"},
           NEW result \in {"accepted", "definitive", "uncertain"}
    PROVE  Outcome(kind, result, row) \in AttemptRow
  <1>1. ASSUME NEW t \in TransportStatus, NEW p \in DeploymentStatus
        PROVE  /\ [row EXCEPT !.transport = t, !.deployment = p] \in AttemptRow
               /\ [row EXCEPT !.transport = t, !.deployment = p, !.due = NULL, !.deadline = NULL]
                     \in AttemptRow
    BY <1>1 DEF AttemptRow, Time
  <1>2. {"enqueued", "failed", "unknown"} \subseteq TransportStatus
    BY DEF TransportStatus
  <1>3. {"not_started", "locating", "done", "unknown"} \subseteq DeploymentStatus
    BY DEF DeploymentStatus
  <1> QED
    BY <1>1, <1>2, <1>3, ScheduledType DEF Outcome

LEMMA RowType ==
    ASSUME delivery \in [Deliveries -> DeliveryRow], attempt \in [Attempts -> AttemptRow],
           NEW d \in Deliveries, Exists(d)
    PROVE  Row(d) \in AttemptRow
  BY CurrentType DEF Row

LEMMA KindOfType ==
    ASSUME NEW d \in Deliveries
    PROVE  KindOf(d) \in {"dokploy", "http"} /\ ResourceOf(d) \in Resources
  BY DeliveryAssumption DEF KindOf, ResourceOf, Resources

LEMMA ClaimType ==
    ASSUME TypeInv, NEW d \in Deliveries, ClaimPendingAttempt(d)
    PROVE  TypeInv'
  <1> USE DEF TypeInv
  <1>1. Exists(d)
    BY DEF ClaimPendingAttempt, Claimable
  <1>2. Current(d) \in Attempts /\ Row(d) \in AttemptRow
    BY <1>1, CurrentType, RowType DEF TypeOK
  <1>3. [Row(d) EXCEPT !.transport = "sending"] \in AttemptRow
    BY <1>2 DEF AttemptRow, TransportStatus
  <1>4. attempt' \in [Attempts -> AttemptRow] /\ delivery' \in [Deliveries -> DeliveryRow]
    BY <1>2, <1>3, WriteCurrentEffect DEF ClaimPendingAttempt, TypeOK
  <1>5. disp' \in DispatcherState
    BY <1>2 DEF ClaimPendingAttempt, DispatcherState, DispatcherIdle
  <1>6. LocalOK'
    BY <1>2 DEF ClaimPendingAttempt, DispatcherOnly, serverVars, LocalOK, DispatcherIdle
  <1> QED
    BY <1>4, <1>5, <1>6
       DEF ClaimPendingAttempt, DispatcherOnly, serverVars, bindingVars, remoteVars, TypeOK

LEMMA VisibleType ==
    ASSUME history \in [Resources -> Seq(Record)], trimmed \in [Resources -> Nat],
           NEW r \in Resources
    PROVE  /\ Visible(r) \subseteq DOMAIN history[r]
           /\ Visible(r) \subseteq Nat \ {0}
           /\ LatestDeploymentID(r) \in Nat
  <1>1. history[r] \in Seq(Record) /\ trimmed[r] \in Nat
    OBVIOUS
  <1>2. Len(history[r]) \in Nat /\ DOMAIN history[r] = 1..Len(history[r])
    BY <1>1
  <1> QED
    BY <1>1, <1>2 DEF Visible, LatestDeploymentID

LEMMA PreflightType ==
    ASSUME TypeInv, Preflight
    PROVE  TypeInv'
  <1> USE DEF TypeInv
  <1>1. disp.att \in Attempts
    BY DEF Preflight, LocalOK
  <1>2. LatestDeploymentID(ResourceOf(disp.att[1])) \in Nat
    BY <1>1, KindOfType, VisibleType DEF TypeOK, Attempts
  <1>3. disp' \in DispatcherState /\ disp'.att = disp.att
    BY <1>2 DEF Preflight, DispatcherState, TypeOK
  <1>4. disp'.pc = "outcome" => disp'.result = "definitive"
    BY DEF Preflight, DispatcherState, TypeOK
  <1>5. LocalOK'
    BY <1>1, <1>3, <1>4 DEF Preflight, DispatcherOnly, serverVars, LocalOK
  <1> QED
    BY <1>3, <1>5
       DEF Preflight, DispatcherOnly, serverVars, bindingVars, remoteVars, storeVars, TypeOK

LEMMA StopType ==
    Stop => /\ phase' = "down"
            /\ disp' \in DispatcherState
            /\ poll' \in PollerState
            /\ exec' \in [Operators -> ExecuteState]
            /\ LocalOK'
  BY DEF Stop, DispatcherIdle, DispatcherState, PollerIdle, PollerState, Time,
         ExecuteIdle, ExecuteState, LocalOK

LEMMA CursorType ==
    ASSUME TypeInv, SetDeploymentCursor
    PROVE  TypeInv'
  <1> USE DEF TypeInv
  <1>1. disp.att \in Attempts /\ disp.cursor \in Nat \cup {NULL}
    BY DEF SetDeploymentCursor, LocalOK, TypeOK, DispatcherState
  <1>2. CASE WorkerFails
    BY <1>2, StopType
       DEF WorkerFails, SetDeploymentCursor, bindingVars, remoteVars, storeVars, TypeOK
  <1>3. CASE ~WorkerFails
    <2>1. attempt' \in [Attempts -> AttemptRow]
      <3>1. [attempt[disp.att] EXCEPT !.cursor = disp.cursor] \in AttemptRow
        BY <1>1 DEF AttemptRow, TypeOK
      <3> QED
        BY <1>1, <1>3, <3>1 DEF SetDeploymentCursor, TypeOK
    <2>2. disp' \in DispatcherState /\ LocalOK'
      BY <1>1, <1>3 DEF SetDeploymentCursor, DispatcherState, LocalOK, TypeOK
    <2> QED
      BY <1>3, <2>1, <2>2 DEF SetDeploymentCursor, bindingVars, remoteVars, TypeOK
  <1> QED
    BY <1>2, <1>3

LEMMA RecordType ==
    ASSUME TypeInv, RecordDeploymentRequest
    PROVE  TypeInv'
  <1> USE DEF TypeInv
  <1>1. disp.att \in Attempts
    BY DEF RecordDeploymentRequest, LocalOK
  <1>2. CASE WorkerFails
    BY <1>2, StopType
       DEF WorkerFails, RecordDeploymentRequest, bindingVars, remoteVars, storeVars, TypeOK
  <1>3. CASE ~WorkerFails
    <2>1. attempt' \in [Attempts -> AttemptRow]
      <3>1. [attempt[disp.att] EXCEPT !.request = TRUE] \in AttemptRow
        BY <1>1 DEF AttemptRow, TypeOK
      <3> QED
        BY <1>1, <1>3, <3>1 DEF RecordDeploymentRequest, TypeOK
    <2>2. disp' \in DispatcherState /\ LocalOK'
      BY <1>1, <1>3 DEF RecordDeploymentRequest, DispatcherState, LocalOK, TypeOK
    <2> QED
      BY <1>3, <2>1, <2>2 DEF RecordDeploymentRequest, bindingVars, remoteVars, TypeOK
  <1> QED
    BY <1>2, <1>3

LEMMA RequestFailsType ==
    ASSUME TypeInv, RequestFails
    PROVE  TypeInv'
  <1> USE DEF TypeInv
  <1>1. disp' \in DispatcherState /\ LocalOK'
    BY DEF RequestFails, DispatcherOnly, serverVars, DispatcherState, LocalOK, TypeOK
  <1> QED
    BY <1>1 DEF RequestFails, DispatcherOnly, serverVars, bindingVars, remoteVars, storeVars, TypeOK

LEMMA NewRecordType ==
    ASSUME NEW owner \in Attempts \cup {NULL}
    PROVE  NewRecord(owner) \in Record
  BY DeliveryAssumption DEF NewRecord, Record

LEMMA AppendHistoryType ==
    ASSUME history \in [Resources -> Seq(Record)], NEW r \in Resources, NEW rec \in Record
    PROVE  [history EXCEPT ![r] = Append(@, rec)] \in [Resources -> Seq(Record)]
  OBVIOUS

LEMMA PostType ==
    ASSUME TypeInv, NEW result \in {"accepted", "definitive", "uncertain"}, Post(result),
           \/ Accept(disp.att)
           \/ UNCHANGED <<history, inbox>>
    PROVE  TypeInv'
  <1> USE DEF TypeInv
  <1>1. disp.att \in Attempts
    BY DEF Post, LocalOK
  <1>2. posts' \in [Attempts -> Nat]
    BY <1>1 DEF Post, TypeOK
  <1>3. disp' \in DispatcherState /\ LocalOK'
    BY <1>1 DEF Post, DispatcherOnly, serverVars, DispatcherState, LocalOK, TypeOK
  <1>4. history' \in [Resources -> Seq(Record)] /\ inbox' \subseteq Attempts
    <2>1. ResourceOf(disp.att[1]) \in Resources /\ NewRecord(disp.att) \in Record
      BY <1>1, KindOfType, NewRecordType DEF Attempts
    <2>2. [history EXCEPT ![ResourceOf(disp.att[1])] = Append(@, NewRecord(disp.att))]
             \in [Resources -> Seq(Record)]
      BY <2>1, AppendHistoryType DEF TypeOK
    <2>3. inbox \cup {disp.att} \subseteq Attempts
      BY <1>1 DEF TypeOK
    <2>4. history \in [Resources -> Seq(Record)] /\ inbox \subseteq Attempts
      BY DEF TypeOK
    <2> QED
      BY <2>2, <2>3, <2>4 DEF Accept
  <1> QED
    BY <1>2, <1>3, <1>4 DEF Post, DispatcherOnly, serverVars, bindingVars, storeVars, TypeOK

LEMMA TransitionType ==
    ASSUME TypeInv, TransitionAttempt
    PROVE  TypeInv'
  <1> USE DEF TypeInv
  <1>1. /\ disp.att \in Attempts
        /\ disp.result \in {"accepted", "definitive", "uncertain"}
    BY DEF TransitionAttempt, LocalOK
  <1>2. CASE WorkerFails
    BY <1>2, StopType
       DEF WorkerFails, TransitionAttempt, bindingVars, remoteVars, storeVars, TypeOK
  <1>3. CASE ~WorkerFails
    <2>1. Outcome(KindOf(disp.att[1]), disp.result, attempt[disp.att]) \in AttemptRow
      BY <1>1, OutcomeType, KindOfType DEF TypeOK, Attempts
    <2>2. attempt' \in [Attempts -> AttemptRow] /\ delivery' \in [Deliveries -> DeliveryRow]
      BY <1>1, <1>3, <2>1, WriteCurrentEffect DEF TransitionAttempt, TypeOK
    <2>3. disp' \in DispatcherState /\ LocalOK'
      BY <1>3 DEF TransitionAttempt, DispatcherIdle, DispatcherState, LocalOK, TypeOK
    <2> QED
      BY <1>3, <2>2, <2>3 DEF TransitionAttempt, bindingVars, remoteVars, TypeOK
  <1> QED
    BY <1>2, <1>3

-----------------------------------------------------------------------------
(* Type correctness of the poller's steps.                                  *)

LEMMA ListDuePollsType ==
    ASSUME TypeInv, ListDuePolls
    PROVE  TypeInv'
  <1> USE DEF TypeInv
  <1>1. ASSUME NEW d \in PollBatch
        PROVE  Claimed(d) \in PollWork
    <2>1. d \in Deliveries /\ DuePoll(d)
      BY <1>1 DEF PollBatch
    <2>2. Current(d) \in Attempts /\ Row(d) \in AttemptRow
      BY <2>1, CurrentType, RowType DEF DuePoll, TypeOK
    <2>3. Row(d).deadline \in Nat /\ Row(d).deployment \in Monitored
      BY <2>1, <2>2 DEF DuePoll, AttemptRow, Time
    <2> QED
      BY <2>2, <2>3 DEF Claimed, PollWork, AttemptRow
  <1>2. poll' \in PollerState /\ poll'.at = now /\ poll'.item = NULL
    <2>1. {Claimed(d) : d \in PollBatch} \subseteq PollWork
      BY <1>1
    <2>2. poll' = [at |-> now, todo |-> {Claimed(d) : d \in PollBatch},
                   item |-> NULL, update |-> NULL]
      BY DEF ListDuePolls, PollerIdle
    <2>3. now \in Time
      BY DEF TypeOK, Time
    <2> QED
      BY <2>1, <2>2, <2>3 DEF PollerState
  <1>3. attempt' \in [Attempts -> AttemptRow]
    <2>1. ASSUME NEW a \in Attempts
          PROVE  [attempt[a] EXCEPT !.polled = now] \in AttemptRow
      BY DEF AttemptRow, Time, TypeOK
    <2> QED
      BY <2>1 DEF ListDuePolls, TypeOK
  <1>4. LocalOK'
    BY <1>2 DEF ListDuePolls, PollerOnly, serverVars, LocalOK, TypeOK
  <1> QED
    BY <1>2, <1>3, <1>4
       DEF ListDuePolls, PollerOnly, serverVars, bindingVars, remoteVars, TypeOK

LEMMA ObservedType ==
    ASSUME NEW s
    PROVE  Observed(s) \in {"done", "error", "cancelled", "running", "unrecognized"}
  BY DEF Observed

(* Both lookups return records of the visible history.                       *)
LEMMA LookupType ==
    ASSUME history \in [Resources -> Seq(Record)], trimmed \in [Resources -> Nat],
           NEW r \in Resources, NEW a \in Attempts, NEW id, NEW c
    PROVE  /\ FindDeployment(r, a, id) \subseteq Visible(r)
           /\ FindDeploymentAfter(r, a, c) \subseteq Visible(r)
           /\ Visible(r) \subseteq Nat \ {0}
  <1>1. FindDeployment(r, a, id) \subseteq Visible(r)
    BY DEF FindDeployment, Newest
  <1>2. Candidates(r, c) \subseteq Visible(r)
    BY DEF Candidates
  <1>3. FindDeploymentAfter(r, a, c) \in
           {{}, Candidates(r, c), {i \in Candidates(r, c) : Labelled(r, i, a)}}
    BY DEF FindDeploymentAfter
  <1> QED
    BY <1>1, <1>2, <1>3, VisibleType

LEMMA PollUpdateType ==
    ASSUME NEW w \in PollWork, NEW ids \in SUBSET (Nat \ {0}), NEW unsafe \in BOOLEAN, NEW t \in Nat
    PROVE  PollUpdate(w, ids, unsafe, t) \in PollUpdates
  <1> DEFINE u == PollUpdate(w, ids, unsafe, t)
  <1>1. ids # {} => (CHOOSE i \in ids : TRUE) \in Nat \ {0}
    OBVIOUS
  <1>2. w.transport \in TransportStatus /\ w.deployment \in DeploymentStatus
    BY DEF PollWork, Monitored, DeploymentStatus
  <1>3. u.transport \in TransportStatus /\ u.depId \in DeploymentIDs
    BY <1>1, <1>2 DEF PollUpdate, TransportStatus, DeploymentIDs
  <1>4. u.deployment \in DeploymentStatus
    <2>1. ASSUME NEW s PROVE Observed(s) \in DeploymentStatus
      BY ObservedType DEF DeploymentStatus
    <2>2. {"unknown", "timeout"} \subseteq DeploymentStatus
      BY DEF DeploymentStatus
    <2> QED
      BY <1>2, <2>1, <2>2 DEF PollUpdate
  <1>5. t + Interval \in Nat
    BY DeliveryAssumption
  <1>6. u.due \in Time
    BY <1>5 DEF PollUpdate, Time
  <1>7. u = [transport |-> u.transport, deployment |-> u.deployment,
             depId |-> u.depId, due |-> u.due]
    BY DEF PollUpdate
  <1> QED
    BY <1>3, <1>4, <1>6, <1>7 DEF PollUpdates

LEMMA PollLookupType ==
    ASSUME TypeInv, NEW w \in poll.todo, PollLookup(w)
    PROVE  TypeInv'
  <1> USE DEF TypeInv
  <1>1. w \in PollWork /\ poll.at \in Nat /\ w.att \in Attempts
    BY DEF TypeOK, PollerState, PollWork, LocalOK
  <1> DEFINE r == ResourceOf(w.att[1])
  <1>2. r \in Resources
    BY <1>1, KindOfType DEF Attempts
  <1>3. /\ FindDeployment(r, w.att, w.depId) \subseteq Nat \ {0}
        /\ FindDeploymentAfter(r, w.att, w.cursor) \subseteq Nat \ {0}
    BY <1>1, <1>2, LookupType DEF TypeOK
  <1>4. \E ids \in SUBSET (Nat \ {0}), unsafe \in BOOLEAN :
           poll' = [poll EXCEPT !.todo = @ \ {w}, !.item = w,
                                !.update = PollUpdate(w, ids, unsafe, poll.at)]
    <2> DEFINE byCursor == w.depId = NULL /\ w.cursor # NULL
               ids == IF byCursor THEN FindDeploymentAfter(r, w.att, w.cursor)
                                  ELSE FindDeployment(r, w.att, w.depId)
               unsafe == byCursor /\ UnsafeCorrelation(r, w.att, w.cursor)
    <2>1. ids \in SUBSET (Nat \ {0}) /\ unsafe \in BOOLEAN
      BY <1>3
    <2>2. {} \in SUBSET (Nat \ {0}) /\ FALSE \in BOOLEAN
      OBVIOUS
    <2>3. \/ poll' = [poll EXCEPT !.todo = @ \ {w}, !.item = w,
                                  !.update = PollUpdate(w, ids, unsafe, poll.at)]
          \/ poll' = [poll EXCEPT !.todo = @ \ {w}, !.item = w,
                                  !.update = PollUpdate(w, {}, FALSE, poll.at)]
      BY DEF PollLookup
    <2> HIDE DEF ids, unsafe
    <2> QED
      BY <2>1, <2>2, <2>3
  <1>5. PICK u \in PollUpdates :
           poll' = [poll EXCEPT !.todo = @ \ {w}, !.item = w, !.update = u]
    BY <1>1, <1>4, PollUpdateType
  <1>6. poll' \in PollerState /\ LocalOK'
    BY <1>1, <1>5 DEF PollLookup, PollerOnly, serverVars, PollerState, LocalOK, TypeOK
  <1> QED
    BY <1>6 DEF PollLookup, PollerOnly, serverVars, bindingVars, remoteVars, storeVars, TypeOK

LEMMA CompletePollType ==
    ASSUME TypeInv, CompletePoll
    PROVE  TypeInv'
  <1> USE DEF TypeInv
  <1> DEFINE a == poll.item.att
             u == poll.update
  <1>1. /\ poll.item \in PollWork /\ a \in Attempts /\ a[1] \in Deliveries
        /\ u \in PollUpdates /\ poll.at \in Nat
    BY DEF CompletePoll, LocalOK, TypeOK, PollerState, PollWork, Attempts
  <1>2. /\ u.transport \in TransportStatus /\ u.deployment \in DeploymentStatus
        /\ u.due \in Time /\ u.depId \in DeploymentIDs
    BY <1>1 DEF PollUpdates
  <1>3. poll' \in PollerState /\ LocalOK'
    BY <1>1 DEF CompletePoll, PollerOnly, serverVars, PollerState, PollerIdle, LocalOK, TypeOK, Time
  <1>4. attempt' \in [Attempts -> AttemptRow]
    <2>1. DeploymentID(attempt[a], u) \in DeploymentIDs
      BY <1>1, <1>2 DEF DeploymentID, TypeOK, AttemptRow
    <2>2. [attempt[a] EXCEPT !.transport = u.transport, !.deployment = u.deployment,
                             !.depId = DeploymentID(attempt[a], u), !.due = u.due] \in AttemptRow
      <3>1. attempt[a] \in AttemptRow
        BY <1>1 DEF TypeOK
      <3> HIDE DEF a, u
      <3> QED
        BY <1>2, <2>1, <3>1 DEF AttemptRow
    <2> QED
      BY <1>1, <2>2 DEF CompletePoll, storeVars, TypeOK
  <1>5. delivery' \in [Deliveries -> DeliveryRow]
    <2>1. [delivery[a[1]] EXCEPT !.transport = u.transport, !.deployment = u.deployment]
             \in DeliveryRow
      BY <1>1, <1>2 DEF TypeOK, DeliveryRow
    <2> QED
      BY <1>1, <2>1 DEF CompletePoll, storeVars, TypeOK
  <1> QED
    BY <1>3, <1>4, <1>5
       DEF CompletePoll, PollerOnly, serverVars, bindingVars, remoteVars, TypeOK

-----------------------------------------------------------------------------
(* Type correctness of the management requests.                             *)

LEMMA CreateOnlyType == CreateOnly \in ManualUpdate
  BY DeliveryAssumption
     DEF CreateOnly, ManualUpdate, TransportStatus, DeploymentStatus, DeploymentIDs, Time

LEMMA ExecuteStartType ==
    ASSUME TypeInv, NEW u \in Operators, NEW d \in Deliveries, NEW op \in Operation,
           ExecuteStart(u, d, op)
    PROVE  TypeInv'
  <1> USE DEF TypeInv
  <1> DEFINE seen == [att |-> Current(d), transport |-> Row(d).transport,
                      deployment |-> Row(d).deployment, depId |-> Row(d).depId]
             x == exec'[u]
  <1>1. Exists(d) /\ delivery[d].cur < MaxAttempts
    BY DEF ExecuteStart
  <1>2. Current(d) \in Attempts /\ Row(d) \in AttemptRow /\ Current(d)[2] < MaxAttempts
    BY <1>1, CurrentType, RowType DEF TypeOK
  <1>3. seen \in SeenAttempt /\ seen.att[2] < MaxAttempts
    BY <1>2 DEF SeenAttempt, AttemptRow
  <1>4. \/ x = [pc |-> "lookup", seen |-> seen, op |-> op, update |-> NULL]
        \/ x = [pc |-> "apply", seen |-> seen, op |-> op, update |-> CreateOnly]
    BY DEF ExecuteStart, ExecuteIdle, TypeOK
  <1>5. x \in ExecuteState /\ x.seen = seen /\ (x.pc = "apply" => x.update \in ManualUpdate)
    <2> HIDE DEF seen, x
    <2> QED
      BY <1>3, <1>4, CreateOnlyType DEF ExecuteState
  <1>6. \A v \in Operators : v # u => exec'[v] = exec[v]
    BY DEF ExecuteStart, TypeOK
  <1>7. DOMAIN exec' = Operators /\ exec' = [v \in DOMAIN exec' |-> exec'[v]]
    BY DEF ExecuteStart, TypeOK
  <1> HIDE DEF seen, x
  <1>8. exec' \in [Operators -> ExecuteState]
    BY <1>5, <1>6, <1>7 DEF x, TypeOK
  <1>9. LocalOK'
    BY <1>3, <1>5, <1>6 DEF x, ExecuteStart, ExecuteOnly, serverVars, LocalOK
  <1> QED
    BY <1>8, <1>9 DEF ExecuteStart, ExecuteOnly, serverVars, bindingVars, storeVars, remoteVars, TypeOK

LEMMA ReconciledType ==
    ASSUME NEW op, NEW r \in Resources, NEW ids \in SUBSET (Nat \ {0}), now \in Nat
    PROVE  Reconciled(op, r, ids) \in ManualUpdate
  <1>1. CASE ids = {}
    BY <1>1, CreateOnlyType DEF Reconciled
  <1>2. CASE ids # {}
    <2> DEFINE match == CHOOSE i \in ids : TRUE
               status == Observed(history[r][match].status)
    <2>1. match \in DeploymentIDs
      BY <1>2 DEF DeploymentIDs
    <2>2. status \in DeploymentStatus
      BY ObservedType DEF DeploymentStatus
    <2>3. now + Interval \in Time /\ now + Timeout \in Time /\ NULL \in Time
      BY DeliveryAssumption DEF Time
    <2>4. "enqueued" \in TransportStatus
      BY DEF TransportStatus
    <2>5. Reconciled(op, r, ids) =
            [correct |-> TRUE,
             create |-> status \in {"error", "cancelled"} /\ op = "redeploy",
             transport |-> "enqueued", deployment |-> status, depId |-> match,
             due |-> IF status \in Monitored THEN now + Interval ELSE NULL,
             deadline |-> IF status \in Monitored THEN now + Timeout ELSE NULL]
      BY <1>2 DEF Reconciled
    <2> HIDE DEF match, status
    <2> QED
      BY <2>1, <2>2, <2>3, <2>4, <2>5 DEF ManualUpdate
  <1> QED
    BY <1>1, <1>2

LEMMA ExecuteLookupType ==
    ASSUME TypeInv, NEW u \in Operators, ExecuteLookup(u)
    PROVE  TypeInv'
  <1> USE DEF TypeInv
  <1> DEFINE a == exec[u].seen.att
             r == ResourceOf(a[1])
             ids == FindDeployment(r, a, exec[u].seen.depId)
  <1>1. /\ exec[u] \in ExecuteState /\ exec[u].seen \in SeenAttempt
        /\ exec[u].seen.att[2] < MaxAttempts
    BY DEF ExecuteLookup, LocalOK, TypeOK
  <1>2. a \in Attempts /\ r \in Resources
    BY <1>1, KindOfType DEF SeenAttempt, Attempts
  <1>3. ids \in SUBSET (Nat \ {0})
    BY <1>2, LookupType DEF TypeOK
  <1>4. exec' = [exec EXCEPT ![u] = ExecuteIdle]
        \/ exec' = [exec EXCEPT ![u] = [exec[u] EXCEPT !.pc = "apply",
                                          !.update = Reconciled(exec[u].op, r, ids)]]
    BY DEF ExecuteLookup, TypeOK
  <1>5. CASE exec' = [exec EXCEPT ![u] = ExecuteIdle]
    <2>1. exec' \in [Operators -> ExecuteState]
      BY <1>5 DEF ExecuteIdle, ExecuteState, TypeOK
    <2>2. LocalOK'
      BY <1>5 DEF ExecuteLookup, ExecuteOnly, serverVars, ExecuteIdle, LocalOK, TypeOK
    <2> QED
      BY <2>1, <2>2 DEF ExecuteLookup, ExecuteOnly, serverVars, bindingVars, storeVars, remoteVars, TypeOK
  <1>6. CASE exec' = [exec EXCEPT ![u] = [exec[u] EXCEPT !.pc = "apply",
                                            !.update = Reconciled(exec[u].op, r, ids)]]
    <2>1. Reconciled(exec[u].op, r, ids) \in ManualUpdate
      BY <1>2, <1>3, ReconciledType DEF TypeOK
    <2> HIDE DEF r, ids
    <2>2. [exec[u] EXCEPT !.pc = "apply", !.update = Reconciled(exec[u].op, r, ids)]
             \in ExecuteState
      BY <1>1, <2>1 DEF ExecuteState
    <2>3. exec' \in [Operators -> ExecuteState]
      BY <1>6, <2>2 DEF TypeOK
    <2>4. LocalOK'
      BY <1>1, <1>6, <2>1 DEF ExecuteLookup, ExecuteOnly, serverVars, LocalOK, ExecuteState, TypeOK
    <2> QED
      BY <2>3, <2>4 DEF ExecuteLookup, ExecuteOnly, serverVars, bindingVars, storeVars, remoteVars, TypeOK
  <1> QED
    BY <1>4, <1>5, <1>6

(* What a management request leaves in the two tables.                       *)
LEMMA ApplyEffect ==
    ASSUME TypeInv, NEW u \in Operators, ApplyManualUpdate(u)
    PROVE  LET a == exec[u].seen.att
               update == exec[u].update
               row == IF update.correct THEN Corrected(attempt[a], update) ELSE attempt[a]
               fresh == <<a[1], a[2] + 1>>
           IN /\ a \in Attempts /\ a[1] \in Deliveries /\ update \in ManualUpdate
              /\ fresh \in Attempts /\ fresh # a
              /\ row \in AttemptRow
              /\ attempt' \in [Attempts -> AttemptRow]
              /\ delivery' \in [Deliveries -> DeliveryRow]
              /\ \/ UNCHANGED storeVars
                 \/ /\ SeenStillCurrent(exec[u].seen)
                    /\ attempt'[a] = row
                    /\ \A d \in Deliveries : d # a[1] => delivery'[d] = delivery[d]
                    /\ \/ /\ update.create
                          /\ attempt'[fresh] = NewAttempt
                          /\ \A b \in Attempts \ {a, fresh} : attempt'[b] = attempt[b]
                          /\ delivery'[a[1]].cur = a[2] + 1
                          /\ delivery'[a[1]].transport = "pending"
                          /\ delivery'[a[1]].deployment = "not_started"
                       \/ /\ ~update.create
                          /\ \A b \in Attempts \ {a} : attempt'[b] = attempt[b]
                          /\ delivery'[a[1]].cur = delivery[a[1]].cur
                          /\ delivery'[a[1]].transport = row.transport
                          /\ delivery'[a[1]].deployment = row.deployment
  <1> USE DEF TypeInv
  <1> DEFINE a == exec[u].seen.att
             update == exec[u].update
             row == IF update.correct THEN Corrected(attempt[a], update) ELSE attempt[a]
             fresh == <<a[1], a[2] + 1>>
  <1>1. /\ exec[u].seen \in SeenAttempt /\ exec[u].seen.att[2] < MaxAttempts
        /\ update \in ManualUpdate
    BY DEF ApplyManualUpdate, LocalOK
  <1>2. /\ a \in Attempts /\ a[1] \in Deliveries /\ a[2] \in 1..MaxAttempts
        /\ a[2] + 1 \in 1..MaxAttempts /\ a[2] + 1 # a[2] /\ a = <<a[1], a[2]>>
    BY <1>1, DeliveryAssumption DEF SeenAttempt, Attempts
  <1>3. fresh \in Attempts /\ fresh # a
    BY <1>2 DEF Attempts
  <1>4. attempt[a] \in AttemptRow
    BY <1>2 DEF TypeOK
  <1>5. row \in AttemptRow
    <2>1. /\ update.transport \in TransportStatus /\ update.deployment \in DeploymentStatus
          /\ update.depId \in DeploymentIDs /\ update.due \in Time /\ update.deadline \in Time
      BY <1>1 DEF ManualUpdate
    <2> HIDE DEF a, update
    <2> QED
      BY <1>4, <2>1 DEF Corrected, AttemptRow, Time
  <1>6. CASE UNCHANGED storeVars
    BY <1>1, <1>2, <1>3, <1>5, <1>6 DEF storeVars, TypeOK
  <1>7. CASE ~(UNCHANGED storeVars) /\ update.create
    <2> DEFINE next == [cur |-> a[2] + 1, transport |-> "pending", deployment |-> "not_started"]
    <2>1. /\ SeenStillCurrent(exec[u].seen)
          /\ attempt' = [attempt EXCEPT ![a] = row, ![fresh] = NewAttempt]
          /\ delivery' = [delivery EXCEPT ![a[1]] = next]
      BY <1>7 DEF ApplyManualUpdate
    <2>2. next \in DeliveryRow
      BY <1>2 DEF DeliveryRow, TransportStatus, DeploymentStatus
    <2>3. delivery' \in [Deliveries -> DeliveryRow]
      BY <1>2, <2>1, <2>2 DEF TypeOK
    <2> HIDE DEF row, fresh
    <2>4. /\ attempt' \in [Attempts -> AttemptRow]
          /\ attempt'[a] = row /\ attempt'[fresh] = NewAttempt
          /\ \A b \in Attempts \ {a, fresh} : attempt'[b] = attempt[b]
      BY <1>2, <1>3, <1>5, <2>1, NewAttemptType DEF TypeOK
    <2>5. /\ \A d \in Deliveries : d # a[1] => delivery'[d] = delivery[d]
          /\ delivery'[a[1]] = next
      BY <1>2, <2>1 DEF TypeOK
    <2> QED
      BY <1>1, <1>2, <1>3, <1>5, <1>7, <2>1, <2>3, <2>4, <2>5 DEF row, fresh
  <1>8. CASE ~(UNCHANGED storeVars) /\ ~update.create
    <2>1. SeenStillCurrent(exec[u].seen) /\ WriteCurrent(a, row)
      BY <1>8 DEF ApplyManualUpdate
    <2> HIDE DEF row
    <2>2. /\ attempt' \in [Attempts -> AttemptRow]
          /\ delivery' \in [Deliveries -> DeliveryRow]
          /\ attempt'[a] = row
          /\ \A b \in Attempts : b # a => attempt'[b] = attempt[b]
          /\ delivery'[a[1]].cur = delivery[a[1]].cur
          /\ delivery'[a[1]].transport = row.transport
          /\ delivery'[a[1]].deployment = row.deployment
          /\ \A d \in Deliveries : d # a[1] => delivery'[d] = delivery[d]
      BY <1>2, <1>5, <2>1, WriteCurrentEffect DEF TypeOK
    <2> QED
      BY <1>1, <1>2, <1>3, <1>5, <1>8, <2>1, <2>2 DEF row
  <1> QED
    BY <1>6, <1>7, <1>8

LEMMA ApplyType ==
    ASSUME TypeInv, NEW u \in Operators, ApplyManualUpdate(u)
    PROVE  TypeInv'
  <1>1. attempt' \in [Attempts -> AttemptRow] /\ delivery' \in [Deliveries -> DeliveryRow]
    BY ApplyEffect
  <1> USE DEF TypeInv
  <1>2. exec' \in [Operators -> ExecuteState] /\ LocalOK'
    BY DEF ApplyManualUpdate, ExecuteOnly, serverVars, ExecuteIdle, ExecuteState, LocalOK, TypeOK
  <1> QED
    BY <1>1, <1>2 DEF ApplyManualUpdate, ExecuteOnly, serverVars, bindingVars, remoteVars, TypeOK

-----------------------------------------------------------------------------
(* Type correctness of the remaining steps.                                 *)

LEMMA NoDeliveryType == NoDelivery \in DeliveryRow
  BY DeliveryAssumption DEF NoDelivery, DeliveryRow, TransportStatus, DeploymentStatus

LEMMA IngestType ==
    ASSUME TypeInv, NEW d \in Deliveries, Ingest(d)
    PROVE  TypeInv'
  <1> USE DEF TypeInv
  <1>1. [NoDelivery EXCEPT !.cur = 1] \in DeliveryRow /\ <<d, 1>> \in Attempts
    BY DeliveryAssumption DEF NoDelivery, DeliveryRow, TransportStatus, DeploymentStatus, Attempts
  <1>2. attempt' \in [Attempts -> AttemptRow] /\ delivery' \in [Deliveries -> DeliveryRow]
    BY <1>1, NewAttemptType DEF Ingest, TypeOK
  <1>3. ingested' \subseteq Deliveries /\ compatible' \subseteq ingested'
    BY DEF Ingest, TypeOK
  <1>4. LocalOK'
    BY DEF Ingest, StoreOnly, serverVars, LocalOK
  <1> QED
    BY <1>2, <1>3, <1>4 DEF Ingest, StoreOnly, serverVars, remoteVars, TypeOK

LEMMA DeleteType ==
    ASSUME TypeInv, NEW D \in SUBSET Deliveries, Delete(D)
    PROVE  TypeInv'
  <1> USE DEF TypeInv
  <1>1. attempt' \in [Attempts -> AttemptRow] /\ delivery' \in [Deliveries -> DeliveryRow]
    BY NewAttemptType, NoDeliveryType DEF Delete, TypeOK
  <1>2. LocalOK'
    BY DEF Delete, StoreOnly, serverVars, LocalOK
  <1> QED
    BY <1>1, <1>2 DEF Delete, StoreOnly, serverVars, bindingVars, remoteVars, TypeOK

LEMMA PublishType ==
    ASSUME TypeInv, NEW S \in SUBSET ingested, PublishGeneration(S)
    PROVE  TypeInv'
  <1>1. LocalOK'
    BY DEF TypeInv, PublishGeneration, StoreOnly, serverVars, LocalOK
  <1> QED
    BY <1>1 DEF TypeInv, PublishGeneration, StoreOnly, serverVars, storeVars, remoteVars, TypeOK

LEMMA TickType == TypeInv /\ Tick => TypeInv'
  <1> SUFFICES ASSUME TypeInv, Tick PROVE TypeInv'
    OBVIOUS
  <1>1. LocalOK'
    BY DEF TypeInv, Tick, LocalOK
  <1> QED
    BY <1>1 DEF TypeInv, Tick, bindingVars, storeVars, remoteVars, TypeOK

LEMMA CrashType == TypeInv /\ Crash => TypeInv'
  BY StopType DEF TypeInv, Crash, bindingVars, storeVars, remoteVars, TypeOK

LEMMA BootType ==
    ASSUME TypeInv, NEW S \in SUBSET ingested, Boot(S)
    PROVE  TypeInv'
  <1>1. LocalOK'
    BY DEF TypeInv, Boot, StartupOnly, LocalOK
  <1> QED
    BY <1>1 DEF TypeInv, Boot, StartupOnly, storeVars, remoteVars, TypeOK

LEMMA TerminatedType ==
    ASSUME NEW row \in AttemptRow
    PROVE  Terminated(row) \in AttemptRow
  BY DEF Terminated, AttemptRow, TransportStatus, DeploymentStatus, Time

LEMMA TerminateType ==
    ASSUME TypeInv, NEW d \in Deliveries, TerminateIncompatibleActive(d)
    PROVE  TypeInv'
  <1> USE DEF TypeInv
  <1>1. Current(d) \in Attempts /\ Terminated(Row(d)) \in AttemptRow
    BY CurrentType, RowType, TerminatedType
       DEF TerminateIncompatibleActive, ActiveDelivery, TypeOK
  <1>2. attempt' \in [Attempts -> AttemptRow] /\ delivery' \in [Deliveries -> DeliveryRow]
    BY <1>1, WriteCurrentEffect DEF TerminateIncompatibleActive, TypeOK
  <1>3. LocalOK'
    BY DEF TerminateIncompatibleActive, StartupOnly, LocalOK
  <1> QED
    BY <1>2, <1>3 DEF TerminateIncompatibleActive, StartupOnly, bindingVars, remoteVars, TypeOK

LEMMA RecoveredType ==
    ASSUME NEW row \in AttemptRow, now \in Nat
    PROVE  Recovered(row) \in AttemptRow
  <1>1. now + Interval \in Time /\ now + Timeout \in Time /\ NULL \in Time
    BY DeliveryAssumption DEF Time
  <1>2. "unknown" \in TransportStatus /\ "locating" \in DeploymentStatus
    BY DEF TransportStatus, DeploymentStatus
  <1> QED
    BY <1>1, <1>2 DEF Recovered, AttemptRow

LEMMA RecoverType == TypeInv /\ RecoverInterrupted => TypeInv'
  <1> SUFFICES ASSUME TypeInv, RecoverInterrupted PROVE TypeInv'
    OBVIOUS
  <1> USE DEF TypeInv
  <1>1. attempt' \in [Attempts -> AttemptRow]
    BY RecoveredType DEF RecoverInterrupted, TypeOK
  <1>2. delivery' \in [Deliveries -> DeliveryRow]
    <2>1. ASSUME NEW d \in Deliveries
          PROVE  [delivery[d] EXCEPT !.transport = "unknown", !.deployment = "locating"]
                    \in DeliveryRow
      BY DEF DeliveryRow, TransportStatus, DeploymentStatus, TypeOK
    <2> QED
      BY <2>1 DEF RecoverInterrupted, TypeOK
  <1>3. LocalOK'
    BY DEF RecoverInterrupted, StartupOnly, LocalOK
  <1> QED
    BY <1>1, <1>2, <1>3 DEF RecoverInterrupted, StartupOnly, bindingVars, remoteVars, TypeOK

LEMMA RemoteType == TypeInv /\ Remote => TypeInv'
  <1> SUFFICES ASSUME TypeInv, Remote PROVE TypeInv'
    OBVIOUS
  <1> USE DEF TypeInv
  <1>1. RemoteOnly
    BY DEF Remote, RemoteList, RemoteForeign, RemoteProgress, RemoteRelabel, RemoteTrim
  <1>2. LocalOK'
    BY <1>1 DEF RemoteOnly, serverVars, LocalOK
  <1> DEFINE RemoteStateOK == /\ history' \in [Resources -> Seq(Record)]
                              /\ trimmed' \in [Resources -> Nat]
                              /\ inbox' \subseteq Attempts
  <1>3. ASSUME NEW a \in inbox, RemoteList(a) PROVE RemoteStateOK
    <2>1. a \in Attempts /\ ResourceOf(a[1]) \in Resources /\ NewRecord(a) \in Record
      BY <1>3, KindOfType, NewRecordType DEF TypeOK, Attempts
    <2> QED
      BY <1>3, <2>1, AppendHistoryType DEF RemoteList, TypeOK
  <1>4. ASSUME NEW r \in Resources, RemoteForeign(r) PROVE RemoteStateOK
    BY <1>4, NewRecordType, AppendHistoryType DEF RemoteForeign, TypeOK
  <1>5. ASSUME NEW r \in Resources, NEW i \in DOMAIN history[r], NEW s \in RemoteStatus,
               RemoteProgress(r, i, s)
        PROVE  RemoteStateOK
    <2>1. history[r] \in Seq(Record)
      BY DEF TypeOK
    <2>2. [history[r][i] EXCEPT !.status = s] \in Record
      <3>1. history[r][i] \in Record
        BY <2>1
      <3> QED
        BY <3>1 DEF Record
    <2>3. [history[r] EXCEPT ![i] = [history[r][i] EXCEPT !.status = s]] \in Seq(Record)
      BY <2>1, <2>2
    <2> QED
      BY <1>5, <2>3 DEF RemoteProgress, TypeOK
  <1>6. ASSUME NEW r \in Resources, NEW i \in DOMAIN history[r], RemoteRelabel(r, i)
        PROVE  RemoteStateOK
    <2>1. history[r] \in Seq(Record)
      BY DEF TypeOK
    <2>2. [history[r][i] EXCEPT !.labelled = FALSE] \in Record
      <3>1. history[r][i] \in Record
        BY <2>1
      <3> QED
        BY <3>1 DEF Record
    <2>3. [history[r] EXCEPT ![i] = [history[r][i] EXCEPT !.labelled = FALSE]] \in Seq(Record)
      BY <2>1, <2>2
    <2> QED
      BY <1>6, <2>3 DEF RemoteRelabel, TypeOK
  <1>7. ASSUME NEW r \in Resources, RemoteTrim(r) PROVE RemoteStateOK
    BY <1>7 DEF RemoteTrim, TypeOK
  <1>8. RemoteStateOK
    BY <1>3, <1>4, <1>5, <1>6, <1>7 DEF Remote
  <1> QED
    BY <1>1, <1>2, <1>8 DEF RemoteOnly, serverVars, bindingVars, storeVars, TypeOK

LEMMA StutterType == TypeInv /\ UNCHANGED vars => TypeInv'
  <1> SUFFICES ASSUME TypeInv, UNCHANGED vars PROVE TypeInv'
    OBVIOUS
  <1>1. LocalOK'
    BY DEF TypeInv, vars, serverVars, LocalOK
  <1> QED
    BY <1>1 DEF TypeInv, vars, serverVars, bindingVars, storeVars, remoteVars, TypeOK

(* Every step keeps the state well formed.                                   *)
LEMMA NextType == TypeInv /\ [Next]_vars => TypeInv'
  <1> SUFFICES ASSUME TypeInv, [Next]_vars PROVE TypeInv'
    OBVIOUS
  <1>1. CASE Dispatch
    <2>1. CASE PostAccepted \/ PostRefused \/ PostUncertain
      BY <2>1, PostType DEF PostAccepted, PostRefused, PostUncertain
    <2> QED
      BY <1>1, <2>1, ClaimType, PreflightType, CursorType, RecordType, RequestFailsType,
         TransitionType
         DEF Dispatch
  <1>2. CASE Poll
    BY <1>2, ListDuePollsType, PollLookupType, CompletePollType DEF Poll
  <1>3. CASE Manual
    BY <1>3, ExecuteStartType, ExecuteLookupType, ApplyType DEF Manual
  <1>4. CASE Startup
    BY <1>4, BootType, TerminateType, RecoverType DEF Startup
  <1>5. CASE Remote
    BY <1>5, RemoteType
  <1>6. CASE Crash \/ Tick \/ UNCHANGED vars
    BY <1>6, CrashType, TickType, StutterType
  <1>7. CASE \E d \in Deliveries : Ingest(d)
    BY <1>7, IngestType
  <1>8. CASE (\E D \in SUBSET Deliveries : Prune(D)) \/ ClearHistory
    BY <1>8, DeleteType DEF Prune, ClearHistory
  <1>9. CASE \E S \in SUBSET ingested : PublishGeneration(S)
    BY <1>9, PublishType
  <1> QED
    BY <1>1, <1>2, <1>3, <1>4, <1>5, <1>6, <1>7, <1>8, <1>9 DEF Next

(* Both tables, the workers' and requests' local state and the remote history *)
(* are well formed in every reachable state: no store method is ever called   *)
(* with something it did not get from a row.                                  *)
THEOREM TypeCorrect == Spec => []TypeOK
  <1>1. Spec => []TypeInv
    BY InitType, NextType, PTL DEF Spec
  <1>2. TypeInv => TypeOK
    BY DEF TypeInv
  <1> QED
    BY <1>1, <1>2, PTL

-----------------------------------------------------------------------------
(* The safety invariant: steps that leave the tables alone.                 *)

SafeInv ==
    /\ DownIsIdle /\ RowsOK /\ DeliveryMirrorsAttempt /\ DispatcherKeepsItsAttempt
    /\ PollOK /\ ExecOK /\ PostOK /\ AtMostOnePost /\ SendsSerialized /\ ActiveIsCompatible

LEMMA IndInvParts == IndInv <=> TypeInv /\ SafeInv
  BY DEF IndInv, TypeInv, SafeInv

LEMMA InitSafe == Init => SafeInv
  <1> SUFFICES ASSUME Init PROVE SafeInv
    OBVIOUS
  <1>1. \A d \in Deliveries : ~Exists(d) /\ ~UnboundInFlight(d) /\ ~ActiveDelivery(d)
    BY DEF Init, Exists, NoDelivery, UnboundInFlight, ActiveDelivery
  <1>2. DownIsIdle /\ RowsOK /\ DeliveryMirrorsAttempt /\ DispatcherKeepsItsAttempt
    BY <1>1 DEF Init, DownIsIdle, RowsOK, DeliveryMirrorsAttempt, DispatcherKeepsItsAttempt,
                DispatcherIdle
  <1>3. PollOK /\ ExecOK
    BY DEF Init, PollOK, ExecOK, PollerIdle, ExecuteIdle
  <1>4. PostOK /\ AtMostOnePost
    BY DEF Init, PostOK, AtMostOnePost
  <1>5. SendsSerialized /\ ActiveIsCompatible
    BY <1>1 DEF SendsSerialized, ActiveIsCompatible
  <1> QED
    BY <1>2, <1>3, <1>4, <1>5 DEF SafeInv

LEMMA StoreSame ==
    ASSUME SafeInv, UNCHANGED <<storeVars, ingested>>
    PROVE  RowsOK' /\ DeliveryMirrorsAttempt' /\ SendsSerialized'
  BY DEF SafeInv, storeVars, RowsOK, DeliveryMirrorsAttempt, SendsSerialized, UnboundInFlight,
         Exists, Row, Current

LEMMA ActiveSame ==
    ASSUME SafeInv, UNCHANGED <<storeVars, phase>>, compatible \subseteq compatible'
    PROVE  ActiveIsCompatible'
  BY DEF SafeInv, storeVars, ActiveIsCompatible, ActiveDelivery, Exists, Row, Current

LEMMA PollSame ==
    ASSUME SafeInv, UNCHANGED <<storeVars, poll>>
    PROVE  PollOK'
  BY DEF SafeInv, storeVars, PollOK, WorkOK, ClaimOK, PollClaimHeld, IsCurrent

LEMMA ExecSame ==
    ASSUME SafeInv, UNCHANGED exec, compatible \subseteq compatible'
    PROVE  ExecOK'
  BY DEF SafeInv, ExecOK, RequestOK

LEMMA DispSame ==
    ASSUME SafeInv, UNCHANGED <<storeVars, disp>>
    PROVE  DispatcherKeepsItsAttempt'
  BY DEF SafeInv, storeVars, DispatcherKeepsItsAttempt, StillSending, IsCurrent

LEMMA PostSame ==
    ASSUME SafeInv, UNCHANGED <<storeVars, ingested, posts>>,
           \A a \in Attempts :
              disp'.pc \in {"preflight", "cursor", "record", "post"} /\ disp'.att = a =>
              disp.pc \in {"preflight", "cursor", "record", "post"} /\ disp.att = a
    PROVE  PostOK' /\ AtMostOnePost'
  BY DEF SafeInv, storeVars, PostOK, Unsent, Exists, IsCurrent, AtMostOnePost

(* The process stops: nothing is in progress and no row has changed.         *)
LEMMA StopSafe ==
    ASSUME SafeInv, Stop, UNCHANGED <<storeVars, bindingVars, posts>>
    PROVE  SafeInv'
  <1>1. /\ phase' = "down" /\ disp' = DispatcherIdle /\ poll' = PollerIdle
        /\ \A u \in Operators : exec'[u] = ExecuteIdle
    BY DEF Stop
  <1>2. DownIsIdle' /\ ActiveIsCompatible'
    BY <1>1 DEF DownIsIdle, ActiveIsCompatible
  <1>3. DispatcherKeepsItsAttempt' /\ PollOK' /\ ExecOK'
    BY <1>1 DEF DispatcherKeepsItsAttempt, PollOK, ExecOK, DispatcherIdle, PollerIdle, ExecuteIdle
  <1>4. PostOK' /\ AtMostOnePost'
    BY <1>1, PostSame DEF DispatcherIdle, bindingVars
  <1>5. RowsOK' /\ DeliveryMirrorsAttempt' /\ SendsSerialized'
    BY StoreSame DEF bindingVars
  <1> QED
    BY <1>2, <1>3, <1>4, <1>5 DEF SafeInv

LEMMA CrashSafe == SafeInv /\ Crash => SafeInv'
  BY StopSafe DEF Crash

LEMMA StutterSafe == SafeInv /\ UNCHANGED vars => SafeInv'
  <1> SUFFICES ASSUME SafeInv, UNCHANGED vars PROVE SafeInv'
    OBVIOUS
  <1>1. UNCHANGED <<storeVars, ingested, compatible, posts, phase, disp, poll, exec>>
    BY DEF vars, serverVars, bindingVars
  <1>2. DownIsIdle'
    BY <1>1 DEF SafeInv, DownIsIdle
  <1> QED
    BY <1>1, <1>2, StoreSame, ActiveSame, PollSame, ExecSame, DispSame, PostSame DEF SafeInv

LEMMA RemoteTickSafe == SafeInv /\ (Remote \/ Tick) => SafeInv'
  <1> SUFFICES ASSUME SafeInv, Remote \/ Tick PROVE SafeInv'
    OBVIOUS
  <1>1. UNCHANGED <<storeVars, ingested, compatible, posts, phase, disp, poll, exec>>
    BY DEF Remote, RemoteList, RemoteForeign, RemoteProgress, RemoteRelabel, RemoteTrim,
           RemoteOnly, Tick, serverVars, bindingVars
  <1>2. DownIsIdle'
    BY <1>1 DEF SafeInv, DownIsIdle
  <1> QED
    BY <1>1, <1>2, StoreSame, ActiveSame, PollSame, ExecSame, DispSame, PostSame DEF SafeInv

(* Preflight and RequestFails advance the dispatcher only.                   *)
LEMMA DispatcherAdvances ==
    ASSUME TypeInv, SafeInv, Preflight \/ RequestFails
    PROVE  SafeInv'
  <1>1. /\ phase = "up" /\ disp.pc \in {"preflight", "record"}
        /\ UNCHANGED <<storeVars, ingested, compatible, posts, phase, poll, exec>>
    BY DEF Preflight, RequestFails, DispatcherOnly, serverVars, bindingVars
  <1>2. /\ disp'.att = disp.att
        /\ disp'.pc \in {"cursor", "outcome"}
        /\ disp'.pc = "cursor" => disp.pc = "preflight"
    BY DEF Preflight, RequestFails, TypeInv, TypeOK, DispatcherState
  <1>3. DispatcherKeepsItsAttempt'
    BY <1>1, <1>2 DEF SafeInv, storeVars, DispatcherKeepsItsAttempt, StillSending, IsCurrent
  <1>4. PostOK' /\ AtMostOnePost'
    BY <1>1, <1>2, PostSame
  <1>5. DownIsIdle'
    BY <1>1 DEF DownIsIdle
  <1> QED
    BY <1>1, <1>3, <1>4, <1>5, StoreSame, ActiveSame, PollSame, ExecSame DEF SafeInv

(* The one POST of an attempt: until it the dispatcher's attempt is unsent.  *)
LEMMA PostSafe ==
    ASSUME TypeInv, SafeInv, NEW result, Post(result)
    PROVE  SafeInv'
  <1>1. /\ phase = "up" /\ disp.pc = "post" /\ disp.att \in Attempts
        /\ UNCHANGED <<storeVars, ingested, compatible, phase, poll, exec>>
        /\ posts' = [posts EXCEPT ![disp.att] = @ + 1]
    BY DEF Post, DispatcherOnly, serverVars, bindingVars, TypeInv, LocalOK
  <1>2. disp'.att = disp.att /\ disp'.pc = "outcome"
    BY DEF Post, TypeInv, TypeOK, DispatcherState
  <1>3. StillSending(disp.att) /\ disp.att[1] \in ingested /\ posts[disp.att] = 0
    <2>1. StillSending(disp.att)
      BY <1>1 DEF SafeInv, DispatcherKeepsItsAttempt
    <2>2. disp.att[1] \in Deliveries /\ disp.att[2] # 0
      BY <1>1, DeliveryAssumption DEF Attempts
    <2> QED
      BY <1>1, <2>1, <2>2
         DEF SafeInv, RowsOK, Exists, StillSending, IsCurrent, PostOK, Unsent
  <1>4. DispatcherKeepsItsAttempt'
    BY <1>1, <1>2 DEF SafeInv, storeVars, DispatcherKeepsItsAttempt, StillSending, IsCurrent
  <1>5. ~Unsent(disp.att)'
    <2>1. disp.att[2] \in Nat
      BY <1>1, DeliveryAssumption DEF Attempts
    <2> QED
      BY <1>1, <1>2, <1>3, <2>1 DEF Unsent, storeVars, StillSending, IsCurrent, Exists
  <1>6. \A a \in Attempts : a # disp.att => posts'[a] = posts[a] /\ (Unsent(a)' => Unsent(a))
    BY <1>1, <1>2 DEF TypeInv, TypeOK, Unsent, storeVars, IsCurrent, Exists
  <1>7. posts'[disp.att] = 1
    BY <1>1, <1>3 DEF TypeInv, TypeOK
  <1>8. PostOK' /\ AtMostOnePost'
    <2>1. \A a \in Attempts : Unsent(a)' => a # disp.att
      BY <1>2, <1>5
    <2>2. PostOK'
      BY <1>6, <2>1 DEF SafeInv, PostOK
    <2>3. \A a \in Attempts : posts'[a] <= 1
      BY <1>6, <1>7 DEF SafeInv, AtMostOnePost
    <2> QED
      BY <2>2, <2>3 DEF AtMostOnePost
  <1>9. DownIsIdle'
    BY <1>1 DEF DownIsIdle
  <1> QED
    BY <1>1, <1>4, <1>8, <1>9, StoreSame, ActiveSame, PollSame, ExecSame DEF SafeInv

LEMMA PollLookupSafe ==
    ASSUME TypeInv, SafeInv, NEW w \in poll.todo, PollLookup(w)
    PROVE  SafeInv'
  <1>1. /\ phase = "up" /\ poll.item = NULL
        /\ UNCHANGED <<storeVars, ingested, compatible, posts, phase, disp, exec>>
    BY DEF PollLookup, PollerOnly, serverVars, bindingVars
  <1>2. \E ids, unsafe :
           poll' = [poll EXCEPT !.todo = @ \ {w}, !.item = w,
                                !.update = PollUpdate(w, ids, unsafe, poll.at)]
    BY DEF PollLookup
  <1>3. PICK ids, unsafe :
           poll' = [poll EXCEPT !.todo = @ \ {w}, !.item = w,
                                !.update = PollUpdate(w, ids, unsafe, poll.at)]
    BY <1>2
  <1>4. /\ poll'.todo = poll.todo \ {w} /\ poll'.item = w /\ poll'.at = poll.at
        /\ poll'.update = PollUpdate(w, ids, unsafe, poll.at)
    BY <1>3 DEF TypeInv, TypeOK, PollerState
  <1>5. WorkOK(w) /\ \A v \in poll.todo : WorkOK(v) /\ (v.att = w.att => v = w)
    BY DEF SafeInv, PollOK
  <1>6. \A v : WorkOK(v) => WorkOK(v)'
    BY <1>1, <1>4 DEF WorkOK, ClaimOK, PollClaimHeld, IsCurrent, storeVars
  <1>7. /\ poll'.update.transport \in {"enqueued", "unknown"}
        /\ poll'.update.deployment \in Monitored => poll'.update.due # NULL
    <2>1. w.transport \in {"enqueued", "unknown"} /\ poll.at \in Nat
      BY <1>5 DEF WorkOK, TypeInv, LocalOK
    <2>2. poll.at + Interval # NULL
      BY <2>1, DeliveryAssumption
    <2> QED
      BY <1>4, <2>1, <2>2 DEF PollUpdate
  <1>8. PollOK'
    BY <1>4, <1>5, <1>6, <1>7 DEF SafeInv, PollOK
  <1>9. DownIsIdle'
    BY <1>1 DEF DownIsIdle
  <1> QED
    BY <1>1, <1>8, <1>9, StoreSame, ActiveSame, ExecSame, DispSame, PostSame DEF SafeInv

LEMMA ExecuteStartSafe ==
    ASSUME TypeInv, SafeInv, NEW u \in Operators, NEW d \in Deliveries, NEW op \in Operation,
           ExecuteStart(u, d, op)
    PROVE  SafeInv'
  <1>1. /\ phase = "up"
        /\ UNCHANGED <<storeVars, ingested, compatible, posts, phase, disp, poll>>
        /\ \A v \in Operators : v # u => exec'[v] = exec[v]
    BY DEF ExecuteStart, ExecuteOnly, serverVars, bindingVars, TypeInv, TypeOK
  <1>2. RequestOK(exec[u])'
    <2> DEFINE seen == [att |-> Current(d), transport |-> Row(d).transport,
                        deployment |-> Row(d).deployment, depId |-> Row(d).depId]
               x == exec'[u]
    <2>1. Row(d).transport \notin {"pending", "sending"}
      <3>1. RowOK(Row(d))
        BY DEF ExecuteStart, SafeInv, RowsOK
      <3> QED
        BY <3>1 DEF ExecuteStart, RowOK, Active
    <2>2. \/ x = [pc |-> "lookup", seen |-> seen, op |-> op, update |-> NULL]
          \/ x = [pc |-> "apply", seen |-> seen, op |-> op, update |-> CreateOnly]
      BY DEF ExecuteStart, ExecuteIdle, TypeInv, TypeOK
    <2>3. x.seen = seen /\ (x.pc = "apply" => x.update = CreateOnly)
      BY <2>2
    <2>4. seen.transport = Row(d).transport /\ seen.att[1] = d
      BY DEF Current
    <2>5. d \in compatible'
      BY <1>1 DEF ExecuteStart
    <2> HIDE DEF seen
    <2> QED
      BY <2>1, <2>3, <2>4, <2>5 DEF RequestOK, CreateOnly
  <1>3. ExecOK'
    BY <1>1, <1>2 DEF SafeInv, ExecOK, RequestOK
  <1>4. DownIsIdle'
    BY <1>1 DEF DownIsIdle
  <1> QED
    BY <1>1, <1>3, <1>4, StoreSame, ActiveSame, PollSame, DispSame, PostSame DEF SafeInv

LEMMA ExecuteLookupSafe ==
    ASSUME TypeInv, SafeInv, NEW u \in Operators, ExecuteLookup(u)
    PROVE  SafeInv'
  <1>1. /\ phase = "up" /\ exec[u].pc = "lookup"
        /\ UNCHANGED <<storeVars, ingested, compatible, posts, phase, disp, poll>>
        /\ \A v \in Operators : v # u => exec'[v] = exec[v]
    BY DEF ExecuteLookup, ExecuteOnly, serverVars, bindingVars, TypeInv, TypeOK
  <1>2. exec'[u].pc # "idle" => RequestOK(exec[u])'
    <2> DEFINE a == exec[u].seen.att
               r == ResourceOf(a[1])
               ids == FindDeployment(r, a, exec[u].seen.depId)
               up == Reconciled(exec[u].op, r, ids)
    <2>1. \/ exec'[u].pc = "idle"
          \/ exec'[u] = [exec[u] EXCEPT !.pc = "apply", !.update = up]
      <3>1. \/ exec' = [exec EXCEPT ![u] = ExecuteIdle]
            \/ exec' = [exec EXCEPT ![u] = [exec[u] EXCEPT !.pc = "apply", !.update = up]]
        BY DEF ExecuteLookup, TypeInv, TypeOK
      <3> HIDE DEF up
      <3> QED
        BY <3>1 DEF ExecuteIdle, TypeInv, TypeOK
    <2>2. exec[u] \in ExecuteState /\ a \in Attempts /\ r \in Resources
      BY <1>1, KindOfType DEF TypeInv, TypeOK, LocalOK, SeenAttempt, Attempts
    <2>3. ids \subseteq Nat \ {0}
      BY <2>2, LookupType DEF TypeInv, TypeOK
    <2>4. /\ up.correct \/ up.create
          /\ up.correct =>
                /\ up.transport = "enqueued" /\ up.depId # NULL
                /\ up.deployment \in Monitored => up.due # NULL /\ up.deadline # NULL
      <3>1. now + Interval # NULL /\ now + Timeout # NULL
        BY DeliveryAssumption DEF TypeInv, TypeOK
      <3>2. ids # {} => (CHOOSE i \in ids : TRUE) \in Nat
        BY <2>3
      <3>3. NULL \notin Nat
        BY DeliveryAssumption
      <3> HIDE DEF ids, r
      <3> QED
        BY <3>1, <3>2, <3>3 DEF Reconciled, CreateOnly
    <2>5. RequestOK(exec[u])
      BY <1>1 DEF SafeInv, ExecOK
    <2> HIDE DEF up, a, r, ids
    <2>6. CASE exec'[u] = [exec[u] EXCEPT !.pc = "apply", !.update = up]
      <3>1. exec'[u].seen = exec[u].seen /\ exec'[u].update = up
        BY <2>2, <2>6 DEF ExecuteState
      <3> QED
        BY <1>1, <2>4, <2>5, <3>1 DEF RequestOK
    <2> QED
      BY <2>1, <2>6
  <1>3. ExecOK'
    BY <1>1, <1>2 DEF SafeInv, ExecOK, RequestOK
  <1>4. DownIsIdle'
    BY <1>1 DEF DownIsIdle
  <1> QED
    BY <1>1, <1>3, <1>4, StoreSame, ActiveSame, PollSame, DispSame, PostSame DEF SafeInv

-----------------------------------------------------------------------------
(* The safety invariant: steps that write one current row.                  *)

InFlight(row) == row.depId = NULL /\ (row.transport = "sending" \/ row.deployment \in Monitored)

(* One current attempt gets a new row and its delivery mirrors it.           *)
RowWritten(a, row) ==
    /\ IsCurrent(a)
    /\ attempt'[a] = row
    /\ \A b \in Attempts : b # a => attempt'[b] = attempt[b]
    /\ delivery'[a[1]].cur = delivery[a[1]].cur
    /\ delivery'[a[1]].transport = row.transport
    /\ delivery'[a[1]].deployment = row.deployment
    /\ \A d \in Deliveries : d # a[1] => delivery'[d] = delivery[d]

LEMMA RowWrittenEffect ==
    ASSUME TypeInv, NEW a \in Attempts, NEW row \in AttemptRow, RowWritten(a, row)
    PROVE  /\ \A d \in Deliveries : Exists(d)' <=> Exists(d)
           /\ \A d \in Deliveries : delivery'[d].cur = delivery[d].cur
           /\ Exists(a[1]) /\ a[1] \in Deliveries
           /\ Row(a[1]) = attempt[a]
           /\ Row(a[1])' = row
           /\ \A d \in Deliveries : d # a[1] /\ Exists(d) => Row(d)' = Row(d)
  <1>1. a[1] \in Deliveries /\ a[2] # 0 /\ a = <<a[1], a[2]>>
    BY DeliveryAssumption DEF Attempts
  <1>2. \A d \in Deliveries : delivery'[d].cur = delivery[d].cur
    BY <1>1 DEF RowWritten
  <1>3. \A d \in Deliveries : Exists(d)' <=> Exists(d)
    BY <1>2 DEF Exists
  <1>4. Current(a[1]) = a /\ Current(a[1])' = a
    BY <1>1, <1>2 DEF RowWritten, IsCurrent, Current
  <1>5. ASSUME NEW d \in Deliveries, d # a[1], Exists(d)
        PROVE  Row(d)' = Row(d)
    <2>1. Current(d) \in Attempts /\ Current(d)[1] = d
      BY <1>5, CurrentType DEF TypeInv, TypeOK
    <2>2. Current(d) # a /\ Current(d)' = Current(d)
      BY <1>2, <1>5, <2>1 DEF Current
    <2> QED
      BY <2>1, <2>2 DEF RowWritten, Row
  <1>6. Row(a[1]) = attempt[a] /\ Row(a[1])' = row
    BY <1>4 DEF Row, RowWritten
  <1> QED
    BY <1>1, <1>2, <1>3, <1>5, <1>6 DEF RowWritten, IsCurrent, Exists

LEMMA RowWrittenRows ==
    ASSUME TypeInv, SafeInv, NEW a \in Attempts, NEW row \in AttemptRow, RowWritten(a, row),
           RowOK(row), UNCHANGED ingested
    PROVE  RowsOK' /\ DeliveryMirrorsAttempt'
  <1>1. \A d \in Deliveries : Exists(d)' => d \in ingested' /\ RowOK(Row(d)')
    BY RowWrittenEffect DEF SafeInv, RowsOK
  <1>2. \A d \in Deliveries : Exists(d)' =>
            delivery'[d].transport = Row(d)'.transport /\ delivery'[d].deployment = Row(d)'.deployment
    BY RowWrittenEffect DEF SafeInv, DeliveryMirrorsAttempt, RowWritten
  <1> QED
    BY <1>1, <1>2 DEF RowsOK, RowOK, DeliveryMirrorsAttempt

(* Sends stay serialized when the row was in flight before, or no delivery   *)
(* it must be kept apart from is.                                            *)
LEMMA RowWrittenSerialized ==
    ASSUME TypeInv, SafeInv, NEW a \in Attempts, NEW row \in AttemptRow, RowWritten(a, row),
           InFlight(row) =>
              \/ InFlight(attempt[a])
              \/ \A e \in Deliveries : KeptApart(a[1], e) => ~UnboundInFlight(e)
    PROVE  SendsSerialized'
  <1>1. \A d \in Deliveries : UnboundInFlight(d) <=> Exists(d) /\ InFlight(Row(d))
    BY DEF UnboundInFlight, InFlight
  <1>2. \A d \in Deliveries : UnboundInFlight(d)' <=> Exists(d)' /\ InFlight(Row(d)')
    BY DEF UnboundInFlight, InFlight
  <1>3. \A d, e \in Deliveries : KeptApart(d, e) => KeptApart(e, d) /\ d # e
    BY DEF KeptApart
  <1>4. \A d \in Deliveries : d # a[1] => (UnboundInFlight(d)' <=> UnboundInFlight(d))
    BY <1>1, <1>2, RowWrittenEffect
  <1>5. UnboundInFlight(a[1])' =>
           \/ UnboundInFlight(a[1])
           \/ \A e \in Deliveries : KeptApart(a[1], e) => ~UnboundInFlight(e)
    BY <1>1, <1>2, RowWrittenEffect
  <1>6. a[1] \in Deliveries
    BY DEF Attempts
  <1>7. ASSUME NEW d \in Deliveries, NEW e \in Deliveries, KeptApart(d, e),
               UnboundInFlight(d)', UnboundInFlight(e)'
        PROVE  FALSE
    <2>1. ~(UnboundInFlight(d) /\ UnboundInFlight(e))
      BY <1>7 DEF SafeInv, SendsSerialized
    <2>2. CASE d = a[1]
      BY <1>3, <1>4, <1>5, <1>7, <2>1, <2>2
    <2>3. CASE e = a[1]
      BY <1>3, <1>4, <1>5, <1>7, <2>1, <2>3
    <2> QED
      BY <1>4, <1>7, <2>1, <2>2, <2>3
  <1>8. \A d, e \in Deliveries : KeptApart(d, e)' <=> KeptApart(d, e)
    BY DEF KeptApart
  <1> QED
    BY <1>7, <1>8 DEF SendsSerialized

LEMMA RowWrittenActive ==
    ASSUME TypeInv, SafeInv, NEW a \in Attempts, NEW row \in AttemptRow, RowWritten(a, row),
           UNCHANGED <<compatible, phase>>,
           phase = "up" /\ Active(row.transport, row.deployment) => a[1] \in compatible
    PROVE  ActiveIsCompatible'
  <1>1. \A d \in Deliveries : ActiveDelivery(d)' =>
           \/ d = a[1] /\ Active(row.transport, row.deployment)
           \/ ActiveDelivery(d)
    BY RowWrittenEffect DEF ActiveDelivery, Active
  <1> QED
    BY <1>1 DEF SafeInv, ActiveIsCompatible

(* A poll in progress survives when the row holds no claim of it.            *)
LEMMA RowWrittenPoll ==
    ASSUME TypeInv, SafeInv, NEW a \in Attempts, NEW row \in AttemptRow, RowWritten(a, row),
           UNCHANGED poll,
           poll.at \in Nat => row.polled # poll.at \/ attempt[a].deployment \notin Monitored,
           row.polled \in {attempt[a].polled, NULL}
    PROVE  PollOK'
  <1>1. ASSUME NEW w \in PollWork, WorkOK(w), poll.at \in Nat
        PROVE  WorkOK(w)'
    <2>1. w.att \in Attempts /\ w.att[1] \in Deliveries
      BY DEF PollWork, Attempts
    <2>2. IsCurrent(w.att)' <=> IsCurrent(w.att)
      BY <2>1, RowWrittenEffect DEF IsCurrent
    <2>3. CASE w.att # a
      BY <1>1, <2>1, <2>2, <2>3 DEF RowWritten, WorkOK, ClaimOK, PollClaimHeld
    <2>4. CASE w.att = a
      <3>1. ~PollClaimHeld(w.att)'
        BY <1>1, <2>2, <2>4, DeliveryAssumption DEF RowWritten, WorkOK, ClaimOK, PollClaimHeld
      <3> QED
        BY <1>1, <3>1 DEF WorkOK, ClaimOK
    <2> QED
      BY <2>3, <2>4
  <1>2. \A w \in poll.todo : w \in PollWork /\ poll.at \in Nat
    BY DEF TypeInv, TypeOK, PollerState, LocalOK
  <1>3. poll.item # NULL => poll.item \in PollWork /\ poll.at \in Nat
    BY DEF TypeInv, TypeOK, PollerState, LocalOK
  <1> QED
    BY <1>1, <1>2, <1>3 DEF SafeInv, PollOK

LEMMA RowWrittenPost ==
    ASSUME TypeInv, SafeInv, NEW a \in Attempts, NEW row \in AttemptRow, RowWritten(a, row),
           row.transport # "pending", UNCHANGED <<ingested, posts>>,
           \A b \in Attempts :
              disp'.pc \in {"preflight", "cursor", "record", "post"} /\ disp'.att = b =>
              Unsent(b)
    PROVE  PostOK' /\ AtMostOnePost'
  <1>1. ASSUME NEW b \in Attempts, Unsent(b)' PROVE Unsent(b)
    <2>1. b[1] \in Deliveries
      BY DEF Attempts
    <2>2. delivery'[b[1]].cur = delivery[b[1]].cur
      BY <2>1, RowWrittenEffect
    <2> QED
      BY <1>1, <2>2 DEF Unsent, Exists, IsCurrent, RowWritten
  <1> QED
    BY <1>1 DEF SafeInv, PostOK, AtMostOnePost

(* What the dispatcher holds survives a write of another attempt.            *)
LEMMA RowWrittenDisp ==
    ASSUME TypeInv, SafeInv, NEW a \in Attempts, NEW row \in AttemptRow, RowWritten(a, row),
           UNCHANGED disp, attempt[a].transport # "sending"
    PROVE  DispatcherKeepsItsAttempt'
  <1> SUFFICES ASSUME disp.pc # "idle" PROVE DispatcherKeepsItsAttempt'
    BY DEF DispatcherKeepsItsAttempt
  <1>1. /\ disp.att \in Attempts /\ disp.att[1] \in Deliveries
        /\ StillSending(disp.att) /\ disp.att # a
    BY DEF TypeInv, LocalOK, Attempts, SafeInv, DispatcherKeepsItsAttempt, StillSending
  <1>2. disp.att[1] # a[1]
    <2>1. disp.att = <<disp.att[1], disp.att[2]>> /\ a = <<a[1], a[2]>>
      BY <1>1 DEF Attempts
    <2> QED
      BY <1>1, <2>1 DEF RowWritten, StillSending, IsCurrent
  <1> QED
    BY <1>1, <1>2
       DEF RowWritten, SafeInv, DispatcherKeepsItsAttempt, StillSending, IsCurrent

LEMMA WriteCurrentWritten ==
    ASSUME TypeInv, NEW a \in Attempts, NEW row \in AttemptRow, IsCurrent(a), WriteCurrent(a, row)
    PROVE  RowWritten(a, row)
  BY WriteCurrentEffect DEF TypeInv, TypeOK, RowWritten

LEMMA KeptApartSameDispatch ==
    ASSUME NEW d \in Deliveries, NEW e \in Deliveries, KeptApart(d, e)
    PROVE  e \in Deliveries \ {d} /\ SameDispatch(e, d)
  <1>1. ResourceOf(d) # NULL /\ ResourceOf(e) # NULL
    BY DeliveryAssumption DEF ResourceOf
  <1> QED
    BY <1>1 DEF KeptApart, SameDispatch, DispatchKey

LEMMA ClaimSafe ==
    ASSUME TypeInv, SafeInv, NEW d \in Deliveries, ClaimPendingAttempt(d)
    PROVE  SafeInv'
  <1> DEFINE a == Current(d)
             row == [Row(d) EXCEPT !.transport = "sending"]
  <1>1. /\ phase = "up" /\ disp.pc = "idle" /\ Claimable(d) /\ Exists(d)
        /\ Row(d).transport = "pending" /\ WriteCurrent(a, row)
        /\ UNCHANGED <<phase, ingested, compatible, poll, exec, posts>>
    BY DEF ClaimPendingAttempt, Claimable, DispatcherOnly, serverVars, bindingVars
  <1>2. a \in Attempts /\ a[1] = d /\ IsCurrent(a) /\ Row(d) \in AttemptRow /\ Row(d) = attempt[a]
    BY <1>1, CurrentType, RowType DEF TypeInv, TypeOK, IsCurrent, Row
  <1>3. row \in AttemptRow
    BY <1>2 DEF AttemptRow, TransportStatus
  <1>4. RowWritten(a, row)
    BY <1>1, <1>2, <1>3, WriteCurrentWritten
  <1>5. RowOK(Row(d))
    BY <1>1 DEF SafeInv, RowsOK
  <1>6. /\ row.transport = "sending" /\ row.deployment = "not_started" /\ row.depId = NULL
        /\ row.cursor = NULL /\ ~row.request /\ row.polled = attempt[a].polled
        /\ attempt[a].deployment = "not_started" /\ attempt[a].transport = "pending"
    BY <1>1, <1>2, <1>5 DEF RowOK, AttemptRow
  <1>7. disp'.att = a /\ disp'.pc \in {"outcome", "preflight", "record"}
    BY DEF ClaimPendingAttempt, DispatcherIdle
  <1> HIDE DEF a, row
  <1>8. RowOK(row) /\ "not_started" \notin Monitored
    BY <1>6 DEF RowOK, Monitored
  <1>9. RowsOK' /\ DeliveryMirrorsAttempt'
    BY <1>1, <1>2, <1>3, <1>4, <1>8, RowWrittenRows
  <1>10. SendsSerialized'
    <2>1. \A e \in Deliveries : KeptApart(a[1], e) => ~UnboundInFlight(e)
      BY <1>1, <1>2, KeptApartSameDispatch DEF Claimable
    <2> QED
      BY <1>2, <1>3, <1>4, <2>1, RowWrittenSerialized
  <1>11. ActiveIsCompatible'
    <2>1. d \in compatible
      BY <1>1 DEF SafeInv, ActiveIsCompatible, ActiveDelivery, Active
    <2> QED
      BY <1>1, <1>2, <1>3, <1>4, <2>1, RowWrittenActive
  <1>12. PollOK'
    BY <1>1, <1>2, <1>3, <1>4, <1>6, <1>8, RowWrittenPoll
  <1>13. ExecOK'
    BY <1>1, ExecSame
  <1>14. PostOK' /\ AtMostOnePost'
    <2>1. Unsent(a)
      BY <1>2, <1>6 DEF Unsent
    <2> QED
      BY <1>1, <1>2, <1>3, <1>4, <1>6, <1>7, <2>1, RowWrittenPost
  <1>15. DispatcherKeepsItsAttempt'
    <2>1. delivery'[a[1]].cur = a[2] /\ attempt'[a] = row /\ delivery'[a[1]].transport = "sending"
      BY <1>4, <1>6 DEF RowWritten, IsCurrent
    <2> QED
      BY <1>6, <1>7, <2>1 DEF DispatcherKeepsItsAttempt, StillSending, IsCurrent
  <1>16. DownIsIdle'
    BY <1>1 DEF DownIsIdle
  <1> QED
    BY <1>9, <1>10, <1>11, <1>12, <1>13, <1>14, <1>15, <1>16 DEF SafeInv

(* SetDeploymentCursor and RecordDeploymentRequest find what they expect and *)
(* write one column of the dispatcher's attempt.                             *)
LEMMA SendingRowSafe ==
    ASSUME TypeInv, SafeInv, SetDeploymentCursor \/ RecordDeploymentRequest
    PROVE  SafeInv'
  <1> DEFINE a == disp.att
  <1>1. /\ phase = "up" /\ disp.pc \in {"cursor", "record"} /\ a \in Attempts
        /\ UNCHANGED <<ingested, compatible, posts>>
    BY DEF SetDeploymentCursor, RecordDeploymentRequest, TypeInv, LocalOK, bindingVars
  <1>2. /\ StillSending(a) /\ delivery[a[1]].transport = "sending"
        /\ disp.pc = "cursor" => attempt[a].cursor = NULL /\ ~attempt[a].request
        /\ disp.pc = "record" => ~attempt[a].request
    BY <1>1 DEF SafeInv, DispatcherKeepsItsAttempt
  <1>3. UNCHANGED <<delivery, phase, poll, exec>>
    BY <1>1, <1>2 DEF SetDeploymentCursor, RecordDeploymentRequest
  <1>4. \/ /\ disp.pc = "cursor"
           /\ attempt' = [attempt EXCEPT ![a].cursor = disp.cursor]
           /\ disp' = [disp EXCEPT !.pc = "record"]
        \/ /\ disp.pc = "record"
           /\ attempt' = [attempt EXCEPT ![a].request = TRUE]
           /\ disp' = [disp EXCEPT !.pc = "post"]
    BY <1>1, <1>2 DEF SetDeploymentCursor, RecordDeploymentRequest
  <1>5. /\ disp'.att = a
        /\ disp'.pc \in {"record", "post"} /\ (disp'.pc = "record" => disp.pc = "cursor")
    BY <1>4 DEF TypeInv, TypeOK, DispatcherState
  <1>6. PICK row \in AttemptRow :
           /\ attempt' = [attempt EXCEPT ![a] = row]
           /\ row.transport = attempt[a].transport /\ row.deployment = attempt[a].deployment
           /\ row.depId = attempt[a].depId /\ row.polled = attempt[a].polled
           /\ row.due = attempt[a].due /\ row.deadline = attempt[a].deadline
           /\ disp.pc = "cursor" => row.request = attempt[a].request
    <2>1. attempt[a] \in AttemptRow /\ disp.cursor \in Nat \cup {NULL}
      BY <1>1 DEF TypeInv, TypeOK, DispatcherState
    <2>2. CASE disp.pc = "cursor"
      <3> DEFINE row == [attempt[a] EXCEPT !.cursor = disp.cursor]
      <3>1. row \in AttemptRow
        BY <2>1 DEF AttemptRow
      <3>2. attempt' = [attempt EXCEPT ![a] = row]
        BY <1>1, <1>4, <2>2 DEF TypeInv, TypeOK
      <3>3. /\ row.transport = attempt[a].transport /\ row.deployment = attempt[a].deployment
            /\ row.depId = attempt[a].depId /\ row.polled = attempt[a].polled
            /\ row.due = attempt[a].due /\ row.deadline = attempt[a].deadline
            /\ row.request = attempt[a].request
        BY <2>1 DEF AttemptRow
      <3> HIDE DEF row
      <3> QED
        BY <3>1, <3>2, <3>3
    <2>3. CASE disp.pc = "record"
      <3> DEFINE row == [attempt[a] EXCEPT !.request = TRUE]
      <3>1. row \in AttemptRow
        BY <2>1 DEF AttemptRow
      <3>2. attempt' = [attempt EXCEPT ![a] = row]
        BY <1>1, <1>4, <2>3 DEF TypeInv, TypeOK
      <3>3. /\ row.transport = attempt[a].transport /\ row.deployment = attempt[a].deployment
            /\ row.depId = attempt[a].depId /\ row.polled = attempt[a].polled
            /\ row.due = attempt[a].due /\ row.deadline = attempt[a].deadline
        BY <2>1 DEF AttemptRow
      <3> HIDE DEF row
      <3> QED
        BY <2>3, <3>1, <3>2, <3>3
    <2> QED
      BY <1>1, <2>2, <2>3
  <1>7. Exists(a[1]) /\ a[1] \in Deliveries /\ Row(a[1]) = attempt[a] /\ a = Current(a[1])
    <2>1. a[1] \in Deliveries /\ a[2] # 0 /\ a = <<a[1], a[2]>>
      BY <1>1, DeliveryAssumption DEF Attempts
    <2> QED
      BY <1>2, <2>1 DEF StillSending, IsCurrent, Exists, Row, Current
  <1>8. RowWritten(a, row)
    <2>1. delivery[a[1]].deployment = attempt[a].deployment
      BY <1>7 DEF SafeInv, DeliveryMirrorsAttempt
    <2> QED
      BY <1>1, <1>2, <1>3, <1>6, <2>1 DEF RowWritten, StillSending, TypeInv, TypeOK
  <1>9. row.transport = "sending" /\ row.deployment = "not_started" /\ row.depId = NULL
    BY <1>2, <1>6, <1>7 DEF StillSending, SafeInv, RowsOK, RowOK
  <1>10. RowOK(row) /\ "not_started" \notin Monitored
    BY <1>9 DEF RowOK, Monitored
  <1>11. RowsOK' /\ DeliveryMirrorsAttempt'
    BY <1>1, <1>8, <1>10, RowWrittenRows
  <1>12. SendsSerialized'
    BY <1>1, <1>6, <1>8, RowWrittenSerialized DEF InFlight
  <1>13. ActiveIsCompatible'
    <2>1. ActiveDelivery(a[1])
      BY <1>2, <1>7 DEF ActiveDelivery, Active, StillSending
    <2> QED
      BY <1>1, <1>3, <1>7, <1>8, <2>1, RowWrittenActive DEF SafeInv, ActiveIsCompatible
  <1>14. PollOK'
    BY <1>1, <1>3, <1>6, <1>8, <1>9, <1>10, RowWrittenPoll
  <1>15. ExecOK' /\ DownIsIdle'
    BY <1>1, <1>3, ExecSame DEF DownIsIdle
  <1>16. PostOK' /\ AtMostOnePost'
    <2>1. Unsent(a)
      BY <1>1 DEF Unsent
    <2> QED
      BY <1>1, <1>5, <1>8, <1>9, <2>1, RowWrittenPost
  <1>17. DispatcherKeepsItsAttempt'
    BY <1>1, <1>2, <1>3, <1>5, <1>6, <1>8, <1>9
       DEF RowWritten, DispatcherKeepsItsAttempt, StillSending, IsCurrent
  <1> QED
    BY <1>11, <1>12, <1>13, <1>14, <1>15, <1>16, <1>17 DEF SafeInv

(* Every outcome of a POST settles the row or schedules its polls.           *)
LEMMA OutcomeFacts ==
    ASSUME NEW row \in AttemptRow, now \in Nat, NEW kind \in {"dokploy", "http"},
           NEW result \in {"accepted", "definitive", "uncertain"}, row.depId = NULL
    PROVE  LET o == Outcome(kind, result, row)
           IN /\ RowOK(o)
              /\ o.transport \in {"enqueued", "failed", "unknown"}
              /\ o.polled = row.polled
  <1>1. now + Interval # NULL /\ now + Timeout # NULL
    BY DeliveryAssumption
  <1>2. CASE result = "definitive"
    BY <1>2 DEF Outcome, RowOK, Monitored, AttemptRow
  <1>3. CASE kind = "dokploy" /\ result \in {"accepted", "uncertain"}
    <2> DEFINE t == IF result = "accepted" THEN "enqueued" ELSE "unknown"
               o == Outcome(kind, result, row)
    <2>1. o = Scheduled([row EXCEPT !.transport = t, !.deployment = "locating"], now)
      BY <1>3 DEF Outcome
    <2>2. /\ o.transport = t /\ o.deployment = "locating" /\ o.depId = NULL
          /\ o.due = now + Interval /\ o.deadline = now + Timeout /\ o.polled = row.polled
      BY <2>1 DEF Scheduled, AttemptRow
    <2> HIDE DEF o
    <2> QED
      BY <1>1, <1>3, <2>2 DEF o, RowOK, Monitored
  <1>4. CASE kind = "http" /\ result \in {"accepted", "uncertain"}
    BY <1>4 DEF Outcome, RowOK, Monitored, AttemptRow
  <1> QED
    BY <1>2, <1>3, <1>4

LEMMA TransitionSafe ==
    ASSUME TypeInv, SafeInv, TransitionAttempt
    PROVE  SafeInv'
  <1> DEFINE a == disp.att
             row == Outcome(KindOf(a[1]), disp.result, attempt[a])
  <1>1. /\ phase = "up" /\ disp.pc = "outcome" /\ a \in Attempts /\ a[1] \in Deliveries
        /\ disp.result \in {"accepted", "definitive", "uncertain"}
        /\ UNCHANGED <<ingested, compatible, posts>>
    BY DEF TransitionAttempt, TypeInv, LocalOK, bindingVars, Attempts
  <1>2. StillSending(a) /\ delivery[a[1]].transport = "sending" /\ IsCurrent(a)
    BY <1>1 DEF SafeInv, DispatcherKeepsItsAttempt, StillSending
  <1>3. WriteCurrent(a, row) /\ disp' = DispatcherIdle /\ UNCHANGED <<phase, poll, exec>>
    BY <1>2 DEF TransitionAttempt
  <1>4. Exists(a[1]) /\ Row(a[1]) = attempt[a]
    <2>1. a[2] # 0 /\ a = <<a[1], a[2]>>
      BY <1>1, DeliveryAssumption DEF Attempts
    <2> QED
      BY <1>2, <2>1 DEF IsCurrent, Exists, Row, Current
  <1>5. /\ attempt[a] \in AttemptRow /\ attempt[a].depId = NULL
        /\ attempt[a].deployment = "not_started" /\ attempt[a].transport = "sending"
    BY <1>1, <1>2, <1>4 DEF TypeInv, TypeOK, SafeInv, RowsOK, RowOK, StillSending
  <1>6. /\ row \in AttemptRow /\ RowOK(row) /\ row.transport \in {"enqueued", "failed", "unknown"}
        /\ row.polled = attempt[a].polled
    <2>1. KindOf(a[1]) \in {"dokploy", "http"} /\ now \in Nat
      BY <1>1, KindOfType DEF TypeInv, TypeOK
    <2> HIDE DEF a
    <2>2. row \in AttemptRow
      BY <1>1, <1>5, <2>1, OutcomeType
    <2> QED
      BY <1>1, <1>5, <2>1, <2>2, OutcomeFacts
  <1> HIDE DEF row
  <1>7. RowWritten(a, row)
    BY <1>1, <1>2, <1>3, <1>6, WriteCurrentWritten
  <1>8. RowsOK' /\ DeliveryMirrorsAttempt'
    BY <1>1, <1>6, <1>7, RowWrittenRows
  <1>9. SendsSerialized'
    BY <1>1, <1>5, <1>6, <1>7, RowWrittenSerialized DEF InFlight
  <1>10. ActiveIsCompatible'
    <2>1. ActiveDelivery(a[1])
      BY <1>4, <1>5 DEF ActiveDelivery, Active
    <2> QED
      BY <1>1, <1>3, <1>6, <1>7, <2>1, RowWrittenActive DEF SafeInv, ActiveIsCompatible
  <1>11. PollOK'
    BY <1>1, <1>3, <1>5, <1>6, <1>7, RowWrittenPoll DEF Monitored
  <1>12. ExecOK' /\ DownIsIdle'
    BY <1>1, <1>3, ExecSame DEF DownIsIdle
  <1>13. PostOK' /\ AtMostOnePost'
    <2>1. disp'.pc = "idle"
      BY <1>3 DEF DispatcherIdle
    <2> QED
      BY <1>1, <1>6, <1>7, <2>1, RowWrittenPost
  <1>14. DispatcherKeepsItsAttempt'
    BY <1>3 DEF DispatcherKeepsItsAttempt, DispatcherIdle
  <1> QED
    BY <1>8, <1>9, <1>10, <1>11, <1>12, <1>13, <1>14 DEF SafeInv

(* A completed poll writes its claimed row, or nothing.                      *)
LEMMA CompletePollSafe ==
    ASSUME TypeInv, SafeInv, CompletePoll
    PROVE  SafeInv'
  <1> DEFINE w == poll.item
             a == w.att
             u == poll.update
  <1>1. /\ phase = "up" /\ poll.item # NULL
        /\ UNCHANGED <<phase, ingested, compatible, disp, exec, posts>>
    BY DEF CompletePoll, PollerOnly, serverVars, bindingVars
  <1>2. /\ w \in PollWork /\ a \in Attempts /\ a[1] \in Deliveries
        /\ u \in PollUpdates /\ poll.at \in Nat
    BY <1>1 DEF TypeInv, TypeOK, LocalOK, PollerState, PollWork, Attempts
  <1>3. /\ WorkOK(w)
        /\ \A v \in poll.todo : v.att # a
        /\ u.transport \in {"enqueued", "unknown"}
        /\ u.deployment \in Monitored => u.due # NULL
    BY <1>1 DEF SafeInv, PollOK
  <1>4. /\ poll'.todo = poll.todo /\ poll'.item = NULL
        /\ poll.todo # {} => poll'.at = poll.at
    BY DEF CompletePoll, PollerIdle, TypeInv, TypeOK, PollerState
  <1>5. DownIsIdle' /\ ExecOK'
    BY <1>1, ExecSame DEF DownIsIdle
  <1>6. CASE ~PollClaimHeld(a)
    <2>1. UNCHANGED storeVars
      BY <1>6 DEF CompletePoll
    <2>2. PollOK'
      BY <1>4, <2>1 DEF SafeInv, storeVars, PollOK, WorkOK, ClaimOK, PollClaimHeld, IsCurrent
    <2> QED
      BY <1>1, <1>5, <2>1, <2>2, StoreSame, ActiveSame, DispSame, PostSame DEF SafeInv
  <1>7. CASE PollClaimHeld(a)
    <2> DEFINE row == [attempt[a] EXCEPT !.transport = u.transport, !.deployment = u.deployment,
                          !.depId = DeploymentID(attempt[a], u), !.due = u.due]
    <2>1. /\ IsCurrent(a) /\ attempt[a] \in AttemptRow
          /\ attempt[a].deployment \in Monitored /\ attempt[a].transport = w.transport
      BY <1>2, <1>3, <1>7 DEF TypeInv, TypeOK, WorkOK, ClaimOK, PollClaimHeld
    <2>2. Exists(a[1]) /\ Row(a[1]) = attempt[a]
      <3>1. a[2] # 0 /\ a = <<a[1], a[2]>>
        BY <1>2, DeliveryAssumption DEF Attempts
      <3> QED
        BY <2>1, <3>1 DEF IsCurrent, Exists, Row, Current
    <2>3. RowOK(attempt[a])
      BY <1>2, <2>2 DEF SafeInv, RowsOK
    <2>4. row \in AttemptRow
      <3>1. /\ u.transport \in TransportStatus /\ u.deployment \in DeploymentStatus
            /\ u.due \in Time /\ u.depId \in DeploymentIDs
        BY <1>2 DEF PollUpdates
      <3>2. DeploymentID(attempt[a], u) \in DeploymentIDs
        BY <2>1, <3>1 DEF DeploymentID, AttemptRow
      <3> HIDE DEF a, u
      <3> QED
        BY <2>1, <3>1, <3>2 DEF AttemptRow
    <2>5. /\ row.transport = u.transport /\ row.deployment = u.deployment
          /\ row.due = u.due /\ row.deadline = attempt[a].deadline
          /\ row.depId = NULL => attempt[a].depId = NULL
      <3>1. DeploymentID(attempt[a], u) = NULL => attempt[a].depId = NULL
        BY DEF DeploymentID
      <3> HIDE DEF a, u
      <3> QED
        BY <2>1, <3>1 DEF AttemptRow
    <2>6. attempt' = [attempt EXCEPT ![a] = row]
      BY <1>7 DEF CompletePoll
    <2> HIDE DEF row
    <2>7. RowWritten(a, row)
      <3>1. attempt'[a] = row /\ \A b \in Attempts : b # a => attempt'[b] = attempt[b]
        BY <1>2, <2>6 DEF TypeInv, TypeOK
      <3>2. /\ delivery'[a[1]].cur = delivery[a[1]].cur
            /\ delivery'[a[1]].transport = u.transport
            /\ delivery'[a[1]].deployment = u.deployment
            /\ \A d \in Deliveries : d # a[1] => delivery'[d] = delivery[d]
        <4>1. CASE StatusChanged(attempt[a], u)
          <5>1. delivery' = [delivery EXCEPT ![a[1]].transport = u.transport,
                                             ![a[1]].deployment = u.deployment]
            BY <1>7, <4>1 DEF CompletePoll
          <5> HIDE DEF a, u
          <5> QED
            BY <1>2, <5>1 DEF TypeInv, TypeOK, DeliveryRow
        <4>2. CASE ~StatusChanged(attempt[a], u)
          <5>1. UNCHANGED delivery
            BY <1>7, <4>2 DEF CompletePoll
          <5>2. /\ delivery[a[1]].transport = attempt[a].transport
                /\ delivery[a[1]].deployment = attempt[a].deployment
            BY <1>2, <2>2 DEF SafeInv, DeliveryMirrorsAttempt
          <5> QED
            BY <4>2, <5>1, <5>2 DEF StatusChanged
        <4> QED
          BY <4>1, <4>2
      <3> QED
        BY <2>1, <2>5, <3>1, <3>2 DEF RowWritten
    <2> HIDE DEF a, u, w
    <2>8. RowOK(row)
      BY <1>3, <2>1, <2>3, <2>5 DEF RowOK
    <2>9. RowsOK' /\ DeliveryMirrorsAttempt'
      BY <1>1, <1>2, <2>4, <2>7, <2>8, RowWrittenRows
    <2>10. SendsSerialized'
      BY <1>2, <1>3, <2>1, <2>4, <2>5, <2>7, RowWrittenSerialized DEF InFlight
    <2>11. ActiveIsCompatible'
      <3>1. ActiveDelivery(a[1])
        BY <2>1, <2>2 DEF ActiveDelivery, Active
      <3> QED
        BY <1>1, <1>2, <2>4, <2>7, <3>1, RowWrittenActive DEF SafeInv, ActiveIsCompatible
    <2>12. PostOK' /\ AtMostOnePost'
      <3>1. row.transport # "pending"
        BY <1>3, <2>5
      <3>2. \A b \in Attempts :
               disp.pc \in {"preflight", "cursor", "record", "post"} /\ disp.att = b => Unsent(b)
        BY DEF Unsent
      <3> QED
        BY <1>1, <1>2, <2>4, <2>7, <3>1, <3>2, RowWrittenPost
    <2>13. DispatcherKeepsItsAttempt'
      <3>1. attempt[a].transport # "sending"
        BY <2>1, <2>3 DEF RowOK
      <3> QED
        BY <1>1, <1>2, <2>4, <2>7, <3>1, RowWrittenDisp
    <2>14. PollOK'
      <3>1. ASSUME NEW v \in poll.todo PROVE WorkOK(v)'
        <4>1. v \in PollWork /\ v.att \in Attempts /\ v.att # a /\ v.att[1] \in Deliveries
          BY <1>3 DEF TypeInv, TypeOK, PollerState, PollWork, Attempts
        <4>2. WorkOK(v)
          BY DEF SafeInv, PollOK
        <4>3. attempt'[v.att] = attempt[v.att] /\ delivery'[v.att[1]].cur = delivery[v.att[1]].cur
          BY <1>2, <2>4, <2>7, <4>1, RowWrittenEffect DEF RowWritten
        <4>4. poll'.at = poll.at
          BY <1>4
        <4> QED
          BY <4>2, <4>3, <4>4 DEF WorkOK, ClaimOK, PollClaimHeld, IsCurrent
      <3> QED
        BY <1>4, <3>1 DEF SafeInv, PollOK
    <2> QED
      BY <1>5, <2>9, <2>10, <2>11, <2>12, <2>13, <2>14 DEF SafeInv
  <1> QED
    BY <1>6, <1>7

(* ListDuePolls marks the rows it claims and describes them as they are.     *)
LEMMA ListDuePollsSafe ==
    ASSUME TypeInv, SafeInv, ListDuePolls
    PROVE  SafeInv'
  <1>1. /\ phase = "up"
        /\ UNCHANGED <<phase, ingested, compatible, disp, exec, posts, delivery>>
        /\ poll' = [at |-> now, todo |-> {Claimed(d) : d \in PollBatch}, item |-> NULL,
                    update |-> NULL]
    BY DEF ListDuePolls, PollerOnly, PollerIdle, serverVars, bindingVars
  <1>2. ASSUME NEW a \in Attempts
        PROVE  /\ attempt'[a].transport = attempt[a].transport
               /\ attempt'[a].deployment = attempt[a].deployment
               /\ attempt'[a].cursor = attempt[a].cursor /\ attempt'[a].request = attempt[a].request
               /\ attempt'[a].depId = attempt[a].depId
               /\ attempt'[a].due = attempt[a].due /\ attempt'[a].deadline = attempt[a].deadline
    <2>1. attempt'[a] = IF IsCurrent(a) /\ a[1] \in PollBatch
                        THEN [attempt[a] EXCEPT !.polled = now] ELSE attempt[a]
      BY DEF ListDuePolls
    <2>2. attempt[a] \in AttemptRow
      BY DEF TypeInv, TypeOK
    <2> QED
      BY <2>1, <2>2 DEF AttemptRow
  <1>3. ASSUME NEW d \in Deliveries, Exists(d)
        PROVE  /\ Current(d) \in Attempts /\ Row(d) = attempt[Current(d)]
               /\ Row(d)' = attempt'[Current(d)]
    BY <1>1, <1>3, CurrentType DEF TypeInv, TypeOK, Row, Current
  <1>4. \A d \in Deliveries : Exists(d)' <=> Exists(d)
    BY <1>1 DEF Exists
  <1>5. RowsOK' /\ DeliveryMirrorsAttempt'
    BY <1>1, <1>2, <1>3, <1>4 DEF SafeInv, RowsOK, RowOK, DeliveryMirrorsAttempt
  <1>6. \A d \in Deliveries : /\ UnboundInFlight(d)' <=> UnboundInFlight(d)
                              /\ ActiveDelivery(d)' <=> ActiveDelivery(d)
    BY <1>2, <1>3, <1>4 DEF UnboundInFlight, ActiveDelivery, Active
  <1>7. SendsSerialized' /\ ActiveIsCompatible'
    BY <1>1, <1>6 DEF SafeInv, SendsSerialized, ActiveIsCompatible, KeptApart
  <1>8. PollOK'
    <2>1. ASSUME NEW d \in PollBatch, NEW w, w = Claimed(d)
          PROVE  /\ w.att[1] = d
                 /\ WorkOK(w)'
      <3>1. d \in Deliveries /\ Exists(d) /\ Row(d).deployment \in Monitored
        BY DEF PollBatch, DuePoll
      <3>2. w.att = Current(d) /\ w.transport = Row(d).transport /\ w.depId = Row(d).depId
        BY <2>1 DEF Claimed
      <3>3. RowOK(Row(d))
        BY <3>1 DEF SafeInv, RowsOK
      <3>4. w.transport \in {"enqueued", "unknown"}
        BY <3>1, <3>2, <3>3 DEF RowOK
      <3>5. /\ attempt'[w.att].deployment \in Monitored
            /\ attempt'[w.att].transport = w.transport
            /\ attempt'[w.att].depId = w.depId
        BY <1>2, <1>3, <3>1, <3>2
      <3> QED
        BY <3>2, <3>4, <3>5 DEF WorkOK, ClaimOK, Current
    <2>2. poll'.todo = {Claimed(d) : d \in PollBatch} /\ poll'.item = NULL
      BY <1>1
    <2>3. \A w \in poll'.todo : WorkOK(w)'
      BY <2>1, <2>2
    <2>4. \A w, v \in poll'.todo : w.att = v.att => w = v
      BY <2>1, <2>2
    <2> QED
      BY <2>2, <2>3, <2>4 DEF PollOK
  <1>9. DispatcherKeepsItsAttempt'
    <2> SUFFICES ASSUME disp.pc # "idle" PROVE DispatcherKeepsItsAttempt'
      BY <1>1 DEF DispatcherKeepsItsAttempt
    <2>1. disp.att \in Attempts
      BY DEF TypeInv, LocalOK
    <2> QED
      BY <1>1, <1>2, <2>1 DEF SafeInv, DispatcherKeepsItsAttempt, StillSending, IsCurrent
  <1>10. PostOK' /\ AtMostOnePost'
    <2>1. \A a \in Attempts : Unsent(a)' => Unsent(a)
      BY <1>1, <1>2 DEF Unsent, Exists, IsCurrent
    <2> QED
      BY <1>1, <2>1 DEF SafeInv, PostOK, AtMostOnePost
  <1>11. ExecOK' /\ DownIsIdle'
    BY <1>1, ExecSame DEF DownIsIdle
  <1> QED
    BY <1>5, <1>7, <1>8, <1>9, <1>10, <1>11 DEF SafeInv

-----------------------------------------------------------------------------
(* The safety invariant: generations and startup.                           *)

LEMMA PublishSafe ==
    ASSUME SafeInv, NEW S \in SUBSET ingested, PublishGeneration(S)
    PROVE  SafeInv'
  <1>1. /\ UNCHANGED <<storeVars, ingested, posts, phase, disp, poll, exec>>
        /\ \A d \in Deliveries : ~ActiveDelivery(d)
        /\ \A u \in Operators : exec[u].pc = "idle"
    BY DEF PublishGeneration, StoreOnly, serverVars
  <1>2. ActiveIsCompatible'
    BY <1>1 DEF storeVars, ActiveIsCompatible, ActiveDelivery, Exists, Row, Current
  <1>3. ExecOK' /\ DownIsIdle'
    BY <1>1 DEF SafeInv, ExecOK, DownIsIdle
  <1> QED
    BY <1>1, <1>2, <1>3, StoreSame, PollSame, DispSame, PostSame DEF SafeInv

(* While the process starts nothing else is in progress.                     *)
LEMMA StartingIsIdle ==
    ASSUME SafeInv, phase # "up", UNCHANGED <<disp, poll, exec>>
    PROVE  /\ DispatcherKeepsItsAttempt' /\ PollOK' /\ ExecOK' /\ DownIsIdle'
           /\ disp.pc = "idle"
  <1>1. /\ disp' = DispatcherIdle /\ poll' = PollerIdle
        /\ \A u \in Operators : exec'[u] = ExecuteIdle
    BY DEF SafeInv, DownIsIdle
  <1>2. DispatcherKeepsItsAttempt' /\ PollOK' /\ ExecOK' /\ DownIsIdle'
    BY <1>1 DEF DispatcherKeepsItsAttempt, PollOK, ExecOK, DownIsIdle, DispatcherIdle,
                PollerIdle, ExecuteIdle
  <1> QED
    BY <1>2 DEF SafeInv, DownIsIdle, DispatcherIdle

LEMMA BootSafe ==
    ASSUME SafeInv, NEW S \in SUBSET ingested, Boot(S)
    PROVE  SafeInv'
  <1>1. /\ phase = "down" /\ phase' = "binding"
        /\ UNCHANGED <<storeVars, ingested, posts, disp, poll, exec>>
    BY DEF Boot, StartupOnly
  <1>2. ActiveIsCompatible'
    BY <1>1 DEF ActiveIsCompatible
  <1> QED
    BY <1>1, <1>2, StartingIsIdle, StoreSame, PostSame DEF SafeInv

LEMMA TerminatedFacts ==
    ASSUME NEW row \in AttemptRow
    PROVE  LET o == Terminated(row)
           IN /\ RowOK(o) /\ ~InFlight(o)
              /\ o.transport \in {"failed", "unknown"}
              /\ ~Active(o.transport, o.deployment)
  <1> DEFINE o == Terminated(row)
  <1>1. /\ o.transport \in {"failed", "unknown"}
        /\ o.deployment \in {"not_started", "unknown"}
    BY DEF Terminated, AttemptRow
  <1> HIDE DEF o
  <1>2. /\ RowOK(o) /\ ~InFlight(o) /\ ~Active(o.transport, o.deployment)
    BY <1>1 DEF RowOK, InFlight, Active, Monitored
  <1> QED
    BY <1>1, <1>2 DEF o

(* Startup ends what no longer resolves.                                     *)
LEMMA TerminateSafe ==
    ASSUME TypeInv, SafeInv, NEW d \in Deliveries, TerminateIncompatibleActive(d)
    PROVE  SafeInv'
  <1> DEFINE a == Current(d)
             row == Terminated(Row(d))
  <1>1. /\ phase = "binding" /\ Exists(d) /\ WriteCurrent(a, row)
        /\ UNCHANGED <<phase, ingested, compatible, posts, disp, poll, exec>>
    BY DEF TerminateIncompatibleActive, StartupOnly, bindingVars, ActiveDelivery
  <1>2. a \in Attempts /\ IsCurrent(a) /\ Row(d) \in AttemptRow
    BY <1>1, CurrentType, RowType DEF TypeInv, TypeOK, IsCurrent
  <1>3. row \in AttemptRow /\ RowOK(row) /\ ~InFlight(row) /\ row.transport # "pending"
    BY <1>2, TerminatedType, TerminatedFacts
  <1> HIDE DEF row, a
  <1>4. RowWritten(a, row)
    BY <1>1, <1>2, <1>3, WriteCurrentWritten
  <1>5. RowsOK' /\ DeliveryMirrorsAttempt'
    BY <1>1, <1>2, <1>3, <1>4, RowWrittenRows
  <1>6. SendsSerialized'
    BY <1>2, <1>3, <1>4, RowWrittenSerialized
  <1>7. /\ DispatcherKeepsItsAttempt' /\ PollOK' /\ ExecOK' /\ DownIsIdle'
        /\ disp.pc = "idle"
    BY <1>1, StartingIsIdle
  <1>8. PostOK' /\ AtMostOnePost'
    BY <1>1, <1>2, <1>3, <1>4, <1>7, RowWrittenPost
  <1>9. ActiveIsCompatible'
    BY <1>1 DEF ActiveIsCompatible
  <1> QED
    BY <1>5, <1>6, <1>7, <1>8, <1>9 DEF SafeInv

LEMMA RecoveredFacts ==
    ASSUME NEW row \in AttemptRow, now \in Nat, RowOK(row), Interrupted(row)
    PROVE  LET o == Recovered(row)
           IN /\ RowOK(o)
              /\ o.transport = (IF row.transport = "sending" THEN "unknown" ELSE row.transport)
              /\ o.deployment = (IF row.transport = "sending" THEN "locating" ELSE row.deployment)
              /\ o.depId = row.depId /\ o.transport # "pending" /\ o.deployment \in Monitored
  <1> DEFINE o == Recovered(row)
  <1>1. now + Interval # NULL /\ now + Timeout # NULL
    BY DeliveryAssumption
  <1>2. /\ o.transport = (IF row.transport = "sending" THEN "unknown" ELSE row.transport)
        /\ o.deployment = (IF row.transport = "sending" THEN "locating" ELSE row.deployment)
        /\ o.depId = row.depId
        /\ o.due = (IF row.due = NULL THEN now + Interval ELSE row.due)
        /\ o.deadline = (IF row.deadline = NULL THEN now + Timeout ELSE row.deadline)
    BY DEF Recovered, AttemptRow
  <1> HIDE DEF o
  <1>3. o.due # NULL /\ o.deadline # NULL
    BY <1>1, <1>2
  <1>4. o.transport \in {"enqueued", "unknown"} /\ o.deployment \in Monitored
    BY <1>2 DEF Interrupted, RowOK, Monitored
  <1>5. RowOK(o)
    BY <1>3, <1>4 DEF RowOK
  <1> QED
    BY <1>2, <1>4, <1>5 DEF o

(* Startup recovery, table by table.                                         *)
LEMMA RecoverWrites ==
    ASSUME RecoverInterrupted
    PROVE  /\ \A a \in Attempts :
                attempt'[a] = IF IsCurrent(a) /\ Interrupted(attempt[a])
                              THEN Recovered(attempt[a]) ELSE attempt[a]
           /\ \A d \in Deliveries :
                delivery'[d] = IF Exists(d) /\ Row(d).transport = "sending"
                               THEN [delivery[d] EXCEPT !.transport = "unknown",
                                                        !.deployment = "locating"]
                               ELSE delivery[d]
           /\ phase = "binding" /\ phase' = "up"
           /\ \A d \in Deliveries : ActiveDelivery(d) => d \in compatible
           /\ UNCHANGED <<ingested, compatible, posts, disp, poll, exec>>
  <1> DEFINE att == [a \in Attempts |->
                       IF IsCurrent(a) /\ Interrupted(attempt[a])
                       THEN Recovered(attempt[a]) ELSE attempt[a]]
             del == [d \in Deliveries |->
                       IF Exists(d) /\ Row(d).transport = "sending"
                       THEN [delivery[d] EXCEPT !.transport = "unknown", !.deployment = "locating"]
                       ELSE delivery[d]]
  <1>1. attempt' = att /\ delivery' = del
    BY Zenon DEF RecoverInterrupted
  <1>2. /\ phase = "binding" /\ phase' = "up"
        /\ \A d \in Deliveries : ActiveDelivery(d) => d \in compatible
        /\ UNCHANGED <<ingested, compatible, posts, disp, poll, exec>>
    BY Zenon DEF RecoverInterrupted, StartupOnly, bindingVars
  <1> QED
    BY <1>1, <1>2, Zenon

(* What startup recovery leaves of the current row of a delivery.            *)
LEMMA RecoverEffect ==
    ASSUME TypeInv, SafeInv, RecoverInterrupted, NEW d \in Deliveries
    PROVE  /\ delivery'[d].cur = delivery[d].cur
           /\ Exists(d)' <=> Exists(d)
           /\ Exists(d) =>
                 /\ Row(d)' = IF Interrupted(Row(d)) THEN Recovered(Row(d)) ELSE Row(d)
                 /\ RowOK(Row(d)')
                 /\ delivery'[d].transport = Row(d)'.transport
                 /\ delivery'[d].deployment = Row(d)'.deployment
                 /\ InFlight(Row(d)') => InFlight(Row(d))
                 /\ Active(Row(d)'.transport, Row(d)'.deployment) =>
                       Active(Row(d).transport, Row(d).deployment)
  <1>1. delivery[d] \in DeliveryRow /\ now \in Nat
    BY DEF TypeInv, TypeOK
  <1>2. delivery'[d] = IF Exists(d) /\ Row(d).transport = "sending"
                       THEN [delivery[d] EXCEPT !.transport = "unknown", !.deployment = "locating"]
                       ELSE delivery[d]
    BY RecoverWrites, Zenon
  <1>3. delivery'[d].cur = delivery[d].cur
    BY <1>1, <1>2 DEF DeliveryRow
  <1>4. Exists(d)' <=> Exists(d)
    BY <1>3 DEF Exists
  <1> SUFFICES ASSUME Exists(d)
               PROVE  /\ Row(d)' = IF Interrupted(Row(d)) THEN Recovered(Row(d)) ELSE Row(d)
                      /\ RowOK(Row(d)')
                      /\ delivery'[d].transport = Row(d)'.transport
                      /\ delivery'[d].deployment = Row(d)'.deployment
                      /\ InFlight(Row(d)') => InFlight(Row(d))
                      /\ Active(Row(d)'.transport, Row(d)'.deployment) =>
                            Active(Row(d).transport, Row(d).deployment)
    BY <1>3, <1>4
  <1>5. Current(d) \in Attempts /\ IsCurrent(Current(d)) /\ Row(d) \in AttemptRow
    BY CurrentType, RowType DEF TypeInv, TypeOK, IsCurrent
  <1>6. Row(d)' = IF Interrupted(Row(d)) THEN Recovered(Row(d)) ELSE Row(d)
    <2>1. Current(d)' = Current(d)
      BY <1>3 DEF Current
    <2> QED
      BY <1>5, <2>1, RecoverWrites, Zenon DEF Row
  <1>7. RowOK(Row(d)) /\ delivery[d].transport = Row(d).transport
                      /\ delivery[d].deployment = Row(d).deployment
    BY DEF SafeInv, RowsOK, DeliveryMirrorsAttempt
  <1>8. CASE Interrupted(Row(d))
    <2> DEFINE row == Row(d)
               o == Recovered(row)
    <2>1. Row(d)' = o
      BY <1>6, <1>8
    <2>2. /\ RowOK(o)
          /\ o.transport = (IF row.transport = "sending" THEN "unknown" ELSE row.transport)
          /\ o.deployment = (IF row.transport = "sending" THEN "locating" ELSE row.deployment)
          /\ o.depId = row.depId
      BY <1>1, <1>5, <1>7, <1>8, RecoveredFacts
    <2> HIDE DEF o
    <2>3. delivery'[d].transport = o.transport /\ delivery'[d].deployment = o.deployment
      BY <1>1, <1>2, <1>7, <2>2 DEF DeliveryRow
    <2>4. InFlight(row) \/ row.depId # NULL
      BY <1>8 DEF InFlight, Interrupted
    <2>5. Active(row.transport, row.deployment)
      BY <1>8 DEF Active, Interrupted
    <2> QED
      BY <1>6, <2>1, <2>2, <2>3, <2>4, <2>5 DEF InFlight
  <1>9. CASE ~Interrupted(Row(d))
    <2>1. Row(d)' = Row(d) /\ delivery'[d] = delivery[d]
      BY <1>2, <1>6, <1>9 DEF Interrupted
    <2> QED
      BY <1>6, <1>7, <1>9, <2>1
  <1> QED
    BY <1>8, <1>9

LEMMA RecoverSafe ==
    ASSUME TypeInv, SafeInv, RecoverInterrupted
    PROVE  SafeInv'
  <1>1. /\ phase = "binding" /\ phase' = "up"
        /\ \A d \in Deliveries : ActiveDelivery(d) => d \in compatible
        /\ UNCHANGED <<ingested, compatible, posts, disp, poll, exec>>
    BY RecoverWrites, Zenon
  <1>2. RowsOK' /\ DeliveryMirrorsAttempt'
    <2>1. \A d \in Deliveries : Exists(d)' => d \in ingested' /\ RowOK(Row(d)')
      BY <1>1, RecoverEffect DEF SafeInv, RowsOK
    <2>2. \A d \in Deliveries : Exists(d)' => /\ delivery'[d].transport = Row(d)'.transport
                                              /\ delivery'[d].deployment = Row(d)'.deployment
      BY RecoverEffect
    <2> QED
      BY <2>1, <2>2 DEF RowsOK, RowOK, DeliveryMirrorsAttempt
  <1>3. SendsSerialized'
    <2>1. \A d \in Deliveries : UnboundInFlight(d)' => UnboundInFlight(d)
      <3>1. \A d \in Deliveries : UnboundInFlight(d)' <=> Exists(d)' /\ InFlight(Row(d)')
        BY DEF UnboundInFlight, InFlight
      <3>2. \A d \in Deliveries : UnboundInFlight(d) <=> Exists(d) /\ InFlight(Row(d))
        BY DEF UnboundInFlight, InFlight
      <3> QED
        BY <3>1, <3>2, RecoverEffect
    <2> QED
      BY <2>1 DEF SafeInv, SendsSerialized, KeptApart
  <1>4. ActiveIsCompatible'
    <2>1. \A d \in Deliveries : ActiveDelivery(d)' => ActiveDelivery(d)
      BY RecoverEffect DEF ActiveDelivery, Active
    <2> QED
      BY <1>1, <2>1 DEF ActiveIsCompatible
  <1>5. /\ DispatcherKeepsItsAttempt' /\ PollOK' /\ ExecOK' /\ DownIsIdle'
        /\ disp.pc = "idle"
    BY <1>1, StartingIsIdle
  <1>6. PostOK' /\ AtMostOnePost'
    <2>1. ASSUME NEW a \in Attempts, Unsent(a)' PROVE Unsent(a)
      <3>1. a[1] \in Deliveries /\ a[2] # 0 /\ a = <<a[1], a[2]>>
        BY DeliveryAssumption DEF Attempts
      <3>2. delivery'[a[1]].cur = delivery[a[1]].cur
        BY <3>1, RecoverEffect
      <3>3. CASE IsCurrent(a)' /\ attempt'[a].transport = "pending"
        <4>1. IsCurrent(a) /\ Exists(a[1]) /\ Row(a[1]) = attempt[a]
          BY <3>1, <3>2, <3>3 DEF IsCurrent, Exists, Row, Current
        <4>2. RowOK(attempt[a]) /\ attempt[a] \in AttemptRow /\ now \in Nat
          BY <3>1, <4>1 DEF SafeInv, RowsOK, TypeInv, TypeOK
        <4>3. attempt'[a] = IF Interrupted(attempt[a]) THEN Recovered(attempt[a]) ELSE attempt[a]
          BY <4>1, RecoverWrites, Zenon
        <4>4. ~Interrupted(attempt[a])
          BY <3>3, <4>2, <4>3, RecoveredFacts
        <4> QED
          BY <3>3, <4>1, <4>3, <4>4 DEF Unsent
      <3> QED
        BY <1>1, <1>5, <2>1, <3>2, <3>3 DEF Unsent, Exists, IsCurrent
    <2> QED
      BY <1>1, <2>1 DEF SafeInv, PostOK, AtMostOnePost
  <1> QED
    BY <1>2, <1>3, <1>4, <1>5, <1>6 DEF SafeInv

-----------------------------------------------------------------------------
(* The safety invariant: steps that add or delete rows.                     *)

(* Attempt a is new and becomes the current one of its delivery.             *)
FreshRow(a) ==
    /\ delivery'[a[1]].cur = a[2]
    /\ delivery'[a[1]].transport = "pending"
    /\ delivery'[a[1]].deployment = "not_started"
    /\ attempt'[a] = NewAttempt
    /\ \A b \in Attempts : b[1] # a[1] => attempt'[b] = attempt[b]
    /\ \A d \in Deliveries : d # a[1] => delivery'[d] = delivery[d]

LEMMA FreshRowSafe ==
    ASSUME TypeInv, SafeInv, NEW a \in Attempts, FreshRow(a),
           UNCHANGED <<phase, disp, poll, posts>>,
           a[1] \in ingested', a[1] \in compatible',
           ingested \subseteq ingested', compatible \subseteq compatible',
           \/ a[1] \notin ingested
           \/ /\ Exists(a[1]) /\ delivery[a[1]].cur < a[2]
              /\ Row(a[1]).transport # "sending"
    PROVE  /\ RowsOK' /\ DeliveryMirrorsAttempt' /\ SendsSerialized' /\ ActiveIsCompatible'
           /\ DispatcherKeepsItsAttempt' /\ PollOK' /\ PostOK' /\ AtMostOnePost'
  <1>1. a[1] \in Deliveries /\ a[2] \in Nat \ {0} /\ a = <<a[1], a[2]>>
    BY DeliveryAssumption DEF Attempts
  <1>2. Exists(a[1])' /\ Row(a[1])' = NewAttempt
    BY <1>1 DEF FreshRow, Exists, Row, Current
  <1>3. ASSUME NEW d \in Deliveries, d # a[1]
        PROVE  /\ delivery'[d] = delivery[d]
               /\ Exists(d)' <=> Exists(d)
               /\ Exists(d) => Row(d)' = Row(d)
    <2>1. delivery'[d] = delivery[d]
      BY <1>3 DEF FreshRow
    <2>2. Exists(d)' <=> Exists(d)
      BY <2>1 DEF Exists
    <2>3. ASSUME Exists(d) PROVE Row(d)' = Row(d)
      <3>1. Current(d) \in Attempts /\ Current(d)[1] = d /\ Current(d)' = Current(d)
        BY <2>1, <2>3, CurrentType DEF TypeInv, TypeOK, Current
      <3> QED
        BY <1>3, <3>1 DEF FreshRow, Row
    <2> QED
      BY <2>1, <2>2, <2>3
  <1>4. /\ NewAttempt.transport = "pending" /\ NewAttempt.deployment = "not_started"
        /\ NewAttempt.polled = NULL /\ RowOK(NewAttempt) /\ ~InFlight(NewAttempt)
    BY DEF NewAttempt, RowOK, InFlight, Monitored
  <1>5. RowsOK' /\ DeliveryMirrorsAttempt'
    <2>1. \A d \in Deliveries : Exists(d)' => d \in ingested' /\ RowOK(Row(d)')
      BY <1>2, <1>3, <1>4 DEF SafeInv, RowsOK
    <2>2. \A d \in Deliveries : Exists(d)' => /\ delivery'[d].transport = Row(d)'.transport
                                              /\ delivery'[d].deployment = Row(d)'.deployment
      BY <1>2, <1>3, <1>4 DEF SafeInv, DeliveryMirrorsAttempt, FreshRow
    <2> QED
      BY <2>1, <2>2 DEF RowsOK, RowOK, DeliveryMirrorsAttempt
  <1>6. SendsSerialized'
    <2>1. \A d \in Deliveries : UnboundInFlight(d)' <=> Exists(d)' /\ InFlight(Row(d)')
      BY DEF UnboundInFlight, InFlight
    <2>2. \A d \in Deliveries : UnboundInFlight(d) <=> Exists(d) /\ InFlight(Row(d))
      BY DEF UnboundInFlight, InFlight
    <2>3. \A d \in Deliveries : UnboundInFlight(d)' => UnboundInFlight(d)
      BY <1>2, <1>3, <1>4, <2>1, <2>2
    <2> QED
      BY <2>3 DEF SafeInv, SendsSerialized, KeptApart
  <1>7. ActiveIsCompatible'
    <2>1. \A d \in Deliveries : ActiveDelivery(d)' => d = a[1] \/ ActiveDelivery(d)
      BY <1>3 DEF ActiveDelivery, Active
    <2> QED
      BY <2>1 DEF SafeInv, ActiveIsCompatible
  <1>8. PollOK'
    <2>1. ASSUME NEW w \in PollWork, WorkOK(w), poll.at \in Nat
          PROVE  WorkOK(w)'
      <3>1. w.att \in Attempts /\ w.att[1] \in Deliveries /\ w.att = <<w.att[1], w.att[2]>>
        BY DEF PollWork, Attempts
      <3>2. CASE w.att[1] # a[1]
        BY <1>3, <2>1, <3>1, <3>2 DEF FreshRow, WorkOK, ClaimOK, PollClaimHeld, IsCurrent
      <3>3. CASE w.att[1] = a[1]
        <4>1. IsCurrent(w.att)' => w.att = a
          BY <1>1, <3>1, <3>3 DEF FreshRow, IsCurrent
        <4>2. ~PollClaimHeld(w.att)'
          BY <1>4, <2>1, <4>1, DeliveryAssumption DEF FreshRow, PollClaimHeld
        <4> QED
          BY <2>1, <4>2 DEF WorkOK, ClaimOK
      <3> QED
        BY <3>2, <3>3
    <2>2. \A w \in poll.todo : w \in PollWork /\ poll.at \in Nat
      BY DEF TypeInv, TypeOK, PollerState, LocalOK
    <2>3. poll.item # NULL => poll.item \in PollWork /\ poll.at \in Nat
      BY DEF TypeInv, TypeOK, PollerState, LocalOK
    <2> QED
      BY <2>1, <2>2, <2>3 DEF SafeInv, PollOK
  <1>9. DispatcherKeepsItsAttempt'
    <2> SUFFICES ASSUME disp.pc # "idle" PROVE DispatcherKeepsItsAttempt'
      BY DEF DispatcherKeepsItsAttempt
    <2>1. /\ disp.att \in Attempts /\ disp.att[1] \in Deliveries /\ disp.att[2] # 0
          /\ disp.att = <<disp.att[1], disp.att[2]>>
          /\ IsCurrent(disp.att) /\ attempt[disp.att].transport = "sending"
      BY DeliveryAssumption
         DEF TypeInv, LocalOK, Attempts, SafeInv, DispatcherKeepsItsAttempt, StillSending
    <2>2. Exists(disp.att[1]) /\ Row(disp.att[1]) = attempt[disp.att]
      BY <2>1 DEF IsCurrent, Exists, Row, Current
    <2>3. disp.att[1] # a[1]
      BY <2>1, <2>2 DEF SafeInv, RowsOK
    <2> QED
      BY <1>3, <2>1, <2>3
         DEF FreshRow, SafeInv, DispatcherKeepsItsAttempt, StillSending, IsCurrent
  <1>10. PostOK' /\ AtMostOnePost'
    <2>1. ASSUME NEW b \in Attempts, Unsent(b)' PROVE Unsent(b)
      <3>1. /\ b[1] \in Deliveries /\ b[2] \in Nat
            /\ delivery[a[1]].cur \in Nat
        <4>1. b[1] \in Deliveries /\ b[2] \in Nat
          BY DeliveryAssumption DEF Attempts
        <4>2. delivery[a[1]] \in DeliveryRow
          BY <1>1 DEF TypeInv, TypeOK
        <4>3. delivery[a[1]].cur \in 0..MaxAttempts /\ MaxAttempts \in Nat
          BY <4>2, DeliveryAssumption DEF DeliveryRow
        <4> QED
          BY <4>1, <4>3
      <3>2. CASE b[1] = a[1]
        <4>1. CASE disp'.pc \in {"preflight", "cursor", "record", "post"} /\ disp'.att = b
          BY <4>1 DEF Unsent
        <4>2. CASE a[1] \notin ingested
          BY <3>2, <4>2 DEF Unsent
        <4>3. CASE Exists(a[1]) /\ delivery[a[1]].cur < a[2] /\ b[2] >= a[2]
          <5>1. b[2] > delivery[a[1]].cur
            BY <1>1, <3>1, <4>3
          <5> QED
            BY <3>2, <4>3, <5>1 DEF Unsent
        <4>4. b[1] \notin ingested' \/ b[2] >= a[2] \/ (disp'.pc \in {"preflight", "cursor", "record", "post"} /\ disp'.att = b)
          <5>1. delivery'[b[1]].cur = a[2]
            BY <3>2 DEF FreshRow
          <5> QED
            BY <1>1, <2>1, <3>1, <5>1 DEF Unsent, IsCurrent
        <4> QED
          BY <3>2, <4>1, <4>2, <4>3, <4>4
      <3>3. CASE b[1] # a[1]
        <4>1. delivery'[b[1]] = delivery[b[1]] /\ attempt'[b] = attempt[b]
          BY <3>1, <3>3 DEF FreshRow
        <4> QED
          BY <2>1, <4>1 DEF Unsent, Exists, IsCurrent
      <3> QED
        BY <3>2, <3>3
    <2> QED
      BY <2>1 DEF SafeInv, PostOK, AtMostOnePost
  <1> QED
    BY <1>5, <1>6, <1>7, <1>8, <1>9, <1>10

LEMMA IngestSafe ==
    ASSUME TypeInv, SafeInv, NEW d \in Deliveries, Ingest(d)
    PROVE  SafeInv'
  <1> DEFINE a == <<d, 1>>
  <1>1. /\ UNCHANGED <<phase, disp, poll, exec, posts>> /\ phase = "up" /\ d \notin ingested
        /\ ingested' = ingested \cup {d} /\ compatible' = compatible \cup {d}
    BY DEF Ingest, StoreOnly, serverVars
  <1>2. a \in Attempts /\ a[1] = d /\ a[2] = 1
    BY DeliveryAssumption DEF Attempts
  <1>3. FreshRow(a)
    <2>1. /\ delivery' = [delivery EXCEPT ![d] = [NoDelivery EXCEPT !.cur = 1]]
          /\ attempt' = [attempt EXCEPT ![a] = NewAttempt]
      BY DEF Ingest
    <2>2. /\ attempt'[a] = NewAttempt
          /\ \A b \in Attempts : b # a => attempt'[b] = attempt[b]
      BY <1>2, <2>1 DEF TypeInv, TypeOK
    <2>3. delivery'[d] = [NoDelivery EXCEPT !.cur = 1]
      BY <2>1 DEF TypeInv, TypeOK
    <2>4. /\ delivery'[d].cur = 1 /\ delivery'[d].transport = "pending"
          /\ delivery'[d].deployment = "not_started"
      BY <2>3 DEF NoDelivery
    <2>5. \A e \in Deliveries : e # d => delivery'[e] = delivery[e]
      BY <2>1 DEF TypeInv, TypeOK
    <2> QED
      BY <1>2, <2>2, <2>4, <2>5 DEF FreshRow
  <1>4. ExecOK' /\ DownIsIdle'
    BY <1>1, ExecSame DEF DownIsIdle
  <1> HIDE DEF a
  <1> QED
    BY <1>1, <1>2, <1>3, <1>4, FreshRowSafe DEF SafeInv

(* Rows of deliveries that are not active are deleted.                       *)
LEMMA DeleteSafe ==
    ASSUME TypeInv, SafeInv, NEW D \in SUBSET Deliveries, Delete(D),
           \A d \in D : ~ActiveDelivery(d)
    PROVE  SafeInv'
  <1>1. UNCHANGED <<phase, ingested, compatible, disp, poll, exec, posts>>
    BY DEF Delete, StoreOnly, serverVars, bindingVars
  <1>2. /\ \A d \in Deliveries : delivery'[d] = IF d \in D THEN NoDelivery ELSE delivery[d]
        /\ \A a \in Attempts : attempt'[a] = IF a[1] \in D THEN NewAttempt ELSE attempt[a]
    BY DEF Delete
  <1>3. NoDelivery.cur = 0
    BY DEF NoDelivery
  <1>4. ASSUME NEW d \in Deliveries, Exists(d)'
        PROVE  d \notin D /\ delivery'[d] = delivery[d] /\ Exists(d) /\ Row(d)' = Row(d)
    <2>1. d \notin D /\ delivery'[d] = delivery[d]
      BY <1>2, <1>3, <1>4 DEF Exists
    <2>2. Exists(d) /\ Current(d)' = Current(d)
      BY <1>4, <2>1 DEF Exists, Current
    <2>3. Current(d) \in Attempts /\ Current(d)[1] = d
      BY <2>2, CurrentType DEF TypeInv, TypeOK
    <2> QED
      BY <1>2, <2>1, <2>2, <2>3 DEF Row
  <1>5. RowsOK' /\ DeliveryMirrorsAttempt'
    <2>1. \A d \in Deliveries : Exists(d)' => d \in ingested' /\ RowOK(Row(d)')
      BY <1>1, <1>4 DEF SafeInv, RowsOK
    <2>2. \A d \in Deliveries : Exists(d)' => /\ delivery'[d].transport = Row(d)'.transport
                                              /\ delivery'[d].deployment = Row(d)'.deployment
      BY <1>4 DEF SafeInv, DeliveryMirrorsAttempt
    <2> QED
      BY <2>1, <2>2 DEF RowsOK, RowOK, DeliveryMirrorsAttempt
  <1>6. SendsSerialized' /\ ActiveIsCompatible'
    <2>1. \A d \in Deliveries : UnboundInFlight(d)' => UnboundInFlight(d)
      BY <1>4 DEF UnboundInFlight
    <2>2. \A d \in Deliveries : ActiveDelivery(d)' => ActiveDelivery(d)
      BY <1>4 DEF ActiveDelivery, Active
    <2> QED
      BY <1>1, <2>1, <2>2 DEF SafeInv, SendsSerialized, KeptApart, ActiveIsCompatible
  <1>7. ASSUME NEW a \in Attempts
        PROVE  /\ a[1] \in Deliveries
               /\ IsCurrent(a)' => IsCurrent(a) /\ attempt'[a] = attempt[a]
               /\ a[1] \notin D => attempt'[a] = attempt[a] /\ delivery'[a[1]] = delivery[a[1]]
    <2>1. a[1] \in Deliveries /\ a[2] # 0
      BY DeliveryAssumption DEF Attempts
    <2>2. IsCurrent(a)' => Exists(a[1])'
      BY <2>1 DEF IsCurrent, Exists
    <2>3. a[1] \notin D => attempt'[a] = attempt[a] /\ delivery'[a[1]] = delivery[a[1]]
      BY <1>2, <2>1
    <2>4. IsCurrent(a)' => a[1] \notin D
      BY <1>4, <2>1, <2>2
    <2> QED
      BY <2>1, <2>3, <2>4 DEF IsCurrent
  <1>8. PollOK'
    <2>1. ASSUME NEW w \in PollWork, WorkOK(w) PROVE WorkOK(w)'
      <3>1. w.att \in Attempts
        BY DEF PollWork
      <3> QED
        BY <1>1, <1>7, <2>1, <3>1 DEF WorkOK, ClaimOK, PollClaimHeld
    <2>2. /\ \A w \in poll.todo : w \in PollWork
          /\ poll.item # NULL => poll.item \in PollWork
      BY DEF TypeInv, TypeOK, PollerState
    <2> QED
      BY <1>1, <2>1, <2>2 DEF SafeInv, PollOK
  <1>9. DispatcherKeepsItsAttempt'
    <2> SUFFICES ASSUME disp.pc # "idle" PROVE DispatcherKeepsItsAttempt'
      BY <1>1 DEF DispatcherKeepsItsAttempt
    <2>1. /\ disp.att \in Attempts /\ disp.att[1] \in Deliveries /\ disp.att[2] # 0
          /\ disp.att = <<disp.att[1], disp.att[2]>>
          /\ IsCurrent(disp.att) /\ attempt[disp.att].transport = "sending"
      BY DeliveryAssumption
         DEF TypeInv, LocalOK, Attempts, SafeInv, DispatcherKeepsItsAttempt, StillSending
    <2>2. Exists(disp.att[1]) /\ Row(disp.att[1]) = attempt[disp.att]
      BY <2>1 DEF IsCurrent, Exists, Row, Current
    <2>3. disp.att[1] \notin D
      BY <2>1, <2>2 DEF ActiveDelivery, Active
    <2> QED
      BY <1>1, <1>7, <2>1, <2>3
         DEF SafeInv, DispatcherKeepsItsAttempt, StillSending, IsCurrent
  <1>10. PostOK' /\ AtMostOnePost'
    <2>1. ASSUME NEW b \in Attempts, Unsent(b)' PROVE Unsent(b)
      <3>1. CASE IsCurrent(b)' /\ attempt'[b].transport = "pending"
        BY <1>7, <3>1 DEF Unsent
      <3>2. CASE Exists(b[1])' /\ b[2] > delivery'[b[1]].cur
        BY <1>4, <1>7, <3>2 DEF Unsent
      <3> QED
        BY <1>1, <2>1, <3>1, <3>2 DEF Unsent
    <2> QED
      BY <1>1, <2>1 DEF SafeInv, PostOK, AtMostOnePost
  <1>11. ExecOK' /\ DownIsIdle'
    BY <1>1, ExecSame DEF SafeInv, DownIsIdle
  <1> QED
    BY <1>5, <1>6, <1>8, <1>9, <1>10, <1>11 DEF SafeInv

(* A management request corrects the attempt it saw, or appends the next.    *)
LEMMA ApplySafe ==
    ASSUME TypeInv, SafeInv, NEW u \in Operators, ApplyManualUpdate(u)
    PROVE  SafeInv'
  <1> DEFINE a == exec[u].seen.att
             update == exec[u].update
             row == IF update.correct THEN Corrected(attempt[a], update) ELSE attempt[a]
             fresh == <<a[1], a[2] + 1>>
  <1>1. /\ phase = "up" /\ exec[u].pc = "apply"
        /\ UNCHANGED <<phase, ingested, compatible, disp, poll, posts>>
        /\ exec' = [exec EXCEPT ![u] = ExecuteIdle]
    BY DEF ApplyManualUpdate, ExecuteOnly, serverVars, bindingVars
  <1>2. ExecOK' /\ DownIsIdle'
    BY <1>1 DEF SafeInv, ExecOK, RequestOK, DownIsIdle, ExecuteIdle, TypeInv, TypeOK
  <1>3. /\ a \in Attempts /\ a[1] \in Deliveries /\ update \in ManualUpdate
        /\ fresh \in Attempts /\ fresh # a /\ row \in AttemptRow
    BY ApplyEffect
  <1>4. CASE UNCHANGED storeVars
    BY <1>1, <1>2, <1>4, StoreSame, ActiveSame, PollSame, DispSame, PostSame DEF SafeInv
  <1>5. CASE ~(UNCHANGED storeVars)
    <2>1. /\ SeenStillCurrent(exec[u].seen)
          /\ attempt'[a] = row
          /\ \A d \in Deliveries : d # a[1] => delivery'[d] = delivery[d]
          /\ \/ /\ update.create
                /\ attempt'[fresh] = NewAttempt
                /\ \A b \in Attempts \ {a, fresh} : attempt'[b] = attempt[b]
                /\ delivery'[a[1]].cur = a[2] + 1
                /\ delivery'[a[1]].transport = "pending"
                /\ delivery'[a[1]].deployment = "not_started"
             \/ /\ ~update.create
                /\ \A b \in Attempts \ {a} : attempt'[b] = attempt[b]
                /\ delivery'[a[1]].cur = delivery[a[1]].cur
                /\ delivery'[a[1]].transport = row.transport
                /\ delivery'[a[1]].deployment = row.deployment
      BY <1>5, ApplyEffect
    <2> HIDE DEF row, fresh
    <2>2. RequestOK(exec[u])
      BY <1>1 DEF SafeInv, ExecOK
    <2>3. /\ IsCurrent(a) /\ attempt[a].transport \notin {"pending", "sending"}
          /\ a[1] \in compatible
      <3>1. SeenStillCurrent(exec[u].seen)
        BY <2>1
      <3> QED
        BY <2>2, <3>1 DEF SeenStillCurrent, RequestOK
    <2>4. a[2] \in Nat \ {0} /\ a = <<a[1], a[2]>> /\ delivery[a[1]].cur = a[2]
      BY <1>3, <2>3, DeliveryAssumption DEF Attempts, IsCurrent
    <2>5. Exists(a[1]) /\ Row(a[1]) = attempt[a]
      BY <2>3, <2>4 DEF IsCurrent, Exists, Row, Current
    <2>6. CASE update.create
      <3>1. fresh[1] = a[1] /\ fresh[2] = a[2] + 1 /\ a[2] + 1 > a[2]
        BY <2>4 DEF fresh
      <3>2. FreshRow(fresh)
        BY <1>3, <2>1, <2>6, <3>1 DEF FreshRow
      <3>3. compatible \subseteq ingested
        BY DEF TypeInv, TypeOK
      <3> HIDE DEF update, a
      <3> QED
        BY <1>1, <1>2, <1>3, <2>3, <2>4, <2>5, <3>1, <3>2, <3>3, FreshRowSafe DEF SafeInv
    <2>7. CASE ~update.create
      <3>1. /\ update.correct /\ update.transport = "enqueued" /\ update.depId # NULL
            /\ update.deployment \in Monitored => update.due # NULL /\ update.deadline # NULL
        BY <1>1, <2>2, <2>7 DEF RequestOK
      <3>2. row = Corrected(attempt[a], update) /\ attempt[a] \in AttemptRow
        BY <1>3, <3>1 DEF TypeInv, TypeOK, row
      <3> HIDE DEF update, a
      <3>3. RowWritten(a, row)
        BY <2>1, <2>3, <2>7 DEF RowWritten
      <3>4. /\ row.transport = "enqueued" /\ row.depId = update.depId
            /\ row.deployment = update.deployment
            /\ row.due = update.due /\ row.deadline = update.deadline /\ row.polled = NULL
        BY <3>1, <3>2 DEF Corrected, AttemptRow
      <3>5. RowOK(row) /\ ~InFlight(row) /\ row.transport # "pending"
        BY <3>1, <3>4 DEF RowOK, InFlight
      <3>6. RowsOK' /\ DeliveryMirrorsAttempt'
        BY <1>1, <1>3, <3>3, <3>5, RowWrittenRows
      <3>7. SendsSerialized'
        BY <1>3, <3>3, <3>5, RowWrittenSerialized
      <3>8. ActiveIsCompatible'
        BY <1>1, <1>3, <2>3, <3>3, RowWrittenActive
      <3>9. PollOK'
        BY <1>1, <1>3, <3>3, <3>4, RowWrittenPoll, DeliveryAssumption
      <3>10. PostOK' /\ AtMostOnePost'
        <4>1. \A b \in Attempts :
                 disp.pc \in {"preflight", "cursor", "record", "post"} /\ disp.att = b => Unsent(b)
          BY DEF Unsent
        <4> QED
          BY <1>1, <1>3, <3>3, <3>5, <4>1, RowWrittenPost
      <3>11. DispatcherKeepsItsAttempt'
        BY <1>1, <1>3, <2>3, <3>3, RowWrittenDisp
      <3> QED
        BY <1>2, <3>6, <3>7, <3>8, <3>9, <3>10, <3>11 DEF SafeInv
    <2> QED
      BY <2>6, <2>7
  <1> QED
    BY <1>4, <1>5

-----------------------------------------------------------------------------
(* The theorems.                                                            *)

LEMMA NextSafe == TypeInv /\ SafeInv /\ [Next]_vars => SafeInv'
  <1> SUFFICES ASSUME TypeInv, SafeInv, [Next]_vars PROVE SafeInv'
    OBVIOUS
  <1>1. CASE Dispatch
    <2>1. CASE \E d \in Deliveries : ClaimPendingAttempt(d)
      BY <2>1, ClaimSafe
    <2>2. CASE Preflight \/ RequestFails
      BY <2>2, DispatcherAdvances
    <2>3. CASE SetDeploymentCursor \/ RecordDeploymentRequest
      BY <2>3, SendingRowSafe
    <2>4. CASE PostAccepted \/ PostRefused \/ PostUncertain
      BY <2>4, PostSafe DEF PostAccepted, PostRefused, PostUncertain
    <2>5. CASE TransitionAttempt
      BY <2>5, TransitionSafe
    <2> QED
      BY <1>1, <2>1, <2>2, <2>3, <2>4, <2>5 DEF Dispatch
  <1>2. CASE Poll
    BY <1>2, ListDuePollsSafe, PollLookupSafe, CompletePollSafe DEF Poll
  <1>3. CASE Manual
    BY <1>3, ExecuteStartSafe, ExecuteLookupSafe, ApplySafe DEF Manual
  <1>4. CASE Startup
    BY <1>4, BootSafe, TerminateSafe, RecoverSafe DEF Startup
  <1>5. CASE Remote \/ Tick
    BY <1>5, RemoteTickSafe
  <1>6. CASE Crash
    BY <1>6, CrashSafe
  <1>7. CASE \E d \in Deliveries : Ingest(d)
    BY <1>7, IngestSafe
  <1>8. CASE \E D \in SUBSET Deliveries : Prune(D)
    BY <1>8, DeleteSafe DEF Prune
  <1>9. CASE ClearHistory
    BY <1>9, DeleteSafe DEF ClearHistory
  <1>10. CASE \E S \in SUBSET ingested : PublishGeneration(S)
    BY <1>10, PublishSafe
  <1>11. CASE UNCHANGED vars
    BY <1>11, StutterSafe
  <1> QED
    BY <1>1, <1>2, <1>3, <1>4, <1>5, <1>6, <1>7, <1>8, <1>9, <1>10, <1>11 DEF Next

(* The inductive invariant holds in every reachable state, for any number of  *)
(* deliveries, targets and operators, any timers and any remote behaviour.    *)
THEOREM Inductive == Spec => []IndInv
  <1>1. Init => IndInv
    BY InitType, InitSafe, IndInvParts
  <1>2. IndInv /\ [Next]_vars => IndInv'
    BY NextType, NextSafe, IndInvParts DEF TypeInv, SafeInv, IndInv
  <1> QED
    BY <1>1, <1>2, PTL DEF Spec

(* Every status the management UI lists is the one of the current attempt.    *)
THEOREM StatusesMirrored == Spec => []DeliveryMirrorsAttempt
  <1>1. IndInv => DeliveryMirrorsAttempt
    BY DEF IndInv
  <1> QED
    BY <1>1, Inductive, PTL

(* No interleaving of operators, poller, retention, reloads and restarts      *)
(* takes a sending attempt away from the dispatcher: SetDeploymentCursor,     *)
(* RecordDeploymentRequest and transitionAttempt never meet                   *)
(* ErrAttemptNotSending.                                                      *)
THEOREM OutcomeNeverLost == Spec => []DispatcherKeepsItsAttempt
  <1>1. IndInv => DispatcherKeepsItsAttempt
    BY DEF IndInv
  <1> QED
    BY <1>1, Inductive, PTL

(* No attempt is POSTed twice, across any number of crashes and restarts.     *)
THEOREM PostedOnce == Spec => []AtMostOnePost
  <1>1. IndInv => AtMostOnePost
    BY DEF IndInv
  <1> QED
    BY <1>1, Inductive, PTL

(* Two deliveries that the claim keeps apart are never both in flight without *)
(* a bound deployment.                                                        *)
THEOREM Serialized == Spec => []SendsSerialized
  <1>1. IndInv => SendsSerialized
    BY DEF IndInv
  <1> QED
    BY <1>1, Inductive, PTL

(* The poller's query can always pick up what is monitored.                   *)
THEOREM TimersAlwaysSet == Spec => []MonitoredHasTimers
  <1>1. IndInv => MonitoredHasTimers
    BY DEF IndInv, RowsOK, RowOK, MonitoredHasTimers
  <1> QED
    BY <1>1, Inductive, PTL

(* While the process is up, what is active resolves in the generation that    *)
(* serves it.                                                                 *)
THEOREM ActiveResolves == Spec => []ActiveIsCompatible
  <1>1. IndInv => ActiveIsCompatible
    BY DEF IndInv
  <1> QED
    BY <1>1, Inductive, PTL
=============================================================================
