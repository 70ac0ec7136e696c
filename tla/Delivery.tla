------------------------------ MODULE Delivery ------------------------------
(***************************************************************************)
(* The durable life of a delivery: how one webhook that matched a target    *)
(* becomes at most one POST per attempt, how the deployment it caused is    *)
(* found again and followed to its end, and what an operator, a retention   *)
(* pass, a configuration change, a crash and a restart may do meanwhile.    *)
(*                                                                         *)
(* Actors: the single dispatcher goroutine, the single poller goroutine,    *)
(* any number of concurrent management requests (operators), the remote     *)
(* Dokploy server, time, and the process itself (crash, startup recovery).  *)
(* A store method is one SQLite transaction on one connection, hence one    *)
(* step; everything between two store or remote calls is another step.      *)
(*                                                                         *)
(* Simplifications:                                                         *)
(*  - A delivery is a natural number whose order is the claim order         *)
(*    (received_at, created_at, id); the k-th attempt of d is <<d, k>>.     *)
(*  - A Dokploy deployment ID is its position in the resource's history     *)
(*    and the empty preflight cursor is 0.                                  *)
(*  - How events become deliveries and when a generation may be published   *)
(*    is the reload lifecycle; here Ingest and PublishGeneration stand for  *)
(*    what it does to deliveries.                                           *)
(***************************************************************************)
EXTENDS Naturals, Sequences, FiniteSets

CONSTANTS
    Deliveries,     \* delivery rows that webhooks may create, ordered
    Operators,      \* concurrent management requests
    Targets,        \* configured target IDs
    TargetOf,       \* TargetOf[d]: deliveries.target_id
    Kind,           \* Kind[t]: "dokploy" or "http" (http and forward dispatch alike)
    Resource,       \* Resource[t]: the target's binding fingerprint
    Legacy,         \* deliveries whose dispatch_key is NULL (stored before the column)
    Interval,       \* PollInterval, at least one unit (pollingSettings)
    Timeout,        \* PollTimeout
    MaxPollBatch,   \* maxPollBatch
    NULL,           \* SQL NULL
    LateListing,    \* Dokploy may answer a POST before its history shows the deployment
    Relabels,       \* Dokploy may replace a description (Git-backed Compose)
    RemoteStatus,   \* statuses Dokploy reports ("other": anything hookfly does not know)
    Trims,          \* Dokploy may drop the oldest history records
    MaxForeign,     \* bound: deployments started outside hookfly, per resource
    MaxAttempts,    \* bound: attempts of one delivery
    MaxCrashes,     \* bound: crashes
    Horizon         \* bound: last instant at which webhooks, operators and crashes act

ASSUME DeliveryAssumption ==
    /\ Deliveries \subseteq Nat
    /\ TargetOf \in [Deliveries -> Targets]
    /\ Kind \in [Targets -> {"dokploy", "http"}]
    /\ DOMAIN Resource = Targets
    /\ \A s, t \in Targets : Resource[s] = Resource[t] => Kind[s] = Kind[t]
    /\ Legacy \subseteq Deliveries
    /\ Interval \in Nat \ {0}
    /\ Timeout \in Nat \ {0}
    /\ MaxPollBatch \in Nat \ {0}
    /\ MaxAttempts \in Nat \ {0}
    /\ MaxForeign \in Nat
    /\ MaxCrashes \in Nat
    /\ Horizon \in Nat
    /\ LateListing \in BOOLEAN
    /\ Relabels \in BOOLEAN
    /\ Trims \in BOOLEAN
    /\ {"running"} \subseteq RemoteStatus
    /\ RemoteStatus \subseteq {"running", "done", "error", "cancelled", "other"}
    /\ NULL \notin Nat
    /\ NULL \notin {Resource[t] : t \in Targets}
    /\ NULL \notin Deliveries \X (1..MaxAttempts)

VARIABLES
    now,         \* wall clock
    phase,       \* the process: "up", or starting: "down", "binding"
    ingested,    \* deliveries a webhook has created (also the ones deleted since)
    compatible,  \* deliveries whose target snapshot the current generation resolves
    delivery,    \* table deliveries: current attempt number (0: no row) and statuses
    attempt,     \* table delivery_attempts
    disp,        \* Dispatcher.RunOnce
    poll,        \* Poller.RunOnce
    exec,        \* Attempts.Execute, per operator
    history,     \* Dokploy: deployment records of a resource, oldest first
    trimmed,     \* Dokploy: how many of the oldest records are gone
    inbox,       \* Dokploy: accepted requests that have no record yet
    posts,       \* POSTs sent for an attempt (observation only)
    crashes

serverVars == <<now, phase, crashes>>
bindingVars == <<ingested, compatible>>
storeVars == <<delivery, attempt>>
remoteVars == <<history, trimmed, inbox>>
vars == <<serverVars, bindingVars, storeVars, disp, poll, exec, remoteVars, posts>>

-----------------------------------------------------------------------------
(* Statuses (internal/domain/status.go) and rows (internal/store).          *)

TransportStatus == {"pending", "sending", "enqueued", "failed", "unknown"}
DeploymentStatus ==
    {"not_started", "locating", "running", "unrecognized",
     "done", "error", "cancelled", "timeout", "unknown"}
Operation == {"retry", "redeploy"}
Monitored == {"locating", "running", "unrecognized"}

\* Mutant: a send in progress is not counted as active work.
ActiveWithoutSending(t, p) == t = "pending" \/ p \in Monitored
Active(t, p) == t \in {"pending", "sending"} \/ p \in Monitored

AllowedOperations(t, p) ==
    CASE t \in {"failed", "unknown"} -> {"retry"}
      [] t \notin {"failed", "unknown"}
         /\ p \in {"error", "cancelled", "timeout", "unknown"} -> {"redeploy"}
      [] OTHER -> {}

\* Mutant: an uncertain send is retried without a lookup.
NeedsReconciliationUnlessSent(t, p) == p \in {"unknown", "error", "cancelled", "timeout"}
NeedsReconciliation(t, p) ==
    t = "unknown" \/ p \in {"unknown", "error", "cancelled", "timeout"}

Attempts == Deliveries \X (1..MaxAttempts)
Resources == {Resource[t] : t \in Targets}
Time == Nat \cup {NULL}
DeploymentIDs == (Nat \ {0}) \cup {NULL}

AttemptRow ==
    [transport : TransportStatus, deployment : DeploymentStatus,
     cursor : Nat \cup {NULL}, request : BOOLEAN, depId : DeploymentIDs,
     due : Time, deadline : Time, polled : Time]

NewAttempt ==
    [transport |-> "pending", deployment |-> "not_started",
     cursor |-> NULL, request |-> FALSE, depId |-> NULL,
     due |-> NULL, deadline |-> NULL, polled |-> NULL]

DeliveryRow ==
    [cur : 0..MaxAttempts, transport : TransportStatus, deployment : DeploymentStatus]

NoDelivery == [cur |-> 0, transport |-> "pending", deployment |-> "not_started"]

Exists(d) == delivery[d].cur # 0
Current(d) == <<d, delivery[d].cur>>
IsCurrent(a) == delivery[a[1]].cur = a[2]
Row(d) == attempt[Current(d)]
ActiveDelivery(d) == Exists(d) /\ Active(Row(d).transport, Row(d).deployment)
KindOf(d) == Kind[TargetOf[d]]
ResourceOf(d) == Resource[TargetOf[d]]
DispatchKey(d) == IF d \in Legacy THEN NULL ELSE ResourceOf(d)

(* A write of both tables: the attempt row and the statuses it mirrors.     *)
WriteCurrent(a, row) ==
    /\ attempt' = [attempt EXCEPT ![a] = row]
    /\ delivery' = [delivery EXCEPT ![a[1]].transport = row.transport,
                                    ![a[1]].deployment = row.deployment]

-----------------------------------------------------------------------------
(* The remote Dokploy server (external): the history that                   *)
(* deployment.allByCompose returns, read newest first by the client.        *)

Record == [owner : Attempts \cup {NULL}, status : RemoteStatus, labelled : BOOLEAN]
NewRecord(owner) == [owner |-> owner, status |-> "running", labelled |-> TRUE]

Visible(r) == (trimmed[r] + 1)..Len(history[r])
Labelled(r, i, a) == history[r][i].labelled /\ history[r][i].owner = a
Newest(S) == {i \in S : \A j \in S : j <= i}

(* dokploy.Client.LatestDeploymentID: the preflight boundary.               *)
LatestDeploymentID(r) == IF Visible(r) = {} THEN 0 ELSE Len(history[r])

(* dokploy.Client.FindDeployment: by ID once bound, else by the description. *)
FindDeployment(r, a, id) ==
    Newest({i \in Visible(r) : IF id # NULL THEN i = id ELSE Labelled(r, i, a)})

(* dokploy.Client.FindDeploymentAfter: the records newer than the cursor.   *)
Candidates(r, c) == {i \in Visible(r) : i > c}
CursorMissing(r, c) == c # 0 /\ c \notin Visible(r)
FindDeploymentAfter(r, a, c) ==
    LET exact == {i \in Candidates(r, c) : Labelled(r, i, a)} IN
    CASE CursorMissing(r, c) -> {}
      [] ~CursorMissing(r, c) /\ Cardinality(Candidates(r, c)) = 1 -> Candidates(r, c)
      [] ~CursorMissing(r, c) /\ Cardinality(Candidates(r, c)) # 1 ->
            IF Cardinality(exact) = 1 THEN exact ELSE {}
UnsafeCorrelation(r, a, c) ==
    \/ CursorMissing(r, c)
    \/ Candidates(r, c) # {} /\ FindDeploymentAfter(r, a, c) = {}

(* A POST that Dokploy accepts.                                             *)
Accept(a) ==
    IF KindOf(a[1]) = "http" THEN UNCHANGED <<history, inbox>>
    ELSE IF LateListing
    THEN inbox' = inbox \cup {a} /\ UNCHANGED history
    ELSE /\ history' = [history EXCEPT ![ResourceOf(a[1])] = Append(@, NewRecord(a))]
         /\ UNCHANGED inbox

RemoteOnly ==
    UNCHANGED <<serverVars, bindingVars, storeVars, disp, poll, exec, posts>>

RemoteList(a) ==
    /\ a \in inbox
    /\ inbox' = inbox \ {a}
    /\ history' = [history EXCEPT ![ResourceOf(a[1])] = Append(@, NewRecord(a))]
    /\ UNCHANGED trimmed
    /\ RemoteOnly

Foreign(r) == {i \in 1..Len(history[r]) : history[r][i].owner = NULL}
RemoteForeign(r) ==
    /\ Cardinality(Foreign(r)) < MaxForeign
    /\ history' = [history EXCEPT ![r] = Append(@, NewRecord(NULL))]
    /\ UNCHANGED <<trimmed, inbox>>
    /\ RemoteOnly

RemoteProgress(r, i, s) ==
    /\ i \in 1..Len(history[r])
    /\ history[r][i].status \in {"running", "other"}
    /\ s # history[r][i].status
    /\ history' = [history EXCEPT ![r][i].status = s]
    /\ UNCHANGED <<trimmed, inbox>>
    /\ RemoteOnly

RemoteRelabel(r, i) ==
    /\ Relabels
    /\ i \in 1..Len(history[r])
    /\ history[r][i].labelled
    /\ history' = [history EXCEPT ![r][i].labelled = FALSE]
    /\ UNCHANGED <<trimmed, inbox>>
    /\ RemoteOnly

RemoteTrim(r) ==
    /\ Trims
    /\ trimmed[r] + 1 < Len(history[r])
    /\ trimmed' = [trimmed EXCEPT ![r] = @ + 1]
    /\ UNCHANGED <<history, inbox>>
    /\ RemoteOnly

-----------------------------------------------------------------------------
(* Process-local state, lost when the process stops.                         *)

DispatcherIdle == [pc |-> "idle", att |-> NULL, cursor |-> NULL, result |-> NULL]
DispatcherState ==
    [pc : {"idle", "preflight", "cursor", "record", "post", "outcome"},
     att : Attempts \cup {NULL}, cursor : Nat \cup {NULL},
     result : {"accepted", "definitive", "uncertain", NULL}]

PollerIdle == [at |-> NULL, todo |-> {}, item |-> NULL, update |-> NULL]
PollWork ==
    [att : Attempts, transport : TransportStatus, deployment : Monitored,
     depId : DeploymentIDs, cursor : Nat \cup {NULL}, deadline : Nat, resolves : BOOLEAN]
PollUpdates ==
    [transport : TransportStatus, deployment : DeploymentStatus,
     depId : DeploymentIDs, due : Time]
PollerState ==
    [at : Time, todo : SUBSET PollWork, item : PollWork \cup {NULL},
     update : PollUpdates \cup {NULL}]

ExecuteIdle == [pc |-> "idle", seen |-> NULL, op |-> NULL, update |-> NULL]
SeenAttempt ==
    [att : Attempts, transport : TransportStatus, deployment : DeploymentStatus,
     depId : DeploymentIDs]
ManualUpdate ==
    [correct : BOOLEAN, create : BOOLEAN,
     transport : TransportStatus, deployment : DeploymentStatus,
     depId : DeploymentIDs, due : Time, deadline : Time]
ExecuteState ==
    [pc : {"idle", "lookup", "apply"}, seen : SeenAttempt \cup {NULL},
     op : Operation \cup {NULL}, update : ManualUpdate \cup {NULL}]

Stop ==
    /\ phase' = "down"
    /\ disp' = DispatcherIdle
    /\ poll' = PollerIdle
    /\ exec' = [u \in Operators |-> ExecuteIdle]

-----------------------------------------------------------------------------
(* The dispatcher (internal/worker/dispatcher.go).                           *)

DispatcherOnly == UNCHANGED <<serverVars, bindingVars, poll, exec>>

\* Mutant: sends are kept apart by target ID only.
SameTarget(d, e) == TargetOf[d] = TargetOf[e]
(* Two deliveries whose sends the claim keeps apart: the dispatch key, or   *)
(* the target ID when either row has no key.                                *)
SameDispatch(d, e) ==
    IF DispatchKey(d) # NULL /\ DispatchKey(e) # NULL
    THEN DispatchKey(d) = DispatchKey(e)
    ELSE TargetOf[d] = TargetOf[e]

UnboundInFlight(d) ==
    /\ Exists(d)
    /\ Row(d).depId = NULL
    /\ Row(d).transport = "sending" \/ Row(d).deployment \in Monitored

\* Mutant: the claim does not look at other deliveries.
ClaimableAlone(d) ==
    Exists(d) /\ Row(d).transport = "pending" /\ delivery[d].transport = "pending"
Claimable(d) ==
    /\ Exists(d)
    /\ Row(d).transport = "pending"
    /\ delivery[d].transport = "pending"
    /\ \A e \in Deliveries \ {d} : SameDispatch(e, d) => ~UnboundInFlight(e)

(* Store.ClaimPendingAttempt and the target resolution, under one read gate. *)
ClaimPendingAttempt(d) ==
    /\ phase = "up" /\ disp.pc = "idle"
    /\ Claimable(d)
    /\ \A e \in Deliveries : Claimable(e) => d <= e
    /\ WriteCurrent(Current(d), [Row(d) EXCEPT !.transport = "sending"])
    /\ disp' = IF d \notin compatible
               THEN [DispatcherIdle EXCEPT !.pc = "outcome", !.att = Current(d),
                                           !.result = "definitive"]
               ELSE [DispatcherIdle EXCEPT !.att = Current(d),
                        !.pc = IF KindOf(d) = "dokploy" THEN "preflight" ELSE "record"]
    /\ UNCHANGED <<remoteVars, posts>>
    /\ DispatcherOnly

(* LatestDeploymentID before the POST; an error ends the attempt as failed.  *)
Preflight ==
    /\ phase = "up" /\ disp.pc = "preflight"
    /\ \/ disp' = [disp EXCEPT !.pc = "cursor",
                      !.cursor = LatestDeploymentID(ResourceOf(disp.att[1]))]
       \/ disp' = [disp EXCEPT !.pc = "outcome", !.result = "definitive"]
    /\ UNCHANGED <<storeVars, remoteVars, posts>>
    /\ DispatcherOnly

(* A store method whose guard no longer holds returns an error, and the      *)
(* worker's error stops the process.                                         *)
WorkerFails == Stop /\ UNCHANGED storeVars

StillSending(a) == IsCurrent(a) /\ attempt[a].transport = "sending"

SetDeploymentCursor ==
    /\ phase = "up" /\ disp.pc = "cursor"
    /\ IF StillSending(disp.att) /\ attempt[disp.att].cursor = NULL
       THEN /\ attempt' = [attempt EXCEPT ![disp.att].cursor = disp.cursor]
            /\ disp' = [disp EXCEPT !.pc = "record"]
            /\ UNCHANGED <<delivery, phase, poll, exec>>
       ELSE WorkerFails
    /\ UNCHANGED <<now, crashes, bindingVars, remoteVars, posts>>

RecordDeploymentRequest ==
    /\ phase = "up" /\ disp.pc = "record"
    /\ IF StillSending(disp.att) /\ ~attempt[disp.att].request
       THEN /\ attempt' = [attempt EXCEPT ![disp.att].request = TRUE]
            /\ disp' = [disp EXCEPT !.pc = "post"]
            /\ UNCHANGED <<delivery, phase, poll, exec>>
       ELSE WorkerFails
    /\ UNCHANGED <<now, crashes, bindingVars, remoteVars, posts>>

(* The request cannot be built (no client, no Compose ID, a bad template).   *)
RequestFails ==
    /\ phase = "up" /\ disp.pc = "record"
    /\ disp' = [disp EXCEPT !.pc = "outcome", !.result = "definitive"]
    /\ UNCHANGED <<storeVars, remoteVars, posts>>
    /\ DispatcherOnly

(* The POST: accepted (2xx); refused before or by the server (dial error,    *)
(* other status); or cut off, when the server may or may not have got it.    *)
Post(result) ==
    /\ phase = "up" /\ disp.pc = "post"
    /\ posts' = [posts EXCEPT ![disp.att] = @ + 1]
    /\ disp' = [disp EXCEPT !.pc = "outcome", !.result = result]
    /\ UNCHANGED <<storeVars, trimmed>>
    /\ DispatcherOnly

PostAccepted == Post("accepted") /\ Accept(disp.att)
PostRefused == Post("definitive") /\ UNCHANGED <<history, inbox>>
PostUncertain ==
    /\ Post("uncertain")
    /\ Accept(disp.att) \/ UNCHANGED <<history, inbox>>

Scheduled(row, t) == [row EXCEPT !.due = t + Interval, !.deadline = t + Timeout]

\* Mutant: a timeout after the request was written counts as a refusal.
OutcomeNeverUncertain(kind, result, row) ==
    IF result # "accepted"
    THEN [row EXCEPT !.transport = "failed"]
    ELSE Scheduled([row EXCEPT !.transport = "enqueued", !.deployment = "locating"], now)
(* What MarkEnqueued, MarkAccepted, MarkTransportFailed, MarkTransportUnknown *)
(* and MarkTransportUnknownTerminal write, by target kind and outcome.       *)
Outcome(kind, result, row) ==
    CASE result = "definitive" ->
            [row EXCEPT !.transport = "failed", !.deployment = "not_started",
                        !.due = NULL, !.deadline = NULL]
      [] kind = "dokploy" /\ result = "accepted" ->
            Scheduled([row EXCEPT !.transport = "enqueued", !.deployment = "locating"], now)
      [] kind = "dokploy" /\ result = "uncertain" ->
            Scheduled([row EXCEPT !.transport = "unknown", !.deployment = "locating"], now)
      [] kind = "http" /\ result = "accepted" ->
            [row EXCEPT !.transport = "enqueued", !.deployment = "done",
                        !.due = NULL, !.deadline = NULL]
      [] kind = "http" /\ result = "uncertain" ->
            [row EXCEPT !.transport = "unknown", !.deployment = "unknown",
                        !.due = NULL, !.deadline = NULL]

(* Store.transitionAttempt.                                                  *)
TransitionAttempt ==
    /\ phase = "up" /\ disp.pc = "outcome"
    /\ IF StillSending(disp.att) /\ delivery[disp.att[1]].transport = "sending"
       THEN /\ WriteCurrent(disp.att,
                   Outcome(KindOf(disp.att[1]), disp.result, attempt[disp.att]))
            /\ disp' = DispatcherIdle
            /\ UNCHANGED <<phase, poll, exec>>
       ELSE WorkerFails
    /\ UNCHANGED <<now, crashes, bindingVars, remoteVars, posts>>

-----------------------------------------------------------------------------
(* The poller (internal/worker/poller.go, Store.ListDuePolls, CompletePoll). *)

PollerOnly == UNCHANGED <<serverVars, bindingVars, disp, exec, remoteVars, posts>>

WakeAt(row) == IF row.deadline < row.due THEN row.deadline ELSE row.due

DuePoll(d) ==
    /\ Exists(d)
    /\ Row(d).deployment \in Monitored
    /\ Row(d).due # NULL /\ Row(d).deadline # NULL
    /\ WakeAt(Row(d)) <= now
    /\ Row(d).polled = NULL \/ Row(d).polled < WakeAt(Row(d))

PollsBefore(d, e) ==
    \/ WakeAt(Row(d)) < WakeAt(Row(e))
    \/ WakeAt(Row(d)) = WakeAt(Row(e)) /\ d < e

(* The first MaxPollBatch due deliveries in the order of the query.          *)
PollBatch ==
    {d \in Deliveries :
        /\ DuePoll(d)
        /\ Cardinality({e \in Deliveries : DuePoll(e) /\ PollsBefore(e, d)}) < MaxPollBatch}

Claimed(d) ==
    [att |-> Current(d), transport |-> Row(d).transport, deployment |-> Row(d).deployment,
     depId |-> Row(d).depId, cursor |-> Row(d).cursor, deadline |-> Row(d).deadline,
     resolves |-> d \in compatible]

ListDuePolls ==
    /\ phase = "up" /\ poll = PollerIdle
    /\ PollBatch # {}
    /\ poll' = [PollerIdle EXCEPT !.at = now, !.todo = {Claimed(d) : d \in PollBatch}]
    /\ attempt' = [a \in Attempts |->
                      IF IsCurrent(a) /\ a[1] \in PollBatch
                      THEN [attempt[a] EXCEPT !.polled = now]
                      ELSE attempt[a]]
    /\ UNCHANGED delivery
    /\ PollerOnly

Observed(s) == IF s \in {"done", "error", "cancelled", "running"} THEN s ELSE "unrecognized"

(* pollUpdate and the unsafe-correlation override: ids is the match, if any. *)
PollUpdate(w, ids, unsafe, t) ==
    LET reached == t >= w.deadline
        match == CHOOSE i \in ids : TRUE
        seen == Observed(history[ResourceOf(w.att[1])][match].status)
        after == CASE unsafe -> "unknown"
                   [] ~unsafe /\ ids # {} ->
                        IF reached /\ seen \in Monitored THEN "timeout" ELSE seen
                   [] ~unsafe /\ ids = {} ->
                        IF ~reached THEN w.deployment
                        ELSE IF w.depId # NULL THEN "timeout" ELSE "unknown"
    IN [transport |-> IF ids # {} THEN "enqueued" ELSE w.transport,
        deployment |-> after,
        depId |-> IF ids # {} THEN match ELSE NULL,
        due |-> IF after \in Monitored THEN t + Interval ELSE NULL]

(* One remote lookup; a failed one, and any lookup of a target without a     *)
(* Compose ID, counts as no match.                                           *)
PollLookup(w) ==
    /\ phase = "up" /\ poll.item = NULL /\ w \in poll.todo
    /\ LET a == w.att
           r == ResourceOf(a[1])
           byCursor == w.depId = NULL /\ w.cursor # NULL
           ids == IF byCursor THEN FindDeploymentAfter(r, a, w.cursor)
                              ELSE FindDeployment(r, a, w.depId)
           unsafe == byCursor /\ UnsafeCorrelation(r, a, w.cursor)
           answers == KindOf(a[1]) = "dokploy" /\ w.resolves
       IN \/ /\ answers
             /\ poll' = [poll EXCEPT !.todo = @ \ {w}, !.item = w,
                                     !.update = PollUpdate(w, ids, unsafe, poll.at)]
          \/ poll' = [poll EXCEPT !.todo = @ \ {w}, !.item = w,
                                  !.update = PollUpdate(w, {}, FALSE, poll.at)]
    /\ UNCHANGED storeVars
    /\ PollerOnly

\* Mutant: a poll completes without its claim.
PollOfCurrent(a) == IsCurrent(a)
PollClaimHeld(a) == IsCurrent(a) /\ attempt[a].polled = poll.at

\* Mutant: only a new transport status reaches the delivery row.
TransportChanged(row, u) == row.transport # u.transport
StatusChanged(row, u) == row.transport # u.transport \/ row.deployment # u.deployment
\* Mutant: a poll without a match forgets the bound deployment.
UpdateID(row, u) == u.depId
DeploymentID(row, u) == IF u.depId # NULL THEN u.depId ELSE row.depId

CompletePoll ==
    /\ phase = "up" /\ poll.item # NULL
    /\ LET a == poll.item.att
           u == poll.update
           row == attempt[a]
       IN IF PollClaimHeld(a)
          THEN /\ attempt' = [attempt EXCEPT ![a] =
                     [row EXCEPT !.transport = u.transport, !.deployment = u.deployment,
                                 !.depId = DeploymentID(row, u),
                                 !.due = u.due]]
               /\ delivery' = IF StatusChanged(row, u)
                     THEN [delivery EXCEPT ![a[1]].transport = u.transport,
                                           ![a[1]].deployment = u.deployment]
                     ELSE delivery
          ELSE UNCHANGED storeVars
    /\ poll' = IF poll.todo = {} THEN PollerIdle
               ELSE [poll EXCEPT !.item = NULL, !.update = NULL]
    /\ PollerOnly

-----------------------------------------------------------------------------
(* Management requests (internal/service/attempts.go): the read gate is held *)
(* from the first read to the last write, other operators run alongside.     *)

ExecuteOnly == UNCHANGED <<serverVars, bindingVars, disp, poll, remoteVars, posts>>

(* createManual: append a pending attempt and correct nothing.               *)
CreateOnly ==
    [correct |-> FALSE, create |-> TRUE, transport |-> "pending",
     deployment |-> "not_started", depId |-> NULL, due |-> NULL, deadline |-> NULL]

(* Execute up to its first remote or store write; refusals change nothing.   *)
ExecuteStart(u, d, op) ==
    /\ phase = "up" /\ exec[u].pc = "idle"
    /\ now <= Horizon /\ delivery[d].cur < MaxAttempts
    /\ Exists(d) /\ d \in compatible
    /\ LET row == Row(d) IN
        /\ \/ ~Active(row.transport, row.deployment)
           \/ row.transport = "unknown" \/ row.deployment = "unknown"
        /\ row.deployment # "done"
        /\ op \in AllowedOperations(row.transport, row.deployment)
        /\ exec' = [exec EXCEPT ![u] =
              LET request == [ExecuteIdle EXCEPT !.op = op,
                    !.seen = [att |-> Current(d), transport |-> row.transport,
                              deployment |-> row.deployment, depId |-> row.depId]]
              IN IF NeedsReconciliation(row.transport, row.deployment)
                 THEN [request EXCEPT !.pc = "lookup"]
                 ELSE [request EXCEPT !.pc = "apply", !.update = CreateOnly]]
    /\ UNCHANGED storeVars
    /\ ExecuteOnly

(* reconcileThenExecute: what the answer of FindDeployment makes of it.      *)
Reconciled(op, r, ids) ==
    LET match == CHOOSE i \in ids : TRUE
        status == Observed(history[r][match].status)
    IN IF ids = {} THEN CreateOnly
       ELSE [correct |-> TRUE,
             create |-> status \in {"error", "cancelled"} /\ op = "redeploy",
             transport |-> "enqueued", deployment |-> status, depId |-> match,
             due |-> IF status \in Monitored THEN now + Interval ELSE NULL,
             deadline |-> IF status \in Monitored THEN now + Timeout ELSE NULL]

ExecuteLookup(u) ==
    /\ phase = "up" /\ exec[u].pc = "lookup"
    /\ LET a == exec[u].seen.att
           r == ResourceOf(a[1])
       IN \/ /\ KindOf(a[1]) = "dokploy"
             /\ exec' = [exec EXCEPT ![u].pc = "apply",
                   ![u].update = Reconciled(exec[u].op, r,
                                            FindDeployment(r, a, exec[u].seen.depId))]
          \/ exec' = [exec EXCEPT ![u] = ExecuteIdle]
    /\ UNCHANGED storeVars
    /\ ExecuteOnly

\* Mutants: the compare-and-swap without the statuses, and without anything.
SeenAttemptCurrent(seen) == IsCurrent(seen.att)
SeenAnything(seen) == Exists(seen.att[1])
(* Store.ApplyManualUpdate: compare, correct the seen attempt, append the    *)
(* new one, all in one transaction.                                          *)
SeenStillCurrent(seen) ==
    /\ IsCurrent(seen.att)
    /\ attempt[seen.att].transport = seen.transport
    /\ attempt[seen.att].deployment = seen.deployment

Corrected(row, update) ==
    [row EXCEPT !.transport = update.transport, !.deployment = update.deployment,
                !.depId = update.depId, !.due = update.due,
                !.deadline = update.deadline, !.polled = NULL]

ApplyManualUpdate(u) ==
    /\ phase = "up" /\ exec[u].pc = "apply"
    /\ LET a == exec[u].seen.att
           update == exec[u].update
           row == IF update.correct THEN Corrected(attempt[a], update) ELSE attempt[a]
           fresh == <<a[1], a[2] + 1>>
       IN IF ~SeenStillCurrent(exec[u].seen) THEN UNCHANGED storeVars
          ELSE IF update.create
          THEN /\ attempt' = [attempt EXCEPT ![a] = row, ![fresh] = NewAttempt]
               /\ delivery' = [delivery EXCEPT ![a[1]] =
                      [cur |-> fresh[2], transport |-> "pending", deployment |-> "not_started"]]
          ELSE WriteCurrent(a, row)
    /\ exec' = [exec EXCEPT ![u] = ExecuteIdle]
    /\ ExecuteOnly

-----------------------------------------------------------------------------
(* Webhooks, generations, retention, time.                                   *)

StoreOnly == UNCHANGED <<serverVars, disp, poll, exec, remoteVars, posts>>

(* Store.Ingest or Store.FinalizeDeferred: one delivery of a routed event.   *)
Ingest(d) ==
    /\ phase = "up" /\ now <= Horizon
    /\ d \notin ingested
    /\ ingested' = ingested \cup {d}
    /\ compatible' = compatible \cup {d}
    /\ delivery' = [delivery EXCEPT ![d] = [NoDelivery EXCEPT !.cur = 1]]
    /\ attempt' = [attempt EXCEPT ![<<d, 1>>] = NewAttempt]
    /\ StoreOnly

\* Mutant: a reload publishes without waiting for active deliveries.
PublishAnytime(S) ==
    /\ phase = "up" /\ now <= Horizon
    /\ compatible' = S
    /\ UNCHANGED <<ingested, storeVars>>
    /\ StoreOnly

(* Manager.publishCandidateLocked: CountActive is zero under the write gate, *)
(* so no management request is under way either.                             *)
PublishGeneration(S) ==
    /\ phase = "up" /\ now <= Horizon
    /\ \A d \in Deliveries : ~ActiveDelivery(d)
    /\ \A u \in Operators : exec[u].pc = "idle"
    /\ S \subseteq ingested
    /\ compatible' = S
    /\ UNCHANGED <<ingested, storeVars>>
    /\ StoreOnly

Delete(D) ==
    /\ delivery' = [d \in Deliveries |-> IF d \in D THEN NoDelivery ELSE delivery[d]]
    /\ attempt' = [a \in Attempts |-> IF a[1] \in D THEN NewAttempt ELSE attempt[a]]
    /\ UNCHANGED bindingVars
    /\ StoreOnly

(* Store.Prune: events past a retention limit that have no active delivery.  *)
(* The pass runs hourly, on a publication and after a terminal transition,   *)
(* always as a transaction of its own.                                       *)
Prune(D) ==
    /\ phase = "up"
    /\ D # {}
    /\ \A d \in D : Exists(d) /\ ~ActiveDelivery(d)
    /\ Delete(D)

(* Store.ClearHistory: everything, unless something is active.               *)
ClearHistory ==
    /\ phase = "up"
    /\ \E d \in Deliveries : Exists(d)
    /\ \A d \in Deliveries : ~ActiveDelivery(d)
    /\ Delete(Deliveries)

(* Time matters while a timer of a monitored attempt lies ahead.             *)
Tick ==
    /\ \E d \in Deliveries :
        /\ Exists(d) /\ Row(d).deployment \in Monitored
        /\ \/ Row(d).due # NULL /\ Row(d).due > now
           \/ Row(d).deadline # NULL /\ Row(d).deadline > now
    /\ now' = now + 1
    /\ UNCHANGED <<phase, crashes, bindingVars, storeVars, disp, poll, exec, remoteVars, posts>>

-----------------------------------------------------------------------------
(* Crash and startup (internal/app/app.go, App.Prepare).                     *)

Crash ==
    /\ phase # "down" /\ now <= Horizon
    /\ crashes < MaxCrashes
    /\ crashes' = crashes + 1
    /\ Stop
    /\ UNCHANGED <<now, bindingVars, storeVars, remoteVars, posts>>

StartupOnly == UNCHANGED <<now, crashes, disp, poll, exec, remoteVars, posts>>

(* The configuration on disk may have changed while the process was down.    *)
Boot(S) ==
    /\ phase = "down"
    /\ phase' = "binding"
    /\ S \subseteq ingested
    /\ compatible' = S
    /\ UNCHANGED <<ingested, storeVars>>
    /\ StartupOnly

Terminated(row) ==
    LET unsent == row.transport = "pending" /\ row.deployment = "not_started"
    IN [row EXCEPT !.transport = IF unsent THEN "failed" ELSE "unknown",
                   !.deployment = IF unsent THEN "not_started" ELSE "unknown",
                   !.due = NULL, !.deadline = NULL, !.polled = NULL]

TerminateIncompatibleActive(d) ==
    /\ phase = "binding"
    /\ ActiveDelivery(d) /\ d \notin compatible
    /\ WriteCurrent(Current(d), Terminated(Row(d)))
    /\ UNCHANGED <<phase, bindingVars>>
    /\ StartupOnly

Interrupted(row) == row.transport = "sending" \/ row.deployment \in Monitored

\* Mutants: an interrupted send starts over in the attempt row only; it gets no
\* poll.
RecoveredPending(row) ==
    IF row.transport = "sending" THEN NewAttempt ELSE [row EXCEPT !.polled = NULL]
RecoveredUnscheduled(row) ==
    [row EXCEPT !.transport = IF row.transport = "sending" THEN "unknown" ELSE @,
                !.deployment = IF row.transport = "sending" THEN "locating" ELSE @,
                !.polled = NULL]
Recovered(row) ==
    [row EXCEPT !.transport = IF row.transport = "sending" THEN "unknown" ELSE @,
                !.deployment = IF row.transport = "sending" THEN "locating" ELSE @,
                !.due = IF @ = NULL THEN now + Interval ELSE @,
                !.deadline = IF @ = NULL THEN now + Timeout ELSE @,
                !.polled = NULL]

\* Mutant: an interrupted send starts over.
RecoverResends ==
    /\ phase = "binding"
    /\ \A d \in Deliveries : ActiveDelivery(d) => d \in compatible
    /\ phase' = "up"
    /\ attempt' = [a \in Attempts |->
                      IF IsCurrent(a) /\ Interrupted(attempt[a])
                      THEN RecoveredPending(attempt[a]) ELSE attempt[a]]
    /\ delivery' = [d \in Deliveries |->
                      IF Exists(d) /\ Row(d).transport = "sending"
                      THEN [delivery[d] EXCEPT !.transport = "pending"] ELSE delivery[d]]
    /\ UNCHANGED bindingVars
    /\ StartupOnly
RecoverInterrupted ==
    /\ phase = "binding"
    /\ \A d \in Deliveries : ActiveDelivery(d) => d \in compatible
    /\ phase' = "up"
    /\ attempt' = [a \in Attempts |->
                      IF IsCurrent(a) /\ Interrupted(attempt[a])
                      THEN Recovered(attempt[a]) ELSE attempt[a]]
    /\ delivery' = [d \in Deliveries |->
                      IF Exists(d) /\ Row(d).transport = "sending"
                      THEN [delivery[d] EXCEPT !.transport = "unknown", !.deployment = "locating"]
                      ELSE delivery[d]]
    /\ UNCHANGED bindingVars
    /\ StartupOnly

-----------------------------------------------------------------------------
Init ==
    /\ now = 0
    /\ phase = "up"
    /\ crashes = 0
    /\ ingested = {}
    /\ compatible = {}
    /\ delivery = [d \in Deliveries |-> NoDelivery]
    /\ attempt = [a \in Attempts |-> NewAttempt]
    /\ disp = DispatcherIdle
    /\ poll = PollerIdle
    /\ exec = [u \in Operators |-> ExecuteIdle]
    /\ history = [r \in Resources |-> <<>>]
    /\ trimmed = [r \in Resources |-> 0]
    /\ inbox = {}
    /\ posts = [a \in Attempts |-> 0]

Dispatch ==
    \/ \E d \in Deliveries : ClaimPendingAttempt(d)
    \/ Preflight
    \/ SetDeploymentCursor
    \/ RecordDeploymentRequest
    \/ RequestFails
    \/ PostAccepted
    \/ PostRefused
    \/ PostUncertain
    \/ TransitionAttempt

Poll ==
    \/ ListDuePolls
    \/ \E w \in poll.todo : PollLookup(w)
    \/ CompletePoll

Manual ==
    \/ \E u \in Operators, d \in Deliveries, op \in Operation : ExecuteStart(u, d, op)
    \/ \E u \in Operators : ExecuteLookup(u)
    \/ \E u \in Operators : ApplyManualUpdate(u)

Startup ==
    \/ \E S \in SUBSET ingested : Boot(S)
    \/ \E d \in Deliveries : TerminateIncompatibleActive(d)
    \/ RecoverInterrupted

Remote ==
    \/ \E a \in inbox : RemoteList(a)
    \/ \E r \in Resources : RemoteForeign(r)
    \/ \E r \in Resources : \E i \in DOMAIN history[r], s \in RemoteStatus : RemoteProgress(r, i, s)
    \/ \E r \in Resources : \E i \in DOMAIN history[r] : RemoteRelabel(r, i)
    \/ \E r \in Resources : RemoteTrim(r)

Next ==
    \/ Dispatch
    \/ Poll
    \/ Manual
    \/ Startup
    \/ Remote
    \/ Crash
    \/ Tick
    \/ \E d \in Deliveries : Ingest(d)
    \/ \E D \in SUBSET Deliveries : Prune(D)
    \/ ClearHistory
    \/ \E S \in SUBSET ingested : PublishGeneration(S)

Spec == Init /\ [][Next]_vars

(* The worker loops run again on every tick of their tickers, requests end    *)
(* within their timeouts, the container is restarted (restart:                *)
(* unless-stopped), the clock advances. Nothing is assumed of Dokploy,        *)
(* webhooks, operators or retention.                                          *)
Fairness ==
    /\ WF_vars(Dispatch)
    /\ WF_vars(Poll)
    /\ WF_vars(Startup)
    /\ WF_vars(Tick)
    /\ \A u \in Operators : WF_vars(ExecuteLookup(u) \/ ApplyManualUpdate(u))

FairSpec == Spec /\ Fairness

-----------------------------------------------------------------------------
(* Correctness.                                                              *)

(* Every table row and every piece of process-local state is well formed.    *)
TypeOK ==
    /\ now \in Nat
    /\ phase \in {"up", "down", "binding"}
    /\ crashes \in Nat
    /\ ingested \subseteq Deliveries
    /\ compatible \subseteq ingested
    /\ delivery \in [Deliveries -> DeliveryRow]
    /\ attempt \in [Attempts -> AttemptRow]
    /\ disp \in DispatcherState
    /\ poll \in PollerState
    /\ exec \in [Operators -> ExecuteState]
    /\ history \in [Resources -> Seq(Record)]
    /\ trimmed \in [Resources -> Nat]
    /\ inbox \subseteq Attempts
    /\ posts \in [Attempts -> Nat]

(* The statuses copied on the deliveries row, which every list and count in   *)
(* the management UI reads, are those of its current attempt, although        *)
(* CompletePoll rewrites them only when it believes they changed.             *)
DeliveryMirrorsAttempt ==
    \A d \in Deliveries : Exists(d) =>
        /\ delivery[d].transport = Row(d).transport
        /\ delivery[d].deployment = Row(d).deployment

(* From the claim to the recorded outcome the dispatcher's attempt stays      *)
(* current and sending, whatever operators, poller, retention and reloads do  *)
(* meanwhile: no guard of SetDeploymentCursor, RecordDeploymentRequest or     *)
(* transitionAttempt ever fails, so the outcome of a POST is never lost to    *)
(* ErrAttemptNotSending and the worker never stops the process with it.       *)
DispatcherKeepsItsAttempt ==
    disp.pc # "idle" =>
        /\ StillSending(disp.att)
        /\ delivery[disp.att[1]].transport = "sending"
        /\ disp.pc \in {"preflight", "cursor"} => attempt[disp.att].cursor = NULL
        /\ disp.pc \in {"preflight", "cursor", "record"} => ~attempt[disp.att].request

(* No attempt is ever POSTed twice: not by a restart that finds it sending,   *)
(* not by the poller, not by a retry, which sends for a new attempt only      *)
(* ("never repeats an interrupted deployment POST automatically").            *)
AtMostOnePost == \A a \in Attempts : posts[a] <= 1

(* "Until Hookfly binds a deployment ID, it serializes sends that resolve to  *)
(* the same remote Compose resource": two deliveries to one resource, by the  *)
(* same or by different target IDs, are never in flight unbound together.     *)
(* A row stored without a dispatch key is only kept apart by its target ID.   *)
KeptApart(d, e) ==
    /\ d # e
    /\ ResourceOf(d) = ResourceOf(e)
    /\ TargetOf[d] = TargetOf[e] \/ {d, e} \cap Legacy = {}
SendsSerialized ==
    \A d, e \in Deliveries :
        KeptApart(d, e) => ~(UnboundInFlight(d) /\ UnboundInFlight(e))

(* A failed transport means that the remote server never took the request,    *)
(* which is what lets a retry of it skip reconciliation.                      *)
FailedNeverDeployed ==
    \A d \in Deliveries : Exists(d) /\ Row(d).transport = "failed" =>
        /\ Current(d) \notin inbox
        /\ \A i \in DOMAIN history[ResourceOf(d)] :
              history[ResourceOf(d)][i].owner # Current(d)

(* A monitored attempt always has both its next poll and its deadline;        *)
(* ListDuePolls would never pick it up without them.                          *)
MonitoredHasTimers ==
    \A d \in Deliveries : Exists(d) /\ Row(d).deployment \in Monitored =>
        Row(d).due # NULL /\ Row(d).deadline # NULL

(* While the process serves, everything active resolves in the current        *)
(* generation: reloads wait for it and startup ends what no longer resolves.  *)
ActiveIsCompatible ==
    phase = "up" => \A d \in Deliveries : ActiveDelivery(d) => d \in compatible

(* The deployment an attempt is bound to is the one its own POST started. It  *)
(* needs a remote that lists a deployment no later than it answers, no        *)
(* deployments from elsewhere (LateListing = FALSE, MaxForeign = 0), and that *)
(* all deliveries of one resource are kept apart: with a row stored without a *)
(* dispatch key, two target IDs of one resource can be in flight together and *)
(* each may take the other's deployment for its own.                          *)
BindsItsOwnDeployment ==
    \A a \in Attempts : attempt[a].depId # NULL =>
        /\ attempt[a].depId \in DOMAIN history[ResourceOf(a[1])]
        /\ history[ResourceOf(a[1])][attempt[a].depId].owner = a

(* Once bound, a deployment ID never changes while its row exists ("later     *)
(* polls use that immutable ID").                                             *)
BindingImmutable ==
    [][\A a \in Attempts : attempt[a].depId # NULL /\ delivery'[a[1]].cur # 0 =>
            attempt'[a].depId = attempt[a].depId]_vars

(* A deployment that was seen to succeed stays the delivery's last word: no   *)
(* stale poll, no operator holding an older view and no restart changes it or *)
(* appends another attempt.                                                   *)
DoneIsFinal ==
    [][\A d \in Deliveries :
          Exists(d) /\ Row(d).deployment = "done" /\ delivery'[d].cur # 0 =>
             /\ delivery'[d] = delivery[d]
             /\ attempt'[Current(d)] = attempt[Current(d)]]_vars

(* An operator's retry or redeploy never starts a second deployment beside    *)
(* one of the same delivery that runs or has succeeded. It needs descriptions *)
(* and a history that Dokploy keeps (Relabels = FALSE, Trims = FALSE) and the *)
(* remote of BindsItsOwnDeployment.                                           *)
NoSecondDeployment ==
    [][\A d \in Deliveries :
          Exists(d) /\ delivery'[d].cur > delivery[d].cur =>
             \A i \in DOMAIN history[ResourceOf(d)] :
                history[ResourceOf(d)][i].owner = Current(d) =>
                   history[ResourceOf(d)][i].status \in {"error", "cancelled"}]_vars

(* Every active delivery ends: it is sent, followed, and given up at the      *)
(* latest at its deadline, through crashes and failing lookups.               *)
Settles == \A d \in Deliveries : ActiveDelivery(d) ~> ~ActiveDelivery(d)

(* "A response that may have been lost is marked unknown and also offers      *)
(* Retry": a retry of an http delivery that ends while its attempt is still   *)
(* the current one has appended the new attempt.                              *)
UnknownHTTPCanBeRetried ==
    [][\A u \in Operators :
          /\ exec[u].pc # "idle" /\ exec'[u].pc = "idle" /\ phase' = "up"
          /\ exec[u].op = "retry" /\ KindOf(exec[u].seen.att[1]) = "http"
          /\ SeenStillCurrent(exec[u].seen)
          => delivery'[exec[u].seen.att[1]].cur = exec[u].seen.att[2] + 1]_vars
=============================================================================
