---------------------------- MODULE DeliveryInv ----------------------------
(***************************************************************************)
(* The inductive invariant of Delivery: what makes its safety properties    *)
(* survive every step. DeliveryProofs proves it for all constants; TLC      *)
(* checks it on the instances of MCDelivery.                                *)
(***************************************************************************)
EXTENDS Delivery

(* What a worker or request holds, by how far it has got.                   *)
LocalOK ==
    /\ disp.pc # "idle" => disp.att \in Attempts
    /\ disp.pc = "outcome" => disp.result \in {"accepted", "definitive", "uncertain"}
    /\ poll.todo # {} => poll.at \in Nat
    /\ poll.item # NULL => poll.at \in Nat /\ poll.update \in PollUpdates
    /\ \A u \in Operators :
        /\ exec[u].pc # "idle" =>
              exec[u].seen \in SeenAttempt /\ exec[u].seen.att[2] < MaxAttempts
        /\ exec[u].pc = "apply" => exec[u].update \in ManualUpdate

(* A process that is not up does nothing but start.                         *)
DownIsIdle ==
    phase # "up" =>
        /\ disp = DispatcherIdle
        /\ poll = PollerIdle
        /\ \A u \in Operators : exec[u] = ExecuteIdle

(* The combinations of columns that a current attempt can show.             *)
RowOK(row) ==
    /\ row.transport = "pending" =>
          row.deployment = "not_started" /\ row.cursor = NULL /\ ~row.request /\ row.depId = NULL
    /\ row.transport = "sending" => row.deployment = "not_started" /\ row.depId = NULL
    /\ row.deployment \in Monitored =>
          /\ row.transport \in {"enqueued", "unknown"}
          /\ row.due # NULL /\ row.deadline # NULL
RowsOK == \A d \in Deliveries : Exists(d) => d \in ingested /\ RowOK(Row(d))

(* A poll that still holds its claim describes the row it is about.          *)
ClaimOK(w) ==
    PollClaimHeld(w.att) =>
        /\ attempt[w.att].deployment \in Monitored
        /\ attempt[w.att].transport = w.transport
        /\ attempt[w.att].depId = w.depId
WorkOK(w) == w.transport \in {"enqueued", "unknown"} /\ ClaimOK(w)
PollOK ==
    /\ \A w \in poll.todo : WorkOK(w)
    /\ \A w, v \in poll.todo : w.att = v.att => w = v
    /\ poll.item # NULL =>
          /\ WorkOK(poll.item)
          /\ \A w \in poll.todo : w.att # poll.item.att
          /\ poll.update.transport \in {"enqueued", "unknown"}
          /\ poll.update.deployment \in Monitored => poll.update.due # NULL

(* A management request has seen a settled or uncertain attempt of a target  *)
(* that still resolves, and a correction binds a deployment.                 *)
RequestOK(x) ==
    /\ x.seen.transport \notin {"pending", "sending"}
    /\ x.seen.att[1] \in compatible
    /\ x.pc = "apply" /\ x.update.correct =>
          /\ x.update.transport = "enqueued"
          /\ x.update.depId # NULL
          /\ x.update.deployment \in Monitored =>
                x.update.due # NULL /\ x.update.deadline # NULL
    /\ x.pc = "apply" => x.update.correct \/ x.update.create
ExecOK == \A u \in Operators : exec[u].pc # "idle" => RequestOK(exec[u])

(* Attempts that have not been sent: of webhooks to come, of retries to      *)
(* come, pending ones, and the dispatcher's own until its POST.              *)
Unsent(a) ==
    \/ a[1] \notin ingested
    \/ Exists(a[1]) /\ a[2] > delivery[a[1]].cur
    \/ IsCurrent(a) /\ attempt[a].transport = "pending"
    \/ disp.pc \in {"preflight", "cursor", "record", "post"} /\ disp.att = a
PostOK == \A a \in Attempts : Unsent(a) => posts[a] = 0

(* The whole of it: the checked invariants and what they need to survive.    *)
(* An operator's compare-and-swap, a poll's claim and the dispatcher's       *)
(* exclusive hold of a sending attempt are what it ties together.            *)
IndInv ==
    /\ TypeOK
    /\ LocalOK
    /\ DownIsIdle
    /\ RowsOK
    /\ DeliveryMirrorsAttempt
    /\ DispatcherKeepsItsAttempt
    /\ PollOK
    /\ ExecOK
    /\ PostOK
    /\ AtMostOnePost
    /\ SendsSerialized
    /\ ActiveIsCompatible
-----------------------------------------------------------------------------
(* The attempt and the deployment it caused. What follows rests on IndInv;  *)
(* DeliveryBindingProofs proves it.                                         *)

(* Dokploy took the request of an attempt.                                  *)
Own(a, i) ==
    i \in DOMAIN history[ResourceOf(a[1])] /\ history[ResourceOf(a[1])][i].owner = a
Recorded(a) == \E i \in DOMAIN history[ResourceOf(a[1])] : Own(a, i)
Taken(a) == a \in inbox \/ Recorded(a)

(* Dokploy takes nothing that was not sent, and "definitive" is the truth.  *)
TakenOK ==
    /\ \A a \in Attempts : Taken(a) => posts[a] # 0
    /\ disp.pc = "outcome" /\ disp.result = "definitive" => ~Taken(disp.att)
    /\ FailedNeverDeployed

(* The statuses a current attempt shows with and without a deployment ID.   *)
UnboundStatus == {"not_started", "locating", "unknown", "done"}
BoundStatus == {"running", "unrecognized", "done", "error", "cancelled", "timeout"}
BindingOK(row) ==
    IF row.depId = NULL THEN row.deployment \in UnboundStatus
    ELSE \/ row.transport = "enqueued" /\ row.deployment \in BoundStatus
         \/ row.transport = "unknown" /\ row.deployment = "unknown"
BindingsOK ==
    /\ \A d \in Deliveries : Exists(d) => BindingOK(Row(d))
    /\ \A a \in Attempts : a[2] > delivery[a[1]].cur => attempt[a] = NewAttempt

(* A claimed poll has read the status and cursor that are still there, and   *)
(* its answer is about the deployment the row is bound to.                   *)
ReadOK(w) ==
    PollClaimHeld(w.att) =>
        attempt[w.att].deployment = w.deployment /\ attempt[w.att].cursor = w.cursor
AnswerOK(w, u) ==
    IF u.depId # NULL
    THEN /\ u.transport = "enqueued" /\ u.deployment \in BoundStatus
         /\ w.depId # NULL => u.depId = w.depId
    ELSE /\ u.transport = w.transport
         /\ u.deployment \in {w.deployment, IF w.depId = NULL THEN "unknown" ELSE "timeout"}
PollBinds ==
    /\ \A w \in poll.todo : ReadOK(w)
    /\ poll.item # NULL => ReadOK(poll.item) /\ AnswerOK(poll.item, poll.update)

(* A management request has seen an attempt that was sent and not done. If   *)
(* it has been bound since, its transport tells.                             *)
SeenOK(x) ==
    LET a == x.seen.att IN
    /\ x.seen.deployment # "done"
    /\ x.seen.depId = NULL => x.seen.deployment \in UnboundStatus
    /\ a[1] \in ingested
    /\ Exists(a[1]) => a[2] <= delivery[a[1]].cur
    /\ IsCurrent(a) =>
          /\ attempt[a].transport \notin {"pending", "sending"}
          /\ \/ attempt[a].depId = x.seen.depId
             \/ x.seen.depId = NULL /\ attempt[a].transport = "enqueued"
    /\ x.pc = "apply" /\ x.update.correct =>
          /\ x.update.deployment \in BoundStatus
          /\ x.seen.depId # NULL => x.update.depId = x.seen.depId
SeensOK == \A u \in Operators : exec[u].pc # "idle" => SeenOK(exec[u])

BindInv == TakenOK /\ BindingsOK /\ PollBinds /\ SeensOK

(* The remote under which correlation is exact: it lists a deployment no     *)
(* later than it answers and nobody else deploys; no two deliveries of one   *)
(* resource are kept apart by target ID only.                                *)
ExactRemote ==
    /\ ~LateListing /\ MaxForeign = 0
    /\ \A d, e \in Deliveries : d # e /\ ResourceOf(d) = ResourceOf(e) => KeptApart(d, e)

(* Behind the cursor of an attempt in flight there is only its own record.   *)
CursorsOK ==
    /\ inbox = {}
    /\ \A r \in Resources : trimmed[r] = 0 \/ trimmed[r] < Len(history[r])
    /\ \A d \in Deliveries : UnboundInFlight(d) /\ Row(d).cursor # NULL =>
          \A i \in DOMAIN history[ResourceOf(d)] : i > Row(d).cursor => Own(Current(d), i)
    /\ disp.pc = "cursor" =>
          /\ disp.cursor # NULL
          /\ \A i \in DOMAIN history[ResourceOf(disp.att[1])] : i <= disp.cursor

(* Every deployment ID in use is the attempt's own.                          *)
OwnOK ==
    /\ BindsItsOwnDeployment
    /\ poll.item # NULL /\ PollClaimHeld(poll.item.att) /\ poll.update.depId # NULL =>
          Own(poll.item.att, poll.update.depId)
    /\ \A u \in Operators : exec[u].pc # "idle" =>
          /\ exec[u].seen.depId # NULL => Own(exec[u].seen.att, exec[u].seen.depId)
          /\ exec[u].pc = "apply" /\ exec[u].update.correct =>
                Own(exec[u].seen.att, exec[u].update.depId)

OwnInv == CursorsOK /\ OwnOK

(* A remote that also keeps its descriptions and its history: a lookup that  *)
(* finds nothing proves that there is nothing.                               *)
FaithfulRemote == ExactRemote /\ ~Relabels /\ ~Trims

RecordsOK ==
    /\ \A r \in Resources : trimmed[r] = 0
    /\ \A r \in Resources : \A i \in DOMAIN history[r] : history[r][i].labelled
    /\ \A a \in Attempts : \A i, j \in DOMAIN history[ResourceOf(a[1])] :
          Own(a, i) /\ Own(a, j) => i = j
CreatesOK ==
    \A u \in Operators : exec[u].pc = "apply" =>
        LET a == exec[u].seen.att IN
        /\ ~exec[u].update.correct => ~Recorded(a)
        /\ exec[u].update.correct /\ exec[u].update.create =>
              history[ResourceOf(a[1])][exec[u].update.depId].status \in {"error", "cancelled"}

FaithInv == RecordsOK /\ CreatesOK
-----------------------------------------------------------------------------
(* Delivery implements Lifecycle: a delivery is what its current row says.   *)

Stage(row) ==
    IF row.transport = "pending" THEN "waiting"
    ELSE IF row.transport \in {"sending", "failed"} THEN row.transport
    ELSE IF row.deployment \in Monitored
    THEN IF row.transport = "unknown" THEN "doubtful" ELSE "following"
    ELSE IF row.deployment = "done" THEN "done" ELSE "ended"

Lived(k, row) ==
    IF k = 0 THEN [number |-> 0, stage |-> "none", bound |-> NULL]
    ELSE [number |-> k, stage |-> Stage(row), bound |-> row.depId]

Life == [d \in Deliveries |-> Lived(delivery[d].cur, Row(d))]

TakenAttempts == {a \in Attempts : Taken(a)}

Abstract == INSTANCE Lifecycle WITH
    Apart <- SameDispatch,
    accepted <- ingested,
    life <- Life,
    taken <- TakenAttempts

(* Whatever the dispatcher, the poller, operators, reloads, retention,       *)
(* crashes and the remote server do, and in whatever order, every delivery   *)
(* lives as Lifecycle promises: one POST per attempt, sent while nothing to  *)
(* the same resource is unaccounted for; given up as failed only if it never *)
(* arrived; followed to the one deployment it was bound to; started over     *)
(* only where that is not beside what is followed or done; forgotten only    *)
(* when it is over.                                                          *)
LivesAsPromised == Abstract!Spec

(* What the steps of Lifecycle need besides: an outcome tells what happened  *)
(* to the request, a failed attempt has not started anything, and a request  *)
(* corrects nothing but an attempt it had reason to look up.                 *)
OutcomeOK ==
    disp.pc = "outcome" /\ disp.result # "definitive" =>
        /\ posts[disp.att] # 0
        /\ disp.result = "accepted" /\ KindOf(disp.att[1]) = "dokploy" => Taken(disp.att)
FailedUnstarted ==
    \A d \in Deliveries : Exists(d) /\ Row(d).transport = "failed" => Row(d).deployment = "not_started"
ViewOK(x) ==
    /\ x.seen.transport = "unknown" \/ x.seen.deployment \notin Monitored
    /\ \/ NeedsReconciliation(x.seen.transport, x.seen.deployment)
       \/ x.pc = "apply" /\ ~x.update.correct
LifeInv ==
    /\ OutcomeOK
    /\ FailedUnstarted
    /\ \A u \in Operators : exec[u].pc # "idle" => ViewOK(exec[u])
=============================================================================
