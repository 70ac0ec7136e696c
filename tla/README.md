# A verification project for hookfly

Hookfly receives webhooks of GitLab, GitHub and Harbor, routes each one by the
first matching rule of its configuration, and for every matched target makes one
*delivery*: a `compose.deploy` request to Dokploy, a templated HTTP request, or a
forwarded copy of the webhook. It follows Dokploy deployments to their end, keeps
everything in one SQLite file, reloads its configuration without a restart, and
offers retry and redeploy to operators.

These TLA+ modules model its core from the Go source (commit in this repository),
TLC checks them on small instances, and TLAPS proves, for every value of the constants,
every safety property the runs check, and that `Reload` and `Delivery` implement their
abstract specifications (section 5).

## 1. Inventory

| Part (source under `internal/`) | State it keeps | Operations | What makes it correct |
|---|---|---|---|
| statuses (`domain/status.go`) | - | `Active`, `AllowedOperations` | active work is never deleted, reloaded away or retried |
| dispatcher (`worker/dispatcher.go`, `store/work.go`) | one claimed attempt | claim, preflight cursor, request evidence, POST, outcome | one POST per attempt; the outcome is never lost; sends to one resource are serialized until bound |
| poller (`worker/poller.go`, `store/work.go`) | a batch of claimed polls and the time of the claim | list due, look up, complete | binds the right deployment, never changes a binding, ends at the deadline, never overwrites newer state |
| recovery (`store/recovery.go`, `store/work.go`, `app.Prepare`) | - | terminate incompatible, recover interrupted | no repeated POST; everything interrupted is followed again |
| manual operations (`service/attempts.go`, `store/attempts.go`) | what a request has seen | retry, redeploy, reconcile | compare-and-swap; no second deployment beside a running or successful one |
| reload lifecycle (`runtimecfg/manager.go`) | `state`, `current`, `candidate`, the gate | initialize, reload, advance, set idle | one reload at a time; publication only when nothing is active; no backlog when idle |
| webhook handler (`publichook`, `store/ingest.go`, `store/routing.go`) | events, routing queue | ingest, defer | each webhook once; FIFO; deferred ones are routed by the new generation |
| drainer (`worker/drainer.go`) | the peeked head | peek, finalize | the queue empties, in order, through restarts |
| retention, history (`service/retention.go`, `store/retention.go`, `store/history.go`) | - | prune, clear | never deletes active or deferred work; deletes exactly what the limits say |
| queries (`store/query.go`, `store/statistics.go`) | pipeline observations, which outlive events | list, page, detail, statistics | every push and pipeline is shown once, as one lifecycle, and measured as it was received |
| notification feed (`store/notifications.go`, `store/notify.go`, `adminapi/handler.go`, `web/src/hooks/useNotifications.ts`) | wake-up channels, a stream's cursor, a tab's stored facts and cursor | list, stream, receive, clear | a committed fact reaches every tab once and in order |
| invalidation stream and views (`adminapi/statistics.go`, `web/src/hooks/useActivePolling.ts`) | a subscription; a view's request, timer and data | subscribe, send, poll, hide | a view comes to show every commit and never goes back |
| configuration (`config/validate.go`, `config/ssh.go`) | - | validate, canonicalize | what is accepted can be compiled and routed without ambiguity |
| generation (`runtimecfg/generation.go`, `binding.go`, `ssh.go`) | compiled rules, targets and clients | `Route`, `ResolveTarget`, fingerprints, `clientFor` | one rule wins; a snapshot resolves only to the same binding; a request never leaves its tunnel |
| SSH tunnels (`sshtunnel/`) | the trust file, its lock, one socket per request | dial, `acceptNew` | the first key of a host is the only one, and survives crashes |
| YAML decoding, auth (`auth/`), adapters, redaction, web UI | see section 8 | | |

How they interact. Everything shares the store (one SQLite connection, so one store
method is one atomic step) and `Manager.gate`, a readers-writer lock: webhook
handlers, management requests, the workers' claims and commits and retention read
it; publication and the return to idle write it. One dispatcher goroutine, one
poller, one drainer and one manager loop run beside any number of HTTP handlers. A
worker's error stops the process, which the container restarts.

What is hard: POSTs whose answer is lost; crashes between a POST and its record;
polls and management requests that act on rows changed meanwhile; two deliveries to
one resource; reloads while deliveries are active and webhooks arrive; the boundary
between draining and idle; retention beside all of it; lists and details read while
their rows are deleted; configurations edited under stored deliveries; a trust file that
processes share and a power failure interrupts. `PROJECT.json` lists these
hazards line by line with the properties that cover them.

## 2. Modules

| Module | What it is |
|---|---|
| `Delivery` | The durable life of deliveries: dispatcher, poller, operators, recovery, retention, generations, and the remote Dokploy server as environment |
| `Lifecycle` | Abstract specification: what a delivery is promised, without workers, requests and tables |
| `DeliveryInv` | The inductive invariants of `Delivery`, as conjunctions of named parts, and how it implements `Lifecycle` |
| `DeliveryProofs`, `DeliveryBindingProofs` | TLAPS proofs about `Delivery`: statuses, timers and POSTs; deployments, their bindings and `Lifecycle` |
| `Routing` | Abstract specification: accepted events are routed once each, in acceptance order |
| `Reload` | The gate, reload requests, webhooks, drainer, management requests, retention and restarts; implements `Routing` |
| `ReloadProofs` | TLAPS proofs about `Reload`, the refinement included |
| `Notify` | The wake-up channels of the store, shared by the two modules below |
| `Notifications` | The notification feed: facts that commit, REST baseline, event stream, browser tab |
| `Changes` | The invalidation stream and a view that polls |
| `NotificationsProofs`, `ChangesProofs` | TLAPS proofs about `Notifications` and `Changes` |
| `Statistics` | The durations of a pipeline run as a fold over its observations, and what they should be |
| `History` | The events table as queries and retention see it: lifecycles, pages, details, statistics, limits |
| `HistoryProofs` | TLAPS proofs about `History` |
| `Targets` | A configuration bundle as operators: validity, routing, bindings, fingerprints, transports |
| `Tunnels` | Requests through jump hosts and the trust file they share, with crashes and power failures |
| `Connections` | `Targets` and `Tunnels` composed: events are routed, generations change, stored deliveries are sent |
| `TunnelsProofs`, `ConnectionsProofs` | TLAPS proofs about `Tunnels`, `Targets` and `Connections` |
| `MCDelivery`, `MCReload`, `MCHistory`, `MCConnections` | Constants and symmetry for TLC |

### Delivery

State: `delivery` and `attempt` are the tables of those names, reduced to statuses,
cursor, request flag, deployment ID and the three timers; `disp`, `poll` and `exec`
are what the dispatcher, the poller and each management request hold between two
store or remote calls; `history`, `trimmed` and `inbox` are the remote server;
`posts` only observes. `compatible` is the set of deliveries whose target snapshot
the current generation resolves (`Generation.ResolveTarget`).

Actions follow the calls. `ClaimPendingAttempt`, `Preflight`, `SetDeploymentCursor`,
`RecordDeploymentRequest` or `RequestFails`, `PostAccepted`/`PostRefused`/
`PostUncertain` and `TransitionAttempt` are `Dispatcher.RunOnce` in order, with
`dispatchHTTP` and `dispatchForward` for `Kind = "http"`; `ListDuePolls`, `PollLookup`
and `CompletePoll` are `Poller.RunOnce`; `ExecuteStart`, `ExecuteLookup` and
`ApplyManualUpdate` are `Attempts.Execute`; `Boot`, `TerminateIncompatibleActive` and
`RecoverInterrupted` are `App.Prepare`. The guards of the store methods' `UPDATE ...
WHERE` are IFs whose other branch is what the caller does with the error
(`WorkerFails` stops the process; a lost poll claim or compare-and-swap changes
nothing).

Abstractions: a delivery is a number in claim order; a deployment ID is its position
in the resource's history; times are small integers; evidence, audit rows and
messages are left out. A resource is its binding fingerprint, so two fingerprints
are taken to be two resources.

`Lifecycle` has four variables: which deliveries were ever accepted, the current attempt
of each (its number, its stage and its deployment), the requests sent, and the attempts
the remote server took. Its nine actions say what may happen to a delivery at all, and no
worker, claim, timer or process occurs in them. `LivesAsPromised` maps a delivery's
current row to a stage: `pending` is "waiting"; monitored is "doubtful" while the
transport is `unknown` and "following" otherwise; a success is "done", and everything else
that is over is "ended", unless it `failed`.

### Reload and Routing

State: `state`, `current` and `candidate` are the Manager's fields; `lockers`,
`writer` and `readers` are its `sync.RWMutex` (writers queue, the first announces
itself and keeps new readers out, readers that wait are let in between two writers);
`reload`, `hook`, `exec` and `drain` are requests and the drainer in progress;
`event`, `queue` and `active` are the tables `events`, `routing_queue` and the active
deliveries; `done` records the order of routing. `disk` is the version of the files.

A reload request takes the gate twice (`ReloadBegin`, then `ReloadDecide` or
`ReloadFail`) and loads the files in between without it. A webhook keeps the read
gate from `HookBegin` to `HookIngest`; the drainer from `DrainPeek` to
`DrainFinalize`, then asks for the write gate (`DrainFoundNothing`,
`SetIdleIfQueueEmpty`). What a delivery does while it is active is `Delivery`; here
`Settle` ends it. `StateApplying` is entered and left under the write gate and is
therefore not a state of the model; `TypeOK` says so.

`Routing` has three variables: the log of accepted events, how many of them have
been routed, and which the store remembers. `RoutesInOrder` maps `done \o queue` to
the log and checks that every step of `Reload` is a step of it.

### Notifications

State: `fact` holds the rows the feed is made of, each with the time it carries (taken
by `TakeTime`, before the gate, the body, the remote call or the deferral) and whether
its transaction has committed; `notifySubs` and `wake` are the channels; `stored` is
what a tab keeps in local storage; `baseline`, `source` and `stream` are its REST
request, its EventSource and the handler at the other end, and `wire` is between them.
`owed`, `blind`, `late`, `got` and `cleared` only observe. A listing after an empty
cursor is two queries and two steps (`ListPage`, `ListLatest`). The handler's loop is
`StreamLoad`, `StreamSubscribe` (the first time), `StreamSend`, then `StreamWake` or
`StreamHeartbeat`. That an EventSource reconnects with the last id it received, and
gives up when it is answered with a status other than 200, is the browser's part.

### Changes

The database is a number of commits. `stream` and `wire` are the handler and the
connection; `timer`, `strays`, `request` and `outdated` are the local variables of
`useActivePolling`: a short timer that an answer overwrites is not cleared, so it is a
stray that still fires, and a request that is no longer the latest stays in `outdated`
until it is answered. Retention deletes without a signal; a view learns of it by its
next poll, so `Commit` stands for the commits that do call `notifyChanged`.

### History and Statistics

`log` is every row that was ever inserted into `events`, in the order of `(received_at,
id)`, with what is left of it: whether it is still stored, whether its observation is,
whether it is queued, and its deliveries. Positions therefore compare two rows as `ORDER
BY received_at, id` does; a row may be inserted before older ones, because ids are random
and a handler reads the clock before it commits. `Visible` and `Listed` are `eventWhere`,
`Current` is `currentLifecycleEventID`, `Replaces` the clause by which a pipeline takes
the place of its push. `GetEventDetail` is a request of five steps (`DetailResolve` to
`DetailStates`) with other transactions between them, which ends early when the row is
gone (`DetailNotFound`, `DetailFails`); a list is one reading of the table. `Prune`
computes what `Store.Prune` deletes, limits of repositories first, then the global one
over what is left. A delivery ends, and a failed one may be started again
(`DeliveryStep`): how is `Delivery`'s part. The filters of a list select among the rows of
`Listed` and are left out.

`Statistics` has no state: `FoldRun` is the loop of `PipelineStatistics`, and `Whole` says
declaratively when a run can be measured. `StatisticsAreWhole` compares the two over every
history that `History` can reach, after whatever retention has deleted.

### Targets, Tunnels and Connections

`Targets` translates `ValidateAndCanonicalize`, `Route`, the compilation of targets,
their snapshots and fingerprints, `ResolveTarget` and `clientFor` into operators on a
bundle: a record of sequences in the order of the files. Text is a value, so the syntax
checks of single fields are left out; what a bundle's parts demand of each other is kept.

In `Tunnels`, `request` is where each request stands between the dial of its socket and its end,
`lock` is `known_hosts.lock`, `file` the trust file as processes see it and `disk` the
contents it may have after a power failure: a rename adds one, the sync of the directory
leaves only the last. The steps of `acceptNew` are one action each, from `Lock` to
`SyncDir`; any of them may fail, a process may be killed and the power may fail between
any two. What `knownhosts` answers is external (`Verdict`). `accepted` and `doubtful`
only observe. All tunnels share one trust file; tunnels with files of their own do not
interact.

`Connections` lets events be routed into stored deliveries by the generation of the
moment, generations come and go in any order (a restart among them), and requests resolve
their delivery's snapshot and dial. `meant` is what the operator had configured when the
delivery was stored. `Spec` implies `TunnelsSpec` (theorem `ImplementsTunnels`).

## 3. Runs

| Run | Instance | Shows |
|---|---|---|
| `core` | two deliveries, two target IDs, one Compose resource, one crash | `DeliveryMirrorsAttempt`, `DispatcherKeepsItsAttempt`, `AtMostOnePost`, `SendsSerialized`, `FailedNeverDeployed`, `MonitoredHasTimers`, `ActiveIsCompatible`, `BindsItsOwnDeployment`, `LivesAsPromised` |
| `manual` | one delivery, two attempts, two operators, every remote status, one crash | `IndInv`, `LivesAsPromised`, `NoSecondDeployment` |
| `remote` | late listing, relabelling, trimming, a foreign deployment | what holds whatever Dokploy does: `BindingImmutable`, `DoneIsFinal` |
| `live` | an http delivery and two of one Compose resource, one of them without a dispatch key, poll batches of one, one crash, fair | `Settles` |
| `reload` | two webhooks, two webhook and two reload requests at a time, an operator, a crash, a valid and an invalid new configuration | `IdleHasNoBacklog`, `ReloadsExclusive`, `FinishesOnItsGeneration`, `QueueHoldsDeferred`, `RoutedByTheNew`, `RoutesInOrder` |
| `reload_live` | two webhooks, one of a type that is not supported, an operator, one reload request at a time, a crash anywhere, fair | `ReloadsEnd`, `DeferredIsRouted` |
| `feed` | two facts that commit in any order, pages of one, a lost connection or a page reload, a failed read, a cleared history, fair | `ListedInOrder`, `NoOtherFactIsSkipped`, `ClearedIsForgotten`, `FactReachesTab` |
| `changes` | two commits, a lost connection, a failed request, a refresh, a hidden page, fair | `VisibleViewIsAwake`, `ShownNeverGoesBack`, `ChangeIsHeard`, `ViewCatchesUp` |
| `history` | five webhooks (two pushes, three states of a pipeline) of two repositories, at most three rows and four instants, a repository limit of one, default and global limits of two, pages of one | `LifecycleListedOnce`, `PushAndPipelineAreOne`, `StatisticsAreWhole`, `DetailFailsOnlyIfDeleted`, `RetentionKeepsTheNewest` |
| `connections` | fourteen configurations, valid and invalid, two stored deliveries, two requests of two processes, two jump hosts with two keys each, one of them a certificate | `OneRuleWins`, `DeliversWhereStored`, `AcceptedIsRecorded`, `FirstKeyIsKept` |
| `http_retry` | one http delivery | a disagreement, section 6 |
| `feed_late` | one tab, three facts | a disagreement, section 6 |

Bounds and why they are enough. Two deliveries are the least that compete for a resource
or a poll batch; two attempts the least for a retry to meet its predecessor; two operators
the least for a race; one crash interrupts every step of every actor and the recovery
itself. `Horizon` is the last instant at which webhooks, operators and crashes act, so
that time stays finite; `Timeout = 2` and `Interval = 1` leave room for a poll before, at
and after the deadline. `MaxAccepted = 3` lets an event be routed, pruned, redelivered and
deferred beside another one. Two facts are the least that commit in the wrong order, and
pages of one are shorter than what is to be read; the safety of the feed was also checked
with three facts, one of them muted, and a tab that keeps two (4.3 million states), which
is too long for a run that is repeated. Three rows are the least for a push and two states
of its pipeline, or for a limit of two to be exceeded; in `live`, `Timeout = 1` with
`Horizon = 0` keeps three deliveries within reach, at the price that a deadline is met at
once after a restart. Details are asked for when there is one row (`MaxRowsAsked`) at the
first instant (`MaxTimeAsked = 0`), so that everything that can happen to it, and two rows
more, fall between their queries; rows commit at the instant they carry (`MaxDelay = 0`),
and an instance with `MaxDelay = 1` was checked as well (1.8 million states). Two commits
are the least for a change to arrive while a request for an earlier one is under way.
Deadlock is not checked because a system at rest, with the bounded environment used up, is
a legal end.

`IndInv` is an invariant of run `manual`. The other inductive invariants of section 5 live
in the modules of the proofs; TLC checked each on the instance of its run before it was
proved: `BindInv`, `OwnInv` and `FaithInv` on `core` (218,918 states) and `manual`
(472,790), `BindInv` alone on `remote` (360,358), `LifeInv`
with `LivesAsPromised` on all three, `OwnInv` with two deliveries, an operator,
trimming and relabelling (2.6 million), `ReloadInv` on `reload` (583,412), `HistoryInv` on
`history` (494,880), and `FeedInv` on `feed` (205,660).

Two assumptions about Dokploy matter and are constants: `LateListing` (a POST is
answered before the history lists the deployment) and `MaxForeign`.
`BindsItsOwnDeployment` and `NoSecondDeployment` need both off: with them, the only
record after the cursor may be somebody else's, which the code cannot tell.
`NoSecondDeployment` also needs descriptions that Dokploy keeps (`Relabels`).

## 4. Fairness

`Delivery!FairSpec`: weak fairness of the dispatcher, the poller, startup, the clock
and the requests in progress. The loops run on tickers, every remote call has a
timeout, and the container restarts the process (`deploy/compose.example.yaml`,
`restart: unless-stopped`). Nothing is assumed of Dokploy, operators, webhooks or
retention, and lookups may fail forever: the deadline still ends a delivery.

`Reload!FairSpec`: weak fairness of requests in progress, of the manager's timer and
of startup. Strong fairness where the code retries what may fail (`AdvanceWaiting`,
`DrainFinalize`, `SetIdleIfQueueEmpty`: the store does not fail forever) and where
`sync.RWMutex` promises entry (`Announce`, readers let in between writers). That an
active delivery settles is `Settles` of `Delivery`. With unboundedly many webhooks
the drain need not end; `MaxAccepted` bounds them.

`Notifications!FairSpec` and `Changes!FairSpec`: weak fairness of the browser's
requests, timers and reconnections, of the handler's steps, of the heartbeat's ticker
and of the call of `notifyChanged` that follows a commit. `StreamWake` needs no
fairness in the feed, because the heartbeat reads too; it does in the invalidation
stream, whose heartbeat sends nothing. Lost connections and failures are bounded.

## 5. Proofs

Every theorem holds for all constants that satisfy the named assumption of its module;
the assumptions are collected at the end of this section.

### Statuses, timers and POSTs

`DeliveryProofs` proves, for all constants that satisfy `DeliveryAssumption`:

| Theorem | States |
|---|---|
| `TypeCorrect` | `Spec => []TypeOK` |
| `Inductive` | `Spec => []IndInv` |
| `StatusesMirrored` | `Spec => []DeliveryMirrorsAttempt` |
| `OutcomeNeverLost` | `Spec => []DispatcherKeepsItsAttempt` |
| `PostedOnce` | `Spec => []AtMostOnePost` |
| `Serialized` | `Spec => []SendsSerialized` |
| `TimersAlwaysSet` | `Spec => []MonitoredHasTimers` |
| `ActiveResolves` | `Spec => []ActiveIsCompatible` |

The argument. None of these is inductive alone. That the dispatcher keeps its attempt
needs to know that no operator can correct or replace a sending attempt (`ExecOK`:
what a request has seen is neither pending nor sending, and the compare-and-swap
compares statuses), that a poll which still holds its claim is about a monitored row
(`PollOK`), and which columns can occur together (`RowsOK`). That nothing is posted
twice needs the set of attempts that cannot have been sent yet (`Unsent`, `PostOK`).
`LocalOK` and `DownIsIdle` say what workers hold by how far they are, and that a
stopped process holds nothing. `IndInv` is the conjunction; the proof has one lemma
per action and conjunct group, and TLC checks `IndInv` in run `manual`.

### Views, tunnels and connections

`ChangesProofs` proves, for all constants that satisfy `ChangesAssumption`,
`TypesHold` (`Spec => []TypeOK`), `ViewStaysAwake` (`Spec => []VisibleViewIsAwake`) and
`NeverGoesBack` (`Spec => ShownNeverGoesBack`). The last one needs that the latest
request was read after what is shown (`ReadAfterShown`): only an answer to the latest
request is shown, and the next request is made afterwards.

`TunnelsProofs` proves, for all constants that satisfy `TunnelsAssumption`,
`TrustIsDurable` (`TunnelsSpec => []AcceptedIsRecorded`), `TrustIsUnique`
(`TunnelsSpec => []FirstKeyIsKept`) and `TrustIsExclusive`: only the holder of the lock is
between reading and syncing. Both need the inductive invariant `IInv`: besides types and
the lock, what a request is about to write is the file as it is and a line for a host that
has none (`Writing`), the file has one key for a host beyond those entered (`OneKey`),
and what a power failure may leave lacks of the file only lines that are doubtful or that
the holder of the lock has yet to sync (`OnDisk`).

`ConnectionsProofs` proves `SendsWhereStored` (`Spec => []DeliversWhereStored`): equal
fingerprints mean equal types, URLs, requests and tunnel identities, and `clientFor` is
then either unavailable or the transport that was meant, because validity leaves tunnels
of targets to forward targets; `ImplementsTunnels` (`Spec => TunnelsSpec`: every step is a
step of the tunnels or leaves them alone), from which `AcceptedKeysStay` carries the
trust file's properties over; and `RulesNeverTie`: two rules of a valid bundle that match
one event have different priorities, so `OneRuleWins` never depends on the order in files.

`OneRuleAlwaysWins` (`Spec => []OneRuleWins`) adds that `CanonicalRoutes` is a sorted
rearrangement of the rules, each at the place that the number of its predecessors gives,
so the first one that matches is the one that precedes all others that match.

### Bindings

`DeliveryBindingProofs` extends `DeliveryProofs` and rests on `IndInv`:

| Theorem | States | Assumes of the remote |
|---|---|---|
| `BindInductive` | `Spec => [](IndInv /\ BindInv)` | nothing |
| `FailedMeansUntaken` | `Spec => []FailedNeverDeployed` | nothing |
| `BindingNeverChanges` | `Spec => BindingImmutable` | nothing |
| `DoneStaysDone` | `Spec => DoneIsFinal` | nothing |
| `OwnDeploymentOnly` | `Spec => []BindsItsOwnDeployment` | `ExactRemote` |
| `OneDeploymentAtATime` | `Spec => NoSecondDeployment` | `FaithfulRemote` |
| `ImplementsLifecycle` | `Spec => LivesAsPromised` | nothing |

The argument. Every step is summarised once: `RowChange` lists the ways in which it can
change the row of a current attempt, by who does it (claim, send, outcome, timer, poll,
startup, correction), and a second summary says what it can do to the server's history.
The rest looks only at these. `TakenOK` says that the server has taken nothing that was not
posted and that a definitive refusal is the truth. A binding stays because
a poll that still holds its claim, and a request whose compare-and-swap still succeeds,
have looked up the deployment the row names (`PollBinds`, `SeensOK`); the case that needs
care is a request that saw an unbound attempt which a poll has bound since: apart from
`done`, which no request sees, no status is shown both with and without a deployment ID by an
enqueued attempt, so the compare-and-swap of statuses fails (`BindingsOK`).

`BindsItsOwnDeployment` is false of some servers, so its theorem names the one it is
about. `ExactRemote`: a deployment is listed no later than its POST is answered, nobody
else deploys, and two deliveries of one resource have one target ID or both have a
dispatch key. TLC refutes the property without the last condition: two targets of one
resource, one delivery of which was stored without a dispatch key (`Legacy`), can be in
flight together, and one take the other's record for its own. Under these conditions
everything listed after the cursor of an unbound attempt is its own (`CursorsOK`).
`FaithfulRemote` adds that descriptions and history are kept; a lookup that finds nothing
then proves that there is nothing (`RecordsOK`, `CreatesOK`). Instances `core` and
`manual` satisfy these hypotheses.

### Deliveries implement Lifecycle

`ImplementsLifecycle` says for every server, however late it lists, whatever it renames or
drops: each step of `Delivery` is one of `Lifecycle` or changes none of its variables. The
steps that write rows need the invariants. A claim finds nothing of the same dispatch in
flight because `Claimable` looks at the rows that `InFlight` is read from. A POST is the
first of its attempt (`PostOK`), and what a restart withdraws unsent was not taken. An
outcome is recorded truthfully: "failed" only what was not taken (`TakenOK`), "following"
only what was. A poll that holds its claim, and a request whose compare-and-swap succeeds,
leave the deployment as it is or bind it for the first time (`PollBinds`, `SeensOK`).

`LifeInv` is what was missing for that. The dispatcher's answer is about its own POST and
an accepted one was taken (`OutcomeOK`), which needs that a record of the remote history is
never lost, only hidden from the client. A failed attempt has started nothing
(`FailedUnstarted`), so that a request, which corrects only what needs reconciliation, never
revives one; and a request has seen something that was over or whose transport was unknown
(`ViewOK`): nothing that is being followed is started over.

### Reload

`ReloadProofs` proves, for all constants that satisfy `ReloadAssumption`, `ReloadInductive`
(`Spec => []ReloadInv`), `ReloadTypeCorrect`, `NoBacklogWhenIdle` (`[]IdleHasNoBacklog`),
`OneReloadAtATime` (`[]ReloadsExclusive`), `DeliveriesFinishFirst`
(`[]FinishesOnItsGeneration`), `QueueIsExact` (`[]QueueHoldsDeferred`),
`DeferredMeetsTheNew` (`[]RoutedByTheNew`) and `ImplementsRouting` (`Spec => RoutesInOrder`).

The argument. The properties need what the gate gives: who holds it for reading finds the
state and the generation it found at first (`GateProtects`), since while a writer has its
turn nobody reads. `RoutedByTheNew` speaks of events already routed; its strengthening
`PromisesStand` says of each deferred one that the generation it was promised is the
current one, or the candidate, or older, and after a crash still on disk, which needs that
generations only get newer (`GenerationsAscend`). For the refinement, an ingest appends to
the log, and routes at once only if the queue is empty (`IdleHasNoBacklog`); finalizing
the head routes the next event of the log because the queue is exactly the deferred events
(`QueueHoldsDeferred`); deletion only forgets, because what is deferred is never deleted;
all other steps stutter.

### History

`HistoryProofs` proves, for all constants that satisfy `HistoryAssumption`,
`HistoryInductive` (`Spec => []HistoryInv`), `HistoryTypeCorrect`, `EachLifecycleOnce`
(`[]LifecycleListedOnce`), `PushMeetsPipeline` (`[]PushAndPipelineAreOne`),
`RetentionIsExact` (`RetentionKeepsTheNewest`), `DetailAgrees`
(`DetailFailsOnlyIfDeleted`), `ObservationsOutliveEvents` (`[]ObservedInv`) and
`StatisticsAreExact` (`[]StatisticsAreWhole`).

`HistoryInv` is small: rows are typed (`LogOK`), their numbers are distinct (`Numbered`),
positions follow `received_at` (`Sorted`), and a detail in progress is about a row of the
log, from its second query on about a pipeline's (`DetailOK`). The work is in what the
queries compute from any such table. Lists are sorted by rank (an element's place is the
number of those before it), so that their properties need counting and no induction.
Retention: what is deleted beyond a limit is what has at least that many newer rows, hence
the rows kept are at most the limit, all newer, and as many as the limit if anything was
deleted. Pages: a row's page is its rank divided by the page size. Detail: a pipeline of
which a state is stored has a newest state, which is the last one in the sorted list.

The statistics do need an induction: `FoldRun` is a loop over the observations of a run,
written as a recursive function, and `Whole` a statement about all of them. Induction
theorems take a predicate and cannot be used here; `ReachesAll` takes a set instead, and
follows from the least position that is not in it. A recursive function is a `CHOOSE` over
the solutions of its equation, so it is first shown that there is one for every sequence
(`FoldExists`, itself such an induction over its length) and that `FoldRun` is its last
value. Then, along the positions: the boundary is where the current phase began, the times
of the phases add up to what lies between the first observation and the boundary, and the
run is valid exactly as long as the observations so far could be those of a `Whole` one.
`ObservedInv` connects this to the tables: no observation carries a time that lies ahead,
and only those too old to be counted are gone, whatever became of their events; so what the
fold reads of a run of which nothing expired is all of it.

### The feed

`NotificationsProofs` proves, for all constants that satisfy `NotificationsAssumption`,
`FeedInductive` (`Spec => []FeedInv`), `FeedTypeCorrect`, `ListsInOrder`
(`[]ListedInOrder`), `NothingElseIsSkipped` (`[]NoOtherFactIsSkipped`) and
`ForgottenForGood` (`[]ClearedIsForgotten`).

`FeedInv` is, for each tab, a chain of cursors: what is listed is not after the tab's
cursor, the wire is after it and ascends, the stream's cursor is not before the wire, and
the page it has read is after that (`ItemsTab`, `BaselineTab`, `WireTab`). `DueTab` adds
that a fact the tab is still to be told of is ahead of each cursor or in what that cursor
is about to pass. A new commit keeps this if it is not late: it is then after every fact
committed before and so after every cursor. `KnownTab` says that whatever is held was
committed once, and rows keep their place from then on; `PhaseTab` ties the cursors
together across reconnections; `ForgetTab` says that nothing cleared is on its way. A
listing takes the first or the last of a sorted set; as in `HistoryProofs` ranks replace
induction.

### Assumptions on the constants

Most are types and bounds. The others: requests, operators and workers have different
names and none is `NULL` (goroutines are told apart); equal resources have equal kinds (a
resource is a binding fingerprint, which contains the type); a webhook is determined by its
delivery, all states of a pipeline carry one ref, revision and trigger, and a provider's
status is not one of the two hookfly gives a push itself; priorities and the order of rules
are integers and a list of rules is a sequence (as `config` decodes them); facts are
finitely many, and a listing is no longer than what a tab retains (50 and 100 in the code).

### Only model-checked

Liveness (`Settles`, `ReloadsEnd`, `DeferredIsRouted`, `FactReachesTab`, `ChangeIsHeard`,
`ViewCatchesUp`) is out of the prover's reach: it needs fairness and `ENABLED`, which it
does not reason about. Nothing else that a passing run checks is left to TLC alone.

## 6. Disagreements found

- `http_retry`: README.md:84 and :92 say that an unknown outcome of an http or forward
  target offers Retry. The API offers it, but the retry must first reconcile by
  Compose ID, which such a target does not have, and always fails.
- `feed_late`: `adminapi/handler.go:158` says that facts are pushed as they are
  committed and that a missed wake-up only delays them. A fact's place is given by a
  time taken before its commit (a webhook's at its arrival, a deferred delivery's at
  the arrival of its event); one that commits after a fact with a later time is behind
  the cursor already handed out and is never sent. `NoOtherFactIsSkipped` shows that
  this, and the empty cursor below, are the only ways to lose a fact.

Nine more behaviours that differ from what the repository says of them are part of the
models, as exceptions the properties name, without a run of their own:

- README.md:84 says that direct HTTP targets do not poll. `RecoverInterrupted` does not
  look at the kind: one that was being sent when the process stopped is polled after the
  restart until its deadline (run `live`, where `Settles` depends on that deadline).
- README.md:72 says that the mutable description is not the primary identity. A manual
  retry of an attempt that is not bound yet looks only for the description, ignores the
  stored cursor, and may send a second deployment. `NoSecondDeployment` therefore holds
  only with `Relabels` off.
- `web/src/hooks/useNotifications.test.tsx:112` says that the first fact after an empty
  baseline is not skipped. The stream is then opened without a cursor and starts at the
  tail, behind a fact that was committed in between (`blind`).
- `adminapi/handler.go:241` says that after a mid-stream failure the EventSource
  reconnects and resumes. If the store still fails then, the answer is a 503, after which
  an EventSource does not try again (`source[t].state = "dead"` in `FactReachesTab`).
- README.md:96 says that the first key observed is durably recorded. A key whose rename
  was not followed by a sync of the directory (the sync failed, or the process was killed
  between the two) is accepted by the next request that reads the file, without another
  sync; a power failure can then lose an accepted key, and another one be learned
  (`doubtful` in `AcceptedIsRecorded` and `FirstKeyIsKept`).
- `store/query_test.go:339` is named for a newer push not being resolved with an older pipeline.
  The pipeline's age is that of its oldest stored state: once retention has deleted the
  first one, a later push of the same commit is hidden behind the older pipeline. `PushAndPipelineAreOne`
  speaks of the stored states.
- `store/statistics.go:49` says that missing boundaries are excluded. When the 90 days cut
  off a run's first observation and leave one of waiting, the run counts as complete, with
  a total that is too short; `StatisticsAreWhole` speaks of runs of which nothing expired.
- A pipeline's detail shows the deliveries of its newest state only: those that an earlier
  state has started cannot be reached from the list once a newer one has arrived.
- `GetEventDetail` answers with an internal error instead of not found when a pipeline is
  deleted between two of its queries (`DetailFails` beside `DetailNotFound`;
  `DetailFailsOnlyIfDeleted` allows either).

## 7. Mutants

Beside each mapped definition a property depends on stands a variant with a
plausible bug (`\* Mutant:`): a guard dropped, a status forgotten, a lock given up
early. `PROJECT.json` says which property each one must break.

## 8. Not modelled

Reading of configuration files and the syntax of their single fields; payload
normalisation and authentication of webhooks (a webhook is refused, unsupported or
supported); the filters of the event list, and the decoding and redaction of what a
detail shows; request templates, header filtering and redaction; OIDC sessions; the web UI
beyond the two hooks that follow the streams, and with it what notifications say, unread
marks, desktop notifications and preferences. Cursors that do not decode cannot come from
the program. Audit rows and evidence JSON are left out of every action. Store errors inside the
dispatcher and the poller stop the process, which the model's `Crash` covers at every step.

Of the tunnels: a failed TCP connection to the jump host (nothing has happened yet), the
manual check of a tunnel and the status it shows, and the discovery of targets through
connections. That a dial ends once its socket is closed is `crypto/ssh`'s part and not
checked as liveness. A list that is read while rows change is two queries in the code (a
count and a page) and one reading in `History`: the count may then differ from the page.

## 9. Plan

Order of the work, most important behaviour first:

1. `Delivery` with its inductive invariant and proofs (done).
2. `Reload` implementing `Routing`, its invariants and the refinement proved (done).
3. `Notifications` and `Changes`, their safety proved (done).
4. `History` with retention limits and statistics, `Targets`, `Tunnels` and `Connections`
   (done), and the proofs about them, the statistics included (done).
5. Proofs about deployments and their bindings (done).
6. `Lifecycle`, which `Delivery` implements, and the refinement proved (done).
7. Left to model: the audit rows of `Delivery` as facts of the feed; the target inventory
   cache (concurrent discovery); the manual check of tunnels; login and sessions.
