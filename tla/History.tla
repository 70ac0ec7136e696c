------------------------------ MODULE History ------------------------------
(***************************************************************************)
(* The event history: what retention deletes, how the event list folds      *)
(* pushes and pipeline states into one lifecycle, what an event's detail    *)
(* shows, and the pipeline statistics, which outlive the events.            *)
(*                                                                         *)
(* log is every row ever inserted, in the order of (received_at, id), so    *)
(* that a position compares two rows as the queries do; ids are random, so  *)
(* rows of one instant are in any order, and a handler reads the clock      *)
(* before it commits, so a row may land before older ones. The list is one  *)
(* reading of the table; the detail is a request of several queries with    *)
(* other transactions between them.                                         *)
(***************************************************************************)
EXTENDS Statistics, FiniteSets

CONSTANTS
    Webhooks,          \* incoming webhooks, normalized, with the targets they deploy
    Limits,            \* history_limit of the repositories that configure one
    DefaultLimit,      \* default_repository_limit (0 or less: unlimited)
    GlobalLimit,       \* global_limit (0 or less: unlimited)
    PageSize,          \* page_size of a list request
    WaitTimeout,       \* pipelineWaitTimeout
    Window,            \* the 90 days of the statistics
    NULL,
    MaxRows,           \* bound: rows inserted
    MaxTime,           \* bound: last instant
    MaxRowsAsked,      \* bound: rows when a detail is asked for
    MaxTimeAsked,      \* bound: last instant at which one is asked for
    MaxDelay           \* bound: age of a row's received_at when it commits

(* The repo of a webhook stands for its provider, source and repository.    *)
ASSUME HistoryAssumption ==
    /\ \A h \in Webhooks : DOMAIN h = {"delivery", "event", "repo", "ref", "revision",
                                       "external", "trigger", "status", "targets"}
    /\ \A g, h \in Webhooks : g.delivery = h.delivery => g = h
    \* A provider reports one revision, ref and trigger for all states of a pipeline.
    /\ \A g, h \in Webhooks :
          /\ g.event = "pipeline" /\ h.event = "pipeline"
          /\ g.repo = h.repo /\ g.external = h.external /\ g.external # NULL
          => g.revision = h.revision /\ g.ref = h.ref /\ g.trigger = h.trigger
    \* The two statuses hookfly gives a push are not statuses of a provider.
    /\ \A h \in Webhooks : h.status \notin {"waiting_for_pipeline", "pipeline_not_received"}
    /\ \A r \in DOMAIN Limits : Limits[r] \in Int
    /\ {DefaultLimit, GlobalLimit} \subseteq Int
    /\ PageSize \in Nat \ {0}
    /\ {WaitTimeout, Window, MaxRows, MaxRowsAsked, MaxTimeAsked, MaxTime, MaxDelay} \subseteq Nat

VARIABLES
    log,      \* rows ever inserted, by (received_at, id)
    now,      \* wall clock
    detail    \* a request for an event's detail

vars == <<log, now, detail>>

-----------------------------------------------------------------------------
(* Rows. nr names a row; stored and observed say whether it is in table     *)
(* events and in table pipeline_observations. A delivery is "active", or it *)
(* ended "done" or "failed" (which offers an operation).                    *)

Rows == DOMAIN log
Hook(i) == log[i].hook
Stored == {i \in Rows : log[i].stored}
Pos(nr) == CHOOSE i \in Rows : log[i].nr = nr

Queue == {i \in Stored : log[i].deferred}
NewDeliveries(targets) == [t \in targets |-> "active"]
IsPipeline(i) == Hook(i).event = "pipeline" /\ Hook(i).external # NULL
IsPush(i) == Hook(i).event = "push" /\ Hook(i).revision # NULL
HasDeliveries(i) == DOMAIN log[i].deliveries # {}

(* The insertion of the row fires the trigger record_pipeline_observation.  *)
EventRow(h, at, deferred) ==
    [nr |-> Len(log) + 1, hook |-> h, at |-> at, stored |-> TRUE,
     observed |-> h.event = "pipeline" /\ h.external # NULL, deferred |-> deferred,
     deliveries |-> NewDeliveries(IF deferred THEN {} ELSE h.targets)]

InsertRow(k, row) == SubSeq(log, 1, k - 1) \o <<row>> \o SubSeq(log, k, Len(log))

(* A webhook commits: at once or, while a reload drains, into the queue. Its *)
(* delivery id may come again only after the event was deleted.             *)
Ingest ==
    /\ Len(log) < MaxRows
    /\ \E h \in Webhooks, at \in 0..now, deferred \in BOOLEAN, k \in 1..(Len(log) + 1) :
        /\ now - at <= MaxDelay
        /\ \A i \in Stored : Hook(i).delivery # h.delivery
        /\ Queue # {} => deferred
        /\ \A i \in Rows : IF i < k THEN log[i].at <= at ELSE at <= log[i].at
        /\ log' = InsertRow(k, EventRow(h, at, deferred))
    /\ UNCHANGED <<now, detail>>

(* The drainer routes the oldest entry of the queue.                        *)
FinalizeDeferred ==
    /\ \E i \in Queue :
        /\ \A j \in Queue : log[i].nr <= log[j].nr
        /\ log' = [log EXCEPT ![i].deferred = FALSE, ![i].deliveries = NewDeliveries(Hook(i).targets)]
    /\ UNCHANGED <<now, detail>>

(* A delivery ends, and an operator starts one that failed again.           *)
DeliveryStep ==
    /\ \E i \in Stored : \E t \in DOMAIN log[i].deliveries :
         LET s == log[i].deliveries[t] IN
         \E next \in IF s = "active" THEN {"done", "failed"}
                      ELSE IF s = "failed" THEN {"active"} ELSE {} :
            log' = [log EXCEPT ![i].deliveries[t] = next]
    /\ UNCHANGED <<now, detail>>

Tick == now < MaxTime /\ now' = now + 1 /\ UNCHANGED <<log, detail>>

-----------------------------------------------------------------------------
(* Retention. *)

ActiveRow(i) == \E t \in DOMAIN log[i].deliveries : log[i].deliveries[t] = "active"
Terminal == {i \in Stored : ~log[i].deferred /\ ~ActiveRow(i)}

(* The rows of S behind its limit newest ones; every row if limit is 0.     *)
TerminalAfter(S, limit) == {i \in S : Cardinality({j \in S : j > i}) >= limit}

RepoLimit(r) == IF r \in DOMAIN Limits THEN Limits[r] ELSE DefaultLimit

(* Mutant: the global limit also counts what the repositories' limits delete. *)
PrunedOfAll ==
    LET group(r) == {i \in Terminal : Hook(i).repo = r}
        local == UNION {IF RepoLimit(r) > 0 THEN TerminalAfter(group(r), RepoLimit(r)) ELSE {} :
                          r \in {Hook(i).repo : i \in Stored}}
    IN  local \cup IF GlobalLimit > 0 THEN TerminalAfter(Terminal, GlobalLimit) ELSE {}
Pruned ==
    LET group(r) == {i \in Terminal : Hook(i).repo = r}
        local == UNION {IF RepoLimit(r) > 0 THEN TerminalAfter(group(r), RepoLimit(r)) ELSE {} :
                          r \in {Hook(i).repo : i \in Stored}}
    IN  local \cup IF GlobalLimit > 0 THEN TerminalAfter(Terminal \ local, GlobalLimit) ELSE {}

Expired == {i \in Rows : log[i].at < now - Window}

(* A deletion takes the deliveries of the events with it.                   *)
Delete(S) ==
    [i \in Rows |-> IF i \in S THEN [log[i] EXCEPT !.stored = FALSE, !.deliveries = NewDeliveries({})]
                    ELSE log[i]]

Prune ==
    /\ UNCHANGED <<now, detail>>
    /\ LET left == Delete(Pruned) IN
       log' = [i \in Rows |-> [left[i] EXCEPT !.observed = @ /\ i \notin Expired]]
    /\ log' # log

ClearHistory ==
    /\ Stored # {}
    /\ Stored = Terminal
    /\ log' = Delete(Stored)
    /\ UNCHANGED <<now, detail>>

-----------------------------------------------------------------------------
(* The lifecycle of a revision: a push waits for its pipeline, the states   *)
(* of a pipeline fold into its newest.                                      *)

SamePipeline(i, j) ==
    /\ IsPipeline(i) /\ IsPipeline(j)
    /\ Hook(i).repo = Hook(j).repo /\ Hook(i).external = Hook(j).external

States(i) == {j \in Stored : SamePipeline(i, j)}
Newest(S) == CHOOSE i \in S : \A j \in S : j <= i
StartOf(S) == CHOOSE at \in {log[i].at : i \in S} : \A i \in S : at <= log[i].at

(* Pipeline row j takes the place of push i: it began after the push.       *)
(* Mutant: a pipeline that began before the push takes its place.           *)
ReplacesAny(j, i) ==
    /\ IsPipeline(j) /\ Hook(j).trigger = "push" /\ Hook(j).repo = Hook(i).repo
    /\ Hook(j).revision = Hook(i).revision /\ Hook(j).ref = Hook(i).ref
    /\ log[j].at >= log[i].at
Replaces(j, i) ==
    /\ IsPipeline(j) /\ Hook(j).trigger = "push" /\ Hook(j).repo = Hook(i).repo
    /\ Hook(j).revision = Hook(i).revision /\ Hook(j).ref = Hook(i).ref
    /\ log[j].at >= log[i].at
    /\ \A k \in States(j) : log[k].at >= log[i].at

Replacing(i) ==
    IF IsPush(i) /\ ~HasDeliveries(i) THEN {j \in Stored : Replaces(j, i)} ELSE {}

(* eventWhere without filters. Filters only select among these rows.        *)
(* Mutant: the oldest state of a pipeline is listed.                        *)
VisibleOldest(i) ==
    /\ IsPipeline(i) => ~\E j \in States(i) : j < i
    /\ Replacing(i) = {}
Visible(i) ==
    /\ IsPipeline(i) => ~\E j \in States(i) : j > i
    /\ Replacing(i) = {}
Listed == {i \in Stored : Visible(i)}

Current(i) ==
    IF IsPipeline(i) THEN Newest(States(i))
    ELSE IF Replacing(i) # {} THEN Newest(Replacing(i))
    ELSE i

(* ListEvents: the rows of a page, newest first, pages from 1.              *)
Rank(rows, i) == Cardinality({j \in rows : j > i})
(* Mutant: the row at the page boundary is on both pages.                   *)
PageRowsInclusive(rows, page) ==
    {i \in rows : Rank(rows, i) >= (page - 1) * PageSize /\ Rank(rows, i) <= page * PageSize}
PageRows(rows, page) ==
    {i \in rows : Rank(rows, i) >= (page - 1) * PageSize /\ Rank(rows, i) < page * PageSize}
HasNext(total, page) ==
    /\ total > 0
    /\ (page - 1) * PageSize < total
    /\ PageSize < total - (page - 1) * PageSize

sourceStatusActive(status) == pipelinePhase(status) \in Timed

(* What the list and the detail show of a row.                              *)
fillEventState(i) ==
    LET ds == log[i].deliveries
        has(s) == \E t \in DOMAIN ds : ds[t] = s
        waits == IsPush(i) /\ DOMAIN ds = {}
        late == now > log[i].at + WaitTimeout IN
    [status |-> IF waits THEN IF late THEN "pipeline_not_received" ELSE "waiting_for_pipeline"
                ELSE Hook(i).status,
     kind |-> IF DOMAIN ds = {} THEN "none"
              ELSE IF Cardinality({ds[t] : t \in DOMAIN ds}) = 1 THEN "uniform" ELSE "mixed",
     active |-> has("active") \/ (waits /\ ~late)
                \/ (Hook(i).event = "pipeline" /\ sourceStatusActive(Hook(i).status)),
     attention |-> has("failed")]

-----------------------------------------------------------------------------
(* GetEventDetail: a request of several queries. detail holds what it has   *)
(* read so far: the event's id, the start of its pipeline and the push.     *)

NoDetail == [pc |-> "none", id |-> 0, start |-> 0, states |-> <<>>]

(* ORDER BY received_at, id: the k-th row has k - 1 rows before it.         *)
Ascending(S) ==
    [k \in 1..Cardinality(S) |-> CHOOSE i \in S : Cardinality({j \in S : j < i}) = k - 1]

DetailQuery(next) == detail' = next /\ UNCHANGED <<log, now>>

(* The id may be that of an event that is gone: nothing joins it.           *)
DetailResolve ==
    /\ detail = NoDetail
    /\ Len(log) <= MaxRowsAsked /\ now <= MaxTimeAsked
    /\ \E i \in Rows :
         DetailQuery([NoDetail EXCEPT !.pc = "row", !.id = log[IF i \in Stored THEN Current(i) ELSE i].nr])

DetailRow ==
    /\ detail.pc = "row"
    /\ Pos(detail.id) \in Stored
    /\ LET i == Pos(detail.id) IN
       DetailQuery(IF ~IsPipeline(i) THEN NoDetail
                   ELSE IF Hook(i).revision # NULL /\ Hook(i).trigger = "push"
                        THEN [detail EXCEPT !.pc = "start"]
                        ELSE [detail EXCEPT !.pc = "states"])
DetailNotFound ==
    /\ detail.pc = "row"
    /\ Pos(detail.id) \notin Stored
    /\ DetailQuery(NoDetail)

(* MIN over no rows is NULL, which does not scan into an integer.           *)
DetailStart ==
    /\ detail.pc = "start"
    /\ LET S == States(Pos(detail.id)) IN
       S # {} /\ DetailQuery([detail EXCEPT !.pc = "push", !.start = StartOf(S)])
DetailFails ==
    /\ detail.pc = "start"
    /\ States(Pos(detail.id)) = {}
    /\ DetailQuery(NoDetail)

(* The pushes that pipeline row i may have come from.                       *)
PushStages(i, start) ==
    {j \in Stored : /\ IsPush(j) /\ ~HasDeliveries(j)
                    /\ Hook(j).repo = Hook(i).repo /\ Hook(j).revision = Hook(i).revision
                    /\ Hook(j).ref = Hook(i).ref /\ log[j].at <= start}
DetailPush ==
    /\ detail.pc = "push"
    /\ LET S == PushStages(Pos(detail.id), detail.start) IN
       DetailQuery([detail EXCEPT !.pc = "states", !.start = 0,
                                  !.states = IF S = {} THEN <<>> ELSE <<log[Newest(S)].nr>>])

(* The queries that follow, for the event's state, deliveries, attempts and *)
(* activities, find nothing and do not fail when the event is gone.         *)
(* Mutant: the push is shown after the states of its pipeline.              *)
AnsweredPushLast ==
    LET rows == Ascending(States(Pos(detail.id))) IN
    [k \in DOMAIN rows |-> log[rows[k]].nr] \o detail.states
AnsweredStates ==
    LET rows == Ascending(States(Pos(detail.id))) IN
    detail.states \o [k \in DOMAIN rows |-> log[rows[k]].nr]
DetailStates == detail.pc = "states" /\ DetailQuery(NoDetail)

Detail ==
    \/ DetailResolve \/ DetailRow \/ DetailNotFound
    \/ DetailStart \/ DetailFails \/ DetailPush \/ DetailStates

-----------------------------------------------------------------------------
Init == log = <<>> /\ now = 0 /\ detail = NoDetail

Next ==
    \/ Ingest \/ FinalizeDeferred \/ DeliveryStep \/ Tick
    \/ Prune \/ ClearHistory
    \/ Detail

Spec == Init /\ [][Next]_vars

TypeOK ==
    /\ now \in 0..MaxTime
    /\ Len(log) <= MaxRows
    /\ \A i, j \in Rows : i < j => log[i].at <= log[j].at
    /\ {log[i].nr : i \in Rows} = 1..Len(log)

-----------------------------------------------------------------------------
(* Paging through the list shows the lifecycle of every stored event        *)
(* exactly once, and opening a listed event opens that event: the queries   *)
(* of ListEvents and of currentLifecycleEventID agree, at page boundaries   *)
(* too.                                                                     *)
LifecycleListedOnce ==
    LET rows == Listed
        pages == {p \in 1..(MaxRows + 1) : \A q \in 1..(p - 1) : HasNext(Cardinality(rows), q)} IN
    /\ \A c \in {Current(i) : i \in Stored} :
          Cardinality({p \in pages : c \in PageRows(rows, p)}) = 1
    /\ \A i \in rows : Current(i) = i

(* A push and its pipeline are shown as one: a push that the list hides is  *)
(* a stage of the pipeline it is hidden behind, or a later push of the      *)
(* commit is, and a push that the list says still waits for its pipeline,   *)
(* or never received one, has none that began since.                        *)
PushAndPipelineAreOne ==
    /\ \A i \in Stored : Replacing(i) # {} =>
          LET stages == PushStages(Current(i), StartOf(States(Current(i)))) IN
          stages # {} /\ Newest(stages) >= i
    /\ \A i \in {i \in Listed : fillEventState(i).status
                                  \in {"waiting_for_pipeline", "pipeline_not_received"}} :
       \A j \in Stored :
          /\ IsPipeline(j) /\ Hook(j).trigger = "push" /\ Hook(j).repo = Hook(i).repo
          /\ Hook(j).revision = Hook(i).revision /\ Hook(j).ref = Hook(i).ref
          => StartOf(States(j)) < log[i].at

(* A prune deletes only terminal events, leaves no repository and not the   *)
(* whole history over its limit, keeps the newest, and deletes nothing that *)
(* the limits allow.                                                        *)
RetentionKeepsTheNewest ==
    [][Prune =>
        LET kept == Terminal \ (Stored \ Stored')
            keptOf(r) == {i \in kept : Hook(i).repo = r}
            full(r) == RepoLimit(r) > 0 /\ Cardinality(keptOf(r)) >= RepoLimit(r)
            fullAll == GlobalLimit > 0 /\ Cardinality(kept) >= GlobalLimit IN
        /\ Stored \ Stored' \subseteq Terminal
        /\ \A i \in kept : RepoLimit(Hook(i).repo) > 0
                              => Cardinality(keptOf(Hook(i).repo)) <= RepoLimit(Hook(i).repo)
        /\ GlobalLimit > 0 => Cardinality(kept) <= GlobalLimit
        /\ \A i \in Stored \ Stored' :
              /\ \A j \in keptOf(Hook(i).repo) : j > i
              /\ \/ full(Hook(i).repo)
                 \/ fullAll /\ \A j \in kept : j > i]_vars

(* A pipeline's durations are those of everything received of it, whatever  *)
(* retention has deleted: a run is complete exactly when it was seen from   *)
(* before it ran until its end without going back, its total is the time    *)
(* between the two, and the phases of an unfinished run add up to its age.  *)
StatisticsAreWhole ==
    \A i \in {i \in Rows : IsPipeline(i) /\ \A j \in Rows : SamePipeline(i, j) => i <= j},
       to \in 0..(now + 1) :
        LET ever == {j \in Rows : SamePipeline(i, j) /\ log[j].at < to}
            obs(S) == LET rows == Ascending(S) IN
                      [k \in DOMAIN rows |-> [at |-> log[rows[k]].at, status |-> Hook(rows[k]).status]]
            seen == {j \in ever : log[j].observed /\ log[j].at >= now - Window}
            end == IF to < now THEN to ELSE now
            all == obs(ever) IN
        ever # {} /\ ever \cap Expired = {} =>
            LET stat == PipelineRun(obs(seen), end) IN
            /\ stat.complete <=> \E f \in DOMAIN all : Whole(all, f)
            /\ \A f \in DOMAIN all : Whole(all, f) => TotalMS(stat.run) = all[f].at - all[1].at
            /\ (\A k \in DOMAIN all : PhaseAt(all, k) \in Timed)
                 => TotalMS(stat.run) = end - all[1].at

(* A detail that has found its event fails only if retention or a clearing   *)
(* has deleted it since, and the states it shows of a pipeline that is still *)
(* there end with the newest one, even if that arrived after the request.   *)
DetailFailsOnlyIfDeleted ==
    [][/\ DetailFails => Pos(detail.id) \notin Stored
       /\ DetailStates /\ Pos(detail.id) \in Stored =>
            AnsweredStates[Len(AnsweredStates)] = log[Current(Pos(detail.id))].nr]_vars
=============================================================================
