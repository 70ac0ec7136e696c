---------------------------- MODULE Notifications ----------------------------
(***************************************************************************)
(* The notification feed. Facts are rows (events, deliveries, status        *)
(* audits) read back in the order of the time they carry and their id; a    *)
(* browser tab lists what it has not seen, then follows a server-sent event *)
(* stream from its cursor on, and keeps what it was told in local storage.  *)
(*                                                                         *)
(* A row's time is taken when its request, attempt or poll begins; its      *)
(* transaction commits later, and a deferred event's deliveries carry the   *)
(* time of the event. What the facts say (category, outcome, summary) is    *)
(* left out: a fact is its id and its time. Ids are uuids, so their order   *)
(* is arbitrary. Cursors are opaque to a tab, which only hands back the     *)
(* ones it was given, so none fails to decode. A tab stands for a browser   *)
(* of its own; a server restart is a break of every stream.                 *)
(***************************************************************************)
EXTENDS Naturals, Sequences, FiniteSets, Functions, Notify

CONSTANTS
    Facts,        \* ids of facts, in the order in which SQL compares them
    Muted,        \* facts whose status the user does not want to hear of
    Tabs,         \* browser tabs
    ListLimit,    \* facts of one REST answer (50)
    StreamLimit,  \* facts of one read of a stream (100)
    Retained,     \* facts a tab keeps (100)
    MaxTime,      \* bound: clock readings
    MaxBreaks,    \* bound: lost connections and page reloads
    MaxFailures,  \* bound: failed reads of the store
    MaxClears     \* bound: clearings of the history

ASSUME NotificationsAssumption ==
    /\ Facts \subseteq Nat \ {0} /\ IsFiniteSet(Facts)
    /\ Muted \subseteq Facts
    /\ {ListLimit, StreamLimit, Retained} \subseteq Nat \ {0}
    /\ ListLimit <= Retained
    /\ MaxTime \in Nat \ {0} /\ {MaxBreaks, MaxFailures, MaxClears} \subseteq Nat

VARIABLES
    clock,     \* the last time that was read
    fact,      \* the rows: how far their writers are, and the time they carry
    signals,   \* commits whose notifyChanged is still to come
    stored,    \* the tab's state in local storage
    baseline,  \* useNotifications: the REST request of a tab
    source,    \* the tab's EventSource
    stream,    \* the handler at the other end
    wire,      \* facts sent and not received
    clearing,  \* tabs whose "clear history" the server has carried out
    owed,      \* facts committed since a tab has its baseline (observation only)
    blind,     \* those committed while its cursor was empty (observation only)
    late,      \* facts committed after a fact that sorts behind them (observation only)
    got,       \* facts a tab was told of (observation only)
    cleared,   \* facts that were gone when a tab cleared its state (observation only)
    breaks, failures, clears

rowVars == <<clock, fact, signals, late>>
tabVars == <<stored, baseline, got>>
connVars == <<source, stream, wire>>
debtVars == <<owed, blind, cleared>>
boundVars == <<breaks, failures, clears>>
vars == <<rowVars, tabVars, connVars, debtVars, boundVars, clearing, notifyVars>>

-----------------------------------------------------------------------------
(* ListNotifications (internal/store/notifications.go).                      *)

(* The empty cursor decodes to zero, which no fact sorts before.             *)
NoCursor == [at |-> 0, id |-> 0]
encodeNotificationCursor(f) == [at |-> fact[f].at, id |-> f]
Visible == {f \in Facts : fact[f].state = "visible"}

Behind(c, d) == c.at > d.at \/ (c.at = d.at /\ c.id > d.id)

(* ORDER BY occurred_at, id: the k-th fact has k - 1 facts before it.         *)
InOrder(fs) ==
    [k \in 1..Cardinality(fs) |->
        CHOOSE f \in fs :
            Cardinality({g \in fs : Behind(encodeNotificationCursor(f), encodeNotificationCursor(g))}) = k - 1]

ListNotifications(after, limit) ==
    LET all == InOrder({f \in Visible : Behind(encodeNotificationCursor(f), after)})
    IN SubSeq(all, 1, IF limit < Len(all) THEN limit ELSE Len(all))

(* LatestCursor: the cursor of the page's last item; after an empty cursor,  *)
(* of the newest fact there is, read by a second query.                      *)
PageCursor(page) == IF page = <<>> THEN NoCursor ELSE encodeNotificationCursor(page[Len(page)])
LatestCursor ==
    IF Visible = {} THEN NoCursor
    ELSE encodeNotificationCursor(
             CHOOSE f \in Visible : \A g \in Visible \ {f} :
                 Behind(encodeNotificationCursor(f), encodeNotificationCursor(g)))

-----------------------------------------------------------------------------
(* The writers of rows: Ingest, IngestDeferred, FinalizeDeferred, and the    *)
(* attempt transitions of module Delivery, each followed by notifyChanged.   *)

(* The time a row carries is read before the gate, the body, the remote call *)
(* or the deferral that precede its commit; until then it may go on.         *)
TakeTime(f) ==
    /\ fact[f].state = "none"
    /\ clock' \in clock..MaxTime
    /\ fact' = [fact EXCEPT ![f] = [state |-> "open", at |-> clock']]
    /\ UNCHANGED <<signals, late, tabVars, connVars, debtVars, boundVars, clearing, notifyVars>>

Commit(f) ==
    /\ fact[f].state = "open"
    /\ fact' = [fact EXCEPT ![f].state = "visible"]
    /\ signals' = signals \cup {f}
    /\ late' = IF \E g \in Facts :
                      /\ fact[g].state \in {"visible", "gone"}
                      /\ Behind(encodeNotificationCursor(g), encodeNotificationCursor(f))
               THEN late \cup {f} ELSE late
    /\ owed' = [t \in Tabs |-> IF stored[t].initialized THEN owed[t] \cup {f} ELSE owed[t]]
    /\ blind' = [t \in Tabs |-> IF stored[t].cursor = NoCursor THEN blind[t] \cup {f} ELSE blind[t]]
    /\ UNCHANGED <<clock, tabVars, connVars, cleared, boundVars, clearing, notifyVars>>

Announce(f) ==
    /\ f \in signals
    /\ signals' = signals \ {f}
    /\ notifyChanged
    /\ UNCHANGED <<clock, fact, late, tabVars, connVars, debtVars, boundVars, clearing>>

(* A fact goes away: retention removes its event, without a signal, or a     *)
(* deferred pipeline event turns out to be unmatched.                        *)
Withdraw(f) ==
    /\ fact[f].state = "visible"
    /\ fact' = [fact EXCEPT ![f].state = "gone"]
    /\ signals' \in {signals, signals \cup {f}}
    /\ UNCHANGED <<clock, late, tabVars, connVars, debtVars, boundVars, clearing, notifyVars>>

-----------------------------------------------------------------------------
(* The tab: useNotifications (web/src/hooks/useNotifications.ts) over the    *)
(* state kept by web/src/notifications.ts.                                   *)

DefaultState == [initialized |-> FALSE, cursor |-> NoCursor, items |-> <<>>]
NoSource == [state |-> "none", after |-> NoCursor, lastEventID |-> NoCursor]
NoStream == [pc |-> "none", cursor |-> NoCursor, page |-> <<>>, latest |-> NoCursor, first |-> TRUE]
Asking == [pc |-> "ask", page |-> <<>>, latest |-> NoCursor]
Following == [pc |-> "follow", page |-> <<>>, latest |-> NoCursor]

\* Mutant: new facts go in front.
appendFactsInFront(items, added) == SubSeq(added \o items, 1,
    IF Len(items) + Len(added) > Retained THEN Retained ELSE Len(items) + Len(added))
appendFacts(items, added) ==
    LET all == items \o added
    IN SubSeq(all, IF Len(all) > Retained THEN Len(all) - Retained + 1 ELSE 1, Len(all))

(* The elements of s at the positions in I, in the order of s.               *)
Filter(s, I) ==
    [k \in 1..Cardinality(I) |-> s[CHOOSE i \in I : Cardinality({j \in I : j < i}) = k - 1]]

(* acceptFacts: known and muted facts are passed over, the cursor moves on.  *)
acceptFacts(s, page, latest) ==
    IF page = <<>> THEN s
    ELSE [s EXCEPT
             !.items = appendFacts(@, Filter(page, {i \in DOMAIN page : page[i] \notin Range(@) \cup Muted})),
             !.cursor = IF latest # NoCursor THEN latest ELSE PageCursor(page)]

Accept(t, page, latest) ==
    /\ stored' = [stored EXCEPT ![t] = acceptFacts(@, page, latest)]
    /\ got' = [got EXCEPT ![t] = @ \cup Range(page)]

(* openStream *)
OpenStream(t, cursor) ==
    source' = [source EXCEPT ![t] = [NoSource EXCEPT !.state = "connecting", !.after = cursor]]

(* source.close: the handler sees its context end and unsubscribes.          *)
HangUp(t) ==
    /\ stream' = [stream EXCEPT ![t] = NoStream]
    /\ wire' = [wire EXCEPT ![t] = <<>>]
    /\ Unsubscribe(t)

ListPage(t) ==
    /\ baseline[t].pc = "ask"
    /\ LET after == stored[t].cursor
           page == ListNotifications(after, ListLimit)
       IN baseline' = [baseline EXCEPT ![t] =
              [pc |-> IF after = NoCursor THEN "latest" ELSE "answer",
               page |-> page, latest |-> PageCursor(page)]]
    /\ UNCHANGED <<rowVars, stored, got, connVars, debtVars, boundVars, clearing, notifyVars>>

ListLatest(t) ==
    /\ baseline[t].pc = "latest"
    /\ baseline' = [baseline EXCEPT ![t].pc = "answer",
                                    ![t].latest = IF Visible = {} THEN @ ELSE LatestCursor]
    /\ UNCHANGED <<rowVars, stored, got, connVars, debtVars, boundVars, clearing, notifyVars>>

\* Mutant: every baseline is taken for the first.
ListAnswerRebase(t) ==
    /\ baseline[t].pc = "answer"
    /\ stored' = [stored EXCEPT ![t].initialized = TRUE, ![t].cursor = baseline[t].latest]
    /\ baseline' = [baseline EXCEPT ![t] = Following]
    /\ OpenStream(t, stored'[t].cursor)
    /\ UNCHANGED <<rowVars, got, stream, wire, debtVars, boundVars, clearing, notifyVars>>
(* A first baseline only sets the cursor: history is not replayed.           *)
ListAnswer(t) ==
    LET answer == baseline[t] IN
    /\ answer.pc = "answer"
    /\ IF ~ stored[t].initialized
       THEN /\ stored' = [stored EXCEPT ![t].initialized = TRUE, ![t].cursor = answer.latest]
            /\ UNCHANGED got
       ELSE Accept(t, answer.page, answer.latest)
    /\ baseline' = [baseline EXCEPT ![t] = Following]
    /\ OpenStream(t, stored'[t].cursor)
    /\ UNCHANGED <<rowVars, stream, wire, debtVars, boundVars, clearing, notifyVars>>

(* The request fails and is made again after a pause.                        *)
ListFails(t) ==
    /\ failures < MaxFailures
    /\ baseline[t].pc \in {"ask", "latest"}
    /\ failures' = failures + 1
    /\ baseline' = [baseline EXCEPT ![t] = Asking]
    /\ UNCHANGED <<rowVars, stored, got, connVars, debtVars, breaks, clears, clearing, notifyVars>>

(* Its last event id is the browser's, and survives a lost connection.       *)
Receive(t) ==
    /\ wire[t] # <<>>
    /\ Accept(t, <<Head(wire[t])>>, NoCursor)
    /\ source' = [source EXCEPT ![t].lastEventID = encodeNotificationCursor(Head(wire[t]))]
    /\ wire' = [wire EXCEPT ![t] = Tail(@)]
    /\ UNCHANGED <<rowVars, baseline, stream, debtVars, boundVars, clearing, notifyVars>>

(* The page is loaded again and begins with what local storage holds.        *)
PageReload(t) ==
    /\ breaks < MaxBreaks
    /\ breaks' = breaks + 1
    /\ baseline' = [baseline EXCEPT ![t] = Asking]
    /\ source' = [source EXCEPT ![t] = NoSource]
    /\ HangUp(t)
    /\ clearing' = clearing \ {t}
    /\ UNCHANGED <<rowVars, stored, got, debtVars, failures, clears>>

(* Store.ClearHistory, for the tab that asks (no work is active or queued:   *)
(* module Delivery); then the tab forgets its cursor and its facts, drops    *)
(* whatever answer is under way, and takes a new baseline.                   *)
ClearHistory(t) ==
    /\ clears < MaxClears /\ t \notin clearing
    /\ clears' = clears + 1
    /\ fact' = [f \in Facts |-> IF f \in Visible THEN [fact[f] EXCEPT !.state = "gone"] ELSE fact[f]]
    /\ signals' = signals \cup Visible
    /\ clearing' = clearing \cup {t}
    /\ UNCHANGED <<clock, late, tabVars, connVars, debtVars, breaks, failures, notifyVars>>

\* Mutant: an answer to a request from before the clearing is still taken.
ClearTabKeepAnswer(t) ==
    /\ t \in clearing
    /\ clearing' = clearing \ {t}
    /\ stored' = [stored EXCEPT ![t] = [@ EXCEPT !.cursor = NoCursor, !.items = <<>>]]
    /\ baseline' = [baseline EXCEPT ![t] = IF @.pc = "follow" THEN Asking ELSE @]
    /\ source' = [source EXCEPT ![t] = NoSource]
    /\ HangUp(t)
    /\ owed' = [owed EXCEPT ![t] = {}]
    /\ cleared' = [cleared EXCEPT ![t] = {f \in Facts : fact[f].state = "gone"}]
    /\ UNCHANGED <<rowVars, got, blind, boundVars>>
ClearTab(t) ==
    /\ t \in clearing
    /\ clearing' = clearing \ {t}
    /\ stored' = [stored EXCEPT ![t] = [@ EXCEPT !.cursor = NoCursor, !.items = <<>>]]
    /\ baseline' = [baseline EXCEPT ![t] = Asking]
    /\ source' = [source EXCEPT ![t] = NoSource]
    /\ HangUp(t)
    /\ owed' = [owed EXCEPT ![t] = {}]
    /\ cleared' = [cleared EXCEPT ![t] = {f \in Facts : fact[f].state = "gone"}]
    /\ UNCHANGED <<rowVars, got, blind, boundVars>>

-----------------------------------------------------------------------------
(* The handler: notificationsStream (internal/adminapi/handler.go).          *)

StreamCursor(t) ==
    IF source[t].lastEventID # NoCursor THEN source[t].lastEventID ELSE source[t].after

StreamOpen(t) ==
    /\ source[t].state \in {"connecting", "reconnecting"} /\ wire[t] = <<>>
    /\ source' = [source EXCEPT ![t].state = "open"]
    /\ stream' = [stream EXCEPT ![t] = [NoStream EXCEPT !.pc = "load", !.cursor = StreamCursor(t)]]
    /\ UNCHANGED <<rowVars, tabVars, wire, debtVars, boundVars, clearing, notifyVars>>

StreamLoad(t) ==
    /\ stream[t].pc = "load"
    /\ LET page == ListNotifications(stream[t].cursor, StreamLimit)
       IN stream' = [stream EXCEPT
              ![t].pc = IF stream[t].first THEN "subscribe" ELSE "send",
              ![t].page = page,
              ![t].latest = IF stream[t].cursor = NoCursor THEN LatestCursor ELSE PageCursor(page)]
    /\ UNCHANGED <<rowVars, tabVars, source, wire, debtVars, boundVars, clearing, notifyVars>>

StreamSubscribe(t) ==
    /\ stream[t].pc = "subscribe"
    /\ stream' = [stream EXCEPT ![t].pc = "send"]
    /\ SubscribeNotifications(t)
    /\ UNCHANGED <<rowVars, tabVars, source, wire, debtVars, boundVars, clearing>>

(* A fresh stream begins at the tail; any other sends the page it read.      *)
StreamSend(t) ==
    LET s == stream[t]
        fresh == s.first /\ s.cursor = NoCursor
    IN
    /\ s.pc = "send"
    /\ wire' = [wire EXCEPT ![t] = IF fresh THEN @ ELSE @ \o s.page]
    /\ stream' = [stream EXCEPT ![t] =
           [NoStream EXCEPT !.pc = "wait", !.first = FALSE,
                !.cursor = IF fresh THEN s.latest
                           ELSE IF s.page = <<>> THEN s.cursor ELSE PageCursor(s.page)]]
    /\ UNCHANGED <<rowVars, tabVars, source, debtVars, boundVars, clearing, notifyVars>>

StreamWake(t) ==
    /\ stream[t].pc = "wait"
    /\ TakeSignal(t)
    /\ stream' = [stream EXCEPT ![t].pc = "load"]
    /\ UNCHANGED <<rowVars, tabVars, source, wire, debtVars, boundVars, clearing>>

\* Mutant: the heartbeat only keeps the connection open.
StreamPing(t) == stream[t].pc = "wait" /\ UNCHANGED vars
StreamHeartbeat(t) ==
    /\ stream[t].pc = "wait"
    /\ stream' = [stream EXCEPT ![t].pc = "load"]
    /\ UNCHANGED <<rowVars, tabVars, source, wire, debtVars, boundVars, clearing, notifyVars>>

(* A read that fails: before the headers are out the answer is a 503, which  *)
(* an EventSource does not retry; later the response ends and it reconnects. *)
StreamFails(t) ==
    /\ failures < MaxFailures
    /\ stream[t].pc = "load"
    /\ failures' = failures + 1
    /\ source' = [source EXCEPT ![t].state = IF stream[t].first THEN "dead" ELSE "reconnecting"]
    /\ stream' = [stream EXCEPT ![t] = NoStream]
    /\ Unsubscribe(t)
    /\ UNCHANGED <<rowVars, tabVars, wire, debtVars, breaks, clears, clearing>>

(* The connection is lost, with what is on its way; the browser reconnects.  *)
ConnectionLost(t) ==
    /\ breaks < MaxBreaks
    /\ source[t].state = "open"
    /\ breaks' = breaks + 1
    /\ source' = [source EXCEPT ![t].state = "reconnecting"]
    /\ HangUp(t)
    /\ UNCHANGED <<rowVars, tabVars, debtVars, failures, clears, clearing>>

-----------------------------------------------------------------------------
Init ==
    /\ clock = 1
    /\ fact = [f \in Facts |-> [state |-> "none", at |-> 0]]
    /\ signals = {} /\ late = {} /\ clearing = {}
    /\ stored = [t \in Tabs |-> DefaultState]
    /\ baseline = [t \in Tabs |-> Asking]
    /\ source = [t \in Tabs |-> NoSource]
    /\ stream = [t \in Tabs |-> NoStream]
    /\ wire = [t \in Tabs |-> <<>>]
    /\ owed = [t \in Tabs |-> {}]
    /\ blind = [t \in Tabs |-> {}]
    /\ got = [t \in Tabs |-> {}]
    /\ cleared = [t \in Tabs |-> {}]
    /\ breaks = 0 /\ failures = 0 /\ clears = 0
    /\ NotifyInit

Next ==
    \/ \E f \in Facts : TakeTime(f) \/ Commit(f) \/ Announce(f) \/ Withdraw(f)
    \/ \E t \in Tabs :
        \/ ListPage(t) \/ ListLatest(t) \/ ListAnswer(t) \/ ListFails(t)
        \/ Receive(t) \/ PageReload(t) \/ ClearHistory(t) \/ ClearTab(t)
        \/ StreamOpen(t) \/ StreamLoad(t) \/ StreamSubscribe(t) \/ StreamSend(t)
        \/ StreamWake(t) \/ StreamHeartbeat(t) \/ StreamFails(t) \/ ConnectionLost(t)

Spec == Init /\ [][Next]_vars

(* The browser keeps its requests going, the handler its loop, and the       *)
(* heartbeat its ticker; a commit is announced.                              *)
Fairness ==
    /\ \A f \in Facts : WF_vars(Announce(f))
    /\ \A t \in Tabs :
        /\ WF_vars(ListPage(t) \/ ListLatest(t) \/ ListAnswer(t))
        /\ WF_vars(Receive(t)) /\ WF_vars(ClearTab(t)) /\ WF_vars(StreamOpen(t))
        /\ WF_vars(StreamLoad(t) \/ StreamSubscribe(t) \/ StreamSend(t))
        /\ WF_vars(StreamHeartbeat(t))

FairSpec == Spec /\ Fairness

-----------------------------------------------------------------------------
Cursor == [at : 0..MaxTime, id : Facts \cup {0}]

(* Rows, cursors, requests, streams and the tab's state have their types.    *)
TypeOK ==
    /\ clock \in 1..MaxTime
    /\ fact \in [Facts -> [state : {"none", "open", "visible", "gone"}, at : 0..MaxTime]]
    /\ signals \subseteq Facts /\ late \subseteq Facts
    /\ clearing \subseteq Tabs /\ notifySubs \subseteq Tabs /\ wake \subseteq notifySubs
    /\ {breaks, failures, clears} \subseteq Nat
    /\ \A t \in Tabs :
        /\ stored[t].initialized \in BOOLEAN /\ stored[t].cursor \in Cursor
        /\ stored[t].items \in Seq(Facts)
        /\ baseline[t].pc \in {"ask", "latest", "answer", "follow"}
        /\ baseline[t].page \in Seq(Facts) /\ baseline[t].latest \in Cursor
        /\ source[t].state \in {"none", "connecting", "open", "reconnecting", "dead"}
        /\ {source[t].after, source[t].lastEventID} \subseteq Cursor
        /\ stream[t].pc \in {"none", "load", "subscribe", "send", "wait"}
        /\ {stream[t].cursor, stream[t].latest} \subseteq Cursor
        /\ stream[t].page \in Seq(Facts) /\ wire[t] \in Seq(Facts)
        /\ owed[t] \cup blind[t] \cup got[t] \cup cleared[t] \subseteq Facts

(* A tab lists facts in the order of their times and ids and none twice,     *)
(* whatever connections broke and pages were loaded again: a reconnection    *)
(* resumes exactly behind the last fact received. A fact withdrawn between   *)
(* the two queries of a listing may be listed with a cursor before its own;  *)
(* facts that are still there are in order.                                  *)
ListedInOrder ==
    \A t \in Tabs : LET items == stored[t].items IN
        \A i, j \in 1..Len(items) :
            i < j => /\ items[i] # items[j]
                     /\ items[i] \in Visible =>
                            Behind(encodeNotificationCursor(items[j]), encodeNotificationCursor(items[i]))

(* A tab's cursor passes a fact that was committed after its baseline, and   *)
(* is still there, only with telling the tab of it. The exceptions are the   *)
(* two the code leaves open: a fact committed after one that sorts behind    *)
(* it, and one committed while the tab's cursor was empty.                   *)
Skipped(t) ==
    {f \in owed[t] \ got[t] : f \in Visible /\ ~ Behind(encodeNotificationCursor(f), stored[t].cursor)}
NoOtherFactIsSkipped == \A t \in Tabs : Skipped(t) \subseteq late \cup blind[t]

(* What was gone when a tab cleared its history does not come back, not even *)
(* with an answer that was on its way.                                       *)
ClearedIsForgotten == \A t \in Tabs : Range(stored[t].items) \cap cleared[t] = {}

(* A fact committed after the baseline, and not out of order, reaches the    *)
(* tab, also when its wake-up came before the stream had subscribed, unless  *)
(* the browser gives the stream up because its (re)connection meets a store  *)
(* that fails.                                                               *)
FactReachesTab ==
    \A t \in Tabs, f \in Facts :
        (f \in owed[t] \ (late \cup blind[t]) /\ f \in Visible)
            ~> (f \in got[t] \/ f \notin Visible \/ f \notin owed[t] \/ source[t].state = "dead")

(* handler.go: "the server pushes newer facts as they are committed and      *)
(* re-checks on every heartbeat so a missed wake-up only delays delivery".   *)
CommittedFactIsNotLost == \A t \in Tabs : Skipped(t) \subseteq blind[t]

=============================================================================
