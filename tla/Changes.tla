------------------------------- MODULE Changes -------------------------------
(***************************************************************************)
(* How a page of the management UI keeps up with the database: the          *)
(* invalidation stream (changesStream, internal/adminapi/statistics.go) that *)
(* says "something changed", and the view (useActivePolling) that then asks *)
(* again, polls in between, and sleeps while its page is hidden.            *)
(*                                                                         *)
(* The database is the number of its commits; what a view shows is the      *)
(* number its answer was read at.                                           *)
(***************************************************************************)
EXTENDS Naturals, Notify

CONSTANTS
    NULL,
    Unread,       \* a request the server has not read for yet
    MaxCommits,   \* bound: commits
    MaxBreaks,    \* bound: lost connections
    MaxFailures,  \* bound: failed requests
    MaxHides,     \* bound: times the page is hidden
    MaxRefreshes  \* bound: requests of the user's own

ASSUME ChangesAssumption ==
    /\ {MaxCommits, MaxBreaks, MaxFailures, MaxHides, MaxRefreshes} \subseteq Nat
    /\ {NULL, Unread} \cap Nat = {} /\ NULL # Unread

VARIABLES
    commits,
    signals,    \* commits whose notifyChanged is still to come
    stream,     \* changesStream: "off", "greet" or "wait"
    wire,       \* change events sent and not received
    heard,      \* commits when the last change was received (observation only)
    visible,    \* document.visibilityState
    timer,      \* the timer the view knows of: "none", "short" (150 ms) or "long"
    strays,     \* armed timers it has lost track of
    request,    \* the latest request: NULL, or what it read, once it has
    outdated,   \* requests before it that have not been answered, by what they read
    data,       \* what is shown
    breaks, failures, hides, refreshes

streamVars == <<commits, signals, stream, wire, heard, breaks>>
viewVars == <<visible, timer, strays, request, outdated, data>>
boundVars == <<failures, hides, refreshes>>
vars == <<streamVars, viewVars, boundVars, notifyVars>>

-----------------------------------------------------------------------------
(* The store and the handler.                                                *)

\* Mutant: a commit that does not wake the streams.
CommitSilently ==
    /\ commits < MaxCommits
    /\ commits' = commits + 1
    /\ UNCHANGED <<signals, stream, wire, heard, breaks, viewVars, boundVars, notifyVars>>
Commit ==
    /\ commits < MaxCommits
    /\ commits' = commits + 1
    /\ signals' = signals + 1
    /\ UNCHANGED <<stream, wire, heard, breaks, viewVars, boundVars, notifyVars>>

Announce ==
    /\ signals > 0
    /\ signals' = signals - 1
    /\ notifyChanged
    /\ UNCHANGED <<commits, stream, wire, heard, breaks, viewVars, boundVars>>

(* The handler subscribes before it sends the first change.                  *)
StreamOpen ==
    /\ stream = "off"
    /\ stream' = "greet"
    /\ SubscribeNotifications("view")
    /\ UNCHANGED <<commits, signals, wire, heard, breaks, viewVars, boundVars>>

StreamGreet ==
    /\ stream = "greet"
    /\ stream' = "wait"
    /\ wire' = wire + 1
    /\ UNCHANGED <<commits, signals, heard, breaks, viewVars, boundVars, notifyVars>>

StreamWake ==
    /\ stream = "wait"
    /\ TakeSignal("view")
    /\ wire' = wire + 1
    /\ UNCHANGED <<commits, signals, stream, heard, breaks, viewVars, boundVars>>

(* The EventSource reconnects; what was on its way is gone.                  *)
ConnectionLost ==
    /\ breaks < MaxBreaks /\ stream # "off"
    /\ breaks' = breaks + 1
    /\ stream' = "off"
    /\ wire' = 0
    /\ Unsubscribe("view")
    /\ UNCHANGED <<commits, signals, heard, viewVars, boundVars>>

-----------------------------------------------------------------------------
(* The view (web/src/hooks/useActivePolling.ts).                             *)

(* requestVersion: the request under way, if any, is not the latest now.     *)
Outdate == outdated' = IF request = NULL THEN outdated ELSE outdated \cup {request}

(* run: a new request, and no timer. A stray timer stays armed.              *)
Run == timer' = "none" /\ request' = Unread /\ Outdate

(* A change starts a short timer, which collects the changes after it.       *)
ReceiveChange ==
    /\ wire > 0
    /\ wire' = wire - 1
    /\ heard' = commits
    /\ timer' = IF visible THEN "short" ELSE timer
    /\ UNCHANGED <<commits, signals, stream, breaks, visible, strays, request, outdated, data,
                   boundVars, notifyVars>>

TimerFires ==
    /\ timer # "none"
    /\ Run
    /\ UNCHANGED <<streamVars, visible, strays, data, boundVars, notifyVars>>

StrayFires ==
    /\ strays > 0
    /\ strays' = strays - 1
    /\ Run
    /\ UNCHANGED <<streamVars, visible, data, boundVars, notifyVars>>

Refresh ==
    /\ refreshes < MaxRefreshes
    /\ refreshes' = refreshes + 1
    /\ Run
    /\ UNCHANGED <<streamVars, visible, strays, data, failures, hides, notifyVars>>

(* The server reads for the latest request, or for one before it.            *)
ServerReads ==
    /\ \/ request = Unread /\ request' = commits /\ UNCHANGED outdated
       \/ /\ Unread \in outdated
          /\ outdated' = (outdated \ {Unread}) \cup {commits}
          /\ UNCHANGED request
    /\ UNCHANGED <<streamVars, visible, timer, strays, data, boundVars, notifyVars>>

(* After an answer a visible view waits for its next poll; a short timer     *)
(* that a change has started meanwhile is overwritten, and still fires.      *)
WaitForPoll ==
    /\ request' = NULL
    /\ timer' = IF visible THEN "long" ELSE timer
    /\ strays' = IF visible /\ timer # "none" THEN strays + 1 ELSE strays

Answer ==
    /\ request \notin {NULL, Unread}
    /\ data' = request
    /\ WaitForPoll
    /\ UNCHANGED <<streamVars, visible, outdated, boundVars, notifyVars>>

\* Mutant: a failure leaves the view without a timer.
AnswerFailsForGood ==
    /\ request # NULL /\ failures < MaxFailures
    /\ failures' = failures + 1
    /\ request' = NULL
    /\ UNCHANGED <<streamVars, timer, strays, visible, outdated, data, hides, refreshes, notifyVars>>
AnswerFails ==
    /\ request # NULL /\ failures < MaxFailures
    /\ failures' = failures + 1
    /\ WaitForPoll
    /\ UNCHANGED <<streamVars, visible, outdated, data, hides, refreshes, notifyVars>>

\* Mutant: any answer is shown.
OutdatedAnswerShown(r) ==
    /\ r \in outdated \ {Unread}
    /\ outdated' = outdated \ {r}
    /\ data' = r
    /\ UNCHANGED <<streamVars, visible, timer, strays, request, boundVars, notifyVars>>
OutdatedAnswer(r) ==
    /\ r \in outdated \ {Unread}
    /\ outdated' = outdated \ {r}
    /\ UNCHANGED <<streamVars, visible, timer, strays, request, data, boundVars, notifyVars>>

(* onVisibility *)
Hide ==
    /\ visible /\ hides < MaxHides
    /\ hides' = hides + 1
    /\ visible' = FALSE
    /\ timer' = "none"
    /\ request' = NULL
    /\ Outdate
    /\ UNCHANGED <<streamVars, strays, data, failures, refreshes, notifyVars>>

\* Mutant: a page that is shown again waits for the next change.
ShowIdle ==
    /\ ~ visible
    /\ visible' = TRUE
    /\ timer' = "none"
    /\ UNCHANGED <<streamVars, strays, request, outdated, data, boundVars, notifyVars>>
Show ==
    /\ ~ visible
    /\ visible' = TRUE
    /\ Run
    /\ UNCHANGED <<streamVars, strays, data, boundVars, notifyVars>>

-----------------------------------------------------------------------------
(* The page opens visible: the view runs at once and the stream connects.    *)
Init ==
    /\ commits = 0 /\ signals = 0 /\ stream = "off" /\ wire = 0 /\ heard = 0
    /\ visible = TRUE /\ timer = "none" /\ strays = 0
    /\ request = Unread /\ outdated = {} /\ data = NULL
    /\ breaks = 0 /\ failures = 0 /\ hides = 0 /\ refreshes = 0
    /\ NotifyInit

Next ==
    \/ Commit \/ Announce \/ StreamOpen \/ StreamGreet \/ StreamWake \/ ConnectionLost
    \/ ReceiveChange \/ TimerFires \/ StrayFires \/ Refresh \/ ServerReads
    \/ Answer \/ AnswerFails \/ Hide \/ Show
    \/ \E r \in outdated : OutdatedAnswer(r)

Spec == Init /\ [][Next]_vars

Fairness ==
    /\ WF_vars(Announce)
    /\ WF_vars(StreamOpen) /\ WF_vars(StreamGreet) /\ WF_vars(StreamWake)
    /\ WF_vars(ReceiveChange) /\ WF_vars(TimerFires) /\ WF_vars(StrayFires)
    /\ WF_vars(request = Unread /\ ServerReads) /\ WF_vars(Answer)

FairSpec == Spec /\ Fairness

-----------------------------------------------------------------------------
(* Stream, timers, requests and data have their types.                       *)
TypeOK ==
    /\ {commits, signals, wire, heard, strays, breaks, failures, hides, refreshes} \subseteq Nat
    /\ stream \in {"off", "greet", "wait"}
    /\ visible \in BOOLEAN
    /\ timer \in {"none", "short", "long"}
    /\ request \in Nat \cup {NULL, Unread}
    /\ outdated \subseteq Nat \cup {Unread}
    /\ data \in Nat \cup {NULL}
    /\ notifySubs = (IF stream = "off" THEN {} ELSE {"view"}) /\ wake \subseteq notifySubs

(* A view on a visible page always has a request under way or a timer that   *)
(* will make one: it never goes to sleep for good, whatever failed, and      *)
(* whenever it was hidden, shown and told of a change.                       *)
VisibleViewIsAwake == visible => request # NULL \/ timer # "none"

(* What is shown is never replaced by what was read before it, although      *)
(* requests overlap and their answers come in any order.                     *)
ShownNeverGoesBack == [][data # NULL => data' # NULL /\ data' >= data]_data

(* statistics.go: "Every connection begins with a refresh so reconnects      *)
(* cannot miss updates". Whoever holds a stream hears of a change after      *)
(* every commit, whichever connections were lost and signals dropped.        *)
ChangeIsHeard == \A n \in 1..MaxCommits : commits = n ~> heard >= n

(* A visible page comes to show every commit.                                *)
ViewCatchesUp ==
    \A n \in 1..MaxCommits :
        (commits = n /\ visible) ~> (~ visible \/ (data # NULL /\ data >= n))
=============================================================================
