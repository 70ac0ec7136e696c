---------------------------- MODULE ChangesProofs ----------------------------
(***************************************************************************)
(* Proofs about the invalidation stream and its view, for any number of     *)
(* commits, lost connections, failed requests and hidden pages.             *)
(***************************************************************************)
EXTENDS Changes, TLAPS

(* Answers are read after what is shown: the latest request was made after   *)
(* the one whose answer is shown had been answered.                          *)
ReadAfterShown ==
    /\ data # NULL => data <= commits
    /\ request \in Nat => request <= commits /\ (data # NULL => data <= request)

IInv == TypeOK /\ VisibleViewIsAwake /\ ReadAfterShown

LEMMA InitIInv == Init => IInv
  BY ChangesAssumption
     DEF Init, NotifyInit, IInv, TypeOK, VisibleViewIsAwake, ReadAfterShown

(* The steps of the store and the stream leave the view alone, but for the   *)
(* short timer a change starts.                                              *)
LEMMA StreamSteps ==
  ASSUME IInv,
         Commit \/ Announce \/ StreamOpen \/ StreamGreet \/ StreamWake \/ ConnectionLost
           \/ ReceiveChange
  PROVE  IInv'
<1> USE ChangesAssumption
        DEF IInv, TypeOK, VisibleViewIsAwake, ReadAfterShown, viewVars, boundVars, notifyVars
<1>1. CASE Commit
  BY <1>1 DEF Commit
<1>2. CASE Announce
  BY <1>2 DEF Announce, notifyChanged
<1>3. CASE StreamOpen
  BY <1>3 DEF StreamOpen, SubscribeNotifications
<1>4. CASE StreamGreet
  BY <1>4 DEF StreamGreet
<1>5. CASE StreamWake
  BY <1>5 DEF StreamWake, TakeSignal
<1>6. CASE ConnectionLost
  BY <1>6 DEF ConnectionLost, Unsubscribe
<1>7. CASE ReceiveChange
  BY <1>7 DEF ReceiveChange
<1>8. QED
  BY <1>1, <1>2, <1>3, <1>4, <1>5, <1>6, <1>7

(* Every step of the view that ends its request arms a timer or makes the    *)
(* next request, if the page is visible.                                     *)
LEMMA ViewSteps ==
  ASSUME IInv,
         \/ TimerFires \/ StrayFires \/ Refresh \/ ServerReads \/ Answer \/ AnswerFails
         \/ Hide \/ Show
         \/ \E r \in outdated : OutdatedAnswer(r)
  PROVE  IInv'
<1> USE ChangesAssumption
        DEF IInv, TypeOK, VisibleViewIsAwake, ReadAfterShown, streamVars, boundVars, notifyVars
<1>1. CASE TimerFires
  BY <1>1 DEF TimerFires, Run, Outdate
<1>2. CASE StrayFires
  BY <1>2 DEF StrayFires, Run, Outdate
<1>3. CASE Refresh
  BY <1>3 DEF Refresh, Run, Outdate
<1>4. CASE ServerReads
  <2>1. CASE request = Unread /\ request' = commits /\ UNCHANGED outdated
    BY <1>4, <2>1 DEF ServerReads
  <2>2. CASE outdated' = (outdated \ {Unread}) \cup {commits} /\ UNCHANGED request
    BY <1>4, <2>2 DEF ServerReads
  <2>3. QED
    BY <1>4, <2>1, <2>2 DEF ServerReads
<1>5. CASE Answer
  BY <1>5 DEF Answer, WaitForPoll
<1>6. CASE AnswerFails
  <2>1. strays' \in Nat /\ timer' \in {"none", "short", "long"} /\ (visible => timer' # "none")
    BY <1>6 DEF AnswerFails, WaitForPoll
  <2>2. QED
    BY <1>6, <2>1 DEF AnswerFails, WaitForPoll
<1>7. CASE Hide
  <2>1. outdated' \subseteq Nat \cup {Unread}
    BY <1>7 DEF Hide, Outdate
  <2>2. visible' = FALSE /\ timer' = "none" /\ request' = NULL /\ hides' \in Nat
    BY <1>7 DEF Hide
  <2>3. UNCHANGED <<streamVars, strays, data, failures, refreshes, notifyVars>>
    BY <1>7 DEF Hide
  <2>4. QED
    BY <2>1, <2>2, <2>3
<1>8. CASE Show
  BY <1>8 DEF Show, Run, Outdate
<1>9. CASE \E r \in outdated : OutdatedAnswer(r)
  BY <1>9 DEF OutdatedAnswer
<1>10. QED
  BY <1>1, <1>2, <1>3, <1>4, <1>5, <1>6, <1>7, <1>8, <1>9

LEMMA NextIInv == IInv /\ [Next]_vars => IInv'
<1> SUFFICES ASSUME IInv, [Next]_vars PROVE IInv'
  OBVIOUS
<1>1. CASE UNCHANGED vars
  BY <1>1 DEF IInv, TypeOK, VisibleViewIsAwake, ReadAfterShown, vars, streamVars, viewVars,
              boundVars, notifyVars
<1>2. CASE Next
  BY <1>2, StreamSteps, ViewSteps DEF Next
<1>3. QED
  BY <1>1, <1>2

LEMMA Invariance == Spec => []IInv
  BY InitIInv, NextIInv, PTL DEF Spec

(* The types hold in every state; a stream is subscribed exactly while it is *)
(* open, so no channel is left behind in the store.                          *)
THEOREM TypesHold == Spec => []TypeOK
<1>1. IInv => TypeOK
  BY DEF IInv
<1>2. QED
  BY <1>1, Invariance, PTL

(* A view on a visible page always has a request or a timer.                 *)
THEOREM ViewStaysAwake == Spec => []VisibleViewIsAwake
<1>1. IInv => VisibleViewIsAwake
  BY DEF IInv
<1>2. QED
  BY <1>1, Invariance, PTL

(* What is shown is never replaced by an older reading: only the answer to   *)
(* the latest request is shown, and it was read after the one before it.     *)
THEOREM NeverGoesBack == Spec => ShownNeverGoesBack
<1>1. IInv /\ [Next]_vars => [data # NULL => data' # NULL /\ data' >= data]_data
  <2> SUFFICES ASSUME IInv, [Next]_vars, data' # data, data # NULL
               PROVE  data' # NULL /\ data' >= data
    OBVIOUS
  <2>1. Answer
    BY DEF Next, vars, streamVars, viewVars, boundVars, notifyVars, Commit, Announce, StreamOpen,
           StreamGreet, StreamWake, ConnectionLost, ReceiveChange, TimerFires, StrayFires,
           Refresh, ServerReads, AnswerFails, Hide, Show, OutdatedAnswer
  <2>2. QED
    BY <2>1, ChangesAssumption DEF Answer, IInv, TypeOK, ReadAfterShown
<1>2. QED
  BY <1>1, Invariance, PTL DEF Spec, ShownNeverGoesBack
=============================================================================
