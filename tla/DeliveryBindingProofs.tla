------------------------ MODULE DeliveryBindingProofs ------------------------
(***************************************************************************)
(* Proofs about an attempt and the deployment it caused, for every value of  *)
(* the constants of Delivery: what Dokploy took, which deployment an attempt *)
(* is bound to, what no later step may do to it, and that a delivery lives   *)
(* as Lifecycle promises. They rest on IndInv, which DeliveryProofs shows to *)
(* hold always.                                                              *)
(***************************************************************************)
EXTENDS DeliveryProofs, FiniteSetTheorems

-----------------------------------------------------------------------------
(* How a step may change the row of a current attempt, from o to n, by who   *)
(* changes it.                                                               *)

ClaimChange(o, n) ==
    /\ phase = "up" /\ o.transport = "pending" /\ n.transport = "sending"
    /\ n.deployment = o.deployment
    /\ n.depId = o.depId /\ n.cursor = o.cursor /\ n.polled = o.polled

SendChange(a, o, n) ==
    /\ phase = "up" /\ o.transport = "sending" /\ n.transport = "sending"
    /\ n.deployment = o.deployment
    /\ \/ n.cursor = o.cursor
       \/ disp.pc = "cursor" /\ disp.att = a /\ n.cursor = disp.cursor
    /\ n.depId = o.depId /\ n.polled = o.polled

OutcomeChange(a, o, n) ==
    /\ phase = "up" /\ disp.pc = "outcome" /\ disp.att = a /\ o.transport = "sending"
    /\ n.transport \in {"enqueued", "failed", "unknown"} /\ n.deployment \in UnboundStatus
    /\ n.transport = "failed" => disp.result = "definitive" /\ n.deployment = "not_started"
    /\ n.depId = o.depId /\ n.cursor = o.cursor /\ n.polled = o.polled

TimerChange(o, n) ==
    /\ phase = "binding" \/ ListDuePolls
    /\ o.deployment \in Monitored
    /\ n.transport = o.transport /\ n.deployment = o.deployment
    /\ n.depId = o.depId /\ n.cursor = o.cursor

PollChange(a, o, n) ==
    /\ CompletePoll /\ poll.item.att = a /\ PollClaimHeld(a)
    /\ n.transport = poll.update.transport /\ n.deployment = poll.update.deployment
    /\ n.depId = DeploymentID(o, poll.update) /\ n.cursor = o.cursor

StartupChange(o, n) ==
    /\ phase = "binding" /\ Active(o.transport, o.deployment)
    /\ \/ o.transport = "pending" /\ n.transport = "failed" /\ n.deployment = "not_started"
       \/ n.transport = "unknown" /\ n.deployment = "unknown"
       \/ o.transport = "sending" /\ n.transport = "unknown" /\ n.deployment = "locating"
    /\ n.depId = o.depId /\ n.cursor = o.cursor

Corrects(u, a) ==
    /\ ApplyManualUpdate(u) /\ exec[u].pc = "apply"
    /\ exec[u].seen.att = a /\ SeenStillCurrent(exec[u].seen)

CorrectChange(a, o, n) ==
    \E u \in Operators :
        /\ Corrects(u, a) /\ exec[u].update.correct
        /\ n.transport = exec[u].update.transport /\ n.deployment = exec[u].update.deployment
        /\ n.depId = exec[u].update.depId /\ n.cursor = o.cursor /\ n.polled = NULL

RowChange(a, o, n) ==
    \/ ClaimChange(o, n)
    \/ SendChange(a, o, n)
    \/ OutcomeChange(a, o, n)
    \/ TimerChange(o, n)
    \/ PollChange(a, o, n)
    \/ StartupChange(o, n)
    \/ CorrectChange(a, o, n)

(* What a step does to the row of an attempt and to the number of the        *)
(* current attempt of its delivery.                                          *)
Gone(a) == delivery'[a[1]].cur = 0 /\ attempt'[a] = NewAttempt

RowStep(a) ==
    \/ attempt'[a] = attempt[a]
    \/ a[2] > delivery[a[1]].cur /\ attempt'[a] = NewAttempt
    \/ IsCurrent(a) /\ RowChange(a, attempt[a], attempt'[a])

Appends(u, d) ==
    /\ Corrects(u, Current(d)) /\ exec[u].update.create
    /\ delivery'[d].cur = delivery[d].cur + 1

CurStep(d) ==
    \/ delivery'[d].cur = delivery[d].cur
    \/ Ingest(d) /\ delivery[d].cur = 0 /\ delivery'[d].cur = 1
    \/ \E u \in Operators : Appends(u, d)

TableStep == \A a \in Attempts : Gone(a) \/ (RowStep(a) /\ CurStep(a[1]))

LEMMA AttemptFacts ==
    ASSUME NEW a \in Attempts
    PROVE  a[1] \in Deliveries /\ a[2] \in Nat \ {0} /\ a = <<a[1], a[2]>>
  BY DeliveryAssumption DEF Attempts

LEMMA CurrentFacts ==
    ASSUME NEW a \in Attempts, IsCurrent(a)
    PROVE  Exists(a[1]) /\ Current(a[1]) = a /\ Row(a[1]) = attempt[a]
  BY AttemptFacts DEF IsCurrent, Exists, Current, Row

LEMMA SameTables == ASSUME UNCHANGED storeVars PROVE TableStep
  BY AttemptFacts DEF TableStep, RowStep, CurStep, storeVars

LEMMA WrittenStep ==
    ASSUME NEW a \in Attempts, NEW row, RowWritten(a, row), RowChange(a, attempt[a], row)
    PROVE  TableStep
  <1>1. \A b \in Attempts : RowStep(b)
    BY DEF RowWritten, RowStep
  <1>2. \A d \in Deliveries : CurStep(d)
    BY AttemptFacts DEF RowWritten, CurStep
  <1> QED
    BY <1>1, <1>2, AttemptFacts DEF TableStep

LEMMA ClaimTables ==
    ASSUME TypeInv, NEW d \in Deliveries, ClaimPendingAttempt(d)
    PROVE  TableStep
  <1> DEFINE a == Current(d)
             row == [Row(d) EXCEPT !.transport = "sending"]
  <1>1. /\ phase = "up" /\ Exists(d) /\ Row(d).transport = "pending" /\ WriteCurrent(a, row)
    BY DEF ClaimPendingAttempt, Claimable
  <1>2. a \in Attempts /\ IsCurrent(a) /\ Row(d) \in AttemptRow /\ Row(d) = attempt[a]
    BY <1>1, CurrentType, RowType DEF TypeInv, TypeOK, IsCurrent, Row
  <1>3. row \in AttemptRow
    BY <1>2 DEF AttemptRow, TransportStatus
  <1>4. RowWritten(a, row)
    BY <1>1, <1>2, <1>3, WriteCurrentWritten
  <1>5. ClaimChange(attempt[a], row)
    BY <1>1, <1>2 DEF ClaimChange, AttemptRow
  <1> QED
    BY <1>2, <1>4, <1>5, WrittenStep DEF RowChange

LEMMA SendingTables ==
    ASSUME TypeInv, SafeInv, SetDeploymentCursor \/ RecordDeploymentRequest
    PROVE  TableStep
  <1> DEFINE a == disp.att
  <1>1. phase = "up" /\ disp.pc \in {"cursor", "record"} /\ a \in Attempts
    BY DEF SetDeploymentCursor, RecordDeploymentRequest, TypeInv, LocalOK
  <1>2. /\ StillSending(a) /\ delivery[a[1]].transport = "sending"
        /\ disp.pc = "cursor" => attempt[a].cursor = NULL
        /\ disp.pc = "record" => ~attempt[a].request
    BY <1>1 DEF SafeInv, DispatcherKeepsItsAttempt
  <1>3. \/ /\ disp.pc = "cursor"
           /\ attempt' = [attempt EXCEPT ![a].cursor = disp.cursor]
           /\ UNCHANGED delivery
        \/ /\ disp.pc = "record"
           /\ attempt' = [attempt EXCEPT ![a].request = TRUE]
           /\ UNCHANGED delivery
    BY <1>1, <1>2 DEF SetDeploymentCursor, RecordDeploymentRequest
  <1>4. /\ attempt \in [Attempts -> AttemptRow] /\ attempt[a] \in AttemptRow
        /\ disp.cursor \in Nat \cup {NULL}
    BY <1>1 DEF TypeInv, TypeOK, DispatcherState
  <1>5. IsCurrent(a) /\ attempt[a].transport = "sending"
    BY <1>2 DEF StillSending
  <1> HIDE DEF a
  <1>6. /\ \A b \in Attempts : b # a => attempt'[b] = attempt[b]
        /\ attempt'[a] \in {[attempt[a] EXCEPT !.cursor = disp.cursor],
                            [attempt[a] EXCEPT !.request = TRUE]}
        /\ attempt'[a] = [attempt[a] EXCEPT !.cursor = disp.cursor] \/ disp.pc = "record"
        /\ attempt'[a] = [attempt[a] EXCEPT !.request = TRUE] \/ disp.pc = "cursor"
        /\ UNCHANGED delivery
    BY <1>1, <1>3, <1>4
  <1>7. SendChange(a, attempt[a], attempt'[a])
    <2>1. CASE disp.pc = "cursor"
      <3>1. attempt'[a] = [attempt[a] EXCEPT !.cursor = disp.cursor]
        BY <1>6, <2>1
      <3> QED
        BY <1>1, <1>4, <1>5, <2>1, <3>1 DEF SendChange, AttemptRow, a
    <2>2. CASE disp.pc = "record"
      <3>1. attempt'[a] = [attempt[a] EXCEPT !.request = TRUE]
        BY <1>6, <2>2
      <3>2. /\ attempt'[a].transport = attempt[a].transport
            /\ attempt'[a].deployment = attempt[a].deployment
            /\ attempt'[a].depId = attempt[a].depId /\ attempt'[a].polled = attempt[a].polled
            /\ attempt'[a].cursor = attempt[a].cursor
        BY <1>4, <3>1 DEF AttemptRow
      <3> QED
        BY <1>1, <1>5, <3>2 DEF SendChange
    <2> QED
      BY <1>1, <2>1, <2>2
  <1>8. \A b \in Attempts : RowStep(b)
    BY <1>1, <1>5, <1>6, <1>7 DEF RowStep, RowChange
  <1> QED
    BY <1>6, <1>8, AttemptFacts DEF TableStep, CurStep

LEMMA OutcomeFields ==
    ASSUME NEW row \in AttemptRow, NEW kind \in {"dokploy", "http"},
           NEW result \in {"accepted", "definitive", "uncertain"}
    PROVE  LET o == Outcome(kind, result, row)
           IN /\ o.transport \in {"enqueued", "failed", "unknown"}
              /\ o.deployment \in UnboundStatus
              /\ o.transport = "failed" => result = "definitive" /\ o.deployment = "not_started"
              /\ o.depId = row.depId /\ o.cursor = row.cursor /\ o.polled = row.polled
  <1>1. CASE result = "definitive"
    BY <1>1 DEF Outcome, UnboundStatus, AttemptRow
  <1>2. CASE kind = "dokploy" /\ result \in {"accepted", "uncertain"}
    <2> DEFINE t == IF result = "accepted" THEN "enqueued" ELSE "unknown"
               o == Outcome(kind, result, row)
    <2>1. o = Scheduled([row EXCEPT !.transport = t, !.deployment = "locating"], now)
      BY <1>2 DEF Outcome
    <2>2. /\ o.transport = t /\ o.deployment = "locating"
          /\ o.depId = row.depId /\ o.cursor = row.cursor /\ o.polled = row.polled
      BY <2>1 DEF Scheduled, AttemptRow
    <2> HIDE DEF o
    <2> QED
      BY <1>2, <2>2 DEF o, UnboundStatus
  <1>3. CASE kind = "http" /\ result \in {"accepted", "uncertain"}
    BY <1>3 DEF Outcome, UnboundStatus, AttemptRow
  <1> QED
    BY <1>1, <1>2, <1>3

LEMMA TransitionTables ==
    ASSUME TypeInv, SafeInv, TransitionAttempt
    PROVE  TableStep
  <1> DEFINE a == disp.att
             row == Outcome(KindOf(a[1]), disp.result, attempt[a])
  <1>1. /\ phase = "up" /\ disp.pc = "outcome" /\ a \in Attempts /\ a[1] \in Deliveries
        /\ disp.result \in {"accepted", "definitive", "uncertain"}
    BY DEF TransitionAttempt, TypeInv, LocalOK, Attempts
  <1>2. StillSending(a) /\ delivery[a[1]].transport = "sending" /\ IsCurrent(a)
    BY <1>1 DEF SafeInv, DispatcherKeepsItsAttempt, StillSending
  <1>3. WriteCurrent(a, row)
    BY <1>2 DEF TransitionAttempt
  <1>4. attempt[a] \in AttemptRow /\ attempt[a].transport = "sending" /\ now \in Nat
    BY <1>1, <1>2 DEF TypeInv, TypeOK, StillSending
  <1>5. KindOf(a[1]) \in {"dokploy", "http"}
    BY <1>1, KindOfType
  <1> HIDE DEF a
  <1>6. row \in AttemptRow
    BY <1>1, <1>4, <1>5, OutcomeType
  <1>7. OutcomeChange(a, attempt[a], row)
    BY <1>1, <1>4, <1>5, OutcomeFields DEF OutcomeChange, a
  <1> HIDE DEF row
  <1>8. RowWritten(a, row)
    BY <1>1, <1>2, <1>3, <1>6, WriteCurrentWritten
  <1> QED
    BY <1>1, <1>7, <1>8, WrittenStep DEF RowChange

(* A poll that holds its claim writes the row it claimed.                     *)
LEMMA PollWrites ==
    ASSUME TypeInv, CompletePoll, PollClaimHeld(poll.item.att)
    PROVE  LET a == poll.item.att
           IN /\ a \in Attempts /\ IsCurrent(a)
              /\ PollChange(a, attempt[a], attempt'[a])
              /\ \A b \in Attempts : b # a => attempt'[b] = attempt[b]
              /\ \A d \in Deliveries : delivery'[d].cur = delivery[d].cur
  <1> DEFINE a == poll.item.att
             u == poll.update
             row == [attempt[a] EXCEPT !.transport = u.transport, !.deployment = u.deployment,
                          !.depId = DeploymentID(attempt[a], u), !.due = u.due]
  <1>1. a \in Attempts /\ a[1] \in Deliveries
    BY DEF CompletePoll, TypeInv, TypeOK, PollerState, PollWork, Attempts
  <1>2. /\ attempt' = [attempt EXCEPT ![a] = row]
        /\ delivery' = delivery \/ delivery' = [delivery EXCEPT ![a[1]].transport = u.transport,
                                                                ![a[1]].deployment = u.deployment]
    BY DEF CompletePoll
  <1>3. attempt[a] \in AttemptRow /\ IsCurrent(a)
    BY <1>1 DEF TypeInv, TypeOK, PollClaimHeld
  <1> HIDE DEF row
  <1>4. attempt'[a] = row /\ \A b \in Attempts : b # a => attempt'[b] = attempt[b]
    BY <1>1, <1>2 DEF TypeInv, TypeOK
  <1>5. \A d \in Deliveries : delivery'[d].cur = delivery[d].cur
    <2> HIDE DEF a, u
    <2>1. delivery \in [Deliveries -> DeliveryRow]
      BY DEF TypeInv, TypeOK
    <2>2. CASE delivery' = [delivery EXCEPT ![a[1]].transport = u.transport,
                                            ![a[1]].deployment = u.deployment]
      BY <1>1, <2>1, <2>2 DEF DeliveryRow
    <2> QED
      BY <1>2, <2>2
  <1>6. /\ row.transport = u.transport /\ row.deployment = u.deployment
        /\ row.depId = DeploymentID(attempt[a], u) /\ row.cursor = attempt[a].cursor
    <2> HIDE DEF a, u
    <2> QED
      BY <1>3 DEF row, AttemptRow
  <1>7. PollChange(a, attempt[a], row)
    BY <1>6 DEF PollChange
  <1> QED
    BY <1>1, <1>3, <1>4, <1>5, <1>7

LEMMA CompletePollTables ==
    ASSUME TypeInv, SafeInv, CompletePoll
    PROVE  TableStep
  <1> DEFINE a == poll.item.att
  <1>1. CASE ~PollClaimHeld(a)
    BY <1>1, SameTables DEF CompletePoll
  <1>2. CASE PollClaimHeld(a)
    <2>1. /\ a \in Attempts /\ IsCurrent(a) /\ PollChange(a, attempt[a], attempt'[a])
          /\ \A b \in Attempts : b # a => attempt'[b] = attempt[b]
          /\ \A d \in Deliveries : delivery'[d].cur = delivery[d].cur
      BY <1>2, PollWrites
    <2> HIDE DEF a
    <2>2. \A b \in Attempts : RowStep(b)
      BY <2>1 DEF RowStep, RowChange
    <2> QED
      BY <2>1, <2>2, AttemptFacts DEF TableStep, CurStep
  <1> QED
    BY <1>1, <1>2

LEMMA ListDueTables ==
    ASSUME TypeInv, SafeInv, ListDuePolls
    PROVE  TableStep
  <1>1. UNCHANGED delivery
    BY DEF ListDuePolls
  <1>2. ASSUME NEW a \in Attempts PROVE RowStep(a)
    <2>1. attempt'[a] = IF IsCurrent(a) /\ a[1] \in PollBatch
                        THEN [attempt[a] EXCEPT !.polled = now] ELSE attempt[a]
      BY DEF ListDuePolls
    <2>2. attempt[a] \in AttemptRow
      BY DEF TypeInv, TypeOK
    <2>3. CASE IsCurrent(a) /\ a[1] \in PollBatch
      <3>1. attempt[a].deployment \in Monitored
        BY <2>3, CurrentFacts DEF PollBatch, DuePoll
      <3>2. TimerChange(attempt[a], attempt'[a])
        BY <2>1, <2>2, <2>3, <3>1 DEF TimerChange, AttemptRow
      <3> QED
        BY <2>3, <3>2 DEF RowStep, RowChange
    <2> QED
      BY <2>1, <2>3 DEF RowStep
  <1> QED
    BY <1>1, <1>2, AttemptFacts DEF TableStep, CurStep

LEMMA TerminateTables ==
    ASSUME TypeInv, SafeInv, NEW d \in Deliveries, TerminateIncompatibleActive(d)
    PROVE  TableStep
  <1> DEFINE a == Current(d)
             row == Terminated(Row(d))
  <1>1. phase = "binding" /\ Exists(d) /\ WriteCurrent(a, row)
        /\ Active(Row(d).transport, Row(d).deployment)
    BY DEF TerminateIncompatibleActive, ActiveDelivery
  <1>2. a \in Attempts /\ IsCurrent(a) /\ Row(d) \in AttemptRow /\ Row(d) = attempt[a]
    BY <1>1, CurrentType, RowType DEF TypeInv, TypeOK, IsCurrent, Row
  <1>3. row \in AttemptRow
    BY <1>2, TerminatedType
  <1>4. RowWritten(a, row)
    BY <1>1, <1>2, <1>3, WriteCurrentWritten
  <1>5. /\ row.depId = Row(d).depId /\ row.cursor = Row(d).cursor
        /\ \/ Row(d).transport = "pending" /\ row.transport = "failed" /\ row.deployment = "not_started"
           \/ row.transport = "unknown" /\ row.deployment = "unknown"
    BY <1>2 DEF Terminated, AttemptRow
  <1>6. StartupChange(attempt[a], row)
    BY <1>1, <1>2, <1>5 DEF StartupChange
  <1> QED
    BY <1>2, <1>4, <1>6, WrittenStep DEF RowChange

LEMMA RecoverTables ==
    ASSUME TypeInv, SafeInv, RecoverInterrupted
    PROVE  TableStep
  <1>1. \A d \in Deliveries : delivery'[d].cur = delivery[d].cur
    BY RecoverEffect
  <1>2. ASSUME NEW a \in Attempts PROVE RowStep(a)
    <2>1. /\ attempt'[a] = IF IsCurrent(a) /\ Interrupted(attempt[a])
                           THEN Recovered(attempt[a]) ELSE attempt[a]
          /\ phase = "binding"
      BY RecoverWrites, Zenon
    <2>2. attempt[a] \in AttemptRow
      BY DEF TypeInv, TypeOK
    <2>3. CASE IsCurrent(a) /\ Interrupted(attempt[a])
      <3> DEFINE o == attempt[a]
                 n == attempt'[a]
      <3>1. /\ n.transport = (IF o.transport = "sending" THEN "unknown" ELSE o.transport)
            /\ n.deployment = (IF o.transport = "sending" THEN "locating" ELSE o.deployment)
            /\ n.depId = o.depId /\ n.cursor = o.cursor
        BY <2>1, <2>2, <2>3 DEF Recovered, AttemptRow
      <3> HIDE DEF o, n
      <3>2. StartupChange(o, n) \/ TimerChange(o, n)
        BY <2>1, <2>3, <3>1 DEF StartupChange, TimerChange, Interrupted, Active, o
      <3> QED
        BY <2>3, <3>2 DEF RowStep, RowChange, o, n
    <2> QED
      BY <2>1, <2>3 DEF RowStep
  <1> QED
    BY <1>1, <1>2, AttemptFacts DEF TableStep, CurStep

LEMMA DeleteTables ==
    ASSUME NEW D \in SUBSET Deliveries, Delete(D)
    PROVE  TableStep
  <1>1. \A d \in Deliveries : IF d \in D THEN delivery'[d].cur = 0 ELSE delivery'[d] = delivery[d]
    BY DEF Delete, NoDelivery
  <1>2. \A a \in Attempts : attempt'[a] = IF a[1] \in D THEN NewAttempt ELSE attempt[a]
    BY DEF Delete
  <1> QED
    BY <1>1, <1>2, AttemptFacts DEF TableStep, Gone, RowStep, CurStep

LEMMA IngestTables ==
    ASSUME TypeInv, SafeInv, NEW d \in Deliveries, Ingest(d)
    PROVE  TableStep
  <1>1. /\ delivery' = [delivery EXCEPT ![d] = [NoDelivery EXCEPT !.cur = 1]]
        /\ attempt' = [attempt EXCEPT ![<<d, 1>>] = NewAttempt]
        /\ d \notin ingested
    BY DEF Ingest
  <1>2. delivery[d].cur = 0
    BY <1>1 DEF SafeInv, RowsOK, Exists
  <1>3. delivery'[d].cur = 1
    BY <1>1 DEF TypeInv, TypeOK, NoDelivery
  <1>4. \A e \in Deliveries : e # d => delivery'[e] = delivery[e]
    BY <1>1 DEF TypeInv, TypeOK
  <1>5. <<d, 1>> \in Attempts
    BY DeliveryAssumption DEF Attempts
  <1>6. /\ attempt'[<<d, 1>>] = NewAttempt
        /\ \A b \in Attempts : b # <<d, 1>> => attempt'[b] = attempt[b]
    BY <1>1, <1>5 DEF TypeInv, TypeOK
  <1>7. \A b \in Attempts : RowStep(b)
    BY <1>2, <1>6 DEF RowStep
  <1>8. \A e \in Deliveries : CurStep(e)
    BY <1>2, <1>3, <1>4 DEF CurStep
  <1> QED
    BY <1>7, <1>8, AttemptFacts DEF TableStep

LEMMA ApplyTables ==
    ASSUME TypeInv, SafeInv, NEW u \in Operators, ApplyManualUpdate(u)
    PROVE  TableStep
  <1> DEFINE a == exec[u].seen.att
             update == exec[u].update
             row == IF update.correct THEN Corrected(attempt[a], update) ELSE attempt[a]
             fresh == <<a[1], a[2] + 1>>
  <1>1. exec[u].pc = "apply"
    BY DEF ApplyManualUpdate
  <1>2. /\ a \in Attempts /\ a[1] \in Deliveries /\ update \in ManualUpdate
        /\ fresh \in Attempts /\ fresh # a /\ row \in AttemptRow
    BY ApplyEffect
  <1>3. CASE UNCHANGED storeVars
    BY <1>3, SameTables
  <1>4. CASE ~(UNCHANGED storeVars)
    <2>1. /\ SeenStillCurrent(exec[u].seen)
          /\ attempt'[a] = row
          /\ \A d \in Deliveries : d # a[1] => delivery'[d] = delivery[d]
          /\ \/ /\ update.create
                /\ attempt'[fresh] = NewAttempt
                /\ \A b \in Attempts \ {a, fresh} : attempt'[b] = attempt[b]
                /\ delivery'[a[1]].cur = a[2] + 1
             \/ /\ ~update.create
                /\ \A b \in Attempts \ {a} : attempt'[b] = attempt[b]
                /\ delivery'[a[1]].cur = delivery[a[1]].cur
      BY <1>4, ApplyEffect
    <2>2. Corrects(u, a)
      BY <1>1, <2>1 DEF Corrects
    <2>3. IsCurrent(a) /\ attempt[a] \in AttemptRow
      BY <1>2, <2>1 DEF SeenStillCurrent, TypeInv, TypeOK
    <2>4. update.correct => CorrectChange(a, attempt[a], row)
      <3> SUFFICES ASSUME update.correct PROVE CorrectChange(a, attempt[a], row)
        OBVIOUS
      <3>1. row = Corrected(attempt[a], update)
        OBVIOUS
      <3>2. /\ row.transport = update.transport /\ row.depId = update.depId
            /\ row.deployment = update.deployment
            /\ row.cursor = attempt[a].cursor /\ row.polled = NULL
        <4> HIDE DEF row, a, update
        <4> QED
          BY <2>3, <3>1 DEF Corrected, AttemptRow
      <3> QED
        BY <2>2, <3>2, Zenon DEF CorrectChange
    <2>5. a[2] \in Nat /\ delivery[a[1]].cur = a[2] /\ Current(a[1]) = a
      BY <1>2, <2>3, AttemptFacts, CurrentFacts DEF IsCurrent
    <2>6. fresh[1] = a[1] /\ fresh[2] = a[2] + 1
      OBVIOUS
    <2>7. row = attempt[a] \/ update.correct
      OBVIOUS
    <2>8. \/ delivery'[a[1]].cur = delivery[a[1]].cur
          \/ Appends(u, a[1])
      BY <2>1, <2>2, <2>5 DEF Appends
    <2>12. /\ \A b \in Attempts : b # a /\ b # fresh => attempt'[b] = attempt[b]
           /\ attempt'[fresh] = attempt[fresh] \/ attempt'[fresh] = NewAttempt
      <3> HIDE DEF row, fresh, a
      <3> QED
        BY <1>2, <2>1
    <2> HIDE DEF row, fresh, update, a
    <2>9. RowStep(a)
      BY <2>1, <2>3, <2>4, <2>7 DEF RowStep, RowChange
    <2>10. ASSUME NEW b \in Attempts, b # a PROVE RowStep(b)
      <3>1. attempt'[b] = attempt[b] \/ (b = fresh /\ attempt'[b] = NewAttempt)
        BY <2>10, <2>12
      <3> QED
        BY <2>5, <2>6, <3>1 DEF RowStep
    <2>11. \A d \in Deliveries : CurStep(d)
      BY <2>1, <2>8 DEF CurStep
    <2> QED
      BY <2>9, <2>10, <2>11, AttemptFacts DEF TableStep
  <1> QED
    BY <1>3, <1>4

(* Every step changes the tables in one of these ways.                       *)
LEMMA NextTables == IndInv /\ [Next]_vars => TableStep
  <1> SUFFICES ASSUME IndInv, [Next]_vars PROVE TableStep
    OBVIOUS
  <1>0. TypeInv /\ SafeInv
    BY IndInvParts
  <1>1. CASE Dispatch
    <2>1. CASE \E d \in Deliveries : ClaimPendingAttempt(d)
      BY <1>0, <2>1, ClaimTables
    <2>2. CASE Preflight \/ RequestFails
      BY <2>2, SameTables DEF Preflight, RequestFails
    <2>3. CASE SetDeploymentCursor \/ RecordDeploymentRequest
      BY <1>0, <2>3, SendingTables
    <2>4. CASE PostAccepted \/ PostRefused \/ PostUncertain
      BY <2>4, SameTables DEF PostAccepted, PostRefused, PostUncertain, Post
    <2>5. CASE TransitionAttempt
      BY <1>0, <2>5, TransitionTables
    <2> QED
      BY <1>1, <2>1, <2>2, <2>3, <2>4, <2>5 DEF Dispatch
  <1>2. CASE Poll
    <2>1. CASE \E w \in poll.todo : PollLookup(w)
      BY <2>1, SameTables DEF PollLookup
    <2> QED
      BY <1>0, <1>2, <2>1, ListDueTables, CompletePollTables DEF Poll
  <1>3. CASE Manual
    <2>1. CASE \E u \in Operators, d \in Deliveries, op \in Operation : ExecuteStart(u, d, op)
      BY <2>1, SameTables DEF ExecuteStart
    <2>2. CASE \E u \in Operators : ExecuteLookup(u)
      BY <2>2, SameTables DEF ExecuteLookup
    <2> QED
      BY <1>0, <1>3, <2>1, <2>2, ApplyTables DEF Manual
  <1>4. CASE Startup
    <2>1. CASE \E S \in SUBSET ingested : Boot(S)
      BY <2>1, SameTables DEF Boot
    <2> QED
      BY <1>0, <1>4, <2>1, TerminateTables, RecoverTables DEF Startup
  <1>5. CASE Remote \/ Tick \/ Crash
    BY <1>5, SameTables DEF Remote, RemoteList, RemoteForeign, RemoteProgress, RemoteRelabel,
                            RemoteTrim, RemoteOnly, Tick, Crash
  <1>6. CASE \E d \in Deliveries : Ingest(d)
    BY <1>0, <1>6, IngestTables
  <1>7. CASE (\E D \in SUBSET Deliveries : Prune(D)) \/ ClearHistory
    BY <1>7, DeleteTables DEF Prune, ClearHistory
  <1>8. CASE \E S \in SUBSET ingested : PublishGeneration(S)
    BY <1>8, SameTables DEF PublishGeneration
  <1>9. CASE UNCHANGED vars
    BY <1>9, SameTables DEF vars
  <1> QED
    BY <1>1, <1>2, <1>3, <1>4, <1>5, <1>6, <1>7, <1>8, <1>9 DEF Next

-----------------------------------------------------------------------------
(* Who moves what.                                                           *)

LEMMA IndStep == IndInv /\ [Next]_vars => IndInv'
  BY NextType, NextSafe, IndInvParts DEF TypeInv, SafeInv, IndInv

LEMMA StopMoves ==
    ASSUME Stop
    PROVE  /\ disp' = DispatcherIdle /\ poll' = PollerIdle
           /\ \A u \in Operators : exec'[u] = ExecuteIdle
  BY DEF Stop

LEMMA PollMoves ==
    ASSUME [Next]_vars
    PROVE  \/ UNCHANGED poll
           \/ poll' = PollerIdle
           \/ ListDuePolls
           \/ \E w \in poll.todo : PollLookup(w)
           \/ CompletePoll
  <1>1. CASE Dispatch
    BY <1>1, StopMoves, Zenon
       DEF Dispatch, ClaimPendingAttempt, Preflight, SetDeploymentCursor,
           RecordDeploymentRequest, RequestFails, PostAccepted, PostRefused, PostUncertain,
           Post, TransitionAttempt, WorkerFails, DispatcherOnly
  <1>2. CASE Manual
    BY <1>2, Zenon DEF Manual, ExecuteStart, ExecuteLookup, ApplyManualUpdate, ExecuteOnly
  <1>3. CASE Startup
    BY <1>3, Zenon DEF Startup, Boot, TerminateIncompatibleActive, RecoverInterrupted, StartupOnly
  <1>4. CASE Remote \/ Tick
    BY <1>4 DEF Remote, RemoteList, RemoteForeign, RemoteProgress, RemoteRelabel, RemoteTrim,
                RemoteOnly, Tick
  <1>5. CASE Crash
    BY <1>5, StopMoves DEF Crash
  <1>6. CASE \/ \E d \in Deliveries : Ingest(d)
             \/ \E D \in SUBSET Deliveries : Prune(D)
             \/ ClearHistory
             \/ \E S \in SUBSET ingested : PublishGeneration(S)
    BY <1>6 DEF Ingest, Prune, ClearHistory, Delete, PublishGeneration, StoreOnly
  <1>7. CASE UNCHANGED vars
    BY <1>7 DEF vars
  <1> QED
    BY <1>1, <1>2, <1>3, <1>4, <1>5, <1>6, <1>7 DEF Next, Poll

LEMMA ExecMoves ==
    ASSUME [Next]_vars
    PROVE  \/ UNCHANGED exec
           \/ \A u \in Operators : exec'[u] = ExecuteIdle
           \/ \E u \in Operators, d \in Deliveries, op \in Operation : ExecuteStart(u, d, op)
           \/ \E u \in Operators : ExecuteLookup(u)
           \/ \E u \in Operators : ApplyManualUpdate(u)
  <1>1. CASE Dispatch
    BY <1>1, StopMoves, Zenon
       DEF Dispatch, ClaimPendingAttempt, Preflight, SetDeploymentCursor,
           RecordDeploymentRequest, RequestFails, PostAccepted, PostRefused, PostUncertain,
           Post, TransitionAttempt, WorkerFails, DispatcherOnly
  <1>2. CASE Poll
    BY <1>2, Zenon DEF Poll, ListDuePolls, PollLookup, CompletePoll, PollerOnly
  <1>3. CASE Startup
    BY <1>3, Zenon DEF Startup, Boot, TerminateIncompatibleActive, RecoverInterrupted, StartupOnly
  <1>4. CASE Remote \/ Tick
    BY <1>4 DEF Remote, RemoteList, RemoteForeign, RemoteProgress, RemoteRelabel, RemoteTrim,
                RemoteOnly, Tick
  <1>5. CASE Crash
    BY <1>5, StopMoves DEF Crash
  <1>6. CASE \/ \E d \in Deliveries : Ingest(d)
             \/ \E D \in SUBSET Deliveries : Prune(D)
             \/ ClearHistory
             \/ \E S \in SUBSET ingested : PublishGeneration(S)
    BY <1>6 DEF Ingest, Prune, ClearHistory, Delete, PublishGeneration, StoreOnly
  <1>7. CASE UNCHANGED vars
    BY <1>7 DEF vars
  <1> QED
    BY <1>1, <1>2, <1>3, <1>4, <1>5, <1>6, <1>7 DEF Next, Manual

LEMMA DispMoves ==
    ASSUME [Next]_vars
    PROVE  \/ UNCHANGED disp
           \/ disp' = DispatcherIdle
           \/ \E d \in Deliveries : ClaimPendingAttempt(d)
           \/ Preflight \/ SetDeploymentCursor \/ RecordDeploymentRequest \/ RequestFails
           \/ PostAccepted \/ PostRefused \/ PostUncertain
  <1>1. CASE TransitionAttempt
    BY <1>1, StopMoves DEF TransitionAttempt, WorkerFails
  <1>2. CASE Poll
    BY <1>2, Zenon DEF Poll, ListDuePolls, PollLookup, CompletePoll, PollerOnly
  <1>3. CASE Startup
    BY <1>3, Zenon DEF Startup, Boot, TerminateIncompatibleActive, RecoverInterrupted, StartupOnly
  <1>4. CASE Remote \/ Tick
    BY <1>4 DEF Remote, RemoteList, RemoteForeign, RemoteProgress, RemoteRelabel, RemoteTrim,
                RemoteOnly, Tick
  <1>5. CASE Crash
    BY <1>5, StopMoves DEF Crash
  <1>6. CASE \/ \E d \in Deliveries : Ingest(d)
             \/ \E D \in SUBSET Deliveries : Prune(D)
             \/ ClearHistory
             \/ \E S \in SUBSET ingested : PublishGeneration(S)
    BY <1>6, Zenon DEF Ingest, Prune, ClearHistory, Delete, PublishGeneration, StoreOnly
  <1>7. CASE UNCHANGED vars
    BY <1>7 DEF vars
  <1>8. CASE Manual
    BY <1>8, Zenon DEF Manual, ExecuteStart, ExecuteLookup, ApplyManualUpdate, ExecuteOnly
  <1> QED
    BY <1>1, <1>2, <1>3, <1>4, <1>5, <1>6, <1>7, <1>8 DEF Next, Dispatch

LEMMA RemoteMoves ==
    ASSUME [Next]_vars
    PROVE  \/ UNCHANGED <<history, trimmed, inbox, posts>>
           \/ Remote
           \/ PostAccepted \/ PostRefused \/ PostUncertain
  <1>1. CASE Dispatch
    BY <1>1 DEF Dispatch, ClaimPendingAttempt, Preflight, SetDeploymentCursor,
                RecordDeploymentRequest, RequestFails, TransitionAttempt, remoteVars
  <1>2. CASE Poll
    BY <1>2, Zenon DEF Poll, ListDuePolls, PollLookup, CompletePoll, PollerOnly, remoteVars
  <1>3. CASE Startup
    BY <1>3, Zenon DEF Startup, Boot, TerminateIncompatibleActive, RecoverInterrupted,
                       StartupOnly, remoteVars
  <1>4. CASE Tick \/ Crash
    BY <1>4 DEF Tick, Crash, remoteVars
  <1>5. CASE Manual
    BY <1>5, Zenon DEF Manual, ExecuteStart, ExecuteLookup, ApplyManualUpdate, ExecuteOnly, remoteVars
  <1>6. CASE \/ \E d \in Deliveries : Ingest(d)
             \/ \E D \in SUBSET Deliveries : Prune(D)
             \/ ClearHistory
             \/ \E S \in SUBSET ingested : PublishGeneration(S)
    BY <1>6 DEF Ingest, Prune, ClearHistory, Delete, PublishGeneration, StoreOnly, remoteVars
  <1>7. CASE UNCHANGED vars
    BY <1>7 DEF vars, remoteVars
  <1> QED
    BY <1>1, <1>2, <1>3, <1>4, <1>5, <1>6, <1>7 DEF Next

LEMMA IngestedMoves ==
    ASSUME [Next]_vars
    PROVE  UNCHANGED ingested \/ \E d \in Deliveries : Ingest(d)
  <1>1. CASE Dispatch
    BY <1>1, Zenon DEF Dispatch, ClaimPendingAttempt, Preflight, SetDeploymentCursor,
                RecordDeploymentRequest, RequestFails, PostAccepted, PostRefused, PostUncertain,
                Post, TransitionAttempt, DispatcherOnly, bindingVars
  <1>2. CASE Poll
    BY <1>2, Zenon DEF Poll, ListDuePolls, PollLookup, CompletePoll, PollerOnly, bindingVars
  <1>3. CASE Startup
    BY <1>3, Zenon DEF Startup, Boot, TerminateIncompatibleActive, RecoverInterrupted, bindingVars
  <1>4. CASE Remote \/ Tick \/ Crash
    BY <1>4 DEF Remote, RemoteList, RemoteForeign, RemoteProgress, RemoteRelabel, RemoteTrim,
                RemoteOnly, Tick, Crash, bindingVars
  <1>5. CASE Manual
    BY <1>5, Zenon DEF Manual, ExecuteStart, ExecuteLookup, ApplyManualUpdate, ExecuteOnly, bindingVars
  <1>6. CASE \/ \E D \in SUBSET Deliveries : Prune(D)
             \/ ClearHistory
             \/ \E S \in SUBSET ingested : PublishGeneration(S)
    BY <1>6 DEF Prune, ClearHistory, Delete, PublishGeneration, bindingVars
  <1>7. CASE UNCHANGED vars
    BY <1>7 DEF vars, bindingVars
  <1> QED
    BY <1>1, <1>2, <1>3, <1>4, <1>5, <1>6, <1>7 DEF Next

LEMMA IngestedGrows == ASSUME [Next]_vars PROVE ingested \subseteq ingested'
  BY IngestedMoves DEF Ingest

-----------------------------------------------------------------------------
(* Bindings.                                                                 *)

LEMMA CurGrows ==
    ASSUME IndInv, [Next]_vars, NEW d \in Deliveries, Exists(d)'
    PROVE  /\ delivery[d].cur \in Nat /\ delivery'[d].cur \in Nat
           /\ delivery'[d].cur >= delivery[d].cur
           /\ CurStep(d)
           /\ \A a \in Attempts : a[1] = d => RowStep(a)
  <1>1. delivery[d].cur \in Nat /\ delivery'[d].cur \in Nat
    <2>1. delivery[d] \in DeliveryRow /\ delivery'[d] \in DeliveryRow
      BY IndStep DEF IndInv, TypeOK
    <2> QED
      BY <2>1, DeliveryAssumption DEF DeliveryRow
  <1>2. <<d, 1>> \in Attempts /\ <<d, 1>>[1] = d
    BY DeliveryAssumption DEF Attempts
  <1>3. \A a \in Attempts : a[1] = d => RowStep(a) /\ CurStep(d)
    BY NextTables DEF TableStep, Gone, Exists
  <1>4. CurStep(d)
    BY <1>2, <1>3
  <1>5. delivery'[d].cur >= delivery[d].cur
    BY <1>1, <1>4 DEF CurStep, Appends
  <1> QED
    BY <1>1, <1>3, <1>4, <1>5

(* The row of an attempt that is current after a step.                       *)
LEMMA RowMoves ==
    ASSUME IndInv, BindingsOK, [Next]_vars, NEW a \in Attempts, IsCurrent(a)'
    PROVE  \/ attempt'[a] = NewAttempt /\ ~IsCurrent(a) /\ delivery[a[1]].cur < a[2]
           \/ IsCurrent(a) /\ attempt'[a] = attempt[a]
           \/ IsCurrent(a) /\ RowChange(a, attempt[a], attempt'[a])
  <1>1. a[1] \in Deliveries /\ a[2] \in Nat \ {0} /\ delivery'[a[1]].cur = a[2]
    BY AttemptFacts DEF IsCurrent
  <1>2. Exists(a[1])'
    BY <1>1 DEF Exists
  <1>3. /\ delivery[a[1]].cur \in Nat /\ delivery[a[1]].cur <= a[2] /\ RowStep(a)
    BY <1>1, <1>2, CurGrows
  <1>4. CASE delivery[a[1]].cur = a[2]
    BY <1>1, <1>3, <1>4 DEF IsCurrent, RowStep
  <1>5. CASE delivery[a[1]].cur < a[2]
    <2>1. attempt[a] = NewAttempt /\ ~IsCurrent(a)
      BY <1>1, <1>3, <1>5 DEF BindingsOK, IsCurrent
    <2> QED
      BY <1>3, <1>5, <2>1 DEF RowStep
  <1> QED
    BY <1>1, <1>3, <1>4, <1>5

LEMMA NewAttemptFacts ==
    /\ NewAttempt.transport = "pending" /\ NewAttempt.deployment = "not_started"
    /\ NewAttempt.depId = NULL /\ NewAttempt.cursor = NULL /\ NewAttempt.polled = NULL
    /\ BindingOK(NewAttempt)
  BY DEF NewAttempt, BindingOK, UnboundStatus

(* What a current attempt satisfies.                                         *)
LEMMA CurrentRow ==
    ASSUME IndInv, BindingsOK, NEW a \in Attempts, IsCurrent(a)
    PROVE  /\ attempt[a] \in AttemptRow /\ RowOK(attempt[a]) /\ BindingOK(attempt[a])
           /\ a[1] \in ingested
  BY CurrentFacts, AttemptFacts DEF IndInv, TypeOK, RowsOK, BindingsOK

(* A poll's answer binds the row it claimed, and only an unbound one anew.   *)
LEMMA PollChangeBinds ==
    ASSUME IndInv, BindInv, NEW a \in Attempts, NEW n, IsCurrent(a), PollChange(a, attempt[a], n)
    PROVE  /\ attempt[a].transport \in {"enqueued", "unknown"}
           /\ attempt[a].deployment \in Monitored
           /\ n.transport \in {"enqueued", "unknown"}
           /\ attempt[a].transport = "enqueued" => n.transport = "enqueued"
           /\ BindingOK(n)
           /\ IF attempt[a].depId # NULL THEN n.depId = attempt[a].depId
              ELSE n.depId # NULL => n.transport = "enqueued"
  <1> DEFINE w == poll.item
             u == poll.update
             o == attempt[a]
  <1>1. /\ w # NULL /\ w.att = a /\ PollClaimHeld(a)
        /\ n.transport = u.transport /\ n.deployment = u.deployment
        /\ n.depId = DeploymentID(o, u)
    BY DEF PollChange, CompletePoll
  <1>2. /\ o.deployment \in Monitored /\ o.transport = w.transport /\ o.depId = w.depId
        /\ w.transport \in {"enqueued", "unknown"} /\ u.transport \in {"enqueued", "unknown"}
    BY <1>1 DEF IndInv, PollOK, WorkOK, ClaimOK
  <1>3. o.deployment = w.deployment /\ AnswerOK(w, u)
    BY <1>1 DEF BindInv, PollBinds, ReadOK
  <1>4. BindingOK(o)
    BY CurrentRow DEF BindInv
  <1> HIDE DEF w, u, o
  <1>5. CASE u.depId # NULL
    BY <1>1, <1>2, <1>3, <1>4, <1>5 DEF AnswerOK, DeploymentID, BindingOK, o
  <1>6. CASE u.depId = NULL
    <2>1. n.depId = o.depId /\ n.transport = o.transport
      BY <1>1, <1>2, <1>3, <1>6 DEF AnswerOK, DeploymentID
    <2>2. n.deployment \in {o.deployment, IF o.depId = NULL THEN "unknown" ELSE "timeout"}
      BY <1>1, <1>2, <1>3, <1>6 DEF AnswerOK
    <2>3. BindingOK(n)
      <3>1. CASE o.depId = NULL
        BY <1>4, <2>1, <2>2, <3>1 DEF BindingOK, UnboundStatus
      <3>2. CASE o.depId # NULL
        <4>1. o.transport = "enqueued" /\ o.deployment \in BoundStatus
          BY <1>2, <1>4, <3>2 DEF BindingOK, Monitored
        <4> QED
          BY <2>1, <2>2, <3>2, <4>1 DEF BindingOK, BoundStatus
      <3> QED
        BY <3>1, <3>2
    <2> QED
      BY <1>2, <2>1, <2>3 DEF o
  <1> QED
    BY <1>5, <1>6

(* An operator's correction keeps a binding: a compare-and-swap on the       *)
(* statuses that succeeds has seen the row's deployment ID.                  *)
LEMMA SeenIsBound ==
    ASSUME IndInv, BindInv, NEW u \in Operators, exec[u].pc # "idle",
           SeenStillCurrent(exec[u].seen)
    PROVE  /\ exec[u].seen.att \in Attempts /\ IsCurrent(exec[u].seen.att)
           /\ attempt[exec[u].seen.att].transport \notin {"pending", "sending"}
           /\ attempt[exec[u].seen.att].deployment # "done"
           /\ attempt[exec[u].seen.att].depId = exec[u].seen.depId
  <1> DEFINE x == exec[u]
             a == x.seen.att
  <1>1. a \in Attempts
    BY DEF IndInv, LocalOK, SeenAttempt
  <1>2. /\ IsCurrent(a) /\ attempt[a].transport = x.seen.transport
        /\ attempt[a].deployment = x.seen.deployment
    BY DEF SeenStillCurrent
  <1>3. BindingOK(attempt[a])
    BY <1>1, <1>2, CurrentRow DEF BindInv
  <1>4. SeenOK(x)
    BY DEF BindInv, SeensOK
  <1>5. /\ attempt[a].transport \notin {"pending", "sending"}
        /\ attempt[a].deployment # "done"
        /\ x.seen.depId = NULL => attempt[a].deployment \in UnboundStatus
        /\ \/ attempt[a].depId = x.seen.depId
           \/ x.seen.depId = NULL /\ attempt[a].transport = "enqueued"
    BY <1>2, <1>4 DEF SeenOK
  <1>6. attempt[a].depId = x.seen.depId
    <2> SUFFICES ASSUME x.seen.depId = NULL, attempt[a].transport = "enqueued",
                        attempt[a].depId # NULL
                 PROVE  FALSE
      BY <1>5
    <2> HIDE DEF a, x
    <2> QED
      BY <1>3, <1>5 DEF BindingOK, UnboundStatus, BoundStatus
  <1> QED
    BY <1>1, <1>2, <1>5, <1>6

LEMMA CorrectChangeBinds ==
    ASSUME IndInv, BindInv, NEW a \in Attempts, NEW n, CorrectChange(a, attempt[a], n)
    PROVE  /\ attempt[a].transport \notin {"pending", "sending"}
           /\ attempt[a].deployment # "done"
           /\ n.transport = "enqueued" /\ BindingOK(n) /\ n.depId # NULL
           /\ attempt[a].depId # NULL => n.depId = attempt[a].depId
           /\ n.polled = NULL
  <1>1. PICK u \in Operators :
          /\ Corrects(u, a) /\ exec[u].update.correct
          /\ n.transport = exec[u].update.transport /\ n.deployment = exec[u].update.deployment
          /\ n.depId = exec[u].update.depId /\ n.polled = NULL
    BY DEF CorrectChange
  <1>2. exec[u].pc = "apply" /\ exec[u].seen.att = a /\ SeenStillCurrent(exec[u].seen)
    BY <1>1 DEF Corrects
  <1>3. /\ attempt[a].transport \notin {"pending", "sending"}
        /\ attempt[a].deployment # "done" /\ attempt[a].depId = exec[u].seen.depId
    BY <1>2, SeenIsBound
  <1>4. /\ exec[u].update.deployment \in BoundStatus
        /\ exec[u].seen.depId # NULL => exec[u].update.depId = exec[u].seen.depId
    BY <1>1, <1>2 DEF BindInv, SeensOK, SeenOK
  <1>5. exec[u].update.transport = "enqueued" /\ exec[u].update.depId # NULL
    BY <1>1, <1>2 DEF IndInv, ExecOK, RequestOK
  <1> QED
    BY <1>1, <1>3, <1>4, <1>5 DEF BindingOK

LEMMA BindingsStep ==
    ASSUME IndInv, BindInv, [Next]_vars
    PROVE  BindingsOK'
  <1>0. BindingsOK
    BY DEF BindInv
  <1>1. ASSUME NEW a \in Attempts, IsCurrent(a)' PROVE BindingOK(attempt'[a])
    <2> DEFINE o == attempt[a]
               n == attempt'[a]
    <2>1. CASE n = NewAttempt
      BY <2>1, NewAttemptFacts
    <2>2. CASE IsCurrent(a) /\ n = o
      BY <1>0, <2>2, CurrentRow
    <2>3. CASE IsCurrent(a) /\ RowChange(a, o, n)
      <3>1. BindingOK(o) /\ RowOK(o)
        BY <1>0, <2>3, CurrentRow
      <3>2. PollChange(a, o, n) => BindingOK(n)
        BY <2>3, PollChangeBinds
      <3>3. CorrectChange(a, o, n) => BindingOK(n)
        BY CorrectChangeBinds
      <3> SUFFICES BindingOK(n)
        OBVIOUS
      <3> HIDE DEF o, n
      <3>4. CASE ClaimChange(o, n) \/ SendChange(a, o, n) \/ OutcomeChange(a, o, n)
        <4>1. o.depId = NULL /\ n.depId = o.depId
          BY <3>1, <3>4 DEF ClaimChange, SendChange, OutcomeChange, RowOK
        <4>2. n.deployment \in UnboundStatus
          BY <3>1, <3>4 DEF ClaimChange, SendChange, OutcomeChange, RowOK, UnboundStatus
        <4> QED
          BY <4>1, <4>2 DEF BindingOK
      <3>5. CASE TimerChange(o, n)
        BY <3>1, <3>5 DEF TimerChange, BindingOK
      <3>6. CASE StartupChange(o, n)
        BY <3>1, <3>6 DEF StartupChange, BindingOK, RowOK, UnboundStatus
      <3>7. RowChange(a, o, n)
        BY <2>3
      <3> QED
        BY <3>2, <3>3, <3>4, <3>5, <3>6, <3>7 DEF RowChange
    <2> QED
      BY <1>0, <1>1, <2>1, <2>2, <2>3, RowMoves
  <1>2. ASSUME NEW d \in Deliveries, Exists(d)' PROVE BindingOK(Row(d)')
    <2>1. TypeInv'
      BY IndStep, IndInvParts DEF TypeInv, IndInv
    <2>2. delivery'[d].cur \in 0..MaxAttempts /\ delivery'[d].cur # 0
      BY <1>2, <2>1 DEF TypeInv, TypeOK, DeliveryRow, Exists
    <2>3. Current(d)' \in Attempts /\ Current(d)'[1] = d /\ Current(d)'[2] = delivery'[d].cur
      BY <2>2, DeliveryAssumption DEF Current, Attempts
    <2>4. PICK a \in Attempts : a = Current(d)'
      BY <2>3
    <2>5. IsCurrent(a)' /\ Row(d)' = attempt'[a]
      BY <2>3, <2>4 DEF IsCurrent, Row
    <2> QED
      BY <1>1, <2>5
  <1>3. ASSUME NEW a \in Attempts, a[2] > delivery'[a[1]].cur PROVE attempt'[a] = NewAttempt
    <2>1. a[1] \in Deliveries /\ a[2] \in Nat \ {0}
      BY AttemptFacts
    <2>2. CASE Exists(a[1])'
      <3>1. /\ delivery[a[1]].cur \in Nat /\ delivery'[a[1]].cur \in Nat
            /\ delivery'[a[1]].cur >= delivery[a[1]].cur
            /\ RowStep(a)
        BY <2>1, <2>2, CurGrows
      <3>2. a[2] > delivery[a[1]].cur
        BY <1>3, <2>1, <3>1
      <3> QED
        BY <1>0, <2>1, <3>1, <3>2 DEF RowStep, IsCurrent, BindingsOK
    <2>3. CASE ~Exists(a[1])'
      <3>1. delivery'[a[1]].cur = 0
        BY <2>3 DEF Exists
      <3>2. CASE Gone(a)
        BY <3>2 DEF Gone
      <3>3. CASE RowStep(a) /\ CurStep(a[1])
        <4>1. delivery[a[1]].cur \in Nat
          <5>1. delivery[a[1]] \in DeliveryRow
            BY <2>1 DEF IndInv, TypeOK
          <5> QED
            BY <5>1, DeliveryAssumption DEF DeliveryRow
        <4>2. delivery[a[1]].cur = 0
          BY <3>1, <3>3, <4>1 DEF CurStep, Appends
        <4> QED
          BY <1>0, <2>1, <3>3, <4>2 DEF RowStep, IsCurrent, BindingsOK
      <3> QED
        BY <3>2, <3>3, NextTables DEF TableStep
    <2> QED
      BY <2>2, <2>3
  <1>4. \A d \in Deliveries : Exists(d)' => BindingOK(Row(d))'
    BY <1>2 DEF BindingOK
  <1> QED
    BY <1>3, <1>4 DEF BindingsOK

-----------------------------------------------------------------------------
(* Polls.                                                                    *)

(* While a poll is under way, the only row that changes under a claim it     *)
(* still holds is the one it completes.                                      *)
LEMMA ClaimKept ==
    ASSUME IndInv, BindInv, [Next]_vars, phase = "up", ~ListDuePolls,
           NEW w \in PollWork, WorkOK(w), poll.at \in Nat, poll'.at = poll.at,
           CompletePoll => w.att # poll.item.att,
           PollClaimHeld(w.att)'
    PROVE  PollClaimHeld(w.att) /\ attempt'[w.att] = attempt[w.att]
  <1> DEFINE a == w.att
             o == attempt[a]
             n == attempt'[a]
  <1>1. a \in Attempts
    BY DEF PollWork
  <1>2. IsCurrent(a)' /\ n.polled = poll.at /\ n.polled # NULL
    BY DeliveryAssumption DEF PollClaimHeld
  <1>3. IsCurrent(a) /\ (n = o \/ RowChange(a, o, n))
    BY <1>1, <1>2, RowMoves, NewAttemptFacts DEF BindInv
  <1>4. ~PollChange(a, o, n)
    BY DEF PollChange
  <1>5. ~CorrectChange(a, o, n)
    BY <1>1, <1>2, CorrectChangeBinds
  <1>6. PollClaimHeld(a) => o.transport \in {"enqueued", "unknown"}
    BY DEF WorkOK, ClaimOK
  <1>7. o.polled = n.polled => PollClaimHeld(a)
    BY <1>2, <1>3 DEF PollClaimHeld
  <1> HIDE DEF a, o, n
  <1>8. ~ClaimChange(o, n) /\ ~SendChange(a, o, n) /\ ~OutcomeChange(a, o, n)
    BY <1>6, <1>7 DEF ClaimChange, SendChange, OutcomeChange
  <1>9. ~TimerChange(o, n) /\ ~StartupChange(o, n)
    BY DEF TimerChange, StartupChange
  <1>10. n = o
    BY <1>3, <1>4, <1>5, <1>8, <1>9 DEF RowChange
  <1> QED
    BY <1>7, <1>10 DEF a, o, n

LEMMA ReadKept ==
    ASSUME IndInv, BindInv, [Next]_vars, phase = "up", ~ListDuePolls,
           NEW w \in PollWork, WorkOK(w), ReadOK(w), poll.at \in Nat, poll'.at = poll.at,
           CompletePoll => w.att # poll.item.att
    PROVE  ReadOK(w)'
  BY ClaimKept DEF ReadOK

LEMMA FindByID ==
    ASSUME NEW r, NEW a, NEW id, id # NULL
    PROVE  FindDeployment(r, a, id) \subseteq {id}
  BY DEF FindDeployment, Newest

LEMMA UnsafeFindsNothing ==
    ASSUME NEW r, NEW a, NEW c, UnsafeCorrelation(r, a, c)
    PROVE  FindDeploymentAfter(r, a, c) = {}
  BY DEF UnsafeCorrelation, FindDeploymentAfter

LEMMA PollUpdateAnswers ==
    ASSUME NEW w \in PollWork, NEW ids \in SUBSET (Nat \ {0}), NEW unsafe \in BOOLEAN,
           NEW t, unsafe => ids = {} /\ w.depId = NULL, w.depId # NULL => ids \subseteq {w.depId}
    PROVE  AnswerOK(w, PollUpdate(w, ids, unsafe, t))
  <1> DEFINE u == PollUpdate(w, ids, unsafe, t)
             match == CHOOSE i \in ids : TRUE
             seen == Observed(history[ResourceOf(w.att[1])][match].status)
  <1>1. CASE ids = {}
    <2>1. u.depId = NULL /\ u.transport = w.transport
      BY <1>1 DEF PollUpdate
    <2>2. u.deployment \in {w.deployment, IF w.depId = NULL THEN "unknown" ELSE "timeout"}
      BY <1>1 DEF PollUpdate
    <2> HIDE DEF u
    <2>3. AnswerOK(w, u)
      BY <2>1, <2>2 DEF AnswerOK
    <2> QED
      BY <2>3 DEF u
  <1>2. CASE ids # {}
    <2>1. match \in ids /\ match \in Nat /\ match # NULL
      BY <1>2, DeliveryAssumption
    <2>2. seen \in BoundStatus /\ "timeout" \in BoundStatus
      BY ObservedType DEF BoundStatus
    <2>3. u.depId = match /\ u.transport = "enqueued" /\ u.deployment \in {seen, "timeout"}
      BY <1>2 DEF PollUpdate
    <2> HIDE DEF u, match, seen
    <2>4. AnswerOK(w, u)
      BY <2>1, <2>2, <2>3 DEF AnswerOK
    <2> QED
      BY <2>4 DEF u
  <1> QED
    BY <1>1, <1>2

(* The two outcomes of a lookup, with what each says of the answer.          *)
LEMMA LookupAnswers ==
    ASSUME IndInv, NEW w \in poll.todo, PollLookup(w)
    PROVE  /\ w \in PollWork
           /\ poll'.todo = poll.todo \ {w} /\ poll'.item = w /\ poll'.at = poll.at
           /\ AnswerOK(w, poll'.update)
           /\ UNCHANGED <<delivery, attempt, history, trimmed, inbox, exec, phase>>
           /\ phase = "up"
  <1>1. w \in PollWork /\ w.att \in Attempts /\ poll \in PollerState
    BY DEF IndInv, TypeOK, PollerState, PollWork
  <1> DEFINE r == ResourceOf(w.att[1])
             byCursor == w.depId = NULL /\ w.cursor # NULL
             ids == IF byCursor THEN FindDeploymentAfter(r, w.att, w.cursor)
                                ELSE FindDeployment(r, w.att, w.depId)
             unsafe == byCursor /\ UnsafeCorrelation(r, w.att, w.cursor)
  <1>2. r \in Resources
    BY <1>1, KindOfType DEF Attempts
  <1>3. ids \in SUBSET (Nat \ {0}) /\ unsafe \in BOOLEAN
    BY <1>1, <1>2, LookupType DEF IndInv, TypeOK
  <1>4. unsafe => ids = {} /\ w.depId = NULL
    BY UnsafeFindsNothing
  <1>5. w.depId # NULL => ids \subseteq {w.depId}
    BY FindByID
  <1>6. \/ poll' = [poll EXCEPT !.todo = @ \ {w}, !.item = w,
                                !.update = PollUpdate(w, ids, unsafe, poll.at)]
        \/ poll' = [poll EXCEPT !.todo = @ \ {w}, !.item = w,
                                !.update = PollUpdate(w, {}, FALSE, poll.at)]
    BY DEF PollLookup
  <1> HIDE DEF ids, unsafe
  <1>7. AnswerOK(w, PollUpdate(w, ids, unsafe, poll.at))
    BY <1>1, <1>3, <1>4, <1>5, PollUpdateAnswers
  <1>8. AnswerOK(w, PollUpdate(w, {}, FALSE, poll.at))
    BY <1>1, PollUpdateAnswers
  <1>9. UNCHANGED <<delivery, attempt, history, trimmed, inbox, exec, phase>> /\ phase = "up"
    BY DEF PollLookup, PollerOnly, storeVars, remoteVars, serverVars
  <1>10. \/ poll'.update = PollUpdate(w, ids, unsafe, poll.at)
         \/ poll'.update = PollUpdate(w, {}, FALSE, poll.at)
    BY <1>1, <1>6 DEF PollerState
  <1>11. poll'.todo = poll.todo \ {w} /\ poll'.item = w /\ poll'.at = poll.at
    BY <1>1, <1>6 DEF PollerState
  <1> QED
    BY <1>1, <1>7, <1>8, <1>9, <1>10, <1>11

LEMMA AnswerSame ==
    ASSUME NEW w, NEW u, AnswerOK(w, u) PROVE AnswerOK(w, u)'
  BY DEF AnswerOK

LEMMA PollBindsStep ==
    ASSUME IndInv, BindInv, [Next]_vars
    PROVE  PollBinds'
  <1>1. ASSUME NEW w \in poll.todo
        PROVE  w \in PollWork /\ WorkOK(w) /\ ReadOK(w) /\ poll.at \in Nat /\ phase = "up"
    BY DEF IndInv, TypeOK, PollerState, LocalOK, PollOK, BindInv, PollBinds, DownIsIdle, PollerIdle
  <1>2. ASSUME poll.item # NULL
        PROVE  /\ poll.item \in PollWork /\ WorkOK(poll.item) /\ ReadOK(poll.item)
               /\ poll.at \in Nat /\ phase = "up" /\ AnswerOK(poll.item, poll.update)
    BY <1>2 DEF IndInv, TypeOK, PollerState, LocalOK, PollOK, BindInv, PollBinds, DownIsIdle, PollerIdle
  <1>3. CASE UNCHANGED poll
    <2>1. ~CompletePoll
      <3>1. CompletePoll => poll.item # NULL /\ poll'.item = NULL
        BY DEF CompletePoll, PollerIdle, IndInv, TypeOK, PollerState
      <3> QED
        BY <1>3, <3>1
    <2>2. ListDuePolls => poll.todo = {} /\ poll.item = NULL
      BY DEF ListDuePolls, PollerIdle
    <2>3. \A w \in poll.todo : ReadOK(w)'
      BY <1>1, <1>3, <2>1, <2>2, ReadKept
    <2>4. poll.item # NULL => ReadOK(poll.item)'
      <3> SUFFICES ASSUME poll.item # NULL PROVE ReadOK(poll.item)'
        OBVIOUS
      <3>1. PICK w \in PollWork : w = poll.item
        BY <1>2
      <3>2. ReadOK(w)'
        BY <1>2, <1>3, <2>1, <2>2, <3>1, ReadKept
      <3> QED
        BY <1>3, <3>1, <3>2
    <2>5. poll.item # NULL => AnswerOK(poll.item, poll.update)'
      BY <1>2, <1>3 DEF AnswerOK
    <2> QED
      BY <1>3, <2>3, <2>4, <2>5 DEF PollBinds
  <1>4. CASE poll' = PollerIdle
    BY <1>4 DEF PollerIdle, PollBinds
  <1>5. CASE ListDuePolls
    <2>1. poll'.todo = {Claimed(d) : d \in PollBatch} /\ poll'.item = NULL
      BY <1>5 DEF ListDuePolls, PollerIdle
    <2>2. ASSUME NEW d \in PollBatch, NEW w, w = Claimed(d) PROVE ReadOK(w)'
      <3>1. d \in Deliveries /\ Exists(d)
        BY DEF PollBatch, DuePoll
      <3>2. w.att = Current(d) /\ w.deployment = Row(d).deployment /\ w.cursor = Row(d).cursor
        BY <2>2 DEF Claimed
      <3>3. Current(d) \in Attempts /\ attempt[Current(d)] \in AttemptRow
        BY <3>1, CurrentType DEF IndInv, TypeOK
      <3>4. attempt'[Current(d)] \in {attempt[Current(d)], [attempt[Current(d)] EXCEPT !.polled = now]}
        BY <1>5, <3>3 DEF ListDuePolls
      <3>5. /\ attempt'[Current(d)].deployment = attempt[Current(d)].deployment
            /\ attempt'[Current(d)].cursor = attempt[Current(d)].cursor
        BY <3>3, <3>4 DEF AttemptRow
      <3> QED
        BY <3>2, <3>5 DEF ReadOK, Row
    <2> QED
      BY <2>1, <2>2 DEF PollBinds
  <1>6. CASE \E w \in poll.todo : PollLookup(w)
    <2>1. PICK w \in poll.todo : PollLookup(w)
      BY <1>6
    <2>2. /\ poll'.todo = poll.todo \ {w} /\ poll'.item = w /\ poll'.at = poll.at
          /\ AnswerOK(w, poll'.update) /\ UNCHANGED <<delivery, attempt>>
      BY <2>1, LookupAnswers
    <2>3. \A v \in poll.todo : ReadOK(v)'
      BY <1>1, <2>2 DEF ReadOK, PollClaimHeld, IsCurrent
    <2>4. AnswerOK(poll'.item, poll'.update)
      BY <2>2
    <2>5. AnswerOK(poll.item, poll.update)'
      BY <2>4 DEF AnswerOK
    <2> QED
      BY <2>2, <2>3, <2>5 DEF PollBinds
  <1>7. CASE CompletePoll
    <2>1. /\ poll'.todo = poll.todo /\ poll'.item = NULL /\ (poll.todo # {} => poll'.at = poll.at)
      BY <1>7 DEF CompletePoll, PollerIdle, IndInv, TypeOK, PollerState
    <2>2. \A w \in poll.todo : w.att # poll.item.att
      BY <1>7 DEF CompletePoll, IndInv, PollOK
    <2>3. ~ListDuePolls
      BY <1>7 DEF ListDuePolls, CompletePoll, PollerIdle
    <2>4. ASSUME NEW w \in poll.todo PROVE ReadOK(w)'
      BY <1>1, <2>1, <2>2, <2>3, ReadKept
    <2> QED
      BY <2>1, <2>4 DEF PollBinds
  <1> QED
    BY <1>3, <1>4, <1>5, <1>6, <1>7, PollMoves

-----------------------------------------------------------------------------
(* Management requests.                                                      *)

LEMMA SeenKept ==
    ASSUME IndInv, BindInv, [Next]_vars, NEW u \in Operators, exec[u].pc # "idle",
           exec'[u] = exec[u]
    PROVE  SeenOK(exec[u])'
  <1> DEFINE x == exec[u]
             a == x.seen.att
             o == attempt[a]
             n == attempt'[a]
  <1>1. a \in Attempts /\ a[1] \in Deliveries /\ a[2] \in Nat \ {0}
    <2>1. a \in Attempts
      BY DEF IndInv, LocalOK, SeenAttempt
    <2> QED
      BY <2>1, AttemptFacts
  <1>2. phase = "up"
    BY DEF IndInv, DownIsIdle, ExecuteIdle
  <1>3. SeenOK(x)
    BY DEF BindInv, SeensOK
  <1>4. a[1] \in ingested /\ a[1] \in ingested'
    BY <1>3, IngestedGrows DEF SeenOK
  <1>5. Exists(a[1])' => a[2] <= delivery'[a[1]].cur
    <2> SUFFICES ASSUME Exists(a[1])' PROVE a[2] <= delivery'[a[1]].cur
      OBVIOUS
    <2>1. /\ delivery[a[1]].cur \in Nat /\ delivery'[a[1]].cur \in Nat
          /\ delivery'[a[1]].cur >= delivery[a[1]].cur /\ CurStep(a[1])
      BY <1>1, CurGrows
    <2>2. ~Ingest(a[1])
      BY <1>4 DEF Ingest
    <2>3. Exists(a[1])
      <3>1. CASE \E v \in Operators : Appends(v, a[1])
        <4>1. PICK v \in Operators : Appends(v, a[1])
          BY <3>1
        <4>2. exec[v].pc = "apply" /\ exec[v].seen.att = Current(a[1])
          BY <4>1 DEF Appends, Corrects
        <4>3. Current(a[1]) \in Attempts
          BY <4>2 DEF IndInv, LocalOK, SeenAttempt
        <4> QED
          BY <1>1, <4>3, AttemptFacts DEF Current, Exists
      <3> QED
        BY <2>1, <2>2, <3>1 DEF CurStep, Exists
    <2>4. a[2] <= delivery[a[1]].cur
      BY <1>3, <2>3 DEF SeenOK
    <2> QED
      BY <1>1, <2>1, <2>4
  <1>6. ASSUME IsCurrent(a)'
        PROVE  /\ n.transport \notin {"pending", "sending"}
               /\ \/ n.depId = x.seen.depId
                  \/ x.seen.depId = NULL /\ n.transport = "enqueued"
    <2>1. IsCurrent(a) /\ (n = o \/ RowChange(a, o, n))
      <3>1. \/ ~IsCurrent(a) /\ delivery[a[1]].cur < a[2]
            \/ IsCurrent(a) /\ (n = o \/ RowChange(a, o, n))
        BY <1>1, <1>6, RowMoves DEF BindInv
      <3>2. CASE delivery[a[1]].cur < a[2]
        <4>1. Exists(a[1])'
          BY <1>1, <1>6 DEF IsCurrent, Exists
        <4>2. delivery[a[1]].cur \in Nat /\ CurStep(a[1]) /\ delivery'[a[1]].cur = a[2]
          BY <1>1, <1>6, <4>1, CurGrows DEF IsCurrent
        <4>3. ~Exists(a[1])
          BY <1>1, <1>3, <3>2, <4>2 DEF SeenOK
        <4>4. \E v \in Operators : Appends(v, a[1])
          BY <1>1, <1>4, <3>2, <4>2 DEF CurStep, Ingest
        <4>5. PICK v \in Operators : exec[v].pc = "apply" /\ exec[v].seen.att = Current(a[1])
          BY <4>4 DEF Appends, Corrects
        <4>6. Current(a[1]) \in Attempts
          BY <4>5 DEF IndInv, LocalOK, SeenAttempt
        <4> QED
          BY <4>3, <4>6, AttemptFacts DEF Current, Exists
      <3> QED
        BY <3>1, <3>2
    <2>2. /\ o.transport \notin {"pending", "sending"}
          /\ \/ o.depId = x.seen.depId
             \/ x.seen.depId = NULL /\ o.transport = "enqueued"
      BY <1>3, <2>1 DEF SeenOK
    <2>3. PollChange(a, o, n) =>
             /\ n.transport \in {"enqueued", "unknown"}
             /\ o.transport = "enqueued" => n.transport = "enqueued"
             /\ IF o.depId # NULL THEN n.depId = o.depId
                ELSE n.depId # NULL => n.transport = "enqueued"
      BY <1>1, <2>1, PollChangeBinds
    <2>4. CorrectChange(a, o, n) =>
             /\ n.transport = "enqueued" /\ n.depId # NULL
             /\ o.depId # NULL => n.depId = o.depId
      BY <1>1, CorrectChangeBinds
    <2>5. ~ListDuePolls => ~TimerChange(o, n)
      BY <1>2 DEF TimerChange
    <2> HIDE DEF a, o, n, x
    <2>6. CASE PollChange(a, o, n) \/ CorrectChange(a, o, n)
      BY <2>2, <2>3, <2>4, <2>6
    <2>7. CASE TimerChange(o, n)
      BY <2>2, <2>7 DEF TimerChange
    <2>8. ~ClaimChange(o, n) /\ ~SendChange(a, o, n) /\ ~OutcomeChange(a, o, n)
      BY <2>2 DEF ClaimChange, SendChange, OutcomeChange
    <2>9. ~StartupChange(o, n)
      BY <1>2 DEF StartupChange
    <2>10. CASE n = o
      BY <2>2, <2>10
    <2> QED
      BY <2>1, <2>6, <2>7, <2>8, <2>9, <2>10 DEF RowChange
  <1> QED
    BY <1>3, <1>4, <1>5, <1>6 DEF SeenOK

LEMMA SeensStep ==
    ASSUME IndInv, BindInv, [Next]_vars
    PROVE  SeensOK'
  <1>0. BindingsOK /\ exec \in [Operators -> ExecuteState]
    BY DEF BindInv, IndInv, TypeOK
  <1>1. CASE UNCHANGED exec
    BY <1>1, SeenKept DEF SeensOK
  <1>2. CASE \A u \in Operators : exec'[u] = ExecuteIdle
    BY <1>2 DEF SeensOK, ExecuteIdle
  <1>3. ASSUME NEW u \in Operators, NEW d \in Deliveries, NEW op \in Operation,
               ExecuteStart(u, d, op)
        PROVE  SeensOK'
    <2>1. /\ Exists(d) /\ Row(d).deployment # "done"
          /\ UNCHANGED <<delivery, attempt, ingested>>
      BY <1>3 DEF ExecuteStart, ExecuteOnly, storeVars, bindingVars
    <2>2. Current(d) \in Attempts /\ IsCurrent(Current(d)) /\ Current(d)[1] = d
      BY <2>1, CurrentType DEF IndInv, TypeOK, IsCurrent
    <2>3. /\ exec'[u].seen = [att |-> Current(d), transport |-> Row(d).transport,
                              deployment |-> Row(d).deployment, depId |-> Row(d).depId]
          /\ exec'[u].pc = "apply" => exec'[u].update = CreateOnly
          /\ exec'[u].pc \in {"lookup", "apply"}
      BY <1>0, <1>3 DEF ExecuteStart, ExecuteIdle
    <2>4. \A v \in Operators : v # u => exec'[v] = exec[v]
      BY <1>0, <1>3 DEF ExecuteStart
    <2>5. exec'[u].seen.transport \notin {"pending", "sending"}
      BY <2>3, IndStep DEF IndInv, ExecOK, RequestOK
    <2>6. BindingOK(Row(d)) /\ d \in ingested
      BY <2>1 DEF BindInv, BindingsOK, IndInv, RowsOK
    <2>7. CreateOnly.correct = FALSE
      BY DEF CreateOnly
    <2>8. delivery[d].cur \in Nat
      <3>1. delivery[d] \in DeliveryRow
        BY DEF IndInv, TypeOK
      <3> QED
        BY <3>1, DeliveryAssumption DEF DeliveryRow
    <2>9. SeenOK(exec[u])'
      <3> DEFINE y == exec'[u]
      <3>1. /\ y.seen.att = Current(d) /\ y.seen.transport = Row(d).transport
            /\ y.seen.deployment = Row(d).deployment /\ y.seen.depId = Row(d).depId
        BY <2>3
      <3>2. y.seen.depId = NULL => y.seen.deployment \in UnboundStatus
        BY <2>6, <3>1 DEF BindingOK
      <3>3. y.pc = "apply" => ~y.update.correct
        BY <2>3, <2>7
      <3>4. Current(d)[2] = delivery[d].cur
        BY DEF Current
      <3> QED
        BY <2>1, <2>2, <2>5, <2>6, <2>8, <3>1, <3>2, <3>3, <3>4 DEF SeenOK, Row
    <2> QED
      BY <2>4, <2>9, SeenKept DEF SeensOK
  <1>4. ASSUME NEW u \in Operators, ExecuteLookup(u) PROVE SeensOK'
    <2> DEFINE a == exec[u].seen.att
               r == ResourceOf(a[1])
               ids == FindDeployment(r, a, exec[u].seen.depId)
    <2>1. /\ exec[u].pc = "lookup" /\ UNCHANGED <<delivery, attempt, ingested>>
          /\ \/ exec' = [exec EXCEPT ![u].pc = "apply", ![u].update = Reconciled(exec[u].op, r, ids)]
             \/ exec' = [exec EXCEPT ![u] = ExecuteIdle]
      BY <1>4 DEF ExecuteLookup, ExecuteOnly, storeVars, bindingVars
    <2>2. \A v \in Operators : v # u => exec'[v] = exec[v]
      BY <1>0, <2>1
    <2>3. CASE exec' = [exec EXCEPT ![u] = ExecuteIdle]
      BY <1>0, <2>2, <2>3, SeenKept DEF SeensOK, ExecuteIdle
    <2>4. CASE exec' = [exec EXCEPT ![u].pc = "apply", ![u].update = Reconciled(exec[u].op, r, ids)]
      <3> DEFINE y == exec'[u]
      <3>1. y.seen = exec[u].seen /\ y.pc = "apply" /\ y.update = Reconciled(exec[u].op, r, ids)
        <4> HIDE DEF a, r, ids
        <4> QED
          BY <1>0, <2>4 DEF ExecuteState
      <3>2. y.update.correct => /\ y.update.deployment \in BoundStatus
                                /\ ids # {} /\ y.update.depId = CHOOSE i \in ids : TRUE
        <4> HIDE DEF ids, r, a
        <4>1. CASE ids = {}
          BY <3>1, <4>1 DEF Reconciled, CreateOnly
        <4>2. CASE ids # {}
          <5> DEFINE status == Observed(history[r][CHOOSE i \in ids : TRUE].status)
          <5>1. status \in BoundStatus
            BY ObservedType DEF BoundStatus
          <5>2. y.update.deployment = status /\ y.update.depId = CHOOSE i \in ids : TRUE
            BY <3>1, <4>2 DEF Reconciled
          <5> QED
            BY <4>2, <5>1, <5>2
        <4> QED
          BY <4>1, <4>2
      <3>3. exec[u].seen.depId # NULL => ids \subseteq {exec[u].seen.depId}
        BY FindByID
      <3>4. y.update.correct /\ exec[u].seen.depId # NULL => y.update.depId = exec[u].seen.depId
        <4> HIDE DEF ids
        <4> QED
          BY <3>2, <3>3
      <3>5. SeenOK(exec[u])
        BY <2>1 DEF BindInv, SeensOK
      <3>6. SeenOK(exec[u])'
        BY <2>1, <3>1, <3>2, <3>4, <3>5 DEF SeenOK, Exists, IsCurrent
      <3> QED
        BY <2>2, <3>6, SeenKept DEF SeensOK
    <2> QED
      BY <2>1, <2>3, <2>4
  <1>5. ASSUME NEW u \in Operators, ApplyManualUpdate(u) PROVE SeensOK'
    <2>1. exec' = [exec EXCEPT ![u] = ExecuteIdle]
      BY <1>5 DEF ApplyManualUpdate
    <2> QED
      BY <1>0, <2>1, SeenKept DEF SeensOK, ExecuteIdle
  <1> QED
    BY <1>1, <1>2, <1>3, <1>4, <1>5, ExecMoves

-----------------------------------------------------------------------------
(* What Dokploy took.                                                        *)

LEMMA FailedIsUntaken ==
    FailedNeverDeployed <=>
       \A d \in Deliveries : Exists(d) /\ Row(d).transport = "failed" => ~Taken(Current(d))
  <1>1. \A d : Current(d)[1] = d
    BY DEF Current
  <1>2. \A d : ~Taken(Current(d)) <=>
           /\ Current(d) \notin inbox
           /\ \A i \in DOMAIN history[ResourceOf(d)] :
                 history[ResourceOf(d)][i].owner # Current(d)
    BY <1>1 DEF Taken, Recorded, Own
  <1> QED
    BY <1>2 DEF FailedNeverDeployed

LEMMA AppendFacts ==
    ASSUME NEW s \in Seq(Record), NEW e \in Record
    PROVE  /\ Append(s, e) \in Seq(Record)
           /\ DOMAIN s \subseteq DOMAIN Append(s, e)
           /\ \A i \in DOMAIN s : Append(s, e)[i] = s[i]
           /\ \A i \in DOMAIN Append(s, e) : i \in DOMAIN s \/ i = Len(s) + 1
           /\ Append(s, e)[Len(s) + 1] = e /\ Len(s) + 1 \in DOMAIN Append(s, e)
           /\ Len(Append(s, e)) = Len(s) + 1 /\ Len(s) \in Nat
           /\ DOMAIN s = 1..Len(s)
  OBVIOUS

(* What a step may do to the records of a resource: it keeps every record    *)
(* and its owner, and adds at most one, of a request Dokploy took.            *)
Sends(a) == (PostAccepted \/ PostUncertain) /\ disp.att = a

RecordKept(r, i) ==
    /\ i \in DOMAIN history'[r]
    /\ history'[r][i].owner = history[r][i].owner
    /\ history[r][i].status \notin {"running", "other"} =>
          history'[r][i].status = history[r][i].status
    /\ ~Relabels => history'[r][i].labelled = history[r][i].labelled

OwnerOK(r, o) ==
    \/ o = NULL /\ MaxForeign # 0
    \/ o \in inbox /\ ResourceOf(o[1]) = r
    \/ Sends(o) /\ ResourceOf(o[1]) = r

RecordAdded(r, i) ==
    /\ i = Len(history[r]) + 1
    /\ history'[r][i].labelled
    /\ OwnerOK(r, history'[r][i].owner)

RecordsStep(r) ==
    /\ \A i \in DOMAIN history[r] : RecordKept(r, i)
    /\ \A i \in DOMAIN history'[r] : i \in DOMAIN history[r] \/ RecordAdded(r, i)

TrimStep(r) == trimmed'[r] = trimmed[r] \/ (Trims /\ trimmed'[r] < Len(history'[r]))

HistoryStep ==
    /\ \A r \in Resources : RecordsStep(r) /\ TrimStep(r)
    /\ \A a \in inbox' : a \in inbox \/ (Sends(a) /\ LateListing)

LEMMA SameRecords ==
    ASSUME NEW r, history'[r] = history[r] PROVE RecordsStep(r)
  BY DEF RecordsStep, RecordKept

LEMMA AppendedRecords ==
    ASSUME history \in [Resources -> Seq(Record)], NEW r \in Resources, NEW o \in Attempts \cup {NULL},
           history' = [history EXCEPT ![r] = Append(@, NewRecord(o))], OwnerOK(r, o)
    PROVE  \A q \in Resources : RecordsStep(q)
  <1>1. NewRecord(o) \in Record /\ NewRecord(o).owner = o /\ NewRecord(o).labelled
    BY NewRecordType DEF NewRecord
  <1>2. /\ history'[r] = Append(history[r], NewRecord(o)) /\ history[r] \in Seq(Record)
        /\ \A q \in Resources : q # r => history'[q] = history[q]
    OBVIOUS
  <1>3. /\ DOMAIN history[r] \subseteq DOMAIN history'[r]
        /\ \A i \in DOMAIN history[r] : history'[r][i] = history[r][i]
        /\ \A i \in DOMAIN history'[r] :
              \/ i \in DOMAIN history[r]
              \/ i = Len(history[r]) + 1 /\ history'[r][i] = NewRecord(o)
    BY <1>1, <1>2, AppendFacts
  <1>4. RecordsStep(r)
    BY <1>1, <1>3 DEF RecordsStep, RecordKept, RecordAdded
  <1> QED
    BY <1>2, <1>4, SameRecords

LEMMA EditedRecords ==
    ASSUME history \in [Resources -> Seq(Record)], NEW r \in Resources, NEW i \in DOMAIN history[r],
           NEW e, history' = [history EXCEPT ![r][i] = e], e.owner = history[r][i].owner,
           history[r][i].status \notin {"running", "other"} => e.status = history[r][i].status,
           ~Relabels => e.labelled = history[r][i].labelled
    PROVE  \A q \in Resources : RecordsStep(q)
  <1>1. /\ history'[r] = [history[r] EXCEPT ![i] = e] /\ history[r] \in Seq(Record)
        /\ \A q \in Resources : q # r => history'[q] = history[q]
    OBVIOUS
  <1>2. /\ DOMAIN history'[r] = DOMAIN history[r]
        /\ history'[r][i] = e
        /\ \A j \in DOMAIN history[r] : j # i => history'[r][j] = history[r][j]
    BY <1>1
  <1>3. RecordsStep(r)
    BY <1>2 DEF RecordsStep, RecordKept
  <1> QED
    BY <1>1, <1>3, SameRecords

LEMMA NoForeign ==
    ASSUME history \in [Resources -> Seq(Record)], NEW r \in Resources, RemoteForeign(r)
    PROVE  MaxForeign # 0
  <1>1. Len(history[r]) \in Nat
    OBVIOUS
  <1>2. IsFiniteSet(1..Len(history[r]))
    BY <1>1, FS_Interval
  <1>3. Foreign(r) \subseteq 1..Len(history[r])
    BY DEF Foreign
  <1>4. Cardinality(Foreign(r)) \in Nat
    BY <1>2, <1>3, FS_Subset, FS_CardinalityType
  <1> QED
    BY <1>4 DEF RemoteForeign

LEMMA RemoteHistory == TypeInv /\ Remote => HistoryStep
  <1> SUFFICES ASSUME TypeInv, Remote PROVE HistoryStep
    OBVIOUS
  <1>0. /\ history \in [Resources -> Seq(Record)] /\ trimmed \in [Resources -> Nat]
        /\ inbox \subseteq Attempts
    BY DEF TypeInv, TypeOK
  <1>1. ASSUME NEW a \in inbox, RemoteList(a) PROVE HistoryStep
    <2>1. a \in Attempts /\ ResourceOf(a[1]) \in Resources
      BY <1>0, KindOfType, AttemptFacts
    <2>2. OwnerOK(ResourceOf(a[1]), a)
      BY DEF OwnerOK
    <2>3. \A q \in Resources : RecordsStep(q)
      BY <1>0, <1>1, <2>1, <2>2, AppendedRecords DEF RemoteList
    <2> QED
      BY <1>1, <2>3 DEF RemoteList, HistoryStep, TrimStep
  <1>2. ASSUME NEW r \in Resources, RemoteForeign(r) PROVE HistoryStep
    <2>1. OwnerOK(r, NULL)
      BY <1>0, <1>2, NoForeign DEF OwnerOK
    <2>2. \A q \in Resources : RecordsStep(q)
      BY <1>0, <1>2, <2>1, AppendedRecords DEF RemoteForeign
    <2> QED
      BY <1>2, <2>2 DEF RemoteForeign, HistoryStep, TrimStep
  <1>3. ASSUME NEW r \in Resources, NEW i \in DOMAIN history[r], NEW s \in RemoteStatus,
               RemoteProgress(r, i, s)
        PROVE  HistoryStep
    <2> DEFINE e == [history[r][i] EXCEPT !.status = s]
    <2>1. history[r][i] \in Record /\ history[r][i].status \in {"running", "other"}
      BY <1>0, <1>3 DEF RemoteProgress
    <2>2. e.owner = history[r][i].owner /\ e.labelled = history[r][i].labelled
      BY <2>1 DEF Record
    <2>3. history' = [history EXCEPT ![r][i] = e]
      BY <1>0, <1>3 DEF RemoteProgress
    <2> HIDE DEF e
    <2>4. \A q \in Resources : RecordsStep(q)
      BY <1>0, <2>1, <2>2, <2>3, EditedRecords
    <2> QED
      BY <1>3, <2>4 DEF RemoteProgress, HistoryStep, TrimStep
  <1>4. ASSUME NEW r \in Resources, NEW i \in DOMAIN history[r], RemoteRelabel(r, i)
        PROVE  HistoryStep
    <2> DEFINE e == [history[r][i] EXCEPT !.labelled = FALSE]
    <2>1. history[r][i] \in Record /\ Relabels
      BY <1>0, <1>4 DEF RemoteRelabel
    <2>2. e.owner = history[r][i].owner /\ e.status = history[r][i].status
      BY <2>1 DEF Record
    <2>3. history' = [history EXCEPT ![r][i] = e]
      BY <1>0, <1>4 DEF RemoteRelabel
    <2> HIDE DEF e
    <2>4. \A q \in Resources : RecordsStep(q)
      BY <1>0, <2>1, <2>2, <2>3, EditedRecords
    <2> QED
      BY <1>4, <2>4 DEF RemoteRelabel, HistoryStep, TrimStep
  <1>5. ASSUME NEW r \in Resources, RemoteTrim(r) PROVE HistoryStep
    <2>1. \A q \in Resources : RecordsStep(q)
      BY <1>5, SameRecords DEF RemoteTrim
    <2>2. Trims /\ trimmed[r] + 1 < Len(history[r]) /\ UNCHANGED <<history, inbox>>
          /\ trimmed' = [trimmed EXCEPT ![r] = trimmed[r] + 1]
      BY <1>5 DEF RemoteTrim
    <2>3. \A q \in Resources : TrimStep(q)
      BY <1>0, <2>2 DEF TrimStep
    <2> QED
      BY <2>1, <2>2, <2>3 DEF HistoryStep
  <1> QED
    BY <1>1, <1>2, <1>3, <1>4, <1>5 DEF Remote

LEMMA AcceptHistory ==
    ASSUME TypeInv, PostAccepted \/ PostUncertain, Accept(disp.att)
    PROVE  HistoryStep
  <1> DEFINE a == disp.att
  <1>1. /\ a \in Attempts /\ UNCHANGED trimmed /\ Sends(a)
        /\ history \in [Resources -> Seq(Record)]
    BY DEF PostAccepted, PostUncertain, Post, TypeInv, TypeOK, LocalOK, Sends
  <1>2. ResourceOf(a[1]) \in Resources
    BY <1>1, AttemptFacts, KindOfType
  <1>3. CASE UNCHANGED <<history, inbox>>
    BY <1>1, <1>3, SameRecords DEF HistoryStep, TrimStep
  <1>4. CASE LateListing /\ inbox' = inbox \cup {a} /\ UNCHANGED history
    BY <1>1, <1>4, SameRecords DEF HistoryStep, TrimStep
  <1>5. CASE /\ history' = [history EXCEPT ![ResourceOf(a[1])] = Append(@, NewRecord(a))]
             /\ UNCHANGED inbox
    <2>1. OwnerOK(ResourceOf(a[1]), a)
      BY <1>1 DEF OwnerOK
    <2>2. \A q \in Resources : RecordsStep(q)
      BY <1>1, <1>2, <1>5, <2>1, AppendedRecords
    <2> QED
      BY <1>1, <1>5, <2>2 DEF HistoryStep, TrimStep
  <1> QED
    BY <1>3, <1>4, <1>5 DEF Accept

LEMMA NextHistory ==
    ASSUME IndInv, [Next]_vars
    PROVE  HistoryStep
  <1>0. TypeInv
    BY IndInvParts
  <1>1. CASE UNCHANGED <<history, trimmed, inbox>>
    BY <1>1, SameRecords DEF HistoryStep, TrimStep
  <1>2. CASE PostAccepted \/ PostRefused \/ PostUncertain
    <2>1. UNCHANGED trimmed
      BY <1>2 DEF PostAccepted, PostRefused, PostUncertain, Post
    <2> QED
      BY <1>0, <1>1, <1>2, <2>1, AcceptHistory DEF PostAccepted, PostRefused, PostUncertain
  <1> QED
    BY <1>0, <1>1, <1>2, RemoteMoves, RemoteHistory

LEMMA OwnKept ==
    ASSUME IndInv, [Next]_vars, NEW a \in Attempts, NEW i, Own(a, i)
    PROVE  Own(a, i)'
  <1>1. ResourceOf(a[1]) \in Resources
    BY AttemptFacts, KindOfType
  <1>2. RecordKept(ResourceOf(a[1]), i)
    BY <1>1, NextHistory DEF Own, HistoryStep, RecordsStep
  <1> QED
    BY <1>2 DEF Own, RecordKept, ResourceOf

LEMMA TakenMoves ==
    ASSUME IndInv, [Next]_vars, NEW a \in Attempts, Taken(a)'
    PROVE  Taken(a) \/ Sends(a)
  <1>1. ResourceOf(a[1]) \in Resources /\ a # NULL
    BY AttemptFacts, KindOfType, DeliveryAssumption DEF Attempts
  <1>2. CASE a \in inbox'
    BY <1>2, NextHistory DEF HistoryStep, Taken
  <1>3. ASSUME NEW i \in DOMAIN history'[ResourceOf(a[1])],
               history'[ResourceOf(a[1])][i].owner = a
        PROVE  Taken(a) \/ Sends(a)
    <2> DEFINE r == ResourceOf(a[1])
    <2>1. RecordsStep(r)
      BY <1>1, NextHistory DEF HistoryStep
    <2>2. CASE i \in DOMAIN history[r]
      BY <1>3, <2>1, <2>2 DEF RecordsStep, RecordKept, Taken, Recorded, Own
    <2>3. CASE RecordAdded(r, i)
      BY <1>1, <1>3, <2>3 DEF RecordAdded, OwnerOK, Taken
    <2> QED
      BY <1>3, <2>1, <2>2, <2>3 DEF RecordsStep
  <1> QED
    BY <1>2, <1>3, Zenon DEF Taken, Recorded, Own, ResourceOf

LEMMA SendsFacts ==
    ASSUME IndInv, NEW a, Sends(a)
    PROVE  /\ phase = "up" /\ disp.pc = "post" /\ disp.att = a /\ a \in Attempts
           /\ IsCurrent(a) /\ attempt[a].transport = "sending" /\ Unsent(a)
           /\ posts'[a] # 0 /\ UNCHANGED <<storeVars, poll, exec, phase>>
           /\ disp' = [disp EXCEPT !.pc = "outcome", !.result = disp'.result]
           /\ disp'.pc = "outcome" /\ disp'.att = a /\ disp'.result # "definitive"
  <1>1. /\ phase = "up" /\ disp.pc = "post" /\ disp.att = a
        /\ posts' = [posts EXCEPT ![disp.att] = @ + 1]
        /\ UNCHANGED <<storeVars, poll, exec, phase>>
        /\ \/ disp' = [disp EXCEPT !.pc = "outcome", !.result = "accepted"]
           \/ disp' = [disp EXCEPT !.pc = "outcome", !.result = "uncertain"]
    BY DEF Sends, PostAccepted, PostUncertain, Post, DispatcherOnly, serverVars
  <1>2. a \in Attempts /\ IsCurrent(a) /\ attempt[a].transport = "sending"
    BY <1>1 DEF IndInv, LocalOK, DispatcherKeepsItsAttempt, StillSending
  <1>3. Unsent(a)
    BY <1>1 DEF Unsent
  <1>4. posts'[a] # 0
    <2>1. posts \in [Attempts -> Nat]
      BY DEF IndInv, TypeOK
    <2> QED
      BY <1>1, <1>2, <2>1
  <1>5. /\ disp' = [disp EXCEPT !.pc = "outcome", !.result = disp'.result]
        /\ disp'.pc = "outcome" /\ disp'.att = a /\ disp'.result # "definitive"
    <2>1. disp \in DispatcherState
      BY DEF IndInv, TypeOK
    <2> QED
      BY <1>1, <2>1 DEF DispatcherState
  <1> QED
    BY <1>1, <1>2, <1>3, <1>4, <1>5

LEMMA UnsentIsUntaken ==
    ASSUME IndInv, BindInv, NEW a \in Attempts, Unsent(a)
    PROVE  ~Taken(a)
  BY DEF IndInv, PostOK, BindInv, TakenOK

LEMMA PostsGrow ==
    ASSUME IndInv, [Next]_vars, NEW a \in Attempts, posts[a] # 0
    PROVE  posts'[a] # 0
  <1>1. posts \in [Attempts -> Nat]
    BY DEF IndInv, TypeOK
  <1>2. CASE Remote
    BY <1>2 DEF Remote, RemoteList, RemoteForeign, RemoteProgress, RemoteRelabel, RemoteTrim,
                RemoteOnly
  <1>3. CASE PostAccepted \/ PostRefused \/ PostUncertain
    <2>1. posts' = [posts EXCEPT ![disp.att] = @ + 1]
      BY <1>3 DEF PostAccepted, PostRefused, PostUncertain, Post
    <2> QED
      BY <1>1, <2>1
  <1> QED
    BY <1>2, <1>3, RemoteMoves

(* A definitive outcome is reached without Dokploy taking the request.       *)
LEMMA DefinitiveStep ==
    ASSUME IndInv, BindInv, [Next]_vars, disp'.pc = "outcome", disp'.result = "definitive"
    PROVE  ~Taken(disp.att)'
  <1>0. disp \in DispatcherState /\ disp'.att \in Attempts
    BY IndStep DEF IndInv, TypeOK, LocalOK
  <1>1. ~Sends(disp'.att)
    BY SendsFacts
  <1> SUFFICES ~Taken(disp'.att)
    <2>1. PICK a \in Attempts : a = disp'.att
      BY <1>0
    <2>2. Taken(a)' => Taken(a) \/ Sends(a)
      BY TakenMoves
    <2>3. ~Taken(a)'
      BY <1>1, <2>1, <2>2
    <2> QED
      BY <2>1, <2>3, Zenon DEF Taken, Recorded, Own, ResourceOf
  <1>2. CASE UNCHANGED disp
    BY <1>2 DEF BindInv, TakenOK
  <1>3. CASE disp' = DispatcherIdle
    BY <1>3 DEF DispatcherIdle
  <1>4. ASSUME NEW d \in Deliveries, ClaimPendingAttempt(d) PROVE ~Taken(disp'.att)
    <2>1. /\ Exists(d) /\ Row(d).transport = "pending" /\ disp'.att = Current(d)
      BY <1>4 DEF ClaimPendingAttempt, Claimable, DispatcherIdle
    <2>2. Unsent(Current(d)) /\ Current(d) \in Attempts
      BY <2>1, CurrentType DEF Unsent, Row, IsCurrent, IndInv, TypeOK
    <2> QED
      BY <2>1, <2>2, UnsentIsUntaken
  <1>5. CASE Preflight \/ RequestFails \/ PostRefused
    <2>1. disp.pc \in {"preflight", "record", "post"} /\ disp'.att = disp.att
      BY <1>0, <1>5 DEF Preflight, RequestFails, PostRefused, Post, DispatcherState
    <2>2. Unsent(disp.att) /\ disp.att \in Attempts
      BY <2>1 DEF Unsent, IndInv, LocalOK
    <2> QED
      BY <2>1, <2>2, UnsentIsUntaken
  <1>6. CASE SetDeploymentCursor \/ RecordDeploymentRequest
    BY <1>0, <1>6, StopMoves DEF SetDeploymentCursor, RecordDeploymentRequest, WorkerFails,
                                 DispatcherIdle, DispatcherState
  <1>7. CASE PostAccepted \/ PostUncertain
    BY <1>7, SendsFacts DEF Sends
  <1> QED
    BY <1>2, <1>3, <1>4, <1>5, <1>6, <1>7, DispMoves

LEMMA FailedStep ==
    ASSUME IndInv, BindInv, [Next]_vars, NEW a \in Attempts, IsCurrent(a)',
           attempt'[a].transport = "failed"
    PROVE  ~Taken(a)'
  <1> DEFINE o == attempt[a]
             n == attempt'[a]
  <1>1. IsCurrent(a) /\ (n = o \/ RowChange(a, o, n))
    BY RowMoves, NewAttemptFacts DEF BindInv
  <1>2. RowOK(o)
    BY <1>1, CurrentRow DEF BindInv
  <1>3. ~PollChange(a, o, n)
    BY <1>1, PollChangeBinds
  <1>4. ~CorrectChange(a, o, n)
    BY CorrectChangeBinds
  <1>5. ~ClaimChange(o, n) /\ ~SendChange(a, o, n) /\ ~TimerChange(o, n)
    <2> HIDE DEF o
    <2> QED
      BY <1>2 DEF ClaimChange, SendChange, TimerChange, RowOK
  <1>6. CASE n = o
    <2>1. ~Taken(a)
      BY <1>1, <1>6, CurrentFacts, AttemptFacts, FailedIsUntaken DEF BindInv, TakenOK
    <2> QED
      BY <1>6, <2>1, TakenMoves, SendsFacts
  <1>7. CASE OutcomeChange(a, o, n)
    <2>1. ~Taken(a) /\ disp.pc = "outcome"
      BY <1>7 DEF OutcomeChange, BindInv, TakenOK
    <2> QED
      BY <2>1, TakenMoves, SendsFacts
  <1>8. CASE StartupChange(o, n)
    <2>1. Unsent(a) /\ phase = "binding"
      BY <1>1, <1>8 DEF StartupChange, Unsent
    <2> QED
      BY <2>1, UnsentIsUntaken, TakenMoves, SendsFacts
  <1> QED
    BY <1>1, <1>3, <1>4, <1>5, <1>6, <1>7, <1>8 DEF RowChange

(* The current attempt of a delivery after a step.                           *)
LEMMA CurrentAfter ==
    ASSUME IndInv, [Next]_vars, NEW d \in Deliveries, Exists(d)'
    PROVE  \E a \in Attempts : /\ a = Current(d)' /\ a[1] = d /\ a[2] = delivery'[d].cur
                               /\ IsCurrent(a)' /\ Row(d)' = attempt'[a]
  <1>1. delivery'[d] \in DeliveryRow
    BY IndStep DEF IndInv, TypeOK
  <1>2. delivery'[d].cur \in 0..MaxAttempts /\ delivery'[d].cur # 0
    BY <1>1 DEF DeliveryRow, Exists
  <1>3. Current(d)' \in Attempts /\ Current(d)'[1] = d /\ Current(d)'[2] = delivery'[d].cur
    BY <1>2, DeliveryAssumption DEF Current, Attempts
  <1>4. PICK a \in Attempts : a = Current(d)'
    BY <1>3
  <1>5. IsCurrent(a)' /\ Row(d)' = attempt'[a]
    BY <1>3, <1>4 DEF IsCurrent, Row
  <1> QED
    BY <1>3, <1>4, <1>5

LEMMA TakenStep ==
    ASSUME IndInv, BindInv, [Next]_vars
    PROVE  TakenOK'
  <1>1. ASSUME NEW a \in Attempts, Taken(a)' PROVE posts'[a] # 0
    <2>1. Taken(a) => posts[a] # 0
      BY DEF BindInv, TakenOK
    <2> QED
      BY <1>1, <2>1, TakenMoves, PostsGrow, SendsFacts
  <1>2. ASSUME NEW d \in Deliveries, Exists(d)', Row(d)'.transport = "failed"
        PROVE  /\ Current(d)' \notin inbox'
               /\ \A i \in DOMAIN history'[ResourceOf(d)] :
                     history'[ResourceOf(d)][i].owner # Current(d)'
    <2>1. PICK a \in Attempts : /\ a = Current(d)' /\ a[1] = d
                                /\ IsCurrent(a)' /\ Row(d)' = attempt'[a]
      BY <1>2, CurrentAfter
    <2>2. ~Taken(a)'
      BY <1>2, <2>1, FailedStep
    <2> QED
      BY <2>1, <2>2 DEF Taken, Recorded, Own, ResourceOf
  <1>3. FailedNeverDeployed'
    BY <1>2 DEF FailedNeverDeployed, ResourceOf
  <1> QED
    BY <1>1, <1>3, DefinitiveStep DEF TakenOK

-----------------------------------------------------------------------------
(* What holds of every remote.                                               *)

LEMMA InitBind == Init => BindInv
  <1> SUFFICES ASSUME Init PROVE BindInv
    OBVIOUS
  <1>1. \A d \in Deliveries : ~Exists(d)
    BY DEF Init, Exists, NoDelivery
  <1>2. \A a \in Attempts : ~Taken(a)
    <2>1. \A a \in Attempts : history[ResourceOf(a[1])] = <<>>
      BY AttemptFacts, KindOfType DEF Init
    <2> QED
      BY <2>1 DEF Init, Taken, Recorded, Own
  <1>3. TakenOK
    BY <1>1, <1>2 DEF TakenOK, FailedNeverDeployed, Init, DispatcherIdle
  <1>4. BindingsOK
    BY <1>1 DEF BindingsOK, Init
  <1>5. PollBinds /\ SeensOK
    BY DEF Init, PollBinds, SeensOK, PollerIdle, ExecuteIdle
  <1> QED
    BY <1>3, <1>4, <1>5 DEF BindInv

LEMMA BindStep == IndInv /\ BindInv /\ [Next]_vars => BindInv'
  BY TakenStep, BindingsStep, PollBindsStep, SeensStep DEF BindInv

(* The statuses, deployment IDs and claims of every attempt agree, and what   *)
(* Dokploy took was sent.                                                    *)
THEOREM BindInductive == Spec => [](IndInv /\ BindInv)
  <1>1. Init => IndInv
    BY InitType, InitSafe, IndInvParts
  <1> QED
    BY <1>1, InitBind, IndStep, BindStep, PTL DEF Spec

(* A failed transport means that Dokploy never took the request, whatever     *)
(* crashes, lost answers and operators did before: a retry of it, which       *)
(* Execute does not reconcile, cannot start a deployment twice.               *)
THEOREM FailedMeansUntaken == Spec => []FailedNeverDeployed
  <1>1. BindInv => FailedNeverDeployed
    BY DEF BindInv, TakenOK
  <1> QED
    BY <1>1, BindInductive, PTL

LEMMA BindingKept ==
    ASSUME IndInv, BindInv, [Next]_vars, NEW a \in Attempts, attempt[a].depId # NULL,
           delivery'[a[1]].cur # 0
    PROVE  attempt'[a].depId = attempt[a].depId
  <1> DEFINE o == attempt[a]
             n == attempt'[a]
  <1>1. a[1] \in Deliveries /\ a[2] \in Nat \ {0}
    BY AttemptFacts
  <1>2. RowStep(a)
    BY <1>1, CurGrows DEF Exists
  <1>3. CASE n = o
    BY <1>3
  <1>4. CASE a[2] > delivery[a[1]].cur
    BY <1>4, NewAttemptFacts DEF BindInv, BindingsOK
  <1>5. CASE IsCurrent(a) /\ RowChange(a, o, n)
    <2>1. PollChange(a, o, n) => n.depId = o.depId
      BY <1>5, PollChangeBinds
    <2>2. CorrectChange(a, o, n) => n.depId = o.depId
      BY CorrectChangeBinds
    <2> QED
      BY <1>5, <2>1, <2>2 DEF RowChange, ClaimChange, SendChange, OutcomeChange, TimerChange,
                              StartupChange
  <1> QED
    BY <1>2, <1>3, <1>4, <1>5 DEF RowStep

(* A deployment ID, once bound, is immutable: not a poll that finds another   *)
(* deployment, not a stale claim, not an operator's reconciliation and not a  *)
(* restart replaces or forgets it while its row exists.                       *)
THEOREM BindingNeverChanges == Spec => BindingImmutable
  <1>1. IndInv /\ BindInv /\ [Next]_vars =>
           [\A a \in Attempts : attempt[a].depId # NULL /\ delivery'[a[1]].cur # 0 =>
                 attempt'[a].depId = attempt[a].depId]_vars
    BY BindingKept
  <1> QED
    BY <1>1, BindInductive, PTL DEF BindingImmutable, Spec

LEMMA DoneKept ==
    ASSUME IndInv, BindInv, [Next]_vars, NEW d \in Deliveries, Exists(d),
           Row(d).deployment = "done", delivery'[d].cur # 0
    PROVE  /\ delivery'[d] = delivery[d]
           /\ attempt'[Current(d)] = attempt[Current(d)]
  <1> DEFINE a == Current(d)
             o == attempt[a]
             n == attempt'[a]
  <1>1. a \in Attempts /\ a[1] = d /\ IsCurrent(a) /\ o.deployment = "done"
    BY CurrentType DEF IsCurrent, IndInv, TypeOK, Row
  <1>2. BindingOK(o) /\ RowOK(o)
    BY <1>1, CurrentRow DEF BindInv
  <1>3. o.transport \notin {"pending", "sending"} /\ o.deployment \notin Monitored
    <2> HIDE DEF o
    <2> QED
      BY <1>1, <1>2 DEF RowOK, Monitored
  <1>4. ASSUME NEW u \in Operators PROVE ~Corrects(u, a)
    BY <1>1, SeenIsBound DEF Corrects
  <1>5. CurStep(d) /\ RowStep(a) /\ delivery[d].cur \in Nat /\ delivery[d].cur # 0
    BY <1>1, CurGrows DEF Exists
  <1>6. delivery'[d].cur = delivery[d].cur
    BY <1>4, <1>5 DEF CurStep, Appends
  <1>7. n = o
    <2>1. ~PollChange(a, o, n)
      BY <1>1, <1>3, PollChangeBinds
    <2>2. ~CorrectChange(a, o, n)
      BY <1>4 DEF CorrectChange
    <2>3. ~ClaimChange(o, n) /\ ~SendChange(a, o, n) /\ ~OutcomeChange(a, o, n)
      BY <1>3 DEF ClaimChange, SendChange, OutcomeChange
    <2>4. ~TimerChange(o, n) /\ ~StartupChange(o, n)
      BY <1>3 DEF TimerChange, StartupChange, Active
    <2>5. ~(a[2] > delivery[a[1]].cur)
      BY <1>1, <1>5 DEF IsCurrent
    <2> QED
      BY <1>5, <2>1, <2>2, <2>3, <2>4, <2>5 DEF RowStep, RowChange
  <1>8. delivery'[d] \in DeliveryRow /\ delivery[d] \in DeliveryRow
    BY IndStep DEF IndInv, TypeOK
  <1>9. /\ delivery[d].transport = o.transport /\ delivery[d].deployment = o.deployment
    BY DEF IndInv, DeliveryMirrorsAttempt, Row
  <1>10. Exists(d)' /\ Row(d)' = n
    BY <1>5, <1>6 DEF Exists, Row, Current
  <1>11. delivery'[d].transport = n.transport /\ delivery'[d].deployment = n.deployment
    BY <1>10, IndStep DEF IndInv, DeliveryMirrorsAttempt
  <1>12. delivery'[d] = delivery[d]
    <2> HIDE DEF o, n
    <2> QED
      BY <1>6, <1>7, <1>8, <1>9, <1>11 DEF DeliveryRow
  <1> QED
    BY <1>7, <1>12

(* A deployment seen to succeed is the delivery's last word: a late poll, an  *)
(* operator with an older view, and startup recovery leave it alone.          *)
THEOREM DoneStaysDone == Spec => DoneIsFinal
  <1>1. IndInv /\ BindInv /\ [Next]_vars =>
           [\A d \in Deliveries :
              Exists(d) /\ Row(d).deployment = "done" /\ delivery'[d].cur # 0 =>
                 /\ delivery'[d] = delivery[d]
                 /\ attempt'[Current(d)] = attempt[Current(d)]]_vars
    BY DoneKept
  <1> QED
    BY <1>1, BindInductive, PTL DEF DoneIsFinal, Spec

-----------------------------------------------------------------------------
(* A remote under which correlation is exact.                                *)

LEMMA BoundIsOwn ==
    BindsItsOwnDeployment <=> \A a \in Attempts : attempt[a].depId # NULL => Own(a, attempt[a].depId)
  BY DEF BindsItsOwnDeployment, Own

(* Then the only record a step adds is the dispatcher's.                     *)
LEMMA OnlySendsAdd ==
    ASSUME ExactRemote, IndInv, CursorsOK, [Next]_vars, NEW r \in Resources,
           NEW i \in DOMAIN history'[r], i \notin DOMAIN history[r]
    PROVE  Sends(history'[r][i].owner) /\ ResourceOf(history'[r][i].owner[1]) = r
  <1>1. RecordAdded(r, i)
    BY NextHistory DEF HistoryStep, RecordsStep
  <1> QED
    BY <1>1 DEF RecordAdded, OwnerOK, CursorsOK, ExactRemote

LEMMA HistoryType ==
    ASSUME IndInv, NEW r \in Resources
    PROVE  /\ history[r] \in Seq(Record) /\ trimmed[r] \in Nat /\ Len(history[r]) \in Nat
           /\ DOMAIN history[r] = 1..Len(history[r])
  BY DEF IndInv, TypeOK

(* The sending delivery is unbound and in flight, and alone so.              *)
LEMMA SenderAlone ==
    ASSUME ExactRemote, IndInv, NEW a \in Attempts, Sends(a), NEW d \in Deliveries,
           UnboundInFlight(d), ResourceOf(a[1]) = ResourceOf(d)
    PROVE  a = Current(d)
  <1>1. IsCurrent(a) /\ attempt[a].transport = "sending"
    BY SendsFacts
  <1>2. Exists(a[1]) /\ Current(a[1]) = a /\ Row(a[1]) = attempt[a] /\ a[1] \in Deliveries
    BY <1>1, CurrentFacts, AttemptFacts
  <1>3. RowOK(Row(a[1]))
    BY <1>2 DEF IndInv, RowsOK
  <1>4. UnboundInFlight(a[1])
    BY <1>1, <1>2, <1>3 DEF UnboundInFlight, RowOK
  <1>5. a[1] = d
    BY <1>2, <1>4 DEF ExactRemote, IndInv, SendsSerialized
  <1> QED
    BY <1>2, <1>5

(* A row that is unbound, in flight and has a cursor had it before, unless   *)
(* the dispatcher has just recorded it.                                      *)
LEMMA CursorMoves ==
    ASSUME IndInv, BindInv, [Next]_vars, NEW a \in Attempts, IsCurrent(a)',
           attempt'[a].depId = NULL, attempt'[a].cursor # NULL,
           attempt'[a].transport = "sending" \/ attempt'[a].deployment \in Monitored
    PROVE  /\ IsCurrent(a) /\ UnboundInFlight(a[1])
           /\ \/ attempt'[a].cursor = attempt[a].cursor
              \/ disp.pc = "cursor" /\ disp.att = a /\ attempt'[a].cursor = disp.cursor
  <1> DEFINE o == attempt[a]
             n == attempt'[a]
  <1>1. IsCurrent(a) /\ (n = o \/ RowChange(a, o, n))
    BY RowMoves, NewAttemptFacts DEF BindInv
  <1>2. RowOK(o)
    BY <1>1, CurrentRow DEF BindInv
  <1>3. PollChange(a, o, n) => o.deployment \in Monitored /\ o.depId = NULL /\ n.cursor = o.cursor
    BY <1>1, PollChangeBinds DEF PollChange
  <1>4. ~CorrectChange(a, o, n)
    BY CorrectChangeBinds
  <1>5. /\ o.depId = NULL /\ (o.transport = "sending" \/ o.deployment \in Monitored)
        /\ \/ n.cursor = o.cursor
           \/ disp.pc = "cursor" /\ disp.att = a /\ n.cursor = disp.cursor
    <2>0. n.depId = NULL /\ n.cursor # NULL /\ (n.transport = "sending" \/ n.deployment \in Monitored)
      OBVIOUS
    <2> HIDE DEF o, n
    <2>1. CASE ClaimChange(o, n)
      BY <1>2, <2>0, <2>1 DEF ClaimChange, RowOK
    <2>2. CASE SendChange(a, o, n) \/ OutcomeChange(a, o, n) \/ TimerChange(o, n)
      BY <2>0, <2>2 DEF SendChange, OutcomeChange, TimerChange
    <2>3. CASE StartupChange(o, n)
      BY <1>2, <2>0, <2>3 DEF StartupChange, RowOK, Active
    <2>4. CASE n = o
      BY <2>0, <2>4
    <2> QED
      BY <1>1, <1>3, <1>4, <2>1, <2>2, <2>3, <2>4 DEF RowChange
  <1>6. UnboundInFlight(a[1])
    BY <1>1, <1>5, CurrentFacts DEF UnboundInFlight
  <1> QED
    BY <1>1, <1>5, <1>6

LEMMA CursorRowStep ==
    ASSUME ExactRemote, IndInv, BindInv, CursorsOK, [Next]_vars,
           NEW a \in Attempts, IsCurrent(a)',
           attempt'[a].depId = NULL, attempt'[a].cursor # NULL,
           attempt'[a].transport = "sending" \/ attempt'[a].deployment \in Monitored,
           NEW i \in DOMAIN history'[ResourceOf(a[1])], i > attempt'[a].cursor
    PROVE  Own(a, i)'
  <1> DEFINE r == ResourceOf(a[1])
  <1>1. r \in Resources /\ a[1] \in Deliveries
    BY AttemptFacts, KindOfType
  <1>2. /\ IsCurrent(a) /\ UnboundInFlight(a[1])
        /\ \/ attempt'[a].cursor = attempt[a].cursor
           \/ disp.pc = "cursor" /\ disp.att = a /\ attempt'[a].cursor = disp.cursor
    BY CursorMoves
  <1>3. Current(a[1]) = a /\ Row(a[1]) = attempt[a]
    BY <1>2, CurrentFacts
  <1>4. CASE i \in DOMAIN history[r]
    <2>1. CASE attempt'[a].cursor = attempt[a].cursor
      <3>1. Own(a, i)
        BY <1>1, <1>2, <1>3, <1>4, <2>1 DEF CursorsOK
      <3> QED
        BY <3>1, OwnKept
    <2>2. CASE disp.pc = "cursor" /\ disp.att = a /\ attempt'[a].cursor = disp.cursor
      <3>1. i <= disp.cursor /\ disp.cursor # NULL
        BY <1>4, <2>2 DEF CursorsOK
      <3>2. i \in Nat /\ disp.cursor \in Nat
        BY <1>1, <1>4, <3>1, HistoryType DEF IndInv, TypeOK, DispatcherState
      <3> QED
        BY <2>2, <3>1, <3>2
    <2> QED
      BY <1>2, <2>1, <2>2
  <1>5. CASE i \notin DOMAIN history[r]
    <2> DEFINE b == history'[r][i].owner
    <2>1. Sends(b) /\ ResourceOf(b[1]) = r
      BY <1>1, <1>5, OnlySendsAdd
    <2>2. b \in Attempts
      BY <2>1, SendsFacts
    <2>3. b = a
      BY <1>1, <1>2, <1>3, <2>1, <2>2, SenderAlone
    <2> QED
      BY <2>3 DEF Own, ResourceOf
  <1> QED
    BY <1>4, <1>5

LEMMA CursorDispStep ==
    ASSUME ExactRemote, IndInv, CursorsOK, [Next]_vars, disp'.pc = "cursor"
    PROVE  /\ disp'.cursor # NULL
           /\ \A i \in DOMAIN history'[ResourceOf(disp'.att[1])] : i <= disp'.cursor
  <1>0. disp \in DispatcherState /\ disp'.att \in Attempts
    BY IndStep DEF IndInv, TypeOK, LocalOK
  <1>1. \A b : ~Sends(b)
    BY SendsFacts
  <1>2. \A r \in Resources : DOMAIN history'[r] \subseteq DOMAIN history[r]
    BY <1>1, OnlySendsAdd
  <1>3. ResourceOf(disp'.att[1]) \in Resources
    BY <1>0, AttemptFacts, KindOfType
  <1>4. CASE UNCHANGED disp
    BY <1>2, <1>3, <1>4 DEF CursorsOK
  <1>5. CASE Preflight
    <2> DEFINE r == ResourceOf(disp.att[1])
    <2>1. disp'.att = disp.att /\ disp'.cursor = LatestDeploymentID(r)
      BY <1>0, <1>5 DEF Preflight, DispatcherState
    <2>2. r \in Resources
      BY <1>3, <2>1
    <2>3. /\ trimmed[r] \in Nat /\ Len(history[r]) \in Nat /\ DOMAIN history[r] = 1..Len(history[r])
          /\ trimmed[r] = 0 \/ trimmed[r] < Len(history[r])
      BY <2>2, HistoryType DEF CursorsOK
    <2> HIDE DEF r
    <2>4. LatestDeploymentID(r) = Len(history[r])
      <3>1. Len(history[r]) # 0 => Len(history[r]) \in Visible(r)
        BY <2>3 DEF Visible
      <3> QED
        BY <3>1 DEF LatestDeploymentID
    <2>5. Len(history[r]) # NULL
      BY <2>3, DeliveryAssumption
    <2>6. \A i \in DOMAIN history'[r] : i <= Len(history[r])
      BY <1>2, <2>2, <2>3
    <2> QED
      BY <2>1, <2>4, <2>5, <2>6 DEF r
  <1>6. ASSUME NEW d \in Deliveries, ClaimPendingAttempt(d) PROVE FALSE
    BY <1>6 DEF ClaimPendingAttempt, DispatcherIdle
  <1>7. ~SetDeploymentCursor /\ ~RecordDeploymentRequest
    BY <1>0, StopMoves DEF SetDeploymentCursor, RecordDeploymentRequest, WorkerFails,
                           DispatcherIdle, DispatcherState
  <1>8. ~RequestFails /\ ~PostAccepted /\ ~PostRefused /\ ~PostUncertain
    BY <1>0 DEF RequestFails, PostAccepted, PostRefused, PostUncertain, Post, DispatcherState
  <1>9. disp' # DispatcherIdle
    BY DEF DispatcherIdle
  <1> QED
    BY <1>4, <1>5, <1>6, <1>7, <1>8, <1>9, DispMoves

LEMMA CursorsStep ==
    ASSUME ExactRemote, IndInv, BindInv, CursorsOK, [Next]_vars
    PROVE  CursorsOK'
  <1>1. inbox' = {}
    BY NextHistory DEF HistoryStep, CursorsOK, ExactRemote
  <1>2. ASSUME NEW r \in Resources PROVE trimmed'[r] = 0 \/ trimmed'[r] < Len(history'[r])
    <2>1. /\ trimmed[r] \in Nat /\ Len(history[r]) \in Nat /\ DOMAIN history[r] = 1..Len(history[r])
          /\ trimmed[r] = 0 \/ trimmed[r] < Len(history[r])
      BY HistoryType DEF CursorsOK
    <2>2. Len(history'[r]) \in Nat /\ DOMAIN history'[r] = 1..Len(history'[r])
      <3>1. history'[r] \in Seq(Record)
        BY IndStep DEF IndInv, TypeOK
      <3> QED
        BY <3>1
    <2>3. DOMAIN history[r] \subseteq DOMAIN history'[r] /\ TrimStep(r)
      BY NextHistory DEF HistoryStep, RecordsStep, RecordKept
    <2>4. Len(history[r]) <= Len(history'[r])
      BY <2>1, <2>2, <2>3
    <2> QED
      BY <2>1, <2>2, <2>3, <2>4 DEF TrimStep
  <1>3. ASSUME NEW d \in Deliveries, UnboundInFlight(d)', Row(d)'.cursor # NULL,
               NEW i \in DOMAIN history'[ResourceOf(d)], i > Row(d)'.cursor
        PROVE  Own(Current(d), i)'
    <2>1. Exists(d)' /\ Row(d)'.depId = NULL
          /\ (Row(d)'.transport = "sending" \/ Row(d)'.deployment \in Monitored)
      BY <1>3 DEF UnboundInFlight
    <2>2. PICK a \in Attempts : /\ a = Current(d)' /\ a[1] = d
                                /\ IsCurrent(a)' /\ Row(d)' = attempt'[a]
      BY <2>1, CurrentAfter
    <2>3. Own(a, i)'
      BY <1>3, <2>1, <2>2, CursorRowStep
    <2> QED
      BY <2>2, <2>3 DEF Own, ResourceOf
  <1>4. \A d \in Deliveries : UnboundInFlight(d)' /\ Row(d)'.cursor # NULL =>
           \A i \in DOMAIN history'[ResourceOf(d)] : i > Row(d)'.cursor => Own(Current(d), i)'
    BY <1>3
  <1> QED
    BY <1>1, <1>2, <1>4, CursorDispStep DEF CursorsOK, ResourceOf

-----------------------------------------------------------------------------
(* Every lookup answers with a deployment of the attempt.                    *)

LEMMA FindIsOwn ==
    ASSUME IndInv, NEW a \in Attempts, NEW id, id # NULL => Own(a, id),
           NEW i \in FindDeployment(ResourceOf(a[1]), a, id)
    PROVE  Own(a, i)
  <1>1. ResourceOf(a[1]) \in Resources
    BY AttemptFacts, KindOfType
  <1>2. Visible(ResourceOf(a[1])) \subseteq DOMAIN history[ResourceOf(a[1])]
    BY <1>1, VisibleType DEF IndInv, TypeOK
  <1>3. i \in Visible(ResourceOf(a[1])) /\ (IF id # NULL THEN i = id ELSE Labelled(ResourceOf(a[1]), i, a))
    BY DEF FindDeployment, Newest
  <1> QED
    BY <1>2, <1>3 DEF Own, Labelled

LEMMA FindAfterIsCandidate ==
    ASSUME NEW r, NEW a, NEW c
    PROVE  FindDeploymentAfter(r, a, c) \subseteq {i \in Visible(r) : i > c}
  BY DEF FindDeploymentAfter, Candidates

LEMMA PollUpdateMatch ==
    ASSUME NEW w, NEW ids, NEW unsafe, NEW t, PollUpdate(w, ids, unsafe, t).depId # NULL
    PROVE  PollUpdate(w, ids, unsafe, t).depId \in ids
  BY DEF PollUpdate

LEMMA PollUpdateMiss ==
    ASSUME NEW w, NEW t PROVE PollUpdate(w, {}, FALSE, t).depId = NULL
  BY DEF PollUpdate

LEMMA LookupIsOwn ==
    ASSUME IndInv, BindInv, OwnInv, NEW w \in poll.todo, PollLookup(w), PollClaimHeld(w.att),
           poll'.update.depId # NULL
    PROVE  Own(w.att, poll'.update.depId)
  <1> DEFINE a == w.att
             r == ResourceOf(a[1])
             byCursor == w.depId = NULL /\ w.cursor # NULL
             ids == IF byCursor THEN FindDeploymentAfter(r, a, w.cursor)
                                ELSE FindDeployment(r, a, w.depId)
             unsafe == byCursor /\ UnsafeCorrelation(r, a, w.cursor)
  <1>1. a \in Attempts /\ poll \in PollerState
    BY DEF IndInv, TypeOK, PollerState, PollWork
  <1>2. a[1] \in Deliveries /\ r \in Resources
    BY <1>1, AttemptFacts, KindOfType
  <1>3. \/ poll' = [poll EXCEPT !.todo = @ \ {w}, !.item = w,
                                !.update = PollUpdate(w, ids, unsafe, poll.at)]
        \/ poll' = [poll EXCEPT !.todo = @ \ {w}, !.item = w,
                                !.update = PollUpdate(w, {}, FALSE, poll.at)]
    BY DEF PollLookup
  <1>4. poll'.update.depId \in ids
    <2> HIDE DEF ids, unsafe
    <2>1. \/ poll'.update = PollUpdate(w, ids, unsafe, poll.at)
          \/ poll'.update = PollUpdate(w, {}, FALSE, poll.at)
      BY <1>1, <1>3 DEF PollerState
    <2>2. CASE poll'.update = PollUpdate(w, ids, unsafe, poll.at)
      BY <2>2, PollUpdateMatch
    <2>3. CASE poll'.update = PollUpdate(w, {}, FALSE, poll.at)
      BY <2>3, PollUpdateMiss
    <2> QED
      BY <2>1, <2>2, <2>3
  <1>5. /\ attempt[a].deployment \in Monitored /\ attempt[a].depId = w.depId
        /\ attempt[a].cursor = w.cursor /\ IsCurrent(a)
    BY DEF IndInv, PollOK, WorkOK, ClaimOK, BindInv, PollBinds, ReadOK, PollClaimHeld
  <1>6. Current(a[1]) = a /\ Row(a[1]) = attempt[a] /\ Exists(a[1])
    BY <1>1, <1>5, CurrentFacts
  <1>7. CASE byCursor
    <2>1. UnboundInFlight(a[1]) /\ Row(a[1]).cursor = w.cursor /\ Row(a[1]).cursor # NULL
      BY <1>5, <1>6, <1>7 DEF UnboundInFlight
    <2>2. poll'.update.depId \in Visible(r) /\ poll'.update.depId > w.cursor
      BY <1>4, <1>7, FindAfterIsCandidate
    <2>3. poll'.update.depId \in DOMAIN history[r]
      BY <1>2, <2>2, VisibleType DEF IndInv, TypeOK
    <2> QED
      BY <1>2, <1>6, <2>1, <2>2, <2>3 DEF OwnInv, CursorsOK
  <1>8. CASE ~byCursor
    <2>1. w.depId # NULL => Own(a, w.depId)
      BY <1>1, <1>5, BoundIsOwn DEF OwnInv, OwnOK
    <2> QED
      BY <1>1, <1>4, <1>8, <2>1, FindIsOwn
  <1> QED
    BY <1>7, <1>8

(* The record i is the attempt's own after the step.                         *)
OwnNext(a, i) ==
    i \in DOMAIN history'[ResourceOf(a[1])] /\ history'[ResourceOf(a[1])][i].owner = a

LEMMA OwnIsNext ==
    ASSUME IndInv, [Next]_vars, NEW a \in Attempts, NEW i, Own(a, i) PROVE OwnNext(a, i)
  BY OwnKept DEF Own, OwnNext, ResourceOf

LEMMA OwnRowsStep ==
    ASSUME IndInv, BindInv, OwnInv, [Next]_vars, NEW a \in Attempts, attempt'[a].depId # NULL
    PROVE  OwnNext(a, attempt'[a].depId)
  <1> DEFINE o == attempt[a]
             n == attempt'[a]
  <1>1. o.depId # NULL => Own(a, o.depId)
    BY BoundIsOwn DEF OwnInv, OwnOK
  <1>2. CASE n.depId = o.depId
    BY <1>1, <1>2, OwnIsNext
  <1>3. CASE n = NewAttempt
    BY <1>3, NewAttemptFacts
  <1>4. CASE PollChange(a, o, n)
    <2>1. /\ poll.item # NULL /\ poll.item.att = a /\ PollClaimHeld(a)
          /\ n.depId = IF poll.update.depId # NULL THEN poll.update.depId ELSE o.depId
      BY <1>4 DEF PollChange, CompletePoll, DeploymentID
    <2>2. poll.update.depId # NULL => Own(a, poll.update.depId)
      BY <2>1 DEF OwnInv, OwnOK
    <2>3. Own(a, n.depId)
      BY <1>1, <2>1, <2>2
    <2> QED
      BY <2>3, OwnIsNext
  <1>5. CASE CorrectChange(a, o, n)
    <2>1. PICK u \in Operators : /\ Corrects(u, a) /\ exec[u].update.correct
                                 /\ n.depId = exec[u].update.depId
      BY <1>5 DEF CorrectChange
    <2>2. Own(a, n.depId)
      BY <2>1 DEF Corrects, OwnInv, OwnOK
    <2> QED
      BY <2>2, OwnIsNext
  <1>6. Gone(a) \/ RowStep(a)
    BY NextTables DEF TableStep
  <1> QED
    BY <1>2, <1>3, <1>4, <1>5, <1>6
       DEF Gone, RowStep, RowChange, ClaimChange, SendChange, OutcomeChange, TimerChange,
           StartupChange

LEMMA OwnPollStep ==
    ASSUME IndInv, BindInv, OwnInv, [Next]_vars, poll'.item # NULL,
           PollClaimHeld(poll.item.att)', poll'.update.depId # NULL
    PROVE  Own(poll.item.att, poll.update.depId)'
  <1>1. CASE UNCHANGED poll
    <2>1. PICK w \in PollWork : w = poll.item
      BY <1>1 DEF IndInv, TypeOK, PollerState
    <2>2. /\ WorkOK(w) /\ poll.at \in Nat /\ phase = "up"
      BY <1>1, <2>1 DEF IndInv, LocalOK, PollOK, DownIsIdle, PollerIdle
    <2>3. ~CompletePoll /\ ~ListDuePolls
      <3>1. CompletePoll => poll'.item = NULL
        BY DEF CompletePoll, PollerIdle, IndInv, TypeOK, PollerState
      <3>2. ListDuePolls => poll.item = NULL
        BY DEF ListDuePolls, PollerIdle
      <3> QED
        BY <1>1, <3>1, <3>2
    <2>4. PollClaimHeld(w.att)'
      BY <1>1, <2>1 DEF PollClaimHeld, IsCurrent
    <2>5. PollClaimHeld(w.att)
      BY <1>1, <2>2, <2>3, <2>4, ClaimKept
    <2>6. w.att \in Attempts /\ Own(w.att, poll.update.depId)
      BY <1>1, <2>1, <2>5 DEF OwnInv, OwnOK, PollWork
    <2>7. OwnNext(w.att, poll.update.depId)
      BY <2>6, OwnIsNext
    <2> QED
      BY <1>1, <2>1, <2>7 DEF Own, OwnNext, ResourceOf
  <1>2. CASE \E w \in poll.todo : PollLookup(w)
    <2>1. PICK w \in poll.todo : PollLookup(w)
      BY <1>2
    <2>2. /\ w \in PollWork /\ poll'.item = w /\ poll'.at = poll.at
          /\ UNCHANGED <<delivery, attempt, history>>
      BY <2>1, LookupAnswers
    <2>3. PollClaimHeld(w.att)
      BY <2>2 DEF PollClaimHeld, IsCurrent
    <2>4. Own(w.att, poll'.update.depId)
      BY <2>1, <2>3, LookupIsOwn
    <2> QED
      BY <2>2, <2>4 DEF Own, ResourceOf
  <1>3. CASE ListDuePolls \/ CompletePoll \/ poll' = PollerIdle
    <2>1. CompletePoll => poll'.item = NULL
      BY DEF CompletePoll, PollerIdle, IndInv, TypeOK, PollerState
    <2>2. ListDuePolls => poll'.item = NULL
      BY DEF ListDuePolls, PollerIdle
    <2> QED
      BY <1>3, <2>1, <2>2 DEF PollerIdle
  <1> QED
    BY <1>1, <1>2, <1>3, PollMoves

(* What a management request has seen and will write.                        *)
RequestOwns(x) ==
    /\ x.seen.depId # NULL => Own(x.seen.att, x.seen.depId)
    /\ x.pc = "apply" /\ x.update.correct => Own(x.seen.att, x.update.depId)

LEMMA RequestOwnsKept ==
    ASSUME IndInv, [Next]_vars, NEW x, x.seen.att \in Attempts, RequestOwns(x)
    PROVE  RequestOwns(x)'
  BY OwnKept DEF RequestOwns

(* What a reconciliation writes, from the records it found.                  *)
LEMMA ReconciledMatch ==
    ASSUME NEW op, NEW r, NEW ids, Reconciled(op, r, ids).correct
    PROVE  ids # {} /\ Reconciled(op, r, ids).depId \in ids
  BY DEF Reconciled, CreateOnly

LEMMA ReconciledMiss ==
    ASSUME NEW op, NEW r, NEW ids, ~Reconciled(op, r, ids).correct
    PROVE  ids = {}
  BY DEF Reconciled

LEMMA ReconciledCreates ==
    ASSUME NEW op, NEW r, NEW ids, Reconciled(op, r, ids).correct, Reconciled(op, r, ids).create
    PROVE  history[r][Reconciled(op, r, ids).depId].status \in {"error", "cancelled"}
  <1> DEFINE i == CHOOSE j \in ids : TRUE
             s == history[r][i].status
  <1>1. ids # {}
    BY ReconciledMatch
  <1>2. Reconciled(op, r, ids).depId = i
    BY <1>1 DEF Reconciled
  <1>3. Observed(s) \in {"error", "cancelled"}
    BY <1>1 DEF Reconciled
  <1>4. s \in {"error", "cancelled"}
    <2> HIDE DEF s
    <2> QED
      BY <1>3 DEF Observed
  <1> QED
    BY <1>2, <1>4

(* The three steps of a management request.                                  *)
LEMMA StartFacts ==
    ASSUME IndInv, NEW u \in Operators, NEW d \in Deliveries, NEW op \in Operation,
           ExecuteStart(u, d, op)
    PROVE  /\ Exists(d) /\ Current(d) \in Attempts /\ Current(d)[1] = d
           /\ exec'[u].seen.att = Current(d) /\ exec'[u].seen.depId = Row(d).depId
           /\ exec'[u].pc = "apply" =>
                 exec'[u].update = CreateOnly /\ ~NeedsReconciliation(Row(d).transport, Row(d).deployment)
           /\ exec'[u].pc = "apply" => Row(d).transport = "failed"
           /\ \A v \in Operators : v # u => exec'[v] = exec[v]
           /\ UNCHANGED <<delivery, attempt, history, inbox>>
  <1>1. /\ Exists(d) /\ exec \in [Operators -> ExecuteState]
        /\ UNCHANGED <<delivery, attempt, history, inbox>>
    BY DEF ExecuteStart, ExecuteOnly, storeVars, remoteVars, IndInv, TypeOK
  <1>2. Current(d) \in Attempts /\ Current(d)[1] = d
    BY <1>1, CurrentType DEF IndInv, TypeOK
  <1>3. /\ exec'[u].seen.att = Current(d) /\ exec'[u].seen.depId = Row(d).depId
        /\ exec'[u].pc = "apply" =>
              exec'[u].update = CreateOnly /\ ~NeedsReconciliation(Row(d).transport, Row(d).deployment)
        /\ \A v \in Operators : v # u => exec'[v] = exec[v]
    BY <1>1 DEF ExecuteStart, ExecuteIdle
  <1>4. op \in AllowedOperations(Row(d).transport, Row(d).deployment)
    BY DEF ExecuteStart
  <1>5. exec'[u].pc = "apply" => Row(d).transport = "failed"
    BY <1>3, <1>4 DEF NeedsReconciliation, AllowedOperations
  <1> QED
    BY <1>1, <1>2, <1>3, <1>5

LEMMA ReconcileFacts ==
    ASSUME IndInv, NEW u \in Operators, ExecuteLookup(u)
    PROVE  /\ exec[u].pc = "lookup" /\ exec[u].seen.att \in Attempts
           /\ \/ exec'[u] = ExecuteIdle
              \/ /\ exec'[u].seen = exec[u].seen /\ exec'[u].pc = "apply"
                 /\ LET a == exec[u].seen.att
                        r == ResourceOf(a[1])
                    IN exec'[u].update =
                          Reconciled(exec[u].op, r, FindDeployment(r, a, exec[u].seen.depId))
           /\ \A v \in Operators : v # u => exec'[v] = exec[v]
           /\ UNCHANGED <<history, trimmed, inbox>>
  <1> DEFINE a == exec[u].seen.att
             m == Reconciled(exec[u].op, ResourceOf(a[1]),
                             FindDeployment(ResourceOf(a[1]), a, exec[u].seen.depId))
  <1>1. /\ exec[u].pc = "lookup" /\ UNCHANGED <<history, trimmed, inbox>>
        /\ \/ exec' = [exec EXCEPT ![u].pc = "apply", ![u].update = m]
           \/ exec' = [exec EXCEPT ![u] = ExecuteIdle]
    BY DEF ExecuteLookup, ExecuteOnly, remoteVars
  <1>2. a \in Attempts /\ exec \in [Operators -> ExecuteState]
    BY <1>1 DEF IndInv, TypeOK, LocalOK, SeenAttempt
  <1> HIDE DEF m
  <1>3. \A v \in Operators : v # u => exec'[v] = exec[v]
    BY <1>1, <1>2
  <1>4. \/ exec'[u] = ExecuteIdle
        \/ exec'[u].seen = exec[u].seen /\ exec'[u].pc = "apply" /\ exec'[u].update = m
    BY <1>1, <1>2 DEF ExecuteState
  <1> QED
    BY <1>1, <1>2, <1>3, <1>4 DEF m

LEMMA OwnExecStep ==
    ASSUME IndInv, BindInv, OwnInv, [Next]_vars, NEW v \in Operators, exec'[v].pc # "idle"
    PROVE  RequestOwns(exec[v])'
  <1>1. ASSUME exec'[v] = exec[v] PROVE RequestOwns(exec[v])'
    <2>1. PICK x : x = exec[v]
      OBVIOUS
    <2>2. x.seen.att \in Attempts /\ RequestOwns(x)
      BY <1>1, <2>1 DEF IndInv, LocalOK, SeenAttempt, OwnInv, OwnOK, RequestOwns
    <2>3. RequestOwns(x)'
      BY <2>2, RequestOwnsKept
    <2> QED
      BY <1>1, <2>1, <2>3, Zenon DEF RequestOwns, Own, ResourceOf
  <1>2. ASSUME NEW u \in Operators, NEW d \in Deliveries, NEW op \in Operation,
               ExecuteStart(u, d, op), u = v
        PROVE  RequestOwns(exec[v])'
    <2>1. /\ Current(d) \in Attempts /\ exec'[v].seen.att = Current(d)
          /\ exec'[v].seen.depId = attempt[Current(d)].depId
          /\ exec'[v].pc = "apply" => exec'[v].update = CreateOnly
      BY <1>2, StartFacts DEF Row
    <2>2. attempt[Current(d)].depId # NULL => Own(Current(d), attempt[Current(d)].depId)
      BY <2>1, BoundIsOwn DEF OwnInv, OwnOK
    <2>3. UNCHANGED history
      BY <1>2, StartFacts
    <2> QED
      BY <2>1, <2>2, <2>3 DEF RequestOwns, CreateOnly, Own, ResourceOf
  <1>3. ASSUME NEW u \in Operators, ExecuteLookup(u), u = v PROVE RequestOwns(exec[v])'
    <2> DEFINE a == exec[v].seen.att
               ids == FindDeployment(ResourceOf(a[1]), a, exec[v].seen.depId)
    <2>1. /\ a \in Attempts /\ exec[v].pc = "lookup" /\ UNCHANGED history
          /\ exec'[v].seen = exec[v].seen /\ exec'[v].pc = "apply"
          /\ exec'[v].update = Reconciled(exec[v].op, ResourceOf(a[1]), ids)
      BY <1>3, ReconcileFacts DEF ExecuteIdle
    <2>2. exec[v].seen.depId # NULL => Own(a, exec[v].seen.depId)
      BY <2>1 DEF OwnInv, OwnOK
    <2>3. \A i \in ids : Own(a, i)
      BY <2>1, <2>2, FindIsOwn
    <2> HIDE DEF ids, a
    <2>4. exec'[v].update.correct => exec'[v].update.depId \in ids
      BY <2>1, ReconciledMatch
    <2> QED
      BY <2>1, <2>2, <2>3, <2>4, Zenon DEF RequestOwns, Own, ResourceOf, a
  <1>4. ASSUME NEW u \in Operators, ApplyManualUpdate(u) PROVE RequestOwns(exec[v])'
    <2>1. exec' = [exec EXCEPT ![u] = ExecuteIdle] /\ exec \in [Operators -> ExecuteState]
      BY <1>4 DEF ApplyManualUpdate, IndInv, TypeOK
    <2> QED
      BY <1>1, <2>1 DEF ExecuteIdle
  <1>5. CASE \A u \in Operators : exec'[u] = ExecuteIdle
    BY <1>5 DEF ExecuteIdle
  <1>6. ASSUME NEW u \in Operators, NEW d \in Deliveries, NEW op \in Operation,
               ExecuteStart(u, d, op), u # v
        PROVE  RequestOwns(exec[v])'
    BY <1>1, <1>6, StartFacts
  <1>7. ASSUME NEW u \in Operators, ExecuteLookup(u), u # v PROVE RequestOwns(exec[v])'
    BY <1>1, <1>7, ReconcileFacts
  <1>8. CASE UNCHANGED exec
    BY <1>1, <1>8
  <1> QED
    BY <1>2, <1>3, <1>4, <1>5, <1>6, <1>7, <1>8, ExecMoves

LEMMA OwnStep ==
    ASSUME ExactRemote, IndInv, BindInv, OwnInv, [Next]_vars
    PROVE  OwnInv'
  <1>1. CursorsOK'
    BY CursorsStep DEF OwnInv
  <1>2. BindsItsOwnDeployment'
    BY OwnRowsStep DEF BindsItsOwnDeployment, OwnNext, ResourceOf
  <1>3. \A u \in Operators : exec'[u].pc # "idle" => RequestOwns(exec[u])'
    BY OwnExecStep
  <1> QED
    BY <1>1, <1>2, <1>3, OwnPollStep DEF OwnInv, OwnOK, RequestOwns

LEMMA InitOwn == Init => OwnInv
  <1> SUFFICES ASSUME Init PROVE OwnInv
    OBVIOUS
  <1>1. \A a \in Attempts : attempt[a].depId = NULL
    BY NewAttemptFacts DEF Init
  <1>2. \A d \in Deliveries : ~UnboundInFlight(d)
    BY DEF Init, UnboundInFlight, Exists, NoDelivery
  <1>3. CursorsOK
    BY <1>2 DEF CursorsOK, Init, DispatcherIdle
  <1>4. OwnOK
    BY <1>1 DEF OwnOK, Init, BindsItsOwnDeployment, PollerIdle, ExecuteIdle
  <1> QED
    BY <1>3, <1>4 DEF OwnInv

(* The cursor recorded before the POST, the description and the bound ID only *)
(* ever lead a poll or a reconciliation to the deployment that the attempt's  *)
(* own POST started, when Dokploy lists a deployment no later than it answers *)
(* and nobody else deploys the resource: while one delivery of a resource is  *)
(* in flight and unbound, no other is sent, so what appears behind its cursor *)
(* is its own.                                                                *)
THEOREM OwnDeploymentOnly ==
    ASSUME ExactRemote
    PROVE  Spec => []BindsItsOwnDeployment
  <1>1. IndInv /\ BindInv /\ OwnInv /\ [Next]_vars => OwnInv'
    BY OwnStep
  <1>2. OwnInv => BindsItsOwnDeployment
    BY DEF OwnInv, OwnOK
  <1>3. Spec => []OwnInv
    BY <1>1, InitOwn, BindInductive, PTL DEF Spec
  <1> QED
    BY <1>2, <1>3, PTL

-----------------------------------------------------------------------------
(* A remote that also keeps descriptions and history.                        *)

(* An own record after a step is an old one or the one this step adds.       *)
LEMMA OwnBefore ==
    ASSUME ExactRemote, IndInv, CursorsOK, [Next]_vars, NEW a \in Attempts, NEW i, OwnNext(a, i)
    PROVE  Own(a, i) \/ (Sends(a) /\ i = Len(history[ResourceOf(a[1])]) + 1)
  <1> DEFINE r == ResourceOf(a[1])
  <1>1. r \in Resources
    BY AttemptFacts, KindOfType
  <1>2. i \in DOMAIN history'[r] /\ history'[r][i].owner = a
    BY DEF OwnNext
  <1>3. RecordsStep(r)
    BY <1>1, NextHistory DEF HistoryStep
  <1>4. CASE i \in DOMAIN history[r]
    BY <1>2, <1>3, <1>4 DEF RecordsStep, RecordKept, Own
  <1>5. CASE i \notin DOMAIN history[r]
    BY <1>1, <1>2, <1>3, <1>5, OnlySendsAdd DEF RecordsStep, RecordAdded
  <1> QED
    BY <1>4, <1>5

LEMMA RecordsOKStep ==
    ASSUME FaithfulRemote, IndInv, BindInv, OwnInv, RecordsOK, [Next]_vars
    PROVE  RecordsOK'
  <1>0. ExactRemote /\ ~Relabels /\ ~Trims /\ CursorsOK
    BY DEF FaithfulRemote, OwnInv
  <1>1. \A r \in Resources : trimmed'[r] = 0
    BY <1>0, NextHistory DEF HistoryStep, TrimStep, RecordsOK
  <1>2. ASSUME NEW r \in Resources, NEW i \in DOMAIN history'[r] PROVE history'[r][i].labelled
    <2>1. RecordsStep(r)
      BY NextHistory DEF HistoryStep
    <2>2. CASE i \in DOMAIN history[r]
      BY <1>0, <2>1, <2>2 DEF RecordsStep, RecordKept, RecordsOK
    <2>3. CASE RecordAdded(r, i)
      BY <2>3 DEF RecordAdded
    <2> QED
      BY <2>1, <2>2, <2>3 DEF RecordsStep
  <1>3. ASSUME NEW a \in Attempts, NEW i, NEW j, OwnNext(a, i), OwnNext(a, j) PROVE i = j
    <2>1. Own(a, i) \/ (Sends(a) /\ i = Len(history[ResourceOf(a[1])]) + 1)
      BY <1>0, <1>3, OwnBefore
    <2>2. Own(a, j) \/ (Sends(a) /\ j = Len(history[ResourceOf(a[1])]) + 1)
      BY <1>0, <1>3, OwnBefore
    <2>3. Sends(a) => ~Own(a, i) /\ ~Own(a, j)
      BY SendsFacts, UnsentIsUntaken DEF Taken, Recorded, Own
    <2>4. Own(a, i) /\ Own(a, j) => i = j
      BY DEF RecordsOK, Own
    <2> QED
      BY <2>1, <2>2, <2>3, <2>4
  <1> QED
    BY <1>1, <1>2, <1>3 DEF RecordsOK, OwnNext, Own, ResourceOf

(* A lookup that finds nothing proves that there is nothing.                 *)
LEMMA MissIsUnrecorded ==
    ASSUME IndInv, RecordsOK, NEW a \in Attempts, NEW id, id # NULL => Own(a, id),
           FindDeployment(ResourceOf(a[1]), a, id) = {}
    PROVE  ~Recorded(a)
  <1> DEFINE r == ResourceOf(a[1])
             S == {i \in Visible(r) : IF id # NULL THEN i = id ELSE Labelled(r, i, a)}
  <1>1. r \in Resources
    BY AttemptFacts, KindOfType
  <1>2. Visible(r) = DOMAIN history[r] /\ DOMAIN history[r] \subseteq Nat
    <2>1. trimmed[r] = 0 /\ Len(history[r]) \in Nat /\ DOMAIN history[r] = 1..Len(history[r])
      BY <1>1, HistoryType DEF RecordsOK
    <2> HIDE DEF r
    <2> QED
      BY <2>1 DEF Visible
  <1>3. Newest(S) = {}
    BY DEF FindDeployment
  <1>4. ASSUME NEW i, Own(a, i) PROVE i \in S /\ \A j \in S : j = i
    <2>1. i \in DOMAIN history[r] /\ history[r][i].owner = a /\ history[r][i].labelled
      BY <1>1, <1>4 DEF Own, RecordsOK
    <2>2. \A j \in Visible(r) : (IF id # NULL THEN j = id ELSE Labelled(r, j, a)) => Own(a, j)
      BY <1>2 DEF Own, Labelled
    <2>3. \A j : Own(a, j) => j = i
      BY <1>4 DEF RecordsOK, Own
    <2>4. id # NULL => id = i
      BY <2>3
    <2> QED
      BY <1>2, <2>1, <2>2, <2>3, <2>4 DEF Labelled
  <1>5. ASSUME NEW i, Own(a, i) PROVE FALSE
    <2>1. i \in S /\ (\A j \in S : j = i) /\ i \in Nat
      BY <1>2, <1>4, <1>5 DEF Own
    <2> HIDE DEF S
    <2>2. i \in Newest(S)
      BY <2>1 DEF Newest
    <2> QED
      BY <1>3, <2>2
  <1> QED
    BY <1>5 DEF Recorded

(* What an operator's new attempt relies on.                                 *)
CreateOK(x) ==
    LET a == x.seen.att IN
    /\ ~x.update.correct => ~Recorded(a)
    /\ x.update.correct /\ x.update.create =>
          history[ResourceOf(a[1])][x.update.depId].status \in {"error", "cancelled"}

LEMMA CreateKept ==
    ASSUME ExactRemote, IndInv, BindInv, OwnInv, [Next]_vars, NEW u \in Operators,
           exec[u].pc = "apply", NEW x, x = exec[u], CreateOK(x)
    PROVE  CreateOK(x)'
  <1> DEFINE a == x.seen.att
             r == ResourceOf(a[1])
             id == x.update.depId
  <1>1. a \in Attempts /\ CursorsOK
    BY DEF IndInv, LocalOK, SeenAttempt, OwnInv
  <1>2. ~Sends(a)
    <2>1. IsCurrent(a) => attempt[a].transport # "sending"
      BY DEF BindInv, SeensOK, SeenOK
    <2> QED
      BY <2>1, SendsFacts
  <1>3. ASSUME ~x.update.correct, Recorded(a)' PROVE FALSE
    <2>1. PICK i : OwnNext(a, i)
      BY <1>3, Zenon DEF Recorded, Own, OwnNext, ResourceOf
    <2>2. Own(a, i)
      BY <1>1, <1>2, <2>1, OwnBefore
    <2> QED
      BY <1>3, <2>2, Zenon DEF CreateOK, Recorded, Own
  <1>4. ASSUME x.update.correct, x.update.create
        PROVE  history'[r][id].status \in {"error", "cancelled"}
    <2>1. Own(a, id) /\ history[r][id].status \in {"error", "cancelled"}
      BY <1>4 DEF OwnInv, OwnOK, CreateOK
    <2>2. r \in Resources
      BY <1>1, AttemptFacts, KindOfType
    <2>3. RecordKept(r, id)
      BY <2>1, <2>2, NextHistory DEF HistoryStep, RecordsStep, Own
    <2> QED
      BY <2>1, <2>3, Zenon DEF RecordKept
  <1> QED
    BY <1>3, <1>4, Zenon DEF CreateOK, ResourceOf

LEMMA CreatesStep ==
    ASSUME FaithfulRemote, IndInv, BindInv, OwnInv, FaithInv, [Next]_vars,
           NEW v \in Operators, exec'[v].pc = "apply"
    PROVE  CreateOK(exec[v])'
  <1>0. ExactRemote /\ RecordsOK /\ exec \in [Operators -> ExecuteState]
    BY DEF FaithfulRemote, FaithInv, IndInv, TypeOK
  <1>1. ASSUME exec'[v] = exec[v] PROVE CreateOK(exec[v])'
    <2>1. PICK x : x = exec[v]
      OBVIOUS
    <2>2. CreateOK(x)
      BY <1>1, <2>1 DEF FaithInv, CreatesOK, CreateOK
    <2>3. CreateOK(x)'
      BY <1>0, <1>1, <2>1, <2>2, CreateKept
    <2> QED
      BY <1>1, <2>1, <2>3, Zenon DEF CreateOK, Recorded, Own, ResourceOf
  <1>2. ASSUME NEW u \in Operators, NEW d \in Deliveries, NEW op \in Operation,
               ExecuteStart(u, d, op), u = v
        PROVE  CreateOK(exec[v])'
    <2>1. /\ Exists(d) /\ Row(d).transport = "failed" /\ UNCHANGED history
          /\ exec'[v].seen.att = Current(d) /\ exec'[v].update = CreateOnly
      BY <1>2, StartFacts
    <2>2. ~Recorded(Current(d))
      BY <2>1, FailedIsUntaken DEF BindInv, TakenOK, Taken
    <2>3. ~CreateOnly.correct
      BY DEF CreateOnly
    <2>4. PICK a : a = exec'[v].seen.att
      OBVIOUS
    <2>5. ~Recorded(a)'
      BY <2>1, <2>2, <2>4 DEF Recorded, Own, ResourceOf
    <2> QED
      BY <2>1, <2>3, <2>4, <2>5 DEF CreateOK, Recorded, Own, ResourceOf
  <1>3. ASSUME NEW u \in Operators, ExecuteLookup(u), u = v PROVE CreateOK(exec[v])'
    <2> DEFINE a == exec[v].seen.att
               r == ResourceOf(a[1])
               ids == FindDeployment(r, a, exec[v].seen.depId)
               m == Reconciled(exec[v].op, r, ids)
    <2>1. /\ a \in Attempts /\ exec[v].pc = "lookup" /\ UNCHANGED history
          /\ exec'[v].seen = exec[v].seen /\ exec'[v].update = m
      BY <1>3, ReconcileFacts DEF ExecuteIdle
    <2>2. exec[v].seen.depId # NULL => Own(a, exec[v].seen.depId)
      BY <2>1 DEF OwnInv, OwnOK
    <2>3. ids = {} => ~Recorded(a)
      BY <1>0, <2>1, <2>2, MissIsUnrecorded
    <2>4. ~m.correct => ids = {}
      BY ReconciledMiss
    <2>5. m.correct /\ m.create => history[r][m.depId].status \in {"error", "cancelled"}
      BY ReconciledCreates
    <2> HIDE DEF m, ids
    <2> QED
      BY <2>1, <2>3, <2>4, <2>5, Zenon DEF CreateOK, Recorded, Own, ResourceOf
  <1>4. ASSUME NEW u \in Operators, ApplyManualUpdate(u) PROVE CreateOK(exec[v])'
    <2>1. exec' = [exec EXCEPT ![u] = ExecuteIdle]
      BY <1>4 DEF ApplyManualUpdate
    <2> QED
      BY <1>0, <1>1, <2>1 DEF ExecuteIdle
  <1>5. CASE \A u \in Operators : exec'[u] = ExecuteIdle
    BY <1>5 DEF ExecuteIdle
  <1>6. ASSUME NEW u \in Operators, NEW d \in Deliveries, NEW op \in Operation,
               ExecuteStart(u, d, op), u # v
        PROVE  CreateOK(exec[v])'
    BY <1>1, <1>6, StartFacts
  <1>7. ASSUME NEW u \in Operators, ExecuteLookup(u), u # v PROVE CreateOK(exec[v])'
    BY <1>1, <1>7, ReconcileFacts
  <1>8. CASE UNCHANGED exec
    BY <1>1, <1>8
  <1> QED
    BY <1>2, <1>3, <1>4, <1>5, <1>6, <1>7, <1>8, ExecMoves

LEMMA FaithStep ==
    ASSUME FaithfulRemote, IndInv, BindInv, OwnInv, FaithInv, [Next]_vars
    PROVE  FaithInv'
  <1>1. RecordsOK'
    BY RecordsOKStep DEF FaithInv
  <1>2. \A u \in Operators : exec'[u].pc = "apply" => CreateOK(exec[u])'
    BY CreatesStep
  <1> QED
    BY <1>1, <1>2 DEF FaithInv, CreatesOK, CreateOK

LEMMA InitFaith == Init => FaithInv
  <1> SUFFICES ASSUME Init PROVE FaithInv
    OBVIOUS
  <1>1. \A a \in Attempts : history[ResourceOf(a[1])] = <<>>
    BY AttemptFacts, KindOfType DEF Init
  <1>2. RecordsOK
    BY <1>1 DEF Init, RecordsOK, Own
  <1>3. CreatesOK
    BY DEF Init, CreatesOK, ExecuteIdle
  <1> QED
    BY <1>2, <1>3 DEF FaithInv

LEMMA AppendIsSafe ==
    ASSUME IndInv, OwnInv, FaithInv, [Next]_vars, NEW d \in Deliveries, Exists(d),
           delivery'[d].cur > delivery[d].cur, NEW i \in DOMAIN history[ResourceOf(d)],
           history[ResourceOf(d)][i].owner = Current(d)
    PROVE  history[ResourceOf(d)][i].status \in {"error", "cancelled"}
  <1>1. delivery[d].cur \in Nat /\ delivery'[d].cur \in Nat
    <2>1. delivery[d] \in DeliveryRow /\ delivery'[d] \in DeliveryRow
      BY IndStep DEF IndInv, TypeOK
    <2> QED
      BY <2>1, DeliveryAssumption DEF DeliveryRow
  <1>2. Exists(d)' /\ delivery[d].cur # 0
    BY <1>1 DEF Exists
  <1>3. CurStep(d)
    BY <1>2, CurGrows
  <1>4. PICK u \in Operators : Appends(u, d)
    BY <1>1, <1>2, <1>3 DEF CurStep
  <1>5. exec[u].pc = "apply" /\ exec[u].seen.att = Current(d) /\ exec[u].update.create
    BY <1>4 DEF Appends, Corrects
  <1>6. Current(d) \in Attempts /\ Current(d)[1] = d
    BY CurrentType DEF IndInv, TypeOK
  <1>7. Own(Current(d), i)
    BY <1>6 DEF Own
  <1>8. exec[u].update.correct
    BY <1>5, <1>7 DEF FaithInv, CreatesOK, Recorded, Own
  <1>9. /\ Own(Current(d), exec[u].update.depId)
        /\ history[ResourceOf(d)][exec[u].update.depId].status \in {"error", "cancelled"}
    BY <1>5, <1>6, <1>8 DEF OwnInv, OwnOK, FaithInv, CreatesOK
  <1>10. i = exec[u].update.depId
    BY <1>6, <1>7, <1>9 DEF FaithInv, RecordsOK, Own
  <1> QED
    BY <1>9, <1>10

(* An operator's retry or redeploy never starts a second deployment beside    *)
(* one of the delivery's last attempt that runs or has succeeded: it is       *)
(* appended only after a refusal, after a lookup that found nothing, which    *)
(* such a remote makes conclusive, or after one that found the attempt's own  *)
(* deployment failed or cancelled.                                            *)
THEOREM OneDeploymentAtATime ==
    ASSUME FaithfulRemote
    PROVE  Spec => NoSecondDeployment
  <1>1. IndInv /\ BindInv /\ OwnInv /\ [Next]_vars => OwnInv'
    BY OwnStep DEF FaithfulRemote
  <1>2. IndInv /\ BindInv /\ OwnInv /\ FaithInv /\ [Next]_vars => FaithInv'
    BY FaithStep
  <1>3. Spec => [](IndInv /\ BindInv /\ OwnInv /\ FaithInv)
    BY <1>1, <1>2, InitOwn, InitFaith, BindInductive, PTL DEF Spec
  <1>4. IndInv /\ OwnInv /\ FaithInv /\ [Next]_vars =>
           [\A d \in Deliveries :
               Exists(d) /\ delivery'[d].cur > delivery[d].cur =>
                  \A i \in DOMAIN history[ResourceOf(d)] :
                     history[ResourceOf(d)][i].owner = Current(d) =>
                        history[ResourceOf(d)][i].status \in {"error", "cancelled"}]_vars
    BY AppendIsSafe
  <1> QED
    BY <1>3, <1>4, PTL DEF NoSecondDeployment, Spec

-----------------------------------------------------------------------------
(* Delivery implements Lifecycle. First what LifeInv says survives.          *)

LEMMA TakenKept ==
    ASSUME IndInv, [Next]_vars, NEW a \in Attempts, Taken(a)
    PROVE  Taken(a)'
  <1>1. CASE Recorded(a)
    <2>1. PICK i : Own(a, i)
      BY <1>1 DEF Recorded
    <2>2. Own(a, i)'
      BY <2>1, OwnKept
    <2> QED
      BY <2>2 DEF Taken, Recorded, Own
  <1>2. CASE a \in inbox /\ a \in inbox'
    BY <1>2 DEF Taken
  <1>3. CASE a \in inbox /\ a \notin inbox'
    <2>1. RemoteList(a)
      <3>1. CASE PostAccepted \/ PostRefused \/ PostUncertain
        BY <1>3, <3>1 DEF PostAccepted, PostRefused, PostUncertain, Accept
      <3>2. CASE Remote
        BY <1>3, <3>2 DEF Remote, RemoteList, RemoteForeign, RemoteProgress, RemoteRelabel,
                          RemoteTrim
      <3> QED
        BY <1>3, <3>1, <3>2, RemoteMoves
    <2> DEFINE r == ResourceOf(a[1])
    <2>2. r \in Resources /\ history \in [Resources -> Seq(Record)] /\ NewRecord(a) \in Record
      BY AttemptFacts, KindOfType, NewRecordType DEF IndInv, TypeOK
    <2>3. history'[r] = Append(history[r], NewRecord(a))
      BY <2>1, <2>2 DEF RemoteList
    <2>4. PICK i : i \in DOMAIN history'[r] /\ history'[r][i] = NewRecord(a)
      BY <2>2, <2>3, AppendFacts
    <2>5. Own(a, i)'
      BY <2>4 DEF Own, ResourceOf, NewRecord
    <2> QED
      BY <2>4, <2>5 DEF Taken, Recorded, ResourceOf
  <1> QED
    BY <1>1, <1>2, <1>3 DEF Taken

(* A request that Dokploy accepts is taken.                                  *)
LEMMA AcceptedIsTaken ==
    ASSUME IndInv, NEW a \in Attempts, Accept(a), KindOf(a[1]) = "dokploy"
    PROVE  Taken(a)'
  <1>1. CASE inbox' = inbox \cup {a}
    BY <1>1 DEF Taken
  <1>2. CASE history' = [history EXCEPT ![ResourceOf(a[1])] = Append(@, NewRecord(a))]
    <2> DEFINE r == ResourceOf(a[1])
    <2>1. r \in Resources /\ history \in [Resources -> Seq(Record)] /\ NewRecord(a) \in Record
      BY AttemptFacts, KindOfType, NewRecordType DEF IndInv, TypeOK
    <2>2. history'[r] = Append(history[r], NewRecord(a))
      BY <1>2, <2>1
    <2>3. PICK i : i \in DOMAIN history'[r] /\ history'[r][i] = NewRecord(a)
      BY <2>1, <2>2, AppendFacts
    <2>4. Own(a, i)'
      BY <2>3 DEF Own, ResourceOf, NewRecord
    <2> QED
      BY <2>3, <2>4 DEF Taken, Recorded, ResourceOf
  <1> QED
    BY <1>1, <1>2 DEF Accept

LEMMA OutcomeStep ==
    ASSUME IndInv, OutcomeOK, [Next]_vars
    PROVE  OutcomeOK'
  <1>0. disp \in DispatcherState
    BY DEF IndInv, TypeOK
  <1> SUFFICES ASSUME disp'.pc = "outcome", disp'.result # "definitive"
               PROVE  /\ posts'[disp'.att] # 0
                      /\ disp'.result = "accepted" /\ KindOf(disp'.att[1]) = "dokploy" =>
                            Taken(disp.att)'
    BY DEF OutcomeOK, KindOf
  <1>1. CASE UNCHANGED disp
    <2>1. disp.att \in Attempts /\ posts[disp.att] # 0
          /\ (disp.result = "accepted" /\ KindOf(disp.att[1]) = "dokploy" => Taken(disp.att))
      BY <1>1 DEF IndInv, LocalOK, OutcomeOK
    <2>2. PICK a \in Attempts : a = disp.att
      BY <2>1
    <2>3. posts'[a] # 0 /\ (disp.result = "accepted" /\ KindOf(a[1]) = "dokploy" => Taken(a)')
      BY <2>1, <2>2, PostsGrow, TakenKept
    <2> QED
      BY <1>1, <2>2, <2>3 DEF Taken, Recorded, Own, ResourceOf
  <1>2. CASE PostAccepted \/ PostUncertain
    <2>1. Sends(disp.att)
      BY <1>2 DEF Sends
    <2>2. disp.att \in Attempts /\ posts'[disp.att] # 0 /\ disp'.att = disp.att
      BY <2>1, SendsFacts
    <2>3. ASSUME disp'.result = "accepted", KindOf(disp.att[1]) = "dokploy"
          PROVE  Taken(disp.att)'
      <3>1. PICK a \in Attempts : a = disp.att
        BY <2>2
      <3>2. Accept(a)
        BY <1>0, <1>2, <2>3, <3>1 DEF PostAccepted, PostUncertain, Post, DispatcherState
      <3>3. Taken(a)'
        BY <2>3, <3>1, <3>2, AcceptedIsTaken
      <3> QED
        BY <2>2, <3>1, <3>3, Zenon DEF Taken, Recorded, Own, ResourceOf
    <2> QED
      BY <2>2, <2>3
  <1>3. CASE \E d \in Deliveries : ClaimPendingAttempt(d)
    BY <1>3 DEF ClaimPendingAttempt, DispatcherIdle
  <1>4. CASE Preflight \/ RequestFails \/ PostRefused
    BY <1>0, <1>4 DEF Preflight, RequestFails, PostRefused, Post, DispatcherState
  <1>5. CASE SetDeploymentCursor \/ RecordDeploymentRequest
    <2>1. disp' = DispatcherIdle \/ disp'.pc \in {"record", "post"}
      BY <1>0, <1>5, StopMoves
         DEF SetDeploymentCursor, RecordDeploymentRequest, WorkerFails, DispatcherState
    <2> QED
      BY <2>1 DEF DispatcherIdle
  <1>6. CASE disp' = DispatcherIdle
    BY <1>6 DEF DispatcherIdle
  <1> QED
    BY <1>1, <1>2, <1>3, <1>4, <1>5, <1>6, DispMoves

LEMMA UnstartedStep ==
    ASSUME IndInv, BindInv, FailedUnstarted, [Next]_vars
    PROVE  FailedUnstarted'
  <1>1. ASSUME NEW d \in Deliveries, Exists(d)', Row(d)'.transport = "failed"
        PROVE  Row(d)'.deployment = "not_started"
    <2>1. PICK a \in Attempts : a[1] = d /\ IsCurrent(a)' /\ Row(d)' = attempt'[a]
      BY <1>1, CurrentAfter
    <2> DEFINE o == attempt[a]
               n == attempt'[a]
    <2>2. CASE IsCurrent(a) /\ n = o
      BY <1>1, <2>1, <2>2, CurrentFacts DEF FailedUnstarted
    <2>3. CASE IsCurrent(a) /\ RowChange(a, o, n)
      <3>1. RowOK(o)
        BY <2>3, CurrentRow DEF BindInv
      <3>2. ~PollChange(a, o, n) /\ ~CorrectChange(a, o, n)
        BY <1>1, <2>1, <2>3, PollChangeBinds, CorrectChangeBinds
      <3>3. n.transport = "failed" /\ RowChange(a, o, n)
        BY <1>1, <2>1, <2>3
      <3> HIDE DEF o, n
      <3>4. n.deployment = "not_started"
        BY <3>1, <3>2, <3>3 DEF RowChange, ClaimChange, SendChange, OutcomeChange, TimerChange,
                                StartupChange, RowOK
      <3> QED
        BY <2>1, <3>4 DEF n
    <2> QED
      BY <1>1, <2>1, <2>2, <2>3, RowMoves, NewAttemptFacts DEF BindInv
  <1> QED
    BY <1>1 DEF FailedUnstarted

LEMMA ViewStep ==
    ASSUME IndInv, LifeInv, [Next]_vars, NEW v \in Operators, exec'[v].pc # "idle"
    PROVE  ViewOK(exec'[v])
  <1>1. CASE exec'[v] = exec[v]
    BY <1>1 DEF LifeInv
  <1>2. CASE exec'[v] = ExecuteIdle
    BY <1>2 DEF ExecuteIdle
  <1>3. ASSUME NEW u \in Operators, NEW d \in Deliveries, NEW op \in Operation,
               ExecuteStart(u, d, op)
        PROVE  ViewOK(exec'[v])
    <2>1. CASE v = u
      <3> DEFINE row == Row(d)
                 x == exec'[u]
      <3>1. exec \in [Operators -> ExecuteState]
        BY DEF IndInv, TypeOK
      <3>2. /\ x.seen.transport = row.transport /\ x.seen.deployment = row.deployment
            /\ \/ NeedsReconciliation(row.transport, row.deployment)
               \/ x.pc = "apply" /\ x.update = CreateOnly
        BY <1>3, <3>1 DEF ExecuteStart, ExecuteIdle
      <3>3. \/ ~Active(row.transport, row.deployment)
            \/ row.transport = "unknown" \/ row.deployment = "unknown"
        BY <1>3 DEF ExecuteStart
      <3> HIDE DEF row, x
      <3>4. row.transport = "unknown" \/ row.deployment \notin Monitored
        BY <3>3 DEF Active, Monitored
      <3>5. ViewOK(x)
        BY <3>2, <3>4 DEF ViewOK, CreateOnly
      <3> QED
        BY <2>1, <3>5 DEF x
    <2> QED
      BY <1>1, <1>3, <2>1, StartFacts
  <1>4. ASSUME NEW u \in Operators, ExecuteLookup(u) PROVE ViewOK(exec'[v])
    <2>1. CASE v = u
      <3>1. exec[u].pc = "lookup" /\ (exec'[u] = ExecuteIdle \/ exec'[u].seen = exec[u].seen)
        BY <1>4, ReconcileFacts
      <3>2. exec'[u].seen = exec[u].seen
        BY <2>1, <3>1 DEF ExecuteIdle
      <3>3. ViewOK(exec[u])
        BY <3>1 DEF LifeInv
      <3> QED
        BY <2>1, <3>1, <3>2, <3>3 DEF ViewOK
    <2> QED
      BY <1>1, <1>4, <2>1, ReconcileFacts
  <1>5. ASSUME NEW u \in Operators, ApplyManualUpdate(u) PROVE ViewOK(exec'[v])
    <2>1. exec' = [exec EXCEPT ![u] = ExecuteIdle] /\ exec \in [Operators -> ExecuteState]
      BY <1>5 DEF ApplyManualUpdate, IndInv, TypeOK
    <2> QED
      BY <1>1, <1>2, <2>1
  <1> QED
    BY <1>1, <1>2, <1>3, <1>4, <1>5, ExecMoves

LEMMA InitLife == Init => LifeInv
  <1> SUFFICES ASSUME Init PROVE LifeInv
    OBVIOUS
  <1>1. \A d \in Deliveries : ~Exists(d)
    BY DEF Init, Exists, NoDelivery
  <1>2. disp.pc = "idle" /\ \A u \in Operators : exec[u].pc = "idle"
    BY DEF Init, DispatcherIdle, ExecuteIdle
  <1> QED
    BY <1>1, <1>2 DEF LifeInv, OutcomeOK, FailedUnstarted

LEMMA LifeStep == IndInv /\ BindInv /\ LifeInv /\ [Next]_vars => LifeInv'
  <1> SUFFICES ASSUME IndInv, BindInv, LifeInv, [Next]_vars PROVE LifeInv'
    OBVIOUS
  <1>1. OutcomeOK' /\ FailedUnstarted'
    BY OutcomeStep, UnstartedStep DEF LifeInv
  <1>2. \A u \in Operators : exec'[u].pc # "idle" => ViewOK(exec[u])'
    BY ViewStep DEF ViewOK, NeedsReconciliation
  <1> QED
    BY <1>1, <1>2 DEF LifeInv

-----------------------------------------------------------------------------
(* The steps of Lifecycle, one by one.                                       *)

LEMMA LifeOf ==
    /\ Life = [d \in Deliveries |-> Lived(delivery[d].cur, Row(d))]
    /\ Life' = [d \in Deliveries |-> Lived(delivery'[d].cur, attempt'[<<d, delivery'[d].cur>>])]
  BY DEF Life, Row, Current

LEMMA LifeAfter ==
    ASSUME NEW d \in Deliveries
    PROVE  Life'[d] = Lived(delivery'[d].cur, Row(d)')
  BY LifeOf DEF Row, Current

LEMMA StageFacts ==
    ASSUME NEW row
    PROVE  /\ row.transport = "pending" <=> Stage(row) = "waiting"
           /\ row.transport = "sending" <=> Stage(row) = "sending"
           /\ row.transport = "failed" <=> Stage(row) = "failed"
           /\ row.transport \notin {"pending", "sending", "failed"} =>
                 Stage(row) = (IF row.deployment \in Monitored
                               THEN IF row.transport = "unknown" THEN "doubtful" ELSE "following"
                               ELSE IF row.deployment = "done" THEN "done" ELSE "ended")
  BY DEF Stage

LEMMA LivedFacts ==
    ASSUME NEW k, k # 0, NEW o, NEW n
    PROVE  /\ Lived(k, o).number = k /\ Lived(k, o).stage = Stage(o) /\ Lived(k, o).bound = o.depId
           /\ Lived(k, n) = [number |-> k, stage |-> Stage(n), bound |-> n.depId]
           /\ n.depId = o.depId => Lived(k, n) = [Lived(k, o) EXCEPT !.stage = Stage(n)]
  <1>1. /\ Lived(k, o) = [number |-> k, stage |-> Stage(o), bound |-> o.depId]
        /\ Lived(k, n) = [number |-> k, stage |-> Stage(n), bound |-> n.depId]
    BY DEF Lived
  <1> QED
    BY <1>1

(* A step that leaves the rows alone leaves the lives alone.                 *)
LEMMA LifeSame == ASSUME UNCHANGED storeVars PROVE UNCHANGED Life
  BY LifeOf DEF storeVars, Row, Current

(* One delivery moves on.                                                    *)
LEMMA LifeMoves ==
    ASSUME NEW d \in Deliveries, NEW new, Life'[d] = new,
           \A e \in Deliveries : e # d => Life'[e] = Life[e]
    PROVE  Life' = [Life EXCEPT ![d] = new]
  BY LifeOf

LEMMA LifeWritten ==
    ASSUME TypeInv, NEW a \in Attempts, IsCurrent(a),
           \A b \in Attempts : b # a => attempt'[b] = attempt[b],
           \A d \in Deliveries : delivery'[d].cur = delivery[d].cur
    PROVE  LET d == a[1]
               row == attempt'[a]
           IN /\ d \in Deliveries
              /\ Life[d].number = a[2] /\ Life[d].stage = Stage(attempt[a])
              /\ Life[d].bound = attempt[a].depId /\ Life'[d].bound = row.depId
              /\ Abstract!Becomes(d, [number |-> a[2], stage |-> Stage(row), bound |-> row.depId])
              /\ row.depId = attempt[a].depId => Abstract!Enters(d, Stage(row))
  <1> DEFINE row == attempt'[a]
  <1>1. /\ a[1] \in Deliveries /\ delivery[a[1]].cur = a[2] /\ a[2] # 0
        /\ Row(a[1]) = attempt[a] /\ Row(a[1])' = row
    BY AttemptFacts, CurrentFacts DEF IsCurrent, Row, Current
  <1>2. ASSUME NEW d \in Deliveries, d # a[1], Exists(d) PROVE Row(d)' = Row(d)
    <2>1. Current(d) \in Attempts /\ Current(d)[1] = d /\ Current(d)' = Current(d)
      BY <1>2, CurrentType DEF TypeInv, TypeOK, Current
    <2> QED
      BY <1>2, <2>1 DEF Row
  <1> HIDE DEF row
  <1>3. Life[a[1]] = Lived(a[2], attempt[a]) /\ Life'[a[1]] = Lived(a[2], row)
    BY <1>1, LifeOf, LifeAfter
  <1>4. ASSUME NEW e \in Deliveries, e # a[1] PROVE Life'[e] = Life[e]
    <2>1. Life'[e] = Lived(delivery[e].cur, Row(e)') /\ Life[e] = Lived(delivery[e].cur, Row(e))
      BY LifeOf, LifeAfter
    <2>2. CASE Exists(e)
      BY <1>2, <1>4, <2>1, <2>2
    <2>3. CASE ~Exists(e)
      BY <2>1, <2>3 DEF Exists, Lived
    <2> QED
      BY <2>2, <2>3
  <1>5. Life' = [Life EXCEPT ![a[1]] = Lived(a[2], row)]
    BY <1>1, <1>3, <1>4, LifeMoves
  <1>6. /\ Lived(a[2], attempt[a]).number = a[2]
        /\ Lived(a[2], attempt[a]).stage = Stage(attempt[a])
        /\ Lived(a[2], attempt[a]).bound = attempt[a].depId
        /\ Lived(a[2], row).bound = row.depId
        /\ Lived(a[2], row) = [number |-> a[2], stage |-> Stage(row), bound |-> row.depId]
        /\ row.depId = attempt[a].depId =>
              Lived(a[2], row) = [Lived(a[2], attempt[a]) EXCEPT !.stage = Stage(row)]
    BY <1>1, LivedFacts
  <1> QED
    BY <1>1, <1>3, <1>5, <1>6 DEF Abstract!Becomes, Abstract!Enters, row

LEMMA WrittenLife ==
    ASSUME NEW a \in Attempts, NEW row, RowWritten(a, row)
    PROVE  /\ IsCurrent(a) /\ attempt'[a] = row
           /\ \A b \in Attempts : b # a => attempt'[b] = attempt[b]
           /\ \A d \in Deliveries : delivery'[d].cur = delivery[d].cur
  BY DEF RowWritten

(* A delivery starts over.                                                   *)
LEMMA LifeFresh ==
    ASSUME TypeInv, NEW a \in Attempts, FreshRow(a)
    PROVE  a[1] \in Deliveries /\ Abstract!Becomes(a[1], Abstract!Waiting(a[2]))
  <1>1. a[1] \in Deliveries /\ a[2] # 0 /\ a = <<a[1], a[2]>>
    BY AttemptFacts
  <1>2. Row(a[1])' = NewAttempt
    BY <1>1 DEF FreshRow, Row, Current
  <1>3. Life'[a[1]] = Abstract!Waiting(a[2])
    <2>1. Life'[a[1]] = Lived(a[2], NewAttempt)
      BY <1>1, <1>2, LifeAfter DEF FreshRow
    <2>2. Stage(NewAttempt) = "waiting" /\ NewAttempt.depId = NULL
      BY NewAttemptFacts, StageFacts
    <2> QED
      BY <1>1, <2>1, <2>2, LivedFacts DEF Abstract!Waiting
  <1>4. ASSUME NEW e \in Deliveries, e # a[1] PROVE Life'[e] = Life[e]
    <2>1. delivery'[e] = delivery[e]
      BY <1>4 DEF FreshRow
    <2>2. Life'[e] = Lived(delivery[e].cur, Row(e)') /\ Life[e] = Lived(delivery[e].cur, Row(e))
      BY <2>1, LifeOf, LifeAfter
    <2>3. CASE Exists(e)
      <3>1. Current(e) \in Attempts /\ Current(e)[1] = e /\ Current(e)' = Current(e)
        BY <2>1, <2>3, CurrentType DEF TypeInv, TypeOK, Current
      <3>2. Row(e)' = Row(e)
        BY <1>4, <3>1 DEF FreshRow, Row
      <3> QED
        BY <2>2, <3>2
    <2>4. CASE ~Exists(e)
      BY <2>2, <2>4 DEF Exists, Lived
    <2> QED
      BY <2>3, <2>4
  <1> QED
    BY <1>1, <1>3, <1>4, LifeMoves DEF Abstract!Becomes

(* Nothing else of the promise moves, except by webhooks and POSTs.          *)
LEMMA RestSame ==
    ASSUME IndInv, [Next]_vars, ~(PostAccepted \/ PostRefused \/ PostUncertain)
    PROVE  UNCHANGED <<posts, TakenAttempts>>
  <1>1. UNCHANGED posts
    <2>1. CASE Remote
      BY <2>1 DEF Remote, RemoteList, RemoteForeign, RemoteProgress, RemoteRelabel, RemoteTrim,
                  RemoteOnly
    <2> QED
      BY <2>1, RemoteMoves
  <1>2. \A a \in Attempts : Taken(a)' <=> Taken(a)
    BY TakenMoves, TakenKept DEF Sends
  <1>3. UNCHANGED TakenAttempts
    BY <1>2 DEF TakenAttempts
  <1> QED
    BY <1>1, <1>3

LEMMA PromiseSame ==
    ASSUME UNCHANGED <<ingested, posts, TakenAttempts>>, UNCHANGED Life
    PROVE  UNCHANGED Abstract!vars
  BY DEF Abstract!vars

LEMMA ImplementsClaim ==
    ASSUME IndInv, NEW d \in Deliveries, ClaimPendingAttempt(d),
           UNCHANGED <<ingested, posts, TakenAttempts>>
    PROVE  Abstract!Claim(d)
  <1> DEFINE a == Current(d)
             row == [Row(d) EXCEPT !.transport = "sending"]
  <1>0. TypeInv
    BY IndInvParts
  <1>1. /\ Claimable(d) /\ Exists(d) /\ Row(d).transport = "pending" /\ WriteCurrent(a, row)
    BY DEF ClaimPendingAttempt, Claimable
  <1>2. a \in Attempts /\ a[1] = d /\ IsCurrent(a) /\ Row(d) \in AttemptRow /\ Row(d) = attempt[a]
    BY <1>0, <1>1, CurrentType, RowType DEF TypeInv, TypeOK, IsCurrent, Row
  <1>3. row \in AttemptRow
    BY <1>2 DEF AttemptRow, TransportStatus
  <1>4. row.transport = "sending" /\ row.depId = attempt[a].depId
    BY <1>2 DEF AttemptRow
  <1> HIDE DEF row, a
  <1>5. RowWritten(a, row)
    BY <1>0, <1>1, <1>2, <1>3, WriteCurrentWritten
  <1>6. Stage(attempt[a]) = "waiting" /\ Stage(row) = "sending"
    BY <1>1, <1>2, <1>4, StageFacts
  <1>7. Life[d].stage = "waiting" /\ Abstract!Enters(d, "sending")
    <2>1. attempt'[a] = row
      BY <1>2, <1>5, WrittenLife
    <2> QED
      BY <1>0, <1>2, <1>4, <1>5, <1>6, <2>1, LifeWritten, WrittenLife
  <1>8. ASSUME NEW e \in Deliveries \ {d}, SameDispatch(e, d)
        PROVE  ~(Life[e].stage \in {"sending", "doubtful", "following"} /\ Life[e].bound = NULL)
    <2>1. ~UnboundInFlight(e)
      BY <1>1, <1>8 DEF Claimable
    <2>2. CASE Exists(e)
      <3>1. Life[e].stage = Stage(Row(e)) /\ Life[e].bound = Row(e).depId
        BY <2>2, LifeOf DEF Lived, Exists
      <3>2. Row(e).depId # NULL \/ (Row(e).transport # "sending" /\ Row(e).deployment \notin Monitored)
        BY <2>1, <2>2 DEF UnboundInFlight
      <3> QED
        BY <3>1, <3>2 DEF Stage
    <2>3. CASE ~Exists(e)
      BY <2>3, LifeOf DEF Lived, Exists
    <2> QED
      BY <2>2, <2>3
  <1> QED
    BY <1>7, <1>8 DEF Abstract!Claim, Abstract!At, Abstract!InFlight

(* A step that changes nothing the promise speaks of.                        *)
LEMMA LifeUnmoved ==
    ASSUME TypeInv, \A d \in Deliveries : delivery'[d].cur = delivery[d].cur,
           \A a \in Attempts :
              /\ attempt'[a].transport = attempt[a].transport
              /\ attempt'[a].deployment = attempt[a].deployment
              /\ attempt'[a].depId = attempt[a].depId
    PROVE  UNCHANGED Life
  <1>1. ASSUME NEW d \in Deliveries PROVE Life'[d] = Life[d]
    <2>1. Life'[d] = Lived(delivery[d].cur, Row(d)') /\ Life[d] = Lived(delivery[d].cur, Row(d))
      BY LifeOf, LifeAfter
    <2>2. CASE Exists(d)
      <3>1. Current(d) \in Attempts /\ Current(d)' = Current(d)
        BY <2>2, CurrentType DEF TypeInv, TypeOK, Current
      <3>2. /\ Row(d)'.transport = Row(d).transport
            /\ Row(d)'.deployment = Row(d).deployment
            /\ Row(d)'.depId = Row(d).depId
        BY <3>1 DEF Row
      <3>3. Stage(Row(d)') = Stage(Row(d))
        BY <3>2 DEF Stage
      <3> QED
        BY <2>1, <3>2, <3>3 DEF Lived
    <2>3. CASE ~Exists(d)
      BY <2>1, <2>3 DEF Exists, Lived
    <2> QED
      BY <2>2, <2>3
  <1> QED
    BY <1>1, LifeOf

LEMMA SendingSame ==
    ASSUME IndInv, SetDeploymentCursor \/ RecordDeploymentRequest
    PROVE  UNCHANGED Life
  <1>1. CASE UNCHANGED storeVars
    BY <1>1, LifeSame
  <1>2. CASE ~(UNCHANGED storeVars)
    <2>1. /\ \/ attempt' = [attempt EXCEPT ![disp.att].cursor = disp.cursor]
             \/ attempt' = [attempt EXCEPT ![disp.att].request = TRUE]
          /\ UNCHANGED delivery
      BY <1>2 DEF SetDeploymentCursor, RecordDeploymentRequest, WorkerFails
    <2>2. attempt \in [Attempts -> AttemptRow] /\ TypeInv
      BY IndInvParts DEF IndInv, TypeOK
    <2>3. ASSUME NEW a \in Attempts
          PROVE  /\ attempt'[a].transport = attempt[a].transport
                 /\ attempt'[a].deployment = attempt[a].deployment
                 /\ attempt'[a].depId = attempt[a].depId
      <3>1. attempt[a] \in AttemptRow
        BY <2>2
      <3>2. \/ attempt'[a] = attempt[a]
            \/ attempt'[a] = [attempt[a] EXCEPT !.cursor = disp.cursor]
            \/ attempt'[a] = [attempt[a] EXCEPT !.request = TRUE]
        BY <2>1, <2>2
      <3> QED
        BY <3>1, <3>2 DEF AttemptRow
    <2> QED
      BY <2>1, <2>2, <2>3, LifeUnmoved
  <1> QED
    BY <1>1, <1>2

LEMMA ListingSame ==
    ASSUME IndInv, ListDuePolls
    PROVE  UNCHANGED Life
  <1>1. attempt \in [Attempts -> AttemptRow] /\ TypeInv /\ UNCHANGED delivery
    BY IndInvParts DEF IndInv, TypeOK, ListDuePolls
  <1>2. ASSUME NEW a \in Attempts
        PROVE  /\ attempt'[a].transport = attempt[a].transport
               /\ attempt'[a].deployment = attempt[a].deployment
               /\ attempt'[a].depId = attempt[a].depId
    <2>1. attempt[a] \in AttemptRow
      BY <1>1
    <2>2. attempt'[a] = attempt[a] \/ attempt'[a] = [attempt[a] EXCEPT !.polled = now]
      BY DEF ListDuePolls
    <2> QED
      BY <2>1, <2>2 DEF AttemptRow
  <1> QED
    BY <1>1, <1>2, LifeUnmoved

(* A POST: the first of its attempt.                                         *)
LEMMA ImplementsSend ==
    ASSUME IndInv, BindInv, [Next]_vars, PostAccepted \/ PostRefused \/ PostUncertain
    PROVE  \E d \in Deliveries : Abstract!Send(d)
  <1> DEFINE a == disp.att
             d == a[1]
  <1>1. /\ phase = "up" /\ disp.pc = "post"
        /\ posts' = [posts EXCEPT ![a] = @ + 1]
        /\ UNCHANGED storeVars /\ UNCHANGED ingested
    BY DEF PostAccepted, PostRefused, PostUncertain, Post, DispatcherOnly, bindingVars
  <1>2. a \in Attempts /\ IsCurrent(a) /\ attempt[a].transport = "sending" /\ Unsent(a)
    BY <1>1 DEF IndInv, LocalOK, DispatcherKeepsItsAttempt, StillSending, Unsent
  <1>3. d \in Deliveries /\ a = <<d, a[2]>> /\ a[2] # 0 /\ delivery[d].cur = a[2] /\ Row(d) = attempt[a]
    BY <1>2, AttemptFacts, CurrentFacts DEF IsCurrent
  <1>4. Life[d].stage = "sending" /\ Life[d].number = a[2]
    <2>1. Life[d] = Lived(a[2], attempt[a]) /\ Stage(attempt[a]) = "sending"
      BY <1>2, <1>3, LifeOf, StageFacts
    <2> QED
      BY <1>3, <2>1, LivedFacts
  <1>5. posts[a] = 0 /\ posts \in [Attempts -> Nat]
    BY <1>2 DEF IndInv, PostOK, TypeOK
  <1>6. posts' = [posts EXCEPT ![a] = 1]
    BY <1>1, <1>2, <1>5
  <1>7. UNCHANGED Life
    BY <1>1, LifeSame
  <1>8. TakenAttempts' \in {TakenAttempts, TakenAttempts \cup {a}}
    <2>1. \A b \in Attempts : Taken(b) => Taken(b)'
      BY TakenKept
    <2>2. \A b \in Attempts : Taken(b)' => Taken(b) \/ b = a
      BY TakenMoves DEF Sends
    <2> QED
      BY <1>2, <2>1, <2>2 DEF TakenAttempts
  <1>9. Abstract!Att(d) = a
    BY <1>3, <1>4 DEF Abstract!Att
  <1> HIDE DEF a, d
  <1>10. Abstract!Send(d)
    BY <1>1, <1>4, <1>5, <1>6, <1>7, <1>8, <1>9 DEF Abstract!Send, Abstract!At
  <1> QED
    BY <1>3, <1>10

(* What became of the POST.                                                  *)
LEMMA OutcomeStages ==
    ASSUME NEW row \in AttemptRow, NEW kind \in {"dokploy", "http"},
           NEW result \in {"accepted", "definitive", "uncertain"}
    PROVE  Stage(Outcome(kind, result, row)) =
              CASE result = "definitive" -> "failed"
                [] kind = "dokploy" /\ result = "accepted" -> "following"
                [] kind = "dokploy" /\ result = "uncertain" -> "doubtful"
                [] kind = "http" /\ result = "accepted" -> "done"
                [] kind = "http" /\ result = "uncertain" -> "ended"
  <1> DEFINE o == Outcome(kind, result, row)
  <1>1. CASE result = "definitive"
    <2>1. o.transport = "failed"
      BY <1>1 DEF Outcome, AttemptRow
    <2> QED
      BY <1>1, <2>1, StageFacts
  <1>2. CASE kind = "dokploy" /\ result \in {"accepted", "uncertain"}
    <2> DEFINE t == IF result = "accepted" THEN "enqueued" ELSE "unknown"
    <2>1. o = Scheduled([row EXCEPT !.transport = t, !.deployment = "locating"], now)
      BY <1>2 DEF Outcome
    <2>2. o.transport = t /\ o.deployment = "locating"
      BY <2>1 DEF Scheduled, AttemptRow
    <2> HIDE DEF o
    <2>3. Stage(o) = IF result = "accepted" THEN "following" ELSE "doubtful"
      BY <1>2, <2>2 DEF Stage, Monitored
    <2> QED
      BY <1>2, <2>3 DEF o
  <1>3. CASE kind = "http" /\ result \in {"accepted", "uncertain"}
    <2>1. /\ o.transport = (IF result = "accepted" THEN "enqueued" ELSE "unknown")
          /\ o.deployment = (IF result = "accepted" THEN "done" ELSE "unknown")
      BY <1>3 DEF Outcome, AttemptRow
    <2> HIDE DEF o
    <2>2. Stage(o) = IF result = "accepted" THEN "done" ELSE "ended"
      BY <1>3, <2>1 DEF Stage, Monitored
    <2> QED
      BY <1>3, <2>2 DEF o
  <1> QED
    BY <1>1, <1>2, <1>3

LEMMA ImplementsConclude ==
    ASSUME IndInv, BindInv, LifeInv, TransitionAttempt,
           UNCHANGED <<ingested, posts, TakenAttempts>>
    PROVE  \E d \in Deliveries : \E stage \in {"failed", "doubtful", "following", "done", "ended"} :
              Abstract!Conclude(d, stage)
  <1> DEFINE a == disp.att
             d == a[1]
             kind == KindOf(d)
             row == Outcome(kind, disp.result, attempt[a])
             stage == Stage(row)
  <1>0. TypeInv
    BY IndInvParts
  <1>1. /\ phase = "up" /\ disp.pc = "outcome" /\ a \in Attempts /\ d \in Deliveries
        /\ disp.result \in {"accepted", "definitive", "uncertain"}
    BY DEF TransitionAttempt, IndInv, LocalOK, Attempts
  <1>2. StillSending(a) /\ delivery[d].transport = "sending" /\ IsCurrent(a)
        /\ attempt[a].transport = "sending"
    BY <1>1 DEF IndInv, DispatcherKeepsItsAttempt, StillSending
  <1>3. WriteCurrent(a, row)
    BY <1>2 DEF TransitionAttempt
  <1>4. attempt[a] \in AttemptRow /\ now \in Nat /\ kind \in {"dokploy", "http"}
    BY <1>1, KindOfType DEF IndInv, TypeOK
  <1>5. row \in AttemptRow /\ row.depId = attempt[a].depId
    <2> HIDE DEF a, kind
    <2>1. row \in AttemptRow
      BY <1>1, <1>4, OutcomeType
    <2>2. row.depId = attempt[a].depId
      BY <1>1, <1>4, OutcomeFields
    <2> QED
      BY <2>1, <2>2
  <1>6. stage = CASE disp.result = "definitive" -> "failed"
                  [] kind = "dokploy" /\ disp.result = "accepted" -> "following"
                  [] kind = "dokploy" /\ disp.result = "uncertain" -> "doubtful"
                  [] kind = "http" /\ disp.result = "accepted" -> "done"
                  [] kind = "http" /\ disp.result = "uncertain" -> "ended"
    BY <1>1, <1>4, OutcomeStages
  <1>7. /\ disp.result = "definitive" => a \notin TakenAttempts
        /\ disp.result # "definitive" => posts[a] = 1
        /\ disp.result = "accepted" /\ kind = "dokploy" => a \in TakenAttempts
    <2>1. posts[a] \in Nat /\ posts[a] <= 1
      BY <1>1 DEF IndInv, TypeOK, AtMostOnePost
    <2> QED
      BY <1>1, <2>1 DEF BindInv, TakenOK, LifeInv, OutcomeOK, TakenAttempts
  <1> HIDE DEF row, kind
  <1>8. RowWritten(a, row)
    BY <1>0, <1>1, <1>2, <1>3, <1>5, WriteCurrentWritten
  <1>9. Life[d].stage = "sending" /\ Life[d].number = a[2] /\ Abstract!Enters(d, stage)
    <2>1. attempt'[a] = row /\ Stage(attempt[a]) = "sending"
      BY <1>1, <1>2, <1>8, WrittenLife, StageFacts
    <2> QED
      BY <1>0, <1>1, <1>5, <1>8, <2>1, LifeWritten, WrittenLife
  <1>10. Abstract!Att(d) = a
    BY <1>1, <1>9, AttemptFacts DEF Abstract!Att
  <1> HIDE DEF a, d, stage
  <1>11. /\ stage \in {"failed", "doubtful", "following", "done", "ended"}
         /\ IF stage = "failed" THEN a \notin TakenAttempts
            ELSE IF stage = "following" THEN a \in TakenAttempts ELSE posts[a] = 1
    BY <1>1, <1>4, <1>6, <1>7
  <1>12. Abstract!Conclude(d, stage)
    BY <1>9, <1>10, <1>11 DEF Abstract!Conclude, Abstract!At
  <1>13. d \in Deliveries
    BY <1>1
  <1> QED
    BY <1>11, <1>12, <1>13

(* A written row that the deployment was looked up for.                      *)
LEMMA FollowWritten ==
    ASSUME TypeInv, NEW a \in Attempts, IsCurrent(a),
           \A b \in Attempts : b # a => attempt'[b] = attempt[b],
           \A d \in Deliveries : delivery'[d].cur = delivery[d].cur,
           Stage(attempt[a]) \in {"doubtful", "following", "ended"},
           Stage(attempt'[a]) \in {"following", "done", "ended"},
           attempt[a].depId # NULL => attempt'[a].depId = attempt[a].depId,
           Stage(attempt'[a]) # "ended" => attempt'[a].depId # NULL,
           UNCHANGED <<ingested, posts, TakenAttempts>>
    PROVE  a[1] \in Deliveries /\ Abstract!Follow(a[1])
  <1> DEFINE d == a[1]
             n == attempt'[a]
  <1>1. /\ d \in Deliveries
        /\ Life[d].number = a[2] /\ Life[d].stage = Stage(attempt[a])
        /\ Life[d].bound = attempt[a].depId /\ Life'[d].bound = n.depId
        /\ Abstract!Becomes(d, [number |-> a[2], stage |-> Stage(n), bound |-> n.depId])
    BY LifeWritten
  <1>2. Abstract!Becomes(d, [number |-> Life[d].number, stage |-> Stage(n), bound |-> Life'[d].bound])
    BY <1>1
  <1> QED
    BY <1>1, <1>2 DEF Abstract!Follow, Abstract!At

LEMMA ImplementsPoll ==
    ASSUME IndInv, BindInv, CompletePoll, UNCHANGED <<ingested, posts, TakenAttempts>>
    PROVE  UNCHANGED Life \/ \E d \in Deliveries : Abstract!Follow(d)
  <1> DEFINE w == poll.item
             u == poll.update
             a == w.att
             o == attempt[a]
             n == attempt'[a]
  <1>0. TypeInv
    BY IndInvParts
  <1>1. CASE ~PollClaimHeld(a)
    BY <1>1, LifeSame DEF CompletePoll
  <1>2. CASE PollClaimHeld(a)
    <2>1. /\ a \in Attempts /\ IsCurrent(a) /\ PollChange(a, o, n)
          /\ \A b \in Attempts : b # a => attempt'[b] = attempt[b]
          /\ \A d \in Deliveries : delivery'[d].cur = delivery[d].cur
      BY <1>0, <1>2, PollWrites
    <2>2. /\ w # NULL /\ n.transport = u.transport /\ n.deployment = u.deployment
          /\ n.depId = DeploymentID(o, u)
      BY <2>1 DEF PollChange, CompletePoll
    <2>3. /\ o.deployment \in Monitored /\ o.transport = w.transport /\ o.depId = w.depId
          /\ w.transport \in {"enqueued", "unknown"}
      BY <1>2, <2>2 DEF IndInv, PollOK, WorkOK, ClaimOK
    <2>4. o.deployment = w.deployment /\ AnswerOK(w, u)
      BY <1>2, <2>2 DEF BindInv, PollBinds, ReadOK
    <2> HIDE DEF w, u, o, n
    <2>5. Stage(o) \in {"doubtful", "following"}
      BY <2>3 DEF Stage
    <2>6. CASE u.depId # NULL
      <3>1. /\ n.transport = "enqueued" /\ n.deployment \in BoundStatus
            /\ n.depId # NULL /\ (o.depId # NULL => n.depId = o.depId)
        BY <2>2, <2>3, <2>4, <2>6 DEF AnswerOK, DeploymentID
      <3>2. Stage(n) \in {"following", "done", "ended"}
        BY <3>1 DEF Stage
      <3>3. a[1] \in Deliveries /\ Abstract!Follow(a[1])
        BY <1>0, <2>1, <2>5, <3>1, <3>2, FollowWritten DEF o, n
      <3> QED
        BY <3>3
    <2>7. CASE u.depId = NULL
      <3>1. /\ n.transport = o.transport /\ n.depId = o.depId
            /\ n.deployment \in {o.deployment, "unknown", "timeout"}
        BY <2>2, <2>3, <2>4, <2>7 DEF AnswerOK, DeploymentID
      <3>2. CASE n.deployment = o.deployment
        <4>1. \A b \in Attempts :
                 /\ attempt'[b].transport = attempt[b].transport
                 /\ attempt'[b].deployment = attempt[b].deployment
                 /\ attempt'[b].depId = attempt[b].depId
          BY <2>1, <3>1, <3>2 DEF o, n
        <4> QED
          BY <1>0, <2>1, <4>1, LifeUnmoved
      <3>3. CASE n.deployment \in {"unknown", "timeout"}
        <4>1. Stage(n) = "ended"
          BY <2>3, <3>1, <3>3 DEF Stage, Monitored
        <4>2. a[1] \in Deliveries /\ Abstract!Follow(a[1])
          BY <1>0, <2>1, <2>5, <3>1, <4>1, FollowWritten DEF o, n
        <4> QED
          BY <4>2
      <3> QED
        BY <3>1, <3>2, <3>3
    <2> QED
      BY <2>6, <2>7
  <1> QED
    BY <1>1, <1>2

(* An operator's request: it corrects what it looked up, or starts over.     *)
LEMMA SeenStages ==
    ASSUME IndInv, BindInv, LifeInv, NEW u \in Operators, exec[u].pc = "apply",
           SeenStillCurrent(exec[u].seen)
    PROVE  LET s == Stage(attempt[exec[u].seen.att])
           IN /\ s \in {"doubtful", "failed", "ended"}
              /\ exec[u].update.correct => s # "failed"
  <1> DEFINE x == exec[u]
             a == x.seen.att
             o == attempt[a]
  <1>1. /\ a \in Attempts /\ IsCurrent(a) /\ o.transport \notin {"pending", "sending"}
        /\ o.deployment # "done"
    BY SeenIsBound
  <1>2. o.transport = x.seen.transport /\ o.deployment = x.seen.deployment
    BY DEF SeenStillCurrent
  <1>3. ViewOK(x)
    BY DEF LifeInv
  <1>4. o.transport = "failed" => o.deployment = "not_started"
    BY <1>1, CurrentFacts, AttemptFacts DEF LifeInv, FailedUnstarted
  <1> HIDE DEF x, o
  <1>5. /\ o.transport = "unknown" \/ o.deployment \notin Monitored
        /\ x.update.correct => NeedsReconciliation(o.transport, o.deployment)
    BY <1>2, <1>3 DEF ViewOK
  <1>6. Stage(o) \in {"doubtful", "failed", "ended"}
    BY <1>1, <1>5 DEF Stage
  <1>7. x.update.correct => o.transport # "failed"
    BY <1>4, <1>5 DEF NeedsReconciliation
  <1> QED
    BY <1>6, <1>7, StageFacts DEF x, o

LEMMA ImplementsApply ==
    ASSUME IndInv, BindInv, LifeInv, NEW u \in Operators, ApplyManualUpdate(u),
           UNCHANGED <<ingested, posts, TakenAttempts>>
    PROVE  \/ UNCHANGED Life
           \/ \E d \in Deliveries : Abstract!Follow(d) \/ Abstract!Retry(d)
  <1> DEFINE a == exec[u].seen.att
             update == exec[u].update
             row == IF update.correct THEN Corrected(attempt[a], update) ELSE attempt[a]
             fresh == <<a[1], a[2] + 1>>
  <1>0. TypeInv /\ exec[u].pc = "apply"
    BY IndInvParts DEF ApplyManualUpdate
  <1>1. /\ a \in Attempts /\ a[1] \in Deliveries /\ update \in ManualUpdate
        /\ fresh \in Attempts /\ fresh # a /\ row \in AttemptRow
    BY <1>0, ApplyEffect
  <1>2. CASE UNCHANGED storeVars
    BY <1>2, LifeSame
  <1>3. CASE ~(UNCHANGED storeVars)
    <2>1. /\ SeenStillCurrent(exec[u].seen)
          /\ attempt'[a] = row
          /\ \A d \in Deliveries : d # a[1] => delivery'[d] = delivery[d]
          /\ \/ /\ update.create
                /\ attempt'[fresh] = NewAttempt
                /\ \A b \in Attempts \ {a, fresh} : attempt'[b] = attempt[b]
                /\ delivery'[a[1]].cur = a[2] + 1
                /\ delivery'[a[1]].transport = "pending"
                /\ delivery'[a[1]].deployment = "not_started"
             \/ /\ ~update.create
                /\ \A b \in Attempts \ {a} : attempt'[b] = attempt[b]
                /\ delivery'[a[1]].cur = delivery[a[1]].cur
      BY <1>0, <1>3, ApplyEffect
    <2>2. /\ Stage(attempt[a]) \in {"doubtful", "failed", "ended"}
          /\ update.correct => Stage(attempt[a]) # "failed"
      BY <1>0, <2>1, SeenStages, Zenon
    <2>3. IsCurrent(a) /\ attempt[a] \in AttemptRow /\ attempt[a].depId = exec[u].seen.depId
      BY <1>0, <1>1, <2>1, SeenIsBound, Zenon DEF TypeInv, TypeOK
    <2>4. CASE update.create
      <3>1. fresh[1] = a[1] /\ fresh[2] = a[2] + 1
        OBVIOUS
      <3>2. \A b \in Attempts : b[1] # a[1] => attempt'[b] = attempt[b]
        <4> HIDE DEF a, row
        <4> QED
          BY <2>1, <2>4, <3>1
      <3>3. FreshRow(fresh)
        <4> HIDE DEF a, row, fresh
        <4> QED
          BY <2>1, <2>4, <3>1, <3>2 DEF FreshRow
      <3>4. Abstract!Becomes(a[1], Abstract!Waiting(a[2] + 1))
        BY <1>0, <1>1, <3>1, <3>3, LifeFresh
      <3>5. Life[a[1]] = Lived(a[2], attempt[a]) /\ a[2] # 0
        BY <1>1, <2>3, AttemptFacts, CurrentFacts, LifeOf DEF IsCurrent
      <3>6. Life[a[1]].number = a[2] /\ Life[a[1]].stage = Stage(attempt[a])
        BY <3>5, LivedFacts
      <3>7. a[2] < MaxAttempts
        BY <1>0 DEF TypeInv, LocalOK
      <3> HIDE DEF a
      <3>8. Abstract!Retry(a[1])
        BY <2>2, <3>4, <3>6, <3>7 DEF Abstract!Retry, Abstract!At
      <3> QED
        BY <1>1, <3>8
    <2>5. CASE ~update.create
      <3>1. /\ update.correct /\ update.transport = "enqueued" /\ update.depId # NULL
            /\ update.deployment \in BoundStatus
            /\ exec[u].seen.depId # NULL => update.depId = exec[u].seen.depId
        BY <1>0, <2>5 DEF IndInv, ExecOK, RequestOK, BindInv, SeensOK, SeenOK
      <3>2. attempt'[a] = Corrected(attempt[a], update)
        BY <2>1, <3>1
      <3>3. /\ attempt'[a].transport = update.transport /\ attempt'[a].depId = update.depId
            /\ attempt'[a].deployment = update.deployment
        <4> HIDE DEF a, update
        <4> QED
          BY <2>3, <3>2 DEF Corrected, AttemptRow
      <3>4. Stage(attempt'[a]) \in {"following", "done", "ended"}
        BY <3>1, <3>3 DEF Stage
      <3>5. /\ \A b \in Attempts : b # a => attempt'[b] = attempt[b]
            /\ \A d \in Deliveries : delivery'[d].cur = delivery[d].cur
        BY <2>1, <2>5
      <3> HIDE DEF a, update
      <3>6. Abstract!Follow(a[1])
        BY <1>0, <1>1, <2>2, <2>3, <3>1, <3>3, <3>4, <3>5, FollowWritten
      <3> QED
        BY <1>1, <3>6
    <2> QED
      BY <2>4, <2>5
  <1> QED
    BY <1>2, <1>3

(* A webhook's delivery begins.                                              *)
LEMMA ImplementsAccept ==
    ASSUME IndInv, NEW d \in Deliveries, Ingest(d), UNCHANGED <<posts, TakenAttempts>>
    PROVE  Abstract!Accept(d)
  <1> DEFINE a == <<d, 1>>
  <1>0. TypeInv
    BY IndInvParts
  <1>1. /\ d \notin ingested /\ ingested' = ingested \cup {d}
        /\ delivery' = [delivery EXCEPT ![d] = [NoDelivery EXCEPT !.cur = 1]]
        /\ attempt' = [attempt EXCEPT ![a] = NewAttempt]
    BY DEF Ingest
  <1>2. a \in Attempts /\ a[1] = d /\ a[2] = 1
    BY DeliveryAssumption DEF Attempts
  <1>3. /\ attempt'[a] = NewAttempt
        /\ \A b \in Attempts : b # a => attempt'[b] = attempt[b]
    BY <1>0, <1>1, <1>2 DEF TypeInv, TypeOK
  <1>4. /\ delivery'[d].cur = 1 /\ delivery'[d].transport = "pending"
        /\ delivery'[d].deployment = "not_started"
        /\ \A e \in Deliveries : e # d => delivery'[e] = delivery[e]
    BY <1>0, <1>1 DEF TypeInv, TypeOK, NoDelivery
  <1>5. FreshRow(a)
    BY <1>2, <1>3, <1>4 DEF FreshRow
  <1> HIDE DEF a
  <1>6. Abstract!Becomes(d, Abstract!Waiting(1))
    BY <1>0, <1>2, <1>5, LifeFresh
  <1> QED
    BY <1>1, <1>6 DEF Abstract!Accept

(* Rows are deleted: retention and an operator who clears the history.       *)
LEMMA ImplementsForget ==
    ASSUME IndInv, NEW D \in SUBSET Deliveries, Delete(D), \A d \in D : ~ActiveDelivery(d),
           UNCHANGED <<ingested, posts, TakenAttempts>>
    PROVE  \E E \in SUBSET Deliveries : Abstract!Forget(E)
  <1> DEFINE E == {d \in D : Exists(d)}
  <1>0. TypeInv
    BY IndInvParts
  <1>1. /\ \A d \in Deliveries : delivery'[d] = IF d \in D THEN NoDelivery ELSE delivery[d]
        /\ \A a \in Attempts : attempt'[a] = IF a[1] \in D THEN NewAttempt ELSE attempt[a]
    BY DEF Delete
  <1>2. ASSUME NEW d \in E PROVE Life[d].stage \in {"failed", "done", "ended"}
    <2>1. Life[d].stage = Stage(Row(d))
      BY LifeOf DEF Lived, Exists
    <2>2. Row(d).transport \notin {"pending", "sending"} /\ Row(d).deployment \notin Monitored
      BY DEF ActiveDelivery, Active
    <2> QED
      BY <2>1, <2>2 DEF Stage
  <1>3. ASSUME NEW d \in Deliveries
        PROVE  Life'[d] = IF d \in E THEN Abstract!Unborn ELSE Life[d]
    <2>1. Life'[d] = Lived(delivery'[d].cur, Row(d)') /\ Life[d] = Lived(delivery[d].cur, Row(d))
      BY LifeOf, LifeAfter
    <2>2. CASE d \in D
      <3>1. delivery'[d].cur = 0
        BY <1>1, <2>2 DEF NoDelivery
      <3>2. Life'[d] = Abstract!Unborn
        BY <2>1, <3>1 DEF Lived, Abstract!Unborn
      <3>3. d \notin E => Life[d] = Abstract!Unborn
        BY <2>1, <2>2 DEF Lived, Exists, Abstract!Unborn
      <3> QED
        BY <3>2, <3>3
    <2>3. CASE d \notin D /\ Exists(d)
      <3>1. Current(d) \in Attempts /\ Current(d)[1] = d
        BY <1>0, <2>3, CurrentType DEF TypeInv, TypeOK
      <3>2. delivery'[d] = delivery[d] /\ Current(d)' = Current(d)
        BY <1>1, <2>3 DEF Current
      <3>3. Row(d)' = Row(d)
        BY <1>1, <2>3, <3>1, <3>2 DEF Row
      <3> QED
        BY <2>1, <2>3, <3>2, <3>3
    <2>4. CASE d \notin D /\ ~Exists(d)
      BY <1>1, <2>1, <2>4 DEF Lived, Exists
    <2> QED
      BY <2>2, <2>3, <2>4
  <1> HIDE DEF E
  <1>4. Life' = [d \in Deliveries |-> IF d \in E THEN Abstract!Unborn ELSE Life[d]]
    BY <1>3, LifeOf
  <1>5. Abstract!Forget(E)
    BY <1>2, <1>4 DEF Abstract!Forget, Abstract!At
  <1>6. E \in SUBSET Deliveries
    BY DEF E
  <1> QED
    BY <1>5, <1>6

(* Startup ends what no longer resolves.                                     *)
LEMMA ImplementsWithdraw ==
    ASSUME IndInv, BindInv, NEW d \in Deliveries, TerminateIncompatibleActive(d),
           UNCHANGED <<ingested, posts, TakenAttempts>>
    PROVE  Abstract!Withdraw(d)
  <1> DEFINE a == Current(d)
             o == attempt[a]
             row == Terminated(o)
  <1>0. TypeInv
    BY IndInvParts
  <1>1. Exists(d) /\ WriteCurrent(a, row) /\ Active(o.transport, o.deployment)
    BY DEF TerminateIncompatibleActive, ActiveDelivery, Row
  <1>2. a \in Attempts /\ a[1] = d /\ IsCurrent(a) /\ o \in AttemptRow /\ RowOK(o)
    BY <1>0, <1>1, CurrentType DEF TypeInv, TypeOK, IsCurrent, IndInv, RowsOK, Row
  <1>3. row \in AttemptRow
    BY <1>2, TerminatedType
  <1>4. /\ row.depId = o.depId
        /\ IF o.transport = "pending" THEN row.transport = "failed"
           ELSE row.transport = "unknown" /\ row.deployment = "unknown"
    BY <1>2 DEF Terminated, AttemptRow, RowOK
  <1>5. o.transport = "pending" => a \notin TakenAttempts
    BY <1>2, UnsentIsUntaken DEF Unsent, TakenAttempts
  <1> HIDE DEF a, o, row
  <1>6. RowWritten(a, row)
    BY <1>0, <1>1, <1>2, <1>3, WriteCurrentWritten
  <1>7. attempt'[a] = row
    BY <1>2, <1>6, WrittenLife
  <1>8. Life[d].number = a[2] /\ Life[d].stage = Stage(o) /\ Abstract!Enters(d, Stage(row))
    BY <1>0, <1>2, <1>4, <1>6, <1>7, LifeWritten, WrittenLife DEF o
  <1>9. Abstract!Att(d) = a
    BY <1>2, <1>8, AttemptFacts DEF Abstract!Att
  <1>10. CASE o.transport = "pending"
    <2>1. Stage(o) = "waiting" /\ Stage(row) = "failed"
      BY <1>4, <1>10, StageFacts
    <2> QED
      BY <1>5, <1>8, <1>9, <1>10, <2>1 DEF Abstract!Withdraw, Abstract!At
  <1>11. CASE o.transport # "pending"
    <2>1. Stage(row) = "ended"
      BY <1>4, <1>11 DEF Stage, Monitored
    <2>2. Stage(o) \in {"sending", "doubtful", "following"}
      BY <1>1, <1>2, <1>11 DEF Stage, Active, RowOK
    <2> QED
      BY <1>8, <2>1, <2>2 DEF Abstract!Withdraw, Abstract!At
  <1> QED
    BY <1>10, <1>11

(* Startup takes up what a stop interrupted.                                 *)
LEMMA ImplementsRecover ==
    ASSUME IndInv, RecoverInterrupted, UNCHANGED <<ingested, posts, TakenAttempts>>
    PROVE  Abstract!Recover
  <1>0. TypeInv /\ SafeInv /\ now \in Nat
    BY IndInvParts DEF TypeInv, TypeOK
  <1>1. ASSUME NEW d \in Deliveries
        PROVE  Life'[d] = IF Life[d].stage \in {"sending"}
                          THEN [Life[d] EXCEPT !.stage = "doubtful"] ELSE Life[d]
    <2> DEFINE k == delivery[d].cur
               o == Row(d)
               n == Row(d)'
    <2>1. delivery'[d].cur = k
      BY <1>0, RecoverEffect
    <2>2. Life'[d] = Lived(k, n) /\ Life[d] = Lived(k, o)
      BY <2>1, LifeOf, LifeAfter
    <2>3. CASE ~Exists(d)
      <3>1. Life'[d] = Life[d] /\ Life[d].stage = "none"
        BY <2>2, <2>3 DEF Exists, Lived
      <3> QED
        BY <3>1
    <2>4. CASE Exists(d)
      <3>1. o \in AttemptRow /\ RowOK(o) /\ k # 0
        BY <1>0, <2>4, RowType DEF TypeInv, TypeOK, SafeInv, RowsOK, Exists
      <3>2. n = IF Interrupted(o) THEN Recovered(o) ELSE o
        BY <1>0, <2>4, RecoverEffect
      <3>3. /\ n.transport = (IF o.transport = "sending" THEN "unknown" ELSE o.transport)
            /\ n.deployment = (IF o.transport = "sending" THEN "locating" ELSE o.deployment)
            /\ n.depId = o.depId
        <4>1. CASE Interrupted(o)
          BY <1>0, <3>1, <3>2, <4>1, RecoveredFacts
        <4>2. CASE ~Interrupted(o)
          BY <3>2, <4>2 DEF Interrupted
        <4> QED
          BY <4>1, <4>2
      <3> HIDE DEF k, o, n
      <3>4. Life[d].stage = Stage(o) /\ Life'[d] = [Life[d] EXCEPT !.stage = Stage(n)]
            /\ (Stage(n) = Stage(o) => Life'[d] = Life[d])
        <4>1. /\ Lived(k, o).stage = Stage(o)
              /\ Lived(k, n) = [Lived(k, o) EXCEPT !.stage = Stage(n)]
          BY <3>1, <3>3, LivedFacts
        <4>2. Stage(n) = Stage(o) => Lived(k, n) = Lived(k, o)
          BY <3>3 DEF Lived
        <4> QED
          BY <2>2, <4>1, <4>2
      <3>5. CASE o.transport = "sending"
        <4>1. Stage(o) = "sending" /\ Stage(n) = "doubtful"
          BY <3>3, <3>5 DEF Stage, Monitored
        <4> QED
          BY <3>4, <4>1
      <3>6. CASE o.transport # "sending"
        <4>1. Stage(o) # "sending" /\ Stage(n) = Stage(o)
          BY <3>3, <3>6 DEF Stage
        <4> QED
          BY <3>4, <4>1
      <3> QED
        BY <3>5, <3>6
    <2> QED
      BY <2>3, <2>4
  <1>2. Life' = [d \in Deliveries |->
                   IF Life[d].stage \in {"sending"}
                   THEN [Life[d] EXCEPT !.stage = "doubtful"] ELSE Life[d]]
    BY <1>1, LifeOf
  <1> QED
    BY <1>2 DEF Abstract!Recover, Abstract!At

-----------------------------------------------------------------------------
(* The refinement.                                                           *)

LEMMA ImplementsInit == Init => Abstract!Init
  <1> SUFFICES ASSUME Init PROVE Abstract!Init
    OBVIOUS
  <1>1. \A d \in Deliveries : delivery[d].cur = 0
    BY DEF Init, NoDelivery
  <1>2. Life = [d \in Deliveries |-> Abstract!Unborn]
    BY <1>1, LifeOf DEF Lived, Abstract!Unborn
  <1>3. TakenAttempts = {}
    <2>1. ASSUME NEW a \in Attempts PROVE ~Taken(a)
      <3>1. history[ResourceOf(a[1])] = <<>>
        BY AttemptFacts, KindOfType DEF Init
      <3> QED
        BY <3>1 DEF Init, Taken, Recorded
    <2> QED
      BY <2>1 DEF TakenAttempts
  <1> QED
    BY <1>2, <1>3 DEF Init, Abstract!Init, Attempts

LEMMA ImplementsNext ==
    IndInv /\ BindInv /\ LifeInv /\ [Next]_vars => [Abstract!Next]_(Abstract!vars)
  <1> SUFFICES ASSUME IndInv, BindInv, LifeInv, [Next]_vars
               PROVE  Abstract!Next \/ UNCHANGED Abstract!vars
    OBVIOUS
  <1>1. CASE PostAccepted \/ PostRefused \/ PostUncertain
    BY <1>1, ImplementsSend DEF Abstract!Next
  <1>2. CASE \E d \in Deliveries : Ingest(d)
    <2>1. ~(PostAccepted \/ PostRefused \/ PostUncertain)
      BY <1>2 DEF Ingest, PostAccepted, PostRefused, PostUncertain, Post, DispatcherOnly, bindingVars
    <2> QED
      BY <1>2, <2>1, RestSame, ImplementsAccept DEF Abstract!Next
  <1>3. CASE ~(PostAccepted \/ PostRefused \/ PostUncertain) /\ ~(\E d \in Deliveries : Ingest(d))
    <2>0. UNCHANGED <<ingested, posts, TakenAttempts>>
      BY <1>3, RestSame, IngestedMoves
    <2>1. CASE Dispatch
      <3>1. CASE \E d \in Deliveries : ClaimPendingAttempt(d)
        BY <2>0, <3>1, ImplementsClaim DEF Abstract!Next
      <3>2. CASE Preflight \/ RequestFails
        BY <2>0, <3>2, LifeSame, PromiseSame DEF Preflight, RequestFails
      <3>3. CASE SetDeploymentCursor \/ RecordDeploymentRequest
        BY <2>0, <3>3, SendingSame, PromiseSame
      <3>4. CASE TransitionAttempt
        BY <2>0, <3>4, ImplementsConclude DEF Abstract!Next
      <3> QED
        BY <1>3, <2>1, <3>1, <3>2, <3>3, <3>4 DEF Dispatch
    <2>2. CASE Poll
      <3>1. CASE ListDuePolls
        BY <2>0, <3>1, ListingSame, PromiseSame
      <3>2. CASE \E w \in poll.todo : PollLookup(w)
        BY <2>0, <3>2, LifeSame, PromiseSame DEF PollLookup
      <3>3. CASE CompletePoll
        BY <2>0, <3>3, ImplementsPoll, PromiseSame DEF Abstract!Next
      <3> QED
        BY <2>2, <3>1, <3>2, <3>3 DEF Poll
    <2>3. CASE Manual
      <3>1. CASE \E u \in Operators, d \in Deliveries, op \in Operation : ExecuteStart(u, d, op)
        BY <2>0, <3>1, LifeSame, PromiseSame DEF ExecuteStart
      <3>2. CASE \E u \in Operators : ExecuteLookup(u)
        BY <2>0, <3>2, LifeSame, PromiseSame DEF ExecuteLookup
      <3>3. CASE \E u \in Operators : ApplyManualUpdate(u)
        BY <2>0, <3>3, ImplementsApply, PromiseSame DEF Abstract!Next
      <3> QED
        BY <2>3, <3>1, <3>2, <3>3 DEF Manual
    <2>4. CASE Startup
      <3>1. CASE \E S \in SUBSET ingested : Boot(S)
        BY <2>0, <3>1, LifeSame, PromiseSame DEF Boot
      <3>2. CASE \E d \in Deliveries : TerminateIncompatibleActive(d)
        BY <2>0, <3>2, ImplementsWithdraw DEF Abstract!Next
      <3>3. CASE RecoverInterrupted
        BY <2>0, <3>3, ImplementsRecover DEF Abstract!Next
      <3> QED
        BY <2>4, <3>1, <3>2, <3>3 DEF Startup
    <2>5. CASE Remote \/ Tick \/ Crash
      BY <2>0, <2>5, LifeSame, PromiseSame
         DEF Remote, RemoteList, RemoteForeign, RemoteProgress, RemoteRelabel, RemoteTrim,
             RemoteOnly, Tick, Crash
    <2>6. ASSUME NEW D \in SUBSET Deliveries, Prune(D) PROVE Abstract!Next
      BY <2>0, <2>6, ImplementsForget DEF Prune, Abstract!Next
    <2>7. CASE ClearHistory
      BY <2>0, <2>7, ImplementsForget DEF ClearHistory, Abstract!Next
    <2>8. CASE \E S \in SUBSET ingested : PublishGeneration(S)
      BY <2>0, <2>8, LifeSame, PromiseSame DEF PublishGeneration
    <2>9. CASE UNCHANGED vars
      BY <2>0, <2>9, LifeSame, PromiseSame DEF vars
    <2> QED
      BY <1>3, <2>1, <2>2, <2>3, <2>4, <2>5, <2>6, <2>7, <2>8, <2>9 DEF Next
  <1> QED
    BY <1>1, <1>2, <1>3

(* The bindings, and with them what the steps of Lifecycle need, hold always. *)
THEOREM LifeInductive == Spec => [](IndInv /\ BindInv /\ LifeInv)
  BY BindInductive, InitLife, LifeStep, PTL DEF Spec

(* The delivery side implements Lifecycle: for any number of deliveries,      *)
(* attempts, targets, operators and crashes, and whatever Dokploy lists,      *)
(* renames or drops, a delivery is only claimed, sent, concluded, followed,   *)
(* retried, withdrawn, recovered and deleted as Lifecycle allows.             *)
THEOREM ImplementsLifecycle == Spec => LivesAsPromised
  <1>1. Spec => Abstract!Init /\ [][Abstract!Next]_(Abstract!vars)
    BY ImplementsInit, ImplementsNext, LifeInductive, PTL DEF Spec
  <1> QED
    BY <1>1 DEF LivesAsPromised, Abstract!Spec

=============================================================================
