--------------------------- MODULE HistoryProofs ---------------------------
(***************************************************************************)
(* Proofs about History, for every set of webhooks, all limits and page     *)
(* sizes, and any number of rows: retention deletes exactly what the limits *)
(* say, the list, the detail and their pages agree, and the statistics of a *)
(* pipeline are those of everything received of it.                         *)
(***************************************************************************)
EXTENDS History, FiniteSetTheorems, SequenceTheorems, TLAPS

-----------------------------------------------------------------------------
(* Least and greatest elements, and ranks, of finite sets of numbers.        *)

LEMMA LeastExists ==
    ASSUME NEW S \in SUBSET Nat, S # {}
    PROVE  \E m \in S : \A j \in S : m <= j
<1>1. IsWellFoundedOn(OpToRel(<, Nat), Nat)
  BY NatLessThanWellFounded
<1>2. PICK m \in S : \A y \in S : ~(<<y, m>> \in OpToRel(<, Nat))
  BY <1>1, WFMin
<1>3. \A y \in S : ~(y < m)
  BY <1>2 DEF OpToRel
<1>. QED  BY <1>3

LEMMA GreatestExists ==
    ASSUME NEW n \in Nat, NEW S \in SUBSET (1..n), S # {}
    PROVE  \E m \in S : \A j \in S : j <= m
<1>. DEFINE T == {x \in Nat : \E i \in S : x = n - i}
<1>1. PICK i \in S : TRUE
  OBVIOUS
<1>2. n - i \in T
  BY <1>1
<1>3. T \in SUBSET Nat /\ T # {}
  BY <1>2
<1>4. PICK t \in T : \A x \in T : t <= x
  BY <1>3, LeastExists
<1>5. PICK m \in S : t = n - m
  BY <1>4
<1>6. ASSUME NEW j \in S PROVE j <= m
  <2>1. n - j \in T
    OBVIOUS
  <2>2. t <= n - j
    BY <1>4, <2>1
  <2>. QED  BY <1>5, <2>2
<1>. QED  BY <1>5, <1>6

LEMMA NewestIsGreatest ==
    ASSUME NEW n \in Nat, NEW S \in SUBSET (1..n), S # {}
    PROVE  Newest(S) \in S /\ \A j \in S : j <= Newest(S)
BY GreatestExists DEF Newest

LEMMA NewestIs ==
    ASSUME NEW n \in Nat, NEW S \in SUBSET (1..n), NEW i \in S, \A j \in S : j <= i
    PROVE  Newest(S) = i
<1>1. Newest(S) \in S /\ \A j \in S : j <= Newest(S)
  BY NewestIsGreatest
<1>2. Newest(S) <= i /\ i <= Newest(S) /\ Newest(S) \in 1..n /\ i \in 1..n
  BY <1>1
<1>. QED  BY <1>2

LEMMA RowsAreFinite ==
    ASSUME NEW n \in Nat, NEW S \in SUBSET (1..n)
    PROVE  IsFiniteSet(S) /\ Cardinality(S) \in Nat /\ Cardinality(S) <= n
<1>1. IsFiniteSet(1..n) /\ Cardinality(1..n) = n
  BY FS_Interval
<1>. QED  BY <1>1, FS_Subset, FS_CardinalityType

(* What stays when the rows behind the limit newest ones are deleted.        *)
LEMMA KeptWithinLimit ==
    ASSUME NEW n \in Nat, NEW S \in SUBSET (1..n), NEW limit \in Nat \ {0}
    PROVE  Cardinality(S \ TerminalAfter(S, limit)) <= limit
<1>. DEFINE K == S \ TerminalAfter(S, limit)
<1>1. CASE K = {}
  BY <1>1, FS_EmptySet
<1>2. CASE K # {}
  <2>1. K \subseteq S /\ \A x \in S : x \in Nat
    OBVIOUS
  <2>2. PICK m \in K : \A j \in K : m <= j
    BY <1>2, <2>1, LeastExists
  <2>. DEFINE U == {j \in S : j > m}
  <2>3. Cardinality(U) \in Nat /\ IsFiniteSet(U)
    BY RowsAreFinite
  <2>4. Cardinality(U) < limit
    BY <2>2, <2>3 DEF TerminalAfter
  <2>5. K \ {m} \subseteq U
    <3>1. ASSUME NEW k \in K, k # m PROVE k \in S /\ k > m
      BY <2>1, <2>2, <3>1
    <3>. QED  BY <3>1
  <2>6. Cardinality(K \ {m}) <= Cardinality(U)
    BY <2>3, <2>5, FS_Subset
  <2>7. IsFiniteSet(K) /\ Cardinality(K) \in Nat
    BY RowsAreFinite
  <2>8. Cardinality(K \ {m}) = Cardinality(K) - 1
    BY <2>2, <2>7, FS_RemoveElement
  <2>. QED  BY <2>3, <2>4, <2>6, <2>7, <2>8
<1>. QED  BY <1>1, <1>2

LEMMA DeletedAreOlder ==
    ASSUME NEW n \in Nat, NEW S \in SUBSET (1..n), NEW limit \in Nat,
           NEW i \in TerminalAfter(S, limit), NEW j \in S \ TerminalAfter(S, limit)
    PROVE  j > i
<1>. SUFFICES ASSUME ~(j > i) PROVE FALSE
  OBVIOUS
<1>. DEFINE U == {k \in S : k > i}
            V == {k \in S : k > j}
<1>1. i \in S /\ j \in S /\ i \in Nat /\ j \in Nat
  BY DEF TerminalAfter
<1>2. Cardinality(U) \in Nat /\ Cardinality(V) \in Nat /\ IsFiniteSet(V)
  BY RowsAreFinite
<1>3. Cardinality(U) >= limit /\ ~(Cardinality(V) >= limit)
  BY DEF TerminalAfter
<1>4. U \subseteq V
  <2>1. ASSUME NEW k \in S, k > i PROVE k > j
    BY <1>1, <2>1
  <2>. QED  BY <2>1
<1>5. Cardinality(U) <= Cardinality(V)
  BY <1>2, <1>4, FS_Subset
<1>. QED  BY <1>2, <1>3, <1>5

LEMMA DeletedOnlyIfFull ==
    ASSUME NEW n \in Nat, NEW S \in SUBSET (1..n), NEW limit \in Nat,
           TerminalAfter(S, limit) # {}
    PROVE  Cardinality(S \ TerminalAfter(S, limit)) >= limit
<1>1. TerminalAfter(S, limit) \in SUBSET (1..n)
  BY DEF TerminalAfter
<1>2. PICK m \in TerminalAfter(S, limit) : \A j \in TerminalAfter(S, limit) : j <= m
  BY <1>1, GreatestExists
<1>. DEFINE K == S \ TerminalAfter(S, limit)
            U == {j \in S : j > m}
<1>3. IsFiniteSet(K) /\ Cardinality(K) \in Nat /\ Cardinality(U) \in Nat
  BY RowsAreFinite
<1>4. U \subseteq K
  BY <1>1, <1>2
<1>5. Cardinality(U) <= Cardinality(K)
  BY <1>3, <1>4, FS_Subset
<1>6. Cardinality(U) >= limit
  BY <1>2 DEF TerminalAfter
<1>. QED  BY <1>3, <1>5, <1>6

-----------------------------------------------------------------------------
(* The inductive invariant: rows have their types, are numbered as they came *)
(* and sorted by their times, and a request for a detail holds a row's       *)
(* number, from its second query on that of a pipeline.                      *)

AllTargets == UNION {h.targets : h \in Webhooks}
DeliveryStates == UNION {[T -> {"active", "done", "failed"}] : T \in SUBSET AllTargets}
LogRow == [nr : Nat, hook : Webhooks, at : Nat, stored : BOOLEAN, observed : BOOLEAN,
           deferred : BOOLEAN, deliveries : DeliveryStates]
DetailState == [pc : {"none", "row", "start", "push", "states"}, id : Nat, start : Nat,
                states : Seq(Nat)]

LogOK == log \in Seq(LogRow) /\ Len(log) <= MaxRows /\ now \in 0..MaxTime
Numbered ==
    /\ {log[i].nr : i \in Rows} = 1..Len(log)
    /\ \A i, j \in Rows : log[i].nr = log[j].nr => i = j
Sorted == \A i, j \in Rows : i < j => log[i].at <= log[j].at
DetailOK ==
    /\ detail \in DetailState
    /\ detail.pc # "none" =>
          \E i \in Rows : log[i].nr = detail.id /\ (detail.pc # "row" => IsPipeline(i))

HistoryInv == LogOK /\ Numbered /\ Sorted /\ DetailOK

LEMMA ConstantsTyped ==
    /\ MaxRows \in Nat /\ MaxTime \in Nat /\ PageSize \in Nat /\ PageSize > 0
    /\ GlobalLimit \in Int /\ DefaultLimit \in Int /\ \A r : RepoLimit(r) \in Int
BY HistoryAssumption DEF RepoLimit

LEMMA RowsInterval ==
    ASSUME LogOK
    PROVE  /\ Len(log) \in Nat /\ Rows = 1..Len(log)
           /\ \A i \in Rows : log[i] \in LogRow
           /\ Stored \in SUBSET (1..Len(log))
BY DEF LogOK, Rows, Stored

LEMMA PosIs ==
    ASSUME Numbered, NEW i \in Rows
    PROVE  Pos(log[i].nr) = i
BY DEF Numbered, Pos

LEMMA InitInv == Init => HistoryInv
<1>. SUFFICES ASSUME Init PROVE HistoryInv
  OBVIOUS
<1>1. log = <<>> /\ Rows = {} /\ Len(log) = 0 /\ now = 0 /\ detail = NoDetail
  BY DEF Init, Rows
<1>2. LogOK
  BY <1>1, ConstantsTyped DEF LogOK
<1>3. Numbered /\ Sorted
  BY <1>1 DEF Numbered, Sorted
<1>4. DetailOK
  BY <1>1 DEF DetailOK, DetailState, NoDetail
<1>. QED  BY <1>2, <1>3, <1>4 DEF HistoryInv

(* What every action but Ingest does to the rows: it may delete or finish    *)
(* them and end their deliveries, but not move or renumber them.             *)
RowsKept ==
    /\ log' \in Seq(LogRow) /\ Len(log') = Len(log)
    /\ \A i \in 1..Len(log) :
          log'[i].nr = log[i].nr /\ log'[i].hook = log[i].hook /\ log'[i].at = log[i].at

LEMMA KeptByFunction ==
    ASSUME LogOK, NEW f, f = [i \in Rows |-> f[i]],
           \A i \in Rows :
              /\ f[i] \in LogRow
              /\ f[i].nr = log[i].nr /\ f[i].hook = log[i].hook /\ f[i].at = log[i].at,
           log' = f
    PROVE  RowsKept
<1>1. Len(log) \in Nat /\ Rows = 1..Len(log)
  BY RowsInterval
<1>2. f \in [1..Len(log) -> LogRow]
  BY <1>1
<1>3. f \in Seq(LogRow) /\ Len(f) = Len(log)
  BY <1>1, <1>2
<1>. QED  BY <1>1, <1>3 DEF RowsKept

LEMMA NoDeliveries == NewDeliveries({}) \in DeliveryStates
BY DEF NewDeliveries, DeliveryStates

LEMMA HookDeliveries ==
    ASSUME NEW h \in Webhooks
    PROVE  NewDeliveries(h.targets) \in DeliveryStates
<1>1. h.targets \in SUBSET AllTargets
  BY DEF AllTargets
<1>2. NewDeliveries(h.targets) \in [h.targets -> {"active", "done", "failed"}]
  BY DEF NewDeliveries
<1>. QED  BY <1>1, <1>2 DEF DeliveryStates

LEMMA DeleteKeeps ==
    ASSUME LogOK, NEW S, NEW i \in Rows
    PROVE  /\ Delete(S)[i] \in LogRow
           /\ Delete(S)[i].nr = log[i].nr /\ Delete(S)[i].hook = log[i].hook
           /\ Delete(S)[i].at = log[i].at
           /\ Delete(S)[i].stored = (log[i].stored /\ i \notin S)
<1>1. log[i] \in LogRow
  BY RowsInterval
<1>2. NewDeliveries({}) \in DeliveryStates
  BY NoDeliveries
<1>3. Delete(S)[i] = IF i \in S THEN [log[i] EXCEPT !.stored = FALSE, !.deliveries = NewDeliveries({})]
                     ELSE log[i]
  BY DEF Delete
<1>. HIDE DEF Delete
<1>4. CASE i \in S
  BY <1>1, <1>2, <1>3, <1>4 DEF LogRow
<1>5. CASE i \notin S
  BY <1>1, <1>3, <1>5 DEF LogRow
<1>. QED  BY <1>4, <1>5

LEMMA ClearKeeps == LogOK /\ ClearHistory => RowsKept
<1>. SUFFICES ASSUME LogOK, ClearHistory PROVE RowsKept
  OBVIOUS
<1>1. log' = Delete(Stored)
  BY DEF ClearHistory
<1>2. Delete(Stored) = [i \in Rows |-> Delete(Stored)[i]]
  BY DEF Delete
<1>3. \A i \in Rows : /\ Delete(Stored)[i] \in LogRow
                      /\ Delete(Stored)[i].nr = log[i].nr /\ Delete(Stored)[i].hook = log[i].hook
                      /\ Delete(Stored)[i].at = log[i].at
  BY DeleteKeeps
<1>. QED  BY <1>1, <1>2, <1>3, KeptByFunction

(* What Prune leaves of a row.                                               *)
Left(i) == [Delete(Pruned)[i] EXCEPT !.observed = @ /\ i \notin Expired]

LEMMA PruneRows == Prune => log' = [i \in Rows |-> Left(i)]
BY DEF Prune, Left

LEMMA LeftKeeps ==
    ASSUME LogOK, NEW i \in Rows
    PROVE  /\ Left(i) \in LogRow
           /\ Left(i).nr = log[i].nr /\ Left(i).hook = log[i].hook /\ Left(i).at = log[i].at
           /\ Left(i).stored = (log[i].stored /\ i \notin Pruned)
<1>. DEFINE d == Delete(Pruned)[i]
<1>1. d \in LogRow
  BY DeleteKeeps
<1>2. d.nr = log[i].nr /\ d.hook = log[i].hook /\ d.at = log[i].at
      /\ d.stored = (log[i].stored /\ i \notin Pruned)
  BY DeleteKeeps
<1>3. Left(i) = [d EXCEPT !.observed = @ /\ i \notin Expired]
  BY DEF Left
<1>. HIDE DEF d
<1>4. Left(i) \in LogRow /\ Left(i).nr = d.nr /\ Left(i).hook = d.hook /\ Left(i).at = d.at
      /\ Left(i).stored = d.stored
  BY <1>1, <1>3 DEF LogRow
<1>. QED  BY <1>2, <1>4

LEMMA PruneKeeps == LogOK /\ Prune => RowsKept
<1>. SUFFICES ASSUME LogOK, Prune PROVE RowsKept
  OBVIOUS
<1>. DEFINE f == [i \in Rows |-> Left(i)]
<1>1. log' = f
  BY PruneRows
<1>2. \A i \in Rows : f[i] = Left(i)
  OBVIOUS
<1>3. f = [i \in Rows |-> f[i]]
  OBVIOUS
<1>4. \A i \in Rows : /\ f[i] \in LogRow
                      /\ f[i].nr = log[i].nr /\ f[i].hook = log[i].hook /\ f[i].at = log[i].at
  BY <1>2, LeftKeeps
<1>. HIDE DEF f
<1>. QED  BY <1>1, <1>3, <1>4, KeptByFunction

LEMMA FinalizeKeeps == LogOK /\ FinalizeDeferred => RowsKept
<1>. SUFFICES ASSUME LogOK, FinalizeDeferred PROVE RowsKept
  OBVIOUS
<1>1. PICK i \in Queue :
         log' = [log EXCEPT ![i].deferred = FALSE, ![i].deliveries = NewDeliveries(Hook(i).targets)]
  BY DEF FinalizeDeferred
<1>2. Len(log) \in Nat /\ Rows = 1..Len(log) /\ log \in [Rows -> LogRow]
  BY RowsInterval DEF Rows, LogOK
<1>3. i \in Rows
  BY DEF Queue, Stored
<1>4. NewDeliveries(Hook(i).targets) \in DeliveryStates
  <2>1. Hook(i) \in Webhooks
    BY <1>2, <1>3 DEF Hook, LogRow
  <2>. QED  BY <2>1, HookDeliveries
<1>. DEFINE row == [log[i] EXCEPT !.deferred = FALSE, !.deliveries = NewDeliveries(Hook(i).targets)]
            f == [log EXCEPT ![i] = row]
<1>5. log' = f
  BY <1>1, <1>2, <1>3
<1>6. row \in LogRow /\ row.nr = log[i].nr /\ row.hook = log[i].hook /\ row.at = log[i].at
  BY <1>2, <1>3, <1>4 DEF LogRow
<1>. HIDE DEF row
<1>7. f = [j \in Rows |-> f[j]]
  BY <1>2
<1>8. \A j \in Rows : /\ f[j] \in LogRow
                      /\ f[j].nr = log[j].nr /\ f[j].hook = log[j].hook /\ f[j].at = log[j].at
  BY <1>2, <1>3, <1>6
<1>. HIDE DEF f
<1>. QED  BY <1>5, <1>7, <1>8, KeptByFunction

LEMMA DeliveryKeeps == LogOK /\ DeliveryStep => RowsKept
<1>. SUFFICES ASSUME LogOK, DeliveryStep PROVE RowsKept
  OBVIOUS
<1>1. PICK i \in Stored : \E t \in DOMAIN log[i].deliveries :
         \E next \in {"active", "done", "failed"} : log' = [log EXCEPT ![i].deliveries[t] = next]
  BY DEF DeliveryStep
<1>2. PICK t \in DOMAIN log[i].deliveries, next \in {"active", "done", "failed"} :
         log' = [log EXCEPT ![i].deliveries[t] = next]
  BY <1>1
<1>3. Len(log) \in Nat /\ Rows = 1..Len(log) /\ log \in [Rows -> LogRow]
  BY RowsInterval DEF Rows, LogOK
<1>4. i \in Rows
  BY DEF Stored
<1>. DEFINE ds == [log[i].deliveries EXCEPT ![t] = next]
            row == [log[i] EXCEPT !.deliveries = ds]
            f == [log EXCEPT ![i] = row]
<1>5. log' = f
  BY <1>2, <1>3, <1>4
<1>6. ds \in DeliveryStates
  <2>1. log[i].deliveries \in DeliveryStates
    BY <1>3, <1>4 DEF LogRow
  <2>2. PICK T \in SUBSET AllTargets : log[i].deliveries \in [T -> {"active", "done", "failed"}]
    BY <2>1 DEF DeliveryStates
  <2>3. ds \in [T -> {"active", "done", "failed"}]
    BY <2>2
  <2>. QED  BY <2>3 DEF DeliveryStates
<1>. HIDE DEF ds
<1>7. row \in LogRow /\ row.nr = log[i].nr /\ row.hook = log[i].hook /\ row.at = log[i].at
  BY <1>3, <1>4, <1>6 DEF LogRow
<1>. HIDE DEF row
<1>8. f = [j \in Rows |-> f[j]]
  BY <1>3
<1>9. \A j \in Rows : /\ f[j] \in LogRow
                      /\ f[j].nr = log[j].nr /\ f[j].hook = log[j].hook /\ f[j].at = log[j].at
  BY <1>3, <1>4, <1>7
<1>. HIDE DEF f
<1>. QED  BY <1>5, <1>8, <1>9, KeptByFunction

-----------------------------------------------------------------------------
(* Retention. Group and Local are the local definitions of Pruned.           *)

Group(r) == {i \in Terminal : Hook(i).repo = r}
Repos == {Hook(i).repo : i \in Stored}
Behind(r) == IF RepoLimit(r) > 0 THEN TerminalAfter(Group(r), RepoLimit(r)) ELSE {}
Local == UNION {Behind(r) : r \in Repos}
Global == IF GlobalLimit > 0 THEN TerminalAfter(Terminal \ Local, GlobalLimit) ELSE {}

LEMMA PrunedParts == Pruned = Local \cup Global
BY DEF Pruned, Local, Global, Group, Behind, Repos

LEMMA TerminalRows ==
    ASSUME LogOK
    PROVE  /\ Len(log) \in Nat
           /\ Terminal \in SUBSET (1..Len(log)) /\ Terminal \subseteq Stored
           /\ \A r : Group(r) \in SUBSET (1..Len(log)) /\ Group(r) \subseteq Terminal
           /\ Terminal \ Local \in SUBSET (1..Len(log))
BY RowsInterval DEF Terminal, Group, Stored

LEMMA BehindRows ==
    ASSUME NEW r, NEW i \in Behind(r)
    PROVE  RepoLimit(r) > 0 /\ i \in TerminalAfter(Group(r), RepoLimit(r)) /\ i \in Group(r)
           /\ Hook(i).repo = r
BY DEF Behind, TerminalAfter, Group

LEMMA LocalRows ==
    ASSUME NEW i
    PROVE  i \in Local <=> i \in Terminal /\ i \in Behind(Hook(i).repo)
<1>1. ASSUME i \in Local PROVE i \in Terminal /\ i \in Behind(Hook(i).repo)
  <2>1. PICK r \in Repos : i \in Behind(r)
    BY <1>1 DEF Local
  <2>2. i \in Group(r) /\ Hook(i).repo = r
    BY <2>1, BehindRows
  <2>. QED  BY <2>1, <2>2 DEF Group
<1>2. ASSUME i \in Terminal, i \in Behind(Hook(i).repo) PROVE i \in Local
  <2>1. Hook(i).repo \in Repos
    BY <1>2 DEF Terminal, Repos
  <2>. QED  BY <1>2, <2>1 DEF Local
<1>. QED  BY <1>1, <1>2

LEMMA GlobalRows == Global \subseteq Terminal \ Local
BY DEF Global, TerminalAfter

LEMMA PrunedRows == Pruned \subseteq Terminal
BY PrunedParts, LocalRows, GlobalRows

LEMMA PruneDeletes == LogOK /\ Prune => Stored \ Stored' = Pruned
<1>. SUFFICES ASSUME LogOK, Prune PROVE Stored \ Stored' = Pruned
  OBVIOUS
<1>1. log' = [i \in Rows |-> Left(i)]
  BY PruneRows
<1>2. Rows' = Rows
  BY <1>1 DEF Rows
<1>3. \A i \in Rows : log'[i].stored = (log[i].stored /\ i \notin Pruned)
  BY <1>1, LeftKeeps
<1>4. Pruned \subseteq Stored
  BY PrunedRows DEF Terminal
<1>5. Stored' = {i \in Rows : log'[i].stored}
  BY <1>2 DEF Stored
<1>. QED  BY <1>3, <1>4, <1>5 DEF Stored

Kept == Terminal \ Pruned
KeptOf(r) == {i \in Kept : Hook(i).repo = r}

LEMMA KeptRows ==
    ASSUME LogOK
    PROVE  /\ Kept = (Terminal \ Local) \ Global
           /\ Kept \in SUBSET (1..Len(log))
           /\ \A r : KeptOf(r) = (Group(r) \ Local) \ Global
           /\ \A r : KeptOf(r) \in SUBSET (1..Len(log))
BY PrunedParts, TerminalRows DEF Kept, KeptOf, Group

(* Of one repository, the local limit deletes what is behind it.             *)
LEMMA GroupLocal ==
    ASSUME LogOK, NEW r, RepoLimit(r) > 0
    PROVE  Group(r) \ Local = Group(r) \ TerminalAfter(Group(r), RepoLimit(r))
<1>1. ASSUME NEW i \in Group(r) PROVE i \in Local <=> i \in TerminalAfter(Group(r), RepoLimit(r))
  <2>1. i \in Terminal /\ Hook(i).repo = r
    BY <1>1 DEF Group
  <2>2. i \in Local <=> i \in Behind(r)
    BY <2>1, LocalRows
  <2>. QED  BY <2>2 DEF Behind
<1>. QED  BY <1>1

LEMMA RepoWithinLimit ==
    ASSUME LogOK, NEW r, RepoLimit(r) > 0
    PROVE  Cardinality(KeptOf(r)) <= RepoLimit(r)
<1>. DEFINE G == Group(r) \ TerminalAfter(Group(r), RepoLimit(r))
<1>1. RepoLimit(r) \in Nat \ {0}
  BY ConstantsTyped
<1>2. Len(log) \in Nat /\ Group(r) \in SUBSET (1..Len(log))
  BY TerminalRows
<1>3. Cardinality(G) <= RepoLimit(r)
  BY <1>1, <1>2, KeptWithinLimit
<1>4. KeptOf(r) \subseteq G
  BY GroupLocal, KeptRows
<1>5. IsFiniteSet(G) /\ Cardinality(G) \in Nat
  BY <1>2, RowsAreFinite
<1>6. Cardinality(KeptOf(r)) <= Cardinality(G)
  BY <1>4, <1>5, FS_Subset
<1>7. Cardinality(KeptOf(r)) \in Nat
  BY <1>4, <1>5, FS_Subset, FS_CardinalityType
<1>. QED  BY <1>1, <1>3, <1>5, <1>6, <1>7

LEMMA AllWithinLimit ==
    ASSUME LogOK, GlobalLimit > 0
    PROVE  Cardinality(Kept) <= GlobalLimit
<1>1. GlobalLimit \in Nat \ {0}
  BY ConstantsTyped
<1>2. Kept = (Terminal \ Local) \ TerminalAfter(Terminal \ Local, GlobalLimit)
  BY KeptRows DEF Global
<1>3. Len(log) \in Nat /\ Terminal \ Local \in SUBSET (1..Len(log))
  BY TerminalRows
<1>. QED  BY <1>1, <1>2, <1>3, KeptWithinLimit

(* Rows that the global limit deletes are older than all that are kept, and  *)
(* as many are kept as it allows.                                            *)
LEMMA GlobalDeletes ==
    ASSUME LogOK, NEW i \in Global
    PROVE  /\ GlobalLimit > 0 /\ Cardinality(Kept) >= GlobalLimit
           /\ \A j \in Kept : j > i
<1>1. GlobalLimit > 0 /\ i \in TerminalAfter(Terminal \ Local, GlobalLimit)
  BY DEF Global
<1>2. GlobalLimit \in Nat
  BY <1>1, ConstantsTyped
<1>3. Kept = (Terminal \ Local) \ TerminalAfter(Terminal \ Local, GlobalLimit)
  BY <1>1, KeptRows DEF Global
<1>4. Len(log) \in Nat /\ Terminal \ Local \in SUBSET (1..Len(log))
  BY TerminalRows
<1>5. Cardinality(Kept) >= GlobalLimit
  BY <1>1, <1>2, <1>3, <1>4, DeletedOnlyIfFull
<1>6. \A j \in Kept : j > i
  BY <1>1, <1>2, <1>3, <1>4, DeletedAreOlder
<1>. QED  BY <1>1, <1>5, <1>6

(* A row that its repository's limit deletes is older than what is kept of   *)
(* the repository; it is full, or the global limit has deleted newer ones.   *)
LEMMA LocalDeletes ==
    ASSUME LogOK, NEW i \in Local
    PROVE  LET r == Hook(i).repo IN
           /\ \A j \in Group(r) \ Local : j > i
           /\ RepoLimit(r) > 0 /\ Cardinality(Group(r) \ Local) >= RepoLimit(r)
<1>. DEFINE r == Hook(i).repo
<1>1. RepoLimit(r) > 0 /\ i \in TerminalAfter(Group(r), RepoLimit(r))
  BY LocalRows, BehindRows
<1>2. RepoLimit(r) \in Nat
  BY <1>1, ConstantsTyped
<1>3. Len(log) \in Nat /\ Group(r) \in SUBSET (1..Len(log))
  BY TerminalRows
<1>4. Group(r) \ Local = Group(r) \ TerminalAfter(Group(r), RepoLimit(r))
  BY <1>1, GroupLocal
<1>5. Cardinality(Group(r) \ Local) >= RepoLimit(r)
  BY <1>1, <1>2, <1>3, <1>4, DeletedOnlyIfFull
<1>6. \A j \in Group(r) \ Local : j > i
  BY <1>1, <1>2, <1>3, <1>4, DeletedAreOlder
<1>. QED  BY <1>1, <1>5, <1>6

LEMMA PruneIsExact ==
    ASSUME LogOK, NEW i \in Pruned
    PROVE  LET r == Hook(i).repo IN
           /\ \A j \in KeptOf(r) : j > i
           /\ \/ RepoLimit(r) > 0 /\ Cardinality(KeptOf(r)) >= RepoLimit(r)
              \/ /\ GlobalLimit > 0 /\ Cardinality(Kept) >= GlobalLimit
                 /\ \A j \in Kept : j > i
<1>. DEFINE r == Hook(i).repo
<1>1. CASE i \in Global
  BY <1>1, GlobalDeletes DEF KeptOf
<1>2. CASE i \in Local
  <2>1. \A j \in Group(r) \ Local : j > i
    BY <1>2, LocalDeletes
  <2>2. RepoLimit(r) > 0 /\ Cardinality(Group(r) \ Local) >= RepoLimit(r)
    BY <1>2, LocalDeletes
  <2>3. KeptOf(r) = (Group(r) \ Local) \ Global
    BY KeptRows
  <2>4. CASE (Group(r) \ Local) \cap Global = {}
    <3>1. KeptOf(r) = Group(r) \ Local
      BY <2>3, <2>4
    <3>. QED  BY <2>1, <2>2, <3>1
  <2>5. CASE (Group(r) \ Local) \cap Global # {}
    <3>1. PICK k \in Group(r) \ Local : k \in Global
      BY <2>5
    <3>2. k > i
      BY <2>1
    <3>3. GlobalLimit > 0 /\ Cardinality(Kept) >= GlobalLimit /\ \A j \in Kept : j > k
      BY <3>1, GlobalDeletes
    <3>4. i \in Nat /\ k \in Nat /\ \A j \in Kept : j \in Nat
      BY <1>2, <3>1, LocalRows, TerminalRows, KeptRows
    <3>5. \A j \in Kept : j > i
      BY <3>2, <3>3, <3>4
    <3>. QED  BY <2>1, <2>3, <3>3, <3>5
  <2>. QED  BY <2>4, <2>5
<1>. QED  BY <1>1, <1>2, PrunedParts

-----------------------------------------------------------------------------
(* An insertion: the rows from position k on move up by one.                 *)

LEMMA InsertFacts ==
    ASSUME LogOK, NEW row \in LogRow, NEW k \in 1..(Len(log) + 1)
    PROVE  /\ InsertRow(k, row) \in Seq(LogRow)
           /\ Len(InsertRow(k, row)) = Len(log) + 1
           /\ \A i \in 1..(Len(log) + 1) :
                 InsertRow(k, row)[i] = IF i < k THEN log[i] ELSE IF i = k THEN row ELSE log[i - 1]
<1>. DEFINE n == Len(log)
            a == SubSeq(log, 1, k - 1)
            b == SubSeq(log, k, n)
            u == a \o <<row>>
<1>1. n \in Nat /\ log \in Seq(LogRow) /\ k \in Nat /\ k >= 1 /\ k <= n + 1
  BY RowsInterval DEF LogOK
<1>2. a \in Seq(LogRow) /\ Len(a) = k - 1 /\ \A i \in 1..(k - 1) : a[i] = log[i]
  BY <1>1, SubSeqProperties
<1>3. b \in Seq(LogRow) /\ Len(b) = n + 1 - k /\ \A i \in 1..(n + 1 - k) : b[i] = log[k + i - 1]
  BY <1>1, SubSeqProperties
<1>. HIDE DEF a, b
<1>4. <<row>> \in Seq(LogRow) /\ Len(<<row>>) = 1 /\ <<row>>[1] = row
  OBVIOUS
<1>5. u \in Seq(LogRow) /\ Len(u) = k /\ (\A i \in 1..(k - 1) : u[i] = log[i]) /\ u[k] = row
  BY <1>1, <1>2, <1>4, ConcatProperties
<1>. HIDE DEF u
<1>6. InsertRow(k, row) = u \o b
  BY DEF InsertRow, u, a, b
<1>. HIDE DEF n
<1>7. u \o b \in Seq(LogRow) /\ Len(u \o b) = n + 1
  <2>1. u \o b \in Seq(LogRow) /\ Len(u \o b) = Len(u) + Len(b)
    BY <1>3, <1>5, ConcatProperties
  <2>. QED  BY <1>1, <1>3, <1>5, <2>1
<1>8. ASSUME NEW i \in 1..(n + 1)
      PROVE  (u \o b)[i] = IF i < k THEN log[i] ELSE IF i = k THEN row ELSE log[i - 1]
  <2>1. CASE i <= k
    <3>1. (u \o b)[i] = u[i]
      BY <1>1, <1>3, <1>5, <2>1, ConcatProperties
    <3>. QED  BY <1>1, <1>5, <2>1, <3>1
  <2>2. CASE i > k
    <3>1. (u \o b)[i] = b[i - k]
      BY <1>1, <1>3, <1>5, <2>2, ConcatProperties
    <3>2. i - k \in 1..(n + 1 - k) /\ k + (i - k) - 1 = i - 1
      BY <1>1, <2>2
    <3>3. b[i - k] = log[k + (i - k) - 1]
      BY <1>3, <3>2
    <3>4. ~(i < k) /\ i # k
      BY <1>1, <2>2
    <3>. QED  BY <3>1, <3>2, <3>3, <3>4
  <2>3. i <= k \/ i > k
    BY <1>1
  <2>. QED  BY <2>1, <2>2, <2>3
<1>. QED  BY <1>6, <1>7, <1>8 DEF n

(* The row that a webhook inserts, and where the others stand afterwards.    *)
LEMMA IngestFacts ==
    ASSUME LogOK, Ingest
    PROVE  \E k \in 1..(Len(log) + 1), row \in LogRow :
              /\ row.nr = Len(log) + 1
              /\ \A i \in Rows : IF i < k THEN log[i].at <= row.at ELSE row.at <= log[i].at
              /\ log' \in Seq(LogRow) /\ Len(log') = Len(log) + 1 /\ Len(log') <= MaxRows
              /\ \A i \in 1..(Len(log) + 1) :
                    log'[i] = IF i < k THEN log[i] ELSE IF i = k THEN row ELSE log[i - 1]
<1>1. PICK h \in Webhooks, at \in 0..now, deferred \in BOOLEAN, k \in 1..(Len(log) + 1) :
         /\ \A i \in Rows : IF i < k THEN log[i].at <= at ELSE at <= log[i].at
         /\ log' = InsertRow(k, EventRow(h, at, deferred))
  BY DEF Ingest
<1>. DEFINE row == EventRow(h, at, deferred)
<1>2. Len(log) \in Nat /\ now \in Nat
  BY RowsInterval, ConstantsTyped DEF LogOK
<1>3. NewDeliveries(IF deferred THEN {} ELSE h.targets) \in DeliveryStates
  BY NoDeliveries, HookDeliveries
<1>4. row \in LogRow /\ row.nr = Len(log) + 1 /\ row.at = at
  BY <1>2, <1>3 DEF EventRow, LogRow
<1>. HIDE DEF row
<1>5. log' = InsertRow(k, row)
  BY <1>1 DEF row
<1>6. log' \in Seq(LogRow)
  BY <1>4, <1>5, InsertFacts
<1>7. Len(log') = Len(log) + 1
  BY <1>4, <1>5, InsertFacts
<1>8. \A i \in 1..(Len(log) + 1) :
         log'[i] = IF i < k THEN log[i] ELSE IF i = k THEN row ELSE log[i - 1]
  BY <1>4, <1>5, InsertFacts
<1>9. Len(log') <= MaxRows
  BY <1>2, <1>7, ConstantsTyped DEF Ingest
<1>10. \A i \in Rows : IF i < k THEN log[i].at <= row.at ELSE row.at <= log[i].at
  BY <1>1, <1>4
<1>. QED  BY <1>4, <1>6, <1>7, <1>8, <1>9, <1>10

(* Every row there was is there, with its number, hook and time.             *)
LEMMA IngestStep ==
    ASSUME HistoryInv, Ingest
    PROVE  LogOK' /\ Numbered' /\ Sorted' /\ DetailOK'
<1>1. PICK k \in 1..(Len(log) + 1), row \in LogRow :
         /\ row.nr = Len(log) + 1
         /\ \A i \in Rows : IF i < k THEN log[i].at <= row.at ELSE row.at <= log[i].at
         /\ log' \in Seq(LogRow) /\ Len(log') = Len(log) + 1 /\ Len(log') <= MaxRows
         /\ \A i \in 1..(Len(log) + 1) :
               log'[i] = IF i < k THEN log[i] ELSE IF i = k THEN row ELSE log[i - 1]
  BY IngestFacts DEF HistoryInv
<1>2. Len(log) \in Nat /\ Rows = 1..Len(log) /\ Rows' = 1..(Len(log) + 1)
      /\ \A i \in Rows : log[i] \in LogRow
  BY <1>1, RowsInterval DEF HistoryInv, Rows
<1>3. now' = now /\ detail' = detail
  BY DEF Ingest
<1>. DEFINE up(i) == IF i < k THEN i ELSE i + 1
            down(i) == IF i < k THEN i ELSE i - 1
<1>4. \A i \in Rows : up(i) \in Rows' /\ up(i) # k /\ log'[up(i)] = log[i]
  <2>1. ASSUME NEW i \in Rows, i < k PROVE i \in Rows' /\ i # k /\ log'[i] = log[i]
    BY <1>1, <1>2, <2>1
  <2>2. ASSUME NEW i \in Rows, ~(i < k)
        PROVE  i + 1 \in Rows' /\ i + 1 # k /\ log'[i + 1] = log[i]
    <3>1. i + 1 \in Rows' /\ ~(i + 1 < k) /\ i + 1 # k /\ (i + 1) - 1 = i
      BY <1>2, <2>2
    <3>. QED  BY <1>1, <1>2, <3>1
  <2>. QED  BY <2>1, <2>2
<1>5. \A i \in Rows' : i # k => down(i) \in Rows /\ log'[i] = log[down(i)]
  BY <1>1, <1>2
<1>5a. k \in Rows' /\ log'[k] = row
  BY <1>1, <1>2
<1>6. LogOK'
  BY <1>1, <1>3 DEF HistoryInv, LogOK
<1>7. Numbered'
  <2>1. \A i \in Rows : log[i].nr \in 1..Len(log)
    BY DEF HistoryInv, Numbered
  <2>2. \A i \in Rows' : log'[i].nr \in 1..(Len(log) + 1)
    BY <1>1, <1>2, <1>5, <1>5a, <2>1
  <2>3. ASSUME NEW m \in 1..(Len(log) + 1) PROVE \E i \in Rows' : log'[i].nr = m
    <3>1. CASE m = Len(log) + 1
      BY <1>1, <1>5a, <3>1
    <3>2. CASE m # Len(log) + 1
      <4>1. m \in 1..Len(log)
        BY <1>2, <3>2
      <4>2. PICK i \in Rows : log[i].nr = m
        BY <4>1 DEF HistoryInv, Numbered
      <4>. QED  BY <1>4, <4>2
    <3>. QED  BY <3>1, <3>2
  <2>4. ASSUME NEW i \in Rows', NEW j \in Rows', log'[i].nr = log'[j].nr PROVE i = j
    <3>1. ASSUME NEW l \in Rows', l # k PROVE log'[l].nr # log'[k].nr
      <4>1. log'[l].nr \in 1..Len(log)
        BY <1>5, <2>1, <3>1
      <4>2. log'[k].nr = Len(log) + 1
        BY <1>1, <1>5a
      <4>. QED  BY <1>2, <4>1, <4>2
    <3>2. CASE i = k \/ j = k
      BY <2>4, <3>1, <3>2
    <3>3. CASE i # k /\ j # k
      <4>1. down(i) \in Rows /\ down(j) \in Rows /\ log[down(i)].nr = log[down(j)].nr
        BY <1>5, <2>4, <3>3
      <4>2. down(i) = down(j)
        BY <4>1 DEF HistoryInv, Numbered
      <4>3. i \in Nat /\ j \in Nat /\ k \in Nat
        BY <1>2
      <4>. QED  BY <3>3, <4>2, <4>3
    <3>. QED  BY <3>2, <3>3
  <2>5. {log'[i].nr : i \in Rows'} = 1..(Len(log) + 1)
    BY <2>2, <2>3
  <2>. QED  BY <1>1, <2>4, <2>5 DEF Numbered
<1>8. Sorted'
  <2>1. \A i \in Rows : log[i].at \in Nat
    BY <1>2 DEF LogRow
  <2>2. row.at \in Nat
    BY <1>1 DEF LogRow
  <2>3. ASSUME NEW i \in Rows', NEW j \in Rows', i < j PROVE log'[i].at <= log'[j].at
    <3>1. CASE i = k
      <4>1. j # k /\ down(j) \in Rows /\ log'[j] = log[down(j)] /\ ~(down(j) < k)
        BY <1>2, <1>5, <2>3, <3>1
      <4>. QED  BY <1>1, <1>5a, <3>1, <4>1
    <3>2. CASE j = k
      <4>1. i # k /\ down(i) \in Rows /\ log'[i] = log[down(i)] /\ down(i) < k
        BY <1>2, <1>5, <2>3, <3>2
      <4>. QED  BY <1>1, <1>5a, <3>2, <4>1
    <3>3. CASE i # k /\ j # k
      <4>1. down(i) \in Rows /\ down(j) \in Rows /\ log'[i] = log[down(i)] /\ log'[j] = log[down(j)]
        BY <1>5, <3>3
      <4>2. down(i) < down(j)
        BY <1>2, <2>3, <3>3
      <4>. QED  BY <4>1, <4>2 DEF HistoryInv, Sorted
    <3>. QED  BY <3>1, <3>2, <3>3
  <2>. QED  BY <2>3 DEF Sorted
<1>9. DetailOK'
  <2>1. ASSUME NEW i \in Rows, IsPipeline(i)
        PROVE  IsPipeline(up(i))'
    <3>1. log'[up(i)].hook = log[i].hook
      BY <1>4
    <3>. QED  BY <2>1, <3>1 DEF IsPipeline, Hook
  <2>2. ASSUME detail.pc # "none"
        PROVE  \E i \in Rows' : log'[i].nr = detail.id /\ (detail.pc # "row" => IsPipeline(i)')
    <3>1. PICK i \in Rows : log[i].nr = detail.id /\ (detail.pc # "row" => IsPipeline(i))
      BY <2>2 DEF HistoryInv, DetailOK
    <3>2. up(i) \in Rows' /\ log'[up(i)].nr = detail.id
      BY <1>4, <3>1
    <3>3. detail.pc # "row" => IsPipeline(up(i))'
      BY <2>1, <3>1
    <3>. QED  BY <3>2, <3>3
  <2>. QED  BY <1>3, <2>2 DEF HistoryInv, DetailOK
<1>. QED  BY <1>6, <1>7, <1>8, <1>9

-----------------------------------------------------------------------------
(* The other actions.                                                        *)

LEMMA KeptStep ==
    ASSUME HistoryInv, RowsKept, now' \in 0..MaxTime, detail' = detail
    PROVE  HistoryInv'
<1>1. Len(log) \in Nat /\ Rows = 1..Len(log) /\ Rows' = 1..Len(log)
  BY RowsInterval DEF HistoryInv, RowsKept, Rows
<1>2. \A i \in Rows :
         log'[i].nr = log[i].nr /\ log'[i].hook = log[i].hook /\ log'[i].at = log[i].at
  BY <1>1 DEF RowsKept
<1>3. LogOK'
  BY DEF HistoryInv, LogOK, RowsKept
<1>4. Numbered'
  <2>1. {log'[i].nr : i \in Rows'} = {log[i].nr : i \in Rows}
    BY <1>1, <1>2
  <2>2. \A i, j \in Rows' : log'[i].nr = log'[j].nr => i = j
    BY <1>1, <1>2 DEF HistoryInv, Numbered
  <2>3. Len(log') = Len(log)
    BY DEF RowsKept
  <2>. QED  BY <2>1, <2>2, <2>3 DEF HistoryInv, Numbered
<1>5. Sorted'
  BY <1>1, <1>2 DEF HistoryInv, Sorted
<1>6. DetailOK'
  <2>1. \A i \in Rows : IsPipeline(i)' <=> IsPipeline(i)
    BY <1>2 DEF IsPipeline, Hook
  <2>2. ASSUME detail.pc # "none"
        PROVE  \E i \in Rows' : log'[i].nr = detail.id /\ (detail.pc # "row" => IsPipeline(i)')
    BY <1>1, <1>2, <2>1, <2>2 DEF HistoryInv, DetailOK
  <2>. QED  BY <2>2 DEF HistoryInv, DetailOK
<1>. QED  BY <1>3, <1>4, <1>5, <1>6 DEF HistoryInv

(* A query changes the request only.                                         *)
LEMMA QueryStep ==
    ASSUME HistoryInv, log' = log, now' = now, DetailOK'
    PROVE  HistoryInv'
<1>1. Rows' = Rows
  BY DEF Rows
<1>2. LogOK' /\ Numbered' /\ Sorted'
  BY <1>1 DEF HistoryInv, LogOK, Numbered, Sorted
<1>. QED  BY <1>2 DEF HistoryInv

LEMMA StatesRows ==
    ASSUME LogOK, NEW i
    PROVE  Len(log) \in Nat /\ States(i) \in SUBSET (1..Len(log)) /\ Replacing(i) \in SUBSET (1..Len(log))
BY RowsInterval DEF States, Replacing, Stored

LEMMA OwnState ==
    ASSUME NEW i \in Stored, IsPipeline(i)
    PROVE  i \in States(i)
BY DEF States, SamePipeline

LEMMA CurrentIsRow ==
    ASSUME LogOK, NEW i \in Stored
    PROVE  Current(i) \in Stored
<1>1. CASE IsPipeline(i)
  <2>1. States(i) # {} /\ States(i) \subseteq Stored
    BY <1>1, OwnState DEF States
  <2>2. Newest(States(i)) \in States(i)
    BY <2>1, StatesRows, NewestIsGreatest
  <2>. QED  BY <1>1, <2>1, <2>2 DEF Current
<1>2. CASE ~IsPipeline(i) /\ Replacing(i) # {}
  <2>1. Newest(Replacing(i)) \in Replacing(i)
    BY <1>2, StatesRows, NewestIsGreatest
  <2>2. Replacing(i) \subseteq Stored
    BY DEF Replacing
  <2>. QED  BY <1>2, <2>1, <2>2 DEF Current
<1>3. CASE ~IsPipeline(i) /\ Replacing(i) = {}
  BY <1>3 DEF Current
<1>. QED  BY <1>1, <1>2, <1>3

LEMMA ResolveStep == HistoryInv /\ DetailResolve => HistoryInv'
<1>. SUFFICES ASSUME HistoryInv, DetailResolve PROVE HistoryInv'
  OBVIOUS
<1>1. log' = log /\ now' = now
  BY DEF DetailResolve, DetailQuery
<1>2. PICK i \in Rows :
         detail' = [NoDetail EXCEPT !.pc = "row", !.id = log[IF i \in Stored THEN Current(i) ELSE i].nr]
  BY DEF DetailResolve, DetailQuery
<1>3. PICK c \in Rows : detail' = [NoDetail EXCEPT !.pc = "row", !.id = log[c].nr]
  <2>1. CASE i \in Stored
    <3>1. Current(i) \in Rows
      BY <2>1, CurrentIsRow DEF HistoryInv, Stored
    <3>. QED  BY <1>2, <2>1, <3>1
  <2>2. CASE i \notin Stored
    BY <1>2, <2>2
  <2>. QED  BY <2>1, <2>2
<1>4. log[c].nr \in Nat
  BY RowsInterval DEF HistoryInv, LogRow
<1>5. detail' = [pc |-> "row", id |-> log[c].nr, start |-> 0, states |-> <<>>]
  BY <1>3 DEF NoDetail
<1>6. detail' \in DetailState /\ detail'.pc = "row" /\ detail'.id = log[c].nr
  BY <1>4, <1>5 DEF DetailState
<1>7. Rows' = Rows /\ log'[c].nr = log[c].nr
  BY <1>1 DEF Rows
<1>8. DetailOK'
  BY <1>6, <1>7 DEF DetailOK
<1>. QED  BY <1>1, <1>8, QueryStep

LEMMA EndStep ==
    ASSUME HistoryInv, log' = log, now' = now, detail' = NoDetail
    PROVE  HistoryInv'
<1>1. DetailOK'
  BY DEF DetailOK, DetailState, NoDetail
<1>. QED  BY <1>1, QueryStep

(* The next query of a request that follows row i, which is a pipeline.      *)
LEMMA NextQuery ==
    ASSUME HistoryInv, log' = log, now' = now, NEW i \in Rows, IsPipeline(i),
           detail' \in DetailState, detail'.id = log[i].nr
    PROVE  HistoryInv'
<1>1. Rows' = Rows /\ IsPipeline(i)' /\ log'[i].nr = log[i].nr
  BY DEF Rows, IsPipeline, Hook
<1>2. DetailOK'
  BY <1>1 DEF DetailOK
<1>. QED  BY <1>2, QueryStep

LEMMA RequestedRow ==
    ASSUME HistoryInv, detail.pc # "none"
    PROVE  /\ Pos(detail.id) \in Rows /\ log[Pos(detail.id)].nr = detail.id
           /\ detail.pc # "row" => IsPipeline(Pos(detail.id))
<1>1. PICK i \in Rows : log[i].nr = detail.id /\ (detail.pc # "row" => IsPipeline(i))
  BY DEF HistoryInv, DetailOK
<1>2. Pos(detail.id) = i
  BY <1>1, PosIs DEF HistoryInv
<1>. QED  BY <1>1, <1>2

LEMMA RowStep == HistoryInv /\ DetailRow => HistoryInv'
<1>. SUFFICES ASSUME HistoryInv, DetailRow PROVE HistoryInv'
  OBVIOUS
<1>. DEFINE i == Pos(detail.id)
<1>1. log' = log /\ now' = now /\ detail.pc = "row"
  BY DEF DetailRow, DetailQuery
<1>2. i \in Rows /\ log[i].nr = detail.id
  BY <1>1, RequestedRow
<1>3. \/ detail' = NoDetail
      \/ IsPipeline(i) /\ \E pc \in {"start", "states"} : detail' = [detail EXCEPT !.pc = pc]
  BY DEF DetailRow, DetailQuery
<1>. HIDE DEF i
<1>4. CASE detail' = NoDetail
  BY <1>1, <1>4, EndStep
<1>5. ASSUME IsPipeline(i), NEW pc \in {"start", "states"}, detail' = [detail EXCEPT !.pc = pc]
      PROVE  HistoryInv'
  <2>1. detail \in DetailState
    BY DEF HistoryInv, DetailOK
  <2>2. detail' \in DetailState /\ detail'.id = detail.id
    BY <1>5, <2>1 DEF DetailState
  <2>. QED  BY <1>1, <1>2, <1>5, <2>2, NextQuery
<1>. QED  BY <1>3, <1>4, <1>5

LEMMA StartIsLeast ==
    ASSUME LogOK, NEW S \in SUBSET Rows, S # {}
    PROVE  /\ StartOf(S) \in Nat /\ (\E i \in S : StartOf(S) = log[i].at)
           /\ \A i \in S : StartOf(S) <= log[i].at
<1>. DEFINE T == {log[i].at : i \in S}
<1>1. \A i \in S : log[i].at \in Nat
  BY RowsInterval DEF LogRow
<1>2. T \in SUBSET Nat /\ T # {}
  BY <1>1
<1>3. \E at \in T : \A t \in T : at <= t
  BY <1>2, LeastExists
<1>4. \E at \in T : \A i \in S : at <= log[i].at
  BY <1>3
<1>5. StartOf(S) \in T /\ \A i \in S : StartOf(S) <= log[i].at
  BY <1>4 DEF StartOf
<1>. QED  BY <1>1, <1>5

LEMMA StartStep == HistoryInv /\ DetailStart => HistoryInv'
<1>. SUFFICES ASSUME HistoryInv, DetailStart PROVE HistoryInv'
  OBVIOUS
<1>. DEFINE i == Pos(detail.id)
<1>1. log' = log /\ now' = now /\ detail.pc = "start"
  BY DEF DetailStart, DetailQuery
<1>2. i \in Rows /\ log[i].nr = detail.id /\ IsPipeline(i)
  BY <1>1, RequestedRow
<1>3. States(i) # {} /\ detail' = [detail EXCEPT !.pc = "push", !.start = StartOf(States(i))]
  BY DEF DetailStart, DetailQuery
<1>. HIDE DEF i
<1>4. States(i) \in SUBSET Rows
  BY DEF States, Stored
<1>5. StartOf(States(i)) \in Nat
  BY <1>3, <1>4, StartIsLeast DEF HistoryInv
<1>6. detail \in DetailState
  BY DEF HistoryInv, DetailOK
<1>7. detail' \in DetailState /\ detail'.id = detail.id
  BY <1>3, <1>5, <1>6 DEF DetailState
<1>. QED  BY <1>1, <1>2, <1>7, NextQuery

LEMMA PushStep == HistoryInv /\ DetailPush => HistoryInv'
<1>. SUFFICES ASSUME HistoryInv, DetailPush PROVE HistoryInv'
  OBVIOUS
<1>. DEFINE i == Pos(detail.id)
            S == PushStages(i, detail.start)
            states == IF S = {} THEN <<>> ELSE <<log[Newest(S)].nr>>
<1>1. log' = log /\ now' = now /\ detail.pc = "push"
  BY DEF DetailPush, DetailQuery
<1>2. i \in Rows /\ log[i].nr = detail.id /\ IsPipeline(i)
  BY <1>1, RequestedRow
<1>3. detail' = [detail EXCEPT !.pc = "states", !.start = 0, !.states = states]
  BY DEF DetailPush, DetailQuery
<1>4. states \in Seq(Nat)
  <2>1. CASE S = {}
    BY <2>1
  <2>2. CASE S # {}
    <3>1. Len(log) \in Nat /\ S \in SUBSET (1..Len(log)) /\ Rows = 1..Len(log)
      BY RowsInterval DEF HistoryInv, PushStages, Stored
    <3>2. Newest(S) \in Rows
      BY <2>2, <3>1, NewestIsGreatest
    <3>3. log[Newest(S)].nr \in Nat
      BY <3>2, RowsInterval DEF HistoryInv, LogRow
    <3>. QED  BY <2>2, <3>3
  <2>. QED  BY <2>1, <2>2
<1>. HIDE DEF i, states
<1>5. detail \in DetailState
  BY DEF HistoryInv, DetailOK
<1>6. detail' \in DetailState /\ detail'.id = detail.id
  BY <1>3, <1>4, <1>5 DEF DetailState
<1>. QED  BY <1>1, <1>2, <1>6, NextQuery

LEMMA HistoryStep == HistoryInv /\ [Next]_vars => HistoryInv'
<1>. SUFFICES ASSUME HistoryInv, [Next]_vars PROVE HistoryInv'
  OBVIOUS
<1>0. LogOK /\ now \in 0..MaxTime
  BY DEF HistoryInv, LogOK
<1>1. CASE Ingest
  BY <1>1, IngestStep DEF HistoryInv
<1>2. CASE FinalizeDeferred
  BY <1>0, <1>2, FinalizeKeeps, KeptStep DEF FinalizeDeferred
<1>3. CASE DeliveryStep
  BY <1>0, <1>3, DeliveryKeeps, KeptStep DEF DeliveryStep
<1>4. CASE Tick
  <2>1. log' = log /\ detail' = detail /\ now' \in 0..MaxTime
    BY <1>0, <1>4, ConstantsTyped DEF Tick
  <2>2. RowsKept
    BY <1>0, <2>1 DEF RowsKept, LogOK
  <2>. QED  BY <2>1, <2>2, KeptStep
<1>5. CASE Prune
  BY <1>0, <1>5, PruneKeeps, KeptStep DEF Prune
<1>6. CASE ClearHistory
  BY <1>0, <1>6, ClearKeeps, KeptStep DEF ClearHistory
<1>7. CASE DetailNotFound \/ DetailFails \/ DetailStates
  BY <1>7, EndStep DEF DetailNotFound, DetailFails, DetailStates, DetailQuery
<1>8. CASE DetailResolve
  BY <1>8, ResolveStep
<1>9. CASE DetailRow
  BY <1>9, RowStep
<1>10. CASE DetailStart
  BY <1>10, StartStep
<1>11. CASE DetailPush
  BY <1>11, PushStep
<1>12. CASE UNCHANGED vars
  <2>1. RowsKept /\ detail' = detail /\ now' = now
    BY <1>0, <1>12 DEF RowsKept, LogOK, vars
  <2>. QED  BY <1>0, <2>1, KeptStep
<1>. QED  BY <1>1, <1>2, <1>3, <1>4, <1>5, <1>6, <1>7, <1>8, <1>9, <1>10, <1>11, <1>12
          DEF Next, Detail

(* The rows keep their numbers and their order, whatever commits late, is    *)
(* deleted or is drained, and a request for a detail follows one row.        *)
THEOREM HistoryInductive == Spec => []HistoryInv
<1>. QED  BY InitInv, HistoryStep, PTL DEF Spec

(* Positions are sorted by received_at and every row ever inserted has one.  *)
THEOREM HistoryTypeCorrect == Spec => []TypeOK
<1>1. HistoryInv => TypeOK
  BY DEF HistoryInv, LogOK, Numbered, Sorted, TypeOK
<1>. QED  BY <1>1, HistoryInductive, PTL

(* Store.Prune deletes terminal events only, leaves no repository and not    *)
(* the whole history over its limit, keeps the newest, and deletes nothing   *)
(* that the limits allow, for all limits and histories.                      *)
THEOREM RetentionIsExact == Spec => RetentionKeepsTheNewest
<1>. DEFINE A == Prune =>
        LET kept == Terminal \ (Stored \ Stored')
            keptOf(r) == {i \in kept : Hook(i).repo = r}
            full(r) == RepoLimit(r) > 0 /\ Cardinality(keptOf(r)) >= RepoLimit(r)
            fullAll == GlobalLimit > 0 /\ Cardinality(kept) >= GlobalLimit IN
        /\ Stored \ Stored' \subseteq Terminal
        /\ \A i \in kept : RepoLimit(Hook(i).repo) > 0
                              => Cardinality(keptOf(Hook(i).repo)) <= RepoLimit(Hook(i).repo)
        /\ GlobalLimit > 0 => Cardinality(kept) <= GlobalLimit
        /\ \A i \in Stored \ Stored' :
              /\ \A j \in keptOf(Hook(i).repo) : j > i
              /\ \/ full(Hook(i).repo)
                 \/ fullAll /\ \A j \in kept : j > i
<1>1. LogOK => A
  <2>. SUFFICES ASSUME LogOK, Prune PROVE A
    OBVIOUS
  <2>1. Stored \ Stored' = Pruned
    BY PruneDeletes
  <2>2. Pruned \subseteq Terminal
    BY PrunedRows
  <2>3. \A r : RepoLimit(r) > 0 => Cardinality(KeptOf(r)) <= RepoLimit(r)
    BY RepoWithinLimit
  <2>4. GlobalLimit > 0 => Cardinality(Kept) <= GlobalLimit
    BY AllWithinLimit
  <2>5. \A i \in Pruned :
           /\ \A j \in KeptOf(Hook(i).repo) : j > i
           /\ \/ RepoLimit(Hook(i).repo) > 0 /\ Cardinality(KeptOf(Hook(i).repo)) >= RepoLimit(Hook(i).repo)
              \/ /\ GlobalLimit > 0 /\ Cardinality(Kept) >= GlobalLimit
                 /\ \A j \in Kept : j > i
    BY PruneIsExact
  <2>6. Terminal \ (Stored \ Stored') = Kept
    BY <2>1 DEF Kept
  <2>7. \A r : {i \in Terminal \ (Stored \ Stored') : Hook(i).repo = r} = KeptOf(r)
    BY <2>6 DEF KeptOf
  <2>. QED  BY <2>1, <2>2, <2>3, <2>4, <2>5, <2>6, <2>7
<1>2. HistoryInv /\ [Next]_vars => [A]_vars
  BY <1>1 DEF HistoryInv
<1>. QED  BY <1>2, HistoryInductive, PTL DEF Spec, RetentionKeepsTheNewest

-----------------------------------------------------------------------------
(* The detail.                                                               *)

(* The last of the ascending rows of a set is its newest one.                *)
LEMMA AscendingLast ==
    ASSUME NEW n \in Nat, NEW S \in SUBSET (1..n), S # {}
    PROVE  /\ Cardinality(S) \in Nat /\ Cardinality(S) > 0
           /\ DOMAIN Ascending(S) = 1..Cardinality(S)
           /\ Ascending(S)[Cardinality(S)] = Newest(S)
<1>. DEFINE m == Newest(S)
            c == Cardinality(S)
            Before(i) == {j \in S : j < i}
<1>1. IsFiniteSet(S) /\ c \in Nat
  BY RowsAreFinite
<1>2. c # 0
  BY <1>1, FS_EmptySet
<1>3. m \in S /\ \A j \in S : j <= m
  BY NewestIsGreatest
<1>. HIDE DEF m
<1>4. Before(m) = S \ {m}
  <2>1. m \in Nat /\ \A j \in S : j \in Nat
    BY <1>3
  <2>2. ASSUME NEW j \in S PROVE j < m <=> j # m
    BY <1>3, <2>1
  <2>. QED  BY <2>2
<1>5. Cardinality(Before(m)) = c - 1
  BY <1>1, <1>3, <1>4, FS_RemoveElement
<1>6. ASSUME NEW i \in S, Cardinality(Before(i)) = c - 1 PROVE i = m
  <2>1. i \in 1..n /\ m \in 1..n /\ i <= m
    BY <1>3
  <2>2. ~(i < i) /\ i \notin Before(i)
    BY <2>1
  <2>3. Before(i) \subseteq Before(m)
    <3>1. ASSUME NEW j \in S, j < i PROVE j < m
      <4>1. j \in 1..n
        OBVIOUS
      <4>. QED  BY <2>1, <3>1, <4>1
    <3>. QED  BY <3>1
  <2>4. IsFiniteSet(Before(m))
    BY <1>1, <1>4, FS_RemoveElement
  <2>5. CASE i # m
    <3>1. Before(i) \subseteq Before(m) /\ i \in Before(m)
      BY <2>1, <2>3, <2>5
    <3>2. Before(i) = Before(m)
      BY <1>5, <1>6, <2>4, <3>1, FS_Subset
    <3>. QED  BY <2>2, <3>1, <3>2
  <2>. QED  BY <2>5
<1>7. (CHOOSE i \in S : Cardinality(Before(i)) = c - 1) = m
  BY <1>3, <1>5, <1>6
<1>. DEFINE Nth(k) == CHOOSE i \in S : Cardinality(Before(i)) = k - 1
<1>8. Ascending(S) = [k \in 1..c |-> Nth(k)]
  BY DEF Ascending
<1>. HIDE DEF Nth
<1>9. DOMAIN Ascending(S) = 1..c /\ Ascending(S)[c] = Nth(c)
  BY <1>1, <1>2, <1>8
<1>. QED  BY <1>1, <1>2, <1>7, <1>9 DEF m, Nth

LEMMA AnswerEndsWithNewest ==
    ASSUME HistoryInv, detail.pc = "states", Pos(detail.id) \in Stored
    PROVE  AnsweredStates[Len(AnsweredStates)] = log[Current(Pos(detail.id))].nr
<1>. DEFINE p == Pos(detail.id)
            S == States(p)
            rows == Ascending(S)
            shown == [k \in DOMAIN rows |-> log[rows[k]].nr]
<1>1. IsPipeline(p) /\ p \in S
  BY RequestedRow, OwnState
<1>2. Current(p) = Newest(S)
  BY <1>1 DEF Current
<1>3. Len(log) \in Nat /\ S \in SUBSET (1..Len(log)) /\ S # {}
  BY <1>1, StatesRows DEF HistoryInv
<1>4. Cardinality(S) \in Nat /\ Cardinality(S) > 0
  BY <1>3, AscendingLast
<1>5. DOMAIN rows = 1..Cardinality(S)
  BY <1>3, AscendingLast
<1>6. rows[Cardinality(S)] = Newest(S)
  BY <1>3, AscendingLast
<1>. DEFINE c == Cardinality(S)
            V == {log[rows[k]].nr : k \in 1..c}
<1>. HIDE DEF rows, S, p, c
<1>7. c \in Nat /\ c > 0 /\ DOMAIN rows = 1..c /\ rows[c] = Newest(S)
  BY <1>4, <1>5, <1>6 DEF c
<1>8. shown \in [1..c -> V] /\ shown[c] = log[Newest(S)].nr
  BY <1>7
<1>. HIDE DEF shown, V
<1>9. shown \in Seq(V \cup Nat) /\ Len(shown) = c
  BY <1>7, <1>8
<1>10. detail.states \in Seq(Nat)
  BY DEF HistoryInv, DetailOK, DetailState
<1>11. detail.states \in Seq(V \cup Nat) /\ Len(detail.states) \in Nat
  BY <1>10
<1>12. AnsweredStates = detail.states \o shown
  BY DEF AnsweredStates, shown, rows, S, p
<1>13. Len(AnsweredStates) = Len(detail.states) + c
  BY <1>9, <1>11, <1>12, ConcatProperties
<1>14. (detail.states \o shown)[Len(detail.states) + c] = shown[c]
  BY <1>7, <1>9, <1>11, ConcatProperties
<1>. QED  BY <1>2, <1>8, <1>12, <1>13, <1>14 DEF S, p

(* GetEventDetail fails for an event that it has found only if retention or  *)
(* a clearing has deleted it since, and otherwise ends with the state that   *)
(* the list shows, whatever commits between its queries.                     *)
THEOREM DetailAgrees == Spec => DetailFailsOnlyIfDeleted
<1>. DEFINE A == /\ DetailFails => Pos(detail.id) \notin Stored
                 /\ DetailStates /\ Pos(detail.id) \in Stored =>
                      AnsweredStates[Len(AnsweredStates)] = log[Current(Pos(detail.id))].nr
<1>1. HistoryInv => A
  <2>. SUFFICES ASSUME HistoryInv PROVE A
    OBVIOUS
  <2>1. ASSUME DetailFails, Pos(detail.id) \in Stored PROVE FALSE
    <3>1. detail.pc = "start" /\ States(Pos(detail.id)) = {}
      BY <2>1 DEF DetailFails
    <3>2. IsPipeline(Pos(detail.id))
      BY <3>1, RequestedRow
    <3>. QED  BY <2>1, <3>1, <3>2, OwnState
  <2>2. DetailStates => detail.pc = "states"
    BY DEF DetailStates
  <2>. QED  BY <2>1, <2>2, AnswerEndsWithNewest
<1>2. HistoryInv /\ [Next]_vars => [A]_vars
  BY <1>1
<1>. QED  BY <1>2, HistoryInductive, PTL DEF Spec, DetailFailsOnlyIfDeleted

-----------------------------------------------------------------------------
(* The list.                                                                 *)

LEMMA PushIsNoPipeline ==
    ASSUME NEW i
    PROVE  ~(IsPush(i) /\ IsPipeline(i))
BY DEF IsPush, IsPipeline

LEMMA ReplacingFacts ==
    ASSUME NEW i, NEW j \in Replacing(i)
    PROVE  /\ IsPush(i) /\ ~HasDeliveries(i) /\ ~IsPipeline(i)
           /\ j \in Stored /\ Replaces(j, i) /\ IsPipeline(j)
BY PushIsNoPipeline DEF Replacing, Replaces

LEMMA SameStates ==
    ASSUME NEW i, NEW j \in States(i)
    PROVE  IsPipeline(j) /\ States(j) = States(i)
BY DEF States, SamePipeline

(* The states of a pipeline replace the same pushes.                         *)
LEMMA StatesReplaceAlike ==
    ASSUME LogOK, NEW i \in Stored, NEW j \in Replacing(i), NEW k \in States(j)
    PROVE  k \in Replacing(i)
<1>1. IsPush(i) /\ ~HasDeliveries(i) /\ j \in Stored /\ Replaces(j, i) /\ IsPipeline(j)
  BY ReplacingFacts
<1>2. IsPipeline(k) /\ States(k) = States(j) /\ k \in Stored
  BY SameStates DEF States
<1>3. Hook(j) \in Webhooks /\ Hook(k) \in Webhooks
  BY <1>1, <1>2, RowsInterval DEF Hook, LogRow, Stored
<1>4. Hook(j).repo = Hook(k).repo /\ Hook(j).external = Hook(k).external
  BY DEF States, SamePipeline
<1>5. Hook(k).revision = Hook(j).revision /\ Hook(k).ref = Hook(j).ref
      /\ Hook(k).trigger = Hook(j).trigger
  BY <1>1, <1>2, <1>3, <1>4, HistoryAssumption DEF IsPipeline
<1>6. log[k].at >= log[i].at /\ \A l \in States(k) : log[l].at >= log[i].at
  BY <1>1, <1>2 DEF Replaces
<1>7. Replaces(k, i)
  BY <1>1, <1>2, <1>4, <1>5, <1>6 DEF Replaces
<1>. QED  BY <1>1, <1>2, <1>7 DEF Replacing

(* The row that stands for an event is listed, and stands for itself.        *)
LEMMA CurrentIsListed ==
    ASSUME LogOK, NEW i \in Stored
    PROVE  Current(i) \in Listed
<1>. DEFINE c == Current(i)
<1>1. c \in Stored
  BY CurrentIsRow
<1>2. ASSUME NEW p \in Stored, IsPipeline(p), \A j \in States(p) : ~(j > p) PROVE p \in Listed
  <2>1. Replacing(p) = {}
    BY <1>2, PushIsNoPipeline DEF Replacing
  <2>. QED  BY <1>2, <2>1 DEF Listed, Visible
<1>3. CASE IsPipeline(i)
  <2>1. States(i) # {} /\ c = Newest(States(i))
    BY <1>3, OwnState DEF Current
  <2>2. c \in States(i)
    BY <2>1, StatesRows, NewestIsGreatest
  <2>2a. \A j \in States(i) : j <= c
    BY <2>1, StatesRows, NewestIsGreatest
  <2>3. IsPipeline(c) /\ States(c) = States(i)
    BY <2>2, SameStates
  <2>. HIDE DEF c
  <2>4. \A j \in States(c) : j \in Nat /\ c \in Nat
    BY <2>2, <2>3, StatesRows
  <2>5. \A j \in States(c) : ~(j > c)
    BY <2>2a, <2>3, <2>4
  <2>. QED  BY <1>1, <1>2, <2>3, <2>5 DEF c
<1>4. CASE ~IsPipeline(i) /\ Replacing(i) # {}
  <2>1. c = Newest(Replacing(i))
    BY <1>4 DEF Current
  <2>2. c \in Replacing(i)
    BY <1>4, <2>1, StatesRows, NewestIsGreatest
  <2>2a. \A j \in Replacing(i) : j <= c
    BY <1>4, <2>1, StatesRows, NewestIsGreatest
  <2>. HIDE DEF c
  <2>3. IsPipeline(c)
    BY <2>2, ReplacingFacts
  <2>4. \A j \in States(c) : j <= c
    BY <2>2, <2>2a, StatesReplaceAlike
  <2>5. \A j \in States(c) : j \in Nat /\ c \in Nat
    BY <2>2, StatesRows
  <2>6. \A j \in States(c) : ~(j > c)
    BY <2>4, <2>5
  <2>. QED  BY <1>1, <1>2, <2>3, <2>6 DEF c
<1>5. CASE ~IsPipeline(i) /\ Replacing(i) = {}
  BY <1>5 DEF Current, Listed, Visible
<1>. QED  BY <1>3, <1>4, <1>5

LEMMA ListedIsCurrent ==
    ASSUME LogOK, NEW i \in Listed
    PROVE  Current(i) = i
<1>1. i \in Stored /\ (IsPipeline(i) => ~\E j \in States(i) : j > i) /\ Replacing(i) = {}
  BY DEF Listed, Visible
<1>2. CASE IsPipeline(i)
  <2>1. i \in States(i)
    BY <1>1, <1>2, OwnState
  <2>2. Len(log) \in Nat /\ States(i) \in SUBSET (1..Len(log))
    BY StatesRows
  <2>3. \A j \in States(i) : j <= i
    BY <1>1, <1>2, <2>1, <2>2
  <2>4. Newest(States(i)) = i
    BY <2>1, <2>2, <2>3, NewestIs
  <2>. QED  BY <1>2, <2>4 DEF Current
<1>3. CASE ~IsPipeline(i)
  BY <1>1, <1>3 DEF Current
<1>. QED  BY <1>2, <1>3

(* Pages divide the ranks 0..total-1 without a gap or an overlap.            *)
LEMMA RankIsBelow ==
    ASSUME NEW n \in Nat, NEW rows \in SUBSET (1..n), NEW c \in rows
    PROVE  Rank(rows, c) \in Nat /\ Rank(rows, c) < Cardinality(rows)
           /\ Cardinality(rows) \in Nat /\ Cardinality(rows) <= n
<1>. DEFINE U == {j \in rows : j > c}
<1>1. IsFiniteSet(rows) /\ Cardinality(rows) \in Nat /\ Cardinality(rows) <= n
  BY RowsAreFinite
<1>2. Cardinality(U) \in Nat
  BY RowsAreFinite
<1>3. U \subseteq rows \ {c}
  <2>1. c \in Nat /\ ~(c > c)
    OBVIOUS
  <2>. QED  BY <2>1
<1>4. IsFiniteSet(rows \ {c}) /\ Cardinality(rows \ {c}) = Cardinality(rows) - 1
  BY <1>1, FS_RemoveElement
<1>5. Cardinality(U) <= Cardinality(rows) - 1
  BY <1>3, <1>4, FS_Subset
<1>. QED  BY <1>1, <1>2, <1>5 DEF Rank

LEMMA MultipleMonotone ==
    ASSUME NEW a \in Nat, NEW b \in Nat, a <= b, NEW m \in Nat
    PROVE  a * m <= b * m
<1>1. b = a + (b - a) /\ b - a \in Nat
  OBVIOUS
<1>2. PICK d \in Nat : b = a + d
  BY <1>1
<1>3. b * m = a * m + d * m /\ a * m \in Nat /\ d * m \in Nat /\ d * m >= 0
  BY <1>2
<1>. QED  BY <1>3

LEMMA PageOfRank ==
    ASSUME NEW r \in Nat
    PROVE  \E q \in Nat : q * PageSize <= r /\ r < (q + 1) * PageSize
<1>1. PageSize \in Nat /\ PageSize > 0
  BY ConstantsTyped
<1>. DEFINE q == r \div PageSize
<1>2. q \in Nat /\ r = PageSize * q + (r % PageSize) /\ r % PageSize \in 0..(PageSize - 1)
  BY <1>1
<1>3. PageSize * q = q * PageSize /\ (q + 1) * PageSize = q * PageSize + PageSize
      /\ q * PageSize \in Nat
  BY <1>1, <1>2
<1>. HIDE DEF q
<1>4. q * PageSize <= r /\ r < (q + 1) * PageSize
  BY <1>1, <1>2, <1>3
<1>. QED  BY <1>2, <1>4

LEMMA OnePage ==
    ASSUME NEW n \in Nat, n <= MaxRows, NEW rows \in SUBSET (1..n), NEW c \in rows
    PROVE  \E p \in 1..(MaxRows + 1) :
              /\ c \in PageRows(rows, p)
              /\ \A q \in 1..(p - 1) : HasNext(Cardinality(rows), q)
              /\ \A q \in 1..(MaxRows + 1) : c \in PageRows(rows, q) => q = p
<1>. DEFINE r == Rank(rows, c)
            total == Cardinality(rows)
<1>1. r \in Nat /\ r < total /\ total \in Nat /\ total <= n
  BY RankIsBelow
<1>2. PageSize \in Nat /\ PageSize > 0 /\ MaxRows \in Nat
  BY ConstantsTyped
<1>3. PICK q \in Nat : q * PageSize <= r /\ r < (q + 1) * PageSize
  BY <1>1, PageOfRank
<1>. HIDE DEF r, total
<1>4. q * PageSize \in Nat /\ q <= q * PageSize
  <2>1. PICK s \in Nat : PageSize = s + 1
    <3>1. PageSize - 1 \in Nat /\ PageSize = (PageSize - 1) + 1
      BY <1>2
    <3>. QED  BY <3>1
  <2>2. q * PageSize = q * s + q /\ q * s \in Nat
    BY <2>1
  <2>. QED  BY <2>2
<1>5. q + 1 \in 1..(MaxRows + 1) /\ (q + 1) - 1 = q
  BY <1>1, <1>2, <1>3, <1>4
<1>6. c \in PageRows(rows, q + 1)
  BY <1>3, <1>5 DEF PageRows, r
<1>7. ASSUME NEW m \in 1..((q + 1) - 1) PROVE HasNext(total, m)
  <2>1. m \in Nat /\ m <= q /\ m - 1 \in Nat
    BY <1>5
  <2>2. m * PageSize <= q * PageSize
    BY <1>2, <2>1, MultipleMonotone
  <2>3. m * PageSize = (m - 1) * PageSize + PageSize /\ m * PageSize \in Nat
        /\ (m - 1) * PageSize \in Nat
    BY <1>2, <2>1
  <2>. DEFINE a == (m - 1) * PageSize
  <2>4. a \in Nat /\ a + PageSize <= q * PageSize
    BY <2>2, <2>3
  <2>. HIDE DEF a
  <2>5. total > 0 /\ a < total /\ PageSize < total - a
    BY <1>1, <1>2, <1>3, <1>4, <2>4
  <2>. QED  BY <2>5 DEF HasNext, a
<1>8. ASSUME NEW m \in 1..(MaxRows + 1), c \in PageRows(rows, m) PROVE m = q + 1
  <2>1. m \in Nat /\ m - 1 \in Nat /\ (m - 1) * PageSize <= r /\ r < m * PageSize
    BY <1>8, <1>2 DEF PageRows, r
  <2>2. CASE m <= q
    <3>1. m * PageSize <= q * PageSize
      BY <1>2, <2>1, <2>2, MultipleMonotone
    <3>2. m * PageSize \in Nat
      BY <1>2, <2>1
    <3>. QED  BY <1>1, <1>3, <1>4, <2>1, <3>1, <3>2
  <2>3. CASE q + 1 <= m - 1
    <3>1. (q + 1) * PageSize <= (m - 1) * PageSize
      BY <1>2, <2>1, <2>3, MultipleMonotone
    <3>2. (q + 1) * PageSize \in Nat /\ (m - 1) * PageSize \in Nat
      BY <1>2, <2>1
    <3>. QED  BY <1>1, <1>3, <2>1, <3>1, <3>2
  <2>. QED  BY <2>1, <2>2, <2>3
<1>. QED  BY <1>5, <1>6, <1>7, <1>8 DEF total

(* Paging through the event list shows the lifecycle of every stored event   *)
(* exactly once, for every page size, and opening a listed row opens that    *)
(* row: ListEvents and currentLifecycleEventID agree.                        *)
THEOREM EachLifecycleOnce == Spec => []LifecycleListedOnce
<1>1. LogOK => LifecycleListedOnce
  <2>. SUFFICES ASSUME LogOK PROVE LifecycleListedOnce
    OBVIOUS
  <2>. DEFINE rows == Listed
              pages == {p \in 1..(MaxRows + 1) : \A q \in 1..(p - 1) : HasNext(Cardinality(rows), q)}
  <2>1. Len(log) \in Nat /\ Len(log) <= MaxRows /\ rows \in SUBSET (1..Len(log))
    BY RowsInterval DEF LogOK, Listed
  <2>2. ASSUME NEW c \in {Current(i) : i \in Stored}
        PROVE  Cardinality({p \in pages : c \in PageRows(rows, p)}) = 1
    <3>1. c \in rows
      BY CurrentIsListed
    <3>2. PICK p \in 1..(MaxRows + 1) :
             /\ c \in PageRows(rows, p)
             /\ \A q \in 1..(p - 1) : HasNext(Cardinality(rows), q)
             /\ \A q \in 1..(MaxRows + 1) : c \in PageRows(rows, q) => q = p
      BY <2>1, <3>1, OnePage
    <3>. HIDE DEF rows
    <3>3. {m \in pages : c \in PageRows(rows, m)} = {p}
      BY <3>2
    <3>. QED  BY <3>3, FS_Singleton
  <2>3. \A i \in rows : Current(i) = i
    BY ListedIsCurrent
  <2>. QED  BY <2>2, <2>3 DEF LifecycleListedOnce
<1>2. HistoryInv => LogOK
  BY DEF HistoryInv
<1>. QED  BY <1>1, <1>2, HistoryInductive, PTL

(* A push that the list hides is a stage of the pipeline it is hidden        *)
(* behind, or a later push of the commit is; one that still waits, or was    *)
(* given up, has no pipeline that began since.                               *)
THEOREM PushMeetsPipeline == Spec => []PushAndPipelineAreOne
<1>1. LogOK => PushAndPipelineAreOne
  <2>. SUFFICES ASSUME LogOK PROVE PushAndPipelineAreOne
    OBVIOUS
  <2>1. ASSUME NEW i \in Stored, Replacing(i) # {}
        PROVE  LET stages == PushStages(Current(i), StartOf(States(Current(i)))) IN
               stages # {} /\ Newest(stages) >= i
    <3>. DEFINE c == Current(i)
                start == StartOf(States(c))
                stages == PushStages(c, start)
    <3>1. PICK j : j \in Replacing(i)
      BY <2>1
    <3>2. IsPush(i) /\ ~HasDeliveries(i) /\ ~IsPipeline(i)
      BY <3>1, ReplacingFacts
    <3>3. c = Newest(Replacing(i))
      BY <2>1, <3>2 DEF Current
    <3>4. c \in Replacing(i)
      BY <2>1, <3>3, StatesRows, NewestIsGreatest
    <3>. HIDE DEF c
    <3>5. c \in Stored /\ Replaces(c, i) /\ IsPipeline(c)
      BY <3>4, ReplacingFacts
    <3>6. States(c) \in SUBSET Rows /\ States(c) # {}
      BY <3>5, OwnState DEF States, Stored
    <3>7. PICK k \in States(c) : start = log[k].at
      BY <3>6, StartIsLeast
    <3>8. log[k].at >= log[i].at
      BY <3>5 DEF Replaces
    <3>9. log[k].at \in Nat /\ log[i].at \in Nat
      BY <3>6, RowsInterval DEF LogRow, Stored
    <3>10. log[i].at <= start
      BY <3>7, <3>8, <3>9
    <3>. HIDE DEF start
    <3>11. i \in stages
      BY <3>2, <3>5, <3>10 DEF PushStages, Replaces
    <3>12. Len(log) \in Nat /\ stages \in SUBSET (1..Len(log))
      BY RowsInterval DEF PushStages
    <3>. HIDE DEF stages
    <3>13. i <= Newest(stages) /\ Newest(stages) \in stages
      BY <3>11, <3>12, NewestIsGreatest
    <3>14. i \in 1..Len(log) /\ Newest(stages) \in 1..Len(log)
      BY <3>11, <3>12, <3>13
    <3>15. stages # {} /\ Newest(stages) >= i
      BY <3>11, <3>12, <3>13, <3>14
    <3>. QED  BY <3>15 DEF stages, start, c
  <2>2. ASSUME NEW i \in Listed,
               fillEventState(i).status \in {"waiting_for_pipeline", "pipeline_not_received"},
               NEW j \in Stored, IsPipeline(j), Hook(j).trigger = "push",
               Hook(j).repo = Hook(i).repo, Hook(j).revision = Hook(i).revision,
               Hook(j).ref = Hook(i).ref
        PROVE  StartOf(States(j)) < log[i].at
    <3>1. i \in Stored /\ Replacing(i) = {}
      BY DEF Listed, Visible
    <3>2. Hook(i) \in Webhooks
      BY <3>1, RowsInterval DEF Hook, LogRow, Stored
    <3>3. Hook(i).status \notin {"waiting_for_pipeline", "pipeline_not_received"}
      BY <3>2, HistoryAssumption
    <3>4. IsPush(i) /\ ~HasDeliveries(i)
      BY <2>2, <3>3 DEF fillEventState, HasDeliveries
    <3>5. ~Replaces(j, i)
      BY <3>1, <3>4 DEF Replacing
    <3>6. j \in States(j) /\ States(j) \in SUBSET Rows
      BY <2>2, OwnState DEF States, Stored
    <3>7. PICK k \in States(j) : ~(log[k].at >= log[i].at)
      BY <2>2, <3>5, <3>6 DEF Replaces
    <3>8. StartOf(States(j)) \in Nat
      BY <3>6, StartIsLeast
    <3>9. StartOf(States(j)) <= log[k].at
      BY <3>6, StartIsLeast
    <3>10. log[k].at \in Nat /\ log[i].at \in Nat
      BY <3>1, <3>6, RowsInterval DEF LogRow, Stored
    <3>. QED  BY <3>7, <3>8, <3>9, <3>10
  <2>. QED  BY <2>1, <2>2 DEF PushAndPipelineAreOne
<1>2. HistoryInv => LogOK
  BY DEF HistoryInv
<1>. QED  BY <1>1, <1>2, HistoryInductive, PTL

-----------------------------------------------------------------------------
(* Induction over the positions of a sequence, with sets for predicates.     *)
LEMMA ReachesAll ==
    ASSUME NEW m \in Nat, NEW n \in Nat, NEW S, m \in S,
           \A k \in m..n : k \in S /\ k < n => k + 1 \in S
    PROVE  \A k \in m..n : k \in S
<1>. DEFINE U == {k \in m..n : k \notin S}
<1>. SUFFICES ASSUME U # {} PROVE FALSE
  OBVIOUS
<1>1. U \in SUBSET Nat
  OBVIOUS
<1>2. PICK k \in U : \A j \in U : k <= j
  BY <1>1, LeastExists
<1>3. k # m /\ k \in m..n /\ k \notin S
  BY <1>2
<1>4. k - 1 \in m..n /\ k - 1 < n /\ ~(k <= k - 1)
  BY <1>3
<1>5. k - 1 \notin U
  BY <1>2, <1>4
<1>6. k - 1 \in S
  BY <1>4, <1>5
<1>7. (k - 1) + 1 \in S
  BY <1>4, <1>6
<1>. QED  BY <1>3, <1>7

-----------------------------------------------------------------------------
(* The fold: g[k] is the run after the first k observations.                 *)

Fold(o, g, n) ==
    \A k \in 1..n : g[k] = IF k = 1 THEN NewRun(o[1]) ELSE Observe(g[k - 1], o[k])

(* A function of one more observation extends one of the first m: so the     *)
(* equation that FoldRun chooses a solution of has one.                      *)
LEMMA FoldExists ==
    ASSUME NEW o, NEW n \in Nat \ {0}
    PROVE  \E g : g = [k \in 1..n |-> IF k = 1 THEN NewRun(o[1]) ELSE Observe(g[k - 1], o[k])]
<1>. DEFINE Step(g, k) == IF k = 1 THEN NewRun(o[1]) ELSE Observe(g[k - 1], o[k])
            Is(g, m) == g = [k \in 1..m |-> Step(g, k)]
            S == {m \in 1..n : \E g : Is(g, m)}
<1>1. 1 \in S
  <2>. DEFINE g == [k \in 1..1 |-> NewRun(o[1])]
  <2>1. \A k \in 1..1 : Step(g, k) = NewRun(o[1])
    OBVIOUS
  <2>. HIDE DEF Step
  <2>2. Is(g, 1)
    BY <2>1
  <2>. QED  BY <2>2
<1>2. ASSUME NEW m \in 1..n, m \in S, m < n PROVE m + 1 \in S
  <2>1. PICK g : Is(g, m)
    BY <1>2
  <2>. DEFINE h == [k \in 1..(m + 1) |-> IF k <= m THEN g[k] ELSE Observe(g[m], o[m + 1])]
  <2>2. ASSUME NEW k \in 1..(m + 1) PROVE h[k] = Step(h, k)
    <3>1. CASE k = 1
      <4>1. 1 \in 1..m /\ h[1] = g[1]
        BY <1>2
      <4>2. g[1] = Step(g, 1)
        <5>. HIDE DEF Step
        <5>. QED  BY <2>1, <4>1
      <4>. QED  BY <3>1, <4>1, <4>2
    <3>2. CASE k # 1 /\ k <= m
      <4>1. k \in 1..m /\ h[k] = g[k] /\ k - 1 \in 1..(m + 1) /\ k - 1 <= m
        BY <1>2, <3>2
      <4>2. h[k - 1] = g[k - 1]
        BY <4>1
      <4>3. g[k] = Step(g, k)
        <5>. HIDE DEF Step, h
        <5>. QED  BY <2>1, <4>1
      <4>. HIDE DEF h
      <4>. QED  BY <3>2, <4>1, <4>2, <4>3
    <3>3. CASE k = m + 1
      <4>1. h[m + 1] = Observe(g[m], o[m + 1]) /\ h[m] = g[m] /\ (m + 1) - 1 = m /\ m + 1 # 1
        BY <1>2
      <4>. HIDE DEF h
      <4>2. Step(h, m + 1) = Observe(h[(m + 1) - 1], o[m + 1])
        BY <4>1
      <4>. QED  BY <3>3, <4>1, <4>2
    <3>. QED  BY <1>2, <3>1, <3>2, <3>3
  <2>. HIDE DEF Step
  <2>3. h = [k \in 1..(m + 1) |-> h[k]]
    OBVIOUS
  <2>. HIDE DEF h
  <2>4. Is(h, m + 1)
    BY <2>2, <2>3
  <2>5. m + 1 \in 1..n
    BY <1>2
  <2>. QED  BY <2>4, <2>5
<1>. HIDE DEF S
<1>3. \A m \in 1..n : m \in S
  BY <1>1, <1>2, ReachesAll
<1>4. n \in S
  BY <1>3
<1>. QED  BY <1>4 DEF S

(* FoldRun is the last of the runs that the equation defines.                *)
LEMMA FoldRunIsFold ==
    ASSUME NEW o, Len(o) \in Nat \ {0}
    PROVE  \E g : Fold(o, g, Len(o)) /\ FoldRun(o) = g[Len(o)]
<1>. DEFINE n == Len(o)
            after == CHOOSE g : g = [k \in 1..n |-> IF k = 1 THEN NewRun(o[1]) ELSE Observe(g[k - 1], o[k])]
<1>1. after = [k \in 1..n |-> IF k = 1 THEN NewRun(o[1]) ELSE Observe(after[k - 1], o[k])]
  BY FoldExists
<1>2. FoldRun(o) = after[n]
  BY DEF FoldRun
<1>. HIDE DEF after
<1>3. Fold(o, after, n)
  BY <1>1 DEF Fold
<1>. QED  BY <1>2, <1>3

-----------------------------------------------------------------------------
(* What an observation does to a run.                                        *)

Phases == Timed \cup {"terminal", "unknown"}
Runs(T) ==
    [phase : Phases, status : T, first : Nat, last : Nat, boundary : Nat,
     ms : [Timed -> Int], restarts : Nat, knownStart : BOOLEAN, ran : BOOLEAN,
     invalid : BOOLEAN]

LEMMA PhaseType == ASSUME NEW s PROVE pipelinePhase(s) \in Phases
BY DEF pipelinePhase, Phases, Timed

Spoils(run, x) ==
    LET phase == pipelinePhase(x.status) IN
    IF phase = run.phase THEN run.phase = "terminal" /\ run.status # x.status
    ELSE \/ run.phase = "running" /\ phase \in {"initialization", "waiting"}
         \/ x.at = run.boundary
         \/ run.phase = "terminal"
         \/ phase = "unknown"

LEMMA NewRunFacts ==
    ASSUME NEW T, NEW x \in [at : Nat, status : T]
    PROVE  /\ NewRun(x) \in Runs(T)
           /\ NewRun(x).phase = pipelinePhase(x.status) /\ NewRun(x).status = x.status
           /\ NewRun(x).boundary = x.at /\ TotalMS(NewRun(x)) = 0
           /\ NewRun(x).knownStart <=> pipelinePhase(x.status) \in {"initialization", "waiting"}
           /\ NewRun(x).ran <=> pipelinePhase(x.status) = "running"
           /\ NewRun(x).invalid <=> pipelinePhase(x.status) = "unknown"
<1>. DEFINE phase == pipelinePhase(x.status)
            known == phase \in {"initialization", "waiting"}
            ran == phase = "running"
            invalid == phase = "unknown"
<1>1. phase \in Phases
  BY PhaseType
<1>2. [p \in Timed |-> 0] \in [Timed -> Int]
  OBVIOUS
<1>3. TotalMS(NewRun(x)) = 0
  BY DEF TotalMS, NewRun, Timed
<1>4. known \in BOOLEAN /\ ran \in BOOLEAN /\ invalid \in BOOLEAN
  OBVIOUS
<1>5. NewRun(x) =
        [phase |-> phase, status |-> x.status, first |-> x.at, last |-> x.at, boundary |-> x.at,
         ms |-> [p \in Timed |-> 0], restarts |-> 0, knownStart |-> known, ran |-> ran,
         invalid |-> invalid]
  BY DEF NewRun
<1>. HIDE DEF known, ran, invalid
<1>6. /\ NewRun(x) \in Runs(T)
      /\ NewRun(x).phase = phase /\ NewRun(x).status = x.status /\ NewRun(x).boundary = x.at
      /\ NewRun(x).knownStart = known /\ NewRun(x).ran = ran /\ NewRun(x).invalid = invalid
  BY <1>1, <1>2, <1>4, <1>5 DEF Runs
<1>. QED  BY <1>3, <1>6, Zenon DEF known, ran, invalid

LEMMA RepeatFacts ==
    ASSUME NEW T, NEW run \in Runs(T), NEW x \in [at : Nat, status : T]
    PROVE  LET r == RepeatPhase(run, x) IN
           /\ r \in Runs(T)
           /\ r.phase = run.phase /\ r.status = x.status /\ r.boundary = run.boundary
           /\ r.ms = run.ms /\ r.knownStart = run.knownStart /\ r.ran = run.ran
           /\ r.invalid <=> run.invalid \/ (run.phase = "terminal" /\ run.status # x.status)
BY DEF RepeatPhase, Runs

LEMMA ChangeFacts ==
    ASSUME NEW T, NEW run \in Runs(T), NEW x \in [at : Nat, status : T]
    PROVE  LET r == ChangePhase(run, x)
               phase == pipelinePhase(x.status) IN
           /\ r \in Runs(T)
           /\ r.phase = phase /\ r.status = x.status /\ r.boundary = x.at
           /\ r.ms = Spent(run, x.at - run.boundary)
           /\ r.knownStart = run.knownStart
           /\ r.ran <=> run.ran \/ phase = "running"
           /\ r.invalid <=> \/ run.invalid
                            \/ run.phase = "running" /\ phase \in {"initialization", "waiting"}
                            \/ x.at = run.boundary
                            \/ run.phase = "terminal"
                            \/ phase = "unknown"
<1>. DEFINE phase == pipelinePhase(x.status)
            delta == x.at - run.boundary
            ms == Spent(run, delta)
            restarts == IF run.phase = "terminal" THEN run.restarts + 1 ELSE run.restarts
            ran == run.ran \/ phase = "running"
            invalid == \/ run.invalid
                       \/ run.phase = "running" /\ phase \in {"initialization", "waiting"}
                       \/ delta = 0
                       \/ run.phase = "terminal"
                       \/ phase = "unknown"
            r == ChangePhase(run, x)
<1>1. phase \in Phases
  BY PhaseType
<1>2. ms \in [Timed -> Int] /\ restarts \in Nat
  BY DEF Runs, Spent
<1>3. delta = 0 <=> x.at = run.boundary
  BY DEF Runs
<1>4. ran \in BOOLEAN /\ invalid \in BOOLEAN
  OBVIOUS
<1>5. r = [run EXCEPT
            !.phase = phase, !.status = x.status, !.last = x.at, !.boundary = x.at,
            !.ms = ms, !.restarts = restarts, !.ran = ran, !.invalid = invalid]
  BY DEF ChangePhase
<1>. HIDE DEF ran, invalid, phase, delta, ms, restarts, r
<1>6. /\ r \in Runs(T)
      /\ r.phase = phase /\ r.status = x.status /\ r.boundary = x.at
      /\ r.ms = ms
      /\ r.knownStart = run.knownStart /\ r.ran = ran /\ r.invalid = invalid
  BY <1>1, <1>2, <1>4, <1>5 DEF Runs
<1>7. r.invalid <=> \/ run.invalid
                    \/ run.phase = "running" /\ phase \in {"initialization", "waiting"}
                    \/ x.at = run.boundary
                    \/ run.phase = "terminal"
                    \/ phase = "unknown"
  BY <1>3, <1>6, Zenon DEF invalid
<1>8. r.ran <=> run.ran \/ phase = "running"
  BY <1>6, Zenon DEF ran
<1>. QED  BY <1>6, <1>7, <1>8 DEF r, phase, delta, ms

(* A duration added to one phase is added to the total.                      *)
LEMMA TotalGrows ==
    ASSUME NEW ms \in [Timed -> Int], NEW p \in Timed, NEW d \in Int,
           NEW r, NEW run, run.ms = ms, r.ms = [ms EXCEPT ![p] = @ + d]
    PROVE  TotalMS(r) = TotalMS(run) + d
BY DEF TotalMS, Timed

(* An observation repeats the phase or ends it; only the end adds time.      *)
LEMMA ObserveFacts ==
    ASSUME NEW T, NEW run \in Runs(T), NEW x \in [at : Nat, status : T]
    PROVE  LET r == Observe(run, x)
               phase == pipelinePhase(x.status) IN
           /\ r \in Runs(T)
           /\ r.phase = phase /\ r.status = x.status
           /\ r.boundary = IF phase = run.phase THEN run.boundary ELSE x.at
           /\ r.knownStart = run.knownStart
           /\ r.ran <=> run.ran \/ (phase # run.phase /\ phase = "running")
           /\ r.invalid <=> run.invalid \/ Spoils(run, x)
           /\ TotalMS(r) = IF phase # run.phase /\ run.phase \in Timed
                           THEN TotalMS(run) + (x.at - run.boundary) ELSE TotalMS(run)
<1>. DEFINE phase == pipelinePhase(x.status)
            r == Observe(run, x)
<1>1. CASE phase = run.phase
  <2>1. r = RepeatPhase(run, x)
    BY <1>1 DEF Observe
  <2>2. /\ r \in Runs(T)
        /\ r.phase = run.phase /\ r.status = x.status /\ r.boundary = run.boundary
        /\ r.ms = run.ms /\ r.knownStart = run.knownStart /\ r.ran = run.ran
        /\ r.invalid <=> run.invalid \/ (run.phase = "terminal" /\ run.status # x.status)
    BY <2>1, RepeatFacts
  <2>. HIDE DEF r
  <2>3. TotalMS(r) = TotalMS(run)
    BY <2>2 DEF TotalMS
  <2>4. Spoils(run, x) <=> run.phase = "terminal" /\ run.status # x.status
    BY <1>1 DEF Spoils
  <2>. HIDE DEF phase
  <2>5. r.invalid <=> run.invalid \/ Spoils(run, x)
    BY <2>2, <2>4, Zenon
  <2>6. r.ran <=> run.ran
    BY <2>2, Zenon
  <2>. QED  BY <1>1, <2>2, <2>3, <2>5, <2>6 DEF r, phase
<1>2. CASE phase # run.phase
  <2>1. r = ChangePhase(run, x)
    BY <1>2 DEF Observe
  <2>2. /\ r \in Runs(T)
        /\ r.phase = phase /\ r.status = x.status /\ r.boundary = x.at
        /\ r.ms = Spent(run, x.at - run.boundary)
        /\ r.knownStart = run.knownStart
        /\ r.ran <=> run.ran \/ phase = "running"
        /\ r.invalid <=> \/ run.invalid
                         \/ run.phase = "running" /\ phase \in {"initialization", "waiting"}
                         \/ x.at = run.boundary
                         \/ run.phase = "terminal"
                         \/ phase = "unknown"
    BY <2>1, ChangeFacts
  <2>. HIDE DEF r
  <2>3. TotalMS(r) = IF run.phase \in Timed THEN TotalMS(run) + (x.at - run.boundary)
                     ELSE TotalMS(run)
    <3>1. run.ms \in [Timed -> Int] /\ x.at - run.boundary \in Int
      BY DEF Runs
    <3>2. CASE run.phase \in Timed
      BY <2>2, <3>1, <3>2, TotalGrows DEF Spent
    <3>3. CASE run.phase \notin Timed
      BY <2>2, <3>3 DEF TotalMS, Spent
    <3>. QED  BY <3>2, <3>3
  <2>4. Spoils(run, x) <=> \/ run.phase = "running" /\ phase \in {"initialization", "waiting"}
                          \/ x.at = run.boundary
                          \/ run.phase = "terminal"
                          \/ phase = "unknown"
    BY <1>2 DEF Spoils
  <2>. HIDE DEF phase
  <2>5. r.invalid <=> run.invalid \/ Spoils(run, x)
    BY <2>2, <2>4, Zenon
  <2>. QED  BY <1>2, <2>2, <2>3, <2>5 DEF r, phase
<1>. QED  BY <1>1, <1>2

-----------------------------------------------------------------------------
(* The run after k observations, and what it knows of them.                  *)

Observations(T) == Seq([at : Nat, status : T])
InOrder(o) == \A i, j \in 1..Len(o) : i <= j => o[i].at <= o[j].at

(* The phase of observation k has been reported since observation s.         *)
BlockStart(o, k, s) ==
    /\ s \in 1..k
    /\ \A m \in s..k : PhaseAt(o, m) = PhaseAt(o, k)
    /\ s > 1 => PhaseAt(o, s - 1) # PhaseAt(o, k)

(* Observation m makes a run invalid, which has been in its phase since s.   *)
Breaks(o, m, s) ==
    IF PhaseAt(o, m) = PhaseAt(o, m - 1)
    THEN PhaseAt(o, m) = "terminal" /\ o[m].status # o[m - 1].status
    ELSE \/ PhaseAt(o, m - 1) = "running" /\ PhaseAt(o, m) \in {"initialization", "waiting"}
         \/ o[m].at = o[s].at
         \/ PhaseAt(o, m - 1) = "terminal"
         \/ PhaseAt(o, m) = "unknown"

Broken(o, k) ==
    \/ PhaseAt(o, 1) = "unknown"
    \/ \E m \in 2..k : \E s \in 1..(m - 1) : BlockStart(o, m - 1, s) /\ Breaks(o, m, s)

(* What run g[k] knows of the first k observations.                          *)
Tracks(o, g, T, k) ==
    /\ g[k] \in Runs(T)
    /\ g[k].phase = PhaseAt(o, k)
    /\ g[k].status = o[k].status
    /\ \E s \in 1..k : BlockStart(o, k, s) /\ g[k].boundary = o[s].at
    /\ g[k].knownStart <=> PhaseAt(o, 1) \in {"initialization", "waiting"}
    /\ g[k].ran <=> \E m \in 1..k : PhaseAt(o, m) = "running"
    /\ g[k].invalid <=> Broken(o, k)
    /\ (\A m \in 1..k : PhaseAt(o, m) \in Timed) => TotalMS(g[k]) = g[k].boundary - o[1].at

(* A phase has one start.                                                    *)
LEMMA BlockStartUnique ==
    ASSUME NEW o, NEW k \in Nat, NEW s, NEW t, BlockStart(o, k, s), BlockStart(o, k, t)
    PROVE  s = t
<1>1. s \in 1..k /\ t \in 1..k
  BY DEF BlockStart
<1>2. CASE s < t
  <2>1. t - 1 \in s..k /\ t > 1
    BY <1>1, <1>2
  <2>. QED  BY <2>1 DEF BlockStart
<1>3. CASE t < s
  <2>1. s - 1 \in t..k /\ s > 1
    BY <1>1, <1>3
  <2>. QED  BY <2>1 DEF BlockStart
<1>. QED  BY <1>1, <1>2, <1>3

LEMMA ObservationAt ==
    ASSUME NEW T, NEW o \in Observations(T), NEW i \in 1..Len(o)
    PROVE  o[i] \in [at : Nat, status : T]
<1>. DEFINE R == [at : Nat, status : T]
<1>1. o \in Seq(R)
  BY DEF Observations
<1>. HIDE DEF R
<1>2. o[i] \in R
  BY <1>1
<1>. QED  BY <1>2 DEF R

LEMMA TracksFirst ==
    ASSUME NEW T, NEW o \in Observations(T), NEW n \in Nat \ {0}, n = Len(o), NEW g, Fold(o, g, n)
    PROVE  Tracks(o, g, T, 1)
<1>1. 1 \in 1..n /\ o[1] \in [at : Nat, status : T]
  BY ObservationAt
<1>2. g[1] = NewRun(o[1])
  BY <1>1 DEF Fold
<1>. DEFINE phase == pipelinePhase(o[1].status)
<1>3. /\ g[1] \in Runs(T)
      /\ g[1].phase = phase /\ g[1].status = o[1].status
      /\ g[1].boundary = o[1].at /\ TotalMS(g[1]) = 0
      /\ g[1].knownStart <=> phase \in {"initialization", "waiting"}
      /\ g[1].ran <=> phase = "running"
      /\ g[1].invalid <=> phase = "unknown"
  BY <1>1, <1>2, NewRunFacts
<1>4. PhaseAt(o, 1) = phase
  BY DEF PhaseAt
<1>. HIDE DEF phase
<1>5. BlockStart(o, 1, 1) /\ 1 \in 1..1
  BY DEF BlockStart
<1>6. (\E m \in 1..1 : PhaseAt(o, m) = "running") <=> phase = "running"
  BY <1>4
<1>7. Broken(o, 1) <=> phase = "unknown"
  BY <1>4 DEF Broken
<1>8. TotalMS(g[1]) = g[1].boundary - o[1].at
  BY <1>1, <1>3
<1>9. g[1].ran <=> \E m \in 1..1 : PhaseAt(o, m) = "running"
  BY <1>3, <1>6, Zenon
<1>10. g[1].invalid <=> Broken(o, 1)
  BY <1>3, <1>7, Zenon
<1>11. g[1].knownStart <=> PhaseAt(o, 1) \in {"initialization", "waiting"}
  BY <1>3, <1>4, Zenon
<1>12. \E s \in 1..1 : BlockStart(o, 1, s) /\ g[1].boundary = o[s].at
  BY <1>3, <1>5
<1>. QED  BY <1>3, <1>4, <1>8, <1>9, <1>10, <1>11, <1>12, Zenon DEF Tracks

LEMMA TracksNext ==
    ASSUME NEW T, NEW o \in Observations(T), NEW n \in Nat \ {0}, n = Len(o), NEW g, Fold(o, g, n),
           NEW k \in 1..n, k < n, Tracks(o, g, T, k)
    PROVE  Tracks(o, g, T, k + 1)
<1>1. k + 1 \in 1..n /\ k + 1 # 1 /\ (k + 1) - 1 = k /\ k \in 1..k /\ k \in Nat
  OBVIOUS
<1>2. o[k + 1] \in [at : Nat, status : T] /\ o[1] \in [at : Nat, status : T]
  BY <1>1, ObservationAt
<1>3. g[k + 1] = Observe(g[k], o[k + 1])
  BY <1>1 DEF Fold
<1>. DEFINE run == g[k]
            r == g[k + 1]
            x == o[k + 1]
            phase == PhaseAt(o, k + 1)
<1>4. /\ run \in Runs(T)
      /\ run.phase = PhaseAt(o, k)
      /\ run.status = o[k].status
      /\ run.knownStart <=> PhaseAt(o, 1) \in {"initialization", "waiting"}
      /\ run.ran <=> \E m \in 1..k : PhaseAt(o, m) = "running"
      /\ run.invalid <=> Broken(o, k)
      /\ (\A m \in 1..k : PhaseAt(o, m) \in Timed) => TotalMS(run) = run.boundary - o[1].at
  BY DEF Tracks
<1>5. PICK s \in 1..k : BlockStart(o, k, s) /\ run.boundary = o[s].at
  BY DEF Tracks
<1>6. /\ r \in Runs(T)
      /\ r.phase = phase /\ r.status = x.status
      /\ r.boundary = IF phase = run.phase THEN run.boundary ELSE x.at
      /\ r.knownStart = run.knownStart
      /\ r.ran <=> run.ran \/ (phase # run.phase /\ phase = "running")
      /\ r.invalid <=> run.invalid \/ Spoils(run, x)
      /\ TotalMS(r) = IF phase # run.phase /\ run.phase \in Timed
                      THEN TotalMS(run) + (x.at - run.boundary) ELSE TotalMS(run)
  BY <1>2, <1>3, <1>4, ObserveFacts DEF PhaseAt
<1>7. Spoils(run, x) <=> Breaks(o, k + 1, s)
  <2>1. pipelinePhase(x.status) = phase
    BY DEF PhaseAt
  <2>. QED  BY <1>1, <1>4, <1>5, <2>1 DEF Spoils, Breaks
<1>. HIDE DEF run, r, x, phase
<1>8. \E t \in 1..(k + 1) : BlockStart(o, k + 1, t) /\ r.boundary = o[t].at
  <2>1. CASE phase = run.phase
    <3>1. BlockStart(o, k + 1, s)
      <4>1. s \in 1..(k + 1)
        OBVIOUS
      <4>2. \A m \in s..(k + 1) : PhaseAt(o, m) = PhaseAt(o, k + 1)
        BY <1>4, <1>5, <2>1 DEF BlockStart, phase
      <4>3. s > 1 => PhaseAt(o, s - 1) # PhaseAt(o, k + 1)
        BY <1>4, <1>5, <2>1 DEF BlockStart, phase
      <4>. QED  BY <4>1, <4>2, <4>3 DEF BlockStart
    <3>. QED  BY <1>5, <1>6, <2>1, <3>1
  <2>2. CASE phase # run.phase
    <3>1. BlockStart(o, k + 1, k + 1)
      BY <1>1, <1>4, <2>2 DEF BlockStart, phase
    <3>2. r.boundary = o[k + 1].at
      BY <1>6, <2>2 DEF x
    <3>. QED  BY <1>1, <3>1, <3>2
  <2>. QED  BY <2>1, <2>2
<1>9. r.ran <=> \E m \in 1..(k + 1) : PhaseAt(o, m) = "running"
  <2>1. (\E m \in 1..(k + 1) : PhaseAt(o, m) = "running")
          <=> (\E m \in 1..k : PhaseAt(o, m) = "running") \/ phase = "running"
    BY <1>1 DEF phase
  <2>2. phase = run.phase /\ phase = "running" => \E m \in 1..k : PhaseAt(o, m) = "running"
    BY <1>1, <1>4
  <2>. QED  BY <1>4, <1>6, <2>1, <2>2, Zenon
<1>10. r.invalid <=> Broken(o, k + 1)
  <2>1. Broken(o, k + 1) <=> Broken(o, k) \/ \E t \in 1..k : BlockStart(o, k, t) /\ Breaks(o, k + 1, t)
    <3>1. \A m \in 2..(k + 1) : m \in 2..k \/ m = k + 1
      BY <1>1
    <3>2. \A m \in 2..k : m \in 2..(k + 1)
      BY <1>1
    <3>3. k + 1 \in 2..(k + 1)
      BY <1>1
    <3>. QED  BY <1>1, <3>1, <3>2, <3>3 DEF Broken
  <2>2. (\E t \in 1..k : BlockStart(o, k, t) /\ Breaks(o, k + 1, t)) <=> Breaks(o, k + 1, s)
    BY <1>1, <1>5, BlockStartUnique, Zenon
  <2>. QED  BY <1>4, <1>6, <1>7, <2>1, <2>2, Zenon
<1>11. r.knownStart <=> PhaseAt(o, 1) \in {"initialization", "waiting"}
  BY <1>4, <1>6, Zenon
<1>12. ASSUME \A m \in 1..(k + 1) : PhaseAt(o, m) \in Timed
       PROVE  TotalMS(r) = r.boundary - o[1].at
  <2>1. \A m \in 1..k : PhaseAt(o, m) \in Timed
    BY <1>1, <1>12
  <2>2. TotalMS(run) = run.boundary - o[1].at /\ run.phase \in Timed
    BY <1>1, <1>4, <2>1
  <2>3. run.boundary \in Nat /\ x.at \in Nat /\ o[1].at \in Nat
    BY <1>2, <1>4 DEF Runs, x
  <2>. QED  BY <1>6, <2>2, <2>3
<1>. QED  BY <1>6, <1>8, <1>9, <1>10, <1>11, <1>12, Zenon DEF Tracks, r, x, phase

(* After every observation the run knows what it should of those so far.     *)
LEMMA TracksAll ==
    ASSUME NEW T, NEW o \in Observations(T), NEW n \in Nat \ {0}, n = Len(o), NEW g, Fold(o, g, n)
    PROVE  \A k \in 1..n : Tracks(o, g, T, k)
<1>. DEFINE S == {k \in 1..n : Tracks(o, g, T, k)}
<1>1. 1 \in S
  BY TracksFirst
<1>2. ASSUME NEW k \in 1..n, k \in S /\ k < n PROVE k + 1 \in S
  <2>1. Tracks(o, g, T, k + 1)
    BY <1>2, TracksNext
  <2>. QED  BY <1>2, <2>1
<1>. HIDE DEF S
<1>3. \A k \in 1..n : k \in S
  BY <1>1, <1>2, ReachesAll
<1>. QED  BY <1>3 DEF S

LEMMA BlockStartExists ==
    ASSUME NEW T, NEW o \in Observations(T), NEW n \in Nat \ {0}, n = Len(o), NEW k \in 1..n
    PROVE  \E s \in 1..k : BlockStart(o, k, s)
<1>1. PICK g : Fold(o, g, n)
  BY FoldRunIsFold
<1>. QED  BY <1>1, TracksAll DEF Tracks

(* A run that is not broken: no phase is unknown, a phase that runs goes on   *)
(* to its end, and the end stays what it was.                                *)
LEMMA SoundSteps ==
    ASSUME NEW T, NEW o \in Observations(T), NEW n \in Nat \ {0}, n = Len(o), ~Broken(o, n), InOrder(o),
           NEW m \in 1..n, m < n
    PROVE  /\ PhaseAt(o, m) = "terminal"
                => PhaseAt(o, m + 1) = "terminal" /\ o[m + 1].status = o[m].status
           /\ PhaseAt(o, m) = "running" => PhaseAt(o, m + 1) \in {"running", "terminal"}
           /\ PhaseAt(o, m) # "unknown" => PhaseAt(o, m + 1) # "unknown"
           /\ PhaseAt(o, m) # PhaseAt(o, m + 1)
                => \A s \in 1..m : BlockStart(o, m, s) => o[s].at < o[m + 1].at
<1>1. PICK s \in 1..m : BlockStart(o, m, s)
  BY BlockStartExists
<1>2. m + 1 \in 2..n /\ (m + 1) - 1 = m /\ m + 1 \in 1..n /\ s \in 1..n /\ s <= m + 1
  OBVIOUS
<1>3. ~Breaks(o, m + 1, s)
  BY <1>1, <1>2 DEF Broken
<1>4. PhaseAt(o, m + 1) \in Phases
  BY PhaseType DEF PhaseAt
<1>5. o[s].at <= o[m + 1].at /\ o[s].at \in Nat /\ o[m + 1].at \in Nat
  BY <1>2, ObservationAt DEF InOrder
<1>6. \A t \in 1..m : BlockStart(o, m, t) => t = s
  BY <1>1, BlockStartUnique
<1>. QED  BY <1>2, <1>3, <1>4, <1>5, <1>6 DEF Breaks, Phases, Timed

LEMMA SoundNeverUnknown ==
    ASSUME NEW T, NEW o \in Observations(T), NEW n \in Nat \ {0}, n = Len(o), ~Broken(o, n), InOrder(o)
    PROVE  \A k \in 1..n : PhaseAt(o, k) # "unknown"
<1>. DEFINE S == {k \in 1..n : PhaseAt(o, k) # "unknown"}
<1>1. 1 \in S
  BY DEF Broken
<1>2. ASSUME NEW k \in 1..n, k \in S /\ k < n PROVE k + 1 \in S
  BY <1>2, SoundSteps
<1>. HIDE DEF S
<1>3. \A k \in 1..n : k \in S
  BY <1>1, <1>2, ReachesAll
<1>. QED  BY <1>3 DEF S

LEMMA SoundEndStays ==
    ASSUME NEW T, NEW o \in Observations(T), NEW n \in Nat \ {0}, n = Len(o), ~Broken(o, n), InOrder(o),
           NEW f \in 1..n, PhaseAt(o, f) = "terminal"
    PROVE  \A k \in f..n : PhaseAt(o, k) = "terminal" /\ o[k].status = o[f].status
<1>. DEFINE S == {k \in f..n : PhaseAt(o, k) = "terminal" /\ o[k].status = o[f].status}
<1>1. f \in S /\ f \in Nat
  OBVIOUS
<1>2. ASSUME NEW k \in f..n, k \in S /\ k < n PROVE k + 1 \in S
  BY <1>2, SoundSteps
<1>. HIDE DEF S
<1>3. \A k \in f..n : k \in S
  BY <1>1, <1>2, ReachesAll
<1>. QED  BY <1>3 DEF S

LEMMA SoundRunsToItsEnd ==
    ASSUME NEW T, NEW o \in Observations(T), NEW n \in Nat \ {0}, n = Len(o), ~Broken(o, n), InOrder(o),
           NEW i \in 1..n, PhaseAt(o, i) = "running"
    PROVE  \A k \in i..n : PhaseAt(o, k) \in {"running", "terminal"}
<1>. DEFINE S == {k \in i..n : PhaseAt(o, k) \in {"running", "terminal"}}
<1>1. i \in S /\ i \in Nat
  OBVIOUS
<1>2. ASSUME NEW k \in i..n, k \in S /\ k < n PROVE k + 1 \in S
  BY <1>2, SoundSteps
<1>. HIDE DEF S
<1>3. \A k \in i..n : k \in S
  BY <1>1, <1>2, ReachesAll
<1>. QED  BY <1>3 DEF S

(* The start that the reference chooses is the one the fold keeps.           *)
Start(o, i) ==
    CHOOSE s \in 1..(i - 1) :
        /\ \A k \in s..(i - 1) : PhaseAt(o, k) = PhaseAt(o, i - 1)
        /\ s > 1 => PhaseAt(o, s - 1) # PhaseAt(o, i - 1)

LEMMA StartIsBlockStart ==
    ASSUME NEW T, NEW o \in Observations(T), NEW n \in Nat \ {0}, n = Len(o), NEW i \in 2..n
    PROVE  Start(o, i) \in 1..(i - 1) /\ BlockStart(o, i - 1, Start(o, i))
<1>1. i - 1 \in 1..n
  OBVIOUS
<1>2. PICK s \in 1..(i - 1) : BlockStart(o, i - 1, s)
  BY <1>1, BlockStartExists
<1>3. \E t \in 1..(i - 1) : /\ \A k \in t..(i - 1) : PhaseAt(o, k) = PhaseAt(o, i - 1)
                            /\ t > 1 => PhaseAt(o, t - 1) # PhaseAt(o, i - 1)
  BY <1>2 DEF BlockStart
<1>. QED  BY <1>3 DEF Start, BlockStart

LEMMA WholeIs ==
    ASSUME NEW o, NEW f
    PROVE  Whole(o, f) <=>
             /\ EndsAt(o, f)
             /\ PhaseAt(o, 1) \in {"initialization", "waiting"}
             /\ \E i \in 1..f : PhaseAt(o, i) = "running"
             /\ \A i, j \in 1..f : i < j /\ PhaseAt(o, i) = "running"
                                     => PhaseAt(o, j) \in {"running", "terminal"}
             /\ \A i \in 2..f : PhaseAt(o, i) # PhaseAt(o, i - 1) => o[Start(o, i)].at < o[i].at
BY DEF Whole, Start

-----------------------------------------------------------------------------
(* A run that is complete was seen whole, up to its first final state.       *)
LEMMA CompleteIsWhole ==
    ASSUME NEW T, NEW o \in Observations(T), NEW n \in Nat \ {0}, n = Len(o), InOrder(o),
           PhaseAt(o, 1) \in {"initialization", "waiting"},
           \E m \in 1..n : PhaseAt(o, m) = "running",
           PhaseAt(o, n) = "terminal", ~Broken(o, n)
    PROVE  \E f \in 1..n : Whole(o, f)
<1>. DEFINE ends == {f \in 1..n : PhaseAt(o, f) = "terminal"}
<1>1. ends \in SUBSET Nat /\ n \in ends
  OBVIOUS
<1>2. PICK f \in ends : \A j \in ends : f <= j
  BY <1>1, LeastExists, Zenon
<1>3. f \in 1..n /\ PhaseAt(o, f) = "terminal"
  BY <1>2
<1>4. \A i \in f..n : PhaseAt(o, i) = "terminal" /\ o[i].status = o[f].status
  BY <1>3, SoundEndStays
<1>5. ASSUME NEW i \in 1..n, i < f PROVE PhaseAt(o, i) \in Timed
  <2>1. PhaseAt(o, i) # "terminal"
    BY <1>2, <1>5
  <2>2. PhaseAt(o, i) # "unknown" /\ PhaseAt(o, i) \in Phases
    BY SoundNeverUnknown, PhaseType DEF PhaseAt
  <2>. QED  BY <2>1, <2>2 DEF Phases
<1>6. EndsAt(o, f)
  BY <1>3, <1>4, <1>5 DEF EndsAt
<1>7. \E i \in 1..f : PhaseAt(o, i) = "running"
  <2>1. PICK m \in 1..n : PhaseAt(o, m) = "running"
    OBVIOUS
  <2>2. m \notin f..n
    BY <1>4, <2>1
  <2>. QED  BY <1>3, <2>1, <2>2
<1>8. ASSUME NEW i \in 1..f, NEW j \in 1..f, i < j, PhaseAt(o, i) = "running"
      PROVE  PhaseAt(o, j) \in {"running", "terminal"}
  <2>1. i \in 1..n /\ j \in i..n
    BY <1>3, <1>8
  <2>. QED  BY <1>8, <2>1, SoundRunsToItsEnd
<1>9. ASSUME NEW i \in 2..f, PhaseAt(o, i) # PhaseAt(o, i - 1)
      PROVE  o[Start(o, i)].at < o[i].at
  <2>1. i \in 2..n /\ i - 1 \in 1..n /\ i - 1 < n /\ (i - 1) + 1 = i
    BY <1>3
  <2>2. Start(o, i) \in 1..(i - 1) /\ BlockStart(o, i - 1, Start(o, i))
    BY <2>1, StartIsBlockStart
  <2>3. \A s \in 1..(i - 1) : BlockStart(o, i - 1, s) => o[s].at < o[(i - 1) + 1].at
    BY <1>9, <2>1, SoundSteps
  <2>. QED  BY <2>1, <2>2, <2>3
<1>10. Whole(o, f)
  BY <1>6, <1>7, <1>8, <1>9, WholeIs
<1>. QED  BY <1>3, <1>10

(* A run that was seen whole is complete.                                    *)
LEMMA WholeIsComplete ==
    ASSUME NEW T, NEW o \in Observations(T), NEW n \in Nat \ {0}, n = Len(o), InOrder(o),
           NEW f \in 1..n, Whole(o, f)
    PROVE  /\ PhaseAt(o, 1) \in {"initialization", "waiting"}
           /\ \E m \in 1..n : PhaseAt(o, m) = "running"
           /\ PhaseAt(o, n) = "terminal" /\ ~Broken(o, n)
           /\ \A i \in f..n : PhaseAt(o, i) = "terminal"
           /\ \A i \in 1..(f - 1) : PhaseAt(o, i) \in Timed
<1>1. /\ EndsAt(o, f)
      /\ PhaseAt(o, 1) \in {"initialization", "waiting"}
      /\ \E i \in 1..f : PhaseAt(o, i) = "running"
      /\ \A i, j \in 1..f : i < j /\ PhaseAt(o, i) = "running"
                              => PhaseAt(o, j) \in {"running", "terminal"}
      /\ \A i \in 2..f : PhaseAt(o, i) # PhaseAt(o, i - 1) => o[Start(o, i)].at < o[i].at
  BY WholeIs
<1>2. \A i \in f..n : PhaseAt(o, i) = "terminal" /\ o[i].status = o[f].status
  BY <1>1 DEF EndsAt, PhaseAt
<1>3. \A i \in 1..(f - 1) : PhaseAt(o, i) \in Timed
  BY <1>1 DEF EndsAt
<1>4. ASSUME NEW m \in 2..n, NEW s \in 1..(m - 1), BlockStart(o, m - 1, s), Breaks(o, m, s)
      PROVE  FALSE
  <2>1. CASE m > f
    <3>1. m \in f..n /\ m - 1 \in f..n
      BY <2>1
    <3>. QED  BY <1>2, <1>4, <3>1 DEF Breaks
  <2>2. CASE m <= f
    <3>1. m - 1 \in 1..(f - 1) /\ m \in 2..f /\ m \in 1..f /\ m - 1 \in 1..f /\ m - 1 < m
      BY <2>2
    <3>2. PhaseAt(o, m - 1) \in Timed
      BY <1>3, <3>1
    <3>3. PhaseAt(o, m) \in Timed \cup {"terminal"}
      <4>1. m = f \/ m \in 1..(f - 1)
        BY <2>2
      <4>2. f \in f..n
        OBVIOUS
      <4>. QED  BY <1>2, <1>3, <4>1, <4>2
    <3>4. Start(o, m) \in 1..(m - 1) /\ BlockStart(o, m - 1, Start(o, m))
      BY StartIsBlockStart
    <3>5. Start(o, m) = s
      BY <1>4, <3>4, BlockStartUnique
    <3>6. PhaseAt(o, m) # PhaseAt(o, m - 1) => o[s].at < o[m].at
      BY <1>1, <3>1, <3>5
    <3>7. o[s].at \in Nat /\ o[m].at \in Nat
      BY ObservationAt
    <3>8. PhaseAt(o, m - 1) = "running" => PhaseAt(o, m) \in {"running", "terminal"}
      BY <1>1, <3>1
    <3>. QED  BY <1>4, <3>2, <3>3, <3>6, <3>7, <3>8 DEF Breaks, Timed
  <2>. QED  BY <2>1, <2>2
<1>5. ~Broken(o, n)
  BY <1>1, <1>4 DEF Broken
<1>6. n \in f..n /\ \A m \in 1..f : m \in 1..n
  OBVIOUS
<1>. QED  BY <1>1, <1>2, <1>3, <1>5, <1>6

(* Its total is the time between its first state and its end.                *)
LEMMA WholeTotal ==
    ASSUME NEW T, NEW o \in Observations(T), NEW n \in Nat \ {0}, n = Len(o), InOrder(o),
           NEW f \in 1..n, Whole(o, f), NEW g, Fold(o, g, n)
    PROVE  TotalMS(g[n]) = o[f].at - o[1].at
<1>. DEFINE S == {k \in f..n : TotalMS(g[k]) = o[f].at - o[1].at}
<1>1. /\ PhaseAt(o, 1) \in {"initialization", "waiting"}
      /\ \A i \in f..n : PhaseAt(o, i) = "terminal"
      /\ \A i \in 1..(f - 1) : PhaseAt(o, i) \in Timed
  BY WholeIsComplete
<1>2. f # 1 /\ f \in f..n /\ f - 1 \in 1..n /\ f - 1 \in 1..(f - 1)
  BY <1>1
<1>3. ASSUME NEW k \in 1..n, k < n
      PROVE  TotalMS(g[k + 1]) =
               IF PhaseAt(o, k + 1) # PhaseAt(o, k) /\ PhaseAt(o, k) \in Timed
               THEN TotalMS(g[k]) + (o[k + 1].at - g[k].boundary) ELSE TotalMS(g[k])
  <2>1. Tracks(o, g, T, k)
    BY TracksAll
  <2>2. g[k] \in Runs(T) /\ g[k].phase = PhaseAt(o, k)
    BY <2>1 DEF Tracks
  <2>3. k + 1 \in 1..n /\ k + 1 # 1 /\ (k + 1) - 1 = k
    BY <1>3
  <2>4. g[k + 1] = Observe(g[k], o[k + 1]) /\ o[k + 1] \in [at : Nat, status : T]
    BY <2>3, ObservationAt DEF Fold
  <2>. QED  BY <2>2, <2>4, ObserveFacts DEF PhaseAt
<1>4. f \in S
  <2>1. Tracks(o, g, T, f - 1)
    BY <1>2, TracksAll
  <2>2. TotalMS(g[f - 1]) = g[f - 1].boundary - o[1].at /\ g[f - 1].boundary \in Nat
    BY <1>1, <2>1 DEF Tracks, Runs
  <2>3. f - 1 < n /\ (f - 1) + 1 = f
    OBVIOUS
  <2>4. PhaseAt(o, f) # PhaseAt(o, f - 1) /\ PhaseAt(o, f - 1) \in Timed
    BY <1>1, <1>2 DEF Timed
  <2>5. TotalMS(g[f]) = TotalMS(g[f - 1]) + (o[f].at - g[f - 1].boundary)
    BY <1>2, <1>3, <2>3, <2>4
  <2>6. o[1].at \in Nat /\ o[f].at \in Nat
    BY ObservationAt
  <2>. QED  BY <1>2, <2>2, <2>5, <2>6
<1>5. ASSUME NEW k \in f..n, k \in S /\ k < n PROVE k + 1 \in S
  <2>1. k \in 1..n /\ k + 1 \in f..n /\ k < n
    BY <1>5
  <2>2. PhaseAt(o, k + 1) = PhaseAt(o, k)
    BY <1>1, <1>5, <2>1
  <2>3. TotalMS(g[k + 1]) = TotalMS(g[k])
    BY <1>3, <2>1, <2>2
  <2>. QED  BY <1>5, <2>1, <2>3
<1>. HIDE DEF S
<1>6. f \in Nat /\ n \in Nat
  OBVIOUS
<1>7. \A k \in f..n : k \in S
  BY <1>4, <1>5, <1>6, ReachesAll
<1>8. n \in S
  BY <1>6, <1>7
<1>. QED  BY <1>8 DEF S

(* The statistics of a nonempty sequence of observations in order.           *)
LEMMA PipelineRunFacts ==
    ASSUME NEW T, NEW o \in Observations(T), NEW n \in Nat \ {0}, n = Len(o), InOrder(o),
           NEW end \in Nat, o[n].at <= end
    PROVE  LET stat == PipelineRun(o, end) IN
           /\ stat.complete <=> \E f \in 1..n : Whole(o, f)
           /\ \A f \in 1..n : Whole(o, f) => TotalMS(stat.run) = o[f].at - o[1].at
           /\ (\A k \in 1..n : PhaseAt(o, k) \in Timed) => TotalMS(stat.run) = end - o[1].at
<1>1. PICK g : Fold(o, g, n) /\ FoldRun(o) = g[n]
  BY FoldRunIsFold
<1>. DEFINE run == g[n]
            stat == PipelineRun(o, end)
            counted == [run EXCEPT !.ms[run.phase] = @ + end - run.boundary]
<1>2. /\ stat.run = IF Running(run) /\ end > run.boundary THEN counted ELSE run
      /\ stat.complete = Complete(run)
  BY <1>1, Zenon DEF PipelineRun
<1>3. Tracks(o, g, T, n)
  BY <1>1, TracksAll
<1>4. /\ run \in Runs(T)
      /\ run.phase = PhaseAt(o, n)
      /\ run.knownStart <=> PhaseAt(o, 1) \in {"initialization", "waiting"}
      /\ run.ran <=> \E m \in 1..n : PhaseAt(o, m) = "running"
      /\ run.invalid <=> Broken(o, n)
      /\ (\A m \in 1..n : PhaseAt(o, m) \in Timed) => TotalMS(run) = run.boundary - o[1].at
  BY <1>3, Zenon DEF Tracks
<1>5. PICK s \in 1..n : run.boundary = o[s].at
  BY <1>3 DEF Tracks
<1>6. /\ run.boundary <= end /\ run.boundary \in Nat /\ o[1].at \in Nat
      /\ run.ms \in [Timed -> Int]
  <2>1. o[s].at <= o[n].at /\ o[s].at \in Nat /\ o[n].at \in Nat /\ o[1].at \in Nat
    BY ObservationAt DEF InOrder
  <2>. QED  BY <1>4, <1>5, <2>1 DEF Runs
<1>. HIDE DEF run
<1>7. Complete(run) <=> \E f \in 1..n : Whole(o, f)
  <2>1. ASSUME Complete(run) PROVE \E f \in 1..n : Whole(o, f)
    <3>1. /\ PhaseAt(o, 1) \in {"initialization", "waiting"}
          /\ \E m \in 1..n : PhaseAt(o, m) = "running"
          /\ PhaseAt(o, n) = "terminal" /\ ~Broken(o, n)
      BY <1>4, <2>1, Zenon DEF Complete
    <3>. QED  BY <3>1, CompleteIsWhole
  <2>2. ASSUME NEW f \in 1..n, Whole(o, f) PROVE Complete(run)
    <3>1. /\ PhaseAt(o, 1) \in {"initialization", "waiting"}
          /\ \E m \in 1..n : PhaseAt(o, m) = "running"
          /\ PhaseAt(o, n) = "terminal" /\ ~Broken(o, n)
      BY <2>2, WholeIsComplete
    <3>. QED  BY <1>4, <3>1, Zenon DEF Complete
  <2>. QED  BY <2>1, <2>2, Zenon
<1>8. ASSUME NEW f \in 1..n, Whole(o, f) PROVE TotalMS(stat.run) = o[f].at - o[1].at
  <2>1. PhaseAt(o, n) = "terminal"
    BY <1>8, WholeIsComplete
  <2>2. ~Running(run)
    BY <1>4, <2>1 DEF Running
  <2>3. stat.run = run
    BY <1>2, <2>2
  <2>. QED  BY <1>1, <1>8, <2>3, WholeTotal DEF run
<1>9. ASSUME \A k \in 1..n : PhaseAt(o, k) \in Timed PROVE TotalMS(stat.run) = end - o[1].at
  <2>1. TotalMS(run) = run.boundary - o[1].at
    BY <1>4, <1>9
  <2>2. run.phase \in Timed /\ Running(run)
    BY <1>4, <1>9 DEF Running, Timed
  <2>3. CASE end > run.boundary
    <3>1. stat.run = counted
      BY <1>2, <2>2, <2>3
    <3>2. counted.ms = [run.ms EXCEPT ![run.phase] = @ + (end - run.boundary)]
      BY <1>4, <1>6, <2>2 DEF Runs
    <3>. HIDE DEF counted
    <3>3. TotalMS(counted) = TotalMS(run) + (end - run.boundary)
      <4>. DEFINE d == end - run.boundary
                  p == run.phase
                  ms == run.ms
      <4>1. d \in Int /\ p \in Timed /\ ms \in [Timed -> Int] /\ run.ms = ms
            /\ counted.ms = [ms EXCEPT ![p] = @ + d]
        BY <1>6, <2>2, <3>2
      <4>. HIDE DEF d, p, ms
      <4>2. TotalMS(counted) = TotalMS(run) + d
        <5>1. \A q \in Timed : ms[q] \in Int /\ counted.ms[q] = IF q = p THEN ms[q] + d ELSE ms[q]
          BY <4>1
        <5>2. Timed = {"initialization", "waiting", "running"}
          BY DEF Timed
        <5>. QED  BY <4>1, <5>1, <5>2 DEF TotalMS
      <4>. QED  BY <4>2 DEF d
    <3>. QED  BY <1>6, <2>1, <3>1, <3>3
  <2>4. CASE ~(end > run.boundary)
    BY <1>2, <1>6, <2>1, <2>4
  <2>. QED  BY <2>3, <2>4
<1>. HIDE DEF stat
<1>10. stat.complete <=> \E f \in 1..n : Whole(o, f)
  BY <1>2, <1>7, Zenon
<1>. QED  BY <1>8, <1>9, <1>10, Zenon DEF stat

-----------------------------------------------------------------------------
(* No observation is lost before it is too old to be counted.                *)
Observed(i) == log[i].at <= now /\ (IsPipeline(i) /\ ~log[i].observed => i \in Expired)
ObservedInv == \A i \in Rows : Observed(i)

(* Every row but a new one is as it was, unless it is too old.               *)
ObservedKept == \A i \in Rows : log'[i].observed = log[i].observed \/ i \in Expired

LEMMA ObservedStep ==
    ASSUME HistoryInv, ObservedInv, RowsKept, ObservedKept, now' \in Nat, now' >= now
    PROVE  ObservedInv'
<1>1. Rows' = Rows
  BY RowsInterval DEF HistoryInv, RowsKept, Rows
<1>2. SUFFICES ASSUME NEW i \in Rows PROVE Observed(i)'
  BY <1>1 DEF ObservedInv
<1>3. log[i].at \in Nat /\ now \in Nat /\ Window \in Nat /\ i \in 1..Len(log)
  BY RowsInterval, ConstantsTyped, HistoryAssumption DEF HistoryInv, LogOK, LogRow
<1>4. log'[i].hook = log[i].hook /\ log'[i].at = log[i].at
  BY <1>3 DEF RowsKept
<1>5. IsPipeline(i)' <=> IsPipeline(i)
  BY <1>4 DEF IsPipeline, Hook
<1>6. Observed(i) /\ (log'[i].observed = log[i].observed \/ i \in Expired)
  BY DEF ObservedInv, ObservedKept
<1>7. i \in Expired => i \in Expired'
  BY <1>1, <1>3, <1>4 DEF Expired
<1>8. log'[i].at <= now'
  BY <1>3, <1>4, <1>6 DEF Observed
<1>9. IsPipeline(i)' /\ ~log'[i].observed => i \in Expired'
  BY <1>5, <1>6, <1>7, Zenon DEF Observed
<1>. QED  BY <1>8, <1>9 DEF Observed

LEMMA ObservedIngest ==
    ASSUME HistoryInv, ObservedInv, Ingest
    PROVE  ObservedInv'
<1>1. PICK h \in Webhooks, at \in 0..now, deferred \in BOOLEAN, k \in 1..(Len(log) + 1) :
         log' = InsertRow(k, EventRow(h, at, deferred))
  BY DEF Ingest
<1>. DEFINE row == EventRow(h, at, deferred)
<1>2. LogOK /\ Len(log) \in Nat /\ now \in Nat /\ Rows = 1..Len(log) /\ now' = now
  BY RowsInterval, ConstantsTyped DEF HistoryInv, LogOK, Ingest
<1>3. NewDeliveries(IF deferred THEN {} ELSE h.targets) \in DeliveryStates
  BY NoDeliveries, HookDeliveries
<1>4. /\ row \in LogRow /\ row.at = at /\ row.hook = h
      /\ row.observed <=> h.event = "pipeline" /\ h.external # NULL
  <2>. DEFINE o == h.event = "pipeline" /\ h.external # NULL
              ds == NewDeliveries(IF deferred THEN {} ELSE h.targets)
  <2>1. row = [nr |-> Len(log) + 1, hook |-> h, at |-> at, stored |-> TRUE, observed |-> o,
               deferred |-> deferred, deliveries |-> ds]
    BY DEF EventRow
  <2>2. o \in BOOLEAN /\ ds \in DeliveryStates /\ at \in Nat
    BY <1>2, <1>3
  <2>. HIDE DEF o, ds, row
  <2>3. row \in LogRow /\ row.at = at /\ row.hook = h /\ row.observed = o
    BY <1>2, <2>1, <2>2 DEF LogRow
  <2>. QED  BY <2>3, Zenon DEF o
<1>. HIDE DEF row
<1>5. log' = InsertRow(k, row)
  BY <1>1 DEF row
<1>6. log' \in Seq(LogRow) /\ Len(log') = Len(log) + 1
  BY <1>2, <1>4, <1>5, InsertFacts
<1>7. \A i \in 1..(Len(log) + 1) :
         log'[i] = IF i < k THEN log[i] ELSE IF i = k THEN row ELSE log[i - 1]
  BY <1>2, <1>4, <1>5, InsertFacts
<1>8. Rows' = 1..(Len(log) + 1)
  BY <1>2, <1>6 DEF Rows
<1>9. SUFFICES ASSUME NEW i \in Rows' PROVE Observed(i)'
  BY DEF ObservedInv
<1>10. ASSUME NEW j \in Rows, log'[i] = log[j] PROVE Observed(i)'
  <2>1. Observed(j)
    BY DEF ObservedInv
  <2>2. IsPipeline(i)' <=> IsPipeline(j)
    BY <1>10 DEF IsPipeline, Hook
  <2>3. i \in Expired' <=> j \in Expired
    BY <1>2, <1>10 DEF Expired
  <2>. QED  BY <1>2, <1>10, <2>1, <2>2, <2>3 DEF Observed
<1>11. CASE i = k
  <2>1. log'[i] = row
    BY <1>7, <1>8, <1>11
  <2>2. log'[i].at <= now'
    BY <1>2, <1>4, <2>1
  <2>3. IsPipeline(i)' => log'[i].observed
    BY <1>4, <2>1 DEF IsPipeline, Hook
  <2>. QED  BY <2>2, <2>3 DEF Observed
<1>12. CASE i < k
  <2>1. i \in Rows /\ log'[i] = log[i]
    BY <1>2, <1>7, <1>8, <1>12
  <2>. QED  BY <1>10, <2>1
<1>13. CASE i > k
  <2>1. i - 1 \in Rows /\ log'[i] = log[i - 1]
    BY <1>2, <1>7, <1>8, <1>13
  <2>. QED  BY <1>10, <2>1
<1>. QED  BY <1>8, <1>11, <1>12, <1>13

LEMMA ObservedFinalize == HistoryInv /\ FinalizeDeferred => ObservedKept
<1>. SUFFICES ASSUME HistoryInv, FinalizeDeferred, NEW j \in Rows PROVE log'[j].observed = log[j].observed
  BY DEF ObservedKept
<1>1. PICK i \in Queue :
         log' = [log EXCEPT ![i].deferred = FALSE, ![i].deliveries = NewDeliveries(Hook(i).targets)]
  BY DEF FinalizeDeferred
<1>2. log \in [Rows -> LogRow] /\ i \in Rows
  BY RowsInterval DEF HistoryInv, LogOK, Rows, Queue, Stored
<1>. QED  BY <1>1, <1>2 DEF LogRow

LEMMA ObservedDelivery == HistoryInv /\ DeliveryStep => ObservedKept
<1>. SUFFICES ASSUME HistoryInv, DeliveryStep, NEW j \in Rows PROVE log'[j].observed = log[j].observed
  BY DEF ObservedKept
<1>1. PICK i \in Stored : \E t, next : log' = [log EXCEPT ![i].deliveries[t] = next]
  BY DEF DeliveryStep
<1>2. PICK t, next : log' = [log EXCEPT ![i].deliveries[t] = next]
  BY <1>1
<1>3. log \in [Rows -> LogRow] /\ i \in Rows
  BY RowsInterval DEF HistoryInv, LogOK, Rows, Stored
<1>. DEFINE ds == [log[i].deliveries EXCEPT ![t] = next]
<1>4. log' = [log EXCEPT ![i].deliveries = ds]
  BY <1>2, <1>3
<1>. HIDE DEF ds
<1>. QED  BY <1>3, <1>4 DEF LogRow

LEMMA DeleteObserved ==
    ASSUME LogOK, NEW S, NEW i \in Rows
    PROVE  Delete(S)[i].observed = log[i].observed
<1>1. log[i] \in LogRow
  BY RowsInterval
<1>2. Delete(S)[i] = IF i \in S THEN [log[i] EXCEPT !.stored = FALSE, !.deliveries = NewDeliveries({})]
                     ELSE log[i]
  BY DEF Delete
<1>. HIDE DEF Delete
<1>. QED  BY <1>1, <1>2 DEF LogRow

LEMMA ObservedClear == HistoryInv /\ ClearHistory => ObservedKept
BY DeleteObserved DEF HistoryInv, ClearHistory, ObservedKept

LEMMA ObservedPrune == HistoryInv /\ Prune => ObservedKept
<1>. SUFFICES ASSUME HistoryInv, Prune, NEW i \in Rows, i \notin Expired
     PROVE  log'[i].observed = log[i].observed
  BY DEF ObservedKept
<1>. DEFINE d == Delete(Pruned)[i]
<1>1. d \in LogRow /\ d.observed = log[i].observed
  BY DeleteKeeps, DeleteObserved DEF HistoryInv
<1>2. log'[i] = Left(i)
  BY PruneRows
<1>3. Left(i) = [d EXCEPT !.observed = @ /\ i \notin Expired]
  BY DEF Left
<1>. HIDE DEF d
<1>. QED  BY <1>1, <1>2, <1>3 DEF LogRow

LEMMA ObservedNext == HistoryInv /\ ObservedInv /\ [Next]_vars => ObservedInv'
<1>. SUFFICES ASSUME HistoryInv, ObservedInv, [Next]_vars PROVE ObservedInv'
  OBVIOUS
<1>0. LogOK /\ now \in Nat /\ now >= now
  BY ConstantsTyped DEF HistoryInv, LogOK
<1>1. CASE Ingest
  BY <1>1, ObservedIngest
<1>2. CASE FinalizeDeferred
  BY <1>0, <1>2, FinalizeKeeps, ObservedFinalize, ObservedStep DEF FinalizeDeferred
<1>3. CASE DeliveryStep
  BY <1>0, <1>3, DeliveryKeeps, ObservedDelivery, ObservedStep DEF DeliveryStep
<1>4. CASE log' = log /\ now' \in {now, now + 1}
  <2>1. RowsKept /\ ObservedKept
    BY <1>0, <1>4 DEF RowsKept, ObservedKept, LogOK
  <2>2. now' \in Nat /\ now' >= now
    BY <1>0, <1>4
  <2>. QED  BY <2>1, <2>2, ObservedStep
<1>5. CASE Prune
  BY <1>0, <1>5, PruneKeeps, ObservedPrune, ObservedStep DEF Prune
<1>6. CASE ClearHistory
  BY <1>0, <1>6, ClearKeeps, ObservedClear, ObservedStep DEF ClearHistory
<1>7. CASE Tick \/ Detail \/ UNCHANGED vars
  BY <1>4, <1>7 DEF Tick, Detail, DetailResolve, DetailRow, DetailNotFound, DetailStart, DetailFails,
                    DetailPush, DetailStates, DetailQuery, vars
<1>. QED  BY <1>1, <1>2, <1>3, <1>5, <1>6, <1>7 DEF Next

(* Retention deletes no observation of a pipeline that the statistics still  *)
(* count, and no row comes from the future.                                  *)
THEOREM ObservationsOutliveEvents == Spec => []ObservedInv
<1>1. Init => ObservedInv
  BY DEF Init, ObservedInv, Rows
<1>. QED  BY <1>1, ObservedNext, HistoryInductive, PTL DEF Spec

-----------------------------------------------------------------------------
(* The rows of a set in ascending order.                                     *)

(* Every rank is that of a row.                                              *)
LEMMA AscendingHasAll ==
    ASSUME NEW n \in Nat, NEW S \in SUBSET (1..n), NEW k \in 1..Cardinality(S)
    PROVE  \E i \in S : Cardinality({j \in S : j < i}) = k - 1
<1>. DEFINE c == Cardinality(S)
            Before(i) == {j \in S : j < i}
            K == {m \in 1..c : \E i \in S : Cardinality(Before(i)) = m - 1}
<1>1. IsFiniteSet(S) /\ c \in Nat /\ \A i \in S : i \in Nat
  BY RowsAreFinite
<1>2. S # {} /\ 1 \in 1..c
  BY <1>1, FS_EmptySet
<1>3. 1 \in K
  <2>1. PICK i \in S : \A j \in S : i <= j
    BY <1>1, <1>2, LeastExists
  <2>2. Before(i) = {}
    <3>1. \A j \in S : ~(j < i)
      BY <1>1, <2>1
    <3>. QED  BY <3>1
  <2>3. Cardinality(Before(i)) = 1 - 1
    BY <2>2, FS_EmptySet
  <2>. QED  BY <1>2, <2>3
<1>4. ASSUME NEW m \in 1..c, m \in K /\ m < c PROVE m + 1 \in K
  <2>1. PICK i \in S : Cardinality(Before(i)) = m - 1
    BY <1>4
  <2>. DEFINE After == {j \in S : j > i}
  <2>2. IsFiniteSet(Before(i)) /\ i \notin Before(i)
    BY <1>1, RowsAreFinite
  <2>3. IsFiniteSet(Before(i) \cup {i}) /\ Cardinality(Before(i) \cup {i}) = m
    <3>1. Cardinality(Before(i) \cup {i}) = Cardinality(Before(i)) + 1
      BY <2>2, FS_AddElement
    <3>2. m \in Nat
      BY <1>1
    <3>. QED  BY <2>1, <2>2, <3>1, <3>2, FS_AddElement
  <2>4. After # {}
    <3>1. SUFFICES ASSUME After = {} PROVE FALSE
      OBVIOUS
    <3>2. \A j \in S : j \in Before(i) \cup {i}
      BY <1>1, <3>1
    <3>3. S = Before(i) \cup {i}
      BY <3>2
    <3>. QED  BY <1>1, <1>4, <2>3, <3>3
  <2>5. PICK l \in After : \A j \in After : l <= j
    BY <1>1, <2>4, LeastExists
  <2>6. Before(l) = Before(i) \cup {i}
    <3>1. i \in Nat /\ l \in Nat /\ l > i
      BY <1>1, <2>5
    <3>2. ASSUME NEW j \in S PROVE j < l <=> j < i \/ j = i
      <4>1. j \in Nat /\ (j > i => l <= j)
        BY <1>1, <2>5
      <4>. QED  BY <3>1, <4>1
    <3>. QED  BY <3>2
  <2>7. Cardinality(Before(l)) = (m + 1) - 1 /\ m + 1 \in 1..c /\ l \in S
    BY <1>1, <1>4, <2>3, <2>5, <2>6
  <2>. HIDE DEF Before
  <2>. QED  BY <2>7
<1>. HIDE DEF K
<1>5. \A m \in 1..c : m \in K
  BY <1>1, <1>3, <1>4, ReachesAll
<1>. QED  BY <1>5 DEF K

LEMMA AscendingIsSorted ==
    ASSUME NEW n \in Nat, NEW S \in SUBSET (1..n)
    PROVE  /\ Cardinality(S) \in Nat /\ DOMAIN Ascending(S) = 1..Cardinality(S)
           /\ \A k \in 1..Cardinality(S) : Ascending(S)[k] \in S
           /\ \A k, l \in 1..Cardinality(S) : k < l => Ascending(S)[k] < Ascending(S)[l]
<1>. DEFINE c == Cardinality(S)
            Before(i) == {j \in S : j < i}
            Nth(k) == CHOOSE i \in S : Cardinality(Before(i)) = k - 1
<1>1. IsFiniteSet(S) /\ c \in Nat /\ \A i \in S : i \in Nat
  BY RowsAreFinite
<1>2. ASSUME NEW k \in 1..c PROVE Nth(k) \in S /\ Cardinality(Before(Nth(k))) = k - 1
  BY AscendingHasAll
<1>3. Ascending(S) = [k \in 1..c |-> Nth(k)]
  BY DEF Ascending
<1>. HIDE DEF Nth
<1>4. \A k \in 1..c : Ascending(S)[k] = Nth(k)
  BY <1>3
<1>5. ASSUME NEW k \in 1..c, NEW l \in 1..c, k < l PROVE Nth(k) < Nth(l)
  <2>0. Nth(k) \in Nat /\ Nth(l) \in Nat
    BY <1>1, <1>2
  <2>1. SUFFICES ASSUME Nth(l) <= Nth(k) PROVE FALSE
    BY <2>0
  <2>2. Before(Nth(l)) \subseteq Before(Nth(k))
    <3>1. Nth(k) \in Nat /\ Nth(l) \in Nat
      BY <1>1, <1>2
    <3>2. ASSUME NEW j \in S, j < Nth(l) PROVE j < Nth(k)
      BY <1>1, <2>1, <3>1, <3>2
    <3>. QED  BY <3>2
  <2>3. IsFiniteSet(Before(Nth(k)))
    BY RowsAreFinite
  <2>4. Cardinality(Before(Nth(l))) <= Cardinality(Before(Nth(k)))
    BY <2>2, <2>3, FS_Subset
  <2>5. Cardinality(Before(Nth(k))) = k - 1 /\ Cardinality(Before(Nth(l))) = l - 1
    BY <1>2
  <2>. HIDE DEF Before
  <2>. QED  BY <1>1, <1>5, <2>4, <2>5
<1>. QED  BY <1>1, <1>2, <1>3, <1>4, <1>5

(* The observations of a set of rows, as the query of the statistics returns *)
(* them.                                                                     *)
Reported(S) ==
    LET rows == Ascending(S) IN
    [k \in DOMAIN rows |-> [at |-> log[rows[k]].at, status |-> Hook(rows[k]).status]]
Statuses == {h.status : h \in Webhooks}

LEMMA ReportedIsInOrder ==
    ASSUME HistoryInv, NEW S \in SUBSET Rows, S # {}
    PROVE  /\ Reported(S) \in Observations(Statuses)
           /\ Len(Reported(S)) = Cardinality(S) /\ Cardinality(S) \in Nat \ {0}
           /\ DOMAIN Reported(S) = 1..Cardinality(S)
           /\ InOrder(Reported(S))
           /\ \A k \in 1..Cardinality(S) : \E i \in S : Reported(S)[k].at = log[i].at
<1>. DEFINE c == Cardinality(S)
            rows == Ascending(S)
            o == Reported(S)
            R == [at : Nat, status : Statuses]
<1>1. Len(log) \in Nat /\ Rows = 1..Len(log) /\ \A i \in Rows : log[i] \in LogRow
  BY RowsInterval DEF HistoryInv
<1>2. /\ c \in Nat /\ DOMAIN rows = 1..c
      /\ \A k \in 1..c : rows[k] \in S
      /\ \A k, l \in 1..c : k < l => rows[k] < rows[l]
  BY <1>1, AscendingIsSorted
<1>3. c # 0
  BY <1>1, RowsAreFinite, FS_EmptySet
<1>4. o = [k \in 1..c |-> [at |-> log[rows[k]].at, status |-> Hook(rows[k]).status]]
  BY <1>2 DEF Reported
<1>. HIDE DEF rows, c
<1>5. ASSUME NEW k \in 1..c
      PROVE  /\ o[k] \in R /\ rows[k] \in S /\ rows[k] \in Rows
             /\ o[k].at = log[rows[k]].at /\ o[k].at \in Nat
  <2>1. rows[k] \in S /\ rows[k] \in Rows
    BY <1>2
  <2>2. log[rows[k]] \in LogRow
    BY <1>1, <2>1
  <2>3. log[rows[k]].at \in Nat /\ Hook(rows[k]).status \in Statuses
    BY <2>2 DEF LogRow, Hook, Statuses
  <2>4. o[k] = [at |-> log[rows[k]].at, status |-> Hook(rows[k]).status]
    BY <1>4
  <2>. QED  BY <2>1, <2>3, <2>4
<1>6. o \in [1..c -> R]
  BY <1>4, <1>5
<1>. HIDE DEF o
<1>7. ASSUME NEW k \in 1..c, NEW l \in 1..c, k <= l PROVE o[k].at <= o[l].at
  <2>1. CASE k = l
    BY <1>5, <2>1
  <2>2. CASE k < l
    BY <1>2, <1>5, <2>2 DEF HistoryInv, Sorted
  <2>. QED  BY <1>2, <1>7, <2>1, <2>2
<1>. HIDE DEF R
<1>8. o \in Seq(R) /\ Len(o) = c /\ DOMAIN o = 1..c
  BY <1>2, <1>6
<1>9. InOrder(o)
  BY <1>7, <1>8 DEF InOrder
<1>. QED  BY <1>2, <1>3, <1>5, <1>8, <1>9 DEF o, c, R, Observations

(* The pipeline statistics are those of everything that was ever received of *)
(* the pipeline, for every sequence of states: a run is complete exactly     *)
(* when it was seen whole, its phases add up to the time from its first      *)
(* state to its end, or to now, and no retention changes that.               *)
THEOREM StatisticsAreExact == Spec => []StatisticsAreWhole
<1>1. HistoryInv /\ ObservedInv => StatisticsAreWhole
  <2>. SUFFICES ASSUME HistoryInv, ObservedInv, NEW i \in Rows, NEW to \in 0..(now + 1)
       PROVE
        LET ever == {j \in Rows : SamePipeline(i, j) /\ log[j].at < to}
            obs(S) == LET rows == Ascending(S) IN
                      [k \in DOMAIN rows |-> [at |-> log[rows[k]].at, status |-> Hook(rows[k]).status]]
            seen == {j \in ever : log[j].observed /\ log[j].at >= now - Window}
            end == IF to < now THEN to ELSE now
            all == obs(ever) IN
        ever # {} /\ ever \cap Expired = {} =>
            LET stat == PipelineRun(obs(seen), end) IN
            /\ stat.complete <=> \E f \in DOMAIN all : Whole(all, f)
            /\ \A f \in DOMAIN all : Whole(all, f) => TotalMS(stat.run) = all[f].at - all[1].at
            /\ (\A k \in DOMAIN all : PhaseAt(all, k) \in Timed)
                 => TotalMS(stat.run) = end - all[1].at
    BY DEF StatisticsAreWhole
  <2>. DEFINE ever == {j \in Rows : SamePipeline(i, j) /\ log[j].at < to}
              seen == {j \in ever : log[j].observed /\ log[j].at >= now - Window}
              end == IF to < now THEN to ELSE now
              all == Reported(ever)
              stat == PipelineRun(Reported(seen), end)
  <2>1. SUFFICES ASSUME ever # {}, ever \cap Expired = {}
        PROVE  /\ stat.complete <=> \E f \in DOMAIN all : Whole(all, f)
               /\ \A f \in DOMAIN all : Whole(all, f) => TotalMS(stat.run) = all[f].at - all[1].at
               /\ (\A k \in DOMAIN all : PhaseAt(all, k) \in Timed)
                    => TotalMS(stat.run) = end - all[1].at
    BY DEF Reported
  <2>2. now \in Nat /\ Window \in Nat /\ \A j \in Rows : log[j].at \in Nat
    <3>1. LogOK /\ now \in Nat /\ Window \in Nat
      BY ConstantsTyped, HistoryAssumption DEF HistoryInv, LogOK
    <3>2. \A j \in Rows : log[j] \in LogRow
      BY <3>1, RowsInterval
    <3>. QED  BY <3>1, <3>2 DEF LogRow
  <2>3. seen = ever
    <3>1. ASSUME NEW j \in ever PROVE log[j].observed /\ log[j].at >= now - Window
      <4>1. j \in Rows /\ IsPipeline(j) /\ j \notin Expired
        BY <2>1 DEF SamePipeline
      <4>2. log[j].observed
        BY <4>1 DEF ObservedInv, Observed
      <4>3. log[j].at >= now - Window
        BY <2>2, <4>1 DEF Expired
      <4>. QED  BY <4>2, <4>3
    <3>. QED  BY <3>1
  <2>4. end \in Nat /\ \A j \in ever : log[j].at <= end
    BY <2>2 DEF ObservedInv, Observed
  <2>. DEFINE n == Cardinality(ever)
  <2>5. ever \in SUBSET Rows
    OBVIOUS
  <2>. HIDE DEF ever, end
  <2>6. /\ all \in Observations(Statuses)
        /\ Len(all) = n /\ n \in Nat \ {0} /\ DOMAIN all = 1..n
        /\ InOrder(all)
        /\ \A k \in 1..n : \E j \in ever : all[k].at = log[j].at
    BY <2>1, <2>5, ReportedIsInOrder
  <2>7. n = Len(all) /\ all[n].at <= end
    BY <2>4, <2>6
  <2>8. stat = PipelineRun(all, end)
    BY <2>3
  <2>. HIDE DEF all, n, stat
  <2>9. /\ PipelineRun(all, end).complete <=> \E f \in 1..n : Whole(all, f)
        /\ \A f \in 1..n : Whole(all, f) => TotalMS(PipelineRun(all, end).run) = all[f].at - all[1].at
        /\ (\A k \in 1..n : PhaseAt(all, k) \in Timed)
             => TotalMS(PipelineRun(all, end).run) = end - all[1].at
    BY <2>4, <2>6, <2>7, PipelineRunFacts
  <2>. QED  BY <2>6, <2>8, <2>9, Zenon
<1>. QED  BY <1>1, HistoryInductive, ObservationsOutliveEvents, PTL
=============================================================================
