------------------------- MODULE NotificationsProofs -------------------------
(***************************************************************************)
(* Proofs about Notifications, for any number of facts, tabs, breaks and    *)
(* clearings and all page sizes: a tab lists facts in order and none twice, *)
(* its cursor passes only what it was told of, and what it cleared does not *)
(* come back.                                                               *)
(***************************************************************************)
EXTENDS Notifications, FiniteSetTheorems, SequenceTheorems, TLAPS

-----------------------------------------------------------------------------
(* A finite set in a strict order R: every element has its place.            *)

Below(S, R, x) == {y \in S : <<y, x>> \in R}
Place(S, R, x) == Cardinality(Below(S, R, x)) + 1
Nth(S, R, k) == CHOOSE x \in S : Cardinality(Below(S, R, x)) = k - 1
StrictOrder(S, R) ==
    /\ \A x \in S : <<x, x>> \notin R
    /\ \A x, y, z \in S : <<x, y>> \in R /\ <<y, z>> \in R => <<x, z>> \in R
    /\ \A x, y \in S : x = y \/ <<x, y>> \in R \/ <<y, x>> \in R

LEMMA PlaceRange ==
    ASSUME NEW S, IsFiniteSet(S), NEW R, StrictOrder(S, R), NEW x \in S
    PROVE  /\ IsFiniteSet(Below(S, R, x)) /\ Cardinality(Below(S, R, x)) \in Nat
           /\ Place(S, R, x) \in 1..Cardinality(S)
<1>1. Below(S, R, x) \subseteq S \ {x}
  BY DEF Below, StrictOrder
<1>2. IsFiniteSet(S \ {x}) /\ Cardinality(S \ {x}) = Cardinality(S) - 1
  BY FS_RemoveElement
<1>3. IsFiniteSet(Below(S, R, x)) /\ Cardinality(Below(S, R, x)) <= Cardinality(S) - 1
  BY <1>1, <1>2, FS_Subset
<1>4. Cardinality(S) \in Nat /\ Cardinality(Below(S, R, x)) \in Nat
  BY <1>3, FS_CardinalityType
<1>. QED  BY <1>3, <1>4 DEF Place

LEMMA PlaceGrows ==
    ASSUME NEW S, IsFiniteSet(S), NEW R, StrictOrder(S, R),
           NEW x \in S, NEW y \in S, <<x, y>> \in R
    PROVE  Place(S, R, x) < Place(S, R, y)
<1>1. Below(S, R, x) \subseteq Below(S, R, y) \ {x}
  BY DEF Below, StrictOrder
<1>2. x \in Below(S, R, y)
  BY DEF Below
<1>3. IsFiniteSet(Below(S, R, y)) /\ Cardinality(Below(S, R, y)) \in Nat
      /\ Cardinality(Below(S, R, x)) \in Nat
  BY PlaceRange
<1>4. IsFiniteSet(Below(S, R, y) \ {x})
      /\ Cardinality(Below(S, R, y) \ {x}) = Cardinality(Below(S, R, y)) - 1
  BY <1>2, <1>3, FS_RemoveElement
<1>5. Cardinality(Below(S, R, x)) <= Cardinality(Below(S, R, y)) - 1
  BY <1>1, <1>4, FS_Subset
<1>. QED  BY <1>3, <1>5 DEF Place

LEMMA PlaceIsUnique ==
    ASSUME NEW S, IsFiniteSet(S), NEW R, StrictOrder(S, R),
           NEW x \in S, NEW y \in S, Place(S, R, x) = Place(S, R, y)
    PROVE  x = y
<1>1. Place(S, R, x) \in Int /\ Place(S, R, y) \in Int
  BY PlaceRange
<1>2. <<x, y>> \in R => Place(S, R, x) < Place(S, R, y)
  BY PlaceGrows
<1>3. <<y, x>> \in R => Place(S, R, y) < Place(S, R, x)
  BY PlaceGrows
<1>4. x = y \/ <<x, y>> \in R \/ <<y, x>> \in R
  BY DEF StrictOrder
<1>. QED  BY <1>1, <1>2, <1>3, <1>4

LEMMA EveryPlaceIsTaken ==
    ASSUME NEW S, IsFiniteSet(S), NEW R, StrictOrder(S, R), NEW k \in 1..Cardinality(S)
    PROVE  \E x \in S : Place(S, R, x) = k
<1>. DEFINE n == Cardinality(S)
            f == [x \in S |-> Place(S, R, x)]
<1>1. n \in Nat
  BY FS_CardinalityType
<1>2. IsFiniteSet(1..n) /\ Cardinality(1..n) = n
  BY <1>1, FS_Interval
<1>3. f \in [S -> 1..n]
  BY PlaceRange
<1>4. \A x, y \in S : f[x] = f[y] => x = y
  BY PlaceIsUnique
<1>5. f \in Injection(S, 1..n)
  BY <1>3, <1>4 DEF Injection, IsInjective
<1>6. f \in Surjection(S, 1..n)
  BY <1>2, <1>5, FS_Injection
<1>7. PICK x \in S : f[x] = k
  BY <1>6 DEF Surjection
<1>. QED  BY <1>7

LEMMA NthPlace ==
    ASSUME NEW S, IsFiniteSet(S), NEW R, StrictOrder(S, R), NEW k \in 1..Cardinality(S)
    PROVE  Nth(S, R, k) \in S /\ Place(S, R, Nth(S, R, k)) = k
<1>1. Cardinality(S) \in Nat
  BY FS_CardinalityType
<1>2. \A x \in S : Cardinality(Below(S, R, x)) \in Nat
  BY PlaceRange
<1>3. \A x \in S : Place(S, R, x) = k <=> Cardinality(Below(S, R, x)) = k - 1
  BY <1>1, <1>2 DEF Place
<1>4. \E x \in S : Cardinality(Below(S, R, x)) = k - 1
  BY <1>3, EveryPlaceIsTaken
<1>5. Nth(S, R, k) \in S /\ Cardinality(Below(S, R, Nth(S, R, k))) = k - 1
  BY <1>4 DEF Nth
<1>. QED  BY <1>3, <1>5

LEMMA NthGrows ==
    ASSUME NEW S, IsFiniteSet(S), NEW R, StrictOrder(S, R),
           NEW i \in 1..Cardinality(S), NEW j \in 1..Cardinality(S), i < j
    PROVE  <<Nth(S, R, i), Nth(S, R, j)>> \in R
<1>. DEFINE x == Nth(S, R, i)
            y == Nth(S, R, j)
<1>1. x \in S /\ Place(S, R, x) = i /\ y \in S /\ Place(S, R, y) = j
  BY NthPlace
<1>. HIDE DEF x, y
<1>2. <<y, x>> \in R => Place(S, R, y) < Place(S, R, x)
  BY <1>1, PlaceGrows
<1>3. i \in Int /\ j \in Int
  BY FS_CardinalityType
<1>4. x # y /\ <<y, x>> \notin R
  BY <1>1, <1>2, <1>3
<1>5. <<x, y>> \in R
  BY <1>1, <1>4 DEF StrictOrder
<1>. QED  BY <1>5 DEF x, y

LEMMA NthOfPlace ==
    ASSUME NEW S, IsFiniteSet(S), NEW R, StrictOrder(S, R), NEW x \in S
    PROVE  \E k \in 1..Cardinality(S) : Nth(S, R, k) = x
<1>1. Place(S, R, x) \in 1..Cardinality(S)
  BY PlaceRange
<1>2. Nth(S, R, Place(S, R, x)) \in S /\ Place(S, R, Nth(S, R, Place(S, R, x))) = Place(S, R, x)
  BY <1>1, NthPlace
<1>3. Nth(S, R, Place(S, R, x)) = x
  BY <1>2, PlaceIsUnique
<1>. QED  BY <1>1, <1>3

-----------------------------------------------------------------------------
(* The inductive invariant.                                                   *)

(* Facts that were committed once, and what a cursor can be.                 *)
Known == {f \in Facts : fact[f].state \in {"visible", "gone"}}
Cursors == {NoCursor} \cup {encodeNotificationCursor(f) : f \in Known}

Later(f, g) == Behind(encodeNotificationCursor(f), encodeNotificationCursor(g))
Ascends(s) == \A i, j \in 1..Len(s) : i < j => Later(s[j], s[i])
Beyond(s, c) == \A i \in 1..Len(s) : Behind(encodeNotificationCursor(s[i]), c)

FactRow == [state : {"none", "open", "visible", "gone"}, at : 0..MaxTime]
StoredState == [initialized : BOOLEAN, cursor : Cursor, items : Seq(Facts)]
BaselineState == [pc : {"ask", "latest", "answer", "follow"}, page : Seq(Facts), latest : Cursor]
SourceState == [state : {"none", "connecting", "open", "reconnecting", "dead"},
                after : Cursor, lastEventID : Cursor]
StreamState == [pc : {"none", "load", "subscribe", "send", "wait"}, cursor : Cursor,
                page : Seq(Facts), latest : Cursor, first : BOOLEAN]

FactsOK ==
    /\ clock \in 1..MaxTime
    /\ fact \in [Facts -> FactRow]
    /\ \A f \in Facts : fact[f].state # "none" => fact[f].at # 0
    /\ signals \subseteq Facts /\ late \subseteq Facts /\ clearing \subseteq Tabs
    /\ notifySubs \subseteq Tabs /\ wake \subseteq notifySubs
    /\ breaks \in Nat /\ failures \in Nat /\ clears \in Nat
TabsOK ==
    /\ stored \in [Tabs -> StoredState]
    /\ baseline \in [Tabs -> BaselineState]
    /\ source \in [Tabs -> SourceState]
    /\ stream \in [Tabs -> StreamState]
    /\ wire \in [Tabs -> Seq(Facts)]
    /\ owed \in [Tabs -> SUBSET Facts] /\ blind \in [Tabs -> SUBSET Facts]
    /\ got \in [Tabs -> SUBSET Facts] /\ cleared \in [Tabs -> SUBSET Facts]

(* The parts of a tab's invariant are about its stored state s, baseline     *)
(* request b, EventSource e, handler h and the facts w on the wire, and the  *)
(* sets o (owed), l (blind), g (got) and c (cleared) that observe it.        *)

(* Whatever a tab or a stream holds was committed once.                      *)
KnownTab(s, b, e, h, w, o) ==
    /\ Range(s.items) \subseteq Known /\ Range(b.page) \subseteq Known
    /\ Range(h.page) \subseteq Known /\ Range(w) \subseteq Known /\ o \subseteq Known
    /\ s.cursor \in Cursors /\ b.latest \in Cursors
    /\ e.after \in Cursors /\ e.lastEventID \in Cursors
    /\ h.cursor \in Cursors /\ h.latest \in Cursors

(* What is under way by how far the tab is: a tab that asks for its baseline *)
(* has no stream, and a stream resumes where the tab's cursor is.            *)
Resumes(e) == IF e.lastEventID # NoCursor THEN e.lastEventID ELSE e.after
PhaseTab(s, b, e, h, w, o) ==
    /\ b.pc # "follow" <=> e.state = "none"
    /\ e.state = "none" => w = <<>>
    /\ h.pc # "none" => e.state = "open"
    /\ e.state # "none" => s.cursor = Resumes(e)
    /\ b.pc = "latest" => s.cursor = NoCursor
    /\ ~s.initialized => s.items = <<>> /\ o = {} /\ b.pc # "follow"
    /\ h.pc # "none" /\ h.first => h.cursor = s.cursor /\ w = <<>>

(* The chain of cursors: what is listed, the tab's cursor, the facts on the  *)
(* wire, the stream's cursor and the page it has read.                       *)
ItemsTab(s) ==
    /\ \A i, j \in 1..Len(s.items) : i < j =>
          /\ s.items[i] # s.items[j]
          /\ s.items[i] \in Visible => Later(s.items[j], s.items[i])
    /\ \A i \in 1..Len(s.items) :
          s.items[i] \in Visible => ~Behind(encodeNotificationCursor(s.items[i]), s.cursor)
BaselineTab(s, b) ==
    /\ b.pc \in {"latest", "answer"} =>
          /\ Ascends(b.page) /\ Beyond(b.page, s.cursor)
          /\ b.page # <<>> => b.latest # NoCursor
    /\ b.pc = "answer" /\ b.page # <<>> =>
          /\ ~Behind(s.cursor, b.latest)
          /\ \A i \in 1..Len(b.page) :
                b.page[i] \in Visible => ~Behind(encodeNotificationCursor(b.page[i]), b.latest)
WireTab(s, h, w) ==
    /\ Ascends(w) /\ Beyond(w, s.cursor)
    /\ h.pc # "none" =>
          /\ ~Behind(s.cursor, h.cursor)
          /\ \A i \in 1..Len(w) : ~Behind(encodeNotificationCursor(w[i]), h.cursor)
    /\ h.pc \in {"subscribe", "send"} => Ascends(h.page) /\ Beyond(h.page, h.cursor)

(* A fact that a tab is still to be told of is ahead of its cursor, and      *)
(* wherever a cursor is about to pass it, the fact is in what will be told.  *)
Due(o, l, g) == {f \in o \ (late \cup l \cup g) : f \in Visible}
DueTab(s, b, h, w, o, l, g) ==
    /\ s.cursor = NoCursor => o \subseteq l
    /\ \A f \in Due(o, l, g) :
        /\ Behind(encodeNotificationCursor(f), s.cursor)
        /\ b.pc = "answer" /\ b.page # <<>> =>
              f \in Range(b.page) \/ Behind(encodeNotificationCursor(f), b.latest)
        /\ f \in Range(w) \/ \A x \in Range(w) : Later(f, x)
        /\ h.pc # "none" => f \in Range(w) \/ Behind(encodeNotificationCursor(f), h.cursor)
        /\ h.pc \in {"subscribe", "send"} =>
              f \in Range(w) \/ f \in Range(h.page) \/ \A x \in Range(h.page) : Later(f, x)

(* Nothing that was gone when a tab cleared its state is on its way to it.   *)
ForgetTab(s, b, h, w, c) ==
    /\ \A f \in c : fact[f].state = "gone"
    /\ Range(s.items) \cap c = {} /\ Range(b.page) \cap c = {}
    /\ Range(h.page) \cap c = {} /\ Range(w) \cap c = {}

TabInv(t) ==
    /\ KnownTab(stored[t], baseline[t], source[t], stream[t], wire[t], owed[t])
    /\ PhaseTab(stored[t], baseline[t], source[t], stream[t], wire[t], owed[t])
    /\ ItemsTab(stored[t])
    /\ BaselineTab(stored[t], baseline[t])
    /\ WireTab(stored[t], stream[t], wire[t])
    /\ DueTab(stored[t], baseline[t], stream[t], wire[t], owed[t], blind[t], got[t])
    /\ ForgetTab(stored[t], baseline[t], stream[t], wire[t], cleared[t])
FeedInv == FactsOK /\ TabsOK /\ \A t \in Tabs : TabInv(t)

-----------------------------------------------------------------------------
(* Cursors are ordered by time, then by id.                                   *)

LEMMA ConstantsTyped ==
    /\ MaxTime \in Nat /\ MaxTime >= 1
    /\ \A f \in Facts : f \in Nat /\ f # 0
    /\ IsFiniteSet(Facts)
    /\ ListLimit \in Nat /\ ListLimit >= 1 /\ StreamLimit \in Nat /\ StreamLimit >= 1
    /\ Retained \in Nat /\ Retained >= 1
BY NotificationsAssumption

LEMMA CursorTyped ==
    ASSUME NEW c \in Cursor
    PROVE  c.at \in Nat /\ c.id \in Nat /\ c = [at |-> c.at, id |-> c.id]
BY ConstantsTyped DEF Cursor

LEMMA NoCursorTyped == NoCursor \in Cursor /\ NoCursor.at = 0 /\ NoCursor.id = 0
BY ConstantsTyped DEF NoCursor, Cursor

LEMMA BehindIsTransitive ==
    ASSUME NEW c \in Cursor, NEW d \in Cursor, NEW e \in Cursor, Behind(c, d), Behind(d, e)
    PROVE  Behind(c, e)
<1>1. c.at \in Nat /\ c.id \in Nat /\ d.at \in Nat /\ d.id \in Nat /\ e.at \in Nat /\ e.id \in Nat
  BY CursorTyped
<1>. QED  BY <1>1 DEF Behind

LEMMA BehindIsStrict ==
    ASSUME NEW c \in Cursor, NEW d \in Cursor
    PROVE  /\ ~(Behind(c, d) /\ Behind(d, c)) /\ ~Behind(c, c)
           /\ c # d => Behind(c, d) \/ Behind(d, c)
<1>1. c.at \in Nat /\ c.id \in Nat /\ d.at \in Nat /\ d.id \in Nat
  BY CursorTyped
<1>2. c = [at |-> c.at, id |-> c.id] /\ d = [at |-> d.at, id |-> d.id]
  BY CursorTyped
<1>3. c # d => c.at # d.at \/ c.id # d.id
  BY <1>2
<1>. QED  BY <1>1, <1>3 DEF Behind

(* The two ways in which comparisons are chained.                            *)
LEMMA BehindThenNotBefore ==
    ASSUME NEW c \in Cursor, NEW d \in Cursor, NEW e \in Cursor, Behind(c, d), ~Behind(e, d)
    PROVE  Behind(c, e)
<1>1. c.at \in Nat /\ c.id \in Nat /\ d.at \in Nat /\ d.id \in Nat /\ e.at \in Nat /\ e.id \in Nat
  BY CursorTyped
<1>. QED  BY <1>1 DEF Behind

LEMMA NotBeforeThenBehind ==
    ASSUME NEW c \in Cursor, NEW d \in Cursor, NEW e \in Cursor, ~Behind(d, c), Behind(d, e)
    PROVE  Behind(c, e)
<1>1. c.at \in Nat /\ c.id \in Nat /\ d.at \in Nat /\ d.id \in Nat /\ e.at \in Nat /\ e.id \in Nat
  BY CursorTyped
<1>. QED  BY <1>1 DEF Behind

LEMMA NotBehindNoCursor ==
    ASSUME NEW c \in Cursor
    PROVE  ~Behind(NoCursor, c)
BY CursorTyped, NoCursorTyped DEF Behind

LEMMA FactCursor ==
    ASSUME FactsOK, NEW f \in Facts
    PROVE  /\ encodeNotificationCursor(f) \in Cursor
           /\ encodeNotificationCursor(f).id = f
           /\ encodeNotificationCursor(f) # NoCursor
           /\ Behind(encodeNotificationCursor(f), NoCursor)
<1>1. fact[f].at \in 0..MaxTime /\ f \in Nat /\ f # 0 /\ MaxTime \in Nat
  BY ConstantsTyped DEF FactsOK, FactRow
<1>2. encodeNotificationCursor(f) = [at |-> fact[f].at, id |-> f]
  BY DEF encodeNotificationCursor
<1>3. encodeNotificationCursor(f) \in Cursor /\ encodeNotificationCursor(f).id = f
      /\ encodeNotificationCursor(f).at = fact[f].at
  BY <1>1, <1>2 DEF Cursor
<1>4. NoCursor.at = 0 /\ NoCursor.id = 0
  BY NoCursorTyped
<1>. QED  BY <1>1, <1>3, <1>4 DEF Behind

LEMMA CursorsTyped ==
    ASSUME FactsOK, NEW c \in Cursors
    PROVE  c \in Cursor
BY FactCursor, NoCursorTyped DEF Cursors, Known

LEMMA KnownCursor ==
    ASSUME NEW f \in Known
    PROVE  encodeNotificationCursor(f) \in Cursors
BY DEF Cursors

LEMMA LaterOrder ==
    ASSUME FactsOK, NEW f \in Facts, NEW g \in Facts
    PROVE  /\ ~Later(f, f) /\ ~(Later(f, g) /\ Later(g, f))
           /\ f # g => Later(f, g) \/ Later(g, f)
<1>1. encodeNotificationCursor(f) \in Cursor /\ encodeNotificationCursor(g) \in Cursor
  BY FactCursor
<1>2. f # g => encodeNotificationCursor(f) # encodeNotificationCursor(g)
  BY FactCursor
<1>. QED  BY <1>1, <1>2, BehindIsStrict DEF Later

LEMMA LaterTransitive ==
    ASSUME FactsOK, NEW f \in Facts, NEW g \in Facts, NEW h \in Facts, Later(f, g), Later(g, h)
    PROVE  Later(f, h)
BY FactCursor, BehindIsTransitive DEF Later

-----------------------------------------------------------------------------
(* Listings.                                                                  *)

Before(fs) == {p \in fs \X fs : Later(p[2], p[1])}

LEMMA BeforeIsStrict ==
    ASSUME FactsOK, NEW fs \in SUBSET Facts
    PROVE  StrictOrder(fs, Before(fs))
<1>1. \A x, y \in fs : <<x, y>> \in Before(fs) <=> Later(y, x)
  BY DEF Before
<1>2. \A x \in fs : ~Later(x, x)
  BY LaterOrder
<1>3. \A x, y, z \in fs : Later(y, x) /\ Later(z, y) => Later(z, x)
  BY LaterTransitive
<1>4. \A x, y \in fs : x = y \/ Later(x, y) \/ Later(y, x)
  BY LaterOrder
<1>. QED  BY <1>1, <1>2, <1>3, <1>4 DEF StrictOrder

LEMMA InOrderIsNth ==
    ASSUME NEW fs
    PROVE  InOrder(fs) = [k \in 1..Cardinality(fs) |-> Nth(fs, Before(fs), k)]
<1>1. \A f \in fs : {g \in fs : Behind(encodeNotificationCursor(f), encodeNotificationCursor(g))}
                       = Below(fs, Before(fs), f)
  BY DEF Below, Before, Later
<1>2. \A k : (CHOOSE f \in fs :
               Cardinality({g \in fs : Behind(encodeNotificationCursor(f), encodeNotificationCursor(g))}) = k - 1)
             = Nth(fs, Before(fs), k)
  BY <1>1, Zenon DEF Nth
<1>. DEFINE nth(k) == CHOOSE f \in fs :
               Cardinality({g \in fs : Behind(encodeNotificationCursor(f), encodeNotificationCursor(g))}) = k - 1
<1>3. InOrder(fs) = [k \in 1..Cardinality(fs) |-> nth(k)]
  BY DEF InOrder
<1>4. \A k : nth(k) = Nth(fs, Before(fs), k)
  BY <1>2
<1>. HIDE DEF nth
<1>. QED  BY <1>3, <1>4, Zenon

LEMMA InOrderFacts ==
    ASSUME FactsOK, NEW fs \in SUBSET Facts
    PROVE  /\ Cardinality(fs) \in Nat /\ InOrder(fs) \in Seq(Facts) /\ Len(InOrder(fs)) = Cardinality(fs)
           /\ \A k \in 1..Cardinality(fs) : InOrder(fs)[k] \in fs
           /\ \A i, j \in 1..Cardinality(fs) : i < j => Later(InOrder(fs)[j], InOrder(fs)[i])
           /\ \A f \in fs : \E k \in 1..Cardinality(fs) : InOrder(fs)[k] = f
<1>. DEFINE n == Cardinality(fs)
            R == Before(fs)
<1>1. IsFiniteSet(fs) /\ n \in Nat
  BY ConstantsTyped, FS_Subset, FS_CardinalityType
<1>2. StrictOrder(fs, R)
  BY BeforeIsStrict
<1>. HIDE DEF R
<1>3. InOrder(fs) = [k \in 1..n |-> Nth(fs, R, k)]
  BY InOrderIsNth DEF R
<1>4. \A k \in 1..n : InOrder(fs)[k] = Nth(fs, R, k)
  BY <1>3
<1>5. \A k \in 1..n : Nth(fs, R, k) \in fs
  BY <1>1, <1>2, NthPlace
<1>6. \A i, j \in 1..n : i < j => <<Nth(fs, R, i), Nth(fs, R, j)>> \in R
  BY <1>1, <1>2, NthGrows
<1>7. \A i, j \in 1..n : i < j => Later(Nth(fs, R, j), Nth(fs, R, i))
  BY <1>5, <1>6 DEF R, Before
<1>8. \A f \in fs : \E k \in 1..n : Nth(fs, R, k) = f
  BY <1>1, <1>2, NthOfPlace
<1>9. InOrder(fs) \in [1..n -> Facts]
  BY <1>3, <1>5
<1>10. InOrder(fs) \in Seq(Facts) /\ Len(InOrder(fs)) = n
  BY <1>1, <1>3, <1>9
<1>. QED  BY <1>1, <1>4, <1>5, <1>7, <1>8, <1>10

(* A page holds, in order, the first of the facts behind the cursor.         *)
LEMMA PageFacts ==
    ASSUME FactsOK, NEW after \in Cursor, NEW limit \in Nat, limit >= 1,
           NEW p, p = ListNotifications(after, limit)
    PROVE  /\ p \in Seq(Facts) /\ Range(p) \subseteq Visible
           /\ Ascends(p) /\ Beyond(p, after)
           /\ \A f \in Visible : Behind(encodeNotificationCursor(f), after) =>
                  f \in Range(p) \/ (p # <<>> /\ \A g \in Range(p) : Later(f, g))
<1>. DEFINE fs == {f \in Visible : Behind(encodeNotificationCursor(f), after)}
            all == InOrder(fs)
            n == Cardinality(fs)
            m == IF limit < n THEN limit ELSE n
<1>1. fs \in SUBSET Facts
  BY DEF Visible
<1>2. n \in Nat /\ all \in Seq(Facts) /\ Len(all) = n
  BY <1>1, InOrderFacts
<1>3. \A k \in 1..n : all[k] \in fs
  BY <1>1, InOrderFacts
<1>4. \A i, j \in 1..n : i < j => Later(all[j], all[i])
  BY <1>1, InOrderFacts
<1>5. \A f \in fs : \E k \in 1..n : all[k] = f
  BY <1>1, InOrderFacts
<1>6. p = SubSeq(all, 1, m)
  BY <1>2 DEF ListNotifications
<1>7. \A f \in fs : f \in Visible /\ Behind(encodeNotificationCursor(f), after)
  OBVIOUS
<1>8. \A f \in Visible : Behind(encodeNotificationCursor(f), after) => f \in fs
  OBVIOUS
<1>. HIDE DEF fs, all, n
<1>9. m \in Nat /\ m <= n /\ (n >= 1 => m >= 1)
  BY <1>2
<1>. HIDE DEF m
<1>10. p \in Seq(Facts) /\ Len(p) = m /\ \A i \in 1..m : p[i] = all[i]
  BY <1>2, <1>6, <1>9
<1>11. DOMAIN p = 1..m /\ Range(p) = {p[i] : i \in 1..m}
  BY <1>10 DEF Range
<1>12. \A i \in 1..m : i \in 1..n
  BY <1>2, <1>9
<1>13. \A i \in 1..m : p[i] \in fs
  BY <1>3, <1>10, <1>12
<1>14. Range(p) \subseteq Visible /\ Beyond(p, after)
  BY <1>7, <1>10, <1>11, <1>13 DEF Beyond
<1>15. Ascends(p)
  BY <1>4, <1>10, <1>12 DEF Ascends
<1>16. ASSUME NEW f \in Visible, Behind(encodeNotificationCursor(f), after), f \notin Range(p)
       PROVE  p # <<>> /\ \A g \in Range(p) : Later(f, g)
  <2>1. PICK k \in 1..n : all[k] = f
    BY <1>5, <1>8, <1>16
  <2>2. k \notin 1..m
    BY <1>10, <1>11, <1>16, <2>1
  <2>3. k > m /\ m >= 1
    BY <1>2, <1>9, <2>1, <2>2
  <2>4. \A i \in 1..m : Later(f, p[i])
    BY <1>2, <1>4, <1>9, <1>10, <1>12, <2>1, <2>3
  <2>5. p # <<>>
    BY <1>10, <2>3
  <2>. QED  BY <1>11, <2>4, <2>5
<1>. QED  BY <1>10, <1>14, <1>15, <1>16

(* The cursor of a page is that of its last fact.                            *)
LEMMA PageCursorIsLast ==
    ASSUME FactsOK, NEW p \in Seq(Facts), Range(p) \subseteq Known, Ascends(p)
    PROVE  /\ PageCursor(p) \in Cursors
           /\ p = <<>> => PageCursor(p) = NoCursor
           /\ p # <<>> => /\ PageCursor(p) # NoCursor
                          /\ Len(p) \in Nat /\ Len(p) >= 1
                          /\ PageCursor(p) = encodeNotificationCursor(p[Len(p)])
                          /\ p[Len(p)] \in Range(p)
                          /\ \A i \in 1..Len(p) : ~Behind(encodeNotificationCursor(p[i]), PageCursor(p))
<1>1. CASE p = <<>>
  BY <1>1 DEF PageCursor, Cursors
<1>2. CASE p # <<>>
  <2>1. Len(p) \in Nat /\ Len(p) >= 1
    BY <1>2
  <2>2. PageCursor(p) = encodeNotificationCursor(p[Len(p)])
    BY <1>2 DEF PageCursor
  <2>3. p[Len(p)] \in Range(p) /\ p[Len(p)] \in Facts
    BY <2>1 DEF Range
  <2>4. PageCursor(p) \in Cursors /\ PageCursor(p) # NoCursor
    BY <2>2, <2>3, KnownCursor, FactCursor
  <2>5. ASSUME NEW i \in 1..Len(p)
        PROVE  ~Later(p[i], p[Len(p)])
    <3>1. p[i] \in Facts
      OBVIOUS
    <3>2. CASE i = Len(p)
      BY <2>3, <3>2, LaterOrder
    <3>3. CASE i < Len(p)
      <4>1. Later(p[Len(p)], p[i])
        BY <2>1, <3>3 DEF Ascends
      <4>. QED  BY <2>3, <3>1, <4>1, LaterOrder
    <3>. QED  BY <2>1, <3>2, <3>3
  <2>. QED  BY <1>2, <2>1, <2>2, <2>3, <2>4, <2>5 DEF Later
<1>. QED  BY <1>1, <1>2

LEMMA VisibleIsKnown == Visible \subseteq Known /\ Known \subseteq Facts
BY DEF Visible, Known

(* After an empty cursor the latest one is that of the newest fact.          *)
LEMMA LatestIsNewest ==
    ASSUME FactsOK
    PROVE  /\ LatestCursor \in Cursors
           /\ Visible # {} => LatestCursor # NoCursor
           /\ \A f \in Visible : ~Behind(encodeNotificationCursor(f), LatestCursor)
<1>1. CASE Visible = {}
  BY <1>1 DEF LatestCursor, Cursors
<1>2. CASE Visible # {}
  <2>. DEFINE n == Cardinality(Visible)
              all == InOrder(Visible)
              newest(f) == \A g \in Visible \ {f} :
                  Behind(encodeNotificationCursor(f), encodeNotificationCursor(g))
              top == CHOOSE f \in Visible : newest(f)
  <2>1. Visible \in SUBSET Facts
    BY DEF Visible
  <2>2. n \in Nat /\ (\A k \in 1..n : all[k] \in Visible)
    BY <2>1, InOrderFacts
  <2>3. \A i, j \in 1..n : i < j => Later(all[j], all[i])
    BY <2>1, InOrderFacts
  <2>4. \A f \in Visible : \E k \in 1..n : all[k] = f
    BY <2>1, InOrderFacts
  <2>. HIDE DEF n, all
  <2>5. n >= 1
    BY <1>2, <2>2, <2>4
  <2>6. all[n] \in Visible
    BY <2>2, <2>5
  <2>7. ASSUME NEW g \in Visible \ {all[n]}
        PROVE  Later(all[n], g)
    <3>1. PICK k \in 1..n : all[k] = g
      BY <2>4
    <3>2. k < n
      BY <2>2, <3>1
    <3>. QED  BY <2>2, <2>3, <2>5, <3>1, <3>2
  <2>8. newest(all[n])
    BY <2>7 DEF Later
  <2>9. top \in Visible /\ newest(top)
    BY <2>6, <2>8
  <2>10. LatestCursor = encodeNotificationCursor(top)
    BY <1>2 DEF LatestCursor
  <2>. HIDE DEF top
  <2>11. \A f \in Visible : f # top => Later(top, f)
    BY <2>9 DEF Later
  <2>. HIDE DEF newest
  <2>12. \A f \in Visible : ~Later(f, top)
    BY <2>1, <2>9, <2>11, LaterOrder
  <2>13. top \in Known /\ top \in Facts
    BY <2>9, VisibleIsKnown
  <2>14. LatestCursor \in Cursors /\ LatestCursor # NoCursor
    BY <2>10, <2>13, KnownCursor, FactCursor
  <2>. QED  BY <2>10, <2>12, <2>14 DEF Later
<1>. QED  BY <1>1, <1>2

-----------------------------------------------------------------------------
(* What a tab keeps of the facts it is told of.                               *)

Less(I) == {p \in I \X I : p[1] < p[2]}

LEMMA FilterIsNth ==
    ASSUME NEW I, NEW s
    PROVE  Filter(s, I) = [k \in 1..Cardinality(I) |-> s[Nth(I, Less(I), k)]]
<1>1. \A i \in I : {j \in I : j < i} = Below(I, Less(I), i)
  BY DEF Below, Less
<1>. DEFINE nth(k) == CHOOSE i \in I : Cardinality({j \in I : j < i}) = k - 1
<1>2. \A k : nth(k) = Nth(I, Less(I), k)
  BY <1>1, Zenon DEF Nth
<1>3. Filter(s, I) = [k \in 1..Cardinality(I) |-> s[nth(k)]]
  BY DEF Filter
<1>. HIDE DEF nth
<1>. QED  BY <1>2, <1>3, Zenon

LEMMA FilterFacts ==
    ASSUME NEW s \in Seq(Facts), NEW I \in SUBSET DOMAIN s
    PROVE  /\ Filter(s, I) \in Seq(Facts)
           /\ \A k \in 1..Len(Filter(s, I)) : \E a \in I : Filter(s, I)[k] = s[a]
           /\ \A i, j \in 1..Len(Filter(s, I)) : i < j =>
                  \E a, b \in I : a < b /\ Filter(s, I)[i] = s[a] /\ Filter(s, I)[j] = s[b]
<1>. DEFINE n == Cardinality(I)
            R == Less(I)
            r == Filter(s, I)
<1>1. DOMAIN s = 1..Len(s) /\ Len(s) \in Nat
  OBVIOUS
<1>2. IsFiniteSet(1..Len(s))
  BY <1>1, FS_Interval
<1>3. IsFiniteSet(I) /\ n \in Nat
  BY <1>1, <1>2, FS_Subset, FS_CardinalityType
<1>4. \A i \in I : i \in Nat /\ i \in 1..Len(s)
  BY <1>1
<1>5. StrictOrder(I, R)
  <2>1. \A x, y \in I : <<x, y>> \in R <=> x < y
    BY DEF Less
  <2>. HIDE DEF R
  <2>. QED  BY <1>4, <2>1 DEF StrictOrder
<1>6. r = [k \in 1..n |-> s[Nth(I, R, k)]]
  BY FilterIsNth
<1>7. \A i, j \in I : <<i, j>> \in R => i < j
  BY DEF Less
<1>. HIDE DEF R, r, n
<1>8. \A k \in 1..n : Nth(I, R, k) \in I
  BY <1>3, <1>5, NthPlace DEF n
<1>9. \A i, j \in 1..n : i < j => <<Nth(I, R, i), Nth(I, R, j)>> \in R
  BY <1>3, <1>5, NthGrows DEF n
<1>10. r \in [1..n -> Facts]
  BY <1>1, <1>4, <1>6, <1>8
<1>11. r \in Seq(Facts) /\ Len(r) = n
  BY <1>3, <1>6, <1>10
<1>12. \A k \in 1..n : r[k] = s[Nth(I, R, k)]
  BY <1>6
<1>13. \A k \in 1..Len(r) : \E a \in I : r[k] = s[a]
  BY <1>8, <1>11, <1>12
<1>14. ASSUME NEW i \in 1..Len(r), NEW j \in 1..Len(r), i < j
       PROVE  \E a, b \in I : a < b /\ r[i] = s[a] /\ r[j] = s[b]
  <2>1. i \in 1..n /\ j \in 1..n
    BY <1>11
  <2>2. Nth(I, R, i) \in I /\ Nth(I, R, j) \in I /\ Nth(I, R, i) < Nth(I, R, j)
    BY <1>7, <1>8, <1>9, <1>14, <2>1
  <2>3. r[i] = s[Nth(I, R, i)] /\ r[j] = s[Nth(I, R, j)]
    BY <1>12, <2>1
  <2>. QED  BY <2>2, <2>3
<1>. QED  BY <1>11, <1>13, <1>14 DEF r

(* The newest are kept, in their order.                                      *)
LEMMA AppendFacts ==
    ASSUME NEW items \in Seq(Facts), NEW added \in Seq(Facts), NEW r, r = appendFacts(items, added)
    PROVE  /\ r \in Seq(Facts)
           /\ \E d \in Nat : \A k \in 1..Len(r) :
                 k + d \in 1..Len(items \o added) /\ r[k] = (items \o added)[k + d]
<1>. DEFINE all == items \o added
            n == Len(all)
            d == IF n > Retained THEN n - Retained ELSE 0
<1>1. all \in Seq(Facts) /\ n \in Nat /\ Retained \in Nat /\ Retained >= 1
  BY ConstantsTyped
<1>2. r = SubSeq(all, d + 1, n)
  BY <1>1 DEF appendFacts
<1>. HIDE DEF all, n
<1>3. d \in Nat /\ d <= n
  BY <1>1
<1>. HIDE DEF d
<1>4. r \in Seq(Facts) /\ Len(r) = n - d /\ \A k \in 1..(n - d) : r[k] = all[d + k]
  BY <1>1, <1>2, <1>3 DEF n
<1>5. \A k \in 1..(n - d) : k + d \in 1..n /\ d + k = k + d
  BY <1>1, <1>3
<1>6. \A k \in 1..Len(r) : k + d \in 1..n /\ r[k] = all[k + d]
  BY <1>4, <1>5
<1>. QED  BY <1>3, <1>4, <1>6 DEF all, n

(* Every fact of the new list is one of the old list or one of the page that *)
(* was not listed, and they stand in that order.                             *)
Comes(old, page, x) ==
    (\E a \in 1..Len(old) : x = old[a]) \/ (\E a \in 1..Len(page) : x = page[a])
InPlace(old, page, x, y) ==
    \/ \E a, b \in 1..Len(old) : a < b /\ x = old[a] /\ y = old[b]
    \/ \E a \in 1..Len(old), b \in 1..Len(page) :
          x = old[a] /\ y = page[b] /\ page[b] \notin Range(old)
    \/ \E a, b \in 1..Len(page) : a < b /\ x = page[a] /\ y = page[b]

LEMMA AcceptFacts ==
    ASSUME NEW s \in StoredState, NEW page \in Seq(Facts), page # <<>>, NEW latest \in Cursor,
           PageCursor(page) \in Cursor,
           NEW r, r = acceptFacts(s, page, latest)
    PROVE  /\ r \in StoredState /\ r.initialized = s.initialized
           /\ r.cursor = IF latest # NoCursor THEN latest ELSE PageCursor(page)
           /\ \A k \in 1..Len(r.items) : Comes(s.items, page, r.items[k])
           /\ \A i, j \in 1..Len(r.items) : i < j => InPlace(s.items, page, r.items[i], r.items[j])
<1>. DEFINE I == {i \in DOMAIN page : page[i] \notin Range(s.items) \cup Muted}
            old == s.items
            added == Filter(page, I)
            new == r.items
            n == Len(old)
            all == old \o added
<1>1. old \in Seq(Facts) /\ n \in Nat
  BY DEF StoredState
<1>2. I \in SUBSET DOMAIN page /\ DOMAIN page = 1..Len(page)
  OBVIOUS
<1>3. \A i \in I : i \in 1..Len(page) /\ page[i] \notin Range(old)
  BY <1>2
<1>4. r = [s EXCEPT !.items = appendFacts(old, added),
                    !.cursor = IF latest # NoCursor THEN latest ELSE PageCursor(page)]
  BY DEF acceptFacts
<1>5. s = [initialized |-> s.initialized, cursor |-> s.cursor, items |-> s.items]
      /\ s.initialized \in BOOLEAN
  BY DEF StoredState
<1>. HIDE DEF I, added
<1>6. added \in Seq(Facts)
  BY <1>2, FilterFacts DEF added
<1>7. \A k \in 1..Len(added) : \E a \in I : added[k] = page[a]
  BY <1>2, FilterFacts DEF added
<1>8. \A i, j \in 1..Len(added) : i < j => \E a, b \in I : a < b /\ added[i] = page[a] /\ added[j] = page[b]
  BY <1>2, FilterFacts DEF added
<1>9. r.items = appendFacts(old, added) /\ r.initialized = s.initialized
      /\ r.cursor = (IF latest # NoCursor THEN latest ELSE PageCursor(page))
  BY <1>4, <1>5
<1>10. new \in Seq(Facts)
       /\ \E d \in Nat : \A k \in 1..Len(new) : k + d \in 1..Len(all) /\ new[k] = all[k + d]
  <2>1. new = appendFacts(old, added)
    BY <1>9
  <2>2. old \in Seq(Facts)
    BY <1>1
  <2>. HIDE DEF new, old
  <2>3. \A z : z = appendFacts(old, added) =>
           /\ z \in Seq(Facts)
           /\ \E d \in Nat : \A k \in 1..Len(z) :
                 k + d \in 1..Len(old \o added) /\ z[k] = (old \o added)[k + d]
    BY <1>6, <2>2, AppendFacts
  <2>. QED  BY <2>1, <2>3
<1>11. r \in StoredState
  <2>1. r.cursor \in Cursor
    BY <1>9
  <2>2. r = [initialized |-> r.initialized, cursor |-> r.cursor, items |-> r.items]
    BY <1>4, <1>5
  <2>. QED  BY <1>5, <1>9, <1>10, <2>1, <2>2 DEF StoredState
<1>12. PICK d \in Nat : \A k \in 1..Len(new) : k + d \in 1..Len(all) /\ new[k] = all[k + d]
  BY <1>10
<1>13. Len(all) = n + Len(added) /\ Len(added) \in Nat
  BY <1>1, <1>6
<1>14. \A k \in 1..Len(all) : /\ k <= n => k \in 1..n /\ all[k] = old[k]
                              /\ k > n => k - n \in 1..Len(added) /\ all[k] = added[k - n]
  BY <1>1, <1>6
<1>15. Len(new) \in Nat
  BY <1>10
<1>. HIDE DEF new, n, old, all
<1>16. ASSUME NEW k \in 1..Len(new)
       PROVE  Comes(old, page, new[k])
  <2>1. k + d \in 1..Len(all) /\ new[k] = all[k + d]
    BY <1>12
  <2>2. k + d \in Int
    BY <1>15
  <2>3. CASE k + d <= n
    BY <1>14, <2>1, <2>3 DEF n, Comes
  <2>4. CASE k + d > n
    <3>1. (k + d) - n \in 1..Len(added) /\ new[k] = added[(k + d) - n]
      BY <1>14, <2>1, <2>4
    <3>. QED  BY <1>3, <1>7, <3>1 DEF Comes
  <2>. QED  BY <1>1, <2>2, <2>3, <2>4
<1>17. ASSUME NEW i \in 1..Len(new), NEW j \in 1..Len(new), i < j
       PROVE  InPlace(old, page, new[i], new[j])
  <2>. DEFINE x == i + d
              y == j + d
  <2>1. x \in Int /\ y \in Int /\ x < y
    BY <1>15, <1>17
  <2>2. x \in 1..Len(all) /\ new[i] = all[x] /\ y \in 1..Len(all) /\ new[j] = all[y]
    BY <1>12
  <2>. HIDE DEF x, y
  <2>3. CASE y <= n
    <3>1. x \in 1..n /\ all[x] = old[x] /\ y \in 1..n /\ all[y] = old[y]
      BY <1>1, <1>14, <2>1, <2>2, <2>3
    <3>. QED  BY <2>1, <2>2, <3>1 DEF n, InPlace
  <2>4. CASE x <= n /\ y > n
    <3>1. x \in 1..n /\ all[x] = old[x] /\ y - n \in 1..Len(added) /\ all[y] = added[y - n]
      BY <1>14, <2>2, <2>4
    <3>2. PICK b \in I : added[y - n] = page[b]
      BY <1>7, <3>1
    <3>3. b \in 1..Len(page) /\ page[b] \notin Range(old)
      BY <1>3
    <3>. QED  BY <2>2, <3>1, <3>2, <3>3 DEF n, InPlace
  <2>5. CASE x > n
    <3>1. x - n \in 1..Len(added) /\ all[x] = added[x - n] /\ y - n \in 1..Len(added) /\ all[y] = added[y - n]
      BY <1>1, <1>14, <2>1, <2>2, <2>5
    <3>2. x - n < y - n
      BY <1>1, <2>1
    <3>3. PICK a \in I, b \in I : a < b /\ added[x - n] = page[a] /\ added[y - n] = page[b]
      BY <1>8, <3>1, <3>2
    <3>4. a \in 1..Len(page) /\ b \in 1..Len(page)
      BY <1>3
    <3>. QED  BY <2>2, <3>1, <3>3, <3>4 DEF InPlace
  <2>. QED  BY <1>1, <2>1, <2>3, <2>4, <2>5
<1>. QED  BY <1>9, <1>11, <1>16, <1>17 DEF new, old

-----------------------------------------------------------------------------
(* A step that leaves a tab's own variables alone and changes rows at most   *)
(* as a writer, retention or a clearing does: facts keep their places once   *)
(* they are committed, and none that is gone comes back.                     *)

RowsKept ==
    /\ Known \subseteq Known'
    /\ \A f \in Known : fact'[f].at = fact[f].at
    /\ \A f \in Known : f \in Visible' => f \in Visible
    /\ \A f \in Facts : fact[f].state = "gone" => fact'[f].state = "gone"

TabKept(t) ==
    /\ stored'[t] = stored[t] /\ baseline'[t] = baseline[t] /\ source'[t] = source[t]
    /\ stream'[t] = stream[t] /\ wire'[t] = wire[t] /\ cleared'[t] = cleared[t] /\ got'[t] = got[t]

LEMMA SameRows ==
    ASSUME fact' = fact
    PROVE  /\ Known' = Known /\ Visible' = Visible /\ Cursors' = Cursors /\ RowsKept
<1>1. Known' = Known /\ Visible' = Visible
  BY DEF Known, Visible
<1>2. \A f : encodeNotificationCursor(f)' = encodeNotificationCursor(f)
  BY DEF encodeNotificationCursor
<1>3. Cursors' = Cursors
  BY <1>1, <1>2 DEF Cursors, NoCursor
<1>4. RowsKept
  BY <1>1 DEF RowsKept
<1>. QED  BY <1>1, <1>3, <1>4

(* When rows stay as they are, a tab's invariant is about its new values.    *)
LEMMA TabStep ==
    ASSUME fact' = fact, late' = late, NEW t,
           KnownTab(stored'[t], baseline'[t], source'[t], stream'[t], wire'[t], owed'[t]),
           PhaseTab(stored'[t], baseline'[t], source'[t], stream'[t], wire'[t], owed'[t]),
           ItemsTab(stored'[t]),
           BaselineTab(stored'[t], baseline'[t]),
           WireTab(stored'[t], stream'[t], wire'[t]),
           DueTab(stored'[t], baseline'[t], stream'[t], wire'[t], owed'[t], blind'[t], got'[t]),
           ForgetTab(stored'[t], baseline'[t], stream'[t], wire'[t], cleared'[t])
    PROVE  TabInv(t)'
<1>1. Known' = Known /\ Visible' = Visible /\ Cursors' = Cursors
  BY SameRows
<1>2. KnownTab(stored[t], baseline[t], source[t], stream[t], wire[t], owed[t])'
  BY <1>1 DEF KnownTab
<1>3. PhaseTab(stored[t], baseline[t], source[t], stream[t], wire[t], owed[t])'
  BY DEF PhaseTab, Resumes
<1>4. ItemsTab(stored[t])'
  BY <1>1 DEF ItemsTab, Later, encodeNotificationCursor, Behind
<1>5. BaselineTab(stored[t], baseline[t])'
  BY <1>1 DEF BaselineTab, Later, encodeNotificationCursor, Behind, Ascends, Beyond
<1>6. WireTab(stored[t], stream[t], wire[t])'
  BY <1>1 DEF WireTab, Later, encodeNotificationCursor, Behind, Ascends, Beyond
<1>7. DueTab(stored[t], baseline[t], stream[t], wire[t], owed[t], blind[t], got[t])'
  BY <1>1 DEF DueTab, Due, Later, encodeNotificationCursor, Behind
<1>8. ForgetTab(stored[t], baseline[t], stream[t], wire[t], cleared[t])'
  BY DEF ForgetTab
<1>. QED  BY <1>2, <1>3, <1>4, <1>5, <1>6, <1>7, <1>8 DEF TabInv

(* A tab that a step does not touch, in a step that leaves the rows alone.   *)
LEMMA TabFrame ==
    ASSUME fact' = fact, late' = late, NEW t, TabInv(t), TabKept(t), owed'[t] = owed[t], blind'[t] = blind[t]
    PROVE  TabInv(t)'
BY TabStep DEF TabInv, TabKept


(* Cursors of committed facts do not change.                                 *)
LEMMA KeptCursors ==
    ASSUME RowsKept
    PROVE  Cursors \subseteq Cursors'
<1>1. \A f \in Known : encodeNotificationCursor(f)' = encodeNotificationCursor(f)
  BY DEF RowsKept, encodeNotificationCursor
<1>. QED  BY <1>1 DEF Cursors, NoCursor, RowsKept

LEMMA KeptOrder ==
    ASSUME RowsKept, NEW s, \A i \in 1..Len(s) : s[i] \in Known
    PROVE  /\ Ascends(s) => Ascends(s)'
           /\ \A c : Beyond(s, c) => Beyond(s, c)'
           /\ \A c : \A i \in 1..Len(s) : Behind(encodeNotificationCursor(s[i]), c)
                                            <=> Behind(encodeNotificationCursor(s[i]), c)'
<1>1. \A i \in 1..Len(s) : fact'[s[i]].at = fact[s[i]].at
  BY DEF RowsKept
<1>2. \A i \in 1..Len(s) : encodeNotificationCursor(s[i])' = encodeNotificationCursor(s[i])
  BY <1>1 DEF encodeNotificationCursor
<1>3. Ascends(s) => Ascends(s)'
  BY <1>2 DEF Ascends, Later, Behind
<1>4. \A c : Beyond(s, c) => Beyond(s, c)'
  BY <1>2 DEF Beyond, Behind
<1>5. \A c : \A i \in 1..Len(s) : Behind(encodeNotificationCursor(s[i]), c)
                                   <=> Behind(encodeNotificationCursor(s[i]), c)'
  BY <1>2 DEF Behind
<1>. QED  BY <1>3, <1>4, <1>5

LEMMA RangeOf ==
    ASSUME NEW S, NEW s \in Seq(S)
    PROVE  /\ Len(s) \in Nat /\ Range(s) = {s[i] : i \in 1..Len(s)}
           /\ \A i \in 1..Len(s) : s[i] \in Range(s)
BY DEF Range

LEMMA TabTyped ==
    ASSUME TabsOK, NEW t \in Tabs
    PROVE  /\ stored[t] \in StoredState /\ baseline[t] \in BaselineState /\ source[t] \in SourceState
           /\ stream[t] \in StreamState /\ wire[t] \in Seq(Facts)
           /\ owed[t] \in SUBSET Facts /\ blind[t] \in SUBSET Facts
           /\ got[t] \in SUBSET Facts /\ cleared[t] \in SUBSET Facts
BY DEF TabsOK

LEMMA PartsTyped ==
    ASSUME TabsOK, NEW t \in Tabs
    PROVE  /\ stored[t].items \in Seq(Facts) /\ baseline[t].page \in Seq(Facts)
           /\ stream[t].page \in Seq(Facts) /\ wire[t] \in Seq(Facts)
           /\ stored[t].cursor \in Cursor /\ baseline[t].latest \in Cursor
           /\ source[t].after \in Cursor /\ source[t].lastEventID \in Cursor
           /\ stream[t].cursor \in Cursor /\ stream[t].latest \in Cursor
<1>1. stored[t] \in StoredState /\ baseline[t] \in BaselineState /\ source[t] \in SourceState
      /\ stream[t] \in StreamState /\ wire[t] \in Seq(Facts)
  BY TabTyped
<1>. QED  BY <1>1 DEF StoredState, BaselineState, SourceState, StreamState

LEMMA RowsFrame ==
    ASSUME TabsOK, RowsKept, NEW t \in Tabs, TabInv(t), TabKept(t),
           owed'[t] \subseteq Known', ~stored[t].initialized => owed'[t] = {}
    PROVE  /\ KnownTab(stored[t], baseline[t], source[t], stream[t], wire[t], owed[t])'
           /\ PhaseTab(stored[t], baseline[t], source[t], stream[t], wire[t], owed[t])'
           /\ ItemsTab(stored[t])'
           /\ BaselineTab(stored[t], baseline[t])'
           /\ WireTab(stored[t], stream[t], wire[t])'
           /\ ForgetTab(stored[t], baseline[t], stream[t], wire[t], cleared[t])'
<1>. DEFINE items == stored[t].items
            bpage == baseline[t].page
            spage == stream[t].page
            w == wire[t]
<1>1. Cursors \subseteq Cursors' /\ Known \subseteq Known'
  BY KeptCursors DEF RowsKept
<1>2. /\ stored'[t] = stored[t] /\ baseline'[t] = baseline[t] /\ source'[t] = source[t]
      /\ stream'[t] = stream[t] /\ wire'[t] = wire[t] /\ cleared'[t] = cleared[t]
  BY DEF TabKept
<1>3. KnownTab(stored[t], baseline[t], source[t], stream[t], wire[t], owed[t])'
  BY <1>1, <1>2 DEF TabInv, KnownTab
<1>4. PhaseTab(stored[t], baseline[t], source[t], stream[t], wire[t], owed[t])'
  BY <1>2 DEF TabInv, PhaseTab, Resumes, NoCursor
<1>5. /\ \A i \in 1..Len(items) : items[i] \in Known
      /\ \A i \in 1..Len(bpage) : bpage[i] \in Known
      /\ \A i \in 1..Len(spage) : spage[i] \in Known
      /\ \A i \in 1..Len(w) : w[i] \in Known
  <2>1. /\ Range(items) \subseteq Known /\ Range(bpage) \subseteq Known
        /\ Range(spage) \subseteq Known /\ Range(w) \subseteq Known
    BY DEF TabInv, KnownTab
  <2>2. items \in Seq(Facts) /\ bpage \in Seq(Facts) /\ spage \in Seq(Facts) /\ w \in Seq(Facts)
    BY PartsTyped
  <2>. HIDE DEF items, bpage, spage, w
  <2>. QED  BY <2>1, <2>2, RangeOf
<1>6. \A f \in Known : f \in Visible' => f \in Visible
  BY DEF RowsKept
<1>7. \A f \in Known : fact'[f].at = fact[f].at
  BY DEF RowsKept
<1>8. ItemsTab(stored[t])'
  <2>1. ItemsTab(stored[t])
    BY DEF TabInv
  <2>2. \A i \in 1..Len(items) : Behind(encodeNotificationCursor(items[i]), stored[t].cursor)
                                  <=> Behind(encodeNotificationCursor(items[i]), stored[t].cursor)'
    BY <1>2, <1>5, KeptOrder
  <2>3. \A i, j \in 1..Len(items) : Later(items[j], items[i]) <=> Later(items[j], items[i])'
    BY <1>2, <1>5, <1>7 DEF Later, Behind, encodeNotificationCursor
  <2>4. \A i, j \in 1..Len(items) : i < j =>
           items[i] # items[j] /\ (items[i] \in Visible' => Later(items[j], items[i]))
    BY <1>5, <1>6, <2>1 DEF ItemsTab
  <2>5. \A i \in 1..Len(items) :
           items[i] \in Visible' => ~Behind(encodeNotificationCursor(items[i]), stored[t].cursor)
    BY <1>5, <1>6, <2>1 DEF ItemsTab
  <2>. QED  BY <1>2, <2>2, <2>3, <2>4, <2>5 DEF ItemsTab, Behind, Later, encodeNotificationCursor
<1>9. BaselineTab(stored[t], baseline[t])'
  <2>1. BaselineTab(stored[t], baseline[t])
    BY DEF TabInv
  <2>2. Ascends(bpage) => Ascends(bpage)'
    BY <1>2, <1>5, KeptOrder
  <2>3. Beyond(bpage, stored[t].cursor) => Beyond(bpage, stored[t].cursor)'
    BY <1>2, <1>5, KeptOrder
  <2>4. \A i \in 1..Len(bpage) : Behind(encodeNotificationCursor(bpage[i]), baseline[t].latest)
                                  <=> Behind(encodeNotificationCursor(bpage[i]), baseline[t].latest)'
    BY <1>2, <1>5, KeptOrder
  <2>. QED  BY <1>2, <1>5, <1>6, <2>1, <2>2, <2>3, <2>4 DEF BaselineTab, NoCursor, Behind
<1>10. WireTab(stored[t], stream[t], wire[t])'
  <2>1. WireTab(stored[t], stream[t], wire[t])
    BY DEF TabInv
  <2>2. Ascends(w) => Ascends(w)'
    BY <1>2, <1>5, KeptOrder
  <2>3. Beyond(w, stored[t].cursor) => Beyond(w, stored[t].cursor)'
    BY <1>2, <1>5, KeptOrder
  <2>4. \A i \in 1..Len(w) : Behind(encodeNotificationCursor(w[i]), stream[t].cursor)
                              <=> Behind(encodeNotificationCursor(w[i]), stream[t].cursor)'
    BY <1>2, <1>5, KeptOrder
  <2>5. Ascends(spage) => Ascends(spage)'
    BY <1>2, <1>5, KeptOrder
  <2>6. Beyond(spage, stream[t].cursor) => Beyond(spage, stream[t].cursor)'
    BY <1>2, <1>5, KeptOrder
  <2>. QED  BY <1>2, <1>5, <2>1, <2>2, <2>3, <2>4, <2>5, <2>6 DEF WireTab, Behind
<1>11. ForgetTab(stored[t], baseline[t], stream[t], wire[t], cleared[t])'
  <2>1. cleared[t] \subseteq Facts
    BY TabTyped
  <2>. QED  BY <1>2, <2>1 DEF TabInv, ForgetTab, RowsKept
<1>. QED  BY <1>3, <1>4, <1>8, <1>9, <1>10, <1>11


(* What is due: as before the step, or behind every cursor there was.        *)
LEMMA RowsDue ==
    ASSUME FactsOK, TabsOK, RowsKept, NEW t \in Tabs, TabInv(t), TabKept(t),
           stored[t].cursor = NoCursor => owed'[t] \subseteq blind'[t],
           \A f \in Due(owed[t], blind[t], got[t])' :
               \/ f \in Due(owed[t], blind[t], got[t])
               \/ \A c \in Cursors : Behind([at |-> fact'[f].at, id |-> f], c)
    PROVE  DueTab(stored[t], baseline[t], stream[t], wire[t], owed[t], blind[t], got[t])'
<1>. DEFINE bpage == baseline[t].page
            spage == stream[t].page
            w == wire[t]
            new(f) == [at |-> fact'[f].at, id |-> f]
            old(f) == encodeNotificationCursor(f)
<1>1. /\ stored'[t] = stored[t] /\ baseline'[t] = baseline[t]
      /\ stream'[t] = stream[t] /\ wire'[t] = wire[t]
  BY DEF TabKept
<1>2. /\ Range(bpage) \subseteq Known /\ Range(spage) \subseteq Known /\ Range(w) \subseteq Known
      /\ stored[t].cursor \in Cursors /\ baseline[t].latest \in Cursors /\ stream[t].cursor \in Cursors
  BY DEF TabInv, KnownTab
<1>3. \A f \in Known : new(f) = old(f) /\ old(f) \in Cursors
  BY KnownCursor DEF RowsKept, encodeNotificationCursor
<1>4. ASSUME NEW f \in Due(owed[t], blind[t], got[t])'
      PROVE  /\ Behind(new(f), stored[t].cursor)
             /\ baseline[t].pc = "answer" /\ bpage # <<>> =>
                   f \in Range(bpage) \/ Behind(new(f), baseline[t].latest)
             /\ f \in Range(w) \/ \A x \in Range(w) : Behind(new(f), new(x))
             /\ stream[t].pc # "none" => f \in Range(w) \/ Behind(new(f), stream[t].cursor)
             /\ stream[t].pc \in {"subscribe", "send"} =>
                   \/ f \in Range(w) \/ f \in Range(spage)
                   \/ \A x \in Range(spage) : Behind(new(f), new(x))
  <2>1. CASE f \in Due(owed[t], blind[t], got[t])
    <3>1. f \in Known
      BY <2>1, VisibleIsKnown DEF Due
    <3>2. DueTab(stored[t], baseline[t], stream[t], wire[t], owed[t], blind[t], got[t])
      BY DEF TabInv
    <3>3. /\ Behind(old(f), stored[t].cursor)
          /\ baseline[t].pc = "answer" /\ bpage # <<>> =>
                f \in Range(bpage) \/ Behind(old(f), baseline[t].latest)
          /\ f \in Range(w) \/ \A x \in Range(w) : Behind(old(f), old(x))
          /\ stream[t].pc # "none" => f \in Range(w) \/ Behind(old(f), stream[t].cursor)
          /\ stream[t].pc \in {"subscribe", "send"} =>
                \/ f \in Range(w) \/ f \in Range(spage)
                \/ \A x \in Range(spage) : Behind(old(f), old(x))
      BY <2>1, <3>2 DEF DueTab, Later
    <3>. HIDE DEF new, old, w, spage, bpage
    <3>4. new(f) = old(f) /\ (\A x \in Range(w) : new(x) = old(x))
          /\ (\A x \in Range(spage) : new(x) = old(x))
      BY <1>2, <1>3, <3>1
    <3>. QED  BY <3>3, <3>4
  <2>2. CASE \A c \in Cursors : Behind(new(f), c)
    <3>. HIDE DEF new, old, w, spage, bpage
    <3>. QED  BY <1>2, <1>3, <2>2
  <2>. QED  BY <1>4, <2>1, <2>2
<1>. QED  BY <1>1, <1>4 DEF DueTab, Later, encodeNotificationCursor, Behind, NoCursor

-----------------------------------------------------------------------------
(* The writers, retention and a clearing.                                     *)

LEMMA RowsStep ==
    ASSUME FactsOK, TabsOK, RowsKept, NEW t \in Tabs, TabInv(t), TabKept(t),
           owed'[t] = owed[t], blind'[t] = blind[t], late' = late
    PROVE  TabInv(t)'
<1>1. owed[t] \subseteq Known /\ (~stored[t].initialized => owed[t] = {})
  BY DEF TabInv, KnownTab, PhaseTab
<1>2. owed'[t] \subseteq Known' /\ (~stored[t].initialized => owed'[t] = {})
  BY <1>1 DEF RowsKept
<1>3. stored[t].cursor = NoCursor => owed'[t] \subseteq blind'[t]
  BY DEF TabInv, DueTab
<1>4. got'[t] = got[t]
  BY DEF TabKept
<1>5. Due(owed[t], blind[t], got[t])' \subseteq Due(owed[t], blind[t], got[t])
  BY <1>1, <1>4 DEF Due, RowsKept
<1>6. DueTab(stored[t], baseline[t], stream[t], wire[t], owed[t], blind[t], got[t])'
  BY <1>3, <1>5, RowsDue
<1>. QED  BY <1>2, <1>6, RowsFrame DEF TabInv

LEMMA TakeTimeStep ==
    ASSUME FeedInv, NEW f \in Facts, TakeTime(f)
    PROVE  FeedInv'
<1>. USE DEF FeedInv
<1>1. fact[f].state = "none" /\ clock' \in clock..MaxTime /\ clock \in 1..MaxTime /\ MaxTime \in Nat
  BY ConstantsTyped DEF TakeTime, FactsOK
<1>2. clock' \in 1..MaxTime /\ clock' \in 0..MaxTime /\ clock' # 0
  BY <1>1
<1>3. fact' = [fact EXCEPT ![f] = [state |-> "open", at |-> clock']] /\ fact \in [Facts -> FactRow]
  BY DEF TakeTime, FactsOK
<1>4. fact'[f] = [state |-> "open", at |-> clock'] /\ \A g \in Facts : g # f => fact'[g] = fact[g]
  BY <1>3
<1>5. fact' \in [Facts -> FactRow]
  BY <1>2, <1>3 DEF FactRow
<1>6. Known' = Known /\ Visible' = Visible /\ f \notin Known
  BY <1>1, <1>4 DEF Known, Visible
<1>7. RowsKept
  BY <1>1, <1>4, <1>6 DEF RowsKept, Known
<1>8. FactsOK'
  BY <1>2, <1>4, <1>5 DEF FactsOK, TakeTime, boundVars, notifyVars
<1>9. TabsOK'
  BY DEF TabsOK, TakeTime, tabVars, connVars, debtVars
<1>10. ASSUME NEW t \in Tabs PROVE TabInv(t)'
  <2>1. TabKept(t) /\ owed'[t] = owed[t] /\ blind'[t] = blind[t] /\ late' = late
    BY DEF TabKept, TakeTime, tabVars, connVars, debtVars
  <2>. QED  BY <1>7, <2>1, RowsStep
<1>. QED  BY <1>8, <1>9, <1>10

LEMMA WithdrawStep ==
    ASSUME FeedInv, NEW f \in Facts, Withdraw(f)
    PROVE  FeedInv'
<1>. USE DEF FeedInv
<1>1. fact[f].state = "visible"
  BY DEF Withdraw
<1>2. fact' = [fact EXCEPT ![f].state = "gone"] /\ fact \in [Facts -> FactRow]
  BY DEF Withdraw, FactsOK
<1>3. fact[f] \in FactRow
  BY <1>2
<1>4. fact'[f] = [fact[f] EXCEPT !.state = "gone"] /\ \A g \in Facts : g # f => fact'[g] = fact[g]
  BY <1>2
<1>5. fact'[f].state = "gone" /\ fact'[f].at = fact[f].at /\ fact'[f] \in FactRow
  BY <1>3, <1>4 DEF FactRow
<1>6. fact' \in [Facts -> FactRow]
  BY <1>2, <1>4, <1>5
<1>7. Known' = Known /\ \A g \in Facts : g \in Visible' => g \in Visible
  BY <1>1, <1>4, <1>5 DEF Known, Visible
<1>8. RowsKept
  BY <1>4, <1>5, <1>7 DEF RowsKept, Known
<1>9. FactsOK'
  <2>1. signals' \subseteq Facts
    BY DEF FactsOK, Withdraw
  <2>2. \A g \in Facts : fact'[g].state # "none" => fact'[g].at # 0
    BY <1>1, <1>4, <1>5 DEF FactsOK
  <2>. QED  BY <1>6, <2>1, <2>2 DEF FactsOK, Withdraw, boundVars, notifyVars
<1>10. TabsOK'
  BY DEF TabsOK, Withdraw, tabVars, connVars, debtVars
<1>11. ASSUME NEW t \in Tabs PROVE TabInv(t)'
  <2>1. TabKept(t) /\ owed'[t] = owed[t] /\ blind'[t] = blind[t] /\ late' = late
    BY DEF TabKept, Withdraw, tabVars, connVars, debtVars
  <2>. QED  BY <1>8, <2>1, RowsStep
<1>. QED  BY <1>9, <1>10, <1>11

LEMMA ClearHistoryStep ==
    ASSUME FeedInv, NEW u \in Tabs, ClearHistory(u)
    PROVE  FeedInv'
<1>. USE DEF FeedInv
<1>1. fact' = [f \in Facts |-> IF f \in Visible THEN [fact[f] EXCEPT !.state = "gone"] ELSE fact[f]]
  BY DEF ClearHistory
<1>2. \A f \in Facts : fact[f] \in FactRow
  BY DEF FactsOK
<1>3. ASSUME NEW f \in Facts
      PROVE  /\ fact'[f] \in FactRow /\ fact'[f].at = fact[f].at
             /\ f \in Visible => fact'[f].state = "gone"
             /\ f \notin Visible => fact'[f].state = fact[f].state
  <2>1. fact[f] \in FactRow
    BY <1>2
  <2>2. CASE f \in Visible
    <3>1. fact'[f] = [fact[f] EXCEPT !.state = "gone"]
      BY <1>1, <2>2
    <3>. QED  BY <2>1, <2>2, <3>1 DEF FactRow
  <2>3. CASE f \notin Visible
    BY <1>1, <2>1, <2>3
  <2>. QED  BY <2>2, <2>3
<1>4. fact' \in [Facts -> FactRow]
  BY <1>1, <1>3
<1>5. Known' = Known /\ Visible' = {}
  BY <1>3 DEF Known, Visible
<1>6. RowsKept
  BY <1>3, <1>5 DEF RowsKept, Known, Visible
<1>7. FactsOK'
  <2>1. signals' \subseteq Facts /\ clearing' \subseteq Tabs /\ clears' \in Nat
    BY DEF FactsOK, ClearHistory, Visible
  <2>2. \A g \in Facts : fact'[g].state # "none" => fact'[g].at # 0
    BY <1>3 DEF FactsOK, Visible
  <2>. QED  BY <1>4, <2>1, <2>2 DEF FactsOK, ClearHistory, notifyVars
<1>8. TabsOK'
  BY DEF TabsOK, ClearHistory, tabVars, connVars, debtVars
<1>9. ASSUME NEW t \in Tabs PROVE TabInv(t)'
  <2>1. TabKept(t) /\ owed'[t] = owed[t] /\ blind'[t] = blind[t] /\ late' = late
    BY DEF TabKept, ClearHistory, tabVars, connVars, debtVars
  <2>. QED  BY <1>6, <2>1, RowsStep
<1>. QED  BY <1>7, <1>8, <1>9

(* A commit: unless it is late, it is behind every cursor there is.          *)
LEMMA CommitStep ==
    ASSUME FeedInv, NEW f \in Facts, Commit(f)
    PROVE  FeedInv'
<1>. USE DEF FeedInv
<1>1. fact[f].state = "open"
  BY DEF Commit
<1>2. fact' = [fact EXCEPT ![f].state = "visible"] /\ fact \in [Facts -> FactRow]
  BY DEF Commit, FactsOK
<1>3. fact[f] \in FactRow
  BY <1>2
<1>4. fact'[f] = [fact[f] EXCEPT !.state = "visible"] /\ \A g \in Facts : g # f => fact'[g] = fact[g]
  BY <1>2
<1>5. fact'[f].state = "visible" /\ fact'[f].at = fact[f].at /\ fact'[f] \in FactRow
  BY <1>3, <1>4 DEF FactRow
<1>6. fact' \in [Facts -> FactRow]
  BY <1>2, <1>4, <1>5
<1>7. Known' = Known \cup {f} /\ Visible' = Visible \cup {f} /\ f \notin Known
  BY <1>1, <1>4, <1>5 DEF Known, Visible
<1>8. RowsKept
  BY <1>1, <1>4, <1>5, <1>7 DEF RowsKept, Known
<1>9. late \subseteq late' /\ late' \subseteq Facts
  BY DEF Commit, FactsOK
<1>10. FactsOK'
  <2>1. signals' \subseteq Facts
    BY DEF FactsOK, Commit
  <2>2. \A g \in Facts : fact'[g].state # "none" => fact'[g].at # 0
    BY <1>1, <1>4, <1>5 DEF FactsOK
  <2>. QED  BY <1>6, <1>9, <2>1, <2>2 DEF FactsOK, Commit, boundVars, notifyVars
<1>11. /\ owed' = [t \in Tabs |-> IF stored[t].initialized THEN owed[t] \cup {f} ELSE owed[t]]
       /\ blind' = [t \in Tabs |-> IF stored[t].cursor = NoCursor THEN blind[t] \cup {f} ELSE blind[t]]
  BY DEF Commit
<1>12. owed' \in [Tabs -> SUBSET Facts] /\ blind' \in [Tabs -> SUBSET Facts]
  BY <1>11 DEF TabsOK
<1>13. TabsOK'
  BY <1>12 DEF TabsOK, Commit, tabVars, connVars
<1>14. f \notin late' => \A c \in Cursors : Behind([at |-> fact'[f].at, id |-> f], c)
  <2>. SUFFICES ASSUME f \notin late', NEW c \in Cursors
                PROVE  Behind(encodeNotificationCursor(f), c)
    BY <1>5 DEF encodeNotificationCursor
  <2>1. \A g \in Known : ~Behind(encodeNotificationCursor(g), encodeNotificationCursor(f))
    BY DEF Commit, Known
  <2>2. CASE c = NoCursor
    BY <2>2, FactCursor
  <2>3. CASE c # NoCursor
    <3>1. PICK g \in Known : c = encodeNotificationCursor(g)
      BY <2>3 DEF Cursors
    <3>2. g \in Facts /\ g # f /\ ~Later(g, f)
      BY <1>7, <2>1, VisibleIsKnown DEF Later
    <3>3. Later(f, g)
      BY <3>2, LaterOrder
    <3>. QED  BY <3>1, <3>3 DEF Later
  <2>. QED  BY <2>2, <2>3
<1>15. ASSUME NEW t \in Tabs PROVE TabInv(t)'
  <2>1. TabKept(t) /\ got'[t] = got[t]
    BY DEF TabKept, Commit, tabVars, connVars
  <2>2. owed[t] \subseteq Known /\ (~stored[t].initialized => owed[t] = {})
        /\ (stored[t].cursor = NoCursor => owed[t] \subseteq blind[t])
    BY DEF TabInv, KnownTab, PhaseTab, DueTab
  <2>3. /\ owed'[t] \subseteq owed[t] \cup {f} /\ blind[t] \subseteq blind'[t]
        /\ (~stored[t].initialized => owed'[t] = owed[t])
        /\ (stored[t].cursor = NoCursor => blind'[t] = blind[t] \cup {f})
    BY <1>11
  <2>4. owed'[t] \subseteq Known' /\ (~stored[t].initialized => owed'[t] = {})
    BY <1>7, <2>2, <2>3
  <2>5. stored[t].cursor = NoCursor => owed'[t] \subseteq blind'[t]
    BY <2>2, <2>3
  <2>6. \A g \in Due(owed[t], blind[t], got[t])' : g = f \/ g \in Due(owed[t], blind[t], got[t])
    BY <1>7, <1>9, <2>1, <2>3 DEF Due
  <2>7. f \in Due(owed[t], blind[t], got[t])' => f \notin late'
    BY DEF Due
  <2>8. DueTab(stored[t], baseline[t], stream[t], wire[t], owed[t], blind[t], got[t])'
    BY <1>8, <1>14, <2>1, <2>5, <2>6, <2>7, RowsDue
  <2>. QED  BY <1>8, <2>1, <2>4, <2>8, RowsFrame DEF TabInv
<1>. QED  BY <1>10, <1>13, <1>15

LEMMA AnnounceStep ==
    ASSUME FeedInv, NEW f \in Facts, Announce(f)
    PROVE  FeedInv'
<1>. USE DEF FeedInv
<1>1. FactsOK'
  BY DEF FactsOK, Announce, notifyChanged, boundVars
<1>2. TabsOK'
  BY DEF TabsOK, Announce, tabVars, connVars, debtVars
<1>3. ASSUME NEW t \in Tabs PROVE TabInv(t)'
  <2>1. TabKept(t) /\ owed'[t] = owed[t] /\ blind'[t] = blind[t] /\ late' = late /\ fact' = fact
    BY DEF TabKept, Announce, tabVars, connVars, debtVars
  <2>. QED  BY <2>1, TabFrame
<1>. QED  BY <1>1, <1>2, <1>3

-----------------------------------------------------------------------------
(* The tab and its stream.                                                    *)

(* A step of tab u leaves the rows and the other tabs alone.                 *)
LEMMA OneTab ==
    ASSUME FeedInv, NEW u \in Tabs, fact' = fact, late' = late,
           \A t \in Tabs : t # u => TabKept(t) /\ owed'[t] = owed[t] /\ blind'[t] = blind[t],
           FactsOK', TabsOK',
           KnownTab(stored'[u], baseline'[u], source'[u], stream'[u], wire'[u], owed'[u]),
           PhaseTab(stored'[u], baseline'[u], source'[u], stream'[u], wire'[u], owed'[u]),
           ItemsTab(stored'[u]),
           BaselineTab(stored'[u], baseline'[u]),
           WireTab(stored'[u], stream'[u], wire'[u]),
           DueTab(stored'[u], baseline'[u], stream'[u], wire'[u], owed'[u], blind'[u], got'[u]),
           ForgetTab(stored'[u], baseline'[u], stream'[u], wire'[u], cleared'[u])
    PROVE  FeedInv'
<1>1. TabInv(u)'
  BY TabStep
<1>2. ASSUME NEW t \in Tabs, t # u PROVE TabInv(t)'
  BY <1>2, TabFrame DEF FeedInv
<1>. QED  BY <1>1, <1>2 DEF FeedInv

LEMMA NoRange == Range(<<>>) = {} /\ Len(<<>>) = 0 /\ 1..0 = {}
BY DEF Range

LEMMA EmptyPages ==
    ASSUME NEW c
    PROVE  Ascends(<<>>) /\ Beyond(<<>>, c)
BY NoRange DEF Ascends, Beyond

LEMMA Constant ==
    /\ NoCursor \in Cursors /\ NoStream \in StreamState /\ NoSource \in SourceState
    /\ Asking \in BaselineState /\ Following \in BaselineState /\ <<>> \in Seq(Facts)
    /\ Asking.pc = "ask" /\ Asking.page = <<>> /\ Asking.latest = NoCursor
    /\ Following.pc = "follow" /\ Following.page = <<>> /\ Following.latest = NoCursor
    /\ NoStream.pc = "none" /\ NoStream.page = <<>> /\ NoStream.cursor = NoCursor
    /\ NoStream.latest = NoCursor /\ NoStream.first = TRUE
    /\ NoSource.state = "none" /\ NoSource.after = NoCursor /\ NoSource.lastEventID = NoCursor
<1>1. NoCursor \in Cursor /\ NoCursor \in Cursors
  BY NoCursorTyped DEF Cursors
<1>2. <<>> \in Seq(Facts)
  OBVIOUS
<1>. HIDE DEF NoCursor
<1>3. NoStream \in StreamState
  BY <1>1, <1>2 DEF NoStream, StreamState
<1>4. NoSource \in SourceState
  BY <1>1 DEF NoSource, SourceState
<1>5. Asking \in BaselineState /\ Following \in BaselineState
  BY <1>1, <1>2 DEF Asking, Following, BaselineState
<1>. QED  BY <1>1, <1>2, <1>3, <1>4, <1>5 DEF Asking, Following, NoStream, NoSource

(* Without a stream, and without an answer, less is claimed.                 *)
LEMMA HangUpParts ==
    ASSUME NEW s, NEW b, NEW h, NEW w, NEW o, NEW l, NEW g, NEW c,
           DueTab(s, b, h, w, o, l, g), ForgetTab(s, b, h, w, c)
    PROVE  /\ WireTab(s, NoStream, <<>>) /\ DueTab(s, b, NoStream, <<>>, o, l, g)
           /\ ForgetTab(s, b, NoStream, <<>>, c)
<1>1. WireTab(s, NoStream, <<>>)
  BY EmptyPages, NoRange, Constant DEF WireTab
<1>2. DueTab(s, b, NoStream, <<>>, o, l, g)
  BY NoRange, Constant DEF DueTab
<1>3. ForgetTab(s, b, NoStream, <<>>, c)
  BY NoRange, Constant DEF ForgetTab
<1>. QED  BY <1>1, <1>2, <1>3

LEMMA NoAnswerParts ==
    ASSUME NEW s, NEW b, NEW h, NEW w, NEW o, NEW l, NEW g, NEW c, NEW n \in {Asking, Following},
           DueTab(s, b, h, w, o, l, g), ForgetTab(s, b, h, w, c)
    PROVE  BaselineTab(s, n) /\ DueTab(s, n, h, w, o, l, g) /\ ForgetTab(s, n, h, w, c)
<1>1. n.pc \notin {"latest", "answer"} /\ Range(n.page) = {}
  BY Constant, NoRange
<1>2. BaselineTab(s, n)
  BY <1>1 DEF BaselineTab
<1>3. DueTab(s, n, h, w, o, l, g)
  BY <1>1 DEF DueTab
<1>4. ForgetTab(s, n, h, w, c)
  BY <1>1 DEF ForgetTab
<1>. QED  BY <1>2, <1>3, <1>4

LEMMA ListFailsStep ==
    ASSUME FeedInv, NEW u \in Tabs, ListFails(u)
    PROVE  FeedInv'
<1>1. TabInv(u) /\ FactsOK /\ TabsOK
  BY DEF FeedInv
<1>2. baseline' = [baseline EXCEPT ![u] = Asking] /\ baseline[u].pc \in {"ask", "latest"}
      /\ baseline \in [Tabs -> BaselineState]
  BY <1>1 DEF ListFails, TabsOK
<1>3. UNCHANGED <<fact, late, stored, source, stream, wire, owed, blind, got, cleared>>
  BY DEF ListFails, rowVars, connVars, debtVars
<1>4. FactsOK'
  BY <1>1 DEF FactsOK, ListFails, rowVars, notifyVars
<1>5. baseline'[u] = Asking /\ (\A t \in Tabs : t # u => baseline'[t] = baseline[t])
      /\ baseline' \in [Tabs -> BaselineState]
  BY <1>2, Constant
<1>6. TabsOK'
  BY <1>1, <1>3, <1>5 DEF TabsOK
<1>7. \A t \in Tabs : t # u => TabKept(t) /\ owed'[t] = owed[t] /\ blind'[t] = blind[t]
  BY <1>3, <1>5 DEF TabKept
<1>8. /\ KnownTab(stored[u], Asking, source[u], stream[u], wire[u], owed[u])
      /\ PhaseTab(stored[u], Asking, source[u], stream[u], wire[u], owed[u])
  BY <1>1, <1>2, Constant, NoRange DEF TabInv, KnownTab, PhaseTab
<1>9. /\ BaselineTab(stored[u], Asking)
      /\ DueTab(stored[u], Asking, stream[u], wire[u], owed[u], blind[u], got[u])
      /\ ForgetTab(stored[u], Asking, stream[u], wire[u], cleared[u])
  BY <1>1, NoAnswerParts DEF TabInv
<1>10. ItemsTab(stored[u]) /\ WireTab(stored[u], stream[u], wire[u])
  BY <1>1 DEF TabInv
<1>. QED  BY <1>3, <1>4, <1>5, <1>6, <1>7, <1>8, <1>9, <1>10, OneTab

(* Steps after which the stream only stands elsewhere in its loop.           *)
LEMMA StreamMoves ==
    ASSUME FeedInv, NEW u \in Tabs, NEW from \in {"subscribe", "wait"}, NEW to \in {"send", "load"},
           from = "wait" => to = "load",
           stream[u].pc = from, stream' = [stream EXCEPT ![u].pc = to],
           UNCHANGED <<fact, late, stored, baseline, source, wire, owed, blind, got, cleared>>,
           FactsOK'
    PROVE  FeedInv'
<1>1. TabInv(u) /\ FactsOK /\ TabsOK
  BY DEF FeedInv
<1>2. stream \in [Tabs -> StreamState] /\ stream[u] \in StreamState
  BY <1>1 DEF TabsOK
<1>3. stream'[u] = [stream[u] EXCEPT !.pc = to] /\ \A t \in Tabs : t # u => stream'[t] = stream[t]
  BY <1>2
<1>. DEFINE h == stream[u]
            k == stream'[u]
<1>4. /\ k \in StreamState /\ k.pc = to /\ k.cursor = h.cursor /\ k.page = h.page
      /\ k.latest = h.latest /\ k.first = h.first
  BY <1>2, <1>3 DEF StreamState
<1>5. stream' \in [Tabs -> StreamState]
  BY <1>2, <1>3, <1>4
<1>6. TabsOK'
  BY <1>1, <1>5 DEF TabsOK
<1>7. \A t \in Tabs : t # u => TabKept(t) /\ owed'[t] = owed[t] /\ blind'[t] = blind[t]
  BY <1>3 DEF TabKept
<1>. HIDE DEF k
<1>8. KnownTab(stored[u], baseline[u], source[u], k, wire[u], owed[u])
  BY <1>1, <1>4 DEF TabInv, KnownTab
<1>9. PhaseTab(stored[u], baseline[u], source[u], k, wire[u], owed[u])
  BY <1>1, <1>4 DEF TabInv, PhaseTab
<1>10. ItemsTab(stored[u]) /\ BaselineTab(stored[u], baseline[u])
  BY <1>1 DEF TabInv
<1>11. WireTab(stored[u], k, wire[u])
  BY <1>1, <1>4 DEF TabInv, WireTab
<1>12. DueTab(stored[u], baseline[u], k, wire[u], owed[u], blind[u], got[u])
  BY <1>1, <1>4 DEF TabInv, DueTab
<1>13. ForgetTab(stored[u], baseline[u], k, wire[u], cleared[u])
  BY <1>1, <1>4 DEF TabInv, ForgetTab
<1>. QED  BY <1>6, <1>7, <1>8, <1>9, <1>10, <1>11, <1>12, <1>13, OneTab DEF k

LEMMA StreamSubscribeStep ==
    ASSUME FeedInv, NEW u \in Tabs, StreamSubscribe(u)
    PROVE  FeedInv'
<1>1. FactsOK'
  BY DEF FeedInv, FactsOK, StreamSubscribe, SubscribeNotifications, rowVars, boundVars
<1>2. UNCHANGED <<fact, late, stored, baseline, source, wire, owed, blind, got, cleared>>
  BY DEF StreamSubscribe, rowVars, tabVars, debtVars
<1>. QED  BY <1>1, <1>2, StreamMoves DEF StreamSubscribe

LEMMA StreamWakeStep ==
    ASSUME FeedInv, NEW u \in Tabs, StreamWake(u)
    PROVE  FeedInv'
<1>1. FactsOK'
  BY DEF FeedInv, FactsOK, StreamWake, TakeSignal, rowVars, boundVars
<1>2. UNCHANGED <<fact, late, stored, baseline, source, wire, owed, blind, got, cleared>>
  BY DEF StreamWake, rowVars, tabVars, debtVars
<1>. QED  BY <1>1, <1>2, StreamMoves DEF StreamWake

LEMMA StreamHeartbeatStep ==
    ASSUME FeedInv, NEW u \in Tabs, StreamHeartbeat(u)
    PROVE  FeedInv'
<1>1. FactsOK'
  BY DEF FeedInv, FactsOK, StreamHeartbeat, notifyVars, rowVars, boundVars
<1>2. UNCHANGED <<fact, late, stored, baseline, source, wire, owed, blind, got, cleared>>
  BY DEF StreamHeartbeat, rowVars, tabVars, debtVars
<1>. QED  BY <1>1, <1>2, StreamMoves DEF StreamHeartbeat

(* A stream ends; what is on the wire is lost, or can still be received.     *)
LEMMA StreamEnds ==
    ASSUME FeedInv, NEW u \in Tabs, source[u].state = "open",
           NEW to \in {"dead", "reconnecting"}, source' = [source EXCEPT ![u].state = to],
           stream' = [stream EXCEPT ![u] = NoStream],
           NEW w \in {wire[u], <<>>}, wire' = [wire EXCEPT ![u] = w],
           UNCHANGED <<fact, late, stored, baseline, owed, blind, got, cleared>>,
           FactsOK'
    PROVE  FeedInv'
<1>1. TabInv(u) /\ FactsOK /\ TabsOK
  BY DEF FeedInv
<1>2. source \in [Tabs -> SourceState] /\ source[u] \in SourceState /\ stream \in [Tabs -> StreamState]
      /\ wire \in [Tabs -> Seq(Facts)] /\ w \in Seq(Facts)
  <2>1. wire[u] \in Seq(Facts) /\ <<>> \in Seq(Facts)
    BY <1>1, TabTyped, Constant
  <2>. QED  BY <1>1, <2>1 DEF TabsOK
<1>3. source'[u] = [source[u] EXCEPT !.state = to] /\ \A t \in Tabs : t # u => source'[t] = source[t]
  BY <1>2
<1>4. stream'[u] = NoStream /\ wire'[u] = w
      /\ \A t \in Tabs : t # u => stream'[t] = stream[t] /\ wire'[t] = wire[t]
  BY <1>2
<1>. DEFINE e == source[u]
            k == source'[u]
<1>5. k \in SourceState /\ k.state = to /\ k.after = e.after /\ k.lastEventID = e.lastEventID
  BY <1>2, <1>3 DEF SourceState
<1>6. source' \in [Tabs -> SourceState]
  BY <1>2, <1>3, <1>5
<1>7. stream' \in [Tabs -> StreamState] /\ wire' \in [Tabs -> Seq(Facts)]
  BY <1>2, Constant
<1>8. TabsOK'
  BY <1>1, <1>6, <1>7 DEF TabsOK
<1>9. \A t \in Tabs : t # u => TabKept(t) /\ owed'[t] = owed[t] /\ blind'[t] = blind[t]
  BY <1>3, <1>4 DEF TabKept
<1>. HIDE DEF k
<1>10. KnownTab(stored[u], baseline[u], k, NoStream, w, owed[u])
  BY <1>1, <1>5, Constant, NoRange DEF TabInv, KnownTab
<1>11. PhaseTab(stored[u], baseline[u], k, NoStream, w, owed[u])
  BY <1>1, <1>5, Constant DEF TabInv, PhaseTab, Resumes
<1>12. ItemsTab(stored[u]) /\ BaselineTab(stored[u], baseline[u])
  BY <1>1 DEF TabInv
<1>13. WireTab(stored[u], NoStream, w)
  BY <1>1, EmptyPages, Constant DEF TabInv, WireTab
<1>14. DueTab(stored[u], baseline[u], NoStream, w, owed[u], blind[u], got[u])
  BY <1>1, Constant, NoRange DEF TabInv, DueTab
<1>15. ForgetTab(stored[u], baseline[u], NoStream, w, cleared[u])
  BY <1>1, Constant, NoRange DEF TabInv, ForgetTab
<1>. QED  BY <1>4, <1>8, <1>9, <1>10, <1>11, <1>12, <1>13, <1>14, <1>15, OneTab DEF k

LEMMA StreamFailsStep ==
    ASSUME FeedInv, NEW u \in Tabs, StreamFails(u)
    PROVE  FeedInv'
<1>1. FactsOK'
  BY DEF FeedInv, FactsOK, StreamFails, Unsubscribe, rowVars
<1>2. UNCHANGED <<fact, late, stored, baseline, wire, owed, blind, got, cleared>>
  BY DEF StreamFails, rowVars, tabVars, debtVars
<1>3. source[u].state = "open"
  BY DEF FeedInv, TabInv, PhaseTab, StreamFails
<1>. DEFINE to == IF stream[u].first THEN "dead" ELSE "reconnecting"
<1>4. to \in {"dead", "reconnecting"} /\ source' = [source EXCEPT ![u].state = to]
      /\ stream' = [stream EXCEPT ![u] = NoStream]
  BY DEF StreamFails
<1>5. wire' = [wire EXCEPT ![u] = wire[u]]
  BY <1>2 DEF FeedInv, TabsOK
<1>. HIDE DEF to
<1>. QED  BY <1>1, <1>2, <1>3, <1>4, <1>5, StreamEnds

LEMMA ConnectionLostStep ==
    ASSUME FeedInv, NEW u \in Tabs, ConnectionLost(u)
    PROVE  FeedInv'
<1>1. FactsOK'
  BY DEF FeedInv, FactsOK, ConnectionLost, HangUp, Unsubscribe, rowVars
<1>2. UNCHANGED <<fact, late, stored, baseline, owed, blind, got, cleared>>
  BY DEF ConnectionLost, rowVars, tabVars, debtVars
<1>3. source[u].state = "open" /\ source' = [source EXCEPT ![u].state = "reconnecting"]
      /\ stream' = [stream EXCEPT ![u] = NoStream] /\ wire' = [wire EXCEPT ![u] = <<>>]
  BY DEF ConnectionLost, HangUp
<1>. QED  BY <1>1, <1>2, <1>3, StreamEnds

LEMMA PageReloadStep ==
    ASSUME FeedInv, NEW u \in Tabs, PageReload(u)
    PROVE  FeedInv'
<1>1. TabInv(u) /\ FactsOK /\ TabsOK
  BY DEF FeedInv
<1>2. FactsOK'
  BY DEF FeedInv, FactsOK, PageReload, HangUp, Unsubscribe, rowVars
<1>3. UNCHANGED <<fact, late, stored, owed, blind, got, cleared>>
  BY DEF PageReload, rowVars, debtVars
<1>4. /\ baseline' = [baseline EXCEPT ![u] = Asking] /\ source' = [source EXCEPT ![u] = NoSource]
      /\ stream' = [stream EXCEPT ![u] = NoStream] /\ wire' = [wire EXCEPT ![u] = <<>>]
  BY DEF PageReload, HangUp
<1>5. TabsOK'
  BY <1>1, <1>3, <1>4, Constant DEF TabsOK
<1>6. baseline'[u] = Asking /\ source'[u] = NoSource /\ stream'[u] = NoStream /\ wire'[u] = <<>>
  BY <1>1, <1>4 DEF TabsOK
<1>7. \A t \in Tabs : t # u => TabKept(t) /\ owed'[t] = owed[t] /\ blind'[t] = blind[t]
  BY <1>1, <1>3, <1>4 DEF TabKept, TabsOK
<1>8. KnownTab(stored[u], Asking, NoSource, NoStream, <<>>, owed[u])
  BY <1>1, Constant, NoRange DEF TabInv, KnownTab
<1>9. PhaseTab(stored[u], Asking, NoSource, NoStream, <<>>, owed[u])
  BY <1>1, Constant DEF TabInv, PhaseTab
<1>10. ItemsTab(stored[u]) /\ BaselineTab(stored[u], Asking)
  BY <1>1, NoAnswerParts DEF TabInv
<1>11. /\ DueTab(stored[u], Asking, stream[u], wire[u], owed[u], blind[u], got[u])
       /\ ForgetTab(stored[u], Asking, stream[u], wire[u], cleared[u])
  BY <1>1, NoAnswerParts DEF TabInv
<1>12. /\ WireTab(stored[u], NoStream, <<>>)
       /\ DueTab(stored[u], Asking, NoStream, <<>>, owed[u], blind[u], got[u])
       /\ ForgetTab(stored[u], Asking, NoStream, <<>>, cleared[u])
  BY <1>11, HangUpParts
<1>. QED  BY <1>2, <1>3, <1>5, <1>6, <1>7, <1>8, <1>9, <1>10, <1>12, OneTab

(* Clearing: nothing is listed, owed or on its way, so nothing can come back.*)
LEMMA ClearTabStep ==
    ASSUME FeedInv, NEW u \in Tabs, ClearTab(u)
    PROVE  FeedInv'
<1>1. TabInv(u) /\ FactsOK /\ TabsOK
  BY DEF FeedInv
<1>2. FactsOK'
  BY DEF FeedInv, FactsOK, ClearTab, HangUp, Unsubscribe, rowVars, boundVars
<1>3. UNCHANGED <<fact, late, blind, got>>
  BY DEF ClearTab, rowVars
<1>. DEFINE s == stored[u]
            k == [s EXCEPT !.cursor = NoCursor, !.items = <<>>]
            gone == {f \in Facts : fact[f].state = "gone"}
<1>4. /\ baseline' = [baseline EXCEPT ![u] = Asking] /\ source' = [source EXCEPT ![u] = NoSource]
      /\ stream' = [stream EXCEPT ![u] = NoStream] /\ wire' = [wire EXCEPT ![u] = <<>>]
      /\ owed' = [owed EXCEPT ![u] = {}]
  BY DEF ClearTab, HangUp
<1>5. cleared' = [cleared EXCEPT ![u] = gone] /\ stored' = [stored EXCEPT ![u] = k]
  BY <1>1 DEF ClearTab, TabsOK
<1>6. s \in StoredState
  BY <1>1 DEF TabsOK
<1>7. k \in StoredState /\ k.cursor = NoCursor /\ k.items = <<>> /\ k.initialized = s.initialized
  <2>1. <<>> \in Seq(Facts) /\ NoCursor \in Cursor
    BY Constant, NoCursorTyped
  <2>2. PICK q \in Seq(Facts) : q = <<>>
    BY <2>1
  <2>. DEFINE m == [s EXCEPT !.cursor = NoCursor, !.items = q]
  <2>3. k = m
    BY <2>2, Zenon
  <2>4. m \in StoredState /\ m.cursor = NoCursor /\ m.items = q /\ m.initialized = s.initialized
    <3>. HIDE DEF s, NoCursor, k
    <3>. QED  BY <1>6, <2>1 DEF StoredState
  <2>. HIDE DEF m, k
  <2>. QED  BY <2>2, <2>3, <2>4
<1>. HIDE DEF k
<1>8. gone \in SUBSET Facts
  OBVIOUS
<1>9. TabsOK'
  BY <1>1, <1>3, <1>4, <1>5, <1>7, <1>8, Constant DEF TabsOK
<1>10. /\ baseline'[u] = Asking /\ source'[u] = NoSource /\ stream'[u] = NoStream /\ wire'[u] = <<>>
       /\ owed'[u] = {} /\ cleared'[u] = gone /\ stored'[u] = k
  BY <1>1, <1>4, <1>5 DEF TabsOK
<1>11. \A t \in Tabs : t # u => TabKept(t) /\ owed'[t] = owed[t] /\ blind'[t] = blind[t]
  BY <1>1, <1>3, <1>4, <1>5 DEF TabKept, TabsOK
<1>12. KnownTab(k, Asking, NoSource, NoStream, <<>>, {})
  BY <1>7, Constant, NoRange DEF KnownTab
<1>13. PhaseTab(k, Asking, NoSource, NoStream, <<>>, {})
  BY <1>7, Constant DEF PhaseTab
<1>14. ItemsTab(k) /\ BaselineTab(k, Asking) /\ WireTab(k, NoStream, <<>>)
  BY <1>7, Constant, NoRange, EmptyPages DEF ItemsTab, BaselineTab, WireTab
<1>15. DueTab(k, Asking, NoStream, <<>>, {}, blind[u], got[u])
  BY DEF DueTab, Due
<1>16. ForgetTab(k, Asking, NoStream, <<>>, gone)
  BY <1>7, Constant, NoRange DEF ForgetTab
<1>. QED  BY <1>2, <1>3, <1>9, <1>10, <1>11, <1>12, <1>13, <1>14, <1>15, <1>16, OneTab

LEMMA StreamOpenStep ==
    ASSUME FeedInv, NEW u \in Tabs, StreamOpen(u)
    PROVE  FeedInv'
<1>1. TabInv(u) /\ FactsOK /\ TabsOK
  BY DEF FeedInv
<1>2. FactsOK'
  BY DEF FeedInv, FactsOK, StreamOpen, rowVars, boundVars, notifyVars
<1>3. UNCHANGED <<fact, late, stored, baseline, wire, owed, blind, got, cleared>>
  BY DEF StreamOpen, rowVars, tabVars, debtVars
<1>. DEFINE e == source[u]
            c == StreamCursor(u)
            h == [NoStream EXCEPT !.pc = "load", !.cursor = c]
            k == source'[u]
<1>4. /\ e.state # "none" /\ wire[u] = <<>>
      /\ source' = [source EXCEPT ![u].state = "open"] /\ stream' = [stream EXCEPT ![u] = h]
  BY DEF StreamOpen
<1>5. source \in [Tabs -> SourceState] /\ e \in SourceState /\ stream \in [Tabs -> StreamState]
  BY <1>1 DEF TabsOK
<1>6. c = stored[u].cursor /\ c \in Cursors
  BY <1>1, <1>4 DEF TabInv, PhaseTab, KnownTab, Resumes, StreamCursor
<1>7. c \in Cursor
  BY <1>1, <1>6, CursorsTyped
<1>. HIDE DEF c
<1>8. h \in StreamState /\ h.pc = "load" /\ h.cursor = c /\ h.page = <<>> /\ h.latest = NoCursor /\ h.first
  BY <1>7, Constant DEF NoStream, StreamState
<1>9. k = [e EXCEPT !.state = "open"] /\ \A t \in Tabs : t # u => source'[t] = source[t]
  BY <1>4, <1>5
<1>10. k \in SourceState /\ k.state = "open" /\ k.after = e.after /\ k.lastEventID = e.lastEventID
  BY <1>5, <1>9 DEF SourceState
<1>. HIDE DEF h
<1>11. source' \in [Tabs -> SourceState] /\ stream' \in [Tabs -> StreamState]
  BY <1>4, <1>5, <1>8, <1>10
<1>12. TabsOK'
  BY <1>1, <1>3, <1>11 DEF TabsOK
<1>13. stream'[u] = h /\ \A t \in Tabs : t # u => stream'[t] = stream[t]
  BY <1>4, <1>5
<1>14. \A t \in Tabs : t # u => TabKept(t) /\ owed'[t] = owed[t] /\ blind'[t] = blind[t]
  BY <1>3, <1>9, <1>13 DEF TabKept
<1>. HIDE DEF k
<1>15. KnownTab(stored[u], baseline[u], k, h, wire[u], owed[u])
  BY <1>1, <1>6, <1>8, <1>10, Constant, NoRange DEF TabInv, KnownTab
<1>16. PhaseTab(stored[u], baseline[u], k, h, wire[u], owed[u])
  BY <1>1, <1>4, <1>6, <1>8, <1>10 DEF TabInv, PhaseTab, Resumes
<1>17. ItemsTab(stored[u]) /\ BaselineTab(stored[u], baseline[u])
  BY <1>1 DEF TabInv
<1>18. ~Behind(c, c)
  BY <1>7, BehindIsStrict
<1>19. WireTab(stored[u], h, wire[u])
  BY <1>4, <1>6, <1>8, <1>18, NoRange, EmptyPages DEF WireTab
<1>20. DueTab(stored[u], baseline[u], h, wire[u], owed[u], blind[u], got[u])
  BY <1>1, <1>4, <1>6, <1>8, NoRange DEF TabInv, DueTab
<1>21. ForgetTab(stored[u], baseline[u], h, wire[u], cleared[u])
  BY <1>1, <1>8, NoRange DEF TabInv, ForgetTab
<1>. QED  BY <1>2, <1>3, <1>12, <1>13, <1>14, <1>15, <1>16, <1>17, <1>19, <1>20, <1>21, OneTab DEF k

(* A page that was just read, and what the tab or the stream knows of it.    *)
LEMMA FreshPage ==
    ASSUME FactsOK, NEW after \in Cursor, NEW limit \in Nat, limit >= 1,
           NEW p, p = ListNotifications(after, limit)
    PROVE  /\ p \in Seq(Facts) /\ Range(p) \subseteq Visible /\ Range(p) \subseteq Known
           /\ Ascends(p) /\ Beyond(p, after)
           /\ PageCursor(p) \in Cursors /\ PageCursor(p) \in Cursor
           /\ p # <<>> => PageCursor(p) # NoCursor
           /\ p # <<>> => ~Behind(after, PageCursor(p))
           /\ \A i \in 1..Len(p) : ~Behind(encodeNotificationCursor(p[i]), PageCursor(p))
           /\ \A f \in Visible : Behind(encodeNotificationCursor(f), after) =>
                  f \in Range(p) \/ \A g \in Range(p) : Later(f, g)
           /\ \A f \in Visible : Behind(encodeNotificationCursor(f), after) /\ p # <<>> =>
                  f \in Range(p) \/ Behind(encodeNotificationCursor(f), PageCursor(p))
<1>1. p \in Seq(Facts) /\ Range(p) \subseteq Visible
  BY PageFacts
<1>2. Ascends(p) /\ Beyond(p, after)
  BY PageFacts
<1>3. \A f \in Visible : Behind(encodeNotificationCursor(f), after) =>
         f \in Range(p) \/ \A g \in Range(p) : Later(f, g)
  BY PageFacts
<1>4. Range(p) \subseteq Known
  BY <1>1, VisibleIsKnown
<1>5. PageCursor(p) \in Cursors /\ (p # <<>> => PageCursor(p) # NoCursor)
  BY <1>1, <1>2, <1>4, PageCursorIsLast
<1>6. PageCursor(p) \in Cursor
  BY <1>5, CursorsTyped
<1>7. p # <<>> => /\ Len(p) \in Nat /\ Len(p) >= 1
                  /\ PageCursor(p) = encodeNotificationCursor(p[Len(p)]) /\ p[Len(p)] \in Range(p)
  BY <1>1, <1>2, <1>4, PageCursorIsLast
<1>8. p # <<>> => Behind(PageCursor(p), after)
  BY <1>2, <1>7 DEF Beyond
<1>9. p # <<>> => ~Behind(after, PageCursor(p))
  BY <1>6, <1>8, BehindIsStrict
<1>10. \A i \in 1..Len(p) : ~Behind(encodeNotificationCursor(p[i]), PageCursor(p))
  <2>1. CASE p = <<>>
    BY <2>1
  <2>2. CASE p # <<>>
    BY <1>1, <1>2, <1>4, <2>2, PageCursorIsLast
  <2>. QED  BY <2>1, <2>2
<1>11. \A f \in Visible : Behind(encodeNotificationCursor(f), after) /\ p # <<>> =>
          f \in Range(p) \/ Behind(encodeNotificationCursor(f), PageCursor(p))
  BY <1>3, <1>7 DEF Later
<1>. QED  BY <1>1, <1>2, <1>3, <1>4, <1>5, <1>6, <1>9, <1>10, <1>11

LEMMA DueIsVisible ==
    ASSUME NEW o, NEW l, NEW g
    PROVE  Due(o, l, g) \subseteq Visible /\ (o \subseteq l => Due(o, l, g) = {})
BY DEF Due

LEMMA VisibleNotCleared ==
    ASSUME NEW c, \A f \in c : fact[f].state = "gone", NEW S \in SUBSET Visible
    PROVE  S \cap c = {}
BY DEF Visible

LEMMA ListPageStep ==
    ASSUME FeedInv, NEW u \in Tabs, ListPage(u)
    PROVE  FeedInv'
<1>1. TabInv(u) /\ FactsOK /\ TabsOK
  BY DEF FeedInv
<1>2. FactsOK'
  BY <1>1 DEF FactsOK, ListPage, rowVars, boundVars, notifyVars
<1>3. UNCHANGED <<fact, late, stored, source, stream, wire, owed, blind, got, cleared>>
  BY DEF ListPage, rowVars, connVars, debtVars
<1>. DEFINE s == stored[u]
            p == ListNotifications(s.cursor, ListLimit)
            b == [pc |-> IF s.cursor = NoCursor THEN "latest" ELSE "answer",
                  page |-> p, latest |-> PageCursor(p)]
<1>4. baseline' = [baseline EXCEPT ![u] = b] /\ baseline[u].pc = "ask"
  BY DEF ListPage
<1>5. s.cursor \in Cursor /\ ListLimit \in Nat /\ ListLimit >= 1
  BY <1>1, ConstantsTyped, PartsTyped
<1>6. b.pc \in {"latest", "answer"} /\ b.page = p /\ b.latest = PageCursor(p)
      /\ (b.pc = "latest" <=> s.cursor = NoCursor)
  OBVIOUS
<1>. HIDE DEF s
<1>7. p \in Seq(Facts) /\ Range(p) \subseteq Visible /\ Range(p) \subseteq Known
  BY <1>1, <1>5, FreshPage
<1>8. Ascends(p) /\ Beyond(p, s.cursor)
  BY <1>1, <1>5, FreshPage
<1>9. PageCursor(p) \in Cursors /\ PageCursor(p) \in Cursor
  BY <1>1, <1>5, FreshPage
<1>10. p # <<>> => PageCursor(p) # NoCursor /\ ~Behind(s.cursor, PageCursor(p))
  BY <1>1, <1>5, FreshPage
<1>11. \A i \in 1..Len(p) : ~Behind(encodeNotificationCursor(p[i]), PageCursor(p))
  BY <1>1, <1>5, FreshPage
<1>12. \A f \in Visible : Behind(encodeNotificationCursor(f), s.cursor) /\ p # <<>> =>
          f \in Range(p) \/ Behind(encodeNotificationCursor(f), PageCursor(p))
  BY <1>1, <1>5, FreshPage
<1>13. b \in BaselineState
  BY <1>7, <1>9 DEF BaselineState
<1>. HIDE DEF b, p
<1>14. baseline'[u] = b /\ (\A t \in Tabs : t # u => baseline'[t] = baseline[t])
       /\ baseline' \in [Tabs -> BaselineState]
  BY <1>1, <1>4, <1>13 DEF TabsOK
<1>15. TabsOK'
  BY <1>1, <1>3, <1>14 DEF TabsOK
<1>16. \A t \in Tabs : t # u => TabKept(t) /\ owed'[t] = owed[t] /\ blind'[t] = blind[t]
  BY <1>3, <1>14 DEF TabKept
<1>17. KnownTab(s, b, source[u], stream[u], wire[u], owed[u])
  BY <1>1, <1>6, <1>7, <1>9 DEF TabInv, KnownTab, s
<1>18. PhaseTab(s, b, source[u], stream[u], wire[u], owed[u])
  BY <1>1, <1>4, <1>6 DEF TabInv, PhaseTab, s
<1>19. ItemsTab(s) /\ WireTab(s, stream[u], wire[u])
  BY <1>1 DEF TabInv, s
<1>20. BaselineTab(s, b)
  BY <1>6, <1>8, <1>10, <1>11 DEF BaselineTab
<1>21. DueTab(s, b, stream[u], wire[u], owed[u], blind[u], got[u])
  <2>1. DueTab(s, baseline[u], stream[u], wire[u], owed[u], blind[u], got[u])
    BY <1>1 DEF TabInv, s
  <2>2. Due(owed[u], blind[u], got[u]) \subseteq Visible
    BY DueIsVisible
  <2>3. \A f \in Due(owed[u], blind[u], got[u]) : p # <<>> =>
           f \in Range(p) \/ Behind(encodeNotificationCursor(f), PageCursor(p))
    BY <1>12, <2>1, <2>2 DEF DueTab
  <2>. QED  BY <1>6, <2>1, <2>3 DEF DueTab
<1>22. ForgetTab(s, b, stream[u], wire[u], cleared[u])
  <2>1. ForgetTab(s, baseline[u], stream[u], wire[u], cleared[u])
    BY <1>1 DEF TabInv, s
  <2>2. Range(p) \cap cleared[u] = {}
    BY <1>7, <2>1, VisibleNotCleared DEF ForgetTab
  <2>. QED  BY <1>6, <2>1, <2>2 DEF ForgetTab
<1>. QED  BY <1>2, <1>3, <1>14, <1>15, <1>16, <1>17, <1>18, <1>19, <1>20, <1>21, <1>22, OneTab DEF s

LEMMA ListLatestStep ==
    ASSUME FeedInv, NEW u \in Tabs, ListLatest(u)
    PROVE  FeedInv'
<1>1. TabInv(u) /\ FactsOK /\ TabsOK
  BY DEF FeedInv
<1>2. FactsOK'
  BY <1>1 DEF FactsOK, ListLatest, rowVars, boundVars, notifyVars
<1>3. UNCHANGED <<fact, late, stored, source, stream, wire, owed, blind, got, cleared>>
  BY DEF ListLatest, rowVars, connVars, debtVars
<1>. DEFINE s == stored[u]
            a == baseline[u]
            b == baseline'[u]
<1>4. baseline' = [baseline EXCEPT ![u].pc = "answer",
                                   ![u].latest = IF Visible = {} THEN @ ELSE LatestCursor]
      /\ a.pc = "latest"
  BY DEF ListLatest
<1>5. baseline \in [Tabs -> BaselineState] /\ a \in BaselineState
  BY <1>1 DEF TabsOK
<1>6. LatestCursor \in Cursors /\ (Visible # {} => LatestCursor # NoCursor)
      /\ \A f \in Visible : ~Behind(encodeNotificationCursor(f), LatestCursor)
  BY <1>1, LatestIsNewest
<1>7. LatestCursor \in Cursor
  BY <1>1, <1>6, CursorsTyped
<1>8. b = [a EXCEPT !.pc = "answer", !.latest = IF Visible = {} THEN a.latest ELSE LatestCursor]
      /\ \A t \in Tabs : t # u => baseline'[t] = baseline[t]
  BY <1>4, <1>5
<1>9. b \in BaselineState /\ b.pc = "answer" /\ b.page = a.page
      /\ b.latest = IF Visible = {} THEN a.latest ELSE LatestCursor
  BY <1>5, <1>7, <1>8 DEF BaselineState
<1>10. baseline' \in [Tabs -> BaselineState]
  BY <1>4, <1>5, <1>8, <1>9
<1>11. TabsOK'
  BY <1>1, <1>3, <1>10 DEF TabsOK
<1>12. \A t \in Tabs : t # u => TabKept(t) /\ owed'[t] = owed[t] /\ blind'[t] = blind[t]
  BY <1>3, <1>8 DEF TabKept
<1>. HIDE DEF b
<1>13. b.latest \in Cursors /\ b.latest \in Cursor
  BY <1>1, <1>6, <1>7, <1>9, CursorsTyped DEF TabInv, KnownTab
<1>14. KnownTab(s, b, source[u], stream[u], wire[u], owed[u])
  BY <1>1, <1>9, <1>13 DEF TabInv, KnownTab
<1>15. PhaseTab(s, b, source[u], stream[u], wire[u], owed[u]) /\ s.cursor = NoCursor
  BY <1>1, <1>4, <1>9 DEF TabInv, PhaseTab
<1>16. ItemsTab(s) /\ WireTab(s, stream[u], wire[u]) /\ BaselineTab(s, a)
  BY <1>1 DEF TabInv
<1>17. BaselineTab(s, b)
  <2>1. ~Behind(s.cursor, b.latest)
    BY <1>13, <1>15, NotBehindNoCursor
  <2>2. \A f \in Visible : ~Behind(encodeNotificationCursor(f), b.latest)
    BY <1>6, <1>9
  <2>3. Ascends(a.page) /\ Beyond(a.page, s.cursor) /\ (a.page # <<>> => a.latest # NoCursor)
    BY <1>4, <1>16 DEF BaselineTab
  <2>4. a.page # <<>> => b.latest # NoCursor
    BY <1>6, <1>9, <2>3
  <2>. HIDE DEF a, s
  <2>. QED  BY <1>9, <2>1, <2>2, <2>3, <2>4 DEF BaselineTab
<1>18. DueTab(s, b, stream[u], wire[u], owed[u], blind[u], got[u])
  <2>1. owed[u] \subseteq blind[u]
    BY <1>1, <1>15 DEF TabInv, DueTab
  <2>2. Due(owed[u], blind[u], got[u]) = {}
    BY <2>1, DueIsVisible
  <2>. QED  BY <2>1, <2>2 DEF DueTab
<1>19. ForgetTab(s, b, stream[u], wire[u], cleared[u])
  BY <1>1, <1>9 DEF TabInv, ForgetTab
<1>. QED  BY <1>2, <1>3, <1>11, <1>12, <1>14, <1>15, <1>16, <1>17, <1>18, <1>19, OneTab DEF b

LEMMA StreamLoadStep ==
    ASSUME FeedInv, NEW u \in Tabs, StreamLoad(u)
    PROVE  FeedInv'
<1>1. TabInv(u) /\ FactsOK /\ TabsOK
  BY DEF FeedInv
<1>2. FactsOK'
  BY <1>1 DEF FactsOK, StreamLoad, rowVars, boundVars, notifyVars
<1>3. UNCHANGED <<fact, late, stored, baseline, source, wire, owed, blind, got, cleared>>
  BY DEF StreamLoad, rowVars, tabVars, debtVars
<1>. DEFINE s == stored[u]
            h == stream[u]
            k == stream'[u]
            p == ListNotifications(h.cursor, StreamLimit)
            q == IF h.cursor = NoCursor THEN LatestCursor ELSE PageCursor(p)
            to == IF h.first THEN "subscribe" ELSE "send"
<1>4. stream' = [stream EXCEPT ![u].pc = to, ![u].page = p, ![u].latest = q] /\ h.pc = "load"
  BY DEF StreamLoad
<1>5. stream \in [Tabs -> StreamState] /\ h \in StreamState /\ h.cursor \in Cursor
      /\ StreamLimit \in Nat /\ StreamLimit >= 1
  BY <1>1, ConstantsTyped, PartsTyped DEF TabsOK
<1>. HIDE DEF h
<1>6. p \in Seq(Facts) /\ Range(p) \subseteq Visible /\ Range(p) \subseteq Known
  BY <1>1, <1>5, FreshPage
<1>7. Ascends(p) /\ Beyond(p, h.cursor)
  BY <1>1, <1>5, FreshPage
<1>8. PageCursor(p) \in Cursors
  BY <1>1, <1>5, FreshPage
<1>9. \A f \in Visible : Behind(encodeNotificationCursor(f), h.cursor) =>
         f \in Range(p) \/ \A g \in Range(p) : Later(f, g)
  BY <1>1, <1>5, FreshPage
<1>10. q \in Cursors
  BY <1>1, <1>8, LatestIsNewest
<1>11. q \in Cursor
  BY <1>1, <1>10, CursorsTyped
<1>. HIDE DEF p, q
<1>12. k = [h EXCEPT !.pc = to, !.page = p, !.latest = q]
       /\ \A t \in Tabs : t # u => stream'[t] = stream[t]
  BY <1>4, <1>5 DEF h
<1>13. k \in StreamState /\ k.pc \in {"subscribe", "send"} /\ k.page = p /\ k.latest = q
       /\ k.cursor = h.cursor /\ k.first = h.first
  BY <1>5, <1>6, <1>11, <1>12 DEF StreamState
<1>14. stream' \in [Tabs -> StreamState]
  BY <1>4, <1>5, <1>12, <1>13
<1>15. TabsOK'
  BY <1>1, <1>3, <1>14 DEF TabsOK
<1>16. \A t \in Tabs : t # u => TabKept(t) /\ owed'[t] = owed[t] /\ blind'[t] = blind[t]
  BY <1>3, <1>12 DEF TabKept
<1>. HIDE DEF k
<1>17. KnownTab(s, baseline[u], source[u], k, wire[u], owed[u])
  BY <1>1, <1>6, <1>10, <1>13 DEF TabInv, KnownTab, h
<1>18. PhaseTab(s, baseline[u], source[u], k, wire[u], owed[u])
  BY <1>1, <1>4, <1>13 DEF TabInv, PhaseTab, h
<1>19. ItemsTab(s) /\ BaselineTab(s, baseline[u])
  BY <1>1 DEF TabInv
<1>20. WireTab(s, k, wire[u])
  BY <1>1, <1>4, <1>7, <1>13 DEF TabInv, WireTab, h
<1>21. DueTab(s, baseline[u], k, wire[u], owed[u], blind[u], got[u])
  <2>1. DueTab(s, baseline[u], h, wire[u], owed[u], blind[u], got[u])
    BY <1>1 DEF TabInv, h
  <2>2. Due(owed[u], blind[u], got[u]) \subseteq Visible
    BY DueIsVisible
  <2>3. \A f \in Due(owed[u], blind[u], got[u]) :
           f \in Range(wire[u]) \/ Behind(encodeNotificationCursor(f), h.cursor)
    BY <1>4, <2>1 DEF DueTab
  <2>4. \A f \in Due(owed[u], blind[u], got[u]) :
           f \in Range(wire[u]) \/ f \in Range(p) \/ \A x \in Range(p) : Later(f, x)
    BY <1>9, <2>2, <2>3
  <2>. QED  BY <1>13, <2>1, <2>3, <2>4 DEF DueTab
<1>22. ForgetTab(s, baseline[u], k, wire[u], cleared[u])
  <2>1. ForgetTab(s, baseline[u], h, wire[u], cleared[u])
    BY <1>1 DEF TabInv, h
  <2>2. Range(p) \cap cleared[u] = {}
    BY <1>6, <2>1, VisibleNotCleared DEF ForgetTab
  <2>. QED  BY <1>13, <2>1, <2>2 DEF ForgetTab
<1>. QED  BY <1>2, <1>3, <1>15, <1>16, <1>17, <1>18, <1>19, <1>20, <1>21, <1>22, OneTab DEF k

LEMMA Concatenated ==
    ASSUME NEW S, NEW w \in Seq(S), NEW p \in Seq(S)
    PROVE  /\ w \o p \in Seq(S) /\ Range(w \o p) = Range(w) \cup Range(p)
           /\ Len(w) \in Nat /\ Len(p) \in Nat
           /\ \A i \in 1..Len(w \o p) :
                 \/ i \in 1..Len(w) /\ (w \o p)[i] = w[i]
                 \/ i > Len(w) /\ i - Len(w) \in 1..Len(p) /\ (w \o p)[i] = p[i - Len(w)]
<1>1. w \o p \in Seq(S) /\ Len(w \o p) = Len(w) + Len(p) /\ Len(w) \in Nat /\ Len(p) \in Nat
  OBVIOUS
<1>2. \A i \in 1..Len(w \o p) :
         \/ i \in 1..Len(w) /\ (w \o p)[i] = w[i]
         \/ i > Len(w) /\ i - Len(w) \in 1..Len(p) /\ (w \o p)[i] = p[i - Len(w)]
  OBVIOUS
<1>3. \A i \in 1..Len(w) : i \in 1..Len(w \o p) /\ (w \o p)[i] = w[i]
  OBVIOUS
<1>4. \A i \in 1..Len(p) : i + Len(w) \in 1..Len(w \o p) /\ (w \o p)[i + Len(w)] = p[i]
  OBVIOUS
<1>. DEFINE z == w \o p
<1>5. /\ \A x : x \in Range(w) <=> \E i \in 1..Len(w) : x = w[i]
      /\ \A x : x \in Range(p) <=> \E i \in 1..Len(p) : x = p[i]
  BY DEF Range
<1>6. \A x : x \in Range(z) <=> \E i \in 1..Len(z) : x = z[i]
  BY <1>1 DEF Range
<1>. HIDE DEF z
<1>7. \A x : x \in Range(z) => x \in Range(w) \/ x \in Range(p)
  BY <1>2, <1>5, <1>6 DEF z
<1>8. \A x : x \in Range(w) => x \in Range(z)
  BY <1>3, <1>5, <1>6 DEF z
<1>9. \A x : x \in Range(p) => x \in Range(z)
  BY <1>4, <1>5, <1>6 DEF z
<1>10. Range(w \o p) = Range(w) \cup Range(p)
  BY <1>7, <1>8, <1>9 DEF z
<1>. QED  BY <1>1, <1>2, <1>10


(* The page follows what is on the wire already.                             *)
LEMMA SentPage ==
    ASSUME FactsOK, NEW w \in Seq(Facts), NEW p \in Seq(Facts), NEW s \in Cursor, NEW c \in Cursor,
           Ascends(w), Beyond(w, s), ~Behind(s, c),
           \A i \in 1..Len(w) : ~Behind(encodeNotificationCursor(w[i]), c),
           Ascends(p), Beyond(p, c)
    PROVE  Ascends(w \o p) /\ Beyond(w \o p, s)
<1>1. Len(w) \in Nat /\ Len(p) \in Nat
  BY Concatenated
<1>2. \A i \in 1..Len(w \o p) :
         \/ i \in 1..Len(w) /\ (w \o p)[i] = w[i]
         \/ i > Len(w) /\ i - Len(w) \in 1..Len(p) /\ (w \o p)[i] = p[i - Len(w)]
  BY Concatenated
<1>3. /\ \A i \in 1..Len(w) : encodeNotificationCursor(w[i]) \in Cursor
      /\ \A i \in 1..Len(p) : encodeNotificationCursor(p[i]) \in Cursor
  BY FactCursor
<1>4. \A i \in 1..Len(p) : Behind(encodeNotificationCursor(p[i]), s)
  BY <1>3, BehindThenNotBefore DEF Beyond
<1>5. \A i \in 1..Len(w), j \in 1..Len(p) : Later(p[j], w[i])
  BY <1>3, BehindThenNotBefore DEF Beyond, Later
<1>. DEFINE z == w \o p
<1>6. Len(z) \in Nat
  BY Concatenated
<1>. HIDE DEF z
<1>7. \A i \in 1..Len(z) :
         \/ i \in 1..Len(w) /\ z[i] = w[i]
         \/ i > Len(w) /\ i - Len(w) \in 1..Len(p) /\ z[i] = p[i - Len(w)]
  BY <1>2 DEF z
<1>8. Beyond(z, s)
  BY <1>4, <1>7 DEF Beyond
<1>9. ASSUME NEW i \in 1..Len(z), NEW j \in 1..Len(z), i < j PROVE Later(z[j], z[i])
  <2>1. CASE j \in 1..Len(w)
    <3>1. i \in 1..Len(w) /\ z[i] = w[i] /\ z[j] = w[j]
      BY <1>1, <1>6, <1>7, <1>9, <2>1
    <3>. QED  BY <1>9, <2>1, <3>1 DEF Ascends
  <2>2. CASE i \in 1..Len(w) /\ j \notin 1..Len(w)
    <3>1. z[i] = w[i] /\ j - Len(w) \in 1..Len(p) /\ z[j] = p[j - Len(w)]
      BY <1>1, <1>6, <1>7, <2>2
    <3>. QED  BY <1>5, <2>2, <3>1
  <2>3. CASE i \notin 1..Len(w)
    <3>1. i - Len(w) \in 1..Len(p) /\ z[i] = p[i - Len(w)] /\ i > Len(w)
      BY <1>7, <2>3
    <3>2. j \notin 1..Len(w)
      BY <1>1, <1>6, <1>9, <3>1
    <3>3. j - Len(w) \in 1..Len(p) /\ z[j] = p[j - Len(w)]
      BY <1>7, <3>2
    <3>4. i - Len(w) < j - Len(w)
      BY <1>1, <1>6, <1>9
    <3>. QED  BY <3>1, <3>3, <3>4 DEF Ascends
  <2>. QED  BY <1>1, <1>6, <1>9, <2>1, <2>2, <2>3
<1>10. Ascends(z)
  BY <1>9 DEF Ascends
<1>. QED  BY <1>8, <1>10 DEF z

LEMMA StreamSendStep ==
    ASSUME FeedInv, NEW u \in Tabs, StreamSend(u)
    PROVE  FeedInv'
<1>1. TabInv(u) /\ FactsOK /\ TabsOK
  BY DEF FeedInv
<1>2. FactsOK'
  BY <1>1 DEF FactsOK, StreamSend, rowVars, boundVars, notifyVars
<1>3. UNCHANGED <<fact, late, stored, baseline, source, owed, blind, got, cleared>>
  BY DEF StreamSend, rowVars, tabVars, debtVars
<1>. DEFINE s == stored[u]
            h == stream[u]
            w == wire[u]
            p == h.page
            fresh == h.first /\ h.cursor = NoCursor
            to == IF fresh THEN h.latest ELSE IF p = <<>> THEN h.cursor ELSE PageCursor(p)
            k == [NoStream EXCEPT !.pc = "wait", !.first = FALSE, !.cursor = to]
            v == IF fresh THEN w ELSE w \o p
<1>4. h.pc = "send" /\ wire' = [wire EXCEPT ![u] = v] /\ stream' = [stream EXCEPT ![u] = k]
  BY <1>1 DEF StreamSend, TabsOK
<1>5. h \in StreamState /\ w \in Seq(Facts) /\ p \in Seq(Facts) /\ h.cursor \in Cursor
      /\ s.cursor \in Cursor /\ h.latest \in Cursor
  BY <1>1, TabTyped, PartsTyped
<1>6. Range(p) \subseteq Known /\ Range(w) \subseteq Known /\ h.latest \in Cursors /\ h.cursor \in Cursors
  BY <1>1 DEF TabInv, KnownTab
<1>7. Ascends(p) /\ Beyond(p, h.cursor)
  BY <1>1, <1>4 DEF TabInv, WireTab
<1>8. Ascends(w) /\ Beyond(w, s.cursor) /\ ~Behind(s.cursor, h.cursor)
      /\ \A i \in 1..Len(w) : ~Behind(encodeNotificationCursor(w[i]), h.cursor)
  BY <1>1, <1>4 DEF TabInv, WireTab
<1>9. fresh => s.cursor = NoCursor /\ w = <<>>
  BY <1>1, <1>4 DEF TabInv, PhaseTab
<1>10. PageCursor(p) \in Cursors
  BY <1>1, <1>5, <1>6, <1>7, PageCursorIsLast
<1>11. DueTab(s, baseline[u], h, w, owed[u], blind[u], got[u])
       /\ ForgetTab(s, baseline[u], h, w, cleared[u])
  BY <1>1 DEF TabInv
<1>. HIDE DEF s, h, w, p, fresh
<1>12. to \in Cursors
  BY <1>6, <1>10
<1>13. to \in Cursor
  BY <1>1, <1>12, CursorsTyped
<1>14. w \o p \in Seq(Facts) /\ Range(w \o p) = Range(w) \cup Range(p)
  BY <1>5, Concatenated
<1>15. v \in Seq(Facts) /\ Range(v) \subseteq Range(w) \cup Range(p)
  BY <1>5, <1>14
<1>. HIDE DEF to, v
<1>16. k \in StreamState /\ k.pc = "wait" /\ k.cursor = to /\ k.page = <<>> /\ k.latest = NoCursor /\ ~k.first
  BY <1>13, Constant DEF NoStream, StreamState
<1>. HIDE DEF k
<1>17. stream'[u] = k /\ wire'[u] = v /\ TabsOK'
       /\ \A t \in Tabs : t # u => stream'[t] = stream[t] /\ wire'[t] = wire[t]
  BY <1>1, <1>3, <1>4, <1>15, <1>16 DEF TabsOK
<1>18. \A t \in Tabs : t # u => TabKept(t) /\ owed'[t] = owed[t] /\ blind'[t] = blind[t]
  BY <1>3, <1>17 DEF TabKept
<1>19. KnownTab(s, baseline[u], source[u], k, v, owed[u])
  BY <1>1, <1>6, <1>12, <1>15, <1>16, Constant, NoRange DEF TabInv, KnownTab, s
<1>20. PhaseTab(s, baseline[u], source[u], k, v, owed[u])
  BY <1>1, <1>4, <1>16 DEF TabInv, PhaseTab, s, h
<1>21. ItemsTab(s) /\ BaselineTab(s, baseline[u])
  BY <1>1 DEF TabInv, s
<1>22. ForgetTab(s, baseline[u], k, v, cleared[u])
  BY <1>11, <1>15, <1>16, NoRange DEF ForgetTab, p
<1>23. WireTab(s, k, v) /\ DueTab(s, baseline[u], k, v, owed[u], blind[u], got[u])
  <2>1. CASE fresh
    <3>1. s.cursor = NoCursor /\ v = <<>> /\ w = <<>>
      BY <1>9, <2>1 DEF v
    <3>2. ~Behind(s.cursor, to)
      BY <1>13, <3>1, NotBehindNoCursor
    <3>3. WireTab(s, k, v)
      BY <1>16, <3>1, <3>2, EmptyPages, NoRange DEF WireTab
    <3>4. owed[u] \subseteq blind[u]
      BY <1>11, <3>1 DEF DueTab
    <3>5. Due(owed[u], blind[u], got[u]) = {}
      BY <3>4, DueIsVisible
    <3>. QED  BY <3>3, <3>4, <3>5 DEF DueTab
  <2>2. CASE ~fresh /\ p = <<>>
    <3>1. v = w /\ to = h.cursor
      BY <1>5, <2>2 DEF v, to
    <3>2. WireTab(s, k, v)
      BY <1>8, <1>16, <3>1 DEF WireTab
    <3>. QED  BY <1>4, <1>11, <1>16, <3>1, <3>2 DEF DueTab
  <2>3. CASE ~fresh /\ p # <<>>
    <3>1. v = w \o p /\ to = PageCursor(p)
      BY <2>3 DEF v, to
    <3>2. Ascends(v) /\ Beyond(v, s.cursor)
      BY <1>1, <1>5, <1>7, <1>8, <3>1, SentPage
    <3>3. /\ Len(p) \in Nat /\ Len(p) >= 1
          /\ PageCursor(p) = encodeNotificationCursor(p[Len(p)]) /\ p[Len(p)] \in Range(p)
      BY <1>1, <1>5, <1>6, <1>7, <2>3, PageCursorIsLast
    <3>4. \A i \in 1..Len(p) : ~Behind(encodeNotificationCursor(p[i]), PageCursor(p))
      BY <1>1, <1>5, <1>6, <1>7, <2>3, PageCursorIsLast
    <3>5. Behind(to, h.cursor)
      BY <1>7, <3>1, <3>3 DEF Beyond
    <3>6. ~Behind(s.cursor, to)
      <4>1. Behind(to, s.cursor)
        BY <1>5, <1>8, <1>13, <3>5, BehindThenNotBefore
      <4>. QED  BY <1>5, <1>13, <4>1, BehindIsStrict
    <3>7. \A i \in 1..Len(w) : ~Behind(encodeNotificationCursor(w[i]), to)
      <4>. SUFFICES ASSUME NEW i \in 1..Len(w) PROVE ~Behind(encodeNotificationCursor(w[i]), to)
        OBVIOUS
      <4>1. encodeNotificationCursor(w[i]) \in Cursor
        BY <1>1, <1>5, FactCursor
      <4>2. Behind(to, encodeNotificationCursor(w[i]))
        BY <1>5, <1>8, <1>13, <3>5, <4>1, BehindThenNotBefore
      <4>. QED  BY <1>13, <4>1, <4>2, BehindIsStrict
    <3>8. \A i \in 1..Len(v) : ~Behind(encodeNotificationCursor(v[i]), to)
      <4>1. \A i \in 1..Len(w \o p) :
              \/ i \in 1..Len(w) /\ (w \o p)[i] = w[i]
              \/ i > Len(w) /\ i - Len(w) \in 1..Len(p) /\ (w \o p)[i] = p[i - Len(w)]
        BY <1>5, Concatenated
      <4>2. \A i \in 1..Len(v) :
              \/ i \in 1..Len(w) /\ v[i] = w[i]
              \/ i > Len(w) /\ i - Len(w) \in 1..Len(p) /\ v[i] = p[i - Len(w)]
        BY <3>1, <4>1
      <4>. QED  BY <3>1, <3>4, <3>7, <4>2
    <3>9. WireTab(s, k, v)
      BY <1>16, <3>2, <3>6, <3>8 DEF WireTab
    <3>10. ASSUME NEW f \in Due(owed[u], blind[u], got[u]), f \notin Range(v)
           PROVE  Behind(encodeNotificationCursor(f), to) /\ \A x \in Range(v) : Later(f, x)
      <4>1. f \notin Range(w) /\ f \notin Range(p) /\ Range(v) = Range(w) \cup Range(p)
        BY <1>14, <3>1, <3>10
      <4>2. /\ \A x \in Range(w) : Later(f, x)
            /\ \A x \in Range(p) : Later(f, x)
        BY <1>4, <1>11, <4>1 DEF DueTab, p
      <4>3. Behind(encodeNotificationCursor(f), to)
        BY <3>1, <3>3, <4>2 DEF Later
      <4>. QED  BY <4>1, <4>2, <4>3
    <3>11. DueTab(s, baseline[u], k, v, owed[u], blind[u], got[u])
      BY <1>11, <1>16, <3>10 DEF DueTab
    <3>. QED  BY <3>9, <3>11
  <2>. QED  BY <2>1, <2>2, <2>3
<1>. QED  BY <1>2, <1>3, <1>17, <1>18, <1>19, <1>20, <1>21, <1>22, <1>23, OneTab DEF s

LEMMA InRange ==
    ASSUME NEW S, NEW s \in Seq(S), NEW x
    PROVE  x \in Range(s) <=> \E i \in 1..Len(s) : x = s[i]
BY DEF Range

LEMMA HeadAndTail ==
    ASSUME NEW w \in Seq(Facts), w # <<>>, NEW f
    PROVE  f \in Range(w) <=> f = Head(w) \/ f \in Range(Tail(w))
<1>. DEFINE v == Tail(w)
<1>1. Len(w) \in Nat /\ Len(w) >= 1 /\ Head(w) = w[1] /\ 1 \in 1..Len(w)
  OBVIOUS
<1>2. v \in Seq(Facts) /\ Len(v) = Len(w) - 1
      /\ \A i \in 1..Len(v) : i + 1 \in 1..Len(w) /\ v[i] = w[i + 1]
  OBVIOUS
<1>3. \A i \in 1..Len(w) : i = 1 \/ (i - 1 \in 1..Len(v) /\ w[i] = v[i - 1])
  OBVIOUS
<1>. HIDE DEF v
<1>4. f \in Range(w) <=> \E i \in 1..Len(w) : f = w[i]
  BY InRange
<1>5. f \in Range(v) <=> \E i \in 1..Len(v) : f = v[i]
  BY <1>2, InRange
<1>. QED  BY <1>1, <1>2, <1>3, <1>4, <1>5 DEF v

(* The facts a tab accepts are behind its cursor, and take it along.         *)
LEMMA AcceptedItems ==
    ASSUME FactsOK, NEW s \in StoredState, NEW page \in Seq(Facts), page # <<>>, NEW latest \in Cursor,
           NEW c \in Cursor, latest # NoCursor => c = latest, latest = NoCursor => c = PageCursor(page),
           PageCursor(page) \in Cursor,
           ItemsTab(s), Ascends(page), Beyond(page, s.cursor), ~Behind(s.cursor, c),
           \A i \in 1..Len(page) : page[i] \in Visible => ~Behind(encodeNotificationCursor(page[i]), c)
    PROVE  /\ acceptFacts(s, page, latest) \in StoredState
           /\ acceptFacts(s, page, latest).initialized = s.initialized
           /\ acceptFacts(s, page, latest).cursor = c
           /\ Range(acceptFacts(s, page, latest).items) \subseteq Range(s.items) \cup Range(page)
           /\ ItemsTab(acceptFacts(s, page, latest))
<1>. DEFINE r == acceptFacts(s, page, latest)
            old == s.items
            new == r.items
<1>1. r \in StoredState /\ r.initialized = s.initialized /\ r.cursor = c
  BY AcceptFacts
<1>2. \A k \in 1..Len(new) : Comes(old, page, new[k])
  BY AcceptFacts
<1>3. \A i, j \in 1..Len(new) : i < j => InPlace(old, page, new[i], new[j])
  BY AcceptFacts
<1>. HIDE DEF r
<1>4. old \in Seq(Facts) /\ s.cursor \in Cursor
  BY DEF StoredState
<1>5. new \in Seq(Facts)
  BY <1>1 DEF StoredState
<1>6. /\ \A i, j \in 1..Len(old) : i < j =>
            old[i] # old[j] /\ (old[i] \in Visible => Later(old[j], old[i]))
      /\ \A i \in 1..Len(old) :
            old[i] \in Visible => ~Behind(encodeNotificationCursor(old[i]), s.cursor)
  BY DEF ItemsTab
<1>. HIDE DEF old, new
<1>7. /\ \A i \in 1..Len(old) : old[i] \in Range(old) /\ old[i] \in Facts
      /\ \A i \in 1..Len(page) : page[i] \in Range(page) /\ page[i] \in Facts
  BY <1>4, RangeOf
<1>8. Range(new) \subseteq Range(old) \cup Range(page)
  <2>1. Range(new) = {new[i] : i \in 1..Len(new)}
    BY <1>5, RangeOf
  <2>. QED  BY <1>2, <1>7, <2>1 DEF Comes
<1>9. /\ \A i \in 1..Len(old) : encodeNotificationCursor(old[i]) \in Cursor
      /\ \A i \in 1..Len(page) : encodeNotificationCursor(page[i]) \in Cursor
  BY <1>7, FactCursor
<1>10. ASSUME NEW i \in 1..Len(new), NEW j \in 1..Len(new), i < j
       PROVE  new[i] # new[j] /\ (new[i] \in Visible => Later(new[j], new[i]))
  <2>1. CASE \E a, b \in 1..Len(old) : a < b /\ new[i] = old[a] /\ new[j] = old[b]
    BY <1>6, <2>1
  <2>2. CASE \E a \in 1..Len(old), b \in 1..Len(page) :
               new[i] = old[a] /\ new[j] = page[b] /\ page[b] \notin Range(old)
    <3>1. PICK a \in 1..Len(old), b \in 1..Len(page) :
               new[i] = old[a] /\ new[j] = page[b] /\ page[b] \notin Range(old)
      BY <2>2
    <3>2. new[i] # new[j]
      BY <1>7, <3>1
    <3>3. Behind(encodeNotificationCursor(page[b]), s.cursor)
      BY DEF Beyond
    <3>4. old[a] \in Visible => Later(page[b], old[a])
      BY <1>4, <1>6, <1>9, <3>3, BehindThenNotBefore DEF Later
    <3>. QED  BY <3>1, <3>2, <3>4
  <2>3. CASE \E a, b \in 1..Len(page) : a < b /\ new[i] = page[a] /\ new[j] = page[b]
    <3>1. PICK a \in 1..Len(page), b \in 1..Len(page) : a < b /\ new[i] = page[a] /\ new[j] = page[b]
      BY <2>3
    <3>2. Later(page[b], page[a])
      BY <3>1 DEF Ascends
    <3>3. page[a] # page[b]
      BY <1>7, <3>2, LaterOrder
    <3>. QED  BY <3>1, <3>2, <3>3
  <2>4. InPlace(old, page, new[i], new[j])
    BY <1>3, <1>10
  <2>. QED  BY <2>1, <2>2, <2>3, <2>4 DEF InPlace
<1>11. ASSUME NEW k \in 1..Len(new), new[k] \in Visible
       PROVE  ~Behind(encodeNotificationCursor(new[k]), c)
  <2>1. CASE \E a \in 1..Len(old) : new[k] = old[a]
    <3>1. PICK a \in 1..Len(old) : new[k] = old[a]
      BY <2>1
    <3>2. ~Behind(encodeNotificationCursor(old[a]), s.cursor)
      BY <1>6, <1>11, <3>1
    <3>3. Behind(encodeNotificationCursor(old[a]), c) => Behind(encodeNotificationCursor(old[a]), s.cursor)
      BY <1>4, <1>9, BehindThenNotBefore
    <3>. QED  BY <3>1, <3>2, <3>3
  <2>2. CASE \E a \in 1..Len(page) : new[k] = page[a]
    BY <1>11, <2>2
  <2>. QED  BY <1>2, <2>1, <2>2 DEF Comes
<1>12. ItemsTab(r)
  BY <1>1, <1>10, <1>11 DEF ItemsTab, new
<1>. QED  BY <1>1, <1>8, <1>12 DEF r, old, new

LEMMA ReceiveStep ==
    ASSUME FeedInv, NEW u \in Tabs, Receive(u)
    PROVE  FeedInv'
<1>1. TabInv(u) /\ FactsOK /\ TabsOK
  BY DEF FeedInv
<1>2. FactsOK'
  BY <1>1 DEF FactsOK, Receive, rowVars, boundVars, notifyVars
<1>3. UNCHANGED <<fact, late, baseline, stream, owed, blind, cleared>>
  BY DEF Receive, rowVars, debtVars
<1>. DEFINE s == stored[u]
            e == source[u]
            w == wire[u]
            x == Head(w)
            p == <<x>>
            c == encodeNotificationCursor(x)
            r == acceptFacts(s, p, NoCursor)
            k == source'[u]
<1>4. w # <<>> /\ stored' = [stored EXCEPT ![u] = r] /\ got' = [got EXCEPT ![u] = @ \cup Range(p)]
      /\ source' = [source EXCEPT ![u].lastEventID = c] /\ wire' = [wire EXCEPT ![u] = Tail(w)]
  BY <1>1 DEF Receive, Accept, TabsOK
<1>5. s \in StoredState /\ e \in SourceState /\ w \in Seq(Facts) /\ s.cursor \in Cursor
      /\ source \in [Tabs -> SourceState] /\ got \in [Tabs -> SUBSET Facts] /\ stored \in [Tabs -> StoredState]
      /\ wire \in [Tabs -> Seq(Facts)] /\ stream[u].cursor \in Cursor
  BY <1>1, TabTyped, PartsTyped DEF TabsOK
<1>6. KnownTab(s, baseline[u], e, stream[u], w, owed[u]) /\ PhaseTab(s, baseline[u], e, stream[u], w, owed[u])
  BY <1>1 DEF TabInv
<1>7. ItemsTab(s) /\ WireTab(s, stream[u], w)
  BY <1>1 DEF TabInv
<1>8. DueTab(s, baseline[u], stream[u], w, owed[u], blind[u], got[u])
      /\ ForgetTab(s, baseline[u], stream[u], w, cleared[u])
  BY <1>1 DEF TabInv
<1>. HIDE DEF s, e, w
<1>9. Len(w) \in Nat /\ Len(w) >= 1 /\ x = w[1] /\ x \in Facts /\ 1 \in 1..Len(w)
  BY <1>4, <1>5
<1>10. Tail(w) \in Seq(Facts) /\ Len(Tail(w)) = Len(w) - 1
       /\ \A i \in 1..Len(Tail(w)) : i + 1 \in 1..Len(w) /\ Tail(w)[i] = w[i + 1]
  BY <1>4, <1>5
<1>11. \A f : f \in Range(w) <=> f = x \/ f \in Range(Tail(w))
  BY <1>4, <1>5, HeadAndTail
<1>12. p \in Seq(Facts) /\ p # <<>> /\ Len(p) = 1 /\ p[1] = x /\ Range(p) = {x} /\ PageCursor(p) = c
  BY <1>9 DEF Range, PageCursor
<1>13. x \in Known
  BY <1>6, <1>11 DEF KnownTab
<1>. HIDE DEF x, p
<1>14. c \in Cursor /\ c \in Cursors /\ c # NoCursor
  BY <1>1, <1>9, <1>13, FactCursor, KnownCursor
<1>15. Behind(c, s.cursor)
  BY <1>7, <1>9 DEF WireTab, Beyond
<1>16. ~Behind(s.cursor, c) /\ ~Behind(c, c)
  BY <1>5, <1>14, <1>15, BehindIsStrict
<1>17. Ascends(p) /\ Beyond(p, s.cursor)
  BY <1>12, <1>15 DEF Ascends, Beyond
<1>18. \A i \in 1..Len(p) : p[i] \in Visible => ~Behind(encodeNotificationCursor(p[i]), c)
  BY <1>12, <1>16
<1>. HIDE DEF c
<1>19. /\ r \in StoredState /\ r.initialized = s.initialized /\ r.cursor = c
       /\ Range(r.items) \subseteq Range(s.items) \cup Range(p) /\ ItemsTab(r)
  <2>1. c = PageCursor(p)
    BY <1>12
  <2>2. NoCursor \in Cursor /\ PageCursor(p) \in Cursor
    BY <1>12, <1>14, NoCursorTyped
  <2>3. r = acceptFacts(s, p, NoCursor)
    OBVIOUS
  <2>4. FactsOK /\ s \in StoredState /\ p \in Seq(Facts) /\ p # <<>> /\ ItemsTab(s) /\ c \in Cursor
    BY <1>1, <1>5, <1>7, <1>12, <1>14
  <2>. HIDE DEF r
  <2>5. ~Behind(s.cursor, c)
    BY <1>16
  <2>. QED  BY <1>17, <1>18, <2>1, <2>2, <2>3, <2>4, <2>5, AcceptedItems
<1>. HIDE DEF r
<1>20. k = [e EXCEPT !.lastEventID = c] /\ \A t \in Tabs : t # u => source'[t] = source[t]
  BY <1>4, <1>5 DEF e
<1>21. k \in SourceState /\ k.lastEventID = c /\ k.state = e.state /\ k.after = e.after
  BY <1>5, <1>14, <1>20 DEF SourceState
<1>22. source' \in [Tabs -> SourceState]
  BY <1>4, <1>5, <1>20, <1>21
<1>23. stored' \in [Tabs -> StoredState] /\ wire' \in [Tabs -> Seq(Facts)] /\ got' \in [Tabs -> SUBSET Facts]
  BY <1>4, <1>5, <1>9, <1>10, <1>12, <1>19
<1>24. TabsOK'
  BY <1>1, <1>3, <1>22, <1>23 DEF TabsOK
<1>25. stored'[u] = r /\ wire'[u] = Tail(w) /\ got'[u] = got[u] \cup {x}
       /\ \A t \in Tabs : t # u => stored'[t] = stored[t] /\ wire'[t] = wire[t] /\ got'[t] = got[t]
  BY <1>4, <1>5, <1>12
<1>26. \A t \in Tabs : t # u => TabKept(t) /\ owed'[t] = owed[t] /\ blind'[t] = blind[t]
  BY <1>3, <1>20, <1>25 DEF TabKept
<1>. HIDE DEF k
<1>27. KnownTab(r, baseline[u], k, stream[u], Tail(w), owed[u])
  BY <1>6, <1>11, <1>12, <1>13, <1>14, <1>19, <1>21 DEF KnownTab
<1>28. PhaseTab(r, baseline[u], k, stream[u], Tail(w), owed[u])
  BY <1>4, <1>6, <1>14, <1>19, <1>21 DEF PhaseTab, Resumes
<1>29. baseline[u].pc = "follow"
  BY <1>4, <1>6 DEF PhaseTab
<1>30. BaselineTab(r, baseline[u])
  BY <1>29 DEF BaselineTab
<1>31. WireTab(r, stream[u], Tail(w))
  <2>1. Ascends(Tail(w))
    BY <1>7, <1>9, <1>10 DEF WireTab, Ascends
  <2>2. \A i \in 1..Len(Tail(w)) : Later(Tail(w)[i], x)
    BY <1>7, <1>9, <1>10 DEF WireTab, Ascends
  <2>3. Beyond(Tail(w), c)
    BY <2>2 DEF Beyond, Later, c
  <2>4. stream[u].pc # "none" => ~Behind(c, stream[u].cursor)
    BY <1>7, <1>9 DEF WireTab, c
  <2>5. stream[u].pc # "none" =>
           \A i \in 1..Len(Tail(w)) : ~Behind(encodeNotificationCursor(Tail(w)[i]), stream[u].cursor)
    BY <1>7, <1>10 DEF WireTab
  <2>. QED  BY <1>7, <1>19, <2>1, <2>3, <2>4, <2>5 DEF WireTab
<1>32. DueTab(r, baseline[u], stream[u], Tail(w), owed[u], blind[u], got[u] \cup {x})
  <2>1. \A f \in Due(owed[u], blind[u], got[u] \cup {x}) : f # x /\ f \in Due(owed[u], blind[u], got[u])
    BY DEF Due
  <2>2. ASSUME NEW f \in Due(owed[u], blind[u], got[u] \cup {x})
        PROVE  /\ Behind(encodeNotificationCursor(f), c)
               /\ f \in Range(Tail(w)) \/ \A y \in Range(Tail(w)) : Later(f, y)
               /\ stream[u].pc # "none" =>
                     f \in Range(Tail(w)) \/ Behind(encodeNotificationCursor(f), stream[u].cursor)
               /\ stream[u].pc \in {"subscribe", "send"} =>
                     \/ f \in Range(Tail(w)) \/ f \in Range(stream[u].page)
                     \/ \A y \in Range(stream[u].page) : Later(f, y)
    <3>1. f # x /\ f \in Due(owed[u], blind[u], got[u])
      BY <2>1
    <3>2. f \in Range(w) <=> f \in Range(Tail(w))
      BY <1>11, <3>1
    <3>3. Later(f, x)
      <4>1. CASE f \in Range(w)
        <5>1. PICK i \in 1..Len(w) : f = w[i]
          BY <1>5, <4>1, RangeOf
        <5>2. i # 1 /\ 1 < i
          BY <1>9, <3>1, <5>1
        <5>. QED  BY <1>7, <1>9, <5>1, <5>2 DEF WireTab, Ascends
      <4>2. CASE f \notin Range(w)
        BY <1>8, <1>11, <3>1, <4>2 DEF DueTab
      <4>. QED  BY <4>1, <4>2
    <3>4. Behind(encodeNotificationCursor(f), c)
      BY <3>3 DEF Later, c
    <3>. QED  BY <1>8, <1>11, <3>1, <3>2, <3>4 DEF DueTab
  <2>. QED  BY <1>14, <1>19, <1>29, <2>2 DEF DueTab
<1>33. ForgetTab(r, baseline[u], stream[u], Tail(w), cleared[u])
  BY <1>8, <1>11, <1>12, <1>19 DEF ForgetTab
<1>. QED  BY <1>2, <1>3, <1>19, <1>24, <1>25, <1>26, <1>27, <1>28, <1>30, <1>31, <1>32, <1>33, OneTab DEF k

(* A tab that has its baseline opens a stream where its cursor is.           *)
LEMMA BaselineEnds ==
    ASSUME FeedInv, NEW u \in Tabs, baseline[u].pc = "answer", NEW r \in StoredState, r.initialized,
           stored' = [stored EXCEPT ![u] = r], baseline' = [baseline EXCEPT ![u] = Following],
           OpenStream(u, r.cursor), NEW g \in SUBSET Facts, got' = [got EXCEPT ![u] = g],
           UNCHANGED <<fact, late, stream, wire, owed, blind, cleared>>, FactsOK',
           r.cursor \in Cursors, Range(r.items) \subseteq Known, Range(r.items) \cap cleared[u] = {},
           ItemsTab(r), r.cursor = NoCursor => owed[u] \subseteq blind[u],
           \A f \in Due(owed[u], blind[u], g) : Behind(encodeNotificationCursor(f), r.cursor)
    PROVE  FeedInv'
<1>1. TabInv(u) /\ FactsOK /\ TabsOK
  BY DEF FeedInv
<1>. DEFINE h == stream[u]
            e == [NoSource EXCEPT !.state = "connecting", !.after = r.cursor]
<1>2. KnownTab(stored[u], baseline[u], source[u], h, wire[u], owed[u])
      /\ PhaseTab(stored[u], baseline[u], source[u], h, wire[u], owed[u])
  BY <1>1 DEF TabInv
<1>3. source[u].state = "none" /\ wire[u] = <<>> /\ h.pc = "none"
  BY <1>2 DEF PhaseTab
<1>4. r.cursor \in Cursor
  BY DEF StoredState
<1>5. e \in SourceState /\ e.state = "connecting" /\ e.after = r.cursor /\ e.lastEventID = NoCursor
  BY <1>4, Constant DEF NoSource, SourceState
<1>6. source' = [source EXCEPT ![u] = e]
  BY DEF OpenStream
<1>. HIDE DEF e, h
<1>7. stored' \in [Tabs -> StoredState] /\ baseline' \in [Tabs -> BaselineState]
      /\ source' \in [Tabs -> SourceState] /\ got' \in [Tabs -> SUBSET Facts]
  BY <1>1, <1>5, <1>6, Constant DEF TabsOK
<1>8. TabsOK'
  BY <1>1, <1>7 DEF TabsOK
<1>9. stored'[u] = r /\ baseline'[u] = Following /\ source'[u] = e /\ got'[u] = g
      /\ \A t \in Tabs : t # u => /\ stored'[t] = stored[t] /\ baseline'[t] = baseline[t]
                                  /\ source'[t] = source[t] /\ got'[t] = got[t]
  BY <1>1, <1>6 DEF TabsOK
<1>10. \A t \in Tabs : t # u => TabKept(t) /\ owed'[t] = owed[t] /\ blind'[t] = blind[t]
  BY <1>9 DEF TabKept
<1>11. KnownTab(r, Following, e, h, wire[u], owed[u])
  BY <1>2, <1>5, Constant, NoRange DEF KnownTab
<1>12. PhaseTab(r, Following, e, h, wire[u], owed[u])
  BY <1>3, <1>5, Constant DEF PhaseTab, Resumes
<1>13. BaselineTab(r, Following)
  BY Constant DEF BaselineTab
<1>14. WireTab(r, h, wire[u])
  BY <1>3, EmptyPages, NoRange DEF WireTab
<1>15. DueTab(r, Following, h, wire[u], owed[u], blind[u], g)
  BY <1>3, Constant, NoRange DEF DueTab
<1>16. ForgetTab(r, Following, h, wire[u], cleared[u])
  BY <1>1, Constant, NoRange DEF TabInv, ForgetTab, h
<1>. QED  BY <1>8, <1>9, <1>10, <1>11, <1>12, <1>13, <1>14, <1>15, <1>16, OneTab DEF h

LEMMA ListAnswerStep ==
    ASSUME FeedInv, NEW u \in Tabs, ListAnswer(u)
    PROVE  FeedInv'
<1>1. TabInv(u) /\ FactsOK /\ TabsOK
  BY DEF FeedInv
<1>2. FactsOK'
  BY <1>1 DEF FactsOK, ListAnswer, rowVars, boundVars, notifyVars
<1>3. UNCHANGED <<fact, late, stream, wire, owed, blind, cleared>>
  BY DEF ListAnswer, rowVars, debtVars
<1>. DEFINE s == stored[u]
            b == baseline[u]
            o == owed[u]
            l == blind[u]
            w == wire[u]
<1>4. b.pc = "answer" /\ baseline' = [baseline EXCEPT ![u] = Following] /\ OpenStream(u, stored'[u].cursor)
  BY DEF ListAnswer
<1>5. s \in StoredState /\ b \in BaselineState /\ got[u] \in SUBSET Facts /\ got \in [Tabs -> SUBSET Facts]
      /\ stored \in [Tabs -> StoredState]
  BY <1>1, TabTyped DEF TabsOK
<1>6. s.cursor \in Cursor /\ b.page \in Seq(Facts) /\ b.latest \in Cursor
  BY <1>1, PartsTyped
<1>7. /\ Range(s.items) \subseteq Known /\ Range(b.page) \subseteq Known
      /\ s.cursor \in Cursors /\ b.latest \in Cursors
  BY <1>1 DEF TabInv, KnownTab
<1>8. /\ Range(s.items) \cap cleared[u] = {} /\ Range(b.page) \cap cleared[u] = {}
  BY <1>1 DEF TabInv, ForgetTab
<1>9. ItemsTab(s) /\ BaselineTab(s, b) /\ DueTab(s, b, stream[u], w, o, l, got[u])
  BY <1>1 DEF TabInv
<1>10. ~s.initialized => s.items = <<>> /\ o = {}
  BY <1>1 DEF TabInv, PhaseTab
<1>11. CASE ~s.initialized
  <2>. DEFINE r == [s EXCEPT !.initialized = TRUE, !.cursor = b.latest]
  <2>1. stored' = [stored EXCEPT ![u] = r] /\ got' = got
    BY <1>5, <1>11 DEF ListAnswer
  <2>2. r \in StoredState /\ r.initialized /\ r.cursor = b.latest /\ r.items = s.items
    <3>. HIDE DEF s, b
    <3>. QED  BY <1>5, <1>6 DEF StoredState
  <2>. HIDE DEF r
  <2>3. stored'[u] = r /\ got' = [got EXCEPT ![u] = got[u]]
    BY <1>5, <2>1
  <2>4. r.items = <<>>
    BY <1>10, <1>11, <2>2
  <2>5. ItemsTab(r)
    BY <2>4, NoRange DEF ItemsTab
  <2>6. Due(o, l, got[u]) = {} /\ o \subseteq l
    BY <1>10, <1>11 DEF Due
  <2>. QED  BY <1>2, <1>3, <1>4, <1>5, <1>7, <1>8, <2>1, <2>2, <2>3, <2>5, <2>6, BaselineEnds
<1>12. CASE s.initialized /\ b.page = <<>>
  <2>1. stored' = [stored EXCEPT ![u] = s] /\ got' = [got EXCEPT ![u] = got[u]]
    BY <1>5, <1>12, NoRange DEF ListAnswer, Accept, acceptFacts
  <2>2. stored'[u] = s
    BY <1>5, <2>1
  <2>3. (s.cursor = NoCursor => o \subseteq l)
        /\ \A f \in Due(o, l, got[u]) : Behind(encodeNotificationCursor(f), s.cursor)
    BY <1>9 DEF DueTab
  <2>. QED  BY <1>2, <1>3, <1>4, <1>5, <1>7, <1>8, <1>9, <1>12, <2>1, <2>2, <2>3, BaselineEnds
<1>13. CASE s.initialized /\ b.page # <<>>
  <2>. DEFINE p == b.page
              c == b.latest
              r == acceptFacts(s, p, c)
              g == got[u] \cup Range(p)
  <2>1. stored' = [stored EXCEPT ![u] = r] /\ got' = [got EXCEPT ![u] = g]
    BY <1>5, <1>13 DEF ListAnswer, Accept
  <2>2. Ascends(p) /\ Beyond(p, s.cursor) /\ c # NoCursor /\ ~Behind(s.cursor, c)
    BY <1>4, <1>9, <1>13 DEF BaselineTab
  <2>3. \A i \in 1..Len(p) : p[i] \in Visible => ~Behind(encodeNotificationCursor(p[i]), c)
    BY <1>4, <1>9, <1>13 DEF BaselineTab
  <2>4. \A f \in Due(o, l, got[u]) : f \in Range(p) \/ Behind(encodeNotificationCursor(f), c)
    BY <1>4, <1>9, <1>13 DEF DueTab
  <2>5. PageCursor(p) \in Cursor
    BY <1>1, <1>6, <1>7, <2>2, PageCursorIsLast, CursorsTyped
  <2>6. g \in SUBSET Facts /\ p \in Seq(Facts) /\ c \in Cursor /\ p # <<>>
    BY <1>5, <1>6, <1>7, <1>13, VisibleIsKnown
  <2>. HIDE DEF p, c, s, b
  <2>7. /\ r \in StoredState /\ r.initialized = s.initialized /\ r.cursor = c
        /\ Range(r.items) \subseteq Range(s.items) \cup Range(p) /\ ItemsTab(r)
    BY <1>1, <1>5, <1>9, <2>2, <2>3, <2>5, <2>6, AcceptedItems
  <2>8. \A f \in Due(o, l, g) : f \in Due(o, l, got[u]) /\ f \notin Range(p)
    BY DEF Due
  <2>. HIDE DEF r, g
  <2>9. \A f \in Due(o, l, g) : Behind(encodeNotificationCursor(f), r.cursor)
    BY <2>4, <2>7, <2>8
  <2>10. stored'[u] = r
    BY <1>5, <2>1
  <2>11. Range(r.items) \subseteq Known /\ Range(r.items) \cap cleared[u] = {}
    BY <1>7, <1>8, <2>7 DEF p
  <2>12. r.cursor \in Cursors /\ r.cursor # NoCursor
    BY <1>7, <2>2, <2>7 DEF c
  <2>13. baseline[u].pc = "answer" /\ r.initialized
    BY <1>4, <1>13, <2>7 DEF b
  <2>. QED  BY <1>2, <1>3, <1>4, <2>1, <2>6, <2>7, <2>9, <2>10, <2>11, <2>12, <2>13, BaselineEnds
<1>. QED  BY <1>11, <1>12, <1>13

-----------------------------------------------------------------------------
LEMMA FeedInit == Init => FeedInv
<1>. SUFFICES ASSUME Init PROVE FeedInv
  OBVIOUS
<1>1. NoCursor \in Cursor /\ <<>> \in Seq(Facts)
  BY NoCursorTyped, Constant
<1>2. FactsOK
  BY ConstantsTyped DEF Init, FactsOK, FactRow, NotifyInit
<1>3. DefaultState \in StoredState /\ DefaultState.cursor = NoCursor /\ DefaultState.items = <<>>
      /\ DefaultState.initialized = FALSE
  <2>. HIDE DEF NoCursor
  <2>. QED  BY <1>1 DEF DefaultState, StoredState
<1>4. TabsOK
  BY <1>1, <1>3, Constant DEF Init, TabsOK
<1>5. ASSUME NEW t \in Tabs PROVE TabInv(t)
  <2>1. /\ stored[t] = DefaultState /\ baseline[t] = Asking /\ source[t] = NoSource
        /\ stream[t] = NoStream /\ wire[t] = <<>> /\ owed[t] = {} /\ cleared[t] = {}
    BY DEF Init
  <2>2. KnownTab(DefaultState, Asking, NoSource, NoStream, <<>>, {})
    BY <1>3, Constant, NoRange DEF KnownTab
  <2>3. PhaseTab(DefaultState, Asking, NoSource, NoStream, <<>>, {})
    BY <1>3, Constant DEF PhaseTab
  <2>4. ItemsTab(DefaultState) /\ BaselineTab(DefaultState, Asking) /\ WireTab(DefaultState, NoStream, <<>>)
    BY <1>3, Constant, NoRange, EmptyPages DEF ItemsTab, BaselineTab, WireTab
  <2>5. DueTab(DefaultState, Asking, NoStream, <<>>, {}, blind[t], got[t])
    BY DEF DueTab, Due
  <2>6. ForgetTab(DefaultState, Asking, NoStream, <<>>, {})
    BY DEF ForgetTab
  <2>. QED  BY <2>1, <2>2, <2>3, <2>4, <2>5, <2>6 DEF TabInv
<1>. QED  BY <1>2, <1>4, <1>5 DEF FeedInv

LEMMA FeedNext == FeedInv /\ [Next]_vars => FeedInv'
<1>. SUFFICES ASSUME FeedInv, [Next]_vars PROVE FeedInv'
  OBVIOUS
<1>1. CASE UNCHANGED vars
  <2>1. UNCHANGED <<fact, late, stored, baseline, source, stream, wire, owed, blind, got, cleared>>
    BY <1>1 DEF vars, rowVars, tabVars, connVars, debtVars
  <2>2. FactsOK'
    BY <1>1 DEF FeedInv, FactsOK, vars, rowVars, boundVars, notifyVars
  <2>3. TabsOK'
    BY <2>1 DEF FeedInv, TabsOK
  <2>4. ASSUME NEW t \in Tabs PROVE TabInv(t)'
    BY <2>1, TabFrame DEF FeedInv, TabKept
  <2>. QED  BY <2>2, <2>3, <2>4 DEF FeedInv
<1>2. ASSUME NEW f \in Facts, TakeTime(f) \/ Commit(f) \/ Announce(f) \/ Withdraw(f)
      PROVE  FeedInv'
  BY <1>2, TakeTimeStep, CommitStep, AnnounceStep, WithdrawStep
<1>3. ASSUME NEW t \in Tabs,
             \/ ListPage(t) \/ ListLatest(t) \/ ListAnswer(t) \/ ListFails(t)
             \/ Receive(t) \/ PageReload(t) \/ ClearHistory(t) \/ ClearTab(t)
      PROVE  FeedInv'
  BY <1>3, ListPageStep, ListLatestStep, ListAnswerStep, ListFailsStep, ReceiveStep, PageReloadStep,
     ClearHistoryStep, ClearTabStep
<1>4. ASSUME NEW t \in Tabs,
             \/ StreamOpen(t) \/ StreamLoad(t) \/ StreamSubscribe(t) \/ StreamSend(t)
             \/ StreamWake(t) \/ StreamHeartbeat(t) \/ StreamFails(t) \/ ConnectionLost(t)
      PROVE  FeedInv'
  BY <1>4, StreamOpenStep, StreamLoadStep, StreamSubscribeStep, StreamSendStep, StreamWakeStep,
     StreamHeartbeatStep, StreamFailsStep, ConnectionLostStep
<1>. QED  BY <1>1, <1>2, <1>3, <1>4 DEF Next

(* The chain of cursors from what a tab lists to what a stream has read      *)
(* stays in order, and what a tab is owed is ahead of it or on its way,      *)
(* through lost connections, page reloads, failed reads and clearings.       *)
THEOREM FeedInductive == Spec => []FeedInv
BY FeedInit, FeedNext, PTL DEF Spec

(* Rows, cursors, requests, streams and the tabs' states are well formed.    *)
THEOREM FeedTypeCorrect == Spec => []TypeOK
<1>1. FeedInv => TypeOK
  <2>. SUFFICES ASSUME FeedInv PROVE TypeOK
    OBVIOUS
  <2>1. FactsOK /\ TabsOK
    BY DEF FeedInv
  <2>2. ASSUME NEW t \in Tabs
        PROVE  /\ stored[t].initialized \in BOOLEAN
               /\ baseline[t].pc \in {"ask", "latest", "answer", "follow"}
               /\ source[t].state \in {"none", "connecting", "open", "reconnecting", "dead"}
               /\ stream[t].pc \in {"none", "load", "subscribe", "send", "wait"}
    BY <2>1, TabTyped DEF StoredState, BaselineState, SourceState, StreamState
  <2>3. ASSUME NEW t \in Tabs
        PROVE  /\ stored[t].cursor \in Cursor /\ stored[t].items \in Seq(Facts)
               /\ baseline[t].page \in Seq(Facts) /\ baseline[t].latest \in Cursor
               /\ {source[t].after, source[t].lastEventID} \subseteq Cursor
               /\ {stream[t].cursor, stream[t].latest} \subseteq Cursor
               /\ stream[t].page \in Seq(Facts) /\ wire[t] \in Seq(Facts)
    BY <2>1, PartsTyped
  <2>4. \A t \in Tabs : owed[t] \cup blind[t] \cup got[t] \cup cleared[t] \subseteq Facts
    BY <2>1, TabTyped
  <2>5. /\ clock \in 1..MaxTime
        /\ fact \in [Facts -> [state : {"none", "open", "visible", "gone"}, at : 0..MaxTime]]
        /\ signals \subseteq Facts /\ late \subseteq Facts
        /\ clearing \subseteq Tabs /\ notifySubs \subseteq Tabs /\ wake \subseteq notifySubs
        /\ {breaks, failures, clears} \subseteq Nat
    BY <2>1 DEF FactsOK, FactRow
  <2>. QED  BY <2>2, <2>3, <2>4, <2>5 DEF TypeOK
<1>. QED  BY <1>1, FeedInductive, PTL

(* A tab lists facts in order and none twice: a baseline, a stream and a     *)
(* reconnection (notificationsStream) each begin behind the last fact that   *)
(* the tab received.                                                         *)
THEOREM ListsInOrder == Spec => []ListedInOrder
<1>1. FeedInv => ListedInOrder
  BY DEF FeedInv, TabInv, ItemsTab, ListedInOrder, Later
<1>. QED  BY <1>1, FeedInductive, PTL

(* A tab's cursor passes a fact that was committed after its baseline only   *)
(* with telling the tab of it, unless the fact was committed out of order or *)
(* while the cursor was empty (ListNotifications, useNotifications).         *)
THEOREM NothingElseIsSkipped == Spec => []NoOtherFactIsSkipped
<1>1. FeedInv => NoOtherFactIsSkipped
  BY DEF FeedInv, TabInv, DueTab, Due, NoOtherFactIsSkipped, Skipped
<1>. QED  BY <1>1, FeedInductive, PTL

(* What was gone when a tab cleared its history does not come back, not even *)
(* with an answer or an event that was on its way (clearHistory).            *)
THEOREM ForgottenForGood == Spec => []ClearedIsForgotten
<1>1. FeedInv => ClearedIsForgotten
  BY DEF FeedInv, TabInv, ForgetTab, ClearedIsForgotten
<1>. QED  BY <1>1, FeedInductive, PTL
=============================================================================
