----------------------------- MODULE WebUIProofs -----------------------------
(***************************************************************************)
(* Theorems of WebUI, for every set of updates, pages and feeds of any     *)
(* size, and any number of requests under way.  They rest on what a row's  *)
(* position does while updates arrive: it never falls, and it grows by one *)
(* at most for each arrival.                                               *)
(***************************************************************************)
EXTENDS WebUI, FiniteSetTheorems, TLAPS

Stages == {"none", "pending", "important", "noise"}

-----------------------------------------------------------------------------
(***************************************************************************)
(* Positions and pages.                                                    *)
(***************************************************************************)
\* Rows are strictly and totally ordered.
LEMMA NewerOrders ==
  ASSUME NEW u \in Updates, NEW v \in Updates
  PROVE  /\ ~Newer(u, u)
         /\ Newer(u, v) => ~Newer(v, u)
         /\ ~Newer(u, v) /\ ~Newer(v, u) => u = v
         /\ \A w \in Updates : Newer(w, u) /\ Newer(u, v) => Newer(w, v)
<1>1. Rank[u] \in Nat /\ Rank[v] \in Nat /\ \A w \in Updates : Rank[w] \in Nat
  BY WebUIAssumption DEF WebUIAssumption
<1>2. Rank[u] = Rank[v] => u = v
  BY WebUIAssumption DEF WebUIAssumption
<1>3. QED
  BY <1>1, <1>2 DEF Newer

\* A set of rows is finite.
LEMMA RowsFinite ==
  ASSUME NEW S \in SUBSET Updates
  PROVE  /\ IsFiniteSet(S) /\ Cardinality(S) \in Nat
         /\ Cardinality(Updates) \in Nat /\ Cardinality(S) <= Cardinality(Updates)
<1>1. IsFiniteSet(Updates)
  BY WebUIAssumption DEF WebUIAssumption
<1>2. QED
  BY <1>1, FS_Subset, FS_CardinalityType

\* A position counts the rows before.
LEMMA PositionType ==
  ASSUME NEW S \in SUBSET Updates, NEW u
  PROVE  IsFiniteSet({v \in S : Newer(v, u)}) /\ Position(u, S) \in Nat
<1>1. IsFiniteSet({v \in S : Newer(v, u)})
  BY RowsFinite, FS_Subset
<1>2. QED
  BY <1>1, FS_CardinalityType DEF Position

\* A row is not before itself.
LEMMA PositionBelowSize ==
  ASSUME NEW S \in SUBSET Updates, NEW u \in S
  PROVE  Position(u, S) < Cardinality(S)
<1> DEFINE ahead == {v \in S : Newer(v, u)}
<1>1. u \notin ahead
  <2>1. ~Newer(u, u)
    BY NewerOrders
  <2>2. QED
    BY <2>1
<1>2. IsFiniteSet(S) /\ Cardinality(S) \in Nat /\ IsFiniteSet(S \ {u}) /\ Cardinality(S \ {u}) = Cardinality(S) - 1
  <2>1. IsFiniteSet(S) /\ Cardinality(S) \in Nat
    BY RowsFinite
  <2>2. QED
    BY <2>1, FS_RemoveElement
<1>3. ahead \in SUBSET (S \ {u})
  BY <1>1
<1>4. IsFiniteSet(ahead) /\ Cardinality(ahead) <= Cardinality(S) - 1 /\ Cardinality(ahead) \in Nat
  <2> HIDE DEF ahead
  <2>1. QED
    BY <1>2, <1>3, FS_Subset, FS_CardinalityType
<1>5. QED
  BY <1>2, <1>4 DEF Position

\* Two rows have two positions.
LEMMA PositionsDiffer ==
  ASSUME NEW S \in SUBSET Updates, NEW u \in S, NEW v \in S, Newer(u, v)
  PROVE  Position(u, S) < Position(v, S)
<1> DEFINE U == {w \in S : Newer(w, u)}
           V == {w \in S : Newer(w, v)}
<1>1. U \subseteq V /\ u \in V /\ u \notin U
  <2>1. \A w \in S : Newer(w, u) => Newer(w, v)
    BY NewerOrders
  <2>2. ~Newer(u, u)
    BY NewerOrders
  <2>3. QED
    BY <2>1, <2>2
<1>2. IsFiniteSet(V) /\ IsFiniteSet(U)
  BY PositionType
<1>3. Cardinality(U) <= Cardinality(V) /\ Cardinality(U) # Cardinality(V)
  BY <1>1, <1>2, FS_Subset
<1>4. Cardinality(U) \in Nat /\ Cardinality(V) \in Nat
  BY <1>2, FS_CardinalityType
<1>5. QED
  BY <1>3, <1>4 DEF Position

\* An arrival moves the rows after it by one, and is first if no row is newer.
LEMMA PositionAfterArrival ==
  ASSUME NEW S \in SUBSET Updates, NEW w \in Updates \ S, NEW u
  PROVE  /\ Position(u, S) <= Position(u, S \cup {w})
         /\ Position(u, S \cup {w}) <= Position(u, S) + 1
         /\ (\A v \in S : ~Newer(v, w)) => Position(w, S \cup {w}) = 0
<1> DEFINE ahead == {v \in S : Newer(v, u)}
           after == {v \in S \cup {w} : Newer(v, u)}
<1>1. after = IF Newer(w, u) THEN ahead \cup {w} ELSE ahead
  OBVIOUS
<1>2. IsFiniteSet(ahead) /\ Cardinality(ahead) \in Nat
  BY PositionType, FS_CardinalityType
<1>3. Cardinality(after) \in {Cardinality(ahead), Cardinality(ahead) + 1}
  BY <1>1, <1>2, FS_AddElement
<1>4. (\A v \in S : ~Newer(v, w)) => {v \in S \cup {w} : Newer(v, w)} = {}
  BY NewerOrders
<1>5. QED
  BY <1>2, <1>3, <1>4, FS_EmptySet DEF Position

\* The rows of a page, and no more of them than it has places.
LEMMA PageRows ==
  ASSUME NEW filter, NEW limit \in Nat, NEW offset \in Nat, stage \in [Updates -> Stages]
  PROVE  LET page == Page(filter, limit, offset)
         IN /\ page \in SUBSET [update : Updates, stage : Stages]
            /\ Cards(page) = {u \in Matching(filter) :
                               /\ offset <= Position(u, Matching(filter))
                               /\ Position(u, Matching(filter)) < offset + limit}
            /\ IsFiniteSet(page) /\ Cardinality(page) <= limit
<1> DEFINE S == Matching(filter)
           rows == {u \in S : offset <= Position(u, S) /\ Position(u, S) < offset + limit}
           page == {Card(u) : u \in rows}
           places == offset..(offset + limit - 1)
<1>1. S \in SUBSET Updates
  BY DEF Matching, Stored
<1>2. page \in SUBSET [update : Updates, stage : Stages] /\ Cards(page) = rows
  <2>1. rows \subseteq Updates
    <3> HIDE DEF S
    <3>1. QED
      BY <1>1
  <2> HIDE DEF rows
  <2>2. page \in SUBSET [update : Updates, stage : Stages]
    BY <2>1 DEF Card
  <2>3. Cards(page) \subseteq rows
    <3>1. \A card \in page : card.update \in rows
      BY DEF Card
    <3> HIDE DEF page
    <3>2. QED
      BY <3>1 DEF Cards
  <2>4. rows \subseteq Cards(page)
    <3>1. \A u \in rows : Card(u) \in page /\ Card(u).update = u
      BY DEF Card
    <3> HIDE DEF page
    <3>2. QED
      BY <3>1 DEF Cards
  <2>5. QED
    BY <2>2, <2>3, <2>4
<1>3. \A card \in page : card.update \in rows /\ card = Card(card.update)
  BY DEF Card
<1> DEFINE f == [card \in page |-> Position(card.update, S)]
<1>4. f \in [page -> places]
  <2>1. ASSUME NEW card \in page PROVE Position(card.update, S) \in places
    <3>1. Position(card.update, S) \in Nat
      BY <1>1, PositionType
    <3>2. card.update \in rows
      BY <1>3
    <3> HIDE DEF S, page
    <3>3. offset <= Position(card.update, S) /\ Position(card.update, S) < offset + limit
      BY <3>2
    <3>4. QED
      BY <3>1, <3>3
  <2>2. QED
    BY <2>1
<1>5. ASSUME NEW c \in page, NEW d \in page, f[c] = f[d] PROVE c = d
  <2>1. c.update \in S /\ d.update \in S /\ Position(c.update, S) = Position(d.update, S)
    BY <1>3, <1>5
  <2>2. Position(c.update, S) \in Nat
    BY <1>1, PositionType
  <2>3. ~Newer(c.update, d.update) /\ ~Newer(d.update, c.update)
    BY <1>1, <2>1, <2>2, PositionsDiffer
  <2>4. c.update = d.update
    BY <1>1, <2>1, <2>3, NewerOrders
  <2>5. QED
    BY <2>4, <1>3
<1>6. f \in Injection(page, places)
  BY <1>4, <1>5 DEF Injection, IsInjective
<1>7. IsFiniteSet(places) /\ Cardinality(places) = limit
  BY FS_Interval
<1>8. IsFiniteSet(page) /\ Cardinality(page) <= limit
  BY <1>6, <1>7, FS_Injection
<1>9. page = Page(filter, limit, offset)
  BY DEF Page
<1>10. QED
  BY <1>2, <1>8, <1>9

-----------------------------------------------------------------------------
(***************************************************************************)
(* The inductive invariant.                                                *)
(***************************************************************************)
\* What the variables hold: TypeOK, with the fields of the records.
Sent == [phase : {"sent"}, filter : Filters, offset : Nat, late : BOOLEAN]
Totals == 0..Cardinality(Updates)
Counted == [phase : {"counted"}, filter : Filters, offset : Nat, late : BOOLEAN, total : Totals]
Pages == {S \in SUBSET [update : Updates, stage : Stages] : Cardinality(S) <= pageSize}
Answered ==
  [phase : {"answered"}, filter : Filters, offset : Nat, late : BOOLEAN,
   total : Totals, torn : BOOLEAN, items : Pages]
Requests == {Free} \cup Sent \cup Counted \cup Answered
States == [filter : Filters, offset : Nat]
Walks == [start : SUBSET Updates, seen : SUBSET Updates, fresh : BOOLEAN, misled : BOOLEAN]
Feeds == [seen : SUBSET Updates, since : Nat, excused : BOOLEAN]

Typed ==
  /\ stage \in [Updates -> Stages]
  /\ state \in States
  /\ request \in [Slots -> Requests]
  /\ shown \in Pages
  /\ pager \in [offset : Nat, total : Totals]
  /\ walk \in Walks
  /\ feed \in Feeds
  /\ changes \in 0..MaxChanges /\ clicks \in 0..MaxClicks /\ failures \in 0..MaxFailures

Unseen == walk.start \ walk.seen
Reach == state.offset + pageSize

\* What the reader has not seen is still ahead of him.
Ahead ==
  /\ walk.start \subseteq Stored
  /\ walk.start # {} => state.filter = All
  /\ ~walk.misled =>
       \A u \in Unseen : Position(u, Stored) >= IF walk.fresh THEN Reach ELSE state.offset

\* An answer to his last click brings the rows of the page, and a total that
\* says whether there are more.
BringsPage(r) ==
  /\ \A u \in Unseen \ Cards(r.items) : Position(u, Stored) >= Reach
  /\ ~r.torn /\ ~(Unseen \subseteq Cards(r.items)) => Reach < r.total

AnswerInTime(r) ==
  r # Free /\ ~r.late =>
    /\ r.filter = state.filter /\ r.offset = state.offset
    /\ r.phase = "answered" /\ ~walk.misled => BringsPage(r)

Answers == \A s \in Slots : AnswerInTime(request[s])

PagerTellsMore ==
  walk.fresh /\ ~walk.misled /\ pager.offset = state.offset /\ Unseen # {} => Reach < pager.total

\* What the reader of the feed has not seen is among the arrivals since he came.
FeedInWindow ==
  ~feed.excused =>
    /\ feed.since <= feedMaxItems
    /\ \A u \in Stored \ feed.seen : Position(u, Stored) < feed.since

Reading == Ahead /\ Answers /\ PagerTellsMore

Inv == Typed /\ Reading /\ FeedInWindow

-----------------------------------------------------------------------------
(***************************************************************************)
(* What the steps of the table do to positions.                            *)
(***************************************************************************)
\* Without a filter a page is cut from all the rows.
LEMMA AllMatch == Matching(All) = Stored
  BY DEF Matching, Matches, All

LEMMA RowsAreUpdates ==
  ASSUME NEW filter
  PROVE  Matching(filter) \in SUBSET Updates /\ Stored \in SUBSET Updates
  BY DEF Matching, Stored

\* The rows grow, and those that were there move to no earlier place.
Grows ==
  /\ Stored \subseteq Stored'
  /\ \A u \in Stored : Position(u, Stored) <= Position(u, Stored')

LEMMA RowsStand ==
  ASSUME stage' = stage \/ \E u \in Updates : Verdict(u), Typed
  PROVE  Stored' = Stored /\ Grows
<1>1. Stored' = Stored
  BY DEF Stored, Verdict, Typed
<1>2. \A u \in Stored : Position(u, Stored) \in Nat
  BY RowsAreUpdates, PositionType
<1>3. QED
  BY <1>1, <1>2 DEF Grows

LEMMA RowArrives ==
  ASSUME Typed, NEW w \in Updates, Discover(w)
  PROVE  /\ w \in Updates \ Stored /\ Stored' = Stored \cup {w}
         /\ Grows
<1>1. w \in Updates \ Stored /\ Stored' = Stored \cup {w}
  BY DEF Stored, Discover, Typed
<1>2. \A u \in Stored : Position(u, Stored) <= Position(u, Stored')
  BY <1>1, RowsAreUpdates, PositionAfterArrival
<1>3. QED
  BY <1>1, <1>2 DEF Grows

\* A page is not empty.
LEMMA ReachType ==
  ASSUME Typed
  PROVE  state.offset \in Nat /\ Reach \in Nat /\ state.offset <= Reach
<1>1. state.offset \in Nat
  BY DEF Typed, States
<1>2. pageSize \in Nat
  BY WebUIAssumption DEF WebUIAssumption
<1>3. QED
  BY <1>1, <1>2 DEF Reach

\* The reader's part stands while the table grows.
LEMMA ReadingWhileGrowing ==
  ASSUME Typed, Reading, Typed', Grows, UNCHANGED <<state, request, pager, walk>>
  PROVE  Reading'
<1>1. /\ Unseen' = Unseen /\ Reach' = Reach /\ Reach \in Nat /\ state.offset \in Nat
      /\ walk.start \subseteq Stored /\ Unseen \subseteq Stored
  BY ReachType DEF Unseen, Reach, Reading, Ahead
<1>2. \A u \in Unseen : /\ Position(u, Stored) \in Nat /\ Position(u, Stored') \in Nat
                        /\ Position(u, Stored) <= Position(u, Stored')
  <2>1. Stored \in SUBSET Updates /\ Stored' \in SUBSET Updates
    BY DEF Stored
  <2>2. QED
    BY <1>1, <2>1, PositionType DEF Grows
<1>3. Ahead'
  BY <1>1, <1>2 DEF Reading, Ahead, Grows
<1>4. Answers'
  <2>1. ASSUME NEW r, BringsPage(r) PROVE BringsPage(r)'
    BY <1>1, <1>2, <2>1 DEF BringsPage
  <2>2. ASSUME NEW s \in Slots PROVE AnswerInTime(request[s])'
    <3>1. AnswerInTime(request[s])
      BY DEF Reading, Answers
    <3>2. QED
      BY <2>1, <3>1 DEF AnswerInTime
  <2>3. QED
    BY <2>2 DEF Answers
<1>5. PagerTellsMore'
  BY <1>1 DEF Reading, PagerTellsMore
<1>6. QED
  BY <1>3, <1>4, <1>5 DEF Reading

-----------------------------------------------------------------------------
(***************************************************************************)
(* The invariant holds at first.                                           *)
(***************************************************************************)
LEMMA EmptyPage == {} \in Pages
<1>1. pageSize \in Nat /\ Cardinality({}) = 0
  BY FS_EmptySet, WebUIAssumption DEF WebUIAssumption
<1>2. Cardinality({}) <= pageSize
  BY <1>1
<1>3. QED
  BY <1>2 DEF Pages

LEMMA InitInv == ASSUME Init PROVE Inv
<1>1. Stored = Initial /\ IsFiniteSet(Stored) /\ Cardinality(Stored) \in Nat
  BY RowsFinite, RowsAreUpdates DEF Init
<1>2. Typed
  <2>1. state \in States
    BY WebUIAssumption DEF Init, WebUIAssumption, States, All
  <2>2. shown \in Pages
    BY EmptyPage DEF Init
  <2>3. pager \in [offset : Nat, total : Totals]
    BY RowsFinite DEF Init, Totals
  <2>4. walk \in Walks /\ feed \in Feeds
    <3>1. Stored \in SUBSET Updates
      BY RowsAreUpdates
    <3>2. walk \in Walks
      BY <3>1 DEF Init, NewWalk, Walks
    <3>3. (Cardinality(Stored) > feedMaxItems) \in BOOLEAN
      OBVIOUS
    <3>4. feed \in Feeds
      BY <1>1, <3>1, <3>3 DEF Init, Feeds
    <3>5. QED
      BY <3>2, <3>4
  <2>5. request \in [Slots -> Requests] /\ stage \in [Updates -> Stages]
    BY DEF Init, Requests, Stages
  <2>6. changes \in 0..MaxChanges /\ clicks \in 0..MaxClicks /\ failures \in 0..MaxFailures
    <3>1. changes = 0 /\ clicks = 0 /\ failures = 0
      BY DEF Init
    <3>2. MaxChanges \in Nat /\ MaxClicks \in Nat /\ MaxFailures \in Nat
      BY WebUIAssumption DEF WebUIAssumption
    <3>3. QED
      BY <3>1, <3>2
  <2>7. QED
    BY <2>1, <2>2, <2>3, <2>4, <2>5, <2>6 DEF Typed
<1>3. \A u \in Stored : Position(u, Stored) \in Nat /\ Position(u, Stored) < Cardinality(Stored)
  BY RowsAreUpdates, PositionType, PositionBelowSize
<1>4. Reading
  <2>1. walk = NewWalk /\ state = [filter |-> All, offset |-> 0]
    BY DEF Init
  <2>2. Ahead
    BY <1>3, <2>1 DEF Ahead, NewWalk, Unseen
  <2>3. Answers /\ PagerTellsMore
    BY DEF Init, Answers, AnswerInTime, PagerTellsMore, NewWalk
  <2>4. QED
    BY <2>2, <2>3 DEF Reading
<1>5. FeedInWindow
  <2>1. feed.since = Cardinality(Stored) /\ (~feed.excused => ~(Cardinality(Stored) > feedMaxItems))
    BY DEF Init
  <2>2. feedMaxItems \in Nat
    BY WebUIAssumption DEF WebUIAssumption
  <2>3. QED
    BY <1>1, <1>3, <2>1, <2>2 DEF FeedInWindow
<1>6. QED
  BY <1>2, <1>4, <1>5 DEF Inv

-----------------------------------------------------------------------------
(***************************************************************************)
(* The steps of the table and of the reader of the feed.                   *)
(***************************************************************************)
\* A counter that is below its bound may be incremented.
LEMMA CountersGrow ==
  ASSUME Typed
  PROVE  /\ changes < MaxChanges /\ changes' = changes + 1 => changes' \in 0..MaxChanges
         /\ clicks < MaxClicks /\ clicks' = clicks + 1 => clicks' \in 0..MaxClicks
         /\ failures < MaxFailures /\ failures' = failures + 1 => failures' \in 0..MaxFailures
<1>1. MaxChanges \in Nat /\ MaxClicks \in Nat /\ MaxFailures \in Nat
  BY WebUIAssumption DEF WebUIAssumption
<1>2. QED
  BY <1>1 DEF Typed

LEMMA DiscoverStep ==
  ASSUME Inv, NEW w \in Updates, Discover(w)
  PROVE  Inv'
<1>1. Typed /\ Reading /\ FeedInWindow
  BY DEF Inv
<1>2. w \in Updates \ Stored /\ Stored' = Stored \cup {w} /\ Grows
  BY <1>1, RowArrives
<1>3. Stored \in SUBSET Updates /\ Stored' \in SUBSET Updates
  BY DEF Stored
<1>4. feed.since \in Nat /\ feedMaxItems \in Nat
  BY <1>1, WebUIAssumption DEF Typed, Feeds, WebUIAssumption
<1>5. /\ feed'.seen = feed.seen /\ feed'.since = feed.since + 1
      /\ ~feed'.excused => /\ ~feed.excused /\ feed.since # feedMaxItems
                           /\ \A v \in Stored : ~Newer(v, w)
  BY <1>1 DEF Discover, Typed, Feeds, Newer
<1>6. Typed'
  <2>1. stage' \in [Updates -> Stages]
    BY <1>1 DEF Discover, Typed, Stages
  <2>2. feed' \in Feeds
    <3> DEFINE excuse == feed.excused \/ feed.since = feedMaxItems \/ \E v \in Stored : Rank[v] > Rank[w]
    <3>1. feed' = [feed EXCEPT !.since = @ + 1, !.excused = excuse] /\ feed \in Feeds
      BY <1>1 DEF Discover, Typed
    <3>2. ASSUME NEW e \in BOOLEAN PROVE [feed EXCEPT !.since = @ + 1, !.excused = e] \in Feeds
      <4>1. feed.since + 1 \in Nat
        BY <1>4
      <4>2. \A n \in Nat : [feed EXCEPT !.since = n, !.excused = e] \in Feeds
        BY <3>1 DEF Feeds
      <4>3. QED
        BY <4>1, <4>2
    <3>3. excuse \in BOOLEAN
      OBVIOUS
    <3> HIDE DEF excuse
    <3>4. QED
      BY <3>1, <3>2, <3>3
  <2>3. changes' \in 0..MaxChanges
    BY <1>1, CountersGrow DEF Discover
  <2>4. QED
    BY <1>1, <2>1, <2>2, <2>3 DEF Typed, Discover
<1>7. Reading'
  BY <1>1, <1>2, <1>6, ReadingWhileGrowing DEF Discover
<1>8. FeedInWindow'
  <2> SUFFICES ASSUME ~feed'.excused
               PROVE  /\ feed'.since <= feedMaxItems
                      /\ \A u \in Stored' \ feed'.seen : Position(u, Stored') < feed'.since
    BY DEF FeedInWindow
  <2>1. feed.since <= feedMaxItems /\ \A u \in Stored \ feed.seen : Position(u, Stored) < feed.since
    BY <1>1, <1>5 DEF FeedInWindow
  <2>2. Position(w, Stored') = 0
    BY <1>2, <1>3, <1>5, PositionAfterArrival
  <2>3. ASSUME NEW u \in Stored PROVE /\ Position(u, Stored) \in Nat /\ Position(u, Stored') \in Nat
                                      /\ Position(u, Stored') <= Position(u, Stored) + 1
    BY <1>2, <1>3, PositionType, PositionAfterArrival
  <2>4. feed'.since <= feedMaxItems
    BY <1>4, <1>5, <2>1
  <2>5. ASSUME NEW u \in Stored' \ feed'.seen PROVE Position(u, Stored') < feed'.since
    <3>1. CASE u = w
      BY <1>4, <1>5, <2>2, <3>1
    <3>2. CASE u \in Stored
      <4>1. Position(u, Stored) < feed.since
        BY <1>5, <2>1, <2>5, <3>2
      <4>2. QED
        BY <1>4, <1>5, <2>3, <3>2, <4>1
    <3>3. QED
      BY <1>2, <3>1, <3>2
  <2>6. QED
    BY <2>4, <2>5
<1>9. QED
  BY <1>6, <1>7, <1>8 DEF Inv

\* The feed stands while the rows do.
LEMMA FeedStands ==
  ASSUME FeedInWindow, Stored' = Stored, feed' = feed
  PROVE  FeedInWindow'
  BY DEF FeedInWindow

LEMMA VerdictStep ==
  ASSUME Inv, NEW w \in Updates, Verdict(w)
  PROVE  Inv'
<1>1. Typed /\ Reading /\ FeedInWindow
  BY DEF Inv
<1>2. Stored' = Stored /\ Grows
  BY <1>1, RowsStand
<1>3. Typed'
  <2>1. stage' \in [Updates -> Stages]
    BY <1>1 DEF Verdict, Typed, Stages
  <2>2. changes' \in 0..MaxChanges
    BY <1>1, CountersGrow DEF Verdict
  <2>3. QED
    BY <1>1, <2>1, <2>2 DEF Typed, Verdict
<1>4. Reading' /\ FeedInWindow'
  BY <1>1, <1>2, <1>3, ReadingWhileGrowing, FeedStands DEF Verdict
<1>5. QED
  BY <1>3, <1>4 DEF Inv

\* A reader who comes while nothing he missed has left the window misses nothing.
LEMMA ReadFeedStep ==
  ASSUME Inv, ReadFeed
  PROVE  Inv'
<1>1. Typed /\ Reading /\ FeedInWindow
  BY DEF Inv
<1>2. Stored' = Stored /\ Grows
  BY <1>1, RowsStand DEF ReadFeed
<1>3. feed.since \in Nat /\ feedMaxItems \in Nat /\ feed \in Feeds
  BY <1>1, WebUIAssumption DEF Typed, Feeds, WebUIAssumption
<1>4. Cards(Page(All, feedMaxItems, 0)) =
        {u \in Stored : 0 <= Position(u, Stored) /\ Position(u, Stored) < 0 + feedMaxItems}
  BY <1>1, <1>3, PageRows, AllMatch DEF Typed
<1>5. feed' = [feed EXCEPT !.seen = @ \cup Cards(Page(All, feedMaxItems, 0)), !.since = 0]
  BY DEF ReadFeed
<1>6. Typed'
  <2>1. Cards(Page(All, feedMaxItems, 0)) \in SUBSET Updates
    BY <1>4 DEF Stored
  <2>2. feed' \in Feeds
    BY <1>3, <1>5, <2>1 DEF Feeds
  <2>3. QED
    BY <1>1, <2>2 DEF Typed, ReadFeed
<1>7. Reading'
  BY <1>1, <1>2, <1>6, ReadingWhileGrowing DEF ReadFeed
<1>8. FeedInWindow'
  <2>1. /\ feed'.seen = feed.seen \cup Cards(Page(All, feedMaxItems, 0))
        /\ feed'.since = 0 /\ feed'.excused = feed.excused
    BY <1>3, <1>5 DEF Feeds
  <2>2. ASSUME ~feed.excused, NEW u \in Stored PROVE u \in feed'.seen
    <3>1. Position(u, Stored) \in Nat
      BY RowsAreUpdates, PositionType
    <3>2. CASE u \notin feed.seen
      <4>1. Position(u, Stored) < feedMaxItems
        BY <1>1, <1>3, <2>2, <3>1, <3>2 DEF FeedInWindow
      <4>2. u \in Cards(Page(All, feedMaxItems, 0))
        BY <1>3, <1>4, <3>1, <4>1
      <4>3. QED
        BY <2>1, <4>2
    <3>3. QED
      BY <2>1, <3>2
  <2>3. QED
    BY <1>2, <1>3, <2>1, <2>2 DEF FeedInWindow
<1>9. QED
  BY <1>6, <1>7, <1>8 DEF Inv

-----------------------------------------------------------------------------
(***************************************************************************)
(* The steps of a request.                                                 *)
(***************************************************************************)
\* What kind of record a request is, by its phase.
LEMMA RequestKinds ==
  ASSUME NEW r \in Requests
  PROVE  /\ r.phase = "sent" => r \in Sent
         /\ r.phase = "counted" => r \in Counted
         /\ r.phase = "answered" => r \in Answered
         /\ r.phase # "free" <=> r # Free
  BY DEF Requests, Free, Sent, Counted, Answered

\* A step that changes one request alone, to one that keeps what answers promise.
LEMMA RequestStep ==
  ASSUME Inv, NEW s \in Slots, NEW r \in Requests, AnswerInTime(r),
         request' = [request EXCEPT ![s] = r],
         UNCHANGED <<stage, state, shown, pager, walk, feed, changes, clicks>>,
         failures' \in 0..MaxFailures
  PROVE  Inv'
<1>1. Typed /\ Ahead /\ Answers /\ PagerTellsMore /\ FeedInWindow
  BY DEF Inv, Reading
<1>2. Stored' = Stored /\ Unseen' = Unseen /\ Reach' = Reach
  BY DEF Stored, Unseen, Reach
<1>3. Typed'
  BY <1>1 DEF Typed
<1>4. Ahead' /\ PagerTellsMore' /\ FeedInWindow'
  BY <1>1, <1>2 DEF Ahead, PagerTellsMore, FeedInWindow
<1>5. ASSUME NEW t \in Slots PROVE AnswerInTime(request[t])'
  <2>1. ASSUME NEW q, AnswerInTime(q), request'[t] = q PROVE AnswerInTime(request[t])'
    BY <1>2, <2>1 DEF AnswerInTime, BringsPage
  <2>2. request'[t] = IF t = s THEN r ELSE request[t]
    BY <1>1 DEF Typed
  <2>3. AnswerInTime(request[t])
    BY <1>1 DEF Answers
  <2>4. QED
    BY <2>1, <2>2, <2>3
<1>6. QED
  BY <1>3, <1>4, <1>5 DEF Inv, Reading, Answers

\* A new request is in time.
LEMMA PollStep ==
  ASSUME Inv, Poll
  PROVE  Inv'
<1>1. PICK s \in Slots : request' = [request EXCEPT ![s] = Query(state)]
  BY DEF Poll
<1>2. Query(state) \in Requests /\ AnswerInTime(Query(state))
  BY DEF Inv, Typed, States, Requests, Sent, Query, AnswerInTime
<1>3. QED
  BY <1>1, <1>2, RequestStep DEF Poll, Inv, Typed

LEMMA CountStep ==
  ASSUME Inv, NEW s \in Slots, Count(s)
  PROVE  Inv'
<1> DEFINE q == request[s]
           r == [phase |-> "counted", filter |-> q.filter, offset |-> q.offset, late |-> q.late,
                 total |-> Cardinality(Matching(q.filter))]
<1>1. q \in Sent /\ q # Free /\ AnswerInTime(q)
  BY RequestKinds DEF Inv, Typed, Count, Reading, Answers, Free
<1>2. Cardinality(Matching(q.filter)) \in Totals
  BY RowsFinite, RowsAreUpdates DEF Totals
<1>3. r \in Requests /\ AnswerInTime(r)
  BY <1>1, <1>2 DEF Requests, Sent, Counted, AnswerInTime
<1>4. request' = [request EXCEPT ![s] = r]
  BY DEF Count
<1> HIDE DEF q, r
<1>5. QED
  BY <1>3, <1>4, RequestStep DEF Count, Inv, Typed

LEMMA FailStep ==
  ASSUME Inv, NEW s \in Slots, Fail(s)
  PROVE  Inv'
<1>1. Free \in Requests /\ AnswerInTime(Free)
  BY DEF Requests, AnswerInTime
<1>2. failures' \in 0..MaxFailures
  BY CountersGrow DEF Fail, Inv
<1>3. QED
  BY <1>1, <1>2, RequestStep DEF Fail

\* The items are those of the reader's page, and the total counts them all.
LEMMA FindStep ==
  ASSUME Inv, NEW s \in Slots, Find(s)
  PROVE  Inv'
<1> DEFINE q == request[s]
           page == Page(q.filter, pageSize, q.offset)
           r == [phase |-> "answered", filter |-> q.filter, offset |-> q.offset, late |-> q.late,
                 total |-> q.total, torn |-> q.total # Cardinality(Matching(q.filter)),
                 items |-> page]
<1>1. q \in Counted /\ q # Free /\ AnswerInTime(q)
  BY RequestKinds DEF Inv, Typed, Find, Reading, Answers, Free
<1>2. pageSize \in Nat /\ q.offset \in Nat /\ stage \in [Updates -> Stages]
  BY <1>1, WebUIAssumption DEF WebUIAssumption, Counted, Inv, Typed
<1>3. /\ page \in Pages
      /\ Cards(page) = {u \in Matching(q.filter) : 
                         /\ q.offset <= Position(u, Matching(q.filter))
                         /\ Position(u, Matching(q.filter)) < q.offset + pageSize}
  BY <1>2, PageRows DEF Pages
<1>4. r \in Requests
  <2> HIDE DEF page, q
  <2>1. (q.total # Cardinality(Matching(q.filter))) \in BOOLEAN
    OBVIOUS
  <2>2. QED
    BY <1>1, <1>3, <2>1 DEF Requests, Counted, Answered
<1>5. AnswerInTime(r)
  <2> SUFFICES ASSUME ~q.late, ~walk.misled
               PROVE  q.filter = state.filter /\ q.offset = state.offset /\ BringsPage(r)
    BY <1>1 DEF AnswerInTime
  <2>1. q.filter = state.filter /\ q.offset = state.offset
    BY <1>1 DEF AnswerInTime
  <2>2. ASSUME NEW u \in Unseen
        PROVE  /\ q.filter = All /\ u \in Stored
               /\ Position(u, Stored) \in Nat /\ Position(u, Stored) < Cardinality(Stored)
               /\ q.offset <= Position(u, Stored)
    <3>1. q.filter = All /\ u \in Stored
      BY <2>1 DEF Inv, Reading, Ahead, Unseen
    <3>2. Position(u, Stored) \in Nat /\ Position(u, Stored) < Cardinality(Stored)
      BY <3>1, RowsAreUpdates, PositionType, PositionBelowSize
    <3>3. q.offset <= Position(u, Stored)
      BY <2>1, <3>2, ReachType DEF Inv, Reading, Ahead
    <3>4. QED
      BY <3>1, <3>2, <3>3
  <2>3. ASSUME NEW u \in Unseen \ Cards(page) PROVE Position(u, Stored) >= Reach
    BY <1>2, <1>3, <2>1, <2>2, AllMatch DEF Reach
  <2>4. ASSUME q.total = Cardinality(Matching(q.filter)), ~(Unseen \subseteq Cards(page))
        PROVE  Reach < q.total
    <3>1. PICK u \in Unseen \ Cards(page) : TRUE
      BY <2>4
    <3>2. Cardinality(Stored) \in Nat /\ Reach \in Nat
      BY RowsFinite, RowsAreUpdates, ReachType DEF Inv
    <3>3. QED
      BY <2>2, <2>3, <2>4, <3>1, <3>2, AllMatch
  <2>5. QED
    BY <2>1, <2>3, <2>4 DEF BringsPage
<1>6. request' = [request EXCEPT ![s] = r]
  BY DEF Find
<1> HIDE DEF q, r, page
<1>7. QED
  BY <1>4, <1>5, <1>6, RequestStep DEF Find, Inv, Typed

\* The answer that is in time shows the reader the rows he stands before.
LEMMA DeliverStep ==
  ASSUME Inv, NEW s \in Slots, Deliver(s)
  PROVE  Inv'
<1> DEFINE r == request[s]
           moved == [walk EXCEPT !.seen = @ \cup Cards(r.items), !.fresh = TRUE,
                       !.misled = @ \/ r.torn \/ r.late]
<1>1. Typed /\ Ahead /\ Answers /\ PagerTellsMore /\ FeedInWindow
  BY DEF Inv, Reading
<1>2. r \in Answered /\ r # Free /\ AnswerInTime(r) /\ r.phase = "answered"
  BY <1>1, RequestKinds DEF Typed, Deliver, Answers, Free
<1>3. /\ request' = [request EXCEPT ![s] = Free]
      /\ shown' = r.items /\ pager' = [offset |-> state.offset, total |-> r.total]
      /\ walk' = IF walk = NoWalk THEN walk ELSE moved
      /\ UNCHANGED <<stage, state, feed, changes, clicks, failures>>
  BY DEF Deliver
<1>4. Stored' = Stored /\ Reach' = Reach /\ Reach \in Nat /\ state.offset \in Nat
  BY <1>1, <1>3, ReachType DEF Stored, Reach
<1>5. r.items \in Pages /\ Cards(r.items) \in SUBSET Updates /\ r.total \in Totals
      /\ r.torn \in BOOLEAN /\ r.late \in BOOLEAN
  BY <1>2 DEF Answered, Pages, Cards
<1> HIDE DEF r
<1>6. CASE walk = NoWalk
  <2>1. walk' = walk /\ Unseen = {} /\ Unseen' = {} /\ ~walk.fresh
    BY <1>3, <1>6 DEF NoWalk, Unseen
  <2>2. Typed'
    BY <1>1, <1>3, <1>4, <1>5, <2>1 DEF Typed, Requests
  <2>3. Ahead' /\ PagerTellsMore' /\ FeedInWindow'
    BY <1>1, <1>3, <1>4, <2>1 DEF Ahead, PagerTellsMore, FeedInWindow
  <2>4. ASSUME NEW t \in Slots PROVE AnswerInTime(request[t])'
    <3>1. AnswerInTime(request[t]) /\ request'[t] = IF t = s THEN Free ELSE request[t]
      BY <1>1, <1>3 DEF Typed, Answers
    <3>2. QED
      BY <1>3, <2>1, <1>4, <3>1 DEF AnswerInTime, BringsPage
  <2>5. QED
    BY <2>2, <2>3, <2>4 DEF Inv, Reading, Answers
<1>7. CASE walk # NoWalk
  <2>1. /\ walk'.start = walk.start /\ walk'.seen = walk.seen \cup Cards(r.items) /\ walk'.fresh = TRUE
        /\ walk'.misled = (walk.misled \/ r.torn \/ r.late)
    BY <1>1, <1>3, <1>7 DEF Typed, Walks
  <2>2. walk' \in Walks
    BY <1>1, <1>3, <1>5, <1>7 DEF Typed, Walks
  <2>3. Typed'
    BY <1>1, <1>3, <1>4, <1>5, <2>2 DEF Typed, Requests
  <2>4. Unseen' = Unseen \ Cards(r.items)
    BY <2>1 DEF Unseen
  <2>5. ~walk'.misled => ~walk.misled /\ ~r.torn /\ BringsPage(r)
    BY <1>2, <2>1 DEF AnswerInTime
  <2>6. Ahead'
    BY <1>1, <1>3, <1>4, <2>1, <2>4, <2>5 DEF Ahead, BringsPage
  <2>7. PagerTellsMore'
    BY <1>3, <1>4, <2>4, <2>5 DEF PagerTellsMore, BringsPage
  <2>8. FeedInWindow'
    BY <1>1, <1>3, <1>4, FeedStands
  <2>9. ASSUME NEW t \in Slots PROVE AnswerInTime(request[t])'
    <3>1. AnswerInTime(request[t]) /\ request'[t] = IF t = s THEN Free ELSE request[t]
      BY <1>1, <1>3 DEF Typed, Answers
    <3>2. QED
      BY <1>3, <1>4, <2>1, <2>4, <2>5, <3>1 DEF AnswerInTime, BringsPage
  <2>10. QED
    BY <2>3, <2>6, <2>7, <2>8, <2>9 DEF Inv, Reading, Answers
<1>8. QED
  BY <1>6, <1>7

-----------------------------------------------------------------------------
(***************************************************************************)
(* The steps of the user.                                                  *)
(***************************************************************************)
\* After a click there is one request in time, and it asks for the new page.
LEMMA ClickStep ==
  ASSUME Inv, NEW new \in States, Click(new),
         walk' \in Walks, ~walk'.fresh, Ahead'
  PROVE  Inv'
<1>1. PICK s \in Slots :
        request' = [t \in Slots |-> IF t = s THEN Query(new) ELSE Outdated(request[t])]
  BY DEF Click
<1>2. state' = new /\ Stored' = Stored /\ feed' = feed
  BY DEF Click, Stored
<1>3. \A t \in Slots : Outdated(request[t]) \in Requests
  <2>1. ASSUME NEW q \in Requests PROVE Outdated(q) \in Requests
    BY DEF Outdated, Requests, Free, Sent, Counted, Answered
  <2>2. QED
    BY <2>1 DEF Inv, Typed
<1>4. Query(new) \in Requests
  BY DEF Query, Requests, Sent, States
<1>5. Typed'
  <2>1. request' \in [Slots -> Requests]
    BY <1>1, <1>3, <1>4
  <2>2. shown' \in Pages
    BY EmptyPage DEF Click
  <2>3. clicks' \in 0..MaxClicks
    BY CountersGrow DEF Inv, Click
  <2>4. QED
    BY <1>2, <2>1, <2>2, <2>3 DEF Inv, Typed, Click
<1>6. ASSUME NEW t \in Slots PROVE AnswerInTime(request[t])'
  <2>1. CASE t = s
    BY <1>1, <1>2, <2>1 DEF AnswerInTime, Query
  <2>2. CASE t # s
    <3>1. request'[t] = Outdated(request[t])
      BY <1>1, <2>2
    <3>2. request'[t] = Free \/ request'[t].late
      <4>1. ASSUME NEW q \in Requests PROVE Outdated(q) = Free \/ Outdated(q).late
        BY DEF Outdated, Requests, Free, Sent, Counted, Answered
      <4>2. QED
        BY <3>1, <4>1 DEF Inv, Typed
    <3>3. QED
      BY <3>2 DEF AnswerInTime
  <2>3. QED
    BY <2>1, <2>2
<1>7. PagerTellsMore' /\ FeedInWindow'
  BY <1>2, FeedStands DEF PagerTellsMore, Inv
<1>8. QED
  BY <1>5, <1>6, <1>7 DEF Inv, Reading, Answers

\* No reader walks, or one begins at the first page.
LEMMA WalksBegin ==
  /\ NoWalk \in Walks /\ ~NoWalk.fresh
  /\ NewWalk \in Walks /\ ~NewWalk.fresh
  /\ walk' = NoWalk => Ahead'
<1>1. Stored \in SUBSET Updates
  BY RowsAreUpdates
<1>2. QED
  BY <1>1 DEF NoWalk, NewWalk, Walks, Ahead, Unseen

LEMMA SelectFilterStep ==
  ASSUME Inv, NEW filter \in Filters, SelectFilter(filter)
  PROVE  Inv'
<1> DEFINE new == [filter |-> filter, offset |-> 0]
<1>1. new \in States /\ Click(new)
  BY DEF States, SelectFilter
<1>2. walk' = IF filter = All THEN NewWalk ELSE NoWalk
  BY DEF SelectFilter
<1>3. state' = new /\ Stored' = Stored
  BY <1>1 DEF Click, Stored
<1>4. Ahead'
  <2>1. CASE filter = All
    <3>1. walk' = NewWalk /\ state'.offset = 0 /\ state'.filter = All
      BY <1>2, <1>3, <2>1
    <3>2. \A u \in Stored : Position(u, Stored) \in Nat
      BY RowsAreUpdates, PositionType
    <3>3. QED
      BY <1>3, <3>1, <3>2 DEF Ahead, Unseen, NewWalk
  <2>2. CASE filter # All
    BY <1>2, <2>2, WalksBegin
  <2>3. QED
    BY <2>1, <2>2
<1>5. QED
  BY <1>1, <1>2, <1>4, WalksBegin, ClickStep

LEMMA PrevPageStep ==
  ASSUME Inv, PrevPage
  PROVE  Inv'
<1> DEFINE new == [state EXCEPT !.offset = IF @ > pageSize THEN @ - pageSize ELSE 0]
<1>1. state \in States /\ pageSize \in Nat /\ state.offset \in Nat
  BY WebUIAssumption DEF Inv, Typed, States, WebUIAssumption
<1>2. new \in States
  <2>1. (IF state.offset > pageSize THEN state.offset - pageSize ELSE 0) \in Nat
    BY <1>1
  <2>2. QED
    BY <1>1, <2>1 DEF States
<1>3. Click(new) /\ walk' = NoWalk
  BY DEF PrevPage
<1>4. QED
  BY <1>2, <1>3, WalksBegin, ClickStep

\* The next page begins where the answer to this one left the reader.
LEMMA NextPageStep ==
  ASSUME Inv, NextPage
  PROVE  Inv'
<1> DEFINE new == [state EXCEPT !.offset = @ + pageSize]
<1>1. state \in States /\ Reach \in Nat /\ walk \in Walks
  BY ReachType DEF Inv, Typed
<1>2. new \in States /\ new.offset = Reach /\ new.filter = state.filter
  BY <1>1 DEF States, Reach
<1>3. Click(new) /\ walk' = IF walk.fresh THEN [walk EXCEPT !.fresh = FALSE] ELSE NoWalk
  BY DEF NextPage
<1>4. state' = new /\ Stored' = Stored
  BY <1>3 DEF Click, Stored
<1> HIDE DEF new
<1>5. CASE walk.fresh
  <2>1. walk' \in Walks /\ ~walk'.fresh
        /\ walk'.start = walk.start /\ walk'.seen = walk.seen /\ walk'.misled = walk.misled
    BY <1>1, <1>3, <1>5 DEF Walks
  <2>2. Ahead'
    BY <1>2, <1>4, <1>5, <2>1 DEF Inv, Reading, Ahead, Unseen
  <2>3. QED
    BY <1>2, <1>3, <2>1, <2>2, ClickStep
<1>6. CASE ~walk.fresh
  BY <1>2, <1>3, <1>6, WalksBegin, ClickStep
<1>7. QED
  BY <1>5, <1>6

-----------------------------------------------------------------------------
(***************************************************************************)
(* The theorems.                                                           *)
(***************************************************************************)
LEMMA NextInv == Inv /\ [Next]_vars => Inv'
<1> SUFFICES ASSUME Inv, [Next]_vars PROVE Inv'
  OBVIOUS
<1>1. CASE Poll
  BY <1>1, PollStep
<1>2. CASE \E filter \in Filters : SelectFilter(filter)
  BY <1>2, SelectFilterStep
<1>3. CASE PrevPage
  BY <1>3, PrevPageStep
<1>4. CASE NextPage
  BY <1>4, NextPageStep
<1>5. ASSUME NEW s \in Slots, Answer(s) \/ Fail(s) PROVE Inv'
  BY <1>5, CountStep, FindStep, DeliverStep, FailStep DEF Answer
<1>6. ASSUME NEW u \in Updates, Discover(u) \/ Verdict(u) PROVE Inv'
  BY <1>6, DiscoverStep, VerdictStep
<1>7. CASE ReadFeed
  BY <1>7, ReadFeedStep
<1>8. CASE UNCHANGED vars
  <2>1. Typed /\ Reading /\ FeedInWindow
    BY DEF Inv
  <2>2. Typed' /\ Stored' = Stored /\ Grows
    BY <1>8, <2>1, RowsStand DEF vars, Typed
  <2>3. QED
    BY <1>8, <2>1, <2>2, ReadingWhileGrowing, FeedStands DEF vars, Inv
<1>9. QED
  BY <1>1, <1>2, <1>3, <1>4, <1>5, <1>6, <1>7, <1>8 DEF Next

LEMMA Invariance == Spec => []Inv
<1>1. Init => Inv
  BY InitInv
<1>2. QED
  BY <1>1, NextInv, PTL DEF Spec

\* The page never holds more cards than a page has places, whatever answers come
\* in whatever order, and requests and table have their types.
THEOREM WebUITypeCorrect == Spec => []TypeOK
<1>1. Inv => TypeOK
  <2> SUFFICES ASSUME Inv PROVE TypeOK
    OBVIOUS
  <2>1. \A s \in Slots : request[s].phase \in {"free", "sent", "counted", "answered"}
    BY DEF Inv, Typed, Requests, Free, Sent, Counted, Answered
  <2>2. Cardinality(shown) <= pageSize /\ Cards(shown) \subseteq Updates
    BY DEF Inv, Typed, Pages, Cards
  <2>3. QED
    BY <2>1, <2>2 DEF Inv, Typed, TypeOK, Stages, States, Totals
<1>2. QED
  BY <1>1, Invariance, PTL

\* A reader who pages through all updates, one answer per click, and whom no late
\* answer misled has seen every update that was there when he began, however many
\* updates arrive between two of his clicks.
THEOREM PagingMissesNothing == Spec => []PagingComplete
<1>1. Inv => PagingComplete
  <2> SUFFICES ASSUME Inv, walk.fresh, ~walk.misled, pager.offset = state.offset, NextDisabled
               PROVE  walk.start \subseteq walk.seen
    BY DEF PagingComplete
  <2>1. Reach \in Nat /\ pager.total \in Nat /\ Reach >= pager.total
    BY ReachType, RowsFinite DEF Inv, Typed, NextDisabled, Reach, Totals
  <2>2. Unseen = {}
    BY <2>1 DEF Inv, Reading, PagerTellsMore
  <2>3. QED
    BY <2>2 DEF Unseen
<1>2. QED
  BY <1>1, Invariance, PTL

\* A reader of the feed who comes before more updates than it holds have arrived,
\* in the order of publication, misses none.
THEOREM FeedMissesNothing == Spec => []FeedComplete
<1>1. Inv => FeedComplete
  <2>1. \A u \in Stored : Position(u, Stored) \in Nat
    BY RowsAreUpdates, PositionType
  <2>2. QED
    BY <2>1 DEF Inv, FeedInWindow, FeedComplete
<1>2. QED
  BY <1>1, Invariance, PTL

=============================================================================
