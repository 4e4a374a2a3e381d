------------------------------- MODULE WebUI -------------------------------
(***************************************************************************)
(* The read-only views (internal/webui) over ListUpdates (internal/        *)
(* storage/query.go): the page, whose script asks /api/updates every two   *)
(* seconds and at each click, and a reader of /feed.atom.                  *)
(*                                                                         *)
(* A request is answered by two queries, COUNT and SELECT, which see two   *)
(* states of the table.  The script does not wait for an answer before the *)
(* next request, and renders answers in whatever order they come.          *)
(* A slot of request is a connection of the browser.  Texts, titles and    *)
(* markup are left out: a row is shown by its identity and stage, and a    *)
(* page is the set of its rows, which stand in it from the newest on.      *)
(***************************************************************************)
EXTENDS Naturals, FiniteSets

CONSTANTS
  Updates,
  Rank,          \* order by published_at, created_at, which differ
  CategoryOf,    \* the category every verdict puts an update in
  Initial,       \* rows there before the page is loaded
  Filters,       \* [category, importance] that are selected, "" for all
  pageSize, feedMaxItems,
  Slots,         \* bound: requests of the page under way
  MaxChanges, MaxClicks, MaxFailures \* bounds

ASSUME WebUIAssumption ==
  /\ IsFiniteSet(Updates)
  /\ Rank \in [Updates -> Nat] /\ \A u, v \in Updates : Rank[u] = Rank[v] => u = v
  /\ Initial \subseteq Updates
  /\ Filters \subseteq [category : STRING, importance : STRING]
  /\ [category |-> "", importance |-> ""] \in Filters
  /\ pageSize \in Nat \ {0} /\ feedMaxItems \in Nat \ {0}
  /\ MaxChanges \in Nat /\ MaxClicks \in Nat /\ MaxFailures \in Nat

VARIABLES
  stage,    \* of each update: "none" without row, "pending", "important", "noise"
  state,    \* the script's offset and filter
  request,  \* the requests under way: query, phase and, once known, total and items
  shown,    \* the cards of the page
  pager,    \* what updatePager was called with: offset, total and the buttons
  walk,     \* history: a reader who pages through all updates
  feed,     \* history: what a reader of the feed has seen and may have missed
  changes, clicks, failures

vars == <<stage, state, request, shown, pager, walk, feed, changes, clicks, failures>>

All == [category |-> "", importance |-> ""]

-----------------------------------------------------------------------------
(***************************************************************************)
(* ListUpdates.                                                            *)
(***************************************************************************)
Stored == {u \in Updates : stage[u] # "none"}

Matches(u, filter) ==
  /\ filter.category # "" => stage[u] # "pending" /\ CategoryOf[u] = filter.category
  /\ filter.importance \in {"important", "noise", "pending"} => stage[u] = filter.importance

Matching(filter) == {u \in Stored : Matches(u, filter)}

\* Faulty variant: what was classified last comes first.
NewerByVerdict(u, v) ==
  \/ stage[u] # "pending" /\ stage[v] = "pending"
  \/ (stage[u] = "pending") = (stage[v] = "pending") /\ Rank[u] > Rank[v]

\* ORDER BY published_at DESC, created_at DESC
Newer(u, v) == Rank[u] > Rank[v]

\* The number of rows before u in the order of S.
Position(u, S) == Cardinality({v \in S : Newer(v, u)})

Card(u) == [update |-> u, stage |-> stage[u]]

\* LIMIT limit OFFSET offset
Page(filter, limit, offset) ==
  LET rows == Matching(filter)
  IN {Card(u) : u \in {v \in rows : offset <= Position(v, rows) /\ Position(v, rows) < offset + limit}}

Cards(page) == {card.update : card \in page}

-----------------------------------------------------------------------------
(***************************************************************************)
(* The script.                                                             *)
(***************************************************************************)
Free == [phase |-> "free"]

NewWalk == [start |-> Stored, seen |-> {}, fresh |-> FALSE, misled |-> FALSE]
NoWalk == [start |-> {}, seen |-> {}, fresh |-> FALSE, misled |-> FALSE]

\* The request that buildURL makes of the state.  late, which is history, becomes
\* true at the next click.
Query(asked) == [phase |-> "sent", filter |-> asked.filter, offset |-> asked.offset, late |-> FALSE]

Init ==
  /\ stage \in [Updates -> {"none", "pending", "important", "noise"}]
  /\ Stored = Initial /\ \A u \in Stored : stage[u] = "pending"
  /\ state = [filter |-> All, offset |-> 0]
  /\ request = [s \in Slots |-> Free]
  /\ shown = {}
  /\ pager = [offset |-> 0, total |-> 0]
  /\ walk = NewWalk
  /\ feed = [seen |-> {}, since |-> Cardinality(Stored),
             excused |-> Cardinality(Stored) > feedMaxItems]
  /\ changes = 0 /\ clicks = 0 /\ failures = 0

\* Faulty variant: the timer was started with the state of the first page.
PollFirstPage ==
  /\ \E s \in Slots : request[s] = Free /\ request' = [request EXCEPT ![s] = Query([state EXCEPT !.offset = 0])]
  /\ UNCHANGED <<stage, state, shown, pager, walk, feed, changes, clicks, failures>>

\* The first refresh and those of the timer.
Poll ==
  /\ \E s \in Slots : request[s] = Free /\ request' = [request EXCEPT ![s] = Query(state)]
  /\ UNCHANGED <<stage, state, shown, pager, walk, feed, changes, clicks, failures>>

Outdated(r) == IF r = Free THEN r ELSE [r EXCEPT !.late = TRUE]

\* A click changes the state, clears the cards and asks for the new page.
Click(new) ==
  /\ clicks < MaxClicks /\ clicks' = clicks + 1
  /\ state' = new
  /\ shown' = {}
  /\ \E s \in Slots :
       /\ request[s] = Free
       /\ request' = [t \in Slots |-> IF t = s THEN Query(new) ELSE Outdated(request[t])]
  /\ UNCHANGED <<stage, pager, feed, changes, failures>>

\* One of the two selectors changes.
SelectFilter(filter) ==
  /\ (filter.category = state.filter.category) # (filter.importance = state.filter.importance)
  /\ Click([filter |-> filter, offset |-> 0])
  /\ walk' = IF filter = All THEN NewWalk ELSE NoWalk

PrevDisabled == pager.offset <= 0
NextDisabled == pager.offset + pageSize >= pager.total

PrevPage ==
  /\ ~PrevDisabled /\ state.offset > 0
  /\ Click([state EXCEPT !.offset = IF @ > pageSize THEN @ - pageSize ELSE 0])
  /\ walk' = NoWalk

\* The button stays enabled until the next answer.
NextPage ==
  /\ ~NextDisabled
  /\ Click([state EXCEPT !.offset = @ + pageSize])
  /\ walk' = IF walk.fresh THEN [walk EXCEPT !.fresh = FALSE] ELSE NoWalk

-----------------------------------------------------------------------------
(***************************************************************************)
(* The handler of /api/updates and what becomes of its answer.             *)
(***************************************************************************)
Count(s) ==
  /\ request[s].phase = "sent"
  /\ request' = [request EXCEPT ![s] =
       [phase |-> "counted", filter |-> @.filter, offset |-> @.offset, late |-> @.late,
        total |-> Cardinality(Matching(@.filter))]]
  /\ UNCHANGED <<stage, state, shown, pager, walk, feed, changes, clicks, failures>>

Find(s) ==
  /\ request[s].phase = "counted"
  /\ request' = [request EXCEPT ![s] =
       [phase |-> "answered", filter |-> @.filter, offset |-> @.offset, late |-> @.late,
        total |-> @.total, torn |-> @.total # Cardinality(Matching(@.filter)),
        items |-> Page(@.filter, pageSize, @.offset)]]
  /\ UNCHANGED <<stage, state, shown, pager, walk, feed, changes, clicks, failures>>

\* render and updatePager: the answer is taken for one to the present state.
Deliver(s) ==
  LET r == request[s]
  IN /\ r.phase = "answered"
     /\ shown' = r.items
     /\ pager' = [offset |-> state.offset, total |-> r.total]
     /\ walk' = IF walk = NoWalk THEN walk
                ELSE [walk EXCEPT !.seen = @ \cup Cards(r.items), !.fresh = TRUE,
                        !.misled = @ \/ r.torn \/ r.late]
     /\ request' = [request EXCEPT ![s] = Free]
     /\ UNCHANGED <<stage, state, feed, changes, clicks, failures>>

\* A query fails, or the connection: the page stays as it is.
Fail(s) ==
  /\ request[s] # Free
  /\ failures < MaxFailures /\ failures' = failures + 1
  /\ request' = [request EXCEPT ![s] = Free]
  /\ UNCHANGED <<stage, state, shown, pager, walk, feed, changes, clicks>>

-----------------------------------------------------------------------------
(***************************************************************************)
(* The pipeline, and the reader of the feed.                               *)
(***************************************************************************)
\* InsertNew: a row without verdict.
Discover(u) ==
  /\ stage[u] = "none" /\ changes < MaxChanges
  /\ changes' = changes + 1
  /\ stage' = [stage EXCEPT ![u] = "pending"]
  /\ feed' = [feed EXCEPT !.since = @ + 1,
       !.excused = @ \/ feed.since = feedMaxItems \/ \E v \in Stored : Rank[v] > Rank[u]]
  /\ UNCHANGED <<state, request, shown, pager, walk, clicks, failures>>

\* SaveVerdict: the first verdict of an update or, when its message came twice,
\* another one.
Verdict(u) ==
  /\ stage[u] # "none" /\ changes < MaxChanges
  /\ changes' = changes + 1
  /\ \E v \in {"important", "noise"} : stage' = [stage EXCEPT ![u] = v]
  /\ UNCHANGED <<state, request, shown, pager, walk, feed, clicks, failures>>

\* Faulty variant: the feed is a page of the view, with its offset.
ReadFeedAtOffset ==
  /\ feed.since > 0
  /\ feed' = [feed EXCEPT !.seen = @ \cup Cards(Page(All, feedMaxItems, state.offset)), !.since = 0]
  /\ UNCHANGED <<stage, state, request, shown, pager, walk, changes, clicks, failures>>

\* /feed.atom without filter: the newest feedMaxItems updates; limit and offset of
\* the request are not looked at.
ReadFeed ==
  /\ feed.since > 0
  /\ feed' = [feed EXCEPT !.seen = @ \cup Cards(Page(All, feedMaxItems, 0)), !.since = 0]
  /\ UNCHANGED <<stage, state, request, shown, pager, walk, changes, clicks, failures>>

Answer(s) == Count(s) \/ Find(s) \/ Deliver(s)

Next ==
  \/ Poll
  \/ \E filter \in Filters : SelectFilter(filter)
  \/ PrevPage \/ NextPage
  \/ \E s \in Slots : Answer(s) \/ Fail(s)
  \/ \E u \in Updates : Discover(u) \/ Verdict(u)
  \/ ReadFeed

Spec == Init /\ [][Next]_vars

\* The timer fires, and every request is answered or fails.
FairSpec == Spec /\ WF_vars(Poll) /\ \A s \in Slots : WF_vars(Answer(s))

-----------------------------------------------------------------------------
\* The types of the table, of the page and of the requests.
TypeOK ==
  /\ stage \in [Updates -> {"none", "pending", "important", "noise"}]
  /\ state.filter \in Filters /\ state.offset \in Nat
  /\ \A s \in Slots : request[s].phase \in {"free", "sent", "counted", "answered"}
  /\ Cardinality(shown) <= pageSize /\ Cards(shown) \subseteq Updates
  /\ pager.offset \in Nat /\ pager.total \in 0..Cardinality(Updates)
  /\ changes \in 0..MaxChanges /\ clicks \in 0..MaxClicks /\ failures \in 0..MaxFailures

\* When the table and the user come to rest, so does the page, and on what the
\* table has for the filter and the offset it stands at: whatever was answered
\* late, out of order or not at all (refresh, "in near real time").
ViewConverges ==
  <>[](/\ shown = Page(state.filter, pageSize, state.offset)
       /\ pager = [offset |-> state.offset, total |-> Cardinality(Matching(state.filter))])

\* A reader who starts at the first page of all updates, waits for an answer
\* before each click on "next" and goes on until the button is disabled has seen
\* every update that was there when he began, though others came in between.
\* Two things mislead him: an answer to what was asked before his last click,
\* even if it was the same page, and one whose total was counted before an update
\* came that its items have (refresh, ListUpdates).
PagingComplete ==
  /\ walk.fresh /\ ~walk.misled
  /\ pager.offset = state.offset /\ NextDisabled
  => walk.start \subseteq walk.seen

\* A reader of the feed who comes before more than feedMaxItems updates have
\* arrived, in the order of publication, has seen all of them.
FeedComplete == feed.since = 0 /\ ~feed.excused => Stored \subseteq feed.seen

=============================================================================
