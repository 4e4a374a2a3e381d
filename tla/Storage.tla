------------------------------ MODULE Storage ------------------------------
(***************************************************************************)
(* The database (internal/storage): the tables the pipeline reads and      *)
(* writes and the repository calls on them.  Every call is one SQL         *)
(* statement or one transaction, so each is a single atomic operator here. *)
(*                                                                         *)
(* An update is identified with its fingerprint, which is unique in the    *)
(* updates table: a member of Updates is an entry that some feed may       *)
(* publish, and its row exists exactly when owner[u] is a feed.            *)
(***************************************************************************)
EXTENDS Naturals, FiniteSets

CONSTANTS
  Feeds,          \* the active rows of the feeds table
  Updates,        \* entries, one for each fingerprint
  Channels,       \* rows of the channels table
  PublishedAt,    \* publication time of an entry
  NoFeed,         \* owner of an entry that has no row
  ReconcileBatch, \* cap on one ListPending / ListUndispatchedImportant
  HistorySize     \* number of important updates given to the classifier

ASSUME StorageAssumption ==
  /\ NoFeed \notin Feeds
  /\ IsFiniteSet(Updates)
  /\ IsFiniteSet(Channels)
  /\ PublishedAt \in [Updates -> Nat]
  /\ ReconcileBatch \in Nat \ {0}
  /\ HistorySize \in Nat \ {0}

VARIABLES
  owner,        \* updates.feed_id: the feed whose poll inserted the row
  verdict,      \* updates.verdict_important: "null" until classified_at is set
  dispatches,   \* the dispatches table: pairs <<update, channel>>
  feedChannels, \* the feed_channels table: pairs <<feed, channel>>
  etag          \* feeds.etag / last_modified: 0 when empty, else the version
                \* of the document whose headers were saved

storageVars == <<owner, verdict, dispatches, feedChannels, etag>>

Verdicts == {"important", "noise"}

StorageTypeOK ==
  /\ owner \in [Updates -> Feeds \cup {NoFeed}]
  /\ verdict \in [Updates -> Verdicts \cup {"null"}]
  /\ dispatches \subseteq Updates \X Channels
  /\ feedChannels \subseteq Feeds \X Channels
  /\ etag \in [Feeds -> Nat]

-----------------------------------------------------------------------------
(***************************************************************************)
(* Queries.  A query with ORDER BY and LIMIT returns a set of rows here;   *)
(* rows with equal keys may be returned in any order, so it denotes the    *)
(* set of the results it may have.  Callers that go through the rows in    *)
(* order take them by publication time.                                    *)
(***************************************************************************)
Limited(S, n) == IF Cardinality(S) < n THEN Cardinality(S) ELSE n

\* ORDER BY published_at ASC LIMIT n
OldestOf(S, n) ==
  {B \in SUBSET S : /\ Cardinality(B) = Limited(S, n)
                    /\ \A u \in B, v \in S \ B : PublishedAt[u] <= PublishedAt[v]}

\* ORDER BY published_at DESC LIMIT n
NewestOf(S, n) ==
  {B \in SUBSET S : /\ Cardinality(B) = Limited(S, n)
                    /\ \A u \in B, v \in S \ B : PublishedAt[u] >= PublishedAt[v]}

Stored == {u \in Updates : owner[u] # NoFeed}

Pending == {u \in Stored : verdict[u] = "null"}

ListPending == OldestOf(Pending, ReconcileBatch)

ImportantOf(f) == {u \in Stored : owner[u] = f /\ verdict[u] = "important"}

LastImportant(f) == NewestOf(ImportantOf(f), HistorySize)

ChannelsFor(f) == {c \in Channels : <<f, c>> \in feedChannels}

DispatchedTo(u) == {c \in Channels : <<u, c>> \in dispatches}

IsDispatched(u, c) == <<u, c>> \in dispatches

\* Faulty variant: a row is taken for delivered once any channel has it.
UndispatchedImportantAny ==
  {u \in Stored : /\ verdict[u] = "important"
                  /\ ChannelsFor(owner[u]) # {}
                  /\ DispatchedTo(u) = {}}

\* Faulty variant: the dispatch rows are not counted.
UndispatchedImportantAll ==
  {u \in Stored : verdict[u] = "important" /\ ChannelsFor(owner[u]) # {}}

\* The sub-selects compare the number of mapped channels with the number of
\* dispatch rows of the update.
UndispatchedImportant ==
  {u \in Stored : /\ verdict[u] = "important"
                  /\ Cardinality(ChannelsFor(owner[u])) > Cardinality(DispatchedTo(u))}

ListUndispatchedImportant == OldestOf(UndispatchedImportant, ReconcileBatch)

-----------------------------------------------------------------------------
(***************************************************************************)
(* Statements.                                                             *)
(***************************************************************************)
New(S) == {u \in S : owner[u] = NoFeed}

\* Faulty variant: the conflict clause updates feed_id of the existing row.
InsertNewUpsert(f, S) ==
  /\ owner' = [u \in Updates |-> IF u \in S THEN f ELSE owner[u]]
  /\ UNCHANGED <<verdict, dispatches, feedChannels, etag>>

\* INSERT .. ON CONFLICT (fingerprint) DO NOTHING for the whole batch, in one
\* transaction: a fingerprint that is already stored keeps its row and feed.
InsertNew(f, S) ==
  /\ owner' = [u \in Updates |-> IF u \in New(S) THEN f ELSE owner[u]]
  /\ UNCHANGED <<verdict, dispatches, feedChannels, etag>>

\* UPDATE .. SET verdict_*, classified_at: overwrites an earlier verdict.
SaveVerdict(u, v) ==
  /\ verdict' = [verdict EXCEPT ![u] = v]
  /\ UNCHANGED <<owner, dispatches, feedChannels, etag>>

MarkDispatched(u, c) ==
  /\ dispatches' = dispatches \cup {<<u, c>>}
  /\ UNCHANGED <<owner, verdict, feedChannels, etag>>

UpdateCacheHeaders(f, e) ==
  /\ etag' = [etag EXCEPT ![f] = e]
  /\ UNCHANGED <<owner, verdict, dispatches, feedChannels>>

=============================================================================
