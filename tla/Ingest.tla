------------------------------- MODULE Ingest -------------------------------
(***************************************************************************)
(* What becomes of the entries of a document: Parse fills in missing dates *)
(* and links, Fingerprint identifies an event by its source and its        *)
(* publication second, InsertNew stores one row for each new fingerprint.  *)
(* Polls follow one another, over the life of the database.                *)
(*                                                                         *)
(* A poll that fails, at the fetch, at the parse or in the transaction of  *)
(* InsertNew, changes no row and needs no action.                          *)
(***************************************************************************)
EXTENDS Naturals, FiniteSets

CONSTANTS
  Feeds,    \* the active feeds
  Items,    \* entries the feeds' authors publish
  LinkOf,   \* the link of each entry, or NoLink
  DateOf,   \* the date (published, else updated) it appears with
  Dates,    \* the dates an author may give: seconds, and NoDate
  NoLink, NoDate,
  MaxTime,  \* bound: the last second
  MaxEdits  \* bound: edits of entries

ASSUME IngestAssumption ==
  /\ NoDate \notin Nat /\ Dates \subseteq Nat \cup {NoDate}
  /\ DateOf \in [Items -> Dates]
  /\ NoLink \notin Feeds
  /\ MaxTime \in Nat /\ MaxEdits \in Nat

VARIABLES
  doc,     \* the entries each feed's document has now
  edition, \* for each entry, how often its text was edited
  date,    \* for each entry, its date
  dated,   \* history: the dates each entry has had
  edits,   \* how many edits there were
  now,     \* the clock, in seconds
  rows,    \* the updates table: the event of each row, with its feed
  seen     \* history: feed, entry and date of every event some poll stored or dropped

itemVars == <<edition, date, dated, edits>>
vars == <<doc, itemVars, now, rows, seen>>

Init ==
  /\ doc = [f \in Feeds |-> {}]
  /\ edition = [i \in Items |-> 0]
  /\ date = DateOf
  /\ dated = [i \in Items |-> {DateOf[i]}]
  /\ edits = 0
  /\ now = 0
  /\ rows = {}
  /\ seen = {}

\* The source of an entry: its link, or the feed for one without.
Source(f, i) == IF LinkOf[i] = NoLink THEN f ELSE LinkOf[i]

\* The event Parse makes of entry i of feed f, read at second t.
Parse(f, i, t) ==
  [feed |-> f, item |-> i, text |-> edition[i], source |-> Source(f, i),
   pub |-> IF date[i] = NoDate THEN t ELSE date[i]]

\* Faulty variant: the text is part of the fingerprint.
FingerprintOfText(e) == <<e.source, e.pub, e.text>>

\* Faulty variant: the date is no part of the fingerprint.
FingerprintOfSource(e) == <<e.source>>

Fingerprint(e) == <<e.source, e.pub>>

\* INSERT .. ON CONFLICT (fingerprint) DO NOTHING for each event in turn: of
\* the events of a document that share a new fingerprint the first is stored.
InsertNew(E) ==
  \E N \in SUBSET E :
    /\ \A e \in N : \A r \in rows : Fingerprint(r) # Fingerprint(e)
    /\ \A e, n \in N : Fingerprint(e) = Fingerprint(n) => e = n
    /\ \A e \in E : \E r \in rows \cup N : Fingerprint(r) = Fingerprint(e)
    /\ rows' = rows \cup N

\* ProcessFeed on a 200 answer.  Parse reads the clock for each entry without a
\* date, so that a second may pass between two of them.
Poll(f) ==
  /\ \E later \in SUBSET {i \in doc[f] : date[i] = NoDate} :
       LET E == {Parse(f, i, IF i \in later THEN now + 1 ELSE now) : i \in doc[f]}
       IN /\ now' = IF later = {} THEN now ELSE now + 1
          /\ now' <= MaxTime
          /\ InsertNew(E)
          /\ seen' = seen \cup {[feed |-> f, item |-> e.item, pub |-> e.pub] : e \in E}
  /\ UNCHANGED <<doc, itemVars>>

\* The feed's author adds an entry or drops an old one.
AddItem(f, i) ==
  /\ doc' = [doc EXCEPT ![f] = @ \cup {i}]
  /\ UNCHANGED <<itemVars, now, rows, seen>>

DropItem(f, i) ==
  /\ doc' = [doc EXCEPT ![f] = @ \ {i}]
  /\ UNCHANGED <<itemVars, now, rows, seen>>

Edit == edits < MaxEdits /\ edits' = edits + 1

\* The author edits the text of an entry, or anything else but its link and date
\* (an entry with another link is another entry).
EditItem(i) ==
  /\ Edit
  /\ edition' = [edition EXCEPT ![i] = @ + 1]
  /\ UNCHANGED <<doc, date, dated, now, rows, seen>>

\* The date of an entry changes, as that of a GitHub release does with an edit.
Redate(i, t) ==
  /\ Edit
  /\ date' = [date EXCEPT ![i] = t]
  /\ dated' = [dated EXCEPT ![i] = @ \cup {t}]
  /\ UNCHANGED <<doc, edition, now, rows, seen>>

TimePasses ==
  /\ now < MaxTime
  /\ now' = now + 1
  /\ UNCHANGED <<doc, itemVars, rows, seen>>

Next ==
  \/ \E f \in Feeds : Poll(f)
  \/ \E f \in Feeds, i \in Items : AddItem(f, i) \/ DropItem(f, i)
  \/ \E i \in Items : EditItem(i) \/ \E t \in Dates : Redate(i, t)
  \/ TimePasses

Spec == Init /\ [][Next]_vars

-----------------------------------------------------------------------------
RowsOf(i) == {r \in rows : r.item = i}

\* The types of the rows and of the environment.
TypeOK ==
  /\ doc \in [Feeds -> SUBSET Items]
  /\ edition \in [Items -> 0..MaxEdits]
  /\ date \in [Items -> Dates] /\ dated \in [Items -> SUBSET Dates]
  /\ edits \in 0..MaxEdits
  /\ now \in 0..MaxTime
  /\ rows \subseteq [feed : Feeds, item : Items, text : 0..MaxEdits,
                      source : (Feeds \cup {LinkOf[i] : i \in Items}) \ {NoLink}, pub : Nat]
  /\ seen \subseteq [feed : Feeds, item : Items, pub : Nat]

\* An entry with a link becomes one update for each date it had, and no more,
\* whatever is edited in its text, whichever feeds carry it and however often it
\* is dropped and published again: a second classification and a second
\* notification come of a changed date alone.
OneRowPerDate ==
  \A i \in Items :
    LinkOf[i] # NoLink /\ NoDate \notin dated[i]
      => Cardinality(RowsOf(i)) <= Cardinality(dated[i])

\* An entry a poll came by is lost only to one of the same second and the same
\* link (the same feed, for entries without link): whatever was edited or dropped
\* since, such an entry, most often itself, has a row.
OnlyTwinsDropped ==
  \A s \in seen :
    \E r \in rows : Source(r.feed, r.item) = Source(s.feed, s.item) /\ r.pub = s.pub

=============================================================================
