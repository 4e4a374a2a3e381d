---------------------------- MODULE IngestProofs ----------------------------
(***************************************************************************)
(* Theorems of Ingest, for every set of feeds and entries and any links    *)
(* and dates.  Two facts of the table carry them: a row's fingerprint is   *)
(* that of the entry it was made of, at a date the entry had, and no two   *)
(* rows share one.                                                         *)
(***************************************************************************)
EXTENDS Ingest, FiniteSetTheorems, TLAPS

\* An event that Parse made of an entry.
IsParsed(r) ==
  /\ r \in [feed : Feeds, item : Items, text : 0..MaxEdits,
             source : (Feeds \cup {LinkOf[i] : i \in Items}) \ {NoLink}, pub : Nat]
  /\ r.source = Source(r.feed, r.item)
  /\ NoDate \notin dated[r.item] => r.pub \in dated[r.item]

OneRowPerFingerprint == \A r, s \in rows : Fingerprint(r) = Fingerprint(s) => r = s

EnvironmentOK ==
  /\ doc \in [Feeds -> SUBSET Items]
  /\ edits \in 0..MaxEdits
  /\ edition \in [Items -> 0..edits]
  /\ date \in [Items -> Dates] /\ dated \in [Items -> SUBSET Dates]
  /\ \A i \in Items : date[i] \in dated[i] /\ IsFiniteSet(dated[i])
  /\ now \in 0..MaxTime
  /\ seen \subseteq [feed : Feeds, item : Items, pub : Nat]

Inv ==
  /\ EnvironmentOK
  /\ \A r \in rows : IsParsed(r)
  /\ OneRowPerFingerprint
  /\ OnlyTwinsDropped

\* Parse fills in what an entry lacks.
LEMMA ParseIsParsed ==
  ASSUME EnvironmentOK, NEW f \in Feeds, NEW i \in Items, NEW t \in Nat
  PROVE  IsParsed(Parse(f, i, t))
<1>1. /\ date[i] \in Nat \cup {NoDate} /\ date[i] \in dated[i]
      /\ edition[i] \in 0..MaxEdits
  <2>1. date[i] \in Nat \cup {NoDate} /\ date[i] \in dated[i]
    BY IngestAssumption DEF EnvironmentOK
  <2>2. edition[i] \in 0..edits /\ edits \in 0..MaxEdits
    BY DEF EnvironmentOK
  <2>3. QED
    BY <2>1, <2>2, IngestAssumption
<1>2. Source(f, i) \in (Feeds \cup {LinkOf[j] : j \in Items}) \ {NoLink}
  BY IngestAssumption DEF Source
<1>3. QED
  BY <1>1, <1>2 DEF IsParsed, Parse

\* InsertNew adds parsed rows, never a second one of a fingerprint, and leaves
\* every event of the document with a row of its fingerprint.
LEMMA InsertKeepsTable ==
  ASSUME \A r \in rows : IsParsed(r), OneRowPerFingerprint, UNCHANGED dated,
         NEW E, \A e \in E : IsParsed(e), InsertNew(E)
  PROVE  /\ \A r \in rows' : IsParsed(r)'
         /\ OneRowPerFingerprint'
         /\ rows \subseteq rows'
         /\ \A e \in E : \E r \in rows' : Fingerprint(r) = Fingerprint(e)
<1>1. PICK N \in SUBSET E :
        /\ \A e \in N : \A r \in rows : Fingerprint(r) # Fingerprint(e)
        /\ \A e, n \in N : Fingerprint(e) = Fingerprint(n) => e = n
        /\ \A e \in E : \E r \in rows \cup N : Fingerprint(r) = Fingerprint(e)
        /\ rows' = rows \cup N
  BY DEF InsertNew
<1>2. \A r \in rows' : IsParsed(r)'
  BY <1>1 DEF IsParsed, Source
<1>3. OneRowPerFingerprint'
  <2> SUFFICES ASSUME NEW r \in rows \cup N, NEW s \in rows \cup N, Fingerprint(r) = Fingerprint(s)
               PROVE  r = s
    BY <1>1 DEF OneRowPerFingerprint, Fingerprint
  <2>1. CASE r \in rows /\ s \in rows
    BY <2>1 DEF OneRowPerFingerprint
  <2>2. CASE r \in N /\ s \in N
    BY <1>1, <2>2
  <2>3. CASE (r \in rows /\ s \in N) \/ (r \in N /\ s \in rows)
    BY <1>1, <2>3
  <2>4. QED
    BY <2>1, <2>2, <2>3
<1>4. QED
  BY <1>1, <1>2, <1>3

LEMMA InitInv == Init => Inv
<1> SUFFICES ASSUME Init PROVE Inv
  OBVIOUS
<1>1. EnvironmentOK
  <2>1. 0 \in 0..MaxTime /\ 0 \in 0..MaxEdits /\ 0 \in 0..0
    BY IngestAssumption
  <2>2. \A i \in Items : DateOf[i] \in Dates /\ IsFiniteSet({DateOf[i]})
    BY IngestAssumption, FS_Singleton
  <2>3. QED
    BY <2>1, <2>2, IngestAssumption DEF Init, EnvironmentOK
<1>2. QED
  BY <1>1 DEF Init, Inv, OneRowPerFingerprint, OnlyTwinsDropped

LEMMA PollInv == ASSUME Inv, NEW f \in Feeds, Poll(f) PROVE Inv'
<1>1. PICK later \in SUBSET {i \in doc[f] : date[i] = NoDate} :
        LET E == {Parse(f, i, IF i \in later THEN now + 1 ELSE now) : i \in doc[f]}
        IN /\ now' = IF later = {} THEN now ELSE now + 1
           /\ now' <= MaxTime
           /\ InsertNew(E)
           /\ seen' = seen \cup {[feed |-> f, item |-> e.item, pub |-> e.pub] : e \in E}
  BY DEF Poll
<1> DEFINE At(i) == IF i \in later THEN now + 1 ELSE now
           E == {Parse(f, i, At(i)) : i \in doc[f]}
<1>2. EnvironmentOK /\ doc[f] \subseteq Items /\ now \in Nat
  BY IngestAssumption DEF Inv, EnvironmentOK
<1>3. ASSUME NEW i \in doc[f] PROVE At(i) \in Nat
  BY <1>2
<1>4. \A e \in E : IsParsed(e) /\ e.feed = f
  <2>1. \A e \in E : e.feed = f
    BY DEF Parse
  <2>2. QED
    BY <1>2, <1>3, <2>1, ParseIsParsed
<1>5. /\ InsertNew(E)
      /\ now' = IF later = {} THEN now ELSE now + 1
      /\ now' <= MaxTime
      /\ seen' = seen \cup {[feed |-> f, item |-> e.item, pub |-> e.pub] : e \in E}
  BY <1>1
<1> HIDE DEF At, E
<1>6. /\ \A r \in rows' : IsParsed(r)'
      /\ OneRowPerFingerprint'
      /\ rows \subseteq rows'
      /\ \A e \in E : \E r \in rows' : Fingerprint(r) = Fingerprint(e)
  BY <1>4, <1>5, InsertKeepsTable DEF Inv, Poll, itemVars
<1>7. EnvironmentOK'
  <2>1. now' \in 0..MaxTime
    BY <1>2, <1>5, IngestAssumption
  <2>2. seen' \subseteq [feed : Feeds, item : Items, pub : Nat]
    BY <1>2, <1>4, <1>5 DEF EnvironmentOK, IsParsed
  <2>3. QED
    BY <1>2, <2>1, <2>2 DEF Poll, EnvironmentOK, itemVars
<1>8. OnlyTwinsDropped'
  <2> SUFFICES ASSUME NEW s \in seen'
               PROVE  \E r \in rows' : Source(r.feed, r.item) = Source(s.feed, s.item) /\ r.pub = s.pub
    BY DEF OnlyTwinsDropped, Source
  <2>1. CASE s \in seen
    BY <1>6, <2>1 DEF Inv, OnlyTwinsDropped
  <2>2. ASSUME NEW e \in E, s = [feed |-> f, item |-> e.item, pub |-> e.pub]
        PROVE  \E r \in rows' : Source(r.feed, r.item) = Source(s.feed, s.item) /\ r.pub = s.pub
    <3>1. PICK r \in rows' : Fingerprint(r) = Fingerprint(e)
      BY <1>6
    <3>2. r.source = e.source /\ r.pub = e.pub
      BY <3>1 DEF Fingerprint
    <3>3. e.source = Source(f, e.item) /\ r.source = Source(r.feed, r.item)
      BY <1>4, <1>6 DEF IsParsed, Source
    <3>4. QED
      BY <2>2, <3>2, <3>3
  <2>3. QED
    BY <1>5, <2>1, <2>2
<1>9. QED
  BY <1>6, <1>7, <1>8 DEF Inv

\* What changes the environment alone: an entry has no date less than before, and
\* one it was never without, it still has.
LEMMA OtherInv ==
  ASSUME Inv, rows' = rows, seen' = seen, EnvironmentOK',
         \A i \in Items : dated[i] \subseteq dated'[i]
  PROVE  Inv'
<1>1. \A r \in rows' : IsParsed(r)'
  BY DEF Inv, IsParsed, Source
<1>2. OneRowPerFingerprint' /\ OnlyTwinsDropped'
  BY DEF Inv, OneRowPerFingerprint, Fingerprint, OnlyTwinsDropped, Source
<1>3. QED
  BY <1>1, <1>2 DEF Inv

\* One more edit is within the bound.
LEMMA EditCounts ==
  ASSUME EnvironmentOK, Edit
  PROVE  edits' \in 0..MaxEdits /\ edits' = edits + 1 /\ 0..edits \subseteq 0..edits'
BY IngestAssumption DEF EnvironmentOK, Edit

LEMMA EditItemInv == ASSUME Inv, NEW i \in Items, EditItem(i) PROVE Inv'
<1>1. EnvironmentOK /\ edits' \in 0..MaxEdits /\ edits' = edits + 1 /\ 0..edits \subseteq 0..edits'
  BY EditCounts DEF EditItem, Inv
<1>2. edition[i] + 1 \in 0..edits'
  BY <1>1, IngestAssumption DEF EnvironmentOK
<1>3. edition' \in [Items -> 0..edits']
  BY <1>1, <1>2 DEF EditItem, EnvironmentOK
<1>4. EnvironmentOK'
  BY <1>1, <1>3 DEF EditItem, EnvironmentOK
<1>5. QED
  BY <1>4, OtherInv DEF EditItem

LEMMA RedateInv == ASSUME Inv, NEW i \in Items, NEW t \in Dates, Redate(i, t) PROVE Inv'
<1>1. EnvironmentOK /\ edits' \in 0..MaxEdits /\ 0..edits \subseteq 0..edits'
  BY EditCounts DEF Redate, Inv
<1>2. edition' \in [Items -> 0..edits']
  BY <1>1 DEF Redate, EnvironmentOK
<1>3. IsFiniteSet(dated[i] \cup {t})
  BY <1>1, FS_AddElement DEF EnvironmentOK
<1>4. /\ date' = [date EXCEPT ![i] = t]
      /\ dated' = [dated EXCEPT ![i] = dated[i] \cup {t}]
  BY DEF Redate
<1>5. /\ date' \in [Items -> Dates] /\ dated' \in [Items -> SUBSET Dates]
      /\ \A j \in Items : /\ date'[j] \in dated'[j] /\ IsFiniteSet(dated'[j])
                            /\ dated[j] \subseteq dated'[j]
  BY <1>1, <1>3, <1>4 DEF EnvironmentOK
<1>6. EnvironmentOK'
  BY <1>1, <1>2, <1>5 DEF Redate, EnvironmentOK
<1>7. QED
  BY <1>5, <1>6, OtherInv DEF Redate

LEMMA NextInv == Inv /\ [Next]_vars => Inv'
<1> SUFFICES ASSUME Inv, [Next]_vars PROVE Inv'
  OBVIOUS
<1>1. ASSUME NEW f \in Feeds, Poll(f) PROVE Inv'
  BY <1>1, PollInv
<1>2. ASSUME NEW f \in Feeds, NEW i \in Items, AddItem(f, i) \/ DropItem(f, i)
      PROVE  Inv'
  <2>1. EnvironmentOK' /\ rows' = rows /\ seen' = seen /\ dated' = dated
    BY <1>2 DEF AddItem, DropItem, Inv, EnvironmentOK, itemVars
  <2>2. QED
    BY <2>1, OtherInv
<1>3. ASSUME NEW i \in Items, EditItem(i) \/ \E t \in Dates : Redate(i, t) PROVE Inv'
  BY <1>3, EditItemInv, RedateInv
<1>4. CASE TimePasses
  <2>1. EnvironmentOK' /\ rows' = rows /\ seen' = seen /\ dated' = dated
    BY <1>4, IngestAssumption DEF TimePasses, Inv, EnvironmentOK, itemVars
  <2>2. QED
    BY <2>1, OtherInv
<1>5. CASE UNCHANGED vars
  <2>1. EnvironmentOK' /\ rows' = rows /\ seen' = seen /\ dated' = dated
    BY <1>5 DEF vars, Inv, EnvironmentOK, itemVars
  <2>2. QED
    BY <2>1, OtherInv
<1>6. QED
  BY <1>1, <1>2, <1>3, <1>4, <1>5 DEF Next

LEMMA SpecInv == Spec => []Inv
<1>1. Inv /\ [Next]_vars => Inv'
  BY NextInv
<1>2. QED
  BY <1>1, InitInv, PTL DEF Spec

\* The rows and the environment are well typed; in particular no row is without
\* a link.
THEOREM IngestTypeCorrect == Spec => []TypeOK
<1>1. ASSUME Inv PROVE TypeOK
  <2>1. EnvironmentOK
    BY <1>1 DEF Inv
  <2>2. edition \in [Items -> 0..MaxEdits]
    <3>1. 0..edits \subseteq 0..MaxEdits
      BY <2>1, IngestAssumption DEF EnvironmentOK
    <3>2. QED
      BY <2>1, <3>1 DEF EnvironmentOK
  <2>3. \A r \in rows :
          r \in [feed : Feeds, item : Items, text : 0..MaxEdits,
                 source : (Feeds \cup {LinkOf[i] : i \in Items}) \ {NoLink}, pub : Nat]
    BY <1>1 DEF Inv, IsParsed
  <2>4. QED
    BY <2>1, <2>2, <2>3 DEF EnvironmentOK, TypeOK
<1>2. QED
  BY <1>1, SpecInv, PTL

\* An entry with a link has no more rows than it had dates: each row bears one of
\* them, and two rows never the same (Fingerprint, InsertNew).
THEOREM OneRowForEachDate == Spec => []OneRowPerDate
<1>1. ASSUME Inv, NEW i \in Items, LinkOf[i] # NoLink, NoDate \notin dated[i]
      PROVE  Cardinality(RowsOf(i)) <= Cardinality(dated[i])
  <2> DEFINE pub == [r \in RowsOf(i) |-> r.pub]
  <2>1. ASSUME NEW r \in RowsOf(i) PROVE r.pub \in dated[i] /\ Fingerprint(r) = <<LinkOf[i], r.pub>>
    BY <1>1 DEF RowsOf, Inv, IsParsed, Source, Fingerprint
  <2>2. \A r, s \in RowsOf(i) : r.pub = s.pub => r = s
    BY <1>1, <2>1 DEF RowsOf, Inv, OneRowPerFingerprint
  <2>3. pub \in Injection(RowsOf(i), dated[i])
    BY <2>1, <2>2 DEF Injection, IsInjective
  <2>4. IsFiniteSet(dated[i])
    BY <1>1 DEF Inv, EnvironmentOK
  <2>5. QED
    BY <2>3, <2>4, FS_Injection
<1>2. Inv => OneRowPerDate
  BY <1>1 DEF OneRowPerDate
<1>3. QED
  BY <1>2, SpecInv, PTL

\* An entry a poll came by has a row, or one with its link (its feed, if it has
\* none) and its second has (InsertNew on a taken fingerprint).
THEOREM DroppedForTwins == Spec => []OnlyTwinsDropped
<1>1. Inv => OnlyTwinsDropped
  BY DEF Inv
<1>2. QED
  BY <1>1, SpecInv, PTL

=============================================================================
