--------------------------- MODULE RedisBusProofs ---------------------------
(***************************************************************************)
(* Proofs about RedisBus, for every set of groups and replicas and every   *)
(* bound.                                                                  *)
(***************************************************************************)
EXTENDS RedisBus, FiniteSetTheorems, TLAPS

ReaderType ==
  [Replicas -> [pc : {"starting", "reading", "sleeping", "handling", "acking"},
                entry : 0..MaxEntries]]

\* A jump moves one replica and leaves it its entry.
LEMMA GotoMoves ==
  ASSUME reader \in ReaderType, NEW r \in Replicas, NEW pc, Goto(r, pc),
         pc \in {"starting", "reading", "sleeping", "handling", "acking"}
  PROVE  /\ reader' \in ReaderType
         /\ reader'[r].pc = pc /\ reader'[r].entry = reader[r].entry
         /\ \A q \in Replicas : q # r => reader'[q] = reader[q]
<1> DEFINE new == [reader[r] EXCEPT !.pc = pc]
<1>1. new \in [pc : {"starting", "reading", "sleeping", "handling", "acking"},
               entry : 0..MaxEntries]
  BY DEF ReaderType
<1>2. new.pc = pc /\ new.entry = reader[r].entry
  BY DEF ReaderType
<1>3. reader' = [reader EXCEPT ![r] = new]
  BY DEF Goto
<1> HIDE DEF new
<1>4. QED
  BY <1>1, <1>2, <1>3 DEF ReaderType

-----------------------------------------------------------------------------
(***************************************************************************)
(* Type correctness.                                                       *)
(***************************************************************************)
\* The bus starts empty, with every replica about to subscribe.
LEMMA InitTypeOK == Init => TypeOK
BY RedisAssumption DEF Init, TypeOK, At

\* No step of Redis, of a replica or of the environment leaves the types.
LEMMA NextTypeOK == TypeOK /\ [Next]_vars => TypeOK'
<1> SUFFICES ASSUME TypeOK, [Next]_vars PROVE TypeOK'
  OBVIOUS
<1> USE RedisAssumption DEF TypeOK, At, Fails
<1>0. reader \in ReaderType
  BY DEF ReaderType
<1>1. CASE UNCHANGED vars
  BY <1>1 DEF vars
<1>2. CASE Publish
  BY <1>2 DEF Publish
<1>3. ASSUME NEW r \in Replicas, CreateGroup(r) PROVE TypeOK'
  BY <1>0, <1>3, GotoMoves DEF CreateGroup, ReaderType
<1>4. ASSUME NEW r \in Replicas, Read(r) PROVE TypeOK'
  <2>1. GroupOf[r] \in Groups /\ delivered[GroupOf[r]] + 1 \in 1..entries
    BY <1>4 DEF Read
  <2>2. delivered' \in [Groups -> 0..entries]
    BY <1>4, <2>1 DEF Read
  <2>3. pending' \in [Groups -> SUBSET (1..MaxEntries)]
    BY <1>4, <2>1 DEF Read
  <2>4. CASE Fails /\ Goto(r, "sleeping")
    BY <1>0, <1>4, <2>2, <2>3, <2>4, GotoMoves DEF Read, ReaderType
  <2>5. CASE /\ reader' = [reader EXCEPT ![r] =
                            [pc |-> "handling", entry |-> delivered[GroupOf[r]] + 1]]
             /\ UNCHANGED faults
    BY <1>4, <2>1, <2>2, <2>3, <2>5 DEF Read
  <2>6. QED
    BY <1>4, <2>4, <2>5 DEF Read
<1>5. ASSUME NEW r \in Replicas, ReadError(r) PROVE TypeOK'
  BY <1>0, <1>5, GotoMoves DEF ReadError, ReaderType
<1>6. ASSUME NEW r \in Replicas, Wake(r) PROVE TypeOK'
  BY <1>0, <1>6, GotoMoves DEF Wake, ReaderType
<1>7. ASSUME NEW r \in Replicas, Handle(r) PROVE TypeOK'
  <2>1. reader[r].entry \in 1..MaxEntries /\ GroupOf[r] \in Groups
    BY <1>7 DEF Handle
  <2>2. completed' \in [Groups -> SUBSET (1..MaxEntries)] /\ faults' \in 0..MaxFaults
    BY <1>7, <2>1 DEF Handle
  <2>3. /\ reader' \in ReaderType
        /\ \A q \in Replicas : (At(q, "handling") \/ At(q, "acking"))' => reader'[q].entry # 0
    BY <1>0, <1>7, <2>1, GotoMoves DEF Handle, ReaderType
  <2>4. QED
    BY <1>7, <2>2, <2>3 DEF Handle, ReaderType
<1>8. ASSUME NEW r \in Replicas, Ack(r) PROVE TypeOK'
  <2>1. pending' \in [Groups -> SUBSET (1..MaxEntries)] /\ faults' \in 0..MaxFaults
    BY <1>8 DEF Ack
  <2>2. QED
    BY <1>0, <1>8, <2>1, GotoMoves DEF Ack, ReaderType
<1>9. ASSUME NEW r \in Replicas, Restart(r) PROVE TypeOK'
  BY <1>0, <1>9, GotoMoves DEF Restart, ReaderType
<1>10. QED
  BY <1>1, <1>2, <1>3, <1>4, <1>5, <1>6, <1>7, <1>8, <1>9 DEF Next, Subscribe

\* The types of the stream, its groups and its readers hold in every behaviour,
\* over failing commands, failing handlers and restarts.
THEOREM BusTypeCorrect == Spec => []TypeOK
BY InitTypeOK, NextTypeOK, PTL DEF Spec

-----------------------------------------------------------------------------
(***************************************************************************)
(* The pending list.  The invariant relates the readers to the two         *)
(* histories of their group; the pending list alone is not inductive,      *)
(* because an acknowledgement takes an entry off the list.                 *)
(***************************************************************************)
\* What a group finished was given to it.
CompletedDelivered == \A g \in Groups : completed[g] \subseteq 1..delivered[g]

\* An entry in a handler's hands was given to the group and is not finished.
HandledOpen ==
  \A r \in Replicas :
    At(r, "handling") => reader[r].entry \in (1..delivered[GroupOf[r]]) \ completed[GroupOf[r]]

\* Two replicas of a group never handle the same entry.
OneHandler ==
  \A r, q \in Replicas :
    /\ GroupOf[r] = GroupOf[q] /\ reader[r].entry = reader[q].entry
    /\ At(r, "handling") /\ At(q, "handling")
    => r = q

\* Only a finished entry is acknowledged.
AckedDone ==
  \A r \in Replicas : At(r, "acking") => reader[r].entry \in completed[GroupOf[r]]

Held == CompletedDelivered /\ HandledOpen /\ OneHandler /\ AckedDone

IInv == TypeOK /\ Held /\ PendingCoversUnfinished

\* Nothing was given to any group at the start.
LEMMA InitIInv == Init => IInv
<1> SUFFICES ASSUME Init PROVE Held /\ PendingCoversUnfinished
  BY InitTypeOK DEF IInv
<1>1. QED
  BY RedisAssumption
     DEF Init, At, Held, CompletedDelivered, HandledOpen, OneHandler, AckedDone,
         PendingCoversUnfinished

\* A step that leaves what the group was given and finished alone, and moves one
\* replica without handing it an entry, keeps the relation of the others.
LEMMA JumpHeld ==
  ASSUME TypeOK, Held, NEW r \in Replicas, NEW pc \in {"starting", "reading", "sleeping"},
         Goto(r, pc), UNCHANGED <<delivered, completed>>
  PROVE  Held'
<1>1. reader \in ReaderType
  BY DEF TypeOK, ReaderType
<1>2. /\ reader'[r].pc = pc
      /\ \A q \in Replicas : q # r => reader'[q] = reader[q]
  BY <1>1, GotoMoves
<1>3. QED
  BY <1>2, RedisAssumption
     DEF Held, At, CompletedDelivered, HandledOpen, OneHandler, AckedDone

\* The entry a read hands out is new to the group.
LEMMA ReadHeld ==
  ASSUME TypeOK, Held, NEW r \in Replicas, Read(r)
  PROVE  Held'
<1> DEFINE g == GroupOf[r]
           n == delivered[g] + 1
<1>1. /\ g \in Groups /\ n \in 1..entries
      /\ delivered \in [Groups -> Nat]
      /\ delivered' = [delivered EXCEPT ![g] = n] /\ UNCHANGED completed
  BY RedisAssumption DEF Read, TypeOK
<1>2. /\ reader \in ReaderType
      /\ \A h \in Groups : 1..delivered[h] \subseteq 1..delivered'[h]
      /\ \A q \in Replicas : GroupOf[q] \in Groups
  BY <1>1, RedisAssumption DEF TypeOK, ReaderType
<1>3. CompletedDelivered'
  BY <1>1, <1>2 DEF Held, CompletedDelivered
<1>4. CASE Goto(r, "sleeping")
  <2>1. /\ reader'[r].pc = "sleeping"
        /\ \A q \in Replicas : q # r => reader'[q] = reader[q]
    BY <1>2, <1>4, GotoMoves
  <2>2. QED
    BY <1>1, <1>2, <1>3, <2>1 DEF Held, At, HandledOpen, OneHandler, AckedDone
<1>5. CASE reader' = [reader EXCEPT ![r] = [pc |-> "handling", entry |-> n]]
  <2>1. /\ reader'[r].pc = "handling" /\ reader'[r].entry = n
        /\ \A q \in Replicas : q # r => reader'[q] = reader[q]
    BY <1>2, <1>5 DEF ReaderType
  <2>2. n \notin 1..delivered[g] /\ n \in 1..delivered'[g] /\ n \notin completed'[g]
    BY <1>1 DEF Held, CompletedDelivered
  <2>3. HandledOpen'
    BY <1>1, <1>2, <2>1, <2>2 DEF Held, At, HandledOpen
  <2>4. \A q \in Replicas : q # r /\ GroupOf[q] = g /\ At(q, "handling") => reader[q].entry # n
    BY <2>2 DEF Held, HandledOpen
  <2>5. OneHandler'
    BY <2>1, <2>4 DEF Held, At, OneHandler
  <2>6. AckedDone'
    BY <1>1, <2>1 DEF Held, At, AckedDone
  <2>7. QED
    BY <1>3, <2>3, <2>5, <2>6 DEF Held
<1>6. QED
  BY <1>4, <1>5 DEF Read

\* A handler that returns nil finishes an entry that no other replica of the
\* group holds.
LEMMA HandleHeld ==
  ASSUME TypeOK, Held, NEW r \in Replicas, Handle(r)
  PROVE  Held'
<1> DEFINE g == GroupOf[r]
           n == reader[r].entry
<1>1. reader \in ReaderType /\ UNCHANGED delivered /\ At(r, "handling")
  BY DEF TypeOK, ReaderType, Handle
<1>2. CASE Goto(r, "reading") /\ UNCHANGED completed
  BY <1>1, <1>2, JumpHeld
<1>3. CASE completed' = [completed EXCEPT ![g] = @ \cup {n}] /\ Goto(r, "acking")
  <2>1. /\ reader'[r].pc = "acking" /\ reader'[r].entry = n
        /\ \A q \in Replicas : q # r => reader'[q] = reader[q]
    BY <1>1, <1>3, GotoMoves
  <2>2. /\ g \in Groups /\ n \in (1..delivered[g]) \ completed[g]
        /\ completed'[g] = completed[g] \cup {n}
        /\ \A h \in Groups : h # g => completed'[h] = completed[h]
    BY <1>1, <1>3, RedisAssumption DEF TypeOK, Held, HandledOpen
  <2>3. \A q \in Replicas : GroupOf[q] \in Groups
    BY RedisAssumption
  <2>4. CompletedDelivered'
    BY <1>1, <2>2 DEF Held, CompletedDelivered
  <2>5. \A q \in Replicas : q # r /\ GroupOf[q] = g /\ At(q, "handling") => reader[q].entry # n
    BY <1>1 DEF Held, OneHandler
  <2>6. HandledOpen'
    BY <1>1, <2>1, <2>2, <2>3, <2>5 DEF Held, At, HandledOpen
  <2>7. OneHandler'
    BY <2>1 DEF Held, At, OneHandler
  <2>8. AckedDone'
    BY <2>1, <2>2, <2>3 DEF Held, At, AckedDone
  <2>9. QED
    BY <2>4, <2>6, <2>7, <2>8 DEF Held
<1>4. QED
  BY <1>2, <1>3 DEF Handle

LEMMA NextHeld == TypeOK /\ Held /\ [Next]_vars => Held'
<1> SUFFICES ASSUME TypeOK, Held, [Next]_vars PROVE Held'
  OBVIOUS
<1>1. CASE UNCHANGED vars
  BY <1>1 DEF vars, Held, At, CompletedDelivered, HandledOpen, OneHandler, AckedDone
<1>2. CASE Publish
  BY <1>2 DEF Publish, Held, At, CompletedDelivered, HandledOpen, OneHandler, AckedDone
<1>3. ASSUME NEW r \in Replicas, CreateGroup(r) PROVE Held'
  BY <1>3, JumpHeld DEF CreateGroup
<1>4. ASSUME NEW r \in Replicas, Read(r) PROVE Held'
  BY <1>4, ReadHeld
<1>5. ASSUME NEW r \in Replicas, ReadError(r) PROVE Held'
  BY <1>5, JumpHeld DEF ReadError
<1>6. ASSUME NEW r \in Replicas, Wake(r) PROVE Held'
  BY <1>6, JumpHeld DEF Wake
<1>7. ASSUME NEW r \in Replicas, Handle(r) PROVE Held'
  BY <1>7, HandleHeld
<1>8. ASSUME NEW r \in Replicas, Ack(r) PROVE Held'
  BY <1>8, JumpHeld DEF Ack
<1>9. ASSUME NEW r \in Replicas, Restart(r) PROVE Held'
  BY <1>9, JumpHeld DEF Restart
<1>10. QED
  BY <1>1, <1>2, <1>3, <1>4, <1>5, <1>6, <1>7, <1>8, <1>9 DEF Next, Subscribe

\* A read adds the entry it hands out to the list, and only an acknowledgement of
\* a finished entry takes one off.
LEMMA NextPending == IInv /\ [Next]_vars => PendingCoversUnfinished'
<1> SUFFICES ASSUME IInv, [Next]_vars PROVE PendingCoversUnfinished'
  OBVIOUS
<1> USE RedisAssumption DEF IInv, PendingCoversUnfinished
<1>1. CASE UNCHANGED <<delivered, completed, pending>>
  BY <1>1
<1>2. ASSUME NEW r \in Replicas, Read(r) PROVE PendingCoversUnfinished'
  <2> DEFINE g == GroupOf[r]
             n == delivered[g] + 1
  <2>1. /\ g \in Groups
        /\ delivered' = [delivered EXCEPT ![g] = n]
        /\ pending' = [pending EXCEPT ![g] = @ \cup {n}]
        /\ UNCHANGED completed
    BY <1>2 DEF Read
  <2>2. delivered \in [Groups -> Nat] /\ pending \in [Groups -> SUBSET (1..MaxEntries)]
    BY DEF TypeOK
  <2>3. 1..n = (1..delivered[g]) \cup {n}
    BY <2>1, <2>2
  <2>4. /\ delivered'[g] = n /\ pending'[g] = pending[g] \cup {n}
        /\ \A h \in Groups : h # g => delivered'[h] = delivered[h] /\ pending'[h] = pending[h]
    BY <2>1, <2>2
  <2>5. QED
    BY <2>1, <2>3, <2>4
<1>3. ASSUME NEW r \in Replicas, Handle(r) PROVE PendingCoversUnfinished'
  <2>1. UNCHANGED <<delivered, pending>> /\ \A g \in Groups : completed[g] \subseteq completed'[g]
    BY <1>3 DEF Handle, TypeOK
  <2>2. QED
    BY <2>1
<1>4. ASSUME NEW r \in Replicas, Ack(r) PROVE PendingCoversUnfinished'
  <2>1. /\ UNCHANGED <<delivered, completed>>
        /\ reader[r].entry \in completed[GroupOf[r]]
        /\ \A g \in Groups : pending[g] \ completed[g] \subseteq pending'[g]
    BY <1>4 DEF Ack, TypeOK, Held, AckedDone
  <2>2. QED
    BY <2>1
<1>5. QED
  BY <1>1, <1>2, <1>3, <1>4
     DEF Next, Subscribe, vars, Publish, CreateGroup, ReadError, Wake, Restart

\* Over every failure, the pending list of a group holds whatever the group was
\* given and did not finish (XREADGROUP without NOACK; XACK after the handler
\* returned nil).
THEOREM PendingKeepsUnfinished == Spec => []PendingCoversUnfinished
<1>1. IInv /\ [Next]_vars => IInv'
  BY NextTypeOK, NextHeld, NextPending DEF IInv
<1>2. IInv => PendingCoversUnfinished
  BY DEF IInv
<1>3. QED
  BY <1>1, <1>2, InitIInv, PTL DEF Spec

-----------------------------------------------------------------------------
(***************************************************************************)
(* The bus implements GroupDelivery.  What became of an entry is decided   *)
(* by the cursor of its group, the entries finished and the handlers at    *)
(* work, so a step changes the status of at most one entry.                *)
(***************************************************************************)
Status == [g \in Groups |-> [n \in 1..MaxEntries |-> StatusOf(g, n)]]

HandledBy(g, n, r) == GroupOf[r] = g /\ At(r, "handling") /\ reader[r].entry = n

\* The four cases of StatusOf exclude one another and leave nothing out.
StatusTable ==
  \A g \in Groups, n \in 1..MaxEntries :
    /\ n > delivered[g] => StatusOf(g, n) = "waiting"
    /\ n <= delivered[g] /\ n \in completed[g] => StatusOf(g, n) = "done"
    /\ n <= delivered[g] /\ n \notin completed[g] /\ (\E r \in Replicas : HandledBy(g, n, r))
         => StatusOf(g, n) = "working"
    /\ n <= delivered[g] /\ n \notin completed[g] /\ ~(\E r \in Replicas : HandledBy(g, n, r))
         => StatusOf(g, n) = "abandoned"

LEMMA StatusCases == TypeOK => StatusTable
<1> SUFFICES ASSUME TypeOK, NEW g \in Groups, NEW n \in 1..MaxEntries PROVE StatusTable!(g, n)
  BY DEF StatusTable
<1>1. delivered[g] \in Nat /\ n \in Nat
  BY RedisAssumption DEF TypeOK
<1>2. n \in HeldIn(g) <=> \E r \in Replicas : HandledBy(g, n, r)
  BY DEF HeldIn, HandledBy
<1>3. QED
  BY <1>1, <1>2 DEF StatusOf

LEMMA StatusCasesNext == TypeOK' => StatusTable'
BY StatusCases, PTL

\* The abstract step: one entry changes its status.
LEMMA StatusChange ==
  ASSUME NEW g \in Groups, NEW n \in 1..MaxEntries, NEW s, StatusOf(g, n)' = s,
         \A h \in Groups, k \in 1..MaxEntries :
           h # g \/ k # n => StatusOf(h, k)' = StatusOf(h, k)
  PROVE  Delivery!Becomes(g, n, s)
<1>1. Status' = [Status EXCEPT ![g][n] = s]
  <2> DEFINE Row(h) == [k \in 1..MaxEntries |-> StatusOf(h, k)]
  <2>1. \A h \in Groups : h # g => Row(h)' = Row(h)
    OBVIOUS
  <2>2. Row(g)' = [Row(g) EXCEPT ![n] = s]
    OBVIOUS
  <2>3. Status = [h \in Groups |-> Row(h)] /\ Status' = [h \in Groups |-> Row(h)']
    BY DEF Status
  <2> HIDE DEF Row
  <2>4. QED
    BY <2>1, <2>2, <2>3
<1>2. QED
  BY <1>1 DEF Delivery!Becomes, Status

\* A step that leaves the cursors, the finished entries and the handlers alone is
\* a stutter.
LEMMA StatusSame ==
  ASSUME TypeOK, TypeOK', UNCHANGED <<delivered, completed>>,
         \A g \in Groups, n \in 1..MaxEntries :
           (\E r \in Replicas : HandledBy(g, n, r)') <=> (\E r \in Replicas : HandledBy(g, n, r))
  PROVE  UNCHANGED Status
<1>1. \A g \in Groups, n \in 1..MaxEntries : StatusOf(g, n)' = StatusOf(g, n)
  <2> SUFFICES ASSUME NEW g \in Groups, NEW n \in 1..MaxEntries
               PROVE  StatusOf(g, n)' = StatusOf(g, n)
    OBVIOUS
  <2>1. delivered[g] \in Nat /\ n \in Nat
    BY RedisAssumption DEF TypeOK
  <2>2. QED
    BY <2>1, StatusCases, StatusCasesNext DEF StatusTable
<1>2. QED
  BY <1>1 DEF Status

\* A read hands out the entry after the cursor, the least one that waits; an
\* answer that is lost abandons it.
LEMMA ReadRefines ==
  ASSUME IInv, IInv', NEW r \in Replicas, Read(r)
  PROVE  Delivery!DeliveryNext
<1> SUFFICES ASSUME NEW g, NEW n, g = GroupOf[r], n = delivered[g] + 1
             PROVE  Delivery!DeliveryNext
  OBVIOUS
<1>1. /\ g \in Groups /\ n \in 1..MaxEntries
      /\ delivered \in [Groups -> Nat] /\ delivered' = [delivered EXCEPT ![g] = n]
      /\ UNCHANGED completed /\ n \notin completed[g]
  BY RedisAssumption DEF IInv, TypeOK, Read, Held, CompletedDelivered
<1>2. StatusTable /\ StatusTable' /\ reader \in ReaderType
  BY StatusCases, StatusCasesNext DEF IInv, TypeOK, ReaderType
<1>3. n \in Delivery!Waits(g) /\ \A k \in Delivery!Waits(g) : n <= k
  <2>1. \A k \in 1..MaxEntries : k <= delivered[g] => StatusOf(g, k) # "waiting"
    BY <1>1, <1>2 DEF StatusTable
  <2>2. StatusOf(g, n) = "waiting"
    BY <1>1, <1>2 DEF StatusTable
  <2>3. QED
    BY <1>1, <2>1, <2>2 DEF Delivery!Waits
<1>4. \A q \in Replicas : q # r => reader'[q] = reader[q]
  BY <1>2, GotoMoves DEF Read, ReaderType
<1>5. (\A h \in Groups, k \in 1..MaxEntries :
        h # g \/ k # n =>
          ((\E q \in Replicas : HandledBy(h, k, q)') <=> (\E q \in Replicas : HandledBy(h, k, q))))
  <2>1. ~At(r, "handling")
    BY DEF Read, At
  <2>2. At(r, "handling")' => reader'[r].entry = n
    BY <1>2, GotoMoves DEF Read, At, ReaderType
  <2>3. QED
    BY <1>4, <2>1, <2>2 DEF HandledBy, At
<1>6. ASSUME NEW h \in Groups, NEW k \in 1..MaxEntries, h # g \/ k # n
      PROVE  StatusOf(h, k)' = StatusOf(h, k)
  <2>1. delivered[h] \in Nat /\ (k <= delivered'[h] <=> k <= delivered[h])
    BY <1>1, <1>6
  <2>2. QED
    BY <1>1, <1>2, <1>5, <1>6, <2>1 DEF StatusTable
<1>7. StatusOf(g, n)' \in {"working", "abandoned"}
  BY <1>1, <1>2 DEF StatusTable
<1>8. Delivery!Becomes(g, n, "working") \/ Delivery!Becomes(g, n, "abandoned")
  BY <1>1, <1>6, <1>7, StatusChange
<1>9. QED
  BY <1>1, <1>3, <1>8 DEF Delivery!DeliveryNext, Delivery!HandOut

\* A replica that lets go of its entry, finished or not, settles it: nobody else
\* in the group holds it.
LEMMA LetGoRefines ==
  ASSUME IInv, IInv', NEW r \in Replicas, At(r, "handling"), ~At(r, "handling")',
         \A q \in Replicas : q # r => reader'[q] = reader[q],
         UNCHANGED delivered,
         \/ UNCHANGED completed
         \/ completed' = [completed EXCEPT ![GroupOf[r]] = @ \cup {reader[r].entry}]
  PROVE  Delivery!DeliveryNext
<1> SUFFICES ASSUME NEW g, NEW n, g = GroupOf[r], n = reader[r].entry
             PROVE  Delivery!DeliveryNext
  OBVIOUS
<1>1. /\ g \in Groups /\ n \in 1..delivered[g] /\ n \notin completed[g]
      /\ delivered \in [Groups -> 0..MaxEntries]
      /\ completed \in [Groups -> SUBSET (1..MaxEntries)]
  BY RedisAssumption DEF IInv, TypeOK, Held, HandledOpen
<1>2. n \in 1..MaxEntries /\ n <= delivered[g] /\ StatusTable /\ StatusTable'
  BY <1>1, StatusCases, StatusCasesNext, RedisAssumption DEF IInv
<1>3. StatusOf(g, n) = "working"
  <2>1. HandledBy(g, n, r)
    BY DEF HandledBy
  <2>2. QED
    BY <1>1, <1>2, <2>1 DEF StatusTable
<1>4. ~ \E q \in Replicas : HandledBy(g, n, q)'
  BY DEF IInv, Held, OneHandler, HandledBy, At
<1>5. StatusOf(g, n)' \in {"done", "abandoned"}
  BY <1>1, <1>2, <1>4 DEF StatusTable
<1>6. ASSUME NEW h \in Groups, NEW k \in 1..MaxEntries, h # g \/ k # n
      PROVE  StatusOf(h, k)' = StatusOf(h, k)
  <2>1. (\E q \in Replicas : HandledBy(h, k, q)') <=> (\E q \in Replicas : HandledBy(h, k, q))
    BY <1>6 DEF HandledBy, At
  <2>2. /\ delivered[h] \in Nat /\ delivered'[h] = delivered[h]
        /\ k \in completed'[h] <=> k \in completed[h]
    BY <1>1, <1>6, RedisAssumption
  <2>3. QED
    BY <1>2, <2>1, <2>2 DEF StatusTable
<1>7. Delivery!Becomes(g, n, "done") \/ Delivery!Becomes(g, n, "abandoned")
  BY <1>1, <1>2, <1>5, <1>6, StatusChange
<1>8. QED
  BY <1>1, <1>2, <1>7, <1>3 DEF Delivery!DeliveryNext, Delivery!Settle

\* At the start every entry waits.
LEMMA InitRefines == Init => Delivery!DeliveryInit
<1> SUFFICES ASSUME Init PROVE Delivery!DeliveryInit
  OBVIOUS
<1>1. \A g \in Groups, n \in 1..MaxEntries : StatusOf(g, n) = "waiting"
  BY InitTypeOK, StatusCases DEF Init, StatusTable
<1>2. QED
  BY <1>1 DEF Delivery!DeliveryInit

\* Every step hands out one entry, settles one, or is a stutter.
LEMMA NextRefines ==
  IInv /\ IInv' /\ [Next]_vars => Delivery!DeliveryNext \/ UNCHANGED Status
<1> SUFFICES ASSUME IInv, IInv', [Next]_vars
             PROVE  Delivery!DeliveryNext \/ UNCHANGED Status
  OBVIOUS
<1>1. TypeOK /\ TypeOK' /\ reader \in ReaderType
  BY DEF IInv, TypeOK, ReaderType
<1>2. CASE UNCHANGED <<delivered, completed, reader>>
  BY <1>1, <1>2, StatusSame DEF HandledBy, At
<1>3. ASSUME NEW r \in Replicas,
             NEW pc \in {"starting", "reading", "sleeping"}, Goto(r, pc),
             UNCHANGED <<delivered, completed>>
      PROVE  Delivery!DeliveryNext \/ UNCHANGED Status
  <2>1. /\ reader'[r].pc = pc
        /\ \A q \in Replicas : q # r => reader'[q] = reader[q]
    BY <1>1, <1>3, GotoMoves
  <2>2. CASE At(r, "handling")
    BY <1>3, <2>1, <2>2, LetGoRefines DEF At
  <2>3. CASE ~At(r, "handling")
    BY <1>1, <1>3, <2>1, <2>3, StatusSame DEF HandledBy, At
  <2>4. QED
    BY <2>2, <2>3
<1>4. ASSUME NEW r \in Replicas, Read(r) PROVE Delivery!DeliveryNext
  BY <1>4, ReadRefines
<1>5. ASSUME NEW r \in Replicas, Handle(r) PROVE Delivery!DeliveryNext
  <2>1. /\ reader'[r].pc \in {"acking", "reading"}
        /\ \A q \in Replicas : q # r => reader'[q] = reader[q]
    BY <1>1, <1>5, GotoMoves DEF Handle
  <2>2. QED
    BY <1>5, <2>1, LetGoRefines DEF Handle, At
<1>6. QED
  BY <1>2, <1>3, <1>4, <1>5
     DEF Next, Subscribe, vars, Publish, CreateGroup, ReadError, Wake, Ack, Restart

\* Every group is given each entry of the stream once, in order, and by one of
\* its replicas, whatever fails: the bus implements GroupDelivery.
THEOREM BusImplementsGroupDelivery == Spec => ImplementsGroupDelivery
<1>1. IInv /\ [Next]_vars => IInv'
  BY NextTypeOK, NextHeld, NextPending DEF IInv
<1>2. IInv /\ IInv' /\ [Next]_vars => [Delivery!DeliveryNext]_Status
  BY NextRefines
<1>3. QED
  BY <1>1, <1>2, InitIInv, InitRefines, PTL
     DEF Spec, ImplementsGroupDelivery, Delivery!DeliverySpec, Status

\* The abstract status is a table.
DeliveryTyped ==
  Status \in [Groups -> [1..MaxEntries -> {"waiting", "working", "done", "abandoned"}]]

\* A step of GroupDelivery changes one entry, from waiting only when all older
\* ones were given, and never back.
LEMMA DeliveryStep ==
  ASSUME DeliveryTyped, Delivery!DeliveryNext
  PROVE  \E g \in Groups, n \in 1..MaxEntries, s \in {"working", "done", "abandoned"} :
           /\ Status' = [Status EXCEPT ![g][n] = s]
           /\ \/ Status[g][n] = "working" /\ s # "working"
              \/ /\ Status[g][n] = "waiting"
                 /\ \A k \in 1..MaxEntries : Status[g][k] = "waiting" => n <= k
<1>1. PICK g \in Groups, n \in 1..MaxEntries : Delivery!HandOut(g, n) \/ Delivery!Settle(g, n)
  BY DEF Delivery!DeliveryNext
<1>2. CASE Delivery!HandOut(g, n)
  <2>1. /\ Status[g][n] = "waiting"
        /\ \A k \in 1..MaxEntries : Status[g][k] = "waiting" => n <= k
        /\ \/ Status' = [Status EXCEPT ![g][n] = "working"]
           \/ Status' = [Status EXCEPT ![g][n] = "abandoned"]
    BY <1>2 DEF Delivery!HandOut, Delivery!Waits, Delivery!Becomes, Status
  <2>2. QED
    BY <2>1
<1>3. CASE Delivery!Settle(g, n)
  <2>1. /\ Status[g][n] = "working"
        /\ \/ Status' = [Status EXCEPT ![g][n] = "done"]
           \/ Status' = [Status EXCEPT ![g][n] = "abandoned"]
    BY <1>3 DEF Delivery!Settle, Delivery!Becomes, Status
  <2>2. QED
    BY <2>1
<1>4. QED
  BY <1>1, <1>2, <1>3

\* InOrder and NeverAgain, of the status that the bus has.
StatusInOrder ==
  \A g \in Groups, n \in 1..MaxEntries :
    Status[g][n] # "waiting" => \A k \in 1..n : Status[g][k] # "waiting"

StatusNeverBack ==
  \A g \in Groups, n \in 1..MaxEntries :
    /\ Status[g][n] # "waiting" => Status'[g][n] # "waiting"
    /\ Status[g][n] \in {"done", "abandoned"} => Status'[g][n] = Status[g][n]

LEMMA DeliveryStepKeeps ==
  ASSUME DeliveryTyped, StatusInOrder, Delivery!DeliveryNext
  PROVE  DeliveryTyped' /\ StatusInOrder' /\ StatusNeverBack
<1>1. PICK g \in Groups, n \in 1..MaxEntries, s \in {"working", "done", "abandoned"} :
        /\ Status' = [Status EXCEPT ![g][n] = s]
        /\ \/ Status[g][n] = "working" /\ s # "working"
           \/ /\ Status[g][n] = "waiting"
              /\ \A k \in 1..MaxEntries : Status[g][k] = "waiting" => n <= k
  BY DeliveryStep
<1> HIDE DEF Status
<1>2. DeliveryTyped'
  BY <1>1 DEF DeliveryTyped
<1>3. /\ Status'[g][n] = s
      /\ \A h \in Groups, k \in 1..MaxEntries : h # g \/ k # n => Status'[h][k] = Status[h][k]
  BY <1>1 DEF DeliveryTyped
<1>4. StatusNeverBack
  BY <1>1, <1>3 DEF StatusNeverBack
<1>5. ASSUME NEW h \in Groups, NEW m \in 1..MaxEntries, Status'[h][m] # "waiting", NEW k \in 1..m
      PROVE  Status'[h][k] # "waiting"
  <2>1. MaxEntries \in Nat /\ k \in 1..MaxEntries
    BY RedisAssumption
  <2>2. CASE Status[h][m] # "waiting"
    BY <1>4, <2>1, <2>2 DEF StatusInOrder, StatusNeverBack
  <2>3. CASE Status[h][m] = "waiting"
    <3>1. h = g /\ m = n
      BY <1>3, <1>5, <2>3
    <3>2. k # n => Status[g][k] # "waiting"
      BY <1>1, <2>1, <2>3, <3>1
    <3>3. QED
      BY <1>3, <2>1, <3>1, <3>2
  <2>4. QED
    BY <2>2, <2>3
<1>6. QED
  BY <1>2, <1>4, <1>5 DEF StatusInOrder

\* Whatever commands fail and wherever replicas die, a group is given the entries
\* in their order, none of them twice, and none comes back once its handler is done
\* with it or it is lost (the read with ">" in Subscribe).
THEOREM GivenOnceInOrder == Spec => []Delivery!InOrder /\ Delivery!NeverAgain
<1>1. Delivery!DeliveryInit => DeliveryTyped /\ StatusInOrder
  BY DEF Delivery!DeliveryInit, DeliveryTyped, StatusInOrder, Status
<1>2. DeliveryTyped /\ StatusInOrder /\ [Delivery!DeliveryNext]_Status
        => DeliveryTyped' /\ StatusInOrder' /\ [StatusNeverBack]_Status
  BY DeliveryStepKeeps DEF DeliveryTyped, StatusInOrder
<1>3. StatusInOrder => Delivery!InOrder
  BY DEF StatusInOrder, Delivery!InOrder, Status
<1>4. Delivery!DeliverySpec => [](DeliveryTyped /\ StatusInOrder) /\ [][StatusNeverBack]_Status
  BY <1>1, <1>2, PTL DEF Delivery!DeliverySpec, Status
<1>5. [][StatusNeverBack]_Status => Delivery!NeverAgain
  BY DEF StatusNeverBack, Delivery!NeverAgain, Status
<1>6. QED
  BY <1>3, <1>4, <1>5, BusImplementsGroupDelivery, PTL DEF ImplementsGroupDelivery

-----------------------------------------------------------------------------
(***************************************************************************)
(* What is abandoned.  A step lets go of the entry of one replica at most, *)
(* and of an unfinished one only by a fault; the groups need not be        *)
(* finitely many.                                                          *)
(***************************************************************************)
Lost == {e \in Groups \X (1..MaxEntries) : e[2] \in Abandoned(e[1])}

\* A replica that moves, and takes no new entry, lets go of its own at most.
LEMMA JumpLost ==
  ASSUME TypeOK, NEW r \in Replicas, \A q \in Replicas : q # r => reader'[q] = reader[q],
         UNCHANGED delivered, \A g \in Groups : completed[g] \subseteq completed'[g]
  PROVE  /\ Lost' \subseteq Lost \cup {<<GroupOf[r], reader[r].entry>>}
         /\ ~At(r, "handling") \/ reader[r].entry \in completed'[GroupOf[r]] => Lost' \subseteq Lost
<1>1. ASSUME NEW g \in Groups, NEW n \in Abandoned(g)', n \notin Abandoned(g)
      PROVE  /\ g = GroupOf[r] /\ n = reader[r].entry
             /\ At(r, "handling") /\ n \notin completed'[g]
  <2>1. n \in 1..delivered[g] /\ n \notin completed'[g] /\ n \notin completed[g] /\ n \notin HeldIn(g)'
    BY <1>1 DEF Abandoned
  <2>2. n \in HeldIn(g)
    BY <1>1, <2>1 DEF Abandoned
  <2>3. PICK q \in Replicas : GroupOf[q] = g /\ At(q, "handling") /\ n = reader[q].entry
    BY <2>2 DEF HeldIn
  <2>4. q = r
    BY <2>1, <2>3 DEF HeldIn, At
  <2>5. QED
    BY <2>1, <2>3, <2>4
<1>2. ASSUME NEW e \in Lost', e \notin Lost
      PROVE  /\ e = <<GroupOf[r], reader[r].entry>>
             /\ At(r, "handling") /\ reader[r].entry \notin completed'[GroupOf[r]]
  <2>1. e[1] \in Groups /\ e[2] \in Abandoned(e[1])' /\ e[2] \notin Abandoned(e[1]) /\ e = <<e[1], e[2]>>
    BY <1>2 DEF Lost
  <2>2. QED
    BY <1>1, <2>1
<1>3. QED
  BY <1>2

\* The entry of a read is lost only with the answer.
LEMMA ReadLost ==
  ASSUME TypeOK, NEW r \in Replicas, Read(r)
  PROVE  \/ faults' = faults /\ Lost' \subseteq Lost
         \/ Fails /\ \E x : Lost' \subseteq Lost \cup {x}
<1> DEFINE g == GroupOf[r]
           n == delivered[g] + 1
<1>1. /\ g \in Groups /\ UNCHANGED completed /\ At(r, "reading")
      /\ delivered[g] \in Nat
      /\ delivered'[g] = n /\ \A h \in Groups : h # g => delivered'[h] = delivered[h]
  BY RedisAssumption DEF Read, TypeOK
<1>2. reader \in ReaderType
  BY DEF TypeOK, ReaderType
<1>3. \A q \in Replicas : q # r => reader'[q] = reader[q]
  <2>1. CASE Goto(r, "sleeping")
    BY <1>2, <2>1, GotoMoves
  <2>2. CASE reader' = [reader EXCEPT ![r] = [pc |-> "handling", entry |-> n]]
    BY <1>2, <2>2 DEF ReaderType
  <2>3. QED
    BY <2>1, <2>2 DEF Read
<1>4. \A h \in Groups : HeldIn(h) \subseteq HeldIn(h)'
  BY <1>1, <1>3 DEF HeldIn, At
<1>5. ASSUME NEW h \in Groups, NEW m \in Abandoned(h)', m \notin Abandoned(h)
      PROVE  h = g /\ m = n /\ n \notin HeldIn(g)'
  <2>1. m \in 1..delivered'[h] /\ m \notin completed[h] /\ m \notin HeldIn(h)' /\ m \notin HeldIn(h)
    BY <1>1, <1>4, <1>5 DEF Abandoned
  <2>2. m \notin 1..delivered[h]
    BY <1>5, <2>1 DEF Abandoned
  <2>3. QED
    BY <1>1, <2>1, <2>2
<1>6. ASSUME NEW e \in Lost', e \notin Lost
      PROVE  e = <<g, n>> /\ n \notin HeldIn(g)'
  <2>1. e[1] \in Groups /\ e[2] \in Abandoned(e[1])' /\ e[2] \notin Abandoned(e[1]) /\ e = <<e[1], e[2]>>
    BY <1>6 DEF Lost
  <2>2. QED
    BY <1>5, <2>1
<1>7. CASE reader' = [reader EXCEPT ![r] = [pc |-> "handling", entry |-> n]] /\ UNCHANGED faults
  <2>1. n \in HeldIn(g)'
    BY <1>2, <1>7 DEF HeldIn, At, ReaderType
  <2>2. QED
    BY <1>6, <1>7, <2>1
<1>8. CASE Fails
  BY <1>6, <1>8
<1>9. QED
  BY <1>7, <1>8 DEF Read

LEMMA NextLost ==
  ASSUME TypeOK, [Next]_vars
  PROVE  \/ faults' = faults /\ Lost' \subseteq Lost
         \/ Fails /\ \E x : Lost' \subseteq Lost \cup {x}
<1>0. reader \in ReaderType
  BY DEF TypeOK, ReaderType
<1>1. CASE UNCHANGED vars \/ Publish
  BY <1>1 DEF vars, Publish, Lost, Abandoned, HeldIn, At
<1>2. ASSUME NEW r \in Replicas, Read(r)
      PROVE  \/ faults' = faults /\ Lost' \subseteq Lost
             \/ Fails /\ \E x : Lost' \subseteq Lost \cup {x}
  BY <1>2, ReadLost
<1>3. ASSUME NEW r \in Replicas, CreateGroup(r) \/ ReadError(r) \/ Wake(r) \/ Ack(r)
      PROVE  (faults' = faults \/ Fails) /\ Lost' \subseteq Lost
  <2>1. /\ ~At(r, "handling") /\ UNCHANGED <<delivered, completed>>
        /\ faults' = faults \/ Fails
    BY <1>3 DEF CreateGroup, ReadError, Wake, Ack, At
  <2>2. \A q \in Replicas : q # r => reader'[q] = reader[q]
    BY <1>0, <1>3, GotoMoves DEF CreateGroup, ReadError, Wake, Ack
  <2>3. QED
    BY <2>1, <2>2, JumpLost
<1>4. ASSUME NEW r \in Replicas, Handle(r)
      PROVE  \/ faults' = faults /\ Lost' \subseteq Lost
             \/ Fails /\ \E x : Lost' \subseteq Lost \cup {x}
  <2>1. \A q \in Replicas : q # r => reader'[q] = reader[q]
    BY <1>0, <1>4, GotoMoves DEF Handle
  <2>2. CASE completed' = [completed EXCEPT ![GroupOf[r]] = @ \cup {reader[r].entry}] /\ UNCHANGED faults
    <3>1. GroupOf[r] \in Groups
      BY RedisAssumption
    <3>2. /\ \A g \in Groups : completed[g] \subseteq completed'[g]
          /\ reader[r].entry \in completed'[GroupOf[r]]
      BY <2>2, <3>1 DEF TypeOK
    <3>3. UNCHANGED delivered
      BY <1>4 DEF Handle
    <3>4. QED
      BY <2>1, <2>2, <3>2, <3>3, JumpLost
  <2>3. CASE Fails /\ UNCHANGED completed
    <3>1. UNCHANGED delivered
      BY <1>4 DEF Handle
    <3>2. QED
      BY <2>1, <2>3, <3>1, JumpLost
  <2>4. QED
    BY <1>4, <2>2, <2>3 DEF Handle
<1>5. ASSUME NEW r \in Replicas, Restart(r)
      PROVE  Fails /\ \E x : Lost' \subseteq Lost \cup {x}
  <2>1. Fails /\ UNCHANGED <<delivered, completed>>
    BY <1>5 DEF Restart
  <2>2. \A q \in Replicas : q # r => reader'[q] = reader[q]
    BY <1>0, <1>5, GotoMoves DEF Restart
  <2>3. QED
    BY <2>1, <2>2, JumpLost
<1>6. ASSUME NEW r \in Replicas, Subscribe(r) \/ Restart(r)
      PROVE  \/ faults' = faults /\ Lost' \subseteq Lost
             \/ Fails /\ \E x : Lost' \subseteq Lost \cup {x}
  BY <1>2, <1>3, <1>4, <1>5, <1>6 DEF Subscribe
<1>7. QED
  BY <1>1, <1>6 DEF Next

LostInv == TypeOK /\ IsFiniteSet(Lost) /\ Cardinality(Lost) <= faults

LEMMA NextLostInv == LostInv /\ [Next]_vars => LostInv'
<1> SUFFICES ASSUME LostInv, [Next]_vars PROVE IsFiniteSet(Lost') /\ Cardinality(Lost') <= faults'
  BY NextTypeOK DEF LostInv
<1>1. /\ IsFiniteSet(Lost) /\ Cardinality(Lost) \in Nat /\ Cardinality(Lost) <= faults
      /\ faults \in Nat
  BY FS_CardinalityType, RedisAssumption DEF LostInv, TypeOK
<1>2. CASE faults' = faults /\ Lost' \subseteq Lost
  <2>1. IsFiniteSet(Lost') /\ Cardinality(Lost') <= Cardinality(Lost) /\ Cardinality(Lost') \in Nat
    BY <1>1, <1>2, FS_Subset, FS_CardinalityType
  <2>2. QED
    BY <1>1, <1>2, <2>1
<1>3. CASE Fails /\ \E x : Lost' \subseteq Lost \cup {x}
  <2>1. PICK x : Lost' \subseteq Lost \cup {x}
    BY <1>3
  <2>2. IsFiniteSet(Lost \cup {x}) /\ Cardinality(Lost \cup {x}) <= Cardinality(Lost) + 1
        /\ Cardinality(Lost \cup {x}) \in Nat
    <3>1. /\ IsFiniteSet(Lost \cup {x})
          /\ Cardinality(Lost \cup {x}) = IF x \in Lost THEN Cardinality(Lost) ELSE Cardinality(Lost) + 1
      BY <1>1, FS_AddElement
    <3>2. QED
      BY <1>1, <3>1
  <2>3. IsFiniteSet(Lost') /\ Cardinality(Lost') <= Cardinality(Lost \cup {x}) /\ Cardinality(Lost') \in Nat
    BY <2>1, <2>2, FS_Subset, FS_CardinalityType
  <2>4. faults' = faults + 1
    BY <1>3 DEF Fails
  <2>5. QED
    BY <1>1, <2>2, <2>3, <2>4
<1>4. QED
  BY <1>2, <1>3, NextLost DEF LostInv

\* Each fault costs at most one entry of one group, for any number of groups,
\* replicas and faults (the loop of Subscribe, which never reads its pending list).
THEOREM FaultsBoundLoss == Spec => []AbandonedBound
<1>1. Init => LostInv
  <2> SUFFICES ASSUME Init PROVE LostInv
    OBVIOUS
  <2>1. \A g \in Groups : Abandoned(g) = {}
    BY DEF Init, Abandoned
  <2>2. Lost = {} /\ faults = 0
    BY <2>1 DEF Init, Lost
  <2>3. QED
    BY <2>2, InitTypeOK, FS_EmptySet DEF LostInv
<1>2. LostInv => AbandonedBound
  BY DEF LostInv, Lost, AbandonedBound
<1>3. QED
  BY <1>1, <1>2, NextLostInv, PTL DEF Spec

=============================================================================
