------------------------------ MODULE RedisBus ------------------------------
(***************************************************************************)
(* One topic of the Redis bus (internal/bus/redis.go): a stream, its       *)
(* consumer groups and the replicas that run Subscribe.  The replicas of a *)
(* group all read under one consumer name, so the group has one list of    *)
(* pending entries.  An entry is identified with its place in the stream.  *)
(*                                                                         *)
(* An XADD that fails appends nothing, and one whose answer is lost is an  *)
(* append: neither needs an action of its own.                             *)
(***************************************************************************)
EXTENDS Naturals, FiniteSets

CONSTANTS
  Groups,     \* consumer groups of the topic
  Replicas,   \* processes that run Subscribe
  GroupOf,    \* the group each replica subscribes with
  MaxEntries, \* bound: entries published
  MaxFaults   \* bound: failed commands, failed handlers and dead replicas

ASSUME RedisAssumption ==
  /\ IsFiniteSet(Replicas)
  /\ GroupOf \in [Replicas -> Groups]
  /\ MaxEntries \in Nat /\ MaxFaults \in Nat

VARIABLES
  entries,   \* number of entries in the stream
  groups,    \* groups that XGROUP CREATE made
  delivered, \* last-delivered-id of each group
  pending,   \* for each group the entries read and not acknowledged
  reader,    \* for each replica a program counter and the entry it handles
  completed, \* history: for each group the entries a handler returned nil for
  faults

vars == <<entries, groups, delivered, pending, reader, completed, faults>>

Init ==
  /\ entries = 0
  /\ groups = {}
  /\ delivered = [g \in Groups |-> 0]
  /\ pending = [g \in Groups |-> {}]
  /\ reader = [r \in Replicas |-> [pc |-> "starting", entry |-> 0]]
  /\ completed = [g \in Groups |-> {}]
  /\ faults = 0

Fails == faults < MaxFaults /\ faults' = faults + 1

At(r, pc) == reader[r].pc = pc
Goto(r, pc) == reader' = [reader EXCEPT ![r].pc = pc]

Publish ==
  /\ entries < MaxEntries
  /\ entries' = entries + 1
  /\ UNCHANGED <<groups, delivered, pending, reader, completed, faults>>

\* XGROUP CREATE .. 0 MKSTREAM; its error is ignored, whether the group exists
\* or the command failed.
CreateGroup(r) ==
  /\ At(r, "starting")
  /\ Goto(r, "reading")
  /\ \/ groups' = groups \cup {GroupOf[r]} /\ UNCHANGED faults
     \/ Fails /\ UNCHANGED groups
  /\ UNCHANGED <<entries, delivered, pending, completed>>

\* Faulty variant: the group reads the newest entry only.
ReadNewest(r) ==
  LET g == GroupOf[r]
  IN /\ At(r, "reading")
     /\ g \in groups /\ delivered[g] < entries
     /\ delivered' = [delivered EXCEPT ![g] = entries]
     /\ pending' = [pending EXCEPT ![g] = @ \cup {entries}]
     /\ reader' = [reader EXCEPT ![r] = [pc |-> "handling", entry |-> entries]]
     /\ UNCHANGED <<entries, groups, completed, faults>>

\* Faulty variant: the replica reads the pending entries of its group again.
ReadPending(r) ==
  LET g == GroupOf[r]
  IN /\ At(r, "reading")
     /\ \/ \E n \in pending[g] :
             /\ reader' = [reader EXCEPT ![r] = [pc |-> "handling", entry |-> n]]
             /\ UNCHANGED <<delivered, pending>>
        \/ /\ g \in groups /\ delivered[g] < entries
           /\ delivered' = [delivered EXCEPT ![g] = @ + 1]
           /\ pending' = [pending EXCEPT ![g] = @ \cup {delivered[g] + 1}]
           /\ reader' = [reader EXCEPT ![r] = [pc |-> "handling", entry |-> delivered[g] + 1]]
     /\ UNCHANGED <<entries, groups, completed, faults>>

\* XREADGROUP COUNT 1 BLOCK 0 with id ">": the next entry nobody in the group
\* was given, which becomes pending.  The answer may be lost.
Read(r) ==
  LET g == GroupOf[r]
      n == delivered[g] + 1
  IN /\ At(r, "reading")
     /\ g \in groups /\ delivered[g] < entries
     /\ delivered' = [delivered EXCEPT ![g] = n]
     /\ pending' = [pending EXCEPT ![g] = @ \cup {n}]
     /\ \/ /\ reader' = [reader EXCEPT ![r] = [pc |-> "handling", entry |-> n]]
           /\ UNCHANGED faults
        \/ Fails /\ Goto(r, "sleeping")
     /\ UNCHANGED <<entries, groups, completed>>

\* Faulty variant: an error ends the loop.
ReadErrorReturns(r) ==
  /\ At(r, "reading")
  /\ \/ GroupOf[r] \notin groups /\ UNCHANGED faults
     \/ Fails
  /\ Goto(r, "returned")
  /\ UNCHANGED <<entries, groups, delivered, pending, completed>>

\* XREADGROUP returns an error, as it always does for a group that does not
\* exist: the loop sleeps and tries again.
ReadError(r) ==
  /\ At(r, "reading")
  /\ \/ GroupOf[r] \notin groups /\ UNCHANGED faults
     \/ Fails
  /\ Goto(r, "sleeping")
  /\ UNCHANGED <<entries, groups, delivered, pending, completed>>

Wake(r) ==
  /\ At(r, "sleeping")
  /\ Goto(r, "reading")
  /\ UNCHANGED <<entries, groups, delivered, pending, completed, faults>>

\* Faulty variant: an entry is acknowledged whatever the handler returned.
HandleAcksAll(r) ==
  /\ At(r, "handling")
  /\ Goto(r, "acking")
  /\ \/ /\ completed' = [completed EXCEPT ![GroupOf[r]] = @ \cup {reader[r].entry}]
        /\ UNCHANGED faults
     \/ Fails /\ UNCHANGED completed
  /\ UNCHANGED <<entries, groups, delivered, pending>>

\* The handler returns; an entry it fails on, or one that does not decode, is
\* left pending.
Handle(r) ==
  /\ At(r, "handling")
  /\ \/ /\ completed' = [completed EXCEPT ![GroupOf[r]] = @ \cup {reader[r].entry}]
        /\ Goto(r, "acking")
        /\ UNCHANGED faults
     \/ Fails /\ Goto(r, "reading") /\ UNCHANGED completed
  /\ UNCHANGED <<entries, groups, delivered, pending>>

\* XACK; its error is ignored.
Ack(r) ==
  /\ At(r, "acking")
  /\ Goto(r, "reading")
  /\ \/ /\ pending' = [pending EXCEPT ![GroupOf[r]] = @ \ {reader[r].entry}]
        /\ UNCHANGED faults
     \/ Fails /\ UNCHANGED pending
  /\ UNCHANGED <<entries, groups, delivered, completed>>

\* The replica dies, or its context is cancelled, and it is started again.
Restart(r) ==
  /\ Fails
  /\ Goto(r, "starting")
  /\ UNCHANGED <<entries, groups, delivered, pending, completed>>

Subscribe(r) ==
  CreateGroup(r) \/ Read(r) \/ ReadError(r) \/ Wake(r) \/ Handle(r) \/ Ack(r)

Next == Publish \/ \E r \in Replicas : Subscribe(r) \/ Restart(r)

Spec == Init /\ [][Next]_vars

\* Redis answers and handlers return, with a result or an error; nothing has to
\* fail.
FairSpec == Spec /\ \A r \in Replicas : WF_vars(Subscribe(r) /\ UNCHANGED faults)

-----------------------------------------------------------------------------
HeldIn(g) ==
  {reader[r].entry : r \in {q \in Replicas : GroupOf[q] = g /\ At(q, "handling")}}

\* Entries the group was given that nobody will handle any more.
Abandoned(g) == (1..delivered[g]) \ (completed[g] \cup HeldIn(g))

\* The types of the stream and the readers; a group is never ahead of the stream,
\* and a replica at work has an entry.
TypeOK ==
  /\ entries \in 0..MaxEntries
  /\ groups \subseteq Groups
  /\ delivered \in [Groups -> 0..entries]
  /\ pending \in [Groups -> SUBSET (1..MaxEntries)]
  /\ reader \in [Replicas -> [pc : {"starting", "reading", "sleeping", "handling", "acking"},
                              entry : 0..MaxEntries]]
  /\ \A r \in Replicas : At(r, "handling") \/ At(r, "acking") => reader[r].entry # 0
  /\ completed \in [Groups -> SUBSET (1..MaxEntries)]
  /\ faults \in 0..MaxFaults

\* The pending list of a group keeps whatever the group was given and did not
\* finish, over every failure, so that a reader of the list could redeliver it.
PendingCoversUnfinished ==
  \A g \in Groups : (1..delivered[g]) \ completed[g] \subseteq pending[g]

\* An entry is abandoned only where a command or a handler failed or a replica
\* died: each such fault costs at most one entry of one group.
AbandonedBound ==
  Cardinality({e \in Groups \X (1..MaxEntries) : e[2] \in Abandoned(e[1])}) <= faults

\* The bus implements GroupDelivery: an entry is handed to one replica of each
\* group, in stream order and never again.
StatusOf(g, n) ==
  CASE n > delivered[g] -> "waiting"
    [] n <= delivered[g] /\ n \in completed[g] -> "done"
    [] n <= delivered[g] /\ n \in HeldIn(g) \ completed[g] -> "working"
    [] OTHER -> "abandoned"

Delivery == INSTANCE GroupDelivery
              WITH status <- [g \in Groups |-> [n \in 1..MaxEntries |-> StatusOf(g, n)]]

ImplementsGroupDelivery == Delivery!DeliverySpec

\* A group that exists is served in spite of failing commands and restarting
\* replicas: an entry is finished, or ends up abandoned in the pending list.
EventuallyResolved ==
  \A g \in Groups, n \in 1..MaxEntries :
    (g \in groups /\ n <= entries) ~> (n \in completed[g] \cup Abandoned(g))

=============================================================================
