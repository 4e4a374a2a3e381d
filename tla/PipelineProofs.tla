-------------------------- MODULE PipelineProofs --------------------------
(***************************************************************************)
(* Proofs about Pipeline, for every set of feeds, updates and channels,    *)
(* every sequence of documents and every bound.                            *)
(***************************************************************************)
EXTENDS Pipeline, FiniteSetTheorems, TLAPS

-----------------------------------------------------------------------------
(***************************************************************************)
(* Operators.                                                              *)
(***************************************************************************)
\* A query returns rows of the set it selects from.
LEMMA OldestOfSubset == \A S : \A n : \A B \in OldestOf(S, n) : B \subseteq S
  BY DEF OldestOf

\* The same of the newest rows.
LEMMA NewestOfSubset == \A S : \A n : \A B \in NewestOf(S, n) : B \subseteq S
  BY DEF NewestOf

\* Publish keeps the bus well typed: it blocks rather than exceed the buffer.
LEMMA PublishTypeOK ==
  ASSUME BusTypeOK, NEW t \in Topics, NEW m \in Messages, Publish(t, m)
  PROVE  BusTypeOK'
<1>1. CASE UNCHANGED busVars
  BY <1>1 DEF BusTypeOK, busVars
<1>2. ASSUME NEW c \in subs[t], Offer(c, m)
      PROVE  BusTypeOK'
  <2>1. c \in Consumers
    BY DEF BusTypeOK
  <2>2. mailbox[c] \in Seq(Messages) /\ Len(mailbox[c]) < BufSize
    BY <1>2, <2>1 DEF Offer, BusTypeOK
  <2>3. Append(mailbox[c], m) \in Seq(Messages) /\ Len(Append(mailbox[c], m)) <= BufSize
    BY <2>2, BusAssumption
  <2>4. QED
    BY <1>2, <2>1, <2>3 DEF Offer, BusTypeOK
<1>3. QED
  BY <1>1, <1>2 DEF Publish

\* Receiving a message keeps the bus well typed.
LEMMA TakeTypeOK ==
  ASSUME BusTypeOK, NEW c \in Consumers, Take(c)
  PROVE  BusTypeOK' /\ Head(mailbox[c]) \in Messages
<1>1. mailbox[c] \in Seq(Messages) /\ mailbox[c] # << >> /\ Len(mailbox[c]) <= BufSize
  BY DEF Take, BusTypeOK
<1>2. /\ Head(mailbox[c]) \in Messages
      /\ Tail(mailbox[c]) \in Seq(Messages)
      /\ Len(Tail(mailbox[c])) <= BufSize
  BY <1>1, BusAssumption
<1>3. QED
  BY <1>2 DEF Take, BusTypeOK

\* So does a subscription.
LEMMA RegisterTypeOK ==
  ASSUME BusTypeOK, NEW t \in Topics, NEW c \in Consumers, Register(t, c)
  PROVE  BusTypeOK'
<1>1. << >> \in Seq(Messages) /\ Len(<< >>) <= BufSize
  BY BusAssumption
<1>2. QED
  BY <1>1 DEF Register, BusTypeOK

-----------------------------------------------------------------------------
(***************************************************************************)
(* Types.                                                                  *)
(***************************************************************************)
\* The program starts well typed, with empty mailboxes over an empty database.
LEMMA InitTypeOK == Init => TypeOK
<1> SUFFICES ASSUME Init PROVE TypeOK
  OBVIOUS
<1>1. StorageTypeOK
  BY PipelineAssumption DEF Init, StorageTypeOK, Verdicts
<1>2. BusTypeOK
  BY BusAssumption DEF Init, BusInit, BusTypeOK
<1>3. SchedTypeOK
  BY DEF Init, SchedStart, SchedTypeOK, SchedPhases
<1>4. WorkerTypeOK
  BY DEF Init, WorkerIdle, WorkerTypeOK
<1>5. DispTypeOK
  BY DEF Init, DispIdle, DispTypeOK
<1>6. EnvironmentTypeOK
  <2>1. \A f \in Feeds : 1 \in DOMAIN Documents[f]
    BY PipelineAssumption
  <2>2. QED
    BY <2>1 DEF Init, EnvironmentTypeOK
<1>7. QED
  BY <1>1, <1>2, <1>3, <1>4, <1>5, <1>6 DEF TypeOK

\* The actions of the scheduler goroutine leave the other goroutines alone.
LEMMA SchedStepTypeOK ==
  ASSUME TypeOK, SchedStep
  PROVE  TypeOK'
<1> USE DEF TypeOK
<1>1. WorkerTypeOK' /\ DispTypeOK'
  <2>1. UNCHANGED <<worker, disp>>
    BY DEF SchedStep, Tick, ReconcileUnclassified, ReconcileUndispatched, SchedPublish,
           ListFeeds, FetchFeed, EndTick, SaveHeaders, StoreEntries, SchedFrame
  <2>2. QED
    BY <2>1 DEF WorkerTypeOK, DispTypeOK
<1>2. EnvironmentTypeOK'
  <2>1. UNCHANGED <<version, deliveries, judged, lapses, remaps>>
    BY DEF SchedStep, Tick, ReconcileUnclassified, ReconcileUndispatched, SchedPublish,
           ListFeeds, FetchFeed, EndTick, SaveHeaders, StoreEntries, SchedFrame
  <2>2. UNCHANGED faults \/ Fails
    BY DEF SchedStep, Tick, ReconcileUnclassified, ReconcileUndispatched, SchedPublish,
           ListFeeds, FetchFeed, EndTick, SaveHeaders, StoreEntries
  <2>3. QED
    BY <2>1, <2>2 DEF EnvironmentTypeOK, Fails
<1>3. CASE Tick
  <2>1. SchedTypeOK'
    BY <1>3 DEF Tick, SchedStart, SchedTypeOK, SchedPhases
  <2>2. StorageTypeOK' /\ BusTypeOK'
    BY <1>3 DEF Tick, StorageTypeOK, storageVars, BusTypeOK, busVars
  <2>3. QED
    BY <1>1, <1>2, <2>1, <2>2
<1>4. CASE ReconcileUnclassified
  <2>1. SchedTypeOK'
    <3>1. ASSUME NEW B \in ListPending, StartBatch("publishPending", B)
          PROVE  SchedTypeOK'
      <4>1. B \subseteq Updates
        BY <3>1, OldestOfSubset DEF ListPending, Pending, Stored
      <4>2. QED
        BY <3>1, <4>1 DEF StartBatch, AfterBatch, SchedTypeOK, SchedPhases
    <3>2. ASSUME sched' = [sched EXCEPT !.pc = "listUndispatched"]
          PROVE  SchedTypeOK'
      BY <3>2 DEF SchedTypeOK, SchedPhases
    <3>3. QED
      BY <1>4, <3>1, <3>2 DEF ReconcileUnclassified
  <2>2. StorageTypeOK' /\ BusTypeOK'
    BY <1>4 DEF ReconcileUnclassified, StorageTypeOK, storageVars, BusTypeOK, busVars
  <2>3. QED
    BY <1>1, <1>2, <2>1, <2>2
<1>5. CASE ReconcileUndispatched
  <2>1. SchedTypeOK'
    <3>1. ASSUME NEW B \in ListUndispatchedImportant, StartBatch("publishUndispatched", B)
          PROVE  SchedTypeOK'
      <4>1. B \subseteq Updates
        BY <3>1, OldestOfSubset DEF ListUndispatchedImportant, UndispatchedImportant, Stored
      <4>2. QED
        BY <3>1, <4>1 DEF StartBatch, AfterBatch, SchedTypeOK, SchedPhases
    <3>2. ASSUME sched' = [sched EXCEPT !.pc = "listFeeds"]
          PROVE  SchedTypeOK'
      BY <3>2 DEF SchedTypeOK, SchedPhases
    <3>3. QED
      BY <1>5, <3>1, <3>2 DEF ReconcileUndispatched
  <2>2. StorageTypeOK' /\ BusTypeOK'
    BY <1>5 DEF ReconcileUndispatched, StorageTypeOK, storageVars, BusTypeOK, busVars
  <2>3. QED
    BY <1>1, <1>2, <2>1, <2>2
<1>6. CASE SchedPublish
  <2>1. PICK u \in sched.todo :
          /\ Publish(IF sched.pc = "publishUndispatched" THEN TopicUpdatesImportant
                                                         ELSE TopicUpdatesNew, u)
          /\ StartBatch(sched.pc, sched.todo \ {u})
    BY <1>6 DEF SchedPublish
  <2>2. u \in Messages
    BY PipelineAssumption DEF SchedTypeOK
  <2>3. BusTypeOK'
    BY <2>1, <2>2, PublishTypeOK, PipelineAssumption
  <2>4. SchedTypeOK'
    BY <1>6, <2>1 DEF SchedPublish, StartBatch, AfterBatch, SchedTypeOK, SchedPhases
  <2>5. StorageTypeOK'
    BY <1>6 DEF SchedPublish, StorageTypeOK, storageVars
  <2>6. QED
    BY <1>1, <1>2, <2>3, <2>4, <2>5
<1>7. CASE ListFeeds
  <2>1. SchedTypeOK'
    BY <1>7 DEF ListFeeds, SchedTypeOK, SchedPhases
  <2>2. StorageTypeOK' /\ BusTypeOK'
    BY <1>7 DEF ListFeeds, StorageTypeOK, storageVars, BusTypeOK, busVars
  <2>3. QED
    BY <1>1, <1>2, <2>1, <2>2
<1>8. CASE FetchFeed
  <2>1. SchedTypeOK'
    BY <1>8 DEF FetchFeed, SchedTypeOK, SchedPhases, EnvironmentTypeOK
  <2>2. StorageTypeOK' /\ BusTypeOK'
    BY <1>8 DEF FetchFeed, StorageTypeOK, storageVars, BusTypeOK, busVars
  <2>3. QED
    BY <1>1, <1>2, <2>1, <2>2
<1>9. CASE EndTick
  <2>1. SchedTypeOK'
    BY <1>9 DEF EndTick, SchedTypeOK, SchedPhases
  <2>2. StorageTypeOK' /\ BusTypeOK'
    BY <1>9 DEF EndTick, StorageTypeOK, storageVars, BusTypeOK, busVars
  <2>3. QED
    BY <1>1, <1>2, <2>1, <2>2
<1>10. CASE SaveHeaders
  <2>1. SchedTypeOK'
    BY <1>10 DEF SaveHeaders, SchedTypeOK, SchedPhases
  <2>2. StorageTypeOK'
    BY <1>10 DEF SaveHeaders, UpdateCacheHeaders, StorageTypeOK, storageVars, SchedTypeOK
  <2>3. BusTypeOK'
    BY <1>10 DEF SaveHeaders, BusTypeOK, busVars
  <2>4. QED
    BY <1>1, <1>2, <2>1, <2>2, <2>3
<1>11. CASE StoreEntries
  <2>1. SchedTypeOK'
    <3>1. New(Documents[sched.feed][sched.body]) \subseteq Updates
      BY <1>11, PipelineAssumption DEF StoreEntries, New, SchedTypeOK
    <3> DEFINE turn == [sched EXCEPT !.pc = "nextFeed", !.feed = NoFeed, !.body = 0]
    <3>2. \/ sched' = turn
          \/ sched' = [turn EXCEPT !.pc = "publishInserted",
                                   !.todo = New(Documents[sched.feed][sched.body])]
      BY <1>11 DEF StoreEntries
    <3>3. /\ turn \in [pc : SchedPhases, todo : SUBSET Updates, feeds : SUBSET Feeds,
                     feed : Feeds \cup {NoFeed}, body : Nat]
          /\ turn.pc = "nextFeed"
      BY DEF SchedTypeOK, SchedPhases
    <3> HIDE DEF turn
    <3>4. CASE sched' = turn
      BY <3>3, <3>4 DEF SchedTypeOK, SchedPhases
    <3>5. CASE sched' = [turn EXCEPT !.pc = "publishInserted",
                                     !.todo = New(Documents[sched.feed][sched.body])]
      BY <3>1, <3>3, <3>5 DEF SchedTypeOK, SchedPhases
    <3>6. QED
      BY <3>2, <3>4, <3>5
  <2>2. StorageTypeOK'
    BY <1>11 DEF StoreEntries, InsertNew, StorageTypeOK, storageVars, SchedTypeOK
  <2>3. BusTypeOK'
    BY <1>11 DEF StoreEntries, BusTypeOK, busVars
  <2>4. QED
    BY <1>1, <1>2, <2>1, <2>2, <2>3
<1>12. QED
  BY <1>3, <1>4, <1>5, <1>6, <1>7, <1>8, <1>9, <1>10, <1>11 DEF SchedStep

\* A step of the worker keeps every type.
LEMMA WorkerStepTypeOK ==
  ASSUME TypeOK, WorkerStep
  PROVE  TypeOK'
<1> USE DEF TypeOK
<1>1. SchedTypeOK' /\ DispTypeOK'
  <2>1. UNCHANGED <<sched, disp>>
    BY DEF WorkerStep, WorkerSubscribe, WorkerReceive, WorkerClassify, WorkerSave,
           WorkerPublish, WorkerFrame
  <2>2. QED
    BY <2>1 DEF SchedTypeOK, DispTypeOK
<1>2. EnvironmentTypeOK'
  <2>1. UNCHANGED <<version, deliveries, lapses, remaps>>
    BY DEF WorkerStep, WorkerSubscribe, WorkerReceive, WorkerClassify, WorkerSave,
           WorkerPublish, WorkerFrame
  <2>2. UNCHANGED faults \/ Fails
    BY DEF WorkerStep, WorkerSubscribe, WorkerReceive, WorkerClassify, WorkerSave,
           WorkerPublish
  <2>3. judged' \subseteq Updates
    BY DEF WorkerStep, WorkerSubscribe, WorkerReceive, WorkerClassify, WorkerSave,
           WorkerPublish, EnvironmentTypeOK, WorkerTypeOK
  <2>4. QED
    BY <2>1, <2>2, <2>3 DEF EnvironmentTypeOK, Fails
<1>3. CASE WorkerSubscribe
  <2>1. WorkerTypeOK'
    BY <1>3 DEF WorkerSubscribe, WorkerIdle, WorkerTypeOK
  <2>2. BusTypeOK'
    BY <1>3, RegisterTypeOK, PipelineAssumption DEF WorkerSubscribe
  <2>3. StorageTypeOK'
    BY <1>3 DEF WorkerSubscribe, StorageTypeOK, storageVars
  <2>4. QED
    BY <1>1, <1>2, <2>1, <2>2, <2>3
<1>4. CASE WorkerReceive
  <2>1. BusTypeOK' /\ Head(mailbox["classificator"]) \in Updates
    BY <1>4, TakeTypeOK, PipelineAssumption DEF WorkerReceive
  <2>2. \A H \in LastImportant(owner[Head(mailbox["classificator"])]) : H \subseteq Updates
    BY NewestOfSubset DEF LastImportant, ImportantOf, Stored
  <2>3. WorkerTypeOK'
    <3>1. CASE UNCHANGED worker
      BY <3>1 DEF WorkerTypeOK
    <3>2. ASSUME NEW H \in LastImportant(owner[Head(mailbox["classificator"])]),
                 worker' = [worker EXCEPT !.pc = "classify",
                                          !.msg = Head(mailbox["classificator"]),
                                          !.history = H]
          PROVE  WorkerTypeOK'
      BY <2>1, <2>2, <3>2 DEF WorkerTypeOK
    <3>3. QED
      BY <1>4, <3>1, <3>2 DEF WorkerReceive
  <2>4. StorageTypeOK'
    BY <1>4 DEF WorkerReceive, StorageTypeOK, storageVars
  <2>5. QED
    BY <1>1, <1>2, <2>1, <2>3, <2>4
<1>5. CASE WorkerClassify
  <2>1. WorkerTypeOK'
    <3>1. ASSUME NEW v \in Verdicts, worker' = [worker EXCEPT !.pc = "save", !.verdict = v]
          PROVE  WorkerTypeOK'
      BY <1>5, <3>1 DEF WorkerClassify, WorkerTypeOK
    <3>2. CASE worker' = WorkerIdle
      BY <3>2 DEF WorkerIdle, WorkerTypeOK
    <3>3. QED
      BY <1>5, <3>1, <3>2 DEF WorkerClassify
  <2>2. StorageTypeOK' /\ BusTypeOK'
    BY <1>5 DEF WorkerClassify, StorageTypeOK, storageVars, BusTypeOK, busVars
  <2>3. QED
    BY <1>1, <1>2, <2>1, <2>2
<1>6. CASE WorkerSave
  <2>1. WorkerTypeOK'
    BY <1>6 DEF WorkerSave, WorkerIdle, WorkerTypeOK
  <2>2. StorageTypeOK'
    BY <1>6 DEF WorkerSave, SaveVerdict, StorageTypeOK, storageVars, WorkerTypeOK
  <2>3. BusTypeOK'
    BY <1>6 DEF WorkerSave, BusTypeOK, busVars
  <2>4. QED
    BY <1>1, <1>2, <2>1, <2>2, <2>3
<1>7. CASE WorkerPublish
  <2>1. worker.msg \in Messages
    BY <1>7, PipelineAssumption DEF WorkerPublish, WorkerTypeOK
  <2>2. BusTypeOK'
    BY <1>7, <2>1, PublishTypeOK, PipelineAssumption DEF WorkerPublish
  <2>3. WorkerTypeOK'
    BY <1>7 DEF WorkerPublish, WorkerIdle, WorkerTypeOK
  <2>4. StorageTypeOK'
    BY <1>7 DEF WorkerPublish, StorageTypeOK, storageVars
  <2>5. QED
    BY <1>1, <1>2, <2>2, <2>3, <2>4
<1>8. QED
  BY <1>3, <1>4, <1>5, <1>6, <1>7 DEF WorkerStep

\* A step of the dispatcher keeps every type.
LEMMA DispStepTypeOK ==
  ASSUME TypeOK, DispStep
  PROVE  TypeOK'
<1> USE DEF TypeOK
<1>1. SchedTypeOK' /\ WorkerTypeOK'
  <2>1. UNCHANGED <<sched, worker>>
    BY DEF DispStep, DispSubscribe, DispReceive, DispSend, DispMark, DispFrame
  <2>2. QED
    BY <2>1 DEF SchedTypeOK, WorkerTypeOK
<1>2. EnvironmentTypeOK'
  <2>1. UNCHANGED <<version, judged, remaps>>
    BY DEF DispStep, DispSubscribe, DispReceive, DispSend, DispMark, DispFrame
  <2>2. UNCHANGED faults \/ Fails
    BY DEF DispStep, DispSubscribe, DispReceive, DispSend, DispMark
  <2>3. lapses' \in {lapses, lapses + 1}
    BY DEF DispStep, DispSubscribe, DispReceive, DispSend, DispMark
  <2>4. deliveries' \in [Updates -> [Channels -> Nat]]
    <3>1. \/ UNCHANGED deliveries
          \/ /\ disp.pc = "send"
             /\ \E c \in disp.toSend, n \in 1..Attempts :
                  deliveries' = [deliveries EXCEPT ![disp.msg][c] = @ + n]
      BY DEF DispStep, DispSubscribe, DispReceive, DispSend, DispMark
    <3>2. deliveries \in [Updates -> [Channels -> Nat]]
      BY DEF EnvironmentTypeOK
    <3>3. disp.pc = "send" => disp.msg \in Updates /\ disp.toSend \subseteq Channels
      BY DEF DispTypeOK
    <3>4. ASSUME NEW u \in Updates, NEW c \in Channels, NEW n \in 1..Attempts,
                 deliveries' = [deliveries EXCEPT ![u][c] = @ + n]
          PROVE  deliveries' \in [Updates -> [Channels -> Nat]]
      <4>1. [deliveries[u] EXCEPT ![c] = @ + n] \in [Channels -> Nat]
        BY <3>2
      <4>2. deliveries' = [deliveries EXCEPT ![u] = [deliveries[u] EXCEPT ![c] = @ + n]]
        BY <3>4
      <4>3. QED
        BY ONLY <3>2, <4>1, <4>2
    <3>5. QED
      BY ONLY <3>1, <3>2, <3>3, <3>4
  <2>5. QED
    BY <2>1, <2>2, <2>3, <2>4 DEF EnvironmentTypeOK, Fails
<1>3. CASE DispSubscribe
  <2>1. DispTypeOK'
    BY <1>3 DEF DispSubscribe, DispIdle, DispTypeOK
  <2>2. BusTypeOK'
    BY <1>3, RegisterTypeOK, PipelineAssumption DEF DispSubscribe
  <2>3. StorageTypeOK'
    BY <1>3 DEF DispSubscribe, StorageTypeOK, storageVars
  <2>4. QED
    BY <1>1, <1>2, <2>1, <2>2, <2>3
<1>4. CASE DispReceive
  <2>1. BusTypeOK' /\ Head(mailbox["dispatcher"]) \in Updates
    BY <1>4, TakeTypeOK, PipelineAssumption DEF DispReceive
  <2>2. PendingChannels(Head(mailbox["dispatcher"])) \subseteq Channels
    BY DEF PendingChannels, ChannelsFor
  <2>3. verdict[Head(mailbox["dispatcher"])] \in Verdicts \cup {"null"}
    BY <2>1 DEF StorageTypeOK
  <2>4. DispTypeOK'
    BY <1>4, <2>1, <2>2, <2>3 DEF DispReceive, DispTypeOK
  <2>5. StorageTypeOK'
    BY <1>4 DEF DispReceive, StorageTypeOK, storageVars
  <2>6. QED
    BY <1>1, <1>2, <2>1, <2>4, <2>5
<1>5. CASE DispSend
  <2>1. DispTypeOK'
    BY <1>5 DEF DispSend, DispTypeOK
  <2>2. StorageTypeOK' /\ BusTypeOK'
    BY <1>5 DEF DispSend, StorageTypeOK, storageVars, BusTypeOK, busVars
  <2>3. QED
    BY <1>1, <1>2, <2>1, <2>2
<1>6. CASE DispMark
  <2>1. DispTypeOK'
    BY <1>6 DEF DispMark, DispIdle, DispTypeOK
  <2>2. StorageTypeOK'
    BY <1>6 DEF DispMark, MarkDispatched, StorageTypeOK, storageVars, DispTypeOK
  <2>3. BusTypeOK'
    BY <1>6 DEF DispMark, BusTypeOK, busVars
  <2>4. QED
    BY <1>1, <1>2, <2>1, <2>2, <2>3
<1>7. QED
  BY <1>3, <1>4, <1>5, <1>6 DEF DispStep

\* So do a new document, an edit of feed_channels and a restart.
LEMMA EnvironmentStepTypeOK ==
  ASSUME TypeOK, Environment
  PROVE  TypeOK'
<1> USE DEF TypeOK
<1>1. ASSUME NEW f \in Feeds, ServerPublishes(f)
      PROVE  TypeOK'
  <2>1. version' \in [Feeds -> Nat] /\ \A g \in Feeds : version'[g] \in DOMAIN Documents[g]
    <3>1. Documents[f] \in Seq(SUBSET Updates)
      BY PipelineAssumption
    <3>2. version[f] + 1 \in DOMAIN Documents[f]
      BY <1>1, <3>1 DEF ServerPublishes, EnvironmentTypeOK
    <3>3. QED
      BY <1>1, <3>2 DEF ServerPublishes, EnvironmentTypeOK
  <2>2. EnvironmentTypeOK'
    BY <1>1, <2>1 DEF ServerPublishes, EnvironmentTypeOK
  <2>3. QED
    BY <1>1, <2>2 DEF ServerPublishes, StorageTypeOK, storageVars, BusTypeOK, busVars,
                      SchedTypeOK, WorkerTypeOK, DispTypeOK
<1>2. ASSUME NEW f \in Feeds, NEW c \in Channels, Remap(f, c)
      PROVE  TypeOK'
  <2>1. StorageTypeOK' /\ EnvironmentTypeOK'
    BY <1>2 DEF Remap, StorageTypeOK, EnvironmentTypeOK
  <2>2. QED
    BY <1>2, <2>1 DEF Remap, BusTypeOK, busVars, SchedTypeOK, WorkerTypeOK, DispTypeOK
<1>3. CASE Restart
  <2>1. BusTypeOK'
    BY <1>3, BusAssumption DEF Restart, BusTypeOK
  <2>2. SchedTypeOK'
    BY <1>3 DEF Restart, SchedStart, SchedTypeOK, SchedPhases
  <2>3. WorkerTypeOK'
    BY <1>3 DEF Restart, WorkerIdle, WorkerTypeOK
  <2>4. DispTypeOK'
    BY <1>3 DEF Restart, DispIdle, DispTypeOK
  <2>5. StorageTypeOK' /\ EnvironmentTypeOK'
    BY <1>3 DEF Restart, StorageTypeOK, storageVars, EnvironmentTypeOK
  <2>6. QED
    BY <2>1, <2>2, <2>3, <2>4, <2>5
<1>4. QED
  BY <1>1, <1>2, <1>3 DEF Environment

\* And a step that changes nothing.
LEMMA StutterTypeOK ==
  ASSUME TypeOK, UNCHANGED vars
  PROVE  TypeOK'
BY DEF TypeOK, StorageTypeOK, BusTypeOK, SchedTypeOK, WorkerTypeOK, DispTypeOK,
       EnvironmentTypeOK, vars, storageVars, busVars, pipelineVars

\* The tables, the mailboxes (which never exceed their capacity) and the locals
\* of the three goroutines have their types in every state, restarts included.
THEOREM TypeCorrect == Spec => []TypeOK
<1>1. TypeOK /\ [Next]_vars => TypeOK'
  BY SchedStepTypeOK, WorkerStepTypeOK, DispStepTypeOK, EnvironmentStepTypeOK,
     StutterTypeOK DEF Next
<1>2. QED
  BY InitTypeOK, <1>1, PTL DEF Spec

-----------------------------------------------------------------------------
(***************************************************************************)
(* What the bus carries and the goroutines hold.                           *)
(***************************************************************************)
AwaitingVerdict ==
  {u \in Updates :
     \/ u \in Contents("classificator")
     \/ u \in sched.todo
     \/ worker.pc \in {"classify", "save", "publish"} /\ u = worker.msg}

\* The subscriptions of the two topics.
Routes ==
  /\ subs[TopicUpdatesNew] \subseteq {"classificator"}
  /\ subs[TopicUpdatesImportant] \subseteq {"dispatcher"}

\* What has not reached a verdict yet is stored; what is announced as important
\* was judged so, and judged updates are stored and keep some verdict.
Provenance ==
  /\ Routes
  /\ \A u \in judged : u \in Stored /\ verdict[u] # "null"
  /\ \A u \in Updates : verdict[u] = "important" => u \in judged
  /\ AwaitingVerdict \subseteq Stored
  /\ AnnouncedImportant \subseteq judged

\* Publish adds nothing but the message, and only to the mailboxes of subscribers.
LEMMA PublishContents ==
  ASSUME BusTypeOK, NEW t \in Topics, NEW m \in Messages, Publish(t, m)
  PROVE  /\ subs' = subs
         /\ \A c \in Consumers : Contents(c)' \subseteq Contents(c) \cup {m}
         /\ \A c \in Consumers \ subs[t] : Contents(c)' = Contents(c)
<1>1. CASE UNCHANGED busVars
  BY <1>1 DEF Contents, busVars
<1>2. ASSUME NEW d \in subs[t], Offer(d, m)
      PROVE  /\ subs' = subs
             /\ \A c \in Consumers : Contents(c)' \subseteq Contents(c) \cup {m}
             /\ \A c \in Consumers \ subs[t] : Contents(c)' = Contents(c)
  <2>1. subs' = subs /\ mailbox' = [mailbox EXCEPT ![d] = Append(mailbox[d], m)]
    BY <1>2 DEF Offer
  <2>2. ASSUME NEW c \in Consumers, c # d
        PROVE  Contents(c)' = Contents(c)
    BY <2>1, <2>2 DEF Contents, BusTypeOK
  <2>3. Contents(d)' \subseteq Contents(d) \cup {m}
    <3>1. d \in Consumers /\ mailbox[d] \in Seq(Messages)
      BY DEF BusTypeOK
    <3>2. mailbox'[d] = Append(mailbox[d], m)
      BY <2>1, <3>1 DEF BusTypeOK
    <3>3. \A i \in DOMAIN Append(mailbox[d], m) :
            \/ Append(mailbox[d], m)[i] = m
            \/ i \in DOMAIN mailbox[d] /\ Append(mailbox[d], m)[i] = mailbox[d][i]
      BY <3>1
    <3>4. QED
      BY <3>2, <3>3 DEF Contents
  <2>4. QED
    BY <2>1, <2>2, <2>3
<1>3. QED
  BY <1>1, <1>2 DEF Publish

\* Receiving takes a message that was in the mailbox and adds none.
LEMMA TakeContents ==
  ASSUME BusTypeOK, NEW d \in Consumers, Take(d)
  PROVE  /\ subs' = subs
         /\ Head(mailbox[d]) \in Contents(d)
         /\ \A c \in Consumers : Contents(c)' \subseteq Contents(c)
<1>1. mailbox[d] \in Seq(Messages) /\ mailbox[d] # << >>
  BY DEF Take, BusTypeOK
<1>2. 1 \in DOMAIN mailbox[d] /\ Head(mailbox[d]) = mailbox[d][1]
  BY <1>1
<1>3. \A i \in DOMAIN Tail(mailbox[d]) :
        i + 1 \in DOMAIN mailbox[d] /\ Tail(mailbox[d])[i] = mailbox[d][i + 1]
  BY <1>1
<1>4. Contents(d)' \subseteq Contents(d)
  BY <1>3 DEF Take, Contents, BusTypeOK
<1>5. \A c \in Consumers \ {d} : Contents(c)' = Contents(c)
  BY DEF Take, Contents, BusTypeOK
<1>6. Head(mailbox[d]) \in Contents(d)
  BY <1>2 DEF Contents
<1>7. QED
  BY <1>4, <1>5, <1>6 DEF Take

\* Subscribing adds a subscriber and no message.
LEMMA RegisterContents ==
  ASSUME BusTypeOK, NEW t \in Topics, NEW d \in Consumers, Register(t, d)
  PROVE  /\ subs' = [subs EXCEPT ![t] = @ \cup {d}]
         /\ \A c \in Consumers : Contents(c)' \subseteq Contents(c)
<1>1. Contents(d)' = {}
  BY DEF Register, Contents, BusTypeOK
<1>2. \A c \in Consumers \ {d} : Contents(c)' = Contents(c)
  BY DEF Register, Contents, BusTypeOK
<1>3. QED
  BY <1>1, <1>2 DEF Register

\* At the start nothing is stored, carried or judged.
LEMMA InitProvenance == Init => Provenance
BY PipelineAssumption, BusAssumption
   DEF Init, BusInit, Provenance, Routes, Stored, AwaitingVerdict, AnnouncedImportant, Contents,
       SchedStart, WorkerIdle, DispIdle

\* The scheduler publishes what it stored or what the queries returned.
LEMMA SchedStepProvenance ==
  ASSUME TypeOK, Provenance, SchedStep
  PROVE  Provenance'
<1>1. UNCHANGED <<worker, disp, judged, verdict>>
  BY DEF SchedStep, Tick, ReconcileUnclassified, ReconcileUndispatched, SchedPublish,
         ListFeeds, FetchFeed, EndTick, SaveHeaders, StoreEntries, SchedFrame,
         UpdateCacheHeaders, InsertNew, storageVars
<1>2. ASSUME AwaitingVerdict' \subseteq Stored', AnnouncedImportant' \subseteq judged,
             Stored \subseteq Stored', subs' = subs
      PROVE  Provenance'
  BY <1>1, <1>2 DEF Provenance, Routes
<1>3. ASSUME UNCHANGED <<storageVars, busVars>>,
             sched'.todo \subseteq Stored,
             sched'.pc = "publishUndispatched" => sched'.todo \subseteq judged
      PROVE  Provenance'
  <2>1. AwaitingVerdict' \subseteq Stored
    BY <1>1, <1>3 DEF AwaitingVerdict, Contents, busVars, Provenance
  <2>2. AnnouncedImportant' \subseteq judged
    BY <1>1, <1>3 DEF AnnouncedImportant, Contents, busVars, Provenance
  <2>3. Stored' = Stored /\ subs' = subs
    BY <1>3 DEF Stored, storageVars, busVars
  <2>4. QED
    BY <1>2, <2>1, <2>2, <2>3
<1>4. sched.todo \subseteq Stored
  BY DEF Provenance, AwaitingVerdict, TypeOK, SchedTypeOK
<1>5. sched.pc = "publishUndispatched" => sched.todo \subseteq judged
  BY DEF Provenance, AnnouncedImportant, TypeOK, SchedTypeOK
<1>6. CASE Tick
  BY <1>3, <1>6 DEF Tick, SchedStart
<1>7. CASE ReconcileUnclassified
  <2>1. \A B \in ListPending : B \subseteq Stored
    BY OldestOfSubset DEF ListPending, Pending
  <2>2. sched'.todo \subseteq Stored /\ sched'.pc # "publishUndispatched"
    BY <1>4, <1>7, <2>1 DEF ReconcileUnclassified, StartBatch, AfterBatch, TypeOK, SchedTypeOK
  <2>3. QED
    BY <1>3, <1>7, <2>2 DEF ReconcileUnclassified
<1>8. CASE ReconcileUndispatched
  <2>1. \A B \in ListUndispatchedImportant : B \subseteq Stored /\ B \subseteq judged
    <3>1. UndispatchedImportant \subseteq Stored /\ UndispatchedImportant \subseteq judged
      BY DEF UndispatchedImportant, Provenance, Stored
    <3>2. QED
      BY <3>1, OldestOfSubset DEF ListUndispatchedImportant
  <2>2. \/ \E B \in ListUndispatchedImportant : sched'.todo = B
        \/ sched'.todo = sched.todo /\ sched'.pc = "listFeeds"
    BY <1>8 DEF ReconcileUndispatched, StartBatch, TypeOK, SchedTypeOK
  <2>3. QED
    BY <1>3, <1>4, <1>8, <2>1, <2>2 DEF ReconcileUndispatched
<1>9. CASE SchedPublish
  <2>1. PICK u \in sched.todo :
          /\ Publish(IF sched.pc = "publishUndispatched" THEN TopicUpdatesImportant
                                                         ELSE TopicUpdatesNew, u)
          /\ StartBatch(sched.pc, sched.todo \ {u})
    BY <1>9 DEF SchedPublish
  <2>2. u \in Messages /\ u \in Updates /\ BusTypeOK
    BY PipelineAssumption DEF TypeOK, SchedTypeOK
  <2>3. /\ subs' = subs
        /\ \A c \in Consumers : Contents(c)' \subseteq Contents(c) \cup {u}
        /\ sched.pc # "publishUndispatched" => Contents("dispatcher")' = Contents("dispatcher")
    <3>1. CASE sched.pc = "publishUndispatched"
      BY <2>1, <2>2, <3>1, PublishContents, PipelineAssumption
    <3>2. CASE sched.pc # "publishUndispatched"
      <4>1. "dispatcher" \in Consumers \ subs[TopicUpdatesNew]
        BY PipelineAssumption DEF Provenance, Routes
      <4>2. QED
        BY <2>1, <2>2, <3>2, <4>1, PublishContents, PipelineAssumption
    <3>3. QED
      BY <3>1, <3>2
  <2>4. /\ sched'.todo \subseteq sched.todo
        /\ sched'.pc = "publishUndispatched" => sched.pc = "publishUndispatched"
    BY <1>9, <2>1 DEF SchedPublish, StartBatch, AfterBatch, TypeOK, SchedTypeOK
  <2>5. Stored' = Stored
    BY <1>9 DEF SchedPublish, Stored, storageVars
  <2>6. AwaitingVerdict' \subseteq Stored
    <3>1. Contents("classificator")' \subseteq Contents("classificator") \cup {u}
      BY <2>3, PipelineAssumption
    <3>2. QED
      BY <1>1, <1>4, <2>4, <3>1 DEF AwaitingVerdict, Provenance
  <2>7. AnnouncedImportant' \subseteq judged
    <3>1. Contents("dispatcher")' \cap Updates \subseteq judged
      <4>1. Contents("dispatcher") \cap Updates \subseteq judged
        BY DEF AnnouncedImportant, Provenance
      <4>2. QED
        BY <1>5, <2>3, <4>1, PipelineAssumption
    <3>2. sched'.pc = "publishUndispatched" => sched'.todo \subseteq judged
      BY <1>5, <2>4
    <3>3. QED
      BY <1>1, <3>1, <3>2 DEF AnnouncedImportant, Provenance
  <2>8. QED
    BY <1>2, <2>3, <2>5, <2>6, <2>7
<1>10. CASE ListFeeds
  <2>1. sched'.todo = sched.todo /\ sched'.pc # "publishUndispatched"
    BY <1>10 DEF ListFeeds, TypeOK, SchedTypeOK
  <2>2. QED
    BY <1>3, <1>4, <1>10, <2>1 DEF ListFeeds
<1>11. CASE FetchFeed
  <2>1. sched'.todo = sched.todo /\ sched'.pc # "publishUndispatched"
    BY <1>11 DEF FetchFeed, TypeOK, SchedTypeOK
  <2>2. QED
    BY <1>3, <1>4, <1>11, <2>1 DEF FetchFeed
<1>12. CASE EndTick
  <2>1. sched'.todo = sched.todo /\ sched'.pc # "publishUndispatched"
    BY <1>12 DEF EndTick, TypeOK, SchedTypeOK
  <2>2. QED
    BY <1>3, <1>4, <1>12, <2>1 DEF EndTick
<1>13. CASE SaveHeaders
  <2>1. sched'.todo = sched.todo /\ sched'.pc # "publishUndispatched"
    BY <1>13 DEF SaveHeaders, TypeOK, SchedTypeOK
  <2>2. Stored' = Stored /\ subs' = subs /\ UNCHANGED mailbox
    BY <1>13 DEF SaveHeaders, UpdateCacheHeaders, Stored, storageVars, busVars
  <2>3. AwaitingVerdict' \subseteq Stored
    BY <1>1, <2>1, <2>2 DEF AwaitingVerdict, Contents, Provenance
  <2>4. AnnouncedImportant' \subseteq judged
    BY <1>1, <2>1, <2>2 DEF AnnouncedImportant, Contents, Provenance
  <2>5. QED
    BY <1>2, <2>2, <2>3, <2>4
<1>14. CASE StoreEntries
  <2> DEFINE S == Documents[sched.feed][sched.body]
  <2>1. S \subseteq Updates /\ sched.feed \in Feeds /\ NoFeed \notin Feeds
    BY <1>14, PipelineAssumption, StorageAssumption DEF StoreEntries, TypeOK, SchedTypeOK
  <2>2. subs' = subs /\ UNCHANGED mailbox
    BY <1>14 DEF StoreEntries, busVars
  <2>3. Stored \subseteq Stored'
    BY <1>14 DEF StoreEntries, InsertNew, New, Stored, storageVars
  <2>4. sched'.todo \subseteq Stored' /\ sched'.pc # "publishUndispatched"
    <3>1. CASE InsertNew(sched.feed, S) /\ sched'.todo \in {sched.todo, New(S)}
               /\ sched'.pc # "publishUndispatched"
      <4>1. New(S) \subseteq Stored'
        BY <2>1, <3>1 DEF InsertNew, New, Stored
      <4>2. QED
        BY <1>4, <2>3, <3>1, <4>1
    <3>2. CASE sched'.todo = sched.todo /\ sched'.pc # "publishUndispatched"
      BY <1>4, <2>3, <3>2
    <3>3. QED
      BY <1>14, <3>1, <3>2 DEF StoreEntries, TypeOK, SchedTypeOK
  <2>5. AwaitingVerdict' \subseteq Stored'
    BY <1>1, <2>2, <2>3, <2>4 DEF AwaitingVerdict, Contents, Provenance
  <2>6. AnnouncedImportant' \subseteq judged
    BY <1>1, <2>2, <2>4 DEF AnnouncedImportant, Contents, Provenance
  <2>7. QED
    BY <1>2, <2>2, <2>3, <2>5, <2>6
<1>15. QED
  BY <1>6, <1>7, <1>8, <1>9, <1>10, <1>11, <1>12, <1>13, <1>14 DEF SchedStep

\* The worker announces an update after SaveVerdict recorded its verdict.
LEMMA WorkerStepProvenance ==
  ASSUME TypeOK, Provenance, WorkerStep
  PROVE  Provenance'
<1>1. UNCHANGED <<sched, disp, owner>>
  BY DEF WorkerStep, WorkerSubscribe, WorkerReceive, WorkerClassify, WorkerSave,
         WorkerPublish, WorkerFrame, SaveVerdict, storageVars
<1>2. Stored' = Stored
  BY <1>1 DEF Stored
<1>3. ASSUME worker.pc \in {"classify", "save", "publish"}
      PROVE  worker.msg \in Stored /\ worker.msg \in Updates
  BY <1>3 DEF Provenance, AwaitingVerdict, TypeOK, WorkerTypeOK
<1>4. ASSUME worker.pc = "publish"
      PROVE  worker.msg \in judged
  BY <1>4 DEF Provenance, AnnouncedImportant, TypeOK, WorkerTypeOK
\* A step that writes no verdict.
<1>5. ASSUME UNCHANGED <<verdict, judged>>, Routes',
             Contents("classificator")' \cap Updates \subseteq Stored,
             Contents("dispatcher")' \cap Updates \subseteq judged,
             worker'.pc \in {"classify", "save", "publish"} => worker'.msg \in Stored,
             worker'.pc = "publish" => worker'.msg \in judged
      PROVE  Provenance'
  <2>1. AwaitingVerdict' \subseteq Stored
    BY <1>1, <1>5 DEF AwaitingVerdict, Provenance
  <2>2. AnnouncedImportant' \subseteq judged
    BY <1>1, <1>5 DEF AnnouncedImportant, Provenance
  <2>3. QED
    BY <1>2, <1>5, <2>1, <2>2 DEF Provenance
<1>6. Contents("classificator") \cap Updates \subseteq Stored
  BY DEF Provenance, AwaitingVerdict
<1>7. Contents("dispatcher") \cap Updates \subseteq judged
  BY DEF Provenance, AnnouncedImportant
<1>8. CASE WorkerSubscribe
  <2>1. /\ subs' = [subs EXCEPT ![TopicUpdatesNew] = @ \cup {"classificator"}]
        /\ \A c \in Consumers : Contents(c)' \subseteq Contents(c)
    BY <1>8, RegisterContents, PipelineAssumption DEF WorkerSubscribe, TypeOK
  <2>2. Routes'
    BY <2>1, PipelineAssumption
       DEF Routes, Provenance, TypeOK, BusTypeOK, TopicUpdatesNew, TopicUpdatesImportant
  <2>3. worker'.pc = "idle"
    BY <1>8 DEF WorkerSubscribe, WorkerIdle
  <2>4. UNCHANGED <<verdict, judged>>
    BY <1>8 DEF WorkerSubscribe, storageVars
  <2>5. QED
    BY <1>5, <1>6, <1>7, <2>1, <2>2, <2>3, <2>4, PipelineAssumption
<1>9. CASE WorkerReceive
  <2>1. /\ subs' = subs
        /\ Head(mailbox["classificator"]) \in Contents("classificator")
        /\ Head(mailbox["classificator"]) \in Updates
        /\ \A c \in Consumers : Contents(c)' \subseteq Contents(c)
    BY <1>9, TakeContents, TakeTypeOK, PipelineAssumption DEF WorkerReceive, TypeOK
  <2>2. Routes'
    BY <2>1 DEF Routes, Provenance
  <2>3. \/ worker' = worker
        \/ worker'.pc = "classify" /\ worker'.msg = Head(mailbox["classificator"])
    BY <1>9 DEF WorkerReceive, TypeOK, WorkerTypeOK
  <2>4. UNCHANGED <<verdict, judged>> /\ worker.pc = "idle"
    BY <1>9 DEF WorkerReceive, storageVars
  <2>5. QED
    BY <1>5, <1>6, <1>7, <2>1, <2>2, <2>3, <2>4, PipelineAssumption
<1>10. CASE WorkerClassify
  <2>1. \/ worker'.pc = "save" /\ worker'.msg = worker.msg
        \/ worker'.pc = "idle"
    <3>1. \/ \E v \in Verdicts : worker' = [worker EXCEPT !.pc = "save", !.verdict = v]
          \/ worker' = WorkerIdle
      BY <1>10 DEF WorkerClassify
    <3>2. ASSUME NEW v \in Verdicts, worker' = [worker EXCEPT !.pc = "save", !.verdict = v]
          PROVE  worker'.pc = "save" /\ worker'.msg = worker.msg
      BY <3>2 DEF TypeOK, WorkerTypeOK
    <3>3. WorkerIdle.pc = "idle"
      BY DEF WorkerIdle
    <3>4. QED
      BY <3>1, <3>2, <3>3
  <2>2. UNCHANGED <<verdict, judged, subs, mailbox>> /\ worker.pc = "classify"
    BY <1>10 DEF WorkerClassify, storageVars, busVars
  <2>3. Routes' /\ \A c \in Consumers : Contents(c)' = Contents(c)
    BY <2>2 DEF Routes, Provenance, Contents
  <2>4. QED
    BY <1>3, <1>5, <1>6, <1>7, <2>1, <2>2, <2>3, PipelineAssumption
<1>11. CASE WorkerSave
  <2>1. Routes' /\ \A c \in Consumers : Contents(c)' = Contents(c)
    BY <1>11 DEF WorkerSave, busVars, Routes, Provenance, Contents
  <2>2. worker.msg \in Stored /\ worker.msg \in Updates /\ worker.verdict \in Verdicts
    BY <1>3, <1>11 DEF WorkerSave, TypeOK, WorkerTypeOK
  <2>3. CASE UNCHANGED <<verdict, judged>> /\ worker'.pc = "idle"
    BY <1>5, <1>6, <1>7, <2>1, <2>3, PipelineAssumption
  <2>4. CASE /\ verdict' = [verdict EXCEPT ![worker.msg] = worker.verdict]
             /\ \/ /\ worker.verdict = "important"
                   /\ worker'.pc = "publish" /\ worker'.msg = worker.msg
                   /\ judged' = judged \cup {worker.msg}
                \/ /\ worker.verdict # "important"
                   /\ worker'.pc = "idle" /\ judged' = judged
    <3>1. \A u \in judged' : u \in Stored /\ verdict'[u] # "null"
      BY <2>2, <2>4 DEF Provenance, TypeOK, StorageTypeOK, EnvironmentTypeOK, Verdicts
    <3>2. \A u \in Updates : verdict'[u] = "important" => u \in judged'
      BY <2>2, <2>4 DEF Provenance, TypeOK, StorageTypeOK
    <3>3. judged \subseteq judged'
      BY <2>4
    <3>4. AwaitingVerdict' \subseteq Stored
      BY <1>1, <2>1, <2>2, <2>4, PipelineAssumption DEF AwaitingVerdict, Provenance
    <3>5. AnnouncedImportant' \subseteq judged'
      BY <1>1, <2>1, <2>4, <3>3, PipelineAssumption DEF AnnouncedImportant, Provenance
    <3>6. QED
      BY <1>2, <2>1, <3>1, <3>2, <3>4, <3>5 DEF Provenance
  <2>5. QED
    BY <1>11, <2>3, <2>4
       DEF WorkerSave, SaveVerdict, WorkerIdle, storageVars, TypeOK, WorkerTypeOK
<1>12. CASE WorkerPublish
  <2>1. worker.msg \in Messages /\ worker.msg \in judged
    BY <1>3, <1>4, <1>12, PipelineAssumption DEF WorkerPublish
  <2>2. /\ subs' = subs
        /\ \A c \in Consumers : Contents(c)' \subseteq Contents(c) \cup {worker.msg}
        /\ Contents("classificator")' = Contents("classificator")
    <3>1. "classificator" \in Consumers \ subs[TopicUpdatesImportant]
      BY PipelineAssumption DEF Provenance, Routes
    <3>2. QED
      BY <1>12, <2>1, <3>1, PublishContents, PipelineAssumption DEF WorkerPublish, TypeOK
  <2>3. Routes' /\ worker'.pc = "idle" /\ UNCHANGED <<verdict, judged>>
    BY <1>12, <2>2 DEF WorkerPublish, WorkerIdle, Routes, Provenance, storageVars
  <2>4. QED
    BY <1>5, <1>6, <1>7, <2>1, <2>2, <2>3, PipelineAssumption
<1>13. QED
  BY <1>8, <1>9, <1>10, <1>11, <1>12 DEF WorkerStep

\* The dispatcher writes neither updates nor verdicts.
LEMMA DispStepProvenance ==
  ASSUME TypeOK, Provenance, DispStep
  PROVE  Provenance'
<1>1. UNCHANGED <<sched, worker, owner, verdict, judged>>
  BY DEF DispStep, DispSubscribe, DispReceive, DispSend, DispMark, DispFrame,
         MarkDispatched, storageVars
<1>2. Stored' = Stored
  BY <1>1 DEF Stored
<1>3. Contents("dispatcher") \cap Updates \subseteq judged
  BY DEF Provenance, AnnouncedImportant
<1>4. ASSUME disp.pc \in {"send", "mark"}
      PROVE  disp.msg \in judged
  BY <1>4 DEF Provenance, AnnouncedImportant, TypeOK, DispTypeOK
<1>5. ASSUME Routes', \A c \in Consumers : Contents(c)' \subseteq Contents(c),
             disp'.pc \in {"send", "mark"} => disp'.msg \in judged
      PROVE  Provenance'
  <2>1. AwaitingVerdict' \subseteq Stored
    BY <1>1, <1>5, PipelineAssumption DEF AwaitingVerdict, Provenance
  <2>2. AnnouncedImportant' \subseteq judged
    BY <1>1, <1>5, PipelineAssumption DEF AnnouncedImportant, Provenance
  <2>3. QED
    BY <1>1, <1>2, <1>5, <2>1, <2>2 DEF Provenance
<1>6. CASE DispSubscribe
  <2>1. /\ subs' = [subs EXCEPT ![TopicUpdatesImportant] = @ \cup {"dispatcher"}]
        /\ \A c \in Consumers : Contents(c)' \subseteq Contents(c)
    BY <1>6, RegisterContents, PipelineAssumption DEF DispSubscribe, TypeOK
  <2>2. Routes'
    BY <2>1, PipelineAssumption
       DEF Routes, Provenance, TypeOK, BusTypeOK, TopicUpdatesNew, TopicUpdatesImportant
  <2>3. QED
    BY <1>5, <1>6, <2>1, <2>2 DEF DispSubscribe, DispIdle
<1>7. CASE DispReceive
  <2>1. /\ subs' = subs
        /\ Head(mailbox["dispatcher"]) \in Contents("dispatcher")
        /\ Head(mailbox["dispatcher"]) \in Updates
        /\ \A c \in Consumers : Contents(c)' \subseteq Contents(c)
    BY <1>7, TakeContents, TakeTypeOK, PipelineAssumption DEF DispReceive, TypeOK
  <2>2. \/ disp'.pc = "idle"
        \/ disp'.pc = "send" /\ disp'.msg = Head(mailbox["dispatcher"])
    BY <1>7 DEF DispReceive, TypeOK, DispTypeOK
  <2>3. QED
    BY <1>3, <1>5, <2>1, <2>2 DEF Routes, Provenance
<1>8. CASE DispSend
  <2>1. Routes' /\ \A c \in Consumers : Contents(c)' = Contents(c)
    BY <1>8 DEF DispSend, busVars, Routes, Provenance, Contents
  <2>2. disp'.msg = disp.msg /\ disp.pc = "send"
    BY <1>8 DEF DispSend, TypeOK, DispTypeOK
  <2>3. QED
    BY <1>4, <1>5, <2>1, <2>2
<1>9. CASE DispMark
  <2>1. Routes' /\ \A c \in Consumers : Contents(c)' = Contents(c)
    BY <1>9 DEF DispMark, busVars, Routes, Provenance, Contents
  <2>2. disp.pc = "mark" /\ (disp'.pc = "idle" \/ disp'.msg = disp.msg)
    BY <1>9 DEF DispMark, DispIdle, TypeOK, DispTypeOK
  <2>3. QED
    BY <1>4, <1>5, <2>1, <2>2
<1>10. QED
  BY <1>6, <1>7, <1>8, <1>9 DEF DispStep

\* A restart empties the mailboxes and keeps the tables.
LEMMA EnvironmentStepProvenance ==
  ASSUME TypeOK, Provenance, Environment
  PROVE  Provenance'
<1>1. ASSUME UNCHANGED <<owner, verdict, judged, subs, mailbox, sched, worker, disp>>
      PROVE  Provenance'
  BY <1>1 DEF Provenance, Routes, Stored, AwaitingVerdict, AnnouncedImportant, Contents
<1>2. ASSUME NEW f \in Feeds, ServerPublishes(f)
      PROVE  Provenance'
  BY <1>1, <1>2 DEF ServerPublishes, storageVars, busVars
<1>3. ASSUME NEW f \in Feeds, NEW c \in Channels, Remap(f, c)
      PROVE  Provenance'
  BY <1>1, <1>3 DEF Remap, busVars
<1>4. CASE Restart
  <2>1. /\ UNCHANGED <<owner, verdict, judged>>
        /\ sched'.todo = {} /\ worker'.pc = "starting" /\ disp'.pc = "starting"
    BY <1>4 DEF Restart, SchedStart, WorkerIdle, DispIdle, storageVars
  <2>2. Routes' /\ \A c \in Consumers : Contents(c)' = {}
    BY <1>4, PipelineAssumption DEF Restart, Routes, Contents
  <2>3. AwaitingVerdict' = {} /\ AnnouncedImportant' = {}
    BY <2>1, <2>2, PipelineAssumption DEF AwaitingVerdict, AnnouncedImportant
  <2>4. Stored' = Stored
    BY <2>1 DEF Stored
  <2>5. QED
    BY <2>1, <2>2, <2>3, <2>4 DEF Provenance
<1>5. QED
  BY <1>2, <1>3, <1>4 DEF Environment

\* A step that changes nothing keeps Provenance.
LEMMA StutterProvenance ==
  ASSUME Provenance, UNCHANGED vars
  PROVE  Provenance'
BY DEF Provenance, Routes, Stored, AwaitingVerdict, AnnouncedImportant, Contents,
       vars, storageVars, busVars, pipelineVars

\* Provenance holds in every state: a message in a mailbox, in a batch or in a
\* handler is about a stored update, and one on updates.important about an
\* update that RunWorker saved as important at some time.
THEOREM ProvenanceInvariant == Spec => []Provenance
<1>1. TypeOK /\ Provenance /\ [Next]_vars => Provenance'
  BY SchedStepProvenance, WorkerStepProvenance, DispStepProvenance,
     EnvironmentStepProvenance, StutterProvenance DEF Next
<1>2. QED
  BY InitProvenance, <1>1, TypeCorrect, PTL DEF Spec

\* GetVerdict never dereferences a missing verdict, whatever the sizes, the
\* number of failures and the number of restarts.
THEOREM VerdictOnRecord == Spec => []NoNilVerdict
<1>1. Provenance => NoNilVerdict
  BY DEF Provenance, NoNilVerdict
<1>2. QED
  BY <1>1, ProvenanceInvariant, PTL

-----------------------------------------------------------------------------
(***************************************************************************)
(* Deliveries.                                                             *)
(***************************************************************************)
\* What the dispatcher has sent in this run of its handler and not yet marked.
Owed(u, c) ==
  /\ disp.pc \in {"send", "mark"}
  /\ u = disp.msg
  /\ c \in disp.toMark \ disp.toSend

\* What the Sends that some lapse left without a record can have delivered.
Unrecorded == Attempts * lapses

\* Deliveries that are neither on record nor owed were paid for by a lapse; those
\* of one Send come on top.
DeliveryInv ==
  /\ \A u \in Updates, c \in Channels :
       /\ deliveries[u][c] <= Unrecorded + Attempts
       /\ <<u, c>> \notin dispatches /\ ~Owed(u, c) => deliveries[u][c] <= Unrecorded
  /\ disp.pc \in {"send", "mark"} =>
       \A c \in disp.toMark : <<disp.msg, c>> \notin dispatches
  /\ disp.pc = "send" => disp.toSend \subseteq disp.toMark
  /\ disp.pc = "mark" => disp.toSend = {}

\* It is a number, and a lapse adds the tries of one Send.
LEMMA UnrecordedGrows ==
  ASSUME lapses \in Nat
  PROVE  /\ Attempts \in Nat /\ Unrecorded \in Nat
         /\ lapses' = lapses + 1 => Unrecorded' = Unrecorded + Attempts
         /\ Attempts * (1 + lapses) = Unrecorded + Attempts
<1>1. Attempts \in Nat
  BY PipelineAssumption
<1>2. Attempts * lapses \in Nat
  BY <1>1
<1>3. Attempts * (1 + lapses) = Attempts * lapses + Attempts
  BY <1>1
<1>4. Attempts * (lapses + 1) = Attempts * lapses + Attempts
  BY <1>1
<1>5. QED
  BY <1>1, <1>2, <1>3, <1>4 DEF Unrecorded

\* At the start nothing is delivered.
LEMMA InitDeliveryInv == Init => DeliveryInv
<1>1. ASSUME Init PROVE DeliveryInv
  <2>1. Attempts \in Nat /\ Unrecorded \in Nat
    BY <1>1, UnrecordedGrows DEF Init
  <2>2. QED
    BY <1>1, <2>1 DEF Init, DispIdle, DeliveryInv, Owed
<1>2. QED
  BY <1>1

\* Only the dispatcher's own steps and a restart touch what DeliveryInv reads.
LEMMA OtherStepDeliveryInv ==
  ASSUME DeliveryInv, UNCHANGED <<disp, deliveries, dispatches, lapses>>
  PROVE  DeliveryInv'
BY DEF DeliveryInv, Owed, Unrecorded

\* The handler of RunDispatcher sends to channels without a row, marks what it
\* sent, and leaves a delivery unmarked only by a lapse.
LEMMA DispStepDeliveryInv ==
  ASSUME TypeOK, DeliveryInv, DispStep
  PROVE  DeliveryInv'
<1>1. /\ lapses \in Nat /\ Attempts \in Nat /\ Unrecorded \in Nat
      /\ deliveries \in [Updates -> [Channels -> Nat]]
      /\ \A u \in Updates, c \in Channels : deliveries[u][c] \in Nat
  BY UnrecordedGrows DEF TypeOK, EnvironmentTypeOK
<1>0. UNCHANGED lapses => UNCHANGED Unrecorded
  BY DEF Unrecorded
<1>2. ASSUME disp.pc \in {"starting", "idle"}
      PROVE  \A u \in Updates, c \in Channels : ~Owed(u, c)
  BY <1>2 DEF Owed
<1>3. CASE DispSubscribe
  <2>1. disp.pc = "starting" /\ disp'.pc = "idle"
    BY <1>3 DEF DispSubscribe, DispIdle
  <2>2. UNCHANGED <<deliveries, dispatches, lapses>>
    BY <1>3 DEF DispSubscribe, storageVars
  <2>3. QED
    BY <1>0, <1>2, <2>1, <2>2 DEF DeliveryInv, Owed
<1>4. CASE DispReceive
  <2> DEFINE u == Head(mailbox["dispatcher"])
             P == PendingChannels(u)
  <2>1. disp.pc = "idle" /\ UNCHANGED <<deliveries, dispatches, lapses>>
    BY <1>4 DEF DispReceive, storageVars
  <2>2. \/ disp' = disp
        \/ disp'.pc = "send" /\ disp'.msg = u /\ disp'.toSend = P /\ disp'.toMark = P
    BY <1>4 DEF DispReceive, TypeOK, DispTypeOK
  <2>3. \A c \in P : <<u, c>> \notin dispatches
    BY DEF PendingChannels, IsDispatched
  <2>4. \A v \in Updates, c \in Channels : ~Owed(v, c)'
    BY <2>1, <2>2 DEF Owed
  <2>5. QED
    BY <1>0, <1>2, <2>1, <2>2, <2>3, <2>4 DEF DeliveryInv
<1>5. CASE DispSend
  <2>1. PICK c \in disp.toSend :
          /\ disp' = [disp EXCEPT !.toSend = disp.toSend \ {c},
                                  !.pc = IF disp.toSend \ {c} = {} THEN "mark" ELSE @]
          /\ \/ \E n \in 1..Attempts : deliveries' = [deliveries EXCEPT ![disp.msg][c] = @ + n]
             \/ UNCHANGED deliveries
    BY <1>5 DEF DispSend
  <2>2. /\ disp'.msg = disp.msg /\ disp'.toMark = disp.toMark
        /\ disp'.toSend = disp.toSend \ {c}
        /\ disp'.pc = IF disp.toSend \ {c} = {} THEN "mark" ELSE disp.pc
    BY <2>1 DEF TypeOK, DispTypeOK
  <2>3. disp.pc = "send" /\ UNCHANGED <<dispatches, lapses, Unrecorded>>
    BY <1>0, <1>5 DEF DispSend, storageVars
  <2>4. disp.msg \in Updates /\ c \in Channels /\ c \in disp.toMark
    BY <2>3 DEF TypeOK, DispTypeOK, DeliveryInv
  <2>5. ~Owed(disp.msg, c) /\ <<disp.msg, c>> \notin dispatches
    BY <2>2, <2>3, <2>4 DEF Owed, DeliveryInv
  <2>6. \A v \in Updates, d \in Channels : Owed(v, d) => Owed(v, d)'
    BY <2>2, <2>3 DEF Owed
  <2>7. \A v \in Updates, d \in Channels :
          v # disp.msg \/ d # c => deliveries'[v][d] = deliveries[v][d]
    <3>1. ASSUME NEW n \in 1..Attempts, deliveries' = [deliveries EXCEPT ![disp.msg][c] = @ + n],
                 NEW v \in Updates, NEW d \in Channels, v # disp.msg \/ d # c
          PROVE  deliveries'[v][d] = deliveries[v][d]
      BY <1>1, <2>4, <3>1
    <3>2. QED
      BY <2>1, <3>1
  <2>8. deliveries'[disp.msg][c] <= Unrecorded + Attempts
    <3>1. deliveries[disp.msg][c] <= Unrecorded
      BY <2>4, <2>5 DEF DeliveryInv
    <3>2. ASSUME NEW n \in 1..Attempts, deliveries' = [deliveries EXCEPT ![disp.msg][c] = @ + n]
          PROVE  deliveries'[disp.msg][c] <= Unrecorded + Attempts
      <4>1. deliveries'[disp.msg][c] = deliveries[disp.msg][c] + n
        BY <1>1, <2>4, <3>2
      <4>2. QED
        BY <1>1, <2>4, <3>1, <4>1
    <3>3. UNCHANGED deliveries => deliveries'[disp.msg][c] <= Unrecorded + Attempts
      BY <1>1, <2>4, <3>1
    <3>4. QED
      BY <2>1, <3>2, <3>3
  <2>9. \A v \in Updates, d \in Channels :
          /\ deliveries'[v][d] <= Unrecorded + Attempts
          /\ <<v, d>> \notin dispatches /\ ~Owed(v, d)' => deliveries'[v][d] <= Unrecorded
    <3>1. ASSUME NEW v \in Updates, NEW d \in Channels, v # disp.msg \/ d # c
          PROVE  /\ deliveries'[v][d] <= Unrecorded + Attempts
                 /\ <<v, d>> \notin dispatches /\ ~Owed(v, d)' => deliveries'[v][d] <= Unrecorded
      BY <2>6, <2>7, <3>1 DEF DeliveryInv
    <3>2. ASSUME NEW v \in Updates, NEW d \in Channels, v = disp.msg, d = c
          PROVE  deliveries'[v][d] <= Unrecorded + Attempts /\ Owed(v, d)'
      BY <2>2, <2>3, <2>4, <2>8, <3>2 DEF Owed
    <3>3. QED
      BY <3>1, <3>2
  <2>10. QED
    BY <2>2, <2>3, <2>9 DEF DeliveryInv
<1>6. CASE DispMark
  <2>1. disp.pc = "mark" /\ disp.toSend = {} /\ UNCHANGED deliveries
    BY <1>6 DEF DispMark, DeliveryInv
  <2>2. ASSUME lapses' = lapses + 1, disp' = DispIdle, UNCHANGED dispatches
        PROVE  DeliveryInv'
    <3>1. \A u \in Updates, c \in Channels : deliveries'[u][c] <= Unrecorded'
      <4>1. \A u \in Updates, c \in Channels : deliveries'[u][c] <= Unrecorded + Attempts
        BY <2>1 DEF DeliveryInv
      <4>2. QED
        BY <1>1, <2>2, <4>1, UnrecordedGrows
    <3>2. Unrecorded' \in Nat
      BY <1>1, <2>2, UnrecordedGrows
    <3>3. QED
      BY <1>1, <2>1, <2>2, <3>1, <3>2 DEF DeliveryInv, DispIdle
  <2>3. ASSUME NEW c \in disp.toMark, MarkDispatched(disp.msg, c), UNCHANGED lapses,
               disp' = IF disp.toMark \ {c} = {} THEN DispIdle
                       ELSE [disp EXCEPT !.toMark = disp.toMark \ {c}]
        PROVE  DeliveryInv'
    <3>1. dispatches' = dispatches \cup {<<disp.msg, c>>}
      BY <2>3 DEF MarkDispatched
    <3>2. \/ disp.toMark = {c} /\ disp'.pc = "idle"
          \/ /\ disp'.pc = "mark" /\ disp'.msg = disp.msg
             /\ disp'.toMark = disp.toMark \ {c} /\ disp'.toSend = {}
      BY <2>1, <2>3 DEF DispIdle, TypeOK, DispTypeOK
    <3>3. \A u \in Updates, d \in Channels :
            Owed(u, d) => Owed(u, d)' \/ <<u, d>> \in dispatches'
      BY <2>1, <3>1, <3>2 DEF Owed
    <3>4. \A u \in Updates, d \in Channels :
            /\ deliveries'[u][d] <= Unrecorded' + Attempts
            /\ <<u, d>> \notin dispatches' /\ ~Owed(u, d)' => deliveries'[u][d] <= Unrecorded'
      BY <1>0, <2>1, <2>3, <3>1, <3>3 DEF DeliveryInv
    <3>5. disp'.pc \in {"send", "mark"} =>
            \A d \in disp'.toMark : <<disp'.msg, d>> \notin dispatches'
      BY <2>1, <3>1, <3>2 DEF DeliveryInv
    <3>6. QED
      BY <3>2, <3>4, <3>5 DEF DeliveryInv
  <2>4. QED
    BY <1>6, <2>2, <2>3 DEF DispMark, storageVars
<1>7. QED
  BY <1>3, <1>4, <1>5, <1>6 DEF DispStep

\* A restart turns what was owed into a lapse.
LEMMA RestartDeliveryInv ==
  ASSUME TypeOK, DeliveryInv, Restart
  PROVE  DeliveryInv'
<1>1. /\ lapses' = lapses + 1 /\ disp'.pc = "starting"
      /\ UNCHANGED <<deliveries, dispatches>>
  BY DEF Restart, DispIdle, storageVars
<1>2. \A u \in Updates, c \in Channels : deliveries'[u][c] <= Unrecorded + Attempts
  BY <1>1 DEF DeliveryInv
<1>3. /\ \A u \in Updates, c \in Channels : deliveries[u][c] \in Nat
      /\ Attempts \in Nat /\ Unrecorded' \in Nat /\ Unrecorded' = Unrecorded + Attempts
  BY <1>1, UnrecordedGrows DEF TypeOK, EnvironmentTypeOK
<1>4. \A u \in Updates, c \in Channels : deliveries'[u][c] <= Unrecorded'
  BY <1>1, <1>2, <1>3
<1>5. QED
  BY <1>1, <1>3, <1>4 DEF DeliveryInv

\* Every step keeps DeliveryInv.
LEMMA NextDeliveryInv ==
  ASSUME TypeOK, DeliveryInv, [Next]_vars
  PROVE  DeliveryInv'
<1>1. CASE SchedStep
  BY <1>1, OtherStepDeliveryInv
     DEF SchedStep, Tick, ReconcileUnclassified, ReconcileUndispatched, SchedPublish,
         ListFeeds, FetchFeed, EndTick, SaveHeaders, StoreEntries, SchedFrame,
         UpdateCacheHeaders, InsertNew, storageVars
<1>2. CASE WorkerStep
  BY <1>2, OtherStepDeliveryInv
     DEF WorkerStep, WorkerSubscribe, WorkerReceive, WorkerClassify, WorkerSave,
         WorkerPublish, WorkerFrame, SaveVerdict, storageVars
<1>3. CASE DispStep
  BY <1>3, DispStepDeliveryInv
<1>4. CASE Environment
  BY <1>4, OtherStepDeliveryInv, RestartDeliveryInv
     DEF Environment, ServerPublishes, Remap, storageVars
<1>5. CASE UNCHANGED vars
  BY <1>5, OtherStepDeliveryInv DEF vars, storageVars, pipelineVars
<1>6. QED
  BY <1>1, <1>2, <1>3, <1>4, <1>5 DEF Next

\* In every state the deliveries beyond what the lapses account for are on record
\* or about to be marked by the handler that made them.
THEOREM DeliveryInvariant == Spec => []DeliveryInv
BY InitDeliveryInv, NextDeliveryInv, TypeCorrect, PTL DEF Spec

\* A channel takes an update at most as often as one Send tries, and as often again
\* for each process death after Send and each failure of MarkDispatched, for any
\* number of messages, reconcile passes and edits of feed_channels.
THEOREM DeliveriesBounded == Spec => []DeliveryBound
<1>1. TypeOK /\ DeliveryInv => DeliveryBound
  BY UnrecordedGrows DEF TypeOK, EnvironmentTypeOK, DeliveryInv, DeliveryBound
<1>2. QED
  BY <1>1, TypeCorrect, DeliveryInvariant, PTL

-----------------------------------------------------------------------------
(***************************************************************************)
(* Records without a delivery.  A step makes one more at most, and only    *)
(* where it counts a failed call.                                          *)
(***************************************************************************)
\* The false records, and those the dispatcher is about to make.
FalseSoFar ==
  {d \in Updates \X Channels :
     /\ d[2] \in Notifiers /\ deliveries[d[1]][d[2]] = 0
     /\ d \in dispatches \/ Owed(d[1], d[2])}

\* No step but a failed Send adds to them.
NoneAdded == FalseSoFar' \subseteq FalseSoFar
OneAdded == faults' = faults + 1 /\ \E x : FalseSoFar' \subseteq FalseSoFar \cup {x}

\* A step that delivers, records and owes nothing new adds nothing.
LEMMA NothingOwedAddsNone ==
  ASSUME UNCHANGED deliveries, dispatches' \subseteq dispatches,
         \A u \in Updates, c \in Channels : Owed(u, c)' => Owed(u, c)
  PROVE  NoneAdded
BY DEF NoneAdded, FalseSoFar

\* Dispatch leaves a channel without its notification only when the Send fails.
LEMMA DispSendAdds ==
  ASSUME TypeOK, DeliveryInv, DispSend
  PROVE  NoneAdded \/ OneAdded
<1>1. PICK c \in disp.toSend :
        /\ disp' = [disp EXCEPT !.toSend = disp.toSend \ {c},
                                !.pc = IF disp.toSend \ {c} = {} THEN "mark" ELSE @]
        /\ \/ /\ c \in Notifiers
              /\ \E n \in 1..Attempts : deliveries' = [deliveries EXCEPT ![disp.msg][c] = @ + n]
           \/ c \in Notifiers /\ Fails /\ UNCHANGED deliveries
           \/ c \notin Notifiers /\ UNCHANGED deliveries
  BY DEF DispSend
<1>2. /\ disp.pc = "send" /\ disp.msg \in Updates /\ c \in Channels
      /\ UNCHANGED dispatches
      /\ deliveries \in [Updates -> [Channels -> Nat]]
  BY <1>1 DEF DispSend, storageVars, TypeOK, DispTypeOK, EnvironmentTypeOK
<1>3. disp'.msg = disp.msg /\ disp'.toMark = disp.toMark /\ disp'.toSend = disp.toSend \ {c}
  BY <1>1 DEF TypeOK, DispTypeOK
<1>4. \A u \in Updates, d \in Channels :
        Owed(u, d)' => Owed(u, d) \/ (u = disp.msg /\ d = c)
  BY <1>2, <1>3 DEF Owed
<1>5. \A u \in Updates, d \in Channels :
        u # disp.msg \/ d # c => deliveries'[u][d] = deliveries[u][d]
  BY <1>1, <1>2
<1>6. ASSUME NEW e \in FalseSoFar', e \notin FalseSoFar PROVE e = <<disp.msg, c>>
  BY <1>2, <1>4, <1>5, <1>6 DEF FalseSoFar
<1>7. CASE Fails
  <2>1. FalseSoFar' \subseteq FalseSoFar \cup {<<disp.msg, c>>}
    BY <1>6
  <2>2. faults' = faults + 1
    BY <1>7 DEF Fails
  <2>3. QED
    BY <2>1, <2>2 DEF OneAdded
<1>8. CASE \/ \E n \in 1..Attempts : deliveries' = [deliveries EXCEPT ![disp.msg][c] = @ + n]
           \/ c \notin Notifiers
  <2>1. <<disp.msg, c>> \notin FalseSoFar'
    <3>1. CASE c \notin Notifiers
      BY <3>1 DEF FalseSoFar
    <3>2. ASSUME NEW n \in 1..Attempts, deliveries' = [deliveries EXCEPT ![disp.msg][c] = @ + n]
          PROVE  <<disp.msg, c>> \notin FalseSoFar'
      <4>1. deliveries[disp.msg][c] \in Nat /\ deliveries'[disp.msg][c] = deliveries[disp.msg][c] + n
        BY <1>2, <3>2
      <4>2. deliveries'[disp.msg][c] # 0
        BY <4>1, PipelineAssumption
      <4>3. QED
        BY <4>2 DEF FalseSoFar
    <3>3. QED
      BY <1>8, <3>1, <3>2
  <2>2. QED
    BY <1>6, <2>1 DEF NoneAdded
<1>9. QED
  BY <1>1, <1>7, <1>8

\* The other steps of the dispatcher: what is recorded was owed.
LEMMA DispStepAdds ==
  ASSUME TypeOK, DeliveryInv, DispStep
  PROVE  NoneAdded \/ OneAdded
<1>1. CASE DispSubscribe
  <2>1. UNCHANGED <<deliveries, dispatches>> /\ disp'.pc = "idle"
    BY <1>1 DEF DispSubscribe, DispIdle, storageVars
  <2>2. QED
    BY <2>1, NothingOwedAddsNone DEF Owed
<1>2. CASE DispReceive
  <2>1. UNCHANGED <<deliveries, dispatches>>
    BY <1>2 DEF DispReceive, storageVars
  <2>2. disp' = disp \/ disp'.toMark \ disp'.toSend = {}
    BY <1>2 DEF DispReceive, TypeOK, DispTypeOK
  <2>3. QED
    BY <2>1, <2>2, NothingOwedAddsNone DEF Owed
<1>3. CASE DispSend
  BY <1>3, DispSendAdds
<1>4. CASE DispMark
  <2>1. disp.pc = "mark" /\ disp.toSend = {} /\ UNCHANGED deliveries
    BY <1>4 DEF DispMark, DeliveryInv
  <2>2. ASSUME disp' = DispIdle, UNCHANGED dispatches PROVE NoneAdded
    BY <2>1, <2>2, NothingOwedAddsNone DEF DispIdle, Owed
  <2>3. ASSUME NEW c \in disp.toMark, MarkDispatched(disp.msg, c),
               disp' = IF disp.toMark \ {c} = {} THEN DispIdle
                       ELSE [disp EXCEPT !.toMark = disp.toMark \ {c}]
        PROVE  NoneAdded
    <3>1. dispatches' = dispatches \cup {<<disp.msg, c>>}
      BY <2>3 DEF MarkDispatched
    <3>2. Owed(disp.msg, c)
      BY <2>1 DEF Owed
    <3>3. \A u \in Updates, d \in Channels : Owed(u, d)' => Owed(u, d)
      BY <2>1, <2>3 DEF Owed, DispIdle, TypeOK, DispTypeOK
    <3>4. QED
      BY <2>1, <3>1, <3>2, <3>3 DEF NoneAdded, FalseSoFar
  <2>4. QED
    BY <1>4, <2>2, <2>3 DEF DispMark, storageVars
<1>5. QED
  BY <1>1, <1>2, <1>3, <1>4 DEF DispStep

\* A step counts one failure at most.
LEMMA FaultsGrow == ASSUME TypeOK, [Next]_vars PROVE faults' = faults \/ faults' = faults + 1
<1>1. CASE SchedStep
  BY <1>1
     DEF SchedStep, Tick, ReconcileUnclassified, ReconcileUndispatched, SchedPublish,
         ListFeeds, FetchFeed, EndTick, SaveHeaders, StoreEntries, Fails
<1>2. CASE WorkerStep
  BY <1>2
     DEF WorkerStep, WorkerSubscribe, WorkerReceive, WorkerClassify, WorkerSave, WorkerPublish, Fails
<1>3. CASE DispStep
  BY <1>3 DEF DispStep, DispSubscribe, DispReceive, DispSend, DispMark, Fails
<1>4. CASE Environment \/ UNCHANGED vars
  BY <1>4 DEF Environment, ServerPublishes, Remap, Restart, vars, pipelineVars
<1>5. QED
  BY <1>1, <1>2, <1>3, <1>4 DEF Next

LEMMA NextAdds ==
  ASSUME TypeOK, DeliveryInv, [Next]_vars
  PROVE  NoneAdded \/ OneAdded
<1>1. ASSUME UNCHANGED <<disp, deliveries, dispatches>> PROVE NoneAdded
  BY <1>1, NothingOwedAddsNone DEF Owed
<1>2. CASE SchedStep
  BY <1>1, <1>2
     DEF SchedStep, Tick, ReconcileUnclassified, ReconcileUndispatched, SchedPublish,
         ListFeeds, FetchFeed, EndTick, SaveHeaders, StoreEntries, SchedFrame,
         UpdateCacheHeaders, InsertNew, storageVars
<1>3. CASE WorkerStep
  BY <1>1, <1>3
     DEF WorkerStep, WorkerSubscribe, WorkerReceive, WorkerClassify, WorkerSave,
         WorkerPublish, WorkerFrame, SaveVerdict, storageVars
<1>4. CASE DispStep
  BY <1>4, DispStepAdds
<1>5. CASE Environment
  <2>1. CASE Restart
    <3>1. UNCHANGED <<deliveries, dispatches>> /\ disp'.pc = "starting"
      BY <2>1 DEF Restart, DispIdle, storageVars
    <3>2. QED
      BY <3>1, NothingOwedAddsNone DEF Owed
  <2>2. QED
    BY <1>1, <1>5, <2>1 DEF Environment, ServerPublishes, Remap, storageVars
<1>6. CASE UNCHANGED vars
  BY <1>1, <1>6 DEF vars, storageVars, pipelineVars
<1>7. QED
  BY <1>2, <1>3, <1>4, <1>5, <1>6 DEF Next

FalseInv == Cardinality(FalseSoFar) <= faults

LEMMA FalseSoFarFinite ==
  /\ IsFiniteSet(FalseSoFar) /\ Cardinality(FalseSoFar) \in Nat
  /\ IsFiniteSet(FalseSoFar') /\ Cardinality(FalseSoFar') \in Nat
<1>1. IsFiniteSet(Updates \X Channels)
  BY StorageAssumption, FS_Product
<1>2. FalseSoFar \subseteq Updates \X Channels /\ FalseSoFar' \subseteq Updates \X Channels
  BY DEF FalseSoFar
<1>3. QED
  BY <1>1, <1>2, FS_Subset, FS_CardinalityType

LEMMA NextFalseInv ==
  ASSUME TypeOK, DeliveryInv, FalseInv, [Next]_vars
  PROVE  FalseInv'
<1>1. /\ faults \in Nat /\ Cardinality(FalseSoFar) <= faults
      /\ IsFiniteSet(FalseSoFar) /\ Cardinality(FalseSoFar) \in Nat
      /\ IsFiniteSet(FalseSoFar') /\ Cardinality(FalseSoFar') \in Nat
  BY FalseSoFarFinite DEF FalseInv, TypeOK, EnvironmentTypeOK
<1>2. CASE NoneAdded
  <2>1. Cardinality(FalseSoFar') <= Cardinality(FalseSoFar)
    BY <1>1, <1>2, FS_Subset DEF NoneAdded
  <2>2. faults' = faults \/ faults' = faults + 1
    BY FaultsGrow
  <2>3. QED
    BY <1>1, <2>1, <2>2 DEF FalseInv
<1>3. CASE OneAdded
  <2>1. PICK x : FalseSoFar' \subseteq FalseSoFar \cup {x}
    BY <1>3 DEF OneAdded
  <2>2. /\ IsFiniteSet(FalseSoFar \cup {x})
        /\ Cardinality(FalseSoFar \cup {x}) =
             IF x \in FalseSoFar THEN Cardinality(FalseSoFar) ELSE Cardinality(FalseSoFar) + 1
    BY <1>1, FS_AddElement
  <2>3. Cardinality(FalseSoFar') <= Cardinality(FalseSoFar \cup {x})
    BY <2>1, <2>2, FS_Subset
  <2>4. QED
    BY <1>1, <1>3, <2>2, <2>3 DEF OneAdded, FalseInv
<1>4. QED
  BY <1>2, <1>3, NextAdds

\* A record of a channel that has a notifier and got nothing was paid for by a
\* failed call each, for any number of updates, channels and failures: RunDispatcher
\* marks no channel that Dispatch did not come to.
THEOREM FalseRecordsArePaidFor == Spec => []FalseRecordsBound
<1>1. Init => FalseInv
  <2> SUFFICES ASSUME Init PROVE FalseInv
    OBVIOUS
  <2>1. FalseSoFar = {} /\ faults = 0
    BY DEF Init, DispIdle, FalseSoFar, Owed
  <2>2. QED
    BY <2>1, FS_EmptySet DEF FalseInv
<1>2. TypeOK /\ FalseInv => FalseRecordsBound
  <2> SUFFICES ASSUME TypeOK, FalseInv PROVE FalseRecordsBound
    OBVIOUS
  <2>1. FalseRecords \subseteq FalseSoFar
    BY DEF FalseRecords, FalseSoFar, TypeOK, StorageTypeOK
  <2>2. /\ IsFiniteSet(FalseSoFar) /\ Cardinality(FalseSoFar) \in Nat
    BY FalseSoFarFinite
  <2>3. IsFiniteSet(FalseRecords) /\ Cardinality(FalseRecords) <= Cardinality(FalseSoFar)
    BY <2>1, <2>2, FS_Subset
  <2>4. Cardinality(FalseRecords) \in Nat /\ faults \in Nat
    BY <2>3, FS_CardinalityType DEF TypeOK, EnvironmentTypeOK
  <2>5. QED
    BY <2>2, <2>3, <2>4 DEF FalseInv, FalseRecordsBound
<1>3. QED
  BY <1>1, <1>2, NextFalseInv, DeliveryInvariant, TypeCorrect, PTL DEF Spec

-----------------------------------------------------------------------------
(***************************************************************************)
(* Documents whose entries were not stored though their ETag was.  A step  *)
(* leaves one more behind at most, and only by a failure or a death.       *)
(***************************************************************************)
\* The feeds whose saved ETag is that of a document with entries that have no row
\* and are not about to get one.
UnsavedDocuments ==
  {f \in Feeds : /\ etag[f] # 0 /\ ~(Documents[f][etag[f]] \subseteq Stored)
                /\ ~(sched.pc = "insert" /\ sched.feed = f /\ sched.body = etag[f])}

\* ProcessFeed saves the ETag before the entries: a failed InsertNew or a death of
\* the process in between hides the entries of one feed until its document
\* changes, and nothing else does.
UnsavedDocumentsBound == Cardinality(UnsavedDocuments) <= faults + lapses

Costs == faults + lapses

NoneLeft == UnsavedDocuments' \subseteq UnsavedDocuments
OneLeft == Costs' = Costs + 1 /\ \E f : UnsavedDocuments' \subseteq UnsavedDocuments \cup {f}

\* Rows only come, and no ETag is written, outside ProcessFeed.
LEMMA OutsideProcessFeedLeavesNone ==
  ASSUME UNCHANGED <<owner, etag>>, sched.pc # "insert" \/ UNCHANGED sched
  PROVE  NoneLeft
BY DEF NoneLeft, UnsavedDocuments, Stored

\* SaveHeaders leaves the document to StoreEntries.
LEMMA SaveHeadersLeaves ==
  ASSUME TypeOK, SaveHeaders
  PROVE  NoneLeft
<1>1. /\ sched.pc = "saveHeaders" /\ sched'.pc = "insert"
      /\ sched'.feed = sched.feed /\ sched'.body = sched.body
      /\ sched.feed \in Feeds /\ etag \in [Feeds -> Nat]
  BY DEF SaveHeaders, TypeOK, SchedTypeOK, StorageTypeOK
<1>2. owner' = owner /\ (etag' = etag \/ etag' = [etag EXCEPT ![sched.feed] = sched.body])
  BY DEF SaveHeaders, UpdateCacheHeaders, storageVars
<1>3. \A f \in Feeds : f # sched.feed => etag'[f] = etag[f]
  BY <1>1, <1>2
<1>4. sched.feed \in UnsavedDocuments' => etag' = etag
  BY <1>1, <1>2 DEF UnsavedDocuments
<1>5. Stored' = Stored
  BY <1>2 DEF Stored
<1>6. QED
  BY <1>1, <1>3, <1>4, <1>5 DEF NoneLeft, UnsavedDocuments

\* StoreEntries stores them all, or fails.
LEMMA StoreEntriesLeaves ==
  ASSUME TypeOK, StoreEntries
  PROVE  NoneLeft \/ OneLeft
<1> DEFINE S == Documents[sched.feed][sched.body]
<1>1. /\ sched.pc = "insert" /\ sched.feed \in Feeds
      /\ S \subseteq Updates /\ owner \in [Updates -> Feeds \cup {NoFeed}]
  BY PipelineAssumption DEF StoreEntries, TypeOK, SchedTypeOK, StorageTypeOK
<1>2. lapses' = lapses
  BY DEF StoreEntries, SchedFrame
<1>3. CASE InsertNew(sched.feed, S)
  <2>1. /\ etag' = etag
        /\ owner' = [u \in Updates |-> IF u \in New(S) THEN sched.feed ELSE owner[u]]
    BY <1>3 DEF InsertNew
  <2>2. Stored \subseteq Stored'
    BY <1>1, <2>1, StorageAssumption DEF Stored
  <2>3. S \subseteq Stored'
    BY <1>1, <2>1, StorageAssumption DEF Stored, New
  <2>4. QED
    BY <2>1, <2>2, <2>3 DEF NoneLeft, UnsavedDocuments
<1>4. CASE Fails /\ UNCHANGED storageVars
  <2>1. etag' = etag /\ Stored' = Stored
    BY <1>4 DEF storageVars, Stored
  <2>2. UnsavedDocuments' \subseteq UnsavedDocuments \cup {sched.feed}
    BY <1>1, <2>1 DEF UnsavedDocuments
  <2>3. Costs' = Costs + 1
    BY <1>2, <1>4 DEF Fails, Costs, TypeOK, EnvironmentTypeOK
  <2>4. QED
    BY <2>2, <2>3 DEF OneLeft
<1>5. QED
  BY <1>3, <1>4 DEF StoreEntries

LEMMA NextLeaves ==
  ASSUME TypeOK, [Next]_vars
  PROVE  NoneLeft \/ OneLeft
<1>1. CASE Tick \/ ReconcileUnclassified \/ ReconcileUndispatched \/ SchedPublish
           \/ ListFeeds \/ FetchFeed \/ EndTick
  <2>1. UNCHANGED <<owner, etag>> /\ sched.pc # "insert"
    BY <1>1 DEF Tick, ReconcileUnclassified, ReconcileUndispatched, SchedPublish,
                ListFeeds, FetchFeed, EndTick, storageVars
  <2>2. QED
    BY <2>1, OutsideProcessFeedLeavesNone
<1>2. CASE SchedStep
  BY <1>1, <1>2, SaveHeadersLeaves, StoreEntriesLeaves DEF SchedStep
<1>3. CASE WorkerStep
  BY <1>3, OutsideProcessFeedLeavesNone
     DEF WorkerStep, WorkerSubscribe, WorkerReceive, WorkerClassify, WorkerSave,
         WorkerPublish, WorkerFrame, SaveVerdict, storageVars
<1>4. CASE DispStep
  BY <1>4, OutsideProcessFeedLeavesNone
     DEF DispStep, DispSubscribe, DispReceive, DispSend, DispMark, DispFrame,
         MarkDispatched, storageVars
<1>5. CASE Restart
  <2>1. etag' = etag /\ Stored' = Stored /\ Costs' = Costs + 1
    BY <1>5 DEF Restart, storageVars, Stored, Costs, TypeOK, EnvironmentTypeOK
  <2>2. UnsavedDocuments' \subseteq UnsavedDocuments \cup {sched.feed}
    BY <2>1 DEF UnsavedDocuments
  <2>3. QED
    BY <2>1, <2>2 DEF OneLeft
<1>6. CASE Environment
  BY <1>5, <1>6, OutsideProcessFeedLeavesNone DEF Environment, ServerPublishes, Remap, storageVars
<1>7. CASE UNCHANGED vars
  BY <1>7, OutsideProcessFeedLeavesNone DEF vars, storageVars, pipelineVars
<1>8. QED
  BY <1>2, <1>3, <1>4, <1>6, <1>7 DEF Next

\* What is counted only grows.
LEMMA CostsGrow == ASSUME TypeOK, [Next]_vars PROVE Costs' \in Nat /\ Costs <= Costs'
<1>1. lapses \in Nat /\ faults \in Nat
  BY DEF TypeOK, EnvironmentTypeOK
<1>2. lapses' = lapses \/ lapses' = lapses + 1
  <2>1. CASE SchedStep
    BY <2>1
       DEF SchedStep, Tick, ReconcileUnclassified, ReconcileUndispatched, SchedPublish,
           ListFeeds, FetchFeed, EndTick, SaveHeaders, StoreEntries, SchedFrame
  <2>2. CASE WorkerStep
    BY <2>2
       DEF WorkerStep, WorkerSubscribe, WorkerReceive, WorkerClassify, WorkerSave,
           WorkerPublish, WorkerFrame
  <2>3. CASE DispStep
    BY <2>3 DEF DispStep, DispSubscribe, DispReceive, DispSend, DispMark
  <2>4. CASE Environment \/ UNCHANGED vars
    BY <2>4 DEF Environment, ServerPublishes, Remap, Restart, vars, pipelineVars
  <2>5. QED
    BY <2>1, <2>2, <2>3, <2>4 DEF Next
<1>3. QED
  BY <1>1, <1>2, FaultsGrow DEF Costs

UnsavedInv == IsFiniteSet(UnsavedDocuments) /\ Cardinality(UnsavedDocuments) <= Costs

LEMMA NextUnsavedInv ==
  ASSUME TypeOK, UnsavedInv, [Next]_vars
  PROVE  UnsavedInv'
<1>1. /\ IsFiniteSet(UnsavedDocuments) /\ Cardinality(UnsavedDocuments) \in Nat
      /\ Cardinality(UnsavedDocuments) <= Costs
      /\ Costs \in Nat /\ Costs' \in Nat /\ Costs <= Costs'
  BY FS_CardinalityType, CostsGrow DEF UnsavedInv, Costs, TypeOK, EnvironmentTypeOK
<1>2. CASE NoneLeft
  <2>1. /\ IsFiniteSet(UnsavedDocuments') /\ Cardinality(UnsavedDocuments') \in Nat
        /\ Cardinality(UnsavedDocuments') <= Cardinality(UnsavedDocuments)
    BY <1>1, <1>2, FS_Subset, FS_CardinalityType DEF NoneLeft
  <2>2. QED
    BY <1>1, <2>1 DEF UnsavedInv
<1>3. CASE OneLeft
  <2>1. PICK f : UnsavedDocuments' \subseteq UnsavedDocuments \cup {f}
    BY <1>3 DEF OneLeft
  <2>2. /\ IsFiniteSet(UnsavedDocuments \cup {f})
        /\ Cardinality(UnsavedDocuments \cup {f}) =
             IF f \in UnsavedDocuments THEN Cardinality(UnsavedDocuments)
             ELSE Cardinality(UnsavedDocuments) + 1
    BY <1>1, FS_AddElement
  <2>3. /\ IsFiniteSet(UnsavedDocuments') /\ Cardinality(UnsavedDocuments') \in Nat
        /\ Cardinality(UnsavedDocuments') <= Cardinality(UnsavedDocuments \cup {f})
    BY <2>1, <2>2, FS_Subset, FS_CardinalityType
  <2>4. Costs' = Costs + 1
    BY <1>3 DEF OneLeft
  <2>5. QED
    BY <1>1, <2>2, <2>3, <2>4 DEF UnsavedInv
<1>4. QED
  BY <1>2, <1>3, NextLeaves

\* Of the documents whose ETag is saved, as many as there were failed calls and
\* deaths of the process may have entries that nobody stored: the order of the two
\* writes in ProcessFeed loses nothing by itself, for any feeds and documents.
THEOREM UnsavedArePaidFor == Spec => []UnsavedDocumentsBound
<1>1. Init => UnsavedInv
  <2> SUFFICES ASSUME Init PROVE UnsavedInv
    OBVIOUS
  <2>1. UnsavedDocuments = {} /\ Costs = 0
    BY DEF Init, UnsavedDocuments, Costs
  <2>2. QED
    BY <2>1, FS_EmptySet DEF UnsavedInv
<1>2. UnsavedInv => UnsavedDocumentsBound
  BY DEF UnsavedInv, UnsavedDocumentsBound, Costs
<1>3. QED
  BY <1>1, <1>2, NextUnsavedInv, TypeCorrect, PTL DEF Spec

-----------------------------------------------------------------------------
(***************************************************************************)
(* Refinement.  The detailed state holds the abstract one, so the mapping  *)
(* is the identity on five variables; the work is in the guards of the     *)
(* abstract actions, which the invariants above establish.                 *)
(***************************************************************************)
\* InsertNew discovers the entries that have no row.
LEMMA StoreEntriesRefines ==
  ASSUME TypeOK, StoreEntries
  PROVE  \/ \E f \in Feeds, S \in SUBSET Updates : Lifecycle!Discover(f, S)
         \/ UNCHANGED Lifecycle!lifecycleVars
<1> DEFINE f == sched.feed
           S == New(Documents[f][sched.body])
<1>1. f \in Feeds /\ S \in SUBSET Updates
  BY PipelineAssumption DEF StoreEntries, New, TypeOK, SchedTypeOK
<1>2. UNCHANGED <<verdict, judged, deliveries, dispatches>>
  BY DEF StoreEntries, InsertNew, SchedFrame, storageVars
<1>3. CASE InsertNew(f, Documents[f][sched.body])
  <2>1. \A u \in S : owner[u] = NoFeed
    BY DEF New
  <2>2. owner' = [u \in Updates |-> IF u \in S THEN f ELSE owner[u]]
    BY <1>3 DEF InsertNew
  <2>3. Lifecycle!Discover(f, S)
    BY <1>2, <2>1, <2>2 DEF Lifecycle!Discover
  <2>4. QED
    BY <1>1, <2>3
<1>4. CASE UNCHANGED storageVars
  BY <1>2, <1>4 DEF storageVars, Lifecycle!lifecycleVars
<1>5. QED
  BY <1>3, <1>4 DEF StoreEntries

\* SaveVerdict judges a stored entry.
LEMMA WorkerSaveRefines ==
  ASSUME TypeOK, Provenance, WorkerSave
  PROVE  \/ \E u \in Updates, v \in {"important", "noise"} : Lifecycle!Judge(u, v)
         \/ UNCHANGED Lifecycle!lifecycleVars
<1> DEFINE u == worker.msg
           v == worker.verdict
<1>1. u \in Updates /\ v \in {"important", "noise"} /\ worker.pc = "save"
  BY DEF WorkerSave, TypeOK, WorkerTypeOK, Verdicts
<1>2. owner[u] # NoFeed
  BY <1>1 DEF Provenance, AwaitingVerdict, Stored
<1>3. UNCHANGED <<owner, deliveries, dispatches>>
  BY DEF WorkerSave, SaveVerdict, WorkerFrame, storageVars
<1>4. CASE /\ SaveVerdict(u, v)
           /\ judged' = IF v = "important" THEN judged \cup {u} ELSE judged
  <2>1. Lifecycle!Judge(u, v)
    BY <1>2, <1>3, <1>4 DEF SaveVerdict, Lifecycle!Judge
  <2>2. QED
    BY <1>1, <2>1
<1>5. CASE UNCHANGED <<storageVars, judged>>
  BY <1>3, <1>5 DEF storageVars, Lifecycle!lifecycleVars
<1>6. QED
  BY <1>4, <1>5 DEF WorkerSave

\* Dispatch delivers what some verdict called important, to channels that have no
\* row for it.
LEMMA DispSendRefines ==
  ASSUME TypeOK, Provenance, DeliveryInv, DispSend
  PROVE  \/ \E u \in Updates, c \in Channels : Lifecycle!Deliver(u, c)
         \/ UNCHANGED Lifecycle!lifecycleVars
<1>1. PICK c \in disp.toSend :
        \/ \E n \in 1..Attempts : deliveries' = [deliveries EXCEPT ![disp.msg][c] = @ + n]
        \/ UNCHANGED deliveries
  BY DEF DispSend
<1>2. disp.msg \in Updates /\ c \in Channels /\ disp.pc = "send"
  BY DEF DispSend, TypeOK, DispTypeOK
<1>3. disp.msg \in judged
  BY <1>2 DEF Provenance, AnnouncedImportant
<1>4. <<disp.msg, c>> \notin dispatches
  BY <1>2 DEF DeliveryInv
<1>5. UNCHANGED <<owner, verdict, judged, dispatches>>
  BY DEF DispSend, DispFrame, storageVars
<1>6. CASE UNCHANGED deliveries
  BY <1>5, <1>6 DEF Lifecycle!lifecycleVars
<1>7. CASE \E n \in 1..Attempts : deliveries' = [deliveries EXCEPT ![disp.msg][c] = @ + n]
  <2>1. Lifecycle!Deliver(disp.msg, c)
    BY <1>3, <1>4, <1>5, <1>7 DEF Lifecycle!Deliver
  <2>2. QED
    BY <1>2, <2>1
<1>8. QED
  BY <1>1, <1>6, <1>7

\* MarkDispatched records a delivery of what some verdict called important.
LEMMA DispMarkRefines ==
  ASSUME TypeOK, Provenance, DispMark
  PROVE  \/ \E u \in Updates, c \in Channels : Lifecycle!Record(u, c)
         \/ UNCHANGED Lifecycle!lifecycleVars
<1>1. disp.msg \in Updates /\ disp.toMark \subseteq Channels /\ disp.msg \in judged
  BY DEF DispMark, TypeOK, DispTypeOK, Provenance, AnnouncedImportant
<1>2. UNCHANGED <<owner, verdict, judged, deliveries>>
  BY DEF DispMark, MarkDispatched, DispFrame, storageVars
<1>3. ASSUME NEW c \in disp.toMark, MarkDispatched(disp.msg, c)
      PROVE  Lifecycle!Record(disp.msg, c)
  BY <1>1, <1>2, <1>3 DEF MarkDispatched, Lifecycle!Record
<1>4. CASE UNCHANGED storageVars
  BY <1>2, <1>4 DEF storageVars, Lifecycle!lifecycleVars
<1>5. QED
  BY <1>1, <1>3, <1>4 DEF DispMark

\* Every step of the pipeline is a step of UpdateLifecycle or leaves it alone.
LEMMA StepRefines ==
  ASSUME TypeOK, Provenance, DeliveryInv, [Next]_vars
  PROVE  [Lifecycle!LifecycleNext]_Lifecycle!lifecycleVars
<1>1. ASSUME UNCHANGED <<owner, verdict, judged, deliveries, dispatches>>
      PROVE  UNCHANGED Lifecycle!lifecycleVars
  BY <1>1 DEF Lifecycle!lifecycleVars
<1>2. CASE SchedStep
  <2>1. CASE StoreEntries
    BY <2>1, StoreEntriesRefines DEF Lifecycle!LifecycleNext
  <2>2. CASE ~StoreEntries
    BY <1>1, <1>2, <2>2
       DEF SchedStep, Tick, ReconcileUnclassified, ReconcileUndispatched, SchedPublish,
           ListFeeds, FetchFeed, EndTick, SaveHeaders, SchedFrame, UpdateCacheHeaders,
           storageVars
  <2>3. QED
    BY <2>1, <2>2
<1>3. CASE WorkerStep
  <2>1. CASE WorkerSave
    BY <2>1, WorkerSaveRefines DEF Lifecycle!LifecycleNext
  <2>2. CASE ~WorkerSave
    BY <1>1, <1>3, <2>2
       DEF WorkerStep, WorkerSubscribe, WorkerReceive, WorkerClassify, WorkerPublish,
           WorkerFrame, storageVars
  <2>3. QED
    BY <2>1, <2>2
<1>4. CASE DispStep
  <2>1. CASE DispSend
    BY <2>1, DispSendRefines DEF Lifecycle!LifecycleNext
  <2>2. CASE DispMark
    BY <2>2, DispMarkRefines DEF Lifecycle!LifecycleNext
  <2>3. CASE DispSubscribe \/ DispReceive
    BY <1>1, <2>3 DEF DispSubscribe, DispReceive, DispFrame, storageVars
  <2>4. QED
    BY <1>4, <2>1, <2>2, <2>3 DEF DispStep
<1>5. CASE Environment
  BY <1>1, <1>5 DEF Environment, ServerPublishes, Remap, Restart, storageVars
<1>6. CASE UNCHANGED vars
  BY <1>1, <1>6 DEF vars, storageVars, pipelineVars
<1>7. QED
  BY <1>2, <1>3, <1>4, <1>5, <1>6 DEF Next

\* The three goroutines over the database and the bus keep the promises of
\* UpdateLifecycle: one owner for each entry, no verdict before it is stored, no
\* delivery and no record of one without a verdict that called it important,
\* no delivery to a channel that has it on record, no record lost.
THEOREM PipelineImplementsLifecycle == Spec => ImplementsLifecycle
<1>1. Init => Lifecycle!LifecycleInit
  BY DEF Init, Lifecycle!LifecycleInit
<1>2. QED
  BY <1>1, StepRefines, TypeCorrect, ProvenanceInvariant, DeliveryInvariant, PTL
     DEF Spec, ImplementsLifecycle, Lifecycle!LifecycleSpec

-----------------------------------------------------------------------------
(***************************************************************************)
(* What follows from the abstract specification alone, and is carried over *)
(* to the pipeline by the refinement.                                      *)
(***************************************************************************)
\* The invariant of UpdateLifecycle behind OnlyImportantDelivered.
LifecycleInv ==
  /\ owner \in [Updates -> Feeds \cup {NoFeed}]
  /\ verdict \in [Updates -> Verdicts \cup {"null"}]
  /\ deliveries \in [Updates -> [Channels -> Nat]]
  /\ \A u \in judged : u \in Updates => owner[u] # NoFeed /\ verdict[u] # "null"
  /\ \A u \in Updates, c \in Channels : deliveries[u][c] > 0 \/ <<u, c>> \in dispatches => u \in judged

LEMMA LifecycleStep ==
  ASSUME LifecycleInv, [Lifecycle!LifecycleNext]_(Lifecycle!lifecycleVars)
  PROVE  LifecycleInv'
<1> USE DEF Verdicts
<1>1. ASSUME NEW f \in Feeds, NEW S \in SUBSET Updates, Lifecycle!Discover(f, S) PROVE LifecycleInv'
  <2>1. /\ owner' = [u \in Updates |-> IF u \in S THEN f ELSE owner[u]]
        /\ UNCHANGED <<verdict, judged, deliveries, dispatches>>
    BY <1>1 DEF Lifecycle!Discover
  <2>2. f # NoFeed
    BY StorageAssumption
  <2>3. \A u \in Updates : owner[u] # NoFeed => owner'[u] # NoFeed
    BY <2>1, <2>2
  <2>4. QED
    BY <2>1, <2>3 DEF LifecycleInv
<1>2. ASSUME NEW u \in Updates, NEW v \in {"important", "noise"}, Lifecycle!Judge(u, v) PROVE LifecycleInv'
  <2>1. /\ owner[u] # NoFeed /\ verdict' = [verdict EXCEPT ![u] = v]
        /\ judged' = IF v = "important" THEN judged \cup {u} ELSE judged
        /\ UNCHANGED <<owner, deliveries, dispatches>>
    BY <1>2 DEF Lifecycle!Judge
  <2>2. \A w \in judged' : w \in Updates => owner[w] # NoFeed /\ verdict'[w] # "null"
    BY <2>1 DEF LifecycleInv
  <2>3. QED
    BY <2>1, <2>2 DEF LifecycleInv
<1>3. ASSUME NEW u \in Updates, NEW c \in Channels, Lifecycle!Deliver(u, c) PROVE LifecycleInv'
  <2>1. /\ u \in judged
        /\ \E n \in 1..Attempts : deliveries' = [deliveries EXCEPT ![u][c] = @ + n]
        /\ UNCHANGED <<owner, verdict, judged, dispatches>>
    BY <1>3 DEF Lifecycle!Deliver
  <2>2. deliveries' \in [Updates -> [Channels -> Nat]]
    BY <2>1 DEF LifecycleInv
  <2>3. \A w \in Updates, d \in Channels : w # u => deliveries'[w][d] = deliveries[w][d]
    BY <2>1 DEF LifecycleInv
  <2>4. QED
    BY <2>1, <2>2, <2>3 DEF LifecycleInv
<1>4. ASSUME NEW u \in Updates, NEW c \in Channels, Lifecycle!Record(u, c) PROVE LifecycleInv'
  BY <1>4 DEF LifecycleInv, Lifecycle!Record
<1>5. CASE UNCHANGED Lifecycle!lifecycleVars
  BY <1>5 DEF LifecycleInv, Lifecycle!lifecycleVars
<1>6. QED
  BY <1>1, <1>2, <1>3, <1>4, <1>5 DEF Lifecycle!LifecycleNext

\* Channels get, and have on record, only updates that are stored and were called
\* important by some verdict, however messages are repeated, delayed and lost and
\* wherever the process dies; the last verdict may be another one (RunDispatcher,
\* which does not look at it).
THEOREM OnlyImportantIsDelivered == Spec => []Lifecycle!OnlyImportantDelivered
<1>1. Lifecycle!LifecycleInit => LifecycleInv
  BY DEF Lifecycle!LifecycleInit, LifecycleInv
<1>2. LifecycleInv => Lifecycle!OnlyImportantDelivered
  BY DEF LifecycleInv, Lifecycle!OnlyImportantDelivered
<1>3. Lifecycle!LifecycleSpec => []Lifecycle!OnlyImportantDelivered
  BY <1>1, <1>2, LifecycleStep, PTL DEF Lifecycle!LifecycleSpec
<1>4. QED
  BY <1>3, PipelineImplementsLifecycle DEF ImplementsLifecycle

-----------------------------------------------------------------------------
(***************************************************************************)
(* The reconcile query.                                                    *)
(***************************************************************************)
\* Counting rows is as good as comparing them while every dispatch row is for a
\* mapped channel.
LEMMA CountsCompare ==
  ASSUME NEW u \in Updates, DispatchedTo(u) \subseteq ChannelsFor(owner[u]),
         NEW c \in ChannelsFor(owner[u]), c \notin DispatchedTo(u)
  PROVE  Cardinality(ChannelsFor(owner[u])) > Cardinality(DispatchedTo(u))
<1> DEFINE M == ChannelsFor(owner[u])
           D == DispatchedTo(u)
<1>1. IsFiniteSet(M)
  BY StorageAssumption, FS_Subset DEF ChannelsFor
<1>2. /\ IsFiniteSet(D) /\ Cardinality(D) <= Cardinality(M)
      /\ Cardinality(D) = Cardinality(M) => M = D
  BY <1>1, FS_Subset
<1>3. Cardinality(M) \in Nat /\ Cardinality(D) \in Nat
  BY <1>1, <1>2, FS_CardinalityType
<1>4. M # D
  OBVIOUS
<1>5. QED
  BY <1>2, <1>3, <1>4

\* Until an edit, what is marked or about to be marked is mapped.
MappedInv ==
  remaps = 0 =>
    /\ \A u \in Updates, c \in Channels :
         <<u, c>> \in dispatches => u \in judged /\ <<owner[u], c>> \in feedChannels
    /\ disp.pc \in {"send", "mark"} =>
         \A c \in disp.toMark : <<owner[disp.msg], c>> \in feedChannels

\* At the start there is no dispatch row.
LEMMA InitMappedInv == Init => MappedInv
BY DEF Init, DispIdle, MappedInv

\* A step that leaves the dispatcher, its table and feed_channels alone and
\* does not move a stored entry to another feed.
LEMMA OtherStepMappedInv ==
  ASSUME TypeOK, Provenance, MappedInv,
         UNCHANGED <<disp, dispatches, feedChannels, remaps>>,
         judged \subseteq judged', \A u \in Stored : owner'[u] = owner[u]
  PROVE  MappedInv'
<1>1. disp.pc \in {"send", "mark"} => disp.msg \in judged
  BY DEF Provenance, AnnouncedImportant, TypeOK, DispTypeOK
<1>2. \A u \in judged : owner'[u] = owner[u]
  BY DEF Provenance
<1>3. QED
  BY <1>1, <1>2 DEF MappedInv

\* Every step other than an edit of feed_channels keeps dispatch rows mapped.
LEMMA NextMappedInv ==
  ASSUME TypeOK, Provenance, MappedInv, [Next]_vars
  PROVE  MappedInv'
<1>1. CASE SchedStep
  <2>1. UNCHANGED <<disp, judged, dispatches, feedChannels, remaps>>
    BY <1>1
       DEF SchedStep, Tick, ReconcileUnclassified, ReconcileUndispatched, SchedPublish,
           ListFeeds, FetchFeed, EndTick, SaveHeaders, StoreEntries, SchedFrame,
           UpdateCacheHeaders, InsertNew, storageVars
  <2>2. \A u \in Stored : owner'[u] = owner[u]
    BY <1>1
       DEF SchedStep, Tick, ReconcileUnclassified, ReconcileUndispatched, SchedPublish,
           ListFeeds, FetchFeed, EndTick, SaveHeaders, StoreEntries, SchedFrame,
           UpdateCacheHeaders, InsertNew, New, Stored, storageVars
  <2>3. QED
    BY <2>1, <2>2, OtherStepMappedInv
<1>2. CASE WorkerStep
  <2>1. /\ UNCHANGED <<disp, owner, dispatches, feedChannels, remaps>>
        /\ judged \subseteq judged'
    BY <1>2
       DEF WorkerStep, WorkerSubscribe, WorkerReceive, WorkerClassify, WorkerSave,
           WorkerPublish, WorkerFrame, SaveVerdict, storageVars
  <2>2. QED
    BY <2>1, OtherStepMappedInv
<1>3. CASE DispStep
  <2>1. UNCHANGED <<owner, judged, feedChannels, remaps>>
    BY <1>3
       DEF DispStep, DispSubscribe, DispReceive, DispSend, DispMark, DispFrame,
           MarkDispatched, storageVars
  <2>2. CASE DispSubscribe
    BY <2>1, <2>2 DEF DispSubscribe, DispIdle, storageVars, MappedInv
  <2>3. CASE DispReceive
    <3> DEFINE u == Head(mailbox["dispatcher"])
    <3>1. \/ disp' = disp
          \/ disp'.msg = u /\ disp'.toMark = PendingChannels(u)
      BY <2>3 DEF DispReceive, TypeOK, DispTypeOK
    <3>2. \A c \in PendingChannels(u) : <<owner[u], c>> \in feedChannels
      BY DEF PendingChannels, ChannelsFor
    <3>3. UNCHANGED dispatches
      BY <2>3 DEF DispReceive, storageVars
    <3>4. QED
      BY <2>1, <3>1, <3>2, <3>3 DEF MappedInv
  <2>4. CASE DispSend
    <3>1. disp.pc = "send" /\ disp'.msg = disp.msg /\ disp'.toMark = disp.toMark
      BY <2>4 DEF DispSend, TypeOK, DispTypeOK
    <3>2. UNCHANGED dispatches
      BY <2>4 DEF DispSend, storageVars
    <3>3. QED
      BY <2>1, <3>1, <3>2 DEF MappedInv
  <2>5. CASE DispMark
    <3>1. disp.pc = "mark" /\ disp.msg \in Updates /\ disp.msg \in judged
      BY <2>5 DEF DispMark, TypeOK, DispTypeOK, Provenance, AnnouncedImportant
    <3>2. \/ UNCHANGED dispatches
          \/ \E c \in disp.toMark : dispatches' = dispatches \cup {<<disp.msg, c>>}
      BY <2>5 DEF DispMark, MarkDispatched, storageVars
    <3>3. \/ disp'.pc = "idle"
          \/ disp'.msg = disp.msg /\ disp'.toMark \subseteq disp.toMark
      BY <2>5 DEF DispMark, DispIdle, TypeOK, DispTypeOK
    <3>4. QED
      BY <2>1, <3>1, <3>2, <3>3 DEF MappedInv
  <2>6. QED
    BY <1>3, <2>2, <2>3, <2>4, <2>5 DEF DispStep
<1>4. CASE Environment
  <2>1. ASSUME NEW f \in Feeds, ServerPublishes(f)
        PROVE  MappedInv'
    BY <2>1 DEF ServerPublishes, storageVars, MappedInv
  <2>2. ASSUME NEW f \in Feeds, NEW c \in Channels, Remap(f, c)
        PROVE  MappedInv'
    BY <2>2 DEF Remap, MappedInv, TypeOK, EnvironmentTypeOK
  <2>3. CASE Restart
    BY <2>3 DEF Restart, DispIdle, storageVars, MappedInv
  <2>4. QED
    BY <1>4, <2>1, <2>2, <2>3 DEF Environment
<1>5. CASE UNCHANGED vars
  BY <1>5 DEF vars, storageVars, pipelineVars, MappedInv
<1>6. QED
  BY <1>1, <1>2, <1>3, <1>4, <1>5 DEF Next

\* As long as nobody edits feed_channels, ListUndispatchedImportant looks for
\* every important update that a mapped channel has no record of, although it
\* compares only the numbers of rows.
THEOREM CountsMissNothing == Spec => []UndeliveredIsSelectedUnlessRemapped
<1>1. ASSUME MappedInv
      PROVE  UndeliveredIsSelectedUnlessRemapped
  <2> SUFFICES ASSUME remaps = 0, NEW u \in Stored, verdict[u] = "important",
                      NEW c \in PendingChannels(u)
               PROVE  u \in UndispatchedImportant
    BY DEF UndeliveredIsSelectedUnlessRemapped
  <2>1. u \in Updates
    BY DEF Stored
  <2>2. DispatchedTo(u) \subseteq ChannelsFor(owner[u])
    BY <1>1, <2>1 DEF MappedInv, DispatchedTo, ChannelsFor
  <2>3. c \in ChannelsFor(owner[u]) /\ c \notin DispatchedTo(u)
    BY DEF PendingChannels, IsDispatched, DispatchedTo
  <2>4. Cardinality(ChannelsFor(owner[u])) > Cardinality(DispatchedTo(u))
    BY <2>1, <2>2, <2>3, CountsCompare
  <2>5. QED
    BY <2>4 DEF UndispatchedImportant
<1>2. Spec => []MappedInv
  BY InitMappedInv, NextMappedInv, TypeCorrect, ProvenanceInvariant, PTL DEF Spec
<1>3. QED
  BY <1>1, <1>2, PTL

=============================================================================
