------------------------------ MODULE Pipeline ------------------------------
(***************************************************************************)
(* The monolith of cmd/gruh/main.go: three goroutines that share the       *)
(* database and the in-memory bus.                                         *)
(*                                                                         *)
(*   sched   scheduler.Start: ReconcilePending, then ProcessFeed for each  *)
(*           active feed, then a pause                                     *)
(*   worker  the handler of orchestrator.RunWorker                         *)
(*   disp    the handler of orchestrator.RunDispatcher                     *)
(*                                                                         *)
(* The process may die at any step (a signal, a kill, a panic elsewhere):  *)
(* the tables survive, everything else starts anew.  Calls fail where the  *)
(* code handles an error.  Feed servers, the notification channels and     *)
(* the operator who edits feed_channels are the environment.               *)
(***************************************************************************)
EXTENDS Storage, MemoryBus

CONSTANTS
  Documents,       \* for each feed the documents its server serves in turn,
                   \* each the set of the entries in it
  InitialChannels, \* feed_channels as seeded
  Notifiers,       \* channels the configuration declares a notifier for
  Attempts,        \* tries of one Send (3 in the code)
  Unclassifiable,  \* entries the LLM service answers with an error every time
  NoUpdate,        \* message of a goroutine that handles none
  MaxFaults,       \* bound: failed calls other than MarkDispatched
  MaxLapses,       \* bound: process deaths and failed MarkDispatched calls
  MaxRemaps        \* bound: edits of feed_channels

VARIABLES
  sched, worker, disp, \* the goroutines: a program counter and locals
  version,             \* for each feed the document its server has now
  deliveries,          \* notifications received, by update and channel
  judged,              \* history: updates some saved verdict called important
  faults, lapses, remaps

pipelineVars == <<sched, worker, disp, version, deliveries, judged, faults, lapses, remaps>>
vars == <<storageVars, busVars, pipelineVars>>

TopicUpdatesNew == "updates.new"
TopicUpdatesImportant == "updates.important"

ASSUME PipelineAssumption ==
  /\ Topics = {TopicUpdatesNew, TopicUpdatesImportant}
  /\ Consumers = {"classificator", "dispatcher"}
  /\ Messages = Updates
  /\ Documents \in [Feeds -> Seq(SUBSET Updates)]
  /\ \A f \in Feeds : Documents[f] # << >>
  /\ InitialChannels \subseteq Feeds \X Channels
  /\ Notifiers \subseteq Channels
  /\ Attempts \in Nat \ {0}
  /\ Unclassifiable \subseteq Updates
  /\ NoUpdate \notin Updates
  /\ MaxFaults \in Nat /\ MaxLapses \in Nat /\ MaxRemaps \in Nat

SchedStart == [pc |-> "listPending", todo |-> {}, feeds |-> {}, feed |-> NoFeed, body |-> 0]
WorkerIdle == [pc |-> "idle", msg |-> NoUpdate, history |-> {}, verdict |-> "null"]
DispIdle == [pc |-> "idle", msg |-> NoUpdate, verdict |-> "null", toSend |-> {}, toMark |-> {}]

Init ==
  /\ owner = [u \in Updates |-> NoFeed]
  /\ verdict = [u \in Updates |-> "null"]
  /\ dispatches = {}
  /\ feedChannels = InitialChannels
  /\ etag = [f \in Feeds |-> 0]
  /\ BusInit
  /\ sched = SchedStart
  /\ worker = [WorkerIdle EXCEPT !.pc = "starting"]
  /\ disp = [DispIdle EXCEPT !.pc = "starting"]
  /\ version = [f \in Feeds |-> 1]
  /\ deliveries = [u \in Updates |-> [c \in Channels |-> 0]]
  /\ judged = {}
  /\ faults = 0
  /\ lapses = 0
  /\ remaps = 0

\* A call returns an error.
Fails == faults < MaxFaults /\ faults' = faults + 1

-----------------------------------------------------------------------------
(***************************************************************************)
(* The scheduler goroutine.                                                *)
(***************************************************************************)
SchedFrame ==
  UNCHANGED <<worker, disp, version, deliveries, judged, lapses, remaps>>

\* time.After fires and the task runs again.
Tick ==
  /\ sched.pc = "waiting"
  /\ sched' = SchedStart
  /\ UNCHANGED <<storageVars, busVars, faults>> /\ SchedFrame

\* Where a batch of publishes leads when it is empty or done.
AfterBatch(pc) ==
  CASE pc = "publishPending" -> "listUndispatched"
    [] pc = "publishUndispatched" -> "listFeeds"
    [] pc = "publishInserted" -> "nextFeed"

\* Go through batch S in phase pc, or past it when there is nothing to do.
StartBatch(pc, S) ==
  sched' = [sched EXCEPT !.pc = IF S = {} THEN AfterBatch(pc) ELSE pc, !.todo = S]

\* Faulty variant: the reconcile pass only looks for undelivered updates.
ReconcileSkipsPending ==
  /\ sched.pc = "listPending"
  /\ sched' = [sched EXCEPT !.pc = "listUndispatched"]
  /\ UNCHANGED <<storageVars, busVars, faults>> /\ SchedFrame

\* ReconcilePending, first half: an error of the query skips the batch.
ReconcileUnclassified ==
  /\ sched.pc = "listPending"
  /\ \/ /\ \E B \in ListPending : StartBatch("publishPending", B)
        /\ UNCHANGED faults
     \/ /\ Fails
        /\ sched' = [sched EXCEPT !.pc = "listUndispatched"]
  /\ UNCHANGED <<storageVars, busVars>> /\ SchedFrame

\* Faulty variant: undelivered updates are not looked for.
ReconcileSkipsUndispatched ==
  /\ sched.pc = "listUndispatched"
  /\ sched' = [sched EXCEPT !.pc = "listFeeds"]
  /\ UNCHANGED <<storageVars, busVars, faults>> /\ SchedFrame

\* Faulty variant: the query does not ask for verdict_important.
ReconcileAnyUndispatched ==
  /\ sched.pc = "listUndispatched"
  /\ \E B \in OldestOf({u \in Stored : DispatchedTo(u) = {}}, ReconcileBatch) :
       StartBatch("publishUndispatched", B)
  /\ UNCHANGED <<storageVars, busVars, faults>> /\ SchedFrame

\* ReconcilePending, second half.
ReconcileUndispatched ==
  /\ sched.pc = "listUndispatched"
  /\ \/ /\ \E B \in ListUndispatchedImportant : StartBatch("publishUndispatched", B)
        /\ UNCHANGED faults
     \/ /\ Fails
        /\ sched' = [sched EXCEPT !.pc = "listFeeds"]
  /\ UNCHANGED <<storageVars, busVars>> /\ SchedFrame

\* The publish loops of publishForClassification and ReconcilePending: one
\* message at a time, oldest first, blocking while the mailbox is full.
SchedPublish ==
  /\ sched.pc \in {"publishPending", "publishUndispatched", "publishInserted"}
  /\ \E u \in sched.todo :
       /\ \A x \in sched.todo : PublishedAt[u] <= PublishedAt[x]
       /\ Publish(IF sched.pc = "publishUndispatched" THEN TopicUpdatesImportant
                                                      ELSE TopicUpdatesNew, u)
       /\ StartBatch(sched.pc, sched.todo \ {u})
  /\ UNCHANGED <<storageVars, faults>> /\ SchedFrame

\* db.Feeds().List: an error ends the tick.
ListFeeds ==
  /\ sched.pc = "listFeeds"
  /\ \/ /\ sched' = [sched EXCEPT !.pc = "nextFeed", !.feeds = Feeds]
        /\ UNCHANGED faults
     \/ /\ Fails
        /\ sched' = [sched EXCEPT !.pc = "waiting"]
  /\ UNCHANGED <<storageVars, busVars>> /\ SchedFrame

\* ProcessFeed, collector.Fetch: an error or 304 Not Modified ends the feed's
\* turn, 200 yields the document the server has now.  The saved headers are
\* sent unless empty; no other goroutine writes them, so the row List read is
\* still current.
FetchFeed ==
  /\ sched.pc = "nextFeed"
  /\ \E f \in sched.feeds :
       \/ /\ etag[f] # version[f]
          /\ sched' = [sched EXCEPT !.pc = "saveHeaders", !.feed = f, !.body = version[f],
                                    !.feeds = @ \ {f}]
          /\ UNCHANGED faults
       \/ /\ etag[f] = version[f] \* not modified
          /\ sched' = [sched EXCEPT !.feeds = @ \ {f}]
          /\ UNCHANGED faults
       \/ /\ Fails
          /\ sched' = [sched EXCEPT !.feeds = @ \ {f}]
  /\ UNCHANGED <<storageVars, busVars>> /\ SchedFrame

EndTick ==
  /\ sched.pc = "nextFeed" /\ sched.feeds = {}
  /\ sched' = [sched EXCEPT !.pc = "waiting"]
  /\ UNCHANGED <<storageVars, busVars, faults>> /\ SchedFrame

\* ProcessFeed, UpdateCacheHeaders: an error is only logged.
SaveHeaders ==
  /\ sched.pc = "saveHeaders"
  /\ sched' = [sched EXCEPT !.pc = "insert"]
  /\ \/ UpdateCacheHeaders(sched.feed, sched.body) /\ UNCHANGED faults
     \/ Fails /\ UNCHANGED storageVars
  /\ UNCHANGED busVars /\ SchedFrame

\* ProcessFeed, Parse and InsertNew: an error of either ends the feed's turn.
StoreEntries ==
  /\ sched.pc = "insert"
  /\ LET S == Documents[sched.feed][sched.body]
         turn == [sched EXCEPT !.pc = "nextFeed", !.feed = NoFeed, !.body = 0]
     IN \/ /\ InsertNew(sched.feed, S)
           /\ sched' = IF New(S) = {} THEN turn
                       ELSE [turn EXCEPT !.pc = "publishInserted", !.todo = New(S)]
           /\ UNCHANGED faults
        \/ /\ Fails
           /\ sched' = turn
           /\ UNCHANGED storageVars
  /\ UNCHANGED busVars /\ SchedFrame

SchedStep ==
  \/ Tick \/ ReconcileUnclassified \/ ReconcileUndispatched \/ SchedPublish
  \/ ListFeeds \/ FetchFeed \/ EndTick \/ SaveHeaders \/ StoreEntries

-----------------------------------------------------------------------------
(***************************************************************************)
(* The classification worker.                                              *)
(***************************************************************************)
WorkerFrame == UNCHANGED <<sched, disp, version, deliveries, lapses, remaps>>

WorkerSubscribe ==
  /\ worker.pc = "starting"
  /\ Register(TopicUpdatesNew, "classificator")
  /\ worker' = WorkerIdle
  /\ UNCHANGED <<storageVars, judged, faults>> /\ WorkerFrame

\* The handler takes a message and reads the history of its feed; only the
\* worker writes verdicts, so the read may go with the receive.  An error
\* ends the handler: the bus logs it and the message is gone.
WorkerReceive ==
  /\ worker.pc = "idle"
  /\ Take("classificator")
  /\ LET u == Head(mailbox["classificator"])
     IN \/ /\ \E H \in LastImportant(owner[u]) :
                worker' = [worker EXCEPT !.pc = "classify", !.msg = u, !.history = H]
           /\ UNCHANGED faults
        \/ Fails /\ UNCHANGED worker
  /\ UNCHANGED <<storageVars, judged>> /\ WorkerFrame

\* Classify: a verdict, or an error of the prompt or the LLM, which ends the
\* handler.
WorkerClassify ==
  /\ worker.pc = "classify"
  /\ \/ /\ worker.msg \notin Unclassifiable
        /\ \E v \in Verdicts : worker' = [worker EXCEPT !.pc = "save", !.verdict = v]
        /\ UNCHANGED faults
     \/ worker.msg \in Unclassifiable /\ worker' = WorkerIdle /\ UNCHANGED faults
     \/ Fails /\ worker' = WorkerIdle
  /\ UNCHANGED <<storageVars, busVars, judged>> /\ WorkerFrame

\* SaveVerdict: an error ends the handler, as does a verdict of noise.
WorkerSave ==
  /\ worker.pc = "save"
  /\ LET u == worker.msg
     IN \/ /\ SaveVerdict(u, worker.verdict)
           /\ UNCHANGED faults
           /\ IF worker.verdict = "important"
                THEN /\ worker' = [worker EXCEPT !.pc = "publish"]
                     /\ judged' = judged \cup {u}
                ELSE worker' = WorkerIdle /\ UNCHANGED judged
        \/ Fails /\ worker' = WorkerIdle /\ UNCHANGED <<storageVars, judged>>
  /\ UNCHANGED busVars /\ WorkerFrame

WorkerPublish ==
  /\ worker.pc = "publish"
  /\ Publish(TopicUpdatesImportant, worker.msg)
  /\ worker' = WorkerIdle
  /\ UNCHANGED <<storageVars, judged, faults>> /\ WorkerFrame

WorkerStep ==
  WorkerSubscribe \/ WorkerReceive \/ WorkerClassify \/ WorkerSave \/ WorkerPublish

-----------------------------------------------------------------------------
(***************************************************************************)
(* The notification dispatcher.                                            *)
(***************************************************************************)
DispFrame == UNCHANGED <<sched, worker, version, judged, remaps>>

DispSubscribe ==
  /\ disp.pc = "starting"
  /\ Register(TopicUpdatesImportant, "dispatcher")
  /\ disp' = DispIdle
  /\ UNCHANGED <<storageVars, deliveries, faults, lapses>> /\ DispFrame

\* The mapped channels without a dispatch row.
PendingChannels(u) == {c \in ChannelsFor(owner[u]) : ~IsDispatched(u, c)}

\* The handler takes a message and makes its reads: GetVerdict, ChannelsFor
\* and IsDispatched for each channel.  An error ends the handler, as does an
\* empty set of pending channels.
DispReceive ==
  /\ disp.pc = "idle"
  /\ Take("dispatcher")
  /\ LET u == Head(mailbox["dispatcher"])
         P == PendingChannels(u)
     IN \/ /\ disp' = IF P = {} THEN disp
                      ELSE [disp EXCEPT !.pc = "send", !.msg = u, !.verdict = verdict[u],
                                        !.toSend = P, !.toMark = P]
           /\ UNCHANGED faults
        \/ Fails /\ UNCHANGED disp
  /\ UNCHANGED <<storageVars, deliveries, lapses>> /\ DispFrame

\* Faulty variant: the first error ends Dispatch, and the rest of its channels are
\* marked with it.
DispSendGivesUp ==
  /\ disp.pc = "send"
  /\ \E c \in disp.toSend :
       \/ /\ c \in Notifiers
          /\ LET rest == disp.toSend \ {c}
             IN disp' = [disp EXCEPT !.toSend = rest, !.pc = IF rest = {} THEN "mark" ELSE @]
          /\ \E n \in 1..Attempts : deliveries' = [deliveries EXCEPT ![disp.msg][c] = @ + n]
          /\ UNCHANGED faults
       \/ /\ disp' = [disp EXCEPT !.toSend = {}, !.pc = "mark"]
          /\ IF c \in Notifiers THEN Fails ELSE UNCHANGED faults
          /\ UNCHANGED deliveries
  /\ UNCHANGED <<storageVars, busVars, lapses>> /\ DispFrame

\* Dispatch: one Send for each channel, in any order.  Send posts the notification
\* again when a try ends without an answer, and the server may have taken each
\* of them.  The report holds the errors (a failed Send, a channel without
\* notifier); the handler drops it, so that the last try may have failed too.
DispSend ==
  /\ disp.pc = "send"
  /\ \E c \in disp.toSend :
       /\ LET rest == disp.toSend \ {c}
          IN disp' = [disp EXCEPT !.toSend = rest, !.pc = IF rest = {} THEN "mark" ELSE @]
       /\ \/ /\ c \in Notifiers
             /\ \E n \in 1..Attempts : deliveries' = [deliveries EXCEPT ![disp.msg][c] = @ + n]
             /\ UNCHANGED faults
          \/ c \in Notifiers /\ Fails /\ UNCHANGED deliveries
          \/ c \notin Notifiers /\ UNCHANGED <<deliveries, faults>>
  /\ UNCHANGED <<storageVars, busVars, lapses>> /\ DispFrame

\* Faulty variant: only the first channel is marked.
DispMarksOne ==
  /\ disp.pc = "mark"
  /\ \E c \in disp.toMark : MarkDispatched(disp.msg, c)
  /\ disp' = DispIdle
  /\ UNCHANGED <<busVars, deliveries, faults, lapses>> /\ DispFrame

\* MarkDispatched for each channel Dispatch was called with; an error ends
\* the handler and leaves the rest unmarked.
DispMark ==
  /\ disp.pc = "mark"
  /\ \E c \in disp.toMark :
       \/ /\ MarkDispatched(disp.msg, c)
          /\ LET rest == disp.toMark \ {c}
             IN disp' = IF rest = {} THEN DispIdle ELSE [disp EXCEPT !.toMark = rest]
          /\ UNCHANGED lapses
       \/ /\ lapses < MaxLapses /\ lapses' = lapses + 1
          /\ disp' = DispIdle
          /\ UNCHANGED storageVars
  /\ UNCHANGED <<busVars, deliveries, faults>> /\ DispFrame

DispStep == DispSubscribe \/ DispReceive \/ DispSend \/ DispMark

-----------------------------------------------------------------------------
(***************************************************************************)
(* The environment.                                                        *)
(***************************************************************************)
\* A feed's server replaces its document and, with it, the ETag.
ServerPublishes(f) ==
  /\ version[f] < Len(Documents[f])
  /\ version' = [version EXCEPT ![f] = @ + 1]
  /\ UNCHANGED <<storageVars, busVars, sched, worker, disp, deliveries, judged,
                 faults, lapses, remaps>>

\* feed_channels is edited with SQL scripts while the program runs.
Remap(f, c) ==
  /\ remaps < MaxRemaps /\ remaps' = remaps + 1
  /\ feedChannels' = IF <<f, c>> \in feedChannels THEN feedChannels \ {<<f, c>>}
                                                  ELSE feedChannels \cup {<<f, c>>}
  /\ UNCHANGED <<owner, verdict, dispatches, etag, busVars, sched, worker, disp, version,
                 deliveries, judged, faults, lapses>>

\* The process dies and is started again: run() builds a new bus and starts
\* the goroutines, in no particular order, over the tables as they are.
Restart ==
  /\ lapses < MaxLapses /\ lapses' = lapses + 1
  /\ subs' = [t \in Topics |-> {}]
  /\ mailbox' = [c \in Consumers |-> << >>]
  /\ sched' = SchedStart
  /\ worker' = [WorkerIdle EXCEPT !.pc = "starting"]
  /\ disp' = [DispIdle EXCEPT !.pc = "starting"]
  /\ UNCHANGED <<storageVars, version, deliveries, judged, faults, remaps>>

Environment ==
  \/ \E f \in Feeds : ServerPublishes(f)
  \/ \E f \in Feeds, c \in Channels : Remap(f, c)
  \/ Restart

-----------------------------------------------------------------------------
Next == SchedStep \/ WorkerStep \/ DispStep \/ Environment

Spec == Init /\ [][Next]_vars

\* Goroutines are scheduled fairly by the Go runtime, the pause of the
\* scheduler ends, and calls to the LLM and to the channels return.
FairSpec == Spec /\ WF_vars(SchedStep) /\ WF_vars(WorkerStep) /\ WF_vars(DispStep)

-----------------------------------------------------------------------------
(***************************************************************************)
(* Properties.                                                             *)
(***************************************************************************)
SchedPhases ==
  {"waiting", "listPending", "publishPending", "listUndispatched", "publishUndispatched",
   "listFeeds", "nextFeed", "saveHeaders", "insert", "publishInserted"}

SchedTypeOK ==
  /\ sched \in [pc : SchedPhases, todo : SUBSET Updates, feeds : SUBSET Feeds,
                feed : Feeds \cup {NoFeed}, body : Nat]
  /\ sched.pc \in {"saveHeaders", "insert"} =>
       sched.feed \in Feeds /\ sched.body \in DOMAIN Documents[sched.feed]

WorkerTypeOK ==
  /\ worker \in [pc : {"starting", "idle", "classify", "save", "publish"},
                 msg : Updates \cup {NoUpdate}, history : SUBSET Updates,
                 verdict : Verdicts \cup {"null"}]
  /\ worker.pc \in {"classify", "save", "publish"} => worker.msg \in Updates
  /\ worker.pc \in {"save", "publish"} => worker.verdict \in Verdicts

DispTypeOK ==
  /\ disp \in [pc : {"starting", "idle", "send", "mark"}, msg : Updates \cup {NoUpdate},
               verdict : Verdicts \cup {"null"},
               toSend : SUBSET Channels, toMark : SUBSET Channels]
  /\ disp.pc \in {"send", "mark"} => disp.msg \in Updates

EnvironmentTypeOK ==
  /\ version \in [Feeds -> Nat]
  /\ \A f \in Feeds : version[f] \in DOMAIN Documents[f]
  /\ deliveries \in [Updates -> [Channels -> Nat]]
  /\ judged \subseteq Updates
  /\ faults \in Nat /\ lapses \in Nat /\ remaps \in Nat

\* The types of the tables, the bus and the goroutines' locals; a goroutine
\* holds a message exactly when its program counter says it does.
TypeOK ==
  /\ StorageTypeOK /\ BusTypeOK
  /\ SchedTypeOK /\ WorkerTypeOK /\ DispTypeOK /\ EnvironmentTypeOK

\* What the goroutines still have to announce on updates.important.
AnnouncedImportant ==
  {u \in Updates :
     \/ u \in Contents("dispatcher")
     \/ sched.pc = "publishUndispatched" /\ u \in sched.todo
     \/ worker.pc = "publish" /\ u = worker.msg
     \/ disp.pc \in {"send", "mark"} /\ u = disp.msg}

\* GetVerdict dereferences verdict_important (repo.go:195) without a test: it is
\* safe because whatever is announced, by the worker or by the reconcile pass,
\* and however stale by the time it is read, has a verdict on record.
NoNilVerdict == \A u \in AnnouncedImportant : verdict[u] # "null"

\* The dispatches table bounds repeated notifications: a channel is sent an update
\* once, and once more for each process death between Send and MarkDispatched
\* and for each MarkDispatched that fails, and each time its server takes it at
\* most as often as Send tries; redelivered messages, reconcile passes, flipped
\* verdicts and edits of feed_channels add nothing.
DeliveryBound ==
  \A u \in Updates, c \in Channels : deliveries[u][c] <= Attempts * (1 + lapses)

\* The records of channels that have a notifier and got nothing.
FalseRecords == {d \in dispatches : d[2] \in Notifiers /\ deliveries[d[1]][d[2]] = 0}

\* The other side of DeliveryBound: RunDispatcher marks what it called Dispatch
\* with, so a failed Send costs one channel its notification, and nothing but
\* a failure does; no channel is marked that Dispatch did not come to.
FalseRecordsBound == Cardinality(FalseRecords) <= faults

\* While nobody edits feed_channels, comparing the number of rows is as good as
\* comparing the rows: an important update with a mapped channel it was not
\* delivered to is one ListUndispatchedImportant looks for.
UndeliveredIsSelectedUnlessRemapped ==
  remaps = 0 =>
    \A u \in Stored : verdict[u] = "important" /\ PendingChannels(u) # {}
                        => u \in UndispatchedImportant

\* The pipeline keeps the promises of UpdateLifecycle.
Lifecycle == INSTANCE UpdateLifecycle
ImplementsLifecycle == Lifecycle!LifecycleSpec

\* ReconcilePending recovers what the bus cannot: a stored entry gets a verdict,
\* although messages are dropped by a late subscription, a failed handler or
\* the death of the process.
EventuallyClassified ==
  \A u \in Updates : (u \in Stored) ~> (verdict[u] # "null")

\* An important update is put on record for each channel of its feed, whatever
\* message is lost on the way, unless a later verdict calls it noise.
EventuallyRecorded ==
  \A u \in Updates, c \in Channels :
    (verdict[u] = "important" /\ c \in ChannelsFor(owner[u]))
      ~> (IsDispatched(u, c) \/ verdict[u] = "noise")

\* Classified and delivered updates fall out of the queries: the reconcile
\* pass, which runs every tick, comes to an end of what it publishes.
EventuallySilent == <>[](\A c \in Consumers : mailbox[c] = << >>)

-----------------------------------------------------------------------------
(***************************************************************************)
(* What the documentation says and the program does not do.                *)
(***************************************************************************)
\* Successful channels are marked as delivered (10-dispatcher.md, section 7);
\* RunDispatcher marks every channel it called Dispatch with.
MarkedImpliesDelivered ==
  \A d \in dispatches : deliveries[d[1]][d[2]] > 0

\* What was not processed will be polled again (04-deduplicator.md, section 7):
\* a document the server no longer sends to us has been stored.
NotModifiedImpliesStored ==
  \A f \in Feeds :
    etag[f] = version[f] /\ ~(sched.pc = "insert" /\ sched.feed = f)
      => Documents[f][version[f]] \subseteq Stored

\* What exceeds the batch is picked up on later passes (comment of
\* reconcileBatch): an update the LLM service does answer gets a verdict.
RestIsPickedUp ==
  \A u \in Updates \ Unclassifiable : (u \in Stored) ~> (verdict[u] # "null")

=============================================================================
