------------------------------ MODULE Process ------------------------------
(***************************************************************************)
(* The lives of one gruh process over one SQLite file: run() of            *)
(* cmd/gruh/main.go from the configuration to the closing of the database, *)
(* with the goroutines that write meanwhile.                               *)
(*                                                                         *)
(*   main    Load, InitDB, StartRetentionJob, prompt.New, the goroutines,  *)
(*           <-ctx.Done(), the deferred Close                              *)
(*   sched   scheduler.Start with its pause; its task publishes what is    *)
(*           pending and inserts what is new                               *)
(*   worker  classifies and saves a verdict                                *)
(*   purger  StartRetentionJob                                             *)
(*                                                                         *)
(* Pipeline has the details of the task, the bus and the worker; here they *)
(* are the writers of the tables and the readers of the texts.  SQLite has *)
(* one writer at a time: stmt is the transaction under way.  file is what  *)
(* the primary file holds, tables what primary file and WAL hold together. *)
(***************************************************************************)
EXTENDS Config, Prompts

CONSTANTS
  Updates,    \* entries the feeds may have
  Files,      \* configuration files the operator may start it with
  Envs,       \* environments, likewise
  PromptDirs, \* contents of prompt.dir, likewise
  NoText,     \* created_at of a text that is not there
  MaxLives,   \* bound: starts of the program
  MaxTime     \* bound: ticks of the clock

ASSUME ProcessAssumption ==
  /\ NoText \notin Int
  /\ \A layer \in Files \cup Envs : \A k \in {"interval", "jitter"} \cap DOMAIN layer : layer[k] \in Int
  /\ \A f \in Files : "raw_content_retention" \in DOMAIN f => f.raw_content_retention.n \in Int
  /\ \A d \in PromptDirs :
       /\ d.kind \in {"unset", "missing", "notDir", "dir"}
       /\ d.kind = "dir" => d.files \in Seq(PromptFile)
  /\ MaxLives \in Nat /\ MaxTime \in Nat

VARIABLES
  pc, exit,   \* main: program counter; how the last life ended, or will
  cancelled,  \* the context of NotifyShutdown
  cfg, dir,   \* the configuration; the prompt directory as it is read
  blueprints, \* the blueprints loaded from it
  sched, worker, purger, inbox,
  stmt,       \* who has a transaction under way, and on which rows
  tables,     \* row: stages of the updates; raw: created_at of their raw_contents
  file,
  clock, lives,
  idle,       \* history: ticks since the scheduler's task began, up to the interval
  torn        \* history: a transaction was under way when the pool was closed

mainVars == <<pc, exit, cfg, dir, blueprints, lives>>
vars == <<mainVars, cancelled, sched, worker, purger, inbox, stmt, tables, file, clock, idle, torn>>

NoStmt == [by |-> "none", rows |-> {}]
Off == [pc |-> "off"]

Init ==
  /\ pc = "down" /\ exit = "none" /\ cancelled = FALSE
  /\ cfg = Unset /\ dir = << >> /\ blueprints = << >>
  /\ sched = Off /\ worker = Off /\ purger = Off /\ inbox = {}
  /\ stmt = NoStmt
  /\ tables = [row |-> [u \in Updates |-> "none"], raw |-> [u \in Updates |-> NoText]]
  /\ file = tables
  /\ clock = 0 /\ lives = 0 /\ idle = 0 /\ torn = FALSE

-----------------------------------------------------------------------------
(***************************************************************************)
(* main                                                                    *)
(***************************************************************************)
\* The process is gone: what it kept in memory, and a transaction that did not
\* commit.  Primary file and WAL stay.
Die(how) ==
  /\ pc' = "down" /\ exit' = how /\ cancelled' = FALSE
  /\ cfg' = Unset /\ dir' = << >> /\ blueprints' = << >>
  /\ sched' = Off /\ worker' = Off /\ purger' = Off /\ inbox' = {}
  /\ stmt' = NoStmt /\ idle' = 0
  /\ UNCHANGED <<tables, file, clock, lives>>

\* Load; with --check-config that is all.
Start(f, env, checkOnly) ==
  LET loaded == Load(f, env)
  IN /\ pc = "down" /\ lives < MaxLives
     /\ lives' = lives + 1
     /\ torn' = FALSE
     /\ IF loaded.ok /\ ~checkOnly
          THEN pc' = "initDB" /\ exit' = "none" /\ cfg' = loaded.cfg
          ELSE /\ exit' = IF loaded.ok THEN "checked" ELSE "load"
               /\ UNCHANGED <<pc, cfg>>
     /\ UNCHANGED <<dir, blueprints, cancelled, sched, worker, purger, inbox, stmt, tables, file, clock, idle>>

\* InitDB opens the file and migrates, or the process ends.
InitDB ==
  /\ pc = "initDB"
  /\ \/ /\ pc' = "retention"
        /\ UNCHANGED <<exit, cfg, dir, blueprints, lives, cancelled, sched, worker, purger, inbox,
                       stmt, tables, file, clock, idle>>
     \/ Die("initDB")
  /\ UNCHANGED torn

\* StartRetentionJob purges at once, unless the period disables it.
Job(period) == IF period <= 0 THEN Off ELSE [pc |-> "purge", wait |-> 0]

StartRetention ==
  /\ pc = "retention"
  /\ IF Parses(cfg.raw_content_retention)
       THEN /\ pc' = "prompts" /\ dir' \in PromptDirs
            /\ purger' = Job(ParseRetention(cfg.raw_content_retention))
            /\ UNCHANGED exit
       ELSE pc' = "checkpoint" /\ exit' = "retention" /\ UNCHANGED <<dir, purger>>
  /\ UNCHANGED <<cfg, blueprints, lives, cancelled, sched, worker, inbox, stmt, tables, file, clock, idle, torn>>

\* prompt.New, then the goroutines.  Its error makes run() return, which closes
\* the database before it cancels the context of the retention job.
StartGoroutines ==
  LET manager == NewManager(dir)
  IN /\ pc = "prompts"
     /\ dir' = << >>
     /\ IF manager.ok
          THEN /\ pc' = "serving" /\ blueprints' = manager.blueprints
               /\ sched' = [pc |-> "reconcile", wait |-> 0]
               /\ worker' = [pc |-> "idle"]
               /\ UNCHANGED exit
          ELSE pc' = "checkpoint" /\ exit' = "prompts" /\ UNCHANGED <<blueprints, sched, worker>>
     /\ UNCHANGED <<cfg, lives, cancelled, purger, inbox, stmt, tables, file, clock, idle, torn>>

\* SIGTERM or SIGINT; signal.NotifyContext has them from before InitDB on.
Signal ==
  /\ pc # "down" /\ ~cancelled
  /\ cancelled' = TRUE
  /\ UNCHANGED <<mainVars, sched, worker, purger, inbox, stmt, tables, file, clock, idle, torn>>

\* Faulty variant: run() waits for the scheduler to finish its task.
ShutDownAfterTask ==
  /\ pc = "serving" /\ cancelled /\ sched.pc \in {"pause", "off"}
  /\ pc' = "checkpoint" /\ exit' = "stopped"
  /\ UNCHANGED <<cfg, dir, blueprints, lives, cancelled, sched, worker, purger, inbox, stmt, tables, file, clock, idle, torn>>

\* Faulty variant: run() returns without closing the database.
ShutDownUnclosed ==
  /\ pc = "serving" /\ cancelled
  /\ pc' = "exiting" /\ exit' = "stopped"
  /\ UNCHANGED <<cfg, dir, blueprints, lives, cancelled, sched, worker, purger, inbox, stmt, tables, file, clock, idle, torn>>

\* run() returns from <-ctx.Done() and waits for no goroutine.
ShutDown ==
  /\ pc = "serving" /\ cancelled
  /\ pc' = "checkpoint" /\ exit' = "stopped"
  /\ UNCHANGED <<cfg, dir, blueprints, lives, cancelled, sched, worker, purger, inbox, stmt, tables, file, clock, idle, torn>>

\* PRAGMA wal_checkpoint(TRUNCATE).  With a transaction under way it may find
\* the database busy, which it reports in its row and not as an error.
Checkpoint ==
  /\ pc = "checkpoint"
  /\ pc' = "closePool"
  /\ \/ file' = tables
     \/ stmt # NoStmt /\ UNCHANGED file
  /\ UNCHANGED <<exit, cfg, dir, blueprints, lives, cancelled, sched, worker, purger, inbox, stmt, tables, clock, idle, torn>>

\* Close of the pool waits for no connection in use, which is closed when its
\* transaction ends, if the process lives to see it.  The last connection that
\* closes checkpoints once more.
ClosePool ==
  /\ pc = "closePool"
  /\ pc' = "exiting"
  /\ torn' = (stmt # NoStmt)
  /\ file' = IF stmt = NoStmt THEN tables ELSE file
  /\ UNCHANGED <<exit, cfg, dir, blueprints, lives, cancelled, sched, worker, purger, inbox, stmt, tables, clock, idle>>

Exit == pc = "exiting" /\ Die(exit) /\ UNCHANGED torn

Kill == pc # "down" /\ Die("killed") /\ UNCHANGED torn

Main == InitDB \/ StartRetention \/ StartGoroutines \/ ShutDown \/ Checkpoint \/ ClosePool \/ Exit

-----------------------------------------------------------------------------
(***************************************************************************)
(* Transactions.  A new one needs the write lock, a context that is not    *)
(* cancelled and an open pool; without the last two the call returns an    *)
(* error, and it may when the lock is taken.  Reads are not transactions   *)
(* here.  A cancelled context interrupts one that is under way, if it      *)
(* comes before the commit.                                                *)
(***************************************************************************)
Refused == cancelled \/ pc = "exiting"

Begin(who, rows) ==
  /\ ~Refused /\ stmt = NoStmt
  /\ stmt' = [by |-> who, rows |-> rows]

Stored == {u \in Updates : tables.row[u] # "none"}
Pending == {u \in Updates : tables.row[u] = "pending"}

Insert(rows) ==
  [row |-> [u \in Updates |-> IF u \in rows \ Stored THEN "pending" ELSE tables.row[u]],
   raw |-> [u \in Updates |-> IF u \in rows \ Stored THEN clock ELSE tables.raw[u]]]

SaveVerdict(rows) == [tables EXCEPT !.row = [u \in Updates |-> IF u \in rows THEN "done" ELSE @[u]]]

\* Faulty variant: the rows of the updates go with their texts.
PurgeUpdates(rows) ==
  [row |-> [u \in Updates |-> IF u \in rows THEN "none" ELSE tables.row[u]],
   raw |-> [u \in Updates |-> IF u \in rows THEN NoText ELSE tables.raw[u]]]

\* DELETE on raw_contents only.
PurgeRawContent(rows) == [tables EXCEPT !.raw = [u \in Updates |-> IF u \in rows THEN NoText ELSE @[u]]]

-----------------------------------------------------------------------------
(***************************************************************************)
(* The scheduler's goroutine.                                              *)
(***************************************************************************)
\* Faulty variant: the query does not preload the texts.
MessagesWithoutTexts(S) == {[update |-> u, full |-> FALSE] : u \in S}

\* messageFor: the text travels in the message, or nothing if it is purged.
Messages(S) == {[update |-> u, full |-> tables.raw[u] # NoText] : u \in S}

\* Faulty variant: the jitter is added to itself.
PausesTwiceJittered ==
  IF cfg.interval > 0 /\ cfg.jitter > 0
    THEN {cfg.interval + j + k : j, k \in -cfg.jitter..cfg.jitter}
    ELSE {cfg.interval}

\* interval plus a random part of at most jitter, in either direction; main
\* passes no jitter with an interval that is not positive.
Pauses ==
  IF cfg.interval > 0 /\ cfg.jitter > 0
    THEN {cfg.interval + j : j \in -cfg.jitter..cfg.jitter}
    ELSE {cfg.interval}

\* time.After fires at once if there is nothing to wait for.
Pause == \E d \in Pauses : sched' = [pc |-> "pause", wait |-> IF d > 0 THEN d ELSE 0]

\* ReconcilePending publishes what is pending again.
Reconcile ==
  /\ sched.pc = "reconcile"
  /\ sched' = [sched EXCEPT !.pc = "poll"]
  /\ inbox' = IF Refused THEN inbox ELSE inbox \cup Messages(Pending)
  /\ UNCHANGED <<mainVars, cancelled, worker, purger, stmt, tables, file, clock, idle, torn>>

\* The feeds are polled: entries to insert, or none, or an error.
Poll ==
  /\ sched.pc = "poll"
  /\ \/ /\ \E rows \in (SUBSET Updates) \ {{}} : Begin("sched", rows)
        /\ sched' = [sched EXCEPT !.pc = "writing"]
     \/ Pause /\ UNCHANGED stmt
  /\ UNCHANGED <<mainVars, cancelled, worker, purger, inbox, tables, file, clock, idle, torn>>

SchedWake ==
  /\ sched.pc = "pause" /\ sched.wait = 0
  /\ sched' = [sched EXCEPT !.pc = "reconcile"]
  /\ idle' = 0
  /\ UNCHANGED <<mainVars, cancelled, worker, purger, inbox, stmt, tables, file, clock, torn>>

-----------------------------------------------------------------------------
(***************************************************************************)
(* The worker's goroutine.                                                 *)
(***************************************************************************)
WorkerReceive ==
  /\ worker.pc = "idle"
  /\ \E m \in inbox : worker' = [pc |-> "classify", msg |-> m] /\ inbox' = inbox \ {m}
  /\ UNCHANGED <<mainVars, cancelled, sched, purger, stmt, tables, file, clock, idle, torn>>

\* Classify fails if the context is cancelled or the prompt does not render,
\* and may fail otherwise; its verdict is saved at once.
Classify ==
  /\ worker.pc = "classify"
  /\ \/ /\ Executes(blueprints, "classify")
        /\ Begin("worker", {worker.msg.update})
        /\ worker' = [worker EXCEPT !.pc = "writing"]
     \/ worker' = [pc |-> "idle"] /\ UNCHANGED stmt
  /\ UNCHANGED <<mainVars, cancelled, sched, purger, inbox, tables, file, clock, idle, torn>>

-----------------------------------------------------------------------------
(***************************************************************************)
(* The retention job.                                                      *)
(***************************************************************************)
\* created_at < cutoff, whether or not the update has a verdict.  A cutoff that
\* was taken while the statement waited for the lock would only be earlier.
Expired ==
  LET cutoff == clock - ParseRetention(cfg.raw_content_retention)
  IN {u \in Updates : tables.raw[u] # NoText /\ tables.raw[u] < cutoff}

Sleep == [pc |-> "sleep", wait |-> Hour]

Purge ==
  /\ purger.pc = "purge"
  /\ \/ Begin("purger", Expired) /\ purger' = [purger EXCEPT !.pc = "writing"]
     \/ (Refused \/ stmt # NoStmt) /\ purger' = Sleep /\ UNCHANGED stmt
  /\ UNCHANGED <<mainVars, cancelled, sched, worker, inbox, tables, file, clock, idle, torn>>

PurgerWake ==
  /\ purger.pc = "sleep" /\ purger.wait = 0
  /\ purger' = [purger EXCEPT !.pc = "purge"]
  /\ UNCHANGED <<mainVars, cancelled, sched, worker, inbox, stmt, tables, file, clock, idle, torn>>

-----------------------------------------------------------------------------
(***************************************************************************)
(* A transaction ends, and the call of its goroutine returns.  InsertNew   *)
(* is followed by the publishing of the new updates.                       *)
(***************************************************************************)
Inserted ==
  /\ stmt.by = "sched"
  /\ \/ /\ tables' = Insert(stmt.rows)
        /\ inbox' = inbox \cup {[update |-> u, full |-> TRUE] : u \in stmt.rows \ Stored}
     \/ cancelled /\ UNCHANGED <<tables, inbox>>
  /\ Pause
  /\ UNCHANGED <<worker, purger>>

Saved ==
  /\ stmt.by = "worker"
  /\ tables' = SaveVerdict(stmt.rows) \/ (cancelled /\ UNCHANGED tables)
  /\ worker' = [pc |-> "idle"]
  /\ UNCHANGED <<sched, purger, inbox>>

Purged ==
  /\ stmt.by = "purger"
  /\ tables' = PurgeRawContent(stmt.rows) \/ (cancelled /\ UNCHANGED tables)
  /\ purger' = Sleep
  /\ UNCHANGED <<sched, worker, inbox>>

EndTransaction ==
  /\ Inserted \/ Saved \/ Purged
  /\ stmt' = NoStmt
  /\ UNCHANGED file \/ (pc = "exiting" /\ file' = tables')
  /\ UNCHANGED <<mainVars, cancelled, clock, idle, torn>>

\* A goroutine that waits sees the cancelled context and returns.
Return ==
  /\ cancelled
  /\ \/ sched.pc = "pause" /\ sched' = Off /\ UNCHANGED <<worker, purger>>
     \/ worker.pc = "idle" /\ worker' = Off /\ UNCHANGED <<sched, purger>>
     \/ purger.pc = "sleep" /\ purger' = Off /\ UNCHANGED <<sched, worker>>
  /\ UNCHANGED <<mainVars, cancelled, inbox, stmt, tables, file, clock, idle, torn>>

\* Time passes, and what waits comes nearer to its end.
Less(g) == IF g.pc \in {"pause", "sleep"} /\ g.wait > 0 THEN [g EXCEPT !.wait = @ - 1] ELSE g

Tick ==
  /\ clock < MaxTime
  /\ clock' = clock + 1
  /\ idle' = IF idle < cfg.interval /\ sched # Off THEN idle + 1 ELSE idle
  /\ sched' = Less(sched) /\ purger' = Less(purger)
  /\ UNCHANGED <<mainVars, cancelled, worker, inbox, stmt, tables, file, torn>>

Goroutines ==
  \/ Reconcile \/ Poll \/ SchedWake
  \/ WorkerReceive \/ Classify
  \/ Purge \/ PurgerWake
  \/ EndTransaction \/ Return

Next ==
  \/ \E f \in Files, env \in Envs, checkOnly \in BOOLEAN : Start(f, env, checkOnly)
  \/ Main \/ Signal \/ Kill \/ Goroutines \/ Tick

Spec == Init /\ [][Next]_vars

\* main goes on; nothing is assumed of the other goroutines, which may hang in
\* a call, nor of time.
FairSpec == Spec /\ WF_vars(Main)

-----------------------------------------------------------------------------
Positive(n) == IF n > 0 THEN n ELSE 0

LongestPause == Positive(cfg.interval) + Positive(cfg.jitter)

\* The types of what is stored and of the goroutines' locals.
TypeOK ==
  /\ pc \in {"down", "initDB", "retention", "prompts", "serving", "checkpoint", "closePool", "exiting"}
  /\ exit \in {"none", "load", "checked", "initDB", "retention", "prompts", "stopped", "killed"}
  /\ cancelled \in BOOLEAN /\ torn \in BOOLEAN
  /\ \A t \in {tables, file} :
       /\ t.row \in [Updates -> {"none", "pending", "done"}]
       /\ t.raw \in [Updates -> (0..clock) \cup {NoText}]
  /\ sched.pc \in {"off", "reconcile", "poll", "writing", "pause"}
  /\ sched.pc = "pause" => sched.wait \in 0..LongestPause
  /\ worker.pc \in {"off", "idle", "classify", "writing"}
  /\ purger.pc \in {"off", "purge", "writing", "sleep"}
  /\ inbox \subseteq [update : Updates, full : BOOLEAN]
  /\ stmt.by \in {"none", "sched", "worker", "purger"} /\ stmt.rows \subseteq Updates
  /\ clock \in 0..MaxTime /\ idle \in 0..MaxTime /\ lives \in 0..MaxLives

InHand == inbox \cup (IF worker.pc \in {"classify", "writing"} THEN {worker.msg} ELSE {})

\* An update is classified without its text only after the retention job has
\* removed the text, across restarts: a message has the text its row had, and a
\* text that is gone does not come back (messageFor, ListPending).
BlindOnlyIfPurged == \A m \in InHand : m.full \/ tables.raw[m.update] = NoText

Advances(from, to) == from = to \/ (from = "none" /\ to = "pending") \/ (from = "pending" /\ to = "done")

\* Rows of updates live forever and verdicts are never taken back, whatever is
\* purged, killed and restarted (PurgeRawContent: "never touched").
RowsLiveForever == [][\A u \in Updates : Advances(tables.row[u], tables'.row[u])]_vars

\* A text is removed only when it is older than the setting says, as long as
\* the setting fits a time.Duration; retention is measured in lives and settings
\* that change between them.
KeptForRetention ==
  [][\A u \in Updates :
       /\ tables.raw[u] # NoText /\ tables'.raw[u] = NoText
       /\ Representable(Period(cfg.raw_content_retention))
       => /\ Period(cfg.raw_content_retention) > 0
          /\ clock - tables.raw[u] > Period(cfg.raw_content_retention)]_vars

\* After a graceful stop, or a start that failed, the primary file alone has all
\* data, unless a transaction was under way when the pool was closed: run() does
\* not wait for the goroutines (main.go, Close).
StopIsSelfContained ==
  pc = "down" /\ exit \in {"stopped", "retention", "prompts"} /\ ~torn => file = tables

\* Tasks of one life start at least interval - jitter ticks apart; nothing
\* validates that this is positive.
TicksSpaced ==
  [][sched.pc = "pause" /\ sched'.pc = "reconcile"
       => idle >= cfg.interval - Positive(cfg.jitter)]_vars

AllFiles == Builtin \o (IF dir.kind = "dir" THEN dir.files ELSE << >>)

ToRead == {i \in DOMAIN AllFiles : AllFiles[i].yaml /\ (i <= Len(Builtin) \/ ~AllFiles[i].hidden)}

\* The blueprint the worker renders is the last sound file of that name, the
\* override directory after the embedded ones, and the process serves only if
\* no file is undecodable or critical and broken (Manager).
LastSoundWins ==
  [][pc = "prompts" /\ pc' = "serving" =>
       LET sound == {i \in ToRead : AllFiles[i].sound}
       IN /\ \A i \in ToRead : AllFiles[i].decodes /\ (AllFiles[i].critical => AllFiles[i].sound)
          /\ DOMAIN blueprints' = {NameOf(AllFiles[i]) : i \in sound}
          /\ \A name \in DOMAIN blueprints' :
               \E last \in sound :
                 /\ NameOf(AllFiles[last]) = name /\ blueprints'[name] = AllFiles[last]
                 /\ \A i \in sound : NameOf(AllFiles[i]) = name => i <= last]_vars

\* A signal ends the process, even if every other goroutine hangs in a call.
StopEnds == cancelled ~> (pc = "down")

=============================================================================
