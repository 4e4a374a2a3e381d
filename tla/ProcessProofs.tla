--------------------------- MODULE ProcessProofs ---------------------------
(***************************************************************************)
(* Theorems of Process: what restarts, kills, purges and stops leave of    *)
(* the tables, for any updates, configuration files, prompt directories    *)
(* and number of lives.  Only the end of a transaction writes the tables   *)
(* (EndEffects), so that each theorem rests on what the transaction under  *)
(* way may hold, which the invariant says.                                 *)
(***************************************************************************)
EXTENDS Process, SequenceTheorems, WellFoundedInduction, TLAPS

Message == [update : Updates, full : BOOLEAN]

Tables(n) == [row : [Updates -> {"none", "pending", "done"}],
              raw : [Updates -> (0..n) \cup {NoText}]]

\* What TypeOK says, and the shapes of the records.
MainTyped ==
  /\ pc \in {"down", "initDB", "retention", "prompts", "serving", "checkpoint", "closePool", "exiting"}
  /\ exit \in {"none", "load", "checked", "initDB", "retention", "prompts", "stopped", "killed"}
  /\ cancelled \in BOOLEAN /\ torn \in BOOLEAN
  /\ lives \in 0..MaxLives /\ clock \in 0..MaxTime /\ idle \in 0..clock

StoreTyped ==
  /\ tables \in Tables(clock) /\ file \in Tables(clock)
  /\ inbox \subseteq Message
  /\ stmt.by \in {"none", "sched", "worker", "purger"} /\ stmt.rows \subseteq Updates

GoroutinesTyped ==
  /\ sched \in {Off} \cup [pc : {"reconcile", "poll", "writing", "pause"}, wait : Int]
  /\ sched.pc = "pause" => sched.wait \in 0..LongestPause
  /\ worker \in {Off} \cup [pc : {"idle"}] \cup [pc : {"classify", "writing"}, msg : Message]
  /\ purger \in {Off} \cup [pc : {"purge", "writing", "sleep"}, wait : Int]

SettingsTyped(c) ==
  /\ c.interval \in Int /\ c.jitter \in Int
  /\ c.raw_content_retention.n \in Int

\* What does not run yet, or no more.
NotRunning ==
  /\ pc = "down" => stmt = NoStmt /\ cfg = Unset
  /\ pc \in {"down", "initDB", "retention"} => purger = Off
  /\ pc \in {"down", "initDB", "retention", "prompts"} => sched = Off /\ worker = Off

\* Who has a transaction under way waits for it.
WriterWaits ==
  /\ stmt.by = "sched" => sched.pc = "writing"
  /\ stmt.by = "worker" => worker.pc = "writing"
  /\ stmt.by = "purger" => purger.pc = "writing"

\* A message is about a stored update, and lacks the text only if the row does.
Known(m) == tables.row[m.update] # "none" /\ (m.full \/ tables.raw[m.update] = NoText)

MessagesKnown ==
  /\ \A m \in InHand : Known(m)
  /\ stmt.by = "worker" => stmt.rows \subseteq Stored

\* The retention job runs with a positive period, and its transaction is on
\* texts older than that.
Exact == Representable(Period(cfg.raw_content_retention))

Old(u) == clock - tables.raw[u] > Period(cfg.raw_content_retention)

PurgeDue ==
  Exact =>
    /\ purger # Off \/ stmt.by = "purger" => Period(cfg.raw_content_retention) > 0
    /\ stmt.by = "purger" => \A u \in stmt.rows : tables.raw[u] # NoText => Old(u)

\* What is left of a pause, and the ticks so far, make up the distance.
PauseLeft == sched.pc = "pause" => sched.wait + idle >= cfg.interval - Positive(cfg.jitter)

\* Once the pool is closed with nobody in a transaction, nobody starts one.
Closed == pc = "exiting" /\ ~torn => stmt = NoStmt /\ file = tables

Inv ==
  /\ MainTyped /\ StoreTyped /\ GoroutinesTyped /\ SettingsTyped(cfg)
  /\ NotRunning /\ WriterWaits /\ MessagesKnown /\ PurgeDue /\ PauseLeft
  /\ Closed /\ StopIsSelfContained

-----------------------------------------------------------------------------
(***************************************************************************)
(* The configuration.                                                      *)
(***************************************************************************)
LEMMA OverKey ==
  ASSUME NEW layer, NEW base, NEW k \in DOMAIN layer \cup DOMAIN base
  PROVE  /\ k \in DOMAIN Over(layer, base)
         /\ Over(layer, base)[k] = IF k \in DOMAIN layer THEN layer[k] ELSE base[k]
BY DEF Over

LEMMA UnsetTyped == SettingsTyped(Unset)
<1>1. Unset.interval = 0
  BY DEF Unset
<1>2. Unset.jitter = 0
  BY DEF Unset
<1>3. Unset.raw_content_retention = Forever
  BY DEF Unset
<1>4. Forever.n = 0
  BY DEF Forever
<1>5. QED
  BY <1>1, <1>2, <1>3, <1>4 DEF SettingsTyped

\* The layers give the durations numbers; the retention comes from the file or
\* is not set.
LEMMA LoadTyped ==
  ASSUME NEW f \in Files, NEW env \in Envs, Load(f, env).ok
  PROVE  SettingsTyped(Load(f, env).cfg)
<1> DEFINE base == Over(Defaults, Unset)
           e == FromEnv(env)
           c == Over(e, Over(f, base))
<1>1. Load(f, env).cfg = c
  BY DEF Load, NotLoaded
<1>2. base["interval"] \in Int /\ "interval" \in DOMAIN base /\ base["jitter"] \in Int /\ "jitter" \in DOMAIN base
  <2>1. /\ "interval" \in DOMAIN Defaults /\ Defaults["interval"] = Hour
        /\ "jitter" \in DOMAIN Defaults /\ Defaults["jitter"] = 1
    BY DEF Defaults
  <2>2. QED
    BY <2>1, OverKey, ConfigAssumption
<1>3. base["raw_content_retention"] = Forever /\ "raw_content_retention" \in DOMAIN base
  <2>1. "raw_content_retention" \notin DOMAIN Defaults
    BY Zenon DEF Defaults
  <2>2. "raw_content_retention" \in DOMAIN Unset /\ Unset["raw_content_retention"] = Forever
    BY DEF Unset
  <2>3. QED
    BY <2>1, <2>2, OverKey
<1> HIDE DEF base
<1>4. ASSUME NEW k \in {"interval", "jitter"} PROVE c[k] \in Int
  <2>1. k \in DOMAIN e => e[k] \in Int
    BY ProcessAssumption DEF FromEnv
  <2>2. k \in DOMAIN f => f[k] \in Int
    BY ProcessAssumption
  <2>3. k \in DOMAIN base /\ base[k] \in Int
    BY <1>2
  <2>4. Over(f, base)[k] \in Int /\ k \in DOMAIN Over(f, base)
    BY <2>2, <2>3, OverKey
  <2>5. QED
    BY <2>1, <2>4, OverKey
<1>5. c["raw_content_retention"].n \in Int
  <2>1. "raw_content_retention" \notin DOMAIN e
    BY DEF FromEnv, envKeyMap
  <2>2. "raw_content_retention" \in DOMAIN f => f["raw_content_retention"].n \in Int
    BY ProcessAssumption
  <2>3. Forever.n \in Int
    BY DEF Forever
  <2>4. /\ "raw_content_retention" \in DOMAIN Over(f, base)
        /\ Over(f, base)["raw_content_retention"].n \in Int
    BY <1>3, <2>2, <2>3, OverKey
  <2>5. QED
    BY <2>1, <2>4, OverKey
<1>6. QED
  BY <1>1, <1>4, <1>5 DEF SettingsTyped

LEMMA PeriodTyped ==
  ASSUME SettingsTyped(cfg)
  PROVE  /\ Period(cfg.raw_content_retention) \in Int
         /\ Exact => ParseRetention(cfg.raw_content_retention) = Period(cfg.raw_content_retention)
<1>1. Period(cfg.raw_content_retention) \in Int
  BY ConfigAssumption DEF SettingsTyped, Period
<1>2. QED
  BY <1>1 DEF Exact, Representable, ParseRetention

-----------------------------------------------------------------------------
(***************************************************************************)
(* The tables.                                                             *)
(***************************************************************************)
\* What the end of a transaction does to the tables and the messages: rows
\* advance, a text goes only by the retention job, and does not come back.
LEMMA EndEffects ==
  ASSUME Inv, EndTransaction
  PROVE  /\ tables' \in Tables(clock)
         /\ \A u \in Updates : Advances(tables.row[u], tables'.row[u])
         /\ \A u \in Updates : tables.row[u] # "none" /\ tables.raw[u] = NoText => tables'.raw[u] = NoText
         /\ \A u \in Updates : tables.raw[u] # NoText /\ tables'.raw[u] = NoText
                                 => stmt.by = "purger" /\ u \in stmt.rows
         /\ inbox \subseteq inbox'
         /\ \A m \in inbox' \ inbox : m \in Message /\ m.full /\ tables'.row[m.update] # "none"
<1>0. /\ tables \in Tables(clock) /\ clock \in Nat /\ clock \in 0..clock
      /\ NoText \notin Int /\ stmt.rows \subseteq Updates
  BY ProcessAssumption DEF Inv, MainTyped, StoreTyped
<1>1. CASE tables' = tables /\ inbox' = inbox
  BY <1>0, <1>1 DEF Advances
<1>2. CASE Inserted /\ tables' = Insert(stmt.rows)
  <2>1. /\ tables'.row = [u \in Updates |-> IF u \in stmt.rows \ Stored THEN "pending" ELSE tables.row[u]]
        /\ tables'.raw = [u \in Updates |-> IF u \in stmt.rows \ Stored THEN clock ELSE tables.raw[u]]
    BY <1>2 DEF Insert
  <2>2. tables' \in Tables(clock)
    BY <1>0, <1>2 DEF Tables, Insert
  <2>3. \A u \in Updates : Advances(tables.row[u], tables'.row[u])
    BY <1>0, <2>1 DEF Advances, Stored
  <2>4. \A u \in Updates : tables.row[u] # "none" /\ tables.raw[u] = NoText => tables'.raw[u] = NoText
    BY <2>1 DEF Stored
  <2>5. \A u \in Updates : tables.raw[u] # NoText => tables'.raw[u] # NoText
    BY <1>0, <2>1
  <2>6. inbox \subseteq inbox'
        /\ \A m \in inbox' \ inbox : m \in Message /\ m.full /\ tables'.row[m.update] # "none"
    <3>1. CASE inbox' = inbox
      BY <3>1
    <3>2. CASE inbox' = inbox \cup {[update |-> u, full |-> TRUE] : u \in stmt.rows \ Stored}
      <4>1. ASSUME NEW m \in inbox' \ inbox
            PROVE  m \in Message /\ m.full /\ tables'.row[m.update] # "none"
        <5>1. PICK u \in stmt.rows \ Stored : m = [update |-> u, full |-> TRUE]
          BY <3>2, <4>1
        <5>2. m.full = TRUE
          BY <5>1, Zenon
        <5>3. m \in Message /\ m.update = u
          BY <1>0, <5>1 DEF Message
        <5>4. tables'.row[u] = "pending"
          BY <1>0, <2>1, <5>1
        <5>5. QED
          BY <5>2, <5>3, <5>4
      <4>2. QED
        BY <3>2, <4>1
    <3>3. QED
      BY <1>2, <3>1, <3>2 DEF Inserted
  <2>7. QED
    BY <2>2, <2>3, <2>4, <2>5, <2>6
<1>3. CASE Saved /\ tables' = SaveVerdict(stmt.rows)
  <2>1. /\ tables'.row = [u \in Updates |-> IF u \in stmt.rows THEN "done" ELSE tables.row[u]]
        /\ tables'.raw = tables.raw /\ inbox' = inbox
    BY <1>0, <1>3 DEF Saved, SaveVerdict, Tables
  <2>2. tables' \in Tables(clock)
    BY <1>0, <1>3 DEF SaveVerdict, Tables
  <2>3. \A u \in stmt.rows : tables.row[u] \in {"pending", "done"}
    BY <1>0, <1>3 DEF Saved, Inv, MessagesKnown, Stored, Tables
  <2>4. \A u \in Updates : Advances(tables.row[u], tables'.row[u])
    BY <2>1, <2>3 DEF Advances
  <2>5. QED
    BY <2>1, <2>2, <2>4
<1>4. CASE Purged /\ tables' = PurgeRawContent(stmt.rows)
  <2>1. /\ tables'.raw = [u \in Updates |-> IF u \in stmt.rows THEN NoText ELSE tables.raw[u]]
        /\ tables'.row = tables.row /\ inbox' = inbox /\ stmt.by = "purger"
    BY <1>0, <1>4 DEF Purged, PurgeRawContent, Tables
  <2>2. tables' \in Tables(clock)
    BY <1>0, <1>4 DEF PurgeRawContent, Tables
  <2>3. \A u \in Updates : Advances(tables.row[u], tables'.row[u])
    BY <2>1 DEF Advances
  <2>4. QED
    BY <2>1, <2>2, <2>3
<1>5. QED
  BY <1>1, <1>2, <1>3, <1>4 DEF EndTransaction, Inserted, Saved, Purged

\* Every other step leaves the tables.
LEMMA OnlyEndWrites == Next => tables' = tables \/ EndTransaction
BY DEF Next, Main, Goroutines, Start, InitDB, StartRetention, StartGoroutines, ShutDown, Checkpoint,
       ClosePool, Exit, Kill, Die, Signal, Reconcile, Poll, SchedWake, WorkerReceive, Classify, Purge,
       PurgerWake, Return, Tick

-----------------------------------------------------------------------------
(***************************************************************************)
(* The first state, and the steps of main.                                 *)
(***************************************************************************)
LEMMA InitInv == Init => Inv
<1> SUFFICES ASSUME Init PROVE Inv
  OBVIOUS
<1>1. MainTyped
  <2>1. cancelled \in BOOLEAN /\ torn \in BOOLEAN
    BY Zenon DEF Init
  <2>2. QED
    BY <2>1, ProcessAssumption DEF Init, MainTyped
<1>2. StoreTyped
  <2>1. tables \in Tables(clock)
    BY DEF Init, Tables
  <2>2. QED
    BY <2>1 DEF Init, StoreTyped, NoStmt
<1>3. GoroutinesTyped
  BY DEF Init, GoroutinesTyped, Off
<1>4. SettingsTyped(cfg)
  BY UnsetTyped DEF Init
<1>5. InHand = {} /\ sched.pc # "pause" /\ stmt.by = "none" /\ pc = "down" /\ exit = "none"
  BY DEF Init, InHand, Off, NoStmt
<1>6. NotRunning
  BY DEF Init, NotRunning
<1>7. WriterWaits /\ MessagesKnown /\ PurgeDue /\ PauseLeft /\ Closed /\ StopIsSelfContained
  BY <1>5 DEF Init, WriterWaits, MessagesKnown, PurgeDue, PauseLeft, Closed, StopIsSelfContained
<1>8. QED
  BY <1>1, <1>2, <1>3, <1>4, <1>6, <1>7 DEF Inv

\* The process is gone, by itself after closing the database or not.
LEMMA DieInv ==
  ASSUME Inv, NEW how, Die(how), UNCHANGED torn,
         how \in {"initDB", "killed"} \/ (how = exit /\ pc = "exiting")
  PROVE  Inv'
<1>1. MainTyped'
  <2>1. cancelled' \in BOOLEAN
    BY Zenon DEF Die
  <2>2. QED
    BY <2>1 DEF Die, Inv, MainTyped
<1>2. StoreTyped'
  BY DEF Die, Inv, StoreTyped, NoStmt
<1>3. GoroutinesTyped'
  BY DEF Die, GoroutinesTyped, Off
<1>4. SettingsTyped(cfg)'
  BY UnsetTyped DEF Die, SettingsTyped
<1>5. InHand' = {} /\ sched'.pc # "pause" /\ stmt'.by = "none" /\ pc' = "down" /\ exit' = how
  BY DEF Die, InHand, Off, NoStmt
<1>6. NotRunning'
  BY DEF Die, NotRunning
<1>7. WriterWaits' /\ MessagesKnown' /\ PauseLeft' /\ Closed'
  BY <1>5 DEF WriterWaits, MessagesKnown, PauseLeft, Closed
<1>8. PurgeDue'
  BY <1>5 DEF Die, PurgeDue
<1>9. StopIsSelfContained'
  BY <1>5 DEF Die, Inv, Closed, StopIsSelfContained
<1>10. QED
  BY <1>1, <1>2, <1>3, <1>4, <1>6, <1>7, <1>8, <1>9 DEF Inv

LEMMA StartInv ==
  ASSUME Inv, NEW f \in Files, NEW env \in Envs, NEW checkOnly \in BOOLEAN, Start(f, env, checkOnly)
  PROVE  Inv'
<1>0. UNCHANGED <<cancelled, sched, worker, purger, inbox, stmt, tables, file, clock, idle>>
      /\ pc = "down" /\ torn' = FALSE
  BY DEF Start
<1>1. MainTyped'
  <2>1. lives' \in 0..MaxLives
    BY ProcessAssumption DEF Start, Inv, MainTyped
  <2>2. pc' \in {pc, "initDB"} /\ exit' \in {"none", "checked", "load"}
    BY DEF Start
  <2>3. torn' \in BOOLEAN
    BY <1>0, Zenon
  <2>4. QED
    BY <1>0, <2>1, <2>2, <2>3 DEF Inv, MainTyped
<1>2. StoreTyped'
  BY <1>0 DEF Inv, StoreTyped
<1>3. NotRunning' /\ WriterWaits'
  BY <1>0 DEF Start, Inv, NotRunning, WriterWaits
<1>4. stmt = NoStmt /\ sched = Off /\ worker = Off /\ purger = Off
  BY <1>0 DEF Inv, NotRunning
<1>5. GoroutinesTyped'
  BY <1>0, <1>4 DEF GoroutinesTyped, Off
<1>6. SettingsTyped(cfg)'
  <2>1. cfg' = cfg \/ (Load(f, env).ok /\ cfg' = Load(f, env).cfg)
    BY DEF Start
  <2>2. QED
    BY <2>1, LoadTyped DEF Inv, SettingsTyped
<1>7. MessagesKnown'
  BY <1>0 DEF Inv, MessagesKnown, InHand, Known, Stored
<1>8. PurgeDue' /\ PauseLeft'
  BY <1>0, <1>4 DEF PurgeDue, PauseLeft, Off, NoStmt
<1>9. Closed' /\ StopIsSelfContained'
  BY <1>0 DEF Start, Closed, StopIsSelfContained
<1>10. QED
  BY <1>1, <1>2, <1>3, <1>5, <1>6, <1>7, <1>8, <1>9 DEF Inv

\* What the steps of main between Load and the end leave alone.
MainOnly == UNCHANGED <<cfg, lives, cancelled, inbox, stmt, tables, clock, idle>>

LEMMA MainKeepsMost ==
  ASSUME Inv, MainOnly, file' \in {file, tables},
         UNCHANGED sched \/ sched'.pc = "reconcile",
         UNCHANGED worker \/ worker' = [pc |-> "idle"]
  PROVE  StoreTyped' /\ SettingsTyped(cfg)' /\ MessagesKnown' /\ PauseLeft'
<1>1. StoreTyped'
  BY DEF MainOnly, Inv, StoreTyped
<1>2. InHand' \subseteq InHand
  BY DEF MainOnly, InHand
<1>3. QED
  BY <1>1, <1>2 DEF MainOnly, Inv, SettingsTyped, MessagesKnown, Known, Stored, PauseLeft

LEMMA MainInv == ASSUME Inv, Main PROVE Inv'
<1>1. CASE InitDB
  <2>1. CASE UNCHANGED <<exit, cfg, dir, blueprints, lives, cancelled, sched, worker, purger, inbox,
                         stmt, tables, file, clock, idle>> /\ pc' = "retention"
    <3>1. MainOnly /\ UNCHANGED <<file, sched, worker, purger>>
      BY <2>1 DEF MainOnly
    <3>2. StoreTyped' /\ SettingsTyped(cfg)' /\ MessagesKnown' /\ PauseLeft'
      BY <3>1, MainKeepsMost
    <3>3. MainTyped' /\ GoroutinesTyped' /\ PurgeDue'
      BY <1>1, <2>1 DEF InitDB, Inv, MainTyped, GoroutinesTyped, LongestPause, PurgeDue, Exact, Old
    <3>4. NotRunning' /\ WriterWaits' /\ Closed' /\ StopIsSelfContained'
      BY <1>1, <2>1 DEF InitDB, Inv, NotRunning, WriterWaits, Closed, StopIsSelfContained
    <3>5. QED
      BY <3>2, <3>3, <3>4 DEF Inv
  <2>2. CASE Die("initDB")
    <3>1. UNCHANGED torn
      BY <1>1 DEF InitDB
    <3>2. QED
      BY <2>2, <3>1, DieInv
  <2>3. QED
    BY <1>1, <2>1, <2>2 DEF InitDB
<1>2. CASE StartRetention
  <2>1. MainOnly /\ UNCHANGED <<file, sched, worker>>
    BY <1>2 DEF StartRetention, MainOnly
  <2>2. StoreTyped' /\ SettingsTyped(cfg)' /\ MessagesKnown' /\ PauseLeft'
    BY <2>1, MainKeepsMost
  <2>3. MainTyped' /\ NotRunning' /\ WriterWaits' /\ Closed' /\ StopIsSelfContained'
    BY <1>2 DEF StartRetention, Inv, MainTyped, NotRunning, WriterWaits, Closed, StopIsSelfContained, Off
  <2>4. purger' = purger \/ purger' = Job(ParseRetention(cfg.raw_content_retention))
    BY <1>2 DEF StartRetention
  <2>5. GoroutinesTyped'
    BY <2>1, <2>4 DEF Inv, GoroutinesTyped, LongestPause, MainOnly, Job, Off
  <2>6. PurgeDue'
    <3>1. Exact /\ purger' # purger /\ purger' # Off => Period(cfg.raw_content_retention) > 0
      BY <2>4, PeriodTyped DEF Inv, Job
    <3>2. QED
      BY <2>1, <3>1 DEF MainOnly, Inv, PurgeDue, Exact, Old
  <2>7. QED
    BY <2>2, <2>3, <2>5, <2>6 DEF Inv
<1>3. CASE StartGoroutines
  <2>1. MainOnly /\ UNCHANGED <<file, purger>>
    BY <1>3 DEF StartGoroutines, MainOnly
  <2>2. \/ UNCHANGED <<sched, worker>>
        \/ sched' = [pc |-> "reconcile", wait |-> 0] /\ worker' = [pc |-> "idle"]
    BY <1>3 DEF StartGoroutines
  <2>3. StoreTyped' /\ SettingsTyped(cfg)' /\ MessagesKnown' /\ PauseLeft'
    BY <2>1, <2>2, MainKeepsMost
  <2>4. MainTyped' /\ NotRunning' /\ WriterWaits' /\ Closed' /\ StopIsSelfContained'
    BY <1>3 DEF StartGoroutines, Inv, MainTyped, NotRunning, WriterWaits, Closed, StopIsSelfContained, Off
  <2>5. GoroutinesTyped'
    BY <2>1, <2>2 DEF Inv, GoroutinesTyped, LongestPause, MainOnly
  <2>6. PurgeDue'
    BY <2>1 DEF MainOnly, Inv, PurgeDue, Exact, Old
  <2>7. QED
    BY <2>3, <2>4, <2>5, <2>6 DEF Inv
<1>4. CASE ShutDown \/ Checkpoint \/ ClosePool
  <2>1. MainOnly /\ UNCHANGED <<sched, worker, purger>> /\ file' \in {file, tables}
    BY <1>4 DEF ShutDown, Checkpoint, ClosePool, MainOnly
  <2>2. StoreTyped' /\ SettingsTyped(cfg)' /\ MessagesKnown' /\ PauseLeft'
    BY <2>1, MainKeepsMost
  <2>3. torn' \in BOOLEAN
    <3>1. ClosePool => torn' = (stmt # NoStmt)
      BY DEF ClosePool
    <3>2. ~ClosePool => torn' = torn
      BY <1>4 DEF ShutDown, Checkpoint
    <3>3. torn \in BOOLEAN
      BY DEF Inv, MainTyped
    <3>4. QED
      BY <3>1, <3>2, <3>3, Zenon
  <2>4. MainTyped'
    BY <1>4, <2>1, <2>3 DEF ShutDown, Checkpoint, ClosePool, MainOnly, Inv, MainTyped
  <2>5. NotRunning' /\ WriterWaits' /\ StopIsSelfContained'
    BY <1>4 DEF ShutDown, Checkpoint, ClosePool, Inv, NotRunning, WriterWaits, StopIsSelfContained
  <2>6. Closed'
    BY <1>4 DEF ShutDown, Checkpoint, ClosePool, Closed
  <2>7. GoroutinesTyped' /\ PurgeDue'
    BY <2>1 DEF MainOnly, Inv, GoroutinesTyped, LongestPause, PurgeDue, Exact, Old
  <2>8. QED
    BY <2>2, <2>4, <2>5, <2>6, <2>7 DEF Inv
<1>5. CASE Exit
  <2>1. pc = "exiting" /\ Die(exit) /\ UNCHANGED torn
    BY <1>5 DEF Exit
  <2>2. QED
    BY <2>1, DieInv
<1>6. QED
  BY <1>1, <1>2, <1>3, <1>4, <1>5 DEF Main

\* A signal only cancels the context.
LEMMA SignalInv == ASSUME Inv, Signal PROVE Inv'
<1>1. cancelled' \in BOOLEAN
  BY Zenon DEF Signal
<1>2. UNCHANGED <<pc, exit, cfg, lives, sched, worker, purger, inbox, stmt, tables, file, clock, idle, torn>>
  BY DEF Signal, mainVars
<1>3. MainTyped' /\ StoreTyped' /\ GoroutinesTyped' /\ SettingsTyped(cfg)'
  BY <1>1, <1>2 DEF Inv, MainTyped, StoreTyped, GoroutinesTyped, LongestPause, SettingsTyped
<1>4. NotRunning' /\ WriterWaits' /\ MessagesKnown' /\ PurgeDue' /\ PauseLeft' /\ Closed' /\ StopIsSelfContained'
  BY <1>2 DEF Inv, NotRunning, WriterWaits, MessagesKnown, InHand, Known, Stored, PurgeDue, Exact, Old, PauseLeft,
              Closed, StopIsSelfContained
<1>5. QED
  BY <1>3, <1>4 DEF Inv

-----------------------------------------------------------------------------
(***************************************************************************)
(* The steps of the goroutines.                                            *)
(***************************************************************************)
\* A pause is at least interval - jitter, and at most their sum.
LEMMA PauseLength ==
  ASSUME Inv, Pause
  PROVE  /\ sched' \in [pc : {"reconcile", "poll", "writing", "pause"}, wait : Int]
         /\ sched'.wait \in 0..LongestPause
         /\ sched'.wait >= cfg.interval - Positive(cfg.jitter)
<1>1. cfg.interval \in Int /\ cfg.jitter \in Int
  BY DEF Inv, SettingsTyped
<1>2. PICK d \in Pauses : sched' = [pc |-> "pause", wait |-> IF d > 0 THEN d ELSE 0]
  BY DEF Pause
<1>3. /\ d \in Int /\ d >= cfg.interval - Positive(cfg.jitter)
      /\ d <= Positive(cfg.interval) + Positive(cfg.jitter)
  <2>1. CASE cfg.interval > 0 /\ cfg.jitter > 0
    <3>1. PICK j \in -cfg.jitter..cfg.jitter : d = cfg.interval + j
      BY <1>2, <2>1 DEF Pauses
    <3>2. QED
      BY <1>1, <2>1, <3>1 DEF Positive
  <2>2. CASE ~(cfg.interval > 0 /\ cfg.jitter > 0)
    <3>1. d = cfg.interval
      BY <1>2, <2>2 DEF Pauses
    <3>2. QED
      BY <1>1, <3>1 DEF Positive
  <2>3. QED
    BY <2>1, <2>2
<1>4. sched'.wait = IF d > 0 THEN d ELSE 0
  BY <1>2
<1>5. Positive(cfg.interval) + Positive(cfg.jitter) >= 0
  BY <1>1 DEF Positive
<1>6. sched'.wait \in Int /\ sched'.wait \in 0..LongestPause
      /\ sched'.wait >= cfg.interval - Positive(cfg.jitter)
  BY <1>1, <1>3, <1>4, <1>5 DEF LongestPause, Positive
<1>7. sched' = [pc |-> "pause", wait |-> sched'.wait]
  BY <1>2
<1>8. QED
  BY <1>6, <1>7

\* A step of a goroutine that writes no table.
Quiet ==
  /\ pc # "down"
  /\ UNCHANGED <<pc, exit, cfg, lives, cancelled, tables, file, clock, torn>>
  /\ idle' \in {idle, 0}
  /\ sched' = Off \/ sched # Off
  /\ worker' = Off \/ worker # Off
  /\ purger' = Off \/ purger # Off

\* The transaction under way is left alone, or one begins.
LEMMA QuietInv ==
  ASSUME Inv, Quiet, GoroutinesTyped', PauseLeft', WriterWaits', inbox' \subseteq Message,
         \A m \in InHand' : m \in InHand \/ Known(m),
         \/ UNCHANGED stmt
         \/ \E rows \in SUBSET Updates : Begin("sched", rows)
         \/ \E rows \in SUBSET Stored : Begin("worker", rows)
         \/ purger # Off /\ Begin("purger", Expired)
  PROVE  Inv'
<1>1. UNCHANGED stmt \/ (pc # "exiting" /\ stmt'.by \in {"sched", "worker", "purger"} /\ stmt'.rows \subseteq Updates)
  BY DEF Begin, Refused, Stored, Expired
<1>2. stmt'.by = "worker" => UNCHANGED stmt \/ stmt'.rows \subseteq Stored
  BY DEF Begin
<1>3. stmt'.by = "purger" => UNCHANGED stmt \/ (purger # Off /\ stmt'.rows = Expired)
  BY DEF Begin
<1>4. MainTyped'
  BY DEF Quiet, Inv, MainTyped
<1>5. StoreTyped'
  BY <1>1 DEF Quiet, Inv, StoreTyped
<1>6. SettingsTyped(cfg)' /\ StopIsSelfContained' /\ NotRunning'
  BY DEF Quiet, Inv, SettingsTyped, StopIsSelfContained, NotRunning
<1>7. MessagesKnown'
  BY <1>2 DEF Quiet, Inv, MessagesKnown, Known, Stored
<1>8. PurgeDue'
  <2>1. ASSUME Exact, NEW u \in Expired PROVE Old(u)
    <3>1. /\ tables.raw[u] \in 0..clock /\ clock \in Int
          /\ tables.raw[u] < clock - ParseRetention(cfg.raw_content_retention)
      BY <2>1 DEF Expired, Inv, StoreTyped, MainTyped, Tables
    <3>2. QED
      BY <2>1, <3>1, PeriodTyped DEF Inv, Old
  <2>2. QED
    BY <1>3, <2>1 DEF Quiet, Inv, PurgeDue, Exact, Old
<1>9. Closed'
  BY <1>1 DEF Quiet, Inv, Closed
<1>10. QED
  BY <1>4, <1>5, <1>6, <1>7, <1>8, <1>9 DEF Inv

LEMMA ReconcileInv == ASSUME Inv, Reconcile PROVE Inv'
<1>1. sched # Off /\ pc # "down"
  BY DEF Reconcile, Off, Inv, NotRunning
<1>2. Quiet /\ UNCHANGED <<stmt, worker, purger, cfg>>
  BY <1>1 DEF Reconcile, Quiet, mainVars
<1>3. sched' \in [pc : {"poll"}, wait : Int]
  BY <1>1 DEF Reconcile, Inv, GoroutinesTyped
<1>4. GoroutinesTyped' /\ PauseLeft' /\ WriterWaits'
  BY <1>2, <1>3 DEF Reconcile, SchedWake, Inv, GoroutinesTyped, LongestPause, PauseLeft, WriterWaits
<1>5. ASSUME NEW m \in Messages(Pending) PROVE m \in Message /\ Known(m)
  <2>1. PICK u \in Pending : m = [update |-> u, full |-> tables.raw[u] # NoText]
    BY DEF Messages
  <2>2. m.update = u /\ (m.full <=> tables.raw[u] # NoText)
    BY <2>1, Zenon
  <2>3. u \in Updates /\ tables.row[u] = "pending"
    BY <2>1 DEF Pending
  <2>4. m \in Message
    <3>1. (tables.raw[u] # NoText) \in BOOLEAN
      BY Zenon
    <3>2. QED
      BY <2>1, <2>3, <3>1, Zenon DEF Message
  <2>5. QED
    BY <2>2, <2>3, <2>4 DEF Known
<1>6. inbox' \subseteq inbox \cup Messages(Pending)
  BY DEF Reconcile
<1>7. inbox' \subseteq Message
  BY <1>5, <1>6 DEF Inv, StoreTyped
<1>8. \A m \in InHand' : m \in InHand \/ Known(m)
  BY <1>2, <1>5, <1>6 DEF InHand
<1>9. QED
  BY <1>2, <1>4, <1>7, <1>8, QuietInv

LEMMA PollInv == ASSUME Inv, Poll PROVE Inv'
<1>1. sched # Off /\ pc # "down"
  BY DEF Poll, Off, Inv, NotRunning
<1>2. Quiet /\ UNCHANGED <<inbox, worker, purger, cfg, idle>>
  BY <1>1 DEF Poll, Quiet, mainVars
<1>3. \/ sched' \in [pc : {"writing"}, wait : Int]
      \/ Pause
  BY <1>1 DEF Poll, Inv, GoroutinesTyped
<1>4. GoroutinesTyped'
  BY <1>2, <1>3, PauseLength DEF Inv, GoroutinesTyped, LongestPause
<1>5. PauseLeft'
  <2>1. CASE sched'.pc # "pause"
    BY <2>1 DEF PauseLeft
  <2>2. CASE Pause
    <3>1. sched'.wait \in Int /\ idle \in Nat /\ sched'.wait >= cfg.interval - Positive(cfg.jitter)
      BY <2>2, PauseLength DEF Inv, MainTyped
    <3>2. cfg.interval - Positive(cfg.jitter) \in Int
      BY DEF Inv, SettingsTyped, Positive
    <3>3. QED
      BY <1>2, <3>1, <3>2 DEF PauseLeft
  <2>3. QED
    BY <1>3, <2>1, <2>2
<1>6. UNCHANGED stmt \/ \E rows \in SUBSET Updates : Begin("sched", rows)
  BY DEF Poll
<1>7. inbox' \subseteq Message /\ InHand' = InHand
  BY <1>2 DEF Inv, StoreTyped, InHand
<1>8. WriterWaits'
  <2>1. sched \in [pc : {"reconcile", "poll", "writing", "pause"}, wait : Int]
    BY <1>1 DEF Inv, GoroutinesTyped
  <2>2. CASE Pause /\ UNCHANGED stmt
    BY <1>2, <2>2 DEF Poll, Inv, WriterWaits
  <2>3. CASE sched' = [sched EXCEPT !.pc = "writing"] /\ \E rows \in SUBSET Updates : Begin("sched", rows)
    <3>1. sched'.pc = "writing"
      BY <2>1, <2>3
    <3>2. stmt'.by = "sched"
      BY <2>3 DEF Begin
    <3>3. QED
      BY <3>1, <3>2 DEF WriterWaits
  <2>4. QED
    BY <2>2, <2>3 DEF Poll
<1>9. QED
  BY <1>2, <1>4, <1>5, <1>6, <1>7, <1>8, QuietInv

LEMMA SchedWakeInv == ASSUME Inv, SchedWake PROVE Inv'
<1>1. sched # Off /\ pc # "down"
  BY DEF SchedWake, Off, Inv, NotRunning
<1>2. Quiet /\ UNCHANGED <<inbox, worker, purger, cfg, stmt>>
  BY <1>1 DEF SchedWake, Quiet, mainVars
<1>3. sched' \in [pc : {"reconcile"}, wait : Int]
  BY <1>1 DEF SchedWake, Inv, GoroutinesTyped
<1>4. GoroutinesTyped' /\ PauseLeft' /\ WriterWaits'
  BY <1>2, <1>3 DEF Reconcile, SchedWake, Inv, GoroutinesTyped, LongestPause, PauseLeft, WriterWaits
<1>5. inbox' \subseteq Message /\ InHand' = InHand
  BY <1>2 DEF Inv, StoreTyped, InHand
<1>6. QED
  BY <1>2, <1>4, <1>5, QuietInv

LEMMA WorkerInv == ASSUME Inv, WorkerReceive \/ Classify PROVE Inv'
<1>1. worker # Off /\ pc # "down"
  BY DEF WorkerReceive, Classify, Off, Inv, NotRunning
<1>2. Quiet /\ UNCHANGED <<sched, purger, cfg, idle>>
  BY <1>1 DEF WorkerReceive, Classify, Quiet, mainVars
<1>3. PauseLeft'
  BY <1>2 DEF Inv, PauseLeft
<1>4. CASE WorkerReceive
  <2>1. PICK m \in inbox : worker' = [pc |-> "classify", msg |-> m] /\ inbox' = inbox \ {m}
    BY <1>4 DEF WorkerReceive
  <2>2. GoroutinesTyped'
    BY <1>2, <2>1 DEF Inv, StoreTyped, GoroutinesTyped, LongestPause
  <2>3. inbox' \subseteq Message /\ InHand' \subseteq InHand
    BY <2>1 DEF Inv, StoreTyped, InHand
  <2>4. UNCHANGED stmt
    BY <1>4 DEF WorkerReceive
  <2>5. WriterWaits'
    BY <1>2, <1>4, <2>4 DEF WorkerReceive, Inv, WriterWaits
  <2>6. QED
    BY <1>2, <1>3, <2>2, <2>3, <2>4, <2>5, QuietInv
<1>5. CASE Classify
  <2>1. worker \in [pc : {"classify"}, msg : Message]
    BY <1>1, <1>5 DEF Classify, Inv, GoroutinesTyped
  <2>2. worker' \in [pc : {"idle"}] \/ (worker' \in [pc : {"writing"}, msg : Message] /\ worker'.msg = worker.msg)
    BY <1>5, <2>1 DEF Classify
  <2>3. GoroutinesTyped'
    BY <1>2, <2>2 DEF Inv, GoroutinesTyped, LongestPause
  <2>4. inbox' \subseteq Message /\ InHand' \subseteq InHand
    BY <1>5, <2>1, <2>2 DEF Classify, Inv, StoreTyped, InHand
  <2>5. {worker.msg.update} \in SUBSET Stored
    BY <2>1 DEF Inv, MessagesKnown, InHand, Known, Stored, Message
  <2>6. UNCHANGED stmt \/ Begin("worker", {worker.msg.update})
    BY <1>5 DEF Classify
  <2>7. WriterWaits'
    BY <1>2, <1>5, <2>1 DEF Classify, Begin, Inv, WriterWaits
  <2>8. QED
    BY <1>2, <1>3, <2>3, <2>4, <2>5, <2>6, <2>7, QuietInv
<1>6. QED
  BY <1>4, <1>5

LEMMA PurgerInv == ASSUME Inv, Purge \/ PurgerWake PROVE Inv'
<1>1. purger # Off /\ pc # "down"
  BY DEF Purge, PurgerWake, Off, Inv, NotRunning
<1>2. Quiet /\ UNCHANGED <<sched, worker, inbox, cfg, idle>>
  BY <1>1 DEF Purge, PurgerWake, Quiet, mainVars
<1>3. PauseLeft'
  BY <1>2 DEF Inv, PauseLeft
<1>4. purger' \in [pc : {"purge", "writing", "sleep"}, wait : Int]
  BY <1>1, ConfigAssumption DEF Purge, PurgerWake, Sleep, Inv, GoroutinesTyped
<1>5. GoroutinesTyped'
  BY <1>2, <1>4 DEF Inv, GoroutinesTyped, LongestPause
<1>6. inbox' \subseteq Message /\ InHand' = InHand
  BY <1>2 DEF Inv, StoreTyped, InHand
<1>7. UNCHANGED stmt \/ Begin("purger", Expired)
  BY DEF Purge, PurgerWake
<1>8. WriterWaits'
  <2>1. purger \in [pc : {"purge", "writing", "sleep"}, wait : Int]
    BY <1>1 DEF Inv, GoroutinesTyped
  <2>2. QED
    BY <1>2, <2>1 DEF Purge, PurgerWake, Begin, Inv, WriterWaits
<1>9. QED
  BY <1>1, <1>2, <1>3, <1>5, <1>6, <1>7, <1>8, QuietInv

LEMMA ReturnInv == ASSUME Inv, Return PROVE Inv'
<1>1. /\ UNCHANGED <<inbox, cfg, idle, stmt>>
      /\ UNCHANGED <<pc, exit, lives, cancelled, tables, file, clock, torn>>
  BY DEF Return, mainVars
<1>2. /\ sched' \in {sched, Off} /\ worker' \in {worker, Off} /\ purger' \in {purger, Off}
      /\ (sched # Off \/ worker # Off \/ purger # Off)
  BY DEF Return, Off
<1>3. pc # "down"
  BY <1>2 DEF Inv, NotRunning
<1>4. Quiet
  BY <1>1, <1>2, <1>3 DEF Quiet
<1>5. PauseLeft' /\ GoroutinesTyped'
  BY <1>1, <1>2 DEF Inv, PauseLeft, GoroutinesTyped, LongestPause, Off
<1>6. inbox' \subseteq Message /\ InHand' \subseteq InHand
  BY <1>1, <1>2 DEF Inv, StoreTyped, InHand, Off
<1>7. WriterWaits'
  BY <1>1 DEF Return, Inv, WriterWaits
<1>8. QED
  BY <1>1, <1>4, <1>5, <1>6, <1>7, QuietInv

LEMMA EndTransactionInv == ASSUME Inv, EndTransaction PROVE Inv'
<1>1. /\ stmt' = NoStmt /\ file' \in {file, tables'}
      /\ (file' = file \/ pc = "exiting")
      /\ UNCHANGED <<pc, exit, cfg, lives, cancelled, clock, idle, torn>>
  BY DEF EndTransaction, mainVars
<1>2. stmt # NoStmt /\ pc # "down"
  BY DEF EndTransaction, Inserted, Saved, Purged, NoStmt, Inv, NotRunning
<1>3. \/ stmt.by = "sched" /\ Pause /\ UNCHANGED <<worker, purger>>
      \/ stmt.by = "worker" /\ worker' = [pc |-> "idle"] /\ UNCHANGED <<sched, purger>>
      \/ stmt.by = "purger" /\ purger' = Sleep /\ UNCHANGED <<sched, worker>>
  BY DEF EndTransaction, Inserted, Saved, Purged
<1>4. MainTyped'
  BY <1>1 DEF Inv, MainTyped
<1>5. StoreTyped'
  BY <1>1, EndEffects DEF Inv, StoreTyped, NoStmt
<1>6. SettingsTyped(cfg)'
  BY <1>1 DEF Inv, SettingsTyped
<1>7. GoroutinesTyped'
  BY <1>1, <1>3, PauseLength, ConfigAssumption DEF Inv, GoroutinesTyped, LongestPause, Sleep
<1>8. PauseLeft'
  <2>1. CASE UNCHANGED sched
    BY <1>1, <2>1 DEF Inv, PauseLeft
  <2>2. CASE Pause
    <3>1. sched'.wait \in Int /\ idle \in Nat /\ sched'.wait >= cfg.interval - Positive(cfg.jitter)
      BY <2>2, PauseLength DEF Inv, MainTyped
    <3>2. cfg.interval - Positive(cfg.jitter) \in Int
      BY DEF Inv, SettingsTyped, Positive
    <3>3. QED
      BY <1>1, <3>1, <3>2 DEF PauseLeft
  <2>3. QED
    BY <1>3, <2>1, <2>2
<1>9. NotRunning'
  <2>1. NoStmt.by = "none"
    BY DEF NoStmt
  <2>2. sched' # Off => sched # Off
    BY <1>3 DEF Inv, WriterWaits, Off
  <2>3. worker' # Off => worker # Off
    BY <1>3 DEF Inv, WriterWaits, Off
  <2>4. purger' # Off => purger # Off
    BY <1>3 DEF Inv, WriterWaits, Off
  <2>5. QED
    BY <1>1, <1>2, <2>1, <2>2, <2>3, <2>4 DEF Inv, NotRunning
<1>10. MessagesKnown' /\ WriterWaits'
  <2>1. ASSUME NEW m \in InHand' PROVE Known(m)'
    <3>1. CASE m \in inbox' \ inbox
      BY <3>1, EndEffects DEF Known
    <3>2. CASE m \in InHand
      <4>1. m.update \in Updates /\ Known(m)
        BY <3>2 DEF Inv, StoreTyped, GoroutinesTyped, MessagesKnown, InHand, Message, Off
      <4>2. Advances(tables.row[m.update], tables'.row[m.update])
            /\ (tables.raw[m.update] = NoText => tables'.raw[m.update] = NoText)
        BY <4>1, EndEffects DEF Known
      <4>3. QED
        BY <4>1, <4>2 DEF Known, Advances
    <3>3. QED
      BY <1>3, <3>1, <3>2 DEF InHand
  <2>2. QED
    BY <1>1, <2>1 DEF MessagesKnown, WriterWaits, NoStmt
<1>11. PurgeDue'
  <2>1. purger' # Off => purger # Off \/ stmt.by = "purger"
    BY <1>3
  <2>2. stmt'.by = "none"
    BY <1>1 DEF NoStmt
  <2>3. QED
    BY <1>1, <2>1, <2>2 DEF Inv, PurgeDue, Exact
<1>12. Closed' /\ StopIsSelfContained'
  BY <1>1, <1>2 DEF Inv, Closed, StopIsSelfContained
<1>13. QED
  BY <1>4, <1>5, <1>6, <1>7, <1>8, <1>9, <1>10, <1>11, <1>12 DEF Inv

\* What a tick does to a goroutine.
LEMMA LessEffects ==
  ASSUME NEW S, NEW g \in {Off} \cup [pc : S, wait : Int]
  PROVE  /\ Less(g) = g \/ (g # Off /\ g.wait > 0 /\ Less(g) = [pc |-> g.pc, wait |-> g.wait - 1])
         /\ Less(g) \in {Off} \cup [pc : S, wait : Int]
         /\ Less(g).pc = g.pc
         /\ Less(Off) = Off
<1>1. Less(Off) = Off
  BY DEF Less, Off
<1>2. CASE g = Off
  BY <1>1, <1>2
<1>3. CASE g \in [pc : S, wait : Int]
  <2>1. [g EXCEPT !.wait = @ - 1] = [pc |-> g.pc, wait |-> g.wait - 1]
    BY <1>3
  <2>2. [pc |-> g.pc, wait |-> g.wait - 1] \in [pc : S, wait : Int]
    BY <1>3
  <2>3. CASE g = Off
    BY <1>1, <2>3
  <2>4. CASE g # Off
    BY <1>1, <1>3, <2>1, <2>2, <2>4 DEF Less
  <2>5. QED
    BY <2>3, <2>4
<1>4. QED
  BY <1>2, <1>3

LEMMA TickInv == ASSUME Inv, Tick PROVE Inv'
<1>1. /\ clock' = clock + 1 /\ clock < MaxTime /\ clock \in Nat
      /\ UNCHANGED <<pc, exit, cfg, lives, cancelled, worker, inbox, stmt, tables, file, torn>>
  BY DEF Tick, mainVars, Inv, MainTyped
<1>2. /\ idle \in 0..clock /\ cfg.interval \in Int /\ cfg.jitter \in Int
      /\ cfg.interval - Positive(cfg.jitter) \in Int
      /\ cfg.interval - Positive(cfg.jitter) <= cfg.interval
  BY DEF Inv, MainTyped, SettingsTyped, Positive
<1>3. sched' = Less(sched) /\ purger' = Less(purger)
      /\ idle' = IF idle < cfg.interval /\ sched # Off THEN idle + 1 ELSE idle
  BY DEF Tick
<1>4. /\ \/ sched' = sched
         \/ sched # Off /\ sched.wait > 0 /\ sched' = [pc |-> sched.pc, wait |-> sched.wait - 1]
      /\ sched' \in {Off} \cup [pc : {"reconcile", "poll", "writing", "pause"}, wait : Int]
      /\ sched'.pc = sched.pc
  <2>1. sched \in {Off} \cup [pc : {"reconcile", "poll", "writing", "pause"}, wait : Int]
    BY DEF Inv, GoroutinesTyped
  <2>2. QED
    BY <1>3, <2>1, LessEffects
<1>5. /\ purger' \in {Off} \cup [pc : {"purge", "writing", "sleep"}, wait : Int]
      /\ purger'.pc = purger.pc
  BY <1>3, LessEffects DEF Inv, GoroutinesTyped
<1>6. Less(Off) = Off
  BY DEF Less, Off
<1>7. MainTyped'
  <2>1. idle' \in 0..clock' /\ clock' \in 0..MaxTime
    BY <1>1, <1>2, <1>3, ProcessAssumption
  <2>2. QED
    BY <1>1, <2>1 DEF Inv, MainTyped
<1>8. StoreTyped'
  <2>1. Tables(clock) \subseteq Tables(clock')
    <3>1. 0..clock \subseteq 0..clock'
      BY <1>1
    <3>2. QED
      BY <3>1 DEF Tables
  <2>2. QED
    BY <1>1, <2>1 DEF Inv, StoreTyped
<1>9. GoroutinesTyped'
  <2>1. sched'.pc = "pause" => sched'.wait \in 0..LongestPause
    BY <1>4, <1>2 DEF Inv, GoroutinesTyped, LongestPause, Positive
  <2>2. QED
    BY <1>1, <1>4, <1>5, <2>1 DEF Inv, GoroutinesTyped, LongestPause
<1>10. SettingsTyped(cfg)' /\ NotRunning' /\ WriterWaits'
  BY <1>1, <1>3, <1>4, <1>5, <1>6 DEF Inv, SettingsTyped, NotRunning, WriterWaits
<1>11. MessagesKnown' /\ Closed' /\ StopIsSelfContained'
  BY <1>1 DEF Inv, MessagesKnown, InHand, Known, Stored, Closed, StopIsSelfContained
<1>12. PurgeDue'
  <2>1. ASSUME NEW u \in Updates, tables.raw[u] # NoText, Old(u) PROVE Old(u)'
    <3>1. tables.raw[u] \in Nat /\ Period(cfg.raw_content_retention) \in Int
      BY <2>1, PeriodTyped DEF Inv, StoreTyped, Tables
    <3>2. QED
      BY <1>1, <2>1, <3>1 DEF Old
  <2>2. purger' # Off => purger # Off
    BY <1>3, <1>6
  <2>3. stmt.rows \subseteq Updates
    BY DEF Inv, StoreTyped
  <2>4. QED
    BY <1>1, <2>1, <2>2, <2>3 DEF Inv, PurgeDue, Exact
<1>13. PauseLeft'
  <2> SUFFICES ASSUME sched'.pc = "pause"
               PROVE  sched'.wait + idle' >= cfg.interval - Positive(cfg.jitter)
    BY <1>1 DEF PauseLeft
  <2>1. /\ sched # Off /\ sched.wait \in Nat
        /\ sched.wait + idle >= cfg.interval - Positive(cfg.jitter)
    <3>1. sched.pc = "pause"
      BY <1>4
    <3>2. LongestPause \in Int
      BY <1>2 DEF LongestPause, Positive
    <3>3. QED
      BY <3>1, <3>2 DEF Inv, GoroutinesTyped, PauseLeft, Off
  <2>2. sched'.wait \in Nat /\ sched'.wait >= sched.wait - 1
    BY <1>4, <2>1
  <2>3. CASE idle < cfg.interval
    BY <1>2, <1>3, <2>1, <2>2, <2>3
  <2>4. CASE idle >= cfg.interval
    BY <1>2, <1>3, <2>2, <2>4
  <2>5. QED
    BY <1>2, <2>3, <2>4
<1>14. QED
  BY <1>7, <1>8, <1>9, <1>10, <1>11, <1>12, <1>13 DEF Inv

LEMMA StutterInv == ASSUME Inv, UNCHANGED vars PROVE Inv'
<1>1. UNCHANGED <<pc, exit, cancelled, cfg, lives, sched, worker, purger, inbox, stmt, tables, file, clock, idle, torn>>
  BY DEF vars, mainVars
<1>2. MainTyped' /\ StoreTyped' /\ GoroutinesTyped' /\ SettingsTyped(cfg)'
  BY <1>1 DEF Inv, MainTyped, StoreTyped, GoroutinesTyped, LongestPause, SettingsTyped
<1>3. NotRunning' /\ WriterWaits' /\ MessagesKnown' /\ PurgeDue' /\ PauseLeft' /\ Closed' /\ StopIsSelfContained'
  BY <1>1 DEF Inv, NotRunning, WriterWaits, MessagesKnown, InHand, Known, Stored, PurgeDue, Exact, Old, PauseLeft,
              Closed, StopIsSelfContained
<1>4. QED
  BY <1>2, <1>3 DEF Inv

LEMMA NextInv == Inv /\ [Next]_vars => Inv'
<1> SUFFICES ASSUME Inv, [Next]_vars PROVE Inv'
  OBVIOUS
<1>1. CASE \E f \in Files, env \in Envs, checkOnly \in BOOLEAN : Start(f, env, checkOnly)
  BY <1>1, StartInv
<1>2. CASE Main
  BY <1>2, MainInv
<1>3. CASE Signal
  BY <1>3, SignalInv
<1>4. CASE Kill
  <2>1. Die("killed") /\ UNCHANGED torn
    BY <1>4 DEF Kill
  <2>2. QED
    BY <2>1, DieInv
<1>5. CASE Goroutines
  BY <1>5, ReconcileInv, PollInv, SchedWakeInv, WorkerInv, PurgerInv, EndTransactionInv, ReturnInv
     DEF Goroutines
<1>6. CASE Tick
  BY <1>6, TickInv
<1>7. CASE UNCHANGED vars
  BY <1>7, StutterInv
<1>8. QED
  BY <1>1, <1>2, <1>3, <1>4, <1>5, <1>6, <1>7 DEF Next

LEMMA SpecInv == Spec => []Inv
<1>1. QED
  BY InitInv, NextInv, PTL DEF Spec

-----------------------------------------------------------------------------
(***************************************************************************)
(* The theorems.                                                           *)
(***************************************************************************)
\* The store, the goroutines and main are well typed in every life.
THEOREM ProcessTypeCorrect == Spec => []TypeOK
<1>1. Inv => TypeOK
  <2> SUFFICES ASSUME Inv PROVE TypeOK
    OBVIOUS
  <2>1. \A t \in {tables, file} :
          /\ t.row \in [Updates -> {"none", "pending", "done"}]
          /\ t.raw \in [Updates -> (0..clock) \cup {NoText}]
    BY DEF Inv, StoreTyped, Tables
  <2>2. idle \in 0..MaxTime
    BY ProcessAssumption DEF Inv, MainTyped
  <2>3. /\ sched.pc \in {"off", "reconcile", "poll", "writing", "pause"}
        /\ worker.pc \in {"off", "idle", "classify", "writing"}
        /\ purger.pc \in {"off", "purge", "writing", "sleep"}
    BY DEF Inv, GoroutinesTyped, Off
  <2>4. QED
    BY <2>1, <2>2, <2>3 DEF Inv, MainTyped, StoreTyped, GoroutinesTyped, Message, TypeOK
<1>2. QED
  BY <1>1, SpecInv, PTL

\* A message without a text is about an update whose text was purged, in this
\* life or an earlier one (messageFor, PurgeRawContent).
THEOREM BlindOnlyAfterPurge == Spec => []BlindOnlyIfPurged
<1>1. Inv => BlindOnlyIfPurged
  BY DEF Inv, MessagesKnown, Known, BlindOnlyIfPurged
<1>2. QED
  BY <1>1, SpecInv, PTL

\* A stop with no transaction under way leaves a file that needs no WAL
\* (storage.Close).
THEOREM StopLeavesWholeFile == Spec => []StopIsSelfContained
<1>1. Inv => StopIsSelfContained
  BY DEF Inv
<1>2. QED
  BY <1>1, SpecInv, PTL

\* Updates and verdicts outlive every purge, kill and restart.
THEOREM RowsNeverGo == Spec => RowsLiveForever
<1>1. Inv /\ [Next]_vars => [\A u \in Updates : Advances(tables.row[u], tables'.row[u])]_vars
  BY OnlyEndWrites, EndEffects DEF Advances
<1>2. QED
  BY <1>1, SpecInv, PTL DEF Spec, RowsLiveForever

\* The retention job removes no text before its time, whatever the setting, if it
\* fits a time.Duration (PurgeRawContent, ParseRetention).
THEOREM TextsKept == Spec => KeptForRetention
<1>1. ASSUME Inv, Next, NEW u \in Updates, tables.raw[u] # NoText, tables'.raw[u] = NoText,
             Representable(Period(cfg.raw_content_retention))
      PROVE  /\ Period(cfg.raw_content_retention) > 0
             /\ clock - tables.raw[u] > Period(cfg.raw_content_retention)
  <2>1. EndTransaction
    BY <1>1, OnlyEndWrites
  <2>2. stmt.by = "purger" /\ u \in stmt.rows
    BY <1>1, <2>1, EndEffects
  <2>3. QED
    BY <1>1, <2>2 DEF Inv, PurgeDue, Exact, Old
<1>2. Inv /\ [Next]_vars =>
        [\A u \in Updates :
           /\ tables.raw[u] # NoText /\ tables'.raw[u] = NoText
           /\ Representable(Period(cfg.raw_content_retention))
           => /\ Period(cfg.raw_content_retention) > 0
              /\ clock - tables.raw[u] > Period(cfg.raw_content_retention)]_vars
  BY <1>1
<1>3. QED
  BY <1>2, SpecInv, PTL DEF Spec, KeptForRetention

\* Tasks of the scheduler are at least interval - jitter apart (scheduler.Start).
THEOREM TasksKeepDistance == Spec => TicksSpaced
<1>1. ASSUME Inv, Next, sched.pc = "pause", sched'.pc = "reconcile"
      PROVE  idle >= cfg.interval - Positive(cfg.jitter)
  <2>1. SchedWake
    <3>1. sched # Off /\ pc \notin {"down", "initDB", "retention", "prompts"}
      BY <1>1 DEF Inv, NotRunning, Off
    <3>2. ~Tick
      <4>1. sched \in {Off} \cup [pc : {"reconcile", "poll", "writing", "pause"}, wait : Int]
        BY <1>1 DEF Inv, GoroutinesTyped
      <4>2. Less(sched).pc = sched.pc
        BY <4>1, LessEffects
      <4>3. QED
        BY <1>1, <4>2 DEF Tick
    <3>3. ~Kill /\ ~Exit /\ ~InitDB /\ ~StartGoroutines
      BY <1>1, <3>1 DEF Kill, Exit, Die, InitDB, StartGoroutines, Off
    <3>4. ~EndTransaction /\ ~Return
      BY <1>1 DEF EndTransaction, Inserted, Saved, Purged, Pause, Return, Off
    <3>5. ~Reconcile /\ ~Poll /\ ~WorkerReceive /\ ~Classify /\ ~Purge /\ ~PurgerWake /\ ~Signal
      BY <1>1 DEF Reconcile, Poll, WorkerReceive, Classify, Purge, PurgerWake, Signal
    <3>6. ~StartRetention /\ ~ShutDown /\ ~Checkpoint /\ ~ClosePool
      BY <1>1 DEF StartRetention, ShutDown, Checkpoint, ClosePool
    <3>7. \A f \in Files, env \in Envs, checkOnly \in BOOLEAN : ~Start(f, env, checkOnly)
      BY <1>1 DEF Start
    <3>8. QED
      BY <1>1, <3>2, <3>3, <3>4, <3>5, <3>6, <3>7 DEF Next, Main, Goroutines
  <2>2. sched.wait = 0
    BY <2>1 DEF SchedWake
  <2>3. idle \in Nat
    BY <1>1 DEF Inv, MainTyped
  <2>4. QED
    BY <1>1, <2>2, <2>3 DEF Inv, PauseLeft
<1>2. Inv /\ [Next]_vars =>
        [sched.pc = "pause" /\ sched'.pc = "reconcile"
           => idle >= cfg.interval - Positive(cfg.jitter)]_vars
  BY <1>1
<1>3. QED
  BY <1>2, SpecInv, PTL DEF Spec, TicksSpaced
-----------------------------------------------------------------------------
(***************************************************************************)
(* The prompt manager.  A walk is a recursive function: it exists, and     *)
(* what it has after each file follows from a least counterexample.        *)
(***************************************************************************)
\* A set of numbers that is not empty has a least one.
LEMMA LeastNumber ==
  ASSUME NEW T \in SUBSET Nat, T # {}
  PROVE  \E n \in T : \A k \in T : n <= k
<1>1. PICK n \in T : \A k \in T : ~(<<k, n>> \in OpToRel(<, Nat))
  BY NatLessThanWellFounded, WFMin
<1>2. \A k \in T : ~(k < n)
  BY <1>1 DEF OpToRel
<1>3. QED
  BY <1>2

\* The managers of a walk, one after another.
IsWalk(after, n, m, files, embedded) ==
  after = [k \in 0..n |-> IF k = 0 THEN m ELSE Visit(after[k - 1], files[k], embedded)]

\* They exist, though their definition is recursive.
LEMMA WalkExists ==
  ASSUME NEW m, NEW files, NEW embedded, NEW n \in Nat
  PROVE  \E after : IsWalk(after, n, m, files, embedded)
<1> DEFINE T == {k \in Nat : ~ \E after : IsWalk(after, k, m, files, embedded)}
<1> SUFFICES T = {}
  OBVIOUS
<1>1. 0 \notin T
  <2>1. IsWalk([k \in 0..0 |-> m], 0, m, files, embedded)
    BY DEF IsWalk
  <2>2. QED
    BY <2>1
<1>2. ASSUME NEW k \in Nat, k \notin T PROVE k + 1 \notin T
  <2>1. PICK after : IsWalk(after, k, m, files, embedded)
    BY <1>2
  <2> DEFINE next == [i \in 0..(k + 1) |-> IF i = k + 1 THEN Visit(after[k], files[k + 1], embedded) ELSE after[i]]
  <2>2. \A i \in 0..k : after[i] = IF i = 0 THEN m ELSE Visit(after[i - 1], files[i], embedded)
    BY <2>1 DEF IsWalk
  <2>3. \A i \in 0..(k + 1) : next[i] = IF i = 0 THEN m ELSE Visit(next[i - 1], files[i], embedded)
    <3>1. ASSUME NEW i \in 0..(k + 1) PROVE next[i] = IF i = 0 THEN m ELSE Visit(next[i - 1], files[i], embedded)
      <4>1. CASE i = k + 1
        BY <4>1
      <4>2. CASE i # k + 1
        <5>1. i \in 0..k
          BY <4>2
        <5>2. next[i] = after[i] /\ (i # 0 => next[i - 1] = after[i - 1])
          BY <5>1
        <5>3. QED
          BY <2>2, <5>1, <5>2
      <4>3. QED
        BY <4>1, <4>2
    <3>2. QED
      BY <3>1
  <2>4. IsWalk(next, k + 1, m, files, embedded)
    <3>1. next = [i \in 0..(k + 1) |-> next[i]]
      OBVIOUS
    <3> HIDE DEF next
    <3>2. QED
      BY <2>3, <3>1 DEF IsWalk
  <2>5. QED
    BY <2>4
<1> HIDE DEF T
<1>3. ASSUME T # {} PROVE FALSE
  <2>1. T \in SUBSET Nat
    BY DEF T
  <2>2. PICK k \in T : \A i \in T : k <= i
    BY <1>3, <2>1, LeastNumber
  <2>3. k \in Nat /\ k # 0
    BY <1>1, <2>1, <2>2
  <2>4. k - 1 \in Nat /\ k - 1 \notin T
    BY <2>2, <2>3
  <2>5. (k - 1) + 1 \notin T
    BY <1>2, <2>4
  <2>6. QED
    BY <2>2, <2>3, <2>5
<1>4. QED
  BY <1>3

LEMMA WalkSteps ==
  ASSUME NEW m, NEW files, NEW embedded, Len(files) \in Nat
  PROVE  \E after : /\ IsWalk(after, Len(files), m, files, embedded)
                    /\ Walk(m, files, embedded) = after[Len(files)]
<1> DEFINE walk == CHOOSE after : IsWalk(after, Len(files), m, files, embedded)
<1>1. IsWalk(walk, Len(files), m, files, embedded)
  BY WalkExists
<1>2. Walk(m, files, embedded) = walk[Len(files)]
  BY DEF Walk, IsWalk
<1> HIDE DEF walk
<1>3. QED
  BY <1>1, <1>2

\* What the first n files make of a manager, if none of them is fatal.
ReadOf(all, n) == {i \in 1..n : all[i].yaml /\ (i <= Len(Builtin) \/ ~all[i].hidden)}
SoundOf(all, n) == {i \in ReadOf(all, n) : all[i].sound}
LastOf(all, n, name) ==
  {i \in SoundOf(all, n) : /\ NameOf(all[i]) = name
                           /\ \A j \in SoundOf(all, n) : NameOf(all[j]) = name => j <= i}

Loaded(m, all, n) ==
  m.ok =>
    /\ \A i \in ReadOf(all, n) : all[i].decodes /\ (all[i].critical => all[i].sound)
    /\ DOMAIN m.blueprints = {NameOf(all[i]) : i \in SoundOf(all, n)}
    /\ \A name \in DOMAIN m.blueprints : \E last \in LastOf(all, n, name) : m.blueprints[name] = all[last]

\* One file more.
LEMMA VisitLoads ==
  ASSUME NEW all, NEW n \in Nat, NEW m, NEW embedded, embedded <=> n + 1 <= Len(Builtin),
         Loaded(m, all, n)
  PROVE  Loaded(Visit(m, all[n + 1], embedded), all, n + 1)
<1> DEFINE f == all[n + 1]
           next == Visit(m, f, embedded)
<1> SUFFICES ASSUME next.ok
             PROVE  /\ \A i \in ReadOf(all, n + 1) : all[i].decodes /\ (all[i].critical => all[i].sound)
                    /\ DOMAIN next.blueprints = {NameOf(all[i]) : i \in SoundOf(all, n + 1)}
                    /\ \A name \in DOMAIN next.blueprints :
                         \E last \in LastOf(all, n + 1, name) : next.blueprints[name] = all[last]
  BY DEF Loaded
<1>1. m.ok
  BY DEF Visit, Parse, Manager
<1>2. /\ \A i \in ReadOf(all, n) : all[i].decodes /\ (all[i].critical => all[i].sound)
      /\ DOMAIN m.blueprints = {NameOf(all[i]) : i \in SoundOf(all, n)}
      /\ \A name \in DOMAIN m.blueprints : \E last \in LastOf(all, n, name) : m.blueprints[name] = all[last]
  BY <1>1 DEF Loaded
<1> DEFINE read == f.yaml /\ (embedded \/ ~f.hidden)
<1>3. /\ ReadOf(all, n + 1) = IF read THEN ReadOf(all, n) \cup {n + 1} ELSE ReadOf(all, n)
      /\ ReadOf(all, n) \subseteq 1..n
  BY DEF ReadOf
<1>4. CASE ~read \/ ~f.sound
  <2>1. next = m
    BY <1>4 DEF Visit, Parse, Manager
  <2>2. SoundOf(all, n + 1) = SoundOf(all, n)
    BY <1>3, <1>4 DEF SoundOf
  <2>3. read => f.decodes /\ ~f.critical
    BY <1>4 DEF Visit, Parse, Manager
  <2>4. \A i \in ReadOf(all, n + 1) : all[i].decodes /\ (all[i].critical => all[i].sound)
    BY <1>2, <1>3, <2>3
  <2> HIDE DEF next, read, f
  <2>5. QED
    BY <1>2, <2>1, <2>2, <2>4 DEF LastOf
<1>5. CASE read /\ f.sound
  <2>1. f.decodes /\ next.blueprints = Put(m.blueprints, f)
    BY <1>5 DEF Visit, Parse, Manager
  <2>2. SoundOf(all, n + 1) = SoundOf(all, n) \cup {n + 1} /\ SoundOf(all, n) \subseteq 1..n
    BY <1>3, <1>5 DEF SoundOf
  <2>3. \A i \in ReadOf(all, n + 1) : all[i].decodes /\ (all[i].critical => all[i].sound)
    BY <1>2, <1>3, <1>5, <2>1
  <2> HIDE DEF next, read
  <2>4. /\ DOMAIN next.blueprints = {NameOf(f)} \cup DOMAIN m.blueprints
        /\ \A x \in {NameOf(f)} \cup DOMAIN m.blueprints :
             next.blueprints[x] = IF x = NameOf(f) THEN f ELSE m.blueprints[x]
    BY <2>1 DEF Put
  <2>5. DOMAIN next.blueprints = {NameOf(all[i]) : i \in SoundOf(all, n + 1)}
    BY <1>2, <2>2, <2>4
  <2>6. ASSUME NEW name \in DOMAIN next.blueprints
        PROVE  \E last \in LastOf(all, n + 1, name) : next.blueprints[name] = all[last]
    <3>1. CASE name = NameOf(f)
      <4>1. \A i \in SoundOf(all, n + 1) : i <= n + 1
        BY <2>2
      <4>2. n + 1 \in LastOf(all, n + 1, name)
        BY <2>2, <3>1, <4>1 DEF LastOf
      <4>3. QED
        BY <2>4, <3>1, <4>2
    <3>2. CASE name # NameOf(f)
      <4>1. PICK last \in LastOf(all, n, name) : m.blueprints[name] = all[last]
        BY <1>2, <2>4, <3>2
      <4>2. last \in LastOf(all, n + 1, name)
        BY <2>2, <3>2, <4>1 DEF LastOf
      <4>3. QED
        BY <2>4, <3>2, <4>1, <4>2
    <3>3. QED
      BY <3>1, <3>2
  <2>7. QED
    BY <2>3, <2>5, <2>6
<1>6. QED
  BY <1>4, <1>5

\* A whole walk.
LEMMA WalkLoads ==
  ASSUME NEW all, NEW n \in Nat, NEW m, NEW files, NEW embedded, Len(files) \in Nat,
         \A k \in 1..Len(files) : all[n + k] = files[k] /\ (embedded <=> n + k <= Len(Builtin)),
         Loaded(m, all, n)
  PROVE  Loaded(Walk(m, files, embedded), all, n + Len(files))
<1>1. PICK after : /\ IsWalk(after, Len(files), m, files, embedded)
                   /\ Walk(m, files, embedded) = after[Len(files)]
  BY WalkSteps
<1>2. \A k \in 0..Len(files) : after[k] = IF k = 0 THEN m ELSE Visit(after[k - 1], files[k], embedded)
  BY <1>1 DEF IsWalk
<1> DEFINE T == {k \in 0..Len(files) : ~Loaded(after[k], all, n + k)}
<1>3. 0 \notin T
  <2>1. after[0] = m /\ n + 0 = n
    BY <1>2
  <2>2. QED
    BY <2>1
<1>4. ASSUME NEW k \in 1..Len(files), k - 1 \notin T PROVE k \notin T
  <2>1. k - 1 \in 0..Len(files) /\ k \in 0..Len(files) /\ n + (k - 1) \in Nat /\ (n + (k - 1)) + 1 = n + k
    OBVIOUS
  <2>2. Loaded(after[k - 1], all, n + (k - 1))
    BY <1>4, <2>1
  <2>3. after[k] = Visit(after[k - 1], all[n + k], embedded)
    BY <1>2, <2>1
  <2>4. embedded <=> n + k <= Len(Builtin)
    OBVIOUS
  <2>5. Loaded(Visit(after[k - 1], all[(n + (k - 1)) + 1], embedded), all, (n + (k - 1)) + 1)
    BY <2>1, <2>2, <2>4, VisitLoads
  <2>6. QED
    BY <2>1, <2>3, <2>5
<1>5. T \in SUBSET (0..Len(files))
  OBVIOUS
<1>6. Len(files) \notin T => Loaded(after[Len(files)], all, n + Len(files))
  OBVIOUS
<1> HIDE DEF T
<1>7. T = {}
  <2> SUFFICES ASSUME T # {} PROVE FALSE
    OBVIOUS
  <2>1. PICK k \in T : \A i \in T : k <= i
    BY <1>5, LeastNumber
  <2>2. k \in 1..Len(files) /\ k - 1 \notin T
    BY <1>3, <1>5, <2>1
  <2>3. QED
    BY <1>4, <2>1, <2>2
<1>8. QED
  BY <1>1, <1>6, <1>7

\* The manager of a directory: the built-in files first, then its own.
LEMMA ManagerLoads ==
  ASSUME dir \in PromptDirs
  PROVE  Loaded(NewManager(dir), AllFiles, Len(AllFiles)) /\ AllFiles \in Seq(PromptFile)
<1> DEFINE files == IF dir.kind = "dir" THEN dir.files ELSE << >>
           empty == Manager(TRUE, << >>)
<1>1. Builtin \in Seq(PromptFile) /\ files \in Seq(PromptFile)
  BY PromptsAssumption, ProcessAssumption DEF PromptsAssumption, ProcessAssumption
<1>2. AllFiles = Builtin \o files
  BY DEF AllFiles
<1> HIDE DEF files
<1>3. Len(Builtin) \in Nat /\ Len(files) \in Nat
  BY <1>1, LenProperties
<1>4. /\ AllFiles \in Seq(PromptFile) /\ Len(AllFiles) = Len(Builtin) + Len(files)
      /\ \A i \in 1..(Len(Builtin) + Len(files)) :
           AllFiles[i] = IF i <= Len(Builtin) THEN Builtin[i] ELSE files[i - Len(Builtin)]
  BY <1>1, <1>2, ConcatProperties
<1>5. Loaded(empty, AllFiles, 0)
  BY DEF Loaded, Manager, ReadOf, SoundOf
<1>6. Loaded(LoadFS(empty), AllFiles, Len(Builtin))
  <2>1. \A k \in 1..Len(Builtin) : AllFiles[0 + k] = Builtin[k] /\ (TRUE <=> 0 + k <= Len(Builtin))
    BY <1>3, <1>4
  <2>2. Loaded(Walk(empty, Builtin, TRUE), AllFiles, 0 + Len(Builtin))
    BY <1>3, <1>5, <2>1, WalkLoads
  <2>3. 0 + Len(Builtin) = Len(Builtin)
    BY <1>3
  <2>4. QED
    BY <2>2, <2>3 DEF LoadFS
<1>7. Loaded(Walk(LoadFS(empty), files, FALSE), AllFiles, Len(AllFiles))
  <2>1. \A k \in 1..Len(files) : /\ AllFiles[Len(Builtin) + k] = files[k]
                                 /\ FALSE <=> Len(Builtin) + k <= Len(Builtin)
    BY <1>3, <1>4
  <2>2. QED
    BY <1>3, <1>4, <1>6, <2>1, WalkLoads
<1>8. Loaded(NewManager(dir), AllFiles, Len(AllFiles))
  <2>1. CASE ~LoadFS(empty).ok
    BY <2>1 DEF NewManager, Loaded
  <2>2. CASE LoadFS(empty).ok /\ dir.kind = "dir"
    BY <1>7, <2>2 DEF NewManager, LoadDir, files
  <2>3. CASE LoadFS(empty).ok /\ dir.kind = "notDir"
    BY <2>3 DEF NewManager, LoadDir, Loaded, Manager
  <2>4. CASE LoadFS(empty).ok /\ dir.kind \in {"unset", "missing"}
    <3>1. NewManager(dir) = LoadFS(empty)
      BY <2>4 DEF NewManager, LoadDir
    <3>2. Len(files) = 0
      BY <2>4, EmptySeq DEF files
    <3>3. Len(AllFiles) = Len(Builtin)
      BY <1>3, <1>4, <3>2
    <3>4. QED
      BY <1>6, <3>1, <3>3
  <2>5. dir.kind \in {"unset", "missing", "notDir", "dir"}
    BY ProcessAssumption DEF ProcessAssumption
  <2>6. QED
    BY <2>1, <2>2, <2>3, <2>4, <2>5
<1>9. QED
  BY <1>4, <1>8

\* While the prompts are loaded the directory is one that there may be.
DirChosen == pc = "prompts" => dir \in PromptDirs

LEMMA DirStays == Spec => []DirChosen
<1>1. Init => DirChosen
  BY DEF Init, DirChosen
<1>2. DirChosen /\ [Next]_vars => DirChosen'
  <2> SUFFICES ASSUME DirChosen, [Next]_vars PROVE DirChosen'
    OBVIOUS
  <2>1. CASE UNCHANGED mainVars
    BY <2>1 DEF mainVars, DirChosen
  <2>2. CASE \E f \in Files, env \in Envs, checkOnly \in BOOLEAN : Start(f, env, checkOnly)
    BY <2>2 DEF Start, DirChosen
  <2>3. CASE Main
    BY <2>3 DEF Main, InitDB, StartRetention, StartGoroutines, ShutDown, Checkpoint, ClosePool, Exit, Die, DirChosen
  <2>4. CASE Kill
    BY <2>4 DEF Kill, Die, DirChosen
  <2>5. Signal \/ Goroutines \/ Tick \/ UNCHANGED vars => UNCHANGED mainVars
    BY DEF Signal, Goroutines, Tick, Reconcile, Poll, SchedWake, WorkerReceive, Classify, Purge, PurgerWake,
           EndTransaction, Return, vars
  <2>6. QED
    BY <2>1, <2>2, <2>3, <2>4, <2>5 DEF Next
<1>3. QED
  BY <1>1, <1>2, PTL DEF Spec

\* Of any number of files the last sound one of a name is the blueprint, and the
\* process serves only if every file it read decodes and no critical one is broken
\* (prompt.New, Manager.parse).
THEOREM LastSoundFileWins == Spec => LastSoundWins
<1> DEFINE sound == {i \in ToRead : AllFiles[i].sound}
<1>1. ASSUME DirChosen, Next, pc = "prompts", pc' = "serving"
      PROVE  /\ \A i \in ToRead : AllFiles[i].decodes /\ (AllFiles[i].critical => AllFiles[i].sound)
             /\ DOMAIN blueprints' = {NameOf(AllFiles[i]) : i \in sound}
             /\ \A name \in DOMAIN blueprints' :
                  \E last \in sound :
                    /\ NameOf(AllFiles[last]) = name /\ blueprints'[name] = AllFiles[last]
                    /\ \A i \in sound : NameOf(AllFiles[i]) = name => i <= last
  <2>1. StartGoroutines
    <3>1. ~UNCHANGED mainVars
      BY <1>1 DEF mainVars
    <3>2. ~(Signal \/ Goroutines \/ Tick)
      BY <3>1 DEF Signal, Goroutines, Tick, Reconcile, Poll, SchedWake, WorkerReceive, Classify, Purge, PurgerWake,
                  EndTransaction, Return
    <3>3. QED
      BY <1>1, <3>2 DEF Next, Start, Main, InitDB, StartRetention, ShutDown, Checkpoint, ClosePool, Exit, Kill, Die
  <2>2. NewManager(dir).ok /\ blueprints' = NewManager(dir).blueprints
    BY <1>1, <2>1 DEF StartGoroutines
  <2>3. Loaded(NewManager(dir), AllFiles, Len(AllFiles)) /\ AllFiles \in Seq(PromptFile)
    BY <1>1, ManagerLoads DEF DirChosen
  <2>4. ToRead = ReadOf(AllFiles, Len(AllFiles)) /\ sound = SoundOf(AllFiles, Len(AllFiles))
    BY <2>3, LenProperties DEF ToRead, ReadOf, SoundOf
  <2>5. QED
    BY <2>2, <2>3, <2>4 DEF Loaded, LastOf
<1>2. DirChosen /\ [Next]_vars =>
        [pc = "prompts" /\ pc' = "serving" =>
           LET good == {i \in ToRead : AllFiles[i].sound}
           IN /\ \A i \in ToRead : AllFiles[i].decodes /\ (AllFiles[i].critical => AllFiles[i].sound)
              /\ DOMAIN blueprints' = {NameOf(AllFiles[i]) : i \in good}
              /\ \A name \in DOMAIN blueprints' :
                   \E last \in good :
                     /\ NameOf(AllFiles[last]) = name /\ blueprints'[name] = AllFiles[last]
                     /\ \A i \in good : NameOf(AllFiles[i]) = name => i <= last]_vars
  BY <1>1
<1>3. QED
  BY <1>2, DirStays, PTL DEF Spec, LastSoundWins

=============================================================================
