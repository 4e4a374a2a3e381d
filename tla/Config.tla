------------------------------- MODULE Config -------------------------------
(***************************************************************************)
(* internal/config: Load with its three layers, and Validate with the      *)
(* Validate of each section; ParseRetention of internal/storage, which     *)
(* both Validate and run() call.                                           *)
(*                                                                         *)
(* A layer is a function on some of the keys.  Keys that any value is      *)
(* valid for (dsn, api_key, user_agent, addresses, channels) are left out. *)
(* Durations are in ticks, fractions in tenths.                            *)
(***************************************************************************)
EXTENDS Integers

CONSTANTS
  Hour,  \* ticks of an hour
  Day,   \* ticks of a day
  Width  \* bits of a time.Duration

ASSUME ConfigAssumption == Hour \in Nat \ {0} /\ Day \in Nat \ {0} /\ Width \in Nat \ {0}

\* time.Duration arithmetic wraps.
Duration(n) == ((n + 2 ^ (Width - 1)) % 2 ^ Width) - 2 ^ (Width - 1)
Representable(n) == Duration(n) = n

-----------------------------------------------------------------------------
(***************************************************************************)
(* A retention setting [n, unit]: n days "d", n weeks "w", a duration of   *)
(* package time "go", nothing "", or text that is none of these "other".   *)
(***************************************************************************)
Forever == [n |-> 0, unit |-> ""]

\* What the setting says.
Period(s) ==
  CASE s.unit = "d" -> s.n * Day
    [] s.unit = "w" -> s.n * 7 * Day
    [] s.unit = "go" -> s.n
    [] OTHER -> 0

\* time.ParseDuration refuses what does not fit, the suffixes do not.
Parses(s) == s.unit # "other" /\ (s.unit = "go" => Representable(s.n))

\* Faulty variant: a week is a day.
ParseRetentionShortWeek(s) == Duration(IF s.unit = "w" THEN s.n * Day ELSE Period(s))

\* What the program takes it for.
ParseRetention(s) == Duration(Period(s))

-----------------------------------------------------------------------------
\* The fields of Config before any layer.
Unset ==
  [driver |-> "", raw_content_retention |-> Forever,
   base_url |-> "", model |-> "", llm_timeout |-> 0, max_retries |-> 0, max_concurrent |-> 0,
   temperature |-> 0, level |-> "", format |-> "", interval |-> 0, jitter |-> 0,
   timeout |-> 0, rate_per_host |-> 0, retries |-> 0, backoff_base |-> 0,
   confidence_threshold |-> 0, max_format_retries |-> 0]

Keys == DOMAIN Unset

Defaults ==
  [level |-> "info", format |-> "json", llm_timeout |-> 1, max_retries |-> 3, max_concurrent |-> 4,
   temperature |-> 1, interval |-> Hour, jitter |-> 1, timeout |-> 1, rate_per_host |-> 10,
   retries |-> 3, backoff_base |-> 1, confidence_threshold |-> 5, max_format_retries |-> 2]

\* The keys an environment variable is mapped to; other variables are ignored.
envKeyMap ==
  {"driver", "base_url", "model", "llm_timeout", "max_retries", "max_concurrent", "temperature",
   "interval", "jitter", "timeout", "retries", "level", "format"}

FromEnv(env) == [k \in DOMAIN env \cap envKeyMap |-> env[k]]

\* koanf loads a layer over those before it.
Over(layer, base) ==
  [k \in DOMAIN layer \cup DOMAIN base |-> IF k \in DOMAIN layer THEN layer[k] ELSE base[k]]

StorageValid(c) == c.driver \in {"postgres", "sqlite"} /\ Parses(c.raw_content_retention)

LLMValid(c) ==
  /\ c.base_url \in {"http", "https"} /\ c.model # ""
  /\ c.llm_timeout > 0 /\ c.max_retries >= 0 /\ c.max_concurrent > 0
  /\ c.temperature \in 0..20

ObservabilityValid(c) ==
  c.level \in {"debug", "info", "warn", "error"} /\ c.format \in {"text", "json"}

CollectorValid(c) == c.timeout > 0 /\ c.rate_per_host > 0 /\ c.retries >= 0 /\ c.backoff_base > 0

ClassificatorValid(c) == c.confidence_threshold \in 0..10 /\ c.max_format_retries >= 0

\* The sections scheduler, dispatcher, prompt and webui are not validated.
Validate(c) ==
  StorageValid(c) /\ LLMValid(c) /\ ObservabilityValid(c) /\ CollectorValid(c) /\ ClassificatorValid(c)

\* Load fails with NotLoaded when the file has a key that no field takes, or
\* when a section is not valid.  A file that does not exist is an empty layer.
NotLoaded == [ok |-> FALSE]

Load(file, env) ==
  LET merged == Over(FromEnv(env), Over(file, Over(Defaults, Unset)))
  IN IF DOMAIN file \subseteq Keys /\ Validate(merged) THEN [ok |-> TRUE, cfg |-> merged] ELSE NotLoaded

=============================================================================
