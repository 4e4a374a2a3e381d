------------------------------ MODULE Collector ------------------------------
(***************************************************************************)
(* Collector.Fetch (internal/collector), called for one feed after the     *)
(* other: a rate limiter per host, a request, and retries with backoff.    *)
(* Time is counted in ticks; waits are the ticks that are left of them.    *)
(***************************************************************************)
EXTENDS Integers

CONSTANTS
  Feeds, Hosts,
  HostOf,      \* the host of each feed's URL
  Retries,     \* config: retries
  Gap,         \* ticks between two tokens of a limiter (1 / rate_per_host)
  BackoffBase, \* config: backoff_base
  RetryAfters, \* what a 429 may ask for in Retry-After, 0 for nothing
  MaxHops,     \* redirects of one request net/http follows (9)
  MaxBodySize, \* config: max_body_size
  MaxInt,      \* the largest int64
  Sizes        \* sizes of the documents served

ASSUME CollectorAssumption ==
  /\ HostOf \in [Feeds -> Hosts]
  /\ Retries \in Nat
  /\ Gap \in Nat \ {0} /\ BackoffBase \in Nat \ {0}
  /\ RetryAfters \subseteq Nat
  /\ MaxHops \in Nat
  /\ MaxInt \in Nat /\ MaxBodySize \in 1..MaxInt /\ Sizes \subseteq Nat

VARIABLES
  fetch,    \* the call under way: program counter, feed, try, redirects of the
            \* try, result and, for a document, its size and how much was kept
  cooldown, \* for each host the ticks until its limiter has a token
  backoff,  \* ticks left of the backoff
  stopped,  \* the context is cancelled
  quiet,    \* history: ticks since the last try was sent to a host, up to Gap
  owed      \* history: ticks left of the last Retry-After of this call

vars == <<fetch, cooldown, backoff, stopped, quiet, owed>>

Idle(f) ==
  [pc |-> "idle", feed |-> f, try |-> 0, hops |-> 0, result |-> "none", size |-> 0, kept |-> 0]

Init ==
  /\ fetch \in {Idle(f) : f \in Feeds}
  /\ cooldown = [h \in Hosts |-> 0]
  /\ backoff = 0
  /\ stopped = FALSE
  /\ quiet = [h \in Hosts |-> Gap]
  /\ owed = 0

Host == HostOf[fetch.feed]

Return(r) == fetch' = [fetch EXCEPT !.pc = "returned", !.result = r]

\* The loop over the feeds comes to feed f.
Begin(f) ==
  /\ fetch.pc \in {"idle", "returned"}
  /\ fetch' = [Idle(f) EXCEPT !.pc = "limit"]
  /\ owed' = 0
  /\ UNCHANGED <<cooldown, backoff, stopped, quiet>>

\* Faulty variant: only the first try passes the limiter.
SendRetriesFreely ==
  /\ fetch.pc = "limit" /\ ~stopped
  /\ fetch.try > 0 \/ cooldown[Host] = 0
  /\ fetch' = [fetch EXCEPT !.pc = "open", !.hops = 0]
  /\ cooldown' = [cooldown EXCEPT ![Host] = Gap]
  /\ quiet' = [quiet EXCEPT ![Host] = 0]
  /\ UNCHANGED <<backoff, stopped, owed>>

\* limiter.Wait takes the token of the host, and the request goes out; with a
\* cancelled context none does.
Send ==
  /\ fetch.pc = "limit" /\ ~stopped
  /\ cooldown[Host] = 0
  /\ fetch' = [fetch EXCEPT !.pc = "open", !.hops = 0]
  /\ cooldown' = [cooldown EXCEPT ![Host] = Gap]
  /\ quiet' = [quiet EXCEPT ![Host] = 0]
  /\ UNCHANGED <<backoff, stopped, owed>>

\* client.Do follows a redirect, to this host or another, without asking a
\* limiter; the request after the last one allowed is an error (Broken).
Redirect ==
  /\ fetch.pc = "open" /\ fetch.hops < MaxHops
  /\ fetch' = [fetch EXCEPT !.hops = @ + 1]
  /\ UNCHANGED <<cooldown, backoff, stopped, quiet, owed>>

\* Faulty variant: the body is cut at the limit.
ReadCut(size) ==
  [fetch EXCEPT !.pc = "returned", !.result = "ok", !.size = size,
                !.kept = IF size > MaxBodySize THEN MaxBodySize ELSE size]

\* io.LimitReader lets one byte more than the limit through, which tells a
\* document of the full size from a larger one.  One more than the largest int64
\* is negative, and a reader with such a limit is at its end from the start.
Read(size) ==
  LET limit == IF MaxBodySize = MaxInt THEN 0 ELSE MaxBodySize + 1
      kept == IF size > limit THEN limit ELSE size
  IN [fetch EXCEPT !.pc = "returned", !.size = size, !.kept = kept,
                   !.result = IF kept > MaxBodySize THEN "error" ELSE "ok"]

\* 200 with a document, 304, or a status that is not worth another try.
Answered ==
  /\ fetch.pc = "open"
  /\ \/ \E size \in Sizes : fetch' = Read(size)
     \/ Return("notModified")
     \/ Return("error")
  /\ UNCHANGED <<cooldown, backoff, stopped, quiet, owed>>

\* Faulty variant: Retry-After is not looked at.
DelayIgnoresServer(retryAfter) == BackoffBase * 2 ^ fetch.try

\* The backoff before the next try: what a 429 asked for, or exponential.
Delay(retryAfter) == IF retryAfter > 0 THEN retryAfter ELSE BackoffBase * 2 ^ fetch.try

\* An error that may pass: the last try returns it.
RetryOrReturn(retryAfter) ==
  IF fetch.try = Retries
    THEN Return("error") /\ UNCHANGED backoff
    ELSE fetch' = [fetch EXCEPT !.pc = "backoff"] /\ backoff' = Delay(retryAfter)

\* 429 Too Many Requests.
TooMany ==
  /\ fetch.pc = "open"
  /\ \E retryAfter \in RetryAfters :
       /\ RetryOrReturn(retryAfter)
       /\ owed' = retryAfter
  /\ UNCHANGED <<cooldown, stopped, quiet>>

\* 5xx, a transport error (the client's timeout and too many redirects among
\* them), or a body that breaks off.
Broken ==
  /\ fetch.pc = "open"
  /\ RetryOrReturn(0)
  /\ UNCHANGED <<cooldown, stopped, quiet, owed>>

\* Faulty variant: the retries are not counted.
RetryUncounted ==
  /\ fetch.pc = "backoff" /\ backoff = 0
  /\ fetch' = [fetch EXCEPT !.pc = "limit"]
  /\ UNCHANGED <<cooldown, backoff, stopped, quiet, owed>>

\* The backoff is over.
Retry ==
  /\ fetch.pc = "backoff" /\ backoff = 0
  /\ fetch' = [fetch EXCEPT !.pc = "limit", !.try = @ + 1]
  /\ UNCHANGED <<cooldown, backoff, stopped, quiet, owed>>

\* A cancelled context ends the wait for a token and the backoff.
GiveUp ==
  /\ stopped /\ fetch.pc \in {"limit", "backoff"}
  /\ Return("error")
  /\ backoff' = 0
  /\ UNCHANGED <<cooldown, stopped, quiet, owed>>

Shutdown == ~stopped /\ stopped' = TRUE /\ UNCHANGED <<fetch, cooldown, backoff, quiet, owed>>

Less(n) == IF n = 0 THEN 0 ELSE n - 1

Tick ==
  /\ cooldown' = [h \in Hosts |-> Less(cooldown[h])]
  /\ backoff' = Less(backoff)
  /\ owed' = Less(owed)
  /\ quiet' = [h \in Hosts |-> IF quiet[h] < Gap THEN quiet[h] + 1 ELSE Gap]
  /\ UNCHANGED <<fetch, stopped>>

Response == Answered \/ TooMany \/ Broken

Next ==
  \/ \E f \in Feeds : Begin(f)
  \/ Send \/ Redirect \/ Response \/ Retry \/ GiveUp \/ Shutdown \/ Tick

Spec == Init /\ [][Next]_vars

\* Time passes; the client's timeout ends every request; goroutines run.
FairSpec == Spec /\ WF_vars(Tick) /\ WF_vars(Response) /\ WF_vars(Send) /\ WF_vars(Retry \/ GiveUp)

-----------------------------------------------------------------------------
\* The types of the call and of the waits; the tries are those of the config.
TypeOK ==
  /\ fetch \in [pc : {"idle", "limit", "open", "backoff", "returned"}, feed : Feeds,
                try : 0..Retries, hops : 0..MaxHops,
                result : {"none", "ok", "notModified", "error"}, size : Nat, kept : Nat]
  /\ cooldown \in [Hosts -> 0..Gap]
  /\ backoff \in Int
  /\ stopped \in BOOLEAN
  /\ quiet \in [Hosts -> 0..Gap]
  /\ owed \in Nat

Sends == fetch.pc # "open" /\ fetch'.pc = "open"

\* Two tries of the feeds of one host are at least Gap apart, retries included.
\* What a try is redirected to passes no limiter and is not counted.
TriesSpaced == [][Sends => quiet[Host] = Gap]_vars

\* A retry does not come before the time a 429 to the same call asked for, be it
\* shorter or longer than the gap of the limiter.
RetryWaits == [][Sends => owed = 0]_vars

\* A document is handed on whole or not at all, under any limit one can be added
\* to.
BodyIsWhole ==
  fetch.result = "ok" /\ MaxBodySize < MaxInt
    => fetch.kept = fetch.size /\ fetch.size <= MaxBodySize

\* A fetch comes to an end, so that the feeds after it get their turn.
FetchReturns == (fetch.pc = "limit") ~> (fetch.pc = "returned")

=============================================================================
