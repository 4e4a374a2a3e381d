-------------------------- MODULE CollectorProofs --------------------------
(***************************************************************************)
(* Proofs about Collector, for all feeds, hosts, numbers of retries, gaps, *)
(* delays, redirects and sizes.                                            *)
(***************************************************************************)
EXTENDS Collector, TLAPS

FetchType ==
  [pc : {"idle", "limit", "open", "backoff", "returned"}, feed : Feeds,
   try : 0..Retries, hops : 0..MaxHops,
   result : {"none", "ok", "notModified", "error"}, size : Nat, kept : Nat]

\* A call that returns keeps its feed and its document.
LEMMA Returns ==
  ASSUME fetch \in FetchType, NEW r \in {"none", "ok", "notModified", "error"}, Return(r)
  PROVE  /\ fetch' \in FetchType
         /\ fetch'.pc = "returned" /\ fetch'.result = r /\ fetch'.feed = fetch.feed
         /\ fetch'.size = fetch.size /\ fetch'.kept = fetch.kept
BY DEF Return, FetchType

\* What a try that failed leads to.
LEMMA RetriesOrReturns ==
  ASSUME fetch \in FetchType, NEW d \in Nat, RetryOrReturn(d)
  PROVE  /\ fetch' \in FetchType
         /\ \/ fetch'.pc = "returned" /\ fetch'.result = "error" /\ backoff' = backoff
            \/ /\ fetch'.pc = "backoff" /\ fetch'.result = fetch.result
               /\ fetch'.size = fetch.size /\ fetch'.kept = fetch.kept
               /\ fetch.try < Retries /\ fetch'.try = fetch.try
               /\ d > 0 => backoff' = d
<1> USE CollectorAssumption DEF CollectorAssumption
<1>1. CASE fetch.try = Retries
  BY <1>1, Returns DEF RetryOrReturn
<1>2. CASE fetch.try # Retries
  <2>1. fetch' = [fetch EXCEPT !.pc = "backoff"] /\ backoff' = Delay(d)
    BY <1>2 DEF RetryOrReturn
  <2>2. fetch' \in FetchType /\ fetch'.pc = "backoff"
    BY <2>1 DEF FetchType
  <2>3. /\ fetch'.result = fetch.result /\ fetch'.try = fetch.try
        /\ fetch'.size = fetch.size /\ fetch'.kept = fetch.kept
    BY <2>1 DEF FetchType
  <2>4. fetch.try < Retries
    BY <1>2 DEF FetchType
  <2>5. d > 0 => backoff' = d
    BY <2>1 DEF Delay
  <2>6. QED
    BY <2>2, <2>3, <2>4, <2>5
<1>3. QED
  BY <1>1, <1>2

\* The result of a document: its size fits, or it is refused.
LEMMA ReadsWhole ==
  ASSUME fetch \in FetchType, NEW size \in Nat, fetch' = Read(size), CollectorAssumption
  PROVE  /\ fetch' \in FetchType
         /\ fetch'.pc = "returned"
         /\ fetch'.result = "ok" /\ MaxBodySize < MaxInt
              => fetch'.kept = fetch'.size /\ fetch'.size <= MaxBodySize
<1> DEFINE limit == IF MaxBodySize = MaxInt THEN 0 ELSE MaxBodySize + 1
           kept == IF size > limit THEN limit ELSE size
           result == IF kept > MaxBodySize THEN "error" ELSE "ok"
<1>1. kept \in Nat /\ result \in {"error", "ok"}
  BY DEF CollectorAssumption
<1>2. result = "ok" /\ MaxBodySize < MaxInt => kept = size /\ size <= MaxBodySize
  BY DEF CollectorAssumption
<1>3. fetch' = [fetch EXCEPT !.pc = "returned", !.size = size, !.kept = kept, !.result = result]
  BY DEF Read
<1> HIDE DEF limit, kept, result
<1>4. fetch' \in FetchType /\ fetch'.pc = "returned"
  BY <1>1, <1>3 DEF FetchType
<1>5. fetch'.size = size /\ fetch'.kept = kept /\ fetch'.result = result
  BY <1>3 DEF FetchType
<1>6. QED
  BY <1>2, <1>4, <1>5

-----------------------------------------------------------------------------
(***************************************************************************)
(* The inductive invariant: the token of a host is away for as long as its *)
(* last request is recent, and a backoff is as long as what the server     *)
(* asked for.                                                              *)
(***************************************************************************)
Spaced == \A h \in Hosts : quiet[h] = Gap - cooldown[h]

OwedIsWaited ==
  /\ fetch.pc \in {"limit", "open"} => owed = 0
  /\ fetch.pc = "backoff" => owed \in {0, backoff}

TriesLeft == fetch.pc = "backoff" => fetch.try < Retries

Inv == TypeOK /\ BodyIsWhole /\ Spaced /\ OwedIsWaited /\ TriesLeft

\* No call has begun, every limiter has its token.
LEMMA InitInv == Init => Inv
<1> SUFFICES ASSUME Init PROVE Inv
  OBVIOUS
<1>1. PICK f \in Feeds : fetch = Idle(f)
  BY DEF Init
<1>2. fetch \in FetchType /\ fetch.pc = "idle" /\ fetch.result = "none"
  BY <1>1, CollectorAssumption DEF Idle, FetchType, CollectorAssumption
<1>3. TypeOK /\ Spaced
  <2>1. /\ cooldown = [h \in Hosts |-> 0] /\ quiet = [h \in Hosts |-> Gap]
        /\ backoff = 0 /\ owed = 0
    BY DEF Init
  <2>2. stopped \in BOOLEAN
    BY Zenon DEF Init
  <2>3. QED
    BY <1>2, <2>1, <2>2, CollectorAssumption DEF FetchType, CollectorAssumption, TypeOK, Spaced
<1>4. BodyIsWhole /\ OwedIsWaited /\ TriesLeft
  BY <1>2 DEF BodyIsWhole, OwedIsWaited, TriesLeft
<1>5. QED
  BY <1>3, <1>4 DEF Inv

\* Every step of the call, of time and of the context keeps the invariant.
LEMMA NextInv == Inv /\ [Next]_vars => Inv'
<1> SUFFICES ASSUME Inv, [Next]_vars PROVE Inv'
  OBVIOUS
<1>0. fetch \in FetchType
  BY DEF Inv, TypeOK, FetchType
<1> USE CollectorAssumption DEF CollectorAssumption
<1>1. CASE UNCHANGED vars
  BY <1>1 DEF vars, Inv, TypeOK, BodyIsWhole, Spaced, OwedIsWaited, TriesLeft
<1>2. ASSUME NEW f \in Feeds, Begin(f) PROVE Inv'
  <2>1. /\ fetch' \in FetchType
        /\ fetch'.pc = "limit" /\ fetch'.result = "none"
    BY <1>2 DEF Begin, Idle, FetchType
  <2>2. QED
    BY <1>2, <2>1 DEF Begin, Inv, TypeOK, FetchType, BodyIsWhole, Spaced, OwedIsWaited, TriesLeft
<1>3. CASE Send
  <2>1. /\ fetch' \in FetchType /\ fetch'.pc = "open"
        /\ fetch'.result = fetch.result /\ fetch'.size = fetch.size /\ fetch'.kept = fetch.kept
    <3>1. fetch' = [fetch EXCEPT !.pc = "open", !.hops = 0]
      BY <1>3 DEF Send
    <3>2. 0 \in 0..MaxHops
      OBVIOUS
    <3>3. QED
      BY <1>0, <3>1, <3>2 DEF FetchType
  <2>2. Host \in Hosts
    BY <1>0 DEF Host, FetchType
  <2>3. TypeOK' /\ Spaced'
    BY <1>3, <2>1, <2>2 DEF Send, Inv, TypeOK, FetchType, Spaced
  <2>4. QED
    BY <1>3, <2>1, <2>3 DEF Send, Inv, BodyIsWhole, OwedIsWaited, TriesLeft
<1>4. CASE Answered
  <2>1. fetch' \in FetchType /\ fetch'.pc = "returned" /\ BodyIsWhole'
    <3>1. ASSUME NEW size \in Sizes, fetch' = Read(size) PROVE fetch' \in FetchType /\ fetch'.pc = "returned" /\ BodyIsWhole'
      BY <1>0, <3>1, ReadsWhole DEF BodyIsWhole
    <3>2. ASSUME NEW r \in {"notModified", "error"}, Return(r) PROVE fetch' \in FetchType /\ fetch'.pc = "returned" /\ BodyIsWhole'
      BY <1>0, <3>2, Returns DEF BodyIsWhole
    <3>3. QED
      BY <1>4, <3>1, <3>2 DEF Answered
  <2>2. QED
    BY <1>4, <2>1 DEF Answered, Inv, TypeOK, FetchType, Spaced, OwedIsWaited, TriesLeft
<1>5. CASE TooMany
  <2>1. PICK d \in RetryAfters : RetryOrReturn(d) /\ owed' = d
    BY <1>5 DEF TooMany
  <2>2. backoff' \in Int
    BY <1>0, <2>1 DEF RetryOrReturn, Delay, Inv, TypeOK, FetchType
  <2>3. fetch.pc = "open" /\ d \in Nat
    BY <1>5 DEF TooMany
  <2>4. QED
    BY <1>0, <1>5, <2>1, <2>2, <2>3, RetriesOrReturns
    DEF TooMany, Inv, TypeOK, FetchType, BodyIsWhole, Spaced, OwedIsWaited, TriesLeft
<1>6. CASE Broken
  <2>1. backoff' \in Int
    BY <1>0, <1>6 DEF Broken, RetryOrReturn, Delay, Inv, TypeOK, FetchType
  <2>2. QED
    BY <1>0, <1>6, <2>1, RetriesOrReturns
    DEF Broken, Inv, TypeOK, FetchType, BodyIsWhole, Spaced, OwedIsWaited, TriesLeft
<1>7. CASE Retry
  <2>1. fetch.try + 1 \in 0..Retries
    BY <1>0, <1>7 DEF Retry, Inv, TriesLeft, FetchType
  <2>2. QED
    BY <1>0, <1>7, <2>1 DEF Retry, Inv, TypeOK, FetchType, BodyIsWhole, Spaced, OwedIsWaited, TriesLeft
<1>8. CASE GiveUp
  BY <1>0, <1>8, Returns DEF GiveUp, Inv, TypeOK, FetchType, BodyIsWhole, Spaced, OwedIsWaited, TriesLeft
<1>9. CASE Shutdown
  BY <1>9 DEF Shutdown, Inv, TypeOK, BodyIsWhole, Spaced, OwedIsWaited, TriesLeft
<1>10. CASE Tick
  BY <1>10 DEF Tick, Less, Inv, TypeOK, BodyIsWhole, Spaced, OwedIsWaited, TriesLeft
<1>11. CASE Redirect
  <2>1. fetch.hops + 1 \in 0..MaxHops
    BY <1>0, <1>11 DEF Redirect, FetchType
  <2>2. /\ fetch' \in FetchType /\ fetch'.pc = fetch.pc /\ fetch'.result = fetch.result
        /\ fetch'.size = fetch.size /\ fetch'.kept = fetch.kept
    BY <1>0, <1>11, <2>1 DEF Redirect, FetchType
  <2>3. QED
    BY <1>11, <2>2 DEF Redirect, Inv, TypeOK, FetchType, BodyIsWhole, Spaced, OwedIsWaited, TriesLeft
<1>12. QED
  BY <1>1, <1>2, <1>3, <1>4, <1>5, <1>6, <1>7, <1>8, <1>9, <1>10, <1>11 DEF Next, Response

-----------------------------------------------------------------------------
\* The calls, the limiters and the waits are well typed, and no call makes more
\* tries than the configuration has.
THEOREM CollectorTypeCorrect == Spec => []TypeOK
<1>1. Inv => TypeOK
  BY DEF Inv
<1>2. QED
  BY InitInv, NextInv, <1>1, PTL DEF Spec

\* A document is handed on whole or not at all, whatever its size and the limit, as
\* long as one can be added to it (io.LimitReader in doFetch).
THEOREM BodiesAreWhole == Spec => []BodyIsWhole
<1>1. Inv => BodyIsWhole
  BY DEF Inv
<1>2. QED
  BY InitInv, NextInv, <1>1, PTL DEF Spec

\* A try leaves when the limiter of its host has a token, in a call whose last
\* Retry-After is over: nothing but Send opens one.
LEMMA SendsInTime ==
  Inv /\ [Next]_vars => [Sends => quiet[Host] = Gap /\ owed = 0]_vars
<1> SUFFICES ASSUME Inv, Next, Sends PROVE quiet[Host] = Gap /\ owed = 0
  OBVIOUS
<1>0. fetch \in FetchType
  BY DEF Inv, TypeOK, FetchType
<1>1. CASE Send
  <2>1. Host \in Hosts
    BY <1>0, CollectorAssumption DEF Host, FetchType, CollectorAssumption
  <2>2. QED
    BY <1>1, <2>1, CollectorAssumption DEF Send, Inv, Spaced, OwedIsWaited, CollectorAssumption
<1>2. CASE ~Send
  <2>1. fetch'.pc = "open" /\ fetch.pc # "open"
    BY DEF Sends
  <2>2. ASSUME NEW f \in Feeds, Begin(f) PROVE FALSE
    BY <2>1, <2>2 DEF Begin, Idle
  <2>3. ~Response
    BY <2>1 DEF Response, Answered, TooMany, Broken
  <2>4. ~Retry
    BY <1>0, <2>1 DEF Retry, FetchType
  <2>5. ~GiveUp
    BY <1>0, <2>1, Returns DEF GiveUp
  <2>6. ~Shutdown /\ ~Tick /\ ~Redirect
    BY <2>1 DEF Shutdown, Tick, Redirect
  <2>7. QED
    BY <1>2, <2>2, <2>3, <2>4, <2>5, <2>6 DEF Next
<1>3. QED
  BY <1>1, <1>2

\* Tries at one host are a gap apart, whichever of its feeds they are for and
\* however often they are redirected (limiter.Wait in Fetch).
THEOREM TriesKeepDistance == Spec => TriesSpaced
<1>1. Inv /\ [Next]_vars => [Sends => quiet[Host] = Gap]_vars
  BY SendsInTime
<1>2. QED
  BY InitInv, NextInv, <1>1, PTL DEF Spec, TriesSpaced

\* No retry comes before the Retry-After of the 429 it follows is over.
THEOREM RetriesObeyServer == Spec => RetryWaits
<1>1. Inv /\ [Next]_vars => [Sends => owed = 0]_vars
  BY SendsInTime
<1>2. QED
  BY InitInv, NextInv, <1>1, PTL DEF Spec, RetryWaits
=============================================================================
