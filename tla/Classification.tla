--------------------------- MODULE Classification ---------------------------
(***************************************************************************)
(* Classify (internal/classificator) over the LLM client (internal/llm):   *)
(* the loop of format retries around Complete, which takes a slot of the   *)
(* client's semaphore and runs the loop of network retries.  Several       *)
(* callers share the client.                                               *)
(*                                                                         *)
(* Of a reply we keep whether it decodes as a JSON object, its confidence, *)
(* and what it says: whether the update is important and whether its       *)
(* category is "security".  A missing field decodes to zero.  Confidence   *)
(* counts in parts of One.                                                 *)
(***************************************************************************)
EXTENDS Integers, FiniteSets

CONSTANTS
  Callers,          \* goroutines that call Classify
  MaxConcurrent,    \* slots of the semaphore
  MaxRetries,       \* network retries of one Complete
  MaxFormatRetries, \* format retries of one Classify
  One,              \* confidence 1.0
  Threshold,        \* confidence_threshold
  Replies           \* contents the model may reply with

ASSUME ClassificationAssumption ==
  /\ IsFiniteSet(Callers)
  /\ MaxConcurrent \in Nat \ {0} \* New turns a smaller value into 1
  /\ MaxRetries \in Nat /\ MaxFormatRetries \in Nat \* Validate
  /\ One \in Nat /\ Threshold \in 0..One
  /\ Replies \subseteq [json : BOOLEAN, confidence : Int,
                  important : BOOLEAN, security : BOOLEAN]

VARIABLES
  call,  \* for each caller: program counter, loop counters, the last reply,
         \* the requests made and the result
  slots, \* slots of the semaphore in use
  stopped \* the process was told to stop

vars == <<call, slots, stopped>>

NoReply == [json |-> FALSE, confidence |-> 0,
            important |-> FALSE, security |-> FALSE]

Idle == [pc |-> "idle", format |-> 0, attempt |-> 0, requests |-> 0, malformed |-> 0,
         reply |-> NoReply, result |-> "none"]

Init ==
  /\ call = [p \in Callers |-> Idle]
  /\ slots = 0
  /\ stopped = FALSE

At(p, pc) == call[p].pc = pc

Becomes(p, c) == call' = [call EXCEPT ![p] = c]

\* Classify returns.
Return(p, r) == Becomes(p, [call[p] EXCEPT !.pc = "returned", !.result = r])

\* Classify is called, and the prompt rendered: an error of the template ends it.
Start(p) ==
  /\ At(p, "idle")
  /\ \/ Becomes(p, [call[p] EXCEPT !.pc = "acquire"])
     \/ Return(p, "error")
  /\ UNCHANGED <<slots, stopped>>

\* Faulty variant: there is no gate.
AcquireFreely(p) ==
  /\ At(p, "acquire")
  /\ slots' = slots + 1
  /\ Becomes(p, [call[p] EXCEPT !.pc = "request", !.attempt = 0])
  /\ UNCHANGED stopped

\* Complete takes a slot, waiting for one as long as all are in use.
Acquire(p) ==
  /\ At(p, "acquire")
  /\ slots < MaxConcurrent
  /\ slots' = slots + 1
  /\ Becomes(p, [call[p] EXCEPT !.pc = "request", !.attempt = 0])
  /\ UNCHANGED stopped

\* A cancelled context ends the wait for a slot.
GiveUpWaiting(p) ==
  /\ At(p, "acquire") /\ stopped
  /\ Return(p, "error")
  /\ UNCHANGED <<slots, stopped>>

WellFormed(r) == r.json /\ r.confidence >= 0 /\ r.confidence <= One

\* Faulty variant: a security update needs the confidence of any other.
ApplyRulesStrictly(r) ==
  IF r.important /\ r.confidence >= Threshold THEN "important" ELSE "noise"

\* applyRules
ApplyRules(r) ==
  IF (r.important /\ r.confidence >= Threshold) \/ r.security THEN "important" ELSE "noise"

\* A reply with a choice that was not truncated: Complete returns, and Classify
\* parses the content, asks again, or gives up on the format.
Replied(p) ==
  /\ At(p, "request")
  /\ slots' = slots - 1
  /\ \E r \in Replies :
       LET seen == [call[p] EXCEPT !.requests = @ + 1, !.reply = r,
                                   !.malformed = IF WellFormed(r) THEN @ ELSE @ + 1]
       IN Becomes(p,
            IF WellFormed(r)
              THEN [seen EXCEPT !.pc = "returned", !.result = ApplyRules(r)]
            ELSE IF seen.format = MaxFormatRetries
              THEN [seen EXCEPT !.pc = "returned", !.result = "unclassified"]
            ELSE [seen EXCEPT !.pc = "acquire", !.format = @ + 1])
  /\ UNCHANGED stopped

\* Faulty variant: the slot is not given back.
RefusedKeepsSlot(p) ==
  /\ At(p, "request")
  /\ Becomes(p, [call[p] EXCEPT !.pc = "returned", !.requests = @ + 1, !.result = "error"])
  /\ UNCHANGED <<slots, stopped>>

\* A status other than 200, 429 and 5xx, or a body that does not decode, has no
\* choice or was cut off: an error, for good.
Refused(p) ==
  /\ At(p, "request")
  /\ slots' = slots - 1
  /\ Becomes(p, [call[p] EXCEPT !.pc = "returned", !.requests = @ + 1, !.result = "error"])
  /\ UNCHANGED stopped

\* Faulty variant: giving up yields a verdict.
UnavailableIsNoise(p) ==
  /\ At(p, "request")
  /\ IF call[p].attempt = MaxRetries
       THEN /\ Becomes(p, [call[p] EXCEPT !.pc = "returned", !.requests = @ + 1, !.result = "unclassified"])
            /\ slots' = slots - 1
       ELSE /\ Becomes(p, [call[p] EXCEPT !.pc = "backoff", !.requests = @ + 1])
            /\ UNCHANGED slots
  /\ UNCHANGED stopped

\* Faulty variant: one network retry too many.
UnavailableOnceMore(p) ==
  /\ At(p, "request")
  /\ IF call[p].attempt > MaxRetries
       THEN /\ Becomes(p, [call[p] EXCEPT !.pc = "returned", !.requests = @ + 1, !.result = "error"])
            /\ slots' = slots - 1
       ELSE /\ Becomes(p, [call[p] EXCEPT !.pc = "backoff", !.requests = @ + 1])
            /\ UNCHANGED slots
  /\ UNCHANGED stopped

\* No answer, or 429 or 5xx: backoff while retries are left.
Unavailable(p) ==
  /\ At(p, "request")
  /\ IF call[p].attempt = MaxRetries
       THEN /\ Becomes(p, [call[p] EXCEPT !.pc = "returned", !.requests = @ + 1, !.result = "error"])
            /\ slots' = slots - 1
       ELSE /\ Becomes(p, [call[p] EXCEPT !.pc = "backoff", !.requests = @ + 1])
            /\ UNCHANGED slots
  /\ UNCHANGED stopped

\* The backoff is over; the slot was kept.
Retry(p) ==
  /\ At(p, "backoff")
  /\ Becomes(p, [call[p] EXCEPT !.pc = "request", !.attempt = @ + 1])
  /\ UNCHANGED <<slots, stopped>>

\* A cancelled context ends the backoff.
GiveUpRetrying(p) ==
  /\ At(p, "backoff") /\ stopped
  /\ slots' = slots - 1
  /\ Return(p, "error")
  /\ UNCHANGED stopped

\* The caller goes on, and calls again some time.
Resume(p) ==
  /\ At(p, "returned")
  /\ Becomes(p, Idle)
  /\ UNCHANGED <<slots, stopped>>

Shutdown == ~stopped /\ stopped' = TRUE /\ UNCHANGED <<call, slots>>

Request(p) == Replied(p) \/ Refused(p) \/ Unavailable(p)

Classify(p) ==
  Start(p) \/ Acquire(p) \/ GiveUpWaiting(p) \/ Request(p) \/ Retry(p) \/ GiveUpRetrying(p)

Next == Shutdown \/ \E p \in Callers : Classify(p) \/ Resume(p)

Spec == Init /\ [][Next]_vars

\* A waiting sender of a Go channel is served in turn, which is what makes the
\* semaphore fair; a request ends by the client's timeout and a backoff is finite.
FairSpec ==
  /\ Spec
  /\ \A p \in Callers : /\ WF_vars(Start(p)) /\ SF_vars(Acquire(p))
                        /\ WF_vars(Request(p))
                        /\ WF_vars(Retry(p) \/ GiveUpRetrying(p))

-----------------------------------------------------------------------------
Calls ==
  [pc : {"idle", "acquire", "request", "backoff", "returned"},
   format : 0..MaxFormatRetries, attempt : 0..MaxRetries, requests : Nat, malformed : Nat,
   reply : Replies \cup {NoReply},
   result : {"none", "error", "important", "noise", "unclassified"}]

\* The types of the calls; a call has a result exactly when it has returned.
TypeOK ==
  /\ call \in [Callers -> Calls]
  /\ \A p \in Callers : At(p, "returned") <=> call[p].result # "none"
  /\ slots \in Nat
  /\ stopped \in BOOLEAN

\* The semaphore counts the calls that may have a request open, those in their
\* backoff included, over every way a call can end, and keeps to its size.
SlotsCounted ==
  /\ slots = Cardinality({p \in Callers : At(p, "request") \/ At(p, "backoff")})
  /\ slots <= MaxConcurrent

\* The two loops multiply: what one Classify may cost the provider.
RequestsBounded ==
  \A p \in Callers : call[p].requests <= (MaxRetries + 1) * (MaxFormatRetries + 1)

\* An unavailable LLM never yields a verdict to persist: importance and noise
\* come from a well-formed reply, "unclassified" from a malformed reply to every
\* format retry.
NoFabricatedVerdict ==
  \A p \in Callers :
    /\ call[p].result \in {"important", "noise"} => WellFormed(call[p].reply)
    /\ call[p].result = "unclassified" => call[p].malformed = MaxFormatRetries + 1

\* A security update the model managed to report is important, at whatever try
\* and with whatever confidence; a verdict is never more important than the
\* reply it stands for.
SecurityIsImportant ==
  \A p \in Callers :
    LET c == call[p]
    IN /\ c.result # "error" /\ WellFormed(c.reply) /\ c.reply.security
             => c.result \in {"none", "important"}
       /\ c.result = "important" => c.reply.security \/ c.reply.important

\* No caller waits for a slot for ever: every call returns, whatever the LLM and
\* the other callers do.
EveryCallReturns == \A p \in Callers : At(p, "acquire") ~> At(p, "returned")

=============================================================================
