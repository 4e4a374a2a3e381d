------------------------ MODULE ClassificationProofs ------------------------
(***************************************************************************)
(* Proofs about Classification, for all callers, slots, retries and        *)
(* replies.                                                                *)
(***************************************************************************)
EXTENDS Classification, FiniteSetTheorems, TLAPS

\* What the result of a call rests on.
Result(c) ==
  /\ c.pc = "returned" <=> c.result # "none"
  /\ c.pc # "returned" => c.malformed = c.format
  /\ c.result \in {"important", "noise"} => WellFormed(c.reply) /\ c.result = ApplyRules(c.reply)
  /\ c.result = "unclassified" => ~WellFormed(c.reply) /\ c.malformed = MaxFormatRetries + 1

\* The requests of the format retries that are over, and of the present one.
Cost(n) == (MaxRetries + 1) * n

Spent(c) ==
  /\ c.pc \in {"idle", "acquire"} => c.requests <= Cost(c.format)
  /\ c.pc = "request" => c.requests <= Cost(c.format) + c.attempt
  /\ c.pc = "backoff" => c.requests <= Cost(c.format) + c.attempt + 1 /\ c.attempt < MaxRetries
  /\ c.requests <= Cost(c.format) + MaxRetries + 1

Sound(c) == c \in Calls /\ Result(c) /\ Spent(c)

Holds(c) == c.pc \in {"request", "backoff"}
Holding == {p \in Callers : Holds(call[p])}

\* The inductive invariant: of every call what it may have, of the semaphore
\* how many calls hold a slot.
Inv ==
  /\ call \in [Callers -> Calls]
  /\ \A p \in Callers : Sound(call[p])
  /\ slots = Cardinality(Holding)
  /\ slots <= MaxConcurrent
  /\ stopped \in BOOLEAN

-----------------------------------------------------------------------------
(***************************************************************************)
(* What a step makes of a call.                                            *)
(***************************************************************************)
LEMMA CostGrows ==
  ASSUME NEW n \in 0..MaxFormatRetries
  PROVE  /\ Cost(n) \in Nat
         /\ Cost(n + 1) = Cost(n) + MaxRetries + 1
         /\ Cost(n) + MaxRetries + 1 <= (MaxRetries + 1) * (MaxFormatRetries + 1)
<1>1. MaxRetries \in Nat /\ MaxFormatRetries \in Nat /\ n \in Nat /\ n <= MaxFormatRetries
  BY ClassificationAssumption DEF ClassificationAssumption
<1>2. \A a, b, m \in Nat : b <= m => a * b \in Nat /\ a * (b + 1) = a * b + a /\ a * b <= a * m
  BY SMT
<1>3. QED
  BY <1>1, <1>2 DEF Cost

\* A call that begins costs nothing and knows nothing.
LEMMA IdleSound == Sound(Idle)
BY CostGrows, ClassificationAssumption
DEF ClassificationAssumption, Sound, Idle, NoReply, Calls, Result, Spent

LEMMA ErrorSound ==
  ASSUME NEW c, Sound(c), c.pc # "returned"
  PROVE  Sound([c EXCEPT !.pc = "returned", !.result = "error"])
BY CostGrows DEF Sound, Calls, Result, Spent

LEMMA StartSound ==
  ASSUME NEW c, Sound(c), c.pc = "idle"
  PROVE  Sound([c EXCEPT !.pc = "acquire"])
BY CostGrows DEF Sound, Calls, Result, Spent

LEMMA AcquireSound ==
  ASSUME NEW c, Sound(c), c.pc = "acquire"
  PROVE  Sound([c EXCEPT !.pc = "request", !.attempt = 0])
<1> DEFINE d == [c EXCEPT !.pc = "request", !.attempt = 0]
<1> USE ClassificationAssumption DEF ClassificationAssumption
<1>0. c \in Calls /\ 0 \in 0..MaxRetries
  BY DEF Sound
<1>1. /\ d \in Calls
      /\ d.pc = "request" /\ d.attempt = 0
      /\ d.format = c.format /\ d.requests = c.requests /\ d.malformed = c.malformed /\ d.reply = c.reply /\ d.result = c.result
  BY <1>0 DEF Calls
<1>2. /\ c.format \in 0..MaxFormatRetries /\ c.attempt \in 0..MaxRetries /\ c.requests \in Nat
      /\ Cost(c.format) \in Nat
  BY CostGrows DEF Sound, Calls
<1> HIDE DEF d
<1>3. Result(d)
  BY <1>1 DEF Sound, Result
<1>4. Spent(d)
  BY <1>1, <1>2 DEF Sound, Spent
<1>5. QED
  BY <1>1, <1>3, <1>4 DEF Sound, d

LEMMA RefusedSound ==
  ASSUME NEW c, Sound(c), c.pc = "request"
  PROVE  Sound([c EXCEPT !.pc = "returned", !.requests = @ + 1, !.result = "error"])
<1> DEFINE d == [c EXCEPT !.pc = "returned", !.requests = @ + 1, !.result = "error"]
<1> USE ClassificationAssumption DEF ClassificationAssumption
<1>0. c \in Calls /\ c.requests + 1 \in Nat
  BY DEF Sound, Calls
<1>1. /\ d \in Calls
      /\ d.pc = "returned" /\ d.requests = c.requests + 1 /\ d.result = "error"
      /\ d.format = c.format /\ d.attempt = c.attempt /\ d.malformed = c.malformed /\ d.reply = c.reply
  BY <1>0 DEF Calls
<1>2. /\ c.format \in 0..MaxFormatRetries /\ c.attempt \in 0..MaxRetries /\ c.requests \in Nat
      /\ Cost(c.format) \in Nat
  BY CostGrows DEF Sound, Calls
<1> HIDE DEF d
<1>3. Result(d)
  BY <1>1 DEF Sound, Result
<1>4. Spent(d)
  BY <1>1, <1>2 DEF Sound, Spent
<1>5. QED
  BY <1>1, <1>3, <1>4 DEF Sound, d

LEMMA BackoffSound ==
  ASSUME NEW c, Sound(c), c.pc = "request", c.attempt # MaxRetries
  PROVE  Sound([c EXCEPT !.pc = "backoff", !.requests = @ + 1])
<1> DEFINE d == [c EXCEPT !.pc = "backoff", !.requests = @ + 1]
<1> USE ClassificationAssumption DEF ClassificationAssumption
<1>0. c \in Calls /\ c.requests + 1 \in Nat
  BY DEF Sound, Calls
<1>1. /\ d \in Calls
      /\ d.pc = "backoff" /\ d.requests = c.requests + 1
      /\ d.format = c.format /\ d.attempt = c.attempt /\ d.malformed = c.malformed /\ d.reply = c.reply /\ d.result = c.result
  BY <1>0 DEF Calls
<1>2. /\ c.format \in 0..MaxFormatRetries /\ c.attempt \in 0..MaxRetries /\ c.requests \in Nat
      /\ Cost(c.format) \in Nat
  BY CostGrows DEF Sound, Calls
<1> HIDE DEF d
<1>3. Result(d)
  BY <1>1 DEF Sound, Result
<1>4. Spent(d)
  BY <1>1, <1>2 DEF Sound, Spent
<1>5. QED
  BY <1>1, <1>3, <1>4 DEF Sound, d

LEMMA RetrySound ==
  ASSUME NEW c, Sound(c), c.pc = "backoff"
  PROVE  Sound([c EXCEPT !.pc = "request", !.attempt = @ + 1])
<1> DEFINE d == [c EXCEPT !.pc = "request", !.attempt = @ + 1]
<1> USE ClassificationAssumption DEF ClassificationAssumption
<1>0. c \in Calls /\ c.attempt + 1 \in 0..MaxRetries
  BY DEF Sound, Spent, Calls
<1>1. /\ d \in Calls
      /\ d.pc = "request" /\ d.attempt = c.attempt + 1
      /\ d.format = c.format /\ d.requests = c.requests /\ d.malformed = c.malformed /\ d.reply = c.reply /\ d.result = c.result
  BY <1>0 DEF Calls
<1>2. /\ c.format \in 0..MaxFormatRetries /\ c.attempt \in 0..MaxRetries /\ c.requests \in Nat
      /\ Cost(c.format) \in Nat
  BY CostGrows DEF Sound, Calls
<1> HIDE DEF d
<1>3. Result(d)
  BY <1>1 DEF Sound, Result
<1>4. Spent(d)
  BY <1>1, <1>2 DEF Sound, Spent
<1>5. QED
  BY <1>1, <1>3, <1>4 DEF Sound, d

\* A reply, whatever it says.
Answer(c, r) ==
  LET seen == [c EXCEPT !.requests = @ + 1, !.reply = r,
                        !.malformed = IF WellFormed(r) THEN @ ELSE @ + 1]
  IN IF WellFormed(r)
       THEN [seen EXCEPT !.pc = "returned", !.result = ApplyRules(r)]
     ELSE IF seen.format = MaxFormatRetries
       THEN [seen EXCEPT !.pc = "returned", !.result = "unclassified"]
     ELSE [seen EXCEPT !.pc = "acquire", !.format = @ + 1]

LEMMA AnswerSound ==
  ASSUME NEW c, Sound(c), c.pc = "request", NEW r \in Replies
  PROVE  Sound(Answer(c, r)) /\ ~Holds(Answer(c, r))
<1> DEFINE malformed == IF WellFormed(r) THEN c.malformed ELSE c.malformed + 1
           seen == [c EXCEPT !.requests = @ + 1, !.reply = r, !.malformed = malformed]
           d == Answer(c, r)
<1> USE ClassificationAssumption DEF ClassificationAssumption
<1>1. /\ c \in Calls /\ c.requests \in Nat /\ c.requests + 1 \in Nat /\ malformed \in Nat
      /\ c.format \in 0..MaxFormatRetries /\ c.attempt \in 0..MaxRetries
      /\ c.result = "none" /\ c.malformed = c.format
      /\ c.requests <= Cost(c.format) + c.attempt
  BY DEF Sound, Result, Spent, Calls
<1>2. /\ Cost(c.format) \in Nat
      /\ Cost(c.format + 1) = Cost(c.format) + MaxRetries + 1
  BY <1>1, CostGrows
<1>3. /\ d = IF WellFormed(r) THEN [seen EXCEPT !.pc = "returned", !.result = ApplyRules(r)]
             ELSE IF seen.format = MaxFormatRetries
               THEN [seen EXCEPT !.pc = "returned", !.result = "unclassified"]
             ELSE [seen EXCEPT !.pc = "acquire", !.format = @ + 1]
  BY Zenon DEF Answer
<1> HIDE DEF malformed, d
<1>4. /\ seen \in Calls /\ seen.pc = "request" /\ seen.requests = c.requests + 1
      /\ seen.reply = r /\ seen.malformed = malformed
      /\ seen.format = c.format /\ seen.attempt = c.attempt /\ seen.result = "none"
  BY <1>1 DEF Sound, Calls
<1> HIDE DEF seen
<1>5. CASE WellFormed(r)
  <2>1. ApplyRules(r) \in {"important", "noise"}
    BY DEF ApplyRules
  <2>2. d = [seen EXCEPT !.pc = "returned", !.result = ApplyRules(r)]
    BY <1>3, <1>5
  <2>3. /\ d \in Calls /\ d.pc = "returned" /\ d.result = ApplyRules(r)
        /\ d.requests = c.requests + 1 /\ d.reply = r /\ d.format = c.format
    BY <1>4, <2>1, <2>2 DEF Calls
  <2>4. Result(d)
    BY <1>5, <2>1, <2>3 DEF Result
  <2>5. Spent(d)
    BY <1>1, <1>2, <2>3 DEF Spent
  <2>6. QED
    BY <2>3, <2>4, <2>5 DEF Sound, Holds, d
<1>6. CASE ~WellFormed(r) /\ c.format = MaxFormatRetries
  <2>0. d = [seen EXCEPT !.pc = "returned", !.result = "unclassified"]
    BY <1>3, <1>4, <1>6
  <2>1. /\ d \in Calls /\ d.pc = "returned" /\ d.result = "unclassified"
        /\ d.requests = c.requests + 1 /\ d.reply = r /\ d.format = c.format
        /\ d.malformed = malformed
    BY <1>4, <2>0 DEF Calls
  <2>2. malformed = MaxFormatRetries + 1
    BY <1>1, <1>6 DEF malformed
  <2>3. Result(d)
    BY <1>6, <2>1, <2>2 DEF Result
  <2>4. Spent(d)
    BY <1>1, <1>2, <2>1 DEF Spent
  <2>5. QED
    BY <2>1, <2>3, <2>4 DEF Sound, Holds, d
<1>7. CASE ~WellFormed(r) /\ c.format # MaxFormatRetries
  <2>1. c.format + 1 \in 0..MaxFormatRetries
    BY <1>1, <1>7
  <2>2. /\ d \in Calls /\ d.pc = "acquire" /\ d.result = "none"
        /\ d.requests = c.requests + 1 /\ d.format = c.format + 1
        /\ d.malformed = malformed
    BY <1>3, <1>4, <1>7, <2>1 DEF Calls
  <2>3. malformed = c.format + 1
    BY <1>1, <1>7 DEF malformed
  <2>4. Result(d)
    BY <2>2, <2>3 DEF Result
  <2>5. Spent(d)
    <3>1. Cost(d.format) = Cost(c.format) + MaxRetries + 1
      BY <1>2, <2>2
    <3>2. QED
      BY <1>1, <1>2, <2>2, <3>1 DEF Spent
  <2>6. QED
    BY <2>2, <2>4, <2>5 DEF Sound, Holds, d
<1>8. QED
  BY <1>5, <1>6, <1>7

-----------------------------------------------------------------------------
(***************************************************************************)
(* The steps.                                                              *)
(***************************************************************************)
\* The call of one caller becomes a sound one, and the slots are counted.
LEMMA BecomesKeeps ==
  ASSUME Inv, NEW p \in Callers, NEW d, Sound(d), Becomes(p, d), UNCHANGED stopped,
         \/ (Holds(d) <=> Holds(call[p])) /\ slots' = slots
         \/ Holds(d) /\ ~Holds(call[p]) /\ slots < MaxConcurrent /\ slots' = slots + 1
         \/ ~Holds(d) /\ Holds(call[p]) /\ slots' = slots - 1
  PROVE  Inv'
<1> USE ClassificationAssumption DEF ClassificationAssumption
<1>1. /\ call' \in [Callers -> Calls] /\ call'[p] = d
      /\ \A q \in Callers : q # p => call'[q] = call[q]
  BY DEF Inv, Becomes, Sound
<1>2. \A q \in Callers : Sound(call'[q])
  BY <1>1 DEF Inv
<1>3. IsFiniteSet(Holding)
  BY FS_Subset DEF Holding
<1>4. Holding' = IF Holds(d) THEN Holding \cup {p} ELSE Holding \ {p}
  BY <1>1 DEF Holding
<1>5. p \in Holding <=> Holds(call[p])
  BY DEF Holding
<1>6. /\ Cardinality(Holding) \in Nat /\ slots = Cardinality(Holding) /\ slots <= MaxConcurrent
      /\ Cardinality(Holding \cup {p}) = IF p \in Holding THEN slots ELSE slots + 1
      /\ Cardinality(Holding \ {p}) = IF p \in Holding THEN slots - 1 ELSE slots
  BY <1>3, FS_CardinalityType, FS_AddElement, FS_RemoveElement DEF Inv
<1>7. slots' = Cardinality(Holding') /\ slots' <= MaxConcurrent
  BY <1>4, <1>5, <1>6
<1>8. QED
  BY <1>1, <1>2, <1>7 DEF Inv

\* No call has begun and no slot is in use.
LEMMA InitInv == Init => Inv
<1> SUFFICES ASSUME Init PROVE Inv
  OBVIOUS
<1>1. call = [p \in Callers |-> Idle] /\ slots = 0
  BY DEF Init
<1>2. stopped \in BOOLEAN
  BY Zenon DEF Init
<1>3. \A p \in Callers : Sound(call[p]) /\ ~Holds(call[p])
  BY <1>1, IdleSound DEF Holds, Idle
<1>4. call \in [Callers -> Calls]
  BY <1>1, IdleSound DEF Sound
<1>5. Holding = {}
  BY <1>3 DEF Holding
<1>6. slots = Cardinality(Holding) /\ slots <= MaxConcurrent
  BY <1>1, <1>5, FS_EmptySet, ClassificationAssumption DEF ClassificationAssumption
<1>7. QED
  BY <1>2, <1>3, <1>4, <1>6 DEF Inv

\* Every step of a caller, of the LLM and of the context keeps the invariant.
LEMMA NextInv == Inv /\ [Next]_vars => Inv'
<1> SUFFICES ASSUME Inv, [Next]_vars PROVE Inv'
  OBVIOUS
<1>1. CASE UNCHANGED vars
  BY <1>1 DEF vars, Inv, Holding
<1>2. CASE Shutdown
  BY <1>2 DEF Shutdown, Inv, Holding
<1>3. ASSUME NEW p \in Callers, Classify(p) \/ Resume(p) PROVE Inv'
  <2> DEFINE c == call[p]
  <2>0. Sound(c)
    BY DEF Inv
  <2>1. CASE Start(p)
    <3>1. CASE Becomes(p, [c EXCEPT !.pc = "acquire"])
      BY <2>0, <2>1, <3>1, StartSound, BecomesKeeps DEF Start, At, Holds, Sound, Calls
    <3>2. CASE Return(p, "error")
      BY <2>0, <2>1, <3>2, ErrorSound, BecomesKeeps DEF Start, Return, At, Holds, Sound, Calls
    <3>3. QED
      BY <2>1, <3>1, <3>2 DEF Start
  <2>2. CASE Acquire(p)
    <3> DEFINE d == [c EXCEPT !.pc = "request", !.attempt = 0]
    <3>1. Becomes(p, d) /\ UNCHANGED stopped /\ c.pc = "acquire"
          /\ slots < MaxConcurrent /\ slots' = slots + 1
      BY <2>2 DEF Acquire, At
    <3>2. d.pc = "request" /\ Sound(d)
      BY <2>0, <3>1, AcquireSound DEF Sound, Calls
    <3>3. Holds(d) /\ ~Holds(c)
      BY <3>1, <3>2 DEF Holds
    <3> HIDE DEF d
    <3>4. QED
      BY <3>1, <3>2, <3>3, BecomesKeeps
  <2>3. CASE GiveUpWaiting(p)
    BY <2>0, <2>3, ErrorSound, BecomesKeeps DEF GiveUpWaiting, Return, At, Holds, Sound, Calls
  <2>4. CASE Replied(p)
    <3>1. PICK r \in Replies : Becomes(p, Answer(c, r))
      BY <2>4 DEF Replied, Answer
    <3>2. Sound(Answer(c, r)) /\ ~Holds(Answer(c, r)) /\ Holds(c)
      BY <2>0, <2>4, AnswerSound DEF Replied, At, Holds
    <3>3. QED
      BY <2>4, <3>1, <3>2, BecomesKeeps DEF Replied
  <2> DEFINE refused == [c EXCEPT !.pc = "returned", !.requests = @ + 1, !.result = "error"]
  <2>a. ASSUME At(p, "request") PROVE Sound(refused) /\ ~Holds(refused) /\ Holds(c)
    <3>1. Sound(refused)
      BY <2>0, <2>a, RefusedSound DEF At
    <3>2. refused.pc = "returned" /\ c.pc = "request"
      BY <2>0, <2>a DEF At, Sound, Calls
    <3>3. QED
      BY <3>1, <3>2 DEF Holds
  <2>5. CASE Refused(p)
    <3>1. At(p, "request") /\ Becomes(p, refused) /\ slots' = slots - 1 /\ UNCHANGED stopped
      BY <2>5 DEF Refused
    <3> HIDE DEF refused
    <3>2. QED
      BY <2>a, <3>1, BecomesKeeps
  <2>6. CASE Unavailable(p)
    <3>1. CASE c.attempt = MaxRetries
      <4>1. At(p, "request") /\ Becomes(p, refused) /\ slots' = slots - 1 /\ UNCHANGED stopped
        BY <2>6, <3>1 DEF Unavailable
      <4> HIDE DEF refused
      <4>2. QED
        BY <2>a, <4>1, BecomesKeeps
    <3>2. CASE c.attempt # MaxRetries
      <4> DEFINE d == [c EXCEPT !.pc = "backoff", !.requests = @ + 1]
      <4>1. Becomes(p, d) /\ UNCHANGED <<slots, stopped>> /\ c.pc = "request"
        BY <2>6, <3>2 DEF Unavailable, At
      <4>2. d.pc = "backoff" /\ Sound(d)
        BY <2>0, <3>2, <4>1, BackoffSound DEF Sound, Calls
      <4>3. Holds(d) /\ Holds(c)
        BY <4>1, <4>2 DEF Holds
      <4> HIDE DEF d
      <4>4. QED
        BY <4>1, <4>2, <4>3, BecomesKeeps
    <3>3. QED
      BY <3>1, <3>2
  <2>7. CASE Retry(p)
    <3> DEFINE d == [c EXCEPT !.pc = "request", !.attempt = @ + 1]
    <3>1. Becomes(p, d) /\ UNCHANGED <<slots, stopped>> /\ c.pc = "backoff"
      BY <2>7 DEF Retry, At
    <3>2. d.pc = "request" /\ Sound(d)
      BY <2>0, <3>1, RetrySound DEF Sound, Calls
    <3>3. Holds(d) /\ Holds(c)
      BY <3>1, <3>2 DEF Holds
    <3> HIDE DEF d
    <3>4. QED
      BY <3>1, <3>2, <3>3, BecomesKeeps
  <2>8. CASE GiveUpRetrying(p)
    BY <2>0, <2>8, ErrorSound, BecomesKeeps DEF GiveUpRetrying, Return, At, Holds, Sound, Calls
  <2>9. CASE Resume(p)
    BY <2>9, IdleSound, BecomesKeeps DEF Resume, At, Holds, Idle
  <2>10. QED
    BY <1>3, <2>1, <2>2, <2>3, <2>4, <2>5, <2>6, <2>7, <2>8, <2>9 DEF Classify, Request
<1>4. QED
  BY <1>1, <1>2, <1>3 DEF Next

-----------------------------------------------------------------------------
\* The calls, their loop counters and the semaphore are well typed, and a call
\* has a result exactly when it has returned.
THEOREM ClassificationTypeCorrect == Spec => []TypeOK
<1>1. Inv => TypeOK
  <2> SUFFICES ASSUME Inv PROVE TypeOK
    OBVIOUS
  <2>1. slots \in Nat
    <3>1. IsFiniteSet(Holding)
      BY FS_Subset, ClassificationAssumption DEF Holding, ClassificationAssumption
    <3>2. QED
      BY <3>1, FS_CardinalityType DEF Inv
  <2>2. \A p \in Callers : At(p, "returned") <=> call[p].result # "none"
    BY DEF Inv, Sound, Result, At
  <2>3. QED
    BY <2>1, <2>2 DEF Inv, TypeOK
<1>2. QED
  BY InitInv, NextInv, <1>1, PTL DEF Spec

\* The semaphore counts the calls between taking a slot and giving it back, on
\* every way out of Complete, and never more than it has.
THEOREM SlotsComeBack == Spec => []SlotsCounted
<1>1. Inv => SlotsCounted
  <2>1. Holding = {p \in Callers : At(p, "request") \/ At(p, "backoff")}
    BY DEF Holding, Holds, At
  <2>2. QED
    BY <2>1 DEF Inv, SlotsCounted
<1>2. QED
  BY InitInv, NextInv, <1>1, PTL DEF Spec

\* One Classify costs at most the product of its two loops.
THEOREM RequestsStayBounded == Spec => []RequestsBounded
<1>1. Inv => RequestsBounded
  <2> SUFFICES ASSUME Inv, NEW p \in Callers
               PROVE  call[p].requests <= (MaxRetries + 1) * (MaxFormatRetries + 1)
    BY DEF RequestsBounded
  <2>1. /\ call[p].format \in 0..MaxFormatRetries /\ call[p].requests \in Nat
        /\ call[p].requests <= Cost(call[p].format) + MaxRetries + 1
    BY DEF Inv, Sound, Spent, Calls
  <2> DEFINE bound == (MaxRetries + 1) * (MaxFormatRetries + 1)
             cost == Cost(call[p].format)
  <2>2. cost \in Nat /\ cost + MaxRetries + 1 <= bound
    BY <2>1, CostGrows
  <2>3. MaxRetries \in Nat /\ bound \in Int
    BY ClassificationAssumption DEF ClassificationAssumption
  <2> HIDE DEF bound, cost
  <2>4. call[p].requests <= bound
    BY <2>1, <2>2, <2>3 DEF cost
  <2>5. QED
    BY <2>4 DEF bound
<1>2. QED
  BY InitInv, NextInv, <1>1, PTL DEF Spec

\* Importance and noise come from a well-formed reply, "unclassified" from
\* malformed ones to every format retry: never from an LLM that did not answer.
THEOREM NoVerdictWithoutReply == Spec => []NoFabricatedVerdict
<1>1. Inv => NoFabricatedVerdict
  BY DEF Inv, Sound, Result, NoFabricatedVerdict
<1>2. QED
  BY InitInv, NextInv, <1>1, PTL DEF Spec

\* A well-formed reply that says "security" is important, at whatever try.
THEOREM SecurityStaysImportant == Spec => []SecurityIsImportant
<1>1. Inv => SecurityIsImportant
  <2> SUFFICES ASSUME Inv, NEW p \in Callers
      PROVE /\ call[p].result # "error" /\ WellFormed(call[p].reply) /\ call[p].reply.security
                 => call[p].result \in {"none", "important"}
            /\ call[p].result = "important" => call[p].reply.security \/ call[p].reply.important
    BY DEF SecurityIsImportant
  <2>1. Result(call[p]) /\ call[p].result \in {"none", "error", "important", "noise", "unclassified"}
    BY DEF Inv, Sound, Calls
  <2>2. QED
    BY <2>1, Zenon DEF Result, ApplyRules
<1>2. QED
  BY InitInv, NextInv, <1>1, PTL DEF Spec
=============================================================================
