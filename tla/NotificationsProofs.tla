------------------------- MODULE NotificationsProofs -------------------------
(***************************************************************************)
(* Theorems of Notifications, for every set of channels and any number of  *)
(* tries and events.  A step moves one channel, the event or the stop, so  *)
(* that the invariant is a conjunction over the channels (Kept), and what  *)
(* has to be shown of a channel's step is that it keeps its own part.      *)
(***************************************************************************)
EXTENDS Notifications, TLAPS

Goroutine == [pc : {"new", "sending", "sleeping", "done"}, tries : 0..Attempts, sent : 0..Attempts]

\* The tries of a Send bound its transmissions, and these what the server took.
TriesBound(c) ==
  /\ At(c, "new") => send[c].tries = 0 /\ send[c].sent = 0
  /\ At(c, "sending") => send[c].tries < Attempts /\ send[c].sent <= send[c].tries
  /\ At(c, "sleeping") => send[c].tries < Attempts /\ send[c].sent <= send[c].tries + 1
  /\ accepted[c] <= send[c].sent

ReportOf(c) ==
  /\ At(c, "done") <=> report[c] # "none"
  /\ report[c] = "ok" => accepted[c] > 0
  /\ report[c] = "error" /\ accepted[c] > 0 => send[c].tries > 0

\* A Send to a server that answers fails a try only when the process is stopping.
UpFailsAtStop(c) ==
  c \in Up =>
    /\ At(c, "sleeping") => stopping
    /\ At(c, "sending") /\ send[c].tries > 0 => stopping
    /\ report[c] = "error" => stopping

Kept(c) == TriesBound(c) /\ ReportOf(c) /\ UpFailsAtStop(c)

Inv ==
  /\ TypeOK
  /\ ~groupErr
  /\ \A c \in Called : Kept(c)

\* What a step of channel c writes: its goroutine, its report, its count.
Moves(c, g, r, n) ==
  /\ g \in Goroutine /\ r \in {"none", "ok", "error"} /\ n \in 0..Attempts
  /\ send' = [send EXCEPT ![c] = g]
  /\ report' = [report EXCEPT ![c] = r]
  /\ accepted' = [accepted EXCEPT ![c] = n]
  /\ UNCHANGED <<event, groupErr, stopping>>

\* A step of one channel that keeps the channel's part keeps the invariant.
LEMMA MoveKeepsInv ==
  ASSUME Inv, NEW c \in Called, NEW g, NEW r, NEW n, Moves(c, g, r, n), Kept(c)'
  PROVE  Inv'
<1>1. TypeOK'
  <2>1. send' \in [Called -> Goroutine]
    BY DEF Inv, TypeOK, Moves, Goroutine
  <2>2. report' \in [Called -> {"none", "ok", "error"}] /\ accepted' \in [Called -> 0..Attempts]
    BY DEF Inv, TypeOK, Moves
  <2>3. QED
    BY <2>1, <2>2 DEF Inv, TypeOK, Moves, Goroutine
<1>2. ~groupErr'
  BY DEF Inv, Moves
<1>3. ASSUME NEW d \in Called PROVE Kept(d)'
  <2>1. CASE d = c
    BY <2>1
  <2>2. CASE d # c
    <3>1. send'[d] = send[d] /\ report'[d] = report[d] /\ accepted'[d] = accepted[d] /\ stopping' = stopping
      BY <2>2 DEF Inv, TypeOK, Moves
    <3>2. QED
      BY <3>1 DEF Inv, Kept, TriesBound, ReportOf, UpFailsAtStop, At
  <2>3. QED
    BY <2>1, <2>2
<1>4. QED
  BY <1>1, <1>2, <1>3 DEF Inv

\* Kept(c)' in terms of what a step of channel c writes.
LEMMA KeptAfterMove ==
  ASSUME Inv, NEW c \in Called, NEW g, NEW r, NEW n, Moves(c, g, r, n),
         g.pc = "new" => g.tries = 0 /\ g.sent = 0,
         g.pc = "sending" => g.tries < Attempts /\ g.sent <= g.tries,
         g.pc = "sleeping" => g.tries < Attempts /\ g.sent <= g.tries + 1,
         n <= g.sent,
         g.pc = "done" <=> r # "none",
         r = "ok" => n > 0,
         r = "error" /\ n > 0 => g.tries > 0,
         c \in Up => /\ g.pc = "sleeping" => stopping
                     /\ g.pc = "sending" /\ g.tries > 0 => stopping
                     /\ r = "error" => stopping
  PROVE  Inv'
<1>1. send'[c] = g /\ report'[c] = r /\ accepted'[c] = n /\ stopping' = stopping
  BY DEF Inv, TypeOK, Moves
<1>2. TriesBound(c)'
  BY <1>1 DEF TriesBound, At
<1>3. ReportOf(c)'
  BY <1>1 DEF ReportOf, At
<1>4. UpFailsAtStop(c)'
  BY <1>1 DEF UpFailsAtStop, At
<1>5. QED
  BY <1>2, <1>3, <1>4, MoveKeepsInv DEF Kept

\* What the invariant says of one channel's goroutine.
LEMMA ChannelTypes ==
  ASSUME Inv, NEW c \in Called
  PROVE  /\ send \in [Called -> Goroutine] /\ send[c] \in Goroutine
         /\ send[c].tries \in 0..Attempts /\ send[c].sent \in 0..Attempts
         /\ report[c] \in {"none", "ok", "error"}
         /\ accepted[c] \in 0..Attempts
         /\ Attempts \in Nat \ {0}
         /\ report = [report EXCEPT ![c] = report[c]]
         /\ accepted = [accepted EXCEPT ![c] = accepted[c]]
BY NotificationsAssumption DEF Inv, TypeOK, Goroutine

\* A goroutine whose program counter moves.
LEMMA GotoChangesPc ==
  ASSUME Inv, NEW c \in Called, NEW pc, Goto(c, pc)
  PROVE  send' = [send EXCEPT ![c] = [pc |-> pc, tries |-> send[c].tries, sent |-> send[c].sent]]
<1>1. send[c] \in Goroutine
  BY ChannelTypes
<1>2. [send[c] EXCEPT !.pc = pc] = [pc |-> pc, tries |-> send[c].tries, sent |-> send[c].sent]
  BY <1>1 DEF Goroutine
<1>3. QED
  BY <1>2 DEF Goto

LEMMA InitInv == Init => Inv
<1> SUFFICES ASSUME Init PROVE Inv
  OBVIOUS
<1>1. ASSUME NEW c \in Called
      PROVE  /\ send[c] = [pc |-> "new", tries |-> 0, sent |-> 0]
             /\ report[c] = "none" /\ accepted[c] = 0
  BY DEF Init, NotLaunched
<1>2. TypeOK
  <2>1. event \in 1..MaxEvents /\ 0 \in 0..Attempts
    BY NotificationsAssumption DEF Init
  <2>2. send \in [Called -> Goroutine] /\ report \in [Called -> {"none", "ok", "error"}]
        /\ accepted \in [Called -> 0..Attempts]
    BY <2>1 DEF Init, NotLaunched, Goroutine
  <2>3. QED
    BY <2>1, <2>2 DEF Init, TypeOK, Goroutine
<1>3. ASSUME NEW c \in Called PROVE Kept(c)
  BY <1>1, NotificationsAssumption DEF Kept, TriesBound, ReportOf, UpFailsAtStop, At
<1>4. QED
  BY <1>2, <1>3 DEF Inv, Init

LEMMA LaunchInv == ASSUME Inv, NEW c \in Called, Launch(c) PROVE Inv'
<1>0. /\ send[c] \in Goroutine
      /\ send[c].tries \in 0..Attempts /\ send[c].sent \in 0..Attempts
      /\ report[c] \in {"none", "ok", "error"}
      /\ accepted[c] \in 0..Attempts
      /\ Attempts \in Nat \ {0}
      /\ report = [report EXCEPT ![c] = report[c]]
      /\ accepted = [accepted EXCEPT ![c] = accepted[c]]
      /\ send \in [Called -> Goroutine]
  BY ChannelTypes
<1> USE <1>0
<1>1. At(c, "new") /\ send[c].tries = 0 /\ send[c].sent = 0 /\ accepted[c] = 0 /\ report[c] = "none"
  BY DEF Goroutine, Launch, Inv, Kept, TriesBound, ReportOf, At
<1>2. CASE c \in Notifiers /\ Goto(c, "sending") /\ UNCHANGED report
  <2> DEFINE g == [pc |-> "sending", tries |-> send[c].tries, sent |-> send[c].sent]
  <2>1. send' = [send EXCEPT ![c] = g]
    BY <1>2, GotoChangesPc
  <2>2. Moves(c, g, "none", 0)
    BY <1>1, <1>2, <2>1 DEF Moves, Launch, Goroutine
  <2>3. g.pc = "sending" /\ g.tries = 0 /\ g.sent = 0 /\ 0 < Attempts
    BY <1>1
  <2>4. QED
    BY <2>2, <2>3, KeptAfterMove
<1>3. CASE c \notin Notifiers /\ Goto(c, "done") /\ Reports(c, "error")
  <2> DEFINE g == [pc |-> "done", tries |-> send[c].tries, sent |-> send[c].sent]
  <2>1. send' = [send EXCEPT ![c] = g]
    BY <1>3, GotoChangesPc
  <2>2. Moves(c, g, "error", 0)
    BY <1>1, <1>3, <2>1 DEF Moves, Launch, Reports, Goroutine
  <2>3. c \notin Up
    BY <1>3, NotificationsAssumption
  <2>4. QED
    BY <2>2, <2>3, KeptAfterMove
<1>4. QED
  BY <1>2, <1>3 DEF Launch

\* The bounds of a goroutine that is sending, and after one more transmission.
LEMMA WhileSending ==
  ASSUME Inv, NEW c \in Called, At(c, "sending")
  PROVE  /\ send[c].tries \in Nat /\ send[c].tries < Attempts
         /\ send[c].sent \in Nat /\ send[c].sent <= send[c].tries
         /\ send[c].sent + 1 \in 0..Attempts
         /\ accepted[c] \in Nat /\ accepted[c] <= send[c].sent
         /\ accepted[c] + 1 \in 0..Attempts
         /\ report[c] = "none"
<1>1. /\ send[c].tries < Attempts /\ send[c].sent <= send[c].tries
      /\ accepted[c] <= send[c].sent /\ report[c] = "none"
  BY DEF Inv, Kept, TriesBound, ReportOf, At
<1>2. QED
  BY <1>1, ChannelTypes

LEMMA AnsweredInv == ASSUME Inv, NEW c \in Called, Answered(c) PROVE Inv'
<1>0. /\ send[c] \in Goroutine
      /\ send[c].tries \in 0..Attempts /\ send[c].sent \in 0..Attempts
      /\ report[c] \in {"none", "ok", "error"}
      /\ accepted[c] \in 0..Attempts
      /\ Attempts \in Nat \ {0}
      /\ report = [report EXCEPT ![c] = report[c]]
      /\ accepted = [accepted EXCEPT ![c] = accepted[c]]
      /\ send \in [Called -> Goroutine]
  BY ChannelTypes
<1> USE <1>0
<1>1. At(c, "sending")
  BY DEF Answered
<1>2. /\ send[c].tries \in Nat /\ send[c].sent \in Nat /\ send[c].sent <= send[c].tries
      /\ send[c].sent + 1 \in 0..Attempts
      /\ accepted[c] \in Nat /\ accepted[c] <= send[c].sent /\ accepted[c] + 1 \in 0..Attempts
  BY <1>1, WhileSending
<1> DEFINE g == [pc |-> "done", tries |-> send[c].tries, sent |-> send[c].sent + 1]
<1>3. g \in Goroutine
  BY <1>2 DEF Goroutine
<1>4. send' = [send EXCEPT ![c] = g]
  BY DEF Answered, Goroutine
<1>5. CASE accepted' = [accepted EXCEPT ![c] = @ + 1] /\ Reports(c, "ok")
  <2>1. Moves(c, g, "ok", accepted[c] + 1)
    BY <1>2, <1>3, <1>4, <1>5 DEF Moves, Answered, Reports
  <2>2. QED
    BY <1>2, <2>1, KeptAfterMove
<1>6. CASE c \notin Up /\ Reports(c, "error") /\ UNCHANGED accepted
  <2>1. Moves(c, g, "error", accepted[c])
    BY <1>2, <1>3, <1>4, <1>6 DEF Moves, Answered, Reports
  <2>2. QED
    BY <1>2, <1>6, <2>1, KeptAfterMove
<1>7. QED
  BY <1>5, <1>6 DEF Answered

\* A try that fails: the goroutine sleeps, having transmitted or not, and only
\* a transmission can have been accepted.
LEMMA FailedTryInv ==
  ASSUME Inv, NEW c \in Called, At(c, "sending"), c \in Up => stopping,
         NEW s \in {0, 1}, NEW n \in {0, 1}, n <= s,
         send' = [send EXCEPT ![c] = [pc |-> "sleeping", tries |-> send[c].tries, sent |-> send[c].sent + s]],
         accepted' = [accepted EXCEPT ![c] = accepted[c] + n],
         UNCHANGED <<event, report, groupErr, stopping>>
  PROVE  Inv'
<1>0. /\ send[c] \in Goroutine
      /\ send[c].tries \in 0..Attempts /\ send[c].sent \in 0..Attempts
      /\ report[c] \in {"none", "ok", "error"}
      /\ accepted[c] \in 0..Attempts
      /\ Attempts \in Nat \ {0}
      /\ report = [report EXCEPT ![c] = report[c]]
      /\ accepted = [accepted EXCEPT ![c] = accepted[c]]
      /\ send \in [Called -> Goroutine]
  BY ChannelTypes
<1> USE <1>0
<1> DEFINE g == [pc |-> "sleeping", tries |-> send[c].tries, sent |-> send[c].sent + s]
<1>1. /\ send[c].tries \in Nat /\ send[c].tries < Attempts
      /\ send[c].sent \in Nat /\ send[c].sent <= send[c].tries /\ send[c].sent + 1 \in 0..Attempts
      /\ accepted[c] \in Nat /\ accepted[c] <= send[c].sent /\ accepted[c] + 1 \in 0..Attempts
      /\ report[c] = "none"
  BY WhileSending
<1>2. send[c].sent + s \in 0..Attempts /\ accepted[c] + n \in 0..Attempts /\ send[c].tries \in 0..Attempts
  BY <1>1
<1>3. g \in Goroutine
  BY <1>2 DEF Goroutine
<1>4. Moves(c, g, "none", accepted[c] + n)
  BY <1>1, <1>2, <1>3 DEF Moves
<1>5. accepted[c] + n <= send[c].sent + s /\ send[c].sent + s <= send[c].tries + 1
  BY <1>1
<1>6. QED
  BY <1>1, <1>4, <1>5, KeptAfterMove

LEMMA TryInv ==
  ASSUME Inv, NEW c \in Called, AnswerLost(c) \/ Unreachable(c) \/ EmptyBody(c) \/ Abort(c)
  PROVE  Inv'
<1>0. /\ send[c] \in Goroutine
      /\ send[c].tries \in 0..Attempts /\ send[c].sent \in 0..Attempts
      /\ report[c] \in {"none", "ok", "error"}
      /\ accepted[c] \in 0..Attempts
      /\ Attempts \in Nat \ {0}
      /\ report = [report EXCEPT ![c] = report[c]]
      /\ accepted = [accepted EXCEPT ![c] = accepted[c]]
      /\ send \in [Called -> Goroutine]
  BY ChannelTypes
<1> USE <1>0
<1>1. At(c, "sending")
  BY DEF AnswerLost, Unreachable, EmptyBody, Abort
<1>2. /\ send[c].sent \in Nat /\ send[c].tries \in Nat /\ send[c].sent <= send[c].tries
      /\ accepted[c] \in Nat
  BY <1>1, WhileSending
<1> DEFINE Slept(s) == send' = [send EXCEPT ![c] = [pc |-> "sleeping", tries |-> send[c].tries, sent |-> send[c].sent + s]]
           Took(n) == accepted' = [accepted EXCEPT ![c] = accepted[c] + n]
<1>3. Goto(c, "sleeping") => Slept(0)
  <2>1. send[c].sent + 0 = send[c].sent
    BY <1>2
  <2>2. QED
    BY <2>1, GotoChangesPc
<1>4. send' = [send EXCEPT ![c].pc = "sleeping", ![c].sent = @ + 1] => Slept(1)
  BY <1>2 DEF Goroutine
<1>5. UNCHANGED accepted => Took(0)
  <2>1. accepted[c] + 0 = accepted[c]
    BY <1>2
  <2>2. QED
    BY <2>1
<1>6. accepted' = [accepted EXCEPT ![c] = @ + 1] => Took(1)
  BY <1>2
<1>7. c \in Up => stopping
  <2>1. c \in Up => ~AnswerLost(c) /\ ~Unreachable(c)
    BY NotificationsAssumption DEF AnswerLost, Unreachable
  <2>2. Abort(c) => stopping
    BY DEF Abort, CtxDone, Inv
  <2>3. c \in Up /\ EmptyBody(c) => stopping
    BY <1>1, <1>2 DEF EmptyBody, Inv, Kept, UpFailsAtStop
  <2>4. QED
    BY <2>1, <2>2, <2>3
<1>8. UNCHANGED <<event, report, groupErr, stopping>>
  BY DEF AnswerLost, Unreachable, EmptyBody, Abort
<1>9. (Slept(0) /\ Took(0)) \/ (Slept(1) /\ Took(0)) \/ (Slept(1) /\ Took(1))
  BY <1>3, <1>4, <1>5, <1>6 DEF AnswerLost, Unreachable, EmptyBody, Abort
<1>10. ASSUME NEW s \in {0, 1}, NEW n \in {0, 1}, n <= s, Slept(s), Took(n) PROVE Inv'
  BY <1>1, <1>7, <1>8, <1>10, FailedTryInv
<1>11. QED
  BY <1>9, <1>10

LEMMA WakeInv == ASSUME Inv, NEW c \in Called, Wake(c) PROVE Inv'
<1>0. /\ send[c] \in Goroutine
      /\ send[c].tries \in 0..Attempts /\ send[c].sent \in 0..Attempts
      /\ report[c] \in {"none", "ok", "error"}
      /\ accepted[c] \in 0..Attempts
      /\ Attempts \in Nat \ {0}
      /\ report = [report EXCEPT ![c] = report[c]]
      /\ accepted = [accepted EXCEPT ![c] = accepted[c]]
      /\ send \in [Called -> Goroutine]
  BY ChannelTypes
<1> USE <1>0
<1>1. /\ At(c, "sleeping") /\ send[c].tries < Attempts /\ send[c].sent <= send[c].tries + 1
      /\ accepted[c] <= send[c].sent /\ report[c] = "none" /\ (c \in Up => stopping)
  BY DEF Wake, Inv, Kept, TriesBound, ReportOf, UpFailsAtStop, At
<1>2. send[c].tries \in Nat /\ send[c].sent \in Nat /\ send[c].tries + 1 \in 0..Attempts
  BY <1>1
<1>3. CASE send[c].tries + 1 = Attempts
  <2> DEFINE g == [pc |-> "done", tries |-> send[c].tries + 1, sent |-> send[c].sent]
  <2>1. send' = [send EXCEPT ![c] = g] /\ report' = [report EXCEPT ![c] = "error"]
    BY <1>3 DEF Wake, Reports, Goroutine
  <2>2. g \in Goroutine
    BY <1>2 DEF Goroutine
  <2>3. Moves(c, g, "error", accepted[c])
    BY <2>1, <2>2 DEF Moves, Wake
  <2>4. QED
    BY <1>1, <1>2, <2>3, KeptAfterMove
<1>4. CASE send[c].tries + 1 # Attempts
  <2> DEFINE g == [pc |-> "sending", tries |-> send[c].tries + 1, sent |-> send[c].sent]
  <2>1. send' = [send EXCEPT ![c] = g] /\ report' = report
    BY <1>4 DEF Wake, Reports, Goroutine
  <2>2. g \in Goroutine
    BY <1>2 DEF Goroutine
  <2>3. Moves(c, g, "none", accepted[c])
    BY <1>1, <2>1, <2>2 DEF Moves, Wake
  <2>4. QED
    BY <1>1, <1>2, <1>4, <2>3, KeptAfterMove
<1>5. QED
  BY <1>3, <1>4

LEMMA NextEventInv == ASSUME Inv, NextEvent PROVE Inv'
<1>1. ASSUME NEW c \in Called
      PROVE  /\ send'[c] = [pc |-> "new", tries |-> 0, sent |-> 0]
             /\ report'[c] = "none" /\ accepted'[c] = 0
  BY DEF NextEvent, NotLaunched
<1>2. TypeOK'
  <2>1. event' \in 1..MaxEvents
    BY NotificationsAssumption DEF NextEvent, Inv, TypeOK
  <2>2. send' \in [Called -> Goroutine] /\ report' \in [Called -> {"none", "ok", "error"}]
        /\ accepted' \in [Called -> 0..Attempts]
    BY NotificationsAssumption DEF NextEvent, NotLaunched, Goroutine
  <2>3. QED
    BY <2>1, <2>2 DEF NextEvent, Inv, TypeOK, Goroutine
<1>3. ASSUME NEW c \in Called PROVE Kept(c)'
  BY <1>1, NotificationsAssumption DEF Kept, TriesBound, ReportOf, UpFailsAtStop, At
<1>4. QED
  BY <1>2, <1>3 DEF Inv, NextEvent

LEMMA ShutdownInv == ASSUME Inv, Shutdown PROVE Inv'
<1>1. TypeOK' /\ ~groupErr'
  BY DEF Shutdown, Inv, TypeOK
<1>2. ASSUME NEW c \in Called PROVE Kept(c)'
  BY DEF Shutdown, Inv, Kept, TriesBound, ReportOf, UpFailsAtStop, At
<1>3. QED
  BY <1>1, <1>2 DEF Inv

LEMMA StutterInv == ASSUME Inv, UNCHANGED vars PROVE Inv'
BY DEF vars, Inv, TypeOK, Kept, TriesBound, ReportOf, UpFailsAtStop, At

LEMMA NextInv == Inv /\ [Next]_vars => Inv'
<1> SUFFICES ASSUME Inv, [Next]_vars PROVE Inv'
  OBVIOUS
<1>1. ASSUME NEW c \in Called, Launch(c) \/ Send(c) PROVE Inv'
  BY <1>1, LaunchInv, AnsweredInv, TryInv, WakeInv DEF Send
<1>2. QED
  BY <1>1, NextEventInv, ShutdownInv, StutterInv DEF Next

LEMMA SpecInv == Spec => []Inv
<1>1. QED
  BY InitInv, NextInv, PTL DEF Spec

\* The goroutines and the report are well typed, with no more transmissions and
\* no more accepted notifications than tries.
THEOREM NotificationsTypeCorrect == Spec => []TypeOK
<1>1. Inv => TypeOK
  BY DEF Inv
<1>2. QED
  BY <1>1, SpecInv, PTL

\* The report of Dispatch accounts for every channel, and never says ok of a
\* notification the server did not take (dispatcher.Dispatch).
THEOREM ReportStaysTrue == Spec => []ReportIsTrue
<1>1. Inv => ReportIsTrue
  BY DEF Inv, Kept, ReportOf, ReportIsTrue
<1>2. QED
  BY <1>1, SpecInv, PTL

\* The failure of one channel reaches no other, for any mix of servers.
THEOREM FailuresStayIsolated == Spec => []FailureIsolated
<1>1. Inv => FailureIsolated
  BY DEF Inv, Kept, UpFailsAtStop, FailureIsolated
<1>2. QED
  BY <1>1, SpecInv, PTL

-----------------------------------------------------------------------------
(***************************************************************************)
(* Refinement.  What happens inside a Send is a stutter of DispatchCall,   *)
(* and its last step settles the channel.                                  *)
(***************************************************************************)
\* Only a channel with a notifier has a goroutine.
NotifierSends == \A c \in Called : At(c, "sending") \/ At(c, "sleeping") => c \in Notifiers

LEMMA NotifierSendsInv == Spec => []NotifierSends
<1>1. Init => NotifierSends
  BY DEF Init, NotLaunched, NotifierSends, At
<1>2. ASSUME Inv, NotifierSends, [Next]_vars PROVE NotifierSends'
  <2>1. ASSUME NEW c \in Called, Launch(c) PROVE NotifierSends'
    <3>1. \A d \in Called \ {c} : send'[d] = send[d]
      BY <1>2, <2>1 DEF Launch, Goto, Inv, TypeOK
    <3>2. c \in Notifiers \/ send'[c].pc = "done"
      BY <1>2, <2>1, ChannelTypes DEF Launch, Goto, Goroutine
    <3>3. QED
      BY <1>2, <3>1, <3>2 DEF NotifierSends, At
  <2>2. ASSUME NEW c \in Called, Send(c) PROVE NotifierSends'
    <3>1. \A d \in Called \ {c} : send'[d] = send[d]
      BY <1>2, <2>2 DEF Send, Answered, AnswerLost, Unreachable, EmptyBody, Abort, Wake, Goto, Inv, TypeOK
    <3>2. At(c, "sending") \/ At(c, "sleeping")
      BY <2>2 DEF Send, Answered, AnswerLost, Unreachable, EmptyBody, Abort, Wake
    <3>3. QED
      BY <1>2, <3>1, <3>2 DEF NotifierSends, At
  <2>3. CASE NextEvent
    BY <2>3 DEF NextEvent, NotLaunched, NotifierSends, At
  <2>4. CASE Shutdown \/ UNCHANGED vars
    BY <1>2, <2>4 DEF Shutdown, vars, NotifierSends, At
  <2>5. QED
    BY <1>2, <2>1, <2>2, <2>3, <2>4 DEF Next
<1>3. QED
  BY <1>1, <1>2, SpecInv, PTL DEF Spec

OpenNow == {c \in Called : ~At(c, "done")}
TakenNow == [c \in Called |-> IF At(c, "done") THEN accepted[c] ELSE 0]
OkNow == {c \in Called : report[c] = "ok"}

\* A step of one channel, which keeps the invariant, is for the abstract call a
\* stutter while the goroutine is not done, and the settling of the channel when
\* it is.
LEMMA ChannelStepRefines ==
  ASSUME Inv, Inv', NEW c \in Called, ~At(c, "done"), event' = event,
         \A d \in Called \ {c} : /\ send'[d] = send[d]
                                 /\ report'[d] = report[d]
                                 /\ accepted'[d] = accepted[d],
         accepted'[c] > 0 => c \in Notifiers
  PROVE  Call!Settle(c) \/ UNCHANGED Call!callVars
<1>1. c \in OpenNow /\ TakenNow[c] = 0 /\ c \notin OkNow
  BY DEF OpenNow, TakenNow, OkNow, Inv, Kept, ReportOf
<1>2. ReportOf(c)' /\ accepted'[c] \in 0..Attempts
  BY DEF Inv, Kept, TypeOK
<1>3. CASE ~At(c, "done")'
  <2>1. OpenNow' = OpenNow /\ TakenNow' = TakenNow /\ OkNow' = OkNow
    BY <1>1, <1>2, <1>3 DEF OpenNow, TakenNow, OkNow, At, ReportOf
  <2>2. QED
    BY <2>1 DEF OpenNow, TakenNow, OkNow, Call!callVars
<1>4. CASE At(c, "done")'
  <2>1. OpenNow' = OpenNow \ {c}
    BY <1>4 DEF OpenNow, At
  <2>2. TakenNow' = [TakenNow EXCEPT ![c] = accepted'[c]]
    BY <1>1, <1>4 DEF TakenNow, At
  <2>3. OkNow' = IF report'[c] = "ok" THEN OkNow \cup {c} ELSE OkNow
    BY <1>1 DEF OkNow
  <2>4. report'[c] = "ok" => accepted'[c] > 0
    BY <1>2 DEF ReportOf
  <2>5. \/ /\ c \in Notifiers /\ OkNow' \in {OkNow, OkNow \cup {c}}
           /\ \E n \in 1..Attempts : TakenNow' = [TakenNow EXCEPT ![c] = n]
        \/ UNCHANGED <<TakenNow, OkNow>>
    <3>1. CASE accepted'[c] = 0
      <4>1. TakenNow' = TakenNow
        BY <1>1, <2>2, <3>1 DEF TakenNow
      <4>2. OkNow' = OkNow
        BY <2>3, <2>4, <3>1
      <4>3. QED
        BY <4>1, <4>2
    <3>2. CASE accepted'[c] # 0
      <4>1. accepted'[c] \in 1..Attempts /\ accepted'[c] > 0
        BY <1>2, <3>2, NotificationsAssumption
      <4>2. QED
        BY <2>2, <2>3, <4>1
    <3>3. QED
      BY <3>1, <3>2
  <2>6. Call!Settle(c)
    BY <1>1, <2>1, <2>5 DEF OpenNow, TakenNow, OkNow, Call!Settle
  <2>7. QED
    BY <2>6
<1>5. QED
  BY <1>3, <1>4

LEMMA LaunchRefines ==
  ASSUME Inv, Inv', NEW c \in Called, Launch(c)
  PROVE  Call!Settle(c) \/ UNCHANGED Call!callVars
<1>1. ~At(c, "done")
  BY DEF Launch, At
<1>2. accepted'[c] = 0
  BY <1>1, ChannelTypes DEF Launch, Inv, Kept, TriesBound
<1>3. \A d \in Called \ {c} : send'[d] = send[d] /\ report'[d] = report[d] /\ accepted'[d] = accepted[d]
  BY DEF Launch, Goto, Reports, Inv, TypeOK
<1>4. event' = event
  BY DEF Launch
<1>5. QED
  BY <1>1, <1>2, <1>3, <1>4, ChannelStepRefines

LEMMA SendRefines ==
  ASSUME Inv, Inv', NotifierSends, NEW c \in Called, Send(c)
  PROVE  Call!Settle(c) \/ UNCHANGED Call!callVars
<1>1. At(c, "sending") \/ At(c, "sleeping")
  BY DEF Send, Answered, AnswerLost, Unreachable, EmptyBody, Abort, Wake
<1>2. ~At(c, "done") /\ c \in Notifiers
  BY <1>1 DEF At, NotifierSends
<1>3. \A d \in Called \ {c} : send'[d] = send[d]
  BY DEF Send, Answered, AnswerLost, Unreachable, EmptyBody, Abort, Wake, Goto, Inv, TypeOK
<1>4. \A d \in Called \ {c} : report'[d] = report[d]
  BY DEF Send, Answered, AnswerLost, Unreachable, EmptyBody, Abort, Wake, Reports, Inv, TypeOK
<1>5. \A d \in Called \ {c} : accepted'[d] = accepted[d]
  BY DEF Send, Answered, AnswerLost, Unreachable, EmptyBody, Abort, Wake, Inv, TypeOK
<1>6. event' = event
  BY DEF Send, Answered, AnswerLost, Unreachable, EmptyBody, Abort, Wake
<1>7. QED
  BY <1>2, <1>3, <1>4, <1>5, <1>6, ChannelStepRefines

LEMMA NextEventRefines == ASSUME Inv, NextEvent PROVE Call!NextCall
<1>1. OpenNow = {}
  BY DEF OpenNow, NextEvent, AllDone
<1>2. OpenNow' = Called
  BY DEF OpenNow, NextEvent, NotLaunched, At
<1>3. TakenNow' = Call!NothingTaken /\ OkNow' = {}
  BY DEF TakenNow, OkNow, NextEvent, NotLaunched, At, Call!NothingTaken
<1>4. QED
  BY <1>1, <1>2, <1>3 DEF Call!NextCall, OpenNow, TakenNow, OkNow, NextEvent

\* Dispatch keeps what DispatchCall promises, for every set of channels and
\* notifiers, any behaviour of the servers and a stop at any time: it settles each
\* channel once before it returns, whose server then took the notification at
\* most once per try, and reports ok only of one that took it (Service.Dispatch
\* and the Send loops of the notifiers).
THEOREM DispatchImplementsCall == Spec => ImplementsDispatchCall
<1>1. Init => Call!CallInit
  <2> SUFFICES ASSUME Init PROVE Call!CallInit
    OBVIOUS
  <2>1. OpenNow = Called
    BY DEF OpenNow, Init, NotLaunched, At
  <2>2. TakenNow = Call!NothingTaken /\ OkNow = {}
    BY DEF TakenNow, OkNow, Init, NotLaunched, At, Call!NothingTaken
  <2>3. QED
    BY <2>1, <2>2 DEF Call!CallInit, OpenNow, TakenNow, OkNow, Init
<1>2. Inv /\ Inv' /\ NotifierSends /\ [Next]_vars => [Call!CallNext]_(Call!callVars)
  <2> SUFFICES ASSUME Inv, Inv', NotifierSends, [Next]_vars
               PROVE  Call!CallNext \/ UNCHANGED Call!callVars
    OBVIOUS
  <2>1. ASSUME NEW c \in Called, Launch(c) \/ Send(c) PROVE Call!CallNext \/ UNCHANGED Call!callVars
    BY <2>1, LaunchRefines, SendRefines DEF Call!CallNext
  <2>2. CASE NextEvent
    BY <2>2, NextEventRefines DEF Call!CallNext
  <2>3. CASE Shutdown \/ UNCHANGED vars
    BY <2>3 DEF Shutdown, vars, Call!callVars, At
  <2>4. QED
    BY <2>1, <2>2, <2>3 DEF Next
<1>3. QED
  BY <1>1, <1>2, SpecInv, NotifierSendsInv, PTL DEF Spec, ImplementsDispatchCall, Call!CallSpec

=============================================================================
