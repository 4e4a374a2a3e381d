--------------------------- MODULE Notifications ---------------------------
(***************************************************************************)
(* The handler's calls of Service.Dispatch (internal/dispatcher), one      *)
(* event after the other: a goroutine per channel runs Send, which posts   *)
(* the rendered text and tries again when the exchange fails.  The three   *)
(* notifiers (webhook, Slack, Telegram) share this loop.                   *)
(*                                                                         *)
(* One *http.Request serves all the tries of a Send.  Its body is a buffer *)
(* the first transmission drains, so a later try on a new connection has   *)
(* nothing to send and fails locally; on a reused connection net/http may  *)
(* rewind the body itself.  Which of the two happens is not the program's  *)
(* choice.                                                                 *)
(***************************************************************************)
EXTENDS Naturals

CONSTANTS
  Called,    \* channels Dispatch is called with
  Notifiers, \* channels that have a notifier
  Up,        \* channels whose server answers every request with 2xx
  Reachable, \* channels whose server can be connected to
  Attempts,  \* tries of one Send (3 in the code)
  MaxEvents  \* bound: events handled

ASSUME NotificationsAssumption ==
  /\ Up \subseteq Reachable /\ Reachable \subseteq Notifiers
  /\ Attempts \in Nat \ {0}
  /\ MaxEvents \in Nat \ {0}

VARIABLES
  event,    \* number of the event being handled
  send,     \* for each channel its goroutine: pc, failed tries, transmissions
  report,   \* the Report of the call: channel to "none", "ok" or "error"
  accepted, \* how often a channel's server took the event's notification
  groupErr, \* a goroutine returned an error to the errgroup
  stopping  \* the process was told to stop

vars == <<event, send, report, accepted, groupErr, stopping>>

NotLaunched == [c \in Called |-> [pc |-> "new", tries |-> 0, sent |-> 0]]

Init ==
  /\ event = 1
  /\ send = NotLaunched
  /\ report = [c \in Called |-> "none"]
  /\ accepted = [c \in Called |-> 0]
  /\ groupErr = FALSE
  /\ stopping = FALSE

\* The context every request carries is cancelled.
CtxDone == groupErr \/ stopping

At(c, pc) == send[c].pc = pc
Goto(c, pc) == send' = [send EXCEPT ![c].pc = pc]
Reports(c, err) == report' = [report EXCEPT ![c] = err]

\* Faulty variant: the sends run one after the other.
LaunchInTurn(c) ==
  /\ At(c, "new") /\ \A d \in Called : At(d, "new") \/ At(d, "done")
  /\ \/ c \in Notifiers /\ Goto(c, "sending") /\ UNCHANGED report
     \/ c \notin Notifiers /\ Goto(c, "done") /\ Reports(c, "error")
  /\ UNCHANGED <<event, accepted, groupErr, stopping>>

\* Faulty variant: what is launched is reported ok before its server answers.
LaunchReportsOk(c) ==
  /\ At(c, "new")
  /\ \/ c \in Notifiers /\ Goto(c, "sending") /\ Reports(c, "ok")
     \/ c \notin Notifiers /\ Goto(c, "done") /\ Reports(c, "error")
  /\ UNCHANGED <<event, accepted, groupErr, stopping>>

\* The loop of Dispatch: a goroutine for a channel with a notifier, an error in
\* the report for one without.
Launch(c) ==
  /\ At(c, "new")
  /\ \/ c \in Notifiers /\ Goto(c, "sending") /\ UNCHANGED report
     \/ c \notin Notifiers /\ Goto(c, "done") /\ Reports(c, "error")
  /\ UNCHANGED <<event, accepted, groupErr, stopping>>

\* Faulty variant: the goroutine returns the error of Send, and the errgroup
\* cancels the context of the others.
AnsweredCancels(c) ==
  /\ At(c, "sending") /\ ~CtxDone
  /\ send' = [send EXCEPT ![c].pc = "done", ![c].sent = @ + 1]
  /\ \/ accepted' = [accepted EXCEPT ![c] = @ + 1] /\ Reports(c, "ok") /\ UNCHANGED groupErr
     \/ c \notin Up /\ Reports(c, "error") /\ groupErr' = TRUE /\ UNCHANGED accepted
  /\ UNCHANGED <<event, stopping>>

\* Faulty variant: the status code is not looked at.
AnsweredAnyStatus(c) ==
  /\ At(c, "sending") /\ ~CtxDone
  /\ send' = [send EXCEPT ![c].pc = "done", ![c].sent = @ + 1]
  /\ \/ accepted' = [accepted EXCEPT ![c] = @ + 1] /\ Reports(c, "ok")
     \/ c \notin Up /\ Reports(c, "ok") /\ UNCHANGED accepted
  /\ UNCHANGED <<event, groupErr, stopping>>

\* The server answers: 2xx ends Send with nil, any other status with an error.
Answered(c) ==
  /\ At(c, "sending") /\ ~CtxDone
  /\ send' = [send EXCEPT ![c].pc = "done", ![c].sent = @ + 1]
  /\ \/ accepted' = [accepted EXCEPT ![c] = @ + 1] /\ Reports(c, "ok")
     \/ c \notin Up /\ Reports(c, "error") /\ UNCHANGED accepted
  /\ UNCHANGED <<event, groupErr, stopping>>

\* The request goes out and no answer comes back.
AnswerLost(c) ==
  /\ At(c, "sending") /\ ~CtxDone /\ c \notin Up
  /\ send' = [send EXCEPT ![c].pc = "sleeping", ![c].sent = @ + 1]
  /\ \/ accepted' = [accepted EXCEPT ![c] = @ + 1]
     \/ UNCHANGED accepted
  /\ UNCHANGED <<event, report, groupErr, stopping>>

\* No connection, so that nothing is transmitted.
Unreachable(c) ==
  /\ At(c, "sending") /\ ~CtxDone /\ c \notin Reachable
  /\ Goto(c, "sleeping")
  /\ UNCHANGED <<event, report, accepted, groupErr, stopping>>

\* The body was drained by an earlier transmission.
EmptyBody(c) ==
  /\ At(c, "sending") /\ send[c].sent > 0
  /\ Goto(c, "sleeping")
  /\ UNCHANGED <<event, report, accepted, groupErr, stopping>>

\* Faulty variant: the requests do not carry the context.
NoAbort(c) == FALSE /\ UNCHANGED vars

\* A request whose context is cancelled fails; one in flight may have been
\* transmitted, and accepted.
Abort(c) ==
  /\ At(c, "sending") /\ CtxDone
  /\ \/ Goto(c, "sleeping") /\ UNCHANGED accepted
     \/ /\ send' = [send EXCEPT ![c].pc = "sleeping", ![c].sent = @ + 1]
        /\ accepted' = [accepted EXCEPT ![c] = @ + 1]
  /\ UNCHANGED <<event, report, groupErr, stopping>>

\* time.Sleep after a failed try, the last one included; it does not watch the
\* context.
Wake(c) ==
  /\ At(c, "sleeping")
  /\ LET last == send[c].tries + 1 = Attempts
     IN /\ send' = [send EXCEPT ![c].pc = IF last THEN "done" ELSE "sending", ![c].tries = @ + 1]
        /\ IF last THEN Reports(c, "error") ELSE UNCHANGED report
  /\ UNCHANGED <<event, accepted, groupErr, stopping>>

Send(c) == Answered(c) \/ AnswerLost(c) \/ Unreachable(c) \/ EmptyBody(c) \/ Abort(c) \/ Wake(c)

\* g.Wait returns when every goroutine has; the handler ends and the next event
\* is taken.
AllDone == \A c \in Called : At(c, "done")

NextEvent ==
  /\ AllDone
  /\ event < MaxEvents /\ event' = event + 1
  /\ send' = NotLaunched
  /\ report' = [c \in Called |-> "none"]
  /\ accepted' = [c \in Called |-> 0]
  /\ groupErr' = FALSE
  /\ UNCHANGED stopping

\* SIGTERM or SIGINT.
Shutdown ==
  /\ stopping' = TRUE
  /\ UNCHANGED <<event, send, report, accepted, groupErr>>

Next == NextEvent \/ Shutdown \/ \E c \in Called : Launch(c) \/ Send(c)

Spec == Init /\ [][Next]_vars

\* A request ends when its server answers or its context is cancelled; the HTTP
\* client has no timeout, so a server that is not Up may leave it open for ever.
FairSpec ==
  /\ Spec /\ WF_vars(NextEvent)
  /\ \A c \in Called : WF_vars(Launch(c)) /\ WF_vars(Abort(c)) /\ WF_vars(Wake(c))
  /\ \A c \in Called \cap Up : WF_vars(Answered(c))

-----------------------------------------------------------------------------
\* The types of the goroutines and of the report.
TypeOK ==
  /\ event \in 1..MaxEvents
  /\ send \in [Called -> [pc : {"new", "sending", "sleeping", "done"},
                         tries : 0..Attempts, sent : 0..Attempts]]
  /\ report \in [Called -> {"none", "ok", "error"}]
  /\ accepted \in [Called -> 0..Attempts]
  /\ groupErr \in BOOLEAN /\ stopping \in BOOLEAN

\* The report accounts for every channel Dispatch was called with, says "ok" only
\* where the server took the notification, and hides a notification the server
\* took behind an error only where some try went unanswered.
ReportIsTrue ==
  \A c \in Called :
    /\ At(c, "done") <=> report[c] # "none"
    /\ report[c] = "ok" => accepted[c] > 0
    /\ report[c] = "error" /\ accepted[c] > 0 => send[c].tries > 0

\* The failure of one channel is not the failure of another: a channel whose
\* server answers is reported ok unless the process is stopping.
FailureIsolated == \A c \in Called \cap Up : report[c] = "error" => stopping

\* The handler sees of all this that each channel is settled once, having taken
\* the notification at most Attempts times, and that what is reported ok was taken:
\* the tries, the sleeps and the order of the goroutines stay inside the call.
Call == INSTANCE DispatchCall
  WITH call <- event,
       open <- {c \in Called : ~At(c, "done")},
       taken <- [c \in Called |-> IF At(c, "done") THEN accepted[c] ELSE 0],
       ok <- {c \in Called : report[c] = "ok"}

ImplementsDispatchCall == Call!CallSpec

\* Within an event, a channel whose server answers is served although the
\* server of another never answers.
UpIsServed == \A c \in Called \cap Up : At(c, "new") ~> At(c, "done")

\* A stop ends the Dispatch under way, open requests included.
StopEndsDispatch == stopping ~> AllDone

=============================================================================
