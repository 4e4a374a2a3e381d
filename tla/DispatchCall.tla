---------------------------- MODULE DispatchCall ----------------------------
(***************************************************************************)
(* What Dispatch promises the handler that calls it, however its           *)
(* goroutines, the servers and a stop interleave:                          *)
(*   - every channel of the call is settled, once, before the call ends;   *)
(*   - until then its server may have taken the notification, once for     *)
(*     each try of Send at most, and only one that took it is reported ok; *)
(*   - a channel without notifier takes nothing.                           *)
(* It is what Pipeline, whose DispSend settles one channel, relies on.     *)
(***************************************************************************)
EXTENDS Naturals

CONSTANTS Called, Notifiers, Attempts

VARIABLES
  call,   \* number of the call
  open,   \* channels not settled yet
  taken,  \* how often the server of a settled channel took the notification
  ok      \* channels reported ok

callVars == <<call, open, taken, ok>>

NothingTaken == [c \in Called |-> 0]

CallInit == call = 1 /\ open = Called /\ taken = NothingTaken /\ ok = {}

Settle(c) ==
  /\ c \in open /\ open' = open \ {c}
  /\ \/ /\ c \in Notifiers
        /\ \E n \in 1..Attempts : taken' = [taken EXCEPT ![c] = n]
        /\ ok' \in {ok, ok \cup {c}}
     \/ UNCHANGED <<taken, ok>>
  /\ UNCHANGED call

\* The handler makes its next call.
NextCall ==
  /\ open = {}
  /\ call' = call + 1 /\ open' = Called /\ taken' = NothingTaken /\ ok' = {}

CallNext == NextCall \/ \E c \in Called : Settle(c)

CallSpec == CallInit /\ [][CallNext]_callVars

=============================================================================
