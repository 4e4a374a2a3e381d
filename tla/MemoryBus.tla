----------------------------- MODULE MemoryBus -----------------------------
(***************************************************************************)
(* The in-memory bus (internal/bus/memory.go): a registry of the           *)
(* subscriptions of each topic and one buffered channel per subscription.  *)
(* The bus has no goroutine of its own: Publish runs in the publisher's,   *)
(* Subscribe in the consumer's.                                            *)
(***************************************************************************)
EXTENDS Naturals, Sequences

CONSTANTS
  Topics,    \* names a subscriber or a publisher uses
  Consumers, \* one for each Subscribe call of the program
  Messages,  \* what is carried
  BufSize    \* capacity of a subscription's channel

ASSUME BusAssumption == BufSize \in Nat \ {0}

VARIABLES
  subs,    \* the registry: for each topic the subscriptions it fans out to
  mailbox  \* for each consumer the messages in its channel, oldest first

busVars == <<subs, mailbox>>

BusTypeOK ==
  /\ subs \in [Topics -> SUBSET Consumers]
  /\ mailbox \in [Consumers -> Seq(Messages)]
  /\ \A c \in Consumers : Len(mailbox[c]) <= BufSize

BusInit ==
  /\ subs = [t \in Topics |-> {}]
  /\ mailbox = [c \in Consumers |-> << >>]

Contents(c) == {mailbox[c][i] : i \in DOMAIN mailbox[c]}

\* Subscribe registers a channel of its own, made empty.
Register(t, c) ==
  /\ subs' = [subs EXCEPT ![t] = @ \cup {c}]
  /\ mailbox' = [mailbox EXCEPT ![c] = << >>]

\* Faulty variant: the mailbox is not bounded.
OfferUnbounded(c, m) ==
  /\ mailbox' = [mailbox EXCEPT ![c] = Append(@, m)]
  /\ UNCHANGED subs

\* s.ch <- msg, which blocks while the buffer is full.
Offer(c, m) ==
  /\ Len(mailbox[c]) < BufSize
  /\ mailbox' = [mailbox EXCEPT ![c] = Append(@, m)]
  /\ UNCHANGED subs

\* msg := <-s.ch
Take(c) ==
  /\ mailbox[c] # << >>
  /\ mailbox' = [mailbox EXCEPT ![c] = Tail(@)]
  /\ UNCHANGED subs

\* Publish to a topic with at most one subscriber, as every topic of the
\* program has: a topic nobody subscribes to swallows the message.
Publish(t, m) ==
  \/ subs[t] = {} /\ UNCHANGED busVars
  \/ \E c \in subs[t] : Offer(c, m)

=============================================================================
