-------------------------- MODULE UpdateLifecycle --------------------------
(***************************************************************************)
(* What the pipeline promises about an update, whatever the order in which *)
(* its goroutines run, however often a message is repeated or lost, and    *)
(* wherever the process dies:                                              *)
(*   - an entry is discovered once, for one feed, and stays discovered;    *)
(*   - its verdict may be replaced but never returns to "not classified";  *)
(*   - it is delivered only after some verdict called it important, and to *)
(*     a channel only while that delivery is not on record;                *)
(*   - a delivery record is made only for such an update, and never lost.  *)
(***************************************************************************)
EXTENDS Naturals

CONSTANTS Feeds, Updates, Channels, NoFeed,
  Attempts \* how often a channel takes what it is sent once, at most

VARIABLES
  owner,      \* the feed an entry was discovered for
  verdict,    \* the last verdict, "null" before the first
  judged,     \* updates some verdict called important
  deliveries, \* how often a channel took an update
  dispatches  \* the deliveries on record

lifecycleVars == <<owner, verdict, judged, deliveries, dispatches>>

LifecycleInit ==
  /\ owner = [u \in Updates |-> NoFeed]
  /\ verdict = [u \in Updates |-> "null"]
  /\ judged = {}
  /\ deliveries = [u \in Updates |-> [c \in Channels |-> 0]]
  /\ dispatches = {}

Discover(f, S) ==
  /\ \A u \in S : owner[u] = NoFeed
  /\ owner' = [u \in Updates |-> IF u \in S THEN f ELSE owner[u]]
  /\ UNCHANGED <<verdict, judged, deliveries, dispatches>>

Judge(u, v) ==
  /\ owner[u] # NoFeed
  /\ verdict' = [verdict EXCEPT ![u] = v]
  /\ judged' = IF v = "important" THEN judged \cup {u} ELSE judged
  /\ UNCHANGED <<owner, deliveries, dispatches>>

Deliver(u, c) ==
  /\ u \in judged
  /\ <<u, c>> \notin dispatches
  /\ \E n \in 1..Attempts : deliveries' = [deliveries EXCEPT ![u][c] = @ + n]
  /\ UNCHANGED <<owner, verdict, judged, dispatches>>

Record(u, c) ==
  /\ u \in judged
  /\ dispatches' = dispatches \cup {<<u, c>>}
  /\ UNCHANGED <<owner, verdict, judged, deliveries>>

LifecycleNext ==
  \/ \E f \in Feeds, S \in SUBSET Updates : Discover(f, S)
  \/ \E u \in Updates, v \in {"important", "noise"} : Judge(u, v)
  \/ \E u \in Updates, c \in Channels : Deliver(u, c) \/ Record(u, c)

LifecycleSpec == LifecycleInit /\ [][LifecycleNext]_lifecycleVars

\* What a channel was sent, and what is on record for it, is an update that is
\* stored, has a verdict, and was called important by one.
OnlyImportantDelivered ==
  \A u \in Updates, c \in Channels :
    deliveries[u][c] > 0 \/ <<u, c>> \in dispatches
      => u \in judged /\ owner[u] # NoFeed /\ verdict[u] # "null"

=============================================================================
