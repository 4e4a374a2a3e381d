--------------------------- MODULE GroupDelivery ---------------------------
(***************************************************************************)
(* What consumers of a topic get from a bus that keeps its messages but    *)
(* does not redeliver them: each group takes the entries in the order they *)
(* were published, each entry once, and either finishes it or abandons it  *)
(* for good.                                                               *)
(***************************************************************************)
EXTENDS Naturals

CONSTANTS Groups, MaxEntries

VARIABLE status \* for each group and entry, what became of it

Waits(g) == {n \in 1..MaxEntries : status[g][n] = "waiting"}

DeliveryInit == status = [g \in Groups |-> [n \in 1..MaxEntries |-> "waiting"]]

Becomes(g, n, s) == status' = [status EXCEPT ![g][n] = s]

\* The next entry is handed to one consumer, or lost on the way to it.
HandOut(g, n) ==
  /\ n \in Waits(g) /\ \A k \in Waits(g) : n <= k
  /\ Becomes(g, n, "working") \/ Becomes(g, n, "abandoned")

Settle(g, n) ==
  /\ status[g][n] = "working"
  /\ Becomes(g, n, "done") \/ Becomes(g, n, "abandoned")

DeliveryNext == \E g \in Groups, n \in 1..MaxEntries : HandOut(g, n) \/ Settle(g, n)

DeliverySpec == DeliveryInit /\ [][DeliveryNext]_status

\* No entry is given to a group before an older one was.
InOrder ==
  \A g \in Groups, n \in 1..MaxEntries :
    status[g][n] # "waiting" => \A k \in 1..n : status[g][k] # "waiting"

\* An entry that was given to a group never waits again, and what was finished or
\* abandoned stays so.
NeverAgain ==
  [][\A g \in Groups, n \in 1..MaxEntries :
       /\ status[g][n] # "waiting" => status'[g][n] # "waiting"
       /\ status[g][n] \in {"done", "abandoned"} => status'[g][n] = status[g][n]]_status

=============================================================================
