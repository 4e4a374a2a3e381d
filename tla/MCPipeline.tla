---------------------------- MODULE MCPipeline ----------------------------
(***************************************************************************)
(* Small instances of Pipeline.                                            *)
(***************************************************************************)
EXTENDS Pipeline, TLC

CONSTANTS f1, f2, u1, u2, c1, c2

MCTopics == {TopicUpdatesNew, TopicUpdatesImportant}
MCConsumers == {"classificator", "dispatcher"}

\* u1 is the older entry.
MCPublishedAt == [u \in {u1, u2} |-> IF u = u1 THEN 1 ELSE 2]
OnePublishedAt == [u \in {u1} |-> 1]

\* One feed, one entry.
OneEntry == (f1 :> <<{u1}>>)
\* One feed, both entries at once.
BothEntries == (f1 :> <<{u1, u2}>>)
\* Two feeds that carry the same entry, one of them from its second document on.
SharedEntry == (f1 :> <<{}, {u1}>>) @@ (f2 :> <<{u1}>>)

MapOne == {<<f1, c1>>}
MapShared == {<<f1, c1>>, <<f1, c2>>, <<f2, c2>>}
=============================================================================
