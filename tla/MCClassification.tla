-------------------------- MODULE MCClassification --------------------------
(***************************************************************************)
(* Small instances of Classification: confidence in halves.                *)
(***************************************************************************)
EXTENDS Classification

CONSTANTS p1, p2

MCOne == 2
MCThreshold == 1

Says(confidence, important, security) ==
  [json |-> TRUE, confidence |-> confidence,
   important |-> important, security |-> security]

Prose == NoReply
OutOfRange == Says(3, TRUE, FALSE)

\* Both sides of the threshold, with and without a security category (the least
\* of them is what {} decodes to); prose; a confidence out of range.
MCReplies ==
  {Says(c, i, s) : c \in {0, 1}, i \in BOOLEAN, s \in BOOLEAN}
    \cup {Prose, OutOfRange}
=============================================================================
