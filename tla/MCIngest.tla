------------------------------ MODULE MCIngest ------------------------------
(***************************************************************************)
(* Small instances of Ingest.                                              *)
(***************************************************************************)
EXTENDS Ingest, TLC

CONSTANTS f1, f2, a, c, d, l1

\* a has both; c has the link of a and no date, as the sections of one page do;
\* d has the date of a and no link.
MCLinkOf == (a :> l1) @@ (c :> l1) @@ (d :> NoLink)
MCDateOf == (a :> 1) @@ (c :> NoDate) @@ (d :> 1)

\* Two seconds the clock comes by, and none.
MCDates == {0, 1, NoDate}
=============================================================================
