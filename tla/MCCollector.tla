---------------------------- MODULE MCCollector ----------------------------
(***************************************************************************)
(* Small instances of Collector: f1 and f2 are feeds of one host.          *)
(***************************************************************************)
EXTENDS Collector, TLC

CONSTANTS f1, f2, f3, h1, h2

MCHostOf == (f1 :> h1) @@ (f2 :> h1) @@ (f3 :> h2)
=============================================================================
