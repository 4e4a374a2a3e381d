----------------------------- MODULE MCRedisBus -----------------------------
(***************************************************************************)
(* Small instances of RedisBus: replicas r1 and r2 share group g1, r3 is   *)
(* alone in group g2.                                                      *)
(***************************************************************************)
EXTENDS RedisBus, TLC

CONSTANTS g1, g2, r1, r2, r3

TwoGroups == (r1 :> g1) @@ (r2 :> g1) @@ (r3 :> g2)
OneGroup == (r1 :> g1)
=============================================================================
