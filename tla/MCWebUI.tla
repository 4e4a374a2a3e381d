------------------------------ MODULE MCWebUI ------------------------------
(***************************************************************************)
(* A small instance of WebUI: three updates, of which the oldest and the   *)
(* newest may come while the page is read.                                 *)
(***************************************************************************)
EXTENDS WebUI, TLC

CONSTANTS u1, u2, u3, s1, s2

MCRank == (u1 :> 1) @@ (u2 :> 2) @@ (u3 :> 3)
MCCategoryOf == (u1 :> "fix") @@ (u2 :> "security") @@ (u3 :> "security")

MCFilters ==
  {All, [All EXCEPT !.category = "security"], [category |-> "security", importance |-> "important"]}
=============================================================================
