----------------------------- MODULE MCDiscovery -----------------------------
(* Small instances of Discovery with two applications: with a revision in    *)
(* each, with two revisions in one, and with one revision in both.         *)
EXTENDS Discovery, TLC

CONSTANTS a1, a2, x1, x2, x3, x4, v1, v2, s1, s2

MCAppOf == x1 :> a1 @@ x2 :> a2 @@ x3 :> a1 @@ x4 :> a2
MCRevisionOf == x1 :> v1 @@ x2 :> v2 @@ x3 :> v2 @@ x4 :> v1
MCOffers == v1 :> {s1} @@ v2 :> {s1, s2}

MCDeployments ==
  {[instances |-> {x1, x2}, changes |-> 1, fails |-> 0],
   [instances |-> {x1, x2}, changes |-> 0, fails |-> 1],
   [instances |-> {x1}, changes |-> 1, fails |-> 1],
   [instances |-> {x1, x3}, changes |-> 1, fails |-> 0],
   [instances |-> {x1, x4}, changes |-> 0, fails |-> 1]}
=============================================================================
