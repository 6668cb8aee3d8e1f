----------------------------- MODULE MCKubeWatch -----------------------------
(* KubeWatch for TLC: a provider, a reference, channels of one.            *)
EXTENDS KubeWatch

CONSTANTS p1, r1, s1

MCProviders == {p1}
MCRefers == {r1}
MCSubs == {s1}
=============================================================================
