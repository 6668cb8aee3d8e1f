------------------------------ MODULE MCCluster -----------------------------
(* Small instances of Cluster.                                             *)
EXTENDS Cluster, TLC

CONSTANTS c1, c2, i1, i2

MCCalls == {c1, c2}
MCIvks == {i1, i2}
MCPreferred == {i1}
MCInZone == {i2}
=============================================================================
