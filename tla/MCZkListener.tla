--------------------------- MODULE MCZkListener -----------------------------
(* Small instances of ZkListener.                                          *)
EXTENDS ZkListener

CONSTANTS n1

MCNodes == {n1}
MCMine == {n1}
=============================================================================
