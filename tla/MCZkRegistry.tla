---------------------------- MODULE MCZkRegistry ----------------------------
(* Small instances of ZkRegistry.                                          *)
EXTENDS ZkRegistry

CONSTANTS k1, u1

MCKeys == {k1}
MCUrls == {u1}
=============================================================================
