--------------------------- MODULE MCGettyClient ----------------------------
(* Small instances of GettyClient.                                         *)
EXTENDS GettyClient, TLC

CONSTANTS t1, t2, k1, n1, n2, s1, s2

MCThreads == {t1, t2}
MCClosers == {k1}
MCConns == {n1, n2}
MCSessions == {s1, s2}
=============================================================================
