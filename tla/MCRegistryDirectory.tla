------------------------- MODULE MCRegistryDirectory ------------------------
(* Small instances of RegistryDirectory.                                   *)
EXTENDS RegistryDirectory, TLC

CONSTANTS k1, k2, p1, p2, i1, i2, c1

MCKeys == {k1, k2}
MCForeign == {k2}
MCParams == {p1, p2}
MCIvks == {i1, i2}
MCListeners == {c1}
=============================================================================
