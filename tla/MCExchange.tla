----------------------------- MODULE MCExchange -----------------------------
(* Exchange for TLC: model values for the goroutines.                      *)
EXTENDS Exchange, TLC

CONSTANTS c1, b1, s1

MCCallers == {c1}
MCBeats == {b1}
MCSrvBeats == {s1}
=============================================================================
