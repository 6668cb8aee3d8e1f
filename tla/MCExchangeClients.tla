-------------------------- MODULE MCExchangeClients -------------------------
(* Small instances of ExchangeClients.                                     *)
EXTENDS ExchangeClients, TLC

CONSTANTS i1, i2, i3, e1, e2, e3, r1

MCInvokers == {i1, i2, i3}
MCInvokersTwo == {i1, i2}
MCClients == {e1, e2, e3}
MCRequests == {r1}
=============================================================================
