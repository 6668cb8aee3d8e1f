------------------------------ MODULE MCExport ------------------------------
(* Small instances of Export: one protocol and two registries, of which one  *)
(* refuses what it has; two protocols and one registry; a protocol whose ID  *)
(* is not its name; and a registry that refuses alone.                       *)
EXTENDS Export, TLC

CONSTANTS p1, p2, x1, r1, r2

MCProtos == {p1, p2}
MCIDs == {p1, p2, x1}
MCNameOf == p1 :> p1 @@ p2 :> p2 @@ x1 :> p1
MCRegistries == {r1, r2}
MCStrict == {r2}
MCServices == {[protocolIDs |-> <<p1>>, registries |-> <<r1, r2>>],
               [protocolIDs |-> <<p1, p2>>, registries |-> <<r1>>],
               [protocolIDs |-> <<x1>>, registries |-> <<r1>>],
               [protocolIDs |-> <<p1>>, registries |-> <<r2>>]}
=============================================================================
