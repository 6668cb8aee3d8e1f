---------------------------- MODULE ExportProofs ----------------------------
(***************************************************************************)
(* Proofs about Export, for any protocols, registries, values and rules    *)
(* and whichever registries refuse a known key: the tables agree when      *)
(* nobody is at work, and calls find the service until reExport has put it *)
(* under another name.                                                     *)
(*                                                                         *)
(* And, at the end, proofs about ZkRegistry and ZkListener: every listener *)
(* that Destroy waits for can be closed, and no more than two goroutines   *)
(* listen to a node under one entry of pathMap.                            *)
(***************************************************************************)
EXTENDS Export, FiniteSetTheorems, TLAPS

\* Most steps are first-order, and Zenon is the quickest to find them.
USE ZenonT(3), SMT, Zenon, SMTT(20)

URLs == Protos \X Values

\* The types of the variables.
TypeOK ==
  /\ svc \in Services /\ i \in 1..Len(svc.protocolIDs) /\ j \in 1..Len(svc.registries)
  /\ serviceMap \subseteq Protos \cup IDs /\ exporterMap \in [Protos -> Values \cup {None}]
  /\ DOMAIN bounds \subseteq URLs /\ \A k \in DOMAIN bounds : bounds[k] \in Values
  /\ subURL \in [Registries -> Protos \cup {None}]
  /\ listeners \subseteq [sub : URLs \cup {None}, r : Registries] /\ todo \subseteq listeners
  /\ mainAt \in {"idle", "map", "register", "bind", "done", "failed"}
  /\ url \in Values \cup {None} /\ (mainAt = "bind" => url \in Values)
  /\ exporters \subseteq Protos
  /\ rule \in Values \cup {None} /\ configurator \in Values \cup {None}
  /\ overAt \in {"idle", "unexport", "delete", "map", "register", "bind"}
  /\ overAt # "idle" => /\ over \in [key : URLs, new : URLs, r : Registries]
                        /\ over.key[1] = over.new[1]
  /\ raced \in BOOLEAN /\ fails \in Nat /\ reExported \in BOOLEAN

\* Nothing is bound before the service is exported; while it is, no rule is being
\* applied and every key is the one of the URL that no rule has overridden.
Alone ==
  /\ mainAt = "idle" => DOMAIN bounds = {} /\ overAt = "idle" /\ listeners = {}
  /\ Exporting => overAt = "idle" /\ \A k \in DOMAIN bounds : k[2] = Base

\* An exporter that is bound is the one that answers calls, except the one that
\* reExport has unexported and not yet removed.
BoundAnswers ==
  /\ \A k \in DOMAIN bounds :
       bounds[k] = exporterMap[k[1]] \/ (overAt = "delete" /\ k = over.key)
  /\ \A p \in Protos : exporterMap[p] # None => \E v \in Values : <<p, v>> \in DOMAIN bounds
  /\ \A k, m \in DOMAIN bounds : k[1] = m[1] => k = m

\* What reExport has taken away and not yet put back.
TakenAway ==
  /\ overAt = "delete" => over.key \in DOMAIN bounds /\ exporterMap[over.key[1]] = None
  /\ overAt \in {"map", "register", "bind"} =>
       /\ exporterMap[over.key[1]] = None
       /\ \A k \in DOMAIN bounds : k[1] # over.key[1]

\* Of the m-th registry: the protocol of the loop is in its URL.
Passed(m) == m < j \/ (m = j /\ mainAt = "bind")

\* While the service is exported, the loop has left its protocol in ServiceMap and in
\* the URLs of the registries it has passed, and no listener has a URL of its own.
Loop ==
  /\ (mainAt = "idle" \/ Exporting) => ~reExported
  /\ mainAt \in {"register", "bind"} => Proto \in serviceMap
  /\ Exporting =>
       /\ \A m \in 1..Len(Regs) : Passed(m) => subURL[Regs[m]] = Proto
       /\ \A l \in listeners : l.sub = None /\ \E m \in 1..Len(Regs) : l.r = Regs[m]

\* What a listener, or a reExport, is for: the last protocol at a registry.
ForLast(p, r) == p = Last /\ \E m \in 1..Len(Regs) : r = Regs[m]

\* Afterwards every URL is one of the last protocol, which is in ServiceMap before the
\* first reExport, not in it in the middle of one, and else only as the first ID.
Located ==
  /\ exported => mainAt = "done"
  /\ mainAt = "done" =>
       /\ \A m \in 1..Len(Regs) : subURL[Regs[m]] = Last
       /\ \A l \in listeners : ForLast(ProviderURL(l)[1], l.r)
       /\ overAt # "idle" => ForLast(over.key[1], over.r)
       /\ IF overAt \in {"delete", "map"} THEN Last \notin serviceMap /\ reExported
          ELSE Last \in serviceMap <=> (~reExported \/ ProtocolIDs[1] = Last)

Agree == Undisturbed => Alone /\ BoundAnswers /\ TakenAway /\ Loop /\ Located

Inv == TypeOK /\ Agree

-----------------------------------------------------------------------------
(* Lemmas about the configuration and about the parts of Export.           *)

\* The configuration of a service has a protocol and a registry, from the sets.
LEMMA SvcTypes ==
  ASSUME TypeOK
  PROVE  /\ \A n \in 1..Len(ProtocolIDs) : ProtocolIDs[n] \in IDs
         /\ \A n \in 1..Len(Regs) : Regs[n] \in Registries
         /\ Len(ProtocolIDs) \in Nat /\ Len(ProtocolIDs) > 0
         /\ Len(Regs) \in Nat /\ Len(Regs) > 0
         /\ Proto \in Protos /\ Last \in Protos /\ Regs[j] \in Registries
  BY ExportAssumption DEF TypeOK, ProtocolIDs, Regs, Proto, Last

\* A rule makes a value of a value.
LEMMA OverriddenType ==
  ASSUME TypeOK, NEW v \in Values
  PROVE  Overridden(v) \in Values
  BY DEF TypeOK, Overridden

\* Bind keeps the types, and changes one entry of either table.
LEMMA BindTypes ==
  ASSUME TypeOK, NEW p \in Protos, NEW v \in Values, NEW w \in Values, Bind(p, v, w)
  PROVE  /\ exporterMap' \in [Protos -> Values \cup {None}]
         /\ DOMAIN bounds' = DOMAIN bounds \cup {<<p, v>>}
         /\ DOMAIN bounds' \subseteq URLs
         /\ \A k \in DOMAIN bounds' : bounds'[k] \in Values
         /\ \A k \in DOMAIN bounds : bounds'[k] = bounds[k]
         /\ \A q \in Protos \ {p} : exporterMap'[q] = exporterMap[q]
         /\ <<p, v>> \notin DOMAIN bounds => exporterMap'[p] = w /\ bounds'[<<p, v>>] = w
         /\ <<p, v>> \in DOMAIN bounds => exporterMap' = exporterMap
<1>1. <<p, v>> \in URLs
  BY DEF URLs
<1>2. CASE <<p, v>> \in DOMAIN bounds
  BY <1>2 DEF TypeOK, Bind
<1>3. CASE <<p, v>> \notin DOMAIN bounds
  <2>1. /\ exporterMap' = [exporterMap EXCEPT ![p] = w]
        /\ bounds' = [k \in DOMAIN bounds \cup {<<p, v>>} |->
                        IF k = <<p, v>> THEN w ELSE bounds[k]]
    BY <1>3 DEF Bind
  <2>2. /\ exporterMap' \in [Protos -> Values \cup {None}] /\ exporterMap'[p] = w
        /\ \A q \in Protos \ {p} : exporterMap'[q] = exporterMap[q]
    BY <2>1 DEF TypeOK
  <2>3. /\ DOMAIN bounds' = DOMAIN bounds \cup {<<p, v>>}
        /\ bounds'[<<p, v>>] = w
        /\ \A k \in DOMAIN bounds : bounds'[k] = bounds[k]
    BY <1>3, <2>1
  <2> QED BY <1>1, <1>3, <2>2, <2>3 DEF TypeOK
<1> QED BY <1>2, <1>3

-----------------------------------------------------------------------------
(* The types.                                                              *)

\* The initial values have the types.
LEMMA InitType == Init => TypeOK
<1> SUFFICES ASSUME Init PROVE TypeOK
  OBVIOUS
<1>1. DOMAIN bounds = {}
  BY DEF Init, Unbound
<1>2. 1 \in 1..Len(svc.protocolIDs) /\ 1 \in 1..Len(svc.registries)
  BY ExportAssumption DEF Init
<1> QED BY <1>1, <1>2, ExportAssumption DEF Init, TypeOK

\* Every step keeps the types.
LEMMA NextType == TypeOK /\ [Next]_vars => TypeOK'
<1> SUFFICES ASSUME TypeOK, [Next]_vars PROVE TypeOK'
  OBVIOUS
<1> USE SvcTypes, ExportAssumption
<1>1. CASE ExportStarts
  BY <1>1 DEF ExportStarts, InitWith, TypeOK, mapVars, ruleVars, ProtocolIDs, Regs
<1>2. CASE ExportMaps
  BY <1>2 DEF ExportMaps, TypeOK, ruleVars, overVars, exportRest
<1>3. CASE ExportRegisters
  <2>1. Overridden(Base) \in Values
    BY OverriddenType
  <2> QED BY <1>3, <2>1 DEF ExportRegisters, Register, RegisterFails, Shared, TypeOK, ruleVars,
               overVars, exportRest, Proto
<1>4. CASE ExportBinds
  <2>1. url \in Values /\ Bind(Proto, Base, url)
    BY <1>4 DEF ExportBinds, TypeOK
  <2>2. /\ exporterMap' \in [Protos -> Values \cup {None}]
        /\ DOMAIN bounds' \subseteq URLs
        /\ \A k \in DOMAIN bounds' : bounds'[k] \in Values
    BY <2>1, BindTypes
  <2> QED BY <1>4, <2>2 DEF ExportBinds, TypeOK, ruleVars, overVars, exportRest, ProtocolIDs,
               Regs, Proto
<1>5. CASE Unexport
  BY <1>5 DEF Unexport, Unexporter, TypeOK, ruleVars, overVars, exportRest
<1>6. CASE \E v \in Values \cup {None} : SetRule(v)
  BY <1>6 DEF SetRule, TypeOK, mapVars, svcVars, overVars
<1>7. CASE Process
  BY <1>7 DEF Process, GenConfigurators, Races, Exporting, TypeOK, mapVars, svcVars
<1>8. CASE \E l \in todo : DoOverrideIfNecessary(l)
  <2> PICK l \in todo : DoOverrideIfNecessary(l)
    BY <1>8
  <2> DEFINE k == ProviderURL(l)
  <2>1. CASE k \in DOMAIN bounds /\ bounds[k] # Overridden(k[2])
    <3>1. k \in URLs /\ k[1] \in Protos /\ k[2] \in Values
      BY <2>1 DEF TypeOK, URLs
    <3>2. Overridden(k[2]) \in Values
      BY <3>1, OverriddenType
    <3>3. l.r \in Registries
      BY DEF TypeOK
    <3>4. over' = [key |-> k, new |-> <<k[1], Overridden(k[2])>>, r |-> l.r]
      BY <2>1 DEF DoOverrideIfNecessary
    <3>5. over' \in [key : URLs, new : URLs, r : Registries] /\ over'.key[1] = over'.new[1]
      BY <3>1, <3>2, <3>3, <3>4 DEF URLs
    <3> QED BY <2>1, <3>5 DEF DoOverrideIfNecessary, TypeOK, Races, Exporting, mapVars, svcVars,
                 ruleVars, overRest
  <2>2. CASE ~(k \in DOMAIN bounds /\ bounds[k] # Overridden(k[2]))
    BY <2>2 DEF DoOverrideIfNecessary, TypeOK, Races, Exporting, mapVars, svcVars, ruleVars,
         overRest
  <2> QED BY <2>1, <2>2
<1>9. CASE ReExportUnexports
  BY <1>9 DEF ReExportUnexports, Unexporter, TypeOK, Races, Exporting, svcVars, ruleVars, overRest
<1>10. CASE ReExportDeletes
  BY <1>10 DEF ReExportDeletes, TypeOK, Races, Exporting, svcVars, ruleVars, overRest
<1>11. CASE ReExportMaps
  BY <1>11 DEF ReExportMaps, TypeOK, Races, Exporting, svcVars, ruleVars, overRest
<1>12. CASE ReExportRegisters
  BY <1>12 DEF ReExportRegisters, Register, RegisterFails, Rewrapped, TypeOK, Races, Exporting,
       svcVars, ruleVars, overRest
<1>13. CASE ReExportBinds
  <2>1. over.new[1] \in Protos /\ over.new[2] \in Values
    BY <1>13 DEF ReExportBinds, TypeOK, URLs
  <2>2. Overridden(over.new[2]) \in Values
    BY <2>1, OverriddenType
  <2>3. /\ exporterMap' \in [Protos -> Values \cup {None}]
        /\ DOMAIN bounds' \subseteq URLs
        /\ \A k \in DOMAIN bounds' : bounds'[k] \in Values
    BY <1>13, <2>1, <2>2, BindTypes DEF ReExportBinds
  <2> QED BY <1>13, <2>3 DEF ReExportBinds, TypeOK, Races, Exporting, svcVars, ruleVars, overRest
<1>14. CASE Destroy
  BY <1>14 DEF Destroy, TypeOK, Unbound, svcVars, ruleVars, overVars
<1>15. CASE UNCHANGED vars
  BY <1>15 DEF vars, mapVars, svcVars, ruleVars, overVars, TypeOK
<1> QED BY <1>1, <1>2, <1>3, <1>4, <1>5, <1>6, <1>7, <1>8, <1>9, <1>10, <1>11, <1>12, <1>13,
             <1>14, <1>15 DEF Next, Exports, Overrides

-----------------------------------------------------------------------------
(* The tables.                                                             *)

\* The steps of ServiceConfig.Export keep the tables in agreement.
LEMMA ExportAgree ==
  ASSUME TypeOK, TypeOK', Agree, Undisturbed', ExportStarts \/ Exports
  PROVE  Alone' /\ BoundAnswers' /\ TakenAway'
<1>0. svc' = svc /\ ProtocolIDs' = ProtocolIDs
  BY DEF Exports, ExportStarts, ExportMaps, ExportRegisters, ExportBinds, ProtocolIDs
<1>1. CASE ExportStarts
  <2>1. mainAt = "idle" /\ Undisturbed
    BY <1>1 DEF ExportStarts, Undisturbed, TypeOK
  <2>2. DOMAIN bounds = {} /\ overAt = "idle" /\ BoundAnswers
    BY <2>1 DEF Agree, Alone
  <2> QED BY <1>0, <1>1, <2>2 DEF ExportStarts, Alone, BoundAnswers, TakenAway, Exporting,
               mapVars
<1>2. CASE ExportMaps
  <2>1. Undisturbed /\ Exporting
    BY <1>2 DEF ExportMaps, Undisturbed, Exporting, exportRest
  <2>2. Alone /\ BoundAnswers /\ overAt = "idle"
    BY <2>1 DEF Agree, Alone
  <2> QED BY <1>0, <1>2, <2>2 DEF ExportMaps, Alone, BoundAnswers, TakenAway,
               Exporting, overVars
<1>3. CASE ExportRegisters
  <2>1. Undisturbed /\ Exporting
    BY <1>3 DEF ExportRegisters, Register, RegisterFails, Undisturbed, Exporting, exportRest, TypeOK
  <2>2. Alone /\ BoundAnswers /\ overAt = "idle"
    BY <2>1 DEF Agree, Alone
  <2> QED BY <1>0, <1>3, <2>1, <2>2 DEF ExportRegisters, Alone, BoundAnswers, TakenAway,
               Exporting, overVars
<1>4. CASE ExportBinds
  <2>1. Undisturbed /\ Exporting
    BY <1>4 DEF ExportBinds, Undisturbed, Exporting, exportRest
  <2>2. Alone /\ BoundAnswers /\ overAt = "idle"
    BY <2>1 DEF Agree, Alone
  <2>3. url \in Values /\ Bind(Proto, Base, url) /\ Proto \in Protos
    BY <1>4, SvcTypes DEF ExportBinds, TypeOK
  <2>4. /\ DOMAIN bounds' = DOMAIN bounds \cup {<<Proto, Base>>}
        /\ DOMAIN bounds' \subseteq URLs
        /\ \A k \in DOMAIN bounds : bounds'[k] = bounds[k]
        /\ \A q \in Protos \ {Proto} : exporterMap'[q] = exporterMap[q]
        /\ <<Proto, Base>> \notin DOMAIN bounds =>
             exporterMap'[Proto] = url /\ bounds'[<<Proto, Base>>] = url
        /\ <<Proto, Base>> \in DOMAIN bounds => exporterMap' = exporterMap
    BY <2>3, BindTypes, ExportAssumption
  <2>5. \A k \in DOMAIN bounds' : k[2] = Base
    BY <2>1, <2>2, <2>4 DEF Alone
  <2>6. Alone'
    BY <1>4, <2>2, <2>5 DEF ExportBinds, Alone, Exporting, overVars
  <2>7. \A k \in DOMAIN bounds' : k = <<k[1], Base>> /\ k[1] \in Protos
    BY <2>4, <2>5 DEF URLs
  <2>8. \A k, m \in DOMAIN bounds' : k[1] = m[1] => k = m
    BY <2>7
  <2>9. \A k \in DOMAIN bounds' : bounds'[k] = exporterMap'[k[1]]
    <3> SUFFICES ASSUME NEW k \in DOMAIN bounds' PROVE bounds'[k] = exporterMap'[k[1]]
      OBVIOUS
    <3>1. CASE <<Proto, Base>> \in DOMAIN bounds
      BY <2>2, <2>4, <3>1 DEF BoundAnswers
    <3>2. CASE <<Proto, Base>> \notin DOMAIN bounds /\ k[1] = Proto
      BY <2>4, <2>7, <3>2
    <3>3. CASE <<Proto, Base>> \notin DOMAIN bounds /\ k[1] # Proto
      BY <2>2, <2>4, <2>7, <3>3 DEF BoundAnswers
    <3> QED BY <3>1, <3>2, <3>3
  <2>10. \A p \in Protos : exporterMap'[p] # None => \E v \in Values : <<p, v>> \in DOMAIN bounds'
    BY <2>2, <2>4, ExportAssumption DEF BoundAnswers
  <2>11. BoundAnswers' /\ TakenAway'
    BY <1>4, <2>2, <2>8, <2>9, <2>10 DEF ExportBinds, BoundAnswers, TakenAway, overVars
  <2> QED BY <2>6, <2>11
<1> QED BY <1>1, <1>2, <1>3, <1>4 DEF Exports

\* So do the steps of reExport.
LEMMA OverrideAgree ==
  ASSUME TypeOK, TypeOK', Agree, Undisturbed', Overrides
  PROVE  Alone' /\ BoundAnswers' /\ TakenAway'
<1>0. /\ svc' = svc /\ ProtocolIDs' = ProtocolIDs /\ mainAt' = mainAt
      /\ Undisturbed /\ ~Exporting /\ ~Exporting'
  BY DEF Overrides, Process, DoOverrideIfNecessary, ReExportUnexports, ReExportDeletes,
       ReExportMaps, ReExportRegisters, Register, RegisterFails, ReExportBinds, svcVars, overRest,
       ProtocolIDs, Undisturbed, Races, Exporting, TypeOK
<1>00. Alone /\ BoundAnswers /\ TakenAway
  BY <1>0 DEF Agree
<1> USE <1>0, <1>00
<1>1. CASE Process
  BY <1>1 DEF Process, Alone, BoundAnswers, TakenAway, mapVars
<1>2. CASE \E l \in todo : DoOverrideIfNecessary(l)
  <2> PICK l \in todo : DoOverrideIfNecessary(l)
    BY <1>2
  <2>1. mainAt # "idle"
    BY DEF Alone, TypeOK
  <2> QED BY <2>1 DEF DoOverrideIfNecessary, Alone, BoundAnswers, TakenAway, mapVars
<1>3. CASE ReExportUnexports
  <2>1. CASE over.key \notin DOMAIN bounds
    BY <1>3, <2>1 DEF ReExportUnexports, Alone, BoundAnswers, TakenAway
  <2>2. CASE over.key \in DOMAIN bounds
    <3>1. /\ exporterMap' = [p \in Protos |-> IF p \in {over.key[1]} THEN None ELSE exporterMap[p]]
          /\ serviceMap' = serviceMap \ {over.key[1]}
          /\ overAt = "unexport" /\ overAt' = "delete" /\ over' = over /\ bounds' = bounds
          /\ listeners' = listeners
      BY <1>3, <2>2 DEF ReExportUnexports, Unexporter
    <3>2. over.key[1] \in Protos /\ \A k \in DOMAIN bounds : k[1] \in Protos
      BY <3>1 DEF TypeOK, URLs
    <3>3. BoundAnswers'
      BY <2>2, <3>1, <3>2 DEF BoundAnswers
    <3> QED BY <2>2, <3>1, <3>2, <3>3 DEF Alone, TakenAway
  <2> QED BY <2>1, <2>2
<1>4. CASE ReExportDeletes
  <2>1. /\ DOMAIN bounds' = DOMAIN bounds \ {over.key}
        /\ \A k \in DOMAIN bounds' : bounds'[k] = bounds[k]
        /\ overAt = "delete" /\ overAt' = "map" /\ over' = over
        /\ exporterMap' = exporterMap /\ serviceMap' = serviceMap /\ listeners' = listeners
    BY <1>4 DEF ReExportDeletes
  <2>2. over.key \in DOMAIN bounds /\ exporterMap[over.key[1]] = None
    BY <2>1 DEF TakenAway
  <2>3. \A k \in DOMAIN bounds' : k[1] # over.key[1]
    BY <2>1, <2>2 DEF BoundAnswers
  <2>4. \A p \in Protos : exporterMap'[p] # None => \E v \in Values : <<p, v>> \in DOMAIN bounds'
    <3> SUFFICES ASSUME NEW p \in Protos, exporterMap[p] # None
                 PROVE  \E v \in Values : <<p, v>> \in DOMAIN bounds'
      BY <2>1
    <3>1. PICK v \in Values : <<p, v>> \in DOMAIN bounds
      BY DEF BoundAnswers
    <3> QED BY <2>1, <2>2, <3>1
  <2>5. BoundAnswers'
    BY <2>1, <2>4 DEF BoundAnswers
  <2> QED BY <2>1, <2>2, <2>3, <2>5 DEF Alone, TakenAway
<1>5. CASE ReExportMaps
  BY <1>5 DEF ReExportMaps, Alone, BoundAnswers, TakenAway
<1>6. CASE ReExportRegisters
  <2>1. mainAt # "idle"
    BY <1>6 DEF ReExportRegisters, Alone
  <2> QED BY <1>6, <2>1 DEF ReExportRegisters, Alone, BoundAnswers, TakenAway
<1>7. CASE ReExportBinds
  <2> DEFINE p == over.new[1]  v == over.new[2]  w == Overridden(v)
  <2>1. p \in Protos /\ v \in Values /\ over.key[1] = p /\ overAt = "bind" /\ mainAt # "idle"
    BY <1>7 DEF ReExportBinds, TypeOK, URLs, Alone
  <2>2. w \in Values /\ Bind(p, v, w)
    BY <1>7, <2>1, OverriddenType DEF ReExportBinds
  <2>3. \A k \in DOMAIN bounds : k[1] # p
    BY <2>1 DEF TakenAway
  <2>4. /\ DOMAIN bounds' = DOMAIN bounds \cup {<<p, v>>}
        /\ \A k \in DOMAIN bounds : bounds'[k] = bounds[k]
        /\ \A q \in Protos \ {p} : exporterMap'[q] = exporterMap[q]
        /\ exporterMap'[p] = w /\ bounds'[<<p, v>>] = w
    <3> HIDE DEF p, v, w
    <3>1. <<p, v>> \notin DOMAIN bounds
      BY <2>3
    <3> QED BY <2>1, <2>2, <3>1, BindTypes
  <2>5. overAt' = "idle" /\ serviceMap' = serviceMap
    BY <1>7 DEF ReExportBinds
  <2>6. BoundAnswers'
    <3> HIDE DEF p, v, w
    <3>1. \A k \in DOMAIN bounds : k[1] \in Protos
      BY DEF TypeOK, URLs
    <3>2. \A k \in DOMAIN bounds' : bounds'[k] = exporterMap'[k[1]]
      BY <2>1, <2>3, <2>4, <3>1 DEF BoundAnswers
    <3>3. \A q \in Protos : exporterMap'[q] # None =>
            \E u \in Values : <<q, u>> \in DOMAIN bounds'
      BY <2>1, <2>4 DEF BoundAnswers
    <3>4. \A k, m \in DOMAIN bounds' : k[1] = m[1] => k = m
      BY <2>3, <2>4 DEF BoundAnswers
    <3> QED BY <3>2, <3>3, <3>4 DEF BoundAnswers
  <2> QED BY <2>1, <2>5, <2>6 DEF Alone, TakenAway
<1> QED BY <1>1, <1>2, <1>3, <1>4, <1>5, <1>6, <1>7 DEF Overrides

\* What the parts of the specification say of the configuration does not change.
LEMMA SameService ==
  ASSUME [Next]_vars
  PROVE  svc' = svc /\ ProtocolIDs' = ProtocolIDs /\ Regs' = Regs /\ Last' = Last
<1>1. svc' = svc
  BY DEF Next, Exports, Overrides, ExportStarts, ExportMaps, ExportRegisters, ExportBinds,
       Unexport, SetRule, Process, DoOverrideIfNecessary, ReExportUnexports, ReExportDeletes,
       ReExportMaps, ReExportRegisters, ReExportBinds, Destroy, vars, svcVars, overRest
<1> QED BY <1>1 DEF ProtocolIDs, Regs, Last

\* The steps of ServiceConfig.Export keep Loop, and the last of them brings Located.
LEMMA ExportLocates ==
  ASSUME TypeOK, TypeOK', Agree, Undisturbed', ExportStarts \/ Exports
  PROVE  Loop' /\ Located'
<1>0. Regs' = Regs /\ Last' = Last /\ ProtocolIDs' = ProtocolIDs /\ reExported' = reExported
  BY SameService DEF Next, Exports, ExportStarts, ExportMaps, ExportRegisters, ExportBinds, overVars
<1> USE <1>0
<1>1. CASE ExportStarts
  <2>1. mainAt = "idle" /\ Undisturbed
    BY <1>1 DEF ExportStarts, Undisturbed, TypeOK
  <2>2. listeners = {} /\ ~reExported /\ ~exported
    BY <1>1, <2>1 DEF Agree, Alone, Loop, ExportStarts
  <2> QED BY <1>1, <2>2 DEF ExportStarts, Loop, Located, Exporting, Passed, mapVars, TypeOK
<1>2. CASE Exports
  <2>1. Undisturbed /\ Exporting
    BY <1>2 DEF Exports, ExportMaps, ExportRegisters, ExportBinds, Register, RegisterFails,
         Undisturbed, Exporting, exportRest, TypeOK
  <2>2. Loop /\ Located /\ overAt = "idle" /\ ~reExported /\ ~exported
    BY <2>1 DEF Agree, Alone, Loop, Located, Exporting
  <2>3. CASE ExportMaps
    <3>1. i' = i /\ j' = j /\ Proto' = Proto
      BY <2>3 DEF ExportMaps, Proto
    <3> QED BY <2>1, <2>2, <2>3, <3>1 DEF ExportMaps, Loop, Located, Exporting, Passed
  <2>4. CASE ExportRegisters
    <3>1. /\ i' = i /\ j' = j /\ Proto' = Proto /\ serviceMap' = serviceMap
          /\ mainAt = "register" /\ mainAt' \in {"bind", "failed"} /\ exported' = exported
          /\ subURL' = [subURL EXCEPT ![Regs[j]] = Proto]
          /\ listeners' = listeners \cup {Shared}
      BY <2>4 DEF ExportRegisters, Register, RegisterFails, Proto
    <3>2. \A m \in 1..Len(Regs) : Regs[m] \in Registries
      BY SvcTypes
    <3>3. \A m \in 1..Len(Regs) : Passed(m)' => subURL'[Regs[m]] = Proto
      BY <2>1, <2>2, <3>1, <3>2 DEF Loop, Passed, TypeOK
    <3>4. j \in 1..Len(Regs) /\ Shared.sub = None /\ Shared.r = Regs[j]
      BY DEF TypeOK, Regs, Shared
    <3>5. \A l \in listeners' : l.sub = None /\ \E m \in 1..Len(Regs) : l.r = Regs[m]
      BY <2>1, <2>2, <3>1, <3>4 DEF Loop
    <3> QED BY <2>2, <3>1, <3>3, <3>5 DEF Loop, Located, Exporting
  <2>5. CASE ExportBinds
    <3>1. /\ mainAt = "bind" /\ serviceMap' = serviceMap /\ subURL' = subURL
          /\ listeners' = listeners /\ overAt' = overAt
      BY <2>5 DEF ExportBinds, overVars
    <3>2. \A m \in 1..Len(Regs) : m <= j => subURL[Regs[m]] = Proto
      BY <2>1, <2>2, <3>1 DEF Loop, Passed, TypeOK
    <3>3. Proto \in serviceMap
      BY <2>2, <3>1 DEF Loop
    <3>4. CASE j < Len(Regs) /\ j' = j + 1 /\ mainAt' = "register" /\ UNCHANGED <<i, exported>>
      <4>1. Proto' = Proto
        BY <3>4 DEF Proto
      <4> QED BY <2>1, <2>2, <3>1, <3>2, <3>3, <3>4, <4>1, SvcTypes DEF Loop, Located, Exporting,
                   Passed, TypeOK
    <3>5. CASE j' = 1 /\ mainAt' = "map" /\ UNCHANGED exported
      BY <2>1, <2>2, <3>1, <3>5 DEF Loop, Located, Exporting, Passed
    <3>6. CASE j = Len(Regs) /\ i = Len(ProtocolIDs) /\ mainAt' = "done"
      <4>1. Proto = Last
        BY <3>6 DEF Proto, Last
      <4>2. \A m \in 1..Len(Regs) : subURL[Regs[m]] = Last
        BY <3>2, <3>6, <4>1, SvcTypes
      <4>3. \A l \in listeners : l.sub = None /\ \E m \in 1..Len(Regs) : l.r = Regs[m]
        BY <2>1, <2>2 DEF Loop
      <4>4. \A l \in listeners : ProviderURL(l)[1] = Last
        BY <4>2, <4>3 DEF ProviderURL
      <4>5. \A l \in listeners' : ForLast(ProviderURL(l)[1], l.r)'
        BY <3>1, <4>3, <4>4 DEF ProviderURL, ForLast
      <4> QED BY <2>2, <3>1, <3>3, <3>6, <4>1, <4>2, <4>5 DEF Loop, Located, Exporting
    <3> QED BY <2>5, <3>4, <3>5, <3>6 DEF ExportBinds
  <2> QED BY <1>2, <2>3, <2>4, <2>5 DEF Exports
<1> QED BY <1>1, <1>2

\* The steps that apply a rule keep Located: they are for the last protocol.
LEMMA OverrideLocates ==
  ASSUME TypeOK, TypeOK', Agree, Undisturbed', Overrides
  PROVE  Loop' /\ Located'
<1>0. /\ Regs' = Regs /\ Last' = Last /\ ProtocolIDs' = ProtocolIDs /\ mainAt' = mainAt
      /\ exported' = exported /\ subURL' = subURL /\ Undisturbed /\ ~Exporting /\ ~Exporting'
  <2>1. Regs' = Regs /\ Last' = Last /\ ProtocolIDs' = ProtocolIDs
    BY SameService DEF Next
  <2>2. mainAt' = mainAt /\ exported' = exported /\ subURL' = subURL
    BY DEF Overrides, Process, DoOverrideIfNecessary, ReExportUnexports, ReExportDeletes,
         ReExportMaps, ReExportRegisters, ReExportBinds, mapVars, svcVars, overRest
  <2>3. Undisturbed /\ ~Exporting /\ ~Exporting'
    BY DEF Overrides, Process, DoOverrideIfNecessary, ReExportUnexports, ReExportDeletes,
         ReExportMaps, ReExportRegisters, Register, RegisterFails, ReExportBinds, svcVars, overRest,
         Undisturbed, Races, Exporting, TypeOK
  <2> QED BY <2>1, <2>2, <2>3
<1>00. Loop /\ Located /\ Alone
  BY <1>0 DEF Agree
<1> USE <1>0, <1>00
<1>1. Loop'
  <2>1. mainAt = "idle" => overAt = "idle" /\ todo = {}
    BY DEF Alone, TypeOK
  <2>2. mainAt = "idle" => reExported' = reExported
    BY <2>1 DEF Overrides, Process, DoOverrideIfNecessary, ReExportUnexports, ReExportDeletes,
         ReExportMaps, ReExportRegisters, ReExportBinds
  <2> QED BY <2>2 DEF Loop, Exporting
<1>2. SUFFICES ASSUME mainAt = "done"
               PROVE  /\ (\A l \in listeners : ForLast(ProviderURL(l)[1], l.r))'
                      /\ (overAt # "idle" => ForLast(over.key[1], over.r))'
                      /\ (IF overAt \in {"delete", "map"} THEN Last \notin serviceMap /\ reExported
                          ELSE Last \in serviceMap <=> (~reExported \/ ProtocolIDs[1] = Last))'
  BY <1>1 DEF Located
<1>3. /\ \A l \in listeners : ForLast(ProviderURL(l)[1], l.r)
      /\ overAt # "idle" => ForLast(over.key[1], over.r)
      /\ IF overAt \in {"delete", "map"} THEN Last \notin serviceMap /\ reExported
         ELSE Last \in serviceMap <=> (~reExported \/ ProtocolIDs[1] = Last)
  BY <1>2 DEF Located
<1>4. /\ \A p, r : ForLast(p, r)' <=> ForLast(p, r)
      /\ \A l : ProviderURL(l)' = ProviderURL(l)
  BY DEF ForLast, ProviderURL
<1>5. CASE Process
  BY <1>3, <1>4, <1>5 DEF Process, mapVars, ForLast, ProviderURL
<1>6. CASE \E l \in todo : DoOverrideIfNecessary(l)
  <2> PICK l \in todo : DoOverrideIfNecessary(l)
    BY <1>6
  <2>1. l \in listeners /\ overAt = "idle"
    BY DEF TypeOK, DoOverrideIfNecessary
  <2>2. /\ listeners' = listeners /\ serviceMap' = serviceMap /\ reExported' = reExported
        /\ overAt' \in {"idle", "unexport"}
        /\ overAt' # "idle" => over'.key = ProviderURL(l) /\ over'.r = l.r
    BY <2>1 DEF DoOverrideIfNecessary, mapVars
  <2> QED BY <1>3, <2>1, <2>2 DEF ForLast, ProviderURL
<1>7. CASE ReExportUnexports
  <2>1. listeners' = listeners /\ overAt = "unexport" /\ over.key[1] = Last
    BY <1>3, <1>7 DEF ReExportUnexports, ForLast
  <2>2. CASE over.key \in DOMAIN bounds
    BY <1>3, <1>7, <2>1, <2>2 DEF ReExportUnexports, Unexporter, ForLast, ProviderURL
  <2>3. CASE over.key \notin DOMAIN bounds
    BY <1>3, <1>7, <2>1, <2>3 DEF ReExportUnexports, ForLast, ProviderURL
  <2> QED BY <2>2, <2>3
<1>8. CASE ReExportDeletes
  BY <1>3, <1>8 DEF ReExportDeletes, ForLast, ProviderURL
<1>9. CASE ReExportMaps
  BY <1>3, <1>9 DEF ReExportMaps, ForLast, ProviderURL
<1>10. CASE ReExportRegisters
  <2>1. /\ overAt = "register" /\ overAt' \in {"bind", "idle"} /\ serviceMap' = serviceMap
        /\ reExported' = reExported /\ listeners' = listeners \cup {Rewrapped}
        /\ overAt' # "idle" => over' = over
    BY <1>10 DEF ReExportRegisters, Register, RegisterFails
  <2>2. over.new # None /\ over.new[1] = over.key[1]
    BY <2>1, ExportAssumption DEF TypeOK, URLs
  <2>3. Rewrapped.sub = over.new /\ Rewrapped.r = over.r
    BY DEF Rewrapped
  <2>4. ForLast(ProviderURL(Rewrapped)[1], Rewrapped.r)
    BY <1>3, <2>1, <2>2, <2>3 DEF ProviderURL
  <2> QED BY <1>3, <2>1, <2>4 DEF ForLast, ProviderURL
<1>11. CASE ReExportBinds
  BY <1>3, <1>11 DEF ReExportBinds, ForLast, ProviderURL
<1> QED BY <1>5, <1>6, <1>7, <1>8, <1>9, <1>10, <1>11 DEF Overrides

\* Every step keeps the tables in agreement and the service located.
LEMMA NextAgree == TypeOK /\ TypeOK' /\ Agree /\ [Next]_vars => Agree'
<1> SUFFICES ASSUME TypeOK, TypeOK', Agree, [Next]_vars, Undisturbed'
             PROVE  Alone' /\ BoundAnswers' /\ TakenAway' /\ Loop' /\ Located'
  BY DEF Agree
<1>1. CASE ExportStarts \/ Exports
  BY <1>1, ExportAgree, ExportLocates
<1>2. CASE Overrides
  BY <1>2, OverrideAgree, OverrideLocates
<1>3. CASE Unexport \/ Destroy
  BY <1>3 DEF Unexport, Destroy, Undisturbed
<1>4. CASE (\E v \in Values \cup {None} : SetRule(v)) \/ UNCHANGED vars
  <2>1. /\ UNCHANGED <<mapVars, svcVars, todo, overAt, over, reExported>>
        /\ UNCHANGED <<fails, raced, destroyed>>
    BY <1>4 DEF SetRule, vars, overVars
  <2>2. Undisturbed
    BY <2>1 DEF Undisturbed, svcVars
  <2>3. Alone /\ BoundAnswers /\ TakenAway /\ Loop /\ Located
    BY <2>2 DEF Agree
  <2>4. Alone' /\ BoundAnswers' /\ TakenAway'
    BY <2>1, <2>3 DEF mapVars, svcVars, Alone, BoundAnswers, TakenAway, Exporting
  <2>5. Loop'
    BY <2>1, <2>3 DEF mapVars, svcVars, Loop, Exporting, Passed, Proto, ProtocolIDs, Regs
  <2>6. Located'
    BY <2>1, <2>3 DEF mapVars, svcVars, Located, ForLast, ProviderURL, Last, ProtocolIDs, Regs
  <2> QED BY <2>4, <2>5, <2>6
<1> QED BY <1>1, <1>2, <1>3, <1>4 DEF Next

-----------------------------------------------------------------------------
\* The invariant holds of every behaviour.
LEMMA InvHolds == Spec => []Inv
<1>1. Init => Inv
  <2> SUFFICES ASSUME Init PROVE Inv
    OBVIOUS
  <2>1. DOMAIN bounds = {}
    BY DEF Init, Unbound
  <2>2. TypeOK
    BY InitType
  <2> QED BY <2>1, <2>2 DEF Init, Inv, Agree, Alone, BoundAnswers, TakenAway, Loop, Located,
               Exporting
<1>2. Inv /\ [Next]_vars => Inv'
  BY NextType, NextAgree DEF Inv
<1> QED BY <1>1, <1>2, PTL DEF Spec

\* ExportInv: whatever the protocols, the registries and the rules, when nobody is
\* at work the exporters that registryProtocol holds are the ones that answer calls.
THEOREM TablesAgree == Spec => []ExportInv
<1>1. Inv => ExportInv
  BY DEF Inv, TypeOK, Agree, BoundAnswers, Quiet, ExportInv, URLs
<1> QED BY <1>1, InvHolds, PTL

\* ServiceIsFound: whatever the protocols and their IDs, calls find a service that is
\* exported until the first reExport, and from then on if and only if the ID of its
\* first protocol is the name of its last.
THEOREM CallsFindService == Spec => []ServiceIsFound
<1>1. Inv => ServiceIsFound
  BY DEF Inv, Agree, Located, Quiet, ServiceIsFound
<1> QED BY <1>1, InvHolds, PTL

-----------------------------------------------------------------------------
(* ZkRegistry, which keeps what is exported and subscribed: its            *)
(* specification as an instance, with constants and variables of its own.  *)

CONSTANTS Keys, Urls, MaxLosses, MaxOps
VARIABLES
  conn, losses, owner, reconnect, services, caller, ops, restartAt, copy, redo, zkRaced,
  vanished, dl, dlClosed, subscribed, evl, open, token, made, subAt, ref, held, unAt,
  unHeld, destroyAt, panicked

Zk == INSTANCE ZkRegistry WITH raced <- zkRaced

\* The instance has its own names for the operators on finite sets.
LEMMA ZkSetsAgree ==
  \A S : (Zk!IsFiniteSet(S) <=> IsFiniteSet(S)) /\ Zk!Cardinality(S) = Cardinality(S)
BY DEF Zk!IsFiniteSet, IsFiniteSet, Zk!Cardinality, Cardinality

\* The names of configuration listeners: the URL, and how many it had before.
Listeners == Urls \X (Nat \ {0})

\* Where Subscribe may be.
SubPoints == {"idle", "check", "get", "next", "ended"}

\* The services; r.services is nil only when Destroy has waited for the restarts.
ServicesInv ==
  /\ owner \in [Keys -> {"none", "session", "former"}] /\ losses \in 0..MaxLosses
  /\ services = None \/ services \subseteq Keys
  /\ copy \subseteq Keys /\ zkRaced \subseteq Keys \cup Urls /\ vanished \subseteq Keys
  /\ redo \in IF restartAt \in Zk!InTemp THEN copy ELSE {None}
  /\ services = None => destroyAt = "done"
  /\ destroyAt = "done" => restartAt = "done"

\* The types of what is known of the listeners.
ListenerTypes ==
  /\ made \in [Urls -> Nat] /\ subAt \in [Urls -> SubPoints]
  /\ subscribed \in [Urls -> Listeners \cup {None}] /\ held \in [Urls -> Listeners \cup {None}]
  /\ open \subseteq Listeners /\ token \subseteq Listeners /\ IsFiniteSet(open)
  /\ dlClosed \in BOOLEAN

\* No listener has a number that was not given; the one under a URL is the last of that
\* URL as long as the data listener takes listeners; and between the two steps of
\* InitListeners it takes none, and all it knows are closed.
ListenersInv ==
  /\ \A l \in open \cup token : l[2] <= made[l[1]]
  /\ \A u \in Urls : subscribed[u] # None => subscribed[u][1] = u /\ subscribed[u][2] <= made[u]
  /\ \A u \in Urls : held[u] # None => subAt[u] = "next"
  /\ open \cap token = {}
  /\ \A l \in open : l = subscribed[l[1]] \/ l = held[l[1]]
  /\ ~dlClosed => \A u \in Urls : subscribed[u] # None => subscribed[u] = <<u, made[u]>>
  /\ restartAt = "init" => dlClosed /\ \A u \in Urls : subscribed[u] \notin open

\* The inductive invariant.
ZkInv == ServicesInv /\ ListenerTypes /\ ListenersInv

\* None is not the name of a configuration listener.
LEMMA NoneIsNoListener == ASSUME Zk!Parameters PROVE None \notin Listeners
BY DEF Listeners, Zk!Parameters

\* The name that getListener gives to a new listener.
LEMMA NewListener ==
  ASSUME ListenerTypes, NEW u \in Urls
  PROVE  /\ made[u] \in Nat /\ <<u, made[u] + 1>> \in Listeners
         /\ <<u, made[u] + 1>>[1] = u /\ <<u, made[u] + 1>>[2] = made[u] + 1
BY DEF ListenerTypes, Listeners

\* The initial state satisfies the invariant.
LEMMA ZkInit == ASSUME Zk!Parameters PROVE Zk!Init => ZkInv
PROOF
  <1> SUFFICES ASSUME Zk!Init PROVE ZkInv  OBVIOUS
  <1>1. {} \in SUBSET Keys /\ None # {}  BY DEF Zk!Parameters
  <1>2. ServicesInv  BY <1>1 DEF Zk!Init, ServicesInv, Zk!Parameters, Zk!InTemp
  <1>3. ListenerTypes  BY FS_EmptySet DEF Zk!Init, ListenerTypes, SubPoints
  <1>4. ListenersInv  BY DEF Zk!Init, ListenersInv
  <1> QED BY <1>2, <1>3, <1>4 DEF ZkInv

\* What the listeners' part of the invariant is about.
ZkQuiet == UNCHANGED <<made, subAt, subscribed, held, open, token, dlClosed>>

\* A step that leaves the listeners alone keeps what is known of them.
LEMMA QuietKeeps ==
  ASSUME ListenerTypes, ListenersInv, ZkQuiet, restartAt' = "init" => restartAt = "init"
  PROVE  ListenerTypes' /\ ListenersInv'
PROOF
  <1>1. ListenerTypes'  BY DEF ZkQuiet, ListenerTypes
  <1>2. ListenersInv'  BY DEF ZkQuiet, ListenersInv
  <1> QED BY <1>1, <1>2

\* Listeners are closed, by Close of the listener or of the data listener.
LEMMA ClosedKeeps ==
  ASSUME Zk!Parameters, ListenerTypes, ListenersInv, NEW L, Zk!CloseAll(L),
         UNCHANGED <<made, subAt, subscribed, held>>, dlClosed' \in {dlClosed, TRUE},
         restartAt' = "init" => restartAt = "init" \/ (dlClosed' /\ L = Zk!Entries)
  PROVE  ListenerTypes' /\ ListenersInv'
PROOF
  <1>1. open' = open \ L /\ token' = token \cup (L \cap open)  BY DEF Zk!CloseAll
  <1>2. IsFiniteSet(open')  BY <1>1, FS_Subset DEF ListenerTypes
  <1>3. ListenerTypes'  BY <1>1, <1>2 DEF ListenerTypes
  <1>4. /\ \A l \in open' \cup token' : l[2] <= made'[l[1]]
        /\ open' \cap token' = {}
        /\ \A l \in open' : l = subscribed'[l[1]] \/ l = held'[l[1]]
    BY <1>1 DEF ListenersInv
  <1>5. ASSUME restartAt' = "init"
        PROVE  dlClosed' /\ \A u \in Urls : subscribed'[u] \notin open'
    <2>1. CASE restartAt = "init"  BY <1>1, <2>1 DEF ListenersInv
    <2>2. CASE dlClosed' /\ L = Zk!Entries
      <3>1. ASSUME NEW u \in Urls PROVE subscribed[u] \notin open'
        <4>1. CASE subscribed[u] = None  BY <1>3, <4>1, NoneIsNoListener DEF ListenerTypes
        <4>2. CASE subscribed[u] # None  BY <1>1, <2>2, <4>2 DEF Zk!Entries
        <4> QED BY <4>1, <4>2
      <3> QED BY <2>2, <3>1
    <2> QED BY <1>5, <2>1, <2>2
  <1>6. ListenersInv'  BY <1>4, <1>5 DEF ListenersInv
  <1> QED BY <1>3, <1>6

\* Subscribe begins.
LEMMA SubscribeChecksKeeps ==
  ASSUME ListenerTypes, ListenersInv, NEW u \in Urls, Zk!SubscribeChecks(u)
  PROVE  ListenerTypes' /\ ListenersInv'
PROOF
  <1>1. /\ subAt[u] # "next"
        /\ UNCHANGED <<made, subscribed, held, open, token, dlClosed, restartAt>>
        /\ subAt' = [subAt EXCEPT ![u] = "get"] \/ subAt' = [subAt EXCEPT ![u] = "ended"]
    BY DEF Zk!SubscribeChecks, Zk!subRest, Zk!lisVars, Zk!Moves
  <1>2. ListenerTypes'  BY <1>1 DEF ListenerTypes, SubPoints
  <1>3. \A v \in Urls : held[v] # None => subAt'[v] = "next"
    BY <1>1 DEF ListenersInv, ListenerTypes
  <1>4. ListenersInv'  BY <1>1, <1>3 DEF ListenersInv
  <1> QED BY <1>2, <1>4

\* getListener hands out the listener that the data listener knows.
LEMMA FindsKeeps ==
  ASSUME Zk!Parameters, ListenerTypes, ListenersInv, NEW u \in Urls, Zk!GetListenerFinds(u)
  PROVE  ListenerTypes' /\ ListenersInv'
PROOF
  <1>1. /\ subAt[u] = "get" /\ subscribed[u] # None
        /\ UNCHANGED <<made, subscribed, open, token, dlClosed, restartAt>>
        /\ \/ /\ subAt' = [subAt EXCEPT ![u] = "next"]
              /\ held' = [held EXCEPT ![u] = subscribed[u]]
           \/ \E p \in {"ended", "check"} : subAt' = [subAt EXCEPT ![u] = p] /\ held' = held
    BY DEF Zk!GetListenerFinds, Zk!subRest, Zk!lisVars, Zk!Moves
  <1>2. held[u] = None  BY <1>1 DEF ListenersInv
  <1>3. ListenerTypes'  BY <1>1 DEF ListenerTypes, SubPoints
  <1>4. \A v \in Urls : held'[v] # None => subAt'[v] = "next"
    BY <1>1, <1>2 DEF ListenersInv, ListenerTypes
  <1>5. \A l \in open : l = subscribed[l[1]] \/ l = held'[l[1]]
    <2> SUFFICES ASSUME NEW l \in open, l # subscribed[l[1]] PROVE l = held'[l[1]]  OBVIOUS
    <2>1. l = held[l[1]] /\ l \in Listeners  BY DEF ListenersInv, ListenerTypes
    <2>2. l # None /\ l[1] \in Urls  BY <2>1, NoneIsNoListener DEF Listeners
    <2>3. l[1] # u  BY <1>2, <2>1, <2>2
    <2> QED BY <1>1, <2>1, <2>2, <2>3 DEF ListenerTypes
  <1>6. ListenersInv'  BY <1>1, <1>4, <1>5 DEF ListenersInv
  <1> QED BY <1>3, <1>6

\* getListener makes one: no listener that is counted is forgotten for it.
LEMMA MakesKeeps ==
  ASSUME Zk!Parameters, ListenerTypes, ListenersInv, NEW u \in Urls, Zk!GetListenerMakes(u)
  PROVE  ListenerTypes' /\ ListenersInv'
PROOF
  <1> DEFINE n == <<u, made[u] + 1>>
  <1>1. /\ subAt[u] = "get" /\ subscribed[u] = None
        /\ UNCHANGED <<token, dlClosed, restartAt>>
        /\ subAt' = [subAt EXCEPT ![u] = "next"] /\ held' = [held EXCEPT ![u] = n]
        /\ made' = [made EXCEPT ![u] = made[u] + 1] /\ open' = open \cup {n}
        /\ subscribed' = IF dlClosed THEN subscribed ELSE [subscribed EXCEPT ![u] = n]
    BY DEF Zk!GetListenerMakes, Zk!subRest, Zk!Moves
  <1>2. held[u] = None  BY <1>1 DEF ListenersInv
  <1>3. n \in Listeners /\ n[1] = u /\ n[2] = made[u] + 1 /\ made[u] \in Nat
    BY NewListener
  <1>4. n \notin open /\ n \notin token /\ n # None
    BY <1>3, NoneIsNoListener DEF ListenersInv
  <1> HIDE DEF n
  <1>5. IsFiniteSet(open')  BY <1>1, FS_AddElement DEF ListenerTypes
  <1>6. /\ made' \in [Urls -> Nat] /\ subAt' \in [Urls -> SubPoints]
        /\ held' \in [Urls -> Listeners \cup {None}]
        /\ made'[u] = made[u] + 1
        /\ \A v \in Urls \ {u} : made'[v] = made[v] /\ subAt'[v] = subAt[v]
           /\ held'[v] = held[v]
        /\ held'[u] = n /\ subAt'[u] = "next"
    BY <1>1, <1>3 DEF ListenerTypes, SubPoints
  <1>7. /\ subscribed' \in [Urls -> Listeners \cup {None}]
        /\ \A v \in Urls \ {u} : subscribed'[v] = subscribed[v]
        /\ subscribed'[u] = IF dlClosed THEN None ELSE n
    BY <1>1, <1>3 DEF ListenerTypes
  <1>8. ListenerTypes'  BY <1>1, <1>3, <1>5, <1>6, <1>7 DEF ListenerTypes
  <1>9. \A l \in open' \cup token' : l[2] <= made'[l[1]]
    <2> SUFFICES ASSUME NEW l \in open \cup token \cup {n} PROVE l[2] <= made'[l[1]]  BY <1>1
    <2>1. l \in Listeners  BY <1>3 DEF ListenerTypes
    <2>2. l[1] \in Urls /\ l[2] \in Nat  BY <2>1 DEF Listeners
    <2>3. CASE l = n  BY <1>3, <1>6, <2>3
    <2>4. CASE l # n
      <3>1. l[2] <= made[l[1]] /\ made[l[1]] \in Nat
        BY <2>2, <2>4 DEF ListenersInv, ListenerTypes
      <3> QED BY <1>3, <1>6, <2>2, <3>1
    <2> QED BY <2>3, <2>4
  <1>10. \A v \in Urls : subscribed'[v] # None =>
           /\ subscribed'[v][1] = v /\ subscribed'[v][2] <= made'[v]
           /\ ~dlClosed => subscribed'[v] = <<v, made'[v]>>
    <2> SUFFICES ASSUME NEW v \in Urls, subscribed'[v] # None
                 PROVE  /\ subscribed'[v][1] = v /\ subscribed'[v][2] <= made'[v]
                        /\ ~dlClosed => subscribed'[v] = <<v, made'[v]>>
      OBVIOUS
    <2>1. CASE v = u  BY <1>3, <1>6, <1>7, <2>1 DEF n
    <2>2. CASE v # u
      <3>1. subscribed'[v] = subscribed[v] /\ made'[v] = made[v]  BY <1>6, <1>7, <2>2
      <3> QED BY <3>1 DEF ListenersInv
    <2> QED BY <2>1, <2>2
  <1>11. \A v \in Urls : held'[v] # None => subAt'[v] = "next"
    BY <1>6 DEF ListenersInv
  <1>12. open' \cap token' = {}  BY <1>1, <1>4 DEF ListenersInv
  <1>13. \A l \in open' : l = subscribed'[l[1]] \/ l = held'[l[1]]
    <2> SUFFICES ASSUME NEW l \in open' PROVE l = subscribed'[l[1]] \/ l = held'[l[1]]  OBVIOUS
    <2>1. CASE l = n  BY <1>3, <1>6, <2>1
    <2>2. CASE l # n
      <3>1. l \in open /\ l \in Listeners  BY <1>1, <2>2 DEF ListenerTypes
      <3>2. l # None /\ l[1] \in Urls  BY <3>1, NoneIsNoListener DEF Listeners
      <3>3. l = subscribed[l[1]] \/ l = held[l[1]]  BY <3>1 DEF ListenersInv
      <3>4. l[1] # u  BY <1>1, <1>2, <3>2, <3>3
      <3> QED BY <1>6, <1>7, <3>2, <3>3, <3>4
    <2> QED BY <2>1, <2>2
  <1>14. ASSUME restartAt = "init" PROVE dlClosed /\ \A v \in Urls : subscribed'[v] \notin open'
    <2>1. dlClosed /\ \A v \in Urls : subscribed[v] \notin open  BY <1>14 DEF ListenersInv
    <2>2. subscribed' = subscribed  BY <1>1, <2>1
    <2>3. ASSUME NEW v \in Urls PROVE subscribed[v] # n
      <3>1. CASE v = u  BY <1>1, <1>4, <3>1
      <3>2. CASE v # u  BY <1>3, <1>4, <3>2 DEF ListenersInv
      <3> QED BY <3>1, <3>2
    <2> QED BY <1>1, <2>1, <2>2, <2>3
  <1>15. ListenersInv'
    BY <1>1, <1>9, <1>10, <1>11, <1>12, <1>13, <1>14 DEF ListenersInv
  <1> QED BY <1>8, <1>15

\* Next fails: the listener is closed, and Subscribe begins again.
LEMMA NextFailsKeeps ==
  ASSUME ListenerTypes, ListenersInv, NEW u \in Urls, Zk!NextFails(u)
  PROVE  ListenerTypes' /\ ListenersInv'
PROOF
  <1>1. /\ UNCHANGED <<made, subscribed, dlClosed, restartAt>>
        /\ subAt' = [subAt EXCEPT ![u] = "check"] /\ held' = [held EXCEPT ![u] = None]
        /\ open' = open \ {held[u]} /\ token' = token \ {held[u]}
    BY DEF Zk!NextFails, Zk!subRest, Zk!Moves
  <1>2. IsFiniteSet(open')  BY <1>1, FS_Subset DEF ListenerTypes
  <1>3. ListenerTypes'  BY <1>1, <1>2 DEF ListenerTypes, SubPoints
  <1>4. \A v \in Urls : held'[v] # None => subAt'[v] = "next"
    BY <1>1 DEF ListenersInv, ListenerTypes
  <1>5. \A l \in open' : l = subscribed[l[1]] \/ l = held'[l[1]]
    <2> SUFFICES ASSUME NEW l \in open', l # subscribed[l[1]] PROVE l = held'[l[1]]  OBVIOUS
    <2>1. l = held[l[1]] /\ l \in Listeners /\ l # held[u]
      BY <1>1 DEF ListenersInv, ListenerTypes
    <2>2. l[1] \in Urls /\ l[1] # u  BY <2>1 DEF Listeners
    <2> QED BY <1>1, <2>1, <2>2 DEF ListenerTypes
  <1>6. ListenersInv'  BY <1>1, <1>4, <1>5 DEF ListenersInv
  <1> QED BY <1>3, <1>6

\* InitListeners makes a listener again for each that the old data listener had.
LEMMA RecoversKeeps ==
  ASSUME Zk!Parameters, ListenerTypes, ListenersInv, Zk!InitListenersRecovers
  PROVE  ListenerTypes' /\ ListenersInv'
PROOF
  <1> DEFINE Again == {u \in Urls : subscribed[u] # None}
             New == [u \in Again |-> <<u, made[u] + 1>>]
             N == {New[u] : u \in Again}
  <1>1. /\ restartAt = "init" /\ restartAt' = "wait" /\ dlClosed' = FALSE
        /\ UNCHANGED <<token, subAt, held>>
        /\ subscribed' = [u \in Urls |-> IF u \in Again THEN New[u] ELSE None]
        /\ made' = [u \in Urls |-> IF u \in Again THEN made[u] + 1 ELSE made[u]]
    BY DEF Zk!InitListenersRecovers, Zk!subVars
  <1>2. open' = open \cup N
    <2>1. N = {<<u, made[u] + 1>> : u \in Again}  OBVIOUS
    <2> QED BY <2>1 DEF Zk!InitListenersRecovers
  <1>3. \A u \in Again : /\ u \in Urls /\ made[u] \in Nat /\ New[u] \in Listeners
                         /\ New[u][1] = u /\ New[u][2] = made[u] + 1
                         /\ New[u] = <<u, made[u] + 1>>
    BY NewListener
  <1>4. IsFiniteSet(open')
    <2>0. IsFiniteSet(Urls)  BY ZkSetsAgree DEF Zk!Parameters
    <2>1. IsFiniteSet(Again)  BY <2>0, FS_Subset
    <2>2. New \in Surjection(Again, N)  BY DEF Surjection
    <2>3. IsFiniteSet(N)  BY <2>1, <2>2, FS_Surjection
    <2> QED BY <1>2, <2>3, FS_Union DEF ListenerTypes
  <1> HIDE DEF New
  <1>5. made' \in [Urls -> Nat] /\ subscribed' \in [Urls -> Listeners \cup {None}]
        /\ open' \subseteq Listeners
    BY <1>1, <1>2, <1>3 DEF ListenerTypes
  <1>6. ListenerTypes'  BY <1>1, <1>4, <1>5 DEF ListenerTypes
  <1>7. \A u \in Urls : /\ subscribed'[u] # None => u \in Again /\ subscribed'[u] = New[u]
                        /\ u \in Again => made'[u] = made[u] + 1 /\ subscribed'[u] = New[u]
                        /\ made[u] \in Nat /\ made[u] <= made'[u]
    BY <1>1 DEF ListenerTypes
  <1>8. \A l \in open' \cup token' : l[2] <= made'[l[1]]
    <2> SUFFICES ASSUME NEW l \in open \cup token \cup N PROVE l[2] <= made'[l[1]]
      BY <1>1, <1>2
    <2>1. CASE l \in N
      <3>1. PICK u \in Again : l = New[u]  BY <2>1
      <3> QED BY <1>3, <1>7, <3>1
    <2>2. CASE l \in open \cup token
      <3>1. l \in Listeners  BY <2>2 DEF ListenerTypes
      <3>2. l[1] \in Urls /\ l[2] \in Nat /\ made'[l[1]] \in Nat  BY <1>5, <3>1 DEF Listeners
      <3>3. l[2] <= made[l[1]]  BY <2>2 DEF ListenersInv
      <3> QED BY <1>7, <3>2, <3>3
    <2> QED BY <2>1, <2>2
  <1>9. \A u \in Urls : subscribed'[u] # None =>
          /\ subscribed'[u][1] = u /\ subscribed'[u][2] <= made'[u]
          /\ subscribed'[u] = <<u, made'[u]>>
    <2> SUFFICES ASSUME NEW u \in Urls, subscribed'[u] # None
                 PROVE  /\ subscribed'[u][1] = u /\ subscribed'[u][2] <= made'[u]
                        /\ subscribed'[u] = <<u, made'[u]>>
      OBVIOUS
    <2>1. u \in Again /\ subscribed'[u] = New[u] /\ made'[u] = made[u] + 1  BY <1>7
    <2>2. /\ made[u] \in Nat /\ New[u][1] = u /\ New[u][2] = made[u] + 1
          /\ New[u] = <<u, made[u] + 1>>
      BY <1>3, <2>1
    <2> QED BY <2>1, <2>2
  <1>10. open' \cap token' = {}
    <2>1. ASSUME NEW u \in Again PROVE New[u] \notin token
      <3>1. New[u][1] = u /\ New[u][2] = made[u] + 1 /\ made[u] \in Nat  BY <1>3, <2>1
      <3> QED BY <3>1 DEF ListenersInv
    <2> QED BY <1>1, <1>2, <2>1 DEF ListenersInv
  <1>11. \A l \in open' : l = subscribed'[l[1]] \/ l = held'[l[1]]
    <2> SUFFICES ASSUME NEW l \in open' PROVE l = subscribed'[l[1]] \/ l = held'[l[1]]  OBVIOUS
    <2>1. CASE l \in N
      <3>1. PICK u \in Again : l = New[u]  BY <2>1
      <3>2. l[1] = u  BY <1>3, <3>1
      <3> QED BY <1>7, <3>1, <3>2
    <2>2. CASE l \in open
      <3>1. l \in Listeners  BY <2>2 DEF ListenerTypes
      <3>2. l[1] \in Urls  BY <3>1 DEF Listeners
      <3>3. l # subscribed[l[1]]  BY <1>1, <2>2, <3>2 DEF ListenersInv
      <3> QED BY <1>1, <2>2, <3>3 DEF ListenersInv
    <2> QED BY <1>2, <2>1, <2>2
  <1>12. ListenersInv'  BY <1>1, <1>8, <1>9, <1>10, <1>11 DEF ListenersInv
  <1> QED BY <1>6, <1>12

\* UnSubscribe closes the listener of the URL and removes it, or there is none.
LEMMA UnSubscribeKeeps ==
  ASSUME ListenerTypes, ListenersInv, NEW u \in Urls, Zk!UnSubscribe(u)
  PROVE  ListenerTypes' /\ ListenersInv'
PROOF
  <1>1. restartAt' = restartAt /\ restartAt # "init" /\ UNCHANGED <<subAt, held>>
    BY DEF Zk!UnSubscribe, Zk!unRest, Zk!regVars, Zk!subVars, Zk!Locked
  <1>2. CASE UNCHANGED Zk!lisVars
    <2>1. ZkQuiet  BY <1>1, <1>2 DEF ZkQuiet, Zk!lisVars
    <2> QED BY <1>1, <2>1, QuietKeeps
  <1>3. CASE /\ Zk!CloseAll({subscribed[u]}) /\ subscribed' = [subscribed EXCEPT ![u] = None]
             /\ UNCHANGED <<dlClosed, made>>
    <2>1. open' = open \ {subscribed[u]} /\ token' = token \cup ({subscribed[u]} \cap open)
      BY <1>3 DEF Zk!CloseAll
    <2>2. IsFiniteSet(open')  BY <2>1, FS_Subset DEF ListenerTypes
    <2>3. ListenerTypes'  BY <1>1, <1>3, <2>1, <2>2 DEF ListenerTypes
    <2>4. \A v \in Urls : subscribed'[v] # None => subscribed'[v] = subscribed[v]
      BY <1>3 DEF ListenerTypes
    <2>5. \A l \in open' : l = subscribed'[l[1]] \/ l = held[l[1]]
      <3> SUFFICES ASSUME NEW l \in open', l # held[l[1]] PROVE l = subscribed'[l[1]]  OBVIOUS
      <3>1. l = subscribed[l[1]] /\ l \in Listeners /\ l # subscribed[u]
        BY <2>1 DEF ListenersInv, ListenerTypes
      <3>2. l[1] \in Urls /\ l[1] # u  BY <3>1 DEF Listeners
      <3> QED BY <1>3, <3>1, <3>2 DEF ListenerTypes
    <2>6. /\ \A l \in open' \cup token' : l[2] <= made[l[1]]
          /\ open' \cap token' = {}
      BY <2>1 DEF ListenersInv
    <2>7. ListenersInv'  BY <1>1, <1>3, <2>4, <2>5, <2>6 DEF ListenersInv
    <2> QED BY <2>3, <2>7
  <1> QED BY <1>2, <1>3 DEF Zk!UnSubscribe

\* UnSubscribe reads the close of the listener.
LEMMA DrainsKeeps ==
  ASSUME ListenerTypes, ListenersInv, NEW u \in Urls, Zk!UnSubscribeDrains(u)
  PROVE  ListenerTypes' /\ ListenersInv'
PROOF
  <1>1. token' \subseteq token
        /\ UNCHANGED <<made, subAt, subscribed, held, open, dlClosed, restartAt>>
    BY DEF Zk!UnSubscribeDrains, Zk!unRest, Zk!regVars, Zk!subVars
  <1>2. ListenerTypes'  BY <1>1 DEF ListenerTypes
  <1>3. ListenersInv'  BY <1>1 DEF ListenersInv
  <1> QED BY <1>2, <1>3

\* One step per action.
LEMMA ListenersNext ==
  ASSUME Zk!Parameters, ListenerTypes, ListenersInv, Zk!Next
  PROVE  ListenerTypes' /\ ListenersInv'
PROOF
  <1> DEFINE G == ListenerTypes' /\ ListenersInv'
  <1>1. ASSUME ZkQuiet, restartAt' = "init" => restartAt = "init" PROVE G  BY <1>1, QuietKeeps
  <1>2. CASE Zk!Lose \/ Zk!Reconnect \/ Zk!Expire
    BY <1>1, <1>2 DEF Zk!Lose, Zk!Reconnect, Zk!Expire, ZkQuiet, Zk!lisVars, Zk!subVars,
                      Zk!regVars
  <1>3. ASSUME NEW k \in Keys, Zk!RegisterChecks(k) \/ Zk!UnRegister(k) \/ Zk!Register(k)
        PROVE  G
    BY <1>1, <1>3 DEF Zk!RegisterChecks, Zk!UnRegister, Zk!Register, Zk!RegisterNode,
                      Zk!RegisterDeletes, Zk!RegisterAgain, Zk!RegisterStores,
                      Zk!UnRegisterNode, Zk!UnRegisterRestores, Zk!regRest,
                      ZkQuiet, Zk!lisVars, Zk!subVars
  <1>4. CASE Zk!Restart
    <2>1. CASE \/ Zk!RestartCopies \/ Zk!RestartEnds \/ Zk!RestartDeletes \/ Zk!RestartAgain
               \/ \E k \in Keys : Zk!RestartRegisters(k)
      BY <1>1, <2>1 DEF Zk!RestartCopies, Zk!RestartEnds, Zk!RestartRegisters,
                        Zk!RestartDeletes, Zk!RestartAgain, Zk!RestartGoesOn,
                        Zk!RestartGivesUp, Zk!restartRest, ZkQuiet, Zk!lisVars, Zk!subVars
    <2>2. CASE Zk!InitListenersCloses
      <3>1. Zk!CloseAll(Zk!Entries) /\ UNCHANGED <<made, subAt, subscribed, held>>
            /\ dlClosed' = TRUE
        BY <2>2 DEF Zk!InitListenersCloses, Zk!subVars
      <3> QED BY <3>1, ClosedKeeps
    <2>3. CASE Zk!InitListenersRecovers  BY <2>3, RecoversKeeps
    <2> QED BY <1>4, <2>1, <2>2, <2>3 DEF Zk!Restart
  <1>5. ASSUME NEW u \in Urls, Zk!Subscribe(u) PROVE G
    BY <1>5, SubscribeChecksKeeps, FindsKeeps, MakesKeeps, NextFailsKeeps DEF Zk!Subscribe
  <1>6. ASSUME NEW u \in Urls, Zk!UnSubscribe(u) PROVE G  BY <1>6, UnSubscribeKeeps
  <1>7. ASSUME NEW u \in Urls, Zk!UnSubscribes(u) PROVE G
    <2>1. CASE Zk!UnSubscribeTakes(u)
      BY <1>1, <2>1 DEF Zk!UnSubscribeTakes, Zk!unRest, Zk!regVars, Zk!subVars, ZkQuiet
    <2>2. CASE Zk!UnSubscribeCloses(u)
      <3>1. /\ Zk!CloseAll(Zk!Entries) /\ UNCHANGED <<made, subAt, subscribed, held>>
            /\ dlClosed' = TRUE
            /\ restartAt' = restartAt
        BY <2>2 DEF Zk!UnSubscribeCloses, Zk!unRest, Zk!subVars, Zk!regVars
      <3> QED BY <3>1, ClosedKeeps
    <2>3. CASE Zk!UnSubscribeDrains(u)  BY <2>3, DrainsKeeps
    <2> QED BY <1>7, <2>1, <2>2, <2>3 DEF Zk!UnSubscribes
  <1>8. CASE Zk!CloseListener
    <2>1. /\ Zk!CloseAll(Zk!Entries) /\ UNCHANGED <<made, subAt, subscribed, held>>
          /\ dlClosed' = TRUE
          /\ restartAt' = restartAt
      BY <1>8 DEF Zk!CloseListener, Zk!subVars, Zk!regVars
    <2> QED BY <2>1, ClosedKeeps
  <1>9. CASE Zk!Destroy
    BY <1>1, <1>9 DEF Zk!Destroy, Zk!CloseDone, Zk!CloseRegisters, ZkQuiet, Zk!lisVars,
                      Zk!subVars, Zk!regVars
  <1> QED BY <1>2, <1>3, <1>4, <1>5, <1>6, <1>7, <1>8, <1>9 DEF Zk!Next

\* The services: r.services becomes nil only when nobody is left who restarts.
LEMMA ServicesQuiet ==
  ASSUME ServicesInv,
         UNCHANGED <<owner, losses, services, copy, redo, vanished, destroyAt, restartAt>>,
         zkRaced' \subseteq zkRaced \cup Keys \cup Urls
  PROVE  ServicesInv'
BY DEF ServicesInv

\* The steps of the nodes leave owners and losses in their types.
ZkNode(k) ==
  \/ Zk!CreatesNode(k) \/ Zk!NodeExists(k) \/ Zk!DeletesNode(k) \/ Zk!NoNode(k)
  \/ Zk!NotConnected

\* What a step of registerTempZookeeperNode leaves in its variables is of their types.
LEMMA TempTypes ==
  ASSUME Zk!Parameters, ServicesInv, NEW k \in Keys, ZkNode(k)
  PROVE  owner' \in [Keys -> {"none", "session", "former"}] /\ losses' \in 0..MaxLosses
PROOF
  <1> USE DEF ServicesInv, Zk!Parameters
  <1>1. CASE Zk!CreatesNode(k)  BY <1>1 DEF Zk!CreatesNode
  <1>2. CASE Zk!DeletesNode(k)  BY <1>2 DEF Zk!DeletesNode
  <1>3. CASE Zk!NodeExists(k) \/ Zk!NoNode(k) \/ Zk!NotConnected
    BY <1>3 DEF Zk!NodeExists, Zk!NoNode, Zk!NotConnected, Zk!zkVars
  <1> QED BY <1>1, <1>2, <1>3 DEF ZkNode

\* What is in r.services before it becomes nil is a set of keys.
LEMMA RegisterKeeps ==
  ASSUME Zk!Parameters, ServicesInv, NEW k \in Keys,
         Zk!RegisterChecks(k) \/ Zk!UnRegister(k) \/ Zk!Register(k)
  PROVE  ServicesInv'
PROOF
  <1>1. UNCHANGED <<copy, redo, vanished, destroyAt, restartAt>>
    BY DEF Zk!RegisterChecks, Zk!UnRegister, Zk!Register, Zk!RegisterNode,
           Zk!RegisterDeletes, Zk!RegisterAgain, Zk!RegisterStores, Zk!UnRegisterNode,
           Zk!UnRegisterRestores, Zk!regRest
  <1>2. owner' \in [Keys -> {"none", "session", "former"}] /\ losses' \in 0..MaxLosses
    <2>1. CASE UNCHANGED Zk!zkVars  BY <2>1 DEF Zk!zkVars, ServicesInv
    <2>2. CASE ZkNode(k)  BY <2>2, TempTypes
    <2>3. CASE Zk!UnRegisterNode(k)  BY <2>3 DEF Zk!UnRegisterNode, ServicesInv
    <2> QED BY <2>1, <2>2, <2>3 DEF Zk!RegisterChecks, Zk!UnRegister, Zk!Register, ZkNode,
                                    Zk!RegisterNode, Zk!RegisterDeletes, Zk!RegisterAgain,
                                    Zk!RegisterStores, Zk!UnRegisterRestores
  <1>3. zkRaced' \subseteq zkRaced \cup Keys
    BY DEF Zk!RegisterChecks, Zk!UnRegister, Zk!Register, Zk!RegisterNode,
           Zk!RegisterDeletes, Zk!RegisterAgain, Zk!RegisterStores, Zk!UnRegisterNode,
           Zk!UnRegisterRestores
  <1>4. /\ services' = None \/ services' \subseteq Keys
        /\ services' = None => destroyAt = "done"
    <2>1. CASE services' = services  BY <2>1 DEF ServicesInv
    <2>2. CASE services # None /\ services' = services \cup {k}
      <3>1. services' \in SUBSET Keys  BY <2>2 DEF ServicesInv
      <3> QED BY <3>1 DEF Zk!Parameters
    <2>3. CASE Zk!UnRegister(k)
      <3>1. destroyAt = "idle" /\ services' = services \ {k}  BY <2>3 DEF Zk!UnRegister
      <3>2. services # None /\ services \subseteq Keys  BY <3>1 DEF ServicesInv
      <3>3. services' \in SUBSET Keys  BY <3>1, <3>2
      <3> QED BY <3>3 DEF Zk!Parameters
    <2> QED BY <2>1, <2>2, <2>3 DEF Zk!RegisterChecks, Zk!Register, Zk!RegisterNode,
                                    Zk!RegisterDeletes, Zk!RegisterAgain, Zk!RegisterStores,
                                    Zk!UnRegisterNode, Zk!UnRegisterRestores
  <1> QED BY <1>1, <1>2, <1>3, <1>4 DEF ServicesInv

\* The steps of the goroutine that restarts the registrations.
LEMMA RestartKeeps ==
  ASSUME Zk!Parameters, ServicesInv, Zk!Restart
  PROVE  ServicesInv'
PROOF
  <1>1. CASE Zk!RestartCopies
    <2>1. restartAt = "wait" /\ copy' = services
          /\ UNCHANGED <<owner, losses, services, redo, vanished, destroyAt>>
          /\ restartAt' = "copied"
      BY <1>1 DEF Zk!RestartCopies
    <2>2. services # None /\ services \subseteq Keys /\ destroyAt # "done"
      BY <2>1 DEF ServicesInv
    <2>3. zkRaced' \subseteq zkRaced \cup Keys  BY <1>1 DEF Zk!RestartCopies
    <2> QED BY <2>1, <2>2, <2>3 DEF ServicesInv, Zk!InTemp
  <1>2. ASSUME NEW k \in copy,
               \/ Zk!RestartRegisters(k)
               \/ k = redo /\ (Zk!RestartDeletes \/ Zk!RestartAgain)
        PROVE  ServicesInv'
    <2>1. k \in Keys  BY DEF ServicesInv
    <2>2. ZkNode(k)
      BY <1>2 DEF Zk!RestartRegisters, Zk!RestartDeletes, Zk!RestartAgain, ZkNode
    <2>3. owner' \in [Keys -> {"none", "session", "former"}] /\ losses' \in 0..MaxLosses
      BY <2>1, <2>2, TempTypes
    <2>4. /\ UNCHANGED <<services, zkRaced, destroyAt>>
          /\ restartAt \in {"copied", "exists", "again"}
      BY <1>2
      DEF Zk!RestartRegisters, Zk!RestartDeletes, Zk!RestartAgain, Zk!restartRest
    <2>5. CASE Zk!RestartGoesOn(k) \/ Zk!RestartGivesUp
      <3>1. /\ copy' \subseteq copy /\ vanished' \subseteq vanished \cup copy
            /\ redo' = None /\ restartAt' \in {"copied", "wait"}
        BY <2>5 DEF Zk!RestartGoesOn, Zk!RestartGivesUp
      <3> QED BY <2>3, <2>4, <3>1 DEF ServicesInv, Zk!InTemp
    <2>6. CASE UNCHANGED <<copy, vanished>> /\ redo' = k /\ restartAt' \in Zk!InTemp
      BY <2>3, <2>4, <2>6 DEF ServicesInv, Zk!InTemp
    <2> QED
      BY <1>2, <2>5, <2>6
      DEF Zk!RestartRegisters, Zk!RestartDeletes, Zk!RestartAgain, Zk!InTemp
  <1>3. CASE Zk!RestartEnds \/ Zk!InitListenersCloses \/ Zk!InitListenersRecovers
    <2>1. /\ UNCHANGED <<owner, losses, services, copy, redo, zkRaced, vanished, destroyAt>>
          /\ restartAt # "done" \/ restartAt' = "done"
          /\ restartAt \notin Zk!InTemp /\ restartAt' \notin Zk!InTemp
      BY <1>3 DEF Zk!RestartEnds, Zk!InitListenersCloses, Zk!InitListenersRecovers, Zk!zkVars,
                  Zk!InTemp
    <2> QED BY <2>1 DEF ServicesInv
  <1>4. CASE Zk!RestartDeletes \/ Zk!RestartAgain
    <2>1. redo \in copy
      BY <1>4 DEF Zk!RestartDeletes, Zk!RestartAgain, ServicesInv, Zk!InTemp
    <2> QED BY <1>2, <1>4, <2>1
  <1>5. ASSUME NEW k \in Keys, Zk!RestartRegisters(k) PROVE ServicesInv'
    BY <1>2, <1>5 DEF Zk!RestartRegisters
  <1> QED BY <1>1, <1>3, <1>4, <1>5 DEF Zk!Restart

\* No step sets the services to nil while a restart is still at work on them.
LEMMA ServicesNext ==
  ASSUME Zk!Parameters, ServicesInv, ListenerTypes, Zk!Next
  PROVE  ServicesInv'
PROOF
  <1>1. CASE Zk!Lose \/ Zk!Reconnect \/ Zk!Expire
    <2>1. UNCHANGED <<services, copy, redo, zkRaced, vanished, destroyAt, restartAt>>
      BY <1>1 DEF Zk!Lose, Zk!Reconnect, Zk!Expire, Zk!regVars
    <2>2. losses' \in 0..MaxLosses
      BY <1>1 DEF Zk!Lose, Zk!Reconnect, Zk!Expire, ServicesInv, Zk!Parameters
    <2>3. owner' \in [Keys -> {"none", "session", "former"}]
      BY <1>1 DEF Zk!Lose, Zk!Reconnect, Zk!Expire, ServicesInv
    <2> QED BY <2>1, <2>2, <2>3 DEF ServicesInv
  <1>2. ASSUME NEW k \in Keys, Zk!RegisterChecks(k) \/ Zk!UnRegister(k) \/ Zk!Register(k)
        PROVE  ServicesInv'
    BY <1>2, RegisterKeeps
  <1>3. CASE Zk!Restart  BY <1>3, RestartKeeps
  <1>4. ASSUME NEW u \in Urls, Zk!Subscribe(u) PROVE ServicesInv'
    <2>1. /\ UNCHANGED <<owner, losses, services, copy, redo, vanished, destroyAt, restartAt>>
          /\ zkRaced' \subseteq zkRaced \cup Urls
      BY <1>4 DEF Zk!Subscribe, Zk!SubscribeChecks, Zk!GetListenerFinds, Zk!GetListenerMakes,
                  Zk!NextFails, Zk!subRest, Zk!zkVars
    <2> QED BY <2>1, ServicesQuiet
  <1>5. ASSUME NEW u \in Urls, Zk!UnSubscribe(u) \/ Zk!UnSubscribes(u) PROVE ServicesInv'
    <2>1. UNCHANGED <<owner, losses, services, copy, redo, vanished, destroyAt, restartAt,
                    zkRaced>>
      BY <1>5 DEF Zk!UnSubscribe, Zk!UnSubscribes, Zk!UnSubscribeTakes, Zk!UnSubscribeCloses,
                  Zk!UnSubscribeDrains, Zk!unRest, Zk!zkVars, Zk!regVars
    <2> QED BY <2>1, ServicesQuiet
  <1>6. CASE Zk!CloseListener \/ Zk!CloseDone
    BY <1>6 DEF Zk!CloseListener, Zk!CloseDone, Zk!zkVars, Zk!regVars, ServicesInv
  <1>7. CASE Zk!CloseRegisters
    <2>1. /\ UNCHANGED <<owner, losses, copy, redo, zkRaced, vanished, restartAt>>
          /\ destroyAt = "wait" /\ Zk!WaitGroup = 0
          /\ \/ destroyAt' = "done" /\ services' = None
             \/ UNCHANGED <<destroyAt, services>>
      BY <1>7 DEF Zk!CloseRegisters, Zk!zkVars
    <2>2. Cardinality(open) \in Nat  BY FS_CardinalityType DEF ListenerTypes
    <2>3. Zk!WaitGroup = Cardinality(open) + (IF restartAt = "done" THEN 0 ELSE 1)
      BY ZkSetsAgree DEF Zk!WaitGroup
    <2>4. restartAt = "done"  BY <2>1, <2>2, <2>3
    <2> QED BY <2>1, <2>4 DEF ServicesInv
  <1> QED BY <1>1, <1>2, <1>3, <1>4, <1>5, <1>6, <1>7 DEF Zk!Next, Zk!Destroy

\* Every step keeps the invariant.
LEMMA ZkNext == ASSUME Zk!Parameters PROVE ZkInv /\ [Zk!Next]_Zk!vars => ZkInv'
PROOF
  <1> SUFFICES ASSUME ZkInv, [Zk!Next]_Zk!vars PROVE ZkInv'  OBVIOUS
  <1>1. ServicesInv /\ ListenerTypes /\ ListenersInv  BY DEF ZkInv
  <1>2. CASE Zk!Next  BY <1>1, <1>2, ListenersNext, ServicesNext DEF ZkInv
  <1>3. CASE UNCHANGED Zk!vars
    <2>1. ZkQuiet /\ restartAt' = restartAt
      BY <1>3 DEF Zk!vars, ZkQuiet, Zk!lisVars, Zk!subVars, Zk!regVars
    <2>2. UNCHANGED <<owner, losses, services, copy, redo, vanished, destroyAt, restartAt,
                    zkRaced>>
      BY <1>3 DEF Zk!vars, Zk!zkVars, Zk!regVars
    <2> QED BY <1>1, <2>1, <2>2, QuietKeeps, ServicesQuiet DEF ZkInv
  <1> QED BY <1>2, <1>3

\* Whatever the connection, the restarts and the calls do to one another, a listener that
\* Destroy waits for is not closed, was made, and is known to the data listener or in the
\* hands of its Subscribe: nobody waits for a listener that was forgotten.
THEOREM ListenersAreKept == ASSUME Zk!Parameters PROVE Zk!Spec => []Zk!RegistryInv
PROOF
  <1>1. ASSUME ZkInv PROVE Zk!RegistryInv
    <2>1. ServicesInv /\ ListenerTypes /\ ListenersInv  BY <1>1 DEF ZkInv
    <2>2. ASSUME NEW l \in open \cup token PROVE l[2] \in 1..made[l[1]]
      <3>1. l \in Listeners  BY <2>1 DEF ListenerTypes
      <3>2. l[1] \in Urls /\ l[2] \in Nat \ {0}  BY <3>1 DEF Listeners
      <3>3. l[2] <= made[l[1]] /\ made[l[1]] \in Nat
        BY <2>1, <3>2 DEF ListenersInv, ListenerTypes
      <3> QED BY <3>2, <3>3
    <2>3. ASSUME NEW l \in open
          PROVE  l = subscribed[l[1]] \/ (l = held[l[1]] /\ subAt[l[1]] = "next")
      <3>1. l \in Listeners  BY <2>1 DEF ListenerTypes
      <3>2. l[1] \in Urls /\ l # None  BY <3>1, NoneIsNoListener DEF Listeners
      <3> QED BY <2>1, <3>2 DEF ListenersInv
    <2>4. ASSUME NEW u \in Urls, subscribed[u] \in open, ~dlClosed
          PROVE  subscribed[u] = <<u, made[u]>>
      BY <2>1, <2>4, NoneIsNoListener DEF ListenersInv, ListenerTypes
    <2> QED BY <2>1, <2>2, <2>3, <2>4 DEF Zk!RegistryInv, ServicesInv, ListenersInv
  <1> QED BY <1>1, ZkInit, ZkNext, PTL DEF Zk!Spec

-----------------------------------------------------------------------------
(* ZkListener, which watches the nodes of the providers for that registry, *)
(* as an instance.                                                         *)

CONSTANTS Nodes, Mine, MaxGo, MaxChanges
VARIABLES
  exists, nodeConn, changes, nodeLosses, dirAt, children, dirTodo, child, gone, childEvent,
  back, pathMap, go, told, dataClosed, exit, dirPanicked

Node == INSTANCE ZkListener
  WITH conn <- nodeConn, losses <- nodeLosses, todo <- dirTodo, panicked <- dirPanicked

\* The instance has its own names for the operators on finite sets.
LEMMA NodeSetsAgree ==
  \A S : (Node!IsFiniteSet(S) <=> IsFiniteSet(S)) /\ Node!Cardinality(S) = Cardinality(S)
BY DEF Node!IsFiniteSet, IsFiniteSet, Node!Cardinality, Cardinality

\* The parts of ListenerInv.  ZooKeeper, the data listener and the channels.
RestInv ==
  /\ exists \subseteq Nodes /\ nodeConn \in BOOLEAN
  /\ changes \in 0..MaxChanges /\ nodeLosses \in 0..MaxLosses
  /\ childEvent \in {"none", "watch", "changed", "notWatching"}
  /\ told \in [Nodes -> {"nothing", "add", "del"}]
  /\ dataClosed \in BOOLEAN /\ exit \in BOOLEAN /\ dirPanicked \in BOOLEAN

\* listenDirEvent: the old children are left over only within handleZkNodeEvent, and
\* the loop that saves paths has children of the service only.
DirInv ==
  /\ dirAt \in {"get", "fail", "each", "add", "watch", "handle", "new", "done"}
  /\ children \subseteq Nodes /\ dirTodo \subseteq Nodes /\ gone \subseteq children
  /\ child \in Mine \cup {None} /\ (dirAt = "add" <=> child # None)
  /\ back \in {"get", "watch"} /\ pathMap \subseteq Mine
  /\ dirAt # "new" => gone = {}
  /\ dirAt \in {"each", "add"} => dirTodo \subseteq Mine

\* A set of goroutines with at most two that count.
Listening(S) ==
  /\ S \subseteq Node!Goroutine /\ IsFiniteSet(S)
  /\ Cardinality({g \in S : g.counted}) <= 2

\* The goroutines of the nodes.
GoInv == go \in [Nodes -> SUBSET Node!Goroutine] /\ \A n \in Nodes : Listening(go[n])

\* The inductive invariant.
WatchInv == RestInv /\ DirInv /\ GoInv

-----------------------------------------------------------------------------
(* The goroutines.                                                         *)

\* What a state of a goroutine is, however it is numbered.
States == [at : {"start", "exist", "wait", "data", "deleted", "unmap"},
           counted : BOOLEAN, from : {"dir", "handle"}, no : Nat]

\* A step that gives one node such a set keeps all of them.
LEMMA ListeningOne ==
  ASSUME GoInv, NEW n \in Nodes, NEW S, Listening(S), go' = [go EXCEPT ![n] = S]
  PROVE  GoInv'
<1>1. go' \in [Nodes -> SUBSET Node!Goroutine] /\ go'[n] = S
      /\ \A m \in Nodes : m # n => go'[m] = go[m]
  BY DEF GoInv, Listening
<1> QED  BY <1>1 DEF GoInv

\* Those that remain when some have returned.
LEMMA ListeningFewer ==
  ASSUME NEW S, Listening(S), NEW T \in SUBSET S  PROVE Listening(T)
<1> DEFINE A == {g \in S : g.counted}
           B == {g \in T : g.counted}
<1>1. IsFiniteSet(T) /\ IsFiniteSet(A) /\ IsFiniteSet(B) /\ B \subseteq A
  BY FS_Subset DEF Listening
<1>2. Cardinality(B) <= Cardinality(A)  BY <1>1, FS_Subset
<1>3. Cardinality(A) \in Nat /\ Cardinality(B) \in Nat  BY <1>1, FS_CardinalityType
<1> QED  BY <1>1, <1>2, <1>3 DEF Listening

\* With one more, that does not count or is one of two.
LEMMA ListeningMore ==
  ASSUME NEW S, Listening(S), NEW g \in Node!Goroutine,
         g.counted => Cardinality({h \in S : h.counted}) <= 1
  PROVE  Listening(S \cup {g})
<1> DEFINE T == S \cup {g}
           A == {h \in S : h.counted}
           B == {h \in T : h.counted}
<1>1. IsFiniteSet(T) /\ IsFiniteSet(A)  BY FS_AddElement, FS_Subset DEF Listening
<1>2. Cardinality(A) \in Nat /\ Cardinality(A) <= 2  BY <1>1, FS_CardinalityType DEF Listening
<1>3. CASE g.counted
  <2>1. B = A \cup {g}
    <3>1. \A h : h \in B <=> h \in A \/ h = g  BY <1>3
    <3> QED  BY <3>1
  <2>2. Cardinality(A \cup {g}) <= Cardinality(A) + 1
    <3>1. CASE g \in A
      <4>1. A \cup {g} = A  BY <3>1
      <4>2. Cardinality(A \cup {g}) = Cardinality(A)  BY <4>1
      <4> HIDE DEF A
      <4> QED  BY <4>2, <1>2
    <3>2. CASE g \notin A
      <4>1. Cardinality(A \cup {g}) = Cardinality(A) + 1  BY <3>2, <1>1, FS_AddElement
      <4> QED  BY <4>1, <1>2
    <3> QED  BY <3>1, <3>2
  <2>3. IsFiniteSet(B)  BY <1>1, FS_Subset
  <2>4. Cardinality(B) \in Nat  BY <2>3, FS_CardinalityType
  <2>5. Cardinality(A) <= 1  BY <1>3
  <2> HIDE DEF A, B
  <2>6. Cardinality(B) <= 2  BY <2>1, <2>2, <2>4, <2>5, <1>2
  <2> QED  BY <2>6, <1>1 DEF Listening, B
<1>4. CASE ~g.counted
  <2>1. B = A  BY <1>4
  <2> QED  BY <2>1, <1>1, <1>2 DEF Listening
<1> QED  BY <1>3, <1>4

\* When each goes to another state, and none that does not count begins to.
LEMMA ListeningMoved ==
  ASSUME NEW S, Listening(S), NEW f \in [S -> Node!Goroutine],
         \A g \in S : f[g].counted => g.counted
  PROVE  Listening({f[g] : g \in S})
<1> DEFINE T == {f[g] : g \in S}
           A == {g \in S : g.counted}
           B == {g \in T : g.counted}
           D == {g \in S : f[g].counted}
<1>1. IsFiniteSet(S) /\ IsFiniteSet(A) /\ IsFiniteSet(D) /\ D \subseteq A
  BY FS_Subset DEF Listening
<1>2. f \in Surjection(S, T)  BY DEF Surjection
<1>3. IsFiniteSet(T)  BY <1>1, <1>2, FS_Surjection
<1>4. [g \in D |-> f[g]] \in Surjection(D, B)  BY DEF Surjection
<1>5. IsFiniteSet(B) /\ Cardinality(B) <= Cardinality(D)  BY <1>1, <1>4, FS_Surjection
<1>6. Cardinality(D) <= Cardinality(A)  BY <1>1, FS_Subset
<1>7. Cardinality(A) \in Nat /\ Cardinality(B) \in Nat /\ Cardinality(D) \in Nat
  BY <1>1, <1>5, FS_CardinalityType
<1>8. Cardinality(A) <= 2 /\ T \subseteq Node!Goroutine  BY DEF Listening
<1>9. Cardinality(B) <= 2  BY <1>5, <1>6, <1>7, <1>8
<1> QED  BY <1>3, <1>8, <1>9 DEF Listening

\* Behind only numbers a goroutine.
LEMMA BehindIs ==
  ASSUME GoInv, NEW n \in Nodes, NEW k \in Nat \ {0}, NEW g \in States
  PROVE  Node!Behind(n, k, g) \in Node!Goroutine /\ Node!Behind(n, k, g).counted = g.counted
<1> DEFINE L == Node!Like(n, g)
<1>1. IsFiniteSet(L)
  <2>1. L \subseteq go[n] /\ IsFiniteSet(go[n])  BY DEF Node!Like, GoInv, Listening
  <2> QED  BY <2>1, FS_Subset
<1>2. Cardinality(L) \in Nat  BY <1>1, FS_CardinalityType
<1> HIDE DEF L
<1>3. k + Cardinality(L) \in Nat \ {0}  BY <1>2
<1>4. Node!Behind(n, k, g) = [g EXCEPT !.no = k + Cardinality(L)]
  BY NodeSetsAgree DEF Node!Behind, L
<1> QED  BY <1>3, <1>4 DEF Node!Goroutine, States

Points == {"start", "exist", "wait", "data", "deleted", "unmap"}

\* Watches fire: those who wait go on, and none begins to count.
LEMMA FireKeeps == ASSUME GoInv, NEW N, NEW p \in Points, Node!Fire(N, p)  PROVE GoInv'
<1> DEFINE W(n, g) ==
             IF n \in N /\ g.at = "wait" THEN Node!Behind(n, g.no, [g EXCEPT !.at = p]) ELSE g
<1>1. go' = [n \in Nodes |-> {W(n, g) : g \in go[n]}]  BY DEF Node!Fire
<1>2. ASSUME NEW n \in Nodes  PROVE Listening({W(n, g) : g \in go[n]})
  <2>1. ASSUME NEW g \in go[n]  PROVE W(n, g) \in Node!Goroutine /\ W(n, g).counted = g.counted
    <3>1. g \in Node!Goroutine  BY DEF GoInv
    <3>2. [g EXCEPT !.at = p] \in States /\ [g EXCEPT !.at = p].counted = g.counted
          /\ g.no \in Nat \ {0}
      BY <3>1 DEF Node!Goroutine, States, Points
    <3> QED  BY <3>1, <3>2, BehindIs
  <2> DEFINE f == [g \in go[n] |-> W(n, g)]
  <2> HIDE DEF W
  <2>2. f \in [go[n] -> Node!Goroutine] /\ \A g \in go[n] : f[g].counted => g.counted  BY <2>1
  <2>3. {W(n, g) : g \in go[n]} = {f[g] : g \in go[n]}  OBVIOUS
  <2>4. Listening(go[n])  BY DEF GoInv
  <2> HIDE DEF f
  <2> QED  BY <2>2, <2>3, <2>4, ListeningMoved
<1> HIDE DEF W
<1>3. \A n \in Nodes : go'[n] = {W(n, g) : g \in go[n]}  BY <1>1
<1>4. \A n \in Nodes : Listening(go'[n])  BY <1>2, <1>3
<1>5. go' \in [Nodes -> SUBSET Node!Goroutine]  BY <1>1, <1>3, <1>4 DEF Listening
<1> QED  BY <1>4, <1>5 DEF GoInv

\* A goroutine returns.
LEMMA EndsKeeps == ASSUME GoInv, NEW n \in Nodes, NEW g, Node!Ends(n, g)  PROVE GoInv'
<1>1. Listening(go[n] \ {g})  BY ListeningFewer DEF GoInv
<1> QED  BY <1>1, ListeningOne DEF Node!Ends

\* A goroutine goes on; one begins to count only where at most one does.
LEMMA BecomesKeeps ==
  ASSUME GoInv, NEW n \in Nodes, NEW g \in go[n], NEW h \in States, Node!Becomes(n, g, h),
         h.counted => (g.counted \/ Cardinality({x \in go[n] : x.counted}) <= 1)
  PROVE  GoInv'
<1> DEFINE S == go[n] \ {g}
           A == {x \in go[n] : x.counted}
           B == {x \in S : x.counted}
           b == Node!Behind(n, 1, h)
<1>1. b \in Node!Goroutine /\ b.counted = h.counted  BY BehindIs
<1>2. Listening(S)  BY ListeningFewer DEF GoInv
<1>3. IsFiniteSet(A) /\ IsFiniteSet(B) /\ B \subseteq A  BY FS_Subset DEF GoInv, Listening
<1>4. Cardinality(B) \in Nat /\ Cardinality(A) \in Nat /\ Cardinality(B) <= Cardinality(A)
  BY <1>3, FS_CardinalityType, FS_Subset
<1>5. Cardinality(A) <= 2  BY DEF GoInv, Listening
<1>6. h.counted => Cardinality(B) <= 1
  <2>1. CASE g.counted
    <3>1. g \in A /\ B = A \ {g}  BY <2>1
    <3>2. Cardinality(A \ {g}) = Cardinality(A) - 1  BY <3>1, <1>3, FS_RemoveElement
    <3> HIDE DEF A, B
    <3> QED  BY <3>1, <3>2, <1>4, <1>5
  <2>2. CASE Cardinality(A) <= 1
    <3> HIDE DEF A, B
    <3> QED  BY <2>2, <1>4
  <2> QED  BY <2>1, <2>2
<1>7. b.counted => Cardinality({x \in S : x.counted}) <= 1  BY <1>1, <1>6
<1> HIDE DEF b, S
<1>8. Listening(S \cup {b})  BY <1>1, <1>2, <1>7, ListeningMore
<1>9. go' = [go EXCEPT ![n] = S \cup {b}]  BY DEF Node!Becomes, S, b
<1> QED  BY <1>8, <1>9, ListeningOne

\* A goroutine is started; it does not count yet.
LEMMA StartKeeps ==
  ASSUME GoInv, NEW n \in Nodes, NEW from \in {"dir", "handle"}, Node!StartNode(n, from)
  PROVE  GoInv'
<1> DEFINE g == [at |-> "start", counted |-> FALSE, from |-> from, no |-> 0]
           b == Node!Behind(n, 1, g)
<1>1. CASE UNCHANGED go  BY <1>1 DEF GoInv
<1>2. CASE go' = [go EXCEPT ![n] = go[n] \cup {b}]
  <2>1. g \in States /\ g.counted = FALSE  BY DEF States
  <2> HIDE DEF g
  <2>2. b \in Node!Goroutine /\ ~b.counted  BY <2>1, BehindIs
  <2> HIDE DEF b
  <2>3. Listening(go[n] \cup {b})  BY <2>2, ListeningMore DEF GoInv
  <2> QED  BY <2>3, <1>2, ListeningOne
<1> QED  BY <1>1, <1>2 DEF Node!StartNode

\* The entry is removed, and its counter with it.
LEMMA UnmapKeeps ==
  ASSUME GoInv, NEW n \in Nodes, NEW g \in go[n], Node!NodeUnmap(n, g)  PROVE GoInv'
<1> DEFINE U(h) == IF h.counted THEN Node!Behind(n, h.no, [h EXCEPT !.counted = FALSE]) ELSE h
           S == go[n] \ {g}
<1>1. CASE Node!Ends(n, g)  BY <1>1, EndsKeeps
<1>2. CASE go' = [go EXCEPT ![n] = {U(h) : h \in go[n] \ {g}}]
  <2>1. ASSUME NEW h \in S  PROVE U(h) \in Node!Goroutine /\ (U(h).counted => h.counted)
    <3>1. h \in Node!Goroutine  BY DEF GoInv
    <3>2. [h EXCEPT !.counted = FALSE] \in States /\ h.no \in Nat \ {0}
      BY <3>1 DEF Node!Goroutine, States
    <3> QED  BY <3>1, <3>2, BehindIs
  <2>2. Listening(S)  BY ListeningFewer DEF GoInv
  <2> DEFINE f == [h \in S |-> U(h)]
  <2> HIDE DEF U, S
  <2>3. f \in [S -> Node!Goroutine] /\ \A h \in S : f[h].counted => h.counted  BY <2>1
  <2>4. {U(h) : h \in S} = {f[h] : h \in S}  OBVIOUS
  <2> HIDE DEF f
  <2>5. Listening({U(h) : h \in S})  BY <2>2, <2>3, <2>4, ListeningMoved
  <2> QED  BY <2>5, <1>2, ListeningOne DEF S
<1> QED  BY <1>1, <1>2 DEF Node!NodeUnmap

-----------------------------------------------------------------------------
(* The steps.                                                              *)

\* A step that leaves ZooKeeper and the channels alone.
LEMMA RestFrame ==
  ASSUME WatchInv, UNCHANGED <<Node!zkVars, childEvent, told, dataClosed, exit, dirPanicked>>
  PROVE  RestInv'
  BY DEF WatchInv, RestInv, Node!zkVars

\* A step that leaves listenDirEvent alone.
LEMMA DirFrame ==
  ASSUME WatchInv, UNCHANGED <<Node!dirVars, pathMap>>  PROVE DirInv'
  BY DEF WatchInv, DirInv, Node!dirVars

\* A step that leaves the goroutines of the nodes alone.
LEMMA GoFrame ==
  ASSUME WatchInv, UNCHANGED go  PROVE GoInv'
  BY DEF WatchInv, GoInv

\* What the data listener was told stays an event of each node.
LEMMA ToldIs ==
  ASSUME WatchInv, NEW n \in Nodes, NEW e \in {"add", "del"}, Node!DataChange(n, e)
  PROVE  told' \in [Nodes -> {"nothing", "add", "del"}]
  BY DEF Node!DataChange, WatchInv, RestInv

\* The steps of ZooKeeper and of the connection.
LEMMA ZooKeeperKeeps ==
  ASSUME Node!Parameters, WatchInv,
         \/ \E n \in Nodes : Node!Create(n) \/ Node!Delete(n) \/ Node!SetData(n)
         \/ Node!Lose \/ Node!Reconnect
  PROVE  WatchInv'
<1>1. UNCHANGED <<Node!dirVars, pathMap>>
  BY DEF Node!Create, Node!Delete, Node!SetData, Node!Lose, Node!Reconnect, Node!Change
<1>2. GoInv'
  <2>1. GoInv /\ {"deleted", "data", "exist"} \subseteq Points  BY DEF WatchInv, Points
  <2> QED
    BY <2>1, GoFrame, FireKeeps DEF Node!Create, Node!Delete, Node!SetData, Node!Lose,
                                    Node!Reconnect
<1>3. RestInv'
  <2>1. childEvent' \in {"none", "watch", "changed", "notWatching"}
    BY DEF WatchInv, RestInv, Node!Create, Node!Delete, Node!SetData, Node!Lose,
           Node!Reconnect, Node!FireChildren
  <2>2. /\ exists' \subseteq Nodes /\ nodeConn' \in BOOLEAN
        /\ UNCHANGED <<told, dataClosed, exit, dirPanicked>>
    BY DEF WatchInv, RestInv, Node!Create, Node!Delete, Node!SetData, Node!Lose,
           Node!Reconnect, Node!Change
  <2>3. changes' \in 0..MaxChanges /\ nodeLosses' \in 0..MaxLosses
    <3>1. /\ changes' = changes \/ (changes < MaxChanges /\ changes' = changes + 1)
          /\ nodeLosses' = nodeLosses
             \/ (nodeLosses < MaxLosses /\ nodeLosses' = nodeLosses + 1)
      BY DEF Node!Create, Node!Delete, Node!SetData, Node!Lose, Node!Reconnect, Node!Change
    <3>2. changes \in 0..MaxChanges /\ nodeLosses \in 0..MaxLosses  BY DEF WatchInv, RestInv
    <3> QED  BY <3>1, <3>2 DEF Node!Parameters
  <2> QED  BY <2>1, <2>2, <2>3 DEF WatchInv, RestInv
<1> QED  BY <1>1, <1>2, <1>3, DirFrame DEF WatchInv

\* The data listener, or this one, is closed.
LEMMA CloseKeeps == ASSUME WatchInv, Node!CloseData \/ Node!Close  PROVE WatchInv'
<1>1. UNCHANGED <<Node!dirVars, pathMap, go>>  BY DEF Node!CloseData, Node!Close
<1>2. RestInv'  BY DEF Node!CloseData, Node!Close, WatchInv, RestInv, Node!zkVars
<1> QED  BY <1>1, <1>2, DirFrame, GoFrame DEF WatchInv

\* The steps of listenDirEvent that announce nothing.
LEMMA DirQuietKeeps ==
  ASSUME Node!Parameters, WatchInv,
         \/ Node!GetChildrenW \/ Node!GetChildrenFails \/ Node!FailEnds \/ Node!AddBreaks
         \/ Node!EachEnds
         \/ \E n \in Nodes : Node!SavePath(n)
         \/ Node!ChildEvent \/ Node!DirExit \/ Node!Tick \/ Node!HandleFails
         \/ Node!HandleGet \/ Node!HandleEnds
  PROVE  WatchInv'
<1> USE DEF Node!GetChildrenW, Node!GetChildrenFails, Node!FailEnds, Node!AddBreaks,
            Node!EachEnds, Node!SavePath, Node!ChildEvent, Node!DirExit, Node!Tick,
            Node!HandleFails, Node!HandleGet, Node!HandleEnds
<1>1. UNCHANGED <<Node!zkVars, go, told, dataClosed, exit, dirPanicked>>  OBVIOUS
<1>2. RestInv'  BY DEF WatchInv, RestInv, Node!zkVars
<1>3. DirInv'
  <2> USE DEF WatchInv, DirInv
  <2>1. CASE Node!GetChildrenW  BY <2>1 DEF Node!OfService, RestInv
  <2>2. CASE Node!GetChildrenFails  BY <2>2
  <2>3. CASE Node!FailEnds  BY <2>3
  <2>4. CASE Node!AddBreaks  BY <2>4
  <2>5. CASE Node!EachEnds  BY <2>5
  <2>6. ASSUME NEW n \in Nodes, Node!SavePath(n)  PROVE DirInv'
    BY <2>6 DEF Node!Parameters
  <2>7. CASE Node!ChildEvent  BY <2>7
  <2>8. CASE Node!DirExit  BY <2>8
  <2>9. CASE Node!Tick  BY <2>9
  <2>10. CASE Node!HandleFails  BY <2>10 DEF Node!HandleReturns
  <2>11. CASE Node!HandleGet  BY <2>11 DEF RestInv
  <2>12. CASE Node!HandleEnds  BY <2>12 DEF Node!HandleReturns
  <2> QED  BY <2>1, <2>2, <2>3, <2>4, <2>5, <2>6, <2>7, <2>8, <2>9, <2>10, <2>11, <2>12
<1> QED  BY <1>1, <1>2, <1>3, GoFrame DEF WatchInv

\* listenDirEvent announces the node whose path it has saved.
LEMMA AddChildKeeps == ASSUME Node!Parameters, WatchInv, Node!AddChild  PROVE WatchInv'
<1>1. child \in Nodes /\ Node!DataChange(child, "add") /\ Node!StartNode(child, "dir")
  BY DEF Node!AddChild, WatchInv, DirInv, Node!Parameters
<1>2. DirInv'  BY DEF Node!AddChild, WatchInv, DirInv
<1>3. RestInv'
  <2>1. told' \in [Nodes -> {"nothing", "add", "del"}]  BY <1>1, ToldIs
  <2> QED  BY <2>1 DEF Node!AddChild, WatchInv, RestInv, Node!zkVars
<1>4. GoInv'  BY <1>1, StartKeeps DEF WatchInv
<1> QED  BY <1>2, <1>3, <1>4 DEF WatchInv

\* handleZkNodeEvent announces a child, or reads from a Conn that is nil.
LEMMA HandleNewKeeps == ASSUME WatchInv, NEW n \in Nodes, Node!HandleNew(n)  PROVE WatchInv'
<1>1. DirInv'  BY DEF Node!HandleNew, WatchInv, DirInv
<1>2. RestInv'
  <2>1. told' \in [Nodes -> {"nothing", "add", "del"}]
    BY ToldIs DEF Node!HandleNew, WatchInv, RestInv
  <2> QED  BY <2>1 DEF Node!HandleNew, WatchInv, RestInv, Node!zkVars
<1>3. GoInv'  BY StartKeeps, GoFrame DEF Node!HandleNew, WatchInv
<1> QED  BY <1>1, <1>2, <1>3 DEF WatchInv

\* handleZkNodeEvent announces that an old child is gone.
LEMMA HandleOldKeeps == ASSUME WatchInv, NEW n \in Nodes, Node!HandleOld(n)  PROVE WatchInv'
<1>1. DirInv'  BY DEF Node!HandleOld, WatchInv, DirInv
<1>2. RestInv'
  <2>1. told' \in [Nodes -> {"nothing", "add", "del"}]  BY ToldIs DEF Node!HandleOld
  <2> QED  BY <2>1 DEF Node!HandleOld, WatchInv, RestInv, Node!zkVars
<1> QED  BY <1>1, <1>2, GoFrame DEF Node!HandleOld, WatchInv

\* The steps of the goroutines of a node.
LEMMA NodeKeeps ==
  ASSUME WatchInv, NEW n \in Nodes, Node!NodeStep(n) \/ Node!NodeExits(n)  PROVE WatchInv'
<1>1. PICK g \in go[n] :
        \/ Node!NodeStart(n, g) \/ Node!NodeExistW(n, g) \/ Node!NodeDataChanged(n, g)
        \/ Node!NodeDeleted(n, g) \/ Node!NodeUnmap(n, g) \/ Node!NodeExit(n, g)
  BY DEF Node!NodeStep, Node!NodeExits, Node!Last
<1>2. UNCHANGED <<Node!dirVars, Node!zkVars, childEvent, dataClosed, exit>>
  BY <1>1 DEF Node!NodeStart, Node!NodeExistW, Node!NodeDataChanged, Node!NodeDeleted,
              Node!NodeUnmap, Node!NodeExit, Node!nodeRest
<1>3. pathMap' \subseteq pathMap
  BY <1>1 DEF Node!NodeStart, Node!NodeExistW, Node!NodeDataChanged, Node!NodeDeleted,
              Node!NodeUnmap, Node!NodeExit
<1>4. DirInv'  BY <1>2, <1>3 DEF WatchInv, DirInv, Node!dirVars
<1>5. told' = told \/ Node!DataChange(n, "add") \/ Node!DataChange(n, "del")
  BY <1>1 DEF Node!NodeStart, Node!NodeExistW, Node!NodeDataChanged, Node!NodeDeleted,
              Node!NodeUnmap, Node!NodeExit
<1>6. dirPanicked' = dirPanicked \/ dirPanicked' = ~nodeConn
  BY <1>1 DEF Node!NodeStart, Node!NodeExistW, Node!NodeDataChanged, Node!NodeDeleted,
              Node!NodeUnmap, Node!NodeExit
<1>7. RestInv'
  <2>1. told' \in [Nodes -> {"nothing", "add", "del"}]  BY <1>5, ToldIs DEF WatchInv, RestInv
  <2>2. dirPanicked' \in BOOLEAN  BY <1>6 DEF WatchInv, RestInv
  <2> QED  BY <2>1, <2>2, <1>2 DEF WatchInv, RestInv, Node!zkVars
<1>8. GoInv'
  <2>1. GoInv /\ g \in Node!Goroutine  BY DEF WatchInv, GoInv
  <2>2. ASSUME NEW p \in Points, NEW c \in BOOLEAN
        PROVE  /\ [g EXCEPT !.at = p] \in States /\ [g EXCEPT !.at = p].counted = g.counted
               /\ [g EXCEPT !.at = p, !.counted = c] \in States
               /\ [g EXCEPT !.at = p, !.counted = c].counted = c
    BY <2>1 DEF Node!Goroutine, States, Points
  <2>3. {"exist", "wait", "unmap"} \subseteq Points  BY DEF Points
  <2>4. CASE Node!NodeStart(n, g)
    <3>1. CASE Node!Ends(n, g)  BY <3>1, <2>1, EndsKeeps
    <3>2. CASE Node!Count(n) <= 1
          /\ Node!Becomes(n, g, [g EXCEPT !.at = "exist", !.counted = TRUE])
      <4>1. Cardinality({x \in go[n] : x.counted}) <= 1  BY <3>2, NodeSetsAgree DEF Node!Count
      <4> QED  BY <3>2, <4>1, <2>1, <2>2, <2>3, BecomesKeeps
    <3> QED  BY <2>4, <3>1, <3>2 DEF Node!NodeStart, Node!MayListen
  <2>5. CASE Node!NodeExistW(n, g)
    <3>1. CASE Node!Ends(n, g)  BY <3>1, <2>1, EndsKeeps
    <3>2. CASE Node!Becomes(n, g, [g EXCEPT !.at = "wait"])
      BY <3>2, <2>1, <2>2, <2>3, BecomesKeeps
    <3> QED  BY <2>5, <3>1, <3>2 DEF Node!NodeExistW
  <2>6. CASE Node!NodeDataChanged(n, g)
    <3>1. CASE Node!Ends(n, g)  BY <3>1, <2>1, EndsKeeps
    <3>2. CASE Node!Becomes(n, g, [g EXCEPT !.at = "exist"])
      BY <3>2, <2>1, <2>2, <2>3, BecomesKeeps
    <3> QED  BY <2>6, <3>1, <3>2 DEF Node!NodeDataChanged
  <2>7. CASE Node!NodeDeleted(n, g)
    <3>1. Node!Becomes(n, g, [g EXCEPT !.at = "unmap", !.counted = FALSE])
      BY <2>7 DEF Node!NodeDeleted
    <3> QED  BY <3>1, <2>1, <2>2, <2>3, BecomesKeeps
  <2>8. CASE Node!NodeUnmap(n, g)  BY <2>8, <2>1, UnmapKeeps
  <2>9. CASE Node!NodeExit(n, g)  BY <2>9, <2>1, EndsKeeps DEF Node!NodeExit
  <2> QED  BY <1>1, <2>4, <2>5, <2>6, <2>7, <2>8, <2>9
<1> QED  BY <1>4, <1>7, <1>8 DEF WatchInv

-----------------------------------------------------------------------------
\* The initial state satisfies the invariant.
LEMMA WatchInit == ASSUME Node!Parameters PROVE Node!Init => WatchInv
<1> SUFFICES ASSUME Node!Init PROVE WatchInv  OBVIOUS
<1> USE DEF Node!Init
<1>1. RestInv
  <2>1. changes \in 0..MaxChanges /\ nodeLosses \in 0..MaxLosses  BY DEF Node!Parameters
  <2>2. told \in [Nodes -> {"nothing", "add", "del"}]  OBVIOUS
  <2> QED  BY <2>1, <2>2 DEF RestInv
<1>2. DirInv  BY DEF DirInv
<1>3. GoInv
  <2>1. {g \in {} : g.counted} = {}  OBVIOUS
  <2>2. IsFiniteSet({}) /\ Cardinality({}) = 0  BY FS_EmptySet
  <2>3. go \in [Nodes -> SUBSET Node!Goroutine] /\ \A n \in Nodes : go[n] = {}  OBVIOUS
  <2>4. Listening({})  BY <2>1, <2>2 DEF Listening
  <2> QED  BY <2>3, <2>4 DEF GoInv
<1> QED  BY <1>1, <1>2, <1>3 DEF WatchInv

\* Every step keeps the invariant.
LEMMA WatchNext == ASSUME Node!Parameters, WatchInv, [Node!Next]_Node!vars  PROVE WatchInv'
<1>1. CASE UNCHANGED Node!vars  BY <1>1, RestFrame, DirFrame, GoFrame DEF Node!vars, WatchInv
<1>2. CASE Node!DirStep
  BY <1>2, DirQuietKeeps, AddChildKeeps, HandleNewKeeps, HandleOldKeeps DEF Node!DirStep
<1>3. CASE Node!Tick  BY <1>3, DirQuietKeeps
<1> QED  BY <1>1, <1>2, <1>3, ZooKeeperKeeps, NodeKeeps, CloseKeeps DEF Node!Next

\* For any nodes and any bounds: whatever ZooKeeper, the session and the scheduler do, no
\* more than two goroutines listen to a node under one entry of pathMap, although many are
\* started for it, and a third is let in only when the entry was removed with its counter.
THEOREM TwoListenAtMost == ASSUME Node!Parameters PROVE Node!Spec => []Node!ListenerInv
<1>1. ASSUME WatchInv PROVE Node!ListenerInv
  <2>1. \A n \in Nodes : go[n] \subseteq Node!Goroutine /\ Node!Count(n) <= 2
    BY <1>1, NodeSetsAgree DEF WatchInv, GoInv, Listening, Node!Count
  <2> QED  BY <1>1, <2>1 DEF WatchInv, RestInv, DirInv, Node!ListenerInv
<1> QED  BY <1>1, WatchInit, WatchNext, PTL DEF Node!Spec
=============================================================================
