------------------------------- MODULE Export -------------------------------
(***************************************************************************)
(* How a service comes to be exported, and is exported again when an       *)
(* override rule changes its URL: ServiceConfig.Export and Unexport        *)
(* (config/service_config.go), registryProtocol (registry/protocol/        *)
(* protocol.go), ServiceMap (common/rpc_service.go) and the exporters of   *)
(* the protocol.  One goroutine exports, another one processes the rules   *)
(* of the configuration center, and the registry protocol is destroyed.    *)
(*                                                                         *)
(* There is one service.  Its provider URL is abstracted to a protocol and *)
(* the value of the parameter that the rules override; ServiceKey() and    *)
(* Key() leave that parameter out.  A protocol has an ID, under which the  *)
(* configuration has it, and a name, which is in URLs.                     *)
(***************************************************************************)
EXTENDS Integers, Sequences, FiniteSets

CONSTANTS
  Protos,        \* the names of the protocols
  IDs, NameOf,   \* their IDs, and the name under each
  Registries,
  Strict,        \* those that refuse a Key() that is registered: zookeeper, etcd and
                 \* kubernetes, which are BaseRegistries, but not nacos
  Services,      \* what may be configured: sequences of IDs and of registries
  Values, Base,  \* what a rule may set the parameter to; what it is without one
  MaxRules, MaxFails,
  None

ASSUME ExportAssumption ==
  /\ Services \subseteq {s \in [protocolIDs : Seq(IDs), registries : Seq(Registries)] :
                           Len(s.protocolIDs) > 0 /\ Len(s.registries) > 0}
  /\ Base \in Values /\ None \notin Values /\ None \notin Protos \X Values
  /\ NameOf \in [IDs -> Protos] /\ Strict \subseteq Registries

VARIABLES
  svc,           \* the service's configuration
  serviceMap,    \* the protocols, by name or ID, under which ServiceMap has the service
  exporterMap,   \* of each protocol, the value in the URL of its exporter, or None
  bounds,        \* registryProtocol.bounds: from <<protocol, value>> to such a value
  subURL,        \* of each registry, the protocol in the SubURL of its URL: the
                 \* invokers that Export makes for the registry share that URL
  listeners,     \* overrideListeners: [sub, r] of the invoker each one was made for,
                 \* with sub = None when the invoker has the shared URL
  registered,    \* in the registries: <<r, p, v>>
  mainAt, i, j,  \* where ServiceConfig.Export is, with which protocol and registry
  url,           \* the value in the providerUrl that its registryProtocol.Export works on
  exported, unexported,
  exporters,     \* svc.exporters, by protocol
  rule,          \* the rule of the configuration center, or None
  pending,       \* its event is on the way
  configurator,  \* what the listener has made of the last event
  todo,          \* the listeners that Process has still to call
  overAt, over,  \* where reExport is, and the key and new URL it was called with
  rules, fails,
  raced,         \* a rule was processed during an Export, or an Export was repeated
  reExported,    \* history: reExport has unexported an exporter
  destroyed

mapVars == <<serviceMap, exporterMap, bounds, subURL, listeners, registered>>
svcVars == <<svc, mainAt, i, j, url, exported, unexported, exporters>>
ruleVars == <<rule, pending, rules>>
overVars == <<configurator, todo, overAt, over, reExported>>
vars == <<mapVars, svcVars, ruleVars, overVars, fails, raced, destroyed>>

Unbound == [k \in {} |-> None]

Init ==
  /\ svc \in Services
  /\ serviceMap = {} /\ exporterMap = [p \in Protos |-> None]
  /\ bounds = Unbound /\ subURL = [r \in Registries |-> None]
  /\ listeners = {} /\ registered = {}
  /\ mainAt = "idle" /\ i = 1 /\ j = 1 /\ url = None
  /\ exported = FALSE /\ unexported = FALSE /\ exporters = {}
  /\ rule \in Values \cup {None} /\ configurator = rule /\ pending = FALSE
  /\ todo = {} /\ overAt = "idle" /\ over = None /\ reExported = FALSE
  /\ rules = 0 /\ fails = 0 /\ raced = FALSE /\ destroyed = FALSE

\* OverrideUrl: what the rule makes of a value.
Overridden(v) == IF configurator = None THEN v ELSE configurator

\* BaseConfigurationListener reads the rule when it is made, and again when it is
\* told of a change; a deleted rule leaves no configurators.
InitWith == configurator' = rule
GenConfigurators == configurator' = rule

\* getProviderUrl of the invoker of a listener; it is also the key of its exporter.
ProviderURL(l) == IF l.sub = None THEN <<subURL[l.r], Base>> ELSE l.sub

-----------------------------------------------------------------------------
(* registryProtocol.Export, for the registry r, of an invoker whose URL has *)
(* the protocol p and the value v; l is the listener it makes.             *)

\* BaseRegistry.Register: the Key() of the URL is among the services.
Refused(p, r) == r \in Strict /\ \E v \in Values : <<r, p, v>> \in registered

\* The listeners are made and the URL is registered.
Register(p, v, r, l) ==
  /\ ~Refused(p, r)
  /\ registered' = registered \cup {<<r, p, Overridden(v)>>}
  /\ listeners' = listeners \cup {l}
  /\ UNCHANGED fails

\* The registry returns an error: the key is registered, or it is out of reach.
RegisterFails(p, v, r, l) ==
  /\ Refused(p, r) \/ fails < MaxFails
  /\ fails' = IF Refused(p, r) THEN fails ELSE fails + 1
  /\ listeners' = listeners \cup {l}
  /\ UNCHANGED registered

\* The exporter in bounds is used, or the protocol exports a new one with the value
\* w; the key is that of the invoker's URL.
Bind(p, v, w) ==
  IF <<p, v>> \in DOMAIN bounds THEN UNCHANGED <<bounds, exporterMap>>
  ELSE /\ exporterMap' = [exporterMap EXCEPT ![p] = w]
       /\ bounds' = [k \in DOMAIN bounds \cup {<<p, v>>} |->
                       IF k = <<p, v>> THEN w ELSE bounds[k]]

\* DubboExporter.Unexport deletes by the service key, whoever's entry it is.
Unexporter(P) ==
  /\ exporterMap' = [p \in Protos |-> IF p \in P THEN None ELSE exporterMap[p]]
  /\ serviceMap' = serviceMap \ P

-----------------------------------------------------------------------------
(* ServiceConfig.Export.                                                   *)

ProtocolIDs == svc.protocolIDs
Regs == svc.registries
Proto == NameOf[ProtocolIDs[i]]
Shared == [sub |-> None, r |-> Regs[j]]
exportRest == <<raced, destroyed>>

\* The first call reads the rule (initConfigurationListeners).
ExportStarts ==
  /\ mainAt \in {"idle", "failed"} /\ ~exported /\ ~unexported
  /\ mainAt' = "map" /\ i' = 1 /\ j' = 1
  /\ IF mainAt = "idle" THEN InitWith ELSE UNCHANGED configurator
  /\ raced' = (raced \/ mainAt = "failed")
  /\ UNCHANGED <<mapVars, svc, url, exported, unexported, exporters, fails, ruleVars, todo,
                 overAt, over, reExported, destroyed>>

\* ServiceMap.Register refuses a service that is defined; Export gives up.
ExportMaps ==
  /\ mainAt = "map"
  /\ mainAt' = IF Proto \in serviceMap THEN "failed" ELSE "register"
  /\ serviceMap' = serviceMap \cup {Proto}
  /\ UNCHANGED <<exporterMap, bounds, subURL, listeners, registered, svc, i, j, url, exported,
                 unexported, exporters, fails, ruleVars, overVars, exportRest>>

\* The invoker is made, with the registry's URL, and exported.
ExportRegisters ==
  /\ mainAt = "register"
  /\ \/ Register(Proto, Base, Regs[j], Shared) /\ mainAt' = "bind"
     \/ RegisterFails(Proto, Base, Regs[j], Shared) /\ mainAt' = "failed"
  /\ subURL' = [subURL EXCEPT ![Regs[j]] = Proto]
  /\ url' = Overridden(Base)
  /\ UNCHANGED <<serviceMap, exporterMap, bounds, svc, i, j, exported, unexported, exporters,
                 ruleVars, overVars, exportRest>>

\* The next registry, the next protocol, or the end.
ExportBinds ==
  /\ mainAt = "bind" /\ Bind(Proto, Base, url) /\ url' = None
  /\ exporters' = exporters \cup {Proto}
  /\ \/ /\ j < Len(Regs) /\ j' = j + 1 /\ mainAt' = "register" /\ UNCHANGED <<i, exported>>
     \/ /\ j = Len(Regs) /\ i < Len(ProtocolIDs)
        /\ j' = 1 /\ i' = i + 1 /\ mainAt' = "map" /\ UNCHANGED exported
     \/ /\ j = Len(Regs) /\ i = Len(ProtocolIDs)
        /\ exported' = TRUE /\ mainAt' = "done" /\ UNCHANGED <<i, j>>
  /\ UNCHANGED <<serviceMap, subURL, listeners, registered, svc, unexported, fails,
                 ruleVars, overVars, exportRest>>

\* Unexport does nothing for a service whose Export failed half-way.
Unexport ==
  /\ mainAt \in {"done", "failed"} /\ exported /\ ~unexported
  /\ Unexporter(exporters)
  /\ exporters' = {} /\ exported' = FALSE /\ unexported' = TRUE
  /\ UNCHANGED <<bounds, subURL, listeners, registered, svc, mainAt, i, j, url, fails,
                 ruleVars, overVars, exportRest>>

-----------------------------------------------------------------------------
(* The rules.                                                              *)

\* The configuration center changes or removes the rule.
SetRule(v) ==
  /\ rules < MaxRules /\ v # rule
  /\ rule' = v /\ pending' = (mainAt # "idle") /\ rules' = rules + 1
  /\ UNCHANGED <<mapVars, svcVars, overVars, fails, raced, destroyed>>

\* The service is being exported.
Exporting == mainAt \in {"map", "register", "bind"}
Races == raced' = (raced \/ Exporting)

\* providerConfigurationListener.Process: the configurators are replaced, and
\* every override listener is called.
Process ==
  /\ pending /\ todo = {} /\ overAt = "idle"
  /\ pending' = FALSE /\ todo' = listeners /\ GenConfigurators
  /\ UNCHANGED <<mapVars, svcVars, rule, rules, overAt, over, reExported, fails, destroyed>>
  /\ Races

overRest == <<svcVars, ruleVars, configurator, destroyed>>

\* A variant that compares the rule with the URL the listener was made for.
OverrideOrigin(l) ==
  LET k == ProviderURL(l) new == <<k[1], Overridden(k[2])>> IN
  /\ overAt = "idle" /\ l \in todo /\ todo' = todo \ {l}
  /\ IF k \in DOMAIN bounds /\ k # new
       THEN overAt' = "unexport" /\ over' = [key |-> k, new |-> new, r |-> l.r]
       ELSE UNCHANGED <<overAt, over>>
  /\ UNCHANGED <<mapVars, reExported, fails, overRest>> /\ Races

\* doOverrideIfNecessary: nothing is done when the listener's exporter is not
\* bound any more, or has the overridden URL already.
DoOverrideIfNecessary(l) ==
  LET k == ProviderURL(l) new == <<k[1], Overridden(k[2])>> IN
  /\ overAt = "idle" /\ l \in todo /\ todo' = todo \ {l}
  /\ IF k \in DOMAIN bounds /\ bounds[k] # new[2]
       THEN overAt' = "unexport" /\ over' = [key |-> k, new |-> new, r |-> l.r]
       ELSE UNCHANGED <<overAt, over>>
  /\ UNCHANGED <<mapVars, reExported, fails, overRest>> /\ Races

\* reExport: the old exporter, if it is still bound, is unexported ...
ReExportUnexports ==
  /\ overAt = "unexport"
  /\ IF over.key \in DOMAIN bounds
       THEN /\ Unexporter({over.key[1]}) /\ overAt' = "delete" /\ reExported' = TRUE
            /\ UNCHANGED over
       ELSE /\ overAt' = "idle" /\ over' = None
            /\ UNCHANGED <<exporterMap, serviceMap, reExported>>
  /\ UNCHANGED <<bounds, subURL, listeners, registered, todo, fails, overRest>> /\ Races

\* A variant that leaves it in bounds.
ReExportKeeps ==
  /\ overAt = "delete" /\ overAt' = "map"
  /\ UNCHANGED <<mapVars, todo, over, reExported, fails, overRest>> /\ Races

\* ... and removed from bounds ...
ReExportDeletes ==
  /\ overAt = "delete" /\ overAt' = "map"
  /\ bounds' = [k \in DOMAIN bounds \ {over.key} |-> bounds[k]]
  /\ UNCHANGED <<serviceMap, exporterMap, subURL, listeners, registered, todo, over>>
  /\ UNCHANGED <<reExported, fails, overRest>> /\ Races

\* A variant that does not register the service again.
ReExportMapsNot ==
  /\ overAt = "map" /\ overAt' = "register"
  /\ UNCHANGED <<mapVars, todo, over, reExported, fails, overRest>> /\ Races

\* ... the service is put into ServiceMap again, under the ID of its first protocol,
\* where the exporters and the calls go by the name (a FIXME of the code); ServiceMap
\* refuses a service that is defined, which is only logged ...
ReExportMaps ==
  /\ overAt = "map" /\ overAt' = "register"
  /\ serviceMap' = serviceMap \cup {ProtocolIDs[1]}
  /\ UNCHANGED <<exporterMap, bounds, subURL, listeners, registered, todo, over>>
  /\ UNCHANGED <<reExported, fails, overRest>> /\ Races

Rewrapped == [sub |-> over.new, r |-> over.r]

\* ... and the new URL is exported, unless the registry returns an error.
ReExportRegisters ==
  /\ overAt = "register"
  /\ \/ /\ Register(over.new[1], over.new[2], over.r, Rewrapped)
        /\ overAt' = "bind" /\ UNCHANGED over
     \/ /\ RegisterFails(over.new[1], over.new[2], over.r, Rewrapped)
        /\ overAt' = "idle" /\ over' = None
  /\ UNCHANGED <<serviceMap, exporterMap, bounds, subURL, todo, reExported, overRest>>
  /\ Races

ReExportBinds ==
  /\ overAt = "bind" /\ Bind(over.new[1], over.new[2], Overridden(over.new[2]))
  /\ overAt' = "idle" /\ over' = None
  /\ UNCHANGED <<serviceMap, subURL, listeners, registered, todo, reExported, fails, overRest>>
  /\ Races

-----------------------------------------------------------------------------
\* registryProtocol.Destroy: nothing is bound, and the registries are destroyed.
Destroy ==
  /\ ~destroyed /\ destroyed' = TRUE
  /\ bounds' = Unbound /\ registered' = {}
  /\ UNCHANGED <<serviceMap, exporterMap, subURL, listeners, svcVars, ruleVars,
                 overVars, fails, raced>>

Exports == ExportMaps \/ ExportRegisters \/ ExportBinds
Overrides ==
  \/ Process \/ \E l \in todo : DoOverrideIfNecessary(l)
  \/ ReExportUnexports \/ ReExportDeletes \/ ReExportMaps \/ ReExportRegisters
  \/ ReExportBinds

Next ==
  \/ ExportStarts \/ Exports \/ Unexport
  \/ \E v \in Values \cup {None} : SetRule(v)
  \/ Overrides
  \/ Destroy

\* The goroutine that exports and the one that processes events are scheduled.
Fairness == WF_vars(Exports) /\ WF_vars(Overrides)

Spec == Init /\ [][Next]_vars /\ Fairness

-----------------------------------------------------------------------------
(* Properties.                                                             *)

\* Nobody is exporting, and no rule is being applied.
Quiet == mainAt \in {"idle", "done", "failed"} /\ overAt = "idle"
Undisturbed == fails = 0 /\ ~raced /\ ~unexported /\ ~destroyed

\* The values of the variables; and the tables agree: when nobody is at work, the
\* exporters that registryProtocol holds are the ones that answer calls, one for
\* each protocol that is exported, although reExport deletes by another key than
\* the one it loads by.
ExportInv ==
  /\ serviceMap \subseteq Protos \cup IDs /\ exporterMap \in [Protos -> Values \cup {None}]
  /\ DOMAIN bounds \subseteq Protos \X Values
  /\ exporters \subseteq Protos /\ todo \subseteq listeners
  /\ (Quiet /\ Undisturbed) =>
       /\ \A k \in DOMAIN bounds : bounds[k] = exporterMap[k[1]]
       /\ \A p \in Protos : exporterMap[p] # None => \E v \in Values : <<p, v>> \in DOMAIN bounds
       /\ \A k, m \in DOMAIN bounds : k[1] = m[1] => k = m

\* The name of the last protocol: after Export it is the one in the registries'
\* URLs, by which the override listeners and the invokers of every protocol go.
Last == NameOf[ProtocolIDs[Len(ProtocolIDs)]]

\* Which calls find the service that they are for in ServiceMap, where the invokers
\* of all its protocols look for it by the name of the last one: before the first
\* reExport all, and after it all or none.  Unexport has removed it, and it is back
\* only where registerServiceMap, which takes the ID of the first protocol, puts it
\* where the calls look, that is where the two are the same.
ServiceIsFound ==
  (exported /\ Quiet /\ Undisturbed) =>
    /\ \A n \in 1..Len(Regs) : subURL[Regs[n]] = Last
    /\ Last \in serviceMap <=> (~reExported \/ ProtocolIDs[1] = Last)

\* "oldExporter Unexport function unRegister rpcService from the serviceMap, so
\* need register it again as far as possible": calls find the service.
AlwaysFound == (exported /\ Quiet /\ Undisturbed) => Last \in serviceMap

\* What a rule that stays comes to in the end, however many rules came before: the
\* service is exported by its last protocol with the value of the rule, or, if one of
\* its registries refuses a key it has, it may not be exported by it any more.  (The
\* other protocols are left out: their listeners find the last one's URL.)
RuleTakesEffect ==
  <>[](\/ ~Undisturbed \/ ~exported \/ rule = None
       \/ exporterMap[Last] = rule
       \/ exporterMap[Last] = None /\ \E n \in 1..Len(Regs) : Regs[n] \in Strict)

\* Every exporter of the service gets the value of the rule.
RuleReachesAll ==
  <>[](\/ ~Undisturbed \/ ~exported \/ rule = None
       \/ \A n \in 1..Len(ProtocolIDs) : exporterMap[NameOf[ProtocolIDs[n]]] \in {rule, None})

\* protocol_test.go asserts, with a mock of the registry, that the exporter of the
\* overridden URL is bound after an override: a service that is exported stays so.
StaysExported ==
  (Quiet /\ Undisturbed /\ exported) => \A p \in exporters : exporterMap[p] # None
=============================================================================
