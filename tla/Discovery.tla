------------------------------ MODULE Discovery ------------------------------
(***************************************************************************)
(* Discovery by application: serviceDiscoveryRegistry (registry/           *)
(* servicediscovery), its ServiceInstancesChangedListenerImpl (registry/   *)
(* event), and the ZooKeeper service discovery that calls it               *)
(* (registry/zookeeper/service_discovery.go).  The first Subscribe makes   *)
(* the listener and hands it the instances of every application; a         *)
(* goroutine of the ZooKeeper listener does so again when they change,     *)
(* several at a time and with no lock.                                     *)
(*                                                                         *)
(* An instance belongs to an application and has a revision, which stands  *)
(* for the services it offers.  Those without one (no metadata, or         *)
(* revision "0") are skipped by the loop, and are not in Instances.  A URL *)
(* is of an instance and a service.                                        *)
(***************************************************************************)
EXTENDS Integers, FiniteSets

CONSTANTS
  Apps, Instances, Revisions, Services,
  AppOf, RevisionOf,   \* of an instance
  Offers,              \* of a revision: its services
  MaxWorkers,          \* how many calls of OnEvent may be under way
  Deployments          \* the instances there may be, and how often one of them
                       \* changes and a call fails

ASSUME DiscoveryAssumption ==
  /\ AppOf \in [Instances -> Apps] /\ RevisionOf \in [Instances -> Revisions]
  /\ Offers \in [Revisions -> SUBSET Services] /\ MaxWorkers \in Nat
  /\ \A d \in Deployments : d.instances \subseteq Instances

Workers == 1 .. MaxWorkers

VARIABLES
  dep,           \* which of the Deployments it is
  nodes,         \* the instances that are registered
  pending,       \* the applications with an event on the way
  watching,      \* AddListener has been called
  allInstances,  \* of each application, the instances of its last event
  seen,          \* the applications that have had one
  metas,         \* revisionToMetadata: its revisions, and the OnEvent under way that
                 \* has put it there
  serviceUrls,   \* of each service, URLs
  listeners,     \* the keys that have a NotifyListener
  told,          \* the URLs each of them has been notified of
  sub,           \* where Subscribe is, for each service
  queue,         \* the applications whose instances the first Subscribe has to read
  at, job,       \* where each worker's OnEvent is, and its local variables
  changes, fails,
  asOf,          \* the newest query whose instances allInstances has had
  late,          \* the applications whose instances are of an older one, or of none
  overtaken,     \* the workers in whose OnEvent another has stored its instances
  overlapped,    \* such a worker was the last to write serviceUrls
  broken         \* OnEvent has returned an error, and none has done its work since

lstnVars == <<allInstances, seen, metas, serviceUrls>>
subVars == <<listeners, sub, queue, watching>>
envVars == <<dep, nodes, pending, changes>>
histVars == <<fails, asOf, late, overtaken, overlapped, broken>>
vars == <<lstnVars, subVars, envVars, told, at, job, histVars>>

\* The local variables of OnEvent: the event, and when and whether it was read; the
\* applications the loop has yet to visit and the instances it has met; the lists of
\* URLs that each revision has.
NoJob == [app |-> "none", insts |-> {}, asOf |-> 0, ok |-> TRUE, left |-> {}, met |-> {},
          urls |-> [r \in Revisions |-> {}]]

Init ==
  /\ dep \in Deployments /\ nodes \in SUBSET dep.instances
  /\ pending = {} /\ watching = FALSE
  /\ allInstances = [a \in Apps |-> {}] /\ seen = {}
  /\ metas = [revisions |-> {}, owner |-> 0]
  /\ serviceUrls = [s \in Services |-> {}]
  /\ listeners = {} /\ told = [s \in Services |-> {}]
  /\ sub = [s \in Services |-> "no"] /\ queue = {}
  /\ at = [g \in Workers |-> "idle"] /\ job = [g \in Workers |-> NoJob]
  /\ changes = 0 /\ fails = 0
  /\ asOf = [a \in Apps |-> 0] /\ late = {}
  /\ overtaken = {} /\ overlapped = FALSE /\ broken = FALSE

Of(a, I) == {x \in I : AppOf[x] = a}
Revs(I) == {RevisionOf[x] : x \in I}
\* DefaultServiceInstance.ToURLs, of each: a URL for every service of the instance.
ToURLs(I) == {u \in I \X Services : u[2] \in Offers[RevisionOf[u[1]]]}
Idle == \A g \in Workers : at[g] = "idle"
\* The key of a service, and the one its listener is stored under.
ServiceKey(s) == <<s>>
ListenerKey(s) == <<s, "protocol">>

-----------------------------------------------------------------------------
\* An instance registers or leaves; if its application is watched there is an event.
Change(x) ==
  /\ x \in dep.instances /\ changes < dep.changes /\ changes' = changes + 1
  /\ nodes' = IF x \in nodes THEN nodes \ {x} ELSE nodes \cup {x}
  /\ pending' = IF watching THEN pending \cup {AppOf[x]} ELSE pending
  /\ UNCHANGED <<dep, lstnVars, subVars, told, at, job, histVars>>

-----------------------------------------------------------------------------
(* OnEvent, and the query that precedes it.                                *)

\* A goroutine with the event of an application, or the first Subscribe (which is
\* alone); the goroutines have no names, so the first that is idle is taken.
Starts(g, a) ==
  /\ at[g] = "idle" /\ \A h \in Workers : h < g => at[h] # "idle"
  /\ \/ a \in pending /\ pending' = pending \ {a} /\ UNCHANGED queue
     \/ a \in queue /\ Idle /\ queue' = queue \ {a} /\ UNCHANGED pending

\* GetInstances of the application: none, if the query fails.
GetInstances(g, a) ==
  /\ Starts(g, a) /\ at' = [at EXCEPT ![g] = "store"]
  /\ \E ok \in BOOLEAN :
       /\ ok \/ fails < dep.fails
       /\ fails' = IF ok THEN fails ELSE fails + 1
       /\ job' = [job EXCEPT ![g] = [NoJob EXCEPT !.app = a, !.asOf = changes, !.ok = ok,
                                                 !.insts = IF ok THEN Of(a, nodes) ELSE {}]]
  /\ UNCHANGED <<lstnVars, listeners, sub, watching, dep, nodes, changes, told, asOf, late, overtaken,
                 overlapped, broken>>

\* allInstances of the event's application is replaced; the loop is over apps.
StoreAndLoop(g, apps) ==
  LET a == job[g].app IN
  /\ at[g] = "store" /\ at' = [at EXCEPT ![g] = "pass"]
  /\ allInstances' = [allInstances EXCEPT ![a] = job[g].insts]
  /\ seen' = seen \cup {a}
  /\ job' = [job EXCEPT ![g] = [@ EXCEPT !.left = apps]]
  /\ late' = IF job[g].ok /\ job[g].asOf >= asOf[a] THEN late \ {a} ELSE late \cup {a}
  /\ asOf' = IF job[g].asOf < asOf[a] THEN asOf ELSE [asOf EXCEPT ![a] = job[g].asOf]
  /\ overtaken' = {h \in Workers \ {g} : h \in overtaken \/ at[h] \in {"pass", "notify"}}
  /\ UNCHANGED <<metas, serviceUrls, subVars, envVars, told, fails, overlapped, broken>>

\* A variant whose loop is over the event's application.
StoreOne(g) == StoreAndLoop(g, {job[g].app})

\* The loop is over all applications of which there has been an event.
Store(g) == StoreAndLoop(g, seen \cup {job[g].app})

\* The URLs of a revision, once the loop has come to the application a.  They are
\* kept by the pointer to the metadata's service: with the same pointer, the URLs of
\* an earlier pass are taken again; with another, there are new ones beside them.
\* They are those of all its services, whichever service the pointer is to.
Urls(g, a, r) ==
  LET fresh == ToURLs({x \in job[g].met \cup allInstances[a] : RevisionOf[x] = r})
      old == job[g].urls[r]
  IN  IF r \notin Revs(allInstances[a]) THEN {old}
      ELSE IF old = {} THEN {{fresh}}
      ELSE (IF r \in metas.revisions THEN {old} ELSE {})
             \cup (IF metas.owner # g \/ r \notin metas.revisions THEN {old \cup {fresh}} ELSE {})

\* What a service may be given: the URLs of one of the revisions that offer it.
Choices(urls, s) ==
  LET all == UNION {urls[r] : r \in {q \in Revisions : s \in Offers[q]}} IN
  IF all = {} THEN {{}} ELSE all

OneOfEach(F) ==
  {f \in [DOMAIN F -> UNION {F[d] : d \in DOMAIN F}] : \A d \in DOMAIN F : f[d] \in F[d]}

\* One pass of the loop: the metadata of each new revision is got, and the URLs of
\* every service are put together.
Pass(g, a) ==
  /\ at[g] = "pass" /\ a \in job[g].left /\ at' = [at EXCEPT ![g] = "notify"]
  /\ metas' = [revisions |-> Revs(job[g].met \cup allInstances[a]), owner |-> g]
  /\ \E urls \in OneOfEach([r \in Revisions |-> Urls(g, a, r)]) :
       /\ job' = [job EXCEPT ![g] = [@ EXCEPT !.left = job[g].left \ {a},
                                             !.met = job[g].met \cup allInstances[a], !.urls = urls]]
       /\ serviceUrls' \in OneOfEach([s \in Services |-> Choices(urls, s)])
  /\ overlapped' = (g \in overtaken)
  /\ UNCHANGED <<allInstances, seen, subVars, envVars, told, fails, asOf, late, overtaken,
                 broken>>

\* getMetadataInfo fails for a revision that is not cached: OnEvent returns the error.
\* What it has got before is cached, if the map is the one that it put there.
PassFails(g, a) ==
  /\ at[g] = "pass" /\ a \in job[g].left
  /\ fails < dep.fails /\ fails' = fails + 1
  /\ \E R \in SUBSET Revs(allInstances[a]) :
       /\ Revs(allInstances[a]) \ (metas.revisions \cup R) # {}
       /\ metas' = IF metas.owner = g
                     THEN [revisions |-> metas.revisions \cup R, owner |-> 0] ELSE metas
  /\ at' = [at EXCEPT ![g] = "idle"] /\ job' = [job EXCEPT ![g] = NoJob]
  /\ broken' = TRUE /\ overtaken' = overtaken \ {g}
  /\ UNCHANGED <<allInstances, seen, serviceUrls, subVars, envVars, told, overlapped, asOf, late>>

\* Every listener is notified of the URLs that its service has in urls.
NotifyOf(g, urls) ==
  LET done == job[g].left = {} IN
  /\ at[g] = "notify"
  /\ told' = [s \in Services |-> told[s] \cup
                 (IF ListenerKey(s) \in listeners THEN urls[s] ELSE {})]
  /\ at' = [at EXCEPT ![g] = IF done THEN "idle" ELSE "pass"]
  /\ job' = IF done THEN [job EXCEPT ![g] = NoJob] ELSE job
  /\ broken' = (broken /\ (~done \/ g \in overtaken))
  /\ overtaken' = IF done THEN overtaken \ {g} ELSE overtaken
  /\ metas' = IF done /\ metas.owner = g THEN [metas EXCEPT !.owner = 0] ELSE metas
  /\ UNCHANGED <<allInstances, seen, serviceUrls, subVars, envVars, fails, asOf, late, overlapped>>

\* A variant that tells of the event's instances only.
NotifyEvent(g) ==
  NotifyOf(g, [s \in Services |-> {u \in serviceUrls[s] : u[1] \in job[g].insts}])

\* It is notified of those it has now, which another OnEvent may have written.
Notify(g) == NotifyOf(g, serviceUrls)

-----------------------------------------------------------------------------
(* Subscribe and UnSubscribe.                                              *)

\* The first Subscribe makes the listener, and calls OnEvent for each application.
Subscribe(s) ==
  /\ sub[s] = "no" /\ \A t \in Services : sub[t] # "making"
  /\ IF \A t \in Services : sub[t] = "no"
       THEN sub' = [sub EXCEPT ![s] = "making"] /\ queue' = Apps
       ELSE sub' = [sub EXCEPT ![s] = "adding"] /\ UNCHANGED queue
  /\ UNCHANGED <<lstnVars, listeners, watching, envVars, told, at, job, histVars>>

SubscribeMade(s) ==
  /\ sub[s] = "making" /\ queue = {} /\ Idle
  /\ sub' = [sub EXCEPT ![s] = "adding"]
  /\ UNCHANGED <<lstnVars, listeners, queue, watching, envVars, told, at, job, histVars>>

\* AddListenerAndNotify: the listener is stored ...
SubscribeAdds(s) ==
  /\ sub[s] = "adding" /\ sub' = [sub EXCEPT ![s] = "telling"]
  /\ listeners' = listeners \cup {ListenerKey(s)}
  /\ UNCHANGED <<lstnVars, queue, watching, envVars, told, at, job, histVars>>

\* ... and told of the URLs there are.
SubscribeTells(s) ==
  /\ sub[s] = "telling" /\ sub' = [sub EXCEPT ![s] = "watching"]
  /\ told' = [told EXCEPT ![s] = @ \cup serviceUrls[s]]
  /\ UNCHANGED <<lstnVars, listeners, queue, watching, envVars, at, job, histVars>>

\* A variant in which AddListener sets no watch.
SubscribeOnly(s) ==
  /\ sub[s] = "watching" /\ sub' = [sub EXCEPT ![s] = "done"]
  /\ UNCHANGED <<lstnVars, listeners, queue, watching, envVars, told, at, job, histVars>>

\* AddListener: the applications are watched; the first time, there is an event for
\* each one that has instances.
SubscribeWatches(s) ==
  /\ sub[s] = "watching" /\ sub' = [sub EXCEPT ![s] = "done"]
  /\ watching' = TRUE
  /\ pending' = IF watching THEN pending ELSE {AppOf[x] : x \in nodes}
  /\ UNCHANGED <<lstnVars, listeners, queue, dep, nodes, changes, told, at, job, histVars>>

\* UnSubscribe removes the listener of the ServiceKey; it is stored under another key.
UnSubscribe(s) ==
  /\ sub[s] = "done" /\ listeners' = listeners \ {ServiceKey(s)}
  /\ UNCHANGED <<lstnVars, sub, queue, watching, envVars, told, at, job, histVars>>

OnEvents ==
  \/ \E g \in Workers, a \in Apps : GetInstances(g, a) \/ Pass(g, a) \/ PassFails(g, a)
  \/ \E g \in Workers : Store(g) \/ Notify(g)
Subscribes ==
  \E s \in Services : SubscribeMade(s) \/ SubscribeAdds(s) \/ SubscribeTells(s)
                        \/ SubscribeWatches(s)

Next ==
  \/ \E x \in Instances : Change(x)
  \/ OnEvents \/ Subscribes
  \/ \E s \in Services : Subscribe(s) \/ UnSubscribe(s)

\* The goroutines are scheduled.
Fairness == WF_vars(OnEvents) /\ WF_vars(Subscribes)

Spec == Init /\ [][Next]_vars /\ Fairness

-----------------------------------------------------------------------------
(* Properties.                                                             *)

Known == UNION {allInstances[a] : a \in Apps}
Offering(s, I) == {x \in I : s \in Offers[RevisionOf[x]]}

\* The URLs are kept by the pointer to a revision's metadata, so the instances of two
\* revisions, or those of one revision in two applications, hide one another.
Plain(s, I) ==
  \A x, y \in Offering(s, I) : RevisionOf[x] = RevisionOf[y] /\ AppOf[x] = AppOf[y]

\* The values of the variables; and what OnEvent leaves: unless the last to write was
\* overtaken, or one has failed, each service has exactly the URLs of the instances
\* that offer it, those of their other services among them, whichever application's
\* event came last.
DiscoveryInv ==
  /\ nodes \subseteq Instances /\ pending \subseteq Apps /\ seen \subseteq Apps
  /\ \A a \in Apps : allInstances[a] \subseteq Of(a, Instances)
  /\ \A s \in Services : serviceUrls[s] \subseteq ToURLs(Offering(s, Instances))
  /\ (Idle /\ ~overlapped /\ ~broken) =>
       \A s \in Services : Plain(s, Known) => serviceUrls[s] = ToURLs(Offering(s, Known))

\* A subscriber has been told of every URL its service has, whether OnEvent or
\* Subscribe came first: no URL slips between the two.
SubscriberIsTold ==
  (\A g \in Workers : at[g] # "notify") =>
     \A s \in Services : sub[s] \in {"watching", "done"} => serviceUrls[s] \subseteq told[s]

\* A subscriber is told of the URLs of its own service only.
OnlyItsOwn == \A s \in Services : \A u \in told[s] : u[2] = s

\* Once the instances stay the same, whoever subscribed to a service comes to know its
\* URL at all that offer it, also after a query or a metadata call that failed and was followed
\* by one that did not.
Discovered ==
  <>[]\A s \in Services :
        \/ sub[s] = "no" \/ overlapped \/ broken \/ late # {} \/ ~Plain(s, nodes \cup Known)
        \/ Offering(s, nodes) \X {s} \subseteq told[s]
=============================================================================
