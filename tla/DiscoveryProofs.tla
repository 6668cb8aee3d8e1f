--------------------------- MODULE DiscoveryProofs ---------------------------
(***************************************************************************)
(* That no URL slips between OnEvent and Subscribe, for any instances,     *)
(* services and number of goroutines.  A pass that writes serviceUrls has  *)
(* its loop over the listeners still before it, so the property is         *)
(* inductive once it says, too, that whoever is past the first half of     *)
(* AddListenerAndNotify has its listener stored, for good.                 *)
(*                                                                         *)
(* And that the URLs match the instances: of the OnEvents that run at the  *)
(* same time the last to store its instances leads, the instances do not   *)
(* change under it, and its loop has put together what it has met.         *)
(*                                                                         *)
(* And, at the end, the proof about MetadataReport: no definition is lost. *)
(***************************************************************************)
EXTENDS Discovery, TLAPS

\* Most steps are first-order, and Zenon is the quickest to find them.
USE ZenonT(3), SMT, Zenon, SMTT(20)

Shape ==
  /\ at \in [Workers -> {"idle", "store", "pass", "notify"}]
  /\ sub \in [Services -> {"no", "making", "adding", "telling", "watching", "done"}]
  /\ DOMAIN told = Services

\* Whoever has been told, or is about to be, has its listener stored.
Stored ==
  \A s \in Services : sub[s] \in {"telling", "watching", "done"} => ListenerKey(s) \in listeners

Told ==
  \/ \E g \in Workers : at[g] = "notify"
  \/ \A s \in Services : sub[s] \in {"watching", "done"} => serviceUrls[s] \subseteq told[s]

Inv == Shape /\ Stored /\ Told

\* The key UnSubscribe removes is the key of no listener.
LEMMA KeysDiffer == \A s, t : ServiceKey(s) # ListenerKey(t)
BY DEF ServiceKey, ListenerKey

\* The initial state satisfies the invariant.
LEMMA InitInv == Init => Inv
BY DEF Init, Inv, Shape, Stored, Told

\* The steps of OnEvent.
LEMMA EventInv == ASSUME Inv, OnEvents PROVE Inv'
<1>1. ASSUME NEW g \in Workers, NEW a \in Apps, GetInstances(g, a) PROVE Inv'
  BY <1>1 DEF Inv, Shape, Stored, Told, GetInstances, Starts, lstnVars
<1>2. ASSUME NEW g \in Workers, NEW a \in Apps, Pass(g, a) PROVE Inv'
  BY <1>2 DEF Inv, Shape, Stored, Told, Pass, subVars, envVars
<1>3. ASSUME NEW g \in Workers, NEW a \in Apps, PassFails(g, a) PROVE Inv'
  BY <1>3 DEF Inv, Shape, Stored, Told, PassFails, subVars, envVars
<1>4. ASSUME NEW g \in Workers, Store(g) PROVE Inv'
  BY <1>4 DEF Inv, Shape, Stored, Told, Store, StoreAndLoop, subVars, envVars
<1>5. ASSUME NEW g \in Workers, Notify(g) PROVE Inv'
  <2> USE <1>5 DEF Notify, NotifyOf
  <2>1. UNCHANGED <<sub, listeners, serviceUrls>>
    BY DEF subVars
  <2>2. Shape' /\ Stored'
    BY <2>1 DEF Inv, Shape, Stored
  <2>3. ASSUME NEW s \in Services, sub'[s] \in {"watching", "done"}
        PROVE  serviceUrls'[s] \subseteq told'[s]
    BY <2>1, <2>3 DEF Inv, Stored
  <2> QED BY <2>2, <2>3 DEF Inv, Told
<1> QED BY <1>1, <1>2, <1>3, <1>4, <1>5 DEF OnEvents

\* The steps of Subscribe and UnSubscribe.
LEMMA SubscribeInv ==
  ASSUME Inv, NEW s \in Services,
         \/ Subscribe(s) \/ SubscribeMade(s) \/ SubscribeAdds(s) \/ SubscribeTells(s)
         \/ SubscribeWatches(s) \/ UnSubscribe(s)
  PROVE  Inv'
<1> USE DEF Inv, Shape, Stored, Told, lstnVars, envVars
<1>1. CASE Subscribe(s)
  BY <1>1 DEF Subscribe
<1>2. CASE SubscribeMade(s)
  BY <1>2 DEF SubscribeMade
<1>3. CASE SubscribeAdds(s)
  BY <1>3 DEF SubscribeAdds
<1>4. CASE SubscribeTells(s)
  BY <1>4 DEF SubscribeTells
<1>5. CASE SubscribeWatches(s)
  BY <1>5 DEF SubscribeWatches
<1>6. CASE UnSubscribe(s)
  BY <1>6, KeysDiffer DEF UnSubscribe
<1> QED BY <1>1, <1>2, <1>3, <1>4, <1>5, <1>6

\* Every step keeps the invariant.
LEMMA NextInv == ASSUME Inv, [Next]_vars PROVE Inv'
<1>1. ASSUME NEW x \in Instances, Change(x) PROVE Inv'
  BY <1>1 DEF Inv, Shape, Stored, Told, Change, lstnVars, subVars
<1>2. CASE UNCHANGED vars
  BY <1>2 DEF Inv, Shape, Stored, Told, vars, lstnVars, subVars
<1> QED BY <1>1, <1>2, EventInv, SubscribeInv DEF Next, Subscribes

\* A subscriber has been told of every URL of its service whenever no OnEvent is about
\* to notify, in whatever order OnEvent and AddListenerAndNotify have run, and however
\* many calls of OnEvent overlap.
THEOREM NoUrlSlips == Spec => []SubscriberIsTold
<1>1. Inv => SubscriberIsTold
  BY DEF Inv, Told, SubscriberIsTold
<1> QED BY <1>1, InitInv, NextInv, PTL DEF Spec

-----------------------------------------------------------------------------
(* DiscoveryInv: what the loop of OnEvent has put together.                *)

OfRev(r, I) == {x \in I : RevisionOf[x] = r}

AllURLs == Instances \X Services

\* What a job has in its hands, whoever has overtaken it.
Jobs ==
  [app : Apps \cup {"none"}, insts : SUBSET Instances, asOf : Nat, ok : BOOLEAN,
   left : SUBSET Apps, met : SUBSET Instances, urls : [Revisions -> SUBSET SUBSET AllURLs]]

Types ==
  /\ dep \in Deployments
  /\ nodes \subseteq Instances /\ pending \subseteq Apps /\ seen \subseteq Apps /\ queue \subseteq Apps
  /\ allInstances \in [Apps -> SUBSET Instances]
  /\ \A a \in Apps : allInstances[a] \subseteq Of(a, Instances)
  /\ \A a \in Apps \ seen : allInstances[a] = {}
  /\ serviceUrls \in [Services -> SUBSET AllURLs]
  /\ \A s \in Services : serviceUrls[s] \subseteq ToURLs(Offering(s, Instances))
  /\ at \in [Workers -> {"idle", "store", "pass", "notify"}]
  /\ job \in [Workers -> Jobs] /\ changes \in Nat
  /\ \A g \in Workers, r \in Revisions : \A U \in job[g].urls[r] : U \subseteq ToURLs(OfRev(r, Instances))
  /\ \A g \in Workers :
       at[g] = "store" => /\ job[g].app \in Apps /\ job[g].insts \subseteq Of(job[g].app, Instances)
                          /\ job[g].met = {} /\ job[g].urls = [r \in Revisions |-> {}]

\* The OnEvent that was the last to store its instances, while it goes on.
Leads(g) == at[g] \in {"pass", "notify"} /\ g \notin overtaken

\* The URLs of a revision, as far as the instances I go: none without an instance, and
\* all of them if they are of one application.
UrlsOK(urls, I) ==
  \A r \in Revisions :
    /\ urls[r] = {} <=> OfRev(r, I) = {}
    /\ (\A x, y \in OfRev(r, I) : AppOf[x] = AppOf[y]) =>
         urls[r] \subseteq {ToURLs(OfRev(r, I))}

\* It has met the instances of the applications it has visited, as they still are.
LoopInv(g) ==
  /\ job[g].met = UNION {allInstances[a] : a \in Apps \ job[g].left}
  /\ UrlsOK(job[g].urls, job[g].met)

\* Every service has the URLs of the instances I that offer it.
Match(urls, I) == \A s \in Services : Plain(s, I) => urls[s] = ToURLs(Offering(s, I))

\* Only one leads; what it has written, if nobody overtaken has written since, matches
\* what it has met; and when it is done, that is all there is.
WriteInv ==
  /\ \A g, h \in Workers : Leads(g) /\ Leads(h) => g = h
  /\ \A g \in Workers :
       Leads(g) => LoopInv(g) /\ (at[g] = "notify" /\ ~overlapped => Match(serviceUrls, job[g].met))
  /\ ~overlapped /\ ~broken /\ (\A g \in Workers : ~Leads(g)) => Match(serviceUrls, Known)

\* Fewer instances have fewer URLs.
LEMMA FewerURLs ==
  ASSUME NEW J \in SUBSET Instances, NEW I \in SUBSET J
  PROVE  ToURLs(I) \subseteq ToURLs(J) /\ ToURLs(J) \subseteq AllURLs
BY DEF ToURLs, AllURLs

\* The empty set of instances has no URLs.
LEMMA NoURLs == ToURLs({}) = {}
BY DEF ToURLs

\* The URLs after a pass that met the instances A of a further application.
LEMMA PassUrls ==
  ASSUME NEW I \in SUBSET Instances, NEW a \in Apps, NEW A \in SUBSET Of(a, Instances),
         \A x \in I : AppOf[x] # a,
         NEW old, UrlsOK(old, I), NEW new,
         \A r \in Revisions : /\ r \notin Revs(A) => new[r] = old[r]
                              /\ r \in Revs(A) => new[r] # {}
                              /\ r \in Revs(A) /\ old[r] = {} => new[r] = {ToURLs(OfRev(r, I \cup A))}
  PROVE  UrlsOK(new, I \cup A)
PROOF
  <1> SUFFICES ASSUME NEW r \in Revisions
               PROVE  /\ new[r] = {} <=> OfRev(r, I \cup A) = {}
                      /\ (\A x, y \in OfRev(r, I \cup A) : AppOf[x] = AppOf[y]) =>
                           new[r] \subseteq {ToURLs(OfRev(r, I \cup A))}
    BY DEF UrlsOK
  <1>0. /\ old[r] = {} <=> OfRev(r, I) = {}
        /\ (\A x, y \in OfRev(r, I) : AppOf[x] = AppOf[y]) => old[r] \subseteq {ToURLs(OfRev(r, I))}
    BY DEF UrlsOK
  <1>1. CASE r \notin Revs(A)
    <2>1. OfRev(r, I \cup A) = OfRev(r, I)  BY <1>1 DEF OfRev, Revs
    <2>2. new[r] = old[r]  BY <1>1
    <2> QED BY <1>0, <2>1, <2>2
  <1>2. CASE r \in Revs(A)
    <2>1. PICK x \in A : RevisionOf[x] = r  BY <1>2 DEF Revs
    <2>2. x \in OfRev(r, I \cup A) /\ AppOf[x] = a  BY <2>1 DEF OfRev, Of
    <2>3. new[r] # {}  BY <1>2
    <2>4. ASSUME \A y, z \in OfRev(r, I \cup A) : AppOf[y] = AppOf[z]
          PROVE  new[r] \subseteq {ToURLs(OfRev(r, I \cup A))}
      <3>1. OfRev(r, I) = {}
        <4>1. \A y \in OfRev(r, I) : y \in OfRev(r, I \cup A) /\ AppOf[y] # a  BY DEF OfRev
        <4> QED BY <2>2, <2>4, <4>1
      <3> QED BY <1>0, <1>2, <3>1
    <2> QED BY <2>2, <2>3, <2>4
  <1> QED BY <1>1, <1>2

\* What a service that is plain is given is what offers it.
LEMMA ChosenMatches ==
  ASSUME NEW I \in SUBSET Instances, NEW urls, UrlsOK(urls, I),
         NEW s \in Services, Plain(s, I), NEW u \in Choices(urls, s)
  PROVE  u = ToURLs(Offering(s, I))
PROOF
  <1> DEFINE all == UNION {urls[r] : r \in {q \in Revisions : s \in Offers[q]}}
  <1>0. (u = {} /\ all = {}) \/ u \in all  BY DEF Choices
  <1>1. ASSUME NEW r \in Revisions, s \in Offers[r], urls[r] # {}
        PROVE  OfRev(r, I) = Offering(s, I) /\ urls[r] \subseteq {ToURLs(Offering(s, I))}
    <2>1. PICK x \in I : RevisionOf[x] = r  BY <1>1 DEF UrlsOK, OfRev
    <2>2. x \in Offering(s, I)  BY <1>1, <2>1 DEF Offering
    <2>3. \A y \in Offering(s, I) : RevisionOf[y] = r /\ AppOf[y] = AppOf[x]
      BY <2>1, <2>2 DEF Plain
    <2>4. OfRev(r, I) = Offering(s, I)  BY <1>1, <2>3 DEF OfRev, Offering
    <2>5. \A y, z \in OfRev(r, I) : AppOf[y] = AppOf[z]  BY <2>3, <2>4
    <2> QED BY <2>4, <2>5 DEF UrlsOK
  <1>2. ASSUME u \in all PROVE u = ToURLs(Offering(s, I))
    <2>1. PICK r \in Revisions : s \in Offers[r] /\ u \in urls[r]  BY <1>2
    <2>2. urls[r] \subseteq {ToURLs(Offering(s, I))}  BY <1>1, <2>1
    <2> QED BY <2>1, <2>2
  <1>3. ASSUME all = {} PROVE Offering(s, I) = {}
    <2> SUFFICES ASSUME NEW x \in Offering(s, I) PROVE FALSE  OBVIOUS
    <2> DEFINE r == RevisionOf[x]
    <2>1. x \in I /\ r \in Revisions /\ s \in Offers[r]
      BY DiscoveryAssumption DEF Offering
    <2>2. x \in OfRev(r, I)  BY <2>1 DEF OfRev
    <2>3. urls[r] # {}  BY <2>1, <2>2 DEF UrlsOK
    <2> QED BY <1>3, <2>1, <2>3
  <1> QED BY <1>0, <1>2, <1>3, NoURLs

\* What a pass does to the variables of OnEvent.
LEMMA PassFacts ==
  ASSUME Types, NEW g \in Workers, NEW a \in Apps, Pass(g, a)
  PROVE  \E urls \in [Revisions -> SUBSET SUBSET AllURLs] :
           /\ \A r \in Revisions : urls[r] \in Urls(g, a, r)
           /\ serviceUrls' \in OneOfEach([s \in Services |-> Choices(urls, s)])
           /\ job' = [job EXCEPT ![g] = [@ EXCEPT !.left = job[g].left \ {a},
                                                  !.met = job[g].met \cup allInstances[a], !.urls = urls]]
PROOF
  <1>1. PICK urls \in OneOfEach([r \in Revisions |-> Urls(g, a, r)]) :
          /\ job' = [job EXCEPT ![g] = [@ EXCEPT !.left = job[g].left \ {a},
                                                 !.met = job[g].met \cup allInstances[a], !.urls = urls]]
          /\ serviceUrls' \in OneOfEach([s \in Services |-> Choices(urls, s)])
    BY DEF Pass
  <1>2. DOMAIN urls = Revisions /\ \A r \in Revisions : urls[r] \in Urls(g, a, r)
    BY <1>1 DEF OneOfEach
  <1>3. ASSUME NEW r \in Revisions PROVE urls[r] \in SUBSET SUBSET AllURLs
    <2>1. job[g].urls[r] \in SUBSET SUBSET AllURLs /\ job[g].met \cup allInstances[a] \subseteq Instances
      BY DEF Types, Jobs
    <2>2. ToURLs({x \in job[g].met \cup allInstances[a] : RevisionOf[x] = r}) \subseteq AllURLs
      BY <2>1, FewerURLs
    <2> DEFINE fresh == ToURLs({x \in job[g].met \cup allInstances[a] : RevisionOf[x] = r})
               old == job[g].urls[r]
    <2>3. urls[r] \in {old, {fresh}, old \cup {fresh}}
      BY <1>2 DEF Urls
    <2> HIDE DEF fresh, old
    <2>4. old \subseteq SUBSET AllURLs /\ fresh \in SUBSET AllURLs
      BY <2>1, <2>2 DEF fresh, old
    <2> QED BY <2>3, <2>4
  <1>4. urls \in [Revisions -> SUBSET SUBSET AllURLs]
    BY <1>1, <1>2, <1>3 DEF OneOfEach
  <1> QED BY <1>1, <1>2, <1>4

UrlMaps == [Revisions -> SUBSET SUBSET AllURLs]

\* A job whose loop has gone over one more application.
GoneOn(j, a, A, u) == [j EXCEPT !.left = j.left \ {a}, !.met = j.met \cup A, !.urls = u]

\* It is still a job.
LEMMA JobGoesOn ==
  ASSUME NEW j \in Jobs, NEW a \in Apps, NEW A \in SUBSET Instances,
         NEW u \in UrlMaps
  PROVE  GoneOn(j, a, A, u) \in Jobs
BY DEF Jobs, GoneOn, UrlMaps

\* A job whose loop has applications to visit is a job.
LEMMA JobStarts ==
  ASSUME NEW j \in Jobs, NEW L \in SUBSET Apps
  PROVE  LET k == [j EXCEPT !.left = L]
         IN  k \in Jobs /\ k.left = L /\ k.met = j.met /\ k.urls = j.urls
BY DEF Jobs

\* The loop of a worker that does not move stays as it is while the instances do.
LEMMA LoopKept ==
  ASSUME NEW h \in Workers, LoopInv(h), job'[h] = job[h], allInstances' = allInstances
  PROVE  LoopInv(h)'
BY DEF LoopInv

\* The initial state satisfies the invariant of the writes.
LEMMA InitWrites == Init => Types /\ WriteInv
PROOF
  <1> SUFFICES ASSUME Init PROVE Types /\ WriteInv  OBVIOUS
  <1> USE DiscoveryAssumption DEF Init
  <1>1. NoJob \in Jobs /\ \A r \in Revisions : NoJob.urls[r] = {}  BY DEF NoJob, Jobs
  <1>2. Types
    <2>1. nodes \subseteq Instances  OBVIOUS
    <2>2. job \in [Workers -> Jobs] /\ \A g \in Workers, r \in Revisions : job[g].urls[r] = {}
      BY <1>1
    <2> QED BY <2>1, <2>2 DEF Types
  <1>3. \A g \in Workers : ~Leads(g)  BY DEF Leads
  <1>4. \A s \in Services : serviceUrls[s] = {} /\ ToURLs(Offering(s, Known)) = {}
    BY NoURLs DEF Offering, Known
  <1> QED BY <1>2, <1>3, <1>4 DEF WriteInv, Match

\* A step that leaves what OnEvent works on alone.
LEMMA QuietWrites ==
  ASSUME Types, WriteInv, UNCHANGED <<allInstances, serviceUrls, overtaken, overlapped, broken>>,
         \A g \in Workers : Leads(g)' = Leads(g) /\ (Leads(g) => at'[g] = at[g] /\ job'[g] = job[g])
  PROVE  WriteInv'
PROOF
  <1>1. Known' = Known  BY DEF Known
  <1>2. \A g \in Workers : Leads(g) => LoopInv(g)'
    BY DEF WriteInv, LoopInv
  <1> QED BY <1>1, <1>2 DEF WriteInv

\* Subscribe and the registry's changes.
LEMMA OutsideWrites ==
  ASSUME Types, WriteInv,
         \/ \E x \in Instances : Change(x)
         \/ \E s \in Services :
              \/ Subscribe(s) \/ SubscribeMade(s) \/ SubscribeAdds(s) \/ SubscribeTells(s)
              \/ SubscribeWatches(s) \/ UnSubscribe(s)
         \/ UNCHANGED vars
  PROVE  Types' /\ WriteInv'
PROOF
  <1>1. UNCHANGED <<dep, allInstances, seen, serviceUrls, at, job, overtaken, overlapped, broken>>
    BY DEF Change, Subscribe, SubscribeMade, SubscribeAdds, SubscribeTells, SubscribeWatches,
           UnSubscribe, vars, lstnVars, envVars, histVars
  <1>2. nodes' \subseteq Instances /\ pending' \subseteq Apps /\ queue' \subseteq Apps /\ changes' \in Nat
    <2> USE DiscoveryAssumption DEF Types
    <2>1. CASE \E x \in Instances : Change(x)  BY <2>1 DEF Change, subVars
    <2>2. CASE \E s \in Services : SubscribeWatches(s)  BY <2>2 DEF SubscribeWatches
    <2>3. CASE \E s \in Services : Subscribe(s) \/ SubscribeMade(s) \/ SubscribeAdds(s)
                                     \/ SubscribeTells(s) \/ UnSubscribe(s)
      BY <2>3 DEF Subscribe, SubscribeMade, SubscribeAdds, SubscribeTells, UnSubscribe, envVars
    <2>4. CASE UNCHANGED vars  BY <2>4 DEF vars, envVars, subVars
    <2> QED BY <2>1, <2>2, <2>3, <2>4
  <1>3. Types'  BY <1>1, <1>2 DEF Types
  <1>4. WriteInv'  BY <1>1, QuietWrites DEF Leads
  <1> QED BY <1>3, <1>4

\* An OnEvent reads the instances of an application.
LEMMA GetWrites ==
  ASSUME Types, WriteInv, NEW g \in Workers, NEW a \in Apps, GetInstances(g, a)
  PROVE  Types' /\ WriteInv'
PROOF
  <1>1. PICK ok \in BOOLEAN :
          job' = [job EXCEPT ![g] = [NoJob EXCEPT !.app = a, !.asOf = changes, !.ok = ok,
                                                  !.insts = IF ok THEN Of(a, nodes) ELSE {}]]
    BY DEF GetInstances
  <1>2. /\ UNCHANGED <<dep, allInstances, seen, serviceUrls, overtaken, overlapped, broken, nodes,
                       changes>>
        /\ at' = [at EXCEPT ![g] = "store"] /\ at[g] = "idle"
        /\ pending' \subseteq Apps /\ queue' \subseteq Apps
    BY DEF GetInstances, Starts, lstnVars, Types
  <1> DEFINE ins == IF ok THEN Of(a, nodes) ELSE {}
             j == [NoJob EXCEPT !.app = a, !.asOf = changes, !.ok = ok, !.insts = ins]
  <1>3. ins \subseteq Of(a, Instances) /\ ins \subseteq Instances  BY DEF Types, Of
  <1>4. /\ j \in Jobs /\ j.app = a /\ j.insts = ins /\ j.met = {}
        /\ j.urls = [r \in Revisions |-> {}]
    <2> HIDE DEF ins
    <2> QED BY <1>3 DEF NoJob, Jobs, Types
  <1>5. job' = [job EXCEPT ![g] = j]  BY <1>1
  <1> HIDE DEF ins, j
  <1>6. job' \in [Workers -> Jobs] /\ job'[g] = j /\ \A h \in Workers \ {g} : job'[h] = job[h]
    BY <1>4, <1>5 DEF Types
  <1>7. /\ at' \in [Workers -> {"idle", "store", "pass", "notify"}]
        /\ at'[g] = "store" /\ \A h \in Workers \ {g} : at'[h] = at[h]
    BY <1>2 DEF Types
  <1>8. \A h \in Workers, r \in Revisions : \A U \in job'[h].urls[r] : U \subseteq ToURLs(OfRev(r, Instances))
    BY <1>4, <1>6 DEF Types
  <1>9. \A h \in Workers :
          at'[h] = "store" => /\ job'[h].app \in Apps /\ job'[h].insts \subseteq Of(job'[h].app, Instances)
                              /\ job'[h].met = {} /\ job'[h].urls = [r \in Revisions |-> {}]
    BY <1>3, <1>4, <1>6, <1>7 DEF Types
  <1>10. Types'  BY <1>2, <1>6, <1>7, <1>8, <1>9 DEF Types
  <1>11. WriteInv'  BY <1>2, <1>6, <1>7, QuietWrites DEF Leads
  <1> QED BY <1>10, <1>11

\* Whoever stores its instances leads, and has met nobody yet.
LEMMA StoreWrites ==
  ASSUME Types, WriteInv, NEW g \in Workers, Store(g)
  PROVE  Types' /\ WriteInv'
PROOF
  <1> DEFINE a == job[g].app
  <1>1. /\ UNCHANGED <<dep, nodes, pending, queue, changes, serviceUrls, overlapped, broken>>
        /\ at[g] = "store" /\ at' = [at EXCEPT ![g] = "pass"]
        /\ allInstances' = [allInstances EXCEPT ![a] = job[g].insts]
        /\ seen' = seen \cup {a} /\ job' = [job EXCEPT ![g] = [@ EXCEPT !.left = seen \cup {a}]]
        /\ overtaken' = {h \in Workers \ {g} : h \in overtaken \/ at[h] \in {"pass", "notify"}}
    BY DEF Store, StoreAndLoop, subVars, envVars
  <1>2. a \in Apps /\ job[g].insts \subseteq Of(a, Instances) /\ seen \cup {a} \subseteq Apps
        /\ job[g].met = {} /\ job[g].urls = [r \in Revisions |-> {}]
    BY <1>1 DEF Types
  <1> HIDE DEF a
  <1>3. /\ at' \in [Workers -> {"idle", "store", "pass", "notify"}]
        /\ at'[g] = "pass" /\ \A h \in Workers \ {g} : at'[h] = at[h]
    BY <1>1 DEF Types
  <1>4. /\ job' \in [Workers -> Jobs] /\ \A h \in Workers \ {g} : job'[h] = job[h]
        /\ job'[g].left = seen' /\ job'[g].met = {} /\ job'[g].urls = job[g].urls
    <2> DEFINE k == [job[g] EXCEPT !.left = seen \cup {a}]
    <2>1. job \in [Workers -> Jobs] /\ job[g] \in Jobs  BY DEF Types
    <2>2. k \in Jobs /\ k.left = seen \cup {a} /\ k.met = job[g].met /\ k.urls = job[g].urls
      BY <1>2, <2>1, JobStarts
    <2>3. job' = [job EXCEPT ![g] = k]  BY <1>1
    <2> HIDE DEF k
    <2> QED BY <1>1, <1>2, <2>1, <2>2, <2>3
  <1>5. /\ allInstances' \in [Apps -> SUBSET Instances]
        /\ \A b \in Apps : allInstances'[b] \subseteq Of(b, Instances)
        /\ \A b \in Apps \ seen' : allInstances'[b] = {}
    BY <1>1, <1>2 DEF Types, Of
  <1>6. Types'
    <2>1. \A h \in Workers, r \in Revisions : \A U \in job'[h].urls[r] : U \subseteq ToURLs(OfRev(r, Instances))
      BY <1>4 DEF Types
    <2>2. \A h \in Workers :
            at'[h] = "store" => /\ job'[h].app \in Apps /\ job'[h].insts \subseteq Of(job'[h].app, Instances)
                                /\ job'[h].met = {} /\ job'[h].urls = [r \in Revisions |-> {}]
      BY <1>3, <1>4 DEF Types
    <2>3. seen' \subseteq Apps  BY <1>1, <1>2
    <2> QED BY <1>1, <1>3, <1>4, <1>5, <2>1, <2>2, <2>3 DEF Types
  <1>7. Leads(g)' /\ \A h \in Workers \ {g} : ~Leads(h)'
    BY <1>1, <1>3 DEF Leads
  <1>8. LoopInv(g)'
    <2>1. UNION {allInstances'[b] : b \in Apps \ job'[g].left} = {}  BY <1>4, <1>5
    <2>2. UrlsOK(job'[g].urls, {})  BY <1>2, <1>4 DEF UrlsOK, OfRev
    <2> QED BY <1>4, <2>1, <2>2 DEF LoopInv
  <1>9. WriteInv'  BY <1>3, <1>7, <1>8 DEF WriteInv
  <1> QED BY <1>6, <1>9

\* A pass of the one that leads writes what it has met; anyone else's is marked.
LEMMA PassWrites ==
  ASSUME Types, WriteInv, NEW g \in Workers, NEW a \in Apps, Pass(g, a)
  PROVE  Types' /\ WriteInv'
PROOF
  <1> DEFINE I == job[g].met
             A == allInstances[a]
  <1>1. PICK urls \in [Revisions -> SUBSET SUBSET AllURLs] :
          /\ \A r \in Revisions : urls[r] \in Urls(g, a, r)
          /\ serviceUrls' \in OneOfEach([s \in Services |-> Choices(urls, s)])
          /\ job' = [job EXCEPT ![g] = [@ EXCEPT !.left = job[g].left \ {a},
                                                 !.met = job[g].met \cup allInstances[a], !.urls = urls]]
    BY PassFacts
  <1>2. /\ UNCHANGED <<dep, nodes, pending, queue, changes, allInstances, seen, overtaken, broken>>
        /\ at[g] = "pass" /\ a \in job[g].left /\ at' = [at EXCEPT ![g] = "notify"]
        /\ overlapped' = (g \in overtaken)
    BY DEF Pass, subVars, envVars
  <1>3. /\ at' \in [Workers -> {"idle", "store", "pass", "notify"}]
        /\ at'[g] = "notify" /\ \A h \in Workers \ {g} : at'[h] = at[h]
    BY <1>2 DEF Types
  <1>4. /\ I \subseteq Instances /\ A \subseteq Of(a, Instances) /\ A \subseteq Instances
        /\ job[g] \in Jobs
    BY DEF Types, Jobs
  <1>5. /\ job' \in [Workers -> Jobs] /\ \A h \in Workers \ {g} : job'[h] = job[h]
        /\ job'[g].left = job[g].left \ {a} /\ job'[g].met = I \cup A /\ job'[g].urls = urls
    <2> DEFINE k == GoneOn(job[g], a, allInstances[a], urls)
    <2>1. job' = [job EXCEPT ![g] = k]  BY <1>1 DEF GoneOn
    <2>2. job \in [Workers -> Jobs] /\ allInstances[a] \in SUBSET Instances  BY <1>4 DEF Types
    <2>3. k \in Jobs /\ k.left = job[g].left \ {a} /\ k.met = I \cup A /\ k.urls = urls
      <3> DEFINE J == job[g]
                 M == allInstances[a]
      <3>1. J \in Jobs /\ M \in SUBSET Instances /\ urls \in UrlMaps  BY <1>4, <2>2 DEF UrlMaps
      <3> HIDE DEF J, M
      <3>2. GoneOn(J, a, M, urls) \in Jobs  BY <3>1, JobGoesOn
      <3>3. GoneOn(J, a, M, urls).left = J.left \ {a}  BY ONLY <3>1 DEF GoneOn, Jobs
      <3>4. GoneOn(J, a, M, urls).met = J.met \cup M  BY ONLY <3>1 DEF GoneOn, Jobs
      <3>5. GoneOn(J, a, M, urls).urls = urls  BY ONLY <3>1 DEF GoneOn, Jobs
      <3> QED BY <3>2, <3>3, <3>4, <3>5 DEF J, M
    <2> HIDE DEF k
    <2> QED BY <2>1, <2>2, <2>3
  <1>6. /\ \A s \in Services : serviceUrls'[s] \in Choices(urls, s)
        /\ serviceUrls' = [s \in Services |-> serviceUrls'[s]]
    BY <1>1 DEF OneOfEach
  <1>7. ASSUME NEW r \in Revisions
        PROVE  /\ r \notin Revs(A) => urls[r] = job[g].urls[r]
               /\ r \in Revs(A) => urls[r] # {}
               /\ r \in Revs(A) /\ job[g].urls[r] = {} => urls[r] = {ToURLs(OfRev(r, I \cup A))}
               /\ \A U \in urls[r] : U \subseteq ToURLs(OfRev(r, Instances))
    <2>1. urls[r] \in Urls(g, a, r)  BY <1>1
    <2>2. /\ \A U \in job[g].urls[r] : U \subseteq ToURLs(OfRev(r, Instances))
          /\ ToURLs({x \in I \cup A : RevisionOf[x] = r}) \subseteq ToURLs(OfRev(r, Instances))
      BY <1>4, FewerURLs DEF Types, OfRev
    <2>3. CASE r \notin Revs(A)  BY <2>1, <2>2, <2>3 DEF Urls
    <2>4. CASE r \in Revs(A) /\ job[g].urls[r] = {}  BY <2>1, <2>2, <2>4 DEF Urls, OfRev
    <2>5. CASE r \in Revs(A) /\ job[g].urls[r] # {}
      <3>1. urls[r] \in {job[g].urls[r], 
                       job[g].urls[r] \cup {ToURLs({x \in I \cup A : RevisionOf[x] = r})}}
        BY <2>1, <2>5 DEF Urls
      <3> QED BY <2>2, <2>5, <3>1
    <2> QED BY <2>3, <2>4, <2>5
  <1>8. ASSUME NEW s \in Services PROVE serviceUrls'[s] \subseteq ToURLs(Offering(s, Instances))
    <2>1. \A r \in Revisions :
            s \in Offers[r] => ToURLs(OfRev(r, Instances)) \subseteq ToURLs(Offering(s, Instances))
      BY FewerURLs DEF OfRev, Offering
    <2>2. serviceUrls'[s] = {} \/ \E r \in Revisions : s \in Offers[r] /\ serviceUrls'[s] \in urls[r]
      BY <1>6 DEF Choices
    <2> QED BY <1>7, <2>1, <2>2
  <1>9. Types'
    <2>1. \A h \in Workers, r \in Revisions : \A U \in job'[h].urls[r] : U \subseteq ToURLs(OfRev(r, Instances))
      BY <1>5, <1>7 DEF Types
    <2>2. \A h \in Workers :
            at'[h] = "store" => /\ job'[h].app \in Apps /\ job'[h].insts \subseteq Of(job'[h].app, Instances)
                                /\ job'[h].met = {} /\ job'[h].urls = [r \in Revisions |-> {}]
      BY <1>3, <1>5 DEF Types
    <2>3. serviceUrls' \in [Services -> SUBSET AllURLs]
      <3>1. \A s \in Services : ToURLs(Offering(s, Instances)) \subseteq AllURLs
        BY FewerURLs DEF Offering
      <3> QED BY <1>6, <1>8, <3>1
    <2> QED BY <1>2, <1>3, <1>5, <1>8, <2>1, <2>2, <2>3 DEF Types
  <1>10. \A h \in Workers : Leads(h)' <=> Leads(h)
    <2>1. Leads(g)' <=> Leads(g)  BY <1>2, <1>3 DEF Leads
    <2>2. \A h \in Workers \ {g} : Leads(h)' <=> Leads(h)  BY <1>2, <1>3 DEF Leads
    <2> QED BY <2>1, <2>2
  <1>11. \A h \in Workers \ {g} : LoopInv(h) => LoopInv(h)'
    BY <1>2, <1>5, LoopKept
  <1>12. CASE Leads(g)
    <2>1. LoopInv(g) /\ \A h \in Workers : Leads(h) => h = g  BY <1>12 DEF WriteInv
    <2>2. \A x \in I : AppOf[x] # a
      <3>1. \A x \in I : \E b \in Apps \ job[g].left : x \in allInstances[b]  BY <2>1 DEF LoopInv
      <3> QED BY <1>2, <3>1 DEF Types, Of
    <2>3. UrlsOK(urls, I \cup A)
      BY <1>4, <1>7, <2>1, <2>2, PassUrls DEF LoopInv
    <2>4. LoopInv(g)'
      <3>1. I \cup A = UNION {allInstances[b] : b \in Apps \ (job[g].left \ {a})}
        BY <2>1 DEF LoopInv
      <3> QED BY <1>2, <1>5, <2>3, <3>1 DEF LoopInv
    <2>5. Match(serviceUrls', I \cup A)
      <3> SUFFICES ASSUME NEW s \in Services, Plain(s, I \cup A)
                   PROVE  serviceUrls'[s] = ToURLs(Offering(s, I \cup A))
        BY DEF Match
      <3>1. I \cup A \in SUBSET Instances /\ serviceUrls'[s] \in Choices(urls, s)  BY <1>4, <1>6
      <3> QED BY <2>3, <3>1, ChosenMatches
    <2>6. Match(serviceUrls, job[g].met)'  BY <1>5, <2>5 DEF Match, Plain, Offering, ToURLs
    <2>7. WriteInv'  BY <1>10, <1>12, <2>1, <2>4, <2>6 DEF WriteInv
    <2> QED BY <1>9, <2>7
  <1>13. CASE ~Leads(g)
    <2>1. overlapped'  BY <1>2, <1>13 DEF Leads
    <2>2. WriteInv'  BY <1>10, <1>11, <1>13, <2>1 DEF WriteInv
    <2> QED BY <1>9, <2>2
  <1> QED BY <1>12, <1>13

\* An OnEvent ends, with an error or after its last loop over the listeners.
LEMMA EndTypes ==
  ASSUME Types, NEW g \in Workers, at' = [at EXCEPT ![g] = "idle"], job' = [job EXCEPT ![g] = NoJob],
         UNCHANGED <<dep, nodes, pending, queue, changes, allInstances, seen, serviceUrls>>
  PROVE  /\ Types' /\ at'[g] = "idle"
         /\ \A h \in Workers \ {g} : at'[h] = at[h] /\ job'[h] = job[h]
PROOF
  <1>1. NoJob \in Jobs /\ \A r \in Revisions : NoJob.urls[r] = {}  BY DEF NoJob, Jobs
  <1>2. /\ job' \in [Workers -> Jobs] /\ job'[g] = NoJob
        /\ \A h \in Workers \ {g} : job'[h] = job[h]
    BY <1>1 DEF Types
  <1>3. /\ at' \in [Workers -> {"idle", "store", "pass", "notify"}]
        /\ at'[g] = "idle" /\ \A h \in Workers \ {g} : at'[h] = at[h]
    BY DEF Types
  <1>4. \A h \in Workers, r \in Revisions : \A U \in job'[h].urls[r] : U \subseteq ToURLs(OfRev(r, Instances))
    BY <1>1, <1>2 DEF Types
  <1>5. \A h \in Workers :
          at'[h] = "store" => /\ job'[h].app \in Apps /\ job'[h].insts \subseteq Of(job'[h].app, Instances)
                              /\ job'[h].met = {} /\ job'[h].urls = [r \in Revisions |-> {}]
    BY <1>2, <1>3 DEF Types
  <1>6. Types'  BY <1>2, <1>3, <1>4, <1>5 DEF Types
  <1> QED BY <1>2, <1>3, <1>6

\* The metadata call fails, and OnEvent ends.
LEMMA FailWrites ==
  ASSUME Types, WriteInv, NEW g \in Workers, NEW a \in Apps, PassFails(g, a)
  PROVE  Types' /\ WriteInv'
PROOF
  <1>1. /\ UNCHANGED <<dep, nodes, pending, queue, changes, allInstances, seen, serviceUrls, overlapped>>
        /\ at' = [at EXCEPT ![g] = "idle"] /\ job' = [job EXCEPT ![g] = NoJob]
        /\ broken' = TRUE /\ overtaken' = overtaken \ {g}
    BY DEF PassFails, subVars, envVars
  <1>2. /\ Types' /\ at'[g] = "idle"
        /\ \A h \in Workers \ {g} : at'[h] = at[h] /\ job'[h] = job[h]
    BY <1>1, EndTypes
  <1>3. ~Leads(g)' /\ \A h \in Workers \ {g} : Leads(h)' = Leads(h)  BY <1>1, <1>2 DEF Leads
  <1>4. \A h \in Workers \ {g} : LoopInv(h) => LoopInv(h)'  BY <1>1, <1>2 DEF LoopInv
  <1>5. WriteInv'  BY <1>1, <1>2, <1>3, <1>4 DEF WriteInv
  <1> QED BY <1>2, <1>5

\* The one that leads has met everyone when its loop is over.
LEMMA NotifyWrites ==
  ASSUME Types, WriteInv, NEW g \in Workers, Notify(g)
  PROVE  Types' /\ WriteInv'
PROOF
  <1>1. /\ UNCHANGED <<dep, nodes, pending, queue, changes, allInstances, seen, serviceUrls, overlapped>>
        /\ at[g] = "notify"
    BY DEF Notify, NotifyOf, subVars, envVars
  <1>2. CASE job[g].left # {}
    <2>1. at' = [at EXCEPT ![g] = "pass"] /\ UNCHANGED <<job, overtaken>> /\ (broken' <=> broken)
      BY <1>2 DEF Notify, NotifyOf
    <2>2. /\ at' \in [Workers -> {"idle", "store", "pass", "notify"}]
          /\ at'[g] = "pass" /\ \A h \in Workers \ {g} : at'[h] = at[h]
      BY <2>1 DEF Types
    <2>3. \A h \in Workers : Leads(h)' = Leads(h)  BY <1>1, <2>1, <2>2 DEF Leads
    <2>4. \A h \in Workers : LoopInv(h)' = LoopInv(h)  BY <1>1, <2>1 DEF LoopInv
    <2>5. Types'  BY <1>1, <2>1, <2>2 DEF Types
    <2>6. Known' = Known  BY <1>1 DEF Known
    <2>7. WriteInv'  BY <1>1, <2>1, <2>2, <2>3, <2>4, <2>6 DEF WriteInv
    <2> QED BY <2>5, <2>7
  <1>3. CASE job[g].left = {}
    <2>1. /\ at' = [at EXCEPT ![g] = "idle"] /\ job' = [job EXCEPT ![g] = NoJob]
          /\ overtaken' = overtaken \ {g} /\ broken' = (broken /\ g \in overtaken)
      BY <1>3 DEF Notify, NotifyOf
    <2>2. /\ Types' /\ at'[g] = "idle"
          /\ \A h \in Workers \ {g} : at'[h] = at[h] /\ job'[h] = job[h]
      BY <1>1, <2>1, EndTypes
    <2>3. ~Leads(g)' /\ \A h \in Workers \ {g} : Leads(h)' = Leads(h)  BY <2>1, <2>2 DEF Leads
    <2>4. \A h \in Workers \ {g} : LoopInv(h) => LoopInv(h)'  BY <1>1, <2>2 DEF LoopInv
    <2>5. Known' = Known  BY <1>1 DEF Known
    <2>6. CASE Leads(g)
      <3>1. job[g].met = Known  BY <1>3, <2>6 DEF WriteInv, LoopInv, Known
      <3>2. ~overlapped => Match(serviceUrls, Known)  BY <1>1, <2>6, <3>1 DEF WriteInv
      <3>3. \A h \in Workers : ~Leads(h)'  BY <2>3, <2>6 DEF WriteInv
      <3>4. WriteInv'  BY <1>1, <2>5, <3>2, <3>3 DEF WriteInv
      <3> QED BY <2>2, <3>4
    <2>7. CASE ~Leads(g)
      <3>1. g \in overtaken  BY <1>1, <2>7 DEF Leads
      <3>2. broken' => broken  BY <2>1
      <3>3. ~broken' => ~broken  BY <2>1, <3>1
      <3>4. WriteInv'  BY <1>1, <2>2, <2>3, <2>4, <2>5, <2>7, <3>2, <3>3 DEF WriteInv
      <3> QED BY <2>2, <3>4
    <2> QED BY <2>6, <2>7
  <1> QED BY <1>2, <1>3

\* Every step keeps the invariant of the writes.
LEMMA NextWrites == ASSUME Types, WriteInv, [Next]_vars PROVE Types' /\ WriteInv'
PROOF
  <1>1. CASE OnEvents
    BY <1>1, GetWrites, StoreWrites, PassWrites, FailWrites, NotifyWrites DEF OnEvents
  <1>2. CASE Subscribes  BY <1>2, OutsideWrites DEF Subscribes
  <1> QED BY <1>1, <1>2, OutsideWrites DEF Next

\* However many calls of OnEvent overlap and whatever applications, revisions and
\* services there are: when all is quiet, a service has exactly the URLs of those that
\* offer it, unless the last to write was overtaken, a call has failed since, or the
\* instances hide one another behind one pointer.
THEOREM UrlsMatchInstances == Spec => []DiscoveryInv
PROOF
  <1>1. Types /\ WriteInv => DiscoveryInv
    <2> SUFFICES ASSUME Types, WriteInv PROVE DiscoveryInv  OBVIOUS
    <2>1. Idle => \A g \in Workers : ~Leads(g)  BY DEF Idle, Leads
    <2>2. (Idle /\ ~overlapped /\ ~broken) => Match(serviceUrls, Known)  BY <2>1 DEF WriteInv
    <2> QED BY <2>2 DEF DiscoveryInv, Types, Match
  <1>2. Types /\ WriteInv /\ [Next]_vars => (Types /\ WriteInv)'  BY NextWrites
  <1> QED BY <1>1, <1>2, InitWrites, PTL DEF Spec

-----------------------------------------------------------------------------
(* MetadataReport, to which the discovery publishes: its specification as  *)
(* an instance, with constants and variables of its own.                   *)

CONSTANTS Ids, RetryLimit, NonFailTimes, MaxErrors, MaxPanics, MaxDays
VARIABLES
  sync, published, all, failed, stored, logged, tasks, reportJob, started, cleared,
  retryCounter, errors, panics, days

Report == INSTANCE MetadataReport WITH job <- reportJob

\* Tasks are counted by who runs them, definition and stage.
Counts == [Report!Callers -> [Ids -> [Report!Stages -> Nat]]]

\* The types of the variables.
ReportTypes ==
  /\ published \subseteq Ids
  /\ tasks \in Counts
  /\ reportJob \in [Report!Jobs -> [at : {"idle", "lock", "loop"}, left : SUBSET Ids]]
  /\ started \in BOOLEAN /\ sync \in BOOLEAN

\* A task is at a published definition, which is in the map once it is past its first
\* stage; and so is what a job has yet to visit.
AtPublished ==
  /\ \A c \in Report!Callers, d \in Ids, s \in Report!Stages :
       tasks[c][d][s] > 0 => d \in published /\ (s # "all" => d \in all)
  /\ \A j \in Report!Jobs : reportJob[j].left \subseteq all

\* The inductive invariant.
ReportInv == ReportTypes /\ AtPublished /\ Report!NothingLost

\* What a step does to the tasks: those of d at the stage s become fewer, all others
\* do not, and there are new ones only of d, at the stage t.
Shift(d, s, t) ==
  /\ tasks' \in Counts
  /\ \A b \in Report!Callers, e \in Ids, r \in Report!Stages :
       /\ tasks[b][e][r] > 0 /\ ~(e = d /\ r = s) => tasks'[b][e][r] > 0
       /\ tasks'[b][e][r] > 0 => tasks[b][e][r] > 0 \/ (e = d /\ r = t)

\* One task more.
Plus(f, c, d, s) == [f EXCEPT ![c][d][s] = @ + 1]

\* One counter differs, by k.
Differs(f, g, c, d, s, k) ==
  /\ g \in Counts
  /\ \A b \in Report!Callers, e \in Ids, r \in Report!Stages :
       g[b][e][r] = IF b = c /\ e = d /\ r = s THEN f[b][e][r] + k ELSE f[b][e][r]

\* The two updates of a counter.
LEMMA Decreased ==
  ASSUME NEW f \in Counts, NEW c \in Report!Callers, NEW d \in Ids, NEW s \in Report!Stages,
         f[c][d][s] > 0
  PROVE  Differs(f, [f EXCEPT ![c][d][s] = @ - 1], c, d, s, -1)
BY DEF Counts, Differs

\* One more task at a stage is one more in its counter.
LEMMA Increased ==
  ASSUME NEW f \in Counts, NEW c \in Report!Callers, NEW d \in Ids, NEW s \in Report!Stages
  PROVE  Differs(f, Plus(f, c, d, s), c, d, s, 1)
BY DEF Counts, Differs, Plus

\* A task that moves to the next stage takes its count along.
LEMMA MovedShifts ==
  ASSUME ReportTypes, NEW c \in Report!Callers, NEW d \in Ids, NEW s \in Report!Stages,
         NEW t \in Report!Stages,
         s # t, tasks[c][d][s] > 0, tasks' = Report!Moved(c, d, s, t)
  PROVE  Shift(d, s, t) /\ tasks'[c][d][t] > 0
PROOF
  <1> DEFINE f == [tasks EXCEPT ![c][d][s] = @ - 1]
  <1>1. tasks \in Counts  BY DEF ReportTypes
  <1>2. Differs(tasks, f, c, d, s, -1)
    BY <1>1, Decreased
  <1>3. tasks' = Plus(f, c, d, t)  BY <1>1 DEF Report!Moved, Plus
  <1> HIDE DEF f
  <1>4. Differs(f, tasks', c, d, t, 1)
    <2>1. f \in Counts  BY <1>2 DEF Differs
    <2> QED BY <1>3, <2>1, Increased
  <1>5. \A b \in Report!Callers, e \in Ids, r \in Report!Stages : f[b][e][r] \in Nat
        /\ tasks[b][e][r] \in Nat
    BY <1>1, <1>2 DEF Counts, Differs
  <1>6. tasks'[c][d][t] > 0  BY <1>4, <1>5 DEF Differs
  <1>7. ASSUME NEW b \in Report!Callers, NEW e \in Ids, NEW r \in Report!Stages
        PROVE  /\ tasks[b][e][r] > 0 /\ ~(e = d /\ r = s) => tasks'[b][e][r] > 0
               /\ tasks'[b][e][r] > 0 => tasks[b][e][r] > 0 \/ (e = d /\ r = t)
    BY <1>2, <1>4, <1>5 DEF Differs
  <1> QED BY <1>4, <1>6, <1>7 DEF Shift, Differs

\* The same for a task that ends, which may start a goroutine at the first stage.
LEMMA DoneShifts ==
  ASSUME ReportTypes, NEW c \in Report!Callers, NEW d \in Ids, NEW s \in Report!Stages,
         tasks[c][d][s] > 0, tasks' = Report!Done(c, d, s), s # "all"
  PROVE  Shift(d, s, "all")
PROOF
  <1> DEFINE f == [tasks EXCEPT ![c][d][s] = @ - 1]
  <1>1. tasks \in Counts /\ "all" \in Report!Stages /\ "go" \in Report!Callers
    BY DEF ReportTypes, Report!Stages, Report!Callers
  <1>2. Differs(tasks, f, c, d, s, -1)
    BY <1>1, Decreased
  <1>3. tasks' = f \/ tasks' = Plus(f, "go", d, "all")  BY <1>1 DEF Report!Done, Plus
  <1> HIDE DEF f
  <1>4. \A b \in Report!Callers, e \in Ids, r \in Report!Stages : f[b][e][r] \in Nat
        /\ tasks[b][e][r] \in Nat
    BY <1>1, <1>2 DEF Counts, Differs
  <1>5. CASE tasks' = f  BY <1>2, <1>4, <1>5 DEF Shift, Differs
  <1>6. CASE tasks' = Plus(f, "go", d, "all")
    <2>1. Differs(f, tasks', "go", d, "all", 1)
      <3>1. f \in Counts  BY <1>2 DEF Differs
      <3> QED BY <1>1, <1>6, <3>1, Increased
    <2>2. ASSUME NEW b \in Report!Callers, NEW e \in Ids, NEW r \in Report!Stages
          PROVE  /\ tasks[b][e][r] > 0 /\ ~(e = d /\ r = s) => tasks'[b][e][r] > 0
                 /\ tasks'[b][e][r] > 0 => tasks[b][e][r] > 0 \/ (e = d /\ r = "all")
      BY <1>2, <1>4, <2>1 DEF Differs
    <2> QED BY <2>1, <2>2 DEF Shift, Differs
  <1> QED BY <1>3, <1>5, <1>6

\* A task is added, and none is taken away.
LEMMA StoresShifts ==
  ASSUME ReportTypes, NEW c \in Report!Callers, NEW d \in Ids, Report!Stores(c, d)
  PROVE  /\ Shift(d, "none", "all")
         /\ \E b \in Report!Callers : tasks'[b][d]["all"] > 0
PROOF
  <1>1. tasks \in Counts /\ "all" \in Report!Stages /\ "go" \in Report!Callers
        /\ "none" \notin Report!Stages
    BY DEF ReportTypes, Report!Stages, Report!Callers
  <1>2. PICK a \in Report!Callers : tasks' = Plus(tasks, a, d, "all")
    BY <1>1 DEF Report!Stores, Plus
  <1>3. Differs(tasks, tasks', a, d, "all", 1)
    BY <1>1, <1>2, Increased
  <1>4. \A b \in Report!Callers, e \in Ids, r \in Report!Stages : tasks[b][e][r] \in Nat
    BY <1>1 DEF Counts
  <1>5. tasks'[a][d]["all"] > 0  BY <1>1, <1>3, <1>4 DEF Differs
  <1>6. ASSUME NEW b \in Report!Callers, NEW e \in Ids, NEW r \in Report!Stages
        PROVE  /\ tasks[b][e][r] > 0 => tasks'[b][e][r] > 0
               /\ tasks'[b][e][r] > 0 => tasks[b][e][r] > 0 \/ (e = d /\ r = "all")
    BY <1>3, <1>4 DEF Differs
  <1> QED BY <1>1, <1>3, <1>5, <1>6 DEF Shift, Differs

\* What a step leaves of the invariant, apart from the job: d is the definition it is at.
LEMMA ShiftKeeps ==
  ASSUME ReportInv, NEW d \in Ids, NEW s, NEW t \in Report!Stages, Shift(d, s, t),
         published \subseteq published', published' \subseteq Ids,
         all \subseteq all', all' \subseteq published',
         stored \cup logged \subseteq stored' \cup logged', stored' \cup logged' \subseteq all',
         failed' \subseteq all', \A e \in failed : e # d => e \in failed',
         d \in published', published' \subseteq published \cup {d}, t # "all" => d \in all',
         \/ d \in stored' \cup logged' \cup failed'
         \/ \E c \in Report!Callers, r \in Report!Stages : tasks'[c][d][r] > 0
  PROVE  /\ failed' \subseteq all' /\ all' \subseteq published'
         /\ stored' \cup logged' \subseteq all' /\ tasks' \in Counts
         /\ \A c \in Report!Callers, e \in Ids, r \in Report!Stages : tasks'[c][e][r] \in Nat
         /\ \A c \in Report!Callers, e \in Ids, r \in Report!Stages :
              tasks'[c][e][r] > 0 => e \in published' /\ (r # "all" => e \in all')
         /\ \A e \in published' :
              \/ e \in stored' \cup logged' \cup failed'
              \/ \E c \in Report!Callers, r \in Report!Stages : tasks'[c][e][r] > 0
PROOF
  <1>1. tasks' \in Counts  BY DEF Shift
  <1>2. \A c \in Report!Callers, e \in Ids, r \in Report!Stages : tasks'[c][e][r] \in Nat
    BY <1>1 DEF Counts
  <1>3. ASSUME NEW c \in Report!Callers, NEW e \in Ids, NEW r \in Report!Stages,
               tasks'[c][e][r] > 0
        PROVE  e \in published' /\ (r # "all" => e \in all')
    <2>1. tasks[c][e][r] > 0 \/ (e = d /\ r = t)  BY <1>3 DEF Shift
    <2> QED BY <2>1 DEF ReportInv, AtPublished
  <1>4. ASSUME NEW e \in published'
        PROVE  \/ e \in stored' \cup logged' \cup failed'
               \/ \E c \in Report!Callers, r \in Report!Stages : tasks'[c][e][r] > 0
    <2>1. CASE e = d  BY <2>1
    <2>2. CASE e # d
      <3>1. e \in published /\ e \in Ids  BY <2>2
      <3>2. \/ e \in stored \cup logged \cup failed
            \/ \E c \in Report!Callers, r \in Report!Stages : tasks[c][e][r] > 0
        BY <3>1 DEF ReportInv, Report!NothingLost
      <3>3. ASSUME NEW c \in Report!Callers, NEW r \in Report!Stages, tasks[c][e][r] > 0
            PROVE  tasks'[c][e][r] > 0
        BY <2>2, <3>1, <3>3 DEF Shift
      <3> QED BY <2>2, <3>2, <3>3
    <2> QED BY <2>1, <2>2
  <1> QED BY <1>1, <1>2, <1>3, <1>4

\* While a retry walks, what it has visited waits to be stored again: a step that leaves
\* the failed definitions alone and takes no task away before "store" keeps it so.
LEMMA VisitedKept ==
  ASSUME ReportInv, NEW d \in Ids, NEW s, NEW t \in Report!Stages, Shift(d, s, t),
         UNCHANGED <<reportJob, failed>>,
         \/ s \notin {"all", "drop"}
         \/ t = "drop" /\ \E c \in Report!Callers : tasks'[c][d]["drop"] > 0
  PROVE  reportJob["retry"].at = "loop" =>
           \A e \in failed \ reportJob["retry"].left :
             \E c \in Report!Callers, r \in {"all", "drop"} : tasks'[c][e][r] > 0
PROOF
  <1> SUFFICES ASSUME reportJob["retry"].at = "loop", NEW e \in failed \ reportJob["retry"].left
               PROVE  \E c \in Report!Callers, r \in {"all", "drop"} : tasks'[c][e][r] > 0
    OBVIOUS
  <1>1. PICK c \in Report!Callers, r \in {"all", "drop"} : tasks[c][e][r] > 0
    BY DEF ReportInv, Report!NothingLost
  <1>2. e \in Ids /\ r \in Report!Stages
    BY DEF ReportInv, ReportTypes, Report!NothingLost, Report!Stages
  <1>3. CASE e = d /\ r = s  BY <1>3
  <1>4. CASE ~(e = d /\ r = s)
    <2>1. tasks'[c][e][r] > 0  BY <1>1, <1>2, <1>4 DEF Shift
    <2> QED BY <2>1
  <1> QED BY <1>3, <1>4

\* The stages, by name.
LEMMA StageIs ==
  /\ "all" \in Report!Stages /\ "drop" \in Report!Stages /\ "store" \in Report!Stages
  /\ "keep" \in Report!Stages
  /\ "none" \notin Report!Stages
BY DEF Report!Stages

\* The order of the sets, which every step keeps.
Nested ==
  /\ failed \subseteq all /\ all \subseteq published /\ published \subseteq Ids
  /\ stored \cup logged \subseteq all

\* A step that shifts a task of d and leaves the jobs where they are.
LEMMA TaskKeeps ==
  ASSUME ReportInv, NEW d \in Ids, NEW s, NEW t \in Report!Stages, Shift(d, s, t),
         UNCHANGED <<reportJob, sync>>, started' \in BOOLEAN, Nested',
         published \subseteq published', all \subseteq all',
         stored \cup logged \subseteq stored' \cup logged',
         \A e \in failed : e # d => e \in failed',
         d \in published', published' \subseteq published \cup {d}, t # "all" => d \in all',
         \/ d \in stored' \cup logged' \cup failed'
         \/ \E c \in Report!Callers, r \in Report!Stages : tasks'[c][d][r] > 0,
         \/ reportJob["retry"].at # "loop"
         \/ /\ failed' = failed
            /\ \/ s \notin {"all", "drop"}
               \/ t = "drop" /\ \E c \in Report!Callers : tasks'[c][d]["drop"] > 0
  PROVE  ReportInv'
PROOF
  <1>1. /\ tasks' \in Counts
        /\ \A c \in Report!Callers, e \in Ids, r \in Report!Stages : tasks'[c][e][r] \in Nat
        /\ \A c \in Report!Callers, e \in Ids, r \in Report!Stages :
              tasks'[c][e][r] > 0 => e \in published' /\ (r # "all" => e \in all')
        /\ \A e \in published' : \/ e \in stored' \cup logged' \cup failed'
                                 \/ \E c \in Report!Callers,
                                      r \in Report!Stages : tasks'[c][e][r] > 0
    BY ShiftKeeps DEF Nested
  <1>2. reportJob'["retry"].at = "loop" =>
           \A e \in failed' \ reportJob'["retry"].left :
             \E c \in Report!Callers, r \in {"all", "drop"} : tasks'[c][e][r] > 0
    BY VisitedKept
  <1>3. ReportTypes'  BY <1>1 DEF ReportInv, ReportTypes, Nested
  <1>4. AtPublished'  BY <1>1 DEF ReportInv, AtPublished
  <1> QED BY <1>1, <1>2, <1>3, <1>4 DEF ReportInv, Report!NothingLost, Nested

\* A definition is published: a task is on its way with it.
LEMMA PublishKeeps ==
  ASSUME ReportInv, NEW d \in Ids, Report!Publish(d)  PROVE ReportInv'
PROOF
  <1>1. /\ published' = published \cup {d}
        /\ UNCHANGED <<sync, all, failed, stored, logged, reportJob, started>>
        /\ Report!Stores("publisher", d) /\ "publisher" \in Report!Callers
    BY DEF Report!Publish, Report!jobVars, Report!Callers
  <1>2. ReportTypes /\ started' \in BOOLEAN  BY <1>1 DEF ReportInv, ReportTypes
  <1>3. Shift(d, "none", "all") /\ \E b \in Report!Callers : tasks'[b][d]["all"] > 0
    BY <1>1, <1>2, StoresShifts
  <1>4. Nested'  BY <1>1 DEF ReportInv, ReportTypes, Report!NothingLost, Nested
  <1> QED BY <1>1, <1>2, <1>3, <1>4, StageIs, TaskKeeps

\* The task puts the definition into allMetadataReports.
LEMMA PutAllKeeps ==
  ASSUME ReportInv, NEW c \in Report!Callers, NEW d \in Ids, Report!PutAll(c, d)
  PROVE  ReportInv'
PROOF
  <1>1. /\ tasks[c][d]["all"] > 0 /\ all' = all \cup {d}
        /\ tasks' = Report!Moved(c, d, "all", "drop")
        /\ UNCHANGED <<sync, published, failed, stored, logged, reportJob, started>>
    BY DEF Report!PutAll, Report!jobVars
  <1>2. ReportTypes /\ started' \in BOOLEAN  BY <1>1 DEF ReportInv, ReportTypes
  <1>3. Shift(d, "all", "drop") /\ tasks'[c][d]["drop"] > 0
    BY <1>1, <1>2, StageIs, MovedShifts
  <1>4. d \in published /\ d \in all'  BY <1>1, StageIs DEF ReportInv, AtPublished
  <1>5. Nested'  BY <1>1, <1>4 DEF ReportInv, ReportTypes, Report!NothingLost, Nested
  <1> QED BY <1>1, <1>2, <1>3, <1>4, <1>5, StageIs, TaskKeeps

\* The task drops the definition from failedReports, before it stores it.
LEMMA DropFailedKeeps ==
  ASSUME ReportInv, NEW c \in Report!Callers, NEW d \in Ids, Report!DropFailed(c, d)
  PROVE  ReportInv'
PROOF
  <1>1. /\ tasks[c][d]["drop"] > 0 /\ reportJob["retry"].at # "loop"
        /\ failed' = failed \ {d} /\ tasks' = Report!Moved(c, d, "drop", "store")
        /\ UNCHANGED <<sync, published, all, stored, logged, reportJob, started>>
    BY DEF Report!DropFailed, Report!jobVars, Report!Free
  <1>2. ReportTypes /\ started' \in BOOLEAN  BY <1>1 DEF ReportInv, ReportTypes
  <1>3. Shift(d, "drop", "store") /\ tasks'[c][d]["store"] > 0
    BY <1>1, <1>2, StageIs, MovedShifts
  <1>4. d \in published /\ d \in all  BY <1>1, StageIs DEF ReportInv, AtPublished
  <1>5. Nested'  BY <1>1 DEF ReportInv, ReportTypes, Report!NothingLost, Nested
  <1> QED BY <1>1, <1>2, <1>3, <1>4, <1>5, StageIs, TaskKeeps

\* The metadata center answers, or panics.
LEMMA StoreKeeps ==
  ASSUME ReportInv, NEW c \in Report!Callers, NEW d \in Ids,
         Report!Store(c, d) \/ Report!StoreErrs(c, d)
  PROVE  ReportInv'
PROOF
  <1>1. /\ tasks[c][d]["store"] > 0 /\ tasks' = Report!Done(c, d, "store")
        /\ UNCHANGED <<sync, published, all, failed, reportJob, started>>
        /\ stored \cup logged \subseteq stored' \cup logged' /\ d \in stored' \cup logged'
        /\ stored' \cup logged' \subseteq stored \cup logged \cup {d}
    BY DEF Report!Store, Report!StoreErrs, Report!jobVars
  <1>2. ReportTypes /\ started' \in BOOLEAN  BY <1>1 DEF ReportInv, ReportTypes
  <1>3. Shift(d, "store", "all")  BY <1>1, <1>2, StageIs, DoneShifts
  <1>4. d \in published /\ d \in all  BY <1>1, StageIs DEF ReportInv, AtPublished
  <1>5. Nested'  BY <1>1, <1>4 DEF ReportInv, ReportTypes, Report!NothingLost, Nested
  <1> QED BY <1>1, <1>2, <1>3, <1>4, <1>5, StageIs, TaskKeeps

\* The store panics: the recovery is about to keep the definition.
LEMMA StorePanicsKeeps ==
  ASSUME ReportInv, NEW c \in Report!Callers, NEW d \in Ids, Report!StorePanics(c, d)
  PROVE  ReportInv'
PROOF
  <1>1. /\ tasks[c][d]["store"] > 0 /\ tasks' = Report!Moved(c, d, "store", "keep")
        /\ UNCHANGED <<sync, published, all, failed, stored, logged, reportJob, started>>
    BY DEF Report!StorePanics, Report!dataVars, Report!jobVars
  <1>2. ReportTypes /\ started' \in BOOLEAN  BY <1>1 DEF ReportInv, ReportTypes
  <1>3. Shift(d, "store", "keep") /\ tasks'[c][d]["keep"] > 0
    BY <1>1, <1>2, StageIs, MovedShifts
  <1>4. d \in published /\ d \in all  BY <1>1, StageIs DEF ReportInv, AtPublished
  <1>5. Nested'  BY <1>1 DEF ReportInv, ReportTypes, Report!NothingLost, Nested
  <1> QED BY <1>1, <1>2, <1>3, <1>4, <1>5, StageIs, TaskKeeps

\* The recovery puts the definition into failedReports.
LEMMA KeepFailedKeeps ==
  ASSUME ReportInv, NEW c \in Report!Callers, NEW d \in Ids, Report!KeepFailed(c, d)
  PROVE  ReportInv'
PROOF
  <1>1. /\ tasks[c][d]["keep"] > 0 /\ reportJob["retry"].at # "loop"
        /\ failed' = failed \cup {d} /\ tasks' = Report!Done(c, d, "keep") /\ started' = TRUE
        /\ UNCHANGED <<sync, published, all, stored, logged, reportJob>>
    BY DEF Report!KeepFailed, Report!Free
  <1>2. ReportTypes /\ started' \in BOOLEAN  BY <1>1 DEF ReportInv
  <1>3. Shift(d, "keep", "all")  BY <1>1, <1>2, StageIs, DoneShifts
  <1>4. d \in published /\ d \in all  BY <1>1, StageIs DEF ReportInv, AtPublished
  <1>5. Nested'  BY <1>1, <1>4 DEF ReportInv, ReportTypes, Report!NothingLost, Nested
  <1> QED BY <1>1, <1>2, <1>3, <1>4, <1>5, StageIs, TaskKeeps

\* A job is due, walks its map or is done: what it has yet to visit is in the map, and
\* at the beginning that is all of it.
LEMMA JobKeeps ==
  ASSUME ReportInv, NEW j \in Report!Jobs,
         Report!RetryDue \/ Report!CycleDue \/ Report!Walks(j) \/ Report!Unlocks(j)
  PROVE  ReportInv'
PROOF
  <1>1. UNCHANGED <<sync, published, all, failed, stored, logged, tasks, started>>
    BY DEF Report!RetryDue, Report!CycleDue, Report!Walks, Report!Unlocks, Report!dataVars
  <1>2. "retry" \in Report!Jobs /\ "cycle" \in Report!Jobs  BY DEF Report!Jobs
  <1>3. failed \subseteq all /\ all \subseteq Ids
        /\ reportJob \in [Report!Jobs -> [at : {"idle", "lock", "loop"}, left : SUBSET Ids]]
    BY DEF ReportInv, ReportTypes, Report!NothingLost
  <1>4. /\ reportJob' \in [Report!Jobs -> [at : {"idle", "lock", "loop"}, left : SUBSET Ids]]
        /\ \A i \in Report!Jobs : reportJob'[i].left \subseteq all
        /\ \/ reportJob'["retry"].at # "loop"
           \/ reportJob'["retry"] = reportJob["retry"]
           \/ reportJob'["retry"].left = failed
    <2> USE <1>2, <1>3 DEF ReportInv, AtPublished
    <2>1. CASE Report!RetryDue  BY <2>1 DEF Report!RetryDue
    <2>2. CASE Report!CycleDue  BY <2>2 DEF Report!CycleDue
    <2>3. CASE Report!Unlocks(j)  BY <2>3 DEF Report!Unlocks
    <2>4. CASE Report!Walks(j)
      <3> DEFINE map == IF j = "retry" THEN failed ELSE all
      <3>1. /\ map \subseteq all
            /\ \/ reportJob' = [reportJob EXCEPT ![j] = [at |-> "idle", left |-> {}]]
               \/ reportJob' = [reportJob EXCEPT ![j] = [at |-> "loop", left |-> map]]
        BY <2>4 DEF Report!Walks
      <3> QED BY <3>1
    <2> QED BY <2>1, <2>2, <2>3, <2>4
  <1>5. ReportTypes'  BY <1>1, <1>4 DEF ReportInv, ReportTypes
  <1>6. AtPublished'  BY <1>1, <1>4 DEF ReportInv, AtPublished
  <1> QED BY <1>1, <1>4, <1>5, <1>6 DEF ReportInv, Report!NothingLost

\* A round of the retry job or of the daily job comes to a definition.
LEMMA VisitsKeeps ==
  ASSUME ReportInv, NEW j \in Report!Jobs, NEW d \in Ids, Report!Visits(j, d)  PROVE ReportInv'
PROOF
  <1>1. /\ reportJob[j].at = "loop" /\ d \in reportJob[j].left /\ Report!Stores(j, d)
        /\ j \in Report!Callers
        /\ reportJob' = [reportJob EXCEPT ![j].left = @ \ {d}]
        /\ UNCHANGED <<sync, published, all, failed, stored, logged, started>>
    BY DEF Report!Visits, Report!dataVars, Report!Callers
  <1>2. ReportTypes /\ "retry" \in Report!Jobs  BY DEF ReportInv, Report!Jobs
  <1>3. Shift(d, "none", "all") /\ \E b \in Report!Callers : tasks'[b][d]["all"] > 0
    BY <1>1, <1>2, StoresShifts
  <1>4. d \in all /\ d \in published  BY <1>1 DEF ReportInv, AtPublished, Report!NothingLost
  <1>5. Nested'  BY <1>1 DEF ReportInv, ReportTypes, Report!NothingLost, Nested
  <1>6. /\ tasks' \in Counts
        /\ \A c \in Report!Callers, e \in Ids, r \in Report!Stages : tasks'[c][e][r] \in Nat
        /\ \A c \in Report!Callers, e \in Ids, r \in Report!Stages :
              tasks'[c][e][r] > 0 => e \in published' /\ (r # "all" => e \in all')
        /\ \A e \in published' : \/ e \in stored' \cup logged' \cup failed'
                                 \/ \E c \in Report!Callers,
                                      r \in Report!Stages : tasks'[c][e][r] > 0
    BY <1>1, <1>3, <1>4, <1>5, StageIs, ShiftKeeps DEF Nested
  <1>7. reportJob' \in [Report!Jobs -> [at : {"idle", "lock", "loop"}, left : SUBSET Ids]]
    BY <1>1, <1>2 DEF ReportTypes
  <1>8. \A i \in Report!Jobs : /\ reportJob'[i].at = reportJob[i].at
                               /\ reportJob'[i].left \subseteq reportJob[i].left
                               /\ reportJob[i].left \subseteq reportJob'[i].left \cup {d}
    BY <1>1, <1>2 DEF ReportTypes
  <1>9. ASSUME reportJob'["retry"].at = "loop", NEW e \in failed' \ reportJob'["retry"].left
        PROVE  \E c \in Report!Callers, r \in {"all", "drop"} : tasks'[c][e][r] > 0
    <2>1. CASE e = d  BY <1>3, <2>1
    <2>2. CASE e # d
      <3>1. e \in failed \ reportJob["retry"].left /\ reportJob["retry"].at = "loop"
        BY <1>1, <1>2, <1>8, <1>9, <2>2
      <3>2. PICK c \in Report!Callers, r \in {"all", "drop"} : tasks[c][e][r] > 0
        BY <3>1 DEF ReportInv, Report!NothingLost
      <3>3. e \in Ids /\ r \in Report!Stages
        BY <3>1, StageIs DEF ReportInv, ReportTypes, Report!NothingLost
      <3>4. tasks'[c][e][r] > 0  BY <1>3, <3>2, <3>3, StageIs DEF Shift
      <3> QED BY <3>4
    <2> QED BY <2>1, <2>2
  <1>10. ReportTypes'  BY <1>1, <1>2, <1>5, <1>6, <1>7 DEF ReportTypes, Nested
  <1>11. AtPublished'  BY <1>1, <1>6, <1>8 DEF ReportInv, AtPublished
  <1> QED BY <1>5, <1>6, <1>9, <1>10, <1>11 DEF ReportInv, Report!NothingLost, Nested

\* The initial state satisfies the invariant.
LEMMA ReportInit == Report!Init => ReportInv
PROOF
  <1> SUFFICES ASSUME Report!Init PROVE ReportInv  OBVIOUS
  <1>1. tasks \in Counts
        /\ \A c \in Report!Callers, d \in Ids, s \in Report!Stages : tasks[c][d][s] = 0
    BY DEF Report!Init, Counts
  <1>2. /\ reportJob \in [Report!Jobs -> [at : {"idle", "lock", "loop"}, left : SUBSET Ids]]
        /\ \A j \in Report!Jobs : reportJob[j].at = "idle" /\ reportJob[j].left = {}
    BY DEF Report!Init
  <1>3. "retry" \in Report!Jobs  BY DEF Report!Jobs
  <1>4. ReportTypes  BY <1>1, <1>2 DEF Report!Init, ReportTypes
  <1>5. AtPublished  BY <1>1, <1>2 DEF AtPublished
  <1>6. \A c \in Report!Callers, d \in Ids, s \in Report!Stages : tasks[c][d][s] \in Nat
    BY <1>1
  <1> QED BY <1>2, <1>3, <1>4, <1>5, <1>6 DEF Report!Init, ReportInv, Report!NothingLost

\* Every step keeps the invariant.
LEMMA ReportNext == ReportInv /\ [Report!Next]_Report!vars => ReportInv'
PROOF
  <1> SUFFICES ASSUME ReportInv, [Report!Next]_Report!vars PROVE ReportInv'  OBVIOUS
  <1>1. ASSUME NEW d \in Ids, Report!Publish(d) PROVE ReportInv'  BY <1>1, PublishKeeps
  <1>2. CASE Report!Task
    <2>1. PICK c \in Report!Callers, d \in Ids :
            \/ Report!PutAll(c, d) \/ Report!DropFailed(c, d) \/ Report!KeepFailed(c, d)
            \/ Report!Store(c, d) \/ Report!StoreErrs(c, d) \/ Report!StorePanics(c, d)
      BY <1>2 DEF Report!Task
    <2> QED BY <2>1, PutAllKeeps, DropFailedKeeps, KeepFailedKeeps, StoreKeeps, StorePanicsKeeps
  <1>3. CASE Report!Walk
    <2>1. PICK j \in Report!Jobs : Report!Walks(j) \/ Report!Unlocks(j)
          \/ \E d \in Ids : Report!Visits(j, d)
      BY <1>3 DEF Report!Walk
    <2> QED BY <2>1, JobKeeps, VisitsKeeps
  <1>4. CASE Report!RetryDue \/ Report!CycleDue  BY <1>4, JobKeeps DEF Report!Jobs
  <1>5. CASE UNCHANGED Report!vars
    BY <1>5 DEF Report!vars, Report!dataVars, Report!jobVars, ReportInv, ReportTypes,
                AtPublished, Report!NothingLost
  <1> QED BY <1>1, <1>2, <1>3, <1>4, <1>5 DEF Report!Next

\* No definition is lost: whatever the interleaving of the tasks of its goroutines, of the
\* retries and of the daily job, a published definition is stored, logged as an error, kept
\* for a retry, or a task is at it.
THEOREM DefinitionsAreKept == Report!Spec => []Report!NothingLost
PROOF
  <1>1. ReportInv => Report!NothingLost  BY DEF ReportInv
  <1> QED BY <1>1, ReportInit, ReportNext, PTL DEF Report!Spec
=============================================================================
