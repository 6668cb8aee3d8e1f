---------------------- MODULE RegistryDirectoryProofs -----------------------
(***************************************************************************)
(* For any number of providers, invokers, events and configuration         *)
(* listeners the directory loses no invoker and caches none that has been  *)
(* destroyed.  Nor is one ever listed, but by a configuration listener     *)
(* that publishes a snapshot which is out of date.  And the map follows    *)
(* the registry, but for a provider that a rule brings back.               *)
(*                                                                         *)
(* And, at the end, the proof about KubeWatch: whoever reads the events of *)
(* a watcher to the end knows what the watcher set has cached.             *)
(***************************************************************************)
EXTENDS RegistryDirectory, FiniteSetTheorems, TLAPS

\* Most steps are first-order, and Zenon is the quickest to find them.
USE ZenonT(3), SMT, Zenon, SMTT(20)

\* The initial state satisfies the invariant.
LEMMA InitInv == Init => DirectoryInv
PROOF
  <1> SUFFICES ASSUME Init PROVE DirectoryInv  OBVIOUS
  <1> USE DirectoryAssumption DEF Init
  <1>1. Cached = {}  BY DEF Cached
  <1>2. TypeOK
    <2>1. queue \in Seq(Events) /\ sent \in 0..MaxEvents  OBVIOUS
    <2>2. url \in [Ivks -> Urls \cup {NoUrl}] /\ (at = "refer" <=> new # NoUrl)  OBVIOUS
    <2> QED BY <2>1, <2>2 DEF TypeOK
  <1>3. CachedUnderItsKey /\ OldIsUncached /\ NoLeak /\ CachedIsAlive
    BY <1>1 DEF CachedUnderItsKey, OldIsUncached, NoLeak, CachedIsAlive
  <1>4. ListFollowsMap  BY <1>1 DEF ListFollowsMap
  <1> QED BY <1>2, <1>3, <1>4 DEF DirectoryInv

\* The registry's steps touch its queue only.
LEMMA EnvInv ==
  ASSUME DirectoryInv,
         \/ \E k \in Keys : ProviderDown(k) \/ \E p \in Params : ProviderUp(k, p)
         \/ \E p \in Params \cup {None} : RuleUp(p)
  PROVE  DirectoryInv'
PROOF
  <1> USE DirectoryAssumption DEF DirectoryInv
  <1> DEFINE EnvStep ==
        /\ UNCHANGED <<dirVars, ruleVars, ivkVars, subVars, listen, doomed>>
        /\ registered' \in [Keys -> Params \cup {None}]
        /\ \E e \in Events : Send(e)
  <1>1. EnvStep
    <2>1. ASSUME NEW k \in Keys, ProviderDown(k)
          PROVE  EnvStep
      <3>1. [type |-> "down", key |-> k, param |-> None] \in Events  BY DEF Events
      <3> QED BY <2>1, <3>1 DEF TypeOK, ProviderDown
    <2>2. ASSUME NEW k \in Keys, NEW p \in Params, ProviderUp(k, p)
          PROVE  EnvStep
      <3>1. [type |-> "up", key |-> k, param |-> p] \in Events  BY DEF Events
      <3> QED BY <2>2, <3>1 DEF TypeOK, ProviderUp
    <2>3. ASSUME NEW p \in Params \cup {None}, RuleUp(p)
          PROVE  EnvStep
      <3>1. [type |-> "rule", key |-> None, param |-> p] \in Events  BY DEF Events
      <3> QED BY <2>3, <3>1 DEF TypeOK, RuleUp
    <2> QED BY <2>1, <2>2, <2>3
  <1>2. queue' \in Seq(Events) /\ sent' \in 0..MaxEvents
    BY <1>1 DEF Send, TypeOK
  <1>3. TypeOK'
    BY <1>1, <1>2 DEF TypeOK, dirVars, ruleVars, ivkVars, subVars
  <1>4. Cached' = Cached  BY <1>1 DEF Cached, dirVars
  <1>5. /\ CachedUnderItsKey' /\ OldIsUncached' /\ NoLeak' /\ CachedIsAlive'
        /\ (~destroyed => doomed = {})'
        /\ (~destroyed /\ old # None => life[old] = "alive")'
    BY <1>1, <1>4
    DEF CachedUnderItsKey, OldIsUncached, NoLeak, CachedIsAlive, dirVars, ivkVars, subVars
  <1>6. ListFollowsMap'
    BY <1>1, <1>4 DEF ListFollowsMap, dirVars, subVars
  <1> QED BY <1>3, <1>5, <1>6

\* An event for an added or changed URL only prepares the Refer.
LEMMA NotifyUpInv ==
  ASSUME DirectoryInv, NotifyUp
  PROVE  DirectoryInv'
PROOF
  <1> USE DirectoryAssumption DEF DirectoryInv
  <1>1. PICK e \in Events : e = Head(queue)
    BY DEF NotifyUp, TypeOK
  <1> DEFINE r == IF e.type = "rule" /\ e.param # None THEN e.param ELSE rule
             u == IF e.type = "rule" THEN cacheOriginUrl ELSE [key |-> e.key, param |-> e.param]
             merged == [key |-> u.key, param |-> Override(u.param, r)]
  <1>2. /\ e.type \in {"up", "rule"}
        /\ rule' = r /\ cacheOriginUrl' = u
        /\ revived' = revived \cup {u.key} \/ revived' = revived \ {u.key}
        /\ \/ at' = "snapshot" /\ new' = NoUrl
           \/ u # NoUrl /\ at' = "refer" /\ new' = merged
        /\ at = "next" /\ queue' = Tail(queue) /\ queue # <<>>
        /\ UNCHANGED <<registered, sent, cacheInvokersMap, cacheInvokers, destroyed, chain, behind,
                       dynamic, ivkVars, old, snap, listen, doomed>>
    BY <1>1 DEF NotifyUp
  <1>3. r \in Params \cup {None} /\ u \in Urls \cup {NoUrl}
    BY <1>2 DEF TypeOK, Events, Urls
  <1>11. revived' \in SUBSET (Keys \cup {None})
    BY <1>2, <1>3 DEF TypeOK, Urls, NoUrl
  <1>4. u # NoUrl => merged \in Urls
    BY <1>3 DEF Override, TypeOK, Urls
  <1>5. merged # NoUrl \/ u = NoUrl
    BY <1>4 DEF Urls, NoUrl
  <1> HIDE DEF r, u, merged
  <1>6. queue' \in Seq(Events)
    BY <1>2 DEF TypeOK
  <1>7. TypeOK'
    BY <1>2, <1>3, <1>4, <1>5, <1>6, <1>11 DEF TypeOK, ivkVars
  <1>8. Cached' = Cached  BY <1>2 DEF Cached
  <1>9. /\ CachedUnderItsKey' /\ OldIsUncached' /\ NoLeak' /\ CachedIsAlive'
        /\ (~destroyed => doomed = {})'
        /\ (~destroyed /\ old # None => life[old] = "alive")'
    BY <1>2, <1>8
    DEF CachedUnderItsKey, OldIsUncached, NoLeak, CachedIsAlive, ivkVars
  <1>10. ListFollowsMap'
    BY <1>2, <1>8 DEF ListFollowsMap
  <1> QED BY <1>7, <1>9, <1>10

\* Refer stores a new invoker; the one it replaces is held as old.
LEMMA ReferOKInv ==
  ASSUME DirectoryInv, NEW i \in Ivks, ReferOK(i)
  PROVE  DirectoryInv'
PROOF
  <1> USE DirectoryAssumption DEF DirectoryInv
  <1>1. PICK k \in Keys : k = new.key /\ new.key = k
    BY DEF ReferOK, TypeOK, Urls
  <1>2. /\ at = "refer" /\ life[i] = "unused"
        /\ life' = [life EXCEPT ![i] = "alive"]
        /\ url' = [url EXCEPT ![i] = new]
        /\ cacheInvokersMap' = [cacheInvokersMap EXCEPT ![k] = i]
        /\ old' = cacheInvokersMap[k]
        /\ at' = "snapshot" /\ new' = NoUrl
        /\ UNCHANGED <<envVars, cacheInvokers, cacheOriginUrl, destroyed, chain, behind, revived,
                       ruleVars, snap, listen, doomed>>
    BY <1>1 DEF ReferOK
  <1>3. TypeOK'
    BY <1>1, <1>2 DEF TypeOK, envVars, ruleVars
  <1>4. old = None /\ i \notin Cached
    BY <1>2 DEF OldIsUncached, CachedUnderItsKey, Cached
  <1>5. \A j \in Keys : cacheInvokersMap'[j] = IF j = k THEN i ELSE cacheInvokersMap[j]
    BY <1>2 DEF TypeOK
  <1>6. CachedUnderItsKey'
    BY <1>1, <1>2, <1>5 DEF CachedUnderItsKey, TypeOK
  <1>7. Cached' = (Cached \ {cacheInvokersMap[k]}) \cup {i}
    <2>1. \A j \in Keys : j # k /\ cacheInvokersMap[j] # None =>
            cacheInvokersMap[j] # cacheInvokersMap[k]
      BY DEF CachedUnderItsKey
    <2> QED BY <1>5, <2>1 DEF Cached, TypeOK
  <1>8. OldIsUncached'
    <2>1. old' # None => old' \in Cached /\ old' # i /\ life'[old'] = life[old']
      BY <1>2, <1>4 DEF Cached, TypeOK
    <2>2. old' # None => life[old'] # "unused"
      BY <1>2 DEF CachedUnderItsKey
    <2> QED BY <1>2, <1>7, <2>1, <2>2 DEF OldIsUncached
  <1>9. NoLeak'
    BY <1>2, <1>4, <1>7 DEF NoLeak, TypeOK
  <1>10. CachedIsAlive'
    BY <1>2, <1>7 DEF CachedIsAlive, TypeOK
  <1>11. (~destroyed => doomed = {})' /\ (~destroyed /\ old # None => life[old] = "alive")'
    BY <1>2, <1>4 DEF CachedIsAlive, Cached, TypeOK
  <1>12. ListFollowsMap'
    BY <1>2, <1>4, <1>7 DEF ListFollowsMap
  <1> QED BY <1>3, <1>6, <1>8, <1>9, <1>10, <1>11, <1>12

\* The removal of a provider takes its invoker out of the map and holds it.
LEMMA NotifyDownInv ==
  ASSUME DirectoryInv, NotifyDown
  PROVE  DirectoryInv'
PROOF
  <1> USE DirectoryAssumption DEF DirectoryInv
  <1>1. PICK k \in Keys : k = Head(queue).key
    BY DEF NotifyDown, TypeOK, Events
  <1>2. /\ at = "next" /\ queue # <<>> /\ at' = "snapshot" /\ queue' = Tail(queue)
        /\ old' = cacheInvokersMap[k]
        /\ cacheInvokersMap' = [cacheInvokersMap EXCEPT ![k] = None]
        /\ revived' = revived \ {k}
        /\ UNCHANGED <<registered, sent, cacheInvokers, cacheOriginUrl, destroyed, chain, behind,
                       ruleVars, ivkVars, new, snap, listen, doomed>>
    BY <1>1 DEF NotifyDown
  <1>3. TypeOK'
    BY <1>1, <1>2 DEF TypeOK, ruleVars, ivkVars
  <1>4. old = None
    BY <1>2 DEF OldIsUncached
  <1>5. CachedUnderItsKey'
    BY <1>2 DEF CachedUnderItsKey, TypeOK, ivkVars
  <1>6. Cached' = Cached \ {cacheInvokersMap[k]}
    <2>1. \A j \in Keys : j # k /\ cacheInvokersMap[j] # None =>
            cacheInvokersMap[j] # cacheInvokersMap[k]
      BY DEF CachedUnderItsKey
    <2>2. \A j \in Keys : cacheInvokersMap'[j] = IF j = k THEN None ELSE cacheInvokersMap[j]
      BY <1>2 DEF TypeOK
    <2> QED BY <2>1, <2>2 DEF Cached
  <1>7. OldIsUncached'
    BY <1>2, <1>6 DEF OldIsUncached, CachedUnderItsKey, ivkVars
  <1>8. NoLeak'
    BY <1>2, <1>4, <1>6 DEF NoLeak, ivkVars
  <1>9. CachedIsAlive'
    BY <1>2, <1>6 DEF CachedIsAlive, ivkVars
  <1>10. (~destroyed => doomed = {})' /\ (~destroyed /\ old # None => life[old] = "alive")'
    BY <1>2 DEF CachedIsAlive, Cached, ivkVars
  <1>11. ListFollowsMap'
    BY <1>2, <1>4, <1>6 DEF ListFollowsMap
  <1> QED BY <1>3, <1>5, <1>7, <1>8, <1>9, <1>10, <1>11

\* The steps that change neither the map nor an invoker's life.
LEMMA QuietInv ==
  ASSUME DirectoryInv,
         \/ ReferFails \/ Snapshot \/ Publish \/ Destroy
         \/ \E c \in Listeners : ListenerStep(c) \/ \E p \in Params \cup {None} : Process(c, p)
  PROVE  DirectoryInv'
PROOF
  <1> USE DirectoryAssumption DEF DirectoryInv
  <1>0. Cached \subseteq Ivks  BY DEF Cached, TypeOK
  <1>1. TypeOK'
    <2> USE DEF TypeOK, envVars, dirVars, ruleVars, ivkVars, subVars, SetInvokers
    <2>1. CASE ReferFails  BY <2>1 DEF ReferFails
    <2>2. CASE Snapshot    BY <1>0, <2>2 DEF Snapshot
    <2>3. CASE Publish     BY <2>3 DEF Publish
    <2>4. CASE Destroy     BY <2>4 DEF Destroy
    <2>5. ASSUME NEW c \in Listeners, ProcessSnapshot(c) PROVE TypeOK'
      BY <1>0, <2>5 DEF ProcessSnapshot
    <2>6. ASSUME NEW c \in Listeners, ProcessPublish(c) PROVE TypeOK'
      BY <2>6 DEF ProcessPublish
    <2>7. ASSUME NEW c \in Listeners, NEW p \in Params \cup {None}, Process(c, p) PROVE TypeOK'
      BY <2>7 DEF Process
    <2> QED BY <2>1, <2>2, <2>3, <2>4, <2>5, <2>6, <2>7 DEF ListenerStep
  <1>2. /\ UNCHANGED <<cacheInvokersMap, life, url, old>>
        /\ (destroyed' = destroyed /\ doomed' = doomed) \/ destroyed' = TRUE
        /\ old # None => at' \in {"snapshot", "publish", "destroy"}
    BY DEF ReferFails, Snapshot, Publish, Destroy, ListenerStep, ProcessSnapshot, ProcessPublish,
           Process, dirVars, ivkVars, subVars, OldIsUncached
  <1>3. Cached' = Cached  BY <1>2 DEF Cached
  <1>4. /\ CachedUnderItsKey' /\ OldIsUncached' /\ NoLeak' /\ CachedIsAlive'
        /\ (~destroyed => doomed = {})'
        /\ (~destroyed /\ old # None => life[old] = "alive")'
    BY <1>2, <1>3 DEF CachedUnderItsKey, OldIsUncached, NoLeak, CachedIsAlive
  <1>5. ListFollowsMap'
    <2> USE DEF ListFollowsMap, dirVars, subVars
    <2>1. CASE ReferFails  BY <1>2, <1>3, <2>1 DEF ReferFails
    <2>2. CASE Snapshot    BY <1>2, <1>3, <2>2 DEF Snapshot
    <2>3. CASE Publish     BY <1>2, <1>3, <2>3 DEF Publish, SetInvokers
    <2>4. CASE Destroy     BY <1>2, <1>3, <2>4 DEF Destroy
    <2>5. ASSUME NEW c \in Listeners, ProcessPublish(c) PROVE ListFollowsMap'
      BY <1>2, <1>3, <2>5 DEF ProcessPublish, SetInvokers
    <2>6. ASSUME NEW c \in Listeners, ProcessSnapshot(c) PROVE ListFollowsMap'
      BY <1>2, <1>3, <2>6 DEF ProcessSnapshot
    <2>7. ASSUME NEW c \in Listeners, NEW p \in Params \cup {None}, Process(c, p)
          PROVE  ListFollowsMap'
      BY <1>2, <1>3, <2>7 DEF Process
    <2> QED BY <2>1, <2>2, <2>3, <2>4, <2>5, <2>6, <2>7 DEF ListenerStep
  <1> QED BY <1>1, <1>4, <1>5

\* Destroying the replaced invoker: it is in neither the map nor the list.
LEMMA DestroyOldInv ==
  ASSUME DirectoryInv, DestroyOld
  PROVE  DirectoryInv'
PROOF
  <1> USE DirectoryAssumption DEF DirectoryInv
  <1>1. /\ at = "destroy" /\ at' = "next" /\ old' = None
        /\ UNCHANGED <<envVars, dirVars, ruleVars, url, new, snap, listen, doomed>>
        /\ life' \in [Ivks -> {"unused", "alive", "destroyed"}]
        /\ \A i \in Ivks : i # old => life'[i] = life[i]
        /\ old # None => life'[old] = "destroyed"
    <2>1. CASE old = None  BY <2>1 DEF DestroyOld, TypeOK
    <2>2. CASE old # None  BY <2>2 DEF DestroyOld, TypeOK
    <2> QED BY <2>1, <2>2
  <1>2. TypeOK'
    BY <1>1 DEF TypeOK, envVars, dirVars, ruleVars
  <1>3. Cached' = Cached /\ Cached \subseteq Ivks
    BY <1>1 DEF Cached, dirVars, TypeOK
  <1>4. CachedUnderItsKey'
    BY <1>1 DEF CachedUnderItsKey, TypeOK, dirVars
  <1>5. NoLeak'
    BY <1>1, <1>3 DEF NoLeak
  <1>6. CachedIsAlive'
    BY <1>1, <1>3 DEF CachedIsAlive, OldIsUncached, dirVars
  <1>7. OldIsUncached' /\ (~destroyed => doomed = {})'
        /\ (~destroyed /\ old # None => life[old] = "alive")'
    BY <1>1 DEF OldIsUncached, dirVars
  <1>8. ListFollowsMap'
    BY <1>1, <1>3 DEF ListFollowsMap, dirVars
  <1> QED BY <1>2, <1>4, <1>5, <1>6, <1>7, <1>8

\* Destroy of the directory, one invoker at a time.
LEMMA DestroyOneInv ==
  ASSUME DirectoryInv, NEW i \in Ivks, DestroyOne(i)
  PROVE  DirectoryInv'
PROOF
  <1> USE DirectoryAssumption DEF DirectoryInv
  <1>1. /\ i \in doomed /\ doomed' = doomed \ {i}
        /\ life' = [life EXCEPT ![i] = "destroyed"]
        /\ UNCHANGED <<envVars, dirVars, ruleVars, url, subVars, listen>>
    BY DEF DestroyOne
  <1>2. destroyed  BY <1>1 DEF TypeOK
  <1>3. TypeOK'
    BY <1>1 DEF TypeOK, envVars, dirVars, ruleVars, subVars
  <1>4. Cached' = Cached  BY <1>1 DEF Cached, dirVars
  <1>5. /\ CachedUnderItsKey' /\ OldIsUncached' /\ NoLeak' /\ CachedIsAlive'
        /\ (~destroyed => doomed = {})'
        /\ (~destroyed /\ old # None => life[old] = "alive")'
    BY <1>1, <1>2, <1>4
    DEF CachedUnderItsKey, OldIsUncached, NoLeak, CachedIsAlive, TypeOK, dirVars, subVars
  <1>6. ListFollowsMap'
    BY <1>1, <1>4 DEF ListFollowsMap, dirVars, subVars
  <1> QED BY <1>3, <1>5, <1>6

\* Every step preserves the invariant.
LEMMA NextInv == DirectoryInv /\ [Next]_vars => DirectoryInv'
PROOF
  <1> SUFFICES ASSUME DirectoryInv, [Next]_vars PROVE DirectoryInv'  OBVIOUS
  <1>1. CASE SubscriptionStep
    BY <1>1, NotifyUpInv, NotifyDownInv, ReferOKInv, QuietInv, DestroyOldInv
    DEF SubscriptionStep
  <1>2. CASE UNCHANGED vars
    BY <1>2 DEF vars, DirectoryInv, TypeOK, CachedUnderItsKey, OldIsUncached, NoLeak,
                CachedIsAlive, ListFollowsMap, Cached
  <1> QED BY <1>1, <1>2, EnvInv, QuietInv, DestroyOneInv DEF Next

\* The invariant holds in every reachable state of the directory.
THEOREM DirectoryInvariance == Spec => []DirectoryInv
  BY InitInv, NextInv, PTL DEF Spec

\* No invoker is lost: doCacheInvoker and uncacheInvoker hand every invoker they
\* take out of the map to somebody who destroys it.
THEOREM InvokersAreNotLeaked == Spec => []NoLeak
  BY DirectoryInvariance, PTL DEF DirectoryInv

\* Until Destroy the map never holds a destroyed invoker, whatever the
\* configuration listeners publish.
THEOREM CachedAreAlive == Spec => []CachedIsAlive
  BY DirectoryInvariance, PTL DEF DirectoryInv

\* A call never finds a destroyed invoker in the list, unless a listener has published
\* an old snapshot: setNewInvokers runs between the change of the map and Destroy.
THEOREM ListedAreAlive == Spec => []ListedIsAlive
PROOF
  <1>1. DirectoryInv => ListedIsAlive
    <2> SUFFICES ASSUME DirectoryInv, ~destroyed, ~behind, NEW i \in chain
                 PROVE  life[i] = "alive"
      BY DEF ListedIsAlive
    <2>1. i \in Cached \/ i = old
      BY DEF DirectoryInv, ListFollowsMap
    <2>2. CASE i \in Cached  BY <2>2 DEF DirectoryInv, CachedIsAlive
    <2>3. CASE i = old
      BY <2>3, DirectoryAssumption DEF DirectoryInv, TypeOK
    <2> QED BY <2>1, <2>2, <2>3
  <1> QED BY <1>1, DirectoryInvariance, PTL

-----------------------------------------------------------------------------
(* What is cached follows the registry.                                    *)

\* Every event of k has been handled, and only a rule can have cached it since.
Gone(k) ==
  /\ \A j \in 1..Len(queue) : queue[j].key # k
  /\ cacheInvokersMap[k] # None \/ new.key = k => k \in revived

\* The last event of k on its way is that it went.
Leaving(k) ==
  \E j \in 1..Len(queue) :
    /\ queue[j].type = "down" /\ queue[j].key = k
    /\ \A i \in (j + 1)..Len(queue) : queue[i].key # k

\* Why the map follows the registry: a provider that is not registered has gone, or the
\* event that says so is on its way.
FollowInv ==
  \A k \in Keys :
    /\ registered[k] = None => Gone(k) \/ Leaving(k)
    /\ k \in Foreign => cacheInvokersMap[k] = None /\ new.key # k

\* An event joins the end of the queue.
LEMMA SendFollows ==
  ASSUME DirectoryInv, NEW e \in Events, Send(e), NEW k \in Keys,
         UNCHANGED <<cacheInvokersMap, new, revived>>
  PROVE  /\ e.key # k /\ Gone(k) => Gone(k)'
         /\ e.key # k /\ Leaving(k) => Leaving(k)'
         /\ e.key = k /\ e.type = "down" => Leaving(k)'
PROOF
  <1>1. queue \in Seq(Events)  BY DEF DirectoryInv, TypeOK
  <1>2. /\ Len(queue) \in Nat /\ Len(queue') = Len(queue) + 1
        /\ queue'[Len(queue) + 1] = e
        /\ \A j \in 1..Len(queue) : queue'[j] = queue[j]
    BY <1>1 DEF Send
  <1>3. ASSUME e.key # k, Gone(k) PROVE Gone(k)'  BY <1>2, <1>3 DEF Gone
  <1>4. ASSUME e.key # k, Leaving(k) PROVE Leaving(k)'
    <2>1. PICK j \in 1..Len(queue) :
            /\ queue[j].type = "down" /\ queue[j].key = k
            /\ \A i \in (j + 1)..Len(queue) : queue[i].key # k
      BY <1>4 DEF Leaving
    <2>2. j \in 1..Len(queue')  BY <1>2
    <2>3. \A i \in (j + 1)..Len(queue') : queue'[i].key # k  BY <1>2, <1>4, <2>1
    <2> QED BY <1>2, <2>1, <2>2, <2>3 DEF Leaving
  <1>5. ASSUME e.key = k, e.type = "down" PROVE Leaving(k)'
    <2>1. Len(queue) + 1 \in 1..Len(queue') /\ (Len(queue) + 1 + 1)..Len(queue') = {}
      BY <1>2
    <2> QED BY <1>2, <1>5, <2>1 DEF Leaving
  <1> QED BY <1>3, <1>4, <1>5

\* The first event leaves the queue.
LEMMA TakeFollows ==
  ASSUME DirectoryInv, queue # <<>>, queue' = Tail(queue), NEW k \in Keys
  PROVE  /\ Gone(k) => Head(queue).key # k /\ \A j \in 1..Len(queue') : queue'[j].key # k
         /\ Leaving(k) => \/ Leaving(k)'
                          \/ /\ Head(queue).type = "down" /\ Head(queue).key = k
                             /\ \A j \in 1..Len(queue') : queue'[j].key # k
PROOF
  <1>1. queue \in Seq(Events)  BY DEF DirectoryInv, TypeOK
  <1>2. /\ Len(queue) \in Nat /\ Len(queue) > 0 /\ Len(queue') = Len(queue) - 1
        /\ Head(queue) = queue[1]
        /\ \A j \in 1..Len(queue') : queue'[j] = queue[j + 1]
    BY <1>1
  <1>3. ASSUME Gone(k)
        PROVE  Head(queue).key # k /\ \A j \in 1..Len(queue') : queue'[j].key # k
    BY <1>2, <1>3 DEF Gone
  <1>4. ASSUME Leaving(k)
        PROVE  \/ Leaving(k)'
               \/ /\ Head(queue).type = "down" /\ Head(queue).key = k
                  /\ \A j \in 1..Len(queue') : queue'[j].key # k
    <2>1. PICK j \in 1..Len(queue) :
            /\ queue[j].type = "down" /\ queue[j].key = k
            /\ \A i \in (j + 1)..Len(queue) : queue[i].key # k
      BY <1>4 DEF Leaving
    <2>2. CASE j = 1  BY <1>2, <2>1, <2>2
    <2>3. CASE j # 1
      <3>1. j - 1 \in 1..Len(queue') /\ queue'[j - 1] = queue[j]  BY <1>2, <2>1, <2>3
      <3>2. \A i \in (j - 1 + 1)..Len(queue') : queue'[i].key # k  BY <1>2, <2>1, <2>3
      <3> QED BY <2>1, <3>1, <3>2 DEF Leaving
    <2> QED BY <2>2, <2>3
  <1> QED BY <1>3, <1>4

\* What the registry sends is in the queue.
LEMMA EnvFollows ==
  ASSUME DirectoryInv, FollowInv,
         \/ \E k \in Keys : ProviderDown(k) \/ \E p \in Params : ProviderUp(k, p)
         \/ \E p \in Params \cup {None} : RuleUp(p)
  PROVE  FollowInv'
PROOF
  <1> USE DirectoryAssumption
  <1>1. UNCHANGED <<cacheInvokersMap, new, revived>>
    BY DEF ProviderDown, ProviderUp, RuleUp, dirVars, subVars
  <1>2. registered \in [Keys -> Params \cup {None}]  BY DEF DirectoryInv, TypeOK
  <1>3. SUFFICES ASSUME NEW k \in Keys, registered'[k] = None PROVE (Gone(k) \/ Leaving(k))'
    BY <1>1 DEF FollowInv
  <1>4. registered[k] = None => Gone(k) \/ Leaving(k)  BY DEF FollowInv
  <1>5. ASSUME NEW l \in Keys, ProviderDown(l) PROVE (Gone(k) \/ Leaving(k))'
    <2>1. PICK e \in Events : Send(e) /\ e.key = l /\ e.type = "down"
      <3>1. [type |-> "down", key |-> l, param |-> None] \in Events  BY DEF Events
      <3> QED BY <1>5, <3>1 DEF ProviderDown
    <2>2. l = k \/ registered[k] = None  BY <1>2, <1>3, <1>5 DEF ProviderDown
    <2> QED BY <1>1, <1>4, <2>1, <2>2, SendFollows
  <1>6. ASSUME NEW l \in Keys, NEW p \in Params, ProviderUp(l, p)
        PROVE  (Gone(k) \/ Leaving(k))'
    <2>1. PICK e \in Events : Send(e) /\ e.key = l
      <3>1. [type |-> "up", key |-> l, param |-> p] \in Events  BY DEF Events
      <3> QED BY <1>6, <3>1 DEF ProviderUp
    <2>2. l # k /\ registered[k] = None  BY <1>2, <1>3, <1>6 DEF ProviderUp
    <2> QED BY <1>1, <1>4, <2>1, <2>2, SendFollows
  <1>7. ASSUME NEW p \in Params \cup {None}, RuleUp(p) PROVE (Gone(k) \/ Leaving(k))'
    <2>1. PICK e \in Events : Send(e) /\ e.key = None
      <3>1. [type |-> "rule", key |-> None, param |-> p] \in Events  BY DEF Events
      <3> QED BY <1>7, <3>1 DEF RuleUp
    <2>2. None # k /\ registered[k] = None  BY <1>3, <1>7 DEF RuleUp
    <2> QED BY <1>1, <1>4, <2>1, <2>2, SendFollows
  <1> QED BY <1>5, <1>6, <1>7

\* An event of k follows the one that says it went, and a rule revives.
LEMMA NotifyUpFollows ==
  ASSUME DirectoryInv, FollowInv, NotifyUp
  PROVE  FollowInv'
PROOF
  <1> USE DirectoryAssumption
  <1>1. PICK e \in Events : e = Head(queue)
    BY DEF NotifyUp, DirectoryInv, TypeOK
  <1>2. PICK u : u = IF e.type = "rule" THEN cacheOriginUrl
                     ELSE [key |-> e.key, param |-> e.param]
    OBVIOUS
  <1>3. /\ e.type \in {"up", "rule"} /\ at = "next"
        /\ revived' = IF e.type = "rule" THEN revived \cup {u.key} ELSE revived \ {u.key}
        /\ \/ new' = NoUrl
           \/ new'.key = u.key /\ u.key \notin Foreign
        /\ queue' = Tail(queue) /\ queue # <<>>
        /\ UNCHANGED <<registered, cacheInvokersMap>>
    BY <1>1, <1>2 DEF NotifyUp
  <1>4. new = NoUrl /\ NoUrl.key = None  BY <1>3 DEF DirectoryInv, TypeOK, NoUrl
  <1>5. e.type = "up" => u.key = e.key /\ e.key \in Keys  BY <1>2 DEF Events
  <1>6. ASSUME NEW k \in Keys, k \in Foreign PROVE cacheInvokersMap'[k] = None /\ new'.key # k
    BY <1>3, <1>4, <1>6 DEF FollowInv
  <1>7. ASSUME NEW k \in Keys, registered'[k] = None PROVE (Gone(k) \/ Leaving(k))'
    <2>1. Gone(k) \/ Leaving(k)  BY <1>3, <1>7 DEF FollowInv
    <2>2. CASE Leaving(k)  BY <1>1, <1>3, <2>2, TakeFollows
    <2>3. CASE Gone(k)
      <3>1. e.key # k /\ \A j \in 1..Len(queue') : queue'[j].key # k
        BY <1>1, <1>3, <2>3, TakeFollows
      <3>2. cacheInvokersMap'[k] # None => k \in revived'
        BY <1>3, <1>5, <2>3, <3>1 DEF Gone
      <3>3. new'.key = k => k \in revived'
        BY <1>3, <1>4, <1>5, <3>1
      <3> QED BY <3>1, <3>2, <3>3 DEF Gone
    <2> QED BY <2>1, <2>2, <2>3
  <1> QED BY <1>6, <1>7 DEF FollowInv

\* uncacheInvoker: the provider has gone, or comes and goes once more.
LEMMA NotifyDownFollows ==
  ASSUME DirectoryInv, FollowInv, NotifyDown
  PROVE  FollowInv'
PROOF
  <1> USE DirectoryAssumption
  <1>1. PICK l \in Keys : l = Head(queue).key
    BY DEF NotifyDown, DirectoryInv, TypeOK, Events
  <1>2. /\ at = "next" /\ queue # <<>> /\ queue' = Tail(queue)
        /\ cacheInvokersMap' = [cacheInvokersMap EXCEPT ![l] = None]
        /\ revived' = revived \ {l} /\ UNCHANGED <<registered, new>>
    BY <1>1 DEF NotifyDown
  <1>3. new = NoUrl /\ NoUrl.key = None  BY <1>2 DEF DirectoryInv, TypeOK, NoUrl
  <1>4. \A k \in Keys : cacheInvokersMap'[k] = IF k = l THEN None ELSE cacheInvokersMap[k]
    BY <1>2 DEF DirectoryInv, TypeOK
  <1>5. ASSUME NEW k \in Keys, k \in Foreign PROVE cacheInvokersMap'[k] = None /\ new'.key # k
    BY <1>2, <1>4, <1>5 DEF FollowInv
  <1>6. ASSUME NEW k \in Keys, registered'[k] = None PROVE (Gone(k) \/ Leaving(k))'
    <2>1. Gone(k) \/ Leaving(k)  BY <1>2, <1>6 DEF FollowInv
    <2>2. CASE Gone(k)
      <3>1. l # k /\ \A j \in 1..Len(queue') : queue'[j].key # k
        BY <1>1, <1>2, <2>2, TakeFollows
      <3> QED BY <1>2, <1>3, <1>4, <2>2, <3>1 DEF Gone
    <2>3. CASE Leaving(k)
      <3>1. \/ Leaving(k)'
            \/ l = k /\ \A j \in 1..Len(queue') : queue'[j].key # k
        BY <1>1, <1>2, <2>3, TakeFollows
      <3> QED BY <1>2, <1>3, <1>4, <3>1 DEF Gone
    <2> QED BY <2>1, <2>2, <2>3
  <1> QED BY <1>5, <1>6 DEF FollowInv

\* Refer caches what it was asked for.
LEMMA ReferFollows ==
  ASSUME DirectoryInv, FollowInv, NEW i \in Ivks, ReferOK(i)
  PROVE  FollowInv'
PROOF
  <1> USE DirectoryAssumption
  <1>1. PICK l \in Keys : l = new.key
    BY DEF ReferOK, DirectoryInv, TypeOK, Urls
  <1>2. /\ cacheInvokersMap' = [cacheInvokersMap EXCEPT ![l] = i] /\ new' = NoUrl
        /\ UNCHANGED <<registered, queue, revived>>
    BY <1>1 DEF ReferOK, envVars
  <1>3. NoUrl.key = None  BY DEF NoUrl
  <1>4. \A k \in Keys : cacheInvokersMap'[k] = IF k = l THEN i ELSE cacheInvokersMap[k]
    BY <1>2 DEF DirectoryInv, TypeOK
  <1>5. ASSUME NEW k \in Keys PROVE /\ Gone(k) => Gone(k)'
                                    /\ Leaving(k) => Leaving(k)'
    BY <1>1, <1>2, <1>3, <1>4 DEF Gone, Leaving
  <1>6. ASSUME NEW k \in Keys, k \in Foreign PROVE cacheInvokersMap'[k] = None /\ new'.key # k
    BY <1>1, <1>2, <1>3, <1>4, <1>6 DEF FollowInv
  <1> QED BY <1>2, <1>5, <1>6 DEF FollowInv

\* The other steps change neither the map nor the queue.
LEMMA QuietFollows ==
  ASSUME FollowInv, UNCHANGED <<registered, queue, cacheInvokersMap, revived>>,
         new' = new \/ new' = NoUrl
  PROVE  FollowInv'
PROOF
  <1>1. \A k \in Keys : new'.key = k => new.key = k
    BY DirectoryAssumption DEF NoUrl
  <1>2. \A k \in Keys : (Gone(k) => Gone(k)') /\ (Leaving(k) => Leaving(k)')
    BY <1>1 DEF Gone, Leaving
  <1> QED BY <1>1, <1>2 DEF FollowInv

\* The initial state satisfies the invariant of the queue.
LEMMA FollowInit == Init => FollowInv
PROOF
  <1> SUFFICES ASSUME Init PROVE FollowInv  OBVIOUS
  <1>1. Len(queue) = 0 /\ 1..0 = {}  BY DEF Init
  <1>2. \A k \in Keys : cacheInvokersMap[k] = None /\ new.key # k
    BY DirectoryAssumption DEF Init, NoUrl
  <1> QED BY <1>1, <1>2 DEF FollowInv, Gone

\* Every step keeps the invariant of the queue.
LEMMA FollowStep == DirectoryInv /\ FollowInv /\ [Next]_vars => FollowInv'
PROOF
  <1> SUFFICES ASSUME DirectoryInv, FollowInv, [Next]_vars PROVE FollowInv'  OBVIOUS
  <1>1. CASE SubscriptionStep
    <2>1. CASE ReferFails \/ Snapshot \/ Publish \/ DestroyOld
      BY <2>1, QuietFollows
      DEF ReferFails, Snapshot, Publish, DestroyOld, envVars, dirVars
    <2> QED BY <1>1, <2>1, NotifyUpFollows, NotifyDownFollows, ReferFollows
            DEF SubscriptionStep
  <1>2. CASE \/ \E c \in Listeners :
                  ListenerStep(c) \/ \E p \in Params \cup {None} : Process(c, p)
             \/ Destroy \/ \E i \in Ivks : DestroyOne(i)
    BY <1>2, QuietFollows
    DEF ListenerStep, ProcessSnapshot, ProcessPublish, Process, Destroy, DestroyOne,
        envVars, dirVars, subVars
  <1>3. CASE UNCHANGED vars  BY <1>3, QuietFollows DEF vars
  <1> QED BY <1>1, <1>2, <1>3, EnvFollows DEF Next

\* When every event of the registry has been handled, whoever has a cached invoker
\* is registered, but for what a rule has brought back, however many providers
\* come, change and go; and nobody was referred over a foreign protocol.
THEOREM CacheFollowsRegistry == Spec => []FollowsRegistry
PROOF
  <1>1. FollowInv => FollowsRegistry
    <2> SUFFICES ASSUME FollowInv, Settled PROVE FollowsRegistry  BY DEF FollowsRegistry
    <2>1. Len(queue) = 0 /\ 1..0 = {}  BY DEF Settled
    <2> QED BY <2>1 DEF FollowInv, FollowsRegistry, Gone, Leaving
  <1> QED BY InitInv, NextInv, FollowInit, FollowStep, <1>1, PTL DEF Spec

-----------------------------------------------------------------------------
(* KubeWatch, where the events of the directory come from in a Kubernetes  *)
(* cluster: its specification as an instance, with constants and variables *)
(* of its own.                                                             *)

CONSTANTS Providers, Self, Root, Refers, Subs, ChanSize
VARIABLES
  recs, dead, store, kubeQueue, ctxDone, cache, watchers, kubeAt, kubeTodo, targets, keyMap,
  list, loop, closeAt, toStop, known, crashed, view, missed

Kube == INSTANCE KubeWatch WITH queue <- kubeQueue, at <- kubeAt, todo <- kubeTodo

\* The instance has its own names for the operators on finite sets.
LEMMA KubeSetsAgree ==
  \A S : (Kube!IsFiniteSet(S) <=> IsFiniteSet(S)) /\ Kube!Cardinality(S) = Cardinality(S)
BY DEF Kube!IsFiniteSet, IsFiniteSet, Kube!Cardinality, Cardinality

\* The types of the values.
Types == {"create", "update", "delete"}
KubeEvents == [type : Types, key : Kube!Keys]
Items == [type : Types, recs : Seq(Kube!Keys)]
Watchers == [key : Kube!Loops, ch : Seq(KubeEvents), exit : BOOLEAN]
LoopPoints == {"off", "valid", "add", "select", "end"}

\* The pods and the queue: a provider has two records at most.
PodsInv ==
  /\ recs \in [Kube!Pods -> Nat] /\ store \in [Kube!Pods -> Nat] /\ dead \subseteq Providers
  /\ \A p \in Providers : recs[p] <= 2 /\ store[p] <= 2
  /\ kubeQueue \in Seq(Items)

\* The watcher set and its readers.
SetInv ==
  /\ cache \subseteq Kube!Keys /\ watchers \in Seq(Watchers)
  /\ view \in Seq(SUBSET Kube!Keys) /\ Len(view) = Len(watchers)
  /\ \A i \in DOMAIN watchers : Len(watchers[i].ch) <= ChanSize
  /\ loop \in [Kube!Loops -> [at : LoopPoints, w : Nat]]
  /\ \A l \in Kube!Loops : loop[l].w \in {0} \cup DOMAIN watchers

\* The threads: who puts has an event to put, and who is not in Put's loop has nobody
\* to send it to.
ThreadsInv ==
  /\ kubeAt \in [Kube!Threads -> Kube!ThreadPoints]
  /\ kubeTodo \in [Kube!Threads -> Seq(KubeEvents)]
  /\ targets \in [Kube!Threads -> SUBSET Nat]
  /\ list \in [Subs -> SUBSET Kube!Keys] /\ known \subseteq Providers
  /\ missed \subseteq Providers
  /\ \A t \in Kube!Threads :
       /\ kubeAt[t] \in {"put", "send"} => kubeTodo[t] # <<>>
       /\ kubeAt[t] # "send" => targets[t] = {}
  /\ \A t, u \in Kube!Threads : kubeAt[t] = "send" /\ kubeAt[u] = "send" => t = u

\* The pod of the consumer gets a record from each of its references, once.
SelfInv == recs[Self] <= Cardinality({t \in Refers : kubeAt[t] # "create"})

\* The last part of WatchersInv, of a watcher and a key.
Follows(i, k) ==
  ~watchers[i].exit /\ (watchers[i].key = "prefix" \/ k = Root) =>
    (Kube!KnownAfter(Kube!Stream(i), view[i], k) <=> k \in cache)

ViewsInv == \A i \in DOMAIN watchers, k \in Kube!Keys : Follows(i, k)

\* The inductive invariant.
KubeInv == PodsInv /\ SetInv /\ ThreadsInv /\ SelfInv /\ ViewsInv

-----------------------------------------------------------------------------
(* What is known after a sequence of events.                               *)

\* After no event: what was known before.
LEMMA KnownEmpty == ASSUME NEW C, NEW k PROVE Kube!KnownAfter(<<>>, C, k) <=> k \in C
  BY DEF Kube!KnownAfter

\* After one event more: what it tells, or else what was known before it.
LEMMA KnownAppend ==
  ASSUME NEW s \in Seq(KubeEvents), NEW e \in KubeEvents, NEW C, NEW k
  PROVE  Kube!KnownAfter(Append(s, e), C, k)
           <=> IF e.key = k THEN e.type # "delete"
               ELSE Kube!KnownAfter(s, C, k)
<1> DEFINE a == Append(s, e)
           n == Len(s) + 1
           Old == {i \in DOMAIN s : s[i].key = k}
           New == {i \in DOMAIN a : a[i].key = k}
<1>1. /\ Len(s) \in Nat /\ DOMAIN s = 1..Len(s) /\ DOMAIN a = 1..n /\ a[n] = e
      /\ \A i \in 1..Len(s) : a[i] = s[i]
  OBVIOUS
<1>2. CASE e.key = k
  <2>1. n \in New /\ \A i \in New : i <= n  BY <1>1, <1>2
  <2>2. \A i \in New : (\A j \in New : j <= i) => i = n  BY <2>1, <1>1
  <2> HIDE DEF n, a
  <2> QED  BY <2>1, <2>2, <1>1, <1>2 DEF Kube!KnownAfter, New, a
<1>3. CASE e.key # k
  <2>1. New = Old  BY <1>1, <1>3
  <2>2. \A i \in Old : a[i] = s[i]  BY <1>1
  <2> HIDE DEF n, a
  <2> QED  BY <2>1, <2>2, <1>3 DEF Kube!KnownAfter, New, Old, a
<1> QED  BY <1>2, <1>3

\* Whoever applies the first event and then reads the others knows the same.
LEMMA KnownTail ==
  ASSUME NEW s \in Seq(KubeEvents), s # <<>>, NEW C, NEW k
  PROVE  Kube!KnownAfter(Tail(s), Kube!Apply(Head(s), C), k) <=> Kube!KnownAfter(s, C, k)
<1> DEFINE r == Tail(s)
           Old == {i \in DOMAIN s : s[i].key = k}
           New == {i \in DOMAIN r : r[i].key = k}
<1>1. /\ Len(s) \in Nat \ {0} /\ DOMAIN s = 1..Len(s) /\ DOMAIN r = 1..(Len(s) - 1)
      /\ \A i \in 1..(Len(s) - 1) : r[i] = s[i + 1]
      /\ Head(s) = s[1]
  OBVIOUS
<1>2. /\ \A i \in New : i \in Nat /\ i + 1 \in Old /\ r[i] = s[i + 1]
      /\ \A i \in Old : i \in Nat /\ (i = 1 \/ (i - 1 \in New /\ r[i - 1] = s[i]))
      /\ \A i \in Old : i >= 1
  BY <1>1
<1>3. 1 \in Old <=> Head(s).key = k  BY <1>1
<1>4. CASE New = {}
  <2>1. Kube!KnownAfter(r, Kube!Apply(Head(s), C), k) <=> k \in Kube!Apply(Head(s), C)
    BY <1>4 DEF Kube!KnownAfter
  <2>2. Old \subseteq {1}  BY <1>2, <1>4
  <2>3. CASE Head(s).key = k
    <3>1. Old = {1}  BY <2>2, <2>3, <1>3
    <3>2. Kube!KnownAfter(s, C, k) <=> Head(s).type # "delete"
      BY <3>1, <1>1 DEF Kube!KnownAfter
    <3> QED  BY <3>2, <2>1, <2>3 DEF Kube!Apply
  <2>4. CASE Head(s).key # k
    <3>1. Old = {}  BY <2>2, <2>4, <1>3
    <3> QED  BY <3>1, <2>1, <2>4 DEF Kube!Apply, Kube!KnownAfter
  <2> QED  BY <2>3, <2>4
<1>5. CASE New # {}
  <2>1. Old # {}  BY <1>2, <1>5
  <2>2. Kube!KnownAfter(s, C, k)
        <=> \E i \in Old : (\A j \in Old : j <= i) /\ s[i].type # "delete"
    BY <2>1 DEF Kube!KnownAfter
  <2>3. Kube!KnownAfter(r, Kube!Apply(Head(s), C), k)
          <=> \E i \in New : (\A j \in New : j <= i) /\ r[i].type # "delete"
    BY <1>5 DEF Kube!KnownAfter
  <2> HIDE DEF New, Old, r
  <2>4. ASSUME NEW i \in New, \A j \in New : j <= i
        PROVE  /\ i + 1 \in Old /\ r[i] = s[i + 1]
               /\ \A j \in Old : j <= i + 1
    BY <2>4, <1>2
  <2>5. ASSUME NEW i \in Old, \A j \in Old : j <= i
        PROVE  /\ i - 1 \in New /\ r[i - 1] = s[i]
               /\ \A j \in New : j <= i - 1
    <3>1. PICK m \in New : TRUE  BY <1>5
    <3>2. m + 1 \in Old /\ m \in Nat /\ m >= 1  BY <1>2, <1>1 DEF New
    <3>3. i # 1  BY <3>2, <2>5, <1>2
    <3>4. i - 1 \in New /\ r[i - 1] = s[i] /\ i \in Nat  BY <3>3, <1>2
    <3>5. ASSUME NEW j \in New PROVE j <= i - 1
      <4>1. j \in Nat /\ j + 1 \in Old  BY <1>2
      <4>2. j + 1 <= i  BY <4>1, <2>5
      <4> QED  BY <4>1, <4>2, <3>4
    <3> QED  BY <3>4, <3>5
  <2>6. ASSUME NEW i \in Old, \A j \in Old : j <= i, s[i].type # "delete"
        PROVE  \E h \in New : (\A j \in New : j <= h) /\ r[h].type # "delete"
    BY <2>5, <2>6
  <2>7. ASSUME NEW i \in New, \A j \in New : j <= i, r[i].type # "delete"
        PROVE  \E h \in Old : (\A j \in Old : j <= h) /\ s[h].type # "delete"
    BY <2>4, <2>7
  <2> QED  BY <2>2, <2>3, <2>6, <2>7 DEF r
<1> QED  BY <1>4, <1>5

-----------------------------------------------------------------------------
(* The parts that a step leaves alone.                                     *)

\* Of the pods and the queue.
LEMMA PodsFrame ==
  ASSUME KubeInv, UNCHANGED Kube!podVars  PROVE PodsInv'
  BY DEF KubeInv, PodsInv, Kube!podVars

\* Of the watcher set and its readers.
LEMMA SetFrame ==
  ASSUME KubeInv, UNCHANGED <<Kube!setVars, loop>>  PROVE SetInv'
  BY DEF KubeInv, SetInv, Kube!setVars

\* Of the threads.
LEMMA ThreadsFrame ==
  ASSUME KubeInv, UNCHANGED <<Kube!threadVars, Kube!subVars, known, missed>>  PROVE ThreadsInv'
  BY DEF KubeInv, ThreadsInv, Kube!threadVars, Kube!subVars

\* Of the records of the consumer.
LEMMA SelfFrame ==
  ASSUME KubeInv, UNCHANGED <<recs, kubeAt>>  PROVE SelfInv'
  BY DEF KubeInv, SelfInv

\* Of the streams of the watchers.
LEMMA FollowFrame ==
  ASSUME KubeInv, UNCHANGED <<Kube!setVars, targets, kubeTodo>>  PROVE ViewsInv'
  BY DEF KubeInv, ViewsInv, Follows, Kube!Stream, Kube!setVars

-----------------------------------------------------------------------------
(* The steps of the pods and of the informer.                              *)

\* A pod's records are keys.
LEMMA RecordsAre ==
  ASSUME NEW p \in Kube!Pods, NEW n \in Nat, p \in Providers => n <= 2
  PROVE  Kube!Records(p, n) \in Seq(Kube!Keys)
<1>1. CASE p = Self
  <2> DEFINE s == [i \in 1..n |-> Root]
  <2>1. s \in Seq(Kube!Keys) /\ Len(s) = n  BY DEF Kube!Keys
  <2>2. Kube!Records(p, n) = SubSeq(s, 1, n)  BY <1>1 DEF Kube!Records
  <2> HIDE DEF s
  <2> QED  BY <2>1, <2>2
<1>2. CASE p # Self
  <2>1. p \in Providers /\ n <= 2  BY <1>2 DEF Kube!Pods
  <2> DEFINE s == <<Root, p>>
  <2>2. s \in Seq(Kube!Keys) /\ Len(s) = 2  BY <2>1 DEF Kube!Keys
  <2>3. Kube!Records(p, n) = SubSeq(s, 1, n)  BY <1>2 DEF Kube!Records
  <2> HIDE DEF s
  <2> QED  BY <2>1, <2>2, <2>3
<1> QED  BY <1>1, <1>2

\* A provider adds a record.
LEMMA PodChangesKeeps ==
  ASSUME Kube!Parameters, KubeInv, NEW p \in Providers, Kube!PodChanges(p)  PROVE KubeInv'
<1> USE DEF Kube!PodChanges
<1>1. PodsInv'  BY DEF KubeInv, PodsInv, Kube!Pods
<1>2. recs'[Self] = recs[Self] /\ kubeAt' = kubeAt
  BY DEF KubeInv, PodsInv, Kube!Pods, Kube!threadVars, Kube!Parameters
<1>3. SelfInv'  BY <1>2 DEF KubeInv, SelfInv
<1>4. UNCHANGED <<Kube!setVars, loop, Kube!threadVars, Kube!subVars, known, missed, targets,
                  kubeTodo>>
  BY DEF Kube!threadVars
<1> QED  BY <1>1, <1>3, <1>4, SetFrame, ThreadsFrame, FollowFrame DEF KubeInv

\* A provider is gone.
LEMMA PodDiesKeeps ==
  ASSUME KubeInv, NEW p \in Providers, Kube!PodDies(p)  PROVE KubeInv'
<1> USE DEF Kube!PodDies
<1>1. PodsInv'  BY DEF KubeInv, PodsInv
<1>2. UNCHANGED <<Kube!setVars, loop, Kube!threadVars, Kube!subVars, known, missed, targets,
                  kubeTodo, recs, kubeAt>>
  BY DEF Kube!threadVars
<1> QED  BY <1>1, <1>2, SetFrame, ThreadsFrame, SelfFrame, FollowFrame DEF KubeInv

\* The informer queues what it learns, and every record it queues is a key.
LEMMA InformerKeeps ==
  ASSUME KubeInv, NEW p \in Kube!Pods, Kube!Informer(p)  PROVE KubeInv'
<1>1. PICK n \in Nat : Kube!Informed(p, n) /\ (p \in Providers => n <= 2)
  BY DEF Kube!Informer, Kube!addPod, Kube!updatePod, Kube!deletePod, KubeInv, PodsInv
<1>2. kubeQueue' \in Seq(Items)
  <2>1. ASSUME NEW t \in Types, NEW m \in Nat, p \in Providers => m <= 2, Kube!Add(p, t, m)
        PROVE  kubeQueue' \in Seq(Items)
    <3>1. Kube!Records(p, m) \in Seq(Kube!Keys)  BY <2>1, RecordsAre
    <3>2. [type |-> t, recs |-> Kube!Records(p, m)] \in Items  BY <3>1 DEF Items
    <3> QED  BY <2>1, <3>2 DEF Kube!Add, KubeInv, PodsInv
  <2>2. recs[p] \in Nat /\ store[p] \in Nat
        /\ (p \in Providers => recs[p] <= 2 /\ store[p] <= 2)
    BY DEF KubeInv, PodsInv
  <2> QED
    BY <2>1, <2>2 DEF Kube!Informer, Kube!addPod, Kube!updatePod, Kube!deletePod, KubeInv,
                      PodsInv, Types
<1>3. PodsInv'  BY <1>1, <1>2 DEF Kube!Informed, KubeInv, PodsInv, Kube!Pods
<1>4. UNCHANGED <<Kube!setVars, loop, Kube!threadVars, Kube!subVars, known, missed, targets,
                  kubeTodo, recs, kubeAt>>
  BY <1>1 DEF Kube!Informed, Kube!threadVars
<1> QED  BY <1>3, <1>4, SetFrame, ThreadsFrame, SelfFrame, FollowFrame DEF KubeInv

-----------------------------------------------------------------------------
(* The steps of the threads.                                               *)

\* A thread that has registered does not register again.
LEMMA SelfKept ==
  ASSUME Kube!Parameters, KubeInv, recs' = recs,
         \A t \in Refers : kubeAt[t] # "create" => kubeAt'[t] # "create"
  PROVE  SelfInv'
<1> DEFINE A == {t \in Refers : kubeAt[t] # "create"}
           B == {t \in Refers : kubeAt'[t] # "create"}
<1>0. IsFiniteSet(Refers)  BY KubeSetsAgree DEF Kube!Parameters
<1>1. IsFiniteSet(B) /\ A \subseteq B  BY <1>0, FS_Subset
<1>2. Cardinality(A) <= Cardinality(B)  BY <1>1, FS_Subset
<1>3. IsFiniteSet(A)  BY <1>1, FS_Subset
<1>4. Cardinality(A) \in Nat /\ Cardinality(B) \in Nat  BY <1>1, <1>3, FS_CardinalityType
<1>5. recs[Self] \in Nat  BY DEF KubeInv, PodsInv, Kube!Pods
<1> QED  BY <1>2, <1>4, <1>5 DEF KubeInv, SelfInv

\* What a thread has to put concerns no watcher until it is in Put's loop.
LEMMA FollowTodo ==
  ASSUME KubeInv, UNCHANGED <<Kube!setVars, targets>>,
         \A t \in Kube!Threads : kubeAt[t] = "send" => kubeTodo'[t] = kubeTodo[t]
  PROVE  ViewsInv'
<1>1. ASSUME NEW i \in DOMAIN watchers  PROVE Kube!Stream(i)' = Kube!Stream(i)
  <2> DEFINE P == {t \in Kube!Threads : i \in targets[t]}
             c == CHOOSE t \in P : TRUE
  <2>1. P' = P /\ c' = c  OBVIOUS
  <2>2. CASE P = {}  BY <2>1, <2>2 DEF Kube!Stream, Kube!setVars
  <2>3. CASE P # {}
    <3>1. c \in P  BY <2>3
    <3>2. kubeAt[c] = "send" /\ c \in Kube!Threads  BY <3>1 DEF KubeInv, ThreadsInv
    <3>3. kubeTodo'[c] = kubeTodo[c]  BY <3>2
    <3> QED  BY <2>1, <2>3, <3>3 DEF Kube!Stream, Kube!setVars
  <2> QED  BY <2>2, <2>3
<1> QED  BY <1>1 DEF KubeInv, ViewsInv, Follows, Kube!setVars

\* The worker starts.
LEMMA SyncKeeps == ASSUME Kube!Parameters, KubeInv, Kube!Sync  PROVE KubeInv'
<1> USE DEF Kube!Sync
<1>1. kubeAt' \in [Kube!Threads -> Kube!ThreadPoints] /\ kubeAt[Kube!Worker] = "sync"
      /\ kubeAt'[Kube!Worker] \in {"get", "end"}
      /\ \A t \in Kube!Threads : t # Kube!Worker => kubeAt'[t] = kubeAt[t]
  BY DEF Kube!Goto, KubeInv, ThreadsInv, Kube!ThreadPoints, Kube!Threads
<1>2. ThreadsInv'  BY <1>1 DEF KubeInv, ThreadsInv, Kube!subVars
<1>3. SelfInv'  BY <1>1, SelfKept DEF Kube!podVars, Kube!Threads
<1>4. UNCHANGED <<Kube!podVars, Kube!setVars, loop, targets, kubeTodo>>  OBVIOUS
<1> QED  BY <1>2, <1>3, <1>4, PodsFrame, SetFrame, FollowFrame DEF KubeInv

\* The worker takes an item, and has its records to put.
LEMMA WorkKeeps == ASSUME Kube!Parameters, KubeInv, Kube!processNextWorkItem  PROVE KubeInv'
<1> USE DEF Kube!processNextWorkItem
<1> USE DEF KubeInv
<1>1. kubeQueue' \in Seq(Items) /\ kubeTodo' \in [Kube!Threads -> Seq(KubeEvents)]
      /\ kubeAt' \in [Kube!Threads -> Kube!ThreadPoints] /\ kubeAt[Kube!Worker] = "get"
      /\ kubeAt'[Kube!Worker] \in {"get", "put", "end"}
      /\ (kubeAt'[Kube!Worker] = "put" => kubeTodo'[Kube!Worker] # <<>>)
      /\ \A t \in Kube!Threads : t # Kube!Worker
         => kubeAt'[t] = kubeAt[t] /\ kubeTodo'[t] = kubeTodo[t]
  <2>1. CASE kubeQueue # <<>>
    <3> DEFINE item == Head(kubeQueue)
               L == [i \in DOMAIN item.recs |-> Kube!Event(item.type, item.recs[i])]
    <3>1. item \in Items  BY <2>1 DEF PodsInv
    <3>2. L \in Seq(KubeEvents)
      <4>1. item.recs \in Seq(Kube!Keys) /\ item.type \in Types  BY <3>1 DEF Items
      <4>2. DOMAIN item.recs = 1..Len(item.recs) /\ Len(item.recs) \in Nat  BY <4>1
      <4>3. \A i \in 1..Len(item.recs) : Kube!Event(item.type, item.recs[i]) \in KubeEvents
        BY <4>1 DEF KubeEvents, Kube!Event
      <4> QED  BY <4>2, <4>3
    <3>3. kubeQueue' = Tail(kubeQueue) /\ kubeTodo' = [kubeTodo EXCEPT ![Kube!Worker] = L]
          /\ kubeAt' = [kubeAt EXCEPT ![Kube!Worker] = IF L # <<>> THEN "put" ELSE "get"]
             /\ kubeAt[Kube!Worker] = "get"
      BY <2>1 DEF Kube!Goto, Kube!After
    <3> HIDE DEF L, item
    <3>4. kubeQueue' \in Seq(Items)  BY <3>3, <2>1 DEF PodsInv
    <3> QED  BY <3>2, <3>3, <3>4 DEF ThreadsInv, Kube!ThreadPoints, Kube!Threads
  <2>2. CASE kubeQueue = <<>>
    BY <2>2 DEF Kube!Goto, PodsInv, ThreadsInv, Kube!ThreadPoints, Kube!Threads
  <2> QED  BY <2>1, <2>2
<1>2. UNCHANGED <<recs, dead, store, Kube!setVars, loop, targets, Kube!subVars, known, missed>>
  OBVIOUS
<1>3. PodsInv'  BY <1>1, <1>2 DEF PodsInv
<1>4. ThreadsInv'
  <2>1. \A t \in Kube!Threads : kubeAt'[t] = "send" => kubeAt[t] = "send" /\ t # Kube!Worker
    BY <1>1
  <2>2. \A t \in Kube!Threads : kubeAt'[t] \in {"put", "send"} => kubeTodo'[t] # <<>>
    BY <1>1 DEF ThreadsInv
  <2>3. \A t \in Kube!Threads : kubeAt'[t] # "send" => targets'[t] = {}
    BY <1>1, <1>2 DEF ThreadsInv
  <2> QED  BY <1>1, <1>2, <2>1, <2>2, <2>3 DEF ThreadsInv, Kube!subVars
<1>5. SelfInv'  BY <1>1, <1>2, SelfKept DEF Kube!Threads
<1>6. ViewsInv'  BY <1>1, <1>2, FollowTodo
<1> QED  BY <1>2, <1>3, <1>4, <1>5, <1>6, SetFrame

\* Of each watcher there is a view.
LEMMA WatcherIs ==
  ASSUME KubeInv, NEW i \in DOMAIN watchers
  PROVE  /\ watchers[i] \in Watchers /\ watchers[i].ch \in Seq(KubeEvents)
         /\ i \in DOMAIN view /\ view[i] \subseteq Kube!Keys
<1>1. watchers[i] \in Watchers  BY DEF KubeInv, SetInv
<1> QED  BY <1>1 DEF KubeInv, SetInv, Watchers

\* What is sent to a watcher that nobody sends to, and to one that t sends to.
LEMMA StreamIs ==
  ASSUME NEW i
  PROVE  /\ (\A t \in Kube!Threads : i \notin targets[t]) => Kube!Stream(i) = watchers[i].ch
         /\ \A t \in Kube!Threads :
              i \in targets[t] /\ (\A u \in Kube!Threads : i \in targets[u] => u = t) =>
                Kube!Stream(i) = Append(watchers[i].ch, Head(kubeTodo[t]))
<1> DEFINE P == {t \in Kube!Threads : i \in targets[t]}
<1>1. CASE P = {}  BY <1>1 DEF Kube!Stream
<1>2. ASSUME NEW t \in Kube!Threads, i \in targets[t],
             \A u \in Kube!Threads : i \in targets[u] => u = t
      PROVE  Kube!Stream(i) = Append(watchers[i].ch, Head(kubeTodo[t]))
  <2>1. P = {t}  BY <1>2
  <2>2. (CHOOSE u \in P : TRUE) = t  BY <2>1
  <2> QED  BY <2>1, <2>2 DEF Kube!Stream
<1> QED  BY <1>1, <1>2

\* A thread that is not in Put's loop, and goes on to no such place.
LEMMA ThreadMoves ==
  ASSUME KubeInv, NEW t \in Kube!Threads, NEW p \in Kube!ThreadPoints \ {"send"},
         NEW d \in Seq(KubeEvents),
         p = "put" => d # <<>>,
         Kube!Goto(t, p), kubeTodo' = [kubeTodo EXCEPT ![t] = d], targets'[t] = {},
         targets' \in [Kube!Threads -> SUBSET Nat],
         \A u \in Kube!Threads \ {t} : targets'[u] = targets[u],
         UNCHANGED <<list, known>>, missed' \subseteq Providers
  PROVE  ThreadsInv'
<1>1. kubeAt' \in [Kube!Threads -> Kube!ThreadPoints]
      /\ kubeTodo' \in [Kube!Threads -> Seq(KubeEvents)]
      /\ kubeAt'[t] = p /\ kubeTodo'[t] = d
      /\ \A u \in Kube!Threads \ {t} : kubeAt'[u] = kubeAt[u] /\ kubeTodo'[u] = kubeTodo[u]
  BY DEF Kube!Goto, KubeInv, ThreadsInv
<1> QED  BY <1>1 DEF KubeInv, ThreadsInv

\* Where a thread goes after an event is not into the loop of Put.
LEMMA AfterIs ==
  ASSUME NEW t, NEW d
  PROVE  /\ Kube!After(t, d) \in Kube!ThreadPoints \ {"send", "create"}
         /\ Kube!After(t, d) = "put" => d # <<>>
  BY DEF Kube!After, Kube!ThreadPoints

\* Put: nobody is in its loop, so what a watcher has been sent is in its channel; the
\* event becomes the end of the stream of just those whom it concerns.
LEMMA PutKeeps ==
  ASSUME Kube!Parameters, KubeInv, NEW t \in Kube!Threads, Kube!Put(t)  PROVE KubeInv'
<1> DEFINE e == Head(kubeTodo[t])
           rest == Tail(kubeTodo[t])
           W == Kube!Interested(e.key)
<1>1. kubeAt[t] = "put" /\ kubeTodo[t] # <<>> /\ e \in KubeEvents /\ rest \in Seq(KubeEvents)
      /\ e.key \in Kube!Keys /\ kubeTodo[t] \in Seq(KubeEvents)
  <2>1. kubeAt[t] = "put" /\ kubeTodo[t] # <<>> /\ kubeTodo[t] \in Seq(KubeEvents)
    BY DEF Kube!Put, KubeInv, ThreadsInv
  <2>2. e \in KubeEvents /\ rest \in Seq(KubeEvents)  BY <2>1
  <2> QED  BY <2>1, <2>2 DEF KubeEvents
<1>2. \A u \in Kube!Threads : targets[u] = {} /\ kubeAt[u] # "send"
  BY DEF Kube!Put, Kube!Unlocked, KubeInv, ThreadsInv
<1>3. UNCHANGED <<Kube!podVars, watchers, view, list, known, loop>> /\ recs' = recs
  BY DEF Kube!Put, Kube!podVars, Kube!subVars
<1>4. ASSUME NEW d \in Seq(KubeEvents), Kube!Goto(t, Kube!After(t, d)),
             kubeTodo' = [kubeTodo EXCEPT ![t] = d],
             UNCHANGED <<cache, targets, missed>>
      PROVE  KubeInv'
  <2>1. Kube!After(t, d) \in Kube!ThreadPoints \ {"send", "create"}
        /\ (Kube!After(t, d) = "put" => d # <<>>)
    BY AfterIs
  <2>2. ThreadsInv'
    <3>1. targets'[t] = {} /\ targets' \in [Kube!Threads -> SUBSET Nat]
          /\ missed' \subseteq Providers
          /\ \A u \in Kube!Threads \ {t} : targets'[u] = targets[u]
      BY <1>2, <1>4 DEF KubeInv, ThreadsInv
    <3> QED  BY <1>3, <1>4, <2>1, <3>1, ThreadMoves
  <2>3. SelfInv'
    <3>1. \A u \in Refers : kubeAt[u] # "create" => kubeAt'[u] # "create"
      BY <1>4, <2>1 DEF Kube!Goto, KubeInv, ThreadsInv, Kube!Threads
    <3> QED  BY <3>1, <1>3, SelfKept
  <2>4. UNCHANGED Kube!setVars  BY <1>3, <1>4 DEF Kube!setVars
  <2>5. ViewsInv'  BY <1>2, <1>4, <2>4, FollowTodo
  <2> QED  BY <1>3, <2>2, <2>3, <2>4, <2>5, PodsFrame, SetFrame DEF KubeInv
<1>5. ASSUME cache' = IF e.type = "delete" THEN cache \ {e.key} ELSE cache \cup {e.key},
             targets' = [targets EXCEPT ![t] = W],
             Kube!Goto(t, IF W = {} THEN Kube!After(t, rest) ELSE "send"),
             kubeTodo' = [kubeTodo EXCEPT ![t] = IF W = {} THEN rest ELSE kubeTodo[t]],
             missed' = IF e.type # "delete" /\ e.key # Root /\ ~Kube!WillRead
                         THEN missed \cup {e.key} ELSE missed
      PROVE  KubeInv'
  <2>1. W \subseteq DOMAIN watchers /\ W \subseteq Nat
    BY DEF Kube!Interested, KubeInv, SetInv
  <2>2. /\ targets' \in [Kube!Threads -> SUBSET Nat] /\ targets'[t] = W
        /\ \A u \in Kube!Threads \ {t} : targets'[u] = {}
    BY <1>2, <1>5, <2>1 DEF KubeInv, ThreadsInv
  <2>3. missed' \subseteq Providers
    BY <1>1, <1>5 DEF KubeInv, ThreadsInv, Kube!Keys
  <2>4. SetInv'  BY <1>1, <1>3, <1>5 DEF KubeInv, SetInv
  <2>5. /\ Kube!After(t, rest) \in Kube!ThreadPoints \ {"send", "create"}
        /\ Kube!After(t, rest) = "put" => rest # <<>>
    BY AfterIs
  <2>6. SelfInv'
    <3>1. \A u \in Refers : kubeAt[u] # "create" => kubeAt'[u] # "create"
      BY <1>5, <2>5 DEF Kube!Goto, KubeInv, ThreadsInv, Kube!Threads
    <3> QED  BY <3>1, <1>3, SelfKept
  <2>7. ThreadsInv'
    <3>1. CASE W = {}
      <4>1. Kube!Goto(t, Kube!After(t, rest)) /\ kubeTodo' = [kubeTodo EXCEPT ![t] = rest]
        BY <1>5, <3>1
      <4>2. \A u \in Kube!Threads \ {t} : targets'[u] = targets[u]  BY <1>2, <2>2
      <4> HIDE DEF W, rest, e
      <4> QED  BY <3>1, <4>1, <4>2, <1>1, <1>3, <2>2, <2>3, <2>5, ThreadMoves
    <3>2. CASE W # {}
      <4>1. kubeAt' = [kubeAt EXCEPT ![t] = "send"] /\ kubeTodo' = kubeTodo
        BY <1>5, <3>2 DEF Kube!Goto, KubeInv, ThreadsInv
      <4>2. \A u \in Kube!Threads : kubeAt'[u] = IF u = t THEN "send" ELSE kubeAt[u]
        BY <4>1 DEF KubeInv, ThreadsInv
      <4>3. kubeAt' \in [Kube!Threads -> Kube!ThreadPoints]
        BY <4>1 DEF KubeInv, ThreadsInv, Kube!ThreadPoints
      <4> HIDE DEF W, rest, e
      <4> QED  BY <4>1, <4>2, <4>3, <1>1, <1>2, <1>3, <2>2, <2>3 DEF KubeInv, ThreadsInv
    <3> QED  BY <3>1, <3>2
  <2>8. ASSUME NEW i \in DOMAIN watchers, NEW k \in Kube!Keys  PROVE Follows(i, k)'
    <3>1. Kube!Stream(i) = watchers[i].ch  BY <1>2, StreamIs
    <3>2. k \in cache' <=> IF e.key = k THEN e.type # "delete" ELSE k \in cache  BY <1>5
    <3>3. Follows(i, k)  BY DEF KubeInv, ViewsInv
    <3>4. CASE i \in W
      <4>1. kubeTodo' = kubeTodo  BY <3>4, <1>5 DEF KubeInv, ThreadsInv
      <4>2. i \in targets'[t] /\ \A u \in Kube!Threads : i \in targets'[u] => u = t
        BY <2>2, <3>4
      <4>3. {u \in Kube!Threads : i \in targets'[u]} = {t}  BY <4>2
      <4>4. Kube!Stream(i)' = Append(watchers[i].ch, e)
        <5>1. (CHOOSE u \in {u \in Kube!Threads : i \in targets'[u]} : TRUE) = t  BY <4>3
        <5> QED  BY <5>1, <4>1, <4>3, <1>3 DEF Kube!Stream
      <4>5. watchers[i].ch \in Seq(KubeEvents)  BY WatcherIs
      <4>6. Kube!KnownAfter(Append(watchers[i].ch, e), view[i], k)
              <=> IF e.key = k THEN e.type # "delete"
                  ELSE Kube!KnownAfter(watchers[i].ch, view[i], k)
        BY <4>5, <1>1, KnownAppend
      <4> HIDE DEF e, W
      <4>7. Kube!KnownAfter(Kube!Stream(i)', view'[i], k)
              <=> IF e.key = k THEN e.type # "delete"
                  ELSE Kube!KnownAfter(Kube!Stream(i), view[i], k)
        BY <4>4, <4>6, <3>1, <1>3
      <4> QED  BY <4>7, <3>2, <3>3, <1>3 DEF Follows
    <3>5. CASE i \notin W
      <4>1. {u \in Kube!Threads : i \in targets'[u]} = {}  BY <2>2, <3>5
      <4>2. Kube!Stream(i)' = watchers[i].ch  BY <4>1, <1>3 DEF Kube!Stream
      <4>3. watchers[i].key # "prefix" /\ e.key # Root  BY <3>5 DEF Kube!Interested
      <4> HIDE DEF e, W
      <4>4. k = Root => (k \in cache' <=> k \in cache)  BY <3>2, <4>3
      <4>5. Kube!KnownAfter(Kube!Stream(i)', view'[i], k)
            <=> Kube!KnownAfter(Kube!Stream(i), view[i], k)
        BY <4>2, <3>1, <1>3
      <4> QED  BY <4>3, <4>4, <4>5, <3>3, <1>3 DEF Follows
    <3> QED  BY <3>4, <3>5
  <2>9. ViewsInv'  BY <2>8, <1>3 DEF ViewsInv
  <2> QED  BY <1>3, <2>4, <2>6, <2>7, <2>9, PodsFrame DEF KubeInv
<1>6. CASE ctxDone
  <2>1. <<>> \in Seq(KubeEvents)  OBVIOUS
  <2>2. Kube!Goto(t, Kube!After(t, <<>>)) /\ kubeTodo' = [kubeTodo EXCEPT ![t] = <<>>]
        /\ UNCHANGED <<cache, targets, missed>>
    BY <1>6 DEF Kube!Put
  <2> QED  BY <2>1, <2>2, <1>4
<1>7. CASE ~ctxDone /\ (e.type # "delete" /\ e.key \in cache)
  BY <1>7, <1>4, <1>1 DEF Kube!Put
<1>8. CASE ~ctxDone /\ ~(e.type # "delete" /\ e.key \in cache)
  BY <1>8, <1>5, <1>1 DEF Kube!Put, KubeInv, ThreadsInv
<1> QED  BY <1>6, <1>7, <1>8

\* blockSendMsg: the event that was about to be sent to the watcher is in its channel.
LEMMA SendKeeps ==
  ASSUME Kube!Parameters, KubeInv, NEW t \in Kube!Threads, NEW i \in DOMAIN watchers,
         Kube!blockSendMsg(t, i)
  PROVE  KubeInv'
<1> DEFINE e == Head(kubeTodo[t])
           evt == Kube!Event(IF e.type = "delete" THEN "delete" ELSE "create", e.key)
           ch == watchers[i].ch
<1>1. kubeAt[t] = "send" /\ i \in targets[t] /\ kubeTodo[t] \in Seq(KubeEvents)
      /\ kubeTodo[t] # <<>>
  BY DEF Kube!blockSendMsg, KubeInv, ThreadsInv
<1>2. e \in KubeEvents /\ Tail(kubeTodo[t]) \in Seq(KubeEvents)  BY <1>1
<1>3. evt \in KubeEvents /\ evt.key = e.key /\ (evt.type = "delete" <=> e.type = "delete")
  BY <1>2 DEF KubeEvents, Kube!Event, Types
<1>4. UNCHANGED <<Kube!podVars, cache, view, list, loop, known, missed>> /\ recs' = recs
  BY DEF Kube!blockSendMsg, Kube!podVars, Kube!subVars
<1>5. ch \in Seq(KubeEvents) /\ watchers[i] \in Watchers  BY WatcherIs
<1>6. \A u \in Kube!Threads : u # t => targets[u] = {} /\ kubeAt[u] # "send"
  BY <1>1 DEF KubeInv, ThreadsInv
<1>7. targets' = [targets EXCEPT ![t] = targets[t] \ {i}]
  BY DEF Kube!blockSendMsg, KubeInv, ThreadsInv
<1>8. targets' \in [Kube!Threads -> SUBSET Nat] /\ targets'[t] = targets[t] \ {i}
      /\ \A u \in Kube!Threads \ {t} : targets'[u] = targets[u]
  BY <1>7 DEF KubeInv, ThreadsInv
<1>9. \/ targets[t] = {i} /\ Kube!Goto(t, Kube!After(t, Tail(kubeTodo[t])))
           /\ kubeTodo' = [kubeTodo EXCEPT ![t] = Tail(kubeTodo[t])]
      \/ targets[t] # {i} /\ UNCHANGED <<kubeAt, kubeTodo>>
  BY DEF Kube!blockSendMsg, KubeInv, ThreadsInv
<1>10. \/ watchers[i].exit /\ watchers' = watchers
       \/ Len(ch) < ChanSize /\ watchers' = [watchers EXCEPT ![i].ch = Append(ch, evt)]
  BY DEF Kube!blockSendMsg
<1>11. Kube!After(t, Tail(kubeTodo[t])) \in Kube!ThreadPoints \ {"send", "create"}
       /\ (Kube!After(t, Tail(kubeTodo[t])) = "put" => Tail(kubeTodo[t]) # <<>>)
  BY AfterIs
<1> HIDE DEF e, evt, ch
<1>12. ThreadsInv'
  <2>1. CASE targets[t] = {i}
    <3>1. targets'[t] = {} /\ missed' \subseteq Providers
      BY <2>1, <1>4, <1>8 DEF KubeInv, ThreadsInv
    <3>2. Kube!Goto(t, Kube!After(t, Tail(kubeTodo[t])))
          /\ kubeTodo' = [kubeTodo EXCEPT ![t] = Tail(kubeTodo[t])]
      BY <2>1, <1>9
    <3> QED  BY <3>1, <3>2, <1>2, <1>4, <1>8, <1>11, ThreadMoves
  <2>2. CASE targets[t] # {i}
    BY <2>2, <1>1, <1>4, <1>8, <1>9 DEF KubeInv, ThreadsInv
  <2> QED  BY <2>1, <2>2
<1>13. SelfInv'
  <2>1. \A u \in Refers : kubeAt[u] # "create" => kubeAt'[u] # "create"
    BY <1>9, <1>11 DEF Kube!Goto, KubeInv, ThreadsInv, Kube!Threads
  <2> QED  BY <2>1, <1>4, SelfKept
<1>14. /\ watchers' \in Seq(Watchers) /\ DOMAIN watchers' = DOMAIN watchers
       /\ Len(watchers') = Len(watchers)
       /\ \A j \in DOMAIN watchers : j # i => watchers'[j] = watchers[j]
       /\ watchers'[i].exit = watchers[i].exit /\ watchers'[i].key = watchers[i].key
       /\ watchers'[i].ch \in {ch, Append(ch, evt)}
       /\ Len(watchers'[i].ch) <= ChanSize
       /\ ~watchers[i].exit => watchers'[i].ch = Append(ch, evt)
  <2>1. CASE watchers[i].exit /\ watchers' = watchers
    BY <2>1 DEF KubeInv, SetInv, ch
  <2>2. CASE Len(ch) < ChanSize /\ watchers' = [watchers EXCEPT ![i].ch = Append(ch, evt)]
    <3> DEFINE w == [watchers[i] EXCEPT !.ch = Append(ch, evt)]
    <3>1. Append(ch, evt) \in Seq(KubeEvents) /\ Len(Append(ch, evt)) = Len(ch) + 1
      BY <1>3, <1>5
    <3>2. w \in Watchers /\ w.ch = Append(ch, evt) /\ w.exit = watchers[i].exit
          /\ w.key = watchers[i].key
      BY <3>1, <1>5 DEF Watchers
    <3>3. watchers' = [watchers EXCEPT ![i] = w]  BY <2>2
    <3> HIDE DEF w
    <3>4. watchers' \in Seq(Watchers) /\ DOMAIN watchers' = DOMAIN watchers
          /\ Len(watchers') = Len(watchers) /\ watchers'[i] = w
          /\ \A j \in DOMAIN watchers : j # i => watchers'[j] = watchers[j]
      BY <3>2, <3>3 DEF KubeInv, SetInv
    <3>5. Len(ch) + 1 <= ChanSize  BY <2>2, <1>5 DEF ch, Kube!Parameters
    <3> QED  BY <3>1, <3>2, <3>4, <3>5
  <2> QED  BY <1>10, <2>1, <2>2
<1>15. SetInv'  BY <1>4, <1>14 DEF KubeInv, SetInv
<1>16. ASSUME NEW j \in DOMAIN watchers, NEW k \in Kube!Keys  PROVE Follows(j, k)'
  <2>1. Follows(j, k)  BY DEF KubeInv, ViewsInv
  <2>2. CASE j = i
    <3>1. {u \in Kube!Threads : i \in targets'[u]} = {}  BY <1>6, <1>8
    <3>2. Kube!Stream(i)' = watchers'[i].ch  BY <3>1 DEF Kube!Stream
    <3>3. Kube!Stream(i) = Append(ch, e)  BY <1>1, <1>6, StreamIs DEF ch, e
    <3>4. Kube!KnownAfter(Append(ch, e), view[i], k)
            <=> IF e.key = k THEN e.type # "delete"
                ELSE Kube!KnownAfter(ch, view[i], k)
      BY <1>2, <1>5, KnownAppend
    <3>5. Kube!KnownAfter(Append(ch, evt), view[i], k)
            <=> IF evt.key = k THEN evt.type # "delete" ELSE Kube!KnownAfter(ch, view[i], k)
      BY <1>3, <1>5, KnownAppend
    <3>6. Kube!KnownAfter(Append(ch, evt), view[i], k)
          <=> Kube!KnownAfter(Append(ch, e), view[i], k)
      BY <3>4, <3>5, <1>3
    <3>7. ~watchers[i].exit =>
            (Kube!KnownAfter(Kube!Stream(i)', view'[i], k) <=> Kube!KnownAfter(Kube!Stream(i), view[i], k))
      BY <3>2, <3>3, <3>6, <1>4, <1>14
    <3> QED  BY <2>1, <2>2, <3>7, <1>4, <1>14 DEF Follows
  <2>3. CASE j # i
    <3>1. Kube!Stream(j)' = Kube!Stream(j)
      <4>1. CASE j \in targets[t]
        <5>1. targets[t] # {i}  BY <2>3, <4>1
        <5>2. kubeTodo' = kubeTodo  BY <5>1, <1>9
        <5>3. {u \in Kube!Threads : j \in targets'[u]} = {t}  BY <2>3, <4>1, <1>6, <1>8
        <5>4. (CHOOSE u \in {u \in Kube!Threads : j \in targets'[u]} : TRUE) = t  BY <5>3
        <5>5. Kube!Stream(j)' = Append(watchers[j].ch, e)
          BY <5>2, <5>3, <5>4, <2>3, <1>14 DEF Kube!Stream, e
        <5>6. Kube!Stream(j) = Append(watchers[j].ch, e)  BY <4>1, <1>6, StreamIs DEF e
        <5> QED  BY <5>5, <5>6
      <4>2. CASE j \notin targets[t]
        <5>1. {u \in Kube!Threads : j \in targets'[u]} = {}
              /\ {u \in Kube!Threads : j \in targets[u]} = {}
          BY <4>2, <1>6, <1>8
        <5> QED  BY <5>1, <2>3, <1>14 DEF Kube!Stream
      <4> QED  BY <4>1, <4>2
    <3> QED  BY <2>1, <2>3, <3>1, <1>4, <1>14 DEF Follows
  <2> QED  BY <2>2, <2>3
<1>17. ViewsInv'  BY <1>16, <1>14 DEF ViewsInv
<1> QED  BY <1>4, <1>12, <1>13, <1>15, <1>17, PodsFrame DEF KubeInv

\* A reference registers itself, once.
LEMMA CreateKeeps ==
  ASSUME Kube!Parameters, KubeInv, NEW t \in Refers, Kube!Create(t)  PROVE KubeInv'
<1>1. t \in Kube!Threads /\ kubeAt[t] = "create" /\ targets[t] = {}
  BY DEF Kube!Create, Kube!Threads, KubeInv, ThreadsInv
<1>2. UNCHANGED <<dead, store, kubeQueue, Kube!setVars, targets, list, known, missed, loop>>
  BY DEF Kube!Create, Kube!subVars
<1>3. PICK d \in Seq(KubeEvents), p \in {"put", "done"} :
        /\ p = "put" => d # <<>>
        /\ Kube!Goto(t, p) /\ kubeTodo' = [kubeTodo EXCEPT ![t] = d]
  <2>1. CASE Kube!Goto(t, "put")
        /\ kubeTodo' = [kubeTodo EXCEPT ![t] = <<Kube!Event("create", Root)>>]
    <3>1. Kube!Event("create", Root) \in KubeEvents
      BY DEF Kube!Event, KubeEvents, Types, Kube!Keys
    <3>2. <<Kube!Event("create", Root)>> \in Seq(KubeEvents)
          /\ <<Kube!Event("create", Root)>> # <<>>
      BY <3>1
    <3> QED  BY <2>1, <3>2
  <2>2. CASE Kube!Goto(t, "done") /\ kubeTodo' = kubeTodo
    <3>1. kubeTodo[t] \in Seq(KubeEvents) /\ kubeTodo' = [kubeTodo EXCEPT ![t] = kubeTodo[t]]
      BY <1>1, <2>2 DEF KubeInv, ThreadsInv
    <3> QED  BY <2>2, <3>1
  <2> QED  BY <2>1, <2>2 DEF Kube!Create
<1>4. ThreadsInv'
  <2>1. targets'[t] = {} /\ targets' \in [Kube!Threads -> SUBSET Nat]
        /\ missed' \subseteq Providers
        /\ \A u \in Kube!Threads \ {t} : targets'[u] = targets[u]
    BY <1>1, <1>2 DEF KubeInv, ThreadsInv
  <2>2. p \in Kube!ThreadPoints \ {"send"}  BY DEF Kube!ThreadPoints
  <2> QED  BY <1>1, <1>2, <1>3, <2>1, <2>2, ThreadMoves
<1>5. \/ recs' = recs
      \/ recs' = [recs EXCEPT ![Self] = recs[Self] + 1]
  BY DEF Kube!Create
<1>6. PodsInv'  BY <1>2, <1>5 DEF KubeInv, PodsInv, Kube!Pods, Kube!Parameters
<1>7. SelfInv'
  <2> DEFINE A == {u \in Refers : kubeAt[u] # "create"}
             B == {u \in Refers : kubeAt'[u] # "create"}
  <2>1. kubeAt'[t] # "create" /\ \A u \in Refers : u # t => kubeAt'[u] = kubeAt[u]
    BY <1>1, <1>3 DEF Kube!Goto, KubeInv, ThreadsInv, Kube!Threads
  <2>2. B = A \cup {t} /\ t \notin A  BY <1>1, <2>1
  <2>0. IsFiniteSet(Refers)  BY KubeSetsAgree DEF Kube!Parameters
  <2>3. IsFiniteSet(A)  BY <2>0, FS_Subset
  <2>4. Cardinality(B) = Cardinality(A) + 1  BY <2>2, <2>3, FS_AddElement
  <2>5. Cardinality(A) \in Nat  BY <2>3, FS_CardinalityType
  <2>6. recs[Self] \in Nat /\ recs'[Self] <= recs[Self] + 1 /\ recs'[Self] \in Nat
    BY <1>5 DEF KubeInv, PodsInv, Kube!Pods
  <2>7. recs[Self] <= Cardinality(A)  BY DEF KubeInv, SelfInv
  <2> HIDE DEF A
  <2>8. recs'[Self] <= Cardinality(B)  BY <2>4, <2>5, <2>6, <2>7
  <2> QED  BY <2>8 DEF SelfInv
<1>8. ViewsInv'
  <2>1. \A u \in Kube!Threads : kubeAt[u] = "send" => kubeTodo'[u] = kubeTodo[u]
    BY <1>1, <1>3 DEF KubeInv, ThreadsInv
  <2> QED  BY <2>1, <1>2, FollowTodo
<1> QED  BY <1>2, <1>4, <1>6, <1>7, <1>8, SetFrame DEF KubeInv

\* ListenServiceEvent, and the list of the children.
LEMMA CheckKeeps ==
  ASSUME Kube!Parameters, KubeInv, NEW t \in Subs, Kube!CheckKey(t) \/ Kube!GetChildren(t)
  PROVE  KubeInv'
<1>1. t \in Kube!Threads  BY DEF Kube!Threads
<1>2. UNCHANGED <<Kube!podVars, Kube!setVars, kubeTodo, targets, known, missed, loop>>
      /\ recs' = recs
      /\ list' \in [Subs -> SUBSET Kube!Keys]
  BY DEF Kube!CheckKey, Kube!GetChildren, Kube!podVars, Kube!subVars, KubeInv, ThreadsInv,
         SetInv
<1>3. kubeAt[t] \in {"check", "children"}
      /\ \E p \in {"done", "children", "tell"} : kubeAt' = [kubeAt EXCEPT ![t] = p]
  BY DEF Kube!CheckKey, Kube!GetChildren, Kube!Goto
<1>4. kubeAt' \in [Kube!Threads -> Kube!ThreadPoints]
      /\ kubeAt'[t] \in {"done", "children", "tell"}
      /\ \A u \in Kube!Threads : u # t => kubeAt'[u] = kubeAt[u]
  BY <1>1, <1>3 DEF KubeInv, ThreadsInv, Kube!ThreadPoints
<1>5. ThreadsInv'  BY <1>1, <1>2, <1>3, <1>4 DEF KubeInv, ThreadsInv
<1>6. SelfInv'  BY <1>2, <1>4, SelfKept DEF Kube!Threads
<1> QED  BY <1>2, <1>5, <1>6, PodsFrame, SetFrame, FollowFrame DEF KubeInv

\* The data listener is told the children, and the readers start.
LEMMA ListenKeeps ==
  ASSUME Kube!Parameters, KubeInv, NEW t \in Subs, Kube!Listen(t)  PROVE KubeInv'
<1>1. t \in Kube!Threads /\ kubeAt[t] = "tell"  BY DEF Kube!Threads, Kube!Listen
<1>2. UNCHANGED <<Kube!podVars, Kube!setVars, kubeTodo, targets, missed>> /\ recs' = recs
      /\ list' \in [Subs -> SUBSET Kube!Keys]
  BY DEF Kube!Listen, Kube!podVars, KubeInv, ThreadsInv
<1>3. known' \subseteq Providers
  BY DEF Kube!Listen, Kube!DataChange, KubeInv, ThreadsInv, Kube!Keys
<1>4. kubeAt' \in [Kube!Threads -> Kube!ThreadPoints] /\ kubeAt'[t] = "done"
      /\ \A u \in Kube!Threads : u # t => kubeAt'[u] = kubeAt[u]
  BY <1>1 DEF Kube!Listen, Kube!Goto, KubeInv, ThreadsInv, Kube!ThreadPoints
<1>5. ThreadsInv'  BY <1>1, <1>2, <1>3, <1>4 DEF KubeInv, ThreadsInv
<1>6. SelfInv'  BY <1>2, <1>4, SelfKept DEF Kube!Threads
<1>7. SetInv'
  <2>1. loop' \in [Kube!Loops -> [at : LoopPoints, w : Nat]]
        /\ \A l \in Kube!Loops : loop'[l].w = 0
    BY DEF Kube!Listen, LoopPoints
  <2> QED  BY <2>1, <1>2 DEF KubeInv, SetInv, Kube!setVars
<1> QED  BY <1>2, <1>5, <1>6, <1>7, PodsFrame, FollowFrame DEF KubeInv

-----------------------------------------------------------------------------
(* The steps of the readers and of the end of the client.                  *)

\* A reader that goes on to no watcher.
LEMMA LoopMoves ==
  ASSUME KubeInv, NEW l \in Kube!Loops, NEW p \in LoopPoints, Kube!MoveLoop(l, p, 0),
         UNCHANGED Kube!setVars
  PROVE  SetInv'
<1>1. loop' \in [Kube!Loops -> [at : LoopPoints, w : Nat]]
      /\ \A m \in Kube!Loops : loop'[m].w \in {0, loop[m].w}
  BY DEF Kube!MoveLoop, KubeInv, SetInv
<1> QED  BY <1>1 DEF KubeInv, SetInv, Kube!setVars

\* A reader that finds the client stopped, or its watcher.
LEMMA ValidKeeps ==
  ASSUME KubeInv, NEW l \in Kube!Loops, Kube!Valid(l) \/ Kube!SelectDone(l)  PROVE KubeInv'
<1>1. UNCHANGED <<Kube!podVars, Kube!setVars, Kube!threadVars, Kube!subVars, known, missed>>
  BY DEF Kube!Valid, Kube!SelectDone
<1>2. UNCHANGED <<recs, kubeAt, targets, kubeTodo>>  BY <1>1 DEF Kube!podVars, Kube!threadVars
<1>3. \E p \in LoopPoints : Kube!MoveLoop(l, p, 0)
  BY DEF Kube!Valid, Kube!SelectDone, LoopPoints
<1>4. SetInv'  BY <1>1, <1>3, LoopMoves
<1> QED  BY <1>1, <1>2, <1>4, PodsFrame, ThreadsFrame, SelfFrame, FollowFrame DEF KubeInv

\* A new watcher: nobody is in the loop of Put, its stream is empty, and whoever lists
\* the cache then knows it.
LEMMA AddKeeps ==
  ASSUME Kube!Parameters, KubeInv, NEW l \in Kube!Loops, Kube!addWatcher(l)  PROVE KubeInv'
<1> DEFINE w == [key |-> l, ch |-> <<>>, exit |-> FALSE]
           n == Len(watchers) + 1
<1>1. UNCHANGED <<Kube!podVars, cache, Kube!threadVars, Kube!subVars, known, missed>>
  BY DEF Kube!addWatcher
<1>2. UNCHANGED <<recs, kubeAt, targets, kubeTodo>>  BY <1>1 DEF Kube!podVars, Kube!threadVars
<1>3. watchers' = Append(watchers, w) /\ view' = Append(view, cache)
      /\ loop' = [loop EXCEPT ![l] = [at |-> "select", w |-> n]]
  BY DEF Kube!addWatcher, Kube!MoveLoop
<1>4. w \in Watchers /\ w.ch = <<>>
  <2>1. <<>> \in Seq(KubeEvents)  OBVIOUS
  <2> QED  BY <2>1 DEF Watchers
<1>5. Len(watchers) \in Nat /\ DOMAIN watchers = 1..Len(watchers) /\ Len(view) = Len(watchers)
      /\ watchers \in Seq(Watchers) /\ view \in Seq(SUBSET Kube!Keys)
      /\ cache \in SUBSET Kube!Keys
  BY DEF KubeInv, SetInv
<1> HIDE DEF w
<1>6. /\ watchers' \in Seq(Watchers) /\ Len(watchers') = n /\ DOMAIN watchers' = 1..n
      /\ watchers'[n] = w /\ \A i \in 1..Len(watchers) : watchers'[i] = watchers[i]
  BY <1>3, <1>4, <1>5
<1>7. /\ view' \in Seq(SUBSET Kube!Keys) /\ Len(view') = n
      /\ view'[n] = cache /\ \A i \in 1..Len(watchers) : view'[i] = view[i]
  BY <1>3, <1>5
<1>8. /\ loop' \in [Kube!Loops -> [at : LoopPoints, w : Nat]]
      /\ \A m \in Kube!Loops : loop'[m].w \in {n, loop[m].w}
  BY <1>3, <1>5 DEF KubeInv, SetInv, LoopPoints
<1>9. \A i \in 1..n : i = n \/ i \in 1..Len(watchers)  BY <1>5
<1>10. n \in DOMAIN watchers' /\ DOMAIN watchers \subseteq DOMAIN watchers'  BY <1>5, <1>6
<1> HIDE DEF n
<1>11. SetInv'
  <2>1. \A i \in DOMAIN watchers' : Len(watchers'[i].ch) <= ChanSize
    <3>1. Len(w.ch) = 0 /\ 0 <= ChanSize  BY <1>4 DEF Kube!Parameters
    <3> QED  BY <3>1, <1>5, <1>6, <1>9 DEF KubeInv, SetInv
  <2>2. \A m \in Kube!Loops : loop'[m].w \in {0} \cup DOMAIN watchers'
    BY <1>8, <1>10 DEF KubeInv, SetInv
  <2> QED  BY <2>1, <2>2, <1>1, <1>5, <1>6, <1>7, <1>8 DEF KubeInv, SetInv
<1>12. \A u \in Kube!Threads : targets[u] = {}
  BY DEF Kube!addWatcher, Kube!Unlocked, KubeInv, ThreadsInv
<1>13. ASSUME NEW i \in 1..n, NEW k \in Kube!Keys  PROVE Follows(i, k)'
  <2>1. Kube!Stream(i)' = watchers'[i].ch
    <3>1. {u \in Kube!Threads : i \in targets'[u]} = {}  BY <1>2, <1>12
    <3> QED  BY <3>1 DEF Kube!Stream
  <2>2. CASE i = n
    <3>1. Kube!Stream(i)' = <<>> /\ view'[i] = cache  BY <2>1, <2>2, <1>4, <1>6, <1>7
    <3>2. Kube!KnownAfter(Kube!Stream(i)', view'[i], k) <=> k \in cache  BY <3>1, KnownEmpty
    <3> QED  BY <3>2, <1>1 DEF Follows
  <2>3. CASE i \in 1..Len(watchers)
    <3>1. Kube!Stream(i) = watchers[i].ch  BY <1>12, StreamIs
    <3>2. Kube!Stream(i)' = Kube!Stream(i) /\ view'[i] = view[i] /\ watchers'[i] = watchers[i]
      BY <2>1, <2>3, <3>1, <1>6, <1>7
    <3>3. Follows(i, k)  BY <2>3, <1>5 DEF KubeInv, ViewsInv
    <3> QED  BY <3>2, <3>3, <1>1 DEF Follows
  <2> QED  BY <2>2, <2>3, <1>9
<1>14. ViewsInv'  BY <1>6, <1>13 DEF ViewsInv
<1> QED  BY <1>1, <1>2, <1>11, <1>14, PodsFrame, ThreadsFrame, SelfFrame DEF KubeInv

\* A reader takes an event: the stream is shorter, and the reader knows what it said.
LEMMA HandleKeeps ==
  ASSUME Kube!Parameters, KubeInv, NEW l \in Kube!Loops, Kube!handleEvents(l)  PROVE KubeInv'
<1>1. PICK i \in DOMAIN watchers : i = loop[l].w  BY DEF Kube!handleEvents, KubeInv, SetInv
<1> DEFINE ch == watchers[i].ch
           e == Head(ch)
           r == [watchers[i] EXCEPT !.ch = Tail(ch)]
<1>2. /\ ch # <<>> /\ watchers' = [watchers EXCEPT ![i].ch = Tail(ch)]
      /\ view' = [view EXCEPT ![i] = Kube!Apply(e, view[i])]
      /\ \E p \in LoopPoints : Kube!MoveLoop(l, p, 0)
      /\ Kube!DataChange(IF l = "prefix" /\ e.type = "create" THEN {e.key} ELSE {})
  BY <1>1 DEF Kube!handleEvents, LoopPoints
<1>3. UNCHANGED <<Kube!podVars, cache, Kube!threadVars, Kube!subVars, missed>>
  BY DEF Kube!handleEvents
<1>4. UNCHANGED <<recs, kubeAt, targets, kubeTodo, list>>
  BY <1>3 DEF Kube!podVars, Kube!threadVars, Kube!subVars
<1>5. ch \in Seq(KubeEvents) /\ watchers[i] \in Watchers /\ i \in DOMAIN view
      /\ view[i] \subseteq Kube!Keys
  BY <1>1, WatcherIs
<1>6. e \in KubeEvents /\ Tail(ch) \in Seq(KubeEvents) /\ Len(Tail(ch)) <= Len(ch)
  BY <1>2, <1>5
<1>7. e.key \in Kube!Keys  BY <1>6 DEF KubeEvents
<1>8. r \in Watchers /\ r.ch = Tail(ch) /\ r.exit = watchers[i].exit /\ r.key = watchers[i].key
  BY <1>5, <1>6 DEF Watchers
<1>9. watchers' = [watchers EXCEPT ![i] = r]  BY <1>2
<1> HIDE DEF r, e, ch
<1>10. /\ watchers' \in Seq(Watchers) /\ DOMAIN watchers' = DOMAIN watchers
       /\ Len(watchers') = Len(watchers) /\ watchers'[i] = r
       /\ \A j \in DOMAIN watchers : j # i => watchers'[j] = watchers[j]
  BY <1>1, <1>8, <1>9 DEF KubeInv, SetInv
<1>11. Kube!Apply(e, view[i]) \in SUBSET Kube!Keys  BY <1>5, <1>7 DEF Kube!Apply
<1>12. /\ view' \in Seq(SUBSET Kube!Keys) /\ Len(view') = Len(view)
       /\ view'[i] = Kube!Apply(e, view[i])
       /\ \A j \in DOMAIN view : j # i => view'[j] = view[j]
  BY <1>2, <1>5, <1>11 DEF KubeInv, SetInv
<1>13. SetInv'
  <2>1. loop' \in [Kube!Loops -> [at : LoopPoints, w : Nat]]
        /\ \A m \in Kube!Loops : loop'[m].w \in {0, loop[m].w}
    BY <1>2 DEF Kube!MoveLoop, KubeInv, SetInv
  <2>2. Len(ch) <= ChanSize /\ Len(Tail(ch)) \in Nat /\ Len(ch) \in Nat
    BY <1>1, <1>5, <1>6 DEF KubeInv, SetInv, ch
  <2>3. \A j \in DOMAIN watchers : Len(watchers'[j].ch) <= ChanSize
    <3>1. Len(r.ch) <= ChanSize  BY <2>2, <1>6, <1>8 DEF Kube!Parameters
    <3> QED  BY <3>1, <1>10 DEF KubeInv, SetInv
  <2> QED  BY <2>1, <2>3, <1>3, <1>10, <1>12 DEF KubeInv, SetInv
<1>14. ThreadsInv'
  <2>1. known' \subseteq Providers
    BY <1>2, <1>7 DEF Kube!DataChange, KubeInv, ThreadsInv, Kube!Keys
  <2> QED  BY <2>1, <1>3, <1>4 DEF KubeInv, ThreadsInv
<1>15. ASSUME NEW j \in DOMAIN watchers, NEW k \in Kube!Keys  PROVE Follows(j, k)'
  <2>1. Follows(j, k)  BY DEF KubeInv, ViewsInv
  <2>2. CASE j # i
    <3>1. Kube!Stream(j)' = Kube!Stream(j)  BY <2>2, <1>4, <1>10 DEF Kube!Stream
    <3>2. view'[j] = view[j]  BY <2>2, <1>12, WatcherIs
    <3> QED  BY <2>1, <2>2, <3>1, <3>2, <1>3, <1>10 DEF Follows
  <2>3. CASE j = i
    <3> DEFINE P == {u \in Kube!Threads : i \in targets[u]}
               c == CHOOSE u \in P : TRUE
               x == Head(kubeTodo[c])
    <3>1. P' = P /\ c' = c  BY <1>4
    <3>2. Kube!KnownAfter(Tail(ch), Kube!Apply(e, view[i]), k)
          <=> Kube!KnownAfter(ch, view[i], k)
      BY <1>2, <1>5, KnownTail DEF e
    <3>3. Kube!KnownAfter(Kube!Stream(i)', view'[i], k)
          <=> Kube!KnownAfter(Kube!Stream(i), view[i], k)
      <4>1. CASE P = {}
        <5>1. Kube!Stream(i) = ch  BY <4>1 DEF Kube!Stream, ch
        <5>2. Kube!Stream(i)' = Tail(ch)  BY <4>1, <3>1, <1>8, <1>10 DEF Kube!Stream
        <5> QED  BY <5>1, <5>2, <3>2, <1>12
      <4>2. CASE P # {}
        <5>1. c \in Kube!Threads /\ i \in targets[c]  BY <4>2
        <5>2. kubeTodo[c] \in Seq(KubeEvents) /\ kubeTodo[c] # <<>>
          BY <5>1 DEF KubeInv, ThreadsInv
        <5>3. x \in KubeEvents  BY <5>2
        <5>4. Kube!Stream(i) = Append(ch, x)  BY <4>2 DEF Kube!Stream, ch
        <5>5. Kube!Stream(i)' = Append(Tail(ch), x)
          BY <4>2, <3>1, <1>4, <1>8, <1>10 DEF Kube!Stream
        <5> HIDE DEF x, c, P
        <5>6. Kube!KnownAfter(Append(ch, x), view[i], k)
                <=> IF x.key = k THEN x.type # "delete" ELSE Kube!KnownAfter(ch, view[i], k)
          BY <5>3, <1>5, KnownAppend
        <5>7. Kube!KnownAfter(Append(Tail(ch), x), Kube!Apply(e, view[i]), k)
                <=> IF x.key = k THEN x.type # "delete"
                    ELSE Kube!KnownAfter(Tail(ch), Kube!Apply(e, view[i]), k)
          BY <5>3, <1>6, KnownAppend
        <5>8. Kube!KnownAfter(Append(Tail(ch), x), Kube!Apply(e, view[i]), k)
                <=> Kube!KnownAfter(Append(ch, x), view[i], k)
          BY <5>6, <5>7, <3>2
        <5> QED  BY <5>4, <5>5, <5>8, <1>12
      <4> QED  BY <4>1, <4>2
    <3> QED  BY <2>1, <2>3, <3>3, <1>3, <1>8, <1>10 DEF Follows
  <2> QED  BY <2>2, <2>3
<1>16. ViewsInv'  BY <1>10, <1>15 DEF ViewsInv
<1> QED  BY <1>3, <1>4, <1>13, <1>14, <1>16, PodsFrame, SelfFrame DEF KubeInv

\* The context ends, and closeWatchers takes the map.
LEMMA KubeCloseKeeps == ASSUME KubeInv, Kube!Close \/ Kube!closeWatchers  PROVE KubeInv'
<1>1. UNCHANGED <<Kube!podVars, Kube!setVars, Kube!threadVars, Kube!subVars, loop, known,
                  missed>>
  BY DEF Kube!Close, Kube!closeWatchers
<1>2. UNCHANGED <<recs, kubeAt, targets, kubeTodo>>  BY <1>1 DEF Kube!podVars, Kube!threadVars
<1> QED  BY <1>1, <1>2, PodsFrame, SetFrame, ThreadsFrame, SelfFrame, FollowFrame DEF KubeInv

\* The watchers are stopped: of those there is nothing more to show.
LEMMA StopKeeps == ASSUME KubeInv, Kube!stop  PROVE KubeInv'
<1>1. UNCHANGED <<Kube!podVars, cache, view, Kube!threadVars, Kube!subVars, loop, known,
                  missed>>
  BY DEF Kube!stop
<1>2. UNCHANGED <<recs, kubeAt, targets, kubeTodo>>  BY <1>1 DEF Kube!podVars, Kube!threadVars
<1>3. PICK S : watchers' = [i \in DOMAIN watchers |->
                             [watchers[i] EXCEPT !.exit = watchers[i].exit \/ i \in S]]
  BY DEF Kube!stop
<1>4. watchers \in Seq(Watchers) /\ DOMAIN watchers = 1..Len(watchers) /\ Len(watchers) \in Nat
  BY DEF KubeInv, SetInv
<1>5. ASSUME NEW i \in DOMAIN watchers
      PROVE  /\ watchers'[i] \in Watchers /\ watchers'[i].ch = watchers[i].ch
             /\ watchers'[i].key = watchers[i].key
             /\ ~watchers'[i].exit => ~watchers[i].exit
  <2>1. watchers[i] \in Watchers  BY WatcherIs
  <2>2. watchers'[i] = [watchers[i] EXCEPT !.exit = watchers[i].exit \/ i \in S]  BY <1>3
  <2> QED  BY <2>1, <2>2 DEF Watchers
<1>6. DOMAIN watchers' = DOMAIN watchers /\ watchers' \in Seq(Watchers)
      /\ Len(watchers') = Len(watchers)
  <2>1. watchers' \in [1..Len(watchers) -> Watchers]  BY <1>3, <1>4, <1>5
  <2> QED  BY <2>1, <1>4
<1>7. SetInv'  BY <1>1, <1>5, <1>6 DEF KubeInv, SetInv
<1>8. ASSUME NEW i \in DOMAIN watchers, NEW k \in Kube!Keys  PROVE Follows(i, k)'
  <2>1. Follows(i, k)  BY DEF KubeInv, ViewsInv
  <2>2. Kube!Stream(i)' = Kube!Stream(i)  BY <1>2, <1>5 DEF Kube!Stream
  <2> QED  BY <2>1, <2>2, <1>1, <1>5 DEF Follows
<1>9. ViewsInv'  BY <1>6, <1>8 DEF ViewsInv
<1> QED  BY <1>1, <1>2, <1>7, <1>9, PodsFrame, ThreadsFrame, SelfFrame DEF KubeInv

-----------------------------------------------------------------------------
\* The initial state satisfies the invariant.
LEMMA KubeInit == ASSUME Kube!Parameters PROVE Kube!Init => KubeInv
<1> SUFFICES ASSUME Kube!Init PROVE KubeInv  OBVIOUS
<1> USE DEF Kube!Init
<1>1. PodsInv  BY DEF PodsInv, Kube!Pods
<1>2. SetInv  BY DEF SetInv, LoopPoints
<1>3. ThreadsInv  BY DEF ThreadsInv, Kube!ThreadPoints
<1>4. SelfInv
  <2> DEFINE A == {t \in Refers : kubeAt[t] # "create"}
  <2>0. IsFiniteSet(Refers)  BY KubeSetsAgree DEF Kube!Parameters
  <2>1. IsFiniteSet(A)  BY <2>0, FS_Subset
  <2>2. Cardinality(A) \in Nat  BY <2>1, FS_CardinalityType
  <2>3. recs[Self] = 0  OBVIOUS
  <2> HIDE DEF A
  <2>4. recs[Self] <= Cardinality(A)  BY <2>2, <2>3
  <2> QED  BY <2>4 DEF SelfInv, A
<1>5. ViewsInv  BY DEF ViewsInv
<1> QED  BY <1>1, <1>2, <1>3, <1>4, <1>5 DEF KubeInv

\* Every step keeps the invariant.
LEMMA KubeNext == ASSUME Kube!Parameters, KubeInv, [Kube!Next]_Kube!vars  PROVE KubeInv'
<1>1. CASE UNCHANGED Kube!vars
  <2>1. UNCHANGED <<Kube!podVars, Kube!setVars, Kube!threadVars, Kube!subVars, loop, known,
                    missed>>
    BY <1>1 DEF Kube!vars
  <2>2. UNCHANGED <<recs, kubeAt, targets, kubeTodo>>  BY <2>1 DEF Kube!podVars, Kube!threadVars
  <2> QED  BY <2>1, <2>2, PodsFrame, SetFrame, ThreadsFrame, SelfFrame, FollowFrame DEF KubeInv
<1>2. ASSUME NEW p \in Providers, Kube!PodChanges(p) \/ Kube!PodDies(p)  PROVE KubeInv'
  BY <1>2, PodChangesKeeps, PodDiesKeeps
<1>3. ASSUME NEW t \in Kube!Threads, Kube!ThreadStep(t)  PROVE KubeInv'
  BY <1>3, PutKeeps, SendKeeps DEF Kube!ThreadStep
<1>4. ASSUME NEW t \in Subs, Kube!SubStep(t)  PROVE KubeInv'
  BY <1>4, CheckKeeps, ListenKeeps DEF Kube!SubStep
<1>5. ASSUME NEW l \in Kube!Loops, Kube!LoopStep(l)  PROVE KubeInv'
  BY <1>5, ValidKeeps, AddKeeps, HandleKeeps DEF Kube!LoopStep
<1>6. ASSUME Kube!Close \/ Kube!CloseStep  PROVE KubeInv'
  BY <1>6, KubeCloseKeeps, StopKeeps DEF Kube!CloseStep
<1>7. ASSUME Kube!WorkerStep \/ \E t \in Refers : Kube!ReferStep(t)  PROVE KubeInv'
  BY <1>7, <1>3, SyncKeeps, WorkKeeps, CreateKeeps
     DEF Kube!WorkerStep, Kube!ReferStep, Kube!Threads
<1> QED
  BY <1>1, <1>2, <1>4, <1>5, <1>6, <1>7, InformerKeeps
     DEF Kube!Next, Kube!Steps, Kube!Goroutines

\* The pod of the consumer has no more records than there are references.
LEMMA KubeTypes == ASSUME Kube!Parameters, KubeInv PROVE Kube!TypeOK
<1>1. recs \in [Kube!Pods -> 0..(2 + Cardinality(Refers))]
  <2> DEFINE A == {t \in Refers : kubeAt[t] # "create"}
             N == Cardinality(Refers)
  <2>0. IsFiniteSet(Refers)  BY KubeSetsAgree DEF Kube!Parameters
  <2>1. IsFiniteSet(A) /\ Cardinality(A) <= N  BY <2>0, FS_Subset
  <2>2. Cardinality(A) \in Nat /\ N \in Nat  BY <2>0, <2>1, FS_CardinalityType
  <2>3. recs[Self] <= Cardinality(A)  BY DEF KubeInv, SelfInv
  <2>4. recs \in [Kube!Pods -> Nat] /\ \A p \in Providers : recs[p] <= 2
    BY DEF KubeInv, PodsInv
  <2> HIDE DEF A, N
  <2>5. recs[Self] <= 2 + N  BY <2>1, <2>2, <2>3, <2>4 DEF Kube!Pods
  <2>6. \A p \in Kube!Pods : recs[p] \in 0..(2 + N)  BY <2>2, <2>4, <2>5 DEF Kube!Pods
  <2> QED  BY <2>4, <2>6 DEF N
<1> QED  BY <1>1, KubeSetsAgree DEF KubeInv, PodsInv, SetInv, ThreadsInv, Kube!TypeOK

\* For any number of providers and references and channels of any size, of the threads
\* that put at most one is in its loop, and whoever lists the cache when it begins to watch,
\* and applies the events it is sent, knows the cache: the watcher set loses, repeats and
\* reorders nothing.
THEOREM WatchersFollow == ASSUME Kube!Parameters PROVE Kube!Spec => []Kube!WatchersInv
<1>1. KubeInv => Kube!WatchersInv
  BY KubeTypes DEF KubeInv, ThreadsInv, ViewsInv, Follows, Kube!WatchersInv
<1> QED  BY <1>1, KubeInit, KubeNext, PTL DEF Kube!Spec
=============================================================================
