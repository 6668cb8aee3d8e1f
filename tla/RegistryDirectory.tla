------------------------- MODULE RegistryDirectory --------------------------
(***************************************************************************)
(* The consumer's list of providers: RegistryDirectory of                  *)
(* registry/directory/directory.go with the router chain it publishes to   *)
(* (cluster/router/chain/chain.go).                                        *)
(*                                                                         *)
(* One goroutine, the subscription of BaseRegistry.Subscribe, delivers the *)
(* registry's events in order.  Each event changes the map of invokers,    *)
(* the whole map is then published as the new list, and the invoker it     *)
(* replaced is destroyed.  Every listener of the configuration center      *)
(* publishes the map again from a goroutine of its own, and Destroy takes  *)
(* the published list without waiting for any of them.                     *)
(*                                                                         *)
(* A URL is its cache key (the address and the time of registration) and   *)
(* its parameters, of which a rule may override all.                       *)
(***************************************************************************)
EXTENDS Naturals, Sequences, FiniteSets

CONSTANTS
  Keys,       \* cache keys of the providers
  Foreign,    \* those whose protocol is not the one the reference asks for
  Params,     \* the parameters of a URL
  Ivks,       \* invoker objects
  Listeners,  \* goroutines of the configuration center
  MaxEvents,  \* bound on the registry's events
  None

ASSUME DirectoryAssumption ==
  /\ Foreign \subseteq Keys
  /\ None \notin Keys \cup Params \cup Ivks
  /\ MaxEvents \in Nat

Urls == [key : Keys, param : Params]
NoUrl == [key |-> None, param |-> None]

VARIABLES
  registered,     \* the parameters each provider is registered with, or None
  queue, sent,    \* events on their way, and how many were ever sent
  cacheInvokersMap, cacheInvokers, cacheOriginUrl, destroyed,  \* of the directory
  chain,          \* RouterChain.invokers
  rule, dynamic,  \* what the override events, and the configuration center, say
  life, url,      \* of each invoker
  at, new, old, snap,  \* the subscription: where it is and its local variables
  listen,         \* each listener: where it is and its snapshot
  doomed,         \* invokers that Destroy has still to destroy
  behind,         \* history: the list was published from a snapshot that was out of date
  revived         \* history: keys that a rule has referred since their last own event

dirVars ==
  <<cacheInvokersMap, cacheInvokers, cacheOriginUrl, destroyed, chain, behind, revived>>
envVars == <<registered, queue, sent>>
ruleVars == <<rule, dynamic>>
ivkVars == <<life, url>>
subVars == <<at, new, old, snap>>
vars == <<registered, queue, sent, cacheInvokersMap, cacheInvokers, cacheOriginUrl,
          destroyed, chain, behind, revived, rule, dynamic, life, url, at, new, old, snap,
          listen, doomed>>

Init ==
  /\ registered = [k \in Keys |-> None]
  /\ queue = <<>> /\ sent = 0
  /\ cacheInvokersMap = [k \in Keys |-> None]
  /\ cacheInvokers = {} /\ chain = {} /\ behind = FALSE /\ revived = {}
  /\ cacheOriginUrl = NoUrl
  /\ destroyed = FALSE
  /\ rule = None /\ dynamic = None
  /\ life = [i \in Ivks |-> "unused"]
  /\ url = [i \in Ivks |-> NoUrl]
  /\ at = "next" /\ new = NoUrl /\ old = None /\ snap = {}
  /\ listen = [c \in Listeners |-> [at |-> "idle", snap |-> {}]]
  /\ doomed = {}

\* toGroupInvokers: all invokers of the map.  (Groups are lists of lists.)
Cached == {cacheInvokersMap[k] : k \in Keys} \ {None}

\* overrideUrl: the configurators of the directory, then those of the
\* configuration center, each replacing the parameters.
Override(p, r) == IF dynamic # None THEN dynamic ELSE IF r # None THEN r ELSE p

-----------------------------------------------------------------------------
(* The registry.                                                           *)

Send(e) ==
  /\ sent < MaxEvents
  /\ queue' = Append(queue, e)
  /\ sent' = sent + 1

\* A provider registers, changes its parameters, or is announced again after
\* the consumer's connection to the registry was lost.
ProviderUp(k, p) ==
  /\ registered' = [registered EXCEPT ![k] = p]
  /\ Send([type |-> "up", key |-> k, param |-> p])
  /\ UNCHANGED <<dirVars, ruleVars, ivkVars, subVars, listen, doomed>>

ProviderDown(k) ==
  /\ registered[k] # None
  /\ registered' = [registered EXCEPT ![k] = None]
  /\ Send([type |-> "down", key |-> k, param |-> None])
  /\ UNCHANGED <<dirVars, ruleVars, ivkVars, subVars, listen, doomed>>

\* An override:// URL with its parameters, or a router:// URL (None), is
\* registered.
RuleUp(p) ==
  /\ Send([type |-> "rule", key |-> None, param |-> p])
  /\ UNCHANGED <<registered, dirVars, ruleVars, ivkVars, subVars, listen, doomed>>

-----------------------------------------------------------------------------
(* Notify, up to the change of the map.                                    *)

\* doCacheInvoker, up to Refer: an unchanged URL needs no new invoker.
NotChanged(u) ==
  /\ cacheInvokersMap[u.key] # None
  /\ url[cacheInvokersMap[u.key]] = u

\* cacheInvokerByEvent for an added or changed URL.  An override is remembered,
\* and any rule stands for the last provider URL that was seen.
NotifyUp ==
  /\ at = "next" /\ queue # <<>>
  /\ LET e == Head(queue)
         r == IF e.type = "rule" /\ e.param # None THEN e.param ELSE rule
         u == IF e.type = "rule" THEN cacheOriginUrl ELSE [key |-> e.key, param |-> e.param]
         merged == [key |-> u.key, param |-> Override(u.param, r)]
     IN /\ e.type \in {"up", "rule"}
        /\ rule' = r
        /\ cacheOriginUrl' = u
        /\ revived' = IF e.type = "rule" THEN revived \cup {u.key} ELSE revived \ {u.key}
        /\ IF u = NoUrl \/ u.key \in Foreign
             THEN at' = "snapshot" /\ new' = NoUrl
             ELSE IF NotChanged(merged)
             THEN at' = "snapshot" /\ new' = NoUrl
             ELSE at' = "refer" /\ new' = merged
  /\ queue' = Tail(queue)
  /\ UNCHANGED <<registered, sent, cacheInvokersMap, cacheInvokers, destroyed, chain, behind,
                 dynamic, ivkVars, old, snap, listen, doomed>>

\* A variant that forgets the invoker it replaces.
ReferForgets(i) ==
  /\ at = "refer"
  /\ life[i] = "unused"
  /\ life' = [life EXCEPT ![i] = "alive"]
  /\ url' = [url EXCEPT ![i] = new]
  /\ cacheInvokersMap' = [cacheInvokersMap EXCEPT ![new.key] = i]
  /\ at' = "snapshot" /\ new' = NoUrl
  /\ UNCHANGED <<envVars, cacheInvokers, cacheOriginUrl, destroyed, chain, behind, revived,
                 ruleVars, old, snap, listen, doomed>>

\* Refer returns an invoker, which replaces the one that was found.
ReferOK(i) ==
  /\ at = "refer"
  /\ life[i] = "unused"
  /\ life' = [life EXCEPT ![i] = "alive"]
  /\ url' = [url EXCEPT ![i] = new]
  /\ cacheInvokersMap' = [cacheInvokersMap EXCEPT ![new.key] = i]
  /\ old' = cacheInvokersMap[new.key]
  /\ at' = "snapshot" /\ new' = NoUrl
  /\ UNCHANGED <<envVars, cacheInvokers, cacheOriginUrl, destroyed, chain, behind, revived,
                 ruleVars, snap, listen, doomed>>

\* Refer returns nil: the map stays as it is.
ReferFails ==
  /\ at = "refer"
  /\ at' = "snapshot" /\ new' = NoUrl
  /\ UNCHANGED <<envVars, dirVars, ruleVars, ivkVars, old, snap, listen, doomed>>

\* A variant that leaves the invoker in the map.
NotifyDownKeeps ==
  /\ at = "next" /\ queue # <<>>
  /\ Head(queue).type = "down"
  /\ old' = cacheInvokersMap[Head(queue).key]
  /\ queue' = Tail(queue)
  /\ at' = "snapshot"
  /\ UNCHANGED <<registered, sent, dirVars, ruleVars, ivkVars, new, snap, listen, doomed>>

\* uncacheInvoker.
NotifyDown ==
  /\ at = "next" /\ queue # <<>>
  /\ LET k == Head(queue).key
     IN /\ Head(queue).type = "down"
        /\ old' = cacheInvokersMap[k]
        /\ cacheInvokersMap' = [cacheInvokersMap EXCEPT ![k] = None]
        /\ revived' = revived \ {k}
  /\ queue' = Tail(queue)
  /\ at' = "snapshot"
  /\ UNCHANGED <<registered, sent, cacheInvokers, cacheOriginUrl, destroyed, chain, behind,
                 ruleVars, ivkVars, new, snap, listen, doomed>>

-----------------------------------------------------------------------------
(* setNewInvokers, which takes its lock after the snapshot; then the       *)
(* replaced invoker is destroyed.                                          *)

Snapshot ==
  /\ at = "snapshot"
  /\ snap' = Cached
  /\ at' = "publish"
  /\ UNCHANGED <<envVars, dirVars, ruleVars, ivkVars, new, old, listen, doomed>>

SetInvokers(s) == cacheInvokers' = s /\ chain' = s /\ behind' = (s # Cached)

\* A variant that publishes only when an invoker was replaced.
PublishReplaced ==
  /\ at = "publish"
  /\ IF old = None THEN UNCHANGED <<cacheInvokers, chain, behind>> ELSE SetInvokers(snap)
  /\ at' = "destroy" /\ snap' = {}
  /\ UNCHANGED <<envVars, cacheInvokersMap, cacheOriginUrl, destroyed, revived, ruleVars,
                 ivkVars, new, old, listen, doomed>>

Publish ==
  /\ at = "publish"
  /\ SetInvokers(snap)
  /\ at' = "destroy" /\ snap' = {}
  /\ UNCHANGED <<envVars, cacheInvokersMap, cacheOriginUrl, destroyed, revived, ruleVars,
                 ivkVars, new, old, listen, doomed>>

\* A variant that destroys the replaced invoker before the list is published.
DestroyFirst ==
  /\ at \in {"snapshot", "publish", "destroy"}
  /\ life' = IF old = None THEN life ELSE [life EXCEPT ![old] = "destroyed"]
  /\ old' = None
  /\ at' = IF at = "destroy" THEN "next" ELSE at
  /\ UNCHANGED <<envVars, dirVars, ruleVars, url, new, snap, listen, doomed>>

DestroyOld ==
  /\ at = "destroy"
  /\ life' = IF old = None THEN life ELSE [life EXCEPT ![old] = "destroyed"]
  /\ old' = None
  /\ at' = "next"
  /\ UNCHANGED <<envVars, dirVars, ruleVars, url, new, snap, listen, doomed>>

-----------------------------------------------------------------------------
(* The listeners of the configuration center: a changed or deleted rule,   *)
(* then setNewInvokers.  The invokers are not referred again.              *)

Process(c, p) ==
  /\ listen[c].at = "idle"
  /\ dynamic' = p
  /\ listen' = [listen EXCEPT ![c].at = "snapshot"]
  /\ UNCHANGED <<envVars, dirVars, rule, ivkVars, subVars, doomed>>

ProcessSnapshot(c) ==
  /\ listen[c].at = "snapshot"
  /\ listen' = [listen EXCEPT ![c] = [at |-> "publish", snap |-> Cached]]
  /\ UNCHANGED <<envVars, dirVars, ruleVars, ivkVars, subVars, doomed>>

ProcessPublish(c) ==
  /\ listen[c].at = "publish"
  /\ SetInvokers(listen[c].snap)
  /\ listen' = [listen EXCEPT ![c] = [at |-> "idle", snap |-> {}]]
  /\ UNCHANGED <<envVars, cacheInvokersMap, cacheOriginUrl, destroyed, revived, ruleVars,
                 ivkVars, subVars, doomed>>

-----------------------------------------------------------------------------
(* Destroy: the published invokers are destroyed one by one.  The          *)
(* subscription goes on, and the router chain keeps its list.              *)

Destroy ==
  /\ ~destroyed
  /\ destroyed' = TRUE
  /\ doomed' = cacheInvokers
  /\ cacheInvokers' = {}
  /\ UNCHANGED <<envVars, cacheInvokersMap, cacheOriginUrl, chain, behind, revived, ruleVars,
                 ivkVars, subVars, listen>>

DestroyOne(i) ==
  /\ i \in doomed
  /\ doomed' = doomed \ {i}
  /\ life' = [life EXCEPT ![i] = "destroyed"]
  /\ UNCHANGED <<envVars, dirVars, ruleVars, url, subVars, listen>>

-----------------------------------------------------------------------------
SubscriptionStep ==
  \/ NotifyUp \/ NotifyDown \/ (\E i \in Ivks : ReferOK(i)) \/ ReferFails
  \/ Snapshot \/ Publish \/ DestroyOld

ListenerStep(c) == ProcessSnapshot(c) \/ ProcessPublish(c)

Next ==
  \/ \E k \in Keys : ProviderDown(k) \/ \E p \in Params : ProviderUp(k, p)
  \/ \E p \in Params \cup {None} : RuleUp(p)
  \/ SubscriptionStep
  \/ \E c \in Listeners :
       ListenerStep(c) \/ \E p \in Params \cup {None} : Process(c, p)
  \/ Destroy \/ \E i \in Ivks : DestroyOne(i)

\* The subscription and the listeners are goroutines: they are scheduled.
Fairness ==
  /\ WF_vars(SubscriptionStep)
  /\ \A c \in Listeners : WF_vars(ListenerStep(c))
  /\ \A i \in Ivks : WF_vars(DestroyOne(i))

Spec == Init /\ [][Next]_vars /\ Fairness

-----------------------------------------------------------------------------
(* Properties.                                                             *)

Events == [type : {"up"}, key : Keys, param : Params]
            \cup [type : {"down"}, key : Keys, param : {None}]
            \cup [type : {"rule"}, key : {None}, param : Params \cup {None}]

\* Every variable has a value of its Go type.
TypeOK ==
  /\ registered \in [Keys -> Params \cup {None}]
  /\ queue \in Seq(Events)
  /\ sent \in 0..MaxEvents
  /\ cacheInvokersMap \in [Keys -> Ivks \cup {None}]
  /\ cacheInvokers \in SUBSET Ivks /\ chain \in SUBSET Ivks /\ behind \in BOOLEAN
  /\ revived \in SUBSET (Keys \cup {None})
  /\ cacheOriginUrl \in Urls \cup {NoUrl}
  /\ destroyed \in BOOLEAN
  /\ rule \in Params \cup {None} /\ dynamic \in Params \cup {None}
  /\ life \in [Ivks -> {"unused", "alive", "destroyed"}]
  /\ url \in [Ivks -> Urls \cup {NoUrl}]
  /\ at \in {"next", "refer", "snapshot", "publish", "destroy"}
  /\ new \in Urls \cup {NoUrl} /\ (at = "refer" <=> new # NoUrl)
  /\ old \in Ivks \cup {None}
  /\ snap \in SUBSET Ivks
  /\ listen \in [Listeners -> [at : {"idle", "snapshot", "publish"}, snap : SUBSET Ivks]]
  /\ doomed \in SUBSET Ivks

\* An invoker is cached under its own key, so under no other.
CachedUnderItsKey ==
  \A k \in Keys :
    LET i == cacheInvokersMap[k] IN i # None => url[i].key = k /\ life[i] # "unused"

\* The subscription holds the invoker it replaced until it has destroyed it, and
\* that invoker is not in the map.
OldIsUncached ==
  /\ old # None => old \notin Cached /\ life[old] # "unused"
  /\ old # None => at \in {"snapshot", "publish", "destroy"}

\* No invoker, and with it no connection, is lost: one that is alive is in the
\* map or is about to be destroyed.
NoLeak == \A i \in Ivks : life[i] = "alive" => i \in Cached \/ i = old

\* Until Destroy, what the map holds is alive.
CachedIsAlive == ~destroyed => \A i \in Cached : life[i] = "alive"

\* Until Destroy, the list that a call gets from List holds no destroyed invoker,
\* unless a configuration listener has published a snapshot that was out of date;
\* the next publication mends it.
ListedIsAlive == ~destroyed /\ ~behind => \A i \in chain : life[i] = "alive"

\* When all events have been handled, every provider that has a cached invoker
\* is registered, unless it has gone and a later rule, which stands for the last
\* provider URL that was seen, has brought it back; and no invoker was made for
\* a foreign protocol.
Settled == queue = <<>> /\ at = "next"
FollowsRegistry ==
  Settled =>
    \A k \in Keys :
      /\ cacheInvokersMap[k] # None => registered[k] # None \/ k \in revived
      /\ k \in Foreign => cacheInvokersMap[k] = None

\* What lies between the map and the list: what the subscription publishes is the
\* map; a list that was up to date is behind the map only while the subscription is
\* on the way to publish, and has nothing more than what is about to be destroyed.
ListFollowsMap ==
  /\ at = "publish" => snap = Cached
  /\ ~behind /\ at \in {"next", "refer", "destroy"} => chain = Cached
  /\ ~behind => \A i \in chain : i \in Cached \/ i = old

\* The inductive invariant.
DirectoryInv ==
  /\ TypeOK
  /\ CachedUnderItsKey
  /\ OldIsUncached
  /\ NoLeak
  /\ CachedIsAlive
  /\ (~destroyed => doomed = {})
  /\ (~destroyed /\ old # None => life[old] = "alive")
  /\ ListFollowsMap

\* The list converges: once the registry is quiet, a call sees exactly the
\* cached invokers, unless the last snapshot was out of date.
Converges == <>[](behind \/ chain = Cached)

\* "the invoker has been removed from the invoker list before destroy, so no new
\* request will enter the destroyed invoker": with no exception.
NoneDestroyedListed == ~destroyed => \A i \in chain : life[i] = "alive"
=============================================================================
