----------------------------- MODULE ZkRegistry -----------------------------
(***************************************************************************)
(* BaseRegistry (registry/base_registry.go) over the ZooKeeper registry    *)
(* (registry/zookeeper/registry.go): services are registered as ephemeral  *)
(* nodes and registered again when the client reconnects, URLs are         *)
(* subscribed and unsubscribed, and the registry is destroyed, each by a   *)
(* goroutine of its own.                                                   *)
(*                                                                         *)
(* ZooKeeper is external: a node belongs to a session, and is removed when *)
(* that session expires, which may be after the client has a new one.      *)
(***************************************************************************)
EXTENDS Integers, FiniteSets

CONSTANTS
  Keys,          \* the services that are registered
  Urls,          \* the URLs that are subscribed
  MaxLosses,     \* how often the connection is lost (a bound)
  MaxOps,        \* calls of Register per key (a bound)
  None

\* What the constants have to satisfy.
Parameters ==
  /\ None \notin Urls \X Nat /\ \A S \in SUBSET Keys : None # S
  /\ IsFiniteSet(Urls) /\ MaxLosses \in Nat

ASSUME ZkRegistryAssumption == Parameters

VARIABLES
  conn, losses,
  owner,         \* of each key, whose its node is: the session's, a former one's, or none
  reconnect,     \* an event waits in Reconnect()
  services,      \* the map of BaseRegistry; None: it was set to nil
  caller, ops,   \* of each key, where Register or UnRegister is
  restartAt, copy,
  redo,          \* the copied service that RestartCallBack is registering, or None
  raced,         \* history: the keys and URLs whose calls overlapped a restart
  vanished,      \* history: the keys that RestartCallBack gave up, see RestartGivesUp
  dl,            \* the generation of r.dataListener
  dlClosed,      \* r.dataListener.closed
  subscribed,    \* r.dataListener.subscribed
  evl,           \* r.listener is not nil
  open, token,   \* configuration listeners not closed; those whose close is unread
  made,          \* of each URL, the number of configuration listeners
  subAt, ref, held,
  unAt, unHeld,
  destroyAt,
  panicked

zkVars == <<conn, losses, owner, reconnect>>
regVars == <<services, caller, ops, restartAt, copy, redo, raced, vanished>>
lisVars == <<dl, dlClosed, subscribed, evl, open, token, made>>
subVars == <<subAt, ref, held>>
unVars == <<unAt, unHeld>>
vars == <<zkVars, regVars, lisVars, subVars, unVars, destroyAt, panicked>>

\* A former process of the provider may have left nodes.
Init ==
  /\ conn = TRUE /\ losses = 0
  /\ owner \in [Keys -> {"none", "former"}] /\ reconnect = FALSE
  /\ services = {} /\ caller = [k \in Keys |-> "idle"] /\ ops = [k \in Keys |-> 0]
  /\ restartAt = "wait" /\ copy = {} /\ redo = None
  /\ raced = {} /\ vanished = {}
  /\ dl = 0 /\ dlClosed = FALSE /\ subscribed = [u \in Urls |-> None] /\ evl = TRUE
  /\ open = {} /\ token = {} /\ made = [u \in Urls |-> 0]
  /\ subAt = [u \in Urls |-> "idle"] /\ ref = [u \in Urls |-> 0]
  /\ held = [u \in Urls |-> None]
  /\ unAt = [u \in Urls |-> "idle"] /\ unHeld = [u \in Urls |-> None]
  /\ destroyAt = "idle" /\ panicked = FALSE

\* The channel done is closed, and the client is there until Destroy ends.
Done == destroyAt \in {"wait", "done"}
IsAvailable == ~Done
Client == destroyAt # "done"

-----------------------------------------------------------------------------
(* ZooKeeper.                                                              *)

Lose ==
  /\ conn /\ losses < MaxLosses
  /\ conn' = FALSE /\ losses' = losses + 1
  /\ UNCHANGED <<owner, reconnect, regVars, lisVars, subVars, unVars,
                 destroyAt, panicked>>

\* The client connects again, in its old session or in a new one.
Reconnect ==
  /\ ~conn /\ conn' = TRUE /\ reconnect' = TRUE
  /\ \/ UNCHANGED owner
     \/ owner' = [k \in Keys |-> IF owner[k] = "session" THEN "former" ELSE owner[k]]
  /\ UNCHANGED <<losses, regVars, lisVars, subVars, unVars, destroyAt, panicked>>

\* The nodes of the former sessions are removed.
Expire ==
  /\ \E k \in Keys : owner[k] = "former"
  /\ owner' = [k \in Keys |-> IF owner[k] = "former" THEN "none" ELSE owner[k]]
  /\ UNCHANGED <<conn, losses, reconnect, regVars, lisVars, subVars, unVars,
                 destroyAt, panicked>>

-----------------------------------------------------------------------------
(* Register and UnRegister.                                                *)

\* RegisterTemp of the client makes the node, or finds that it exists.
CreatesNode(k) ==
  /\ conn /\ owner[k] = "none" /\ owner' = [owner EXCEPT ![k] = "session"]
  /\ UNCHANGED <<conn, losses, reconnect>>
NodeExists(k) == conn /\ owner[k] # "none" /\ UNCHANGED zkVars

\* Delete of the client removes it, or finds that a former session that owned
\* it has expired since.
DeletesNode(k) ==
  /\ conn /\ owner[k] # "none" /\ owner' = [owner EXCEPT ![k] = "none"]
  /\ UNCHANGED <<conn, losses, reconnect>>
NoNode(k) == conn /\ owner[k] = "none" /\ UNCHANGED zkVars

NotConnected == ~conn /\ UNCHANGED zkVars

\* registerTempZookeeperNode holds cltLock from the first RegisterTemp, which
\* finds the node, through Delete to the second one; DoUnregister takes it too.
InTemp == {"exists", "again"}
LockFree == restartAt \notin InTemp /\ \A k \in Keys : caller[k] \notin InTemp

Goes(k, p) == caller' = [caller EXCEPT ![k] = p]
regRest == <<restartAt, copy, redo, vanished, lisVars, subVars, unVars, destroyAt>>

RegisterChecks(k) ==
  /\ caller[k] = "idle" /\ ops[k] < MaxOps /\ destroyAt = "idle"
  /\ ops' = [ops EXCEPT ![k] = @ + 1]
  /\ Goes(k, IF k \in services THEN "idle" ELSE "register")
  /\ UNCHANGED <<zkVars, services, raced, regRest, panicked>>

\* The client may have become nil: CreatePath, which comes first, does not
\* check it, registerTempZookeeperNode does.
RegisterNode(k) ==
  /\ caller[k] = "register" /\ LockFree
  /\ \/ Client /\ CreatesNode(k) /\ Goes(k, "store")
     \/ Client /\ NodeExists(k) /\ Goes(k, "exists")
     \/ Client /\ NotConnected /\ Goes(k, "idle")
     \/ ~Client /\ Goes(k, "idle") /\ UNCHANGED zkVars
  /\ panicked' \in IF Client THEN {FALSE} ELSE BOOLEAN
  /\ UNCHANGED <<services, ops, raced, regRest>>

\* The node that exists is deleted; a client that is nil by now is not checked.
RegisterDeletes(k) ==
  /\ caller[k] = "exists"
  /\ \/ Client /\ DeletesNode(k) /\ Goes(k, "again")
     \/ Client /\ (NoNode(k) \/ NotConnected) /\ Goes(k, "idle")
     \/ ~Client /\ Goes(k, "idle") /\ UNCHANGED zkVars
  /\ panicked' = ~Client
  /\ UNCHANGED <<services, ops, raced, regRest>>

RegisterAgain(k) ==
  /\ caller[k] = "again"
  /\ \/ Client /\ CreatesNode(k) /\ Goes(k, "store")
     \/ Client /\ NotConnected /\ Goes(k, "idle")
     \/ ~Client /\ Goes(k, "idle") /\ UNCHANGED zkVars
  /\ panicked' = ~Client
  /\ UNCHANGED <<services, ops, raced, regRest>>

\* The service is stored; storing in a nil map panics.
RegisterStores(k) ==
  /\ caller[k] = "store" /\ Goes(k, "idle")
  /\ IF services = None THEN panicked' = TRUE /\ UNCHANGED services
     ELSE services' = services \cup {k} /\ UNCHANGED panicked
  /\ UNCHANGED <<zkVars, ops, raced, regRest>>

UnRegister(k) ==
  /\ caller[k] = "idle" /\ destroyAt = "idle" /\ k \in services
  /\ Goes(k, "unregister")
  /\ services' = services \ {k}
  /\ raced' = IF k \in copy THEN raced \cup {k} ELSE raced
  /\ UNCHANGED <<zkVars, ops, regRest, panicked>>

\* DoUnregister fails without a connection and when there is no node.
UnRegisterNode(k) ==
  /\ caller[k] = "unregister" /\ LockFree
  /\ IF Client /\ conn /\ owner[k] # "none"
       THEN Goes(k, "idle") /\ owner' = [owner EXCEPT ![k] = "none"]
       ELSE Goes(k, "restore") /\ UNCHANGED owner
  /\ panicked' = ~Client
  /\ UNCHANGED <<conn, losses, reconnect, services, ops, raced, regRest>>

\* The service that could not be unregistered is stored again.
UnRegisterRestores(k) ==
  /\ caller[k] = "restore" /\ Goes(k, "idle")
  /\ IF services = None THEN panicked' = TRUE /\ UNCHANGED services
     ELSE services' = services \cup {k} /\ UNCHANGED panicked
  /\ UNCHANGED <<zkVars, ops, raced, regRest>>

-----------------------------------------------------------------------------
(* HandleClientRestart and RestartCallBack.                                *)

\* The services are copied, without the lock that Register and UnRegister take.
RestartCopies ==
  /\ restartAt = "wait" /\ reconnect /\ reconnect' = FALSE
  /\ restartAt' = "copied" /\ copy' = services
  /\ raced' = raced \cup {k \in Keys : caller[k] \in {"store", "unregister", "restore"}}
  /\ UNCHANGED <<conn, losses, owner, services, caller, ops, redo, vanished, lisVars,
                 subVars, unVars, destroyAt, panicked>>

restartRest == <<services, caller, ops, raced, lisVars, subVars, unVars, destroyAt,
                 panicked>>

\* The copied service k is registered, and the loop goes on.
RestartGoesOn(k) ==
  /\ copy' = copy \ {k} /\ vanished' = vanished \ {k}
  /\ restartAt' = "copied" /\ redo' = None

\* The first error ends the loop, and HandleClientRestart ignores it.  When
\* the connection is lost, it will be called again.  When it is not, the
\* services that are left stay without a node.
RestartGivesUp ==
  /\ copy' = {} /\ restartAt' = "wait" /\ redo' = None
  /\ vanished' = IF conn THEN vanished \cup copy ELSE vanished

\* Mutant: a node that exists is good enough, whoever owns it.
RestartRegistersKeeps(k) ==
  /\ restartAt = "copied" /\ k \in copy /\ LockFree
  /\ \/ (CreatesNode(k) \/ NodeExists(k)) /\ RestartGoesOn(k)
     \/ NotConnected /\ RestartGivesUp
  /\ UNCHANGED restartRest

\* One of the copied services is registered: registerTempZookeeperNode again.
RestartRegisters(k) ==
  /\ restartAt = "copied" /\ k \in copy /\ LockFree
  /\ \/ CreatesNode(k) /\ RestartGoesOn(k)
     \/ NodeExists(k) /\ restartAt' = "exists" /\ redo' = k /\ UNCHANGED <<copy, vanished>>
     \/ NotConnected /\ RestartGivesUp
  /\ UNCHANGED restartRest

RestartDeletes ==
  /\ restartAt = "exists"
  /\ \/ DeletesNode(redo) /\ restartAt' = "again" /\ UNCHANGED <<copy, redo, vanished>>
     \/ (NoNode(redo) \/ NotConnected) /\ RestartGivesUp
  /\ UNCHANGED restartRest

RestartAgain ==
  /\ restartAt = "again"
  /\ \/ CreatesNode(redo) /\ RestartGoesOn(redo)
     \/ NotConnected /\ RestartGivesUp
  /\ UNCHANGED restartRest

RestartEnds ==
  /\ restartAt = "wait" /\ Done /\ restartAt' = "done"
  /\ UNCHANGED <<zkVars, services, caller, ops, copy, redo, raced, vanished, lisVars,
                 subVars, unVars, destroyAt, panicked>>

-----------------------------------------------------------------------------
(* The configuration listeners of r.dataListener.                          *)

Entries == {subscribed[u] : u \in Urls} \ {None}

\* A variant that signals the close but counts the listener for ever.
CloseAllOpen(L) == UNCHANGED open /\ token' = token \cup (L \cap open)

\* RegistryConfigurationListener.Close, of all in L, at most once each.
CloseAll(L) == open' = open \ L /\ token' = token \cup (L \cap open)

\* InitListeners holds the mutex of the former data listener.
Locked(g) == restartAt = "init" /\ g = dl

\* InitListeners, in two steps: the old data listener and what it holds are
\* closed; then the new one takes its place, with a new listener for each URL.
InitListenersCloses ==
  /\ restartAt = "copied" /\ copy = {}
  /\ restartAt' = "init" /\ evl' = TRUE
  /\ dlClosed' = TRUE /\ CloseAll(Entries)
  /\ UNCHANGED <<zkVars, services, caller, ops, copy, redo, raced, vanished, dl,
                 subscribed, made, subVars, unVars, destroyAt, panicked>>

InitListenersRecovers ==
  LET Again == {u \in Urls : subscribed[u] # None}
      New(u) == <<u, made[u] + 1>>
  IN
  /\ restartAt = "init" /\ restartAt' = "wait"
  /\ dl' = dl + 1 /\ dlClosed' = FALSE
  /\ subscribed' = [u \in Urls |-> IF u \in Again THEN New(u) ELSE None]
  /\ open' = open \cup {New(u) : u \in Again}
  /\ made' = [u \in Urls |-> IF u \in Again THEN made[u] + 1 ELSE made[u]]
  /\ UNCHANGED <<zkVars, services, caller, ops, copy, redo, raced, vanished, evl, token,
                 subVars, unVars, destroyAt, panicked>>

-----------------------------------------------------------------------------
(* Subscribe, one goroutine per URL.                                       *)

subRest == <<zkVars, services, caller, ops, restartAt, copy, redo, vanished, unVars,
             destroyAt, panicked>>
Moves(u, p) == subAt' = [subAt EXCEPT ![u] = p]

\* The loop begins: the registry is available, and r.dataListener is read.
SubscribeChecks(u) ==
  /\ subAt[u] \in {"idle", "check"}
  /\ IF IsAvailable THEN Moves(u, "get") ELSE Moves(u, "ended")
  /\ ref' = [ref EXCEPT ![u] = IF IsAvailable THEN dl ELSE 0]
  /\ UNCHANGED <<subRest, raced, lisVars, held>>

\* getListener finds a listener under the URL.
GetListenerFinds(u) ==
  /\ subAt[u] = "get" /\ ~Locked(ref[u]) /\ subscribed[u] # None
  /\ ref' = [ref EXCEPT ![u] = 0]
  /\ IF subscribed[u] \in open
       THEN Moves(u, "next") /\ held' = [held EXCEPT ![u] = subscribed[u]]
       ELSE Moves(u, IF Done THEN "ended" ELSE "check") /\ UNCHANGED held
  /\ UNCHANGED <<subRest, raced, lisVars>>

\* getListener makes one; a closed data listener does not take it.  The mutex it
\* holds is that of the data listener it read, which may be a former one.
GetListenerMakes(u) ==
  LET l == <<u, made[u] + 1>> IN
  /\ subAt[u] = "get" /\ ~Locked(ref[u]) /\ subscribed[u] = None
  /\ Moves(u, "next") /\ held' = [held EXCEPT ![u] = l] /\ ref' = [ref EXCEPT ![u] = 0]
  /\ made' = [made EXCEPT ![u] = @ + 1] /\ open' = open \cup {l} /\ evl' = TRUE
  /\ raced' = IF ref[u] # dl THEN raced \cup {u} ELSE raced
  /\ subscribed' = IF dlClosed THEN subscribed ELSE [subscribed EXCEPT ![u] = l]
  /\ UNCHANGED <<subRest, dl, dlClosed, token>>

\* A variant that does not close the listener.
NextFailsOnly(u) ==
  /\ subAt[u] = "next" /\ (held[u] \in token \/ Done)
  /\ Moves(u, "check") /\ held' = [held EXCEPT ![u] = None]
  /\ token' = token \ {held[u]}
  /\ UNCHANGED <<subRest, raced, dl, dlClosed, subscribed, evl, open, made, ref>>

\* Next reads the close of the listener, or that of done; the listener is closed.
NextFails(u) ==
  /\ subAt[u] = "next" /\ (held[u] \in token \/ Done)
  /\ Moves(u, "check") /\ held' = [held EXCEPT ![u] = None]
  /\ open' = open \ {held[u]} /\ token' = token \ {held[u]}
  /\ UNCHANGED <<subRest, raced, dl, dlClosed, subscribed, evl, made, ref>>

-----------------------------------------------------------------------------
(* UnSubscribe.                                                            *)

unRest == <<zkVars, regVars, subVars, destroyAt>>
Steps(u, p) == unAt' = [unAt EXCEPT ![u] = p]

\* getCloseListener: the URL's listener is closed and removed.  Where there is
\* none, the result of UnSubscribeURL is nil and its type assertion panics.
UnSubscribe(u) ==
  /\ unAt[u] = "idle" /\ IsAvailable /\ ~Locked(dl)
  /\ \/ /\ subscribed[u] # None /\ subscribed[u] \notin open
        /\ Steps(u, "done") /\ UNCHANGED <<lisVars, unHeld, panicked>>
     \/ /\ subscribed[u] = None \/ (subscribed[u] \in open /\ dlClosed)
        /\ panicked' = TRUE /\ UNCHANGED <<lisVars, unAt, unHeld>>
     \/ /\ subscribed[u] \in open /\ ~dlClosed
        /\ Steps(u, "take") /\ unHeld' = [unHeld EXCEPT ![u] = subscribed[u]]
        /\ CloseAll({subscribed[u]}) /\ subscribed' = [subscribed EXCEPT ![u] = None]
        /\ UNCHANGED <<dl, dlClosed, evl, made, panicked>>
  /\ UNCHANGED unRest

\* r.listener is taken, and set to nil.
UnSubscribeTakes(u) ==
  /\ unAt[u] = "take" /\ Steps(u, IF evl THEN "close" ELSE "done")
  /\ unHeld' = [unHeld EXCEPT ![u] = IF evl THEN @ ELSE None]
  /\ evl' = FALSE
  /\ UNCHANGED <<unRest, dl, dlClosed, subscribed, open, token, made, panicked>>

\* The whole data listener is closed, with the listeners of the other URLs.
UnSubscribeCloses(u) ==
  /\ unAt[u] = "close" /\ ~Locked(dl) /\ Steps(u, "drain")
  /\ dlClosed' = TRUE /\ CloseAll(Entries)
  /\ UNCHANGED <<unRest, dl, subscribed, evl, made, unHeld, panicked>>

\* Next reads the close of the listener, which Subscribe may have read before.
UnSubscribeDrains(u) ==
  /\ unAt[u] = "drain" /\ (unHeld[u] \in token \/ Done)
  /\ Steps(u, "done") /\ unHeld' = [unHeld EXCEPT ![u] = None]
  /\ token' = token \ {unHeld[u]}
  /\ UNCHANGED <<unRest, dl, dlClosed, subscribed, evl, open, made, panicked>>

-----------------------------------------------------------------------------
(* Destroy.                                                                *)

CloseListener ==
  /\ destroyAt = "idle" /\ ~Locked(dl) /\ destroyAt' = "close"
  /\ dlClosed' = TRUE /\ CloseAll(Entries)
  /\ UNCHANGED <<zkVars, regVars, dl, subscribed, evl, made, subVars, unVars, panicked>>

CloseDone ==
  /\ destroyAt = "close" /\ destroyAt' = "wait"
  /\ UNCHANGED <<zkVars, regVars, lisVars, subVars, unVars, panicked>>

\* What wg counts: the listeners that are not closed, and HandleClientRestart.
WaitGroup == Cardinality(open) + (IF restartAt = "done" THEN 0 ELSE 1)

\* closeRegisters closes r.listener, which is nil after an UnSubscribe.
CloseRegisters ==
  /\ destroyAt = "wait" /\ WaitGroup = 0
  /\ IF evl THEN destroyAt' = "done" /\ services' = None /\ UNCHANGED panicked
     ELSE panicked' = TRUE /\ UNCHANGED <<destroyAt, services>>
  /\ UNCHANGED <<zkVars, caller, ops, restartAt, copy, redo, raced, vanished,
                 lisVars, subVars, unVars>>

-----------------------------------------------------------------------------
Register(k) ==
  \/ RegisterNode(k) \/ RegisterDeletes(k) \/ RegisterAgain(k) \/ RegisterStores(k)
  \/ UnRegisterNode(k) \/ UnRegisterRestores(k)
Restart ==
  \/ RestartCopies \/ RestartEnds \/ InitListenersCloses \/ InitListenersRecovers
  \/ RestartDeletes \/ RestartAgain \/ \E k \in Keys : RestartRegisters(k)
Subscribe(u) == SubscribeChecks(u) \/ GetListenerFinds(u) \/ GetListenerMakes(u)
                \/ NextFails(u)
UnSubscribes(u) == UnSubscribeTakes(u) \/ UnSubscribeCloses(u) \/ UnSubscribeDrains(u)
Destroy == CloseDone \/ CloseRegisters

Next ==
  /\ ~panicked
  /\ \/ Lose \/ Reconnect \/ Expire
     \/ \E k \in Keys : RegisterChecks(k) \/ UnRegister(k) \/ Register(k)
     \/ Restart
     \/ \E u \in Urls : Subscribe(u) \/ UnSubscribe(u) \/ UnSubscribes(u)
     \/ CloseListener \/ Destroy

\* Goroutines run, the client reconnects, and ZooKeeper expires old sessions.
\* Nobody has to call Register, UnRegister, UnSubscribe or Destroy.
Fairness ==
  /\ WF_vars(~panicked /\ Reconnect) /\ WF_vars(~panicked /\ Expire)
  /\ WF_vars(~panicked /\ Restart) /\ WF_vars(~panicked /\ Destroy)
  /\ \A k \in Keys : WF_vars(~panicked /\ Register(k))
  /\ \A u \in Urls : /\ WF_vars(~panicked /\ Subscribe(u))
                     /\ WF_vars(~panicked /\ UnSubscribes(u))

Spec == Init /\ [][Next]_vars /\ Fairness

-----------------------------------------------------------------------------
(* Properties.                                                             *)

\* The values of the variables; a listener that is closed was made, and wg counts
\* the listeners that are not: no listener is both closed and counted, and each that is
\* counted, for which Destroy waits, can be closed: the data listener knows it, or its
\* Subscribe has it.
RegistryInv ==
  /\ owner \in [Keys -> {"none", "session", "former"}] /\ losses \in 0..MaxLosses
  /\ services = None \/ services \subseteq Keys
  /\ copy \subseteq Keys /\ raced \subseteq Keys \cup Urls /\ vanished \subseteq Keys
  /\ redo \in IF restartAt \in InTemp THEN copy ELSE {None}
  /\ open \cap token = {}
  /\ \A l \in open \cup token : l[2] \in 1..made[l[1]]
  /\ \A l \in open : l = subscribed[l[1]] \/ (l = held[l[1]] /\ subAt[l[1]] = "next")
  /\ \A u \in Urls : (subscribed[u] \in open /\ ~dlClosed) => subscribed[u] = <<u, made[u]>>

Quiet(k) == panicked \/ destroyAt # "idle" \/ caller[k] # "idle"

\* Once ZooKeeper is quiet, the services that are stored are the ones that have a
\* node: RestartCallBack has brought back what a lost session took, also what a
\* former session owned for a while.  Two cases are left out: calls that overlapped
\* its copying, and services it gave up on a live connection, because the former
\* session expired between RegisterTemp, which found its node, and Delete.
Restored ==
  <>[](\A k \in Keys \ (raced \cup vanished) :
         Quiet(k) \/ (k \in services <=> owner[k] # "none"))

\* "for reregister when reconnect": every service that is stored is.
AllRestored ==
  <>[](\A k \in Keys \ raced : Quiet(k) \/ (k \in services <=> owner[k] # "none"))

Listening(u) == subAt[u] = "next" /\ held[u] \in open /\ held[u] = subscribed[u]
LeftAlone == ~panicked /\ destroyAt = "idle" /\ \A u \in Urls : unAt[u] = "idle"

\* As long as nobody calls UnSubscribe or Destroy, every Subscribe ends up with a
\* listener that is not closed and that the data listener of the registry knows;
\* except for one that made its listener under the mutex of a former one.
Resubscribed == <>[](LeftAlone => \A u \in Urls \ raced : Listening(u))

\* What a lost session took is back in the end: the nodes and the listeners.
Recovers == Restored /\ Resubscribed

\* "recover all subscribed url": every Subscribe does.
AllResubscribed == <>[](LeftAlone => \A u \in Urls : Listening(u))

\* A restart that overlapped Destroy has put a data listener in place of the one
\* that Destroy closed.
Overtaken == destroyAt # "idle" /\ ~dlClosed

\* Destroy waits for every listener and for HandleClientRestart, and returns,
\* unless a restart overtook it: the listeners that it made are closed by nobody.
DestroyEnds == destroyAt = "wait" ~> destroyAt = "done" \/ panicked \/ Overtaken

\* "wait waitgroup done (wait listeners outside close over)": Destroy returns.
DestroyReturns == destroyAt = "wait" ~> destroyAt = "done" \/ panicked

\* "If don't subscribe, ignore it directly": UnSubscribe does not panic.
NoPanic == ~panicked

\* UnSubscribe returns.
UnSubscribeEnds == \A u \in Urls : unAt[u] = "take" ~> unAt[u] = "done" \/ panicked
=============================================================================
