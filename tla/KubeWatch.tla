------------------------------ MODULE KubeWatch ------------------------------
(***************************************************************************)
(* A consumer's registry on Kubernetes, for one service: the queue of pod  *)
(* events and its worker (registry_controller.go), the watcher set         *)
(* (watch.go), and the goroutines of EventListener that watch it           *)
(* (remoting/kubernetes/listener.go) and tell the registry of providers.   *)
(*                                                                         *)
(* A pod carries its registrations as the records of an annotation: first  *)
(* the path of the service, Root, then the URL of the provider below it,   *)
(* here named by the pod.  The registry registers all of them with the     *)
(* value "", so a key that is in the cache always has the latest value.    *)
(* Kubernetes and its informer are external.                               *)
(***************************************************************************)
EXTENDS Integers, FiniteSets, Sequences

CONSTANTS
  Providers,     \* the provider pods, and their keys
  Self,          \* the pod of this consumer
  Root,          \* the path of the service
  Refers,        \* the references to the service: a caller of Refer each,
  Subs,          \* and the goroutine that it starts to subscribe
  ChanSize       \* defaultWatcherChanSize

\* What the constants have to satisfy.
Parameters ==
  /\ Self \notin Providers /\ Root \notin Providers
  /\ ChanSize \in Nat \ {0} /\ IsFiniteSet(Refers)
  /\ Refers \cap Subs = {}

ASSUME KubeWatchAssumption == Parameters

Pods == Providers \cup {Self}
Keys == Providers \cup {Root}
Worker == "worker"
Threads == Refers \cup Subs \cup {Worker}
Loops == {"prefix", "self"}

VARIABLES
  recs,          \* of each pod, the number of its records
  dead,          \* the pods that were deleted
  store,         \* what the informer knows of recs; 0: no pod with records
  queue,
  ctxDone,       \* the context of the client is cancelled
  cache, watchers,
  at, todo,      \* of each thread, where it is, and the events it has to put
  targets,       \* the watchers that Put has not sent the event to yet
  keyMap, list,
  loop,          \* the goroutines of the prefix and of the path itself
  closeAt, toStop,
  known,         \* the providers that the data listener was told of
  crashed,
  \* history: what the reader of a watcher knows, and the providers that were put
  \* while nobody was about to read them
  view, missed

podVars == <<recs, dead, store, queue>>
setVars == <<cache, watchers, view>>
threadVars == <<at, todo, targets>>
subVars == <<keyMap, list>>
closeVars == <<closeAt, toStop>>
vars == <<podVars, ctxDone, setVars, threadVars, subVars, loop, closeVars, known, crashed,
          missed>>

Event(t, k) == [type |-> t, key |-> k]

\* The records of a pod that has n of them.
Records(p, n) == SubSeq(IF p = Self THEN [i \in 1..n |-> Root] ELSE <<Root, p>>, 1, n)

Init ==
  /\ recs \in {r \in [Pods -> 0..2] : r[Self] = 0} /\ dead = {}
  /\ store = [p \in Pods |-> 0] /\ queue = <<>>
  /\ ctxDone = FALSE
  /\ cache = {} /\ watchers = <<>> /\ view = <<>>
  /\ at = [t \in Threads |-> IF t = Worker THEN "sync"
                             ELSE IF t \in Refers THEN "create" ELSE "check"]
  /\ todo = [t \in Threads |-> <<>>] /\ targets = [t \in Threads |-> {}]
  /\ keyMap = FALSE /\ list = [t \in Subs |-> {}]
  /\ loop = [l \in Loops |-> [at |-> "off", w |-> 0]]
  /\ closeAt = "wait" /\ toStop = {}
  /\ known = {} /\ crashed = FALSE /\ missed = {}

Goto(t, p) == at' = [at EXCEPT ![t] = p]

-----------------------------------------------------------------------------
(* The pods, and the informer of their namespace.  Nobody sees what        *)
(* becomes of the pods after Close: nothing does.                          *)

\* A provider adds its records one by one.
PodChanges(p) ==
  /\ ~ctxDone /\ p \notin dead /\ recs[p] < 2
  /\ recs' = [recs EXCEPT ![p] = @ + 1]
  /\ UNCHANGED <<dead, store, queue, ctxDone, setVars, threadVars, subVars, loop,
                 closeVars, known, crashed, missed>>

PodDies(p) ==
  /\ ~ctxDone /\ p \notin dead /\ recs[p] > 0
  /\ dead' = dead \cup {p}
  /\ UNCHANGED <<recs, store, queue, ctxDone, setVars, threadVars, subVars, loop,
                 closeVars, known, crashed, missed>>

Add(p, t, n) ==
  queue' = Append(queue, [type |-> t, recs |-> Records(p, n)])

Informed(p, n) ==
  /\ store' = [store EXCEPT ![p] = n]
  /\ UNCHANGED <<recs, dead, ctxDone, setVars, threadVars, subVars, loop,
                 closeVars, known, crashed, missed>>

addPod(p) ==
  /\ ~ctxDone /\ p \notin dead /\ store[p] = 0 /\ recs[p] > 0
  /\ Add(p, "create", recs[p])
  /\ Informed(p, recs[p])

updatePod(p) ==
  /\ ~ctxDone /\ p \notin dead /\ store[p] > 0 /\ recs[p] # store[p]
  /\ Add(p, "update", recs[p])
  /\ Informed(p, recs[p])

\* If the informer missed the deletion itself, it hands over a tombstone, which is
\* not a pod.
deletePod(p) ==
  /\ ~ctxDone /\ p \in dead /\ store[p] > 0
  /\ Add(p, "delete", store[p]) \/ UNCHANGED queue
  /\ Informed(p, 0)

-----------------------------------------------------------------------------
(* The watcher set.  Put holds its lock while it sends.                    *)

Unlocked == \A t \in Threads : at[t] # "send"

\* Without the case of a prefix.
InterestedExact(k) == {i \in DOMAIN watchers : watchers[i].key = "self" /\ k = Root}

Interested(k) == {i \in DOMAIN watchers : watchers[i].key = "prefix" \/ k = Root}

\* Where a thread goes after its last event.
After(t, rest) ==
  IF rest # <<>> THEN "put" ELSE IF t = Worker THEN "get" ELSE "done"

\* The reader that the goroutine of the prefix is, or will be: it lists the cache
\* before it watches, and takes one event from each watcher.
WillRead ==
  \/ loop["prefix"].at = "off" /\ \A t \in Subs : at[t] # "tell"
  \/ LET p == loop["prefix"] IN
     p.at = "select" /\ p.w # 0 /\ watchers[p.w].ch = <<>>

Put(t) ==
  /\ at[t] = "put" /\ Unlocked
  /\ LET e == Head(todo[t])
         rest == Tail(todo[t])
         latest == e.type # "delete" /\ e.key \in cache
         W == Interested(e.key)
     IN CASE ctxDone ->
               /\ Goto(t, After(t, <<>>)) /\ todo' = [todo EXCEPT ![t] = <<>>]
               /\ UNCHANGED <<cache, targets, missed>>
          [] ~ctxDone /\ latest ->
               /\ Goto(t, After(t, rest)) /\ todo' = [todo EXCEPT ![t] = rest]
               /\ UNCHANGED <<cache, targets, missed>>
          [] OTHER ->
               /\ cache' = IF e.type = "delete" THEN cache \ {e.key} ELSE cache \cup {e.key}
               /\ targets' = [targets EXCEPT ![t] = W]
               /\ Goto(t, IF W = {} THEN After(t, rest) ELSE "send")
               /\ todo' = [todo EXCEPT ![t] = IF W = {} THEN rest ELSE @]
               /\ missed' = IF e.type # "delete" /\ e.key # Root /\ ~WillRead
                              THEN missed \cup {e.key} ELSE missed
  /\ UNCHANGED <<podVars, ctxDone, watchers, view, subVars, loop, closeVars, known, crashed>>

\* blockSendMsg.  What is new in the cache is sent as a creation.
blockSendMsg(t, i) ==
  /\ at[t] = "send" /\ i \in targets[t]
  /\ LET e == Head(todo[t])
         sent == Event(IF e.type = "delete" THEN "delete" ELSE "create", e.key)
     IN \/ watchers[i].exit /\ UNCHANGED watchers
        \/ /\ Len(watchers[i].ch) < ChanSize
           /\ watchers' = [watchers EXCEPT ![i].ch = Append(@, sent)]
  /\ targets' = [targets EXCEPT ![t] = @ \ {i}]
  /\ IF targets[t] = {i}
       THEN /\ Goto(t, After(t, Tail(todo[t])))
            /\ todo' = [todo EXCEPT ![t] = Tail(@)]
       ELSE UNCHANGED <<at, todo>>
  /\ UNCHANGED <<podVars, ctxDone, cache, view, subVars, loop, closeVars, known, crashed, missed>>

-----------------------------------------------------------------------------
(* The worker.                                                             *)

\* run: the worker starts when the informer has all pods; if the context ends first it
\* never does.
Sync ==
  /\ at[Worker] = "sync"
  /\ \/ /\ \A p \in Pods \ dead : recs[p] > 0 => store[p] > 0
        /\ Goto(Worker, "get")
     \/ ctxDone /\ Goto(Worker, "end")
  /\ UNCHANGED <<podVars, ctxDone, setVars, todo, targets, subVars, loop, closeVars, known,
                 crashed, missed>>

\* The queue is shut down when the context ends, and drained before it says so.
processNextWorkItem ==
  /\ at[Worker] = "get"
  /\ \/ /\ queue # <<>>
        /\ LET item == Head(queue)
               L == [i \in DOMAIN item.recs |-> Event(item.type, item.recs[i])]
           IN todo' = [todo EXCEPT ![Worker] = L] /\ Goto(Worker, After(Worker, L))
        /\ queue' = Tail(queue)
     \/ queue = <<>> /\ ctxDone /\ Goto(Worker, "end") /\ UNCHANGED <<todo, queue>>
  /\ UNCHANGED <<recs, dead, store, ctxDone, setVars, targets, subVars, loop,
                 closeVars, known, crashed, missed>>

-----------------------------------------------------------------------------
(* Refer starts the goroutine of the subscription and registers the        *)
(* reference meanwhile, which creates the path of the service too and puts *)
(* it into the watcher set.                                                *)

Create(t) ==
  /\ at[t] = "create"
  /\ \A u \in Refers : at[u] \notin {"put", "send"}    \* Client.lock
  /\ \/ /\ recs' = [recs EXCEPT ![Self] = @ + 1]
        /\ todo' = [todo EXCEPT ![t] = <<Event("create", Root)>>]
        /\ Goto(t, "put")
     \/ Goto(t, "done") /\ UNCHANGED <<recs, todo>>     \* the patch failed
  /\ UNCHANGED <<dead, store, queue, ctxDone, setVars, targets, subVars, loop,
                 closeVars, known, crashed, missed>>

\* ListenServiceEvent: the check that counts is the second one, with the lock.
CheckKey(t) ==
  /\ at[t] = "check"
  /\ Goto(t, IF keyMap THEN "done" ELSE "children")
  /\ keyMap' = TRUE
  /\ UNCHANGED <<podVars, ctxDone, setVars, todo, targets, list, loop, closeVars, known, crashed,
                 missed>>

GetChildrenNone(t) ==
  /\ at[t] = "children" /\ Unlocked
  /\ Goto(t, "tell")
  /\ UNCHANGED <<podVars, ctxDone, setVars, todo, targets, subVars, loop, closeVars, known,
                 crashed, missed>>

GetChildren(t) ==
  /\ at[t] = "children" /\ Unlocked
  /\ list' = [list EXCEPT ![t] = IF ctxDone THEN {} ELSE cache]
  /\ Goto(t, "tell")
  /\ UNCHANGED <<podVars, ctxDone, setVars, todo, targets, keyMap, loop, closeVars, known,
                 crashed, missed>>

\* DataChange skips a path without "/providers/".
DataChange(K) == known' = known \cup (K \ {Root})

Listen(t) ==
  /\ at[t] = "tell"
  /\ DataChange(list[t]) /\ list' = [list EXCEPT ![t] = {}]
  /\ loop' = [l \in Loops |-> [at |-> "valid", w |-> 0]]
  /\ Goto(t, "done")
  /\ UNCHANGED <<podVars, ctxDone, setVars, todo, targets, keyMap, closeVars, crashed, missed>>

-----------------------------------------------------------------------------
(* ListenServiceNodeEventWithPrefix and ListenServiceNodeEvent: a new      *)
(* watcher for each event.                                                 *)

MoveLoop(l, p, w) == loop' = [loop EXCEPT ![l] = [at |-> p, w |-> w]]

\* valid, before the lock.  The goroutine of the prefix ignores the error and goes on
\* without channels.
Valid(l) ==
  /\ loop[l].at = "valid"
  /\ IF ~ctxDone THEN MoveLoop(l, "add", 0)
                 ELSE MoveLoop(l, IF l = "prefix" THEN "select" ELSE "end", 0)
  /\ UNCHANGED <<podVars, ctxDone, setVars, threadVars, subVars, closeVars, known, crashed,
                 missed>>

\* A watcher that is added while closeWatchers ranges over the map may crash the
\* process.
addWatcher(l) ==
  /\ loop[l].at = "add" /\ Unlocked
  /\ watchers' = Append(watchers, [key |-> l, ch |-> <<>>, exit |-> FALSE])
  /\ view' = Append(view, cache)
  /\ MoveLoop(l, "select", Len(watchers) + 1)
  /\ crashed' \in IF closeAt = "iter" THEN BOOLEAN ELSE {FALSE}
  /\ UNCHANGED <<podVars, ctxDone, cache, threadVars, subVars, closeVars, known, missed>>

SelectDoneWatcher(l) ==
  /\ loop[l].at = "select"
  /\ loop[l].w # 0 /\ watchers[loop[l].w].exit
  /\ MoveLoop(l, "end", 0)
  /\ UNCHANGED <<podVars, ctxDone, setVars, threadVars, subVars, closeVars, known, crashed,
                 missed>>

\* The client or the watcher has stopped.
SelectDone(l) ==
  /\ loop[l].at = "select"
  /\ ctxDone \/ (loop[l].w # 0 /\ watchers[loop[l].w].exit)
  /\ MoveLoop(l, "end", 0)
  /\ UNCHANGED <<podVars, ctxDone, setVars, threadVars, subVars, closeVars, known, crashed,
                 missed>>

Apply(e, C) == IF e.type = "delete" THEN C \ {e.key} ELSE C \cup {e.key}

\* handleEvents: a deletion is reported to no listener, and it ends the goroutine of
\* the path, whose event DataChange skips.
handleEvents(l) ==
  /\ loop[l].at = "select" /\ loop[l].w # 0
  /\ LET w == loop[l].w
         e == Head(watchers[w].ch)
     IN /\ watchers[w].ch # <<>>
        /\ watchers' = [watchers EXCEPT ![w].ch = Tail(@)]
        /\ view' = [view EXCEPT ![w] = Apply(e, @)]
        /\ DataChange(IF l = "prefix" /\ e.type = "create" THEN {e.key} ELSE {})
        /\ MoveLoop(l, IF l = "self" /\ e.type = "delete" THEN "end" ELSE "valid", 0)
  /\ UNCHANGED <<podVars, ctxDone, cache, threadVars, subVars, closeVars, crashed, missed>>

-----------------------------------------------------------------------------
(* The end of the client.                                                  *)

Close ==
  /\ ~ctxDone
  /\ ctxDone' = TRUE
  /\ UNCHANGED <<podVars, setVars, threadVars, subVars, loop, closeVars, known, crashed, missed>>

\* closeWatchers takes the map under the lock and ranges over it without.
closeWatchers ==
  /\ closeAt = "wait" /\ ctxDone /\ Unlocked
  /\ closeAt' = "iter" /\ toStop' = DOMAIN watchers
  /\ UNCHANGED <<podVars, ctxDone, setVars, threadVars, subVars, loop, known, crashed, missed>>

stop ==
  /\ closeAt = "iter"
  /\ closeAt' = "done" /\ toStop' = {}
  /\ \E S \in SUBSET DOMAIN watchers :      \* with some of those that were added meanwhile
       /\ toStop \subseteq S
       /\ watchers' = [i \in DOMAIN watchers |-> [watchers[i] EXCEPT !.exit = @ \/ i \in S]]
  /\ UNCHANGED <<podVars, ctxDone, cache, view, threadVars, subVars, loop, known, crashed, missed>>

-----------------------------------------------------------------------------
Informer(p) == addPod(p) \/ updatePod(p) \/ deletePod(p)

ThreadStep(t) == Put(t) \/ \E i \in DOMAIN watchers : blockSendMsg(t, i)

WorkerStep == Sync \/ processNextWorkItem \/ ThreadStep(Worker)

ReferStep(t) == Create(t) \/ ThreadStep(t)

SubStep(t) == CheckKey(t) \/ GetChildren(t) \/ Listen(t)

LoopStep(l) == Valid(l) \/ addWatcher(l) \/ SelectDone(l) \/ handleEvents(l)

CloseStep == closeWatchers \/ stop

Goroutines ==
  \/ \E p \in Pods : Informer(p)
  \/ WorkerStep
  \/ \E t \in Refers : ReferStep(t)
  \/ \E t \in Subs : SubStep(t)
  \/ \E l \in Loops : LoopStep(l)
  \/ CloseStep

Steps == Goroutines \/ Close \/ \E p \in Providers : PodChanges(p) \/ PodDies(p)

Next == ~crashed /\ Steps

\* While a goroutine can move, one does.  No more is needed: each step here takes its
\* goroutine forward, and the pods change a bounded number of times.
Fairness == WF_vars(~crashed /\ Goroutines)

Spec == Init /\ [][Next]_vars /\ Fairness

-----------------------------------------------------------------------------
(* Properties.                                                             *)

ThreadPoints == {"sync", "get", "put", "send", "end", "create", "check", "children",
                 "tell", "done"}

TypeOK ==
  /\ recs \in [Pods -> 0..(2 + Cardinality(Refers))] /\ dead \subseteq Providers
  /\ at \in [Threads -> ThreadPoints]
  /\ cache \subseteq Keys /\ known \subseteq Providers /\ missed \subseteq Providers
  /\ \A i \in DOMAIN watchers : Len(watchers[i].ch) <= ChanSize
  /\ \A l \in Loops : loop[l].w \in {0} \cup DOMAIN watchers

\* Whoever knew the keys of C knows k after the events of s: the last one of k tells.
KnownAfter(s, C, k) ==
  LET Of == {n \in DOMAIN s : s[n].key = k} IN
  IF Of = {} THEN k \in C
  ELSE \E n \in Of : (\A m \in Of : m <= n) /\ s[n].type # "delete"

\* What the watcher i has been sent, or is about to be.
Stream(i) ==
  LET P == {t \in Threads : i \in targets[t]} IN
  IF P = {} THEN watchers[i].ch
  ELSE Append(watchers[i].ch, Head(todo[CHOOSE t \in P : TRUE]))

\* At most one thread is in Put's loop, and who knew the cache when it began to watch
\* knows it when it has read the stream of its watcher to the end: the last event of
\* a key is neither lost nor overtaken, whoever puts, watches and reads meanwhile.
WatchersInv ==
  /\ TypeOK
  /\ \A t, u \in Threads : at[t] = "send" /\ at[u] = "send" => t = u
  /\ \A i \in DOMAIN watchers, k \in Keys :
       ~watchers[i].exit /\ (watchers[i].key = "prefix" \/ k = Root) =>
         (KnownAfter(Stream(i), view[i], k) <=> k \in cache)

\* Put waits, with the lock, for a watcher that nobody reads any more.
Jammed ==
  /\ closeAt = "wait"
  /\ \E t \in Threads : at[t] = "send" /\
       \E i \in targets[t] : Len(watchers[i].ch) = ChanSize /\
         \A l \in Loops : ~(loop[l].at = "select" /\ loop[l].w = i)

\* A provider that is registered and stays is made known in the end, unless it was put
\* while the listener was between two watchers, or Put is jammed.
ProviderKnown ==
  \A p \in Providers :
    <>[](recs[p] = 2 /\ p \notin dead => p \in known \/ p \in missed \/ ctxDone \/ Jammed)

Ended ==
  /\ at[Worker] = "end" /\ \A t \in Refers \cup Subs : at[t] = "done"
  /\ \A l \in Loops : loop[l].at \in {"off", "end"}
  /\ closeAt = "done"

\* After Close every goroutine ends, unless Put is jammed: then closeWatchers waits for
\* its lock, and it for closeWatchers.
CloseEnds == <>[](ctxDone => Ended \/ Jammed \/ crashed)

\* "will trigger the watcherSet watchers all stopped": after Close they are, if the
\* process lives.
WatchersStop == ctxDone ~> (crashed \/ \A i \in DOMAIN watchers : watchers[i].exit)

\* A provider is made known whenever it is put.
AllKnown ==
  \A p \in Providers :
    (recs[p] = 2 /\ p \notin dead) ~> (p \in known \/ p \in dead \/ ctxDone \/ Jammed)

\* A provider that is gone is withdrawn.
DeadWithdrawn == \A p \in Providers : (p \in dead) ~> (p \notin known \/ ctxDone)
=============================================================================
