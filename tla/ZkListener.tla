----------------------------- MODULE ZkListener -----------------------------
(***************************************************************************)
(* ZkEventListener (remoting/zookeeper/listener.go) on the providers path  *)
(* of a service: the goroutine of listenDirEvent, the goroutines of        *)
(* listenServiceNodeEvent it starts, and what they tell the data listener  *)
(* of the registry, while nodes come and go and the session is lost.       *)
(*                                                                         *)
(* ZooKeeper is external: a watch fires once, and a lost session fires all *)
(* of them.  While the session is lost, Conn is nil.                       *)
(***************************************************************************)
EXTENDS Integers, FiniteSets

CONSTANTS
  Nodes,         \* the names of the children
  Mine,          \* those whose URL is of the subscribed service
  MaxGo,         \* goroutines per node that exist at a time (a bound)
  MaxChanges, MaxLosses,
  None

\* What the constants have to satisfy.
Parameters ==
  /\ Mine \subseteq Nodes /\ None \notin Nodes
  /\ MaxGo \in Nat /\ MaxChanges \in Nat /\ MaxLosses \in Nat

ASSUME ZkListenerAssumption == Parameters

VARIABLES
  exists,        \* the children in ZooKeeper
  conn,          \* Conn is not nil
  changes, losses,
  dirAt,         \* where listenDirEvent is
  children,      \* what GetChildrenW returned
  todo,          \* what is left of the loop over children or newChildren
  child,         \* the node whose path the loop has saved
  gone,          \* what is left of the loop over the old children
  childEvent,    \* childEventCh: no watch, watching, or the event in it
  back,          \* where handleZkNodeEvent returns to
  pathMap,       \* the nodes that have an entry
  go,            \* of each node, its goroutines of listenServiceNodeEvent
  told,          \* of each node, the last event that DataChange accepted
  dataClosed, exit,
  panicked

zkVars == <<exists, conn, changes, losses>>
dirVars == <<dirAt, children, todo, child, gone, back>>
vars == <<zkVars, dirVars, childEvent, pathMap, go, told, dataClosed, exit, panicked>>

Init ==
  /\ exists \in SUBSET Nodes /\ conn = TRUE /\ changes = 0 /\ losses = 0
  /\ dirAt = "get" /\ children = {} /\ todo = {} /\ child = None
  /\ gone = {} /\ back = "get"
  /\ childEvent = "none"
  /\ pathMap = {}
  /\ go = [n \in Nodes |-> {}]
  /\ told = [n \in Nodes |-> "nothing"]
  /\ dataClosed = FALSE /\ exit = FALSE /\ panicked = FALSE

\* The goroutines of a node that are in the same state are numbered from 1; any of
\* them may go on, here the last.
Like(n, g) ==
  {h \in go[n] : h.at = g.at /\ h.counted = g.counted /\ h.from = g.from}
Behind(n, k, g) == [g EXCEPT !.no = k + Cardinality(Like(n, g))]
Last(n) == {g \in go[n] : \A h \in Like(n, g) : h.no <= g.no}

-----------------------------------------------------------------------------
(* ZooKeeper.                                                              *)

\* The watches of the nodes in N fire, and the goroutines go to the point p.
Fire(N, p) ==
  LET Woken(n, g) ==
        IF n \in N /\ g.at = "wait" THEN Behind(n, g.no, [g EXCEPT !.at = p]) ELSE g
  IN go' = [n \in Nodes |-> {Woken(n, g) : g \in go[n]}]
FireChildren(e) == childEvent' = IF childEvent = "watch" THEN e ELSE childEvent

Change ==
  /\ changes < MaxChanges /\ changes' = changes + 1
  /\ UNCHANGED <<conn, losses, dirVars, pathMap, told, dataClosed, exit, panicked>>

Create(n) ==
  /\ n \notin exists /\ exists' = exists \cup {n}
  /\ FireChildren("changed") /\ UNCHANGED go
  /\ Change

Delete(n) ==
  /\ n \in exists /\ exists' = exists \ {n}
  /\ FireChildren("changed") /\ Fire({n}, "deleted")
  /\ Change

SetData(n) ==
  /\ n \in exists /\ Fire({n}, "data")
  /\ UNCHANGED <<exists, childEvent>>
  /\ Change

Lose ==
  /\ conn /\ losses < MaxLosses
  /\ conn' = FALSE /\ losses' = losses + 1
  /\ Fire(Nodes, "exist") /\ FireChildren("notWatching")
  /\ UNCHANGED <<exists, changes, dirVars, pathMap, told, dataClosed, exit, panicked>>

Reconnect ==
  /\ ~conn /\ conn' = TRUE
  /\ UNCHANGED <<exists, changes, losses, dirVars, childEvent, pathMap, go, told,
                 dataClosed, exit, panicked>>

-----------------------------------------------------------------------------
(* RegistryDataListener.                                                   *)

\* DataChange finds a listener of the node's service, and hands it the event.
Accepts(n) == n \in Mine /\ ~dataClosed
DataChange(n, e) == told' = IF Accepts(n) THEN [told EXCEPT ![n] = e] ELSE told

\* The counter of the node's entry, and the check a new goroutine begins with.
Count(n) == Cardinality({g \in go[n] : g.counted})
MayListen(n) == n \in pathMap /\ Count(n) <= 1

\* A goroutine of listenServiceNodeEvent is started if DataChange accepted.
\* (Beyond MaxGo, one that would return at once is left out.)
StartNode(n, from) ==
  IF ~Accepts(n) THEN UNCHANGED go
  ELSE LET g == [at |-> "start", counted |-> FALSE, from |-> from, no |-> 0] IN
       \/ /\ Cardinality(go[n]) < MaxGo
          /\ go' = [go EXCEPT ![n] = go[n] \cup {Behind(n, 1, g)}]
       \/ Cardinality(go[n]) >= MaxGo /\ ~MayListen(n) /\ UNCHANGED go

-----------------------------------------------------------------------------
(* listenDirEvent.                                                         *)

\* "Only need to compare Path when subscribing to provider".
OfService(S) == S \cap Mine

\* GetChildrenW returns the children and sets the watch.  (The providers path is
\* never removed once it exists, so errNilNode is not returned.)
GetChildrenW ==
  /\ dirAt = "get" /\ conn
  /\ children' = exists /\ todo' = OfService(exists)
  /\ childEvent' = "watch" /\ dirAt' = "each"
  /\ UNCHANGED <<zkVars, child, gone, back, pathMap, go, told, dataClosed, exit,
                 panicked>>

\* It fails: the goroutine waits for a while, or for an event of the client.
GetChildrenFails ==
  /\ dirAt = "get" /\ ~conn
  /\ dirAt' = "fail"
  /\ UNCHANGED <<zkVars, child, children, todo, gone, back, childEvent, pathMap, go,
                 told, dataClosed, exit, panicked>>

FailEnds ==
  /\ dirAt = "fail"
  /\ \/ dirAt' = "get"               \* after
     \/ exit /\ dirAt' = "done"
     \/ dirAt' = "handle"            \* event: there are no old children
  /\ UNCHANGED <<zkVars, child, children, todo, gone, back, childEvent, pathMap, go,
                 told, dataClosed, exit, panicked>>

\* "Save the path to avoid listen repeatedly".
SavePath(n) ==
  /\ dirAt = "each" /\ n \in todo
  /\ todo' = todo \ {n}
  /\ pathMap' = pathMap \cup {n}
  /\ IF n \in pathMap THEN UNCHANGED <<dirAt, child>>
     ELSE dirAt' = "add" /\ child' = n
  /\ UNCHANGED <<zkVars, children, gone, back, childEvent, go, told, dataClosed, exit,
                 panicked>>

\* The node of SavePath is announced, unless Conn is nil.
AddChild ==
  /\ dirAt = "add" /\ conn
  /\ DataChange(child, "add") /\ StartNode(child, "dir")
  /\ dirAt' = "each" /\ child' = None
  /\ UNCHANGED <<zkVars, children, todo, gone, back, childEvent, pathMap, dataClosed,
                 exit, panicked>>

AddBreaks ==
  /\ dirAt = "add" /\ ~conn
  /\ dirAt' = "watch" /\ child' = None /\ todo' = {}
  /\ UNCHANGED <<zkVars, children, gone, back, childEvent, pathMap, go, told,
                 dataClosed, exit, panicked>>

EachEnds ==
  /\ dirAt = "each" /\ todo = {}
  /\ dirAt' = "watch"
  /\ UNCHANGED <<zkVars, child, children, todo, gone, back, childEvent, pathMap, go,
                 told, dataClosed, exit, panicked>>

\* The ticker: the provider information is updated.
Tick ==
  /\ dirAt = "watch"
  /\ dirAt' = "handle" /\ back' = "watch"
  /\ UNCHANGED <<zkVars, child, children, todo, gone, childEvent, pathMap, go, told,
                 dataClosed, exit, panicked>>

ChildEvent ==
  /\ dirAt = "watch" /\ childEvent \in {"changed", "notWatching"}
  /\ IF childEvent = "changed" THEN dirAt' = "handle" /\ UNCHANGED children
     ELSE dirAt' = "get" /\ children' = {}
  /\ childEvent' = "none" /\ back' = "get"
  /\ UNCHANGED <<zkVars, child, todo, gone, pathMap, go, told, dataClosed, exit,
                 panicked>>

\* A variant that does not look at exit.
DirExitNever == FALSE /\ UNCHANGED vars

DirExit ==
  /\ dirAt = "watch" /\ exit
  /\ dirAt' = "done"
  /\ UNCHANGED <<zkVars, child, children, todo, gone, back, childEvent, pathMap, go,
                 told, dataClosed, exit, panicked>>

-----------------------------------------------------------------------------
(* handleZkNodeEvent.                                                      *)

\* children is local to a round of the loop of listenDirEvent.
HandleReturns ==
  /\ dirAt' = back /\ back' = "get"
  /\ children' = IF back = "get" THEN {} ELSE children

\* GetChildren fails without a connection, and may (errNilChildren) where there
\* are none; DeadAreForgotten fails also if it never does.
HandleFails ==
  /\ dirAt = "handle" /\ (~conn \/ exists = {})
  /\ HandleReturns
  /\ UNCHANGED <<zkVars, child, todo, gone, childEvent, pathMap, go, told, dataClosed,
                 exit, panicked>>

HandleGet ==
  /\ dirAt = "handle" /\ conn
  /\ todo' = exists /\ gone' = children \ exists
  /\ dirAt' = "new"
  /\ UNCHANGED <<zkVars, child, children, back, childEvent, pathMap, go, told,
                 dataClosed, exit, panicked>>

\* A variant that announces only the nodes that are new.
HandleNewOnly(n) ==
  /\ dirAt = "new" /\ n \in todo
  /\ todo' = todo \ {n}
  /\ IF conn THEN UNCHANGED panicked ELSE panicked' = TRUE
  /\ IF conn /\ n \notin children THEN DataChange(n, "add") /\ StartNode(n, "handle")
     ELSE UNCHANGED <<told, go>>
  /\ UNCHANGED <<zkVars, dirAt, child, children, gone, back, childEvent, pathMap,
                 dataClosed, exit>>

\* Every child is announced; its content is read from Conn, which may be nil.
HandleNew(n) ==
  /\ dirAt = "new" /\ n \in todo
  /\ todo' = todo \ {n}
  /\ IF conn THEN DataChange(n, "add") /\ StartNode(n, "handle") /\ UNCHANGED panicked
     ELSE panicked' = TRUE /\ UNCHANGED <<told, go>>
  /\ UNCHANGED <<zkVars, dirAt, child, children, gone, back, childEvent, pathMap,
                 dataClosed, exit>>

HandleOld(n) ==
  /\ dirAt = "new" /\ todo = {} /\ n \in gone
  /\ gone' = gone \ {n}
  /\ DataChange(n, "del")
  /\ UNCHANGED <<zkVars, dirAt, child, children, todo, back, childEvent, pathMap, go,
                 dataClosed, exit, panicked>>

HandleEnds ==
  /\ dirAt = "new" /\ todo = {} /\ gone = {}
  /\ HandleReturns
  /\ UNCHANGED <<zkVars, child, todo, gone, childEvent, pathMap, go, told, dataClosed,
                 exit, panicked>>

-----------------------------------------------------------------------------
(* listenServiceNodeEvent: a goroutine g of the node n.                    *)

Becomes(n, g, h) == go' = [go EXCEPT ![n] = (go[n] \ {g}) \cup {Behind(n, 1, h)}]
Ends(n, g) == go' = [go EXCEPT ![n] = go[n] \ {g}]
nodeRest == <<zkVars, dirVars, childEvent, dataClosed, exit>>

\* A variant without the limit of two.
NodeStartAlways(n, g) ==
  /\ g.at = "start"
  /\ IF n \in pathMap THEN Becomes(n, g, [g EXCEPT !.at = "exist", !.counted = TRUE])
     ELSE Ends(n, g)
  /\ UNCHANGED <<nodeRest, pathMap, told, panicked>>

\* At most two goroutines listen under one entry of pathMap.
NodeStart(n, g) ==
  /\ g.at = "start"
  /\ IF MayListen(n) THEN Becomes(n, g, [g EXCEPT !.at = "exist", !.counted = TRUE])
     ELSE Ends(n, g)
  /\ UNCHANGED <<nodeRest, pathMap, told, panicked>>

\* ExistW fails when there is no connection or no node.
NodeExistW(n, g) ==
  /\ g.at = "exist"
  /\ IF conn /\ n \in exists THEN Becomes(n, g, [g EXCEPT !.at = "wait"]) ELSE Ends(n, g)
  /\ UNCHANGED <<nodeRest, pathMap, told, panicked>>

\* The content is read from Conn, which may be nil.
NodeDataChanged(n, g) ==
  /\ g.at = "data"
  /\ IF conn /\ n \in exists
       THEN Becomes(n, g, [g EXCEPT !.at = "exist"]) /\ DataChange(n, "add")
       ELSE Ends(n, g) /\ UNCHANGED told
  /\ panicked' = ~conn
  /\ UNCHANGED <<nodeRest, pathMap>>

\* listenServiceNodeEvent counts down and returns true; the event is told.
NodeDeleted(n, g) ==
  /\ g.at = "deleted"
  /\ Becomes(n, g, [g EXCEPT !.at = "unmap", !.counted = FALSE]) /\ DataChange(n, "del")
  /\ UNCHANGED <<nodeRest, pathMap, panicked>>

\* A goroutine of listenDirEvent removes its entry, and with it the counter;
\* one of handleZkNodeEvent removes the entry of the directory, which has none.
NodeUnmap(n, g) ==
  LET Uncounted(h) == IF h.counted THEN Behind(n, h.no, [h EXCEPT !.counted = FALSE]) ELSE h IN
  /\ g.at = "unmap"
  /\ IF g.from = "dir"
       THEN /\ pathMap' = pathMap \ {n}
            /\ go' = [go EXCEPT ![n] = {Uncounted(h) : h \in go[n] \ {g}}]
       ELSE Ends(n, g) /\ UNCHANGED pathMap
  /\ UNCHANGED <<nodeRest, told, panicked>>

NodeExit(n, g) ==
  /\ g.at \in {"wait", "data", "deleted"} /\ exit
  /\ Ends(n, g)
  /\ UNCHANGED <<nodeRest, pathMap, told, panicked>>

-----------------------------------------------------------------------------
(* The registry closes the data listener, and then this one.               *)

CloseData ==
  /\ ~dataClosed /\ dataClosed' = TRUE
  /\ UNCHANGED <<zkVars, dirVars, childEvent, pathMap, go, told, exit, panicked>>

Close ==
  /\ dataClosed /\ ~exit /\ exit' = TRUE
  /\ UNCHANGED <<zkVars, dirVars, childEvent, pathMap, go, told, dataClosed, panicked>>

-----------------------------------------------------------------------------
DirStep ==
  \/ GetChildrenW \/ GetChildrenFails \/ FailEnds
  \/ \E n \in Nodes : SavePath(n)
  \/ AddChild \/ AddBreaks \/ EachEnds \/ ChildEvent \/ DirExit
  \/ HandleFails \/ HandleGet \/ HandleEnds
  \/ \E n \in Nodes : HandleNew(n) \/ HandleOld(n)

NodeStep(n) ==
  \E g \in Last(n) :
    \/ NodeStart(n, g) \/ NodeExistW(n, g) \/ NodeDataChanged(n, g)
    \/ NodeDeleted(n, g) \/ NodeUnmap(n, g)
NodeExits(n) == \E g \in Last(n) : NodeExit(n, g)

Next ==
  /\ ~panicked
  /\ \/ \E n \in Nodes : Create(n) \/ Delete(n) \/ SetData(n)
     \/ Lose \/ Reconnect
     \/ DirStep \/ Tick
     \/ \E n \in Nodes : NodeStep(n) \/ NodeExits(n)
     \/ CloseData \/ Close

\* Goroutines are scheduled, the ticker ticks, and the client reconnects.  A
\* select that has several channels ready takes any: each of them in the end.
Fairness ==
  /\ WF_vars(~panicked /\ DirStep) /\ WF_vars(~panicked /\ Tick)
  /\ WF_vars(~panicked /\ Reconnect)
  /\ SF_vars(~panicked /\ ChildEvent)
  /\ SF_vars(~panicked /\ (DirExit \/ (FailEnds /\ dirAt' = "done")))
  /\ \A n \in Nodes : /\ WF_vars(~panicked /\ NodeStep(n))
                      /\ SF_vars(~panicked /\ NodeExits(n))

Spec == Init /\ [][Next]_vars /\ Fairness

-----------------------------------------------------------------------------
(* Properties.                                                             *)

Goroutine == [at : {"start", "exist", "wait", "data", "deleted", "unmap"},
              counted : BOOLEAN, from : {"dir", "handle"}, no : Nat \ {0}]

\* The values of the variables, and the limit of listenServiceNodeEvent: under
\* one entry of pathMap no more than two goroutines wait for a node.
ListenerInv ==
  /\ exists \subseteq Nodes /\ conn \in BOOLEAN
  /\ changes \in 0..MaxChanges /\ losses \in 0..MaxLosses
  /\ dirAt \in {"get", "fail", "each", "add", "watch", "handle", "new", "done"}
  /\ children \subseteq Nodes /\ todo \subseteq Nodes /\ gone \subseteq children
  /\ child \in Mine \cup {None} /\ (dirAt = "add" <=> child # None)
  /\ childEvent \in {"none", "watch", "changed", "notWatching"}
  /\ back \in {"get", "watch"} /\ pathMap \subseteq Mine
  /\ \A n \in Nodes : go[n] \subseteq Goroutine /\ Count(n) <= 2
  /\ told \in [Nodes -> {"nothing", "add", "del"}]
  /\ dataClosed \in BOOLEAN /\ exit \in BOOLEAN /\ panicked \in BOOLEAN

\* Once ZooKeeper is quiet and the session is back, every provider that is there
\* is known, although a late EventNodeDeleted of its former life may be told
\* after the node was created again.
LiveAreFound ==
  <>[](\A n \in exists \cap Mine : told[n] = "add" \/ dataClosed \/ panicked)

Running(n) == {g \in go[n] : g.at # "unmap"}

\* Close, which waits for wg, returns: every goroutine leaves when exit is closed.
CloseEnds ==
  exit ~> \/ dirAt = "done" /\ \A n \in Nodes : Running(n) = {}
          \/ panicked

\* "Periodically update provider information": once ZooKeeper is quiet, a
\* provider that is gone is no longer known.
DeadAreForgotten ==
  <>[](\A n \in Mine \ exists : told[n] # "add" \/ dataClosed \/ panicked)

\* "When Zk disconnected, the Conn will be set to nil, so here need check the
\* value of Conn": nobody reads from a nil Conn.
NoNilConn == ~panicked
=============================================================================
