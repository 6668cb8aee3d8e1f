---------------------------- MODULE GettyClient -----------------------------
(***************************************************************************)
(* The connection manager of the getty transport at the consumer: Client   *)
(* of remoting/getty/getty_client.go, gettyRPCClient of pool.go and the    *)
(* callbacks of RpcClientHandler in listener.go.                           *)
(*                                                                         *)
(* A Client holds at most one gettyRPCClient (a Conn here), which pools    *)
(* the sessions the getty library opens for it.  Request goroutines select *)
(* a session, creating the Conn on demand; session callbacks and the cron  *)
(* remove sessions and, with the last one, drop and close the Conn; Close  *)
(* closes the Client.  Two read-write locks order them: mux, held by a     *)
(* selector throughout, and gettyClientMux, held while a Conn is created.  *)
(* The locks are not variables: who holds them is read off the control     *)
(* points.  The getty library is modelled by what its callbacks do.        *)
(***************************************************************************)
EXTENDS Integers, FiniteSets

CONSTANTS
  Threads,        \* goroutines that call Request, IsAvailable or Connect
  Closers,        \* goroutines that call Close
  Conns,          \* gettyRPCClient objects
  Sessions,       \* getty sessions
  ConnectionNum,  \* sessions getty keeps open for one Conn
  None

Sources == {"callback", "cron"}       \* who runs removeSession for a session

ASSUME GettyClientAssumption ==
  /\ ConnectionNum \in Nat \ {0}
  /\ None \notin Conns /\ None \notin Sessions

VARIABLES
  clientClosed, gettyClient, gettyClientCreated,  \* fields of Client
  pc, conn,   \* of each thread
  closing,                      \* of each closer: where it is, and its Conn
  loop,       \* the event loop of each Conn's getty client
  sessions,   \* the sessions field of each Conn
  closed,     \* once has run: the Conn is closed
  stopping,   \* Conns whose closing goroutine has still to run
  phase,      \* the life of each session
  connOf,     \* the Conn of each session
  rstep,      \* where each remover is in removeSession
  panicked,   \* a nil gettyClient was dereferenced
  orphaned    \* history: the Conns that were dropped on behalf of another one

clientVars == <<clientClosed, gettyClient, gettyClientCreated, orphaned>>
threadVars == <<pc, conn>>
connVars == <<loop, sessions, closed, stopping>>
sessionVars == <<phase, connOf, rstep>>
vars == <<clientClosed, gettyClient, gettyClientCreated, pc, conn,
          closing, loop, sessions, closed, stopping, phase, connOf,
          rstep, panicked, orphaned>>

Init ==
  /\ clientClosed = FALSE /\ gettyClient = None /\ gettyClientCreated = FALSE
  /\ pc = [t \in Threads |-> "idle"]
  /\ conn = [t \in Threads |-> None]
  /\ closing = [k \in Closers |-> [at |-> "idle", conn |-> None]]
  /\ loop = [n \in Conns |-> "unused"]
  /\ sessions = [n \in Conns |-> {}]
  /\ closed = [n \in Conns |-> FALSE]
  /\ stopping = {}
  /\ phase = [s \in Sessions |-> "free"]
  /\ connOf = [s \in Sessions |-> None]
  /\ rstep = [s \in Sessions |-> [src \in Sources |-> "idle"]]
  /\ panicked = FALSE /\ orphaned = {}

\* The control points at which a thread holds mux for reading, and those at
\* which it holds gettyClientMux for writing.
InSelect == {"locked", "fast", "slow", "creating", "installed"}
InCreate == {"creating", "installed"}
MuxFree == \A t \in Threads : pc[t] \notin InSelect
GettyClientMuxFree == \A t \in Threads : pc[t] \notin InCreate

-----------------------------------------------------------------------------
(* selectSession.                                                          *)

\* mux.RLock, then the check of clientClosed: a closed client refuses the call
\* at once.  The last guard is the bound of the model: a call starts while
\* there is an unused Conn left for it.
SelectEnter(t) ==
  /\ pc[t] = "idle"
  /\ ~clientClosed
  /\ Cardinality({n \in Conns : loop[n] = "unused"})
       > Cardinality({x \in Threads : pc[x] \in InSelect})
  /\ pc' = [pc EXCEPT ![t] = "locked"]
  /\ UNCHANGED <<clientVars, conn, closing, connVars, sessionVars, panicked>>

\* The load of gettyClientCreated, outside gettyClientMux.
SelectCheck(t) ==
  /\ pc[t] = "locked"
  /\ pc' = [pc EXCEPT ![t] = IF gettyClientCreated THEN "fast" ELSE "slow"]
  /\ UNCHANGED <<clientVars, conn, closing, connVars, sessionVars,
                 panicked>>

\* The end of selectSession: the thread gets a random session of the Conn, or
\* none, and writes its request there without holding either lock.
Leave(t) ==
  /\ pc' = [pc EXCEPT ![t] = "idle"]
  /\ conn' = [conn EXCEPT ![t] = None]

\* The fast path reads gettyClient, which may have been reset since the check.
SelectFast(t) ==
  /\ pc[t] = "fast"
  /\ GettyClientMuxFree
  /\ IF gettyClient = None
       THEN /\ panicked' = TRUE
            /\ pc' = [pc EXCEPT ![t] = "panic"]
            /\ UNCHANGED conn
       ELSE Leave(t) /\ UNCHANGED panicked
  /\ UNCHANGED <<clientVars, closing, connVars, sessionVars>>

\* The slow path finds a Conn created meanwhile.
SelectSlow(t) ==
  /\ pc[t] = "slow"
  /\ GettyClientMuxFree
  /\ gettyClient # None
  /\ Leave(t)
  /\ UNCHANGED <<clientVars, closing, connVars, sessionVars, panicked>>

\* newGettyRPCClientConn: a getty client is made and its event loop started.
Create(t) ==
  /\ pc[t] = "slow"
  /\ GettyClientMuxFree
  /\ gettyClient = None
  /\ \E n \in Conns :
       /\ loop[n] = "unused"
       /\ loop' = [loop EXCEPT ![n] = "on"]
       /\ conn' = [conn EXCEPT ![t] = n]
  /\ pc' = [pc EXCEPT ![t] = "creating"]
  /\ UNCHANGED <<clientVars, closing, sessions, closed, stopping,
                 sessionVars, panicked>>

\* A session has come up: the new Conn is installed.
Install(t) ==
  /\ pc[t] = "creating"
  /\ sessions[conn[t]] # {}
  /\ gettyClientCreated' = TRUE
  /\ gettyClient' = conn[t]
  /\ pc' = [pc EXCEPT ![t] = "installed"]
  /\ UNCHANGED <<clientClosed, conn, closing, connVars, sessionVars,
                 panicked, orphaned>>

SelectNew(t) ==
  /\ pc[t] = "installed"
  /\ Leave(t)
  /\ UNCHANGED <<clientVars, closing, connVars, sessionVars, panicked>>

\* The getty client of n closes: no session opens any more and those that are
\* open get their OnClose.
StopLoop(n) ==
  /\ loop' = [loop EXCEPT ![n] = "stopped"]
  /\ phase' = [s \in Sessions |->
                 IF connOf[s] = n /\ phase[s] = "open" THEN "onClose" ELSE phase[s]]

\* A variant without the connect timeout.
CreateWaits(t) ==
  /\ pc[t] = "creating"
  /\ UNCHANGED vars

\* No session came up within the connect timeout.
CreateFails(t) ==
  /\ pc[t] = "creating"
  /\ StopLoop(conn[t])
  /\ Leave(t)
  /\ UNCHANGED <<clientVars, closing, sessions, closed,
                 stopping, connOf, rstep, panicked>>

-----------------------------------------------------------------------------
(* Close.                                                                  *)

\* The locked part of Close.  Close is called when the last invoker of the
\* exchange client is destroyed, and by Request after a partial write.
CloseLock(k) ==
  /\ closing[k].at = "idle"
  /\ MuxFree
  /\ closing' = [closing EXCEPT ![k] = [at |-> "close", conn |-> gettyClient]]
  /\ gettyClient' = None
  /\ clientClosed' = TRUE
  /\ UNCHANGED <<gettyClientCreated, threadVars, connVars, sessionVars, panicked, orphaned>>

\* gettyRPCClient.close: once only, the sessions are taken out and a goroutine
\* is started that closes them.
CloseOnce(n) ==
  IF closed[n]
    THEN UNCHANGED <<sessions, closed, stopping>>
    ELSE /\ sessions' = [sessions EXCEPT ![n] = {}]
         /\ closed' = [closed EXCEPT ![n] = TRUE]
         /\ stopping' = stopping \cup {n}

CloseConn(k) ==
  /\ closing[k].at = "close"
  /\ closing' = [closing EXCEPT ![k].at = "done"]
  /\ IF closing[k].conn = None
       THEN UNCHANGED <<sessions, closed, stopping>>
       ELSE CloseOnce(closing[k].conn)
  /\ UNCHANGED <<clientVars, threadVars, loop, sessionVars, panicked>>

\* A variant that forgets to close the getty client.
CloseNothing(n) ==
  /\ n \in stopping
  /\ stopping' = stopping \ {n}
  /\ UNCHANGED <<clientVars, threadVars, closing, loop, sessions, closed, sessionVars,
                 panicked>>

\* The goroutine of gettyRPCClient.close.
CloseSessions(n) ==
  /\ n \in stopping
  /\ stopping' = stopping \ {n}
  /\ StopLoop(n)
  /\ UNCHANGED <<clientVars, threadVars, closing, sessions, closed, connOf, rstep,
                 panicked>>

-----------------------------------------------------------------------------
(* The sessions: the getty library and its callbacks.                      *)

\* getty opens a session, up to ConnectionNum of them; OnOpen adds it.
OnOpen(n, s) ==
  /\ loop[n] = "on"
  /\ phase[s] = "free"
  /\ Cardinality({x \in Sessions : connOf[x] = n /\ phase[x] = "open"}) < ConnectionNum
  /\ phase' = [phase EXCEPT ![s] = "open"]
  /\ connOf' = [connOf EXCEPT ![s] = n]
  /\ sessions' = [sessions EXCEPT ![n] = @ \cup {s}]
  /\ UNCHANGED <<clientVars, threadVars, closing, loop, closed, stopping, rstep, panicked>>

\* The transport fails, with an error or with an orderly end.
SessionBreaks(s) ==
  /\ phase[s] = "open"
  /\ \E p \in {"onError", "onClose"} : phase' = [phase EXCEPT ![s] = p]
  /\ UNCHANGED <<clientVars, threadVars, closing, connVars, connOf, rstep, panicked>>

\* OnCron finds the session and sends a heartbeat, whose callback runs later,
\* in a goroutine of its own, when the answer or the timeout comes.  (An idle
\* session is removed at once, which is the same two steps.)
OnCron(s) ==
  /\ phase[s] # "free"
  /\ s \in sessions[connOf[s]]
  /\ rstep[s]["cron"] = "idle"
  /\ rstep' = [rstep EXCEPT ![s]["cron"] = "beat"]
  /\ UNCHANGED <<clientVars, threadVars, closing, connVars, phase, connOf, panicked>>

\* The heartbeat is answered, or too few have failed to remove the session.
HeartbeatEnds(s) ==
  /\ rstep[s]["cron"] = "beat"
  /\ rstep' = [rstep EXCEPT ![s]["cron"] = "idle"]
  /\ UNCHANGED <<clientVars, threadVars, closing, connVars, phase, connOf, panicked>>

\* The callback that the session's goroutine runs after OnError is OnClose.
AfterCallback(s, src) ==
  IF src = "cron" THEN phase[s]
  ELSE IF phase[s] = "onError" THEN "onClose" ELSE "gone"

\* removeSession, the part under the Conn's lock.  It asks for the Conn to be
\* dropped whenever no session is left, whether or not it removed one.
RemoveSession(s, src) ==
  /\ IF src = "cron"
       THEN rstep[s][src] = "beat"
       ELSE rstep[s][src] = "idle" /\ phase[s] \in {"onError", "onClose"}
  /\ LET n == connOf[s]
         left == sessions[n] \ {s}
     IN /\ sessions' = [sessions EXCEPT ![n] = left]
        /\ IF left = {}
             THEN /\ rstep' = [rstep EXCEPT ![s][src] = "reset"]
                  /\ UNCHANGED phase
             ELSE /\ phase' = [phase EXCEPT ![s] = AfterCallback(s, src)]
                  /\ rstep' = [rstep EXCEPT ![s][src] = "idle"]
  /\ UNCHANGED <<clientVars, threadVars, closing, loop, closed, stopping, connOf, panicked>>

\* A variant of resetRpcConn that leaves the flag set.
ResetKeepsFlag(s, src) ==
  /\ rstep[s][src] = "reset"
  /\ GettyClientMuxFree
  /\ gettyClient' = None
  /\ rstep' = [rstep EXCEPT ![s][src] = "close"]
  /\ UNCHANGED <<clientClosed, gettyClientCreated, threadVars, closing, connVars, phase,
                 connOf, panicked, orphaned>>

\* resetRpcConn: whatever Conn is installed is dropped.  If it is not the one that
\* removeSession goes on to close, nobody closes it.
ResetRpcConn(s, src) ==
  /\ rstep[s][src] = "reset"
  /\ GettyClientMuxFree
  /\ gettyClient' = None
  /\ gettyClientCreated' = FALSE
  /\ orphaned' = orphaned \cup ({gettyClient} \ {None, connOf[s]})
  /\ rstep' = [rstep EXCEPT ![s][src] = "close"]
  /\ UNCHANGED <<clientClosed, threadVars, closing, connVars, phase, connOf, panicked>>

\* The end of removeSession, after which the callback returns.
RemoveClose(s, src) ==
  /\ rstep[s][src] = "close"
  /\ CloseOnce(connOf[s])
  /\ rstep' = [rstep EXCEPT ![s][src] = "idle"]
  /\ phase' = [phase EXCEPT ![s] = AfterCallback(s, src)]
  /\ UNCHANGED <<clientVars, threadVars, closing, loop, connOf, panicked>>

-----------------------------------------------------------------------------
ThreadStep(t) ==
  \/ SelectCheck(t) \/ SelectFast(t) \/ SelectSlow(t) \/ Create(t)
  \/ Install(t) \/ SelectNew(t) \/ CreateFails(t)

RemoverStep(s, src) ==
  RemoveSession(s, src) \/ ResetRpcConn(s, src) \/ RemoveClose(s, src)

\* A panic of a request goroutine ends the process.
Next ==
  /\ ~panicked
  /\ \/ \E t \in Threads : SelectEnter(t) \/ ThreadStep(t)
     \/ \E k \in Closers : CloseLock(k) \/ CloseConn(k)
     \/ \E n \in Conns : CloseSessions(n) \/ \E s \in Sessions : OnOpen(n, s)
     \/ \E s \in Sessions :
          \/ SessionBreaks(s) \/ OnCron(s) \/ HeartbeatEnds(s)
          \/ \E src \in Sources : RemoverStep(s, src)

\* Goroutines are scheduled and the connect timeout fires.  Weak fairness is enough
\* for those that wait for a lock: gettyClientMux is taken for a creation, which ends,
\* and there are as many creations as Conns.  Nothing is assumed of the network, of
\* getty's reconnection, or of callers starting calls.
Fairness ==
  /\ \A t \in Threads : WF_vars(~panicked /\ ThreadStep(t))
  /\ \A k \in Closers : WF_vars(~panicked /\ CloseConn(k))
  /\ \A n \in Conns : WF_vars(~panicked /\ CloseSessions(n))
  /\ \A s \in Sessions :
       /\ WF_vars(~panicked /\ RemoverStep(s, "callback"))
       /\ WF_vars(~panicked /\ rstep[s]["cron"] # "beat" /\ RemoverStep(s, "cron"))

Spec == Init /\ [][Next]_vars /\ Fairness

-----------------------------------------------------------------------------
(* Properties.                                                             *)

Points == InSelect \cup {"idle", "panic"}

\* Every field has a value of its Go type, and a session that has been opened
\* belongs to a Conn.
TypeOK ==
  /\ clientClosed \in BOOLEAN /\ gettyClientCreated \in BOOLEAN
  /\ panicked \in BOOLEAN /\ orphaned \in SUBSET Conns
  /\ gettyClient \in Conns \cup {None}
  /\ pc \in [Threads -> Points]
  /\ conn \in [Threads -> Conns \cup {None}]
  /\ closing \in [Closers -> [at : {"idle", "close", "done"}, conn : Conns \cup {None}]]
  /\ loop \in [Conns -> {"unused", "on", "stopped"}]
  /\ sessions \in [Conns -> SUBSET Sessions]
  /\ closed \in [Conns -> BOOLEAN]
  /\ stopping \in SUBSET Conns
  /\ phase \in [Sessions -> {"free", "open", "onError", "onClose", "gone"}]
  /\ connOf \in [Sessions -> Conns \cup {None}]
  /\ rstep \in [Sessions -> [Sources -> {"idle", "beat", "reset", "close"}]]
  /\ \A s \in Sessions : phase[s] # "free" => connOf[s] \in Conns

\* The Conn that Client hands out has never been closed: whoever closes a Conn
\* (removeSession, Close) has taken it out of Client first, and a Conn still
\* under construction is closed by nobody.
InstalledIsOpen == gettyClient # None => ~closed[gettyClient]

\* newGettyRPCClientConn may call c.gettyClient.Close() when its timeout fires:
\* close, which sets that field to nil, has not run for the Conn although the
\* callbacks of its first sessions may already have asked for it.
CreatorKeepsHandle ==
  \A t \in Threads : pc[t] \in InCreate => ~closed[conn[t]] /\ loop[conn[t]] = "on"

\* A Client that has been closed holds no Conn and gets none again, although
\* Close takes a lock that resetRpcConn and the creation do not share with it.
ClosedHoldsNothing ==
  clientClosed => gettyClient = None /\ \A t \in Threads : pc[t] \notin InSelect

\* Until Close, the flag that lets selectors skip the lock says whether there
\* is a Conn.
CreatedIsAccurate ==
  ~clientClosed => (gettyClientCreated <=> gettyClient # None)

\* The two write sections of gettyClientMux exclude each other: one Conn at a
\* time is under construction, and none while another is installed.
OneCreation ==
  \A t, u \in Threads :
    /\ pc[t] \in InCreate /\ pc[u] \in InCreate => t = u
    /\ pc[t] = "creating" => gettyClient = None

\* A thread between Install and its selection sees the Conn it installed.
SeesItsConn ==
  \A t \in Threads :
    /\ pc[t] \in InCreate => conn[t] \in Conns
    /\ pc[t] = "installed" => gettyClient = conn[t]

\* A Conn that is about to be closed has left the client, and is not under
\* construction.
Left(n) == n # gettyClient /\ \A t \in Threads : pc[t] \in InCreate => conn[t] # n

\* removeSession resets the client before it closes, and so does Close.
LeavesBeforeClose ==
  /\ \A s \in Sessions, src \in Sources : rstep[s][src] = "close" => Left(connOf[s])
  /\ \A k \in Closers :
       closing[k].at = "close" /\ closing[k].conn # None => Left(closing[k].conn)

\* Nothing refers to a Conn that was never started, and only a closed Conn
\* waits for the goroutine of close.
UnusedIsFresh ==
  /\ \A s \in Sessions :
       /\ phase[s] # "free" => loop[connOf[s]] # "unused"
       /\ phase[s] = "free" => \A src \in Sources : rstep[s][src] = "idle"
  /\ gettyClient # None => loop[gettyClient] # "unused"
  /\ \A k \in Closers : closing[k].conn # None => loop[closing[k].conn] # "unused"
  /\ \A n \in Conns : closed[n] => loop[n] # "unused"
  /\ \A n \in stopping : closed[n]

\* No session outlives its Conn: once the goroutine started by close has run,
\* none is open, the ones that OnOpen added between close and that goroutine
\* included.
NoneLeftOpen ==
  \A n \in Conns :
    /\ closed[n] => n \in stopping \/ loop[n] = "stopped"
    /\ loop[n] = "stopped" => \A s \in Sessions : connOf[s] = n => phase[s] # "open"

\* The inductive invariant of the connection manager: the six properties
\* above need the order in which removeSession and Close take a Conn out of
\* the client and close it.
GettyClientInv ==
  /\ TypeOK
  /\ InstalledIsOpen
  /\ CreatorKeepsHandle
  /\ ClosedHoldsNothing
  /\ CreatedIsAccurate
  /\ OneCreation
  /\ SeesItsConn
  /\ LeavesBeforeClose
  /\ UnusedIsFresh
  /\ NoneLeftOpen

\* selectSession returns: nobody waits for ever on mux or gettyClientMux.
SelectEnds ==
  \A t \in Threads : pc[t] \in InSelect ~> (pc[t] \notin InSelect \/ panicked)

\* A Client that is closed ends every connection it has made, the one that is handed
\* out, those that failed to come up and those that removeSession is about to close,
\* except one that resetRpcConn dropped on behalf of another.
CloseLeavesNothing ==
  clientClosed ~> (panicked \/ \A n \in Conns : loop[n] = "on" => n \in orphaned)

\* Without the exception.
CloseEndsAll == clientClosed ~> (panicked \/ \A n \in Conns : loop[n] # "on")

\* IsAvailable promises that the connection "can be re-established": a reset
\* Client is found empty, and no selector dereferences the nil gettyClient.
NoNilDereference == ~panicked
=============================================================================
