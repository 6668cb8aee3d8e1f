------------------------- MODULE GettyClientProofs --------------------------
(***************************************************************************)
(* The connection manager never hands out a closed connection, never       *)
(* closes one under construction and holds none after Close, for any       *)
(* number of threads, closers, connections and sessions.                   *)
(***************************************************************************)
EXTENDS GettyClient, TLAPS

\* Most steps are first-order, and Zenon is the quickest to find them.
USE ZenonT(3), SMT, Zenon, SMTT(20)

\* The initial state satisfies the invariant.
LEMMA InitInv == Init => GettyClientInv
PROOF
  <1> SUFFICES ASSUME Init PROVE GettyClientInv  OBVIOUS
  <1> USE GettyClientAssumption DEF Init
  <1>1. TypeOK  BY DEF TypeOK, Points, Sources
  <1>2. InstalledIsOpen /\ ClosedHoldsNothing /\ CreatedIsAccurate
    BY DEF InstalledIsOpen, ClosedHoldsNothing, CreatedIsAccurate
  <1>3. CreatorKeepsHandle /\ OneCreation /\ SeesItsConn
    BY DEF CreatorKeepsHandle, OneCreation, SeesItsConn, InCreate
  <1>4. LeavesBeforeClose  BY DEF LeavesBeforeClose, Sources
  <1>5. UnusedIsFresh /\ NoneLeftOpen  BY DEF UnusedIsFresh, NoneLeftOpen, Sources
  <1> QED BY <1>1, <1>2, <1>3, <1>4, <1>5 DEF GettyClientInv

\* The steps of a thread that hold no lock for writing move its control point
\* and nothing another actor reads.
LEMMA ThreadInv ==
  ASSUME GettyClientInv, NEW t \in Threads,
         SelectEnter(t) \/ SelectCheck(t) \/ SelectFast(t) \/ SelectSlow(t)
           \/ SelectNew(t)
  PROVE  GettyClientInv'
PROOF
  <1> USE GettyClientAssumption DEF GettyClientInv
  <1>1. /\ UNCHANGED <<clientVars, closing, connVars, sessionVars>>
        /\ panicked' \in BOOLEAN
        /\ \A u \in Threads \ {t} : pc'[u] = pc[u] /\ conn'[u] = conn[u]
        /\ pc'[t] \in Points \ InCreate
        /\ pc'[t] \in InSelect => ~clientClosed
        /\ pc' \in [Threads -> Points]
        /\ conn' \in [Threads -> Conns \cup {None}]
    <2> USE DEF TypeOK, InSelect, InCreate, Points, Leave, clientVars, connVars, sessionVars
    <2>1. CASE SelectEnter(t)  BY <2>1 DEF SelectEnter
    <2>2. CASE SelectCheck(t)  BY <2>2 DEF SelectCheck, ClosedHoldsNothing
    <2>3. CASE SelectFast(t)
      <3>1. CASE gettyClient = None  BY <2>3, <3>1 DEF SelectFast
      <3>2. CASE gettyClient # None  BY <2>3, <3>2 DEF SelectFast
      <3> QED BY <3>1, <3>2
    <2>4. CASE SelectSlow(t)   BY <2>4 DEF SelectSlow
    <2>5. CASE SelectNew(t)    BY <2>5 DEF SelectNew
    <2> QED BY <2>1, <2>2, <2>3, <2>4, <2>5
  <1>2. TypeOK'  BY <1>1 DEF TypeOK, clientVars, connVars, sessionVars
  <1>3. InstalledIsOpen' /\ CreatedIsAccurate'
    BY <1>1 DEF InstalledIsOpen, CreatedIsAccurate, clientVars, connVars
  <1>4. CreatorKeepsHandle'  BY <1>1 DEF CreatorKeepsHandle, connVars
  <1>5. ClosedHoldsNothing'  BY <1>1 DEF ClosedHoldsNothing, clientVars
  <1>6. OneCreation'  BY <1>1 DEF OneCreation, clientVars, InCreate
  <1>7. SeesItsConn'  BY <1>1 DEF SeesItsConn, clientVars, InCreate
  <1>8. \A n : Left(n) => Left(n)'  BY <1>1 DEF Left, clientVars
  <1>9. LeavesBeforeClose'  BY <1>1, <1>8 DEF LeavesBeforeClose, sessionVars, TypeOK
  <1>10. UnusedIsFresh'  BY <1>1 DEF UnusedIsFresh, clientVars, connVars, sessionVars
  <1>11. NoneLeftOpen'  BY <1>1 DEF NoneLeftOpen, connVars, sessionVars
  <1> QED BY <1>2, <1>3, <1>4, <1>5, <1>6, <1>7, <1>9, <1>10, <1>11

\* Creating a Conn under gettyClientMux: the new one is not referred to by any
\* remover or closer, since it was never started.
LEMMA CreateInv ==
  ASSUME GettyClientInv, NEW t \in Threads, Create(t)
  PROVE  GettyClientInv'
PROOF
  <1> USE GettyClientAssumption DEF GettyClientInv
  <1>1. PICK n \in Conns :
          /\ loop[n] = "unused"
          /\ loop' = [loop EXCEPT ![n] = "on"]
          /\ conn' = [conn EXCEPT ![t] = n]
    BY DEF Create
  <1>2. /\ pc' = [pc EXCEPT ![t] = "creating"]
        /\ pc[t] = "slow" /\ gettyClient = None
        /\ \A u \in Threads : pc[u] \notin InCreate
        /\ UNCHANGED <<clientVars, closing, sessions, closed, stopping,
                       sessionVars, panicked>>
    BY DEF Create, GettyClientMuxFree
  <1>3. \A u \in Threads \ {t} : pc'[u] = pc[u] /\ pc'[u] \notin InCreate
    BY <1>2 DEF TypeOK
  <1>4. TypeOK'
    BY <1>1, <1>2 DEF TypeOK, clientVars, sessionVars, Points, InSelect
  <1>5. InstalledIsOpen' /\ CreatedIsAccurate' /\ ClosedHoldsNothing'
    BY <1>2 DEF InstalledIsOpen, CreatedIsAccurate, ClosedHoldsNothing, TypeOK, clientVars,
                InSelect
  <1>6. ~closed[n]  BY <1>1 DEF UnusedIsFresh
  <1>7. CreatorKeepsHandle'
    BY <1>1, <1>2, <1>3, <1>6 DEF CreatorKeepsHandle, TypeOK
  <1>8. OneCreation'
    BY <1>2, <1>3 DEF OneCreation, TypeOK, clientVars, InCreate
  <1>9. SeesItsConn'
    BY <1>1, <1>2, <1>3 DEF SeesItsConn, TypeOK, InCreate
  <1>10. \A m : m # n /\ Left(m) => Left(m)'
    BY <1>1, <1>2, <1>3 DEF Left, TypeOK, clientVars
  <1>11. LeavesBeforeClose'
    <2>1. \A s \in Sessions, src \in Sources :
            rstep[s][src] = "close" => connOf[s] # n /\ Left(connOf[s])
      BY <1>1 DEF UnusedIsFresh, LeavesBeforeClose
    <2>2. \A k \in Closers :
            closing[k].at = "close" /\ closing[k].conn # None =>
              closing[k].conn # n /\ Left(closing[k].conn)
      BY <1>1 DEF UnusedIsFresh, LeavesBeforeClose
    <2> QED BY <1>2, <1>10, <2>1, <2>2 DEF LeavesBeforeClose, sessionVars
  <1>12. UnusedIsFresh'
    BY <1>1, <1>2 DEF UnusedIsFresh, TypeOK, clientVars, sessionVars
  <1>13. NoneLeftOpen'
    BY <1>1, <1>2, <1>6 DEF NoneLeftOpen, TypeOK, sessionVars
  <1> QED BY <1>4, <1>5, <1>7, <1>8, <1>9, <1>11, <1>12, <1>13

\* Installing the Conn under construction.
LEMMA InstallInv ==
  ASSUME GettyClientInv, NEW t \in Threads, Install(t)
  PROVE  GettyClientInv'
PROOF
  <1> USE GettyClientAssumption DEF GettyClientInv
  <1>1. /\ pc[t] = "creating" /\ pc' = [pc EXCEPT ![t] = "installed"]
        /\ gettyClientCreated' = TRUE /\ gettyClient' = conn[t]
        /\ UNCHANGED <<clientClosed, conn, closing, connVars, sessionVars, panicked, orphaned>>
    BY DEF Install
  <1>2. conn[t] \in Conns /\ ~closed[conn[t]] /\ loop[conn[t]] = "on" /\ ~clientClosed
    BY <1>1 DEF SeesItsConn, CreatorKeepsHandle, ClosedHoldsNothing, InCreate, InSelect
  <1>3. \A u \in Threads : pc'[u] \in InCreate => u = t
    BY <1>1 DEF OneCreation, TypeOK, InCreate
  <1>4. TypeOK'
    BY <1>1, <1>2 DEF TypeOK, connVars, sessionVars, Points, InSelect
  <1>5. InstalledIsOpen' /\ CreatedIsAccurate' /\ ClosedHoldsNothing'
    BY <1>1, <1>2 DEF InstalledIsOpen, CreatedIsAccurate, ClosedHoldsNothing, connVars
  <1>6. CreatorKeepsHandle' /\ OneCreation' /\ SeesItsConn'
    BY <1>1, <1>2, <1>3
    DEF CreatorKeepsHandle, OneCreation, SeesItsConn, TypeOK, connVars, InCreate
  <1>7. \A n : Left(n) => Left(n)'
    BY <1>1, <1>3 DEF Left, TypeOK, InCreate
  <1>8. LeavesBeforeClose'
    BY <1>1, <1>7 DEF LeavesBeforeClose, sessionVars
  <1>9. UnusedIsFresh'
    BY <1>1, <1>2 DEF UnusedIsFresh, connVars, sessionVars
  <1>10. NoneLeftOpen'
    BY <1>1 DEF NoneLeftOpen, connVars, sessionVars
  <1> QED BY <1>4, <1>5, <1>6, <1>8, <1>9, <1>10

\* Stopping an event loop, by the creator or by the goroutine of close, puts
\* open sessions into their OnClose.
LEMMA StopInv ==
  ASSUME GettyClientInv, NEW n \in Conns, StopLoop(n),
         \A t \in Threads : pc'[t] \in InCreate => conn[t] # n,
         \/ \E t \in Threads : pc[t] = "creating" /\ Leave(t)
         \/ UNCHANGED threadVars,
         stopping' \subseteq stopping, stopping \ {n} \subseteq stopping',
         UNCHANGED <<clientVars, closing, sessions, closed, connOf, rstep, panicked>>
  PROVE  GettyClientInv'
PROOF
  <1> USE GettyClientAssumption DEF GettyClientInv, StopLoop
  <1>1. /\ pc' \in [Threads -> Points]
        /\ conn' \in [Threads -> Conns \cup {None}]
        /\ \A t \in Threads :
             pc'[t] \in InCreate \/ pc'[t] \in InSelect => pc'[t] = pc[t] /\ conn'[t] = conn[t]
    <2>1. CASE UNCHANGED threadVars  BY <2>1 DEF TypeOK, threadVars
    <2>2. CASE \E t \in Threads : pc[t] = "creating" /\ Leave(t)
      BY <2>2 DEF TypeOK, InCreate, InSelect, Points, Leave
    <2> QED BY <2>1, <2>2
  <1>2. phase' \in [Sessions -> {"free", "open", "onError", "onClose", "gone"}]
    BY DEF TypeOK
  <1>3. \A s \in Sessions : phase'[s] = "free" <=> phase[s] = "free"
    BY DEF TypeOK
  <1>4. TypeOK'
    BY <1>1, <1>2, <1>3 DEF TypeOK, clientVars
  <1>5. InstalledIsOpen' /\ CreatedIsAccurate' /\ ClosedHoldsNothing'
    BY <1>1 DEF InstalledIsOpen, CreatedIsAccurate, ClosedHoldsNothing, clientVars
  <1>6. CreatorKeepsHandle'
    BY <1>1 DEF CreatorKeepsHandle, SeesItsConn, TypeOK
  <1>7. OneCreation' /\ SeesItsConn'
    BY <1>1 DEF OneCreation, SeesItsConn, clientVars, InCreate
  <1>8. \A m : Left(m) => Left(m)'
    BY <1>1 DEF Left, clientVars
  <1>9. LeavesBeforeClose'
    BY <1>8 DEF LeavesBeforeClose
  <1>10. UnusedIsFresh'
    BY <1>3 DEF UnusedIsFresh, TypeOK, clientVars
  <1>11. NoneLeftOpen'
    BY DEF NoneLeftOpen, TypeOK
  <1> QED BY <1>4, <1>5, <1>6, <1>7, <1>9, <1>10, <1>11

\* A connection without a session is given up.
LEMMA CreateFailsInv ==
  ASSUME GettyClientInv, NEW t \in Threads, CreateFails(t)
  PROVE  GettyClientInv'
PROOF
  <1>1. conn[t] \in Conns
    BY DEF GettyClientInv, CreateFails, SeesItsConn, InCreate
  <1>2. \A u \in Threads : pc'[u] \in InCreate => conn[u] # conn[t]
    <2>1. \A u \in Threads : pc'[u] \notin InCreate
      BY DEF CreateFails, Leave, GettyClientInv, OneCreation, TypeOK, InCreate
    <2> QED BY <2>1
  <1> QED BY <1>1, <1>2, StopInv DEF CreateFails

\* Close waits for every selector, so no Conn is under construction.
LEMMA CloseLockInv ==
  ASSUME GettyClientInv, NEW k \in Closers, CloseLock(k)
  PROVE  GettyClientInv'
PROOF
  <1> USE GettyClientAssumption DEF GettyClientInv
  <1>1. /\ closing' = [closing EXCEPT ![k] = [at |-> "close", conn |-> gettyClient]]
        /\ gettyClient' = None /\ clientClosed' = TRUE
        /\ \A t \in Threads : pc[t] \notin InSelect /\ pc[t] \notin InCreate
        /\ UNCHANGED <<gettyClientCreated, threadVars, connVars, sessionVars, panicked, orphaned>>
    BY DEF CloseLock, MuxFree, InSelect, InCreate
  <1>2. TypeOK'
    BY <1>1 DEF TypeOK, threadVars, connVars, sessionVars
  <1>3. InstalledIsOpen' /\ CreatedIsAccurate' /\ ClosedHoldsNothing'
    BY <1>1 DEF InstalledIsOpen, CreatedIsAccurate, ClosedHoldsNothing, threadVars
  <1>4. CreatorKeepsHandle' /\ OneCreation' /\ SeesItsConn'
    BY <1>1 DEF CreatorKeepsHandle, OneCreation, SeesItsConn, threadVars, connVars, InCreate
  <1>5. \A n \in Conns : Left(n)'
    BY <1>1 DEF Left, threadVars
  <1>6. LeavesBeforeClose'
    BY <1>1, <1>5 DEF LeavesBeforeClose, UnusedIsFresh, TypeOK, sessionVars
  <1>7. UnusedIsFresh'
    BY <1>1 DEF UnusedIsFresh, TypeOK, connVars, sessionVars
  <1>8. NoneLeftOpen'
    BY <1>1 DEF NoneLeftOpen, connVars, sessionVars
  <1> QED BY <1>2, <1>3, <1>4, <1>6, <1>7, <1>8

\* Closing a Conn that has left the client disturbs none of the properties.
LEMMA CloseOnceInv ==
  ASSUME GettyClientInv, NEW n \in Conns, CloseOnce(n), Left(n), loop[n] # "unused",
         UNCHANGED <<clientVars, threadVars, loop, connOf>>
  PROVE  /\ sessions' \in [Conns -> SUBSET Sessions]
         /\ closed' \in [Conns -> BOOLEAN]
         /\ stopping' \in SUBSET Conns
         /\ InstalledIsOpen' /\ CreatorKeepsHandle' /\ ClosedHoldsNothing'
         /\ CreatedIsAccurate' /\ OneCreation' /\ SeesItsConn'
         /\ \A m : Left(m) => Left(m)'
         /\ \A m \in Conns : closed'[m] => loop[m] # "unused"
         /\ \A m \in stopping' : closed'[m]
         /\ \A m \in Conns : closed'[m] => m \in stopping' \/ loop[m] = "stopped"
PROOF
  <1> USE DEF GettyClientInv, clientVars, threadVars
  <1>1. /\ sessions' \in [Conns -> SUBSET Sessions]
        /\ closed' \in [Conns -> BOOLEAN]
        /\ stopping' \in SUBSET Conns
        /\ \A m \in Conns : m # n => closed'[m] = closed[m]
        /\ \A m \in stopping' : closed'[m]
        /\ \A m \in Conns : closed'[m] => m \in stopping' \/ loop[m] = "stopped"
    <2>1. CASE closed[n]
      <3>1. UNCHANGED <<sessions, closed, stopping>>  BY <2>1 DEF CloseOnce
      <3> QED BY <3>1 DEF TypeOK, UnusedIsFresh, NoneLeftOpen
    <2>2. CASE ~closed[n]
      <3>1. /\ sessions' = [sessions EXCEPT ![n] = {}]
            /\ closed' = [closed EXCEPT ![n] = TRUE]
            /\ stopping' = stopping \cup {n}
        BY <2>2 DEF CloseOnce
      <3>2. \A m \in Conns : closed'[m] = (m = n \/ closed[m])
        BY <3>1 DEF TypeOK
      <3> QED BY <3>1, <3>2 DEF TypeOK, UnusedIsFresh, NoneLeftOpen
    <2> QED BY <2>1, <2>2
  <1>2. InstalledIsOpen' /\ CreatorKeepsHandle'
    BY <1>1 DEF InstalledIsOpen, CreatorKeepsHandle, Left, SeesItsConn, TypeOK
  <1>3. ClosedHoldsNothing' /\ CreatedIsAccurate' /\ OneCreation' /\ SeesItsConn'
    BY DEF ClosedHoldsNothing, CreatedIsAccurate, OneCreation, SeesItsConn
  <1>4. \A m : Left(m) => Left(m)'
    BY DEF Left
  <1>5. \A m \in Conns : closed'[m] => loop[m] # "unused"
    BY <1>1 DEF UnusedIsFresh
  <1> QED BY <1>1, <1>2, <1>3, <1>4, <1>5

\* Close closes the connection it has taken, if any.
LEMMA CloseConnInv ==
  ASSUME GettyClientInv, NEW k \in Closers, CloseConn(k)
  PROVE  GettyClientInv'
PROOF
  <1> USE GettyClientAssumption DEF GettyClientInv
  <1>1. /\ closing[k].at = "close" /\ closing' = [closing EXCEPT ![k].at = "done"]
        /\ UNCHANGED <<clientVars, threadVars, loop, sessionVars, panicked>>
    BY DEF CloseConn
  <1>2. /\ closing' \in [Closers -> [at : {"idle", "close", "done"}, conn : Conns \cup {None}]]
        /\ \A j \in Closers : closing'[j].conn = closing[j].conn
        /\ \A j \in Closers : closing'[j].at = "close" => closing[j].at = "close"
    BY <1>1 DEF TypeOK
  <1>3. CASE closing[k].conn = None
    <2>1. UNCHANGED <<sessions, closed, stopping>>  BY <1>3 DEF CloseConn
    <2>2. TypeOK'  BY <1>1, <1>2, <2>1 DEF TypeOK, clientVars, threadVars, sessionVars
    <2>3. /\ InstalledIsOpen' /\ CreatorKeepsHandle' /\ ClosedHoldsNothing'
          /\ CreatedIsAccurate' /\ OneCreation' /\ SeesItsConn'
      BY <1>1, <2>1 DEF InstalledIsOpen, CreatorKeepsHandle, ClosedHoldsNothing,
           CreatedIsAccurate, OneCreation, SeesItsConn, clientVars, threadVars
    <2>4. LeavesBeforeClose'
      BY <1>1, <1>2 DEF LeavesBeforeClose, Left, clientVars, threadVars, sessionVars
    <2>5. UnusedIsFresh'
      BY <1>1, <1>2, <2>1 DEF UnusedIsFresh, clientVars, sessionVars
    <2>6. NoneLeftOpen'
      BY <1>1, <2>1 DEF NoneLeftOpen, sessionVars
    <2> QED BY <2>2, <2>3, <2>4, <2>5, <2>6
  <1>4. CASE closing[k].conn # None
    <2> DEFINE n == closing[k].conn
    <2>1. /\ n \in Conns /\ CloseOnce(n) /\ Left(n) /\ loop[n] # "unused"
      BY <1>1, <1>4 DEF CloseConn, TypeOK, LeavesBeforeClose, UnusedIsFresh
    <2>2. UNCHANGED <<clientVars, threadVars, loop, connOf>>
      BY <1>1 DEF sessionVars
    <2> HIDE DEF n
    <2>3. /\ sessions' \in [Conns -> SUBSET Sessions]
          /\ closed' \in [Conns -> BOOLEAN]
          /\ stopping' \in SUBSET Conns
          /\ InstalledIsOpen' /\ CreatorKeepsHandle' /\ ClosedHoldsNothing'
          /\ CreatedIsAccurate' /\ OneCreation' /\ SeesItsConn'
          /\ \A m : Left(m) => Left(m)'
          /\ \A m \in Conns : closed'[m] => loop[m] # "unused"
          /\ \A m \in stopping' : closed'[m]
          /\ \A m \in Conns : closed'[m] => m \in stopping' \/ loop[m] = "stopped"
      BY <2>1, <2>2, CloseOnceInv
    <2>4. TypeOK'  BY <1>1, <1>2, <2>3 DEF TypeOK, clientVars, threadVars, sessionVars
    <2>5. LeavesBeforeClose'
      BY <1>1, <1>2, <2>3 DEF LeavesBeforeClose, sessionVars
    <2>6. UnusedIsFresh'
      BY <1>1, <1>2, <2>3 DEF UnusedIsFresh, clientVars, sessionVars
    <2>7. NoneLeftOpen'
      BY <1>1, <2>3 DEF NoneLeftOpen, sessionVars
    <2> QED BY <2>3, <2>4, <2>5, <2>6, <2>7
  <1> QED BY <1>3, <1>4

\* The goroutine that close started closes the sessions.
LEMMA CloseSessionsInv ==
  ASSUME GettyClientInv, NEW n \in Conns, CloseSessions(n)
  PROVE  GettyClientInv'
PROOF
  <1>1. closed[n]
    BY DEF GettyClientInv, CloseSessions, UnusedIsFresh
  <1>2. \A t \in Threads : pc'[t] \in InCreate => conn[t] # n
    BY <1>1 DEF GettyClientInv, CloseSessions, CreatorKeepsHandle, threadVars
  <1> QED BY <1>2, StopInv DEF CloseSessions, threadVars

\* The steps of the sessions that touch neither the client nor a Conn's life.
LEMMA SessionStepInv ==
  ASSUME GettyClientInv, NEW s \in Sessions,
         \/ \E n \in Conns : OnOpen(n, s)
         \/ SessionBreaks(s) \/ OnCron(s) \/ HeartbeatEnds(s)
         \/ \E src \in Sources : RemoveSession(s, src)
  PROVE  GettyClientInv'
PROOF
  <1> USE GettyClientAssumption DEF GettyClientInv
  <1>1. /\ UNCHANGED <<clientVars, threadVars, closing, loop, closed, stopping, panicked>>
        /\ sessions' \in [Conns -> SUBSET Sessions]
        /\ phase' \in [Sessions -> {"free", "open", "onError", "onClose", "gone"}]
        /\ rstep' \in [Sessions -> [Sources -> {"idle", "beat", "reset", "close"}]]
        /\ connOf' \in [Sessions -> Conns \cup {None}]
        /\ \A x \in Sessions, src \in Sources :
             rstep'[x][src] = "close" => rstep[x][src] = "close" /\ connOf'[x] = connOf[x]
        /\ \A x \in Sessions :
             /\ phase'[x] # "free" => connOf'[x] \in Conns /\ loop[connOf'[x]] # "unused"
             /\ phase'[x] = "free" => \A src \in Sources : rstep'[x][src] = "idle"
             /\ phase'[x] = "open" => \/ phase[x] = "open" /\ connOf'[x] = connOf[x]
                                      \/ loop[connOf'[x]] = "on"
    <2> USE DEF TypeOK, UnusedIsFresh, Sources, connVars
    <2>1. CASE \E n \in Conns : OnOpen(n, s)
      <3>1. PICK n \in Conns : OnOpen(n, s)  BY <2>1
      <3>2. /\ loop[n] = "on" /\ phase[s] = "free"
            /\ phase' = [phase EXCEPT ![s] = "open"]
            /\ connOf' = [connOf EXCEPT ![s] = n]
            /\ sessions' = [sessions EXCEPT ![n] = @ \cup {s}]
            /\ UNCHANGED <<clientVars, threadVars, closing, loop, closed, stopping, rstep,
                           panicked>>
        BY <3>1 DEF OnOpen
      <3> QED BY <3>2
    <2>2. CASE SessionBreaks(s)  BY <2>2 DEF SessionBreaks
    <2>3. CASE OnCron(s)         BY <2>3 DEF OnCron
    <2>4. CASE HeartbeatEnds(s)  BY <2>4 DEF HeartbeatEnds
    <2>5. CASE \E src \in Sources : RemoveSession(s, src)
      <3>1. PICK src \in Sources : RemoveSession(s, src)  BY <2>5
      <3>2. phase[s] # "free" /\ connOf[s] \in Conns
        BY <3>1 DEF RemoveSession
      <3>3. /\ UNCHANGED <<clientVars, threadVars, closing, loop, closed, stopping, connOf,
                           panicked>>
            /\ sessions' = [sessions EXCEPT ![connOf[s]] = @ \ {s}]
            /\ \/ rstep' = [rstep EXCEPT ![s][src] = "reset"] /\ phase' = phase
               \/ /\ rstep' = [rstep EXCEPT ![s][src] = "idle"]
                  /\ phase' = [phase EXCEPT ![s] = AfterCallback(s, src)]
        BY <3>1 DEF RemoveSession
      <3>4. /\ AfterCallback(s, src) \in {"open", "onError", "onClose", "gone"}
            /\ AfterCallback(s, src) = "open" => phase[s] = "open"
        BY <3>2 DEF AfterCallback
      <3>5. /\ rstep' \in [Sessions -> [Sources -> {"idle", "beat", "reset", "close"}]]
            /\ \A x \in Sessions, y \in Sources :
                 x # s \/ y # src => rstep'[x][y] = rstep[x][y]
            /\ rstep'[s][src] # "close"
        <4>1. PICK v \in {"reset", "idle"} : rstep' = [rstep EXCEPT ![s][src] = v]
          BY <3>3
        <4> HIDE DEF Sources
        <4> QED BY <4>1
      <3>6. /\ phase' \in [Sessions -> {"free", "open", "onError", "onClose", "gone"}]
            /\ \A x \in Sessions :
                 /\ phase'[x] = "free" <=> phase[x] = "free"
                 /\ phase'[x] = "open" => phase[x] = "open"
        BY <3>2, <3>3, <3>4
      <3>7. sessions' \in [Conns -> SUBSET Sessions]
        BY <3>2, <3>3
      <3>8. \A x \in Sessions :
              phase'[x] = "free" => \A y \in Sources : rstep'[x][y] = "idle"
        BY <3>2, <3>5, <3>6
      <3> QED BY <3>2, <3>3, <3>5, <3>6, <3>7, <3>8
    <2> QED BY <2>1, <2>2, <2>3, <2>4, <2>5
  <1>2. TypeOK'  BY <1>1 DEF TypeOK, clientVars, threadVars
  <1>3. /\ InstalledIsOpen' /\ CreatorKeepsHandle' /\ ClosedHoldsNothing'
        /\ CreatedIsAccurate' /\ OneCreation' /\ SeesItsConn'
    BY <1>1 DEF InstalledIsOpen, CreatorKeepsHandle, ClosedHoldsNothing,
         CreatedIsAccurate, OneCreation, SeesItsConn, clientVars, threadVars
  <1>4. LeavesBeforeClose'
    <2>1. \A n : Left(n)' <=> Left(n)  BY <1>1 DEF Left, clientVars, threadVars
    <2>2. \A x \in Sessions, y \in Sources :
            rstep'[x][y] = "close" => rstep[x][y] = "close" /\ connOf'[x] = connOf[x]
      BY <1>1
    <2>3. closing' = closing  BY <1>1
    <2> QED BY <2>1, <2>2, <2>3 DEF LeavesBeforeClose
  <1>5. UnusedIsFresh'
    BY <1>1 DEF UnusedIsFresh, clientVars
  <1>6. NoneLeftOpen'
    <2>1. loop' = loop /\ closed' = closed /\ stopping' = stopping  BY <1>1
    <2>2. \A x \in Sessions :
            phase'[x] = "open" => \/ phase[x] = "open" /\ connOf'[x] = connOf[x]
                                 \/ loop[connOf'[x]] = "on"
      BY <1>1
    <2>3. ASSUME NEW n \in Conns, loop[n] = "stopped", NEW x \in Sessions, connOf'[x] = n
          PROVE  phase'[x] # "open"
      BY <2>2, <2>3 DEF NoneLeftOpen
    <2> QED BY <2>1, <2>3 DEF NoneLeftOpen
  <1> QED BY <1>2, <1>3, <1>4, <1>5, <1>6

\* resetRpcConn holds gettyClientMux, so no Conn is under construction and the
\* remover may go on to close its own.
LEMMA ResetInv ==
  ASSUME GettyClientInv, NEW s \in Sessions, NEW src \in Sources, ResetRpcConn(s, src)
  PROVE  GettyClientInv'
PROOF
  <1> USE GettyClientAssumption DEF GettyClientInv
  <1>1. /\ gettyClient' = None /\ gettyClientCreated' = FALSE
        /\ rstep[s][src] = "reset" /\ rstep' = [rstep EXCEPT ![s][src] = "close"]
        /\ \A t \in Threads : pc[t] \notin InCreate
        /\ orphaned' = orphaned \cup ({gettyClient} \ {None, connOf[s]})
        /\ UNCHANGED <<clientClosed, threadVars, closing, connVars, phase, connOf, panicked>>
    BY DEF ResetRpcConn, GettyClientMuxFree
  <1>2. TypeOK'
    BY <1>1 DEF TypeOK, threadVars, connVars, Sources
  <1>3. /\ InstalledIsOpen' /\ CreatorKeepsHandle' /\ ClosedHoldsNothing'
        /\ CreatedIsAccurate' /\ OneCreation' /\ SeesItsConn'
    BY <1>1 DEF InstalledIsOpen, CreatorKeepsHandle, ClosedHoldsNothing,
         CreatedIsAccurate, OneCreation, SeesItsConn, threadVars, InCreate
  <1>4. \A n : n # None => Left(n)'
    BY <1>1 DEF Left, threadVars
  <1>5. \A x \in Sessions, y \in Sources : rstep'[x][y] = "close" => connOf[x] \in Conns
    BY <1>1 DEF UnusedIsFresh, TypeOK
  <1>6. LeavesBeforeClose'
    BY <1>1, <1>4, <1>5 DEF LeavesBeforeClose
  <1>7. UnusedIsFresh'
    BY <1>1 DEF UnusedIsFresh, TypeOK, connVars
  <1>8. NoneLeftOpen'
    BY <1>1 DEF NoneLeftOpen, connVars
  <1> QED BY <1>2, <1>3, <1>6, <1>7, <1>8

\* The Conn a remover closes has left the client.
LEMMA RemoveCloseInv ==
  ASSUME GettyClientInv, NEW s \in Sessions, NEW src \in Sources, RemoveClose(s, src)
  PROVE  GettyClientInv'
PROOF
  <1> USE GettyClientAssumption DEF GettyClientInv
  <1> DEFINE n == connOf[s]
  <1>1. /\ rstep[s][src] = "close" /\ CloseOnce(n)
        /\ rstep' = [rstep EXCEPT ![s][src] = "idle"]
        /\ phase' = [phase EXCEPT ![s] = AfterCallback(s, src)]
        /\ UNCHANGED <<clientVars, threadVars, closing, loop, connOf, panicked>>
    BY DEF RemoveClose
  <1>2. phase[s] # "free" /\ n \in Conns /\ Left(n) /\ loop[n] # "unused"
    BY <1>1 DEF TypeOK, UnusedIsFresh, LeavesBeforeClose
  <1> HIDE DEF n
  <1>3. /\ AfterCallback(s, src) \in {"open", "onError", "onClose", "gone"}
        /\ AfterCallback(s, src) = "open" => phase[s] = "open"
    BY <1>2 DEF AfterCallback, TypeOK
  <1>4. /\ sessions' \in [Conns -> SUBSET Sessions]
        /\ closed' \in [Conns -> BOOLEAN]
        /\ stopping' \in SUBSET Conns
        /\ InstalledIsOpen' /\ CreatorKeepsHandle' /\ ClosedHoldsNothing'
        /\ CreatedIsAccurate' /\ OneCreation' /\ SeesItsConn'
        /\ \A m : Left(m) => Left(m)'
        /\ \A m \in Conns : closed'[m] => loop[m] # "unused"
        /\ \A m \in stopping' : closed'[m]
        /\ \A m \in Conns : closed'[m] => m \in stopping' \/ loop[m] = "stopped"
    BY <1>1, <1>2, CloseOnceInv
  <1>5. /\ rstep' \in [Sessions -> [Sources -> {"idle", "beat", "reset", "close"}]]
        /\ \A x \in Sessions, y \in Sources :
             rstep'[x][y] # "idle" => rstep[x][y] = rstep'[x][y]
    BY <1>1 DEF TypeOK, Sources
  <1>6. /\ phase' \in [Sessions -> {"free", "open", "onError", "onClose", "gone"}]
        /\ \A x \in Sessions :
             /\ phase'[x] = "free" <=> phase[x] = "free"
             /\ phase'[x] = "open" => phase[x] = "open"
    BY <1>1, <1>2, <1>3 DEF TypeOK
  <1>7. TypeOK'
    BY <1>1, <1>4, <1>5, <1>6 DEF TypeOK, clientVars, threadVars
  <1>8. LeavesBeforeClose'
    BY <1>1, <1>4, <1>5 DEF LeavesBeforeClose
  <1>9. UnusedIsFresh'
    <2>1. UnusedIsFresh /\ UNCHANGED <<gettyClient, closing, loop, connOf>>
      BY <1>1 DEF clientVars
    <2>2. ASSUME NEW x \in Sessions, phase'[x] # "free"
          PROVE  loop'[connOf'[x]] # "unused"
      <3>1. phase[x] # "free"  BY <1>6, <2>2
      <3> QED BY <2>1, <3>1 DEF UnusedIsFresh
    <2>3. ASSUME NEW x \in Sessions, NEW y \in Sources, phase'[x] = "free"
          PROVE  rstep'[x][y] = "idle"
      <3>1. rstep[x][y] = "idle"  BY <1>6, <2>1, <2>3 DEF UnusedIsFresh
      <3> QED BY <1>5, <3>1
    <2> QED BY <1>4, <2>1, <2>2, <2>3 DEF UnusedIsFresh
  <1>10. NoneLeftOpen'
    BY <1>1, <1>4, <1>6 DEF NoneLeftOpen
  <1> QED BY <1>4, <1>7, <1>8, <1>9, <1>10

\* Every step preserves the invariant.
LEMMA NextInv == GettyClientInv /\ [Next]_vars => GettyClientInv'
PROOF
  <1> SUFFICES ASSUME GettyClientInv, [Next]_vars PROVE GettyClientInv'  OBVIOUS
  <1>1. ASSUME NEW t \in Threads, SelectEnter(t) \/ ThreadStep(t) PROVE GettyClientInv'
    BY <1>1, ThreadInv, CreateInv, InstallInv, CreateFailsInv DEF ThreadStep
  <1>2. ASSUME NEW k \in Closers, CloseLock(k) \/ CloseConn(k) PROVE GettyClientInv'
    BY <1>2, CloseLockInv, CloseConnInv
  <1>3. ASSUME NEW n \in Conns, CloseSessions(n) \/ \E s \in Sessions : OnOpen(n, s)
        PROVE  GettyClientInv'
    BY <1>3, CloseSessionsInv, SessionStepInv
  <1>4. ASSUME NEW s \in Sessions,
               \/ SessionBreaks(s) \/ OnCron(s) \/ HeartbeatEnds(s)
               \/ \E src \in Sources : RemoverStep(s, src)
        PROVE  GettyClientInv'
    BY <1>4, SessionStepInv, ResetInv, RemoveCloseInv DEF RemoverStep
  <1>5. ASSUME UNCHANGED vars PROVE GettyClientInv'
    <2> USE <1>5 DEF vars, GettyClientInv
    <2>1. TypeOK'  BY DEF TypeOK
    <2>2. InstalledIsOpen' /\ CreatorKeepsHandle' /\ ClosedHoldsNothing'
      BY DEF InstalledIsOpen, CreatorKeepsHandle, ClosedHoldsNothing
    <2>3. CreatedIsAccurate' /\ OneCreation' /\ SeesItsConn'
      BY DEF CreatedIsAccurate, OneCreation, SeesItsConn
    <2>4. LeavesBeforeClose'  BY DEF LeavesBeforeClose, Left
    <2>5. UnusedIsFresh'  BY DEF UnusedIsFresh
    <2>6. NoneLeftOpen'  BY DEF NoneLeftOpen
    <2> QED BY <2>1, <2>2, <2>3, <2>4, <2>5, <2>6
  <1> QED BY <1>1, <1>2, <1>3, <1>4, <1>5 DEF Next

\* The invariant holds in every reachable state of getty_client.go, pool.go and
\* the client callbacks.
THEOREM GettyInvariance == Spec => []GettyClientInv
  BY InitInv, NextInv, PTL DEF Spec

\* selectSession never hands out a Conn that has been closed, although session
\* callbacks, the cron and Close all close Conns concurrently.
THEOREM HandedOutIsOpen == Spec => []InstalledIsOpen
  BY GettyInvariance, PTL DEF GettyClientInv

\* newGettyRPCClientConn never finds its getty client gone when its timeout
\* fires: a Conn under construction is closed by nobody.
THEOREM CreationIsUndisturbed == Spec => [](CreatorKeepsHandle /\ OneCreation)
  BY GettyInvariance, PTL DEF GettyClientInv

\* A Conn that has been closed keeps no session open once its goroutine ran.
THEOREM SessionsEndWithConn == Spec => []NoneLeftOpen
  BY GettyInvariance, PTL DEF GettyClientInv

\* After Close the client holds no Conn for ever, and before it the flag read
\* outside the lock is accurate.
THEOREM CloseIsFinal == Spec => [](ClosedHoldsNothing /\ CreatedIsAccurate)
  BY GettyInvariance, PTL DEF GettyClientInv
=============================================================================
